------------------------- MODULE VoiceCombinations -------------------------
(***************************************************************************)
(* Combinations of voice models that a tenant saves, has measured by the   *)
(* model host, enables and uses in its activities.                         *)
(*                                                                         *)
(* Every step on the database starts with the lock on the tenant and ends  *)
(* with a commit; the model host is asked between two such steps, for      *)
(* minutes, and meanwhile combinations are changed, checked and tested by  *)
(* others.  What the host says is a configuration: the models selected by  *)
(* a version of the combination at the revision the host has of them.      *)
(***************************************************************************)
EXTENDS Naturals, Sequences, FiniteSets

CONSTANTS
    Combinations, Admins, Operators,
    MaxVersions, MaxReports, MaxChecks, MaxRevisions,  \* bounds
    None

\* Of the constants; assumed where an instance gives them values.
CombinationsAssumption ==
    /\ {MaxVersions, MaxReports, MaxChecks, MaxRevisions} \subseteq Nat
    /\ Admins \cap Operators = {}
    /\ None \notin Nat

VARIABLES
    combinations,   \* rows of VoiceCombination
    reports,        \* rows of VoiceBenchmark, in the order of created_at
    runs,           \* requests in run_comparison
    checks,         \* requests in connection, waiting for the host
    revision,       \* of the models on the host
    revoked,        \* members who are not active
    choice,         \* the snapshot of the combination an activity is bound to
    asked           \* number of connection checks

vars == <<combinations, reports, runs, checks, revision, revoked, choice, asked>>
rows == <<combinations, reports>>

-----------------------------------------------------------------------------
NoConnection == [status |-> "none", request |-> None, configuration |-> None]

Init ==
    /\ combinations = [c \in Combinations |->
           [version |-> 0, connection |-> NoConnection, enabled |-> None, enabled_by |-> None,
            active |-> None]]
    /\ reports = <<>>
    /\ runs = {} /\ checks = {}
    /\ revision = 1 /\ revoked = {}
    /\ choice = None
    /\ asked = 0

\* current_actor
Authorized(actor, revoke) ==
    actor \in (IF revoke THEN Admins ELSE Admins \cup Operators) \ revoked

Running(r) == reports[r].status = "running"

\* active_report
ActiveReport(row) == row.active # None /\ Running(row.active) /\ ~reports[row.active].expired

\* fresh_report: the combination may be used.
Fresh(row) ==
    /\ row.active # None => ~(Running(row.active) /\ reports[row.active].expired)
    /\ row.enabled # None /\ row.enabled_by \in Admins \ revoked
    /\ LET report == reports[row.enabled] IN
         /\ report.version = row.version /\ report.status = "passed" /\ ~report.expired
         /\ row.connection.status = "prepared"
         /\ row.connection.configuration = report.configuration

-----------------------------------------------------------------------------
\* A test whose time is over no longer stands in the way of a change.
Occupied(row) == row.active # None /\ ~reports[row.active].expired

Save(c, actor) ==
    LET row == combinations[c] IN
    /\ Authorized(actor, TRUE)
    /\ ~Occupied(row)
    /\ row.version < MaxVersions
    /\ combinations' = [combinations EXCEPT ![c] =
           [version |-> row.version + 1, connection |-> NoConnection, enabled |-> None,
            enabled_by |-> None, active |-> None]]
    /\ UNCHANGED <<reports, runs, checks, revision, revoked, choice, asked>>

-----------------------------------------------------------------------------
(* connection *)

ConnectionStarts(c, actor) ==
    LET row == combinations[c] IN
    /\ Authorized(actor, TRUE)
    /\ row.version > 0 /\ ~ActiveReport(row)
    /\ asked < MaxChecks
    /\ asked' = asked + 1
    /\ combinations' = [combinations EXCEPT ![c] =
           [row EXCEPT !.active = None, !.enabled = None, !.enabled_by = None,
                       !.connection = [status |-> "checking", request |-> asked + 1,
                                       configuration |-> None]]]
    /\ checks' = checks \cup {[request |-> asked + 1, combination |-> c, version |-> row.version,
                               actor |-> actor, since |-> revision]}
    /\ UNCHANGED <<reports, runs, revision, revoked, choice>>

\* What the host can have said since it was asked.
Answers(version, since) ==
    {[status |-> "prepared", request |-> None, configuration |-> <<version, r>>] :
        r \in since..revision}
    \cup {[status |-> "unavailable", request |-> None, configuration |-> None]}

\* Another version, another request or a test has come in between: the answer is dropped.
ConnectionEnds(check) ==
    LET c == check.combination  row == combinations[c] IN
    /\ checks' = checks \ {check}
    /\ IF /\ Authorized(check.actor, TRUE) /\ row.version = check.version
          /\ row.connection.request = check.request /\ row.active = None
       THEN \E answer \in Answers(check.version, check.since) :
                combinations' = [combinations EXCEPT ![c] =
                    [row EXCEPT !.enabled = None, !.enabled_by = None, !.connection = answer]]
       ELSE UNCHANGED combinations
    /\ UNCHANGED <<reports, runs, revision, revoked, choice, asked>>

-----------------------------------------------------------------------------
(* run_comparison *)

Reservable(row) ==
    row.version > 0 /\ row.connection.status # "checking" /\ ~Occupied(row)

Reserve(actor, members, revoke) ==
    LET n == Len(members)
        Report(i) == Len(reports) + i
        Place(c) == CHOOSE i \in 1..n : members[i] = c
    IN
    /\ Authorized(actor, revoke)
    /\ \A i \in 1..n : Reservable(combinations[members[i]])
    /\ Len(reports) + n <= MaxReports
    /\ reports' = reports \o
           [i \in 1..n |-> [combination |-> members[i], version |-> combinations[members[i]].version,
                            status |-> "running", expired |-> FALSE, configuration |-> None]]
    /\ combinations' = [c \in Combinations |->
           IF \A i \in 1..n : members[i] # c THEN combinations[c]
           ELSE [combinations[c] EXCEPT !.active = Report(Place(c)),
                                        !.enabled = IF revoke THEN None ELSE @,
                                        !.enabled_by = IF revoke THEN None ELSE @]]
    /\ runs' = runs \cup {[actor |-> actor, revoke |-> revoke,
                           reserved |-> [i \in 1..n |-> Report(i)], at |-> 1, phase |-> "reserved",
                           expected |-> None, since |-> 0]}
    /\ UNCHANGED <<checks, revision, revoked, choice, asked>>

Compare == \E actor \in Admins, n \in 1..Cardinality(Combinations) :
           \E members \in [1..n -> Combinations] :
               /\ \A i, j \in 1..n : members[i] = members[j] => i = j
               /\ Reserve(actor, members, TRUE)

\* activity_choice: what was chosen is what is enabled.
Current ==
    /\ choice # None
    /\ LET row == combinations[choice.combination] IN
       Fresh(row) /\ row.version = choice.version /\ row.enabled = choice.report

ActivityTest == \E actor \in Admins \cup Operators :
    Current /\ Reserve(actor, <<choice.combination>>, FALSE)

Goes(run, next) == runs' = (runs \ {run}) \cup {next}
Report(run) == run.reserved[run.at]
Row(run) == combinations[reports[Report(run)].combination]

\* The gate of the host admits one test.
HostBusy == \E run \in runs : run.phase = "probing"

\* Before the host is asked.
Recheck(run) ==
    /\ run.phase = "reserved"
    /\ IF /\ Authorized(run.actor, run.revoke)
          /\ Row(run).version = reports[Report(run)].version
          /\ run.revoke \/ Fresh(Row(run))
          /\ Row(run).active = Report(run)
       THEN Goes(run, [run EXCEPT
                !.phase = IF HostBusy THEN "refused" ELSE "probing",
                !.expected = Row(run).connection.configuration, !.since = revision])
       ELSE Goes(run, [run EXCEPT !.phase = "raised"])
    /\ UNCHANGED <<rows, checks, revision, revoked, choice, asked>>

\* What the host measured, and None when it failed, which loading the models may do for
\* many reasons, or its models are not those expected.
Measured(run) ==
    LET loaded == {<<reports[Report(run)].version, r>> : r \in run.since..revision} IN
    {None} \cup
    {configuration \in loaded :
        run.phase = "probing" /\ run.expected \in {None, configuration}}

\* After the host has answered.
Verdict(run, configuration) ==
    IF Row(run).version # reports[Report(run)].version \/ Row(run).active # Report(run) THEN "stale"
    ELSE IF ~run.revoke /\ ~Fresh(Row(run)) THEN "blocked"
    ELSE IF configuration = None THEN "failed"
    ELSE "passed"

Finish(run) ==
    /\ run.phase \in {"probing", "refused"}
    /\ IF ~Authorized(run.actor, run.revoke)
       THEN Goes(run, [run EXCEPT !.phase = "raised"]) /\ UNCHANGED rows
       ELSE \E configuration \in Measured(run) :
         LET status == Verdict(run, configuration)  row == Row(run) IN
         /\ reports' = [reports EXCEPT ![Report(run)] =
                [@ EXCEPT !.status = status, !.expired = FALSE,
                          !.configuration = IF status = "passed" THEN configuration ELSE None]]
         /\ combinations' = [combinations EXCEPT ![reports[Report(run)].combination] =
                IF row.active # Report(run) THEN row
                ELSE [row EXCEPT
                        !.active = None,
                        !.connection = [status |-> IF status = "passed" THEN "prepared"
                                                   ELSE "unavailable",
                                        request |-> None,
                                        configuration |-> IF status = "passed" THEN configuration
                                                          ELSE None],
                        !.enabled = IF status = "passed" THEN row.enabled ELSE None,
                        !.enabled_by = IF status = "passed" THEN row.enabled_by ELSE None]]
         /\ IF run.at = Len(run.reserved) THEN runs' = runs \ {run}
            ELSE Goes(run, [run EXCEPT !.at = @ + 1, !.phase = "reserved", !.expected = None,
                                      !.since = 0])
    /\ UNCHANGED <<checks, revision, revoked, choice, asked>>

\* The handler of HTTPException.
Abandon(run) ==
    LET mine == {run.reserved[i] : i \in 1..Len(run.reserved)} IN
    /\ run.phase = "raised"
    /\ reports' = [r \in 1..Len(reports) |->
           IF r \in mine /\ Running(r) THEN [reports[r] EXCEPT !.status = "blocked"] ELSE reports[r]]
    /\ combinations' = [c \in Combinations |->
           IF combinations[c].active \in mine
           THEN [combinations[c] EXCEPT !.active = None, !.enabled = None, !.enabled_by = None]
           ELSE combinations[c]]
    /\ runs' = runs \ {run}
    /\ UNCHANGED <<checks, revision, revoked, choice, asked>>

-----------------------------------------------------------------------------
\* Mutant: any passed report of the version will do.
Latest_Passed(c) == {r \in 1..Len(reports) : reports[r].combination = c
                        /\ reports[r].version = combinations[c].version
                        /\ reports[r].status = "passed"}

\* The report of this version that was made last.
Latest(c) ==
    LET mine == {r \in 1..Len(reports) : reports[r].combination = c
                    /\ reports[r].version = combinations[c].version}
    IN {r \in mine : \A other \in mine : other <= r}

Enable(c, actor) ==
    LET row == combinations[c] IN
    /\ Authorized(actor, TRUE)
    /\ ~ActiveReport(row)
    /\ row.connection.status = "prepared"
    /\ \E r \in Latest(c) :
         /\ reports[r].status = "passed" /\ ~reports[r].expired
         /\ row.connection.configuration = reports[r].configuration
         /\ combinations' = [combinations EXCEPT ![c] =
                [row EXCEPT !.enabled = r, !.enabled_by = actor]]
    /\ UNCHANGED <<reports, runs, checks, revision, revoked, choice, asked>>

\* bind
Bind(c, actor) ==
    LET row == combinations[c] IN
    /\ Authorized(actor, FALSE)
    /\ Fresh(row) /\ ~ActiveReport(row)
    /\ choice' = [combination |-> c, version |-> row.version, report |-> row.enabled]
    /\ UNCHANGED <<rows, runs, checks, revision, revoked, asked>>

-----------------------------------------------------------------------------
(* What happens meanwhile *)

\* An hour for a test and a day for its report; nobody asks for the age of any other report.
Expires(r) ==
    /\ ~reports[r].expired /\ reports[r].status \in {"running", "passed"}
    /\ reports' = [reports EXCEPT ![r].expired = TRUE]
    /\ UNCHANGED <<combinations, runs, checks, revision, revoked, choice, asked>>

ModelsChange ==
    /\ revision < MaxRevisions
    /\ revision' = revision + 1
    /\ UNCHANGED <<rows, runs, checks, revoked, choice, asked>>

MembershipChanges(actor) ==
    /\ revoked' = IF actor \in revoked THEN revoked \ {actor} ELSE revoked \cup {actor}
    /\ UNCHANGED <<rows, runs, checks, revision, choice, asked>>

\* The process dies, or the database does not answer.
RunCrashes(run) ==
    /\ runs' = runs \ {run}
    /\ UNCHANGED <<rows, checks, revision, revoked, choice, asked>>

CheckCrashes(check) ==
    /\ checks' = checks \ {check}
    /\ UNCHANGED <<rows, runs, revision, revoked, choice, asked>>

Next ==
    \/ \E c \in Combinations, actor \in Admins \cup Operators :
           \/ Save(c, actor) \/ ConnectionStarts(c, actor) \/ Enable(c, actor) \/ Bind(c, actor)
    \/ \E check \in checks : ConnectionEnds(check) \/ CheckCrashes(check)
    \/ Compare \/ ActivityTest
    \/ \E run \in runs : Recheck(run) \/ Finish(run) \/ Abandon(run) \/ RunCrashes(run)
    \/ \E r \in 1..Len(reports) : Expires(r)
    \/ ModelsChange
    \/ \E actor \in Admins \cup Operators : MembershipChanges(actor)

Spec == Init /\ [][Next]_vars

-----------------------------------------------------------------------------
(* Properties *)

\* A combination that may be used has no later verdict against it: whatever test of the same
\* version was begun after the one it was enabled on is under way in its name, or has passed
\* with the same models.
NoVerdictAgainst ==
    \A c \in Combinations : Fresh(combinations[c]) =>
        \A r \in (combinations[c].enabled + 1)..Len(reports) :
            /\ reports[r].combination = c
            /\ reports[r].version = combinations[c].version
            => \/ reports[r].status = "running" /\ combinations[c].active = r
               \/ /\ reports[r].status = "passed"
                  /\ reports[r].configuration = reports[combinations[c].enabled].configuration

\* A test in its time owns its combination: nobody else tests, checks or changes it.
TestsAreExclusive ==
    \A r \in 1..Len(reports) : Running(r) /\ ~reports[r].expired =>
        LET row == combinations[reports[r].combination] IN
        /\ row.active = r /\ row.version = reports[r].version
        /\ row.connection.status # "checking"
=============================================================================
