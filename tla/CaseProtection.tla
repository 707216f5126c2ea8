--------------------------- MODULE CaseProtection ---------------------------
(***************************************************************************)
(* Protection incidents block a case, two people release it, and the       *)
(* outreach activities that contain the case are to stop meanwhile.        *)
(*                                                                         *)
(* Opening an incident and deciding its release are transactions that hold *)
(* the row lock of the case, and are a step that reads under the lock and  *)
(* a step that commits.  The endpoints that create and steer activities    *)
(* read without locks and update by primary key; they too are reads and a  *)
(* commit.                                                                 *)
(***************************************************************************)
EXTENDS Naturals, FiniteSets

CONSTANTS
    Cases,          \* cases of one asset package
    Signed,         \* those with a signed repayment plan
    Incidents,      \* source_event_id of the protection incidents
    CaseOf,         \* [Incidents -> Cases]
    Holds,          \* the incidents of category stop_contact
    Actors,         \* operators and admins
    Desks,          \* concurrent requests that open or decide an incident
    Apis,           \* concurrent requests that create or steer activities
    MaxActivities,  \* bound: activities created
    Proposals,      \* action proposals of the agent
    MaxVersion,     \* bound: versions of one incident
    Overlap,        \* bound: may activity and protection requests overlap
    None            \* SQL NULL

ASSUME ProtectionAssumption ==
    /\ Signed \subseteq Cases
    /\ CaseOf \in [Incidents -> Cases]
    /\ Holds \subseteq Incidents
    /\ MaxActivities \in Nat /\ MaxVersion \in Nat \ {0}
    /\ Overlap \in BOOLEAN
    /\ None \notin Cases \cup Incidents \cup Actors \cup Proposals

VARIABLES
    cases,      \* [Cases -> the columns blocked and status]
    incidents,  \* [Incidents -> protection_incidents row, or None]
    screens,    \* [Actors -> the proposal an admin has open, or None]
    desks,      \* [Desks -> control state of the request]
    activities, \* [1 .. MaxActivities -> activities row, or None]
    proposals,  \* [Proposals -> agent_proposals row, or None]
    apis        \* [Apis -> control state of the request]

caseVars == <<cases, incidents, screens, desks>>
activityVars == <<activities, proposals, apis>>
vars == <<cases, incidents, screens, desks, activities, proposals, apis>>

-----------------------------------------------------------------------------
(* Types *)

Activities == 1 .. MaxActivities

Case == [blocked : BOOLEAN, status : {"contactable", "protected", "reassess"}]

ActiveStatuses == {"open", "pending_review", "permanent_hold"}

\* The reviewer of an incident is never the one who proposed its release.
Incident ==
    {row \in [status   : ActiveStatuses \cup {"resolved"},
              version  : 1 .. MaxVersion,
              proposer : Actors \cup {None},
              reviewer : Actors \cup {None}] :
        row.reviewer # None => row.proposer \notin {None, row.reviewer}}

Screen == [incident : Incidents, version : 1 .. MaxVersion]

Desk == [pc       : {"idle", "opening", "rejecting", "approving"},
         incident : Incidents \cup {None},
         actor    : Actors \cup {None},
         hits     : SUBSET Activities,
         releases : BOOLEAN]

Activity == [status  : {"running", "paused", "blocked"},
             members : SUBSET Cases]

Proposal == [kind     : {"pause", "resume"},
             activity : Activities,
             status   : {"pending", "confirmed", "expired"}]

Api == [pc       : {"idle", "count", "create", "update"},
        activity : Activities \cup {None},
        from     : {"none", "running", "paused"},
        to       : {"none", "running", "paused"},
        members  : SUBSET Cases,
        proposal : Proposals \cup {None}]

\* SQL NULL is no row.
ASSUME NoneIsNoRow == None \notin Incident \cup Activity \cup Proposal \cup Screen

IdleDesk == [pc |-> "idle", incident |-> None, actor |-> None, hits |-> {},
             releases |-> FALSE]

IdleApi == [pc |-> "idle", activity |-> None, from |-> "none", to |-> "none",
            members |-> {}, proposal |-> None]

-----------------------------------------------------------------------------
Init ==
    /\ cases = [c \in Cases |-> [blocked |-> FALSE, status |-> "contactable"]]
    /\ incidents = [i \in Incidents |-> None]
    /\ screens = [a \in Actors |-> None]
    /\ desks = [d \in Desks |-> IdleDesk]
    /\ activities = [a \in Activities |-> None]
    /\ proposals = [p \in Proposals |-> None]
    /\ apis = [r \in Apis |-> IdleApi]

Busy(i) == \E d \in Desks : desks[d].incident = i

\* Mutant: the case row is read without FOR UPDATE.
CaseUnlocked_NoLock(c) == TRUE

\* SELECT ... FOR UPDATE of the case row gets through.
CaseUnlocked(c) ==
    \A d \in Desks : desks[d].pc # "idle" => CaseOf[desks[d].incident] # c

\* A bound of the instance, not of the program.
DesksMayStart == Overlap \/ \A r \in Apis : apis[r].pc = "idle"

ApisMayStart == Overlap \/ \A d \in Desks : desks[d].pc = "idle"

Active(i) == incidents[i] # None /\ incidents[i].status \in ActiveStatuses

Pending(i) == incidents[i] # None /\ incidents[i].status = "pending_review"

-----------------------------------------------------------------------------
(* open_protection_incident *)

\* Mutant: only running activities are looked for.
Affected_RunningOnly(c) ==
    {a \in Activities : /\ activities[a] # None
                        /\ activities[a].status = "running"
                        /\ c \in activities[a].members}

Affected(c) ==
    {a \in Activities : /\ activities[a] # None
                        /\ activities[a].status \in {"running", "paused"}
                        /\ c \in activities[a].members}

\* Reporting an incident again returns it and changes nothing.
OpenReads(d, i) ==
    /\ DesksMayStart
    /\ desks[d].pc = "idle"
    /\ CaseUnlocked(CaseOf[i])
    /\ incidents[i] = None
    /\ desks' = [desks EXCEPT ![d] = [IdleDesk EXCEPT
           !.pc = "opening", !.incident = i, !.hits = Affected(CaseOf[i])]]
    /\ UNCHANGED <<cases, incidents, screens, activityVars>>

OpenCommits(d) ==
    LET i == desks[d].incident IN
    /\ desks[d].pc = "opening"
    /\ incidents' = [incidents EXCEPT ![i] =
           [status |-> IF i \in Holds THEN "permanent_hold" ELSE "open",
            version |-> 1, proposer |-> None, reviewer |-> None]]
    /\ cases' = [cases EXCEPT ![CaseOf[i]] =
           [blocked |-> TRUE, status |-> "protected"]]
    /\ activities' = [a \in Activities |->
           IF a \in desks[d].hits
           THEN [activities[a] EXCEPT !.status = "blocked"] ELSE activities[a]]
    /\ desks' = [desks EXCEPT ![d] = IdleDesk]
    /\ UNCHANGED <<screens, proposals, apis>>

-----------------------------------------------------------------------------
(* propose_protection_resolution, decide_protection_resolution *)

\* Mutant: a permanent hold may be proposed for release.
Proposable_Hold(i) ==
    /\ incidents[i] # None
    /\ incidents[i].status \in {"open", "permanent_hold"}

Proposable(i) == incidents[i] # None /\ incidents[i].status = "open"

\* The transaction holds the incident's row lock from its read to its commit.
Propose(a, i) ==
    /\ DesksMayStart
    /\ ~ Busy(i)
    /\ Proposable(i)
    /\ incidents[i].version < MaxVersion
    /\ incidents' = [incidents EXCEPT ![i] =
           [status |-> "pending_review", version |-> @.version + 1,
            proposer |-> a, reviewer |-> None]]
    /\ UNCHANGED <<cases, screens, desks, activityVars>>

\* An admin opens a pending proposal; the decision posts the version shown.
OpenReview(a, i) ==
    /\ Pending(i)
    /\ screens' = [screens EXCEPT ![a] =
           [incident |-> i, version |-> incidents[i].version]]
    /\ UNCHANGED <<cases, incidents, desks, activityVars>>

\* Mutant: the proposer may decide.
MayDecide_Proposer(a, i) ==
    /\ Pending(i)
    /\ screens[a] = [incident |-> i, version |-> incidents[i].version]

MayDecide(a, i) ==
    /\ Pending(i)
    /\ screens[a] = [incident |-> i, version |-> incidents[i].version]
    /\ incidents[i].proposer # a

OtherActive(i) ==
    {j \in Incidents \ {i} : CaseOf[j] = CaseOf[i] /\ Active(j)}

\* The query for remaining incidents runs under the lock of the case.
DecideReads(d, a, i, pc) ==
    /\ DesksMayStart
    /\ desks[d].pc = "idle"
    /\ ~ Busy(i)
    /\ MayDecide(a, i)
    /\ incidents[i].version < MaxVersion
    /\ CaseUnlocked(CaseOf[i])
    /\ desks' = [desks EXCEPT ![d] = [IdleDesk EXCEPT
           !.pc = pc, !.incident = i, !.actor = a,
           !.releases = pc = "approving" /\ OtherActive(i) = {}]]
    /\ UNCHANGED <<cases, incidents, screens, activityVars>>

DecideCommits(d) ==
    LET q == desks[d]
        i == q.incident
    IN
    /\ q.pc \in {"rejecting", "approving"}
    /\ incidents' = [incidents EXCEPT ![i] =
           [status |-> IF q.pc = "approving" THEN "resolved" ELSE "open",
            version |-> @.version + 1, proposer |-> @.proposer,
            reviewer |-> q.actor]]
    /\ cases' = IF q.releases
                THEN [cases EXCEPT ![CaseOf[i]] =
                         [blocked |-> FALSE, status |-> "reassess"]]
                ELSE cases
    /\ desks' = [desks EXCEPT ![d] = IdleDesk]
    /\ UNCHANGED <<screens, activityVars>>

\* The process or its connection is lost: the transaction rolls back.
DeskDies(d) ==
    /\ desks[d].pc # "idle"
    /\ desks' = [desks EXCEPT ![d] = IdleDesk]
    /\ UNCHANGED <<cases, incidents, screens, activityVars>>

-----------------------------------------------------------------------------
(* create_activity, transition_activity, confirm_agent_proposal *)

Created == {a \in Activities : activities[a] # None}

InFlight == UNION {activities[a].members :
                     a \in {b \in Created :
                              activities[b].status \in {"running", "paused"}}}

GoalMatches(c, goal) ==
    IF goal = "signed" THEN c \in Signed ELSE cases[c].status = "contactable"

\* activity_preflight.
Eligible(wanted, goal) ==
    {c \in wanted : /\ ~ cases[c].blocked
                    /\ c \notin InFlight
                    /\ GoalMatches(c, goal)}

CreateReads(r, wanted, goal) ==
    /\ ApisMayStart
    /\ apis[r].pc = "idle"
    /\ Eligible(wanted, goal) # {}
    /\ apis' = [apis EXCEPT ![r] = [IdleApi EXCEPT
           !.pc = "count", !.members = Eligible(wanted, goal)]]
    /\ UNCHANGED <<caseVars, activities, proposals>>

\* The number of the activity is the count of those there are, plus one.
CreateCounts(r) ==
    /\ apis[r].pc = "count"
    /\ apis' = [apis EXCEPT ![r] =
           IF Cardinality(Created) = MaxActivities THEN IdleApi
           ELSE [@ EXCEPT !.pc = "create",
                          !.activity = Cardinality(Created) + 1]]
    /\ UNCHANGED <<caseVars, activities, proposals>>

\* The unique key refuses a number that was taken meanwhile.
CreateCommits(r) ==
    LET q == apis[r] IN
    /\ q.pc = "create"
    /\ activities' = IF activities[q.activity] # None THEN activities
                     ELSE [activities EXCEPT ![q.activity] =
                              [status |-> "running", members |-> q.members]]
    /\ apis' = [apis EXCEPT ![r] = IdleApi]
    /\ UNCHANGED <<caseVars, proposals>>

Steerable(a) == a \in Created /\ activities[a].status # "blocked"

TransitionReads(r, a, to) ==
    /\ ApisMayStart
    /\ apis[r].pc = "idle"
    /\ Steerable(a)
    /\ to = "running" => \A c \in activities[a].members : ~ cases[c].blocked
    /\ apis' = [apis EXCEPT ![r] = [IdleApi EXCEPT
           !.pc = "update", !.activity = a,
           !.from = activities[a].status, !.to = to]]
    /\ UNCHANGED <<caseVars, activities, proposals>>

\* execute_agent_turn leaves a proposal to pause or resume an activity.
AgentProposes(p, a, kind) ==
    /\ proposals[p] = None
    /\ a \in Created
    /\ proposals' = [proposals EXCEPT ![p] =
           [kind |-> kind, activity |-> a, status |-> "pending"]]
    /\ UNCHANGED <<caseVars, activities, apis>>

ConfirmReads(r, p) ==
    LET a == proposals[p].activity IN
    /\ ApisMayStart
    /\ apis[r].pc = "idle"
    /\ proposals[p] # None /\ proposals[p].status = "pending"
    /\ IF proposals[p].kind = "pause"
       THEN activities[a].status # "blocked"
       ELSE activities[a].status = "paused"
    /\ apis' = [apis EXCEPT ![r] = [IdleApi EXCEPT
           !.pc = "update", !.activity = a, !.from = activities[a].status,
           !.to = IF proposals[p].kind = "pause" THEN "paused" ELSE "running",
           !.proposal = p]]
    /\ UNCHANGED <<caseVars, activities, proposals>>

\* Confirmed after expires_at.
ConfirmExpires(p) ==
    /\ ApisMayStart
    /\ proposals[p] # None /\ proposals[p].status = "pending"
    /\ proposals' = [proposals EXCEPT ![p].status = "expired"]
    /\ UNCHANGED <<caseVars, activities, apis>>

\* The UPDATE names the changed columns and the primary key only.
UpdateCommits(r) ==
    LET q == apis[r] IN
    /\ q.pc = "update"
    /\ activities' = IF q.from = q.to THEN activities
                     ELSE [activities EXCEPT ![q.activity].status = q.to]
    /\ proposals' = IF q.proposal = None THEN proposals
                    ELSE [proposals EXCEPT ![q.proposal].status = "confirmed"]
    /\ apis' = [apis EXCEPT ![r] = IdleApi]
    /\ UNCHANGED caseVars

-----------------------------------------------------------------------------
Protect ==
    \/ \E d \in Desks, i \in Incidents : OpenReads(d, i)
    \/ \E d \in Desks : OpenCommits(d) \/ DecideCommits(d) \/ DeskDies(d)
    \/ \E a \in Actors, i \in Incidents : Propose(a, i) \/ OpenReview(a, i)
    \/ \E d \in Desks, a \in Actors, i \in Incidents :
          DecideReads(d, a, i, "rejecting") \/ DecideReads(d, a, i, "approving")

Reach ==
    \/ \E r \in Apis, wanted \in SUBSET Cases, goal \in {"contact", "signed"} :
          CreateReads(r, wanted, goal)
    \/ \E r \in Apis, a \in Activities, to \in {"running", "paused"} :
          TransitionReads(r, a, to)
    \/ \E p \in Proposals, a \in Activities, kind \in {"pause", "resume"} :
          AgentProposes(p, a, kind)
    \/ \E r \in Apis, p \in Proposals : ConfirmReads(r, p)
    \/ \E p \in Proposals : ConfirmExpires(p)
    \/ \E r \in Apis : CreateCounts(r) \/ CreateCommits(r) \/ UpdateCommits(r)

Next == Protect \/ Reach

Spec == Init /\ [][Next]_vars

-----------------------------------------------------------------------------
(* Properties *)

TypeOK ==
    /\ cases \in [Cases -> Case]
    /\ incidents \in [Incidents -> Incident \cup {None}]
    /\ screens \in [Actors -> Screen \cup {None}]
    /\ desks \in [Desks -> Desk]
    /\ activities \in [Activities -> Activity \cup {None}]
    /\ proposals \in [Proposals -> Proposal \cup {None}]
    /\ apis \in [Apis -> Api]

\* A case is blocked exactly while an incident on it is active, however many
\* requests open and release incidents on it at once.
BlockedIffProtected ==
    \A c \in Cases :
        cases[c].blocked <=> \E i \in Incidents : CaseOf[i] = c /\ Active(i)

\* A case whose customer asked not to be contacted is never released.
StopContactIsForever ==
    \A i \in Holds : incidents[i] # None => cases[CaseOf[i]].blocked

\* No activity works on a protected case.
NothingRunsOnProtected ==
    \A a \in Created : activities[a].status \in {"running", "paused"} =>
        \A c \in activities[a].members : ~ cases[c].blocked

\* The release of an incident is a reviewed change: one person proposes it,
\* another approves that proposal, and a resolved incident stays resolved.
Stage(i) == IF Pending(i) THEN "pending"
            ELSE IF incidents[i] # None /\ incidents[i].status = "resolved"
                 THEN "effective" ELSE "open"

Release == INSTANCE MakerChecker WITH
    Items   <- Incidents,
    People  <- Actors,
    stage   <- [i \in Incidents |-> Stage(i)],
    maker   <- [i \in Incidents |->
                   IF Stage(i) = "open" THEN None ELSE incidents[i].proposer],
    checker <- [i \in Incidents |->
                   IF Stage(i) = "effective" THEN incidents[i].reviewer ELSE None]

ReleaseIsReviewed == Release!Spec
=============================================================================
