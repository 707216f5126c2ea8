---------------------------- MODULE ConnectorSync ----------------------------
(***************************************************************************)
(* One customer connector: administrators who configure, test, enable and  *)
(* disable it, the jobs that pull the next page of the customer's feed,    *)
(* the workers that run them, and the events they take in.                 *)
(*                                                                         *)
(* A pull locks the row of the connector, reads the page under the lock,   *)
(* and loses the lock with the first event it commits.  From there on it   *)
(* looks at the row again before each event, and a conditional UPDATE      *)
(* moves the cursor.  A worker may stop anywhere, or lose its lease and go *)
(* on beside the worker that took its job over.                            *)
(***************************************************************************)
EXTENDS Naturals, Sequences, Functions

CONSTANTS
    Pages,      \* the customer's feed
    Mappings,   \* field mappings an administrator may choose
    Admins,
    Jobs,       \* bound: ids of jobs; a finished job that nothing refers to is forgotten
    Workers,
    Tests,      \* test requests that may be under way at once
    MaxAttempts,
    MaxChanges, \* bound: everything that is not the feed going on
    Null

ASSUME ConnectorAssumption ==
    /\ Pages \in Seq(Seq(UNION {Range(Pages[p]) : p \in DOMAIN Pages}))
    /\ MaxAttempts \in Nat \ {0}
    /\ MaxChanges \in Nat
    /\ Null \notin Admins \cup Jobs \cup Workers

VARIABLES
    connector,  \* customer_connectors row, its cursor aside
    config,     \* the mapping of every version so far
    passed,     \* the versions a test of which succeeded
    cursor,     \* customer_connectors.cursor, as the number of pages behind it
    accepted,   \* [events -> the version it was taken in under, or Null]
    jobs,       \* [Jobs -> async_jobs row, or Null]
    workers,    \* [Workers -> what process_pull has read]
    tests,      \* [Tests -> the version the request reads with, or Null]
    admins,     \* who is an active administrator
    changes     \* bound

vars == <<connector, config, passed, cursor, accepted, jobs, workers, tests, admins, changes>>
adminVars == <<connector, config, passed, tests, admins>>
feedVars == <<cursor, accepted>>

-----------------------------------------------------------------------------
Events == UNION {Range(Pages[p]) : p \in DOMAIN Pages}

Versions == 1 .. MaxChanges + 1

Connector == [version : Versions, enabled : BOOLEAN, tested : BOOLEAN,
              by : Admins \cup {Null}, active : Jobs \cup {Null}]

\* Finished: succeeded or cancelled.
Job == [status : {"queued", "running", "finished", "failed"}, attempt : 0 .. MaxAttempts,
        version : Versions, by : Admins, cancel : BOOLEAN]

Worker == [pc : {"start", "check", "persist", "done"}, job : Jobs, attempt : 1 .. MaxAttempts,
           page : 0 .. Len(Pages), next : Nat, locks : BOOLEAN]

\* NULL is no row of a table, and no version.
ASSUME NullIsNoRow == Null \notin Job \cup Worker \cup Nat

Init ==
    /\ connector = [version |-> 1, enabled |-> FALSE, tested |-> FALSE,
                    by |-> Null, active |-> Null]
    /\ config = << CHOOSE m \in Mappings : TRUE >>
    /\ passed = {}
    /\ cursor = 0
    /\ accepted = [e \in Events |-> Null]
    /\ jobs = [j \in Jobs |-> Null]
    /\ workers = [w \in Workers |-> Null]
    /\ tests = [t \in Tests |-> Null]
    /\ admins = Admins
    /\ changes = 0

Counts == changes < MaxChanges /\ changes' = changes + 1

Busy == {w \in Workers : workers[w] # Null}
RowFree == \A w \in Busy : ~ workers[w].locks

-----------------------------------------------------------------------------
(* save_config, test_connector, enable_connector *)

SaveConfig(m) ==
    /\ RowFree /\ Counts
    /\ connector' = [connector EXCEPT !.version = @ + 1, !.enabled = FALSE, !.tested = FALSE]
    /\ config' = Append(config, m)
    /\ UNCHANGED <<passed, jobs, workers, tests, admins, feedVars>>

\* The commit before the request to the customer gives the row back.
TestBegins(t) ==
    /\ tests[t] = Null
    /\ RowFree
    /\ IF connector.tested THEN Counts ELSE UNCHANGED changes
    /\ connector' = [connector EXCEPT !.enabled = FALSE, !.tested = FALSE]
    /\ tests' = [tests EXCEPT ![t] = connector.version]
    /\ UNCHANGED <<config, passed, jobs, workers, admins, feedVars>>

\* Mutant: the UPDATE does not ask for the version.
StillTests_AnyVersion(t) == TRUE

StillTests(t) == connector.version = tests[t]

TestPasses(t) ==
    /\ tests[t] # Null
    /\ RowFree
    /\ StillTests(t)
    /\ connector' = [connector EXCEPT !.tested = TRUE]
    /\ passed' = passed \cup {tests[t]}
    /\ tests' = [tests EXCEPT ![t] = Null]
    /\ UNCHANGED <<config, jobs, workers, admins, changes, feedVars>>

\* The customer does not answer, or the configuration is another one by now.
TestFails(t) ==
    /\ tests[t] # Null
    /\ tests' = [tests EXCEPT ![t] = Null]
    /\ UNCHANGED <<connector, config, passed, jobs, workers, admins, changes, feedVars>>

\* A new administrator takes the checkpoint over, and the old jobs lose it.
Enable(a) ==
    /\ a \in admins
    /\ RowFree /\ connector.tested
    /\ IF connector.by \in {a, Null} THEN UNCHANGED changes ELSE Counts
    /\ connector' = [connector EXCEPT !.enabled = TRUE, !.by = a,
                         !.active = IF connector.by = a THEN @ ELSE Null]
    /\ UNCHANGED <<config, passed, tests, admins, jobs, workers, feedVars>>

Disable ==
    /\ RowFree /\ Counts
    /\ connector' = [connector EXCEPT !.enabled = FALSE, !.by = Null]
    /\ UNCHANGED <<config, passed, tests, admins, jobs, workers, feedVars>>

\* 24 hours pass, or a membership ends.
TestExpires ==
    /\ connector.tested /\ Counts
    /\ connector' = [connector EXCEPT !.tested = FALSE]
    /\ UNCHANGED <<config, passed, tests, admins, jobs, workers, feedVars>>

Revoke(a) ==
    /\ a \in admins /\ Counts
    /\ admins' = admins \ {a}
    /\ UNCHANGED <<connector, config, passed, tests, jobs, workers, feedVars>>

-----------------------------------------------------------------------------
(* submit, called by sync_connector and by schedule_due *)

Status(j) == IF jobs[j] = Null THEN "absent" ELSE jobs[j].status

Settled(j) == Status(j) \in {"absent", "finished", "failed"}

\* Mutant: the barrier does not look at the budget.
Barrier_AnyAttempt(j) == Status(j) = "failed" /\ jobs[j].version = connector.version

\* A page that failed has to be retried first.
Barrier(j) ==
    /\ Status(j) = "failed"
    /\ jobs[j].attempt < MaxAttempts
    /\ jobs[j].version = connector.version

Unused(j) == Settled(j) /\ connector.active # j /\ \A w \in Busy : workers[w].job # j

Submit(j, a) ==
    /\ a \in admins
    /\ RowFree
    /\ IF connector.by = a THEN UNCHANGED changes ELSE Counts
    /\ connector.enabled /\ connector.tested
    /\ connector.active # Null => Settled(connector.active) /\ ~ Barrier(connector.active)
    /\ Unused(j)
    /\ jobs' = [jobs EXCEPT ![j] = [status |-> "queued", attempt |-> 0, cancel |-> FALSE,
                                    version |-> connector.version, by |-> a]]
    /\ connector' = [connector EXCEPT !.active = j]
    /\ UNCHANGED <<config, passed, tests, admins, workers, feedVars>>

Retry(j) ==
    /\ Status(j) = "failed" /\ jobs[j].attempt < MaxAttempts
    /\ jobs' = [jobs EXCEPT ![j].status = "queued"]
    /\ UNCHANGED <<workers, changes, adminVars, feedVars>>

Cancel(j) ==
    /\ Status(j) \in {"queued", "running"} /\ Counts
    /\ jobs' = [jobs EXCEPT ![j] = IF @.status = "queued" THEN [@ EXCEPT !.status = "finished"]
                                   ELSE [@ EXCEPT !.cancel = TRUE]]
    /\ UNCHANGED <<workers, adminVars, feedVars>>

-----------------------------------------------------------------------------
(* The queue, and process_pull *)

Ends(j, status) ==
    [jobs EXCEPT ![j].status = IF jobs[j].cancel THEN "finished" ELSE status,
                 ![j].cancel = FALSE]

Runs(w) ==
    LET p == workers[w] IN jobs[p.job].status = "running" /\ jobs[p.job].attempt = p.attempt

Claim(w, j) ==
    /\ workers[w] = Null
    /\ Status(j) = "queued" /\ jobs[j].attempt < MaxAttempts
    /\ jobs' = [jobs EXCEPT ![j].status = "running", ![j].attempt = @ + 1, ![j].cancel = FALSE]
    /\ workers' = [workers EXCEPT ![w] =
           [pc |-> "start", job |-> j, attempt |-> jobs[j].attempt + 1,
            page |-> 0, next |-> 1, locks |-> FALSE]]
    /\ UNCHANGED <<changes, adminVars, feedVars>>

\* The handler is over; what it did to the job counts if the lease is still its own.
Leave(w, status) ==
    /\ jobs' = IF Runs(w) THEN Ends(workers[w].job, status) ELSE jobs
    /\ workers' = [workers EXCEPT ![w] = Null]

\* The connector still is the one the job was made for.
Bound(w) ==
    LET p == workers[w] IN
    /\ connector.enabled
    /\ connector.version = jobs[p.job].version
    /\ connector.active = p.job

Entitled(w) == jobs[workers[w].job].by \in admins

\* The lock, the checks, and the page at the cursor.
Pull(w) ==
    /\ workers[w] # Null /\ workers[w].pc = "start"
    /\ RowFree
    /\ Entitled(w) /\ Bound(w) /\ connector.tested
    /\ workers' = [workers EXCEPT ![w] =
           [@ EXCEPT !.pc = "check", !.page = cursor, !.locks = TRUE]]
    /\ UNCHANGED <<jobs, changes, adminVars, feedVars>>

\* The connector changed, or the customer does not answer.
PullFails(w) ==
    /\ workers[w] # Null /\ workers[w].pc = "start"
    /\ RowFree
    /\ IF Entitled(w) /\ Bound(w) /\ connector.tested THEN Counts ELSE UNCHANGED changes
    /\ Leave(w, "failed")
    /\ UNCHANGED <<adminVars, feedVars>>

\* At the end of the feed the customer repeats the cursor over an empty page.
Page(w) == IF workers[w].page < Len(Pages) THEN Pages[workers[w].page + 1] ELSE << >>
More(w) == workers[w].next <= Len(Page(w))

\* Before every event: db.refresh and the current grant.
Check(w) ==
    /\ workers[w] # Null /\ workers[w].pc = "check" /\ More(w)
    /\ IF Entitled(w) /\ Bound(w)
       THEN /\ workers' = [workers EXCEPT ![w].pc = "persist"]
            /\ UNCHANGED jobs
       ELSE Leave(w, "failed")
    /\ UNCHANGED <<changes, adminVars, feedVars>>

\* persist_event: a new event commits, and the commit gives the row back; an event
\* that is known must have the same content.
Persist(w) ==
    LET p == workers[w]
        e == Page(w)[p.next]
        v == jobs[p.job].version
    IN
    /\ p # Null /\ p.pc = "persist"
    /\ \/ /\ accepted[e] = Null
          /\ accepted' = [accepted EXCEPT ![e] = v]
          /\ workers' = [workers EXCEPT ![w] =
                 [@ EXCEPT !.pc = "check", !.next = p.next + 1, !.locks = FALSE]]
          /\ UNCHANGED jobs
       \/ /\ accepted[e] # Null /\ config[accepted[e]] = config[v]
          /\ workers' = [workers EXCEPT ![w] = [@ EXCEPT !.pc = "check", !.next = p.next + 1]]
          /\ UNCHANGED <<accepted, jobs>>
       \/ /\ accepted[e] # Null /\ config[accepted[e]] # config[v]
          /\ Leave(w, "failed")
          /\ UNCHANGED accepted
    /\ UNCHANGED <<cursor, changes, adminVars>>

\* Mutant: the UPDATE does not ask for the cursor the page was read at.
Moves_AnyCursor(w) == Bound(w)

\* The WHERE of the UPDATE that moves the cursor.
Moves(w) == Bound(w) /\ cursor = workers[w].page

Advance(w) ==
    /\ workers[w] # Null /\ workers[w].pc = "check" /\ ~ More(w)
    /\ workers[w].locks \/ RowFree
    /\ IF Moves(w)
       THEN /\ cursor' = IF workers[w].page < Len(Pages) THEN workers[w].page + 1 ELSE cursor
            /\ workers' = [workers EXCEPT ![w] = [@ EXCEPT !.pc = "done", !.locks = FALSE]]
            /\ UNCHANGED jobs
       ELSE Leave(w, "failed") /\ UNCHANGED cursor
    /\ UNCHANGED <<accepted, changes, adminVars>>

Finish(w) ==
    /\ workers[w] # Null /\ workers[w].pc = "done"
    /\ Leave(w, "finished")
    /\ UNCHANGED <<changes, adminVars, feedVars>>

Crash(w) ==
    /\ workers[w] # Null /\ Counts
    /\ workers' = [workers EXCEPT ![w] = Null]
    /\ UNCHANGED <<jobs, adminVars, feedVars>>

Abandoned(j) ==
    Status(j) = "running" /\ \A w \in Busy : workers[w].job # j \/ ~ Runs(w)

\* recover_stale_jobs: the lease ran out, under a worker that is gone or, while
\* the bound lasts, under one that is only slow.
Recover(j) ==
    /\ Status(j) = "running"
    /\ IF Abandoned(j) THEN UNCHANGED changes ELSE Counts
    /\ jobs' = Ends(j, IF jobs[j].attempt < MaxAttempts THEN "queued" ELSE "failed")
    /\ UNCHANGED <<workers, adminVars, feedVars>>

Work(w) == Pull(w) \/ PullFails(w) \/ Check(w) \/ Persist(w) \/ Advance(w) \/ Finish(w)

Next ==
    \/ \E m \in Mappings : SaveConfig(m)
    \/ \E t \in Tests : TestBegins(t) \/ TestPasses(t) \/ TestFails(t)
    \/ \E a \in Admins : Enable(a) \/ Revoke(a) \/ \E j \in Jobs : Submit(j, a)
    \/ Disable \/ TestExpires
    \/ \E j \in Jobs : Retry(j) \/ Cancel(j) \/ Recover(j)
    \/ \E w \in Workers : Crash(w) \/ Work(w) \/ \E j \in Jobs : Claim(w, j)

\* Workers poll and work, leases run out, the schedule comes round, and somebody
\* retries a pull that failed.
Fairness ==
    /\ \A w \in Workers : WF_vars(Work(w)) /\ \A j \in Jobs : WF_vars(Claim(w, j))
    /\ \A j \in Jobs : WF_vars(Abandoned(j) /\ Recover(j)) /\ WF_vars(Retry(j))
    /\ WF_vars(\E j \in Jobs : Submit(j, connector.by))

Spec == Init /\ [][Next]_vars /\ Fairness

-----------------------------------------------------------------------------
(* Properties *)

TypeOK ==
    /\ connector \in Connector
    /\ DOMAIN config = 1 .. connector.version
    /\ passed \subseteq Versions
    /\ cursor \in 0 .. Len(Pages)
    /\ accepted \in [Events -> Versions \cup {Null}]
    /\ \A j \in Jobs : jobs[j] # Null => jobs[j] \in Job
    /\ \A w \in Busy : workers[w] \in Worker
    /\ admins \subseteq Admins

Feed == INSTANCE PagedIntake WITH taken <- {e \in Events : accepted[e] # Null}

\* "The cursor is only moved past events that are held": whatever stops halfway, is
\* repeated or runs twice, the connector reads the feed page by page, skips nothing
\* and never goes back.
ReadsInOrder == Feed!Spec

\* Whatever was taken in was read with a configuration that passed its test, however
\* tests, changes and pulls overlap.
TestedIntake == \A e \in Events : accepted[e] # Null => accepted[e] \in passed

\* An event of the current page is held with the content of another mapping.
Conflict ==
    /\ cursor < Len(Pages)
    /\ \E e \in Range(Pages[cursor + 1]) :
           accepted[e] # Null /\ config[accepted[e]] # config[connector.version]

Steady == connector.enabled /\ connector.tested /\ connector.by \in admins /\ ~ Conflict

\* A connector that stays enabled, tested and owned reaches the end of the feed after
\* any crashes, lost leases, failed pulls and changes of owner, unless its mapping
\* was changed in the middle of a page.
CatchesUp == <>[]Steady => <>(cursor = Len(Pages))
=============================================================================
