--------------------------- MODULE IncomingProofs ---------------------------
(***************************************************************************)
(* What the outside sends in: the receipts of MCLedger, the feed of        *)
(* MCConnectorSync and the calls of MCVoiceLab.                            *)
(*                                                                         *)
(* The first part is about what a customer connector takes in, for every   *)
(* feed, and any number of administrators, workers, jobs, tests and        *)
(* changes: nothing that was not read with a tested configuration, and the *)
(* feed page by page.  The first argument there is about versions: a pull  *)
(* starts with a version that passed, and its job keeps that version while *)
(* a worker has it in hand.  The second is about workers that lag behind:  *)
(* they may hold any page before the cursor, but every event of such a     *)
(* page was taken in before the cursor left it, so that whatever a late    *)
(* worker does, it takes in events of the page at the cursor or nothing.   *)
(*                                                                         *)
(* The second is about a call of the voice laboratory, for any number of   *)
(* turns, length of a reply and size of a queue.  Its argument follows one *)
(* reply: a block is on the way to be spoken, in the queue, on the line,   *)
(* waiting to be played, or played, and while the caller has not spoken up *)
(* these add up; so a reply the client takes for heard was heard, and one  *)
(* that was not is told before anything is asked that could rest on it.    *)
(* Every part of the invariant is an operator of what it is about, and is  *)
(* given the next values where a step changes them.                        *)
(*                                                                         *)
(* The third is about the bridge of the laboratory, for any phones: what   *)
(* is there in Asterisk is known to the journal, and outside a call, and   *)
(* in one that follows another, nothing is left.                           *)
(*                                                                         *)
(* The last gives what PaymentLedgerProofs proves to the two ledgers of    *)
(* MCLedger: the one whose receipts are matched by two people only, and    *)
(* the one where commission is settled and the one-step endpoint is on.    *)
(* Each theorem is one about PaymentLedger with the constants of an        *)
(* instance.                                                               *)
(***************************************************************************)
EXTENDS MCLedger, MCConnectorSync, MCVoiceLab, TLAPS

-----------------------------------------------------------------------------
(* The inductive invariant of the connector *)

\* Every change of a version is counted.
Counted == changes \in Nat /\ changes <= MaxChanges /\ connector.version <= changes + 1

Rows ==
    /\ connector \in Connector
    /\ jobs \in [Jobs -> Job \cup {Null}]
    /\ workers \in [Workers -> Worker \cup {Null}]
    /\ tests \in [Tests -> Versions \cup {Null}]
    /\ admins \subseteq Admins

Intake ==
    /\ cursor \in 0 .. Len(Pages)
    /\ passed \subseteq Versions
    /\ accepted \in [Events -> Versions \cup {Null}]

\* The job a worker has in hand is not given to another pull.
InHand == \A w \in Busy : jobs[workers[w].job] # Null

\* What passed a test: the present version when it counts as tested, the version of every
\* pull that started, and that of every event that is held.
VersionsPassed ==
    /\ connector.tested => connector.version \in passed
    /\ \A w \in Busy : workers[w].pc # "start" => jobs[workers[w].job].version \in passed
    /\ \A e \in Events : accepted[e] # Null => accepted[e] \in passed

Taken(e) == accepted[e] # Null

\* The page read at a cursor: none at the end of the feed.
PageAt(n) == IF n < Len(Pages) THEN Pages[n + 1] ELSE << >>

\* How far a worker has come with its page.
HasTaken(p) ==
    IF p.pc = "start" THEN p.next = 1
    ELSE /\ p.next \in Nat \ {0} /\ p.page <= cursor
         /\ p.pc = "persist" => p.next <= Len(PageAt(p.page))
         /\ \A i \in 1 .. Len(PageAt(p.page)) : i < p.next => Taken(PageAt(p.page)[i])

PagesBehind ==
    \A n \in Nat : n < cursor => \A i \in 1 .. Len(PageAt(n)) : Taken(PageAt(n)[i])

Inv ==
    /\ Counted /\ Rows /\ Intake /\ InHand /\ VersionsPassed /\ PagesBehind
    /\ \A w \in Busy : HasTaken(workers[w])

-----------------------------------------------------------------------------
(* The feed *)

LEMMA FeedShape ==
    /\ Len(Pages) \in Nat /\ DOMAIN Pages = 1 .. Len(Pages)
    /\ \A n \in Nat : n < Len(Pages) =>
          /\ Len(PageAt(n)) \in Nat /\ DOMAIN PageAt(n) = 1 .. Len(PageAt(n))
          /\ PageAt(n) = Pages[n + 1] /\ n + 1 \in DOMAIN Pages
    /\ \A n \in Nat : ~ (n < Len(Pages)) => PageAt(n) = << >> /\ Len(PageAt(n)) = 0
<1> DEFINE S == UNION {Range(Pages[p]) : p \in DOMAIN Pages}
<1>1. Pages \in Seq(Seq(S))
  BY ConnectorAssumption
<1> HIDE DEF S
<1>2. /\ Len(Pages) \in Nat /\ DOMAIN Pages = 1 .. Len(Pages)
      /\ \A p \in 1 .. Len(Pages) : Pages[p] \in Seq(S)
  BY <1>1
<1>3. \A n \in Nat : n < Len(Pages) => n + 1 \in 1 .. Len(Pages)
  BY <1>2
<1> QED
  BY <1>2, <1>3 DEF PageAt

LEMMA EventsOfFeed ==
    ASSUME NEW n \in Nat, NEW i \in 1 .. Len(PageAt(n))
    PROVE  /\ n < Len(Pages) /\ PageAt(n)[i] \in Events
           /\ PageAt(n)[i] \in Range(Pages[n + 1])
<1>1. n < Len(Pages)
  BY FeedShape
<1>2. i \in DOMAIN PageAt(n) /\ PageAt(n) = Pages[n + 1] /\ n + 1 \in DOMAIN Pages
  BY <1>1, FeedShape
<1>3. PageAt(n)[i] \in Range(Pages[n + 1])
  BY <1>2 DEF Range
<1> QED
  BY <1>1, <1>2, <1>3 DEF Events

-----------------------------------------------------------------------------
(* Rows, and the steps that leave the feed alone *)

VersionsOnly == Versions \subseteq Nat /\ Null \notin Versions /\ 1 \in Versions

LEMMA VersionRange == VersionsOnly
BY ConnectorAssumption, NullIsNoRow DEF VersionsOnly, Versions

\* A job goes on: it stays the pull it was made for.
JobsGoOn ==
    /\ jobs' \in [Jobs -> Job \cup {Null}]
    /\ \A w \in Busy' : /\ jobs[workers'[w].job] # Null => jobs'[workers'[w].job] # Null
                        /\ jobs[workers'[w].job] # Null =>
                               jobs'[workers'[w].job].version = jobs[workers'[w].job].version

\* Some workers give up, the others are where they were.
WorkersRemain ==
    /\ workers' \in [Workers -> Worker \cup {Null}]
    /\ \A w \in Workers : workers'[w] \in {workers[w], Null}

LEMMA OneJob ==
    ASSUME Rows, NEW j \in Jobs, jobs[j] # Null, NEW row \in Job,
           row.version = jobs[j].version, jobs' = [jobs EXCEPT ![j] = row],
           \A w \in Busy' : workers'[w].job \in Jobs
    PROVE  JobsGoOn
<1>1. jobs' \in [Jobs -> Job \cup {Null}]
      /\ \A i \in Jobs : jobs'[i] = IF i = j THEN row ELSE jobs[i]
  BY DEF Rows
<1>2. row # Null
  BY NullIsNoRow
<1> QED
  BY <1>1, <1>2 DEF JobsGoOn

\* Configurations, tests, jobs and workers that go away.
LEMMA FeedRests ==
    ASSUME Inv, Counted', connector' \in Connector, connector'.tested => connector'.version \in passed',
           passed \subseteq passed', passed' \subseteq Versions,
           tests' \in [Tests -> Versions \cup {Null}], admins' \subseteq Admins,
           JobsGoOn, WorkersRemain, UNCHANGED feedVars
    PROVE  Inv'
<1>1. Busy' \subseteq Busy /\ \A w \in Busy' : workers'[w] = workers[w]
  BY DEF Busy, WorkersRemain
<1>2. InHand'
  BY <1>1 DEF Inv, InHand, JobsGoOn
<1>3. Rows' /\ Intake'
  BY DEF Inv, Rows, Intake, JobsGoOn, WorkersRemain, feedVars
<1>4. VersionsPassed'
  <2>1. ASSUME NEW w \in Busy', workers'[w].pc # "start"
        PROVE  jobs'[workers'[w].job].version \in passed'
    BY <1>1, <2>1 DEF Inv, InHand, VersionsPassed, JobsGoOn
  <2>2. \A e \in Events : accepted'[e] # Null => accepted'[e] \in passed'
    BY DEF Inv, VersionsPassed, feedVars
  <2> QED
    BY <2>1, <2>2 DEF VersionsPassed
<1>5. PagesBehind'
  BY DEF Inv, PagesBehind, Taken, feedVars
<1>6. \A w \in Busy' : HasTaken(workers[w])'
  BY <1>1 DEF Inv, HasTaken, Taken, feedVars
<1> QED
  BY <1>2, <1>3, <1>4, <1>5, <1>6 DEF Inv

LEMMA JobsRest == ASSUME Inv, UNCHANGED <<jobs, workers>> PROVE JobsGoOn /\ WorkersRemain
BY DEF Inv, Rows, JobsGoOn, WorkersRemain

\* Steps on the connector and its configuration, on tests and on memberships.
LEMMA AdminInv ==
    ASSUME Inv, Counted', connector' \in Connector, connector'.tested => connector'.version \in passed',
           passed \subseteq passed', passed' \subseteq Versions,
           tests' \in [Tests -> Versions \cup {Null}], admins' \subseteq Admins,
           UNCHANGED <<jobs, workers, feedVars>>
    PROVE  Inv'
BY FeedRests, JobsRest

LEMMA InvInit == ASSUME Init PROVE Inv
<1>1. 1 \in Versions /\ Versions \subseteq Nat /\ Null \notin Versions
  BY VersionRange DEF VersionsOnly
<1>2. Counted /\ Rows /\ Intake
  BY <1>1, ConnectorAssumption, FeedShape DEF Init, Counted, Rows, Intake, Connector
<1>3. Busy = {}
  BY DEF Init, Busy
<1> QED
  BY <1>2, <1>3 DEF Init, Inv, InHand, VersionsPassed, PagesBehind

LEMMA SaveConfigInv == ASSUME Inv, NEW m \in Mappings, SaveConfig(m) PROVE Inv'
<1>1. /\ connector' = [connector EXCEPT !.version = connector.version + 1, !.enabled = FALSE,
                                        !.tested = FALSE]
      /\ changes < MaxChanges /\ changes' = changes + 1
      /\ UNCHANGED <<passed, jobs, workers, tests, admins, feedVars>>
  BY DEF SaveConfig, Counts
<1>2. connector \in Connector /\ connector.version \in Nat /\ connector.version >= 1
      /\ connector.version <= changes + 1 /\ changes \in Nat
  BY ConnectorAssumption DEF Inv, Rows, Counted, Connector, Versions
<1>3. connector.version + 1 \in Versions
  BY <1>1, <1>2, ConnectorAssumption DEF Versions
<1>4. /\ connector' \in Connector /\ connector'.version = connector.version + 1
      /\ connector'.tested = FALSE
  BY <1>1, <1>2, <1>3 DEF Connector
<1>5. Counted'
  BY <1>1, <1>2, <1>4, ConnectorAssumption DEF Counted
<1> QED
  BY <1>1, <1>4, <1>5, AdminInv DEF Inv, Rows, Intake

\* A change that is counted, or none, and no new version.
LEMMA CountedOrNot ==
    ASSUME Inv, Counts \/ UNCHANGED changes, connector'.version = connector.version
    PROVE  Counted'
BY ConnectorAssumption DEF Inv, Counted, Counts, Rows, Connector, Versions

LEMMA TestBeginsInv == ASSUME Inv, NEW t \in Tests, TestBegins(t) PROVE Inv'
<1>1. /\ connector' = [connector EXCEPT !.enabled = FALSE, !.tested = FALSE]
      /\ Counts \/ UNCHANGED changes
      /\ tests' = [tests EXCEPT ![t] = connector.version]
      /\ UNCHANGED <<passed, jobs, workers, admins, feedVars>>
  BY DEF TestBegins
<1>2. connector \in Connector /\ connector.version \in Versions
  BY DEF Inv, Rows, Connector
<1>3. /\ connector' \in Connector /\ connector'.version = connector.version
      /\ connector'.tested = FALSE
  BY <1>1, <1>2 DEF Connector
<1> QED
  BY <1>1, <1>2, <1>3, CountedOrNot, AdminInv DEF Inv, Rows, Intake

LEMMA TestEndsInv ==
    ASSUME Inv, NEW t \in Tests, TestPasses(t) \/ TestFails(t)
    PROVE  Inv'
<1>1. tests' \in [Tests -> Versions \cup {Null}] /\ UNCHANGED <<jobs, workers, admins, feedVars>>
      /\ UNCHANGED changes
  BY DEF TestPasses, TestFails, Inv, Rows
<1>2. connector \in Connector /\ connector.version \in Versions
  BY DEF Inv, Rows, Connector
<1>3. CASE TestPasses(t)
  <2>1. /\ connector' = [connector EXCEPT !.tested = TRUE]
        /\ passed' = passed \cup {connector.version}
    BY <1>3 DEF TestPasses, StillTests
  <2>2. connector' \in Connector /\ connector'.version = connector.version
    BY <1>2, <2>1 DEF Connector
  <2> QED
    BY <1>1, <1>2, <2>1, <2>2, CountedOrNot, AdminInv DEF Inv, Rows, Intake
<1>4. CASE TestFails(t)
  <2>1. UNCHANGED <<connector, passed>>
    BY <1>4 DEF TestFails
  <2> QED
    BY <1>1, <1>2, <2>1, CountedOrNot, AdminInv DEF Inv, Rows, Intake, VersionsPassed
<1> QED
  BY <1>3, <1>4

LEMMA EnableInv == ASSUME Inv, NEW a \in Admins, Enable(a) PROVE Inv'
<1> DEFINE active == IF connector.by = a THEN connector.active ELSE Null
<1>1. /\ connector' = [connector EXCEPT !.enabled = TRUE, !.by = a, !.active = active]
      /\ Counts \/ UNCHANGED changes
      /\ UNCHANGED <<passed, tests, admins, jobs, workers, feedVars>>
  BY DEF Enable
<1>2. connector \in Connector /\ active \in Jobs \cup {Null}
  BY DEF Inv, Rows, Connector
<1> HIDE DEF active
<1>3. /\ connector' \in Connector /\ connector'.version = connector.version
      /\ connector'.tested = connector.tested
  BY <1>1, <1>2 DEF Connector
<1> QED
  BY <1>1, <1>3, CountedOrNot, AdminInv DEF Inv, Rows, Intake, VersionsPassed

LEMMA DisableInv == ASSUME Inv, Disable \/ TestExpires PROVE Inv'
<1>1. /\ Counts /\ UNCHANGED <<passed, tests, admins, jobs, workers, feedVars>>
      /\ connector' \in {[connector EXCEPT !.enabled = FALSE, !.by = Null],
                         [connector EXCEPT !.tested = FALSE]}
  BY DEF Disable, TestExpires
<1>2. connector \in Connector
  BY DEF Inv, Rows
<1>3. /\ connector' \in Connector /\ connector'.version = connector.version
      /\ connector'.tested => connector.tested
  BY <1>1, <1>2 DEF Connector
<1> QED
  BY <1>1, <1>3, CountedOrNot, AdminInv DEF Inv, Rows, Intake, VersionsPassed

LEMMA RevokeInv == ASSUME Inv, NEW a \in Admins, Revoke(a) PROVE Inv'
<1>1. /\ Counts /\ UNCHANGED <<connector, passed, tests, jobs, workers, feedVars>>
      /\ admins' \subseteq Admins
  BY DEF Revoke, Inv, Rows
<1> QED
  BY <1>1, CountedOrNot, AdminInv DEF Inv, Rows, Intake, VersionsPassed

-----------------------------------------------------------------------------
(* Steps on jobs *)

\* What a step on jobs leaves alone, and that it counts.
JobsOnly == UNCHANGED <<adminVars, feedVars>> /\ (Counts \/ UNCHANGED changes)

LEMMA JobsInv == ASSUME Inv, JobsOnly, JobsGoOn, WorkersRemain PROVE Inv'
<1>1. UNCHANGED <<connector, passed, tests, admins, feedVars>>
  BY DEF JobsOnly, adminVars
<1> QED
  BY <1>1, CountedOrNot, FeedRests DEF JobsOnly, Inv, Rows, Intake, VersionsPassed

LEMMA BusyJobs ==
    ASSUME Inv
    PROVE  \A w \in Busy : /\ workers[w] \in Worker /\ workers[w].job \in Jobs
                           /\ jobs[workers[w].job] \in Job
                           /\ jobs[workers[w].job] # Null
BY DEF Inv, Rows, InHand, Busy, Worker

LEMMA StatusOfJob ==
    ASSUME Inv, NEW j \in Jobs, Status(j) # "absent"
    PROVE  jobs[j] # Null /\ jobs[j] \in Job /\ jobs[j].status = Status(j)
BY DEF Status, Inv, Rows

\* A job changes beside workers that stay or give up.
LEMMA OneJobOn ==
    ASSUME Inv, NEW j \in Jobs, jobs[j] # Null, NEW row \in Job, row.version = jobs[j].version,
           jobs' = [jobs EXCEPT ![j] = row], WorkersRemain
    PROVE  JobsGoOn
<1>1. Busy' \subseteq Busy /\ \A w \in Busy' : workers'[w] = workers[w]
  BY DEF Busy, WorkersRemain
<1> QED
  BY <1>1, BusyJobs, OneJob DEF Inv

LEMMA EndsGoesOn ==
    ASSUME Inv, NEW j \in Jobs, jobs[j] # Null, NEW s \in {"queued", "finished", "failed"},
           jobs' = Ends(j, s), WorkersRemain
    PROVE  JobsGoOn
<1> DEFINE status == IF jobs[j].cancel THEN "finished" ELSE s
           row == [jobs[j] EXCEPT !.status = status, !.cancel = FALSE]
<1>1. jobs[j] \in Job
  BY DEF Inv, Rows
<1>2. jobs' = [jobs EXCEPT ![j] = row]
  BY DEF Ends, Inv, Rows
<1>3. status \in {"queued", "running", "finished", "failed"}
  OBVIOUS
<1> HIDE DEF status
<1>4. row \in Job /\ row.version = jobs[j].version
  BY <1>1, <1>3, ConnectorAssumption DEF Job
<1> HIDE DEF row
<1> QED
  BY <1>2, <1>4, OneJobOn

LEMMA LeaveGoesOn ==
    ASSUME Inv, NEW w \in Workers, workers[w] # Null, NEW s \in {"queued", "finished", "failed"},
           Leave(w, s)
    PROVE  JobsGoOn /\ WorkersRemain
<1>1. WorkersRemain
  BY DEF Leave, Inv, Rows, WorkersRemain
<1>2. workers[w].job \in Jobs /\ jobs[workers[w].job] # Null
  BY BusyJobs DEF Busy
<1>3. CASE Runs(w)
  BY <1>1, <1>2, <1>3, EndsGoesOn DEF Leave
<1>4. CASE ~ Runs(w)
  <2>1. jobs' = jobs
    BY <1>4 DEF Leave
  <2> QED
    BY <1>1, <2>1 DEF JobsGoOn, Inv, Rows
<1> QED
  BY <1>1, <1>3, <1>4

LEMMA RetryInv == ASSUME Inv, NEW j \in Jobs, Retry(j) PROVE Inv'
<1> DEFINE row == [jobs[j] EXCEPT !.status = "queued"]
<1>1. jobs[j] # Null /\ jobs[j] \in Job
  BY StatusOfJob DEF Retry
<1>2. jobs' = [jobs EXCEPT ![j] = row] /\ JobsOnly /\ WorkersRemain
  BY DEF Retry, JobsOnly, WorkersRemain, Inv, Rows
<1>3. row \in Job /\ row.version = jobs[j].version
  BY <1>1, ConnectorAssumption DEF Job
<1> HIDE DEF row
<1> QED
  BY <1>1, <1>2, <1>3, OneJobOn, JobsInv

LEMMA CancelInv == ASSUME Inv, NEW j \in Jobs, Cancel(j) PROVE Inv'
<1> DEFINE row == IF jobs[j].status = "queued" THEN [jobs[j] EXCEPT !.status = "finished"]
                  ELSE [jobs[j] EXCEPT !.cancel = TRUE]
<1>1. jobs[j] # Null /\ jobs[j] \in Job
  BY StatusOfJob DEF Cancel
<1>2. jobs' = [jobs EXCEPT ![j] = row] /\ JobsOnly /\ WorkersRemain
  BY DEF Cancel, JobsOnly, WorkersRemain, Inv, Rows
<1>3. row \in Job /\ row.version = jobs[j].version
  BY <1>1, ConnectorAssumption DEF Job
<1> HIDE DEF row
<1> QED
  BY <1>1, <1>2, <1>3, OneJobOn, JobsInv

LEMMA RecoverInv == ASSUME Inv, NEW j \in Jobs, Recover(j) PROVE Inv'
<1>1. jobs[j] # Null
  BY StatusOfJob DEF Recover
<1>2. JobsOnly /\ WorkersRemain
  BY DEF Recover, JobsOnly, WorkersRemain, Inv, Rows
<1>3. PICK s \in {"queued", "failed"} : jobs' = Ends(j, s)
  BY DEF Recover
<1> QED
  BY <1>1, <1>2, <1>3, EndsGoesOn, JobsInv

LEMMA PullFailsInv == ASSUME Inv, NEW w \in Workers, PullFails(w) PROVE Inv'
<1>1. workers[w] # Null /\ Leave(w, "failed") /\ JobsOnly
  BY DEF PullFails, JobsOnly
<1> QED
  BY <1>1, LeaveGoesOn, JobsInv

LEMMA FinishInv == ASSUME Inv, NEW w \in Workers, Finish(w) PROVE Inv'
<1>1. workers[w] # Null /\ Leave(w, "finished") /\ JobsOnly
  BY DEF Finish, JobsOnly
<1> QED
  BY <1>1, LeaveGoesOn, JobsInv

LEMMA CrashInv == ASSUME Inv, NEW w \in Workers, Crash(w) PROVE Inv'
<1>1. JobsOnly /\ WorkersRemain /\ jobs' = jobs
  BY DEF Crash, JobsOnly, WorkersRemain, Inv, Rows
<1> QED
  BY <1>1, JobsInv DEF JobsGoOn, Inv, Rows

\* A new pull gets a job that nobody has in hand.
LEMMA SubmitInv == ASSUME Inv, NEW j \in Jobs, NEW a \in Admins, Submit(j, a) PROVE Inv'
<1> DEFINE row == [status |-> "queued", attempt |-> 0, cancel |-> FALSE,
                   version |-> connector.version, by |-> a]
<1>1. /\ jobs' = [jobs EXCEPT ![j] = row] /\ connector' = [connector EXCEPT !.active = j]
      /\ Unused(j) /\ (Counts \/ UNCHANGED changes)
      /\ UNCHANGED <<passed, tests, admins, workers, feedVars>>
  BY DEF Submit
<1>2. connector \in Connector /\ connector.version \in Versions
  BY DEF Inv, Rows, Connector
<1>3. /\ connector' \in Connector /\ connector'.version = connector.version
      /\ connector'.tested = connector.tested
  BY <1>1, <1>2 DEF Connector
<1>4. row \in Job
  BY <1>2, ConnectorAssumption DEF Job
<1> HIDE DEF row
<1>5. jobs' \in [Jobs -> Job \cup {Null}] /\ \A i \in Jobs \ {j} : jobs'[i] = jobs[i]
  BY <1>1, <1>4 DEF Inv, Rows
<1>6. \A w \in Busy' : workers'[w] = workers[w] /\ workers[w].job \in Jobs \ {j}
  <2>1. workers' = workers /\ Busy' = Busy
    BY <1>1 DEF Busy
  <2>2. \A w \in Busy : workers[w].job \in Jobs /\ workers[w].job # j
    BY <1>1, BusyJobs DEF Unused
  <2> QED
    BY <2>1, <2>2
<1>7. JobsGoOn /\ WorkersRemain
  BY <1>1, <1>5, <1>6 DEF JobsGoOn, WorkersRemain, Inv, Rows
<1> QED
  BY <1>1, <1>3, <1>7, CountedOrNot, FeedRests DEF Inv, Rows, Intake, VersionsPassed

-----------------------------------------------------------------------------
(* Steps of a pull *)

LEMMA ClaimInv == ASSUME Inv, NEW w \in Workers, NEW j \in Jobs, Claim(w, j) PROVE Inv'
<1> DEFINE row == [jobs[j] EXCEPT !.status = "running", !.attempt = jobs[j].attempt + 1,
                                  !.cancel = FALSE]
           claim == [pc |-> "start", job |-> j, attempt |-> jobs[j].attempt + 1,
                     page |-> 0, next |-> 1, locks |-> FALSE]
<1>1. jobs[j] # Null /\ jobs[j] \in Job
  BY StatusOfJob DEF Claim
<1>2. /\ jobs' = [jobs EXCEPT ![j] = row] /\ workers' = [workers EXCEPT ![w] = claim]
      /\ jobs[j].attempt < MaxAttempts /\ workers[w] = Null
      /\ UNCHANGED <<changes, adminVars, feedVars>>
  BY DEF Claim, Inv, Rows
<1>3. jobs[j].attempt + 1 \in 1 .. MaxAttempts
  BY <1>1, <1>2, ConnectorAssumption DEF Job
<1>4. row \in Job /\ row.version = jobs[j].version
  <2>1. PICK n \in 0 .. MaxAttempts : n = jobs[j].attempt + 1
    BY <1>3
  <2>2. row = [jobs[j] EXCEPT !.status = "running", !.attempt = n, !.cancel = FALSE]
    BY <2>1
  <2> HIDE DEF row
  <2> QED
    BY <1>1, <2>2 DEF Job
<1>5. claim \in Worker /\ claim.pc = "start" /\ claim.job = j /\ claim.next = 1
  BY <1>3, FeedShape DEF Worker
<1> HIDE DEF row, claim
<1>6. /\ workers' \in [Workers -> Worker \cup {Null}] /\ Busy' \subseteq Busy \cup {w}
      /\ workers'[w] = claim /\ \A v \in Busy' \ {w} : workers'[v] = workers[v]
  BY <1>2, <1>5 DEF Inv, Rows, Busy
<1>7. \A v \in Busy' : workers'[v].job \in Jobs
  BY <1>5, <1>6, BusyJobs
<1>8. JobsGoOn
  BY <1>1, <1>2, <1>4, <1>7, OneJob DEF Inv
<1>9. Counted' /\ Rows' /\ Intake'
  BY <1>2, <1>6, <1>8 DEF Inv, Counted, Rows, Intake, JobsGoOn, adminVars, feedVars
<1>10. InHand'
  BY <1>1, <1>5, <1>6, <1>8 DEF Inv, InHand, JobsGoOn
<1>11. VersionsPassed'
  <2>1. ASSUME NEW v \in Busy', workers'[v].pc # "start"
        PROVE  jobs'[workers'[v].job].version \in passed'
    <3>1. v # w /\ v \in Busy /\ workers'[v] = workers[v]
      BY <1>5, <1>6, <2>1
    <3> QED
      BY <1>2, <1>8, <2>1, <3>1 DEF Inv, InHand, VersionsPassed, JobsGoOn, adminVars
  <2> QED
    BY <1>2, <2>1 DEF Inv, VersionsPassed, adminVars, feedVars
<1>12. PagesBehind'
  BY <1>2 DEF Inv, PagesBehind, Taken, feedVars
<1>13. \A v \in Busy' : HasTaken(workers[v])'
  <2>1. HasTaken(workers[w])'
    BY <1>5, <1>6 DEF HasTaken
  <2>2. ASSUME NEW v \in Busy' \ {w} PROVE HasTaken(workers[v])'
    BY <1>2, <1>6 DEF Inv, HasTaken, Taken, feedVars
  <2> QED
    BY <2>1, <2>2
<1> QED
  BY <1>9, <1>10, <1>11, <1>12, <1>13 DEF Inv

\* A worker goes on with its page, while the cursor stays or leaves a page that is taken in.
LEMMA WorkerGoesOn ==
    ASSUME Inv, NEW w \in Workers, workers[w] # Null, NEW p \in Worker,
           workers' = [workers EXCEPT ![w] = p], UNCHANGED <<jobs, changes, adminVars>>,
           p.job = workers[w].job, HasTaken(p)',
           p.pc # "start" => jobs[p.job].version \in passed,
           Intake', PagesBehind', cursor' >= cursor,
           \A e \in Events : Taken(e) => accepted'[e] = accepted[e],
           \A e \in Events : accepted'[e] # Null => accepted'[e] \in passed
    PROVE  Inv'
<1>1. /\ workers' \in [Workers -> Worker \cup {Null}] /\ Busy' = Busy
      /\ workers'[w] = p /\ \A v \in Workers \ {w} : workers'[v] = workers[v]
      /\ w \in Busy
  BY NullIsNoRow DEF Inv, Rows, Busy
<1>2. /\ jobs' = jobs /\ connector' = connector /\ passed' = passed /\ tests' = tests
      /\ admins' = admins /\ changes' = changes
  BY DEF adminVars
<1>3. Counted' /\ Rows' /\ InHand'
  BY <1>1, <1>2 DEF Inv, Counted, Rows, InHand, Busy
<1>4. VersionsPassed'
  BY <1>1, <1>2 DEF Inv, VersionsPassed
<1>5. ASSUME NEW v \in Busy, v # w
      PROVE  HasTaken(workers[v])'
  <2>1. PICK q \in Worker : q = workers[v] /\ workers'[v] = q /\ HasTaken(q)
    BY <1>1, <1>5, BusyJobs DEF Inv, Busy
  <2>2. q.page \in Nat /\ cursor \in Nat /\ cursor' \in Nat
    BY <2>1, FeedShape DEF Worker, Inv, Intake
  <2>3. \A i \in 1 .. Len(PageAt(q.page)) :
           Taken(PageAt(q.page)[i]) => accepted'[PageAt(q.page)[i]] # Null
    BY <2>2, EventsOfFeed DEF Taken
  <2>4. HasTaken(q)'
    BY <2>1, <2>2, <2>3 DEF HasTaken, Taken, PageAt
  <2> QED
    BY <2>1, <2>4
<1> QED
  BY <1>1, <1>3, <1>4, <1>5 DEF Inv

LEMMA FeedAsItWas ==
    ASSUME Inv, UNCHANGED feedVars, passed' = passed
    PROVE  /\ Intake' /\ PagesBehind' /\ cursor' >= cursor
           /\ \A e \in Events : accepted'[e] = accepted[e]
           /\ \A e \in Events : accepted'[e] # Null => accepted'[e] \in passed
BY FeedShape DEF Inv, Intake, PagesBehind, Taken, VersionsPassed, feedVars

LEMMA PullInv == ASSUME Inv, NEW w \in Workers, Pull(w) PROVE Inv'
<1> DEFINE pulls == [workers[w] EXCEPT !.pc = "check", !.page = cursor, !.locks = TRUE]
<1>1. /\ workers[w] # Null /\ workers[w].pc = "start" /\ Bound(w) /\ connector.tested
      /\ workers' = [workers EXCEPT ![w] = pulls]
      /\ UNCHANGED <<jobs, changes, adminVars, feedVars>>
  BY DEF Pull, Inv, Rows
<1>2. workers[w] \in Worker /\ workers[w].next = 1 /\ cursor \in 0 .. Len(Pages)
  BY <1>1 DEF Inv, Rows, Intake, Busy, HasTaken
<1>3. pulls \in Worker /\ pulls.job = workers[w].job /\ pulls.pc = "check"
      /\ pulls.page = cursor /\ pulls.next = 1
  BY <1>2 DEF Worker
<1> HIDE DEF pulls
<1>4. PICK p \in Worker : /\ p.job = workers[w].job /\ p.pc = "check" /\ p.page = cursor
                          /\ p.next = 1 /\ workers' = [workers EXCEPT ![w] = p]
  BY <1>1, <1>3
<1>5. jobs[p.job].version \in passed
  BY <1>1, <1>4 DEF Inv, VersionsPassed, Bound
<1>6. HasTaken(p)'
  BY <1>1, <1>2, <1>4 DEF HasTaken, feedVars
<1> QED
  BY <1>1, <1>4, <1>5, <1>6, FeedAsItWas, WorkerGoesOn DEF adminVars

LEMMA CheckInv == ASSUME Inv, NEW w \in Workers, Check(w) PROVE Inv'
<1>1. /\ workers[w] # Null /\ workers[w].pc = "check" /\ More(w)
      /\ UNCHANGED <<changes, adminVars, feedVars>>
  BY DEF Check
<1>2. CASE Leave(w, "failed")
  BY <1>1, <1>2, LeaveGoesOn, JobsInv DEF JobsOnly
<1>3. CASE workers' = [workers EXCEPT ![w].pc = "persist"] /\ UNCHANGED jobs
  <2>1. workers[w] \in Worker /\ w \in Busy
    BY <1>1 DEF Inv, Rows, Busy
  <2>2. PICK p : p = [workers[w] EXCEPT !.pc = "persist"]
    OBVIOUS
  <2>3. /\ p \in Worker /\ p.job = workers[w].job /\ p.pc = "persist"
        /\ p.page = workers[w].page /\ p.next = workers[w].next
    BY <2>1, <2>2 DEF Worker
  <2>4. workers' = [workers EXCEPT ![w] = p]
    BY <1>3, <2>2 DEF Inv, Rows
  <2>5. HasTaken(p)
    BY <1>1, <2>1, <2>3 DEF Inv, HasTaken, More, Page, PageAt
  <2>6. HasTaken(p)'
    BY <1>1, <2>5 DEF HasTaken, Taken, feedVars
  <2>7. jobs[p.job].version \in passed
    BY <1>1, <2>1, <2>3 DEF Inv, VersionsPassed
  <2>8. passed' = passed /\ UNCHANGED feedVars
    BY <1>1 DEF adminVars
  <2> QED
    BY <1>1, <1>3, <2>3, <2>4, <2>6, <2>7, <2>8, FeedAsItWas, WorkerGoesOn
<1> QED
  BY <1>2, <1>3 DEF Check

\* What a late worker would take in is held already.
LEMMA PersistTakes ==
    ASSUME Inv, NEW w \in Workers, workers[w] # Null, workers[w].pc = "persist"
    PROVE  LET p == workers[w]
               e == Page(w)[p.next]
           IN  /\ p \in Worker /\ p.page \in Nat /\ p.page < Len(Pages)
               /\ p.next \in 1 .. Len(PageAt(p.page)) /\ Page(w) = PageAt(p.page)
               /\ e \in Events /\ e \in Range(Pages[p.page + 1])
               /\ jobs[p.job].version \in passed /\ jobs[p.job].version \in Versions
               /\ accepted[e] = Null => p.page = cursor
<1>1. /\ workers[w] \in Worker /\ w \in Busy /\ HasTaken(workers[w])
      /\ jobs[workers[w].job] \in Job
  BY BusyJobs DEF Inv, Busy
<1> DEFINE n == workers[w].page
           i == workers[w].next
<1>2. n \in Nat /\ cursor \in Nat /\ n <= cursor /\ i \in Nat \ {0} /\ i <= Len(PageAt(n))
  BY <1>1, FeedShape DEF Worker, HasTaken, Inv, Intake
<1>3. Len(PageAt(n)) \in Nat
  BY <1>2, FeedShape
<1> HIDE DEF n, i
<1>4. i \in 1 .. Len(PageAt(n))
  BY <1>2, <1>3
<1>5. n < Len(Pages) /\ PageAt(n)[i] \in Events /\ PageAt(n)[i] \in Range(Pages[n + 1])
  BY <1>2, <1>4, EventsOfFeed
<1>6. Page(w) = PageAt(n)
  BY DEF Page, PageAt, n
<1>7. n < cursor => Taken(PageAt(n)[i])
  BY <1>2, <1>4 DEF Inv, PagesBehind
<1>8. jobs[workers[w].job].version \in passed /\ jobs[workers[w].job].version \in Versions
  BY <1>1 DEF Inv, VersionsPassed, Job
<1> QED
  BY <1>1, <1>2, <1>4, <1>5, <1>6, <1>7, <1>8 DEF Taken, n, i

LEMMA PersistInv == ASSUME Inv, NEW w \in Workers, Persist(w) PROVE Inv'
<1> DEFINE e == Page(w)[workers[w].next]
           v == jobs[workers[w].job].version
<1>1. /\ workers[w] # Null /\ workers[w].pc = "persist"
      /\ UNCHANGED <<cursor, changes, adminVars>>
  BY DEF Persist
<1>2. CASE accepted' = accepted /\ Leave(w, "failed")
  BY <1>1, <1>2, LeaveGoesOn, JobsInv DEF JobsOnly, feedVars
<1> DEFINE next == workers[w].next + 1
           kept == [workers[w] EXCEPT !.pc = "check", !.next = next]
           freed == [workers[w] EXCEPT !.pc = "check", !.next = next, !.locks = FALSE]
<1>3. ASSUME jobs' = jobs,
             workers' = [workers EXCEPT ![w] = kept] \/ workers' = [workers EXCEPT ![w] = freed],
             \/ accepted' = accepted /\ accepted[e] # Null
             \/ accepted[e] = Null /\ accepted' = [accepted EXCEPT ![e] = v]
      PROVE  Inv'
  <2>1. /\ workers[w] \in Worker /\ workers[w].page \in Nat
        /\ workers[w].next \in 1 .. Len(PageAt(workers[w].page)) /\ Page(w) = PageAt(workers[w].page)
        /\ e \in Events /\ v \in passed /\ v \in Versions /\ v # Null /\ w \in Busy
    BY <1>1, PersistTakes, VersionRange DEF VersionsOnly, Busy
  <2>2. next \in Nat
    BY <2>1, FeedShape
  <2> HIDE DEF next
  <2>3. \A q \in {kept, freed} :
          /\ q \in Worker /\ q.job = workers[w].job /\ q.pc = "check"
          /\ q.page = workers[w].page /\ q.next = next
    BY <2>1, <2>2 DEF Worker
  <2> HIDE DEF kept, freed
  <2>4. PICK p \in Worker :
          /\ workers' = [workers EXCEPT ![w] = p]
          /\ p.job = workers[w].job /\ p.pc = "check"
          /\ p.page = workers[w].page /\ p.next = workers[w].next + 1
    BY <1>3, <2>3 DEF next
  <2>5. PICK d : d = e
    OBVIOUS
  <2>6. /\ accepted'[d] # Null /\ \A x \in Events : Taken(x) => accepted'[x] = accepted[x]
        /\ \A x \in Events : accepted'[x] \in {accepted[x], v}
        /\ accepted' \in [Events -> Versions \cup {Null}]
    BY <1>3, <2>1, <2>5 DEF Inv, Intake, Taken
  <2> HIDE DEF e, v
  <2>7. \A x \in Events : accepted'[x] # Null => accepted'[x] \in passed
    BY <2>1, <2>6 DEF Inv, VersionsPassed
  <2>8. Intake' /\ PagesBehind' /\ cursor' >= cursor
    <3>1. passed' = passed /\ cursor' = cursor /\ cursor \in Nat
      BY <1>1, FeedShape DEF adminVars, Inv, Intake
    <3>2. PagesBehind'
      BY <2>6, <3>1, EventsOfFeed DEF Inv, PagesBehind, Taken
    <3> QED
      BY <2>6, <3>1, <3>2 DEF Inv, Intake
  <2>9. HasTaken(p)'
    <3>1. HasTaken(workers[w])
      BY <2>1 DEF Inv
    <3>2. d = PageAt(p.page)[workers[w].next]
      BY <2>1, <2>4, <2>5 DEF e
    <3>3. \A i \in 1 .. Len(PageAt(p.page)) : i < p.next => accepted'[PageAt(p.page)[i]] # Null
      <4>1. ASSUME NEW i \in 1 .. Len(PageAt(p.page)), i < p.next
            PROVE  accepted'[PageAt(p.page)[i]] # Null
        <5>1. CASE i < workers[w].next
          <6>1. Taken(PageAt(p.page)[i])
            BY <1>1, <2>4, <3>1, <5>1 DEF HasTaken
          <6> QED
            BY <2>1, <2>4, <2>6, <6>1, EventsOfFeed DEF Taken
        <5>2. CASE ~ (i < workers[w].next)
          BY <2>1, <2>4, <2>6, <3>2, <4>1, <5>2
        <5> QED
          BY <5>1, <5>2
      <4> QED
        BY <4>1
    <3> QED
      BY <1>1, <2>1, <2>4, <3>1, <3>3 DEF HasTaken, Taken, PageAt
  <2>10. jobs[p.job].version \in passed
    BY <2>1, <2>4 DEF v
  <2> QED
    BY <1>1, <1>3, <2>4, <2>6, <2>7, <2>8, <2>9, <2>10, WorkerGoesOn
<1>4. /\ workers' = [workers EXCEPT ![w] = [@ EXCEPT !.pc = "check", !.next = workers[w].next + 1]]
             => workers' = [workers EXCEPT ![w] = kept]
      /\ workers' = [workers EXCEPT ![w] =
                        [@ EXCEPT !.pc = "check", !.next = workers[w].next + 1, !.locks = FALSE]]
             => workers' = [workers EXCEPT ![w] = freed]
  OBVIOUS
<1> HIDE DEF kept, freed, next
<1> QED
  BY <1>1, <1>2, <1>3, <1>4 DEF Persist

LEMMA AdvanceInv == ASSUME Inv, NEW w \in Workers, Advance(w) PROVE Inv'
<1>1. /\ workers[w] # Null /\ workers[w].pc = "check" /\ ~ More(w)
      /\ UNCHANGED <<accepted, changes, adminVars>>
  BY DEF Advance
<1>2. CASE Leave(w, "failed") /\ UNCHANGED cursor
  BY <1>1, <1>2, LeaveGoesOn, JobsInv DEF JobsOnly, feedVars
<1>3. CASE /\ Moves(w) /\ UNCHANGED jobs
           /\ cursor' = IF workers[w].page < Len(Pages) THEN workers[w].page + 1 ELSE cursor
           /\ workers' = [workers EXCEPT ![w] = [@ EXCEPT !.pc = "done", !.locks = FALSE]]
  <2>1. /\ workers[w] \in Worker /\ w \in Busy /\ HasTaken(workers[w])
        /\ cursor \in 0 .. Len(Pages) /\ Len(Pages) \in Nat /\ workers[w].page = cursor
        /\ Page(w) = PageAt(cursor)
    BY <1>1, <1>3, FeedShape DEF Inv, Rows, Busy, Intake, Moves, Page, PageAt
  <2>2. PICK p : p = [workers[w] EXCEPT !.pc = "done", !.locks = FALSE]
    OBVIOUS
  <2>3. /\ p \in Worker /\ p.job = workers[w].job /\ p.pc = "done"
        /\ p.page = workers[w].page /\ p.next = workers[w].next
    BY <2>1, <2>2 DEF Worker
  <2>4. workers' = [workers EXCEPT ![w] = p]
    BY <1>3, <2>2 DEF Inv, Rows
  <2>5. cursor' \in 0 .. Len(Pages) /\ cursor' >= cursor /\ cursor' <= cursor + 1
    BY <1>3, <2>1
  <2>6. \A i \in 1 .. Len(PageAt(cursor)) : Taken(PageAt(cursor)[i])
    BY <1>1, <2>1, FeedShape DEF HasTaken, More
  <2>7. PagesBehind'
    <3>1. ASSUME NEW n \in Nat, n < cursor', NEW i \in 1 .. Len(PageAt(n))
          PROVE  accepted'[PageAt(n)[i]] # Null
      <4>1. n < cursor \/ n = cursor
        BY <2>1, <2>5, <3>1
      <4>2. Taken(PageAt(n)[i])
        BY <2>6, <4>1 DEF Inv, PagesBehind
      <4> QED
        BY <1>1, <4>2 DEF Taken
    <3> QED
      BY <3>1 DEF PagesBehind, Taken, PageAt
  <2>8. passed' = passed /\ Intake' /\ \A e \in Events : accepted'[e] = accepted[e]
    BY <1>1, <2>5 DEF Inv, Intake, adminVars
  <2>9. HasTaken(p)'
    <3>1. HasTaken(p)
      BY <1>1, <2>1, <2>3 DEF HasTaken
    <3>2. p.page <= cursor'
      BY <2>1, <2>3, <2>5
    <3> QED
      BY <1>1, <2>3, <3>1, <3>2 DEF HasTaken, Taken, PageAt
  <2>10. jobs[p.job].version \in passed /\ \A e \in Events : accepted'[e] # Null => accepted'[e] \in passed
    BY <1>1, <2>1, <2>3, <2>8 DEF Inv, VersionsPassed
  <2> QED
    BY <1>1, <1>3, <2>3, <2>4, <2>5, <2>7, <2>8, <2>9, <2>10, WorkerGoesOn
<1> QED
  BY <1>2, <1>3 DEF Advance

LEMMA InvNext == ASSUME Inv, [Next]_vars PROVE Inv'
<1>1. CASE UNCHANGED vars
  BY <1>1, JobsRest, JobsInv DEF vars, JobsOnly, adminVars, feedVars
<1> QED
  BY <1>1, SaveConfigInv, TestBeginsInv, TestEndsInv, EnableInv, DisableInv, RevokeInv, SubmitInv,
     RetryInv, CancelInv, RecoverInv, ClaimInv, PullInv, PullFailsInv, CheckInv, PersistInv,
     AdvanceInv, FinishInv, CrashInv DEF Next, Work

LEMMA Invariance == Spec => []Inv
<1>1. Init => Inv
  BY InvInit
<1>2. Inv /\ [Next]_vars => Inv'
  BY InvNext
<1> QED
  BY <1>1, <1>2, PTL DEF Spec

-----------------------------------------------------------------------------
(* What the connector takes in *)

\* Whatever was taken in was read with a configuration that passed its test, however tests,
\* changes, takeovers and pulls overlap.
THEOREM IntakeIsTested == Spec => []TestedIntake
<1>1. Inv => TestedIntake
  BY DEF Inv, VersionsPassed, TestedIntake
<1> QED
  BY <1>1, Invariance, PTL

TakenNow == {e \in Events : accepted[e] # Null}

\* Every step takes in one event of the page at the cursor, or moves the cursor past a page
\* that is held as a whole, or does neither.
LEMMA StepReadsInOrder ==
    ASSUME Inv, Inv', [Next]_vars
    PROVE  [Feed!Take \/ Feed!Advance]_<<cursor, TakenNow>>
<1>1. CASE UNCHANGED feedVars
  BY <1>1 DEF feedVars, TakenNow
<1>2. ASSUME NEW w \in Workers, Persist(w)
      PROVE  [Feed!Take \/ Feed!Advance]_<<cursor, TakenNow>>
  <2>1. workers[w] # Null /\ workers[w].pc = "persist" /\ cursor' = cursor
    BY <1>2 DEF Persist
  <2>2. CASE accepted' = accepted
    BY <2>1, <2>2 DEF TakenNow
  <2> DEFINE e == Page(w)[workers[w].next]
             v == jobs[workers[w].job].version
  <2>3. CASE accepted[e] = Null /\ accepted' = [accepted EXCEPT ![e] = v]
    <3>1. /\ cursor < Len(Pages) /\ e \in Events /\ e \in Range(Pages[cursor + 1])
          /\ v # Null
      BY <2>1, <2>3, PersistTakes, VersionRange DEF VersionsOnly
    <3> HIDE DEF e, v
    <3>2. TakenNow' = TakenNow \cup {e} /\ e \notin TakenNow
      BY <2>3, <3>1 DEF TakenNow, Inv, Intake
    <3>3. e \in Feed!Here
      BY <3>1 DEF Feed!Here, Feed!Range, Range
    <3> QED
      BY <2>1, <3>1, <3>2, <3>3 DEF Feed!Take, TakenNow
  <2> QED
    BY <1>2, <2>2, <2>3 DEF Persist
<1>3. ASSUME NEW w \in Workers, Advance(w)
      PROVE  [Feed!Take \/ Feed!Advance]_<<cursor, TakenNow>>
  <2>1. accepted' = accepted /\ TakenNow' = TakenNow
    BY <1>3 DEF Advance, TakenNow
  <2>2. CASE cursor' = cursor
    BY <2>1, <2>2
  <2>3. CASE cursor' # cursor
    <3>1. /\ workers[w] # Null /\ Moves(w) /\ workers[w].page < Len(Pages)
          /\ cursor' = workers[w].page + 1
      BY <1>3, <2>3 DEF Advance
    <3>2. cursor < Len(Pages) /\ cursor' = cursor + 1 /\ cursor \in Nat
      BY <3>1, FeedShape DEF Moves, Inv, Intake
    <3>3. Range(Pages[cursor + 1]) \subseteq TakenNow
      <4>1. ASSUME NEW i \in DOMAIN Pages[cursor + 1] PROVE Pages[cursor + 1][i] \in TakenNow
        <5>1. i \in 1 .. Len(PageAt(cursor)) /\ PageAt(cursor) = Pages[cursor + 1]
          BY <3>2, <4>1, FeedShape
        <5>2. PICK n \in Nat : n = cursor
          BY <3>2
        <5>3. accepted'[PageAt(n)[i]] # Null
          <6>1. PagesBehind' /\ n < cursor'
            BY <3>2, <5>2 DEF Inv
          <6>2. \A k \in 1 .. Len(PageAt(n)) : accepted'[PageAt(n)[k]] # Null
            BY <6>1 DEF PagesBehind, Taken, PageAt
          <6> QED
            BY <5>1, <5>2, <6>2
        <5>4. PageAt(n)[i] \in Events
          BY <5>1, <5>2, EventsOfFeed
        <5> QED
          BY <2>1, <5>1, <5>2, <5>3, <5>4 DEF TakenNow
      <4> QED
        BY <4>1 DEF Range
    <3> QED
      BY <2>1, <3>2, <3>3 DEF Feed!Advance, Feed!Here, Feed!Range, Range, TakenNow
  <2> QED
    BY <2>2, <2>3
<1>4. Next => UNCHANGED feedVars \/ \E w \in Workers : Persist(w) \/ Advance(w)
  <2>1. ASSUME NEW w \in Workers, Work(w) \/ Crash(w) \/ \E j \in Jobs : Claim(w, j)
        PROVE  UNCHANGED feedVars \/ Persist(w) \/ Advance(w)
    <3>1. Pull(w) \/ PullFails(w) \/ Check(w) \/ Finish(w) => UNCHANGED feedVars
      BY DEF Pull, PullFails, Check, Finish
    <3>2. Crash(w) => UNCHANGED feedVars
      BY DEF Crash
    <3>3. ASSUME NEW j \in Jobs, Claim(w, j) PROVE UNCHANGED feedVars
      BY <3>3 DEF Claim
    <3> QED
      BY <2>1, <3>1, <3>2, <3>3 DEF Work
  <2>2. ASSUME NEW j \in Jobs, Retry(j) \/ Cancel(j) \/ Recover(j) PROVE UNCHANGED feedVars
    BY <2>2 DEF Retry, Cancel, Recover
  <2>3. ASSUME NEW a \in Admins, Enable(a) \/ Revoke(a) \/ \E j \in Jobs : Submit(j, a)
        PROVE  UNCHANGED feedVars
    BY <2>3 DEF Enable, Revoke, Submit
  <2>4. ASSUME NEW t \in Tests, TestBegins(t) \/ TestPasses(t) \/ TestFails(t)
        PROVE  UNCHANGED feedVars
    BY <2>4 DEF TestBegins, TestPasses, TestFails
  <2>5. ASSUME Disable \/ TestExpires \/ \E m \in Mappings : SaveConfig(m)
        PROVE  UNCHANGED feedVars
    BY <2>5 DEF Disable, TestExpires, SaveConfig
  <2> QED
    BY <2>1, <2>2, <2>3, <2>4, <2>5 DEF Next
<1>5. UNCHANGED vars => UNCHANGED feedVars
  BY DEF vars, feedVars
<1> QED
  BY <1>1, <1>2, <1>3, <1>4, <1>5

\* "The cursor is only moved past events that are held": the connector implements a feed that
\* is read page by page, with any number of workers on one page or behind it.
THEOREM FeedIsReadInOrder == Spec => ReadsInOrder
<1>1. Init => cursor = 0 /\ TakenNow = {}
  BY DEF Init, TakenNow
<1>2. Inv /\ Inv' /\ [Next]_vars => [Feed!Take \/ Feed!Advance]_<<cursor, TakenNow>>
  BY StepReadsInOrder
<1> QED
  BY <1>1, <1>2, Invariance, PTL DEF Spec, ReadsInOrder, Feed!Spec, TakenNow

-----------------------------------------------------------------------------
(* A call of the laboratory: the inductive invariant *)

\* The line: what client and host send each other.
Command ==
    [kind : {"playback_interrupted", "cancel"}, turn : Talk!Turns]
    \cup [kind : {"turn"}, turn : Talk!Turns, word : Words \cup {"greeting"},
          previous_interrupted : BOOLEAN]
    \cup [kind : {"session_end"}, turn : Talk!Turns, interrupted : BOOLEAN]
    \cup [kind : {"disconnect"}]

Event ==
    [kind : {"audio", "cancelled", "error"}, turn : Talk!Turns]
    \cup [kind : {"complete"}, turn : Talk!Turns, end : BOOLEAN]
    \cup [kind : {"closed"}]

Client == [phase : {"open", "stopping", "gone"}, pending : Talk!Pending \cup {Nobody},
           remote : Talk!Remote \cup {Nobody}, unreported : BOOLEAN,
           last : Talk!Turns \cup {Nobody}, audio : Seq(Talk!Turns), active : BOOLEAN,
           ended : BOOLEAN, submitted : 0 .. MaxTurns, speaking : BOOLEAN]

Host == [open : BOOLEAN, gate : BOOLEAN, clean : BOOLEAN, active : Talk!Turns \cup {Nobody},
         last : Talk!Turns \cup {Nobody}, cancel : BOOLEAN, queue : 0 .. QueueSize]

TalkTypes ==
    /\ client \in Client /\ host \in Host
    /\ worker \in Talk!Thread \cup {Nobody} /\ engine \in Talk!Engine
    /\ heard \in [Talk!Turns -> 0 .. Frames]
    /\ up \in Seq(Command) /\ down \in Seq(Event)

\* The client waits for a reply it still wants to hear; it listens to the line; a worker is
\* at work.
Fresh(c) == c.remote # Nobody /\ ~ c.remote.stale
OnLine(c) == c.phase \in {"open", "stopping"}
Thinks(w) == w # Nobody /\ w.outcome = Nobody

\* The client (c) against what was heard (g): a reply that is wanted is the one to the last
\* words, nothing of a later one was heard, and what waits to be played is of it, and no more
\* than is missing of it.  Whatever was spoken over is still to be reported.
ClientSound(c, g) ==
    /\ \A m \in Talk!Turns : m > c.submitted => g[m] = 0
    /\ c.speaking => c.pending = Nobody /\ c.audio = <<>> /\ ~ Fresh(c)
    /\ c.pending # Nobody =>
          /\ c.phase # "stopping" /\ c.active /\ c.audio = <<>> /\ ~ Fresh(c)
          /\ c.pending.turn = c.submitted /\ g[c.submitted] = 0
    /\ Fresh(c) =>
          /\ c.phase = "open" /\ c.remote.turn = c.submitted /\ c.active /\ c.pending = Nobody
          /\ ~ c.unreported
    /\ c.remote # Nobody /\ c.remote.stale => c.unreported
    /\ c.audio # <<>> =>
          /\ c.phase = "open"
          /\ Fresh(c) \/ (c.remote = Nobody /\ c.last = c.submitted)
          /\ c.submitted # 0 /\ g[c.submitted] + Len(c.audio) <= Frames
    /\ \A i \in 1 .. Len(c.audio) : c.audio[i] = c.submitted

\* The session and its gate (h) against the worker (w): the gate is shut while a worker may
\* touch the dialogue, and is kept for a session that is over only if it ended uncleanly.
HostSound(h, w) ==
    /\ h.open => h.gate /\ (w = Nobody => h.active = Nobody /\ h.queue = 0)
                 /\ (w # Nobody => h.active = w.turn)
    /\ h.open /\ w # Nobody => (w.outcome = "cancelled" => h.cancel)
    /\ h.gate /\ ~ h.open => ~ h.clean
    /\ ~ h.gate => ~ Thinks(w)
    /\ w # Nobody /\ w.outcome = "complete" => w.thought # Nobody /\ w.left = 0

\* All that stands in the dialogue (e) rests on replies that were heard, those of S aside.
Sure(e, g, S) ==
    \A t \in {e.basis, e.stop} \ {Nobody} : g[t] = Frames \/ t \in S

Based(e) == e.stage = "collecting" <=> e.basis = Nobody

\* While a worker thinks nothing stands that was not heard; what it will leave rests on its
\* own reply at most, and so does the dialogue once it is through; nothing that was not
\* heard is left when the gate is open.
EngineSound(h, w, e, g) ==
    /\ Based(e)
    /\ Thinks(w) => Sure(e, g, {})
    /\ Thinks(w) /\ w.thought # Nobody =>
          /\ \A t \in w.thought.relies_on : g[t] = Frames
          /\ Based(w.thought.next) /\ Sure(w.thought.next, g, {w.turn})
    /\ h.open /\ w # Nobody /\ w.outcome = "complete" => Sure(e, g, {w.turn})
    /\ ~ h.gate => Sure(e, g, {})

\* A command that says, or lets it be taken, that the last reply was heard.
Trusting(k) ==
    \/ k.kind = "turn" /\ ~ k.previous_interrupted
    \/ k.kind = "session_end" /\ ~ k.interrupted

\* Between turns only the last reply may be one that was not heard, and a command on the line
\* that trusts it is right to, or comes after a word that it was interrupted.
Trusted(u, h, w, e, g) ==
    h.open /\ w = Nobody =>
        /\ Sure(e, g, {h.last})
        /\ \A i \in 1 .. Len(u) : Trusting(u[i]) =>
              \/ Sure(e, g, {})
              \/ \E j \in 1 .. i - 1 : u[j].kind = "playback_interrupted"

\* Once a turn was asked for, nothing but its cancellation or the end is sent.
LastWords(u, w) ==
    /\ \A i \in 1 .. Len(u) : u[i].kind = "turn" =>
          \A j \in i + 1 .. Len(u) : u[j].kind \in {"cancel", "disconnect"}
    /\ w # Nobody => \A i \in 1 .. Len(u) : u[i].kind \in {"cancel", "disconnect"}

\* Client and host agree on the turn that is under way: it is on the line to the host, or its
\* worker speaks, or its verdict is the last thing on the line to the client.  As long as the
\* client wants the reply, nobody has cancelled it.
NoTurn(u) == \A i \in 1 .. Len(u) : u[i].kind # "turn"

Asked(c, u, g) ==
    \E i \in 1 .. Len(u) :
        /\ u[i].kind = "turn" /\ u[i].turn = c.remote.turn
        /\ ~ c.remote.stale =>
              /\ c.audio = <<>> /\ g[c.remote.turn] = 0
              /\ \A j \in i + 1 .. Len(u) : u[j].kind # "cancel"

Answering(c, u, d, h, w) ==
    /\ w.turn = c.remote.turn
    /\ \A i \in 1 .. Len(d) : d[i].kind = "audio"
    /\ ~ c.remote.stale => ~ h.cancel /\ \A i \in 1 .. Len(u) : u[i].kind # "cancel"

Flows(c, u, d, h, w, g) ==
    OnLine(c) /\ h.open =>
        /\ \A i \in 1 .. Len(d) : d[i].kind \notin {"closed", "error"}
        /\ c.remote = Nobody => w = Nobody /\ d = <<>> /\ NoTurn(u)
        /\ c.remote # Nobody /\ w # Nobody => Answering(c, u, d, h, w)
        /\ c.remote # Nobody /\ w = Nobody =>
              \/ d = <<>> /\ Asked(c, u, g)
              \/ NoTurn(u) /\ d # <<>> /\ d[Len(d)].kind \in {"complete", "cancelled"}

\* On the line to the client: the blocks of the turn (k of them), its verdict, the end.  Played,
\* waiting, on the line and still to be spoken, the blocks of a reply that is wanted add up.
Left(h, w) == IF h.open /\ w # Nobody THEN h.queue + w.left ELSE 0

Blocks(d, r, k) ==
    /\ \A i \in 1 .. k : d[i].kind = "audio" /\ d[i].turn = r.turn
    /\ \A i \in k + 1 .. Len(d) : d[i].kind # "audio"
    /\ \A i \in k + 2 .. Len(d) : d[i].kind = "closed"
    /\ k < Len(d) /\ d[k + 1].kind # "closed" => d[k + 1].turn = r.turn
    /\ k < Len(d) /\ d[k + 1].kind = "cancelled" => r.stale

Balance(c, d, h, w, g, k) ==
    LET n == g[c.remote.turn] + Len(c.audio) + k + Left(h, w) IN
    /\ n <= Frames
    /\ h.open /\ w # Nobody => n = Frames
    /\ k < Len(d) /\ d[k + 1].kind = "complete" => n = Frames

Comes(c, d, h, w, g) ==
    OnLine(c) =>
        /\ c.remote = Nobody => \A i \in 1 .. Len(d) : d[i].kind = "closed"
        /\ c.remote # Nobody => \E k \in 0 .. Len(d) :
              Blocks(d, c.remote, k) /\ (~ c.remote.stale => Balance(c, d, h, w, g, k))

\* If the last reply was not heard and nobody has said so, the client will know: it has not
\* asked further, or has yet to learn that the reply was complete, or has it to report, or
\* still has the rest of it to play.
Believes(c, u, d, h, w, e, g) ==
    (/\ OnLine(c) /\ h.open /\ w = Nobody /\ ~ Sure(e, g, {})
     /\ \A i \in 1 .. Len(u) : u[i].kind # "playback_interrupted") =>
        \/ ~ NoTurn(u)
        \/ c.remote # Nobody /\ c.remote.turn = h.last /\ d # <<>> /\ d[Len(d)].kind = "complete"
        \/ /\ c.remote = Nobody /\ c.last = h.last
           /\ c.unreported \/ g[h.last] + Len(c.audio) = Frames

\* The inductive invariant of a call.
TalkInv ==
    /\ TalkTypes
    /\ ClientSound(client, heard)
    /\ HostSound(host, worker)
    /\ EngineSound(host, worker, engine, heard)
    /\ Trusted(up, host, worker, engine, heard)
    /\ host.open => LastWords(up, worker)
    /\ Flows(client, up, down, host, worker, heard)
    /\ Comes(client, down, host, worker, heard)
    /\ Believes(client, up, down, host, worker, engine, heard)

-----------------------------------------------------------------------------
(* What is sent, taken and noted down *)

\* What is sent comes after what is under way.
LEMMA Sending ==
    ASSUME NEW S, NEW u \in Seq(S), NEW a \in S, NEW b \in S
    PROVE  /\ u \o <<a>> \in Seq(S) /\ Len(u \o <<a>>) = Len(u) + 1
           /\ \A i \in 1 .. Len(u) : (u \o <<a>>)[i] = u[i]
           /\ (u \o <<a>>)[Len(u) + 1] = a
           /\ LET both == u \o (<<a>> \o <<b>>)
              IN  /\ both \in Seq(S) /\ Len(both) = Len(u) + 2
                  /\ \A i \in 1 .. Len(u) : both[i] = u[i]
                  /\ both[Len(u) + 1] = a /\ both[Len(u) + 2] = b
<1>1. <<a>> \o <<b>> \in Seq(S) /\ Len(<<a>> \o <<b>>) = 2
      /\ (<<a>> \o <<b>>)[1] = a /\ (<<a>> \o <<b>>)[2] = b
  OBVIOUS
<1> QED
  BY <1>1

LEMMA Appending ==
    ASSUME NEW S, NEW u \in Seq(S), NEW a \in S
    PROVE  /\ Append(u, a) \in Seq(S) /\ Len(Append(u, a)) = Len(u) + 1 /\ Append(u, a) # <<>>
           /\ \A i \in 1 .. Len(u) : Append(u, a)[i] = u[i]
           /\ Append(u, a)[Len(u) + 1] = a
OBVIOUS

LEMMA Taking ==
    ASSUME NEW S, NEW u \in Seq(S), u # <<>>
    PROVE  /\ Tail(u) \in Seq(S) /\ Len(u) >= 1 /\ Len(Tail(u)) = Len(u) - 1
           /\ u[1] \in S /\ Head(u) = u[1]
           /\ \A i \in 1 .. Len(Tail(u)) : Tail(u)[i] = u[i + 1]
OBVIOUS

LEMMA CommandFields ==
    ASSUME NEW k \in Command
    PROVE  /\ k.kind \in {"playback_interrupted", "cancel", "turn", "session_end", "disconnect"}
           /\ k.kind # "disconnect" => k.turn \in Talk!Turns
           /\ k.kind = "turn" => k.word \in Words \cup {"greeting"}
BY DEF Command

LEMMA EventFields ==
    ASSUME NEW k \in Event
    PROVE  /\ k.kind \in {"audio", "cancelled", "error", "complete", "closed"}
           /\ k.kind # "closed" => k.turn \in Talk!Turns
           /\ k.kind = "complete" => k.end \in BOOLEAN
BY DEF Event

-----------------------------------------------------------------------------
\* The caller speaks up, or hangs up: what was under way is no longer listened to, and what
\* was not played to its end is known to be so.
Quieter(c, C) ==
    /\ OnLine(C) <=> OnLine(c)
    /\ C.remote = Nobody <=> c.remote = Nobody
    /\ c.remote # Nobody =>
          C.remote.turn = c.remote.turn /\ (c.remote.stale => C.remote.stale)
    /\ Fresh(C) => C.audio = c.audio
    /\ C.last = c.last
    /\ c.unreported => C.unreported
    /\ C.unreported \/ C.audio = c.audio

LEMMA QuieterFlows ==
    ASSUME NEW c, NEW C, NEW u, NEW d, NEW h, NEW w, NEW g,
           Quieter(c, C), Flows(c, u, d, h, w, g)
    PROVE  Flows(C, u, d, h, w, g)
<1> SUFFICES ASSUME OnLine(C), h.open PROVE Flows(C, u, d, h, w, g)
  BY DEF Flows
<1>1. OnLine(c)
  BY DEF Quieter
<1>2. CASE c.remote = Nobody
  BY <1>1, <1>2 DEF Flows, Quieter
<1>3. CASE c.remote # Nobody
  <2>1. /\ C.remote # Nobody /\ C.remote.turn = c.remote.turn
        /\ ~ C.remote.stale => ~ c.remote.stale /\ C.audio = c.audio
    BY <1>3 DEF Quieter, Fresh
  <2>2. Asked(c, u, g) => Asked(C, u, g)
    BY <2>1 DEF Asked
  <2>3. Answering(c, u, d, h, w) => Answering(C, u, d, h, w)
    BY <2>1 DEF Answering
  <2> QED
    BY <1>1, <1>3, <2>1, <2>2, <2>3 DEF Flows
<1> QED
  BY <1>2, <1>3

LEMMA QuieterComes ==
    ASSUME NEW c, NEW C, NEW d, NEW h, NEW w, NEW g,
           Quieter(c, C), Comes(c, d, h, w, g)
    PROVE  Comes(C, d, h, w, g)
<1> SUFFICES ASSUME OnLine(C) PROVE Comes(C, d, h, w, g)
  BY DEF Comes
<1>1. OnLine(c)
  BY DEF Quieter
<1>2. CASE c.remote = Nobody
  BY <1>1, <1>2 DEF Comes, Quieter
<1>3. CASE c.remote # Nobody
  <2>1. /\ C.remote # Nobody /\ C.remote.turn = c.remote.turn
        /\ c.remote.stale => C.remote.stale
        /\ ~ C.remote.stale => ~ c.remote.stale /\ C.audio = c.audio
    BY <1>3 DEF Quieter, Fresh
  <2>2. PICK k \in 0 .. Len(d) :
           Blocks(d, c.remote, k) /\ (~ c.remote.stale => Balance(c, d, h, w, g, k))
    BY <1>1, <1>3 DEF Comes
  <2>3. Blocks(d, C.remote, k)
    BY <2>1, <2>2 DEF Blocks
  <2>4. ~ C.remote.stale => Balance(C, d, h, w, g, k)
    BY <2>1, <2>2 DEF Balance
  <2> QED
    BY <2>1, <2>3, <2>4 DEF Comes
<1> QED
  BY <1>2, <1>3

LEMMA QuieterBelieves ==
    ASSUME NEW c, NEW C, NEW u, NEW d, NEW h, NEW w, NEW e, NEW g,
           Quieter(c, C), Believes(c, u, d, h, w, e, g)
    PROVE  Believes(C, u, d, h, w, e, g)
BY DEF Quieter, Believes

LEMMA StaleRemotes ==
    ASSUME LabAssumption, NEW r \in Talk!Remote \cup {Nobody}
    PROVE  /\ Talk!Stale(r) \in Talk!Remote \cup {Nobody}
           /\ r = Nobody <=> Talk!Stale(r) = Nobody
           /\ r # Nobody => Talk!Stale(r).stale /\ Talk!Stale(r).turn = r.turn
BY DEF LabAssumption, Talk!NoneIsNoRecord, Talk!Remote, Talk!Stale

LEMMA ClientFields ==
    ASSUME NEW c \in Client
    PROVE  /\ c.phase \in {"open", "stopping", "gone"} /\ c.pending \in Talk!Pending \cup {Nobody}
           /\ c.remote \in Talk!Remote \cup {Nobody} /\ c.unreported \in BOOLEAN
           /\ c.last \in Talk!Turns \cup {Nobody} /\ c.audio \in Seq(Talk!Turns)
           /\ c.active \in BOOLEAN /\ c.ended \in BOOLEAN
           /\ c.submitted \in 0 .. MaxTurns /\ c.speaking \in BOOLEAN
BY DEF Client

LEMMA SpeechStartsQuietly ==
    ASSUME LabAssumption, TalkTypes, ClientSound(client, heard), Talk!SpeechStarts
    PROVE  client' \in Client /\ Quieter(client, client') /\ ClientSound(client', heard)
<1>1. client \in Client /\ client.phase = "open" /\ ~ client.speaking
  BY DEF TalkTypes, Talk!SpeechStarts
<1>2. CASE Talk!Interruptible(client)
  <2>1. client' = [client EXCEPT !.speaking = TRUE, !.remote = Talk!Stale(client.remote),
                                 !.pending = Nobody, !.audio = <<>>, !.ended = FALSE,
                                 !.unreported = TRUE, !.active = FALSE]
    BY <1>2 DEF Talk!SpeechStarts
  <2>2. /\ client' \in Client /\ client'.phase = "open" /\ client'.speaking
        /\ client'.remote = Talk!Stale(client.remote) /\ client'.pending = Nobody
        /\ client'.audio = <<>> /\ client'.unreported /\ client'.last = client.last
        /\ client'.submitted = client.submitted
    <3>1. Talk!Stale(client.remote) \in Talk!Remote \cup {Nobody} /\ <<>> \in Seq(Talk!Turns)
      BY <1>1, ClientFields, StaleRemotes
    <3> QED
      BY <1>1, <2>1, <3>1 DEF Client
  <2>3. ~ Fresh(client')
    BY <1>1, <2>2, StaleRemotes, ClientFields DEF Fresh
  <2>4. Quieter(client, client')
    BY <1>1, <2>2, <2>3, StaleRemotes, ClientFields DEF Quieter, OnLine
  <2>5. ClientSound(client', heard)
    BY <2>2, <2>3 DEF ClientSound
  <2> QED
    BY <2>2, <2>4, <2>5
<1>3. CASE ~ Talk!Interruptible(client)
  <2>1. client' = [client EXCEPT !.speaking = TRUE]
    BY <1>3 DEF Talk!SpeechStarts
  <2>2. /\ client' \in Client /\ client'.phase = "open"
        /\ client'.remote = client.remote /\ client'.pending = client.pending
        /\ client'.audio = client.audio /\ client'.unreported = client.unreported
        /\ client'.last = client.last /\ client'.submitted = client.submitted
        /\ client'.active = client.active
    BY <1>1, <2>1 DEF Client
  <2>3. /\ client.audio = <<>> /\ client.pending = Nobody /\ ~ Fresh(client)
    BY <1>3 DEF Talk!Interruptible, ClientSound
  <2>4. Quieter(client, client')
    BY <1>1, <2>2 DEF Quieter, OnLine
  <2>5. ClientSound(client', heard)
    BY <1>1, <2>2, <2>3 DEF ClientSound, Fresh
  <2> QED
    BY <2>2, <2>4, <2>5
<1> QED
  BY <1>2, <1>3

LEMMA NoiseIsQuiet ==
    ASSUME LabAssumption, TalkTypes, ClientSound(client, heard), Talk!SpeechWasNoise
    PROVE  client' \in Client /\ Quieter(client, client') /\ ClientSound(client', heard)
<1>1. client \in Client /\ client.phase = "open" /\ client' = [client EXCEPT !.speaking = FALSE]
  BY DEF TalkTypes, Talk!SpeechWasNoise
<1>2. /\ client' \in Client /\ client'.phase = "open" /\ ~ client'.speaking
      /\ client'.remote = client.remote /\ client'.pending = client.pending
      /\ client'.audio = client.audio /\ client'.unreported = client.unreported
      /\ client'.last = client.last /\ client'.submitted = client.submitted
      /\ client'.active = client.active
  BY <1>1 DEF Client
<1>3. Quieter(client, client')
  BY <1>1, <1>2 DEF Quieter, OnLine
<1>4. ClientSound(client', heard)
  BY <1>1, <1>2 DEF ClientSound, Fresh
<1> QED
  BY <1>2, <1>3, <1>4

LEMMA SpeechEndsQuietly ==
    ASSUME LabAssumption, TalkTypes, ClientSound(client, heard),
           NEW word \in Words, Talk!SpeechEnds(word)
    PROVE  client' \in Client /\ Quieter(client, client') /\ ClientSound(client', heard)
<1> DEFINE next == client.submitted + 1
           pending == [turn |-> next, word |-> word]
<1>1. /\ client \in Client /\ client.phase = "open" /\ client.speaking
      /\ client.submitted < MaxTurns
      /\ client' = [client EXCEPT !.speaking = FALSE, !.remote = Talk!Stale(client.remote),
                                  !.audio = <<>>, !.ended = FALSE, !.active = TRUE,
                                  !.submitted = next, !.pending = pending]
  BY DEF TalkTypes, Talk!SpeechEnds
<1>2. next \in Talk!Turns /\ next \in 0 .. MaxTurns /\ next = client.submitted + 1
  BY <1>1, ClientFields DEF LabAssumption, Talk!VoiceAssumption, Talk!Turns
<1>3. pending \in Talk!Pending /\ pending.turn = next /\ pending # Nobody
  BY <1>2 DEF Talk!Pending, LabAssumption, Talk!NoneIsNoRecord
<1> HIDE DEF pending, next
<1>4. /\ client' \in Client /\ client'.phase = "open" /\ ~ client'.speaking
      /\ client'.remote = Talk!Stale(client.remote) /\ client'.pending = pending
      /\ client'.audio = <<>> /\ client'.unreported = client.unreported
      /\ client'.last = client.last /\ client'.submitted = next /\ client'.active
  <2>1. Talk!Stale(client.remote) \in Talk!Remote \cup {Nobody} /\ <<>> \in Seq(Talk!Turns)
    BY <1>1, ClientFields, StaleRemotes
  <2> QED
    BY <1>1, <1>2, <1>3, <2>1 DEF Client
<1>5. ~ Fresh(client') /\ client.audio = <<>> /\ client.pending = Nobody /\ ~ Fresh(client)
  BY <1>1, <1>4, StaleRemotes, ClientFields DEF Fresh, ClientSound
<1>6. Quieter(client, client')
  BY <1>1, <1>4, <1>5, StaleRemotes, ClientFields DEF Quieter, OnLine
<1>7. /\ heard[next] = 0 /\ \A m \in Talk!Turns : m > next => heard[m] = 0
  BY <1>1, <1>2, ClientFields DEF ClientSound, Talk!Turns, LabAssumption, Talk!VoiceAssumption
<1>8. client'.remote # Nobody /\ client'.remote.stale => client'.unreported
  BY <1>1, <1>4, <1>5, StaleRemotes, ClientFields DEF ClientSound, Fresh
<1>9. ClientSound(client', heard)
  BY <1>3, <1>4, <1>5, <1>7, <1>8 DEF ClientSound
<1> QED
  BY <1>4, <1>6, <1>9

LEMMA HangUpsAreQuiet ==
    ASSUME LabAssumption, TalkTypes, ClientSound(client, heard), Talk!HangsUp
    PROVE  client' \in Client /\ Quieter(client, client') /\ ClientSound(client', heard)
<1>1. /\ client \in Client /\ client.phase = "open"
      /\ client' = [client EXCEPT !.phase = "stopping",
                                  !.unreported = client.unreported \/ Talk!Interruptible(client),
                                  !.remote = Talk!Stale(client.remote), !.pending = Nobody,
                                  !.audio = <<>>]
  BY DEF TalkTypes, Talk!HangsUp
<1>2. ASSUME NEW said \in BOOLEAN,
             client' = [client EXCEPT !.phase = "stopping", !.unreported = said,
                                      !.remote = Talk!Stale(client.remote), !.pending = Nobody,
                                      !.audio = <<>>]
      PROVE  /\ client' \in Client /\ client'.phase = "stopping"
             /\ client'.remote = Talk!Stale(client.remote) /\ client'.pending = Nobody
             /\ client'.audio = <<>> /\ client'.unreported = said
             /\ client'.last = client.last /\ client'.submitted = client.submitted
  <2>1. Talk!Stale(client.remote) \in Talk!Remote \cup {Nobody} /\ <<>> \in Seq(Talk!Turns)
    BY <1>1, ClientFields, StaleRemotes
  <2> QED
    BY <1>1, <1>2, <2>1 DEF Client
<1>3. /\ client' \in Client /\ client'.phase = "stopping"
      /\ client'.remote = Talk!Stale(client.remote) /\ client'.pending = Nobody
      /\ client'.audio = <<>>
      /\ client'.unreported <=> client.unreported \/ Talk!Interruptible(client)
      /\ client'.last = client.last /\ client'.submitted = client.submitted
  <2>1. (client.unreported \/ Talk!Interruptible(client)) \in BOOLEAN
    BY <1>1, ClientFields
  <2> QED
    BY <1>1, <1>2, <2>1
<1>4. ~ Fresh(client')
  BY <1>1, <1>3, StaleRemotes, ClientFields DEF Fresh
<1>5. Quieter(client, client')
  BY <1>1, <1>3, <1>4, StaleRemotes, ClientFields DEF Quieter, OnLine, Talk!Interruptible
<1>6. client'.remote # Nobody => client'.unreported
  BY <1>1, <1>3, StaleRemotes, ClientFields DEF ClientSound, Fresh, Talk!Interruptible
<1>7. ClientSound(client', heard)
  BY <1>3, <1>4, <1>6 DEF ClientSound
<1> QED
  BY <1>3, <1>5, <1>7

LEMMA CallerKeepsTalk == ASSUME LabAssumption, TalkInv, Talk!Caller PROVE TalkInv'
<1>1. /\ up' = up /\ down' = down /\ host' = host /\ worker' = worker /\ engine' = engine
      /\ heard' = heard
  BY DEF Talk!Caller, Talk!SpeechStarts, Talk!SpeechWasNoise, Talk!SpeechEnds, Talk!HangsUp,
         Talk!hostVars
<1>2. client' \in Client /\ Quieter(client, client') /\ ClientSound(client', heard)
  BY SpeechStartsQuietly, NoiseIsQuiet, SpeechEndsQuietly, HangUpsAreQuiet DEF Talk!Caller, TalkInv
<1>3. /\ Flows(client', up, down, host, worker, heard) /\ Comes(client', down, host, worker, heard)
      /\ Believes(client', up, down, host, worker, engine, heard)
  BY <1>2, QuieterFlows, QuieterComes, QuieterBelieves DEF TalkInv
<1> QED
  BY <1>1, <1>2, <1>3 DEF TalkInv, TalkTypes

-----------------------------------------------------------------------------
\* What was heard stays heard.
Hears(g, G) == \A t \in Talk!Turns : g[t] = Frames => G[t] = Frames

LEMMA HeardStaysHeard ==
    ASSUME NEW g, NEW G, NEW S, NEW e \in Talk!Engine, Hears(g, G), Sure(e, g, S)
    PROVE  Sure(e, G, S)
BY DEF Sure, Hears, Talk!Engine

LEMMA ReplyFields ==
    ASSUME NEW w \in Talk!Thread \cup {Nobody}, w # Nobody
    PROVE  /\ w.turn \in Talk!Turns /\ w.left \in 0 .. Frames
           /\ w.thought # Nobody => w.thought.next \in Talk!Engine
           /\ w.thought # Nobody => w.thought.relies_on \subseteq Talk!Turns
BY DEF Talk!Thread, Talk!Reply

\* One block is played.
Played(c, C, g, G) ==
    /\ c.audio # <<>> /\ C.audio = Tail(c.audio)
    /\ C.phase = c.phase /\ C.pending = c.pending /\ C.remote = c.remote
    /\ C.unreported = c.unreported /\ C.last = c.last /\ C.active = c.active
    /\ C.submitted = c.submitted /\ C.speaking = c.speaking
    /\ G = [g EXCEPT ![c.submitted] = @ + 1]

Adds(c, C, g, G) ==
    /\ c.submitted \in Talk!Turns /\ c.phase = "open"
    /\ G \in [Talk!Turns -> 0 .. Frames] /\ G[c.submitted] = g[c.submitted] + 1
    /\ \A t \in Talk!Turns \ {c.submitted} : G[t] = g[t]
    /\ C.audio \in Seq(Talk!Turns) /\ Len(C.audio) = Len(c.audio) - 1 /\ Len(c.audio) >= 1
    /\ \A i \in 1 .. Len(C.audio) : C.audio[i] = c.submitted
    /\ G[c.submitted] + Len(C.audio) = g[c.submitted] + Len(c.audio)
    /\ Hears(g, G)

LEMMA PlayedAdds ==
    ASSUME LabAssumption, NEW c \in Client, NEW C, NEW g \in [Talk!Turns -> 0 .. Frames], NEW G,
           ClientSound(c, g), Played(c, C, g, G)
    PROVE  Adds(c, C, g, G)
<1>1. /\ c.submitted \in Talk!Turns /\ c.phase = "open" /\ c.audio \in Seq(Talk!Turns)
      /\ g[c.submitted] + Len(c.audio) <= Frames
  BY ClientFields DEF ClientSound, Played, Talk!Turns
<1>2. /\ C.audio \in Seq(Talk!Turns) /\ Len(C.audio) = Len(c.audio) - 1 /\ Len(c.audio) >= 1
      /\ \A i \in 1 .. Len(C.audio) : C.audio[i] = c.audio[i + 1]
  BY <1>1, Taking DEF Played
<1>3. \A i \in 1 .. Len(C.audio) : C.audio[i] = c.submitted
  <2>1. \A i \in 1 .. Len(c.audio) : c.audio[i] = c.submitted
    BY DEF ClientSound
  <2>2. ASSUME NEW i \in 1 .. Len(C.audio) PROVE C.audio[i] = c.submitted
    <3>1. i + 1 \in 1 .. Len(c.audio)
      BY <1>1, <1>2
    <3>2. C.audio[i] = c.audio[i + 1]
      BY <1>2
    <3> QED
      BY <2>1, <3>1, <3>2
  <2> QED
    BY <2>2
<1>4. g[c.submitted] < Frames /\ g[c.submitted] + 1 \in 0 .. Frames
  BY <1>1, <1>2 DEF LabAssumption, Talk!VoiceAssumption
<1>5. /\ G \in [Talk!Turns -> 0 .. Frames] /\ G[c.submitted] = g[c.submitted] + 1
      /\ \A t \in Talk!Turns \ {c.submitted} : G[t] = g[t]
  BY <1>1, <1>4 DEF Played
<1> QED
  <2>1. Hears(g, G)
    BY <1>4, <1>5 DEF Hears
  <2>2. G[c.submitted] + Len(C.audio) = g[c.submitted] + Len(c.audio)
    <3>1. g[c.submitted] \in Nat /\ Len(c.audio) \in Nat
      BY <1>1 DEF LabAssumption, Talk!VoiceAssumption
    <3> QED
      BY <1>2, <1>5, <3>1
  <2> QED
    BY <1>1, <1>2, <1>3, <1>5, <2>1, <2>2 DEF Adds

LEMMA PlayedSound ==
    ASSUME LabAssumption, NEW c \in Client, NEW C, NEW g \in [Talk!Turns -> 0 .. Frames], NEW G,
           ClientSound(c, g), Played(c, C, g, G)
    PROVE  ClientSound(C, G)
<1>0. /\ c.submitted \in Talk!Turns /\ c.phase = "open"
      /\ G \in [Talk!Turns -> 0 .. Frames] /\ G[c.submitted] = g[c.submitted] + 1
      /\ \A t \in Talk!Turns \ {c.submitted} : G[t] = g[t]
      /\ C.audio \in Seq(Talk!Turns) /\ Len(C.audio) = Len(c.audio) - 1 /\ Len(c.audio) >= 1
      /\ \A i \in 1 .. Len(C.audio) : C.audio[i] = c.submitted
      /\ G[c.submitted] + Len(C.audio) = g[c.submitted] + Len(c.audio)
  <2>1. Adds(c, C, g, G)
    BY PlayedAdds
  <2> QED
    BY <2>1 DEF Adds
<1>1. /\ Fresh(C) <=> Fresh(c)
      /\ ~ c.speaking /\ c.pending = Nobody
      /\ c.submitted \in Talk!Turns /\ g[c.submitted] \in 0 .. Frames
  BY <1>0 DEF Fresh, Played, ClientSound
<1>2. \A m \in Talk!Turns : m > c.submitted => G[m] = 0
  BY <1>0 DEF ClientSound, Talk!Turns, LabAssumption, Talk!VoiceAssumption
<1>3. C.audio # <<>> => c.audio # <<>>
  BY DEF Played
<1>4. G[c.submitted] + Len(C.audio) <= Frames
  BY <1>1, <1>0 DEF ClientSound, LabAssumption, Talk!VoiceAssumption, Played
<1> QED
  BY <1>1, <1>2, <1>3, <1>4, <1>0 DEF ClientSound, Played

LEMMA PlayedFlows ==
    ASSUME LabAssumption, NEW c \in Client, NEW C, NEW g \in [Talk!Turns -> 0 .. Frames], NEW G,
           NEW u, NEW d, NEW h, NEW w,
           ClientSound(c, g), Played(c, C, g, G), Flows(c, u, d, h, w, g)
    PROVE  Flows(C, u, d, h, w, G)
<1>1. OnLine(C) <=> OnLine(c)
  BY DEF Played, OnLine
<1>2. Asked(c, u, g) /\ c.remote # Nobody => FALSE
  BY DEF Asked, ClientSound, Fresh, Played
<1>3. Answering(c, u, d, h, w) => Answering(C, u, d, h, w)
  BY DEF Answering, Played
<1> QED
  BY <1>1, <1>2, <1>3 DEF Flows, Played

LEMMA PlayedComes ==
    ASSUME LabAssumption, NEW c \in Client, NEW C, NEW g \in [Talk!Turns -> 0 .. Frames], NEW G,
           NEW d, NEW h, NEW w, ClientSound(c, g), Played(c, C, g, G), Comes(c, d, h, w, g),
           Left(h, w) \in Nat
    PROVE  Comes(C, d, h, w, G)
<1> SUFFICES ASSUME OnLine(C), c.remote # Nobody PROVE Comes(C, d, h, w, G)
  BY DEF Comes, OnLine, Played
<1>0. /\ c.submitted \in Talk!Turns /\ c.phase = "open"
      /\ G \in [Talk!Turns -> 0 .. Frames] /\ G[c.submitted] = g[c.submitted] + 1
      /\ \A t \in Talk!Turns \ {c.submitted} : G[t] = g[t]
      /\ C.audio \in Seq(Talk!Turns) /\ Len(C.audio) = Len(c.audio) - 1 /\ Len(c.audio) >= 1
      /\ \A i \in 1 .. Len(C.audio) : C.audio[i] = c.submitted
      /\ G[c.submitted] + Len(C.audio) = g[c.submitted] + Len(c.audio)
  <2>1. Adds(c, C, g, G)
    BY PlayedAdds
  <2> QED
    BY <2>1 DEF Adds
<1>1. OnLine(c) /\ Fresh(c) /\ c.remote.turn = c.submitted /\ C.remote = c.remote
  BY DEF Played, OnLine, ClientSound
<1>2. PICK k \in 0 .. Len(d) :
         Blocks(d, c.remote, k) /\ (~ c.remote.stale => Balance(c, d, h, w, g, k))
  BY <1>1 DEF Comes
<1>4. G[c.submitted] + Len(C.audio) + k + Left(h, w) = g[c.submitted] + Len(c.audio) + k + Left(h, w)
  BY <1>0
<1>5. Balance(C, d, h, w, G, k)
  BY <1>1, <1>2, <1>4 DEF Balance, Fresh
<1> QED
  BY <1>1, <1>2, <1>5 DEF Comes

LEMMA PlayedBelieves ==
    ASSUME LabAssumption, NEW c \in Client, NEW C, NEW g \in [Talk!Turns -> 0 .. Frames], NEW G,
           NEW u, NEW d, NEW h, NEW w, NEW e \in Talk!Engine,
           ClientSound(c, g), Played(c, C, g, G), Believes(c, u, d, h, w, e, g)
    PROVE  Believes(C, u, d, h, w, e, G)
<1>0. /\ c.submitted \in Talk!Turns /\ c.phase = "open"
      /\ G \in [Talk!Turns -> 0 .. Frames] /\ G[c.submitted] = g[c.submitted] + 1
      /\ \A t \in Talk!Turns \ {c.submitted} : G[t] = g[t]
      /\ C.audio \in Seq(Talk!Turns) /\ Len(C.audio) = Len(c.audio) - 1 /\ Len(c.audio) >= 1
      /\ \A i \in 1 .. Len(C.audio) : C.audio[i] = c.submitted
      /\ G[c.submitted] + Len(C.audio) = g[c.submitted] + Len(c.audio)
  <2>1. Adds(c, C, g, G)
    BY PlayedAdds
  <2> QED
    BY <2>1 DEF Adds
<1>1. Sure(e, g, {}) => Sure(e, G, {})
  BY PlayedAdds, HeardStaysHeard DEF Adds
<1>2. OnLine(C) <=> OnLine(c)
  BY DEF Played, OnLine
<1>3. /\ C.remote = c.remote /\ C.last = c.last /\ C.unreported = c.unreported
  BY DEF Played
<1>4. c.remote = Nobody => c.last = c.submitted
  BY DEF ClientSound, Played, Fresh
<1> QED
  BY <1>0, <1>1, <1>2, <1>3, <1>4 DEF Believes

LEMMA LeftIsNatural ==
    ASSUME LabAssumption, NEW h \in Host, NEW w \in Talk!Thread \cup {Nobody}
    PROVE  Left(h, w) \in Nat
BY ReplyFields DEF Left, Host, LabAssumption, Talk!VoiceAssumption

LEMMA PlayKeepsTalk == ASSUME LabAssumption, TalkInv, Talk!Plays PROVE TalkInv'
<1>1. /\ up' = up /\ down' = down /\ host' = host /\ worker' = worker /\ engine' = engine
      /\ client.audio # <<>> /\ client' = [client EXCEPT !.audio = Tail(@)]
      /\ heard' = [heard EXCEPT ![Head(client.audio)] = @ + 1]
  BY DEF Talk!Plays, Talk!hostVars
<1>2. /\ client \in Client /\ heard \in [Talk!Turns -> 0 .. Frames] /\ ClientSound(client, heard)
      /\ host \in Host /\ worker \in Talk!Thread \cup {Nobody} /\ engine \in Talk!Engine
  BY DEF TalkInv, TalkTypes
<1>3. client.audio \in Seq(Talk!Turns) /\ Head(client.audio) = client.submitted
  BY <1>1, <1>2, ClientFields DEF ClientSound
<1>4. Tail(client.audio) \in Seq(Talk!Turns)
  BY <1>1, <1>3
<1>5. client' \in Client /\ Played(client, client', heard, heard')
  BY <1>1, <1>2, <1>3, <1>4 DEF Client, Played
<1>6. /\ heard' \in [Talk!Turns -> 0 .. Frames] /\ Hears(heard, heard')
  BY <1>2, <1>5, PlayedAdds DEF Adds
<1>7. TalkTypes'
  BY <1>1, <1>5, <1>6 DEF TalkInv, TalkTypes
<1>8. EngineSound(host, worker, engine, heard')
  <2>1. \A S : Sure(engine, heard, S) => Sure(engine, heard', S)
    BY <1>2, <1>6, HeardStaysHeard
  <2>2. ASSUME Thinks(worker), worker.thought # Nobody
        PROVE  /\ \A t \in worker.thought.relies_on : heard'[t] = Frames
               /\ Based(worker.thought.next) /\ Sure(worker.thought.next, heard', {worker.turn})
    <3>1. /\ \A t \in worker.thought.relies_on : heard[t] = Frames
          /\ Based(worker.thought.next) /\ Sure(worker.thought.next, heard, {worker.turn})
      BY <2>2 DEF TalkInv, EngineSound
    <3>2. worker.thought.relies_on \subseteq Talk!Turns /\ worker.thought.next \in Talk!Engine
      BY <1>2, <2>2, ReplyFields DEF Thinks
    <3> QED
      BY <1>6, <3>1, <3>2, HeardStaysHeard DEF Hears
  <2> QED
    BY <2>1, <2>2 DEF TalkInv, EngineSound
<1>9. Trusted(up, host, worker, engine, heard')
  BY <1>2, <1>6, HeardStaysHeard DEF TalkInv, Trusted
<1>10. Flows(client', up, down, host, worker, heard')
  BY <1>2, <1>5, PlayedFlows DEF TalkInv
<1>11. Comes(client', down, host, worker, heard')
  BY <1>2, <1>5, PlayedComes, LeftIsNatural DEF TalkInv
<1>12. Believes(client', up, down, host, worker, engine, heard')
  BY <1>2, <1>5, PlayedBelieves DEF TalkInv
<1>13. ClientSound(client', heard')
  BY <1>2, <1>5, PlayedSound
<1> QED
  BY <1>1, <1>7, <1>8, <1>9, <1>10, <1>11, <1>12, <1>13 DEF TalkInv

-----------------------------------------------------------------------------
\* The worker goes on: for the line it is the same turn, with as much to come.
GoesOn(h, w, H, W) ==
    /\ w # Nobody /\ W # Nobody /\ W.turn = w.turn
    /\ H.open = h.open /\ H.cancel = h.cancel /\ H.last = h.last
    /\ Left(H, W) = Left(h, w)

LEMMA WorkingIsUnseen ==
    ASSUME NEW c, NEW u, NEW d, NEW h, NEW w, NEW e, NEW g, NEW H, NEW W, NEW E,
           GoesOn(h, w, H, W),
           Flows(c, u, d, h, w, g), Comes(c, d, h, w, g), h.open => LastWords(u, w)
    PROVE  /\ Trusted(u, H, W, E, g) /\ (H.open => LastWords(u, W))
           /\ Flows(c, u, d, H, W, g) /\ Comes(c, d, H, W, g) /\ Believes(c, u, d, H, W, E, g)
<1>1. Trusted(u, H, W, E, g) /\ Believes(c, u, d, H, W, E, g)
  BY DEF GoesOn, Trusted, Believes
<1>2. H.open => LastWords(u, W)
  BY DEF GoesOn, LastWords
<1>3. Flows(c, u, d, H, W, g)
  <2>1. Answering(c, u, d, h, w) => Answering(c, u, d, H, W)
    BY DEF GoesOn, Answering
  <2> QED
    BY <2>1 DEF GoesOn, Flows
<1>4. Comes(c, d, H, W, g)
  <2>1. \A k : Balance(c, d, h, w, g, k) => Balance(c, d, H, W, g, k)
    BY DEF GoesOn, Balance
  <2> QED
    BY <2>1 DEF Comes
<1> QED
  BY <1>1, <1>2, <1>3, <1>4

LEMMA HostFields ==
    ASSUME NEW h \in Host
    PROVE  /\ h.open \in BOOLEAN /\ h.gate \in BOOLEAN /\ h.clean \in BOOLEAN
           /\ h.cancel \in BOOLEAN /\ h.queue \in 0 .. QueueSize
           /\ h.active \in Talk!Turns \cup {Nobody} /\ h.last \in Talk!Turns \cup {Nobody}
BY DEF Host

\* A dialogue in which nothing stands rests on nothing.
LEMMA NothingStands ==
    ASSUME LabAssumption, NEW e \in Talk!Engine, NEW g, NEW S
    PROVE  /\ Talk!CancelTurnState(e) \in Talk!Engine
           /\ Based(Talk!CancelTurnState(e)) /\ Sure(Talk!CancelTurnState(e), g, S)
BY DEF Talk!CancelTurnState, Talk!Engine, Based, Sure

\* What a worker makes of the dialogue it finds.
LEMMA Thinking ==
    ASSUME LabAssumption, NEW e \in Talk!Engine, NEW word \in Words \cup {"greeting"},
           NEW turn \in Talk!Turns, NEW g, Based(e), Sure(e, g, {})
    PROVE  /\ Talk!Thought(e, word, turn) \in Talk!Reply
           /\ \A t \in Talk!Thought(e, word, turn).relies_on : g[t] = Frames
           /\ Based(Talk!Thought(e, word, turn).next)
           /\ Sure(Talk!Thought(e, word, turn).next, g, {turn})
           /\ LET kept == [(IF word \in {"stop", "stop_confirm"} THEN Talk!Disarm(e) ELSE e)
                           EXCEPT !.stop = Nobody]
              IN  kept \in Talk!Engine /\ Based(kept) /\ Sure(kept, g, {})
<1>0. turn # Nobody
  BY DEF LabAssumption, Talk!VoiceAssumption, Talk!Turns
<1>1. /\ e.stage \in {"collecting", "pending", "confirmed"} /\ e.basis \in Talk!Turns \cup {Nobody}
      /\ e.stop \in Talk!Turns \cup {Nobody}
  BY DEF Talk!Engine
<1>2. /\ Talk!Disarm(e) \in Talk!Engine /\ Based(Talk!Disarm(e)) /\ Sure(Talk!Disarm(e), g, {})
      /\ Talk!Disarm(e).stop = e.stop
  BY DEF Talk!Disarm, Talk!Engine, Based, Sure
<1>3. ASSUME NEW f \in Talk!Engine, Based(f), Sure(f, g, {turn}), NEW s \in {turn, Nobody}
      PROVE  LET n == [f EXCEPT !.stop = s]
             IN  n \in Talk!Engine /\ Based(n) /\ Sure(n, g, {turn})
  BY <1>3 DEF Talk!Engine, Based, Sure
<1>4. ASSUME NEW f \in Talk!Engine, Based(f), Sure(f, g, {})
      PROVE  LET n == [f EXCEPT !.stop = Nobody]
             IN  n \in Talk!Engine /\ Based(n) /\ Sure(n, g, {})
  BY <1>4 DEF Talk!Engine, Based, Sure
<1>5. /\ Talk!Advance(e, word, turn) \in Talk!Engine
      /\ Based(Talk!Advance(e, word, turn))
      /\ Sure(Talk!Advance(e, word, turn), g, {turn})
  <2>1. CASE word = "offer"
    BY <1>0, <1>1, <2>1 DEF Talk!Advance, Talk!Engine, Based, Sure
  <2>2. CASE word = "confirm" /\ e.stage = "pending"
    BY <1>0, <1>1, <2>2 DEF Talk!Advance, Talk!Engine, Based, Sure
  <2>3. CASE word = "confirm" /\ e.stage # "pending"
    BY <2>3, <1>1 DEF Talk!Advance, Talk!Engine, Based, Sure
  <2>4. CASE word \notin {"offer", "confirm"}
    BY <2>4, <1>1 DEF Talk!Advance, Talk!Engine, Based, Sure
  <2> QED
    BY <2>1, <2>2, <2>3, <2>4
<1> DEFINE thought == Talk!Thought(e, word, turn)
<1>6. ASSUME NEW next, NEW end \in BOOLEAN, NEW relies \in SUBSET Talk!Turns,
             thought = [next |-> next, end |-> end, relies_on |-> relies],
             next \in Talk!Engine, Based(next), Sure(next, g, {turn}),
             \A t \in relies : g[t] = Frames
      PROVE  /\ thought \in Talk!Reply /\ \A t \in thought.relies_on : g[t] = Frames
             /\ Based(thought.next) /\ Sure(thought.next, g, {turn})
  BY <1>6 DEF Talk!Reply
<1>7. \A f \in Talk!Engine : Sure(f, g, {}) => Sure(f, g, {turn})
  BY DEF Sure
<1> DEFINE kept == [(IF word \in {"stop", "stop_confirm"} THEN Talk!Disarm(e) ELSE e)
                    EXCEPT !.stop = Nobody]
<1>8. kept \in Talk!Engine /\ Based(kept) /\ Sure(kept, g, {})
  <2>1. CASE word \in {"stop", "stop_confirm"}
    BY <1>2, <1>4, <2>1
  <2>2. CASE word \notin {"stop", "stop_confirm"}
    BY <1>4, <2>2
  <2> QED
    BY <2>1, <2>2
<1>9. /\ thought \in Talk!Reply /\ \A t \in thought.relies_on : g[t] = Frames
      /\ Based(thought.next) /\ Sure(thought.next, g, {turn})
  <2>1. CASE word = "greeting"
    <3> DEFINE relies == {}
    <3>1. thought = [next |-> e, end |-> FALSE, relies_on |-> relies]
      BY <2>1 DEF Talk!Thought
    <3>2. Sure(e, g, {turn})
      BY <1>7
    <3>3. relies \in SUBSET Talk!Turns /\ \A t \in relies : g[t] = Frames
      OBVIOUS
    <3> HIDE DEF thought, relies
    <3> QED
      BY <1>6, <3>1, <3>2, <3>3
  <2>2. CASE word = "stop"
    <3> DEFINE next == [Talk!Disarm(e) EXCEPT !.stop = turn]
               relies == {}
    <3>1. thought = [next |-> next, end |-> FALSE, relies_on |-> relies]
      BY <2>2 DEF Talk!Thought
    <3>2. next \in Talk!Engine /\ Based(next) /\ Sure(next, g, {turn})
      BY <1>2, <1>3, <1>7
    <3>3. relies \in SUBSET Talk!Turns /\ \A t \in relies : g[t] = Frames
      OBVIOUS
    <3> HIDE DEF thought, next, relies
    <3> QED
      BY <1>6, <3>1, <3>2, <3>3
  <2>3. CASE word = "stop_confirm"
    <3> DEFINE next == [Talk!Disarm(e) EXCEPT !.stop = Nobody]
               relies == {e.stop} \ {Nobody}
               end == e.stop # Nobody
    <3>1. thought = [next |-> next, end |-> end, relies_on |-> relies]
      BY <2>3 DEF Talk!Thought
    <3>2. next \in Talk!Engine /\ Based(next) /\ Sure(next, g, {turn})
      BY <1>2, <1>3, <1>7
    <3>3. relies \in SUBSET Talk!Turns /\ \A t \in relies : g[t] = Frames
      BY <1>1 DEF Sure
    <3>4. end \in BOOLEAN
      OBVIOUS
    <3> HIDE DEF thought, next, relies, end
    <3> QED
      BY <1>6, <3>1, <3>2, <3>3, <3>4
  <2>4. CASE word \notin {"greeting", "stop", "stop_confirm"}
    <3> DEFINE next == [Talk!Advance(e, word, turn) EXCEPT !.stop = Nobody]
               relies == IF word = "confirm" /\ e.stage = "pending" THEN {e.basis} ELSE {}
    <3>1. thought = [next |-> next, end |-> FALSE, relies_on |-> relies]
      BY <2>4 DEF Talk!Thought
    <3>2. next \in Talk!Engine /\ Based(next) /\ Sure(next, g, {turn})
      BY <1>3, <1>5
    <3>3. relies \in SUBSET Talk!Turns /\ \A t \in relies : g[t] = Frames
      BY <1>1 DEF Sure, Based
    <3> HIDE DEF thought, next, relies
    <3> QED
      BY <1>6, <3>1, <3>2, <3>3
  <2> QED
    BY <2>1, <2>2, <2>3, <2>4
<1> QED
  BY <1>8, <1>9

LEMMA ThreadFields ==
    ASSUME NEW w \in Talk!Thread
    PROVE  /\ w.turn \in Talk!Turns /\ w.word \in Words \cup {"greeting"}
           /\ w.thought \in Talk!Reply \cup {Nobody} /\ w.left \in 0 .. Frames
           /\ w.outcome \in {"complete", "cancelled", "error", Nobody}
BY DEF Talk!Thread

\* What a step of the worker changes, and what it leaves as it is.
LEMMA WorkKeepsTalk ==
    ASSUME LabAssumption, TalkInv,
           client' = client, up' = up, down' = down, heard' = heard,
           GoesOn(host, worker, host', worker'),
           host' \in Host, worker' \in Talk!Thread, engine' \in Talk!Engine,
           host'.gate = host.gate, host'.clean = host.clean, host'.active = host.active,
           worker'.outcome = "cancelled" => host.cancel,
           worker'.outcome = "complete" => worker'.thought # Nobody /\ worker'.left = 0,
           Talk!Alive, EngineSound(host, worker', engine', heard)
    PROVE  TalkInv'
<1>1. TalkTypes'
  BY DEF TalkInv, TalkTypes
<1>2. HostSound(host', worker')
  BY DEF TalkInv, HostSound, GoesOn, Talk!Alive, Thinks
<1>3. EngineSound(host', worker', engine', heard)
  BY DEF EngineSound, GoesOn
<1>4. /\ Trusted(up, host', worker', engine', heard) /\ (host'.open => LastWords(up, worker'))
      /\ Flows(client, up, down, host', worker', heard)
      /\ Comes(client, down, host', worker', heard)
      /\ Believes(client, up, down, host', worker', engine', heard)
  BY WorkingIsUnseen DEF TalkInv
<1> QED
  BY <1>1, <1>2, <1>3, <1>4 DEF TalkInv

LEMMA WorkerKeepsTalk ==
    ASSUME LabAssumption, TalkInv, Talk!Worker \/ Talk!WorkerFails PROVE TalkInv'
<1>1. /\ client' = client /\ up' = up /\ down' = down /\ heard' = heard /\ Talk!Alive
  BY DEF Talk!Worker, Talk!WorkerFails, Talk!WorkerThinks, Talk!WorkerSpeaks,
         Talk!WorkerIsCancelled, Talk!WorkerFinishes
<1>2. /\ worker # Nobody /\ worker.outcome = Nobody /\ worker \in Talk!Thread
      /\ host \in Host /\ engine \in Talk!Engine /\ Thinks(worker)
      /\ Based(engine) /\ Sure(engine, heard, {}) /\ host.gate
  BY <1>1 DEF Talk!Alive, TalkInv, TalkTypes, EngineSound, HostSound, Thinks
<1>3. worker.thought # Nobody =>
         /\ \A t \in worker.thought.relies_on : heard[t] = Frames
         /\ worker.thought.next \in Talk!Engine
         /\ Based(worker.thought.next) /\ Sure(worker.thought.next, heard, {worker.turn})
  BY <1>2, ThreadFields DEF TalkInv, EngineSound, Talk!Reply
<1>4. ASSUME NEW outcome \in {"complete", "cancelled", "error"}, Talk!WorkerDone(outcome)
      PROVE  /\ worker' \in Talk!Thread /\ worker' # Nobody /\ worker'.turn = worker.turn
             /\ worker'.outcome = outcome /\ worker'.thought = worker.thought
             /\ worker'.left = worker.left /\ ~ Thinks(worker')
  <2>1. /\ worker' \in Talk!Thread /\ worker'.turn = worker.turn /\ worker'.outcome = outcome
        /\ worker'.thought = worker.thought /\ worker'.left = worker.left
    BY <1>2, <1>4 DEF Talk!WorkerDone, Talk!Thread
  <2> QED
    BY <2>1 DEF Thinks, LabAssumption, Talk!VoiceAssumption, Talk!NoneIsNoRecord
<1>5. CASE Talk!WorkerThinks
  <2> DEFINE thought == Talk!Thought(engine, worker.word, worker.turn)
             kept == [(IF worker.word \in {"stop", "stop_confirm"} THEN Talk!Disarm(engine)
                       ELSE engine) EXCEPT !.stop = Nobody]
  <2>1. /\ host' = host /\ engine' = kept /\ worker' = [worker EXCEPT !.thought = thought]
    BY <1>5 DEF Talk!WorkerThinks
  <2>2. /\ thought \in Talk!Reply /\ \A t \in thought.relies_on : heard[t] = Frames
        /\ Based(thought.next) /\ Sure(thought.next, heard, {worker.turn})
        /\ kept \in Talk!Engine /\ Based(kept) /\ Sure(kept, heard, {})
    BY <1>2, ThreadFields, Thinking
  <2> HIDE DEF thought, kept
  <2>3. /\ worker' \in Talk!Thread /\ worker'.turn = worker.turn /\ worker'.outcome = Nobody
        /\ worker'.thought = thought /\ worker'.left = worker.left
    BY <1>2, <2>1, <2>2 DEF Talk!Thread
  <2>4. worker' # Nobody
    BY <2>3 DEF LabAssumption, Talk!NoneIsNoRecord
  <2>5. EngineSound(host, worker', engine', heard)
    BY <1>2, <2>1, <2>2, <2>3 DEF EngineSound, LabAssumption, Talk!VoiceAssumption
  <2>6. GoesOn(host, worker, host', worker')
    BY <1>2, <2>1, <2>3, <2>4 DEF GoesOn, Left
  <2> QED
    BY <1>1, <1>2, <2>1, <2>2, <2>3, <2>5, <2>6, WorkKeepsTalk DEF LabAssumption, Talk!VoiceAssumption
<1>6. CASE Talk!WorkerSpeaks
  <2>1. /\ worker.thought # Nobody /\ worker.left > 0 /\ host.queue < QueueSize
        /\ worker' = [worker EXCEPT !.left = @ - 1] /\ host' = [host EXCEPT !.queue = @ + 1]
        /\ engine' = engine
    BY <1>6 DEF Talk!WorkerSpeaks
  <2>2. /\ worker.left \in Nat /\ worker.left - 1 \in 0 .. Frames
        /\ host.queue \in Nat /\ host.queue + 1 \in 0 .. QueueSize
    BY <1>2, <2>1, ThreadFields, HostFields DEF LabAssumption, Talk!VoiceAssumption
  <2>3. /\ worker' \in Talk!Thread /\ worker'.turn = worker.turn /\ worker'.outcome = Nobody
        /\ worker'.thought = worker.thought /\ worker'.left = worker.left - 1
    BY <1>2, <2>1, <2>2 DEF Talk!Thread
  <2>4. /\ host' \in Host /\ host'.queue = host.queue + 1 /\ host'.open = host.open
        /\ host'.gate = host.gate /\ host'.clean = host.clean /\ host'.active = host.active
        /\ host'.cancel = host.cancel /\ host'.last = host.last
    BY <1>2, <2>1, <2>2 DEF Host
  <2>5. worker' # Nobody
    BY <2>3 DEF LabAssumption, Talk!NoneIsNoRecord
  <2>6. EngineSound(host, worker', engine', heard)
    BY <1>2, <1>3, <2>1, <2>3 DEF EngineSound, LabAssumption, Talk!VoiceAssumption
  <2>7. Left(host', worker') = Left(host, worker)
    BY <1>2, <2>2, <2>3, <2>4, <2>5 DEF Left
  <2>8. GoesOn(host, worker, host', worker')
    BY <1>2, <2>3, <2>4, <2>5, <2>7 DEF GoesOn
  <2> QED
    BY <1>1, <1>2, <2>1, <2>3, <2>4, <2>6, <2>8, WorkKeepsTalk DEF LabAssumption, Talk!VoiceAssumption
<1>7. CASE Talk!WorkerIsCancelled
  <2>1. Talk!WorkerDone("cancelled") /\ host.cancel /\ host' = host /\ engine' = engine
    BY <1>7 DEF Talk!WorkerIsCancelled, Talk!SeesCancel
  <2>2. EngineSound(host, worker', engine', heard)
    BY <1>2, <1>4, <2>1 DEF EngineSound
  <2>3. GoesOn(host, worker, host', worker')
    BY <1>2, <1>4, <2>1 DEF GoesOn, Left
  <2> QED
    BY <1>1, <1>2, <1>4, <2>1, <2>2, <2>3, WorkKeepsTalk
<1>8. CASE Talk!WorkerFails
  <2>1. /\ Talk!WorkerDone("error") /\ host' = host /\ engine' = Talk!CancelTurnState(engine)
    BY <1>8 DEF Talk!WorkerFails
  <2>2. /\ engine' \in Talk!Engine /\ Based(engine') /\ \A S : Sure(engine', heard, S)
    BY <1>2, <2>1, NothingStands
  <2>3. EngineSound(host, worker', engine', heard)
    BY <1>2, <1>4, <2>1, <2>2 DEF EngineSound
  <2>4. GoesOn(host, worker, host', worker')
    BY <1>2, <1>4, <2>1 DEF GoesOn, Left
  <2> QED
    BY <1>1, <1>2, <1>4, <2>1, <2>2, <2>3, <2>4, WorkKeepsTalk
<1>9. CASE Talk!WorkerFinishes
  <2>1. /\ Talk!WorkerDone("complete") /\ host' = host /\ engine' = worker.thought.next
        /\ worker.thought # Nobody /\ worker.left = 0
    BY <1>9 DEF Talk!WorkerFinishes
  <2>2. EngineSound(host, worker', engine', heard)
    BY <1>2, <1>3, <1>4, <2>1 DEF EngineSound
  <2>3. GoesOn(host, worker, host', worker')
    BY <1>2, <1>4, <2>1 DEF GoesOn, Left
  <2> QED
    BY <1>1, <1>2, <1>3, <1>4, <2>1, <2>2, <2>3, WorkKeepsTalk
<1> QED
  BY <1>5, <1>6, <1>7, <1>8, <1>9 DEF Talk!Worker

-----------------------------------------------------------------------------
\* A dialogue with nothing in it, and nothing on the line.
LEMMA NothingHeard ==
    ASSUME LabAssumption
    PROVE  /\ Talk!FreshEngine \in Talk!Engine /\ Based(Talk!FreshEngine)
           /\ \A g, S : Sure(Talk!FreshEngine, g, S)
           /\ Talk!Nothing \in [Talk!Turns -> 0 .. Frames]
           /\ \A t \in Talk!Turns : Talk!Nothing[t] = 0
BY DEF Talk!FreshEngine, Talk!Engine, Based, Sure, Talk!Nothing, LabAssumption, Talk!VoiceAssumption

LEMMA NothingOnTheLine ==
    ASSUME LabAssumption, NEW c, NEW h, NEW g, c.remote = Nobody
    PROVE  /\ <<>> \in Seq(Command) /\ <<>> \in Seq(Event)
           /\ EngineSound(h, Nobody, Talk!FreshEngine, g)
           /\ Trusted(<<>>, h, Nobody, Talk!FreshEngine, g) /\ LastWords(<<>>, Nobody)
           /\ Flows(c, <<>>, <<>>, h, Nobody, g) /\ Comes(c, <<>>, h, Nobody, g)
           /\ Believes(c, <<>>, <<>>, h, Nobody, Talk!FreshEngine, g)
BY NothingHeard DEF EngineSound, Thinks, Trusted, LastWords, Flows, Comes, Believes, NoTurn

LEMMA TalkBegins == ASSUME LabAssumption, Talk!Init PROVE TalkInv
<1>1. /\ client = Talk!Silent /\ up = <<>> /\ down = <<>> /\ worker = Nobody
      /\ engine = Talk!FreshEngine /\ heard = Talk!Nothing
      /\ host = [open |-> FALSE, gate |-> FALSE, clean |-> FALSE, active |-> Nobody,
                 last |-> Nobody, cancel |-> FALSE, queue |-> 0]
  BY DEF Talk!Init
<1>2. /\ client \in Client /\ client.remote = Nobody /\ client.pending = Nobody
      /\ client.audio = <<>>
  BY <1>1 DEF Client, Talk!Silent, LabAssumption, Talk!VoiceAssumption
<1>3. host \in Host /\ ~ host.open /\ ~ host.gate
  BY <1>1 DEF Host, LabAssumption, Talk!VoiceAssumption
<1>4. ClientSound(client, heard) /\ HostSound(host, worker)
  BY <1>1, <1>2, <1>3, NothingHeard DEF ClientSound, HostSound, Fresh, Thinks
<1> QED
  BY <1>1, <1>2, <1>3, <1>4, NothingHeard, NothingOnTheLine DEF TalkInv, TalkTypes

LEMMA ConnectKeepsTalk == ASSUME LabAssumption, TalkInv, Talk!Connect PROVE TalkInv'
<1> DEFINE pending == [turn |-> 1, word |-> "greeting"]
<1>1. /\ up' = <<>> /\ down' = <<>> /\ worker' = Nobody
      /\ engine' = Talk!FreshEngine /\ heard' = Talk!Nothing
      /\ client' = [Talk!Silent EXCEPT !.phase = "open", !.active = TRUE, !.pending = pending,
                                       !.submitted = 1]
      /\ host' = [host EXCEPT !.open = TRUE, !.gate = TRUE, !.clean = FALSE, !.active = Nobody,
                              !.last = Nobody, !.cancel = FALSE, !.queue = 0]
  BY DEF Talk!Connect
<1>2. 1 \in Talk!Turns /\ 1 \in 0 .. MaxTurns /\ 0 \in 0 .. QueueSize
  BY DEF Talk!Turns, LabAssumption, Talk!VoiceAssumption
<1>3. pending \in Talk!Pending /\ pending.turn = 1
  BY <1>2 DEF Talk!Pending
<1> HIDE DEF pending
<1>4. /\ client' \in Client /\ client'.remote = Nobody /\ client'.pending = pending
      /\ client'.audio = <<>> /\ client'.phase = "open" /\ client'.active
      /\ client'.submitted = 1 /\ ~ client'.speaking
  <2>1. <<>> \in Seq(Talk!Turns)
    OBVIOUS
  <2>2. Talk!Silent \in Client
    BY <2>1 DEF Client, Talk!Silent, LabAssumption, Talk!VoiceAssumption
  <2>3. /\ Talk!Silent.remote = Nobody /\ Talk!Silent.audio = <<>> /\ ~ Talk!Silent.speaking
    BY DEF Talk!Silent
  <2> QED
    BY <1>1, <1>2, <1>3, <2>2, <2>3 DEF Client
<1>5. /\ host' \in Host /\ host'.open /\ host'.gate /\ host'.active = Nobody /\ host'.queue = 0
  <2>1. host \in Host
    BY DEF TalkInv, TalkTypes
  <2> QED
    BY <1>1, <1>2, <2>1 DEF Host
<1>6. ClientSound(client', heard') /\ HostSound(host', worker')
  BY <1>1, <1>2, <1>3, <1>4, <1>5, NothingHeard DEF ClientSound, HostSound, Fresh, Thinks
<1>7. TalkTypes'
  BY <1>1, <1>4, <1>5, NothingHeard, NothingOnTheLine DEF TalkTypes
<1>8. /\ EngineSound(host', worker', engine', heard')
      /\ Trusted(up', host', worker', engine', heard') /\ LastWords(up', worker')
      /\ Flows(client', up', down', host', worker', heard')
      /\ Comes(client', down', host', worker', heard')
      /\ Believes(client', up', down', host', worker', engine', heard')
  <2>1. /\ EngineSound(host', Nobody, Talk!FreshEngine, heard')
        /\ Trusted(<<>>, host', Nobody, Talk!FreshEngine, heard') /\ LastWords(<<>>, Nobody)
        /\ Flows(client', <<>>, <<>>, host', Nobody, heard')
        /\ Comes(client', <<>>, host', Nobody, heard')
        /\ Believes(client', <<>>, <<>>, host', Nobody, Talk!FreshEngine, heard')
    BY <1>4, NothingOnTheLine
  <2> QED
    BY <1>1, <2>1
<1> QED
  BY <1>6, <1>7, <1>8 DEF TalkInv

-----------------------------------------------------------------------------
\* What one round of the reader puts on the line.
Cancels(c, C, u, U) ==
    /\ c.remote # Nobody /\ c.remote.stale
    /\ C = [c EXCEPT !.remote.cancelled = TRUE]
    /\ U = u \o <<[kind |-> "cancel", turn |-> c.remote.turn]>>

Confesses(c, C, u, U) ==
    /\ c.remote = Nobody /\ c.last # Nobody
    /\ C = [c EXCEPT !.unreported = FALSE]
    /\ U = u \o <<[kind |-> "playback_interrupted", turn |-> c.last]>>

TurnCommand(c, interrupted) ==
    [kind |-> "turn", turn |-> c.pending.turn, word |-> c.pending.word,
     previous_interrupted |-> interrupted]

AsksNow(c, C) ==
    /\ c.remote = Nobody /\ c.pending # Nobody
    /\ C = [c EXCEPT !.unreported = FALSE, !.pending = Nobody,
                     !.remote = [turn |-> c.pending.turn, stale |-> FALSE, cancelled |-> FALSE]]

Asks(c, C, u, U) ==
    /\ AsksNow(c, C) /\ ~ (c.last # Nobody /\ c.unreported)
    /\ \E interrupted \in BOOLEAN : U = u \o <<TurnCommand(c, interrupted)>>

ConfessesAndAsks(c, C, u, U) ==
    /\ AsksNow(c, C) /\ c.last # Nobody
    /\ U = u \o (<<[kind |-> "playback_interrupted", turn |-> c.last]>> \o <<TurnCommand(c, FALSE)>>)

LEMMA RoundsOfTheReader ==
    ASSUME LabAssumption, client \in Client, up \in Seq(Command), Talk!ReaderSends
    PROVE  \/ Cancels(client, client', up, up') \/ Confesses(client, client', up, up')
           \/ Asks(client, client', up, up') \/ ConfessesAndAsks(client, client', up, up')
<1> DEFINE pi == [kind |-> "playback_interrupted", turn |-> client.last]
           cancel == [kind |-> "cancel", turn |-> client.remote.turn]
           told == client.last # Nobody /\ client.unreported
<1>a. ASSUME NEW a, NEW b PROVE <<a>> \o <<>> \o <<b>> = <<a>> \o <<b>>
  <2>1. <<a>> \o <<>> = <<a>>
    OBVIOUS
  <2> QED
    BY <2>1
<1>0. up' = up \o Talk!Commands(client) /\ Talk!Commands(client) # <<>>
  BY DEF Talk!ReaderSends
<1>1. CASE client.remote # Nobody
  <2>1. Talk!Interruption(client) = <<>> /\ Talk!Request(client) = <<>>
    BY <1>1 DEF Talk!Interruption, Talk!Request
  <2>2. Talk!Cancellation(client) # <<>>
    <3>1. Talk!Cancellation(client) = <<>> => Talk!Commands(client) = <<>> \o <<>> \o <<>>
      BY <2>1 DEF Talk!Commands
    <3> QED
      BY <1>0, <3>1
  <2>3. client.remote.stale /\ Talk!Cancellation(client) = <<cancel>>
    BY <1>1, <2>2 DEF Talk!Cancellation
  <2>4. Talk!Commands(client) = <<>> \o <<cancel>> \o <<>>
    BY <2>1, <2>3 DEF Talk!Commands
  <2>5. Talk!Commands(client) = <<cancel>>
    BY <2>4
  <2>6. client' = [client EXCEPT !.remote.cancelled = TRUE]
    BY <2>2 DEF Talk!ReaderSends
  <2> QED
    BY <1>0, <1>1, <2>3, <2>5, <2>6 DEF Cancels
<1>2. CASE client.remote = Nobody
  <2>1. Talk!Cancellation(client) = <<>>
    BY <1>2 DEF Talk!Cancellation
  <2>2. Talk!Interruption(client) = IF told THEN <<pi>> ELSE <<>>
    BY <1>2 DEF Talk!Interruption
  <2>3. CASE client.pending = Nobody
    <3>1. Talk!Request(client) = <<>>
      BY <2>3 DEF Talk!Request
    <3>2. told
      <4>1. ~ told => Talk!Commands(client) = <<>> \o <<>> \o <<>>
        BY <2>1, <2>2, <3>1 DEF Talk!Commands
      <4> QED
        BY <1>0, <4>1
    <3>3. Talk!Commands(client) = <<pi>> \o <<>> \o <<>>
      BY <2>1, <2>2, <3>1, <3>2 DEF Talk!Commands
    <3>4. Talk!Commands(client) = <<pi>>
      BY <3>3
    <3>5. client' = [client EXCEPT !.unreported = FALSE]
      BY <2>1, <3>1 DEF Talk!ReaderSends
    <3> QED
      BY <1>0, <1>2, <3>2, <3>4, <3>5 DEF Confesses
  <2>4. CASE client.pending # Nobody
    <3> DEFINE interrupted == /\ client.pending.word # "greeting" /\ client.unreported
                              /\ Talk!Interruption(client) = <<>>
               turn == TurnCommand(client, interrupted)
    <3>1. Talk!Request(client) = <<turn>>
      BY <1>2, <2>4 DEF Talk!Request, TurnCommand
    <3>2. interrupted \in BOOLEAN
      BY ClientFields
    <3>3. Talk!Request(client) # <<>>
      BY <3>1
    <3>4. AsksNow(client, client')
      BY <1>2, <2>1, <2>4, <3>3 DEF Talk!ReaderSends, AsksNow
    <3>5. CASE told
      <4>1. ~ interrupted
        BY <2>2, <3>5
      <4> HIDE DEF interrupted
      <4>2. turn = TurnCommand(client, FALSE)
        BY <3>2, <4>1
      <4>3. Talk!Commands(client) = <<pi>> \o <<>> \o <<TurnCommand(client, FALSE)>>
        BY <2>1, <2>2, <3>1, <3>5, <4>2 DEF Talk!Commands
      <4>4. Talk!Commands(client) = <<pi>> \o <<TurnCommand(client, FALSE)>>
        BY <1>a, <4>3
      <4> QED
        BY <1>0, <3>4, <3>5, <4>4 DEF ConfessesAndAsks
    <3>6. CASE ~ told
      <4> HIDE DEF interrupted
      <4>1. Talk!Commands(client) = <<>> \o <<>> \o <<turn>>
        BY <2>1, <2>2, <3>1, <3>6 DEF Talk!Commands
      <4>2. Talk!Commands(client) = <<turn>>
        BY <4>1
      <4> QED
        BY <1>0, <3>2, <3>4, <3>6, <4>2 DEF Asks
    <3> QED
      BY <3>5, <3>6
  <2> QED
    BY <2>3, <2>4
<1> QED
  BY <1>1, <1>2

LEMMA CancelsKeeps ==
    ASSUME LabAssumption, TalkInv, Cancels(client, client', up, up'),
           down' = down, host' = host, worker' = worker, engine' = engine, heard' = heard
    PROVE  TalkInv'
<1> DEFINE cancel == [kind |-> "cancel", turn |-> client.remote.turn]
<1>1. /\ client \in Client /\ up \in Seq(Command) /\ client.remote \in Talk!Remote
      /\ client.remote # Nobody /\ client.remote.stale
      /\ client' = [client EXCEPT !.remote.cancelled = TRUE] /\ up' = up \o <<cancel>>
  BY ClientFields DEF TalkInv, TalkTypes, Cancels
<1>2. cancel \in Command /\ cancel.kind = "cancel"
  BY <1>1 DEF Command, Talk!Remote
<1> HIDE DEF cancel
<1>3. /\ up' \in Seq(Command) /\ Len(up') = Len(up) + 1 /\ up'[Len(up) + 1].kind = "cancel"
      /\ \A i \in 1 .. Len(up) : up'[i] = up[i]
      /\ Len(up) \in Nat
  BY <1>1, <1>2, Sending
<1>4. /\ client' \in Client /\ client'.remote # Nobody /\ client'.remote.stale
      /\ client'.remote.turn = client.remote.turn /\ client'.audio = client.audio
      /\ client'.last = client.last /\ client'.phase = client.phase
      /\ client'.unreported = client.unreported /\ client'.pending = client.pending
      /\ client'.submitted = client.submitted /\ client'.speaking = client.speaking
      /\ client'.active = client.active
  <2> DEFINE r == [client.remote EXCEPT !.cancelled = TRUE]
  <2>1. r \in Talk!Remote /\ r.stale /\ r.turn = client.remote.turn
    BY <1>1 DEF Talk!Remote
  <2>2. client' = [client EXCEPT !.remote = r]
    BY <1>1 DEF Client
  <2> HIDE DEF r
  <2>3. r # Nobody
    BY <2>1 DEF LabAssumption, Talk!NoneIsNoRecord
  <2> QED
    BY <1>1, <2>1, <2>2, <2>3 DEF Client
<1>5. TalkTypes' /\ ClientSound(client', heard) /\ HostSound(host, worker)
      /\ EngineSound(host, worker, engine, heard)
  BY <1>1, <1>3, <1>4 DEF TalkInv, TalkTypes, ClientSound, Fresh
<1>6. Trusted(up', host, worker, engine, heard)
  BY <1>3 DEF TalkInv, Trusted, Trusting
<1>7. host.open => LastWords(up', worker)
  BY <1>3 DEF TalkInv, LastWords
<1>8. /\ NoTurn(up') <=> NoTurn(up)
      /\ Asked(client, up, heard) => Asked(client', up', heard)
      /\ Answering(client, up, down, host, worker) => Answering(client', up', down, host, worker)
  BY <1>3, <1>4 DEF NoTurn, Asked, Answering
<1>9. Flows(client', up', down, host, worker, heard)
  BY <1>1, <1>4, <1>8 DEF TalkInv, Flows, OnLine
<1>10. Comes(client', down, host, worker, heard)
  BY <1>1, <1>4 DEF TalkInv, Comes, OnLine, Blocks
<1>11. Believes(client', up', down, host, worker, engine, heard)
  BY <1>1, <1>3, <1>4, <1>8 DEF TalkInv, Believes, OnLine
<1> QED
  BY <1>5, <1>6, <1>7, <1>9, <1>10, <1>11 DEF TalkInv

LEMMA ConfessesKeeps ==
    ASSUME LabAssumption, TalkInv, OnLine(client), Confesses(client, client', up, up'),
           down' = down, host' = host, worker' = worker, engine' = engine, heard' = heard
    PROVE  TalkInv'
<1> DEFINE pi == [kind |-> "playback_interrupted", turn |-> client.last]
<1>1. /\ client \in Client /\ up \in Seq(Command) /\ client.remote = Nobody
      /\ client.last \in Talk!Turns
      /\ client' = [client EXCEPT !.unreported = FALSE] /\ up' = up \o <<pi>>
  BY ClientFields DEF TalkInv, TalkTypes, Confesses
<1>2. pi \in Command /\ pi.kind = "playback_interrupted"
  BY <1>1 DEF Command
<1> HIDE DEF pi
<1>3. /\ up' \in Seq(Command) /\ Len(up') = Len(up) + 1
      /\ up'[Len(up) + 1].kind = "playback_interrupted"
      /\ \A i \in 1 .. Len(up) : up'[i] = up[i]
      /\ Len(up) \in Nat
  BY <1>1, <1>2, Sending
<1>4. /\ client' \in Client /\ client'.remote = Nobody /\ client'.audio = client.audio
      /\ client'.last = client.last /\ client'.phase = client.phase
      /\ client'.pending = client.pending
      /\ client'.submitted = client.submitted /\ client'.speaking = client.speaking
      /\ client'.active = client.active
  BY <1>1 DEF Client
<1>5. TalkTypes' /\ ClientSound(client', heard) /\ HostSound(host, worker)
      /\ EngineSound(host, worker, engine, heard)
  BY <1>1, <1>3, <1>4 DEF TalkInv, TalkTypes, ClientSound, Fresh
<1>6. host.open => worker = Nobody /\ down = <<>> /\ NoTurn(up)
  BY <1>1 DEF TalkInv, Flows
<1>7. Trusted(up', host, worker, engine, heard)
  BY <1>3 DEF TalkInv, Trusted, Trusting
<1>8. NoTurn(up') <=> NoTurn(up)
  BY <1>3 DEF NoTurn
<1>9. host.open => LastWords(up', worker)
  BY <1>6, <1>8 DEF LastWords, NoTurn
<1>10. Flows(client', up', down, host, worker, heard)
  BY <1>4, <1>6, <1>8 DEF Flows
<1>11. Comes(client', down, host, worker, heard)
  BY <1>1, <1>4 DEF TalkInv, Comes, OnLine
<1>12. Believes(client', up', down, host, worker, engine, heard)
  BY <1>3 DEF Believes
<1> QED
  BY <1>5, <1>7, <1>9, <1>10, <1>11, <1>12 DEF TalkInv

\* A request goes out, after a word about the reply before it or without one.
Requested(u, U, t) ==
    /\ U \in Seq(Command) /\ Len(U) > Len(u)
    /\ \A i \in 1 .. Len(u) : U[i] = u[i]
    /\ \A i \in Len(u) + 1 .. Len(U) - 1 : U[i].kind = "playback_interrupted"
    /\ U[Len(U)].kind = "turn" /\ U[Len(U)].turn = t

LEMMA RequestKeeps ==
    ASSUME LabAssumption, TalkInv, OnLine(client), AsksNow(client, client'),
           Requested(up, up', client.pending.turn),
           host.open /\ worker = Nobody /\ Trusting(up'[Len(up')]) =>
              \/ Sure(engine, heard, {})
              \/ \E j \in 1 .. Len(up') - 1 : up'[j].kind = "playback_interrupted",
           down' = down, host' = host, worker' = worker, engine' = engine, heard' = heard
    PROVE  TalkInv'
<1> DEFINE r == [turn |-> client.pending.turn, stale |-> FALSE, cancelled |-> FALSE]
<1>1. /\ client \in Client /\ up \in Seq(Command) /\ client.remote = Nobody
      /\ client.pending # Nobody /\ client.pending \in Talk!Pending
      /\ client' = [client EXCEPT !.unreported = FALSE, !.pending = Nobody, !.remote = r]
      /\ ClientSound(client, heard) /\ heard \in [Talk!Turns -> 0 .. Frames]
  BY ClientFields DEF TalkInv, TalkTypes, AsksNow
<1>2. r \in Talk!Remote /\ r # Nobody /\ r.turn = client.pending.turn /\ ~ r.stale
  <2>1. r \in Talk!Remote /\ r.turn = client.pending.turn /\ ~ r.stale
    BY <1>1 DEF Talk!Remote, Talk!Pending
  <2> QED
    BY <2>1 DEF LabAssumption, Talk!NoneIsNoRecord
<1> HIDE DEF r
<1>3. /\ client.phase = "open" /\ client.active /\ client.audio = <<>>
      /\ client.pending.turn = client.submitted /\ heard[client.submitted] = 0
      /\ ~ client.speaking
  BY <1>1 DEF ClientSound, OnLine
<1>4. /\ client' \in Client /\ client'.remote = r /\ client'.audio = <<>>
      /\ client'.phase = "open" /\ client'.pending = Nobody
      /\ client'.submitted = client.submitted /\ ~ client'.speaking
      /\ client'.active /\ ~ client'.unreported
  BY <1>1, <1>2, <1>3 DEF Client
<1>5. ClientSound(client', heard)
  BY <1>1, <1>2, <1>3, <1>4 DEF ClientSound, Fresh
<1>6. /\ up' \in Seq(Command) /\ Len(up) \in Nat /\ Len(up') \in Nat /\ Len(up') > Len(up)
      /\ \A i \in 1 .. Len(up) : up'[i] = up[i]
      /\ \A i \in Len(up) + 1 .. Len(up') - 1 : up'[i].kind = "playback_interrupted"
      /\ up'[Len(up')].kind = "turn" /\ up'[Len(up')].turn = client.pending.turn
  BY <1>1 DEF Requested
<1>7. host.open => worker = Nobody /\ down = <<>> /\ NoTurn(up)
  BY <1>1 DEF TalkInv, Flows
<1>8. TalkTypes' /\ HostSound(host, worker) /\ EngineSound(host, worker, engine, heard)
  BY <1>4, <1>6 DEF TalkInv, TalkTypes
<1>9. Trusted(up', host, worker, engine, heard)
  <2> SUFFICES ASSUME host.open, worker = Nobody, NEW i \in 1 .. Len(up'), Trusting(up'[i])
               PROVE  \/ Sure(engine, heard, {})
                      \/ \E j \in 1 .. i - 1 : up'[j].kind = "playback_interrupted"
    BY DEF TalkInv, Trusted
  <2>1. CASE i \in 1 .. Len(up)
    BY <1>6, <2>1 DEF TalkInv, Trusted
  <2>2. CASE i \in Len(up) + 1 .. Len(up') - 1
    BY <1>6, <2>2 DEF Trusting
  <2>3. CASE i = Len(up')
    BY <2>3
  <2> QED
    BY <1>6, <2>1, <2>2, <2>3
<1>10. host.open => \A i \in 1 .. Len(up') - 1 : up'[i].kind # "turn"
  BY <1>6, <1>7 DEF NoTurn
<1>11. host.open => LastWords(up', worker)
  BY <1>6, <1>7, <1>10 DEF LastWords
<1>12. Asked(client', up', heard)
  BY <1>2, <1>3, <1>4, <1>6 DEF Asked
<1>13. Flows(client', up', down, host, worker, heard)
  BY <1>2, <1>4, <1>7, <1>12 DEF Flows
<1>14. Comes(client', down, host, worker, heard)
  <2>1. /\ \A i \in 1 .. Len(down) : down[i].kind = "closed"
        /\ down \in Seq(Event)
    BY <1>1 DEF TalkInv, Comes, TalkTypes
  <2>2. Blocks(down, client'.remote, 0)
    BY <2>1 DEF Blocks
  <2>3. Left(host, worker) = 0
    BY <1>7 DEF Left
  <2>4. heard[client'.remote.turn] + Len(client'.audio) + 0 + Left(host, worker) = 0
    BY <1>2, <1>3, <1>4, <2>3
  <2>5. Balance(client', down, host, worker, heard, 0)
    BY <1>7, <2>1, <2>4 DEF Balance, LabAssumption, Talk!VoiceAssumption
  <2>6. 0 \in 0 .. Len(down)
    BY <2>1
  <2> QED
    BY <1>2, <1>4, <2>2, <2>5, <2>6 DEF Comes
<1>15. Believes(client', up', down, host, worker, engine, heard)
  BY <1>6 DEF Believes, NoTurn
<1> QED
  BY <1>5, <1>8, <1>9, <1>11, <1>13, <1>14, <1>15 DEF TalkInv

\* The last reply was heard to its end, or is on the line as one that was not.
LEMMA AllIsTold ==
    ASSUME LabAssumption, TalkInv, OnLine(client), host.open, worker = Nobody,
           client.remote = Nobody, client.audio = <<>>, ~ (client.last # Nobody /\ client.unreported)
    PROVE  Sure(engine, heard, {}) \/ \E j \in 1 .. Len(up) : up[j].kind = "playback_interrupted"
<1> SUFFICES ASSUME ~ Sure(engine, heard, {}),
                    \A j \in 1 .. Len(up) : up[j].kind # "playback_interrupted"
             PROVE  FALSE
  OBVIOUS
<1>1. NoTurn(up)
  BY DEF TalkInv, Flows
<1>2. /\ client.last = host.last
      /\ client.unreported \/ heard[host.last] + Len(client.audio) = Frames
  BY <1>1 DEF TalkInv, Believes
<1>3. Sure(engine, heard, {host.last})
  BY DEF TalkInv, Trusted
<1>4. host.last # Nobody
  BY <1>3 DEF Sure
<1>5. heard[host.last] = Frames
  <2>1. host.last \in Talk!Turns /\ heard[host.last] \in Nat /\ Len(client.audio) = 0
    BY <1>4 DEF TalkInv, TalkTypes, Host, LabAssumption, Talk!VoiceAssumption
  <2> QED
    BY <1>2, <1>4, <2>1
<1> QED
  BY <1>3, <1>5 DEF Sure

LEMMA ReaderSendsKeepsTalk == ASSUME LabAssumption, TalkInv, Talk!ReaderSends PROVE TalkInv'
<1>1. /\ down' = down /\ host' = host /\ worker' = worker /\ engine' = engine /\ heard' = heard
      /\ OnLine(client)
  BY DEF Talk!ReaderSends, Talk!hostVars, Talk!Connected, OnLine
<1>2. client \in Client /\ up \in Seq(Command) /\ engine \in Talk!Engine
  BY DEF TalkInv, TalkTypes
<1>3. ASSUME AsksNow(client, client'), NEW interrupted \in BOOLEAN
      PROVE  /\ TurnCommand(client, interrupted) \in Command
             /\ TurnCommand(client, interrupted).kind = "turn"
             /\ TurnCommand(client, interrupted).turn = client.pending.turn
  <2>1. client.pending \in Talk!Pending
    BY <1>2, <1>3, ClientFields DEF AsksNow
  <2> QED
    BY <2>1 DEF TurnCommand, Command, Talk!Pending
<1>4. CASE Asks(client, client', up, up')
  <2>1. PICK interrupted \in BOOLEAN : up' = up \o <<TurnCommand(client, interrupted)>>
    BY <1>4 DEF Asks
  <2>2. AsksNow(client, client') /\ ~ (client.last # Nobody /\ client.unreported)
    BY <1>4 DEF Asks
  <2>3. Requested(up, up', client.pending.turn)
    BY <1>2, <1>3, <2>1, <2>2, Sending DEF Requested
  <2>4. host.open /\ worker = Nobody =>
           \/ Sure(engine, heard, {})
           \/ \E j \in 1 .. Len(up') - 1 : up'[j].kind = "playback_interrupted"
    <3>1. client.remote = Nobody /\ client.audio = <<>>
      BY <2>2 DEF AsksNow, TalkInv, ClientSound
    <3>2. /\ \A j \in 1 .. Len(up) : up'[j] = up[j] /\ j \in 1 .. Len(up') - 1
      BY <1>2, <2>3 DEF Requested
    <3> QED
      BY <1>1, <2>2, <3>1, <3>2, AllIsTold
  <2> QED
    BY <1>1, <2>2, <2>3, <2>4, RequestKeeps
<1>5. CASE ConfessesAndAsks(client, client', up, up')
  <2> DEFINE pi == [kind |-> "playback_interrupted", turn |-> client.last]
             turn == TurnCommand(client, FALSE)
  <2>1. AsksNow(client, client') /\ client.last \in Talk!Turns /\ up' = up \o (<<pi>> \o <<turn>>)
    BY <1>2, <1>5, ClientFields DEF ConfessesAndAsks
  <2>2. /\ pi \in Command /\ pi.kind = "playback_interrupted"
        /\ turn \in Command /\ turn.kind = "turn" /\ turn.turn = client.pending.turn
    BY <1>3, <2>1 DEF Command
  <2> HIDE DEF pi, turn
  <2>3. /\ up' \in Seq(Command) /\ Len(up') = Len(up) + 2 /\ Len(up) \in Nat
        /\ \A i \in 1 .. Len(up) : up'[i] = up[i]
        /\ up'[Len(up) + 1] = pi /\ up'[Len(up) + 2] = turn
    BY <1>2, <2>1, <2>2, Sending
  <2>4. Requested(up, up', client.pending.turn)
    BY <2>2, <2>3 DEF Requested
  <2>5. \E j \in 1 .. Len(up') - 1 : up'[j].kind = "playback_interrupted"
    BY <2>2, <2>3
  <2> QED
    BY <1>1, <2>1, <2>4, <2>5, RequestKeeps
<1> QED
  BY <1>1, <1>2, <1>4, <1>5, RoundsOfTheReader, CancelsKeeps, ConfessesKeeps

-----------------------------------------------------------------------------
LEMMA SomethingThere == ASSUME NEW S, NEW d \in Seq(S), Len(d) \in 1 .. Len(d) PROVE d # <<>>
OBVIOUS

\* The first event is taken from the line.
LEMMA FirstOfTheBlocks ==
    ASSUME LabAssumption, NEW d \in Seq(Event), d # <<>>, NEW r, NEW k \in 0 .. Len(d), Blocks(d, r, k)
    PROVE  /\ d[1].kind = "audio" <=> k >= 1
           /\ d[1].kind \in {"audio", "complete", "cancelled"} => d[1].turn = r.turn
           /\ d[1].kind = "cancelled" => r.stale
           /\ d[1].kind # "audio" => \A i \in 1 .. Len(Tail(d)) : Tail(d)[i].kind = "closed"
           /\ d[1].kind # "audio" /\ d[Len(d)].kind # "closed" => Tail(d) = <<>> /\ Len(d) = 1
           /\ d[1].kind = "audio" /\ d[Len(d)].kind # "audio" =>
                 Tail(d) # <<>> /\ Tail(d)[Len(Tail(d))] = d[Len(d)]
<1>1. /\ Len(d) \in Nat /\ Len(d) >= 1 /\ k \in Nat /\ k <= Len(d)
      /\ Tail(d) \in Seq(Event) /\ Len(Tail(d)) = Len(d) - 1
      /\ \A i \in 1 .. Len(Tail(d)) : Tail(d)[i] = d[i + 1]
  BY Taking
<1>2. d[1].kind = "audio" <=> k >= 1
  BY <1>1 DEF Blocks
<1>3. CASE k >= 1
  <2>1. d[1].turn = r.turn /\ d[1].kind = "audio"
    BY <1>1, <1>2, <1>3 DEF Blocks
  <2>2. ASSUME d[Len(d)].kind # "audio" PROVE Tail(d) # <<>> /\ Tail(d)[Len(Tail(d))] = d[Len(d)]
    <3>1. Len(d) # 1
      BY <2>1, <2>2
    <3>2. Len(Tail(d)) \in 1 .. Len(Tail(d)) /\ Len(Tail(d)) + 1 = Len(d)
      BY <1>1, <3>1
    <3>3. Tail(d)[Len(Tail(d))] = d[Len(Tail(d)) + 1]
      BY <1>1, <3>2
    <3>4. Tail(d) # <<>>
      BY <1>1, <3>2, SomethingThere
    <3> QED
      BY <3>2, <3>3, <3>4
  <2> QED
    BY <1>3, <2>1, <2>2
<1>4. CASE k = 0
  <2>1. /\ d[1].kind # "closed" => d[1].turn = r.turn
        /\ d[1].kind = "cancelled" => r.stale
        /\ \A i \in 2 .. Len(d) : d[i].kind = "closed"
    BY <1>1, <1>4 DEF Blocks
  <2>2. \A i \in 1 .. Len(Tail(d)) : Tail(d)[i].kind = "closed"
    <3> SUFFICES ASSUME NEW i \in 1 .. Len(Tail(d)) PROVE Tail(d)[i].kind = "closed"
      OBVIOUS
    <3>1. i + 1 \in 2 .. Len(d)
      BY <1>1
    <3> QED
      BY <1>1, <2>1, <3>1
  <2>3. d[Len(d)].kind # "closed" => Tail(d) = <<>> /\ Len(d) = 1
    <3>1. d[Len(d)].kind # "closed" => Len(d) = 1
      BY <1>1, <2>1
    <3> QED
      BY <1>1, <3>1
  <2> QED
    BY <1>1, <1>2, <1>4, <2>1, <2>2, <2>3
<1> QED
  BY <1>1, <1>3, <1>4

LEMMA RestOfTheBlocks ==
    ASSUME LabAssumption, NEW d \in Seq(Event), d # <<>>, NEW r, NEW k \in 1 .. Len(d), Blocks(d, r, k)
    PROVE  k - 1 \in 0 .. Len(Tail(d)) /\ Blocks(Tail(d), r, k - 1)
<1> DEFINE D == Tail(d)
           j == k - 1
<1>1. /\ Len(d) \in Nat /\ Len(d) >= 1 /\ k \in Nat /\ k <= Len(d) /\ k >= 1
      /\ D \in Seq(Event) /\ Len(D) = Len(d) - 1
      /\ \A i \in 1 .. Len(D) : D[i] = d[i + 1]
  BY Taking
<1> HIDE DEF D
<1>2. j \in 0 .. Len(D) /\ j \in Nat /\ k = j + 1
  BY <1>1
<1> HIDE DEF j
<1>3. ASSUME NEW i \in 1 .. j PROVE D[i].kind = "audio" /\ D[i].turn = r.turn
  <2>1. i + 1 \in 1 .. k /\ i \in 1 .. Len(D)
    BY <1>1, <1>2
  <2> QED
    BY <1>1, <2>1 DEF Blocks
<1>4. ASSUME NEW i \in j + 1 .. Len(D) PROVE D[i].kind # "audio"
  <2>1. i + 1 \in k + 1 .. Len(d) /\ i \in 1 .. Len(D)
    BY <1>1, <1>2
  <2> QED
    BY <1>1, <2>1 DEF Blocks
<1>5. ASSUME NEW i \in j + 2 .. Len(D) PROVE D[i].kind = "closed"
  <2>1. i + 1 \in k + 2 .. Len(d) /\ i \in 1 .. Len(D)
    BY <1>1, <1>2
  <2> QED
    BY <1>1, <2>1 DEF Blocks
<1>6. j < Len(D) => k < Len(d) /\ D[j + 1] = d[k + 1]
  BY <1>1, <1>2
<1>7. Blocks(D, r, j)
  BY <1>3, <1>4, <1>5, <1>6 DEF Blocks
<1> QED
  BY <1>2, <1>7 DEF j, D

\* A block less on the line, and one more in the ear.
LEMMA OneBlockOn ==
    ASSUME NEW c, NEW C, NEW d, NEW D, NEW h, NEW w, NEW g, NEW k \in Nat,
           k >= 1, C.remote = c.remote,
           Len(c.audio) \in Nat, Len(C.audio) = Len(c.audio) + 1,
           g[c.remote.turn] \in Nat, Left(h, w) \in Nat, Len(d) \in Nat, Len(D) = Len(d) - 1,
           \A i \in 1 .. Len(D) : D[i] = d[i + 1], Balance(c, d, h, w, g, k)
    PROVE  Balance(C, D, h, w, g, k - 1)
<1>1. g[C.remote.turn] + Len(C.audio) + (k - 1) + Left(h, w) =
         g[c.remote.turn] + Len(c.audio) + k + Left(h, w)
  <2>1. ASSUME NEW a \in Nat, NEW b \in Nat, NEW n \in Nat
        PROVE  a + (b + 1) + (k - 1) + n = a + b + k + n
    OBVIOUS
  <2>2. g[C.remote.turn] = g[c.remote.turn]
    OBVIOUS
  <2>3. g[c.remote.turn] + (Len(c.audio) + 1) + (k - 1) + Left(h, w) =
           g[c.remote.turn] + Len(c.audio) + k + Left(h, w)
    BY <2>1
  <2> QED
    BY <2>2, <2>3
<1>2. k - 1 < Len(D) => k < Len(d) /\ D[k - 1 + 1] = d[k + 1]
  OBVIOUS
<1> QED
  BY <1>1, <1>2 DEF Balance

\* What the reader finds on the line.
LEMMA Finds ==
    ASSUME LabAssumption, TalkInv, OnLine(client), down # <<>>
    PROVE  /\ client \in Client /\ down \in Seq(Event) /\ up \in Seq(Command)
           /\ heard \in [Talk!Turns -> 0 .. Frames] /\ host \in Host /\ engine \in Talk!Engine
           /\ ClientSound(client, heard) /\ Left(host, worker) \in Nat
           /\ Len(down) \in Nat /\ Len(down) >= 1 /\ Head(down) = down[1] /\ down[1] \in Event
           /\ Tail(down) \in Seq(Event) /\ Len(Tail(down)) = Len(down) - 1
           /\ \A i \in 1 .. Len(Tail(down)) : Tail(down)[i] = down[i + 1]
           /\ client.remote = Nobody => down[1].kind = "closed"
BY Taking, LeftIsNatural DEF TalkInv, TalkTypes, Comes

LEMMA AudioKeeps ==
    ASSUME LabAssumption, TalkInv, OnLine(client), down # <<>>, down[1].kind = "audio",
           client' = IF Talk!Current(client, down[1].turn)
                     THEN [client EXCEPT !.audio = Append(client.audio, down[1].turn)] ELSE client,
           down' = Tail(down),
           up' = up, host' = host, worker' = worker, engine' = engine, heard' = heard
    PROVE  TalkInv'
<1>1. /\ client \in Client /\ down \in Seq(Event) /\ ClientSound(client, heard)
      /\ client.remote # Nobody /\ client.remote \in Talk!Remote
      /\ heard \in [Talk!Turns -> 0 .. Frames] /\ Left(host, worker) \in Nat
      /\ Len(down) \in Nat /\ Len(down) >= 1 /\ Tail(down) \in Seq(Event)
      /\ Len(Tail(down)) = Len(down) - 1
      /\ \A i \in 1 .. Len(Tail(down)) : Tail(down)[i] = down[i + 1]
  <2>1. client.remote # Nobody /\ client \in Client
    BY Finds
  <2>2. client.remote \in Talk!Remote
    BY <2>1, ClientFields
  <2> QED
    BY <2>1, <2>2, Finds
<1>2. PICK k \in 0 .. Len(down) :
         /\ Blocks(down, client.remote, k)
         /\ ~ client.remote.stale => Balance(client, down, host, worker, heard, k)
  BY <1>1 DEF TalkInv, Comes
<1>3. k \in 1 .. Len(down) /\ k >= 1 /\ down[1].turn = client.remote.turn
  BY <1>1, <1>2, FirstOfTheBlocks
<1>4. k - 1 \in 0 .. Len(down') /\ Blocks(down', client.remote, k - 1)
  BY <1>1, <1>2, <1>3, RestOfTheBlocks
<1>5. \/ client.remote.stale /\ client' = client
      \/ ~ client.remote.stale /\ client' = [client EXCEPT !.audio = Append(client.audio, client.remote.turn)]
  BY <1>3 DEF Talk!Current
<1>6. /\ client' \in Client /\ client'.remote = client.remote /\ client'.phase = client.phase
      /\ client'.last = client.last /\ client'.unreported = client.unreported
      /\ client'.pending = client.pending /\ client'.submitted = client.submitted
      /\ client'.speaking = client.speaking /\ client'.active = client.active
      /\ client.remote.stale => client' = client
      /\ ~ client.remote.stale => client'.audio = Append(client.audio, client.remote.turn)
  <2>1. client.audio \in Seq(Talk!Turns) /\ client.remote.turn \in Talk!Turns
    BY <1>1, ClientFields DEF Talk!Remote
  <2>2. Append(client.audio, client.remote.turn) \in Seq(Talk!Turns)
    BY <2>1
  <2> QED
    BY <1>1, <1>5, <2>2 DEF Client
<1>7. ASSUME ~ client.remote.stale
      PROVE  /\ Fresh(client) /\ client.remote.turn = client.submitted /\ client.phase = "open"
             /\ client.submitted \in Talk!Turns /\ Len(client.audio) \in Nat
             /\ Len(client'.audio) = Len(client.audio) + 1
             /\ \A i \in 1 .. Len(client'.audio) : client'.audio[i] = client.submitted
             /\ heard[client.submitted] \in Nat
             /\ heard[client.submitted] + Len(client.audio) + k + Left(host, worker) <= Frames
  <2>1. Fresh(client) /\ client.remote.turn = client.submitted /\ client.phase = "open"
    BY <1>1, <1>7 DEF Fresh, ClientSound
  <2>2. client.submitted \in Talk!Turns /\ client.audio \in Seq(Talk!Turns)
    BY <1>1, <2>1, ClientFields DEF Talk!Remote
  <2>3. /\ Len(client'.audio) = Len(client.audio) + 1 /\ Len(client.audio) \in Nat
        /\ \A i \in 1 .. Len(client.audio) : client'.audio[i] = client.audio[i]
        /\ client'.audio[Len(client.audio) + 1] = client.submitted
    BY <1>6, <1>7, <2>1, <2>2, Appending
  <2>4. \A i \in 1 .. Len(client'.audio) : client'.audio[i] = client.submitted
    BY <1>1, <2>3 DEF ClientSound
  <2>5. heard[client.submitted] + Len(client.audio) + k + Left(host, worker) <= Frames
    BY <1>2, <1>7, <2>1 DEF Balance
  <2>6. heard[client.submitted] \in Nat
    BY <1>1, <2>2 DEF LabAssumption, Talk!VoiceAssumption
  <2> QED
    BY <2>1, <2>2, <2>3, <2>4, <2>5, <2>6
<1>8. ClientSound(client', heard)
  <2>1. CASE client.remote.stale
    BY <1>1, <1>6, <2>1
  <2>2. CASE ~ client.remote.stale
    <3>1. heard[client.submitted] + Len(client'.audio) <= Frames
      BY <1>1, <1>2, <1>3, <1>7, <2>2 DEF LabAssumption, Talk!VoiceAssumption
    <3>2. /\ Fresh(client) /\ Fresh(client') /\ client'.phase = "open"
          /\ client'.submitted = client.submitted /\ client.submitted # 0
      BY <1>6, <1>7, <2>2 DEF Fresh, Talk!Turns
    <3>3. ~ client.speaking /\ client.pending = Nobody /\ ~ client.unreported /\ client.active
      BY <1>1, <3>2 DEF ClientSound
    <3>4. \A m \in Talk!Turns : m > client'.submitted => heard[m] = 0
      BY <1>1, <3>2 DEF ClientSound
    <3>5. \A i \in 1 .. Len(client'.audio) : client'.audio[i] = client'.submitted
      BY <1>7, <2>2, <3>2
    <3> QED
      BY <1>6, <1>7, <2>2, <3>1, <3>2, <3>3, <3>4, <3>5 DEF ClientSound
  <2> QED
    BY <2>1, <2>2
<1>9. Comes(client', down', host, worker, heard)
  <2>1. ASSUME ~ client.remote.stale
        PROVE  Balance(client', down', host, worker, heard, k - 1)
    <3>1. /\ heard[client.remote.turn] \in Nat /\ k \in Nat /\ Left(host, worker) \in Nat
          /\ Balance(client, down, host, worker, heard, k) /\ Len(down') = Len(down) - 1
          /\ \A i \in 1 .. Len(down') : down'[i] = down[i + 1]
      BY <1>1, <1>2, <1>7, <2>1
    <3> QED
      BY <1>1, <1>3, <1>6, <1>7, <2>1, <3>1, OneBlockOn
  <2> QED
    BY <1>1, <1>4, <1>6, <2>1 DEF Comes
<1>10. down[Len(down)].kind \in {"complete", "cancelled"} =>
          down' # <<>> /\ down'[Len(down')] = down[Len(down)]
  BY <1>1, <1>2, FirstOfTheBlocks
<1>11. Flows(client', up, down', host, worker, heard)
  <2> SUFFICES ASSUME host.open PROVE Flows(client', up, down', host, worker, heard)
    BY DEF Flows
  <2>1. \A i \in 1 .. Len(down') : down'[i].kind \notin {"closed", "error"}
    BY <1>1 DEF TalkInv, Flows
  <2>2. CASE worker = Nobody
    BY <1>1, <1>6, <1>10, <2>1, <2>2 DEF TalkInv, Flows
  <2>3. CASE worker # Nobody
    <3>1. Answering(client, up, down, host, worker)
      BY <1>1, <2>3 DEF TalkInv, Flows
    <3>2. Answering(client', up, down', host, worker)
      BY <1>1, <1>6, <3>1 DEF Answering
    <3> QED
      BY <1>1, <1>6, <2>1, <2>3, <3>2 DEF Flows
  <2> QED
    BY <2>2, <2>3
<1>12. Believes(client', up, down', host, worker, engine, heard)
  BY <1>1, <1>6, <1>10 DEF TalkInv, Believes, OnLine
<1>13. TalkTypes'
  BY <1>1, <1>6 DEF TalkInv, TalkTypes
<1> QED
  BY <1>8, <1>9, <1>11, <1>12, <1>13 DEF TalkInv

\* The reply is over, or is not to come: the next is asked for.
LEMMA VerdictKeeps ==
    ASSUME LabAssumption, TalkInv, OnLine(client), down # <<>>,
           down[1].kind \in {"complete", "cancelled"},
           NEW ended \in BOOLEAN, NEW last \in Talk!Turns \cup {Nobody},
           last = IF down[1].kind = "complete" THEN down[1].turn ELSE client.last,
           client' = [client EXCEPT !.ended = ended, !.active = client.pending # Nobody,
                                    !.last = last, !.remote = Nobody],
           down' = Tail(down),
           up' = up, host' = host, worker' = worker, engine' = engine, heard' = heard
    PROVE  TalkInv'
<1>1. /\ client \in Client /\ down \in Seq(Event) /\ ClientSound(client, heard)
      /\ client.remote # Nobody /\ client.remote \in Talk!Remote
      /\ heard \in [Talk!Turns -> 0 .. Frames] /\ Left(host, worker) \in Nat
      /\ Len(down) \in Nat /\ Len(down) >= 1 /\ Tail(down) \in Seq(Event)
      /\ Len(Tail(down)) = Len(down) - 1
  <2>1. client.remote # Nobody /\ client \in Client
    BY Finds
  <2>2. client.remote \in Talk!Remote
    BY <2>1, ClientFields
  <2> QED
    BY <2>1, <2>2, Finds
<1>2. PICK k \in 0 .. Len(down) :
         /\ Blocks(down, client.remote, k)
         /\ ~ client.remote.stale => Balance(client, down, host, worker, heard, k)
  BY <1>1 DEF TalkInv, Comes
<1>3. /\ k = 0 /\ down[1].turn = client.remote.turn
      /\ down[1].kind = "cancelled" => client.remote.stale
      /\ \A i \in 1 .. Len(down') : down'[i].kind = "closed"
      /\ down[Len(down)].kind # "closed" => down' = <<>> /\ Len(down) = 1
  BY <1>1, <1>2, FirstOfTheBlocks
<1>4. /\ client' \in Client /\ client'.remote = Nobody /\ client'.phase = client.phase
      /\ client'.last = last /\ client'.unreported = client.unreported
      /\ client'.pending = client.pending /\ client'.submitted = client.submitted
      /\ client'.speaking = client.speaking /\ client'.audio = client.audio
      /\ client.pending # Nobody => client'.active
  <2>1. (client.pending # Nobody) \in BOOLEAN
    OBVIOUS
  <2> QED
    BY <1>1, <2>1 DEF Client
<1>5. client.audio # <<>> =>
         Fresh(client) /\ client.phase = "open" /\ client.remote.turn = client.submitted
         /\ ~ client.remote.stale
  BY <1>1 DEF ClientSound, Fresh
<1>6. ClientSound(client', heard)
  BY <1>1, <1>3, <1>4, <1>5 DEF ClientSound, Fresh
<1>7. Comes(client', down', host, worker, heard)
  BY <1>3, <1>4 DEF Comes
<1>8. host.open => worker = Nobody /\ NoTurn(up) /\ down' = <<>> /\ Len(down) = 1
  <2> SUFFICES ASSUME host.open PROVE worker = Nobody /\ NoTurn(up) /\ down' = <<>> /\ Len(down) = 1
    OBVIOUS
  <2>1. worker = Nobody
    BY <1>1 DEF TalkInv, Flows, Answering
  <2>2. NoTurn(up) /\ down[Len(down)].kind \in {"complete", "cancelled"}
    BY <1>1, <2>1 DEF TalkInv, Flows
  <2>3. down' = <<>> /\ Len(down) = 1
    BY <1>3, <2>2
  <2> QED
    BY <2>1, <2>2, <2>3
<1>9. Flows(client', up, down', host, worker, heard)
  BY <1>4, <1>8 DEF Flows
<1>10. Believes(client', up, down', host, worker, engine, heard)
  <2> SUFFICES ASSUME host.open, worker = Nobody, ~ Sure(engine, heard, {}),
                      \A i \in 1 .. Len(up) : up[i].kind # "playback_interrupted"
               PROVE  /\ last = host.last
                      /\ client.unreported \/ heard[host.last] + Len(client.audio) = Frames
    BY <1>4 DEF Believes
  <2>1. client.remote.turn = host.last /\ down[1].kind = "complete"
    BY <1>1, <1>8 DEF TalkInv, Believes
  <2>2. last = host.last
    BY <1>3, <2>1
  <2>3. CASE client.remote.stale
    BY <1>1, <2>2, <2>3 DEF ClientSound
  <2>4. CASE ~ client.remote.stale
    <3>1. heard[client.remote.turn] + Len(client.audio) + 0 + Left(host, worker) = Frames
      BY <1>1, <1>2, <1>3, <2>1, <2>4 DEF Balance
    <3>2. Left(host, worker) = 0
      BY DEF Left
    <3>3. /\ heard[client.remote.turn] \in Nat /\ Len(client.audio) \in Nat
      <4>1. client.remote.turn \in Talk!Turns /\ client.audio \in Seq(Talk!Turns)
        BY <1>1, ClientFields DEF Talk!Remote
      <4> QED
        BY <1>1, <4>1 DEF LabAssumption, Talk!VoiceAssumption
    <3> QED
      BY <2>1, <2>2, <3>1, <3>2, <3>3
  <2> QED
    BY <2>3, <2>4
<1>11. TalkTypes'
  BY <1>1, <1>4 DEF TalkInv, TalkTypes
<1> QED
  BY <1>6, <1>7, <1>9, <1>10, <1>11 DEF TalkInv

\* The session on the host is over: the reader leaves the line.
LEMMA ClosingKeeps ==
    ASSUME LabAssumption, TalkInv, OnLine(client), down # <<>>,
           down[1].kind \in {"error", "closed"},
           client' = [client EXCEPT !.phase = "gone", !.audio = <<>>, !.remote = Nobody],
           down' = Tail(down), up' = Append(up, [kind |-> "disconnect"]),
           host' = host, worker' = worker, engine' = engine, heard' = heard
    PROVE  TalkInv'
<1>1. ~ host.open
  <2>1. Len(down) \in Nat /\ Len(down) >= 1
    BY Finds
  <2> QED
    BY <2>1 DEF TalkInv, Flows
<1>2. /\ client' \in Client /\ client'.phase = "gone" /\ client'.remote = Nobody
      /\ client'.audio = <<>> /\ client'.pending = client.pending
      /\ client'.active = client.active /\ client'.submitted = client.submitted
      /\ client'.unreported = client.unreported
  <2>1. <<>> \in Seq(Talk!Turns) /\ client \in Client
    BY Finds
  <2> QED
    BY <2>1 DEF Client
<1>3. ClientSound(client', heard)
  BY <1>2, Finds DEF ClientSound, Fresh
<1>4. TalkTypes'
  <2>1. up' \in Seq(Command)
    <3>1. [kind |-> "disconnect"] \in Command /\ up \in Seq(Command)
      BY Finds DEF Command
    <3> QED
      BY <3>1, Appending
  <2> QED
    BY <1>2, <2>1, Finds DEF TalkInv, TalkTypes
<1> QED
  BY <1>1, <1>2, <1>3, <1>4 DEF TalkInv, Trusted, Flows, Comes, Believes, OnLine

LEMMA ReaderReceivesKeepsTalk ==
    ASSUME LabAssumption, TalkInv, Talk!ReaderReceives PROVE TalkInv'
<1>1. /\ host' = host /\ worker' = worker /\ engine' = engine /\ heard' = heard
      /\ OnLine(client) /\ down # <<>> /\ down' = Tail(down)
  BY DEF Talk!ReaderReceives, Talk!hostVars, Talk!Connected, OnLine
<1>2. Head(down) = down[1] /\ down[1] \in Event /\ client \in Client
  BY <1>1, Finds
<1>3. CASE down[1].kind = "audio"
  <2>1. /\ up' = up
        /\ client' = IF Talk!Current(client, down[1].turn)
                     THEN [client EXCEPT !.audio = Append(@, down[1].turn)] ELSE client
    BY <1>2, <1>3 DEF Talk!ReaderReceives
  <2>2. [client EXCEPT !.audio = Append(@, down[1].turn)] =
           [client EXCEPT !.audio = Append(client.audio, down[1].turn)]
    BY <1>2 DEF Client
  <2> QED
    BY <1>1, <1>3, <2>1, <2>2, AudioKeeps
<1>4. CASE down[1].kind = "complete"
  <2> DEFINE ended == IF Talk!Current(client, down[1].turn) THEN down[1].end ELSE client.ended
  <2>1. /\ up' = up
        /\ client' = [client EXCEPT !.ended = ended, !.active = client.pending # Nobody,
                                    !.last = down[1].turn, !.remote = Nobody]
    BY <1>2, <1>4 DEF Talk!ReaderReceives, Client
  <2>2. ended \in BOOLEAN /\ down[1].turn \in Talk!Turns
    BY <1>2, <1>4, EventFields, ClientFields
  <2> HIDE DEF ended
  <2> QED
    BY <1>1, <1>4, <2>1, <2>2, VerdictKeeps
<1>5. CASE down[1].kind = "cancelled"
  <2>1. /\ up' = up
        /\ client' = [client EXCEPT !.active = client.pending # Nobody, !.remote = Nobody]
    BY <1>2, <1>5 DEF Talk!ReaderReceives
  <2>2. client' = [client EXCEPT !.ended = client.ended, !.active = client.pending # Nobody,
                                 !.last = client.last, !.remote = Nobody]
    BY <1>2, <2>1 DEF Client
  <2>3. client.ended \in BOOLEAN /\ client.last \in Talk!Turns \cup {Nobody}
    BY <1>2, ClientFields
  <2> QED
    BY <1>1, <1>5, <2>1, <2>2, <2>3, VerdictKeeps
<1>6. CASE down[1].kind \in {"error", "closed"}
  <2>1. /\ up' = Append(up, [kind |-> "disconnect"])
        /\ client' = [client EXCEPT !.phase = "gone", !.audio = <<>>, !.remote = Nobody]
    BY <1>2, <1>6 DEF Talk!ReaderReceives
  <2> QED
    BY <1>1, <1>6, <2>1, ClosingKeeps
<1> QED
  BY <1>2, <1>3, <1>4, <1>5, <1>6, EventFields

LEMMA ReaderLeavesKeepsTalk == ASSUME LabAssumption, TalkInv, Talk!ReaderLeaves PROVE TalkInv'
<1> DEFINE still == Talk!StillInterrupted(client)
           said == [kind |-> "session_end", turn |-> client.last, interrupted |-> still]
           off == [kind |-> "disconnect"]
           words == IF client.remote = Nobody /\ client.last # Nobody THEN <<said>> ELSE <<>>
<1>1. /\ down' = down /\ host' = host /\ worker' = worker /\ engine' = engine /\ heard' = heard
      /\ client.phase = "stopping" /\ client' = [client EXCEPT !.phase = "gone"]
      /\ up' = up \o words \o <<off>>
  BY DEF Talk!ReaderLeaves, Talk!hostVars
<1>2. client \in Client /\ up \in Seq(Command) /\ ClientSound(client, heard)
  BY DEF TalkInv, TalkTypes
<1>3. /\ client.audio = <<>> /\ client.pending = Nobody /\ ~ Fresh(client) /\ OnLine(client)
  BY <1>1, <1>2 DEF ClientSound, OnLine
<1>4. /\ client' \in Client /\ client'.phase = "gone" /\ client'.audio = <<>>
      /\ client'.pending = Nobody /\ client'.remote = client.remote
      /\ client'.unreported = client.unreported /\ client'.submitted = client.submitted
  BY <1>1, <1>2, <1>3 DEF Client
<1>5. ClientSound(client', heard)
  BY <1>2, <1>3, <1>4 DEF ClientSound, Fresh
<1>6. still \in BOOLEAN /\ (~ still => ~ client.unreported)
  BY <1>2, ClientFields DEF Talk!StillInterrupted
<1>7. client.last # Nobody => said \in Command
  BY <1>2, <1>6, ClientFields DEF Command
<1>8. off \in Command /\ off.kind = "disconnect" /\ said.kind = "session_end" /\ said.interrupted = still
  BY DEF Command
<1> HIDE DEF still, said, off
<1>9. CASE client.remote = Nobody /\ client.last # Nobody
  <2>1. up' = (up \o <<said>>) \o <<off>>
    BY <1>1, <1>9
  <2>2. /\ (up \o <<said>>) \in Seq(Command) /\ Len(up \o <<said>>) = Len(up) + 1
        /\ \A i \in 1 .. Len(up) : (up \o <<said>>)[i] = up[i]
        /\ (up \o <<said>>)[Len(up) + 1] = said
    BY <1>2, <1>7, <1>9, Sending
  <2>3. /\ up' \in Seq(Command) /\ Len(up') = Len(up) + 2 /\ Len(up) \in Nat
        /\ \A i \in 1 .. Len(up) : up'[i] = up[i]
        /\ up'[Len(up) + 1] = said /\ up'[Len(up) + 2] = off
    <3> DEFINE one == up \o <<said>>
    <3> HIDE DEF one
    <3>1. /\ one \o <<off>> \in Seq(Command) /\ Len(one \o <<off>>) = Len(one) + 1
          /\ \A i \in 1 .. Len(one) : (one \o <<off>>)[i] = one[i]
          /\ (one \o <<off>>)[Len(one) + 1] = off
      BY <1>8, <2>2, Sending DEF one
    <3> QED
      BY <1>2, <2>1, <2>2, <3>1 DEF one
  <2>4. host.open => worker = Nobody /\ NoTurn(up)
    BY <1>3, <1>9 DEF TalkInv, Flows
  <2>5. NoTurn(up) => NoTurn(up')
    BY <1>8, <2>3 DEF NoTurn
  <2>6. host.open => LastWords(up', worker)
    BY <2>4, <2>5 DEF LastWords, NoTurn
  <2>7. Trusted(up', host, worker, engine, heard)
    <3> SUFFICES ASSUME host.open, worker = Nobody, NEW i \in 1 .. Len(up'), Trusting(up'[i])
                 PROVE  \/ Sure(engine, heard, {})
                        \/ \E j \in 1 .. i - 1 : up'[j].kind = "playback_interrupted"
      BY DEF TalkInv, Trusted
    <3>1. CASE i \in 1 .. Len(up)
      BY <2>3, <3>1 DEF TalkInv, Trusted
    <3>2. CASE i = Len(up) + 1
      <4>1. ~ client.unreported
        BY <1>6, <1>8, <2>3, <3>2 DEF Trusting
      <4>2. Sure(engine, heard, {}) \/ \E j \in 1 .. Len(up) : up[j].kind = "playback_interrupted"
        BY <1>3, <1>9, <4>1, AllIsTold
      <4> QED
        BY <2>3, <3>2, <4>2
    <3>3. CASE i = Len(up) + 2
      BY <1>8, <2>3, <3>3 DEF Trusting
    <3> QED
      BY <2>3, <3>1, <3>2, <3>3
  <2>8. TalkTypes'
    BY <1>1, <1>4, <2>3 DEF TalkInv, TalkTypes
  <2> QED
    BY <1>1, <1>4, <1>5, <2>6, <2>7, <2>8 DEF TalkInv, Flows, Comes, Believes, OnLine
<1>10. CASE ~ (client.remote = Nobody /\ client.last # Nobody)
  <2>1. up' = up \o <<off>>
    <3>1. up' = (up \o <<>>) \o <<off>>
      BY <1>1, <1>10
    <3>2. up \o <<>> = up
      BY <1>2
    <3> QED
      BY <3>1, <3>2
  <2>2. /\ up' \in Seq(Command) /\ Len(up') = Len(up) + 1 /\ Len(up) \in Nat
        /\ \A i \in 1 .. Len(up) : up'[i] = up[i]
        /\ up'[Len(up) + 1] = off
    BY <1>2, <1>8, <2>1, Sending
  <2>3. host.open => LastWords(up', worker)
    BY <1>8, <2>2 DEF TalkInv, LastWords
  <2>4. Trusted(up', host, worker, engine, heard)
    BY <1>8, <2>2 DEF TalkInv, Trusted, Trusting
  <2>5. TalkTypes'
    BY <1>1, <1>4, <2>2 DEF TalkInv, TalkTypes
  <2> QED
    BY <1>1, <1>4, <1>5, <2>3, <2>4, <2>5 DEF TalkInv, Flows, Comes, Believes, OnLine
<1> QED
  BY <1>9, <1>10

-----------------------------------------------------------------------------
\* What is under way when the host says something: blocks of the one reply, or of none.
LEMMA BlocksOnly ==
    ASSUME LabAssumption, TalkInv, OnLine(client), host.open, worker # Nobody
    PROVE  /\ client.remote # Nobody /\ worker.turn = client.remote.turn
           /\ host.active = worker.turn
           /\ \A i \in 1 .. Len(down) : down[i].kind = "audio"
           /\ ~ client.remote.stale =>
                 ~ host.cancel /\ \A i \in 1 .. Len(up) : up[i].kind # "cancel"
           /\ Blocks(down, client.remote, Len(down))
           /\ ~ client.remote.stale =>
                 /\ Balance(client, down, host, worker, heard, Len(down))
                 /\ heard[client.remote.turn] + Len(client.audio) + Len(down)
                       + (host.queue + worker.left) = Frames
<1>1. client.remote # Nobody /\ Answering(client, up, down, host, worker)
  BY DEF TalkInv, Flows
<1>2. \A i \in 1 .. Len(down) : down[i].kind = "audio"
  BY <1>1 DEF Answering
<1>3. PICK k \in 0 .. Len(down) :
         /\ Blocks(down, client.remote, k)
         /\ ~ client.remote.stale => Balance(client, down, host, worker, heard, k)
  BY <1>1 DEF TalkInv, Comes
<1>4. down \in Seq(Event) /\ Len(down) \in Nat
  BY DEF TalkInv, TalkTypes
<1>5. k = Len(down)
  <2>1. k < Len(down) => k + 1 \in k + 1 .. Len(down) /\ k + 1 \in 1 .. Len(down)
    BY <1>3, <1>4
  <2>2. k < Len(down) => FALSE
    BY <1>2, <1>3, <2>1 DEF Blocks
  <2> QED
    BY <1>3, <1>4, <2>2
<1> QED
  BY <1>1, <1>2, <1>3, <1>5 DEF Answering, TalkInv, HostSound, Balance, Left

-----------------------------------------------------------------------------
\* The session is over: what was under way still comes, and a word that it is.
LEMMA LastEvent ==
    ASSUME LabAssumption, NEW d \in Seq(Event), NEW r, NEW k \in 0 .. Len(d), Blocks(d, r, k),
           NEW a \in Event, a.kind = "closed"
    PROVE  /\ k \in 0 .. Len(Append(d, a)) /\ Blocks(Append(d, a), r, k)
           /\ k < Len(Append(d, a)) /\ Append(d, a)[k + 1].kind = "complete" =>
                 k < Len(d) /\ d[k + 1].kind = "complete"
<1> DEFINE D == Append(d, a)
<1>1. /\ D \in Seq(Event) /\ Len(D) = Len(d) + 1 /\ Len(d) \in Nat /\ k \in Nat /\ k <= Len(d)
      /\ \A i \in 1 .. Len(d) : D[i] = d[i]
      /\ D[Len(d) + 1].kind = "closed"
  BY Appending
<1> HIDE DEF D
<1>2. k < Len(d) => D[k + 1] = d[k + 1]
  BY <1>1
<1>3. k = Len(d) => D[k + 1].kind = "closed"
  BY <1>1
<1>4. \A i \in 1 .. k : D[i].kind = "audio" /\ D[i].turn = r.turn
  BY <1>1 DEF Blocks
<1>5. \A i \in k + 1 .. Len(D) : D[i].kind # "audio"
  BY <1>1 DEF Blocks
<1>6. \A i \in k + 2 .. Len(D) : D[i].kind = "closed"
  BY <1>1 DEF Blocks
<1>7. Blocks(D, r, k)
  BY <1>1, <1>2, <1>3, <1>4, <1>5, <1>6 DEF Blocks
<1> QED
  BY <1>1, <1>2, <1>3, <1>7 DEF D

LEMMA EndKeeps ==
    ASSUME LabAssumption, TalkInv, host.open, NEW clean \in BOOLEAN, NEW e \in Talk!Engine,
           Talk!Ends(clean, e), up' \in Seq(Command), Based(e),
           IF clean THEN worker = Nobody /\ Sure(e, heard, {}) ELSE e = engine,
           client' = client, worker' = worker, heard' = heard
    PROVE  TalkInv'
<1>1. /\ host \in Host /\ client \in Client /\ down \in Seq(Event)
      /\ worker \in Talk!Thread \cup {Nobody} /\ Left(host, worker) \in Nat
      /\ heard \in [Talk!Turns -> 0 .. Frames]
  BY LeftIsNatural DEF TalkInv, TalkTypes
<1>2. /\ host' \in Host /\ ~ host'.open /\ host'.clean = clean
      /\ host'.gate <=> Thinks(worker)
  <2>1. Talk!Alive \in BOOLEAN /\ (Talk!Alive <=> Thinks(worker))
    BY DEF Talk!Alive, Thinks
  <2> HIDE DEF Talk!Alive
  <2>2. host' = [host EXCEPT !.open = FALSE, !.clean = clean, !.cancel = TRUE, !.gate = Talk!Alive]
    BY DEF Talk!Ends
  <2> QED
    BY <1>1, <2>1, <2>2 DEF Host
<1>3. /\ engine' \in Talk!Engine /\ Based(engine') /\ (Thinks(worker) => engine' = e)
      /\ ~ Thinks(worker) => Sure(engine', heard, {})
  <2>1. engine' = IF clean \/ Thinks(worker) THEN e ELSE Talk!CancelTurnState(e)
    BY DEF Talk!Ends, Talk!Alive, Thinks
  <2> QED
    BY <2>1, NothingStands
<1>4. down' = Append(down, [kind |-> "closed"])
  BY DEF Talk!Ends
<1>5. down' \in Seq(Event)
  <2>1. [kind |-> "closed"] \in Event
    BY DEF Event
  <2> QED
    BY <1>1, <1>4, <2>1, Appending
<1>6. HostSound(host', worker)
  BY <1>2 DEF HostSound, TalkInv, Thinks
<1>7. EngineSound(host', worker, engine', heard)
  BY <1>2, <1>3 DEF EngineSound, TalkInv, Thinks
<1>8. Comes(client, down', host', worker, heard)
  <2> SUFFICES ASSUME OnLine(client) PROVE Comes(client, down', host', worker, heard)
    BY DEF Comes
  <2> DEFINE bye == [kind |-> "closed"]
  <2>1. bye \in Event /\ bye.kind = "closed"
    BY DEF Event
  <2> HIDE DEF bye
  <2>2. down' = Append(down, bye)
    BY <1>4 DEF bye
  <2>3. CASE client.remote = Nobody
    <3>1. \A i \in 1 .. Len(down) : down[i].kind = "closed"
      BY <2>3 DEF TalkInv, Comes
    <3>2. \A i \in 1 .. Len(down') : down'[i].kind = "closed"
      BY <1>1, <2>1, <2>2, <3>1, Appending
    <3> QED
      BY <2>3, <3>2 DEF Comes
  <2>4. CASE client.remote # Nobody
    <3>1. PICK k \in 0 .. Len(down) :
             /\ Blocks(down, client.remote, k)
             /\ ~ client.remote.stale => Balance(client, down, host, worker, heard, k)
      BY <2>4 DEF TalkInv, Comes
    <3>2. /\ k \in 0 .. Len(down') /\ Blocks(down', client.remote, k)
          /\ k < Len(down') /\ down'[k + 1].kind = "complete" =>
                k < Len(down) /\ down[k + 1].kind = "complete"
      BY <1>1, <2>1, <2>2, <3>1, LastEvent
    <3>3. ASSUME ~ client.remote.stale PROVE Balance(client, down', host', worker, heard, k)
      <4> DEFINE n == heard[client.remote.turn] + Len(client.audio) + k
      <4>1. n \in Nat
        <5>1. client.remote.turn \in Talk!Turns /\ client.audio \in Seq(Talk!Turns)
          BY <1>1, <2>4, ClientFields DEF Talk!Remote
        <5>2. heard[client.remote.turn] \in Nat /\ Len(client.audio) \in Nat /\ k \in Nat
          BY <1>1, <3>1, <5>1 DEF LabAssumption, Talk!VoiceAssumption
        <5> QED
          BY <5>2
      <4>2. /\ n + Left(host, worker) <= Frames
            /\ k < Len(down) /\ down[k + 1].kind = "complete" => n + Left(host, worker) = Frames
        BY <3>1, <3>3 DEF Balance
      <4>3. k < Len(down) /\ down[k + 1].kind = "complete" => Left(host, worker) = 0
        <5>1. k < Len(down) => k + 1 \in 1 .. Len(down)
          BY <1>1, <3>1
        <5> QED
          BY <5>1, BlocksOnly DEF Left
      <4>4. Left(host', worker) = 0
        BY <1>2 DEF Left
      <4> HIDE DEF n
      <4>5. /\ n + 0 <= Frames
            /\ k < Len(down) /\ down[k + 1].kind = "complete" => n + 0 = Frames
        BY <1>1, <4>1, <4>2, <4>3 DEF LabAssumption, Talk!VoiceAssumption
      <4> QED
        BY <1>2, <3>2, <4>4, <4>5 DEF n, Balance
    <3> QED
      BY <2>4, <3>2, <3>3 DEF Comes
  <2> QED
    BY <2>3, <2>4
<1>9. TalkTypes'
  BY <1>1, <1>2, <1>3, <1>5 DEF TalkTypes
<1> QED
  BY <1>2, <1>6, <1>7, <1>8, <1>9 DEF TalkInv, Trusted, Flows, Believes

LEMMA HostLeavesKeepsTalk == ASSUME LabAssumption, TalkInv, Talk!HostLeaves PROVE TalkInv'
<1>1. /\ host.open /\ Talk!Ends(FALSE, engine) /\ client' = client /\ up' = up
      /\ worker' = worker /\ heard' = heard
  BY DEF Talk!HostLeaves
<1>2. engine \in Talk!Engine /\ Based(engine) /\ up' \in Seq(Command)
  BY <1>1 DEF TalkInv, TalkTypes, EngineSound
<1> QED
  BY <1>1, <1>2, EndKeeps

-----------------------------------------------------------------------------
\* The first command is taken from the line; what came after it still does.
Takes(u, U) ==
    /\ U \in Seq(Command) /\ Len(u) \in Nat /\ Len(u) >= 1 /\ Len(U) = Len(u) - 1
    /\ \A i \in 1 .. Len(U) : U[i] = u[i + 1]

LEMMA TakenWords ==
    ASSUME NEW u, NEW U, Takes(u, U), NEW w
    PROVE  /\ NoTurn(u) => NoTurn(U)
           /\ LastWords(u, w) => LastWords(U, w)
           /\ (\A i \in 1 .. Len(u) : u[i].kind # "cancel") =>
                 \A i \in 1 .. Len(U) : U[i].kind # "cancel"
<1>1. \A i \in 1 .. Len(U) : i + 1 \in 2 .. Len(u) /\ i + 1 \in 1 .. Len(u) /\ U[i] = u[i + 1]
  BY DEF Takes
<1>2. \A i \in 1 .. Len(U) : \A j \in i + 1 .. Len(U) :
         /\ j + 1 \in i + 1 + 1 .. Len(u) /\ U[j] = u[j + 1]
  BY DEF Takes
<1>3. ASSUME LastWords(u, w) PROVE LastWords(U, w)
  <2>1. ASSUME NEW i \in 1 .. Len(U), U[i].kind = "turn", NEW j \in i + 1 .. Len(U)
        PROVE  U[j].kind \in {"cancel", "disconnect"}
    BY <1>1, <1>2, <1>3, <2>1 DEF LastWords
  <2>2. w # Nobody => \A i \in 1 .. Len(U) : U[i].kind \in {"cancel", "disconnect"}
    BY <1>1, <1>3 DEF LastWords
  <2> QED
    BY <2>1, <2>2 DEF LastWords
<1> QED
  BY <1>1, <1>3 DEF NoTurn

\* What the session finds on the line.
LEMMA Hearing ==
    ASSUME LabAssumption, TalkInv, up # <<>>
    PROVE  /\ up \in Seq(Command) /\ Head(up) = up[1] /\ up[1] \in Command
           /\ Takes(up, Tail(up)) /\ Tail(up) \in Seq(Command)
           /\ Len(up) \in Nat /\ Len(up) >= 1 /\ 1 \in 1 .. Len(up)
           /\ client \in Client /\ host \in Host /\ engine \in Talk!Engine /\ Based(engine)
           /\ down \in Seq(Event) /\ heard \in [Talk!Turns -> 0 .. Frames]
           /\ worker \in Talk!Thread \cup {Nobody}
BY Taking DEF TalkInv, TalkTypes, Takes, EngineSound

\* A worker is started for the turn that was asked for.
LEMMA TurnKeeps ==
    ASSUME LabAssumption, TalkInv, host.open, worker = Nobody, up # <<>>, up[1].kind = "turn",
           up' = Tail(up),
           engine' = IF up[1].previous_interrupted THEN Talk!CancelTurnState(engine) ELSE engine,
           host' = [host EXCEPT !.active = up[1].turn, !.cancel = FALSE],
           worker' = [turn |-> up[1].turn, word |-> up[1].word, outcome |-> Nobody,
                      thought |-> Nobody, left |-> Frames],
           down' = down, client' = client, heard' = heard
    PROVE  TalkInv'
<1>1. /\ up \in Seq(Command) /\ up[1] \in Command /\ up[1].turn \in Talk!Turns
      /\ up[1].word \in Words \cup {"greeting"} /\ Takes(up, up') /\ up' \in Seq(Command)
      /\ host \in Host /\ engine \in Talk!Engine /\ Based(engine) /\ client \in Client
      /\ 1 \in 1 .. Len(up) /\ Len(up) \in Nat
  BY Hearing, CommandFields
<1>2. /\ worker' \in Talk!Thread /\ worker'.turn = up[1].turn /\ worker'.outcome = Nobody
      /\ worker'.thought = Nobody /\ worker'.left = Frames
  BY <1>1 DEF Talk!Thread, LabAssumption, Talk!VoiceAssumption
<1>3. worker' # Nobody
  BY <1>2 DEF LabAssumption, Talk!NoneIsNoRecord
<1>4. /\ host' \in Host /\ host'.open /\ host'.active = up[1].turn /\ ~ host'.cancel
      /\ host'.gate = host.gate /\ host'.queue = 0
  BY <1>1 DEF Host, TalkInv, HostSound
<1>5. engine' \in Talk!Engine /\ Based(engine') /\ Sure(engine', heard, {})
  <2>1. CASE up[1].previous_interrupted
    BY <1>1, <2>1, NothingStands
  <2>2. CASE ~ up[1].previous_interrupted
    <3>1. Trusting(up[1])
      BY <2>2 DEF Trusting
    <3>2. \/ Sure(engine, heard, {})
          \/ \E j \in 1 .. 1 - 1 : up[j].kind = "playback_interrupted"
      BY <1>1, <3>1 DEF TalkInv, Trusted
    <3>3. 1 .. 1 - 1 = {}
      OBVIOUS
    <3> QED
      BY <1>1, <2>2, <3>2, <3>3
  <2> QED
    BY <2>1, <2>2
<1>6. HostSound(host', worker')
  BY <1>2, <1>3, <1>4 DEF HostSound, TalkInv, LabAssumption, Talk!VoiceAssumption
<1>7. EngineSound(host', worker', engine', heard)
  BY <1>2, <1>4, <1>5, <1>6
  DEF EngineSound, HostSound, TalkInv, Thinks, LabAssumption, Talk!VoiceAssumption
<1>8. \A i \in 1 .. Len(up') : up'[i].kind \in {"cancel", "disconnect"}
  <2>1. \A i \in 2 .. Len(up) : up[i].kind \in {"cancel", "disconnect"}
    BY <1>1 DEF TalkInv, LastWords
  <2>2. \A i \in 1 .. Len(up') : i + 1 \in 2 .. Len(up) /\ up'[i] = up[i + 1]
    BY <1>1 DEF Takes
  <2> QED
    BY <2>1, <2>2
<1>9. LastWords(up', worker')
  BY <1>8 DEF LastWords
<1>10. OnLine(client) =>
          /\ client.remote # Nobody /\ down = <<>> /\ up[1].turn = client.remote.turn
          /\ ~ client.remote.stale =>
                /\ client.audio = <<>> /\ heard[client.remote.turn] = 0
                /\ \A i \in 1 .. Len(up') : up'[i].kind # "cancel"
  <2> SUFFICES ASSUME OnLine(client)
               PROVE  /\ client.remote # Nobody /\ down = <<>> /\ up[1].turn = client.remote.turn
                      /\ ~ client.remote.stale =>
                            /\ client.audio = <<>> /\ heard[client.remote.turn] = 0
                            /\ \A i \in 1 .. Len(up') : up'[i].kind # "cancel"
    OBVIOUS
  <2>1. ~ NoTurn(up)
    BY <1>1 DEF NoTurn
  <2>2. client.remote # Nobody /\ down = <<>> /\ Asked(client, up, heard)
    BY <2>1 DEF TalkInv, Flows
  <2>3. PICK i \in 1 .. Len(up) :
           /\ up[i].kind = "turn" /\ up[i].turn = client.remote.turn
           /\ ~ client.remote.stale =>
                 /\ client.audio = <<>> /\ heard[client.remote.turn] = 0
                 /\ \A j \in i + 1 .. Len(up) : up[j].kind # "cancel"
    BY <2>2 DEF Asked
  <2>4. i = 1
    <3>1. i # 1 => i \in 1 + 1 .. Len(up)
      BY <1>1
    <3> QED
      BY <1>1, <2>3, <3>1 DEF TalkInv, LastWords
  <2>5. \A j \in 1 .. Len(up') : j + 1 \in 1 + 1 .. Len(up) /\ up'[j] = up[j + 1]
    BY <1>1 DEF Takes
  <2> QED
    BY <2>2, <2>3, <2>4, <2>5
<1>11. Flows(client, up', down, host', worker', heard)
  <2>1. OnLine(client) => Answering(client, up', down, host', worker')
    BY <1>2, <1>4, <1>10 DEF Answering
  <2> QED
    BY <1>3, <1>10, <2>1 DEF Flows
<1>12. Comes(client, down, host', worker', heard)
  <2> SUFFICES ASSUME OnLine(client) PROVE Comes(client, down, host', worker', heard)
    BY DEF Comes
  <2>1. client.remote # Nobody /\ Len(down) = 0 /\ 0 \in 0 .. Len(down)
    BY <1>10
  <2>2. Blocks(down, client.remote, 0)
    BY <2>1 DEF Blocks
  <2>3. Left(host', worker') = Frames
    BY <1>2, <1>3, <1>4 DEF Left, LabAssumption, Talk!VoiceAssumption
  <2>4. ~ client.remote.stale =>
           heard[client.remote.turn] + Len(client.audio) + 0 + Left(host', worker') = Frames
    <3>1. ~ client.remote.stale => heard[client.remote.turn] = 0 /\ Len(client.audio) = 0
      BY <1>10
    <3> QED
      BY <2>3, <3>1 DEF LabAssumption, Talk!VoiceAssumption
  <2>5. ~ client.remote.stale => Balance(client, down, host', worker', heard, 0)
    BY <2>1, <2>4 DEF Balance, LabAssumption, Talk!VoiceAssumption
  <2> QED
    BY <2>1, <2>2, <2>5 DEF Comes
<1>13. TalkTypes'
  BY <1>1, <1>2, <1>4, <1>5 DEF TalkInv, TalkTypes
<1> QED
  BY <1>3, <1>6, <1>7, <1>9, <1>11, <1>12, <1>13 DEF TalkInv, Trusted, Believes

\* The turn is cancelled: its worker is told.
LEMMA CancelKeeps ==
    ASSUME LabAssumption, TalkInv, host.open, worker # Nobody, up # <<>>, up[1].kind = "cancel",
           up' = Tail(up), host' = [host EXCEPT !.cancel = TRUE],
           down' = down, client' = client, heard' = heard, worker' = worker, engine' = engine
    PROVE  TalkInv'
<1>1. /\ up \in Seq(Command) /\ Takes(up, up') /\ up' \in Seq(Command) /\ host \in Host
      /\ 1 \in 1 .. Len(up)
  BY Hearing
<1>2. /\ host' \in Host /\ host'.open /\ host'.gate = host.gate /\ host'.clean = host.clean
      /\ host'.active = host.active /\ host'.queue = host.queue /\ host'.cancel
      /\ host'.last = host.last
  BY <1>1 DEF Host
<1>3. HostSound(host', worker) /\ EngineSound(host', worker, engine, heard)
  BY <1>2 DEF TalkInv, HostSound, EngineSound
<1>4. LastWords(up', worker)
  BY <1>1, TakenWords DEF TalkInv
<1>5. Flows(client, up', down, host', worker, heard)
  <2>1. ASSUME OnLine(client) PROVE client.remote # Nobody /\ Answering(client, up', down, host', worker)
    BY <1>1, <2>1, BlocksOnly DEF Answering
  <2> QED
    BY <1>2, <2>1 DEF TalkInv, Flows
<1>6. Comes(client, down, host', worker, heard)
  <2>1. Left(host', worker) = Left(host, worker)
    BY <1>2 DEF Left
  <2> QED
    BY <1>2, <2>1 DEF TalkInv, Comes, Balance
<1>7. TalkTypes'
  BY <1>1, <1>2 DEF TalkInv, TalkTypes
<1> QED
  BY <1>3, <1>4, <1>5, <1>6, <1>7 DEF TalkInv, Trusted, Believes

\* The last reply was not heard: nothing stands.
LEMMA InterruptionKeeps ==
    ASSUME LabAssumption, TalkInv, host.open, worker = Nobody, up # <<>>,
           up[1].kind = "playback_interrupted",
           up' = Tail(up), engine' = Talk!CancelTurnState(engine),
           down' = down, client' = client, heard' = heard, worker' = worker, host' = host
    PROVE  TalkInv'
<1>1. /\ up \in Seq(Command) /\ Takes(up, up') /\ up' \in Seq(Command) /\ engine \in Talk!Engine
      /\ 1 \in 1 .. Len(up) /\ Len(up) \in Nat
  BY Hearing
<1>2. engine' \in Talk!Engine /\ Based(engine') /\ \A S : Sure(engine', heard, S)
  BY <1>1, NothingStands
<1>3. EngineSound(host, worker, engine', heard)
  BY <1>2 DEF TalkInv, EngineSound, Thinks
<1>4. LastWords(up', worker) /\ (NoTurn(up) => NoTurn(up'))
  BY <1>1, TakenWords DEF TalkInv
<1>5. Asked(client, up, heard) => Asked(client, up', heard)
  <2> SUFFICES ASSUME Asked(client, up, heard) PROVE Asked(client, up', heard)
    OBVIOUS
  <2>1. PICK i \in 1 .. Len(up) :
           /\ up[i].kind = "turn" /\ up[i].turn = client.remote.turn
           /\ ~ client.remote.stale =>
                 /\ client.audio = <<>> /\ heard[client.remote.turn] = 0
                 /\ \A j \in i + 1 .. Len(up) : up[j].kind # "cancel"
    BY DEF Asked
  <2>2. i # 1
    BY <2>1
  <2>3. i - 1 \in 1 .. Len(up') /\ up'[i - 1] = up[i]
    BY <1>1, <2>2 DEF Takes
  <2>4. \A j \in i - 1 + 1 .. Len(up') : j + 1 \in i + 1 .. Len(up) /\ up'[j] = up[j + 1]
    BY <1>1, <2>2 DEF Takes
  <2>5. \A j \in i - 1 + 1 .. Len(up') :
           (\A n \in i + 1 .. Len(up) : up[n].kind # "cancel") => up'[j].kind # "cancel"
    BY <2>4
  <2>6. /\ up'[i - 1].kind = "turn" /\ up'[i - 1].turn = client.remote.turn
        /\ ~ client.remote.stale =>
              /\ client.audio = <<>> /\ heard[client.remote.turn] = 0
              /\ \A j \in i - 1 + 1 .. Len(up') : up'[j].kind # "cancel"
    BY <2>1, <2>3, <2>5
  <2> QED
    BY <2>3, <2>6 DEF Asked
<1>6. Flows(client, up', down, host, worker, heard)
  BY <1>4, <1>5 DEF TalkInv, Flows
<1>7. TalkTypes'
  BY <1>1, <1>2 DEF TalkInv, TalkTypes
<1> QED
  BY <1>2, <1>3, <1>4, <1>6, <1>7 DEF TalkInv, Trusted, Believes

LEMMA HostReceivesKeepsTalk == ASSUME LabAssumption, TalkInv, Talk!HostReceives PROVE TalkInv'
<1>1. /\ host.open /\ up # <<>> /\ up' = Tail(up) /\ client' = client /\ heard' = heard
  BY DEF Talk!HostReceives
<1>2. /\ Head(up) = up[1] /\ up[1] \in Command /\ up' \in Seq(Command) /\ engine \in Talk!Engine
      /\ Based(engine) /\ 1 \in 1 .. Len(up) /\ host \in Host
  BY <1>1, Hearing
<1>3. CASE Talk!Ends(FALSE, engine) /\ UNCHANGED worker
  BY <1>1, <1>2, <1>3, EndKeeps
<1>4. host.active = Nobody => worker = Nobody
  <2>1. worker # Nobody => worker.turn \in Talk!Turns
    BY ReplyFields DEF TalkInv, TalkTypes
  <2> QED
    BY <1>1, <2>1 DEF TalkInv, HostSound, LabAssumption, Talk!VoiceAssumption, Talk!Turns
<1>5. CASE /\ ~ Talk!Refused(up[1]) /\ up[1].kind = "turn"
           /\ engine' = IF up[1].previous_interrupted THEN Talk!CancelTurnState(engine) ELSE engine
           /\ host' = [host EXCEPT !.active = up[1].turn, !.cancel = FALSE]
           /\ worker' = [turn |-> up[1].turn, word |-> up[1].word, outcome |-> Nobody,
                         thought |-> Nobody, left |-> Frames]
           /\ UNCHANGED down
  <2>1. worker = Nobody
    BY <1>4, <1>5 DEF Talk!Refused
  <2> QED
    BY <1>1, <1>5, <2>1, TurnKeeps
<1>6. CASE /\ ~ Talk!Refused(up[1]) /\ up[1].kind = "cancel"
           /\ host' = [host EXCEPT !.cancel = TRUE] /\ UNCHANGED <<worker, engine, down>>
  <2>1. host.active = up[1].turn
    BY <1>6 DEF Talk!Refused
  <2>2. worker # Nobody
    BY <1>1, <1>2, <1>6, <2>1, CommandFields
    DEF TalkInv, HostSound, LabAssumption, Talk!VoiceAssumption, Talk!Turns
  <2> QED
    BY <1>1, <1>6, <2>2, CancelKeeps
<1>7. CASE /\ ~ Talk!Refused(up[1]) /\ up[1].kind = "playback_interrupted"
           /\ engine' = Talk!CancelTurnState(engine) /\ UNCHANGED <<host, worker, down>>
  <2>1. worker = Nobody
    BY <1>4, <1>7 DEF Talk!Refused
  <2> QED
    BY <1>1, <1>7, <2>1, InterruptionKeeps
<1>8. CASE /\ ~ Talk!Refused(up[1]) /\ up[1].kind = "session_end"
           /\ Talk!Ends(TRUE, IF up[1].interrupted THEN Talk!CancelTurnState(engine) ELSE engine)
           /\ UNCHANGED worker
  <2> DEFINE e == IF up[1].interrupted THEN Talk!CancelTurnState(engine) ELSE engine
  <2>1. worker = Nobody
    BY <1>4, <1>8 DEF Talk!Refused
  <2>2. e \in Talk!Engine /\ Based(e) /\ Sure(e, heard, {})
    <3>1. CASE up[1].interrupted
      BY <1>2, <3>1, NothingStands
    <3>2. CASE ~ up[1].interrupted
      <4>1. Trusting(up[1])
        BY <1>8, <3>2 DEF Trusting
      <4>2. \/ Sure(engine, heard, {})
            \/ \E j \in 1 .. 1 - 1 : up[j].kind = "playback_interrupted"
        BY <1>1, <1>2, <2>1, <4>1 DEF TalkInv, Trusted
      <4>3. 1 .. 1 - 1 = {}
        OBVIOUS
      <4> QED
        BY <1>2, <3>2, <4>2, <4>3
    <3> QED
      BY <3>1, <3>2
  <2>3. Talk!Ends(TRUE, e) /\ worker' = worker
    BY <1>8
  <2> HIDE DEF e
  <2> QED
    BY <1>1, <1>2, <2>1, <2>2, <2>3, EndKeeps
<1> QED
  BY <1>2, <1>3, <1>5, <1>6, <1>7, <1>8 DEF Talk!HostReceives

-----------------------------------------------------------------------------
\* One more event for a turn whose blocks are all that is under way.
LEMMA NextEvent ==
    ASSUME LabAssumption, NEW d \in Seq(Event), NEW r, NEW a \in Event, Blocks(d, r, Len(d)),
           a.kind # "closed", a.turn = r.turn, a.kind = "cancelled" => r.stale
    PROVE  /\ a.kind = "audio" => Blocks(Append(d, a), r, Len(Append(d, a)))
           /\ a.kind # "audio" => Blocks(Append(d, a), r, Len(d)) /\ Len(d) \in 0 .. Len(Append(d, a))
<1> DEFINE D == Append(d, a)
<1>1. /\ D \in Seq(Event) /\ Len(D) = Len(d) + 1 /\ Len(d) \in Nat
      /\ \A i \in 1 .. Len(d) : D[i] = d[i]
      /\ D[Len(d) + 1] = a
  BY Appending
<1> HIDE DEF D
<1>2. \A i \in 1 .. Len(d) : D[i].kind = "audio" /\ D[i].turn = r.turn
  BY <1>1 DEF Blocks
<1>3. ASSUME a.kind = "audio" PROVE Blocks(D, r, Len(D))
  <2>1. \A i \in 1 .. Len(D) : D[i].kind = "audio" /\ D[i].turn = r.turn
    BY <1>1, <1>2, <1>3
  <2> QED
    BY <1>1, <2>1 DEF Blocks
<1>4. ASSUME a.kind # "audio" PROVE Blocks(D, r, Len(d))
  <2>1. \A i \in Len(d) + 1 .. Len(D) : i = Len(d) + 1
    BY <1>1
  <2>2. \A i \in Len(d) + 1 .. Len(D) : D[i].kind # "audio"
    BY <1>1, <1>4, <2>1
  <2>3. \A i \in Len(d) + 2 .. Len(D) : D[i].kind = "closed"
    BY <1>1
  <2> QED
    BY <1>1, <1>2, <2>2, <2>3 DEF Blocks
<1>5. Len(d) \in 0 .. Len(D)
  BY <1>1
<1> QED
  BY <1>3, <1>4, <1>5 DEF D

\* What the host says is on the line behind what it said before.
LEMMA SaidLast ==
    ASSUME LabAssumption, NEW d \in Seq(Event), NEW a \in Event
    PROVE  /\ Append(d, a) \in Seq(Event) /\ Append(d, a) # <<>>
           /\ Append(d, a)[Len(Append(d, a))] = a
           /\ Len(Append(d, a)) = Len(d) + 1 /\ Len(d) \in Nat
           /\ (\A i \in 1 .. Len(d) : d[i].kind = "audio") =>
                 /\ \A i \in 1 .. Len(Append(d, a)) : Append(d, a)[i].kind \in {"audio", a.kind}
<1> DEFINE D == Append(d, a)
<1>1. /\ D \in Seq(Event) /\ Len(D) = Len(d) + 1 /\ Len(d) \in Nat /\ D # <<>>
      /\ \A i \in 1 .. Len(d) : D[i] = d[i]
      /\ D[Len(d) + 1] = a
  BY Appending
<1> HIDE DEF D
<1>2. \A i \in 1 .. Len(D) : i \in 1 .. Len(d) \/ i = Len(d) + 1
  BY <1>1
<1>3. (\A i \in 1 .. Len(d) : d[i].kind = "audio") =>
         \A i \in 1 .. Len(D) : D[i].kind \in {"audio", a.kind}
  BY <1>1, <1>2
<1>4. D[Len(D)] = a
  BY <1>1
<1> QED
  BY <1>1, <1>3, <1>4 DEF D

\* The sums of Balance.
LEMMA Sums ==
    ASSUME LabAssumption, NEW c \in Client, c.remote # Nobody, NEW g \in [Talk!Turns -> 0 .. Frames],
           NEW w \in Talk!Thread, NEW h \in Host
    PROVE  /\ g[c.remote.turn] + Len(c.audio) \in Nat
           /\ h.queue \in Nat /\ w.left \in Nat /\ Frames \in Nat
<1>1. c.remote.turn \in Talk!Turns /\ c.audio \in Seq(Talk!Turns)
  BY ClientFields DEF Talk!Remote
<1>2. g[c.remote.turn] \in Nat /\ Len(c.audio) \in Nat
  BY <1>1 DEF LabAssumption, Talk!VoiceAssumption
<1> QED
  BY <1>2, HostFields, ThreadFields DEF LabAssumption, Talk!VoiceAssumption

LEMMA HostSendsAudioKeepsTalk ==
    ASSUME LabAssumption, TalkInv, Talk!HostSendsAudio PROVE TalkInv'
<1> DEFINE block == [kind |-> "audio", turn |-> host.active]
<1>1. /\ host.open /\ host.queue > 0 /\ host' = [host EXCEPT !.queue = @ - 1]
      /\ down' = IF host.cancel THEN down ELSE Append(down, block)
      /\ client' = client /\ up' = up /\ worker' = worker /\ engine' = engine /\ heard' = heard
  BY DEF Talk!HostSendsAudio
<1>2. /\ host \in Host /\ down \in Seq(Event) /\ client \in Client
      /\ heard \in [Talk!Turns -> 0 .. Frames]
      /\ worker # Nobody /\ worker \in Talk!Thread /\ host.active = worker.turn
  BY <1>1, HostFields DEF TalkInv, TalkTypes, HostSound
<1>3. /\ host' \in Host /\ host'.open /\ host'.gate = host.gate /\ host'.clean = host.clean
      /\ host'.active = host.active /\ host'.queue = host.queue - 1
      /\ host'.cancel = host.cancel /\ host'.last = host.last
  <2>1. host.queue - 1 \in 0 .. QueueSize
    BY <1>1, <1>2, HostFields DEF LabAssumption, Talk!VoiceAssumption
  <2> QED
    BY <1>1, <1>2, <2>1 DEF Host
<1>4. block \in Event /\ block.kind = "audio" /\ block.turn = worker.turn
  BY <1>2, ThreadFields DEF Event
<1> HIDE DEF block
<1>5. down' \in Seq(Event)
  BY <1>1, <1>2, <1>4, SaidLast
<1>6. HostSound(host', worker) /\ EngineSound(host', worker, engine, heard)
  <2>1. HostSound(host, worker) /\ EngineSound(host, worker, engine, heard)
    BY DEF TalkInv
  <2>2. HostSound(host', worker)
    BY <1>1, <1>2, <1>3, <2>1 DEF HostSound
  <2>3. EngineSound(host', worker, engine, heard)
    BY <1>1, <1>2, <1>3, <2>1 DEF EngineSound
  <2> QED
    BY <2>2, <2>3
<1>7. Flows(client, up, down', host', worker, heard)
  <2> SUFFICES ASSUME OnLine(client) PROVE Flows(client, up, down', host', worker, heard)
    BY DEF Flows
  <2>1. \A i \in 1 .. Len(down') : down'[i].kind = "audio"
    BY <1>1, <1>2, <1>4, BlocksOnly, SaidLast
  <2>2. client.remote # Nobody /\ Answering(client, up, down', host', worker)
    BY <1>1, <1>2, <1>3, <2>1, BlocksOnly DEF Answering
  <2> QED
    BY <1>2, <2>1, <2>2 DEF Flows
<1>8. Comes(client, down', host', worker, heard)
  <2> SUFFICES ASSUME OnLine(client) PROVE Comes(client, down', host', worker, heard)
    BY DEF Comes
  <2>1. /\ client.remote # Nobody /\ worker.turn = client.remote.turn
        /\ ~ client.remote.stale => ~ host.cancel
        /\ Blocks(down, client.remote, Len(down))
        /\ ~ client.remote.stale =>
              heard[client.remote.turn] + Len(client.audio) + Len(down)
                 + (host.queue + worker.left) = Frames
    BY <1>1, <1>2, BlocksOnly
  <2>2. Len(down) \in Nat
    BY <1>2
  <2>3. CASE host.cancel
    <3>1. down' = down /\ client.remote.stale /\ Len(down) \in 0 .. Len(down')
      BY <1>1, <2>1, <2>2, <2>3
    <3> QED
      BY <2>1, <3>1 DEF Comes
  <2>4. CASE ~ host.cancel
    <3>1. down' = Append(down, block) /\ Len(down') = Len(down) + 1
      BY <1>1, <1>2, <1>4, <2>4, SaidLast
    <3>2. Blocks(down', client.remote, Len(down')) /\ Len(down') \in 0 .. Len(down')
      <4>1. block.kind # "closed" /\ block.kind # "cancelled" /\ block.turn = client.remote.turn
        BY <1>4, <2>1
      <4>2. Blocks(Append(down, block), client.remote, Len(Append(down, block)))
        BY <1>2, <1>4, <2>1, <4>1, NextEvent
      <4> QED
        BY <2>2, <3>1, <4>2
    <3>3. ASSUME ~ client.remote.stale
          PROVE  heard[client.remote.turn] + Len(client.audio) + Len(down') + Left(host', worker) = Frames
      <4> DEFINE n == heard[client.remote.turn] + Len(client.audio)
      <4>1. n \in Nat /\ host.queue \in Nat /\ worker.left \in Nat
        BY <1>2, <2>1, Sums
      <4>2. n + Len(down) + (host.queue + worker.left) = Frames
        BY <2>1, <3>3
      <4>3. Left(host', worker) = host.queue - 1 + worker.left
        BY <1>2, <1>3 DEF Left
      <4> HIDE DEF n
      <4>4. n + Len(down') + Left(host', worker) = Frames
        BY <2>2, <3>1, <4>1, <4>2, <4>3
      <4> QED
        BY <4>4 DEF n
    <3>4. ~ client.remote.stale => Balance(client, down', host', worker, heard, Len(down'))
      BY <3>1, <3>3, <2>2 DEF Balance, LabAssumption, Talk!VoiceAssumption
    <3> QED
      BY <2>1, <3>2, <3>4 DEF Comes
  <2> QED
    BY <2>3, <2>4
<1>9. TalkTypes'
  BY <1>1, <1>3, <1>5 DEF TalkInv, TalkTypes
<1> QED
  BY <1>1, <1>2, <1>3, <1>6, <1>7, <1>8, <1>9 DEF TalkInv, Trusted, Believes

-----------------------------------------------------------------------------
\* The worker of the turn is gone, and the session says what became of it.
Reported(kind, open) ==
    /\ host.open /\ host.queue = 0 /\ worker # Nobody /\ worker.outcome # Nobody
    /\ worker' = Nobody /\ client' = client /\ up' = up /\ heard' = heard
    /\ host' \in Host /\ host'.open = open /\ host'.gate = open /\ host'.active = Nobody
    /\ host'.queue = 0 /\ host'.clean = host.clean
    /\ engine' \in Talk!Engine /\ Based(engine')
    /\ \E a \in Event : a.kind = kind /\ a.turn = host.active /\ down' = Append(down, a)

LEMMA ReportComes ==
    ASSUME LabAssumption, TalkInv, NEW kind \in {"complete", "cancelled", "error"},
           NEW open \in BOOLEAN, Reported(kind, open),
           kind = "cancelled" => host.cancel,
           kind = "complete" => worker.left = 0
    PROVE  Comes(client, down', host', worker', heard')
<1>1. /\ host.open /\ host.queue = 0 /\ worker # Nobody /\ worker' = Nobody /\ heard' = heard
      /\ client \in Client /\ down \in Seq(Event) /\ host \in Host /\ worker \in Talk!Thread
      /\ heard \in [Talk!Turns -> 0 .. Frames] /\ host.active = worker.turn
  BY DEF Reported, TalkInv, TalkTypes, HostSound
<1>2. PICK a \in Event : a.kind = kind /\ a.turn = host.active /\ down' = Append(down, a)
  BY DEF Reported
<1> SUFFICES ASSUME OnLine(client) PROVE Comes(client, down', host', worker', heard')
  BY DEF Comes
<1>3. /\ client.remote # Nobody /\ worker.turn = client.remote.turn
      /\ ~ client.remote.stale => ~ host.cancel
      /\ Blocks(down, client.remote, Len(down))
      /\ ~ client.remote.stale =>
            heard[client.remote.turn] + Len(client.audio) + Len(down)
               + (host.queue + worker.left) = Frames
  BY <1>1, BlocksOnly
<1>4. client.remote.stale \in BOOLEAN
  BY <1>1, <1>3, ClientFields DEF Talk!Remote
<1>5. Blocks(down', client.remote, Len(down)) /\ Len(down) \in 0 .. Len(down')
  <2>1. /\ a.kind # "closed" /\ a.kind # "audio" /\ a.turn = client.remote.turn
        /\ a.kind = "cancelled" => client.remote.stale
    BY <1>1, <1>2, <1>3, <1>4
  <2>2. /\ Blocks(Append(down, a), client.remote, Len(down))
        /\ Len(down) \in 0 .. Len(Append(down, a))
    BY <1>1, <1>3, <2>1, NextEvent
  <2> QED
    BY <1>2, <2>2
<1>6. ASSUME ~ client.remote.stale PROVE Balance(client, down', host', worker', heard', Len(down))
  <2> DEFINE n == heard[client.remote.turn] + Len(client.audio)
  <2>1. n \in Nat /\ worker.left \in Nat /\ Len(down) \in Nat /\ Frames \in Nat
    BY <1>1, <1>3, Sums
  <2>2. n + Len(down) + (0 + worker.left) = Frames
    BY <1>1, <1>3, <1>6
  <2>3. Left(host', worker') = 0
    BY <1>1 DEF Left
  <2>4. down'[Len(down) + 1].kind = kind
    <3>1. Append(down, a)[Len(down) + 1] = a
      BY <1>1, Appending
    <3> QED
      BY <1>2, <3>1
  <2> HIDE DEF n
  <2>5. n + Len(down) + 0 <= Frames
    BY <2>1, <2>2
  <2>6. kind = "complete" => n + Len(down) + 0 = Frames
    BY <2>1, <2>2
  <2> QED
    BY <1>1, <2>3, <2>4, <2>5, <2>6 DEF n, Balance
<1> QED
  BY <1>3, <1>5, <1>6 DEF Comes

LEMMA ReportKeeps ==
    ASSUME LabAssumption, TalkInv, NEW kind \in {"complete", "cancelled", "error"},
           NEW open \in BOOLEAN, Reported(kind, open), open <=> kind # "error",
           kind = "cancelled" => host.cancel,
           kind = "complete" => worker.left = 0,
           IF kind = "complete" THEN Sure(engine', heard, {host.active}) /\ host'.last = host.active
           ELSE \A S : Sure(engine', heard, S)
    PROVE  TalkInv'
<1>1. /\ host.open /\ host.queue = 0 /\ worker # Nobody /\ worker' = Nobody
      /\ client' = client /\ up' = up /\ heard' = heard
      /\ host' \in Host /\ host'.open = open /\ host'.gate = open /\ host'.active = Nobody
      /\ host'.queue = 0 /\ host'.clean = host.clean
      /\ engine' \in Talk!Engine /\ Based(engine')
  BY DEF Reported
<1>2. PICK a \in Event : a.kind = kind /\ a.turn = host.active /\ down' = Append(down, a)
  BY DEF Reported
<1>3. /\ client \in Client /\ down \in Seq(Event) /\ host.active = worker.turn
      /\ ClientSound(client, heard)
  BY <1>1 DEF TalkInv, TalkTypes, HostSound
<1>4. /\ down' \in Seq(Event) /\ down' # <<>> /\ down'[Len(down')] = a
      /\ (\A i \in 1 .. Len(down) : down[i].kind = "audio") =>
            \A i \in 1 .. Len(down') : down'[i].kind \in {"audio", kind}
  <2>1. /\ Append(down, a) \in Seq(Event) /\ Append(down, a) # <<>>
        /\ Append(down, a)[Len(Append(down, a))] = a
        /\ (\A i \in 1 .. Len(down) : down[i].kind = "audio") =>
              \A i \in 1 .. Len(Append(down, a)) : Append(down, a)[i].kind \in {"audio", a.kind}
    BY <1>3, SaidLast
  <2> QED
    BY <1>2, <2>1
<1>5. HostSound(host', Nobody)
  BY <1>1 DEF HostSound, Thinks
<1>6. EngineSound(host', Nobody, engine', heard)
  BY <1>1 DEF EngineSound, Thinks
<1>7. \A i \in 1 .. Len(up) : up[i].kind \in {"cancel", "disconnect"}
  BY <1>1 DEF TalkInv, LastWords
<1>8. NoTurn(up) /\ \A i \in 1 .. Len(up) : ~ Trusting(up[i])
  BY <1>7 DEF NoTurn, Trusting
<1>9. LastWords(up, Nobody)
  BY <1>7 DEF LastWords
<1>10. Trusted(up, host', Nobody, engine', heard)
  BY <1>1, <1>8 DEF Trusted
<1>11. OnLine(client) =>
          /\ client.remote # Nobody /\ worker.turn = client.remote.turn
          /\ \A i \in 1 .. Len(down) : down[i].kind = "audio"
  BY <1>1, BlocksOnly
<1>12. Flows(client, up, down', host', Nobody, heard)
  <2> SUFFICES ASSUME OnLine(client), host'.open
               PROVE  Flows(client, up, down', host', Nobody, heard)
    BY DEF Flows
  <2>1. \A i \in 1 .. Len(down') : down'[i].kind \in {"audio", kind}
    BY <1>4, <1>11
  <2>2. kind \in {"complete", "cancelled"}
    BY <1>1
  <2> QED
    BY <1>2, <1>4, <1>8, <1>11, <2>1, <2>2 DEF Flows
<1>13. Comes(client, down', host', Nobody, heard)
  BY <1>1, ReportComes
<1>14. Believes(client, up, down', host', Nobody, engine', heard)
  BY <1>1, <1>2, <1>3, <1>4, <1>11 DEF Believes
<1>15. TalkTypes'
  BY <1>1, <1>4 DEF TalkInv, TalkTypes
<1> QED
  BY <1>1, <1>3, <1>5, <1>6, <1>9, <1>10, <1>12, <1>13, <1>14, <1>15 DEF TalkInv

LEMMA HostReportsKeepsTalk == ASSUME LabAssumption, TalkInv, Talk!HostReports PROVE TalkInv'
<1>1. /\ host.open /\ host.queue = 0 /\ worker # Nobody /\ worker.outcome # Nobody
      /\ worker' = Nobody /\ client' = client /\ up' = up /\ heard' = heard
  BY DEF Talk!HostReports
<1>2. /\ host \in Host /\ engine \in Talk!Engine /\ worker \in Talk!Thread
      /\ host.active = worker.turn /\ host.active \in Talk!Turns /\ Based(engine) /\ host.gate
  <2>1. /\ host \in Host /\ engine \in Talk!Engine /\ worker \in Talk!Thread
        /\ host.active = worker.turn /\ Based(engine) /\ host.gate
    BY <1>1 DEF TalkInv, TalkTypes, HostSound, EngineSound
  <2> QED
    BY <2>1, ThreadFields
<1>3. /\ Talk!CancelTurnState(engine) \in Talk!Engine /\ Based(Talk!CancelTurnState(engine))
      /\ \A S : Sure(Talk!CancelTurnState(engine), heard, S)
  BY <1>2, NothingStands
<1>4. CASE /\ host.cancel \/ worker.outcome = "cancelled"
           /\ engine' = Talk!CancelTurnState(engine)
           /\ host' = [host EXCEPT !.active = Nobody]
           /\ down' = Append(down, [kind |-> "cancelled", turn |-> host.active])
  <2>1. /\ host' \in Host /\ host'.open /\ host'.gate /\ host'.active = Nobody
        /\ host'.queue = 0 /\ host'.clean = host.clean
    BY <1>1, <1>2, <1>4 DEF Host
  <2>2. [kind |-> "cancelled", turn |-> host.active] \in Event
    BY <1>2 DEF Event
  <2>3. host.cancel
    BY <1>1, <1>4 DEF TalkInv, HostSound
  <2>4. Reported("cancelled", TRUE)
    <3>1. /\ host'.open = TRUE /\ host'.gate = TRUE
      BY <2>1, HostFields
    <3> QED
      BY <1>1, <1>3, <1>4, <2>1, <2>2, <3>1 DEF Reported
  <2> QED
    BY <1>3, <1>4, <2>3, <2>4, ReportKeeps
<1>5. CASE /\ ~ host.cancel /\ worker.outcome = "error"
           /\ host' = [host EXCEPT !.open = FALSE, !.cancel = TRUE, !.gate = FALSE, !.active = Nobody]
           /\ engine' = Talk!CancelTurnState(engine)
           /\ down' = Append(down, [kind |-> "error", turn |-> host.active])
  <2>1. /\ host' \in Host /\ host'.open = FALSE /\ host'.gate = FALSE /\ host'.active = Nobody
        /\ host'.queue = 0 /\ host'.clean = host.clean
    BY <1>1, <1>2, <1>5 DEF Host
  <2>2. [kind |-> "error", turn |-> host.active] \in Event
    BY <1>2 DEF Event
  <2>3. Reported("error", FALSE)
    BY <1>1, <1>3, <1>5, <2>1, <2>2 DEF Reported
  <2> QED
    BY <1>3, <1>5, <2>3, ReportKeeps
<1>6. CASE /\ ~ host.cancel /\ worker.outcome = "complete"
           /\ host' = [host EXCEPT !.active = Nobody, !.last = host.active]
           /\ down' = Append(down, [kind |-> "complete", turn |-> host.active,
                                    end |-> worker.thought.end])
           /\ UNCHANGED engine
  <2>1. /\ host' \in Host /\ host'.open /\ host'.gate /\ host'.active = Nobody
        /\ host'.queue = 0 /\ host'.clean = host.clean /\ host'.last = host.active
    BY <1>1, <1>2, <1>6 DEF Host
  <2>2. worker.thought # Nobody /\ worker.left = 0
    BY <1>1, <1>6 DEF TalkInv, HostSound
  <2>3. worker.thought.end \in BOOLEAN
    BY <1>2, <2>2, ThreadFields DEF Talk!Reply
  <2>4. [kind |-> "complete", turn |-> host.active, end |-> worker.thought.end] \in Event
    BY <1>2, <2>3 DEF Event
  <2>5. Reported("complete", TRUE)
    <3>1. /\ host'.open = TRUE /\ host'.gate = TRUE
      BY <2>1, HostFields
    <3> QED
      BY <1>1, <1>2, <1>6, <2>1, <2>4, <3>1 DEF Reported
  <2>6. Sure(engine', heard, {host.active})
    BY <1>1, <1>2, <1>6 DEF TalkInv, EngineSound
  <2> QED
    BY <2>1, <2>2, <2>5, <2>6, ReportKeeps
<1> QED
  BY <1>4, <1>5, <1>6 DEF Talk!HostReports

LEMMA HostReleasesKeepsTalk == ASSUME LabAssumption, TalkInv, Talk!HostReleases PROVE TalkInv'
<1>1. /\ ~ host.open /\ host.gate /\ ~ Thinks(worker) /\ host' = [host EXCEPT !.gate = FALSE]
      /\ engine' = IF host.clean THEN engine ELSE Talk!CancelTurnState(engine)
      /\ client' = client /\ up' = up /\ down' = down /\ worker' = worker /\ heard' = heard
  BY DEF Talk!HostReleases, Talk!Alive, Thinks
<1>2. host \in Host /\ engine \in Talk!Engine /\ ~ host.clean
  BY <1>1 DEF TalkInv, TalkTypes, HostSound
<1>3. /\ host' \in Host /\ ~ host'.open /\ ~ host'.gate
  BY <1>1, <1>2 DEF Host
<1>4. engine' \in Talk!Engine /\ Based(engine') /\ Sure(engine', heard, {})
  BY <1>1, <1>2, NothingStands
<1>5. HostSound(host', worker) /\ EngineSound(host', worker, engine', heard)
  BY <1>1, <1>3, <1>4 DEF TalkInv, HostSound, EngineSound
<1>6. Comes(client, down, host', worker, heard)
  <2>1. Left(host', worker) = Left(host, worker)
    BY <1>1, <1>3 DEF Left
  <2> QED
    BY <1>1, <1>3, <2>1 DEF TalkInv, Comes, Balance
<1>7. TalkTypes'
  BY <1>1, <1>3, <1>4 DEF TalkInv, TalkTypes
<1> QED
  BY <1>1, <1>3, <1>5, <1>6, <1>7 DEF TalkInv, Trusted, Flows, Believes

-----------------------------------------------------------------------------
LEMMA TalkNext == ASSUME LabAssumption, TalkInv, [Talk!Next]_talkVars PROVE TalkInv'
<1>1. CASE UNCHANGED talkVars
  BY <1>1 DEF talkVars, TalkInv, TalkTypes
<1>2. CASE Talk!Next
  <2>1. CASE Talk!Reader
    BY <2>1, ReaderSendsKeepsTalk, ReaderReceivesKeepsTalk, ReaderLeavesKeepsTalk DEF Talk!Reader
  <2>2. CASE Talk!HostSession
    BY <2>2, HostReceivesKeepsTalk, HostSendsAudioKeepsTalk, HostReportsKeepsTalk,
       HostReleasesKeepsTalk
    DEF Talk!HostSession
  <2> QED
    BY <1>2, <2>1, <2>2, ConnectKeepsTalk, CallerKeepsTalk, PlayKeepsTalk, HostLeavesKeepsTalk,
       WorkerKeepsTalk
    DEF Talk!Next
<1> QED
  BY <1>1, <1>2

LEMMA TalkPart ==
    /\ LabInit => Talk!Init
    /\ [LabNext]_<<talkVars, bridgeVars, half>> => [Talk!Next]_talkVars
BY DEF LabInit, LabNext, talkVars

LEMMA HeardByTheCaller == ASSUME LabAssumption, TalkInv PROVE CallerIsHeard
<1>1. Talk!OnlyWhatWasHeard
  <2>1. ASSUME Talk!Alive, worker.thought # Nobody, NEW t \in worker.thought.relies_on
        PROVE  heard[t] = Frames
    BY <2>1 DEF Talk!Alive, Thinks, TalkInv, EngineSound
  <2>2. ASSUME ~ host.gate, engine.stage = "confirmed" PROVE heard[engine.basis] = Frames
    BY <2>2 DEF TalkInv, EngineSound, Based, Sure
  <2> QED
    BY <2>1, <2>2 DEF Talk!OnlyWhatWasHeard, Talk!Heard
<1>2. Talk!PlaybackIsCurrent
  <2> SUFFICES ASSUME NEW i \in 1 .. Len(client.audio)
               PROVE  /\ client.audio[i] = client.submitted
                      /\ \/ client.remote = Nobody
                         \/ client.remote # Nobody /\ Talk!Current(client, client.audio[i])
    BY DEF Talk!PlaybackIsCurrent
  <2>1. client.audio # <<>>
    <3>1. client.audio \in Seq(Talk!Turns)
      BY ClientFields DEF TalkInv, TalkTypes
    <3>2. client.audio = <<>> => Len(client.audio) = 0
      OBVIOUS
    <3> QED
      BY <3>1, <3>2
  <2> QED
    BY <2>1 DEF TalkInv, ClientSound, Fresh, Talk!Current
<1> QED
  BY <1>1, <1>2 DEF CallerIsHeard

\* Nobody answers what was not heard, and nothing is played that was spoken over, in every
\* order in which the threads of client and host and what is on the line between them take
\* their steps, wherever the caller speaks up, the line is lost or a model fails.
THEOREM CallersAreHeard == LabSpec => []CallerIsHeard
<1>1. LabInit => TalkInv
  BY TalkPart, TalkBegins, LabAssumption
<1>2. TalkInv /\ [LabNext]_<<talkVars, bridgeVars, half>> => TalkInv'
  BY TalkPart, TalkNext, LabAssumption
<1>3. TalkInv => CallerIsHeard
  BY HeardByTheCaller, LabAssumption
<1> QED
  BY <1>1, <1>2, <1>3, PTL DEF LabSpec

-----------------------------------------------------------------------------
(* The bridge of the laboratory: the inductive invariant *)

\* What calls have made in Asterisk.
Made == asterisk.media \cup asterisk.bridge

Asterisk == [{"waiting", "phone", "media", "bridge"} -> SUBSET Phones]

Signal == [type : {"StasisStart", "StasisEnd"}, phone : Phones]

Running == [at : {"down", "recover", "idle", "setup", "serve", "cleanup"},
            phone : Phones \cup {Nobody}, step : 0 .. 5, ok : BOOLEAN,
            then : {"down", "recover", "idle"}]

BridgeTypes ==
    /\ asterisk \in Asterisk /\ events \in Seq(Signal)
    /\ journal \in [Phones -> {Nobody, "pending", "active", "closed", "unknown"}]
    /\ program \in Running
    /\ program.at \in {"setup", "serve", "cleanup"} => program.phone \in Phones
    /\ program.at \in {"setup", "cleanup"} => program.step >= 1
    /\ program.at = "cleanup" => program.step <= 4

\* Outside a call there is nothing; in a call, or while one is cleaned up that the program
\* is to survive, nothing of another.
MadeByTheCall ==
    /\ program.at = "idle" => Made = {}
    /\ program.at = "setup" => journal[program.phone] = "pending"
    /\ program.at \in {"setup", "serve"} => Made \subseteq {program.phone}
    /\ program.at = "cleanup" /\ program.then = "idle" => Made \subseteq {program.phone}

\* What a cleanup that has not failed has deleted.
Deleted ==
    program.at = "cleanup" /\ program.ok =>
        /\ program.step >= 2 => program.phone \notin asterisk.media
        /\ program.step >= 4 => program.phone \notin asterisk.bridge

\* The inductive invariant of the bridge.
BridgeInv == BridgeTypes /\ Bridge!NothingIsForgotten /\ MadeByTheCall /\ Deleted

\* What is short is always meant by what it says.
USE DEF Made, Bridge!Program, Bridge!At

LEMMA BridgeBegins == ASSUME LabAssumption, Bridge!Init PROVE BridgeInv
BY DEF LabAssumption, Bridge!BridgeAssumption, Bridge!Init, BridgeInv, BridgeTypes,
       Bridge!NothingIsForgotten, MadeByTheCall, Deleted, Asterisk, Running

\* What goes on in Asterisk by itself makes nothing that a call cleans up.
LEMMA PhonesKeepBridge ==
    ASSUME BridgeInv, NEW p \in Phones,
           Bridge!PhoneCalls(p) \/ (\E kind \in {"phone", "media"} : Bridge!ChannelEnds(p, kind))
    PROVE  BridgeInv'
<1>1. CASE Bridge!PhoneCalls(p)
  <2>0. asterisk \in Asterisk /\ events \in Seq(Signal)
    BY DEF BridgeInv, BridgeTypes
  <2>1. asterisk' \in Asterisk /\ asterisk'.media = asterisk.media /\ asterisk'.bridge = asterisk.bridge
    <3>1. \/ asterisk' = [asterisk EXCEPT !.waiting = @ \ {p}]
          \/ asterisk' = [asterisk EXCEPT !.waiting = @ \ {p}, !.phone = @ \cup {p}]
      BY <1>1 DEF Bridge!PhoneCalls
    <3> QED
      BY <2>0, <3>1 DEF Asterisk
  <2>2. events' \in Seq(Signal) /\ program' = program /\ journal' = journal
    <3> DEFINE signal == [type |-> "StasisStart", phone |-> p]
    <3>1. signal \in Signal
      BY DEF Signal
    <3>2. events' = events \/ events' = Append(events, signal)
      BY <1>1 DEF Bridge!PhoneCalls
    <3> HIDE DEF signal
    <3>3. program' = program /\ journal' = journal
      BY <1>1 DEF Bridge!PhoneCalls
    <3> QED
      BY <2>0, <3>1, <3>2, <3>3
  <2> QED
    BY <2>1, <2>2 DEF BridgeInv, BridgeTypes, Bridge!NothingIsForgotten, MadeByTheCall, Deleted
<1>2. ASSUME NEW kind \in {"phone", "media"}, Bridge!ChannelEnds(p, kind) PROVE BridgeInv'
  <2>0. asterisk \in Asterisk /\ events \in Seq(Signal)
    BY DEF BridgeInv, BridgeTypes
  <2>1. /\ asterisk' \in Asterisk /\ asterisk'.media \subseteq asterisk.media
        /\ asterisk'.bridge = asterisk.bridge
    BY <1>2 DEF Bridge!ChannelEnds, BridgeInv, BridgeTypes, Asterisk
  <2>2. events' \in Seq(Signal) /\ program' = program /\ journal' = journal
    <3> DEFINE signal == [type |-> "StasisEnd", phone |-> p]
    <3>1. signal \in Signal
      BY DEF Signal
    <3>2. events' = events \/ events' = Append(events, signal)
      BY <1>2 DEF Bridge!ChannelEnds
    <3> HIDE DEF signal
    <3>3. program' = program /\ journal' = journal
      BY <1>2 DEF Bridge!ChannelEnds
    <3> QED
      BY <2>0, <3>1, <3>2, <3>3
  <2> QED
    BY <2>1, <2>2 DEF BridgeInv, BridgeTypes, Bridge!NothingIsForgotten, MadeByTheCall, Deleted
<1> QED
  BY <1>1, <1>2

\* The program goes from one place to another; nothing is made or deleted.
LEMMA MovesKeepBridge ==
    ASSUME LabAssumption, BridgeInv, asterisk' = asterisk, journal' = journal,
           events' \in Seq(Signal),
           \/ program' = program
           \/ program' = Bridge!At("down") \/ program' = Bridge!At("recover")
           \/ program' = Bridge!At("idle") /\ Made = {}
           \/ \E p \in Phones, then \in {"down", "recover", "idle"} :
                 Bridge!CleansUp(p, then) /\ (then = "idle" => Made \subseteq {p})
    PROVE  BridgeInv'
<1>2. asterisk' \in Asterisk /\ Made' = Made
  BY DEF BridgeInv, BridgeTypes
<1>3. CASE program' = program
  BY <1>2, <1>3 DEF BridgeInv, BridgeTypes, Bridge!NothingIsForgotten, MadeByTheCall, Deleted
<1>4. CASE program' = Bridge!At("down") \/ program' = Bridge!At("recover")
  <2>1. program' \in Running /\ program'.at \in {"down", "recover"}
    <3>1. \A at \in {"down", "recover"} : Bridge!At(at) \in Running /\ Bridge!At(at).at = at
      BY DEF Running
    <3> QED
      BY <1>4, <3>1
  <2> QED
    BY <1>2, <2>1 DEF BridgeInv, BridgeTypes, Bridge!NothingIsForgotten, MadeByTheCall, Deleted
<1>5. CASE program' = Bridge!At("idle") /\ Made = {}
  <2>1. program' \in Running /\ program'.at = "idle"
    BY <1>5 DEF Running
  <2> QED
    BY <1>2, <1>5, <2>1
    DEF BridgeInv, BridgeTypes, Bridge!NothingIsForgotten, MadeByTheCall, Deleted
<1>6. ASSUME NEW p \in Phones, NEW then \in {"down", "recover", "idle"}, Bridge!CleansUp(p, then),
             then = "idle" => Made \subseteq {p}
      PROVE  BridgeInv'
  <2>1. /\ program' \in Running /\ program'.at = "cleanup" /\ program'.phone = p
        /\ program'.step = 1 /\ program'.then = then
    BY <1>6 DEF Bridge!CleansUp, Running
  <2> QED
    BY <1>2, <1>6, <2>1
    DEF BridgeInv, BridgeTypes, Bridge!NothingIsForgotten, MadeByTheCall, Deleted
<1> QED
  BY <1>3, <1>4, <1>5, <1>6

\* A request of a cleanup, or of the refusal of a second call.
LEMMA DeletesKeepBridge ==
    ASSUME LabAssumption, BridgeInv, Bridge!Delete PROVE BridgeInv'
<1> DEFINE kind == Bridge!Kinds[program.step]
<1>1. /\ program \in Running /\ program.at = "cleanup" /\ program.step \in 1 .. 3
      /\ asterisk \in Asterisk /\ program.phone \in Phones
      /\ journal' = journal /\ events' = events
  BY DEF BridgeInv, BridgeTypes, Bridge!Delete, Running
<1>2. /\ kind \in {"media", "phone", "bridge"}
      /\ program.step = 1 => kind = "media"
      /\ program.step = 3 => kind = "bridge"
  BY <1>1 DEF Bridge!Kinds
<1>3. PICK gone \in BOOLEAN :
         /\ program' = [program EXCEPT !.step = @ + 1, !.ok = @ /\ gone]
         /\ asterisk' = [asterisk EXCEPT ![kind] = @ \ {program.phone}]
            \/ (~ gone /\ asterisk' = asterisk)
  BY DEF Bridge!Delete, Bridge!Request
<1> HIDE DEF kind
<1>4. /\ asterisk' \in Asterisk /\ asterisk'.media \subseteq asterisk.media
      /\ asterisk'.bridge \subseteq asterisk.bridge
      /\ gone /\ kind = "media" => program.phone \notin asterisk'.media
      /\ gone /\ kind = "bridge" => program.phone \notin asterisk'.bridge
  BY <1>1, <1>2, <1>3 DEF Asterisk
<1>5. /\ program' \in Running /\ program'.at = "cleanup" /\ program'.phone = program.phone
      /\ program'.step = program.step + 1 /\ program'.then = program.then
      /\ program'.ok => program.ok /\ gone
  <2>1. ASSUME NEW ok \in BOOLEAN, program' = [program EXCEPT !.step = @ + 1, !.ok = ok]
        PROVE  /\ program' \in Running /\ program'.at = "cleanup" /\ program'.phone = program.phone
               /\ program'.step = program.step + 1 /\ program'.then = program.then
               /\ program'.ok = ok
    <3>1. program.step + 1 \in 0 .. 5 /\ program.ok \in BOOLEAN
      BY <1>1 DEF Running
    <3>2. CASE ok = TRUE
      BY <1>1, <2>1, <3>1, <3>2 DEF Running
    <3>3. CASE ok = FALSE
      BY <1>1, <2>1, <3>1, <3>3 DEF Running
    <3> QED
      BY <2>1, <3>2, <3>3
  <2>2. program.ok \in BOOLEAN
    BY <1>1 DEF Running
  <2> QED
    BY <1>3, <2>1, <2>2
<1>6. BridgeTypes'
  BY <1>1, <1>4, <1>5 DEF BridgeInv, BridgeTypes
<1>7. Bridge!NothingIsForgotten' /\ MadeByTheCall'
  BY <1>1, <1>4, <1>5 DEF BridgeInv, Bridge!NothingIsForgotten, MadeByTheCall
<1>8. Deleted'
  BY <1>1, <1>2, <1>4, <1>5 DEF BridgeInv, Deleted
<1> QED
  BY <1>6, <1>7, <1>8 DEF BridgeInv

\* The end of a cleanup: what it could not delete the journal still knows.
LEMMA MarksKeepBridge ==
    ASSUME LabAssumption, BridgeInv, Bridge!Mark PROVE BridgeInv'
<1> DEFINE p == program.phone
           state == IF journal[p] = Nobody THEN Nobody ELSE Bridge!CallState(program.ok)
<1>1. /\ program \in Running /\ program.at = "cleanup" /\ program.step = 4 /\ p \in Phones
      /\ asterisk' = asterisk /\ events' = events
      /\ journal \in [Phones -> {Nobody, "pending", "active", "closed", "unknown"}]
  BY DEF BridgeInv, BridgeTypes, Bridge!Mark
<1>2. /\ journal' = [journal EXCEPT ![p] = state]
      /\ program' = IF program.ok THEN Bridge!At(program.then) ELSE Bridge!AfterFailure(program.then)
  BY DEF Bridge!Mark
<1>3. /\ state \in {Nobody, "closed", "unknown"}
      /\ state \in {Nobody, "closed"} => journal[p] = Nobody \/ program.ok
  BY DEF Bridge!CallState, LabAssumption, Bridge!BridgeAssumption
<1> HIDE DEF state
<1>4. p \in Made => ~ program.ok /\ journal[p] # Nobody
  BY <1>1 DEF BridgeInv, Deleted, Bridge!NothingIsForgotten
<1>5. /\ journal' \in [Phones -> {Nobody, "pending", "active", "closed", "unknown"}]
      /\ \A q \in Phones : journal'[q] = IF q = p THEN state ELSE journal[q]
  BY <1>1, <1>2, <1>3
<1>6. Made' = Made /\ Made \subseteq Phones
  BY <1>1 DEF BridgeInv, BridgeTypes, Asterisk
<1>7. Bridge!NothingIsForgotten'
  BY <1>3, <1>4, <1>5, <1>6 DEF BridgeInv, Bridge!NothingIsForgotten
<1>8. CASE program.ok
  <2>1. /\ program' \in Running /\ program'.at = program.then
        /\ program'.at \in {"down", "recover", "idle"}
    BY <1>1, <1>2, <1>8 DEF Running
  <2>2. program.then = "idle" => Made = {}
    BY <1>1, <1>4, <1>8 DEF BridgeInv, MadeByTheCall
  <2> QED
    BY <1>1, <1>5, <1>6, <1>7, <2>1, <2>2 DEF BridgeInv, BridgeTypes, MadeByTheCall, Deleted
<1>9. CASE ~ program.ok
  <2>1. /\ program' \in Running /\ program'.at \in {"down", "cleanup"}
        /\ program'.at = "cleanup" =>
              program'.phone = p /\ program'.step = 1 /\ program'.then = "down"
    BY <1>1, <1>2, <1>9 DEF Running, Bridge!AfterFailure
  <2> QED
    BY <1>1, <1>5, <1>6, <1>7, <2>1 DEF BridgeInv, BridgeTypes, MadeByTheCall, Deleted
<1> QED
  BY <1>8, <1>9

\* A step of the set-up: what is made belongs to a call the journal knows.
LEMMA SetUpsKeepBridge ==
    ASSUME LabAssumption, BridgeInv, Bridge!SetsUp \/ Bridge!IsSetUp PROVE BridgeInv'
<1> DEFINE p == program.phone
<1>1. /\ program \in Running /\ program.at = "setup" /\ program.step \in 1 .. 5 /\ p \in Phones
      /\ asterisk \in Asterisk /\ events' = events
      /\ journal \in [Phones -> {Nobody, "pending", "active", "closed", "unknown"}]
  BY DEF BridgeInv, BridgeTypes, Bridge!SetsUp, Bridge!IsSetUp, Running
<1>2. journal[p] = "pending" /\ Made \subseteq {p}
  BY <1>1 DEF BridgeInv, MadeByTheCall
<1>3. CASE Bridge!SetsUp
  <2>1. \/ asterisk' = asterisk
        \/ asterisk' = [asterisk EXCEPT !.bridge = @ \cup {p}]
        \/ asterisk' = [asterisk EXCEPT !.media = @ \cup {p}]
    BY <1>1, <1>3 DEF Bridge!SetsUp, Bridge!Request, Bridge!Effect
  <2>2. /\ program.step <= 4 /\ journal' = journal
        /\ program' = [program EXCEPT !.step = @ + 1] \/ Bridge!CleansUp(p, "idle")
    BY <1>3 DEF Bridge!SetsUp
  <2>3. asterisk' \in Asterisk /\ Made' \subseteq {p}
    BY <1>1, <1>2, <2>1 DEF Asterisk
  <2>4. /\ program' \in Running /\ program'.at \in {"setup", "cleanup"} /\ program'.phone = p
        /\ program'.step >= 1
        /\ program'.at = "cleanup" => program'.step = 1
    <3>1. CASE program' = [program EXCEPT !.step = @ + 1]
      BY <1>1, <2>2, <3>1 DEF Running
    <3>2. CASE Bridge!CleansUp(p, "idle")
      BY <1>1, <3>2 DEF Running, Bridge!CleansUp
    <3> QED
      BY <2>2, <3>1, <3>2
  <2> QED
    BY <1>1, <1>2, <2>2, <2>3, <2>4
    DEF BridgeInv, BridgeTypes, Bridge!NothingIsForgotten, MadeByTheCall, Deleted,
        LabAssumption, Bridge!BridgeAssumption
<1>4. CASE Bridge!IsSetUp
  <2>1. /\ asterisk' = asterisk /\ journal' = [journal EXCEPT ![p] = "active"]
        /\ program' = Bridge!Program("serve", p, 0, TRUE, "idle")
    BY <1>4 DEF Bridge!IsSetUp
  <2>2. program' \in Running /\ program'.at = "serve" /\ program'.phone = p
    BY <1>1, <2>1 DEF Running
  <2>3. Made' \subseteq {p} /\ journal'[p] = "active"
    BY <1>1, <1>2, <2>1
  <2> QED
    BY <1>1, <1>2, <2>1, <2>2, <2>3
    DEF BridgeInv, BridgeTypes, Bridge!NothingIsForgotten, MadeByTheCall, Deleted,
        LabAssumption, Bridge!BridgeAssumption
<1> QED
  BY <1>3, <1>4

\* A call comes in; or a second one is refused.
LEMMA CallsKeepBridge ==
    ASSUME LabAssumption, BridgeInv, Bridge!TakesCall \/ Bridge!RefusesCall PROVE BridgeInv'
<1> DEFINE p == Head(events).phone
<1>1. /\ program \in Running /\ asterisk \in Asterisk
      /\ events \in Seq(Signal) /\ events # <<>> /\ events' = Tail(events)
      /\ journal \in [Phones -> {Nobody, "pending", "active", "closed", "unknown"}]
  BY DEF BridgeInv, BridgeTypes, Bridge!TakesCall, Bridge!RefusesCall, Bridge!Hears
<1>2. p \in Phones /\ events' \in Seq(Signal)
  <2>1. Head(events) \in Signal /\ Tail(events) \in Seq(Signal)
    BY <1>1
  <2> QED
    BY <1>1, <2>1 DEF Signal
<1> HIDE DEF p
<1>3. CASE Bridge!TakesCall
  <2>1. program.at = "idle" /\ asterisk' = asterisk /\ Made = {}
    BY <1>3 DEF Bridge!TakesCall, BridgeInv, MadeByTheCall
  <2>2. \/ Bridge!CleansUp(p, "idle") /\ journal' = journal
        \/ /\ journal' = [journal EXCEPT ![p] = "pending"]
           /\ program' = Bridge!Program("setup", p, 1, TRUE, "idle")
    BY <1>3 DEF Bridge!TakesCall, p
  <2>3. CASE Bridge!CleansUp(p, "idle") /\ journal' = journal
    BY <1>1, <1>2, <2>1, <2>3, MovesKeepBridge
  <2>4. CASE /\ journal' = [journal EXCEPT ![p] = "pending"]
             /\ program' = Bridge!Program("setup", p, 1, TRUE, "idle")
    <3>1. /\ program' \in Running /\ program'.at = "setup" /\ program'.phone = p
          /\ program'.step = 1
      BY <1>2, <2>4 DEF Running
    <3>2. Made' = {} /\ journal'[p] = "pending"
      BY <1>1, <1>2, <2>1, <2>4
    <3> QED
      BY <1>1, <1>2, <2>1, <2>4, <3>1, <3>2
      DEF BridgeInv, BridgeTypes, Bridge!NothingIsForgotten, MadeByTheCall, Deleted
  <2> QED
    BY <2>2, <2>3, <2>4
<1>4. CASE Bridge!RefusesCall
  <2>1. /\ program.at = "serve" /\ journal' = journal
        /\ asterisk' = [asterisk EXCEPT !.phone = @ \ {p}] \/ asterisk' = asterisk
        /\ program' = program \/ Bridge!CleansUp(program.phone, "down")
    BY <1>4 DEF Bridge!RefusesCall, Bridge!Request, p
  <2>2. asterisk' \in Asterisk /\ Made' = Made
    BY <1>1, <2>1 DEF Asterisk
  <2>3. program.phone \in Phones
    BY <2>1 DEF BridgeInv, BridgeTypes
  <2>4. CASE program' = program
    BY <1>2, <2>1, <2>2, <2>4
    DEF BridgeInv, BridgeTypes, Bridge!NothingIsForgotten, MadeByTheCall, Deleted
  <2>5. CASE Bridge!CleansUp(program.phone, "down")
    <3>1. /\ program' \in Running /\ program'.at = "cleanup" /\ program'.phone = program.phone
          /\ program'.step = 1 /\ program'.then = "down"
      BY <2>3, <2>5 DEF Running, Bridge!CleansUp
    <3> QED
      BY <1>2, <2>1, <2>2, <2>3, <3>1
      DEF BridgeInv, BridgeTypes, Bridge!NothingIsForgotten, MadeByTheCall, Deleted
  <2> QED
    BY <2>1, <2>4, <2>5
<1> QED
  BY <1>3, <1>4

LEMMA ProgramKeepsBridge ==
    ASSUME LabAssumption, BridgeInv,
           \/ Bridge!Start \/ Bridge!Recovers \/ Bridge!HearsEnd \/ Bridge!StopsServing
           \/ Bridge!StopsIdle \/ Bridge!Crash
    PROVE  BridgeInv'
<1>1. asterisk' = asterisk /\ journal' = journal
  BY DEF Bridge!Start, Bridge!Recovers, Bridge!HearsEnd, Bridge!StopsServing, Bridge!StopsIdle,
         Bridge!Crash
<1>2. events' \in Seq(Signal)
  <2>1. events \in Seq(Signal)
    BY DEF BridgeInv, BridgeTypes
  <2>2. events' \in {events, <<>>} \/ (events # <<>> /\ events' = Tail(events))
    BY DEF Bridge!Start, Bridge!Recovers, Bridge!HearsEnd, Bridge!StopsServing, Bridge!StopsIdle,
           Bridge!Crash, Bridge!Hears
  <2>3. <<>> \in Seq(Signal) /\ (events # <<>> => Tail(events) \in Seq(Signal))
    BY <2>1
  <2> QED
    BY <2>1, <2>2, <2>3
<1>3. CASE Bridge!Start \/ Bridge!StopsIdle \/ Bridge!Crash
  BY <1>1, <1>2, <1>3, MovesKeepBridge DEF Bridge!Start, Bridge!StopsIdle, Bridge!Crash
<1>4. CASE Bridge!Recovers
  <2>1. Bridge!Unfinished = {} => Made = {}
    BY DEF Bridge!Unfinished, BridgeInv, BridgeTypes, Asterisk, Bridge!NothingIsForgotten
  <2>2. \/ program' = Bridge!At("idle") /\ Made = {}
        \/ \E p \in Phones : Bridge!CleansUp(p, "recover")
    BY <1>4, <2>1 DEF Bridge!Recovers, Bridge!Unfinished
  <2> QED
    BY <1>1, <1>2, <2>2, MovesKeepBridge
<1>5. CASE Bridge!HearsEnd \/ Bridge!StopsServing
  <2>1. \/ program' = program
        \/ program.at = "serve" /\ \E then \in {"idle", "down"} : Bridge!CleansUp(program.phone, then)
    BY <1>5 DEF Bridge!HearsEnd, Bridge!StopsServing
  <2>2. program.at = "serve" => program.phone \in Phones /\ Made \subseteq {program.phone}
    BY DEF BridgeInv, BridgeTypes, MadeByTheCall
  <2> QED
    BY <1>1, <1>2, <2>1, <2>2, MovesKeepBridge
<1> QED
  BY <1>3, <1>4, <1>5

LEMMA BridgeNext ==
    ASSUME LabAssumption, BridgeInv, [Bridge!Next]_(Bridge!vars) PROVE BridgeInv'
<1>1. CASE UNCHANGED Bridge!vars
  BY <1>1, MovesKeepBridge DEF Bridge!vars, BridgeInv, BridgeTypes
<1>2. CASE Bridge!Next
  BY <1>2, PhonesKeepBridge, DeletesKeepBridge, MarksKeepBridge, SetUpsKeepBridge,
     CallsKeepBridge, ProgramKeepsBridge DEF Bridge!Next
<1> QED
  BY <1>1, <1>2

LEMMA BridgePart ==
    /\ LabInit => Bridge!Init
    /\ [LabNext]_<<talkVars, bridgeVars, half>> => [Bridge!Next]_(Bridge!vars)
BY DEF LabInit, LabNext, bridgeVars, Bridge!vars

\* Whatever a call has made in Asterisk is known to a journal that does not take it for
\* closed, and while a call is served nothing is left of another, however many calls come
\* in, whatever requests fail or lose their answer, and wherever the bridge is killed.
THEOREM CallsStayAccounted == LabSpec => []CallsAreAccounted
<1>1. LabInit => BridgeInv
  BY BridgePart, BridgeBegins, LabAssumption
<1>2. BridgeInv /\ [LabNext]_<<talkVars, bridgeVars, half>> => BridgeInv'
  BY BridgePart, BridgeNext, LabAssumption
<1>3. BridgeInv => CallsAreAccounted
  BY DEF BridgeInv, CallsAreAccounted, MadeByTheCall, Bridge!ServesAlone
<1> QED
  BY <1>1, <1>2, <1>3, PTL DEF LabSpec

HIDE DEF Made, Bridge!Program, Bridge!At

-----------------------------------------------------------------------------
(* The two ledgers *)

ReconcilingTheorems == INSTANCE PaymentLedgerProofs WITH
    Events <- MCEvents, Kind <- MCKind, Amount <- MCAmount, Original <- MCOriginal,
    CaseRef <- MCCaseRef, Booked <- MCBooked, Cases <- MCCases, Ruled <- MCCases,
    MandateStart <- 1, MandateEnd <- 3, TailEnd <- 4, RateBps <- 3500,
    Claims <- {}, ClaimAmounts <- {1}, Opening <- 1, LegacyMatch <- FALSE, MaxVersion <- 4

SettlingTheorems == INSTANCE PaymentLedgerProofs WITH
    Events <- TwoEvents, Kind <- TwoKind, Amount <- TwoAmount, Original <- TwoOriginal,
    CaseRef <- TwoCaseRef, Booked <- TwoBooked, Cases <- MCCases, Ruled <- MCCases,
    MandateStart <- 1, MandateEnd <- 3, TailEnd <- 0, RateBps <- 3000,
    ClaimAmounts <- {1}, Opening <- 1, LegacyMatch <- TRUE, MaxVersion <- 2

-----------------------------------------------------------------------------
(* PaymentLedgerProofs speaks of the modules MCLedger instantiates *)

LEMMA SameReconciling ==
    /\ Reconciling!Init <=> ReconcilingTheorems!Init
    /\ Reconciling!Next <=> ReconcilingTheorems!Next
    /\ Reconciling!LedgerAssumption <=> ReconcilingTheorems!LedgerAssumption
    /\ Reconciling!NoneIsNoRow <=> ReconcilingTheorems!NoneIsNoRow
    /\ Reconciling!HistoryAssumption <=> ReconcilingTheorems!HistoryAssumption
    /\ Reconciling!LedgerMatchesReceipts <=> ReconcilingTheorems!LedgerMatchesReceipts
    /\ Reconciling!ApprovesAsShown <=> ReconcilingTheorems!ApprovesAsShown
    /\ Reconciling!RefundsFollowPayment <=> ReconcilingTheorems!RefundsFollowPayment
    /\ Reconciling!RoundingBounded <=> ReconcilingTheorems!RoundingBounded
<1>1. \A p : Reconciling!Refunded(p) = ReconcilingTheorems!Refunded(p)
  BY DEF Reconciling!MapThenSumSet, ReconcilingTheorems!MapThenSumSet,
      Reconciling!MapThenFoldSet, ReconcilingTheorems!MapThenFoldSet, Reconciling!Refunded,
      ReconcilingTheorems!Refunded, Reconciling!RefundsOf, ReconcilingTheorems!RefundsOf,
      Reconciling!Posted, ReconcilingTheorems!Posted
<1>2. \A S : Reconciling!CommissionOf(S) = ReconcilingTheorems!CommissionOf(S)
  BY DEF Reconciling!MapThenSumSet, ReconcilingTheorems!MapThenSumSet,
      Reconciling!MapThenFoldSet, ReconcilingTheorems!MapThenFoldSet,
      Reconciling!CommissionOf, ReconcilingTheorems!CommissionOf
<1>3. Reconciling!Accrued = ReconcilingTheorems!Accrued
  BY <1>2 DEF Reconciling!Accrued, ReconcilingTheorems!Accrued, Reconciling!Posted,
      ReconcilingTheorems!Posted
<1>4. \A e, c : Reconciling!Postable(e, c) <=> ReconcilingTheorems!Postable(e, c)
  BY <1>1 DEF Reconciling!Postable, ReconcilingTheorems!Postable, Reconciling!OriginalPosted,
      ReconcilingTheorems!OriginalPosted
<1>5. \A e, c : Reconciling!Post(e, c) <=> ReconcilingTheorems!Post(e, c)
  BY DEF Reconciling!Post, ReconcilingTheorems!Post, Reconciling!EntryFor,
      ReconcilingTheorems!EntryFor, Reconciling!Eligible, ReconcilingTheorems!Eligible,
      Reconciling!Commission, ReconcilingTheorems!Commission
<1>6. \A e : Reconciling!Unlocked(e) <=> ReconcilingTheorems!Unlocked(e)
  BY DEF Reconciling!Unlocked, ReconcilingTheorems!Unlocked, Reconciling!LockedBy,
      ReconcilingTheorems!LockedBy, Reconciling!OriginalPosted,
      ReconcilingTheorems!OriginalPosted
<1>7. Reconciling!Init <=> ReconcilingTheorems!Init
  BY DEF Reconciling!Init, ReconcilingTheorems!Init, Reconciling!IdleHook,
      ReconcilingTheorems!IdleHook, Reconciling!IdleClaim, ReconcilingTheorems!IdleClaim
<1>8. Reconciling!Deliver <=> ReconcilingTheorems!Deliver
  BY <1>4, <1>5, <1>6 DEF Reconciling!Deliver, ReconcilingTheorems!Deliver,
      Reconciling!HookLooksUp, ReconcilingTheorems!HookLooksUp, Reconciling!IdleHook,
      ReconcilingTheorems!IdleHook, Reconciling!HookFlushes, ReconcilingTheorems!HookFlushes,
      Reconciling!LockedBy, ReconcilingTheorems!LockedBy, Reconciling!OriginalPosted,
      ReconcilingTheorems!OriginalPosted, Reconciling!HookCommits,
      ReconcilingTheorems!HookCommits, Reconciling!RefusedStatus,
      ReconcilingTheorems!RefusedStatus, Reconciling!HookDies, ReconcilingTheorems!HookDies
<1>9. \A a, e, c : Reconciling!Propose(a, e, c) <=> ReconcilingTheorems!Propose(a, e, c)
  BY <1>4, <1>5, <1>6 DEF Reconciling!Propose, ReconcilingTheorems!Propose,
      Reconciling!Reconcilable, ReconcilingTheorems!Reconcilable, Reconciling!Pending,
      ReconcilingTheorems!Pending, Reconciling!Approved, ReconcilingTheorems!Approved,
      Reconciling!NextVersion, ReconcilingTheorems!NextVersion
<1>10. \A a, e : Reconciling!Reject(a, e) <=> ReconcilingTheorems!Reject(a, e)
  BY <1>4, <1>5, <1>6 DEF Reconciling!Reject, ReconcilingTheorems!Reject,
      Reconciling!MayDecide, ReconcilingTheorems!MayDecide, Reconciling!Pending,
      ReconcilingTheorems!Pending, Reconciling!Decided, ReconcilingTheorems!Decided
<1>11. \A a, e : Reconciling!Approve(a, e) <=> ReconcilingTheorems!Approve(a, e)
  BY <1>4, <1>5, <1>6 DEF Reconciling!Approve, ReconcilingTheorems!Approve,
      Reconciling!MayDecide, ReconcilingTheorems!MayDecide, Reconciling!Pending,
      ReconcilingTheorems!Pending, Reconciling!Decided, ReconcilingTheorems!Decided,
      Reconciling!OriginalPosted, ReconcilingTheorems!OriginalPosted, Reconciling!LockedBy,
      ReconcilingTheorems!LockedBy
<1>12. \A e, c : Reconciling!MatchDirectly(e, c) <=> ReconcilingTheorems!MatchDirectly(e, c)
  BY <1>4, <1>5, <1>6 DEF Reconciling!MatchDirectly, ReconcilingTheorems!MatchDirectly,
      Reconciling!OriginalPosted, ReconcilingTheorems!OriginalPosted, Reconciling!LockedBy,
      ReconcilingTheorems!LockedBy
<1>13. Reconciling!Reconcile <=> ReconcilingTheorems!Reconcile
  BY <1>9, <1>10, <1>11, <1>12 DEF Reconciling!Reconcile, ReconcilingTheorems!Reconcile,
      Reconciling!OpenReview, ReconcilingTheorems!OpenReview, Reconciling!Pending,
      ReconcilingTheorems!Pending
<1>14. \A r : Reconciling!ClaimChecks(r) <=> ReconcilingTheorems!ClaimChecks(r)
  BY <1>3 DEF Reconciling!ClaimChecks, ReconcilingTheorems!ClaimChecks, Reconciling!Covered,
      ReconcilingTheorems!Covered, Reconciling!IdleClaim, ReconcilingTheorems!IdleClaim
<1>15. Reconciling!Settle <=> ReconcilingTheorems!Settle
  BY <1>14 DEF Reconciling!Settle, ReconcilingTheorems!Settle, Reconciling!ClaimLocks,
      ReconcilingTheorems!ClaimLocks, Reconciling!HistoryExists,
      ReconcilingTheorems!HistoryExists, Reconciling!Posted, ReconcilingTheorems!Posted,
      Reconciling!IdleClaim, ReconcilingTheorems!IdleClaim, Reconciling!ClaimCommits,
      ReconcilingTheorems!ClaimCommits, Reconciling!BookedClaim,
      ReconcilingTheorems!BookedClaim, Reconciling!ClaimDies, ReconcilingTheorems!ClaimDies
<1>16. /\ Reconciling!LedgerAssumption <=> ReconcilingTheorems!LedgerAssumption
       /\ Reconciling!NoneIsNoRow <=> ReconcilingTheorems!NoneIsNoRow
       /\ Reconciling!HistoryAssumption <=> ReconcilingTheorems!HistoryAssumption
  BY DEF Reconciling!LedgerAssumption, ReconcilingTheorems!LedgerAssumption,
      Reconciling!NoneIsNoRow, ReconcilingTheorems!NoneIsNoRow, Reconciling!HistoryAssumption,
      ReconcilingTheorems!HistoryAssumption, Reconciling!Entry, ReconcilingTheorems!Entry,
      Reconciling!Review, ReconcilingTheorems!Review, Reconciling!Screen,
      ReconcilingTheorems!Screen
<1>17. Reconciling!LedgerMatchesReceipts <=> ReconcilingTheorems!LedgerMatchesReceipts
  BY DEF Reconciling!LedgerMatchesReceipts, ReconcilingTheorems!LedgerMatchesReceipts
<1>18. Reconciling!ApprovesAsShown <=> ReconcilingTheorems!ApprovesAsShown
  BY DEF Reconciling!ApprovesAsShown, ReconcilingTheorems!ApprovesAsShown,
      Reconciling!Pending, ReconcilingTheorems!Pending
<1>19. Reconciling!RefundsFollowPayment <=> ReconcilingTheorems!RefundsFollowPayment
  BY <1>1, <1>2 DEF Reconciling!RefundsFollowPayment,
      ReconcilingTheorems!RefundsFollowPayment, Reconciling!Posted,
      ReconcilingTheorems!Posted, Reconciling!RefundsOf, ReconcilingTheorems!RefundsOf
<1>20. Reconciling!RoundingBounded <=> ReconcilingTheorems!RoundingBounded
  <2>1. /\ Reconciling!Posted = ReconcilingTheorems!Posted
        /\ \A p : Reconciling!RefundsOf(p) = ReconcilingTheorems!RefundsOf(p)
    BY DEF Reconciling!Posted, ReconcilingTheorems!Posted, Reconciling!RefundsOf,
           ReconcilingTheorems!RefundsOf
  <2>2. \A S : Reconciling!Cardinality(S) = ReconcilingTheorems!Cardinality(S)
    BY DEF Reconciling!Cardinality, ReconcilingTheorems!Cardinality
  <2> QED
    BY <1>1, <1>2, <2>1, <2>2
    DEF Reconciling!RoundingBounded, ReconcilingTheorems!RoundingBounded
<1>21. Reconciling!Next <=> ReconcilingTheorems!Next
  BY <1>8, <1>13, <1>15 DEF Reconciling!Next, ReconcilingTheorems!Next
<1> QED
  BY <1>7, <1>16, <1>17, <1>18, <1>19, <1>20, <1>21

LEMMA SameSettling ==
    /\ Settling!Init <=> SettlingTheorems!Init
    /\ Settling!Next <=> SettlingTheorems!Next
    /\ Settling!LedgerAssumption <=> SettlingTheorems!LedgerAssumption
    /\ Settling!NoneIsNoRow <=> SettlingTheorems!NoneIsNoRow
    /\ Settling!HistoryAssumption <=> SettlingTheorems!HistoryAssumption
    /\ Settling!KeepsEntries <=> SettlingTheorems!KeepsEntries
    /\ Settling!BalancesCovered <=> SettlingTheorems!BalancesCovered
<1>1. \A p : Settling!Refunded(p) = SettlingTheorems!Refunded(p)
  BY DEF Settling!MapThenSumSet, SettlingTheorems!MapThenSumSet, Settling!MapThenFoldSet,
      SettlingTheorems!MapThenFoldSet, Settling!Refunded, SettlingTheorems!Refunded,
      Settling!RefundsOf, SettlingTheorems!RefundsOf, Settling!Posted, SettlingTheorems!Posted
<1>2. \A S : Settling!CommissionOf(S) = SettlingTheorems!CommissionOf(S)
  BY DEF Settling!MapThenSumSet, SettlingTheorems!MapThenSumSet, Settling!MapThenFoldSet,
      SettlingTheorems!MapThenFoldSet, Settling!CommissionOf, SettlingTheorems!CommissionOf
<1>3. Settling!Accrued = SettlingTheorems!Accrued
  BY <1>2 DEF Settling!Accrued, SettlingTheorems!Accrued, Settling!Posted,
      SettlingTheorems!Posted
<1>4. \A e, c : Settling!Postable(e, c) <=> SettlingTheorems!Postable(e, c)
  BY <1>1 DEF Settling!Postable, SettlingTheorems!Postable, Settling!OriginalPosted,
      SettlingTheorems!OriginalPosted
<1>5. \A e, c : Settling!Post(e, c) <=> SettlingTheorems!Post(e, c)
  BY DEF Settling!Post, SettlingTheorems!Post, Settling!EntryFor, SettlingTheorems!EntryFor,
      Settling!Eligible, SettlingTheorems!Eligible, Settling!Commission,
      SettlingTheorems!Commission
<1>6. \A e : Settling!Unlocked(e) <=> SettlingTheorems!Unlocked(e)
  BY DEF Settling!Unlocked, SettlingTheorems!Unlocked, Settling!LockedBy,
      SettlingTheorems!LockedBy, Settling!OriginalPosted, SettlingTheorems!OriginalPosted
<1>7. Settling!Init <=> SettlingTheorems!Init
  BY DEF Settling!Init, SettlingTheorems!Init, Settling!IdleHook, SettlingTheorems!IdleHook,
      Settling!IdleClaim, SettlingTheorems!IdleClaim
<1>8. Settling!Deliver <=> SettlingTheorems!Deliver
  BY <1>4, <1>5, <1>6 DEF Settling!Deliver, SettlingTheorems!Deliver, Settling!HookLooksUp,
      SettlingTheorems!HookLooksUp, Settling!IdleHook, SettlingTheorems!IdleHook,
      Settling!HookFlushes, SettlingTheorems!HookFlushes, Settling!LockedBy,
      SettlingTheorems!LockedBy, Settling!OriginalPosted, SettlingTheorems!OriginalPosted,
      Settling!HookCommits, SettlingTheorems!HookCommits, Settling!RefusedStatus,
      SettlingTheorems!RefusedStatus, Settling!HookDies, SettlingTheorems!HookDies
<1>9. \A a, e, c : Settling!Propose(a, e, c) <=> SettlingTheorems!Propose(a, e, c)
  BY <1>4, <1>5, <1>6 DEF Settling!Propose, SettlingTheorems!Propose, Settling!Reconcilable,
      SettlingTheorems!Reconcilable, Settling!Pending, SettlingTheorems!Pending,
      Settling!Approved, SettlingTheorems!Approved, Settling!NextVersion,
      SettlingTheorems!NextVersion
<1>10. \A a, e : Settling!Reject(a, e) <=> SettlingTheorems!Reject(a, e)
  BY <1>4, <1>5, <1>6 DEF Settling!Reject, SettlingTheorems!Reject, Settling!MayDecide,
      SettlingTheorems!MayDecide, Settling!Pending, SettlingTheorems!Pending,
      Settling!Decided, SettlingTheorems!Decided
<1>11. \A a, e : Settling!Approve(a, e) <=> SettlingTheorems!Approve(a, e)
  BY <1>4, <1>5, <1>6 DEF Settling!Approve, SettlingTheorems!Approve, Settling!MayDecide,
      SettlingTheorems!MayDecide, Settling!Pending, SettlingTheorems!Pending,
      Settling!Decided, SettlingTheorems!Decided, Settling!OriginalPosted,
      SettlingTheorems!OriginalPosted, Settling!LockedBy, SettlingTheorems!LockedBy
<1>12. \A e, c : Settling!MatchDirectly(e, c) <=> SettlingTheorems!MatchDirectly(e, c)
  BY <1>4, <1>5, <1>6 DEF Settling!MatchDirectly, SettlingTheorems!MatchDirectly,
      Settling!OriginalPosted, SettlingTheorems!OriginalPosted, Settling!LockedBy,
      SettlingTheorems!LockedBy
<1>13. Settling!Reconcile <=> SettlingTheorems!Reconcile
  BY <1>9, <1>10, <1>11, <1>12 DEF Settling!Reconcile, SettlingTheorems!Reconcile,
      Settling!OpenReview, SettlingTheorems!OpenReview, Settling!Pending,
      SettlingTheorems!Pending
<1>14. \A r : Settling!ClaimChecks(r) <=> SettlingTheorems!ClaimChecks(r)
  BY <1>3 DEF Settling!ClaimChecks, SettlingTheorems!ClaimChecks, Settling!Covered,
      SettlingTheorems!Covered, Settling!IdleClaim, SettlingTheorems!IdleClaim
<1>15. Settling!Settle <=> SettlingTheorems!Settle
  BY <1>14 DEF Settling!Settle, SettlingTheorems!Settle, Settling!ClaimLocks,
      SettlingTheorems!ClaimLocks, Settling!HistoryExists, SettlingTheorems!HistoryExists,
      Settling!Posted, SettlingTheorems!Posted, Settling!IdleClaim,
      SettlingTheorems!IdleClaim, Settling!ClaimCommits, SettlingTheorems!ClaimCommits,
      Settling!BookedClaim, SettlingTheorems!BookedClaim, Settling!ClaimDies,
      SettlingTheorems!ClaimDies
<1>16. /\ Settling!LedgerAssumption <=> SettlingTheorems!LedgerAssumption
       /\ Settling!NoneIsNoRow <=> SettlingTheorems!NoneIsNoRow
       /\ Settling!HistoryAssumption <=> SettlingTheorems!HistoryAssumption
  BY DEF Settling!LedgerAssumption, SettlingTheorems!LedgerAssumption, Settling!NoneIsNoRow,
      SettlingTheorems!NoneIsNoRow, Settling!HistoryAssumption,
      SettlingTheorems!HistoryAssumption, Settling!Entry, SettlingTheorems!Entry,
      Settling!Review, SettlingTheorems!Review, Settling!Screen, SettlingTheorems!Screen
<1>17. Settling!KeepsEntries <=> SettlingTheorems!KeepsEntries
  BY DEF Settling!KeepsEntries, SettlingTheorems!KeepsEntries, Settling!Posted,
      SettlingTheorems!Posted
<1>18. Settling!BalancesCovered <=> SettlingTheorems!BalancesCovered
  BY <1>1, <1>2 DEF Settling!BalancesCovered, SettlingTheorems!BalancesCovered,
      Settling!GrossAccrued, SettlingTheorems!GrossAccrued, Settling!Posted,
      SettlingTheorems!Posted
<1>19. Settling!Next <=> SettlingTheorems!Next
  BY <1>8, <1>13, <1>15 DEF Settling!Next, SettlingTheorems!Next
<1> QED
  BY <1>7, <1>16, <1>17, <1>18, <1>19

-----------------------------------------------------------------------------
(* Each part from its beginning *)

\* While one ledger runs, the other is not there.
LEMMA Parts ==
    LedgerSpec => \/ [](part = "reconciling") /\ ReconcilingTheorems!Spec
                  \/ [](part = "settling") /\ SettlingTheorems!Spec
<1>1. LedgerInit => \/ part = "reconciling" /\ ReconcilingTheorems!Init
                    \/ part = "settling" /\ SettlingTheorems!Init
  BY SameReconciling, SameSettling DEF LedgerInit
<1>2. part = "reconciling" /\ [LedgerNext]_<<ledgerVars, part>>
        => (part = "reconciling")' /\ [ReconcilingTheorems!Next]_(ReconcilingTheorems!vars)
  BY SameReconciling DEF LedgerNext, ledgerVars, ReconcilingTheorems!vars
<1>3. part = "settling" /\ [LedgerNext]_<<ledgerVars, part>>
        => (part = "settling")' /\ [SettlingTheorems!Next]_(SettlingTheorems!vars)
  BY SameSettling DEF LedgerNext, ledgerVars, SettlingTheorems!vars
<1> QED
  BY <1>1, <1>2, <1>3, PTL DEF LedgerSpec, ReconcilingTheorems!Spec, SettlingTheorems!Spec

\* A receipt is matched exactly if its entry is booked, on the same case, and a review is
\* approved exactly if it is, whatever the ids of events, cases, people and requests.
THEOREM MatchedIsBooked == LedgerSpec => []LedgerMatchesReceipts
<1>1. ReconcilingTheorems!Spec => []ReconcilingTheorems!LedgerMatchesReceipts
  BY InstancesAssumption, SameReconciling, ReconcilingTheorems!MoneyHasEvidence, PTL
<1>2. /\ ReconcilingTheorems!LedgerMatchesReceipts => LedgerMatchesReceipts
      /\ part = "settling" => LedgerMatchesReceipts
  BY SameReconciling DEF LedgerMatchesReceipts
<1> QED
  BY <1>1, <1>2, Parts, PTL

\* What a checker approves was proposed by somebody else and is booked on the case the
\* checker was shown.
THEOREM ShownIsBooked == LedgerSpec => ApprovedAsShown
<1>1. ReconcilingTheorems!Spec => [][ReconcilingTheorems!ApprovesAsShown]_(ReconcilingTheorems!vars)
  BY InstancesAssumption, SameReconciling, ReconcilingTheorems!ApprovedWasShown, PTL
<1>2. [ReconcilingTheorems!ApprovesAsShown]_(ReconcilingTheorems!vars)
        => [part = "reconciling" => Reconciling!ApprovesAsShown]_ledgerVars
  BY SameReconciling DEF ledgerVars, ReconcilingTheorems!vars
<1>3. part = "settling" => [part = "reconciling" => Reconciling!ApprovesAsShown]_ledgerVars
  OBVIOUS
<1> QED
  BY <1>1, <1>2, <1>3, Parts, PTL DEF ApprovedAsShown

\* Entries are neither changed nor removed, where commission is settled and receipts are
\* matched in one step as well.
THEOREM BookedStaysBooked == LedgerSpec => EntriesAreImmutable
<1>1. SettlingTheorems!Spec => [][SettlingTheorems!KeepsEntries]_(SettlingTheorems!vars)
  BY InstancesAssumption, SameSettling, SettlingTheorems!EntriesAreForever, PTL
<1>2. [SettlingTheorems!KeepsEntries]_(SettlingTheorems!vars)
        => [part = "settling" => Settling!KeepsEntries]_ledgerVars
  BY SameSettling DEF ledgerVars, SettlingTheorems!vars
<1>3. part = "reconciling" => [part = "settling" => Settling!KeepsEntries]_ledgerVars
  OBVIOUS
<1> QED
  BY <1>1, <1>2, <1>3, Parts, PTL DEF EntriesAreImmutable

\* However deliveries and reviews interleave, refunds never exceed the payment they take back,
\* and rounding moves its commission by half a cent for each entry at most.
THEOREM RefundsStayWithin == LedgerSpec => []RefundsFollowPayment
<1>1. ReconcilingTheorems!Spec => []ReconcilingTheorems!RefundsFollowPayment
  BY InstancesAssumption, SameReconciling, ReconcilingTheorems!RefundsNeverExceed, PTL
<1>2. ReconcilingTheorems!Spec => []ReconcilingTheorems!RoundingBounded
  BY InstancesAssumption, SameReconciling, ReconcilingTheorems!RoundingStaysBounded, PTL
<1>3. /\ ReconcilingTheorems!RefundsFollowPayment /\ ReconcilingTheorems!RoundingBounded
            => RefundsFollowPayment
      /\ part = "settling" => RefundsFollowPayment
  BY SameReconciling DEF RefundsFollowPayment
<1> QED
  BY <1>1, <1>2, <1>3, Parts, PTL

\* However requests for commission interleave with receipts and with each other, no more is
\* collected than settled, nor settled than was accrued before refunds.
THEOREM SpentOnce == LedgerSpec => []BalancesCovered
<1>1. SettlingTheorems!Spec => []SettlingTheorems!BalancesCovered
  BY InstancesAssumption, SameSettling, SettlingTheorems!NoBalanceIsSpentTwice, PTL
<1>2. /\ SettlingTheorems!BalancesCovered => BalancesCovered
      /\ part = "reconciling" => BalancesCovered
  BY SameSettling DEF BalancesCovered
<1> QED
  BY <1>1, <1>2, Parts, PTL
=============================================================================
