--------------------------- MODULE PlatformProofs ---------------------------
(***************************************************************************)
(* Proofs about the parts of the platform that MCSettling and MCServices   *)
(* put together, each for every value of its constants and with an         *)
(* inductive invariant of its own; that the other parts leave its          *)
(* variables alone makes its theorems theorems of the whole.               *)
(*                                                                         *)
(*   The queue (JobQueue): any jobs, workers and requests, any budget of   *)
(*   attempts and length of a lease.  The inductive invariant is Inv.      *)
(*   Beyond the three invariants to prove it says what a pending write was *)
(*   decided on (SnapshotsAreOld): that is what makes an unlocked update   *)
(*   by primary key either write the status or leave the lease alone.      *)
(*                                                                         *)
(*   The contact attempts of a case (ContactAttempts): ContactsInv.        *)
(*   The gate before the services of a tenant (ServiceGate): GateInv.      *)
(*   The envelopes of credentials (SecretRotation): SecretsInv.            *)
(*   The replays of a day (ModelReplays): ReplaysInv.                      *)
(*   The turns of an agent session (AgentTurns): TurnsInv.                 *)
(***************************************************************************)
EXTENDS MCSettling, MCServices, FiniteSums

\* A terminal write was decided on a running row, a cancel on a row that was
\* queued or running, a retry on a failed one.
SnapshotsAreOld ==
    /\ \A w \in Workers : workers[w].pc \in {"write_ok", "write_err"} =>
         workers[w].seen.status = "running"
    /\ \A r \in Requests : api[r].pc = "cancel" =>
         api[r].seen.status \in {"queued", "running"}
    /\ \A r \in Requests : api[r].pc = "retry" =>
         api[r].seen.status = "failed"

\* A worker inside a job that still carries its name holds the row's attempt.
OwnersAreCurrent ==
    \A w \in Workers :
        workers[w].pc \in Executing /\ jobs[workers[w].job].owner = w =>
          workers[w].attempt = jobs[workers[w].job].attempt

Inv == TypeOK /\ SnapshotsAreOld /\ RunningIsLeased /\ OwnersAreCurrent /\ AttemptsAreExclusive

-----------------------------------------------------------------------------
(* Lemmas about the row operators *)

\* An update by primary key yields a row, each of whose columns comes from
\* the new value or from the committed one.
LEMMA FlushedRow ==
    ASSUME NEW c \in Row, NEW s \in Row, NEW n \in Row
    PROVE  /\ Flush(c, s, n) \in Row
           /\ Flush(c, s, n).status = IF n.status # s.status THEN n.status ELSE c.status
           /\ Flush(c, s, n).attempt = IF n.attempt # s.attempt THEN n.attempt ELSE c.attempt
           /\ Flush(c, s, n).owner = IF n.owner # s.owner THEN n.owner ELSE c.owner
           /\ Flush(c, s, n).lease = IF n.lease # s.lease THEN n.lease ELSE c.lease
BY DEF Flush, Row

LEMMA FinishedRow ==
    ASSUME NEW row \in Row, NEW st \in Terminal
    PROVE  /\ Finished(row, st) \in Row
           /\ Finished(row, st).status \in Terminal
           /\ Finished(row, st).attempt = row.attempt
           /\ Finished(row, st).owner = None
           /\ Finished(row, st).lease = None
BY DEF Finished, Released, Row, Statuses, Terminal

LEMMA RecoveredRow ==
    ASSUME NEW row \in Row
    PROVE  /\ Recovered(row) \in Row
           /\ Recovered(row).status \in {"cancelled", "queued", "failed"}
           /\ Recovered(row).attempt = row.attempt
           /\ Recovered(row).owner = None
BY DEF Recovered, Released, Row, Statuses, Terminal

-----------------------------------------------------------------------------
(* The inductive invariant *)

LEMMA InitInv == Init => Inv
<1> SUFFICES ASSUME Init PROVE Inv
  OBVIOUS
<1>1. TypeOK
  BY JobQueueAssumption
  DEF Init, TypeOK, AbsentRow, IdleWorker, IdleRequest, Row, Worker, Request, Statuses,
      WorkerPC, Executing, Attempts, RunStatus
<1>2. SnapshotsAreOld /\ RunningIsLeased /\ OwnersAreCurrent /\ AttemptsAreExclusive
  BY DEF Init, SnapshotsAreOld, RunningIsLeased, OwnersAreCurrent, AttemptsAreExclusive,
         AbsentRow, IdleWorker, IdleRequest, Executing
<1> QED
  BY <1>1, <1>2 DEF Inv

\* What a step may do to the rows without endangering the invariant: change
\* one row, keeping its attempt, keeping or clearing its owner, and leaving it
\* leased if it is running.
Harmless(j, row) ==
    /\ row \in Row
    /\ row.attempt = jobs[j].attempt
    /\ row.owner \in {jobs[j].owner, None}
    /\ row.status = "running" => row.owner # None /\ row.lease # None

LEMMA HarmlessRow ==
    ASSUME Inv, NEW j \in Jobs, NEW row, Harmless(j, row), SetRow(j, row)
    PROVE  /\ jobs' \in [Jobs -> Row]
           /\ RunningIsLeased'
           /\ \A i \in Jobs : /\ jobs'[i].attempt = jobs[i].attempt
                             /\ jobs'[i].owner \in {jobs[i].owner, None}
BY DEF Inv, TypeOK, RunningIsLeased, Harmless, SetRow

LEMMA ClockInv ==
    ASSUME Inv, NEW j \in Jobs, Enqueue(j) \/ BecomeDue(j) \/ Tick(j)
    PROVE  Inv'
<1>0. jobs[j] \in Row /\ UNCHANGED <<runs, workers, api, crashes>>
  BY DEF Inv, TypeOK, Enqueue, BecomeDue, Tick
<1>1. jobs[j].status = "running" => jobs[j].owner # None /\ jobs[j].lease # None
  BY DEF Inv, RunningIsLeased
<1>2. PICK row : SetRow(j, row) /\ Harmless(j, row)
  <2>1. CASE Enqueue(j)
    <3>1. PICK due \in BOOLEAN : SetRow(j, [jobs[j] EXCEPT !.status = "queued", !.due = due])
      BY <2>1 DEF Enqueue
    <3>2. Harmless(j, [jobs[j] EXCEPT !.status = "queued", !.due = due])
      BY <1>0 DEF Harmless, Row, Statuses
    <3> QED
      BY <3>1, <3>2
  <2>2. CASE BecomeDue(j)
    <3>1. Harmless(j, [jobs[j] EXCEPT !.due = TRUE])
      BY <1>0, <1>1 DEF Harmless, Row
    <3> QED
      BY <2>2, <3>1 DEF BecomeDue
  <2>3. CASE Tick(j)
    <3>1. Harmless(j, [jobs[j] EXCEPT !.lease = @ - 1])
      BY <1>0, <1>1, <2>3, JobQueueAssumption DEF Harmless, Row, Tick
    <3> QED
      BY <2>3, <3>1 DEF Tick
  <2> QED
    BY <2>1, <2>2, <2>3
<1>3. /\ jobs' \in [Jobs -> Row] /\ RunningIsLeased'
      /\ \A i \in Jobs : /\ jobs'[i].attempt = jobs[i].attempt
                        /\ jobs'[i].owner \in {jobs[i].owner, None}
  BY <1>2, HarmlessRow
<1> QED
  BY <1>0, <1>3, JobQueueAssumption
  DEF Inv, TypeOK, SnapshotsAreOld, OwnersAreCurrent, AttemptsAreExclusive

\* recover_stale_jobs rewrites many rows at once, each of them to one that is
\* not running.
LEMMA RecoverInv ==
    ASSUME Inv, NEW w \in Workers, Recover(w)
    PROVE  Inv'
<1>1. jobs' \in [Jobs -> Row]
  BY RecoveredRow DEF Inv, TypeOK, Recover
<1>2. \A i \in Jobs : /\ jobs'[i].attempt = jobs[i].attempt
                    /\ jobs'[i].owner \in {jobs[i].owner, None}
  BY RecoveredRow DEF Inv, TypeOK, Recover
<1>3. RunningIsLeased'
  BY RecoveredRow DEF Inv, TypeOK, Recover, RunningIsLeased
<1>4. runs' \in [Jobs -> [Attempts -> RunStatus]]
  BY DEF Inv, TypeOK, Recover, FailRunning, RunStatus
<1>5. /\ workers' = [workers EXCEPT ![w].pc = "claim"]
      /\ UNCHANGED <<api, crashes>>
  BY DEF Recover, Step
<1>6. /\ workers' \in [Workers -> Worker]
      /\ \A v \in Workers : workers'[v].pc \in Executing =>
           workers'[v] = workers[v] /\ workers[v].pc \in Executing
  <2>1. workers[w] \in Worker /\ [workers[w] EXCEPT !.pc = "claim"] \in Worker
    BY DEF Inv, TypeOK, Worker, WorkerPC
  <2>2. [workers[w] EXCEPT !.pc = "claim"].pc = "claim"
    BY <2>1 DEF Worker
  <2> QED
    BY <1>5, <2>1, <2>2 DEF Inv, TypeOK, Executing
<1>7. TypeOK'
  BY <1>1, <1>4, <1>5, <1>6 DEF Inv, TypeOK, Executing
<1>8. SnapshotsAreOld'
  BY <1>5, <1>6 DEF Inv, SnapshotsAreOld, Executing
<1>9. OwnersAreCurrent' /\ AttemptsAreExclusive'
  BY <1>2, <1>6, JobQueueAssumption DEF Inv, TypeOK, OwnersAreCurrent, AttemptsAreExclusive
<1> QED
  BY <1>3, <1>7, <1>8, <1>9 DEF Inv

\* The claim alone raises the attempt, above every attempt being executed.
LEMMA ClaimInv ==
    ASSUME Inv, NEW w \in Workers, NEW j \in Jobs, Claim(w, j)
    PROVE  Inv'
<1> DEFINE row == [jobs[j] EXCEPT !.status = "running", !.attempt = @ + 1, !.owner = w,
                                  !.lease = LeaseTicks, !.cancelReq = FALSE]
           rec == [pc |-> "begin", job |-> j, attempt |-> jobs[j].attempt + 1, seen |-> None]
<1>1. /\ jobs \in [Jobs -> Row] /\ jobs[j] \in Row
      /\ jobs[j].attempt \in 0 .. MaxAttempts
      /\ workers \in [Workers -> Worker]
  BY DEF Inv, TypeOK, Row
<1>2. /\ jobs' = [jobs EXCEPT ![j] = row]
      /\ workers' = [workers EXCEPT ![w] = rec]
      /\ UNCHANGED <<runs, api, crashes>>
      /\ jobs[j].attempt < MaxAttempts
  BY DEF Claim, SetRow, Claimable
<1>3. /\ row \in Row /\ row.attempt = jobs[j].attempt + 1 /\ row.owner = w
      /\ row.lease # None
  <2>1. /\ jobs[j].attempt + 1 \in 0 .. MaxAttempts
        /\ LeaseTicks \in 0 .. LeaseTicks /\ LeaseTicks # None
        /\ "running" \in Statuses
    BY <1>1, <1>2, JobQueueAssumption DEF Statuses
  <2> QED
    BY <1>1, <2>1 DEF Row
<1>4. rec \in Worker /\ rec.attempt \in Attempts
  BY <1>1, <1>2, JobQueueAssumption DEF Worker, WorkerPC, Executing, Attempts
<1> HIDE DEF row, rec
<1>5. TypeOK'
  BY <1>1, <1>2, <1>3, <1>4 DEF Inv, TypeOK, rec
<1>6. SnapshotsAreOld' /\ RunningIsLeased'
  BY <1>1, <1>2, <1>3, JobQueueAssumption
  DEF Inv, SnapshotsAreOld, RunningIsLeased, rec
<1>7. rec.pc \in Executing /\ rec.job = j /\ rec.attempt = row.attempt
  BY <1>3 DEF rec, Executing
<1>8. OwnersAreCurrent'
  BY <1>1, <1>2, <1>3, <1>7 DEF Inv, OwnersAreCurrent, TypeOK
<1>9. AttemptsAreExclusive'
  <2>1. \A v \in Workers : workers[v].pc \in Executing =>
          /\ workers[v].attempt \in Nat
          /\ jobs[workers[v].job].attempt \in Nat
          /\ workers[v].attempt <= jobs[workers[v].job].attempt
    BY JobQueueAssumption DEF Inv, TypeOK, AttemptsAreExclusive, Attempts, Row
  <2>2. \A v \in Workers : workers'[v].pc \in Executing =>
          workers'[v].attempt <= jobs'[workers'[v].job].attempt
    BY <1>1, <1>2, <1>3, <1>7, <2>1 DEF Inv, TypeOK
  <2>3. ASSUME NEW v \in Workers, v # w, workers[v].pc \in Executing, workers[v].job = j
        PROVE  workers[v].attempt # rec.attempt
    BY <1>1, <1>3, <1>7, <2>1, <2>3
  <2> QED
    BY <1>1, <1>2, <1>7, <2>2, <2>3 DEF Inv, AttemptsAreExclusive
<1> QED
  BY <1>5, <1>6, <1>8, <1>9 DEF Inv

\* Steps of one worker that touch no row: it moves on inside the job with the
\* attempt it has, or leaves the job.
LEMMA WorkerStepInv ==
    ASSUME Inv, NEW w \in Workers, NEW rec \in Worker,
           workers' = [workers EXCEPT ![w] = rec],
           UNCHANGED <<jobs, api>>,
           runs' \in [Jobs -> [Attempts -> RunStatus]],
           crashes' \in 0 .. MaxCrashes,
           rec.pc \in Executing =>
             /\ workers[w].pc \in Executing
             /\ rec.job = workers[w].job
             /\ rec.attempt = workers[w].attempt,
           rec.pc \in {"write_ok", "write_err"} =>
             rec.seen \in Row /\ rec.seen.status = "running"
    PROVE  Inv'
<1>1. workers \in [Workers -> Worker]
  BY DEF Inv, TypeOK
<1>2. TypeOK'
  BY <1>1 DEF Inv, TypeOK
<1>3. SnapshotsAreOld' /\ RunningIsLeased' /\ OwnersAreCurrent'
  BY <1>1 DEF Inv, SnapshotsAreOld, RunningIsLeased, OwnersAreCurrent
<1>4. AttemptsAreExclusive'
  BY <1>1 DEF Inv, AttemptsAreExclusive
<1> QED
  BY <1>2, <1>3, <1>4 DEF Inv

LEMMA WorkerMovesInv ==
    ASSUME Inv, NEW w \in Workers,
           \/ ClaimNothing(w) \/ Begin(w) \/ CommitRun(w) \/ HandlerReturns(w)
           \/ HandlerRaises(w) \/ CheckFence(w) \/ Crash(w) \/ Restart(w)
    PROVE  Inv'
<1> DEFINE me == workers[w]
           to(pc) == [me EXCEPT !.pc = pc]
<1>1. /\ me \in Worker /\ IdleWorker \in Worker
      /\ [IdleWorker EXCEPT !.pc = "down"] \in Worker
      /\ IdleWorker.pc = "poll" /\ [IdleWorker EXCEPT !.pc = "down"].pc = "down"
  BY JobQueueAssumption DEF Inv, TypeOK, IdleWorker, Worker, WorkerPC
<1>2. \A pc \in WorkerPC : /\ to(pc) \in Worker /\ to(pc).pc = pc
                         /\ to(pc).job = me.job /\ to(pc).attempt = me.attempt
  BY <1>1 DEF Worker
<1>3. /\ runs \in [Jobs -> [Attempts -> RunStatus]] /\ crashes \in 0 .. MaxCrashes
      /\ crashes \in Nat /\ jobs \in [Jobs -> Row]
  BY JobQueueAssumption DEF Inv, TypeOK
<1>4. me.pc \in Executing => me.job \in Jobs /\ me.attempt \in Attempts
  BY DEF Inv, TypeOK
<1>5. CASE ClaimNothing(w) \/ Restart(w)
  BY <1>1, <1>3, <1>5, WorkerStepInv
  DEF ClaimNothing, Restart, BackToPoll, Executing
<1>6. CASE Begin(w)
  <2>1. UNCHANGED <<jobs, runs, api, crashes>> /\ me.pc = "begin"
    BY <1>6 DEF Begin
  <2>2. CASE ~Owns(w, jobs[me.job])
    BY <1>1, <1>3, <1>6, <2>1, <2>2, WorkerStepInv DEF Begin, BackToPoll, Executing
  <2>3. CASE Owns(w, jobs[me.job])
    <3>1. jobs[me.job].attempt = me.attempt
      BY <2>1, <2>3 DEF Owns, Inv, OwnersAreCurrent, Executing
    <3>2. workers' = [workers EXCEPT ![w] = [me EXCEPT !.pc = "handler",
                                                       !.attempt = jobs[me.job].attempt]]
      BY <1>6, <2>3 DEF Begin
    <3>3. [me EXCEPT !.pc = "handler", !.attempt = jobs[me.job].attempt] = to("handler")
      BY <1>1, <3>1 DEF Worker
    <3> QED
      BY <1>2, <1>3, <2>1, <3>2, <3>3, WorkerStepInv DEF WorkerPC, Executing
  <2> QED
    BY <2>2, <2>3
<1>7. CASE CommitRun(w)
  <2>1. runs' \in [Jobs -> [Attempts -> RunStatus]]
    BY <1>3, <1>4, <1>7 DEF CommitRun, RunStatus, Executing
  <2> QED
    BY <1>2, <1>3, <1>7, <2>1, WorkerStepInv DEF CommitRun, Step, WorkerPC, Executing
<1>8. CASE HandlerReturns(w) \/ HandlerRaises(w)
  BY <1>2, <1>3, <1>8, WorkerStepInv
  DEF HandlerReturns, HandlerRaises, Step, WorkerPC, Executing
<1>9. CASE CheckFence(w)
  <2>1. UNCHANGED <<jobs, runs, api, crashes>> /\ me.pc \in {"ok", "err"}
    BY <1>9 DEF CheckFence
  <2>2. CASE ~Fenced(w, jobs[me.job])
    BY <1>1, <1>3, <1>9, <2>1, <2>2, WorkerStepInv DEF CheckFence, BackToPoll, Executing
  <2>3. CASE Fenced(w, jobs[me.job])
    <3>1. PICK pc \in {"write_ok", "write_err"} :
            workers' = [workers EXCEPT ![w] = [me EXCEPT !.pc = pc, !.seen = jobs[me.job]]]
      BY <1>9, <2>1, <2>3 DEF CheckFence
    <3>2. jobs[me.job] \in Row /\ jobs[me.job].status = "running"
      BY <1>3, <1>4, <2>1, <2>3 DEF Fenced, Owns, Executing
    <3> DEFINE rec == [me EXCEPT !.pc = pc, !.seen = jobs[me.job]]
    <3>3. /\ rec \in Worker /\ rec.pc = pc /\ rec.job = me.job /\ rec.attempt = me.attempt
          /\ rec.seen = jobs[me.job]
      BY <1>1, <3>1, <3>2 DEF Worker, WorkerPC, Executing
    <3> HIDE DEF rec
    <3>4. workers' = [workers EXCEPT ![w] = rec]
      BY <3>1 DEF rec
    <3> QED
      BY <1>3, <2>1, <3>2, <3>3, <3>4, WorkerStepInv DEF Executing
  <2> QED
    BY <2>2, <2>3
<1>10. CASE Crash(w)
  <2>1. crashes' \in 0 .. MaxCrashes
    BY <1>3, <1>10, JobQueueAssumption DEF Crash
  <2> QED
    BY <1>1, <1>3, <1>10, <2>1, WorkerStepInv DEF Crash, Executing
<1> QED
  BY <1>5, <1>6, <1>7, <1>8, <1>9, <1>10

\* A renewed lease is as harmless as a tick.
LEMMA HeartbeatInv ==
    ASSUME Inv, NEW w \in Workers, Heartbeat(w)
    PROVE  Inv'
<1> DEFINE j == workers[w].job
           row == [jobs[j] EXCEPT !.lease = LeaseTicks]
<1>1. /\ SetRow(j, row) /\ UNCHANGED <<runs, workers, api, crashes>>
      /\ j \in Jobs /\ jobs[j] \in Row /\ jobs[j].owner = w
  BY DEF Inv, TypeOK, Heartbeat
<1>2. Harmless(j, row)
  BY <1>1, JobQueueAssumption DEF Harmless, Row
<1>3. /\ jobs' \in [Jobs -> Row] /\ RunningIsLeased'
      /\ \A i \in Jobs : /\ jobs'[i].attempt = jobs[i].attempt
                        /\ jobs'[i].owner \in {jobs[i].owner, None}
  BY <1>1, <1>2, HarmlessRow
<1> QED
  BY <1>1, <1>3, JobQueueAssumption
  DEF Inv, TypeOK, SnapshotsAreOld, OwnersAreCurrent, AttemptsAreExclusive

\* The terminal write, stale or not, makes its row terminal.
LEMMA FinishHarmless ==
    ASSUME Inv, NEW w \in Workers, workers[w].pc \in {"write_ok", "write_err"},
           NEW st \in Terminal, FinishJob(w, st)
    PROVE  \E row : /\ SetRow(workers[w].job, row) /\ Harmless(workers[w].job, row)
                    /\ row.status \in Terminal
<1> DEFINE j == workers[w].job
           seen == workers[w].seen
           new == Finished(seen, st)
           row == Flush(jobs[j], seen, new)
<1>1. /\ j \in Jobs /\ jobs[j] \in Row /\ seen \in Row /\ seen.status = "running"
  BY DEF Inv, TypeOK, SnapshotsAreOld, Executing
<1>2. /\ new \in Row /\ new.status \in Terminal /\ new.attempt = seen.attempt
      /\ new.owner = None
  BY <1>1, FinishedRow
<1> HIDE DEF new
<1>3. /\ row \in Row /\ row.status = new.status /\ row.attempt = jobs[j].attempt
      /\ row.owner \in {jobs[j].owner, None}
  BY <1>1, <1>2, FlushedRow DEF Terminal
<1>4. SetRow(j, row)
  BY DEF FinishJob, new
<1> HIDE DEF row
<1> QED
  BY <1>2, <1>3, <1>4 DEF Harmless, Terminal

LEMMA WriteInv ==
    ASSUME Inv, NEW w \in Workers, WriteSuccess(w) \/ WriteFailure(w)
    PROVE  Inv'
<1>1. /\ workers[w].pc \in {"write_ok", "write_err"}
      /\ \E st \in Terminal : FinishJob(w, st)
      /\ workers' = [workers EXCEPT ![w] = IdleWorker] /\ UNCHANGED <<api, crashes>>
  BY DEF WriteSuccess, WriteFailure, Terminal, BackToPoll
<1>2. /\ workers[w].job \in Jobs /\ workers[w].attempt \in Attempts
      /\ runs \in [Jobs -> [Attempts -> RunStatus]]
  BY <1>1 DEF Inv, TypeOK, Executing
<1>3. runs' \in [Jobs -> [Attempts -> RunStatus]]
  <2>1. CASE WriteSuccess(w)
    BY <1>2, <2>1 DEF WriteSuccess, RunStatus
  <2>2. CASE WriteFailure(w)
    <3>1. \/ runs' = runs
          \/ \E n \in Attempts : runs' = [runs EXCEPT ![workers[w].job][n] = "failed"]
      BY <2>2 DEF WriteFailure, RunningRuns
    <3>2. "failed" \in RunStatus
      BY DEF RunStatus
    <3>3. ASSUME NEW n \in Attempts, runs' = [runs EXCEPT ![workers[w].job][n] = "failed"]
          PROVE  runs' \in [Jobs -> [Attempts -> RunStatus]]
      <4>1. [runs[workers[w].job] EXCEPT ![n] = "failed"] \in [Attempts -> RunStatus]
        BY <1>2, <3>2
      <4> QED
        BY <1>2, <3>3, <4>1
    <3> QED
      BY <1>2, <3>1, <3>3
  <2> QED
    BY <2>1, <2>2
<1>4. /\ jobs' \in [Jobs -> Row] /\ RunningIsLeased'
      /\ \A i \in Jobs : /\ jobs'[i].attempt = jobs[i].attempt
                        /\ jobs'[i].owner \in {jobs[i].owner, None}
  <2>1. PICK row : SetRow(workers[w].job, row) /\ Harmless(workers[w].job, row)
    BY <1>1, FinishHarmless
  <2> QED
    BY <1>2, <2>1, HarmlessRow
<1>5. /\ IdleWorker \in Worker /\ IdleWorker.pc = "poll"
  BY JobQueueAssumption DEF IdleWorker, Worker, WorkerPC
<1>6. TypeOK' /\ SnapshotsAreOld'
  BY <1>1, <1>3, <1>4, <1>5 DEF Inv, TypeOK, SnapshotsAreOld, Executing
<1>7. /\ None \notin Workers
      /\ \A v \in Workers : workers'[v].pc \in Executing =>
           v # w /\ workers'[v] = workers[v] /\ workers[v].job \in Jobs
  BY <1>1, <1>5, JobQueueAssumption DEF Inv, TypeOK, Executing
<1>8. OwnersAreCurrent'
  BY <1>4, <1>7 DEF Inv, OwnersAreCurrent
<1>9. AttemptsAreExclusive'
  BY <1>4, <1>7 DEF Inv, AttemptsAreExclusive
<1> QED
  BY <1>4, <1>6, <1>8, <1>9 DEF Inv

\* A request that loads a row remembers a status its guard allows.
LEMMA LoadInv ==
    ASSUME Inv, NEW r \in Requests, NEW j \in Jobs, LoadForCancel(r, j) \/ LoadForRetry(r, j)
    PROVE  Inv'
<1>1. PICK pc \in {"cancel", "retry"} :
        /\ api' = [api EXCEPT ![r] = [pc |-> pc, job |-> j, seen |-> jobs[j]]]
        /\ pc = "cancel" => jobs[j].status \in {"queued", "running"}
        /\ pc = "retry" => jobs[j].status = "failed"
        /\ UNCHANGED <<jobs, runs, workers, crashes>>
  BY DEF LoadForCancel, LoadForRetry, Load
<1>2. jobs[j] \in Row /\ api \in [Requests -> Request]
  BY DEF Inv, TypeOK
<1>3. [pc |-> pc, job |-> j, seen |-> jobs[j]] \in Request
  BY <1>2 DEF Request
<1>4. TypeOK' /\ SnapshotsAreOld'
  BY <1>1, <1>2, <1>3 DEF Inv, TypeOK, SnapshotsAreOld
<1> QED
  BY <1>1, <1>4 DEF Inv, RunningIsLeased, OwnersAreCurrent, AttemptsAreExclusive

\* A cancel writes "cancelled" or nothing but the request; a retry always
\* writes "queued": neither leaves a running row without its lease.
LEMMA RequestHarmless ==
    ASSUME Inv, NEW r \in Requests, Cancel(r) \/ Retry(r)
    PROVE  \E row : SetRow(api[r].job, row) /\ Harmless(api[r].job, row)
<1> DEFINE j == api[r].job
           seen == api[r].seen
<1>1. /\ j \in Jobs /\ jobs[j] \in Row /\ seen \in Row
  BY DEF Inv, TypeOK, Cancel, Retry
<1>2. jobs[j].status = "running" => jobs[j].owner # None /\ jobs[j].lease # None
  BY <1>1 DEF Inv, RunningIsLeased
<1>3. CASE Cancel(r)
  <2> DEFINE stop == Released([seen EXCEPT !.status = "cancelled"])
             new == IF seen.status = "queued" \/ Expired(seen) THEN stop ELSE seen
             row == [Flush(jobs[j], seen, new) EXCEPT !.cancelReq = TRUE]
  <2>1. SetRow(j, row)
    BY <1>3 DEF Cancel
  <2>2. seen.status \in {"queued", "running"}
    BY <1>3 DEF Inv, SnapshotsAreOld, Cancel
  <2>3. /\ stop \in Row /\ stop.status = "cancelled" /\ stop.attempt = seen.attempt
        /\ stop.owner = None
    BY <1>1 DEF Released, Row, Statuses, Terminal
  <2> HIDE DEF stop
  <2>4. /\ new \in Row /\ new.attempt = seen.attempt
        /\ new = seen \/ (new.status = "cancelled" /\ new.owner = None)
    BY <1>1, <2>3
  <2> HIDE DEF new
  <2> DEFINE f == Flush(jobs[j], seen, new)
  <2>5. /\ f \in Row /\ f.attempt = jobs[j].attempt /\ f.owner \in {jobs[j].owner, None}
        /\ f.status = "running" => f.owner # None /\ f.lease # None
    BY <1>1, <1>2, <2>2, <2>4, FlushedRow
  <2> HIDE DEF f
  <2>6. Harmless(j, [f EXCEPT !.cancelReq = TRUE])
    BY <2>5 DEF Harmless, Row
  <2> QED
    BY <2>1, <2>6 DEF f
<1>4. CASE Retry(r)
  <2> DEFINE new == Released([seen EXCEPT !.status = "queued", !.cancelReq = FALSE, !.due = TRUE])
             row == Flush(jobs[j], seen, new)
  <2>1. SetRow(j, row)
    BY <1>4 DEF Retry
  <2>2. seen.status = "failed"
    BY <1>4 DEF Inv, SnapshotsAreOld, Retry
  <2>3. /\ new \in Row /\ new.status = "queued" /\ new.attempt = seen.attempt
        /\ new.owner = None
    BY <1>1 DEF Released, Row, Statuses
  <2> HIDE DEF new
  <2>4. /\ row \in Row /\ row.attempt = jobs[j].attempt /\ row.owner \in {jobs[j].owner, None}
        /\ row.status = "queued"
    BY <1>1, <2>2, <2>3, FlushedRow
  <2> HIDE DEF row
  <2> QED
    BY <2>1, <2>4 DEF Harmless
<1> QED
  BY <1>3, <1>4

LEMMA RequestInv ==
    ASSUME Inv, NEW r \in Requests, Cancel(r) \/ Retry(r)
    PROVE  Inv'
<1>1. /\ api' = [api EXCEPT ![r] = IdleRequest] /\ UNCHANGED <<runs, workers, crashes>>
      /\ api[r].job \in Jobs
  BY DEF Inv, TypeOK, Cancel, Retry, Respond
<1>2. /\ jobs' \in [Jobs -> Row] /\ RunningIsLeased'
      /\ \A i \in Jobs : /\ jobs'[i].attempt = jobs[i].attempt
                        /\ jobs'[i].owner \in {jobs[i].owner, None}
  BY <1>1, RequestHarmless, HarmlessRow
<1>3. IdleRequest \in Request /\ IdleRequest.pc = "idle"
  BY DEF IdleRequest, Request
<1>4. TypeOK' /\ SnapshotsAreOld'
  BY <1>1, <1>2, <1>3 DEF Inv, TypeOK, SnapshotsAreOld
<1>5. OwnersAreCurrent' /\ AttemptsAreExclusive'
  BY <1>1, <1>2, JobQueueAssumption DEF Inv, TypeOK, OwnersAreCurrent, AttemptsAreExclusive
<1> QED
  BY <1>2, <1>4, <1>5 DEF Inv

LEMMA NextInv == Inv /\ [Next]_vars => Inv'
<1> SUFFICES ASSUME Inv, [Next]_vars PROVE Inv'
  OBVIOUS
<1>1. CASE UNCHANGED vars
  BY <1>1 DEF vars, Inv, TypeOK, SnapshotsAreOld, RunningIsLeased, OwnersAreCurrent,
              AttemptsAreExclusive
<1>2. CASE Next
  BY <1>2, ClockInv, RecoverInv, ClaimInv, WorkerMovesInv, HeartbeatInv, WriteInv, LoadInv,
     RequestInv
  DEF Next, WorkerLoop
<1> QED
  BY <1>1, <1>2

-----------------------------------------------------------------------------
(* Theorems *)

\* The invariant holds in every reachable state.
THEOREM Invariance == Spec => []Inv
  BY InitInv, NextInv, PTL DEF Spec

\* Every reachable state is well typed: attempts never exceed max_attempts.
THEOREM TypeCorrect == Spec => []TypeOK
  BY Invariance, PTL DEF Inv

\* No stale worker and no unlocked API update ever leaves a running job
\* without the owner and lease by which recovery finds it.
THEOREM RunningStaysLeased == Spec => []RunningIsLeased
  BY Invariance, PTL DEF Inv

\* An attempt number is a fencing token: one attempt, one worker.
THEOREM AttemptsExclusive == Spec => []AttemptsAreExclusive
  BY Invariance, PTL DEF Inv

\* At most one worker in a job passes its fence.
THEOREM FenceExclusive == Spec => []FenceAdmitsOne
<1>1. Inv => FenceAdmitsOne
  BY DEF Inv, AttemptsAreExclusive, FenceAdmitsOne, Fenced
<1> QED
  BY <1>1, Invariance, PTL

\* Whatever leases expire, a running job stays recoverable and has one writer at most.
THEOREM LeasesAreExclusive == Spec => []LeasesExclude
  BY RunningStaysLeased, AttemptsExclusive, FenceExclusive, PTL DEF LeasesExclude

-----------------------------------------------------------------------------
(* Only a retry reopens a finished job *)

Reopened(j) == jobs[j].status \in Terminal /\ jobs'[j].status \notin Terminal

LEMMA WorkersDoNotReopen ==
    ASSUME Inv, NEW w \in Workers, WorkerLoop(w) \/ Heartbeat(w) \/ Crash(w) \/ Restart(w),
           NEW j \in Jobs
    PROVE  ~Reopened(j)
<1>1. jobs \in [Jobs -> Row] /\ jobs[j] \in Row
  BY DEF Inv, TypeOK
<1>2. CASE Recover(w)
  BY <1>1, <1>2 DEF Recover, Recoverable, Reopened, Terminal
<1>3. CASE \E i \in Jobs : Claim(w, i)
  BY <1>1, <1>3 DEF Claim, Claimable, SetRow, Reopened, Terminal
<1>4. CASE WriteSuccess(w) \/ WriteFailure(w)
  <2>1. workers[w].pc \in {"write_ok", "write_err"} /\ \E st \in Terminal : FinishJob(w, st)
    BY <1>4 DEF WriteSuccess, WriteFailure, Terminal
  <2>2. PICK row : SetRow(workers[w].job, row) /\ row.status \in Terminal
    BY <2>1, FinishHarmless
  <2> QED
    BY <1>1, <2>2 DEF SetRow, Reopened
<1>5. CASE Heartbeat(w)
  BY <1>1, <1>5 DEF Heartbeat, SetRow, Reopened, Row, Terminal
<1>6. CASE \/ ClaimNothing(w) \/ Begin(w) \/ CommitRun(w) \/ HandlerReturns(w)
           \/ HandlerRaises(w) \/ CheckFence(w) \/ Crash(w) \/ Restart(w)
  BY <1>6 DEF ClaimNothing, Begin, CommitRun, HandlerReturns, HandlerRaises, CheckFence, Crash,
              Restart, Reopened
<1> QED
  BY <1>2, <1>3, <1>4, <1>5, <1>6 DEF WorkerLoop

LEMMA OnlyRetryReopensStep ==
    ASSUME Inv, [Next]_vars, NEW j \in Jobs, Reopened(j)
    PROVE  \E r \in Requests : api[r].pc = "retry" /\ api[r].job = j /\ api'[r].pc = "idle"
<1>1. jobs \in [Jobs -> Row] /\ jobs[j] \in Row /\ api \in [Requests -> Request]
  BY DEF Inv, TypeOK
<1>2. CASE UNCHANGED vars
  BY <1>2 DEF vars, Reopened
<1>3. CASE \E i \in Jobs : Enqueue(i) \/ BecomeDue(i) \/ Tick(i)
  <2>1. PICK i \in Jobs : Enqueue(i) \/ BecomeDue(i) \/ Tick(i)
    BY <1>3
  <2>2. jobs[i] \in Row
    BY <1>1
  <2>3. CASE Enqueue(i)
    <3>1. PICK due : SetRow(i, [jobs[i] EXCEPT !.status = "queued", !.due = due])
      BY <2>3 DEF Enqueue
    <3> QED
      BY <1>1, <2>3, <3>1 DEF SetRow, Enqueue, Reopened, Terminal
  <2>4. CASE BecomeDue(i)
    BY <1>1, <2>2, <2>4 DEF SetRow, BecomeDue, Reopened, Row
  <2>5. CASE Tick(i)
    BY <1>1, <2>2, <2>5 DEF SetRow, Tick, Reopened, Row
  <2> QED
    BY <2>1, <2>3, <2>4, <2>5
<1>4. CASE \E w \in Workers : WorkerLoop(w) \/ Heartbeat(w) \/ Crash(w) \/ Restart(w)
  BY <1>4, WorkersDoNotReopen
<1>5. CASE \E r \in Requests : \E i \in Jobs : LoadForCancel(r, i) \/ LoadForRetry(r, i)
  BY <1>5 DEF LoadForCancel, LoadForRetry, Load, Reopened
<1>6. ASSUME NEW r \in Requests, Cancel(r) PROVE FALSE
  <2> DEFINE seen == api[r].seen
             new == IF seen.status = "queued" \/ Expired(seen)
                    THEN Released([seen EXCEPT !.status = "cancelled"]) ELSE seen
             f == Flush(jobs[api[r].job], seen, new)
  <2>1. /\ api[r].job \in Jobs /\ jobs[api[r].job] \in Row /\ seen \in Row
        /\ SetRow(api[r].job, [f EXCEPT !.cancelReq = TRUE])
    BY <1>1, <1>6 DEF Inv, TypeOK, Cancel
  <2>2. new \in Row /\ new.status \in {seen.status, "cancelled"}
    BY <2>1 DEF Released, Row, Statuses, Terminal
  <2> HIDE DEF new
  <2>3. f \in Row /\ f.status \in {jobs[api[r].job].status, "cancelled"}
    BY <2>1, <2>2, FlushedRow
  <2> HIDE DEF f
  <2>4. [f EXCEPT !.cancelReq = TRUE].status = f.status
    BY <2>3 DEF Row
  <2> QED
    BY <1>1, <2>1, <2>3, <2>4 DEF SetRow, Reopened, Terminal
<1>7. ASSUME NEW r \in Requests, Retry(r)
      PROVE  api[r].pc = "retry" /\ api[r].job = j /\ api'[r].pc = "idle"
  BY <1>1, <1>7 DEF Retry, Respond, IdleRequest, SetRow, Reopened
<1> QED
  BY <1>2, <1>3, <1>4, <1>5, <1>6, <1>7 DEF Next

\* Neither recovery nor a stale worker nor a cancel puts a finished job back
\* into play.
THEOREM FinishedStaysFinished == Spec => OnlyRetryReopens
<1>1. Inv /\ [Next]_vars =>
        [\A j \in Jobs :
           jobs[j].status \in Terminal /\ jobs'[j].status \notin Terminal =>
             \E r \in Requests : api[r].pc = "retry" /\ api[r].job = j /\ api'[r].pc = "idle"]_vars
  BY OnlyRetryReopensStep DEF Reopened
<1> QED
  BY <1>1, Invariance, PTL DEF Spec, OnlyRetryReopens

-----------------------------------------------------------------------------
(* Refinement *)

Held(w) == IF workers[w].pc \in Executing THEN <<workers[w].job, workers[w].attempt>> ELSE None

\* Steps in which one worker keeps its ticket or drops it, and no row's
\* attempt changes.
LEMMA KeepOrLeave ==
    ASSUME Inv, NEW w \in Workers, NEW rec \in Worker,
           workers' = [workers EXCEPT ![w] = rec],
           \A j \in Jobs : jobs'[j].attempt = jobs[j].attempt,
           rec.pc \in Executing =>
             /\ workers[w].pc \in Executing
             /\ rec.job = workers[w].job
             /\ rec.attempt = workers[w].attempt
    PROVE  [Tickets!Next]_(Tickets!tickets)
<1> DEFINE issued == [j \in Jobs |-> jobs[j].attempt]
           holds == [v \in Workers |-> Held(v)]
<1>1. workers \in [Workers -> Worker]
  BY DEF Inv, TypeOK
<1>2. issued' = issued
  OBVIOUS
<1>3. \A v \in Workers : v # w => Held(v)' = Held(v)
  BY <1>1 DEF Held
<1>4. CASE rec.pc \in Executing \/ workers[w].pc \notin Executing
  <2>1. Held(w)' = Held(w)
    BY <1>1, <1>4 DEF Held
  <2>2. holds' = holds
    BY <1>3, <2>1
  <2> QED
    BY <1>2, <2>2 DEF Tickets!tickets, Held
<1>5. CASE rec.pc \notin Executing /\ workers[w].pc \in Executing
  <2>1. Held(w)' = None
    BY <1>1, <1>5 DEF Held
  <2>2. Held(w) \in Jobs \X (1 .. MaxAttempts)
    BY <1>5 DEF Held, Inv, TypeOK, Attempts
  <2>3. Held(w) # None
    BY <2>2, JobQueueAssumption
  <2>4. holds' = [holds EXCEPT ![w] = None]
    BY <1>3, <2>1
  <2>5. holds[w] # None
    BY <2>3
  <2>6. Tickets!Leave(w)
    BY <1>2, <2>4, <2>5 DEF Tickets!Leave, Held
  <2> QED
    BY <2>6 DEF Tickets!Next
<1> QED
  BY <1>4, <1>5

\* Steps that leave the workers and every attempt alone.
LEMMA NoTicketMoves ==
    ASSUME UNCHANGED workers,
           \A j \in Jobs : jobs'[j].attempt = jobs[j].attempt
    PROVE  [Tickets!Next]_(Tickets!tickets)
BY DEF Tickets!tickets

LEMMA ClaimEnters ==
    ASSUME Inv, NEW w \in Workers, NEW j \in Jobs, Claim(w, j)
    PROVE  Tickets!Enter(w, j)
<1> DEFINE issued == [i \in Jobs |-> jobs[i].attempt]
           holds == [v \in Workers |-> Held(v)]
           row == [jobs[j] EXCEPT !.status = "running", !.attempt = @ + 1, !.owner = w,
                                  !.lease = LeaseTicks, !.cancelReq = FALSE]
           rec == [pc |-> "begin", job |-> j, attempt |-> jobs[j].attempt + 1, seen |-> None]
<1>1. /\ jobs \in [Jobs -> Row] /\ jobs[j] \in Row /\ workers \in [Workers -> Worker]
  BY DEF Inv, TypeOK
<1>2. /\ jobs' = [jobs EXCEPT ![j] = row] /\ workers' = [workers EXCEPT ![w] = rec]
      /\ jobs[j].attempt < MaxAttempts /\ workers[w].pc = "claim"
  BY DEF Claim, SetRow, Claimable
<1>3. row.attempt = jobs[j].attempt + 1
  BY <1>1 DEF Row
<1> HIDE DEF row
<1>4. issued' = [issued EXCEPT ![j] = @ + 1]
  BY <1>1, <1>2, <1>3
<1>5. Held(w) = None /\ Held(w)' = <<j, jobs[j].attempt + 1>>
  BY <1>1, <1>2 DEF Held, Executing
<1>6. \A v \in Workers : v # w => Held(v)' = Held(v)
  BY <1>1, <1>2 DEF Held
<1>7. holds' = [holds EXCEPT ![w] = <<j, issued[j] + 1>>]
  BY <1>5, <1>6
<1>8. holds[w] = None /\ issued[j] < MaxAttempts
  BY <1>2, <1>5
<1> QED
  BY <1>4, <1>7, <1>8 DEF Tickets!Enter, Held

LEMMA WorkerTickets ==
    ASSUME Inv, NEW w \in Workers, WorkerLoop(w) \/ Heartbeat(w) \/ Crash(w) \/ Restart(w)
    PROVE  [Tickets!Next]_(Tickets!tickets)
<1> DEFINE me == workers[w]
<1>0. /\ jobs \in [Jobs -> Row] /\ workers \in [Workers -> Worker] /\ me \in Worker
      /\ me.pc \in Executing => me.job \in Jobs
  BY DEF Inv, TypeOK
<1>1. /\ IdleWorker \in Worker /\ [IdleWorker EXCEPT !.pc = "down"] \in Worker
      /\ IdleWorker.pc = "poll" /\ [IdleWorker EXCEPT !.pc = "down"].pc = "down"
  BY JobQueueAssumption DEF IdleWorker, Worker, WorkerPC
<1>2. \A pc \in WorkerPC : /\ [me EXCEPT !.pc = pc] \in Worker
                         /\ [me EXCEPT !.pc = pc].pc = pc
                         /\ [me EXCEPT !.pc = pc].job = me.job
                         /\ [me EXCEPT !.pc = pc].attempt = me.attempt
  BY <1>0 DEF Worker
<1>3. CASE Recover(w)
  <2>1. \A j \in Jobs : jobs'[j].attempt = jobs[j].attempt
    BY <1>0, <1>3, RecoveredRow DEF Recover
  <2>2. workers' = [workers EXCEPT ![w] = [me EXCEPT !.pc = "claim"]]
    BY <1>3 DEF Recover, Step
  <2> QED
    BY <1>2, <2>1, <2>2, KeepOrLeave DEF WorkerPC, Executing
<1>4. CASE \E j \in Jobs : Claim(w, j)
  BY <1>4, ClaimEnters DEF Tickets!Next
<1>5. CASE WriteSuccess(w) \/ WriteFailure(w)
  <2>1. /\ me.pc \in {"write_ok", "write_err"} /\ \E st \in Terminal : FinishJob(w, st)
        /\ workers' = [workers EXCEPT ![w] = IdleWorker]
    BY <1>5 DEF WriteSuccess, WriteFailure, Terminal, BackToPoll
  <2>2. PICK row : SetRow(me.job, row) /\ Harmless(me.job, row)
    BY <2>1, FinishHarmless
  <2>3. \A j \in Jobs : jobs'[j].attempt = jobs[j].attempt
    BY <1>0, <2>2 DEF SetRow, Harmless
  <2> QED
    BY <1>1, <2>1, <2>3, KeepOrLeave DEF Executing
<1>6. CASE Heartbeat(w)
  <2>1. \A j \in Jobs : jobs'[j].attempt = jobs[j].attempt
    BY <1>0, <1>6 DEF Heartbeat, SetRow, Row
  <2> QED
    BY <1>6, <2>1, NoTicketMoves DEF Heartbeat
<1>7. CASE ClaimNothing(w) \/ Restart(w)
  BY <1>1, <1>7, KeepOrLeave DEF ClaimNothing, Restart, BackToPoll, Executing
<1>8. CASE Begin(w)
  <2>1. UNCHANGED jobs /\ me.pc = "begin"
    BY <1>8 DEF Begin
  <2>2. CASE ~Owns(w, jobs[me.job])
    BY <1>1, <1>8, <2>1, <2>2, KeepOrLeave DEF Begin, BackToPoll, Executing
  <2>3. CASE Owns(w, jobs[me.job])
    <3>1. jobs[me.job].attempt = me.attempt
      BY <2>1, <2>3 DEF Owns, Inv, OwnersAreCurrent, Executing
    <3>2. workers' = [workers EXCEPT ![w] = [me EXCEPT !.pc = "handler",
                                                       !.attempt = jobs[me.job].attempt]]
      BY <1>8, <2>3 DEF Begin
    <3>3. [me EXCEPT !.pc = "handler", !.attempt = jobs[me.job].attempt]
            = [me EXCEPT !.pc = "handler"]
      BY <1>0, <3>1 DEF Worker
    <3> QED
      BY <1>2, <2>1, <3>2, <3>3, KeepOrLeave DEF WorkerPC, Executing
  <2> QED
    BY <2>2, <2>3
<1>9. CASE CommitRun(w) \/ HandlerReturns(w) \/ HandlerRaises(w)
  BY <1>2, <1>9, KeepOrLeave
  DEF CommitRun, HandlerReturns, HandlerRaises, Step, WorkerPC, Executing
<1>10. CASE CheckFence(w)
  <2>1. UNCHANGED jobs /\ me.pc \in {"ok", "err"}
    BY <1>10 DEF CheckFence
  <2>2. CASE ~Fenced(w, jobs[me.job])
    BY <1>1, <1>10, <2>1, <2>2, KeepOrLeave DEF CheckFence, BackToPoll, Executing
  <2>3. CASE Fenced(w, jobs[me.job])
    <3>1. PICK pc \in {"write_ok", "write_err"} :
            workers' = [workers EXCEPT ![w] = [me EXCEPT !.pc = pc, !.seen = jobs[me.job]]]
      BY <1>10, <2>1, <2>3 DEF CheckFence
    <3>2. jobs[me.job] \in Row
      BY <1>0, <2>1 DEF Executing
    <3> DEFINE rec == [me EXCEPT !.pc = pc, !.seen = jobs[me.job]]
    <3>3. rec \in Worker /\ rec.pc = pc /\ rec.job = me.job /\ rec.attempt = me.attempt
      BY <1>0, <3>1, <3>2 DEF Worker, WorkerPC, Executing
    <3> HIDE DEF rec
    <3>4. workers' = [workers EXCEPT ![w] = rec]
      BY <3>1 DEF rec
    <3> QED
      BY <2>1, <3>3, <3>4, KeepOrLeave DEF Executing
  <2> QED
    BY <2>2, <2>3
<1>11. CASE Crash(w)
  BY <1>1, <1>11, KeepOrLeave DEF Crash, Executing
<1> QED
  BY <1>3, <1>4, <1>5, <1>6, <1>7, <1>8, <1>9, <1>10, <1>11 DEF WorkerLoop

LEMMA NextTickets == Inv /\ [Next]_vars => [Tickets!Next]_(Tickets!tickets)
<1> SUFFICES ASSUME Inv, [Next]_vars PROVE [Tickets!Next]_(Tickets!tickets)
  OBVIOUS
<1>0. jobs \in [Jobs -> Row]
  BY DEF Inv, TypeOK
<1>1. CASE UNCHANGED vars
  BY <1>1, NoTicketMoves DEF vars
<1>2. CASE \E j \in Jobs : Enqueue(j) \/ BecomeDue(j) \/ Tick(j)
  <2>1. PICK j \in Jobs : Enqueue(j) \/ BecomeDue(j) \/ Tick(j)
    BY <1>2
  <2>2. jobs[j] \in Row
    BY <1>0
  <2>3. \A i \in Jobs : jobs'[i].attempt = jobs[i].attempt
    <3>1. CASE Enqueue(j)
      <4>1. PICK due : SetRow(j, [jobs[j] EXCEPT !.status = "queued", !.due = due])
        BY <3>1 DEF Enqueue
      <4>2. [jobs[j] EXCEPT !.status = "queued", !.due = due].attempt = jobs[j].attempt
        BY <2>2 DEF Row
      <4> QED
        BY <1>0, <4>1, <4>2 DEF SetRow
    <3>2. CASE BecomeDue(j)
      BY <1>0, <2>2, <3>2 DEF BecomeDue, SetRow, Row
    <3>3. CASE Tick(j)
      BY <1>0, <2>2, <3>3 DEF Tick, SetRow, Row
    <3> QED
      BY <2>1, <3>1, <3>2, <3>3
  <2> QED
    BY <2>1, <2>3, NoTicketMoves DEF Enqueue, BecomeDue, Tick
<1>3. CASE \E w \in Workers : WorkerLoop(w) \/ Heartbeat(w) \/ Crash(w) \/ Restart(w)
  BY <1>3, WorkerTickets
<1>4. CASE \E r \in Requests : \E j \in Jobs : LoadForCancel(r, j) \/ LoadForRetry(r, j)
  BY <1>4, NoTicketMoves DEF LoadForCancel, LoadForRetry, Load
<1>5. ASSUME NEW r \in Requests, Cancel(r) \/ Retry(r)
      PROVE  [Tickets!Next]_(Tickets!tickets)
  <2>1. PICK row : SetRow(api[r].job, row) /\ Harmless(api[r].job, row)
    BY <1>5, RequestHarmless
  <2>2. \A j \in Jobs : jobs'[j].attempt = jobs[j].attempt
    BY <1>0, <2>1 DEF SetRow, Harmless
  <2> QED
    BY <1>5, <2>2, NoTicketMoves DEF Cancel, Retry
<1> QED
  BY <1>1, <1>2, <1>3, <1>4, <1>5 DEF Next

LEMMA InitTickets == Init => Tickets!Init
BY DEF Init, Tickets!Init, AbsentRow, IdleWorker, Executing

\* The job queue implements the ticket book: every entry of a worker into a
\* job takes a fresh number, max_attempts of them at most.
THEOREM ImplementsTickets == Spec => TicketsSpec
  BY InitTickets, NextTickets, Invariance, PTL DEF Spec, TicketsSpec, Tickets!Spec

-----------------------------------------------------------------------------
(***************************************************************************)
(* Contact attempts, for any number of attempts, requests and days.        *)
(*                                                                         *)
(* Reports of a call come in any order.  The inductive invariant says that *)
(* the state of an attempt was itself reported, with its time, and that of *)
(* what the provider knows of a call, later stages bear later times: so a  *)
(* report that is refused for its time is of a stage before the state.     *)
(* The request that creates an attempt has counted those of the day, and   *)
(* none is added while it holds the row of the case.                       *)
(***************************************************************************)
Attempt == Contacts!Attempt
Event == Contacts!Event
Queued == Contacts!Queued
rank(type) == Contacts!ranks(type)

ContactRows ==
    /\ attempts \in [Attempted -> Attempt \cup {None}]
    /\ calls \in [Phone -> SUBSET Event]
    /\ requests = [r \in Callers |-> requests[r]]
    /\ IsFiniteSet(Queued)

\* What the provider knows of a call: its stages in order.
InOrder(a) ==
    \A x, y \in calls[a] :
        /\ rank(x.type) = rank(y.type) => x = y
        /\ rank(x.type) < rank(y.type) => x.at <= y.at

CallsProceed ==
    \A a \in Phone :
        /\ calls[a] # {} => a \in Queued
        /\ \A e \in calls[a] : e.call = a
        /\ InOrder(a)

Happened(e) == e \in Event /\ e \in calls[e.call]

\* What a request has read.
Reads(q) ==
    \/ /\ q.op = "create" /\ q.attempt \in Attempted /\ q.row \in Attempt
       /\ q.row.status = "queued" /\ q.row.last = 0 /\ attempts[q.attempt] = None
       /\ Cardinality(Contacts!Today(q.row.day)) < Limit
    \/ q.op = "webhook" /\ Happened(q.event)

RequestsRead ==
    /\ \A r \in Callers : requests[r] # None => Reads(requests[r])
    /\ \A r, q \in Contacts!Creating : r = q

EventsKnown == \A e \in events : Happened(e)

\* The state of an attempt is the furthest stage of its call that was reported.
Shows(a, row) ==
    /\ row.status = "queued" => row.last = 0 /\ \A e \in events : e.call # a
    /\ row.status \in Contacts!ALLOWED_EVENTS =>
          /\ [call |-> a, type |-> row.status, at |-> row.last] \in events
          /\ \A e \in events : e.call = a => rank(e.type) <= rank(row.status)

StagesShown == \A a \in Queued : Shows(a, attempts[a])

DayHasRoom == \A day \in Days : Cardinality(Contacts!Today(day)) <= Limit

ContactsInv ==
    /\ ContactRows /\ CallsProceed /\ RequestsRead /\ EventsKnown /\ StagesShown /\ DayHasRoom

ContactsGiven == Contacts!ContactAssumption /\ Contacts!NoneIsNoRow

-----------------------------------------------------------------------------
(* Stages and sums of them *)

LEMMA Ranks ==
    /\ rank("queued") = 0 /\ rank("initiated") = 1 /\ rank("ringing") = 2
    /\ rank("answered") = 3 /\ rank("completed") = 4 /\ rank("failed") = 4
BY DEF rank, Contacts!ranks

LEMMA RankRange == \A type \in Contacts!ALLOWED_EVENTS : rank(type) \in 1 .. 4
BY Ranks DEF Contacts!ALLOWED_EVENTS, Contacts!Ended

LEMMA EndedRank ==
    \A type \in Contacts!ALLOWED_EVENTS : rank(type) = 4 <=> type \in Contacts!Ended
BY Ranks DEF Contacts!ALLOWED_EVENTS, Contacts!Ended

LEMMA EventFields ==
    ASSUME ContactsGiven, NEW e \in Event
    PROVE  /\ e.call \in Phone /\ e.call \in Attempted
           /\ e.type \in Contacts!ALLOWED_EVENTS /\ e.at \in 1 .. MaxTime
           /\ e = [call |-> e.call, type |-> e.type, at |-> e.at]
           /\ rank(e.type) \in 1 .. 4 /\ MaxTime \in Nat
<1>1. Reported \subseteq Contacts!ALLOWED_EVENTS /\ Phone \subseteq Attempted /\ MaxTime \in Nat
  BY DEF ContactsGiven, Contacts!ContactAssumption, Contacts!ALLOWED_EVENTS, Contacts!Ended
<1>2. /\ e.call \in Phone /\ e.type \in Reported /\ e.at \in 1 .. MaxTime
      /\ e = [call |-> e.call, type |-> e.type, at |-> e.at]
  BY DEF Event, Contacts!Event
<1> QED
  BY <1>1, <1>2, RankRange

\* The largest of a set of numbers.
LEMMA LargestIs ==
    ASSUME NEW S, S \subseteq Int, NEW m \in S, \A y \in S : y <= m
    PROVE  Contacts!Max(S) = m
<1>1. \A y \in S : m >= y
  OBVIOUS
<1>2. ASSUME NEW x \in S, \A y \in S : x >= y PROVE x = m
  BY <1>2
<1> QED
  BY <1>1, <1>2 DEF Contacts!Max

LEMMA StagesHaveLargest ==
    ASSUME NEW S, S \subseteq 0 .. 4, 0 \in S
    PROVE  \E m \in S : \A y \in S : y <= m
<1>1. CASE 4 \in S
  BY <1>1
<1>2. CASE 4 \notin S /\ 3 \in S
  BY <1>2
<1>3. CASE 4 \notin S /\ 3 \notin S /\ 2 \in S
  BY <1>3
<1>4. CASE 4 \notin S /\ 3 \notin S /\ 2 \notin S
  BY <1>4
<1> QED
  BY <1>1, <1>2, <1>3, <1>4

-----------------------------------------------------------------------------
(* Steps of contact attempts *)

LEMMA ContactCounts ==
    \A S : Contacts!Cardinality(S) = Cardinality(S) /\ (Contacts!IsFiniteSet(S) <=> IsFiniteSet(S))
BY DEF Contacts!Cardinality, Cardinality, Contacts!IsFiniteSet, IsFiniteSet

LEMMA TodayIsFinite ==
    ASSUME ContactRows, NEW day
    PROVE  /\ IsFiniteSet(Contacts!Today(day))
           /\ Cardinality(Contacts!Today(day)) \in Nat
<1>1. Contacts!Today(day) \subseteq Queued
  BY DEF Contacts!Today, Queued
<1> QED
  BY <1>1, FS_Subset, FS_CardinalityType DEF ContactRows

\* A row that is there changes, on its day, and stays blocked if it was.
RowChanges(a, row) ==
    /\ a \in Queued /\ row \in Attempt /\ row.day = attempts[a].day
    /\ attempts[a].status = "blocked" => row.status = "blocked"
    /\ attempts' = [attempts EXCEPT ![a] = row]

LEMMA ChangedRow ==
    ASSUME ContactsGiven, ContactRows, NEW a, NEW row, RowChanges(a, row)
    PROVE  /\ attempts' \in [Attempted -> Attempt \cup {None}]
           /\ Queued' = Queued /\ attempts'[a] = row
           /\ \A b \in Attempted \ {a} : attempts'[b] = attempts[b]
           /\ \A b \in Attempted : attempts'[b] = None <=> attempts[b] = None
           /\ \A day : Cardinality(Contacts!Today(day)') <= Cardinality(Contacts!Today(day))
           /\ \A day : Cardinality(Contacts!Today(day)') \in Nat
<1>1. None \notin Attempt
  BY DEF ContactsGiven, Contacts!NoneIsNoRow, Attempt
<1>2. a \in Attempted /\ attempts[a] # None /\ attempts[a] \in Attempt
  BY DEF RowChanges, Queued, Contacts!Queued, ContactRows
<1>3. /\ attempts' \in [Attempted -> Attempt \cup {None}]
      /\ attempts'[a] = row
      /\ \A b \in Attempted \ {a} : attempts'[b] = attempts[b]
      /\ \A b \in Attempted : attempts'[b] = None <=> attempts[b] = None
  BY <1>1, <1>2 DEF RowChanges, ContactRows
<1>4. Queued' = Queued
  BY <1>3 DEF Queued, Contacts!Queued
<1>5. ASSUME NEW day PROVE Contacts!Today(day)' \subseteq Contacts!Today(day)
  <2>1. ASSUME NEW b \in Contacts!Today(day)' PROVE b \in Contacts!Today(day)
    <3>1. /\ b \in Queued /\ b \in Attempted
          /\ attempts'[b].day = day /\ attempts'[b].status # "blocked"
      BY <1>4, <2>1 DEF Contacts!Today, Queued, Contacts!Queued
    <3>2. attempts[b].day = day /\ attempts[b].status # "blocked"
      <4>1. CASE b = a
        BY <1>3, <3>1, <4>1 DEF RowChanges
      <4>2. CASE b # a
        BY <1>3, <3>1, <4>2
      <4> QED
        BY <4>1, <4>2
    <3> QED
      BY <3>1, <3>2 DEF Contacts!Today, Queued
  <2> QED
    BY <2>1
<1>6. ASSUME NEW day
      PROVE  /\ Cardinality(Contacts!Today(day)') <= Cardinality(Contacts!Today(day))
             /\ Cardinality(Contacts!Today(day)') \in Nat
  <2>1. IsFiniteSet(Contacts!Today(day))
    BY TodayIsFinite
  <2>2. \A T, S : T \subseteq S /\ IsFiniteSet(S) =>
            Cardinality(T) <= Cardinality(S) /\ Cardinality(T) \in Nat
    BY FS_Subset, FS_CardinalityType
  <2> QED
    BY <1>5, <2>1, <2>2
<1> QED
  BY <1>3, <1>4, <1>6

\* What requests have read survives such a change.
RequestsGoOn == \A r \in Callers : requests'[r] = None \/ requests'[r] = requests[r]

LEMMA ReadsSurvive ==
    ASSUME ContactsGiven, ContactRows, RequestsRead, NEW a, NEW row, RowChanges(a, row),
           calls' = calls, RequestsGoOn
    PROVE  RequestsRead'
<1>1. ASSUME NEW r \in Callers, requests'[r] # None PROVE Reads(requests[r])'
  <2>1. requests'[r] = requests[r] /\ Reads(requests[r])
    BY <1>1 DEF RequestsRead, RequestsGoOn
  <2>2. CASE requests[r].op = "webhook" /\ Happened(requests[r].event)
    BY <2>1, <2>2 DEF Reads, Happened
  <2>3. CASE requests[r].op # "webhook" \/ ~ Happened(requests[r].event)
    <3> PICK q : q = requests[r]
      OBVIOUS
    <3>1. /\ q.op = "create" /\ q.attempt \in Attempted /\ q.row \in Attempt
          /\ q.row.status = "queued" /\ q.row.last = 0 /\ attempts[q.attempt] = None
          /\ Cardinality(Contacts!Today(q.row.day)) < Limit
      BY <2>1, <2>3 DEF Reads
    <3>2. PICK day : day = q.row.day
      OBVIOUS
    <3>3. /\ Cardinality(Contacts!Today(day)') <= Cardinality(Contacts!Today(day))
          /\ Cardinality(Contacts!Today(day)') \in Nat
          /\ attempts'[q.attempt] = None
      BY <3>1, ChangedRow
    <3>4. Cardinality(Contacts!Today(day)) \in Nat /\ Limit \in Nat
      BY TodayIsFinite DEF ContactsGiven, Contacts!ContactAssumption
    <3>5. Cardinality(Contacts!Today(day)') < Limit
      BY <3>1, <3>2, <3>3, <3>4
    <3>6. requests'[r] = q
      BY <2>1
    <3> QED
      BY <3>1, <3>2, <3>3, <3>5, <3>6 DEF Reads, Contacts!Today, Contacts!Queued
  <2> QED
    BY <2>2, <2>3
<1>2. Contacts!Creating' \subseteq Contacts!Creating
  BY DEF Contacts!Creating, RequestsGoOn
<1> QED
  BY <1>1, <1>2 DEF RequestsRead

LEMMA RoomSurvives ==
    ASSUME ContactsGiven, ContactRows, DayHasRoom, NEW a, NEW row, RowChanges(a, row)
    PROVE  DayHasRoom'
<1>1. ASSUME NEW day \in Days PROVE Cardinality(Contacts!Today(day)') <= Limit
  <2>1. /\ Cardinality(Contacts!Today(day)') <= Cardinality(Contacts!Today(day))
        /\ Cardinality(Contacts!Today(day)') \in Nat
    BY ChangedRow
  <2>2. Cardinality(Contacts!Today(day)) \in Nat /\ Limit \in Nat
    BY TodayIsFinite DEF ContactsGiven, Contacts!ContactAssumption
  <2>3. Cardinality(Contacts!Today(day)) <= Limit
    BY DEF DayHasRoom
  <2> QED
    BY <2>1, <2>2, <2>3
<1> QED
  BY <1>1 DEF DayHasRoom

\* Handing over and cancelling.
LEMMA DecideInv ==
    ASSUME ContactsGiven, ContactsInv, NEW a \in Attempted, NEW status \in {"handoff", "blocked"},
           Contacts!Decide(a, status)
    PROVE  ContactsInv'
<1> DEFINE row == [attempts[a] EXCEPT !.status = status]
<1>1. /\ a \in Queued /\ attempts[a].status # "blocked" /\ attempts[a] \in Attempt
      /\ attempts' = [attempts EXCEPT ![a] = row]
      /\ UNCHANGED <<blocked, calls, events, requests>>
  BY DEF Contacts!Decide, Contacts!Undecided, ContactsInv, ContactRows, Queued, Contacts!Queued
<1>2. row \in Attempt /\ row.day = attempts[a].day /\ row.status = status
  BY <1>1 DEF Attempt, Contacts!Attempt
<1> HIDE DEF row
<1>3. RowChanges(a, row)
  BY <1>1, <1>2 DEF RowChanges
<1>4. ContactRows /\ CallsProceed /\ RequestsRead /\ EventsKnown /\ StagesShown /\ DayHasRoom
  BY DEF ContactsInv
<1>5. /\ attempts' \in [Attempted -> Attempt \cup {None}]
      /\ Queued' = Queued /\ attempts'[a] = row
      /\ \A b \in Attempted \ {a} : attempts'[b] = attempts[b]
  BY <1>3, <1>4, ChangedRow
<1>6. ContactRows'
  BY <1>1, <1>4, <1>5 DEF ContactRows
<1>7. CallsProceed' /\ EventsKnown'
  BY <1>1, <1>4, <1>5 DEF CallsProceed, EventsKnown, InOrder, Happened
<1>8. RequestsRead'
  BY <1>1, <1>3, <1>4, ReadsSurvive DEF RequestsGoOn
<1>9. StagesShown'
  <2>1. ASSUME NEW b \in Queued PROVE Shows(b, attempts[b])'
    <3>1. CASE b = a
      BY <1>2, <1>5, <3>1 DEF Shows, Contacts!ALLOWED_EVENTS, Contacts!Ended
    <3>2. CASE b # a
      <4>1. b \in Attempted /\ attempts'[b] = attempts[b]
        BY <1>5, <2>1, <3>2 DEF Queued, Contacts!Queued
      <4> QED
        BY <1>1, <1>4, <2>1, <4>1 DEF Shows, StagesShown
    <3> QED
      BY <3>1, <3>2
  <2> QED
    BY <1>5, <2>1 DEF StagesShown
<1>10. DayHasRoom'
  BY <1>3, <1>4, RoomSurvives
<1> QED
  BY <1>6, <1>7, <1>8, <1>9, <1>10 DEF ContactsInv

\* A report that moves the state on, or does not.
LEMMA WebhookInv ==
    ASSUME ContactsGiven, ContactsInv, NEW r \in Callers, Contacts!WebhookCommits(r)
    PROVE  ContactsInv'
<1> PICK e : e = requests[r].event
  OBVIOUS
<1>1. /\ requests[r] # None /\ requests[r].op = "webhook"
      /\ attempts' = IF e \notin events /\ Contacts!Advances(attempts[e.call], e)
                     THEN [attempts EXCEPT ![e.call] =
                               [attempts[e.call] EXCEPT !.status = e.type, !.last = e.at]]
                     ELSE attempts
      /\ events' = events \cup {e}
      /\ requests' = [requests EXCEPT ![r] = None]
      /\ UNCHANGED <<blocked, calls>>
  BY DEF Contacts!WebhookCommits
<1>2. ContactRows /\ CallsProceed /\ RequestsRead /\ EventsKnown /\ StagesShown /\ DayHasRoom
  BY DEF ContactsInv
<1>3. e \in Event /\ e \in calls[e.call] /\ Happened(e)
  BY <1>1, <1>2 DEF RequestsRead, Reads, Happened
<1> PICK a : a = e.call
  OBVIOUS
<1>4. /\ a \in Phone /\ a \in Attempted /\ e.type \in Contacts!ALLOWED_EVENTS
      /\ e.at \in 1 .. MaxTime /\ MaxTime \in Nat /\ rank(e.type) \in 1 .. 4
      /\ e = [call |-> a, type |-> e.type, at |-> e.at]
  BY <1>3, EventFields
<1>5. a \in Queued /\ attempts[a] \in Attempt
  BY <1>2, <1>3, <1>4 DEF CallsProceed, ContactRows, Queued, Contacts!Queued
<1>6. RequestsGoOn /\ requests' = [q \in Callers |-> requests'[q]]
  BY <1>1, <1>2 DEF ContactRows, RequestsGoOn
<1>7. EventsKnown'
  BY <1>1, <1>2, <1>3 DEF EventsKnown, Happened
<1>8. Shows(a, attempts[a])
  BY <1>2, <1>5 DEF StagesShown
<1>9. ASSUME NEW b \in Queued, b # a, attempts'[b] = attempts[b] PROVE Shows(b, attempts[b])'
  BY <1>1, <1>2, <1>4, <1>9 DEF Shows, StagesShown
<1>10. CASE e \notin events /\ Contacts!Advances(attempts[a], e)
  <2> DEFINE row == [attempts[a] EXCEPT !.status = e.type, !.last = e.at]
  <2>1. attempts' = [attempts EXCEPT ![a] = row]
    BY <1>1, <1>10
  <2>2. row \in Attempt /\ row.day = attempts[a].day /\ row.status = e.type /\ row.last = e.at
    <3>1. ASSUME NEW L, NEW R, NEW S, NEW old \in [day : Days, last : L, retry_of : R, status : S],
                 NEW type \in S, NEW at \in L, NEW new,
                 new = [old EXCEPT !.status = type, !.last = at]
          PROVE  /\ new \in [day : Days, last : L, retry_of : R, status : S]
                 /\ new.day = old.day /\ new.status = type /\ new.last = at
      BY <3>1
    <3>2. e.at \in 0 .. MaxTime
          /\ e.type \in Contacts!ALLOWED_EVENTS \cup {"queued", "handoff", "blocked"}
      BY <1>4
    <3> QED
      BY <1>5, <3>1, <3>2 DEF Attempt, Contacts!Attempt
  <2>3. attempts[a].status \notin Contacts!Ended \cup {"handoff", "blocked"}
        /\ rank(attempts[a].status) <= rank(e.type)
    BY <1>10 DEF Contacts!Advances, rank
  <2> HIDE DEF row
  <2>4. RowChanges(a, row)
    BY <1>5, <2>1, <2>2, <2>3 DEF RowChanges
  <2>5. /\ attempts' \in [Attempted -> Attempt \cup {None}]
        /\ Queued' = Queued /\ attempts'[a] = row
        /\ \A b \in Attempted \ {a} : attempts'[b] = attempts[b]
    BY <1>2, <2>4, ChangedRow
  <2>6. ContactRows' /\ CallsProceed'
    BY <1>1, <1>2, <1>6, <2>5 DEF ContactRows, CallsProceed, InOrder
  <2>7. RequestsRead' /\ DayHasRoom'
    BY <1>1, <1>2, <1>6, <2>4, ReadsSurvive, RoomSurvives
  <2>8. Shows(a, attempts[a])'
    <3>1. \A x \in events : x.call = a => rank(x.type) <= rank(e.type)
      <4>1. CASE attempts[a].status = "queued"
        BY <1>8, <4>1 DEF Shows
      <4>2. CASE attempts[a].status # "queued"
        <5>1. attempts[a].status \in Contacts!ALLOWED_EVENTS
          BY <1>5, <2>3, <4>2 DEF Attempt, Contacts!Attempt
        <5>2. ASSUME NEW x \in events, x.call = a PROVE rank(x.type) <= rank(e.type)
          <6>1. rank(x.type) <= rank(attempts[a].status)
            BY <1>8, <5>1, <5>2 DEF Shows
          <6>2. rank(x.type) \in 1 .. 4 /\ rank(attempts[a].status) \in 1 .. 4
            BY <1>2, <5>1, RankRange, EventFields DEF EventsKnown, Happened
          <6> QED
            BY <1>4, <2>3, <6>1, <6>2
        <5> QED
          BY <5>2
      <4> QED
        BY <4>1, <4>2
    <3>2. attempts'[a].status = e.type /\ attempts'[a].last = e.at /\ e.type # "queued"
      BY <1>4, <2>2, <2>5 DEF Contacts!ALLOWED_EVENTS, Contacts!Ended
    <3>3. [call |-> a, type |-> attempts'[a].status, at |-> attempts'[a].last] \in events'
      BY <1>1, <1>4, <3>2
    <3>4. \A x \in events' : x.call = a => rank(x.type) <= rank(attempts'[a].status)
      <4>1. rank(e.type) <= rank(e.type)
        BY <1>4
      <4> QED
        BY <1>1, <3>1, <3>2, <4>1
    <3> QED
      BY <3>2, <3>3, <3>4 DEF Shows
  <2>9. StagesShown'
    <3>1. ASSUME NEW b \in Queued PROVE Shows(b, attempts[b])'
      <4>1. CASE b = a
        BY <2>8, <4>1
      <4>2. CASE b # a
        <5>1. attempts'[b] = attempts[b]
          BY <2>5, <3>1, <4>2 DEF Queued, Contacts!Queued
        <5> QED
          BY <1>9, <3>1, <4>2, <5>1
      <4> QED
        BY <4>1, <4>2
    <3> QED
      BY <2>5, <3>1 DEF StagesShown
  <2> QED
    BY <1>7, <2>6, <2>7, <2>9 DEF ContactsInv
<1>11. CASE ~ (e \notin events /\ Contacts!Advances(attempts[a], e))
  <2>1. attempts' = attempts
    BY <1>1, <1>11
  <2>2. Queued' = Queued /\ \A day : Contacts!Today(day)' = Contacts!Today(day)
    BY <2>1 DEF Queued, Contacts!Queued, Contacts!Today
  <2>3. ContactRows' /\ CallsProceed' /\ DayHasRoom'
    BY <1>1, <1>2, <1>6, <2>1, <2>2 DEF ContactRows, CallsProceed, InOrder, DayHasRoom
  <2>4. RequestsRead'
    <3>1. RowChanges(a, attempts[a])
      BY <1>2, <1>5, <2>1 DEF RowChanges, ContactRows
    <3> QED
      BY <1>1, <1>2, <1>6, <3>1, ReadsSurvive
  <2>5. Shows(a, attempts[a])'
    <3>1. CASE e \in events
      <4>1. events' = events
        BY <1>1, <3>1
      <4> QED
        BY <1>8, <2>1, <4>1 DEF Shows
    <3>2. CASE attempts[a].status \in {"handoff", "blocked"}
      BY <2>1, <3>2 DEF Shows, Contacts!ALLOWED_EVENTS, Contacts!Ended
    <3>3. CASE e \notin events /\ attempts[a].status \notin {"handoff", "blocked"}
      <4>1. attempts[a].status # "queued"
        <5> SUFFICES ASSUME attempts[a].status = "queued" PROVE FALSE
          OBVIOUS
        <5>1. attempts[a].last = 0
          BY <1>8 DEF Shows
        <5>2. Contacts!Advances(attempts[a], e)
          BY <1>4, <5>1, Ranks DEF Contacts!Advances, rank, Contacts!Ended
        <5> QED
          BY <1>11, <3>3, <5>2
      <4>2. attempts[a].status \in Contacts!ALLOWED_EVENTS
        BY <1>5, <3>3, <4>1 DEF Attempt, Contacts!Attempt
      <4> DEFINE x == [call |-> a, type |-> attempts[a].status, at |-> attempts[a].last]
      <4>3. /\ x \in events /\ x \in calls[a] /\ rank(x.type) \in 1 .. 4
            /\ x.type = attempts[a].status /\ x.at = attempts[a].last
            /\ \A y \in events : y.call = a => rank(y.type) <= rank(x.type)
        <5>1. x \in events /\ x.call = a /\ x.type = attempts[a].status /\ x.at = attempts[a].last
          BY <1>8, <4>2 DEF Shows
        <5>2. x \in calls[a]
          BY <1>2, <5>1 DEF EventsKnown, Happened
        <5> QED
          BY <1>8, <4>2, <5>1, <5>2, RankRange DEF Shows
      <4>4. attempts[a].last \in Nat
        BY <1>4, <1>5 DEF Attempt, Contacts!Attempt
      <4> HIDE DEF x
      <4>5. rank(e.type) <= rank(x.type)
        <5> SUFFICES ASSUME ~ (rank(e.type) <= rank(x.type)) PROVE FALSE
          OBVIOUS
        <5>1. rank(x.type) < rank(e.type)
          BY <1>4, <4>3
        <5>2. x.at <= e.at
          BY <1>2, <1>3, <1>4, <4>3, <5>1 DEF CallsProceed, InOrder
        <5>3. attempts[a].status \notin Contacts!Ended
          BY <1>4, <4>2, <4>3, <5>1, EndedRank
        <5>4. Contacts!Advances(attempts[a], e)
          <6>1. rank(attempts[a].status) <= rank(e.type) /\ attempts[a].last <= e.at
            BY <1>4, <4>3, <5>1, <5>2
          <6>2. attempts[a].status \notin Contacts!Ended \cup {"handoff", "blocked"}
            BY <3>3, <5>3
          <6> QED
            BY <6>1, <6>2 DEF Contacts!Advances, rank
        <5> QED
          BY <1>11, <3>3, <5>4
      <4> QED
        BY <1>1, <1>8, <2>1, <4>1, <4>2, <4>3, <4>5 DEF Shows
    <3> QED
      BY <3>1, <3>2, <3>3
  <2>6. StagesShown'
    BY <1>9, <2>1, <2>2, <2>5 DEF StagesShown
  <2> QED
    BY <1>7, <2>3, <2>4, <2>6 DEF ContactsInv
<1> QED
  BY <1>10, <1>11

\* What a request reads, and requests that end: the attempts stay.
LEMMA ReadingInv ==
    ASSUME ContactsInv, NEW r \in Callers, NEW q, q = None \/ Reads(q),
           requests' = [requests EXCEPT ![r] = q], UNCHANGED <<attempts, calls, events>>,
           q # None /\ q.op = "create" => Contacts!Creating = {}
    PROVE  ContactsInv'
<1>1. ContactRows /\ CallsProceed /\ RequestsRead /\ EventsKnown /\ StagesShown /\ DayHasRoom
  BY DEF ContactsInv
<1>2. Queued' = Queued /\ \A day : Contacts!Today(day)' = Contacts!Today(day)
  BY DEF Queued, Contacts!Queued, Contacts!Today
<1>3. ContactRows' /\ CallsProceed' /\ DayHasRoom' /\ EventsKnown' /\ StagesShown'
  BY <1>1, <1>2 DEF ContactRows, CallsProceed, InOrder, DayHasRoom, EventsKnown, Happened,
                    StagesShown, Shows
<1>4. ASSUME NEW s, Reads(s) PROVE Reads(s)'
  BY <1>2, <1>4 DEF Reads, Happened
<1>5. ASSUME NEW c \in Callers, requests'[c] # None PROVE Reads(requests[c])'
  <2>1. PICK s : s = requests'[c]
    OBVIOUS
  <2>2. Reads(s)
    BY <1>1, <1>5, <2>1 DEF ContactRows, RequestsRead
  <2>3. Reads(s)'
    BY <1>4, <2>2
  <2> QED
    BY <2>1, <2>3 DEF Reads, Happened, Contacts!Today, Contacts!Queued
<1>6. \A c, d \in Contacts!Creating' : c = d
  <2>1. CASE q # None /\ q.op = "create"
    BY <1>1, <2>1 DEF Contacts!Creating, ContactRows
  <2>2. CASE ~ (q # None /\ q.op = "create")
    <3>1. Contacts!Creating' \subseteq Contacts!Creating
      BY <1>1, <2>2 DEF Contacts!Creating, ContactRows
    <3> QED
      BY <1>1, <3>1 DEF RequestsRead
  <2> QED
    BY <2>1, <2>2
<1>7. RequestsRead'
  BY <1>5, <1>6 DEF RequestsRead
<1> QED
  BY <1>3, <1>7 DEF ContactsInv

LEMMA CreateReadsInv ==
    ASSUME ContactsGiven, ContactsInv, NEW r \in Callers, NEW a \in Attempted, NEW day \in Days,
           NEW previous \in Attempted \cup {None}, Contacts!CreateReads(r, a, day, previous)
    PROVE  ContactsInv'
<1> DEFINE row == [day |-> day, last |-> 0, retry_of |-> previous, status |-> "queued"]
           q == [op |-> "create", attempt |-> a, row |-> row]
<1>1. /\ attempts[a] = None /\ Contacts!Creating = {} /\ Cardinality(Contacts!Today(day)) < Limit
      /\ requests' = [requests EXCEPT ![r] = q] /\ UNCHANGED <<attempts, calls, events>>
  BY ContactCounts DEF Contacts!CreateReads, Contacts!CaseFree
<1>2. row \in Attempt /\ row.day = day /\ row.status = "queued" /\ row.last = 0
  BY DEF ContactsGiven, Contacts!ContactAssumption, Attempt, Contacts!Attempt
<1>3. q.op = "create" /\ q.attempt = a /\ q.row = row
  OBVIOUS
<1> HIDE DEF row, q
<1>4. Reads(q)
  BY <1>1, <1>2, <1>3 DEF Reads
<1> QED
  BY <1>1, <1>4, ReadingInv

LEMMA WebhookReadsInv ==
    ASSUME ContactsGiven, ContactsInv, NEW r \in Callers, NEW e \in Contacts!Emitted,
           Contacts!WebhookReads(r, e)
    PROVE  ContactsInv'
<1> DEFINE q == [op |-> "webhook", event |-> e]
<1>1. /\ requests' = [requests EXCEPT ![r] = q] /\ UNCHANGED <<attempts, calls, events>>
  BY DEF Contacts!WebhookReads
<1>2. q.op = "webhook" /\ q.event = e
  OBVIOUS
<1> HIDE DEF q
<1>3. Happened(e)
  BY DEF Contacts!Emitted, ContactsInv, ContactRows, CallsProceed, Happened
<1>4. Reads(q)
  BY <1>2, <1>3 DEF Reads
<1> QED
  BY <1>1, <1>2, <1>4, ReadingInv

LEMMA DiesInv ==
    ASSUME ContactsInv, NEW r \in Callers, Contacts!RequestDies(r)
    PROVE  ContactsInv'
BY ReadingInv DEF Contacts!RequestDies

\* The request that counted the attempts of the day adds one to them.
LEMMA CreateCommitsInv ==
    ASSUME ContactsGiven, ContactsInv, NEW r \in Callers, Contacts!CreateCommits(r)
    PROVE  ContactsInv'
<1> PICK a : a = requests[r].attempt
  OBVIOUS
<1> PICK row : row = requests[r].row
  OBVIOUS
<1>1. /\ r \in Contacts!Creating
      /\ attempts' = [attempts EXCEPT ![a] = row]
      /\ requests' = [requests EXCEPT ![r] = None]
      /\ UNCHANGED <<blocked, calls, events>>
  BY DEF Contacts!CreateCommits
<1>2. ContactRows /\ CallsProceed /\ RequestsRead /\ EventsKnown /\ StagesShown /\ DayHasRoom
  BY DEF ContactsInv
<1>3. /\ a \in Attempted /\ row \in Attempt /\ row.status = "queued" /\ row.last = 0
      /\ attempts[a] = None /\ Cardinality(Contacts!Today(row.day)) < Limit
  BY <1>1, <1>2 DEF RequestsRead, Reads, Contacts!Creating
<1>4. None \notin Attempt
  BY DEF ContactsGiven, Contacts!NoneIsNoRow, Attempt
<1>5. /\ attempts' \in [Attempted -> Attempt \cup {None}] /\ attempts'[a] = row
      /\ \A b \in Attempted \ {a} : attempts'[b] = attempts[b]
  BY <1>1, <1>2, <1>3 DEF ContactRows
<1>6. Queued' = Queued \cup {a} /\ a \notin Queued
  BY <1>3, <1>4, <1>5 DEF Queued, Contacts!Queued
<1>7. \A e \in events : e.call # a
  BY <1>2, <1>6, EventFields DEF EventsKnown, Happened, CallsProceed
<1>8. ContactRows' /\ CallsProceed' /\ EventsKnown'
  <2>1. IsFiniteSet(Queued')
    BY <1>2, <1>6, FS_AddElement DEF ContactRows
  <2> QED
    BY <1>1, <1>2, <1>5, <1>6, <2>1 DEF ContactRows, CallsProceed, InOrder, EventsKnown, Happened
<1>9. StagesShown'
  <2>1. ASSUME NEW b \in Queued' PROVE Shows(b, attempts[b])'
    <3>1. CASE b = a
      BY <1>1, <1>3, <1>5, <1>7, <3>1 DEF Shows, Contacts!ALLOWED_EVENTS, Contacts!Ended
    <3>2. CASE b # a
      <4>1. b \in Queued /\ attempts'[b] = attempts[b]
        BY <1>5, <1>6, <2>1, <3>2 DEF Queued, Contacts!Queued
      <4> QED
        BY <1>1, <1>2, <4>1 DEF Shows, StagesShown
    <3> QED
      BY <3>1, <3>2
  <2> QED
    BY <2>1 DEF StagesShown
<1>10. RequestsRead'
  <2>1. Contacts!Creating' = {}
    BY <1>1, <1>2 DEF Contacts!Creating, RequestsRead, ContactRows
  <2>2. ASSUME NEW c \in Callers, requests'[c] # None PROVE Reads(requests[c])'
    <3>1. requests'[c] = requests[c] /\ c # r
      BY <1>1, <1>2, <2>2 DEF ContactRows
    <3>2. requests[c].op # "create"
      BY <1>1, <1>2, <2>2, <3>1 DEF RequestsRead, Contacts!Creating
    <3>3. requests[c].op = "webhook" /\ Happened(requests[c].event)
      BY <1>2, <2>2, <3>1, <3>2 DEF RequestsRead, Reads
    <3> QED
      BY <1>1, <3>1, <3>3 DEF Reads, Happened
  <2> QED
    BY <2>1, <2>2 DEF RequestsRead
<1>11. DayHasRoom'
  <2>1. ASSUME NEW day \in Days PROVE Cardinality(Contacts!Today(day)') <= Limit
    <3>1. Contacts!Today(day)' = IF day = row.day THEN Contacts!Today(day) \cup {a}
                                                  ELSE Contacts!Today(day)
      <4>1. ASSUME NEW b \in Attempted
            PROVE  b \in Contacts!Today(day)' <=>
                       b \in Contacts!Today(day) \/ (b = a /\ day = row.day)
        <5>1. CASE b = a
          BY <1>3, <1>5, <1>6, <5>1 DEF Contacts!Today, Queued, Contacts!Queued
        <5>2. CASE b # a
          BY <1>5, <1>6, <5>2 DEF Contacts!Today, Queued, Contacts!Queued
        <5> QED
          BY <5>1, <5>2
      <4>2. Contacts!Today(day)' \subseteq Attempted /\ Contacts!Today(day) \subseteq Attempted
        BY DEF Contacts!Today, Contacts!Queued
      <4> QED
        BY <1>3, <4>1, <4>2
    <3>2. IsFiniteSet(Contacts!Today(day)) /\ Cardinality(Contacts!Today(day)) \in Nat
      BY <1>2, TodayIsFinite
    <3>3. Cardinality(Contacts!Today(day) \cup {a}) <= Cardinality(Contacts!Today(day)) + 1
      <4>1. ASSUME NEW S, IsFiniteSet(S) PROVE Cardinality(S \cup {a}) <= Cardinality(S) + 1
        <5>1. Cardinality(S) \in Nat
          BY <4>1, FS_CardinalityType
        <5>2. Cardinality(S \cup {a}) = IF a \in S THEN Cardinality(S) ELSE Cardinality(S) + 1
          BY <4>1, FS_AddElement
        <5> QED
          BY <5>1, <5>2
      <4> QED
        BY <3>2, <4>1
    <3>4. Cardinality(Contacts!Today(day) \cup {a}) \in Nat
      BY <3>2, FS_AddElement, FS_CardinalityType
    <3>5. Cardinality(Contacts!Today(day)) <= Limit /\ Limit \in Nat
      BY <1>2 DEF DayHasRoom, ContactsGiven, Contacts!ContactAssumption
    <3>6. CASE day = row.day
      <4>1. Contacts!Today(day)' = Contacts!Today(day) \cup {a}
        BY <3>1, <3>6
      <4> QED
        BY <1>3, <3>2, <3>3, <3>4, <3>5, <3>6, <4>1
    <3>7. CASE day # row.day
      BY <3>1, <3>5, <3>7
    <3> QED
      BY <3>6, <3>7
  <2> QED
    BY <2>1 DEF DayHasRoom
<1> QED
  BY <1>8, <1>9, <1>10, <1>11 DEF ContactsInv

\* A new stage of a call comes after those the provider has, and is no earlier.
LEMMA ProceedsInv ==
    ASSUME ContactsGiven, ContactsInv, NEW a \in Phone, NEW type \in Reported, NEW at \in 1 .. MaxTime,
           Contacts!CallProceeds(a, type, at)
    PROVE  ContactsInv'
<1> DEFINE e == [call |-> a, type |-> type, at |-> at]
<1>1. /\ a \in Queued /\ Contacts!Stage(a) < rank(type) /\ at >= Contacts!Latest(a)
      /\ calls' = [calls EXCEPT ![a] = calls[a] \cup {e}]
      /\ UNCHANGED <<attempts, events, requests>>
  BY DEF Contacts!CallProceeds, Queued, rank
<1>2. ContactRows /\ CallsProceed /\ RequestsRead /\ EventsKnown /\ StagesShown /\ DayHasRoom
  BY DEF ContactsInv
<1>3. e \in Event /\ e.call = a /\ e.type = type /\ e.at = at
  BY DEF Event, Contacts!Event
<1>4. calls[a] \subseteq Event /\ InOrder(a)
  BY <1>2 DEF ContactRows, CallsProceed
<1>5. \A x \in Event : x.at \in Int /\ x.at > 0 /\ rank(x.type) \in 1 .. 4
  BY EventFields
<1>6. \A x \in calls[a] : rank(x.type) < rank(type)
  <2> DEFINE S == {0} \cup {rank(x.type) : x \in calls[a]}
  <2>1. S \subseteq 0 .. 4 /\ 0 \in S
    BY <1>4, <1>5
  <2>2. Contacts!Stage(a) = Contacts!Max(S)
    BY DEF Contacts!Stage, rank
  <2>3. \A x \in calls[a] : rank(x.type) \in S
    OBVIOUS
  <2> HIDE DEF S
  <2>4. PICK m \in S : \A y \in S : y <= m
    BY <2>1, StagesHaveLargest
  <2>5. Contacts!Max(S) = m
    <3>1. S \subseteq Int
      BY <2>1
    <3> QED
      BY <2>4, <3>1, LargestIs
  <2>6. rank(type) \in Int
    <3> HIDE DEF e
    <3>1. rank(e.type) \in 1 .. 4
      BY <1>3, <1>5
    <3> QED
      BY <1>3, <3>1
  <2>7. m < rank(type) /\ m \in Int
    BY <1>1, <2>1, <2>2, <2>4, <2>5
  <2>8. ASSUME NEW x \in calls[a] PROVE rank(x.type) < rank(type)
    <3> PICK n : n = rank(x.type)
      OBVIOUS
    <3>1. n \in S
      BY <2>3
    <3>2. n <= m /\ n \in Int
      BY <2>1, <2>4, <3>1
    <3> QED
      BY <2>6, <2>7, <3>2
  <2> QED
    BY <2>8
<1>7. \A x \in calls[a] : x.at <= at
  <2> SUFFICES ASSUME NEW z \in calls[a] PROVE z.at <= at
    OBVIOUS
  <2> DEFINE S == {rank(x.type) : x \in calls[a]}
             T == {0} \cup {x.at : x \in calls[a]}
  <2>1. PICK m \in {0} \cup S : \A y \in {0} \cup S : y <= m
    BY <1>4, <1>5, StagesHaveLargest
  <2>2. m \in S
    BY <1>4, <1>5, <2>1
  <2>3. PICK last \in calls[a] : rank(last.type) = m
    BY <2>2
  <2>4. ASSUME NEW x \in calls[a] PROVE x.at <= last.at
    <3>1. rank(x.type) <= rank(last.type)
      BY <2>1, <2>3
    <3>2. rank(x.type) = rank(last.type) \/ rank(x.type) < rank(last.type)
      BY <1>4, <1>5, <2>3, <3>1
    <3>3. x.at \in Int
      BY <1>4, <1>5
    <3> QED
      BY <1>4, <2>3, <3>2, <3>3 DEF InOrder
  <2>5. last.at \in T /\ T \subseteq Int /\ \A y \in T : y <= last.at
    BY <1>4, <1>5, <2>3, <2>4
  <2>6. Contacts!Latest(a) = last.at
    <3>1. Contacts!Latest(a) = Contacts!Max(T)
      BY DEF Contacts!Latest
    <3> HIDE DEF T
    <3> QED
      BY <2>5, <3>1, LargestIs
  <2> QED
    BY <1>1, <1>4, <1>5, <2>3, <2>4, <2>6
<1> HIDE DEF e
<1>8. /\ calls' \in [Phone -> SUBSET Event]
      /\ calls'[a] = calls[a] \cup {e}
      /\ \A b \in Phone \ {a} : calls'[b] = calls[b]
  BY <1>1, <1>2, <1>3 DEF ContactRows
<1>9. Queued' = Queued /\ \A day : Contacts!Today(day)' = Contacts!Today(day)
  BY <1>1 DEF Queued, Contacts!Queued, Contacts!Today
<1>10. ContactRows' /\ DayHasRoom' /\ StagesShown'
  BY <1>1, <1>2, <1>8, <1>9 DEF ContactRows, DayHasRoom, StagesShown, Shows
<1>11. \A x : Happened(x) => Happened(x)'
  <2> SUFFICES ASSUME NEW x, Happened(x) PROVE Happened(x)'
    OBVIOUS
  <2>1. x \in Event /\ x \in calls[x.call] /\ x.call \in Phone
    BY EventFields DEF Happened
  <2> QED
    BY <1>8, <2>1 DEF Happened
<1>12. EventsKnown'
  BY <1>1, <1>2, <1>11 DEF EventsKnown
<1>13. RequestsRead'
  <2>1. ASSUME NEW c \in Callers, requests[c] # None PROVE Reads(requests[c])'
    <3>1. Reads(requests[c])
      BY <1>2, <2>1 DEF RequestsRead
    <3>2. CASE requests[c].op = "webhook" /\ Happened(requests[c].event)
      <4>1. PICK x : x = requests[c].event
        OBVIOUS
      <4>2. Happened(x)'
        BY <1>11, <3>2, <4>1
      <4> QED
        BY <1>1, <3>2, <4>1, <4>2 DEF Reads, Happened
    <3>3. CASE ~ (requests[c].op = "webhook" /\ Happened(requests[c].event))
      BY <1>1, <1>9, <3>1, <3>3 DEF Reads
    <3> QED
      BY <3>2, <3>3
  <2>2. Contacts!Creating' = Contacts!Creating
    BY <1>1 DEF Contacts!Creating
  <2> QED
    BY <1>1, <1>2, <2>1, <2>2 DEF RequestsRead
<1>14. CallsProceed'
  <2>1. ASSUME NEW b \in Phone
        PROVE  /\ calls'[b] # {} => b \in Queued
               /\ \A x \in calls'[b] : x.call = b
               /\ InOrder(b)'
    <3>1. CASE b = a
      <4>1. /\ calls'[b] # {} => b \in Queued
            /\ \A x \in calls'[b] : x.call = b
        BY <1>1, <1>2, <1>3, <1>8, <3>1 DEF CallsProceed
      <4>2. rank(e.type) = rank(type) /\ e.at = at /\ rank(type) \in 1 .. 4
        BY <1>3, <1>5
      <4>3. \A x \in calls[a] : rank(x.type) \in 1 .. 4 /\ x.at \in Int
        BY <1>4, <1>5
      <4>4. ASSUME NEW x \in calls'[a], NEW y \in calls'[a]
            PROVE  /\ rank(x.type) = rank(y.type) => x = y
                   /\ rank(x.type) < rank(y.type) => x.at <= y.at
        <5>1. CASE x \in calls[a] /\ y \in calls[a]
          BY <1>4, <5>1 DEF InOrder
        <5>2. CASE x \in calls[a] /\ y = e
          BY <1>6, <1>7, <4>2, <4>3, <5>2
        <5>3. CASE x = e /\ y \in calls[a]
          BY <1>6, <4>2, <4>3, <5>3
        <5>4. CASE x = e /\ y = e
          BY <4>2, <5>4
        <5> QED
          BY <1>8, <5>1, <5>2, <5>3, <5>4
      <4>5. InOrder(b)'
        BY <3>1, <4>4 DEF InOrder
      <4> QED
        BY <4>1, <4>5
    <3>2. CASE b # a
      BY <1>2, <1>8, <3>2 DEF CallsProceed, InOrder
    <3> QED
      BY <3>1, <3>2
  <2> QED
    BY <1>9, <2>1 DEF CallsProceed
<1> QED
  BY <1>10, <1>12, <1>13, <1>14 DEF ContactsInv

\* Nothing of it is about protection.
LEMMA ContactsRest ==
    ASSUME ContactsInv, UNCHANGED <<attempts, calls, events, requests>> PROVE ContactsInv'
BY DEF ContactsInv, ContactRows, CallsProceed, InOrder, RequestsRead, Reads, EventsKnown, Happened,
       StagesShown, Shows, DayHasRoom, Queued, Contacts!Queued, Contacts!Today, Contacts!Creating

LEMMA ContactsInit == ContactsGiven /\ Contacts!Init => ContactsInv
<1> SUFFICES ASSUME ContactsGiven, Contacts!Init PROVE ContactsInv
  OBVIOUS
<1>1. /\ attempts = [a \in Attempted |-> None] /\ calls = [a \in Phone |-> {}]
      /\ events = {} /\ requests = [r \in Callers |-> None]
  BY DEF Contacts!Init
<1>2. Queued = {} /\ \A day : Contacts!Today(day) = {}
  BY <1>1 DEF Queued, Contacts!Queued, Contacts!Today
<1>3. IsFiniteSet({}) /\ Cardinality({}) = 0 /\ Limit \in Nat
  BY FS_EmptySet DEF ContactsGiven, Contacts!ContactAssumption
<1>4. ContactRows
  BY <1>1, <1>2, <1>3 DEF ContactRows
<1>5. CallsProceed /\ RequestsRead /\ EventsKnown /\ StagesShown
  BY <1>1, <1>2 DEF CallsProceed, InOrder, RequestsRead, EventsKnown, StagesShown, Contacts!Creating
<1>6. DayHasRoom
  BY <1>2, <1>3 DEF DayHasRoom
<1> QED
  BY <1>4, <1>5, <1>6 DEF ContactsInv

LEMMA ContactsNext ==
    ContactsGiven /\ ContactsInv /\ [Contacts!Next]_(Contacts!vars) => ContactsInv'
<1> SUFFICES ASSUME ContactsGiven, ContactsInv, [Contacts!Next]_(Contacts!vars) PROVE ContactsInv'
  OBVIOUS
<1>1. CASE UNCHANGED Contacts!vars
  BY <1>1, ContactsRest DEF Contacts!vars
<1>2. CASE Contacts!Protect
  BY <1>2, ContactsRest DEF Contacts!Protect
<1>3. ASSUME NEW e \in Contacts!Emitted, Contacts!Deliver(e) PROVE ContactsInv'
  BY <1>3, WebhookReadsInv DEF Contacts!Deliver
<1>4. ASSUME NEW a \in Attempted, Contacts!Handoff(a) \/ Contacts!Cancel(a) PROVE ContactsInv'
  BY <1>4, DecideInv DEF Contacts!Handoff, Contacts!Cancel
<1>5. ASSUME NEW r \in Callers,
             \/ \E a \in Attempted, day \in Days, previous \in Attempted \cup {None} :
                   Contacts!CreateReads(r, a, day, previous)
             \/ Contacts!CreateCommits(r) \/ Contacts!WebhookCommits(r) \/ Contacts!RequestDies(r)
      PROVE  ContactsInv'
  BY <1>5, CreateReadsInv, CreateCommitsInv, WebhookInv, DiesInv
<1>6. ASSUME NEW a \in Phone, NEW type \in Reported, NEW at \in 1 .. MaxTime,
             Contacts!CallProceeds(a, type, at)
      PROVE  ContactsInv'
  BY <1>6, ProceedsInv
<1> QED
  BY <1>1, <1>2, <1>3, <1>4, <1>5, <1>6 DEF Contacts!Next

\* The state of an attempt no operator has taken is the furthest stage of all reports.
LEMMA FollowsFromStages == ContactsGiven /\ ContactsInv => Contacts!FollowsCall
<1> SUFFICES ASSUME ContactsGiven, ContactsInv, NEW a \in Queued,
                    attempts[a].status \notin {"handoff", "blocked"}
             PROVE  rank(attempts[a].status)
                      = Contacts!Max({0} \cup {rank(e.type) : e \in {x \in events : x.call = a}})
  BY DEF Contacts!FollowsCall, Queued, rank
<1> DEFINE S == {0} \cup {rank(e.type) : e \in {x \in events : x.call = a}}
<1>1. attempts[a] \in Attempt /\ Shows(a, attempts[a])
  BY DEF ContactsInv, ContactRows, StagesShown, Queued, Contacts!Queued
<1>2. \A e \in events : rank(e.type) \in 1 .. 4
  BY EventFields DEF ContactsInv, EventsKnown, Happened
<1>3. S \subseteq Int
  BY <1>2
<1>4. rank(attempts[a].status) \in S /\ \A y \in S : y <= rank(attempts[a].status)
  <2>1. CASE attempts[a].status = "queued"
    BY <1>1, <2>1, Ranks DEF Shows
  <2>2. CASE attempts[a].status # "queued"
    <3>1. attempts[a].status \in Contacts!ALLOWED_EVENTS
      BY <1>1, <2>2 DEF Attempt, Contacts!Attempt
    <3>2. PICK e \in events : e.call = a /\ e.type = attempts[a].status
      BY <1>1, <3>1 DEF Shows
    <3>3. 0 <= rank(attempts[a].status)
      BY <3>1, RankRange
    <3>4. rank(attempts[a].status) \in S
      BY <3>2
    <3>5. \A x \in events : x.call = a => rank(x.type) <= rank(attempts[a].status)
      BY <1>1, <3>1 DEF Shows
    <3> QED
      BY <3>3, <3>4, <3>5
  <2> QED
    BY <2>1, <2>2
<1> HIDE DEF S
<1>5. Contacts!Max(S) = rank(attempts[a].status)
  BY <1>3, <1>4, LargestIs
<1> QED
  BY <1>5 DEF S

-----------------------------------------------------------------------------
(* What a step may not do to an attempt *)

LEMMA StandsStep ==
    ASSUME ContactsGiven, ContactsInv, [Contacts!Next]_(Contacts!vars), NEW a \in Queued
    PROVE  /\ attempts[a].status \in Contacts!Ended \cup {"blocked"} => attempts'[a] = attempts[a]
           /\ attempts[a].status = "handoff" => attempts'[a].status \in {"handoff", "blocked"}
<1>1. a \in Attempted /\ attempts \in [Attempted -> Attempt \cup {None}] /\ attempts[a] \in Attempt
  BY DEF ContactsInv, ContactRows, Queued, Contacts!Queued
<1>2. CASE attempts' = attempts
  BY <1>2
<1>3. ASSUME NEW b \in Attempted, NEW status \in {"handoff", "blocked"}, Contacts!Decide(b, status)
      PROVE  /\ attempts[a].status \in Contacts!Ended \cup {"blocked"} => attempts'[a] = attempts[a]
             /\ attempts[a].status = "handoff" => attempts'[a].status \in {"handoff", "blocked"}
  <2>1. /\ attempts[b].status \notin Contacts!Ended \cup {"blocked"}
        /\ attempts' = [attempts EXCEPT ![b].status = status]
    BY <1>3 DEF Contacts!Decide, Contacts!Undecided
  <2>2. CASE b = a
    BY <1>1, <2>1, <2>2 DEF Attempt, Contacts!Attempt, Contacts!Ended
  <2>3. CASE b # a
    BY <1>1, <2>1, <2>3
  <2> QED
    BY <2>2, <2>3
<1>4. ASSUME NEW r \in Callers, Contacts!CreateCommits(r) PROVE attempts'[a] = attempts[a]
  <2>1. requests[r].attempt # a
    BY <1>4 DEF Contacts!CreateCommits, Contacts!Creating, ContactsInv, RequestsRead, Reads,
                Queued, Contacts!Queued
  <2> QED
    BY <1>1, <1>4, <2>1 DEF Contacts!CreateCommits
<1>5. ASSUME NEW r \in Callers, Contacts!WebhookCommits(r),
             attempts[a].status \in Contacts!Ended \cup {"handoff", "blocked"}
      PROVE  attempts'[a] = attempts[a]
  BY <1>1, <1>5 DEF Contacts!WebhookCommits, Contacts!Advances
<1> QED
  BY <1>2, <1>3, <1>4, <1>5 DEF Contacts!Next, Contacts!vars, Contacts!Protect, Contacts!Deliver,
     Contacts!WebhookReads, Contacts!Handoff, Contacts!Cancel, Contacts!CreateReads,
     Contacts!RequestDies, Contacts!CallProceeds

-----------------------------------------------------------------------------
(* Both parts, side by side *)

LEMMA ContactsHold == ContactsGiven
BY SettlingAssumption DEF ContactsGiven

\* The jobs leave the attempts alone.
LEMMA ContactsPart == SettlingSpec => Contacts!Init /\ [][Contacts!Next]_(Contacts!vars)
<1>1. SettlingInit => Contacts!Init
  BY DEF SettlingInit
<1>2. [SettlingNext]_<<vars, contactVars, part>> => [Contacts!Next]_(Contacts!vars)
  BY DEF SettlingNext, contactVars, Contacts!vars
<1> QED
  BY <1>1, <1>2, PTL DEF SettlingSpec

\* The attempts leave the jobs alone.
LEMMA QueuePart == SettlingSpec => Spec
<1>1. SettlingInit => Init
  BY DEF SettlingInit
<1>2. [SettlingNext]_<<vars, contactVars, part>> => [Next]_vars
  BY DEF SettlingNext
<1> QED
  BY <1>1, <1>2, PTL DEF SettlingSpec, Spec

\* Whatever runs at once, no day holds more attempts of a case than the limit; and an attempt
\* shows the furthest stage of its call that was reported, in whatever order the provider's
\* reports arrive and however often, by seconds that may be the same.
THEOREM AttemptsStayTrue == SettlingSpec => []AttemptsAreTrue
<1>1. ContactsInv => Contacts!DailyCap
  BY ContactCounts DEF ContactsInv, DayHasRoom, Contacts!DailyCap
<1>2. ContactsInv => AttemptsAreTrue
  BY <1>1, FollowsFromStages, ContactsHold DEF AttemptsAreTrue
<1>3. Contacts!Init => ContactsInv
  BY ContactsInit, ContactsHold
<1>4. ContactsInv /\ [Contacts!Next]_(Contacts!vars) => ContactsInv'
  BY ContactsNext, ContactsHold
<1> QED
  BY <1>2, <1>3, <1>4, ContactsPart, PTL

\* A finished or cancelled attempt keeps its state, and one handed to an operator can only be
\* cancelled, whatever reports of its call are still on their way.
THEOREM DecisionsAreKept == SettlingSpec => DecisionsStand
<1>1. Contacts!Init => ContactsInv
  BY ContactsInit, ContactsHold
<1>2. ContactsInv /\ [Contacts!Next]_(Contacts!vars) => ContactsInv'
  BY ContactsNext, ContactsHold
<1>3. ContactsInv /\ [Contacts!Next]_(Contacts!vars) =>
        [\A a \in Contacts!Queued :
          /\ attempts[a].status \in Contacts!Ended \cup {"blocked"} => attempts'[a] = attempts[a]
          /\ attempts[a].status = "handoff" => attempts'[a].status \in {"handoff", "blocked"}
        ]_(Contacts!vars)
  BY StandsStep, ContactsHold DEF Queued
<1> QED
  BY <1>1, <1>2, <1>3, ContactsPart, PTL DEF DecisionsStand, Contacts!DecisionsStand

\* The queue implements numbered tickets, beside the attempts.
THEOREM QueueImplementsTickets == SettlingSpec => TicketsSpec
BY QueuePart, ImplementsTickets, PTL

-----------------------------------------------------------------------------
(***************************************************************************)
(* The gate, for every set of services and of requests, of which one at a  *)
(* time saves configurations.                                              *)
(*                                                                         *)
(* A version identifies the settings of a service.  The inductive          *)
(* invariant says that this holds of everything a request or a report      *)
(* still remembers of a row (Known): a request that lags behind shows an   *)
(* older version, never the present one with other settings.               *)
(***************************************************************************)
GateRow == [version : Nat, settings : Nat, connected : BOOLEAN]

SelfReport == [passed : BOOLEAN, fresh : BOOLEAN,
               versions : [Services -> Nat], settings : [Services -> Nat]]

State == [enabled : BOOLEAN, report : SelfReport, snapshot : [Services -> Nat]]

\* What is remembered of a service: an older version, or its present settings.
Known(s, version, settings) ==
    /\ version <= config[s].version
    /\ version = config[s].version => settings = config[s].settings

KnownReport(report) == \A s \in Services : Known(s, report.versions[s], report.settings[s])

KnownRows(rows) ==
    /\ DOMAIN rows \subseteq Services
    /\ \A s \in DOMAIN rows :
          rows[s] \in GateRow /\ Known(s, rows[s].version, rows[s].settings)

\* What a request has read.
Carries(r, q) ==
    /\ q.at \in {"idle", "read", "loaded"}
    /\ q.at # "idle" => KnownRows(q.rows)
    /\ q.at = "loaded" => q.state \in State /\ KnownReport(q.state.report)
    /\ q.at # "idle" /\ q.kind # "probe" /\ q.kind # "save" => DOMAIN q.rows = Services
    /\ q.at # "idle" /\ q.kind = "save" =>
          r \in Savers /\ \A s \in DOMAIN q.rows : q.rows[s].version = config[s].version

GateInv ==
    /\ config \in [Services -> GateRow]
    /\ \A s \in Services : config[s].version = 0 => config[s].settings = 0
    /\ gate \in State /\ KnownReport(gate.report)
    /\ edits \in Nat
    /\ request = [r \in Requests |-> request[r]]
    /\ \A r \in Requests : Carries(r, request[r])

-----------------------------------------------------------------------------
(* What a flush makes of a row *)

LEMMA FlushRow ==
    ASSUME NEW current \in GateRow, NEW loaded \in GateRow, NEW new \in GateRow
    PROVE  /\ Gate!Flush(current, loaded, new) \in GateRow
           /\ Gate!Flush(current, loaded, new).version =
                 IF new.version = loaded.version THEN current.version ELSE new.version
           /\ Gate!Flush(current, loaded, new).settings =
                 IF new.settings = loaded.settings THEN current.settings ELSE new.settings
BY DEF Gate!Flush, GateRow

LEMMA FlushState ==
    ASSUME NEW current \in State, NEW loaded \in State, NEW new \in State
    PROVE  /\ Gate!Flush(current, loaded, new) \in State
           /\ Gate!Flush(current, loaded, new).report \in {current.report, new.report}
BY DEF Gate!Flush, State

LEMMA DisarmedState ==
    /\ Gate!Disarmed \in State
    /\ \A s \in Services : Gate!NoReport.versions[s] = 0 /\ Gate!NoReport.settings[s] = 0
BY DEF Gate!Disarmed, State, Gate!NoReport, SelfReport

LEMMA GateInitInv == Gate!Init => GateInv
<1> SUFFICES ASSUME Gate!Init PROVE GateInv
  OBVIOUS
<1>1. /\ config \in [Services -> GateRow] /\ edits \in Nat
      /\ \A s \in Services : config[s].version = 0 => config[s].settings = 0
  BY DEF Gate!Init, GateRow
<1>2. gate \in State /\ KnownReport(gate.report)
  BY DisarmedState DEF Gate!Init, KnownReport, Known, Gate!Disarmed
<1>3. /\ request = [r \in Requests |-> request[r]]
      /\ \A r \in Requests : Carries(r, request[r])
  BY DEF Gate!Init, Carries, Gate!Idle
<1> QED
  BY <1>1, <1>2, <1>3 DEF GateInv

\* Nothing but the request itself changes: it takes in rows or a state, or is over.
LEMMA CarryInv ==
    ASSUME GateInv, NEW r \in Requests, NEW q, Carries(r, q),
           request' = [request EXCEPT ![r] = q], UNCHANGED <<config, gate, edits>>
    PROVE  GateInv'
<1>1. \A p \in Requests : request'[p] = IF p = r THEN q ELSE request[p]
  BY DEF GateInv
<1>2. \A p \in Requests : Carries(p, request'[p])
  BY <1>1 DEF GateInv
<1>3. \A p \in Requests : Carries(p, request[p])' <=> Carries(p, request'[p])
  BY DEF Carries, KnownRows, KnownReport, Known
<1>4. request' = [p \in Requests |-> request'[p]]
  BY DEF GateInv
<1> QED
  BY <1>2, <1>3, <1>4 DEF GateInv, KnownReport, Known

LEMMA IdleCarries == \A r \in Requests : Carries(r, Gate!Idle)
BY DEF Carries, Gate!Idle

LEMMA ReadsInv ==
    ASSUME GateInv, NEW r \in Requests,
           \/ \E s \in Services : Gate!SaveReads(r, s) \/ Gate!ProbeReads(r, s)
           \/ Gate!SelfTestReads(r) \/ Gate!EnableReads(r)
    PROVE  GateInv'
<1>1. PICK kind \in {"save", "probe", "self_test", "gate"}, services \in SUBSET Services :
        /\ Gate!Reads(r, kind, services)
        /\ kind = "save" => r \in Savers
        /\ kind # "probe" /\ kind # "save" => services = Services
  BY DEF Gate!SaveReads, Gate!ProbeReads, Gate!SelfTestReads, Gate!EnableReads
<1> DEFINE q == [at |-> "read", kind |-> kind, rows |-> [t \in services |-> config[t]]]
<1>2. \A t \in services : config[t] \in GateRow /\ Known(t, config[t].version, config[t].settings)
  BY DEF GateInv, GateRow, Known
<1>3. KnownRows(q.rows)
  BY <1>2 DEF KnownRows
<1>4. Carries(r, q)
  BY <1>1, <1>3 DEF Carries
<1> QED
  BY <1>1, <1>4, CarryInv DEF Gate!Reads

LEMMA LoadStateInv == ASSUME GateInv, NEW r \in Requests, Gate!LoadState(r) PROVE GateInv'
<1> DEFINE q == [at |-> "loaded", kind |-> request[r].kind, rows |-> request[r].rows, state |-> gate]
<1>1. Carries(r, q)
  BY DEF Gate!LoadState, GateInv, Carries
<1>2. request' = [request EXCEPT ![r] = q] /\ UNCHANGED <<config, gate, edits>>
  BY DEF Gate!LoadState
<1> QED
  BY <1>1, <1>2, CarryInv

LEMMA PassGateInv == ASSUME GateInv, NEW r \in Requests, Gate!PassGate(r) PROVE GateInv'
<1> DEFINE q == [at |-> "read", kind |-> "enable", rows |-> config]
<1>1. KnownRows(config) /\ DOMAIN config = Services
  BY DEF GateInv, KnownRows, Known, GateRow
<1>2. Carries(r, q)
  BY <1>1 DEF Carries
<1>3. UNCHANGED <<config, gate, edits>>
  BY DEF Gate!PassGate
<1>4. \/ request' = [request EXCEPT ![r] = q]
      \/ request' = [request EXCEPT ![r] = Gate!Idle]
  BY DEF Gate!PassGate
<1> QED
  BY <1>2, <1>3, <1>4, CarryInv, IdleCarries

LEMMA GateAbandonInv == ASSUME GateInv, NEW r \in Requests, Gate!Abandon(r) PROVE GateInv'
BY CarryInv, IdleCarries DEF Gate!Abandon, Gate!Done

-----------------------------------------------------------------------------
(* Commits *)

\* The row a request writes is its own in every column it changed.
LEMMA SaveInv ==
    ASSUME Gate!GateAssumption, GateInv, NEW r \in Requests, Gate!Save(r)
    PROVE  GateInv'
<1>1. PICK s \in DOMAIN request[r].rows :
        config' = [config EXCEPT ![s] = Gate!Flush(config[s], request[r].rows[s], Gate!Saved(request[r].rows[s]))]
  BY DEF Gate!Save
<1> DEFINE row == request[r].rows[s]
           new == Gate!Flush(config[s], row, Gate!Saved(row))
<1>2. /\ request[r].at = "loaded" /\ request[r].kind = "save"
      /\ gate' = Gate!Flush(gate, request[r].state, Gate!Disarmed)
      /\ edits' = edits + 1
      /\ request' = [request EXCEPT ![r] = Gate!Idle]
  BY DEF Gate!Save, Gate!Done
<1>3. /\ s \in Services /\ row \in GateRow /\ row.version = config[s].version
      /\ config[s] \in GateRow /\ r \in Savers
      /\ request[r].state \in State /\ KnownReport(request[r].state.report)
  BY <1>1, <1>2 DEF GateInv, Carries, KnownRows
<1>4. Gate!Saved(row) \in GateRow /\ Gate!Saved(row).version = config[s].version + 1
  BY <1>3 DEF Gate!Saved, GateRow, GateInv
<1>5. new \in GateRow /\ new.version = config[s].version + 1
  BY <1>3, <1>4, FlushRow DEF GateRow
<1> HIDE DEF row, new
<1>6. /\ config' \in [Services -> GateRow]
      /\ config'[s].version = config[s].version + 1
      /\ \A t \in Services \ {s} : config'[t] = config[t]
  BY <1>1, <1>3, <1>5 DEF GateInv, row, new
<1>13. \A t \in Services : config'[t].version = 0 => config'[t].settings = 0
  BY <1>3, <1>6 DEF GateInv, GateRow
<1>7. \A t \in Services, v \in Nat : \A x : Known(t, v, x) => Known(t, v, x)'
  <2> SUFFICES ASSUME NEW t \in Services, NEW v \in Nat, NEW x, Known(t, v, x)
               PROVE  v <= config'[t].version /\ (v = config'[t].version => x = config'[t].settings)
    BY DEF Known
  <2> QED
    BY <1>3, <1>6 DEF GateInv, Known, GateRow
<1>8. gate' \in State /\ KnownReport(gate'.report)
  <2>1. ASSUME NEW t \in Services PROVE Known(t, Gate!NoReport.versions[t], Gate!NoReport.settings[t])
    <3>1. Gate!NoReport.versions[t] = 0 /\ Gate!NoReport.settings[t] = 0
      BY DisarmedState
    <3> QED
      BY <3>1 DEF Known, GateInv, GateRow
  <2> QED
    BY <1>2, <1>3, <2>1, FlushState, DisarmedState DEF GateInv, Gate!Disarmed, KnownReport
<1>9. KnownReport(gate.report)'
  BY <1>7, <1>8 DEF KnownReport, State, SelfReport
<1>10. ASSUME NEW p \in Requests \ {r} PROVE Carries(p, request[p])'
  <2>1. request'[p] = request[p] /\ Carries(p, request[p])
    BY <1>2 DEF GateInv
  <2>2. request[p].at # "idle" => request[p].kind # "save"
    BY <1>3, <2>1 DEF Carries, Gate!GateAssumption
  <2>3. request[p].at # "idle" => KnownRows(request[p].rows)'
    BY <1>7, <2>1 DEF Carries, KnownRows, GateRow
  <2>4. request[p].at = "loaded" => KnownReport(request[p].state.report)'
    BY <1>7, <2>1 DEF Carries, KnownReport, State, SelfReport
  <2> QED
    BY <2>1, <2>2, <2>3, <2>4 DEF Carries
<1>11. /\ request' = [p \in Requests |-> request'[p]]
       /\ request'[r] = Gate!Idle
  BY <1>2 DEF GateInv
<1>12. Carries(r, request[r])'
  BY <1>11 DEF Carries, Gate!Idle
<1> QED
  BY <1>2, <1>6, <1>8, <1>9, <1>10, <1>11, <1>12, <1>13 DEF GateInv

\* A row that is marked as connected keeps its version and its settings.
LEMMA ProbeInv == ASSUME GateInv, NEW r \in Requests, Gate!Probe(r) PROVE GateInv'
<1>1. PICK s \in DOMAIN request[r].rows :
        config' = [config EXCEPT ![s] = Gate!Flush(config[s], request[r].rows[s],
                                              [request[r].rows[s] EXCEPT !.connected = TRUE])]
  BY DEF Gate!Probe
<1> DEFINE row == request[r].rows[s]
           marked == [row EXCEPT !.connected = TRUE]
           new == Gate!Flush(config[s], row, marked)
<1>2. /\ request[r].at = "read" /\ UNCHANGED <<gate, edits>>
      /\ request' = [request EXCEPT ![r] = Gate!Idle]
  BY DEF Gate!Probe, Gate!Done
<1>3. s \in Services /\ row \in GateRow /\ config[s] \in GateRow
  BY <1>1, <1>2 DEF GateInv, Carries, KnownRows
<1>4. marked \in GateRow /\ marked.version = row.version /\ marked.settings = row.settings
  BY <1>3 DEF GateRow
<1> HIDE DEF marked
<1>5. new \in GateRow /\ new.version = config[s].version /\ new.settings = config[s].settings
  BY <1>3, <1>4, FlushRow
<1> HIDE DEF row, new
<1>6. /\ config' \in [Services -> GateRow]
      /\ \A t \in Services : /\ config'[t].version = config[t].version
                             /\ config'[t].settings = config[t].settings
  BY <1>1, <1>3, <1>5 DEF GateInv, row, marked, new
<1>7. \A t \in Services : \A v, x : Known(t, v, x)' <=> Known(t, v, x)
  BY <1>6 DEF Known
<1>8. KnownReport(gate.report)'
  BY <1>2, <1>7 DEF GateInv, KnownReport
<1>9. /\ request' = [p \in Requests |-> request'[p]]
      /\ \A p \in Requests : request'[p] = IF p = r THEN Gate!Idle ELSE request[p]
  BY <1>2 DEF GateInv
<1>10. ASSUME NEW p \in Requests PROVE Carries(p, request[p])'
  <2>1. CASE p = r
    BY <1>9, <2>1 DEF Carries, Gate!Idle
  <2>2. CASE p # r
    <3>1. request'[p] = request[p] /\ Carries(p, request[p])
      BY <1>9, <2>2 DEF GateInv
    <3>2. request[p].at # "idle" => KnownRows(request[p].rows)'
      BY <1>7, <3>1 DEF Carries, KnownRows
    <3>3. request[p].at = "loaded" => KnownReport(request[p].state.report)'
      BY <1>7, <3>1 DEF Carries, KnownReport
    <3>4. request[p].at # "idle" /\ request[p].kind = "save" =>
            \A t \in DOMAIN request[p].rows : request[p].rows[t].version = config'[t].version
      BY <1>6, <3>1 DEF Carries, KnownRows
    <3> QED
      BY <3>1, <3>2, <3>3, <3>4 DEF Carries
  <2> QED
    BY <2>1, <2>2
<1> QED
  BY <1>2, <1>6, <1>8, <1>9, <1>10 DEF GateInv

\* Only the state is written: a report the request remembers, or one of the rows it read.
LEMMA StateInv ==
    ASSUME GateInv, NEW r \in Requests, NEW new \in State, KnownReport(new.report),
           request[r].at = "loaded", gate' = Gate!Flush(gate, request[r].state, new),
           Gate!Done(r), UNCHANGED <<config, edits>>
    PROVE  GateInv'
<1>1. request[r].state \in State
  BY DEF GateInv, Carries
<1>2. gate' \in State /\ gate'.report \in {gate.report, new.report}
  BY <1>1, FlushState DEF GateInv
<1>3. KnownReport(gate'.report)
  BY <1>2 DEF GateInv
<1>4. /\ request' = [p \in Requests |-> request'[p]]
      /\ \A p \in Requests : request'[p] = IF p = r THEN Gate!Idle ELSE request[p]
  BY DEF GateInv, Gate!Done
<1>5. \A p \in Requests : Carries(p, request'[p])
  BY <1>4, IdleCarries DEF GateInv
<1>6. \A p \in Requests : Carries(p, request[p])' <=> Carries(p, request'[p])
  BY DEF Carries, KnownRows, KnownReport, Known
<1> QED
  BY <1>2, <1>3, <1>4, <1>5, <1>6 DEF GateInv, KnownReport, Known

LEMMA SelfTestInv == ASSUME GateInv, NEW r \in Requests, Gate!SelfTest(r) PROVE GateInv'
<1> DEFINE rows == request[r].rows
           new == [Gate!Disarmed EXCEPT !.report = Gate!Report(rows)]
<1>1. DOMAIN rows = Services /\ KnownRows(rows)
  BY DEF Gate!SelfTest, GateInv, Carries
<1>2. Gate!Report(rows) \in SelfReport /\ KnownReport(Gate!Report(rows))
  BY <1>1 DEF Gate!Report, SelfReport, Gate!Versions, Gate!AllConnected, KnownReport,
       KnownRows, GateRow
<1>3. new \in State /\ new.report = Gate!Report(rows)
  BY <1>2, DisarmedState DEF State
<1> QED
  BY <1>2, <1>3, StateInv DEF Gate!SelfTest

LEMMA EnableInv == ASSUME GateInv, NEW r \in Requests, Gate!Enable(r) PROVE GateInv'
<1> DEFINE loaded == request[r].state
           new == [loaded EXCEPT !.enabled = TRUE, !.snapshot = Gate!Versions(request[r].rows)]
<1>1. /\ DOMAIN request[r].rows = Services /\ KnownRows(request[r].rows)
      /\ loaded \in State /\ KnownReport(loaded.report)
  BY DEF Gate!Enable, GateInv, Carries
<1>2. Gate!Versions(request[r].rows) \in [Services -> Nat]
  BY <1>1 DEF Gate!Versions, KnownRows, GateRow
<1>3. new \in State /\ new.report = loaded.report
  BY <1>1, <1>2 DEF State
<1> QED
  BY <1>1, <1>3, StateInv DEF Gate!Enable

LEMMA ExpiresInv == ASSUME GateInv, Gate!ReportExpires PROVE GateInv'
<1>1. /\ gate' = [gate EXCEPT !.report.fresh = FALSE]
      /\ UNCHANGED <<config, request, edits>>
  BY DEF Gate!ReportExpires
<1>2. /\ gate' \in State
      /\ gate'.report.versions = gate.report.versions
      /\ gate'.report.settings = gate.report.settings
  BY <1>1 DEF GateInv, State, SelfReport
<1>3. KnownReport(gate.report)'
  BY <1>1, <1>2 DEF GateInv, KnownReport, Known
<1>4. \A p \in Requests : Carries(p, request[p])'
  BY <1>1 DEF GateInv, Carries, KnownRows, KnownReport, Known
<1> QED
  BY <1>1, <1>2, <1>3, <1>4 DEF GateInv

LEMMA GateNextInv == ASSUME Gate!GateAssumption PROVE GateInv /\ [Gate!Next]_(Gate!vars) => GateInv'
<1> SUFFICES ASSUME GateInv, [Gate!Next]_(Gate!vars) PROVE GateInv'
  OBVIOUS
<1>1. CASE UNCHANGED Gate!vars
  BY <1>1 DEF Gate!vars, GateInv, Carries, KnownRows, KnownReport, Known
<1>2. CASE Gate!Next
  <2>1. CASE Gate!ReportExpires
    BY <2>1, ExpiresInv
  <2>2. ASSUME NEW r \in Requests,
               \/ \/ \E s \in Services : Gate!SaveReads(r, s) \/ Gate!ProbeReads(r, s)
                  \/ Gate!SelfTestReads(r) \/ Gate!EnableReads(r)
               \/ Gate!LoadState(r) \/ Gate!PassGate(r)
               \/ Gate!Save(r) \/ Gate!Probe(r) \/ Gate!SelfTest(r)
               \/ Gate!Enable(r) \/ Gate!Abandon(r)
        PROVE  GateInv'
    BY <2>2, ReadsInv, LoadStateInv, PassGateInv, SaveInv, ProbeInv, SelfTestInv, EnableInv,
       GateAbandonInv
  <2> QED
    BY <1>2, <2>1, <2>2 DEF Gate!Next
<1> QED
  BY <1>1, <1>2

-----------------------------------------------------------------------------

\* When production calls are allowed, the self-test they rest on was of the settings every
\* service has now, for any number of services and of requests under way, whatever they read
\* before others committed.
THEOREM ReadyMeansTested == ASSUME Gate!GateAssumption PROVE Gate!Spec => []Gate!ReadyAsTested
<1>1. Gate!Init => GateInv
  BY GateInitInv
<1>2. GateInv /\ [Gate!Next]_(Gate!vars) => GateInv'
  BY GateNextInv
<1>3. GateInv => Gate!ReadyAsTested
  BY DEF GateInv, KnownReport, Known, Gate!ReadyAsTested, Gate!Ready, Gate!Testable,
       Gate!ReportCurrent, Gate!Versions
<1> QED
  BY <1>1, <1>2, <1>3, PTL DEF Gate!Spec

\* The other parts leave the gate alone.
LEMMA GatePart == ServicesSpec => Gate!Spec
<1>1. ServicesInit => Gate!Init
  BY DEF ServicesInit
<1>2. [ServicesNext]_<<vars, gateVars, agentVars, replayVars, secretVars, component>>
        => [Gate!Next]_(Gate!vars)
  BY DEF ServicesNext, gateVars, Gate!vars
<1> QED
  BY <1>1, <1>2, PTL DEF ServicesSpec, Gate!Spec

\* When production calls are allowed, the self-test they rest on was of the settings every
\* service has now, for any number of services and of requests under way, one of which saves.
THEOREM ReadyServicesAreTested == ServicesSpec => []ReadyAsTested
<1>1. Gate!GateAssumption
  BY ServicesAssumption
<1>2. Gate!Spec => []Gate!ReadyAsTested
  BY <1>1, ReadyMeansTested, PTL
<1>3. Gate!ReadyAsTested => ReadyAsTested
  BY DEF ReadyAsTested
<1> QED
  BY <1>2, <1>3, GatePart, PTL

-----------------------------------------------------------------------------
(***************************************************************************)
(* The envelopes, for every set of services, processes and references, and *)
(* any number of master keys.                                              *)
(*                                                                         *)
(* A request writes an envelope under a key it took when it was started,   *)
(* and retires one it read before others committed: what it carries must   *)
(* still be true when it commits (CarriesItsOwn, WritesAnew), and the key  *)
(* must not have been removed meanwhile (KeysAreThere).                    *)
(***************************************************************************)
Ring == [current : Nat, previous : SUBSET Nat]

Reading == [at : {"read"}, service : Services, previous : Refs \cup {None}]

Writing == [at : {"stored", "flushed"}, service : Services, previous : Refs \cup {None},
            ref : Refs, key : Nat, retires : SUBSET Refs]

SecretsTypeOK ==
    /\ reference \in [Services -> Refs \cup {None}]
    /\ secret \in [Refs -> [status : {"unused", "active", "retired"}, key : Nat]]
    /\ deployed \in Ring
    /\ keyring \in [Processes -> Ring]
    /\ saving \in [Processes -> {Secrets!Idle} \cup Reading \cup Writing]

\* A configured service has an active envelope, and one of its own.
ConfiguredIsActive ==
    \A s \in Services : reference[s] # None =>
        /\ secret[reference[s]].status = "active"
        /\ \A t \in Services : reference[t] = reference[s] => t = s

\* What a request will retire was written before, and for no other service.
CarriesItsOwn ==
    \A p \in Processes : saving[p].at # "idle" /\ saving[p].previous # None =>
        /\ secret[saving[p].previous].status # "unused"
        /\ \A t \in Services : reference[t] = saving[p].previous => t = saving[p].service

\* What a request will write is nobody else's, under the key of its process.
WritesAnew ==
    \A p \in Processes : saving[p].at \in {"stored", "flushed"} =>
        /\ secret[saving[p].ref].status = "unused"
        /\ saving[p].key = keyring[p].current
        /\ saving[p].retires \subseteq {saving[p].previous} \ {None}
        /\ \A q \in Processes :
              saving[q].at \in {"stored", "flushed"} /\ saving[q].ref = saving[p].ref => q = p

\* No key is removed that an envelope has, or that a process may write one under.
KeysAreThere ==
    /\ \A r \in Secrets!Active : secret[r].key \in Secrets!Keys(deployed)
    /\ \A p \in Processes : keyring[p].current \in Secrets!Keys(deployed)

SecretsInv == SecretsTypeOK /\ ConfiguredIsActive /\ CarriesItsOwn /\ WritesAnew /\ KeysAreThere

-----------------------------------------------------------------------------

LEMMA SecretsInitInv == ASSUME Secrets!RotationAssumption PROVE Secrets!Init => SecretsInv
BY DEF Secrets!RotationAssumption, Secrets!Init, SecretsInv, SecretsTypeOK, ConfiguredIsActive,
     CarriesItsOwn, WritesAnew,
       KeysAreThere, Secrets!Active, Secrets!Keys, Ring, Secrets!Unused, Secrets!Idle

\* A request that begins: what it reads is the service's own.
LEMMA ReadInv ==
    ASSUME Secrets!RotationAssumption, SecretsInv, NEW p \in Processes, NEW s \in Services,
           Secrets!Read(p, s)
    PROVE  SecretsInv'
<1> DEFINE new == [at |-> "read", service |-> s, previous |-> reference[s]]
<1>1. new \in Reading
  BY DEF SecretsInv, SecretsTypeOK, Reading
<1>2. /\ saving' = [saving EXCEPT ![p] = new]
      /\ UNCHANGED <<reference, secret, deployed, keyring>>
  BY DEF Secrets!Read
<1>3. SecretsTypeOK'
  BY <1>1, <1>2 DEF SecretsInv, SecretsTypeOK
<1>4. ConfiguredIsActive' /\ KeysAreThere'
  BY <1>2 DEF SecretsInv, ConfiguredIsActive, KeysAreThere, Secrets!Active, Secrets!Keys
<1>5. CarriesItsOwn'
  <2>1. ASSUME new.previous # None
        PROVE  /\ secret[new.previous].status # "unused"
               /\ \A t \in Services : reference[t] = new.previous => t = new.service
    BY <2>1 DEF SecretsInv, ConfiguredIsActive
  <2> QED
    BY <1>2, <2>1 DEF SecretsInv, SecretsTypeOK, CarriesItsOwn
<1>6. WritesAnew'
  BY <1>2 DEF SecretsInv, SecretsTypeOK, WritesAnew
<1> QED
  BY <1>3, <1>4, <1>5, <1>6 DEF SecretsInv

\* The new envelope is neither in the table nor another request's.
LEMMA StoreInv ==
    ASSUME Secrets!RotationAssumption, SecretsInv, NEW p \in Processes, Secrets!Store(p)
    PROVE  SecretsInv'
<1>1. PICK r \in {ref \in Refs : secret[ref] = Secrets!Unused} \ Secrets!Written :
        saving' = [saving EXCEPT ![p] =
                      [at |-> "stored", service |-> @.service, previous |-> @.previous, ref |-> r,
                       key |-> keyring[p].current, retires |-> Secrets!Retires(@.previous)]]
  BY DEF Secrets!Store
<1> DEFINE old == saving[p]
           new == [at |-> "stored", service |-> old.service, previous |-> old.previous, ref |-> r,
                   key |-> keyring[p].current, retires |-> Secrets!Retires(old.previous)]
<1>2. /\ old \in Reading
      /\ UNCHANGED <<reference, secret, deployed, keyring>>
  BY DEF Secrets!Store, SecretsInv, SecretsTypeOK, Secrets!Idle, Writing
<1>3. saving' = [saving EXCEPT ![p] = new]
  BY <1>1
<1>4. new \in Writing
  BY <1>1, <1>2 DEF SecretsInv, SecretsTypeOK, Reading, Writing, Ring, Secrets!Retires,
       Secrets!RotationAssumption
<1>5. SecretsTypeOK'
  BY <1>2, <1>3, <1>4 DEF SecretsInv, SecretsTypeOK
<1>6. ConfiguredIsActive' /\ KeysAreThere'
  BY <1>2 DEF SecretsInv, ConfiguredIsActive, KeysAreThere, Secrets!Active, Secrets!Keys
<1>7. CarriesItsOwn'
  BY <1>2, <1>3 DEF SecretsInv, SecretsTypeOK, CarriesItsOwn, Reading
<1>8. WritesAnew'
  <2>1. /\ secret[r].status = "unused"
        /\ \A q \in Processes : saving[q].at \in {"stored", "flushed"} => saving[q].ref # r
    BY <1>1 DEF Secrets!Written, Secrets!Unused
  <2>2. Secrets!Retires(old.previous) \subseteq {old.previous} \ {None}
    BY DEF Secrets!Retires
  <2> QED
    BY <1>2, <1>3, <2>1, <2>2 DEF SecretsInv, SecretsTypeOK, WritesAnew
<1> QED
  BY <1>5, <1>6, <1>7, <1>8 DEF SecretsInv

\* The locks change nothing of what a request carries.
LEMMA FlushInv ==
    ASSUME SecretsInv, NEW p \in Processes, Secrets!Flush(p)
    PROVE  SecretsInv'
<1>1. /\ saving[p] \in Writing
      /\ saving' = [saving EXCEPT ![p].at = "flushed"]
      /\ UNCHANGED <<reference, secret, deployed, keyring>>
  BY DEF Secrets!Flush, SecretsInv, SecretsTypeOK, Secrets!Idle, Reading
<1>2. SecretsTypeOK'
  BY <1>1 DEF SecretsInv, SecretsTypeOK, Writing
<1>3. ConfiguredIsActive' /\ KeysAreThere'
  BY <1>1 DEF SecretsInv, ConfiguredIsActive, KeysAreThere, Secrets!Active, Secrets!Keys
<1>4. \A q \in Processes :
        /\ saving'[q].at = "idle" <=> saving[q].at = "idle"
        /\ saving'[q].at \in {"stored", "flushed"} <=> saving[q].at \in {"stored", "flushed"}
        /\ saving'[q].previous = saving[q].previous /\ saving'[q].service = saving[q].service
        /\ saving'[q].ref = saving[q].ref /\ saving'[q].key = saving[q].key
        /\ saving'[q].retires = saving[q].retires
  BY <1>1 DEF Secrets!Flush, SecretsInv, SecretsTypeOK, Writing
<1>5. CarriesItsOwn'
  BY <1>1, <1>4 DEF SecretsInv, CarriesItsOwn
<1>6. WritesAnew'
  BY <1>1, <1>4 DEF SecretsInv, WritesAnew
<1> QED
  BY <1>2, <1>3, <1>5, <1>6 DEF SecretsInv

\* A commit retires no envelope but the one that was its own service's.
LEMMA CommitInv ==
    ASSUME Secrets!RotationAssumption, SecretsInv, NEW p \in Processes, Secrets!Commit(p)
    PROVE  SecretsInv'
<1> DEFINE new == saving[p]
<1>1. /\ new \in Writing
      /\ reference' = [reference EXCEPT ![new.service] = new.ref]
      /\ secret' = [r \in Refs |->
                      IF r = new.ref THEN [status |-> "active", key |-> new.key]
                      ELSE IF r \in new.retires THEN [secret[r] EXCEPT !.status = "retired"]
                      ELSE secret[r]]
      /\ saving' = [saving EXCEPT ![p] = Secrets!Idle]
      /\ UNCHANGED <<deployed, keyring>>
  BY DEF Secrets!Commit, SecretsInv, SecretsTypeOK, Secrets!Idle, Reading
<1>2. /\ secret[new.ref].status = "unused"
      /\ new.key = keyring[p].current
      /\ new.retires \subseteq {new.previous} \ {None}
      /\ \A q \in Processes \ {p} : saving[q].at \in {"stored", "flushed"} => saving[q].ref # new.ref
      /\ new.previous # None =>
            /\ secret[new.previous].status # "unused"
            /\ \A t \in Services : reference[t] = new.previous => t = new.service
  BY <1>1 DEF SecretsInv, WritesAnew, CarriesItsOwn, Writing
<1> HIDE DEF new
<1>3. \A r \in Refs : /\ secret[r].status # "unused" => secret'[r].status # "unused"
                      /\ secret[r].status = "unused" /\ r # new.ref => secret'[r].status = "unused"
  BY <1>1, <1>2 DEF SecretsInv, SecretsTypeOK, Writing
<1>4. SecretsTypeOK'
  BY <1>1 DEF SecretsInv, SecretsTypeOK, Writing
<1>5. ConfiguredIsActive'
  <2>1. \A t \in Services : reference[t] # new.ref
    BY <1>1, <1>2 DEF SecretsInv, ConfiguredIsActive, Secrets!RotationAssumption, Writing
  <2>2. \A t \in Services \ {new.service} : reference[t] # None =>
            reference[t] \in Refs /\ reference[t] # new.ref /\ reference[t] \notin new.retires
    BY <1>1, <1>2, <2>1 DEF SecretsInv, SecretsTypeOK
  <2>3. \A t \in Services \ {new.service} : reference[t] # None => secret'[reference[t]] = secret[reference[t]]
    BY <1>1, <2>2
  <2>4. /\ reference'[new.service] = new.ref /\ secret'[new.ref].status = "active"
        /\ \A t \in Services \ {new.service} : reference'[t] = reference[t]
    BY <1>1 DEF SecretsInv, SecretsTypeOK, Writing
  <2> QED
    BY <2>1, <2>2, <2>3, <2>4 DEF SecretsInv, ConfiguredIsActive
<1>6. CarriesItsOwn'
  <2> SUFFICES ASSUME NEW q \in Processes, saving'[q].at # "idle", saving'[q].previous # None
               PROVE  /\ secret'[saving'[q].previous].status # "unused"
                      /\ \A t \in Services : reference'[t] = saving'[q].previous => t = saving'[q].service
    BY DEF CarriesItsOwn
  <2>1. q # p /\ saving'[q] = saving[q]
    BY <1>1 DEF SecretsInv, SecretsTypeOK, Secrets!Idle
  <2>2. /\ saving[q].previous \in Refs
        /\ secret[saving[q].previous].status # "unused"
        /\ \A t \in Services : reference[t] = saving[q].previous => t = saving[q].service
    BY <2>1 DEF SecretsInv, SecretsTypeOK, CarriesItsOwn, Secrets!Idle, Reading, Writing
  <2>3. saving[q].previous # new.ref
    BY <1>2, <2>2
  <2> QED
    BY <1>1, <1>3, <2>1, <2>2, <2>3 DEF SecretsInv, SecretsTypeOK
<1>7. WritesAnew'
  <2>1. \A q \in Processes : saving'[q].at \in {"stored", "flushed"} =>
            /\ q # p /\ saving'[q] = saving[q]
            /\ saving[q].ref \in Refs
    BY <1>1 DEF SecretsInv, SecretsTypeOK, Secrets!Idle, Reading, Writing
  <2> QED
    BY <1>1, <1>2, <1>3, <2>1 DEF SecretsInv, WritesAnew
<1>8. KeysAreThere'
  <2>1. new.key \in Secrets!Keys(deployed)
    BY <1>2 DEF SecretsInv, KeysAreThere
  <2>2. \A r \in Refs : secret'[r].status = "active" =>
            (r = new.ref /\ secret'[r].key = new.key) \/ secret'[r] = secret[r]
    BY <1>1 DEF SecretsInv, SecretsTypeOK, Writing
  <2> QED
    BY <1>1, <2>1, <2>2 DEF SecretsInv, KeysAreThere, Secrets!Active, Secrets!Keys
<1> QED
  BY <1>4, <1>5, <1>6, <1>7, <1>8 DEF SecretsInv

\* A request that is given up, by itself or with its process, leaves nothing.
LEMMA SecretsAbandonInv ==
    ASSUME SecretsInv, NEW p \in Processes, Secrets!Abort(p) \/ Secrets!Restart(p)
    PROVE  SecretsInv'
<1>1. /\ saving' = [saving EXCEPT ![p] = Secrets!Idle]
      /\ keyring' \in {keyring, [keyring EXCEPT ![p] = deployed]}
      /\ UNCHANGED <<reference, secret, deployed>>
  BY DEF Secrets!Abort, Secrets!Restart
<1>2. SecretsTypeOK'
  BY <1>1 DEF SecretsInv, SecretsTypeOK
<1>3. \A q \in Processes : saving'[q].at # "idle" =>
        q # p /\ saving'[q] = saving[q] /\ keyring'[q] = keyring[q]
  BY <1>1 DEF SecretsInv, SecretsTypeOK, Secrets!Idle
<1>4. ConfiguredIsActive' /\ CarriesItsOwn'
  BY <1>1, <1>3 DEF SecretsInv, ConfiguredIsActive, CarriesItsOwn
<1>5. WritesAnew'
  BY <1>1, <1>3 DEF SecretsInv, WritesAnew
<1>6. KeysAreThere'
  BY <1>1 DEF SecretsInv, SecretsTypeOK, KeysAreThere, Secrets!Active, Secrets!Keys
<1> QED
  BY <1>2, <1>4, <1>5, <1>6 DEF SecretsInv

\* A new key is added to those that are there.
LEMMA IntroduceInv == ASSUME SecretsInv, Secrets!IntroduceKey PROVE SecretsInv'
<1>1. /\ deployed' = [current |-> deployed.current + 1,
                      previous |-> deployed.previous \cup {deployed.current}]
      /\ UNCHANGED <<reference, secret, keyring, saving>>
  BY DEF Secrets!IntroduceKey
<1>2. SecretsTypeOK'
  BY <1>1 DEF SecretsInv, SecretsTypeOK, Ring
<1>3. Secrets!Keys(deployed) \subseteq Secrets!Keys(deployed')
  BY <1>1 DEF Secrets!Keys
<1>4. KeysAreThere'
  BY <1>1, <1>3 DEF SecretsInv, KeysAreThere, Secrets!Active
<1>5. ConfiguredIsActive' /\ CarriesItsOwn' /\ WritesAnew'
  BY <1>1 DEF SecretsInv, ConfiguredIsActive, CarriesItsOwn, WritesAnew
<1> QED
  BY <1>2, <1>4, <1>5 DEF SecretsInv

\* Wrapping again changes keys of active envelopes, to one that is there.
LEMMA RewrapInv == ASSUME SecretsInv, Secrets!Rewrap PROVE SecretsInv'
<1>1. /\ secret' = [r \in Refs |->
                      IF r \in Secrets!Pending \ Secrets!Locked THEN [secret[r] EXCEPT !.key = deployed.current]
                      ELSE secret[r]]
      /\ UNCHANGED <<reference, deployed, keyring, saving>>
  BY DEF Secrets!Rewrap
<1>2. \A r \in Refs : /\ secret'[r].status = secret[r].status
                      /\ secret'[r].key \in {secret[r].key, deployed.current}
  BY <1>1 DEF SecretsInv, SecretsTypeOK
<1>3. SecretsTypeOK'
  BY <1>1 DEF SecretsInv, SecretsTypeOK, Ring
<1>4. ConfiguredIsActive'
  BY <1>1, <1>2 DEF SecretsInv, SecretsTypeOK, ConfiguredIsActive
<1>5. CarriesItsOwn' /\ WritesAnew'
  <2>1. \A p \in Processes : saving[p].at # "idle" => saving[p].previous \in Refs \cup {None}
    BY DEF SecretsInv, SecretsTypeOK, Secrets!Idle, Reading, Writing
  <2>2. \A p \in Processes : saving[p].at \in {"stored", "flushed"} => saving[p].ref \in Refs
    BY DEF SecretsInv, SecretsTypeOK, Secrets!Idle, Reading, Writing
  <2> QED
    BY <1>1, <1>2, <2>1, <2>2 DEF SecretsInv, CarriesItsOwn, WritesAnew
<1>6. KeysAreThere'
  BY <1>1, <1>2 DEF SecretsInv, KeysAreThere, Secrets!Active, Secrets!Keys
<1> QED
  BY <1>3, <1>4, <1>5, <1>6 DEF SecretsInv

\* When no envelope and no process has an old key, nobody can write under one.
LEMMA DropInv == ASSUME SecretsInv, Secrets!DropKeys PROVE SecretsInv'
<1>1. /\ deployed' = [deployed EXCEPT !.previous = {}]
      /\ Secrets!RolledOut /\ Secrets!Pending = {}
      /\ UNCHANGED <<reference, secret, keyring, saving>>
  BY DEF Secrets!DropKeys
<1>2. SecretsTypeOK' /\ deployed'.current = deployed.current
  BY <1>1 DEF SecretsInv, SecretsTypeOK, Ring
<1>3. /\ \A r \in Secrets!Active : secret[r].key = deployed.current
      /\ \A p \in Processes : keyring[p].current = deployed.current
  BY <1>1 DEF Secrets!Pending, Secrets!RolledOut
<1>4. KeysAreThere'
  BY <1>1, <1>2, <1>3 DEF KeysAreThere, Secrets!Active, Secrets!Keys
<1>5. ConfiguredIsActive' /\ CarriesItsOwn' /\ WritesAnew'
  BY <1>1 DEF SecretsInv, ConfiguredIsActive, CarriesItsOwn, WritesAnew
<1> QED
  BY <1>2, <1>4, <1>5 DEF SecretsInv

LEMMA SecretsNextInv ==
    ASSUME Secrets!RotationAssumption
    PROVE  SecretsInv /\ [Secrets!Next]_(Secrets!vars) => SecretsInv'
<1> SUFFICES ASSUME SecretsInv, [Secrets!Next]_(Secrets!vars) PROVE SecretsInv'
  OBVIOUS
<1>1. CASE UNCHANGED Secrets!vars
  BY <1>1 DEF Secrets!vars, SecretsInv, SecretsTypeOK, ConfiguredIsActive, CarriesItsOwn,
       WritesAnew, KeysAreThere,
              Secrets!Active, Secrets!Keys
<1>2. CASE Secrets!Next
  BY <1>2, ReadInv, StoreInv, FlushInv, CommitInv, SecretsAbandonInv, IntroduceInv, RewrapInv,
       DropInv
     DEF Secrets!Next
<1> QED
  BY <1>1, <1>2

-----------------------------------------------------------------------------

\* Every credential in use can be opened by a process of the present deployment, however many
\* services, processes and keys there are, and whoever saves, fails, restarts or rotates.
THEOREM NothingIsEverLost ==
    ASSUME Secrets!RotationAssumption PROVE Secrets!Spec => []Secrets!NothingIsLost
<1>1. Secrets!Init => SecretsInv
  BY SecretsInitInv
<1>2. SecretsInv /\ [Secrets!Next]_(Secrets!vars) => SecretsInv'
  BY SecretsNextInv
<1>3. SecretsInv => Secrets!NothingIsLost
  BY Secrets!RotationAssumption DEF SecretsInv, SecretsTypeOK, ConfiguredIsActive,
       KeysAreThere, Secrets!NothingIsLost, Secrets!Active
<1> QED
  BY <1>1, <1>2, <1>3, PTL DEF Secrets!Spec

\* The other parts leave the envelopes alone.
LEMMA SecretsPart == ServicesSpec => Secrets!Spec
<1>1. ServicesInit => Secrets!Init
  BY DEF ServicesInit
<1>2. [ServicesNext]_<<vars, gateVars, agentVars, replayVars, secretVars, component>>
        => [Secrets!Next]_(Secrets!vars)
  BY DEF ServicesNext, secretVars, Secrets!vars
<1> QED
  BY <1>1, <1>2, PTL DEF ServicesSpec, Secrets!Spec

\* Every credential in use can be opened by a process of the present deployment, however many
\* services, processes and keys there are, and whoever saves, fails, restarts or rotates.
THEOREM CredentialsAreKept == ServicesSpec => []NothingIsLost
<1>1. Secrets!RotationAssumption
  BY ServicesAssumption
<1>2. Secrets!Spec => []Secrets!NothingIsLost
  BY <1>1, NothingIsEverLost, PTL
<1>3. Secrets!NothingIsLost => NothingIsLost
  BY DEF NothingIsLost
<1> QED
  BY <1>2, <1>3, SecretsPart, PTL
-----------------------------------------------------------------------------
(***************************************************************************)
(* Replays, for any number of them, any costs and any limit.               *)
(*                                                                         *)
(* What is recorded may exceed the limit only by calls that were admitted  *)
(* on the same sum.  The inductive invariant counts a call in evaluation   *)
(* with the most it may record: whoever is admitted last found room for    *)
(* itself, and no more than the others were at work.                       *)
(***************************************************************************)
Admitted == [status : {"admitted"}, version : Nat, used : Nat]
Called == [status : {"called"}, version : Nat, used : Nat, cost : Nat]
Completed == [status : {"completed"}, version : Nat, used : Nat, cost : 0 .. MaxCost]

ReplayRow ==
    {Replaying!NotQueued, Replaying!Failed} \cup [status : {"queued"}, version : Nat]
        \cup Admitted \cup Called \cup Completed

Pinned(row) ==
    row.status \in {"admitted", "called", "completed"} => row.used = row.version

ReplaysKnown ==
    /\ model \in [version : Nat, connected : BOOLEAN]
    /\ replay \in [Replays -> ReplayRow]
    /\ \A p \in Replays : Pinned(replay[p])

SpendLeavesRoom ==
    Replaying!Spent + MaxCost * Cardinality(Replaying!Evaluating)
        <= DailyLimit + (Replayers - 1) * MaxCost

ReplaysInv == ReplaysKnown /\ SpendLeavesRoom

Sizes == /\ IsFiniteSet(Replays)
         /\ Replayers \in Nat \ {0} /\ MaxCost \in Nat /\ DailyLimit \in Nat

LEMMA SizesHold == Sizes
BY ServicesAssumption DEF Replaying!ReplaysAssumption, Sizes, Replaying!IsFiniteSet, IsFiniteSet

-----------------------------------------------------------------------------
(* What is spent, as a sum *)

Cost(row) == IF row.status = "completed" THEN row.cost ELSE 0

Costs(rows) == [p \in Replays |-> Cost(rows[p])]

SumsCosts(g, rows) ==
    g = [s \in SUBSET Replays |->
            IF s = {} THEN 0 ELSE Cost(rows[Chosen(s)]) + g[s \ {Chosen(s)}]]

\* What the fold over the rows of the day evaluates to.
CostOf(rows) == (CHOOSE g : SumsCosts(g, rows))[Replays]

LEMMA CostIsTotal == ASSUME Sizes, NEW rows PROVE CostOf(rows) = Total(Costs(rows), Replays)
<1>1. \A g : SumsCosts(g, rows) <=> IsSum(g, Costs(rows), Replays)
  <2>1. \A s \in SUBSET Replays : s # {} => Costs(rows)[Chosen(s)] = Cost(rows[Chosen(s)])
    BY ChosenIn DEF Costs
  <2>2. ASSUME NEW g
        PROVE  [s \in SUBSET Replays |->
                  IF s = {} THEN 0 ELSE Cost(rows[Chosen(s)]) + g[s \ {Chosen(s)}]]
               = [s \in SUBSET Replays |->
                  IF s = {} THEN 0 ELSE Costs(rows)[Chosen(s)] + g[s \ {Chosen(s)}]]
    BY <2>1
  <2> QED
    BY <2>2 DEF IsSum, SumsCosts
<1>2. \E g : IsSum(g, Costs(rows), Replays)
  BY TotalIsSum DEF Sizes
<1>3. SumsCosts((CHOOSE g : SumsCosts(g, rows)), rows)
  BY <1>1, <1>2
<1>4. IsSum((CHOOSE g : SumsCosts(g, rows)), Costs(rows), Replays)
  BY <1>1, <1>3
<1> QED
  BY <1>4, TotalWithin DEF CostOf, Sizes

LEMMA SpentIsCost ==
    Replaying!Spent = CostOf(replay) /\ Replaying!Spent' = CostOf(replay')
BY DEF Replaying!Spent, Replaying!MapThenSumSet, Replaying!MapThenFoldSet, Replaying!Recorded,
       CostOf, SumsCosts, Cost, Chosen

LEMMA SpentIsTotal ==
    ASSUME Sizes
    PROVE  /\ Replaying!Spent = Total(Costs(replay), Replays)
           /\ Replaying!Spent' = Total(Costs(replay'), Replays)
BY SpentIsCost, CostIsTotal

\* What one replay adds.
LEMMA SpentChanges ==
    ASSUME Sizes, NEW p \in Replays, NEW row, replay' = [replay EXCEPT ![p] = row],
           replay \in [Replays -> ReplayRow], row \in ReplayRow
    PROVE  /\ Replaying!Spent \in Int /\ Replaying!Spent' \in Int
           /\ Cost(replay[p]) \in Nat /\ Cost(row) \in 0 .. MaxCost
           /\ Replaying!Spent' = Replaying!Spent - Cost(replay[p]) + Cost(row)
<1>1. \A q \in ReplayRow : Cost(q) \in 0 .. MaxCost /\ Cost(q) \in Int
  BY DEF ReplayRow, Cost, Admitted, Called, Completed, Sizes, Replaying!NotQueued, Replaying!Failed
<1>2. replay' \in [Replays -> ReplayRow]
  OBVIOUS
<1>3. /\ \A q \in Replays : Costs(replay)[q] \in Int
      /\ \A q \in Replays : Costs(replay')[q] \in Int
      /\ \A q \in Replays \ {p} : Costs(replay)[q] = Costs(replay')[q]
      /\ Costs(replay)[p] = Cost(replay[p]) /\ Costs(replay')[p] = Cost(row)
  BY <1>1, <1>2 DEF Costs
<1>4. /\ Total(Costs(replay), Replays) \in Int /\ Total(Costs(replay'), Replays) \in Int
      /\ Total(Costs(replay'), Replays) =
             Total(Costs(replay), Replays) - Costs(replay)[p] + Costs(replay')[p]
  <2>1. Costs(replay)[p] \in Int /\ Costs(replay')[p] \in Int
    BY <1>3
  <2>2. \A q \in Replays \ {p} : Costs(replay)[q] = Costs(replay')[q] /\ Costs(replay)[q] \in Int
    BY <1>3
  <2>3. Total(Costs(replay), Replays) \in Int /\ Total(Costs(replay'), Replays) \in Int
    BY <1>3, TotalIsInt DEF Sizes
  <2>4. ASSUME NEW f, NEW g, f[p] \in Int, g[p] \in Int,
               \A q \in Replays \ {p} : f[q] = g[q] /\ f[q] \in Int
        PROVE  Total(g, Replays) = Total(f, Replays) - f[p] + g[p]
    BY <2>4, TotalChanged DEF Sizes
  <2> QED
    BY <2>1, <2>2, <2>3, <2>4
<1> QED
  BY <1>1, <1>3, <1>4, SpentIsTotal DEF Sizes

-----------------------------------------------------------------------------
(* Steps of replays *)

Busy == Replaying!Evaluating

IsBusy(row) == row.status \in {"admitted", "called"}

LEMMA CountIsCount == \A S : Replaying!Cardinality(S) = Cardinality(S)
BY DEF Replaying!Cardinality, Cardinality

LEMMA BusyCounts ==
    ASSUME Sizes
    PROVE  IsFiniteSet(Busy) /\ Cardinality(Busy) \in Nat
<1>1. Busy \in SUBSET Replays
  BY DEF Busy, Replaying!Evaluating
<1> QED
  BY <1>1, FS_Subset, FS_CardinalityType DEF Sizes

LEMMA WithoutOne ==
    ASSUME NEW S, NEW p, IsFiniteSet(S)
    PROVE  /\ Cardinality(S \ {p}) \in Nat
           /\ p \in S => Cardinality(S) = Cardinality(S \ {p}) + 1
           /\ p \notin S => S \ {p} = S
<1>1. Cardinality(S) \in Nat
  BY FS_CardinalityType
<1>2. IsFiniteSet(S \ {p}) /\ Cardinality(S \ {p}) \in Nat
  BY FS_RemoveElement, FS_CardinalityType
<1>3. p \in S => Cardinality(S \ {p}) = Cardinality(S) - 1
  BY FS_RemoveElement
<1>4. p \notin S => S \ {p} = S
  OBVIOUS
<1> QED
  BY <1>1, <1>2, <1>3, <1>4

\* Counting calls with the most they may record.
LEMMA Reserve ==
    ASSUME NEW m \in Nat, NEW k \in Nat
    PROVE  /\ m * k \in Nat /\ m * (k + 1) = m * k + m
           /\ \A n \in Nat : k <= n => m * k <= m * n
OBVIOUS

\* One replay changes, as a row may.
LEMMA OneReplay ==
    ASSUME Sizes, ReplaysInv, NEW p \in Replays, NEW row, row \in ReplayRow, Pinned(row),
           replay' = [replay EXCEPT ![p] = row], UNCHANGED model,
           ~ IsBusy(replay[p]) => ~ IsBusy(row),
           IsBusy(row) => Cost(row) = 0 /\ Cost(replay[p]) = 0,
           ~ IsBusy(replay[p]) => Cost(row) <= Cost(replay[p])
    PROVE  ReplaysInv'
<1>1. ReplaysKnown'
  BY DEF ReplaysInv, ReplaysKnown
<1>2. /\ Replaying!Spent \in Int /\ Replaying!Spent' \in Int
      /\ Cost(replay[p]) \in Nat /\ Cost(row) \in 0 .. MaxCost
      /\ Replaying!Spent' = Replaying!Spent - Cost(replay[p]) + Cost(row)
  BY SpentChanges DEF ReplaysInv, ReplaysKnown
<1>3. Busy' = IF IsBusy(row) THEN Busy ELSE Busy \ {p}
  BY DEF Busy, Replaying!Evaluating, IsBusy, ReplaysInv, ReplaysKnown
<1>4. p \in Busy <=> IsBusy(replay[p])
  BY DEF Busy, Replaying!Evaluating, IsBusy
<1>5. IsFiniteSet(Busy) /\ Cardinality(Busy) \in Nat
  BY BusyCounts
<1>6. /\ Cardinality(Busy \ {p}) \in Nat
      /\ p \in Busy => Cardinality(Busy) = Cardinality(Busy \ {p}) + 1
      /\ p \notin Busy => Busy \ {p} = Busy
  BY <1>5, WithoutOne
<1>7. Replaying!Spent' + MaxCost * Cardinality(Busy') <= Replaying!Spent + MaxCost * Cardinality(Busy)
  <2>1. CASE IsBusy(row)
    <3>1. Busy' = Busy /\ Replaying!Spent' = Replaying!Spent
      BY <1>2, <1>3, <2>1
    <3>2. MaxCost * Cardinality(Busy) \in Nat
      BY <1>5, Reserve DEF Sizes
    <3> QED
      BY <1>2, <3>1, <3>2
  <2>2. CASE ~ IsBusy(row) /\ p \in Busy
    <3>1. /\ MaxCost * Cardinality(Busy) = MaxCost * Cardinality(Busy \ {p}) + MaxCost
          /\ MaxCost * Cardinality(Busy \ {p}) \in Nat
      BY <1>6, <2>2, Reserve DEF Sizes
    <3>2. Busy' = Busy \ {p}
      BY <1>3, <2>2
    <3> QED
      BY <1>2, <3>1, <3>2 DEF Sizes
  <2>3. CASE ~ IsBusy(row) /\ p \notin Busy
    <3>1. Busy' = Busy /\ Cost(row) <= Cost(replay[p])
      BY <1>3, <1>4, <1>6, <2>3
    <3>2. MaxCost * Cardinality(Busy) \in Nat
      BY <1>5, Reserve DEF Sizes
    <3> QED
      BY <1>2, <3>1, <3>2 DEF Sizes
  <2> QED
    BY <1>3, <1>4, <2>1, <2>2, <2>3
<1>8. SpendLeavesRoom'
  <2>1. /\ MaxCost * Cardinality(Busy) \in Nat /\ (Replayers - 1) * MaxCost \in Int
        /\ MaxCost * Cardinality(Busy') \in Int
    <3>1. Cardinality(Busy') \in Nat
      BY <1>3, <1>5, <1>6
    <3> QED
      BY <1>5, <3>1, Reserve DEF Sizes
  <2>2. Replaying!Spent + MaxCost * Cardinality(Busy) <= DailyLimit + (Replayers - 1) * MaxCost
    BY CountIsCount DEF ReplaysInv, SpendLeavesRoom, Busy
  <2>3. Replaying!Spent' + MaxCost * Cardinality(Busy') <= DailyLimit + (Replayers - 1) * MaxCost
    BY <1>2, <1>7, <2>1, <2>2 DEF Sizes
  <2> QED
    BY <2>3, CountIsCount DEF SpendLeavesRoom, Busy
<1> QED
  BY <1>1, <1>8 DEF ReplaysInv

\* Steps on the configuration leave the replays alone.
LEMMA ConfigureInv ==
    ASSUME ReplaysInv, replay' = replay, model' \in [version : Nat, connected : BOOLEAN]
    PROVE  ReplaysInv'
<1>1. Replaying!Spent' = Replaying!Spent
  BY SpentIsCost
<1>2. Replaying!Evaluating' = Replaying!Evaluating
  BY DEF Replaying!Evaluating
<1> QED
  BY <1>1, <1>2 DEF ReplaysInv, ReplaysKnown, SpendLeavesRoom

\* Rows of each kind.
LEMMA Rows ==
    ASSUME Sizes, NEW v \in Nat, NEW u \in Nat, NEW c \in Nat
    PROVE  /\ [status |-> "queued", version |-> v] \in ReplayRow
           /\ [status |-> "admitted", version |-> v, used |-> u] \in ReplayRow
           /\ [status |-> "called", version |-> v, used |-> u, cost |-> c] \in ReplayRow
           /\ c <= MaxCost =>
                 [status |-> "completed", version |-> v, used |-> u, cost |-> c] \in ReplayRow
           /\ Replaying!Failed \in ReplayRow
BY DEF ReplayRow, Admitted, Called, Completed, Sizes

LEMMA RowKinds ==
    ASSUME NEW row \in ReplayRow
    PROVE  /\ row.status = "queued" => row.version \in Nat
           /\ row.status = "admitted" => row \in Admitted
           /\ row.status = "called" => row \in Called
           /\ row.status \in {"queued", "admitted", "called"} => Cost(row) = 0
           /\ row = Replaying!NotQueued => Cost(row) = 0 /\ ~ IsBusy(row)
BY DEF ReplayRow, Admitted, Called, Completed, Replaying!NotQueued, Replaying!Failed, Cost, IsBusy

LEMMA FailedCosts == Cost(Replaying!Failed) = 0 /\ ~ IsBusy(Replaying!Failed) /\ Pinned(Replaying!Failed)
BY DEF Cost, IsBusy, Pinned, Replaying!Failed

LEMMA QueueInv == ASSUME Sizes, ReplaysInv, NEW p \in Replays, Replaying!Queue(p) PROVE ReplaysInv'
<1> DEFINE row == [status |-> "queued", version |-> model.version]
<1>1. /\ replay[p] = Replaying!NotQueued /\ UNCHANGED model
      /\ replay' = [replay EXCEPT ![p] = row]
  BY DEF Replaying!Queue
<1>2. row \in ReplayRow
  BY Rows DEF ReplaysInv, ReplaysKnown
<1>3. Cost(row) = 0 /\ ~ IsBusy(row) /\ Pinned(row)
  BY DEF Cost, IsBusy, Pinned
<1>4. Cost(replay[p]) = 0 /\ ~ IsBusy(replay[p])
  BY <1>1, RowKinds DEF ReplaysInv, ReplaysKnown
<1> HIDE DEF row
<1>5. Cost(row) <= Cost(replay[p])
  BY <1>3, <1>4
<1> QED
  BY <1>1, <1>2, <1>3, <1>4, <1>5, OneReplay

LEMMA FailInv == ASSUME Sizes, ReplaysInv, NEW p \in Replays, Replaying!FailReplay(p) PROVE ReplaysInv'
<1>1. /\ IsBusy(replay[p]) /\ UNCHANGED model
      /\ replay' = [replay EXCEPT ![p] = Replaying!Failed]
  BY DEF Replaying!FailReplay, Replaying!Evaluating, IsBusy
<1>2. Replaying!Failed \in ReplayRow
  BY Rows
<1> QED
  BY <1>1, <1>2, FailedCosts, OneReplay

LEMMA CallInv == ASSUME Sizes, ReplaysInv, NEW p \in Replays, Replaying!Call(p) PROVE ReplaysInv'
<1>1. PICK cost \in 0 .. MaxCost + 1 :
          replay' = [replay EXCEPT ![p] = [status |-> "called", version |-> @.version,
                                           used |-> @.used, cost |-> cost]]
  BY DEF Replaying!Call
<1> DEFINE row == [status |-> "called", version |-> replay[p].version,
                   used |-> replay[p].used, cost |-> cost]
<1>2. /\ replay[p].status = "admitted" /\ UNCHANGED model
      /\ replay' = [replay EXCEPT ![p] = row]
  BY <1>1 DEF Replaying!Call, ReplaysInv, ReplaysKnown
<1>3. replay[p] \in Admitted /\ Pinned(replay[p]) /\ Cost(replay[p]) = 0
  BY <1>2, RowKinds DEF ReplaysInv, ReplaysKnown
<1>4. replay[p].version \in Nat /\ replay[p].used = replay[p].version /\ IsBusy(replay[p])
  BY <1>2, <1>3 DEF Admitted, Pinned, IsBusy
<1>5. row \in ReplayRow
  <2>1. cost \in Nat
    BY DEF Sizes
  <2> QED
    BY <1>4, <2>1, Rows
<1>6. Cost(row) = 0 /\ Pinned(row)
  BY <1>4 DEF Cost, Pinned
<1> HIDE DEF row
<1> QED
  BY <1>2, <1>3, <1>4, <1>5, <1>6, OneReplay

LEMMA CompleteInv == ASSUME Sizes, ReplaysInv, NEW p \in Replays, Replaying!Complete(p) PROVE ReplaysInv'
<1> DEFINE row == [replay[p] EXCEPT !.status = "completed"]
<1>1. /\ replay[p].status = "called" /\ replay[p].cost <= MaxCost /\ UNCHANGED model
      /\ replay' = [replay EXCEPT ![p] = row]
  BY DEF Replaying!Complete
<1>2. replay[p] \in Called /\ Pinned(replay[p]) /\ IsBusy(replay[p])
  BY <1>1, RowKinds DEF ReplaysInv, ReplaysKnown, IsBusy
<1>3. row = [status |-> "completed", version |-> replay[p].version, used |-> replay[p].used,
             cost |-> replay[p].cost]
  BY <1>2 DEF Called
<1>4. row \in ReplayRow /\ ~ IsBusy(row) /\ Pinned(row)
  <2>1. /\ replay[p].version \in Nat /\ replay[p].used \in Nat /\ replay[p].cost \in Nat
        /\ replay[p].used = replay[p].version
    BY <1>1, <1>2 DEF Called, Pinned
  <2>2. row \in ReplayRow
    <3>1. [status |-> "completed", version |-> replay[p].version, used |-> replay[p].used,
           cost |-> replay[p].cost] \in ReplayRow
      BY <1>1, <2>1, Rows
    <3> HIDE DEF row
    <3> QED
      BY <1>3, <3>1
  <2>3. ~ IsBusy(row) /\ Pinned(row)
    BY <1>3, <2>1 DEF IsBusy, Pinned
  <2> QED
    BY <2>2, <2>3
<1> HIDE DEF row
<1> QED
  BY <1>1, <1>2, <1>4, OneReplay

\* Whoever is admitted found room for itself, beside fewer others than there are workers.
LEMMA EvaluateInv == ASSUME Sizes, ReplaysInv, NEW p \in Replays, Replaying!Evaluate(p) PROVE ReplaysInv'
<1> DEFINE row == [status |-> "admitted", version |-> replay[p].version, used |-> model.version]
<1>1. /\ replay[p].status = "queued" /\ Cardinality(Busy) < Replayers /\ UNCHANGED model
      /\ replay' = [replay EXCEPT ![p] = IF Replaying!Admits(p) THEN row ELSE Replaying!Failed]
  <2>1. replay' = [replay EXCEPT ![p] = IF Replaying!Admits(p) THEN row ELSE Replaying!Failed]
    BY DEF Replaying!Evaluate, ReplaysInv, ReplaysKnown
  <2> QED
    BY <2>1, CountIsCount DEF Replaying!Evaluate, Busy
<1>2. Cost(replay[p]) = 0 /\ ~ IsBusy(replay[p]) /\ replay[p].version \in Nat
  BY <1>1, RowKinds DEF ReplaysInv, ReplaysKnown, IsBusy
<1>3. CASE ~ Replaying!Admits(p)
  <2>1. UNCHANGED model /\ replay' = [replay EXCEPT ![p] = Replaying!Failed]
    BY <1>1, <1>3
  <2>2. Replaying!Failed \in ReplayRow
    BY Rows
  <2>3. Cost(Replaying!Failed) <= Cost(replay[p])
    BY <1>2, FailedCosts
  <2> QED
    BY <1>2, <2>1, <2>2, <2>3, FailedCosts, OneReplay
<1>4. CASE Replaying!Admits(p)
  <2>1. /\ replay' = [replay EXCEPT ![p] = row]
        /\ model.version = replay[p].version
        /\ Replaying!Spent + MaxCost <= DailyLimit
    BY <1>1, <1>4 DEF Replaying!Admits
  <2>2. row \in ReplayRow /\ Pinned(row) /\ IsBusy(row) /\ Cost(row) = 0
    <3>1. row \in ReplayRow
      BY <1>2, <2>1, Rows
    <3> QED
      BY <3>1, <2>1 DEF Pinned, IsBusy, Cost
  <2> HIDE DEF row
  <2>3. ReplaysKnown'
    BY <1>1, <2>1, <2>2 DEF ReplaysInv, ReplaysKnown
  <2>4. Replaying!Spent \in Int /\ Replaying!Spent' = Replaying!Spent
    <3>1. /\ Replaying!Spent \in Int /\ Replaying!Spent' \in Int
          /\ Replaying!Spent' = Replaying!Spent - Cost(replay[p]) + Cost(row)
      BY <2>1, <2>2, SpentChanges DEF ReplaysInv, ReplaysKnown
    <3> QED
      BY <1>2, <2>2, <3>1
  <2>5. Busy' = Busy \cup {p} /\ p \notin Busy
    BY <1>2, <2>1, <2>2 DEF Busy, Replaying!Evaluating, IsBusy, ReplaysInv, ReplaysKnown
  <2>6. /\ Cardinality(Busy') = Cardinality(Busy) + 1
        /\ Cardinality(Busy) \in Nat /\ Cardinality(Busy) <= Replayers - 1
    <3>1. IsFiniteSet(Busy) /\ Cardinality(Busy) \in Nat
      BY BusyCounts
    <3>2. Cardinality(Busy \cup {p}) = Cardinality(Busy) + 1
      BY <2>5, <3>1, FS_AddElement
    <3>3. Cardinality(Busy) <= Replayers - 1
      BY <1>1, <3>1 DEF Sizes
    <3> QED
      BY <2>5, <3>1, <3>2, <3>3
  <2>7. /\ MaxCost * (Cardinality(Busy) + 1) = MaxCost * Cardinality(Busy) + MaxCost
        /\ MaxCost * Cardinality(Busy) <= MaxCost * (Replayers - 1)
        /\ MaxCost * Cardinality(Busy) \in Nat /\ MaxCost * (Replayers - 1) \in Nat
        /\ MaxCost * (Replayers - 1) = (Replayers - 1) * MaxCost
    BY <2>6, Reserve DEF Sizes
  <2>8. Replaying!Spent' + MaxCost * Cardinality(Busy') <= DailyLimit + (Replayers - 1) * MaxCost
    BY <2>1, <2>4, <2>6, <2>7 DEF Sizes
  <2>9. SpendLeavesRoom'
    BY <2>8, CountIsCount DEF SpendLeavesRoom, Busy
  <2> QED
    BY <2>3, <2>9 DEF ReplaysInv
<1> QED
  BY <1>3, <1>4

LEMMA ReplaysInit == ASSUME Sizes, Replaying!Init PROVE ReplaysInv
<1>1. /\ model = [version |-> 1, connected |-> FALSE] /\ replay = [p \in Replays |-> Replaying!NotQueued]
  BY DEF Replaying!Init
<1>2. ReplaysKnown
  BY <1>1 DEF ReplaysKnown, ReplayRow, Pinned, Replaying!NotQueued
<1>3. \A p \in Replays : Cost(replay[p]) = 0 /\ ~ IsBusy(replay[p])
  BY <1>1 DEF Cost, IsBusy, Replaying!NotQueued
<1>4. Replaying!Spent \in Int /\ Replaying!Spent <= 0
  <2>1. \A p \in Replays : Costs(replay)[p] \in Int
    BY <1>3 DEF Costs
  <2>2. Total(Costs(replay), Replays) \in Int
    BY <2>1, TotalIsInt DEF Sizes
  <2>3. \A p \in Replays \ {} : Costs(replay)[p] <= 0
    BY <1>3 DEF Costs
  <2>4. Total(Costs(replay), Replays) <= Total(Costs(replay), {})
    BY <2>1, <2>3, TotalOfPart DEF Sizes
  <2> QED
    BY <2>2, <2>4, TotalOfNothing, SpentIsTotal
<1>5. Cardinality(Busy) = 0
  <2>1. Busy = {}
    BY <1>3 DEF Busy, Replaying!Evaluating, IsBusy
  <2> QED
    BY <2>1, FS_EmptySet
<1>6. MaxCost * 0 = 0 /\ (Replayers - 1) * MaxCost \in Nat
  BY Reserve DEF Sizes
<1>7. SpendLeavesRoom
  BY <1>4, <1>5, <1>6, CountIsCount DEF SpendLeavesRoom, Busy, Sizes
<1> QED
  BY <1>2, <1>7 DEF ReplaysInv

LEMMA ReplaysNext ==
    ASSUME Sizes
    PROVE  ReplaysInv /\ [Replaying!Next]_(Replaying!vars) => ReplaysInv'
<1> SUFFICES ASSUME ReplaysInv, [Replaying!Next]_(Replaying!vars) PROVE ReplaysInv'
  OBVIOUS
<1>1. CASE UNCHANGED Replaying!vars
  BY <1>1, ConfigureInv DEF Replaying!vars, ReplaysInv, ReplaysKnown
<1>2. CASE Replaying!Reconfigure \/ Replaying!Connect
  <2>1. replay' = replay /\ model' \in [version : Nat, connected : BOOLEAN]
    <3>1. model \in [version : Nat, connected : BOOLEAN]
      BY DEF ReplaysInv, ReplaysKnown
    <3>2. CASE Replaying!Reconfigure
      BY <3>1, <3>2 DEF Replaying!Reconfigure
    <3>3. CASE Replaying!Connect
      BY <3>1, <3>3 DEF Replaying!Connect
    <3> QED
      BY <1>2, <3>2, <3>3
  <2> QED
    BY <2>1, ConfigureInv
<1> QED
  BY <1>1, <1>2, QueueInv, EvaluateInv, CallInv, CompleteInv, FailInv DEF Replaying!Next

\* A replay calls the model in the version it was queued for, and what the replays of a day
\* record exceeds the limit by no more than the calls that were admitted side by side: however
\* many replays there are, whoever configures in between, and whatever they cost.
THEOREM SpendingStaysBounded ==
    Replaying!Spec => [](Replaying!ReplaysArePinned /\ Replaying!SpendIsBounded)
<1>1. Sizes
  BY SizesHold
<1>2. Replaying!Init => ReplaysInv
  BY <1>1, ReplaysInit
<1>3. ReplaysInv /\ [Replaying!Next]_(Replaying!vars) => ReplaysInv'
  BY <1>1, ReplaysNext
<1>4. ReplaysInv => Replaying!ReplaysArePinned
  BY DEF ReplaysInv, ReplaysKnown, Pinned, Replaying!ReplaysArePinned
<1>5. ReplaysInv => Replaying!SpendIsBounded
  <2> SUFFICES ASSUME ReplaysInv PROVE Replaying!SpendIsBounded
    OBVIOUS
  <2>1. MaxCost * Cardinality(Busy) \in Nat /\ (Replayers - 1) * MaxCost \in Int
    BY <1>1, BusyCounts, Reserve DEF Sizes
  <2>2. Replaying!Spent + MaxCost * Cardinality(Busy) <= DailyLimit + (Replayers - 1) * MaxCost
    BY CountIsCount DEF ReplaysInv, SpendLeavesRoom, Busy
  <2>3. Replaying!Spent \in Int
    <3>1. ASSUME NEW p \in Replays PROVE Costs(replay)[p] \in Int
      BY <1>1 DEF ReplaysInv, ReplaysKnown, Costs, Cost, ReplayRow, Admitted, Called, Completed,
                  Replaying!NotQueued, Replaying!Failed, Sizes
    <3> QED
      BY <1>1, <3>1, TotalIsInt, SpentIsTotal DEF Sizes
  <2> QED
    BY <1>1, <2>1, <2>2, <2>3 DEF Replaying!SpendIsBounded, Sizes
<1> QED
  BY <1>2, <1>3, <1>4, <1>5, PTL DEF Replaying!Spec

\* The other parts leave the replays alone.
LEMMA ReplaysPart == ServicesSpec => Replaying!Spec
<1>1. ServicesInit => Replaying!Init
  BY DEF ServicesInit
<1>2. [ServicesNext]_<<vars, gateVars, agentVars, replayVars, secretVars, component>>
        => [Replaying!Next]_(Replaying!vars)
  BY DEF ServicesNext, replayVars, Replaying!vars
<1> QED
  BY <1>1, <1>2, PTL DEF ServicesSpec, Replaying!Spec

\* SpendingStaysBounded, for the replays beside the other parts of the platform.
THEOREM ReplaysStayBounded == ServicesSpec => []ReplaysAreBounded
<1>1. Replaying!ReplaysArePinned /\ Replaying!SpendIsBounded => ReplaysAreBounded
  BY DEF ReplaysAreBounded
<1> QED
  BY <1>1, SpendingStaysBounded, ReplaysPart, PTL

-----------------------------------------------------------------------------
(***************************************************************************)
(* The turns of an agent session that one runner answers, whatever the     *)
(* turns, restarts and changes of the configuration.                       *)
(*                                                                         *)
(* The manager asks a process without the dialogue when its generation is  *)
(* the one of the checkpoint.  The inductive invariant says why that is    *)
(* enough (KeptKnows): the generation of a new process is one the          *)
(* checkpoint has not reached, and it reaches it only with an answer of    *)
(* that process, which by then had been given the dialogue.  What the      *)
(* runner carries through a turn is still true when it uses it (Carried),  *)
(* because nobody else commits a turn or replaces the process meanwhile.   *)
(***************************************************************************)
Checkpoint == [count : Nat, generation : Nat]

IsProcess(p) ==
    p = [generation |-> p.generation, config |-> p.config, knows |-> p.knows, open |-> p.open]

\* The process the manager keeps, on the host of the runner.
Kept(r) == entry[OnlyHost[r]]

SlotsAreKept ==
    /\ entry \in [Hosts -> Agent!Slots \cup {Agent!NoProcess}]
    /\ \A r \in Runners, h \in Hosts : h # OnlyHost[r] => entry[h] = Agent!NoProcess
    /\ processes = [p \in Agent!Slots |-> processes[p]]
    /\ \A p \in Agent!Slots : IsProcess(processes[p])

KeptKnows ==
    \A r \in Runners :
        /\ Kept(r) # Agent!NoProcess
        /\ processes[Kept(r)].generation = checkpoint.generation
        => dialogue \subseteq processes[Kept(r)].knows

\* What a runner at each stage has read, and which process it works with.
Carried(r) ==
    /\ act[r].at \in {"idle", "claimed", "loaded", "asking", "answered"}
    /\ act[r].at \in {"loaded", "asking", "answered"} => act[r].count = checkpoint.count
    /\ act[r].at \in {"loaded", "asking"} => act[r].history = dialogue
    /\ act[r].at = "loaded" => act[r].generation = checkpoint.generation
    /\ act[r].at \in {"asking", "answered"} => Kept(r) # Agent!NoProcess
    /\ act[r].at = "asking" =>
          /\ act[r].process = Kept(r)
          /\ ~ act[r].replays => dialogue \subseteq processes[Kept(r)].knows
    /\ act[r].at = "answered" =>
          /\ act[r].generation = processes[Kept(r)].generation
          /\ act[r].generation \in Nat
          /\ dialogue \cup {act[r].turn} \subseteq processes[Kept(r)].knows

TurnsInv ==
    /\ checkpoint \in Checkpoint
    /\ checkpoint.count = 0 => dialogue = {}
    /\ SlotsAreKept
    /\ \A r \in Runners : Kept(r) # Agent!NoProcess => processes[Kept(r)].generation \in Nat
    /\ KeptKnows
    /\ act = [r \in Runners |-> act[r]]
    /\ \A r \in Runners : Carried(r)

OneRunner == \A r, q \in Runners : r = q

-----------------------------------------------------------------------------
(* Slots for processes *)

LEMMA OnlyHostIsHost == \A r \in Runners : OnlyHost[r] \in Hosts
BY ServicesAssumption DEF Agent!TurnsAssumption

LEMMA SlotRange ==
    ASSUME NEW r \in Runners
    PROVE  1 \in Agent!Slots /\ 2 \in Agent!Slots /\ Agent!NoProcess \notin Agent!Slots
<1>1. IsFiniteSet(Hosts) /\ IsFiniteSet(Runners)
  BY ServicesAssumption DEF Agent!TurnsAssumption, Agent!IsFiniteSet, IsFiniteSet
<1>2. Cardinality(Hosts) \in Nat /\ Cardinality(Runners) \in Nat
  BY <1>1, FS_CardinalityType
<1>3. Cardinality(Hosts) # 0 /\ Cardinality(Runners) # 0
  BY <1>1, FS_EmptySet, OnlyHostIsHost
<1>4. Agent!Slots = 1 .. Cardinality(Hosts) + Cardinality(Runners)
  BY DEF Agent!Slots, Agent!Cardinality, Cardinality
<1> QED
  BY <1>2, <1>3, <1>4 DEF Agent!NoProcess

\* There is a slot for a new process: one is kept at most.
LEMMA FreeSlotIsFree ==
    ASSUME OneRunner, TurnsInv, NEW r \in Runners, act[r].at = "loaded"
    PROVE  Agent!FreeSlot \in Agent!Slots /\ Agent!FreeSlot # Kept(r)
<1>1. PICK p \in {1, 2} : p # Kept(r)
  OBVIOUS
<1>2. p \in Agent!Slots /\ p # Agent!NoProcess
  BY SlotRange
<1>3. \A h \in Hosts : entry[h] # p
  BY <1>1, <1>2 DEF TurnsInv, SlotsAreKept, Kept
<1>4. \A q \in Runners : act[q].at # "asking"
  BY DEF OneRunner
<1>5. \E s \in Agent!Slots :
        /\ \A h \in Hosts : entry[h] # s
        /\ \A q \in Runners : act[q].at = "asking" => act[q].process # s
  BY <1>2, <1>3, <1>4
<1> QED
  BY <1>5, OnlyHostIsHost DEF Agent!FreeSlot, Kept

-----------------------------------------------------------------------------
(* Steps of turns *)

LEMMA TurnsInit == Agent!Init => TurnsInv
<1> SUFFICES ASSUME Agent!Init PROVE TurnsInv
  OBVIOUS
<1>1. checkpoint \in Checkpoint /\ dialogue = {}
  BY DEF Agent!Init, Checkpoint
<1>2. SlotsAreKept /\ \A r \in Runners : Kept(r) = Agent!NoProcess
  BY OnlyHostIsHost DEF Agent!Init, SlotsAreKept, Kept, IsProcess, Agent!Closed
<1>3. act = [r \in Runners |-> act[r]] /\ \A r \in Runners : Carried(r)
  BY DEF Agent!Init, Agent!Idle, Carried
<1> QED
  BY <1>1, <1>2, <1>3 DEF TurnsInv, KeptKnows

\* The runner goes on, with processes, checkpoint and dialogue as they are.
LEMMA ActInv ==
    ASSUME OneRunner, TurnsInv, NEW r \in Runners, NEW doing, act' = [act EXCEPT ![r] = doing],
           UNCHANGED <<checkpoint, dialogue, entry, processes>>,
           Carried(r)'
    PROVE  TurnsInv'
<1>1. act' = [q \in Runners |-> act'[q]] /\ \A q \in Runners : q = r
  BY DEF TurnsInv, OneRunner
<1>2. \A q \in Runners : Carried(q)'
  BY <1>1
<1>3. SlotsAreKept' /\ KeptKnows'
  BY DEF TurnsInv, SlotsAreKept, KeptKnows, Kept
<1> QED
  BY <1>1, <1>2, <1>3 DEF TurnsInv, Kept

\* Steps on jobs and the configuration.
LEMMA JobsInv ==
    ASSUME TurnsInv, UNCHANGED <<checkpoint, dialogue, act, entry, processes>>
    PROVE  TurnsInv'
BY DEF TurnsInv, SlotsAreKept, KeptKnows, Kept, Carried

LEMMA ClaimsInv ==
    ASSUME OneRunner, TurnsInv, NEW r \in Runners, NEW t \in Turns, Agent!Claim(r, t)
    PROVE  TurnsInv'
<1> DEFINE doing == [at |-> "claimed", turn |-> t, attempt |-> job[t].attempt + 1]
<1>1. act' = [act EXCEPT ![r] = doing] /\ UNCHANGED <<checkpoint, dialogue, entry, processes>>
  BY DEF Agent!Claim
<1>2. act'[r].at = "claimed"
  BY <1>1 DEF TurnsInv
<1>3. Carried(r)'
  BY <1>2 DEF Carried
<1> QED
  BY <1>1, <1>3, ActInv

LEMMA LoadsInv ==
    ASSUME OneRunner, TurnsInv, NEW r \in Runners, Agent!Load(r)
    PROVE  TurnsInv'
<1> DEFINE doing == [at |-> "loaded", turn |-> act[r].turn, attempt |-> act[r].attempt,
                     count |-> checkpoint.count, generation |-> checkpoint.generation,
                     history |-> dialogue, config |-> runtime]
<1>1. act' = [act EXCEPT ![r] = doing] /\ UNCHANGED <<checkpoint, dialogue, entry, processes>>
  BY DEF Agent!Load, TurnsInv
<1>2. act'[r] = doing
  BY <1>1 DEF TurnsInv
<1>3. Carried(r)'
  BY <1>1, <1>2 DEF Carried
<1> QED
  BY <1>1, <1>3, ActInv

\* The process kept is asked; it knows the dialogue, or is given it.
LEMMA EntersInv ==
    ASSUME OneRunner, TurnsInv, NEW r \in Runners, Agent!Enter(r)
    PROVE  TurnsInv'
<1> DEFINE h == OnlyHost[r]
           asking(p, generation) ==
               [at |-> "asking", turn |-> act[r].turn, attempt |-> act[r].attempt,
                count |-> act[r].count, history |-> act[r].history, process |-> p,
                replays |-> act[r].count > 0 /\ ~ Agent!ResumesIn(act[r], generation)]
<1>1. /\ act[r].at = "loaded" /\ UNCHANGED <<checkpoint, dialogue>>
      /\ act[r].count = checkpoint.count /\ act[r].generation = checkpoint.generation
      /\ act[r].history = dialogue
      /\ checkpoint.count \in Nat /\ checkpoint.generation \in Nat
  BY DEF Agent!Enter, TurnsInv, Carried, Checkpoint
<1>2. CASE Agent!Keeps(h, act[r].config)
  <2> DEFINE doing == asking(Kept(r), processes[Kept(r)].generation)
  <2>1. act' = [act EXCEPT ![r] = doing] /\ UNCHANGED <<checkpoint, dialogue, entry, processes>>
    BY <1>1, <1>2 DEF Agent!Enter, Agent!Asks, TurnsInv, Kept
  <2>2. act'[r] = doing
    BY <2>1 DEF TurnsInv
  <2>3. Kept(r) # Agent!NoProcess
    BY <1>2 DEF Agent!Keeps, Kept
  <2>4. ASSUME ~ doing.replays PROVE dialogue \subseteq processes[Kept(r)].knows
    <3>1. CASE checkpoint.count = 0
      BY <3>1 DEF TurnsInv
    <3>2. CASE checkpoint.count > 0
      <4>1. processes[Kept(r)].generation = checkpoint.generation
        BY <1>1, <2>4, <3>2 DEF Agent!ResumesIn
      <4> QED
        BY <2>3, <4>1 DEF TurnsInv, KeptKnows
    <3> QED
      BY <1>1, <3>1, <3>2
  <2>5. Kept(r)' = Kept(r)
    BY <2>1 DEF Kept
  <2>6. Carried(r)'
    BY <1>1, <2>1, <2>2, <2>3, <2>4, <2>5 DEF Carried
  <2> QED
    BY <2>1, <2>6, ActInv
<1>3. CASE ~ Agent!Keeps(h, act[r].config)
  <2> DEFINE new == Agent!NewProcess(act[r])
             slot == Agent!FreeSlot
             doing == asking(slot, new.generation)
  <2>1. /\ act' = [act EXCEPT ![r] = doing]
        /\ entry' = [entry EXCEPT ![h] = slot]
        /\ processes' = [Agent!Close(entry[h]) EXCEPT ![slot] = new]
    BY <1>1, <1>3 DEF Agent!Enter, Agent!Asks, TurnsInv
  <2>2. slot \in Agent!Slots /\ slot # Agent!NoProcess /\ h \in Hosts
    BY <1>1, FreeSlotIsFree, SlotRange, OnlyHostIsHost
  <2>3. /\ Kept(r)' = slot
        /\ \A g \in Hosts \ {h} : entry'[g] = entry[g]
        /\ entry' \in [Hosts -> Agent!Slots \cup {Agent!NoProcess}]
    BY <2>1, <2>2 DEF Kept, TurnsInv, SlotsAreKept
  <2>4. /\ processes' = [p \in Agent!Slots |-> processes'[p]] /\ processes'[slot] = new
        /\ \A p \in Agent!Slots : IsProcess(processes'[p])
    <3>1. IsProcess(new) /\ IsProcess(Agent!Closed)
      BY DEF IsProcess, Agent!NewProcess, Agent!Closed
    <3> HIDE DEF new
    <3> QED
      BY <2>1, <2>2, <3>1 DEF Agent!Close, TurnsInv, SlotsAreKept
  <2>5. new.generation = checkpoint.generation + 1
    BY <1>1 DEF Agent!NewProcess
  <2>6. act'[r] = doing /\ act' = [q \in Runners |-> act'[q]]
    BY <2>1 DEF TurnsInv
  <2>7. ~ doing.replays => dialogue = {}
    <3>1. ~ Agent!ResumesIn(act[r], new.generation)
      BY <1>1, <2>5 DEF Agent!ResumesIn
    <3>2. checkpoint.count > 0 => doing.replays
      BY <1>1, <3>1
    <3>3. checkpoint.count = 0 => dialogue = {}
      BY DEF TurnsInv
    <3> HIDE DEF doing
    <3> QED
      BY <1>1, <3>2, <3>3
  <2> HIDE DEF new, slot
  <2>8. Carried(r)'
    BY <1>1, <2>2, <2>3, <2>6, <2>7 DEF Carried
  <2>9. \A q \in Runners : q = r
    BY DEF OneRunner
  <2>10. SlotsAreKept'
    BY <2>3, <2>4, <2>9 DEF TurnsInv, SlotsAreKept
  <2>11. KeptKnows' /\ processes'[Kept(r)'].generation \in Nat
    BY <1>1, <2>3, <2>4, <2>5, <2>9 DEF KeptKnows
  <2> QED
    BY <1>1, <2>6, <2>8, <2>9, <2>10, <2>11 DEF TurnsInv
<1> QED
  BY <1>2, <1>3

LEMMA AnswersInv ==
    ASSUME OneRunner, TurnsInv, NEW r \in Runners, Agent!Answer(r)
    PROVE  TurnsInv'
<1> DEFINE p == Kept(r)
           heard == processes[p].knows \cup {act[r].turn}
                        \cup (IF act[r].replays THEN act[r].history ELSE {})
           doing == [at |-> "answered", turn |-> act[r].turn, attempt |-> act[r].attempt,
                     count |-> act[r].count, generation |-> processes[p].generation]
<1>1. /\ act[r].at = "asking" /\ act[r].process = p /\ p # Agent!NoProcess
      /\ act[r].count = checkpoint.count /\ act[r].history = dialogue
      /\ ~ act[r].replays => dialogue \subseteq processes[p].knows
      /\ processes[p].generation \in Nat
      /\ UNCHANGED <<checkpoint, dialogue, entry>>
  BY DEF Agent!Answer, TurnsInv, Carried
<1>2. p \in Agent!Slots
  BY <1>1, OnlyHostIsHost DEF TurnsInv, SlotsAreKept, Kept
<1>3. processes' = [processes EXCEPT ![p].knows = heard]
  BY <1>1, <1>2 DEF Agent!Answer, TurnsInv, SlotsAreKept
<1>4. act' = [act EXCEPT ![r] = doing]
  BY <1>1 DEF Agent!Answer, TurnsInv
<1>5. act'[r] = doing /\ act' = [q \in Runners |-> act'[q]] /\ Kept(r)' = p
  BY <1>1, <1>4 DEF TurnsInv, Kept
<1>6. processes' = [s \in Agent!Slots |-> processes'[s]]
      /\ processes'[p].knows = heard /\ processes'[p].generation = processes[p].generation
      /\ \A s \in Agent!Slots : IsProcess(processes'[s])
  <2> DEFINE old == processes[p]
             new == [old EXCEPT !.knows = heard]
  <2>1. IsProcess(old)
    BY <1>2 DEF TurnsInv, SlotsAreKept
  <2> HIDE DEF old, heard
  <2>2. new.knows = heard /\ new.generation = old.generation /\ IsProcess(new)
    BY <2>1 DEF IsProcess
  <2>3. processes' = [processes EXCEPT ![p] = new]
    BY <1>3 DEF old
  <2> HIDE DEF new
  <2> QED
    BY <1>2, <2>2, <2>3 DEF TurnsInv, SlotsAreKept, old
<1>7. dialogue \cup {act[r].turn} \subseteq heard
  BY <1>1
<1> HIDE DEF p, heard
<1>8. Carried(r)'
  BY <1>1, <1>5, <1>6, <1>7 DEF Carried
<1>9. \A q \in Runners : q = r
  BY DEF OneRunner
<1>10. SlotsAreKept' /\ KeptKnows'
  BY <1>1, <1>5, <1>6, <1>7, <1>9 DEF TurnsInv, SlotsAreKept, KeptKnows
<1> QED
  BY <1>1, <1>5, <1>6, <1>8, <1>9, <1>10 DEF TurnsInv

LEMMA FinishesInv ==
    ASSUME OneRunner, TurnsInv, NEW r \in Runners, Agent!Finish(r)
    PROVE  TurnsInv'
<1>1. /\ act[r].at = "answered" /\ act' = [act EXCEPT ![r] = Agent!Idle]
      /\ UNCHANGED <<entry, processes>>
  BY DEF Agent!Finish
<1>2. act'[r] = Agent!Idle /\ act' = [q \in Runners |-> act'[q]]
  BY <1>1 DEF TurnsInv
<1>3. Carried(r)'
  BY <1>2 DEF Carried, Agent!Idle
<1>4. CASE UNCHANGED <<dialogue, checkpoint>>
  BY <1>1, <1>3, <1>4, ActInv
<1>5. CASE /\ dialogue' = dialogue \cup {act[r].turn}
           /\ checkpoint' = [count |-> act[r].count + 1, generation |-> act[r].generation]
  <2>1. act[r].count \in Nat /\ act[r].generation \in Nat
    BY <1>1 DEF TurnsInv, Carried, Checkpoint
  <2>2. checkpoint' \in Checkpoint /\ checkpoint'.count # 0
    BY <1>5, <2>1 DEF Checkpoint
  <2>3. \A q \in Runners : q = r
    BY DEF OneRunner
  <2>4. dialogue' \subseteq processes[Kept(r)].knows
    BY <1>1, <1>5 DEF TurnsInv, Carried
  <2>5. SlotsAreKept' /\ KeptKnows'
    BY <1>1, <2>3, <2>4 DEF TurnsInv, SlotsAreKept, KeptKnows, Kept
  <2> QED
    BY <1>1, <1>2, <1>3, <2>2, <2>3, <2>5 DEF TurnsInv, Kept
<1> QED
  BY <1>4, <1>5 DEF Agent!Finish

\* What is kept on a host may go, with what its runner was doing.
LEMMA EvictsInv ==
    ASSUME OneRunner, TurnsInv, NEW h \in Hosts,
           entry' = [entry EXCEPT ![h] = Agent!NoProcess], processes' = Agent!Close(entry[h]),
           UNCHANGED <<checkpoint, dialogue>>,
           act' = [q \in Runners |-> act'[q]],
           \A q \in Runners : act'[q] = IF OnlyHost[q] = h THEN Agent!Idle ELSE act[q]
    PROVE  TurnsInv'
<1>1. entry[h] # Agent!NoProcess => entry[h] \in Agent!Slots
  BY DEF TurnsInv, SlotsAreKept
<1>2. SlotsAreKept'
  <2>1. /\ entry' \in [Hosts -> Agent!Slots \cup {Agent!NoProcess}]
        /\ \A g \in Hosts : entry'[g] = IF g = h THEN Agent!NoProcess ELSE entry[g]
    BY DEF TurnsInv, SlotsAreKept
  <2>2. /\ processes' = [p \in Agent!Slots |-> processes'[p]]
        /\ \A p \in Agent!Slots : IsProcess(processes'[p])
    <3>1. IsProcess(Agent!Closed)
      BY DEF IsProcess, Agent!Closed
    <3> QED
      BY <1>1, <3>1 DEF TurnsInv, SlotsAreKept, Agent!Close
  <2> QED
    BY <2>1, <2>2 DEF TurnsInv, SlotsAreKept
<1>3. ASSUME NEW q \in Runners, OnlyHost[q] = h
      PROVE  Kept(q)' = Agent!NoProcess /\ Carried(q)'
  BY <1>3 DEF TurnsInv, SlotsAreKept, Kept, Carried, Agent!Idle
<1>4. ASSUME NEW q \in Runners, OnlyHost[q] # h
      PROVE  /\ Kept(q)' = Kept(q) /\ act'[q] = act[q] /\ processes' = processes
             /\ Carried(q)'
  <2>1. entry[h] = Agent!NoProcess
    BY <1>4 DEF TurnsInv, SlotsAreKept
  <2>2. Kept(q)' = Kept(q) /\ act'[q] = act[q] /\ processes' = processes
    BY <1>4, <2>1, OnlyHostIsHost DEF TurnsInv, SlotsAreKept, Kept, Agent!Close
  <2> QED
    BY <2>2 DEF TurnsInv, Carried
<1>5. KeptKnows' /\ \A q \in Runners : Kept(q)' # Agent!NoProcess => (processes[Kept(q)].generation)' \in Nat
  BY <1>3, <1>4 DEF TurnsInv, KeptKnows
<1> QED
  BY <1>2, <1>3, <1>4, <1>5 DEF TurnsInv

LEMMA FailsInv ==
    ASSUME OneRunner, TurnsInv, NEW r \in Runners, Agent!Fail(r)
    PROVE  TurnsInv'
<1>1. act' = [act EXCEPT ![r] = Agent!Idle] /\ UNCHANGED <<checkpoint, dialogue>>
  BY DEF Agent!Fail
<1>2. act'[r] = Agent!Idle /\ act' = [q \in Runners |-> act'[q]] /\ \A q \in Runners : q = r
  BY <1>1 DEF TurnsInv, OneRunner
<1>3. CASE act[r].at = "asking"
  <2>1. /\ entry' = [entry EXCEPT ![OnlyHost[r]] = Agent!NoProcess]
        /\ processes' = Agent!Close(entry[OnlyHost[r]])
    BY <1>3 DEF Agent!Fail
  <2>2. \A q \in Runners : act'[q] = IF OnlyHost[q] = OnlyHost[r] THEN Agent!Idle ELSE act[q]
    BY <1>2
  <2>3. OnlyHost[r] \in Hosts
    BY OnlyHostIsHost
  <2> QED
    BY <1>1, <1>2, <2>1, <2>2, <2>3, EvictsInv
<1>4. CASE act[r].at # "asking"
  <2>1. UNCHANGED <<processes, entry>>
    BY <1>4 DEF Agent!Fail
  <2>2. Carried(r)'
    BY <1>2 DEF Carried, Agent!Idle
  <2> QED
    BY <1>1, <2>1, <2>2, ActInv
<1> QED
  BY <1>3, <1>4

LEMMA RestartsInv ==
    ASSUME OneRunner, TurnsInv, NEW h \in Hosts, Agent!Restart(h)
    PROVE  TurnsInv'
BY EvictsInv DEF Agent!Restart

LEMMA TurnsNext ==
    ASSUME OneRunner, TurnsInv, [Agent!Next]_(Agent!vars)
    PROVE  TurnsInv'
<1>1. CASE UNCHANGED Agent!vars
  BY <1>1, JobsInv DEF Agent!vars
<1>2. ASSUME NEW t \in Turns, Agent!Send(t) \/ Agent!Recover(t) \/ Agent!Retry(t) PROVE TurnsInv'
  BY <1>2, JobsInv DEF Agent!Send, Agent!Recover, Agent!Retry
<1>3. CASE Agent!Reconfigure
  BY <1>3, JobsInv DEF Agent!Reconfigure
<1> QED
  BY <1>1, <1>2, <1>3, ClaimsInv, LoadsInv, EntersInv, AnswersInv, FinishesInv, FailsInv,
     RestartsInv DEF Agent!Next

\* A process that is asked without the dialogue being given to it has heard every committed
\* turn of it, when one runner answers the session: through every failure, restart, lost
\* lease and change of the configuration.
THEOREM ProcessesRemember == OneRunner /\ Agent!Spec => []Agent!ProcessesKnowTheDialogue
<1> SUFFICES ASSUME OneRunner PROVE Agent!Spec => []Agent!ProcessesKnowTheDialogue
  OBVIOUS
<1>1. Agent!Init => TurnsInv
  BY TurnsInit
<1>2. TurnsInv /\ [Agent!Next]_(Agent!vars) => TurnsInv'
  BY TurnsNext
<1>3. TurnsInv => Agent!ProcessesKnowTheDialogue
  BY DEF TurnsInv, Carried, Agent!ProcessesKnowTheDialogue
<1> QED
  BY <1>1, <1>2, <1>3, PTL DEF Agent!Spec

\* The other parts leave the sessions alone.
LEMMA AgentPart == ServicesSpec => Agent!Spec
<1>1. ServicesInit => Agent!Init
  BY DEF ServicesInit
<1>2. [ServicesNext]_<<vars, gateVars, agentVars, replayVars, secretVars, component>>
        => [Agent!Next]_(Agent!vars)
  BY DEF ServicesNext, agentVars, Agent!vars
<1> QED
  BY <1>1, <1>2, PTL DEF ServicesSpec, Agent!Spec

\* ProcessesRemember, for the session beside the other parts of the platform.
THEOREM SessionsRemember == OneRunner /\ ServicesSpec => []ProcessesKnowTheDialogue
<1>1. Agent!ProcessesKnowTheDialogue => ProcessesKnowTheDialogue
  BY DEF ProcessesKnowTheDialogue
<1> QED
  BY <1>1, ProcessesRemember, AgentPart, PTL

=============================================================================
