------------------------------ MODULE JobQueue ------------------------------
(***************************************************************************)
(* The durable job queue of RepayGuard: rows of table async_jobs, worker   *)
(* processes that lease, execute and finish them, the recovery of expired  *)
(* leases, and the two API requests that rewrite a row without a lock.     *)
(*                                                                         *)
(* Every action is one database transaction or one step between two of     *)
(* them.  A worker that has passed the fencing SELECT of                   *)
(* execute_claimed_job has not yet written: its UPDATE is a later action,  *)
(* and the same holds for the API requests cancel_job and retry_job, which *)
(* read a row, decide, and update it by primary key.                       *)
(*                                                                         *)
(* A lease is the number of ticks that remain before lease_expires_at;     *)
(* ticks are per job and not ordered between jobs, so two leases may run   *)
(* at any relative speed.                                                  *)
(***************************************************************************)
EXTENDS Naturals, FiniteSets

CONSTANTS
    Jobs,           \* identities of async_jobs rows
    AgentJobs,      \* the jobs whose kind is agent.turn
    Workers,        \* worker processes, identified by WORKER_ID
    Requests,       \* concurrent API requests that cancel or retry a job
    None,           \* SQL NULL
    MaxAttempts,    \* async_jobs.max_attempts
    LeaseTicks,     \* JOB_LEASE_SECONDS in ticks
    MaxCrashes      \* bound: how many worker crashes a behaviour may hold

ASSUME JobQueueAssumption ==
    /\ AgentJobs \subseteq Jobs
    /\ MaxAttempts \in Nat \ {0}
    /\ LeaseTicks \in Nat \ {0}
    /\ MaxCrashes \in Nat
    /\ None \notin Workers
    /\ None \notin Jobs
    /\ None \notin 0 .. LeaseTicks
    /\ None \notin Jobs \X (1 .. MaxAttempts)

VARIABLES
    jobs,       \* [Jobs -> row]; the committed rows
    runs,       \* [Jobs -> [attempt -> status of the AgentRun it created]]
    workers,    \* [Workers -> control state of the worker's loop]
    api,        \* [Requests -> control state of the request]
    crashes     \* number of crashes so far

vars == <<jobs, runs, workers, api, crashes>>

-----------------------------------------------------------------------------
(* Types *)

Terminal == {"succeeded", "failed", "cancelled"}
Statuses == {"absent", "queued", "running"} \cup Terminal
Attempts == 1 .. MaxAttempts

Row == [status    : Statuses,
        attempt   : 0 .. MaxAttempts,
        owner     : Workers \cup {None},
        lease     : (0 .. LeaseTicks) \cup {None},
        cancelReq : BOOLEAN,
        due       : BOOLEAN]

RunStatus == {"none", "running", "succeeded", "failed"}

\* The control points of DatabaseWorker.run_once and execute_claimed_job.
Executing == {"begin", "handler", "provider", "ok", "err", "write_ok", "write_err"}
WorkerPC == {"down", "poll", "claim"} \cup Executing

Worker == [pc      : WorkerPC,
           job     : Jobs \cup {None},
           attempt : 0 .. MaxAttempts,
           seen    : Row \cup {None}]

Request == [pc   : {"idle", "cancel", "retry"},
            job  : Jobs \cup {None},
            seen : Row \cup {None}]

AbsentRow == [status |-> "absent", attempt |-> 0, owner |-> None,
              lease |-> None, cancelReq |-> FALSE, due |-> FALSE]

IdleWorker == [pc |-> "poll", job |-> None, attempt |-> 0, seen |-> None]

IdleRequest == [pc |-> "idle", job |-> None, seen |-> None]

Init ==
    /\ jobs = [j \in Jobs |-> AbsentRow]
    /\ runs = [j \in Jobs |-> [n \in Attempts |-> "none"]]
    /\ workers = [w \in Workers |-> IdleWorker]
    /\ api = [r \in Requests |-> IdleRequest]
    /\ crashes = 0

-----------------------------------------------------------------------------
(* What the object-relational mapper writes: a unit of work that loaded    *)
(* `seen' and changed it to `new' updates, by primary key, exactly the     *)
(* columns whose value changed; the others keep what is committed.         *)
Flush(committed, seen, new) ==
    [f \in DOMAIN committed |-> IF new[f] # seen[f] THEN new[f] ELSE committed[f]]

\* clear_job_lease
Released(row) == [row EXCEPT !.owner = None, !.lease = None]

Expired(row) == row.lease = 0

SetRow(j, row) == jobs' = [jobs EXCEPT ![j] = row]

Step(w, pc) == workers' = [workers EXCEPT ![w].pc = pc]

BackToPoll(w) == workers' = [workers EXCEPT ![w] = IdleWorker]

-----------------------------------------------------------------------------
(* Enqueue and time *)

\* enqueue_job: the row exists from its insert; available_at may lie ahead.
Enqueue(j) ==
    /\ jobs[j].status = "absent"
    /\ \E due \in BOOLEAN :
         SetRow(j, [jobs[j] EXCEPT !.status = "queued", !.due = due])
    /\ UNCHANGED <<runs, workers, api, crashes>>

\* The clock reaches available_at.
BecomeDue(j) ==
    /\ jobs[j].status # "absent"
    /\ ~jobs[j].due
    /\ SetRow(j, [jobs[j] EXCEPT !.due = TRUE])
    /\ UNCHANGED <<runs, workers, api, crashes>>

\* The clock approaches lease_expires_at.
Tick(j) ==
    /\ jobs[j].lease \in 1 .. LeaseTicks
    /\ SetRow(j, [jobs[j] EXCEPT !.lease = @ - 1])
    /\ UNCHANGED <<runs, workers, api, crashes>>

-----------------------------------------------------------------------------
(* The worker's loop *)

\* Mistakes: recovery passes over jobs without attempts left, or over jobs
\* somebody asked to cancel.
Recoverable_NotExhausted(row) ==
    row.status = "running" /\ Expired(row) /\ row.attempt < MaxAttempts
Recoverable_NotCancelled(row) ==
    row.status = "running" /\ Expired(row) /\ ~row.cancelReq

Recoverable(row) == row.status = "running" /\ Expired(row)

\* Mistake: a recovered job starts with a fresh budget.
Recovered_FreshBudget(row) ==
    Released([row EXCEPT !.status = "queued", !.attempt = 0, !.due = TRUE])
Recovered(row) ==
    Released(IF row.cancelReq THEN [row EXCEPT !.status = "cancelled"]
             ELSE IF row.attempt < MaxAttempts
                  THEN [row EXCEPT !.status = "queued", !.due = TRUE]
                  ELSE [row EXCEPT !.status = "failed"])

FailRunning(s) == IF s = "running" THEN "failed" ELSE s

\* recover_stale_jobs: one transaction over every expired lease; the runs a
\* recovered job left "running" are closed with it.
Recover(w) ==
    /\ workers[w].pc = "poll"
    /\ jobs' = [j \in Jobs |->
                  IF Recoverable(jobs[j]) THEN Recovered(jobs[j]) ELSE jobs[j]]
    /\ runs' = [j \in Jobs |->
                  IF Recoverable(jobs[j])
                  THEN [n \in Attempts |-> FailRunning(runs[j][n])]
                  ELSE runs[j]]
    /\ Step(w, "claim")
    /\ UNCHANGED <<api, crashes>>

\* Mistakes: the claim forgets the attempt budget, or takes failed jobs too.
Claimable_NoBudget(j) == jobs[j].status = "queued" /\ jobs[j].due
Claimable_Failed(j) ==
    jobs[j].status \in {"queued", "failed"} /\ jobs[j].attempt < MaxAttempts /\ jobs[j].due

Claimable(j) ==
    /\ jobs[j].status = "queued"
    /\ jobs[j].attempt < MaxAttempts
    /\ jobs[j].due

\* Mistake: only a fresh job counts as a new attempt.
Claim_SameAttempt(w, j) ==
    /\ workers[w].pc = "claim"
    /\ Claimable(j)
    /\ SetRow(j, [jobs[j] EXCEPT !.status = "running", !.attempt = 1, !.owner = w,
                                 !.lease = LeaseTicks])
    /\ workers' = [workers EXCEPT ![w] = [pc |-> "begin", job |-> j,
                                          attempt |-> 1, seen |-> None]]
    /\ UNCHANGED <<runs, api, crashes>>

\* claim_job: the conditional UPDATE.  Priority and age order the candidates,
\* but rows locked by another claimer are skipped, so any of them may win.
Claim(w, j) ==
    /\ workers[w].pc = "claim"
    /\ Claimable(j)
    /\ SetRow(j, [jobs[j] EXCEPT !.status = "running", !.attempt = @ + 1, !.owner = w,
                                 !.lease = LeaseTicks, !.cancelReq = FALSE])
    /\ workers' = [workers EXCEPT ![w] = [pc |-> "begin", job |-> j,
                                          attempt |-> jobs[j].attempt + 1,
                                          seen |-> None]]
    /\ UNCHANGED <<runs, api, crashes>>

\* No candidate: run_once returns False and the loop waits for a wake-up.
ClaimNothing(w) ==
    /\ workers[w].pc = "claim"
    /\ \A j \in Jobs : ~Claimable(j)
    /\ BackToPoll(w)
    /\ UNCHANGED <<jobs, runs, api, crashes>>

\* LeaseHeartbeat._run: renews only a lease that has not yet expired.
Heartbeat(w) ==
    LET j == workers[w].job IN
    /\ workers[w].pc \in Executing
    /\ jobs[j].status = "running"
    /\ jobs[j].owner = w
    /\ jobs[j].lease \in 1 .. LeaseTicks
    /\ SetRow(j, [jobs[j] EXCEPT !.lease = LeaseTicks])
    /\ UNCHANGED <<runs, workers, api, crashes>>

-----------------------------------------------------------------------------
(* execute_claimed_job *)

Owns(w, row) == row.status = "running" /\ row.owner = w

\* The first SELECT: it asks for the owner, not for a live lease.
Begin(w) ==
    LET j == workers[w].job IN
    /\ workers[w].pc = "begin"
    /\ IF Owns(w, jobs[j])
       THEN workers' = [workers EXCEPT ![w].pc = "handler",
                                       ![w].attempt = jobs[j].attempt]
       ELSE BackToPoll(w)
    /\ UNCHANGED <<jobs, runs, api, crashes>>

\* _agent_turn commits its AgentRun before it crosses the process boundary.
CommitRun(w) ==
    /\ workers[w].pc = "handler"
    /\ workers[w].job \in AgentJobs
    /\ runs' = [runs EXCEPT ![workers[w].job][workers[w].attempt] = "running"]
    /\ Step(w, "provider")
    /\ UNCHANGED <<jobs, api, crashes>>

\* The handler returns; its writes are pending in the open transaction.
HandlerReturns(w) ==
    /\ \/ workers[w].pc = "handler" /\ workers[w].job \notin AgentJobs
       \/ workers[w].pc = "provider"
    /\ Step(w, "ok")
    /\ UNCHANGED <<jobs, runs, api, crashes>>

\* The handler raises; db.rollback() drops the pending writes.
HandlerRaises(w) ==
    /\ workers[w].pc \in {"handler", "provider"}
    /\ Step(w, "err")
    /\ UNCHANGED <<jobs, runs, api, crashes>>

\* The fencing SELECT before a terminal write.
Fenced(w, row) ==
    /\ Owns(w, row)
    /\ row.lease \in 1 .. LeaseTicks
    /\ row.attempt = workers[w].attempt

CheckFence(w) ==
    LET row == jobs[workers[w].job] IN
    /\ workers[w].pc \in {"ok", "err"}
    /\ IF Fenced(w, row)
       THEN workers' = [workers EXCEPT
                          ![w].pc = IF @ = "ok" THEN "write_ok" ELSE "write_err",
                          ![w].seen = row]
       ELSE BackToPoll(w)      \* "lease_lost"
    /\ UNCHANGED <<jobs, runs, api, crashes>>

Finished(row, status) ==
    Released([row EXCEPT !.status = IF row.cancelReq THEN "cancelled" ELSE status])

\* The terminal UPDATE and its commit: by primary key, from the row the
\* fencing SELECT returned.
FinishJob(w, status) ==
    LET j == workers[w].job
        seen == workers[w].seen
    IN SetRow(j, Flush(jobs[j], seen, Finished(seen, status)))

WriteSuccess(w) ==
    LET j == workers[w].job IN
    /\ workers[w].pc = "write_ok"
    /\ FinishJob(w, "succeeded")
    /\ runs' = IF j \in AgentJobs
               THEN [runs EXCEPT ![j][workers[w].attempt] = "succeeded"]
               ELSE runs
    /\ BackToPoll(w)
    /\ UNCHANGED <<api, crashes>>

RunningRuns(j) == {n \in Attempts : runs[j][n] = "running"}

\* The error path closes one running AgentRun of the job, whichever the
\* database returns first.
WriteFailure(w) ==
    LET j == workers[w].job IN
    /\ workers[w].pc = "write_err"
    /\ FinishJob(w, "failed")
    /\ IF RunningRuns(j) = {}
       THEN UNCHANGED runs
       ELSE \E n \in RunningRuns(j) : runs' = [runs EXCEPT ![j][n] = "failed"]
    /\ BackToPoll(w)
    /\ UNCHANGED <<api, crashes>>

\* The process dies: open transactions roll back, the lease stays behind.
Crash(w) ==
    /\ workers[w].pc # "down"
    /\ crashes < MaxCrashes
    /\ crashes' = crashes + 1
    /\ workers' = [workers EXCEPT ![w] = [IdleWorker EXCEPT !.pc = "down"]]
    /\ UNCHANGED <<jobs, runs, api>>

\* The supervisor starts it again under the same WORKER_ID.
Restart(w) ==
    /\ workers[w].pc = "down"
    /\ BackToPoll(w)
    /\ UNCHANGED <<jobs, runs, api, crashes>>

-----------------------------------------------------------------------------
(* API requests: an unlocked read, then an update by primary key *)

Load(r, j, pc) ==
    /\ api[r].pc = "idle"
    /\ api' = [api EXCEPT ![r] = [pc |-> pc, job |-> j, seen |-> jobs[j]]]
    /\ UNCHANGED <<jobs, runs, workers, crashes>>

Respond(r) == api' = [api EXCEPT ![r] = IdleRequest]

\* cancel_job returns at once when the job is terminal.
LoadForCancel(r, j) ==
    /\ jobs[j].status \in {"queued", "running"}
    /\ Load(r, j, "cancel")

\* retry_job answers 409 unless the job failed with attempts to spare.
LoadForRetry(r, j) ==
    /\ jobs[j].status = "failed"
    /\ jobs[j].attempt < MaxAttempts
    /\ Load(r, j, "retry")

\* A queued job, or one whose lease expired, is cancelled on the spot; a
\* running one is only asked to stop.  cancel_requested_at is a fresh
\* timestamp and so is always written.
Cancel(r) ==
    LET j == api[r].job
        seen == api[r].seen
        immediate == seen.status = "queued" \/ Expired(seen)
        new == IF immediate
               THEN Released([seen EXCEPT !.status = "cancelled"])
               ELSE seen
    IN /\ api[r].pc = "cancel"
       /\ SetRow(j, [Flush(jobs[j], seen, new) EXCEPT !.cancelReq = TRUE])
       /\ Respond(r)
       /\ UNCHANGED <<runs, workers, crashes>>

Retry(r) ==
    LET j == api[r].job
        seen == api[r].seen
        new == Released([seen EXCEPT !.status = "queued", !.cancelReq = FALSE, !.due = TRUE])
    IN /\ api[r].pc = "retry"
       /\ SetRow(j, Flush(jobs[j], seen, new))
       /\ Respond(r)
       /\ UNCHANGED <<runs, workers, crashes>>

-----------------------------------------------------------------------------
WorkerLoop(w) ==
    \/ Recover(w)
    \/ \E j \in Jobs : Claim(w, j)
    \/ ClaimNothing(w)
    \/ Begin(w)
    \/ CommitRun(w)
    \/ HandlerReturns(w)
    \/ HandlerRaises(w)
    \/ CheckFence(w)
    \/ WriteSuccess(w)
    \/ WriteFailure(w)

Next ==
    \/ \E j \in Jobs : Enqueue(j) \/ BecomeDue(j) \/ Tick(j)
    \/ \E w \in Workers : WorkerLoop(w) \/ Heartbeat(w) \/ Crash(w) \/ Restart(w)
    \/ \E r \in Requests :
         \/ \E j \in Jobs : LoadForCancel(r, j) \/ LoadForRetry(r, j)
         \/ Cancel(r)
         \/ Retry(r)

Spec == Init /\ [][Next]_vars

\* A live worker keeps looping and a dead one is restarted; handlers return
\* or raise (the runtimes they call have timeouts); the clock advances; a
\* request that has read its row goes on to write it.  A heartbeat may
\* always come too late and a user need not cancel or retry anything.
Fairness ==
    /\ \A w \in Workers : WF_vars(WorkerLoop(w)) /\ WF_vars(Restart(w))
    /\ \A j \in Jobs : WF_vars(Tick(j)) /\ WF_vars(BecomeDue(j))
    /\ \A r \in Requests : WF_vars(Cancel(r) \/ Retry(r))

FairSpec == Spec /\ Fairness

-----------------------------------------------------------------------------
(* Properties *)

TypeOK ==
    /\ jobs \in [Jobs -> Row]
    /\ runs \in [Jobs -> [Attempts -> RunStatus]]
    /\ workers \in [Workers -> Worker]
    /\ api \in [Requests -> Request]
    /\ crashes \in 0 .. MaxCrashes
    /\ \A w \in Workers : workers[w].pc \in Executing =>
         workers[w].job \in Jobs /\ workers[w].attempt \in Attempts
    /\ \A w \in Workers : workers[w].pc \in {"write_ok", "write_err"} =>
         workers[w].seen \in Row
    /\ \A r \in Requests : api[r].pc # "idle" =>
         api[r].job \in Jobs /\ api[r].seen \in Row

\* Recovery finds a lost job only through an expired lease, so a running row
\* must always carry an owner and a lease, whatever stale worker or API
\* update landed on it (recover_stale_jobs asks for lease_expires_at not
\* null; a row that lost it while running would be stuck for ever).
RunningIsLeased ==
    \A j \in Jobs : jobs[j].status = "running" =>
        jobs[j].owner # None /\ jobs[j].lease # None

\* No two workers ever execute the same attempt of a job, and no worker holds
\* an attempt the row has not yet reached: what makes the attempt number a
\* fencing token (claim_job, execute_claimed_job).
AttemptsAreExclusive ==
    /\ \A w \in Workers : workers[w].pc \in Executing =>
         workers[w].attempt <= jobs[workers[w].job].attempt
    /\ \A v, w \in Workers :
         /\ workers[v].pc \in Executing /\ workers[w].pc \in Executing
         /\ workers[v].job = workers[w].job
         /\ workers[v].attempt = workers[w].attempt
         => v = w

\* At most one of the workers inside a job would be let through the fence.
FenceAdmitsOne ==
    \A v, w \in Workers :
        /\ workers[v].pc \in Executing /\ workers[w].pc \in Executing
        /\ workers[v].job = workers[w].job
        /\ Fenced(v, jobs[workers[v].job]) /\ Fenced(w, jobs[workers[w].job])
        => v = w

\* A finished job is reopened by a retry request and by nothing else: neither
\* recovery, nor a claim, nor the late write of a stale worker does it.
OnlyRetryReopens ==
    [][\A j \in Jobs :
         jobs[j].status \in Terminal /\ jobs'[j].status \notin Terminal =>
           \E r \in Requests : api[r].pc = "retry" /\ api[r].job = j /\ api'[r].pc = "idle"]_vars

\* Leases exclude although they expire while their workers go on: recovery can always find
\* a lost job, and of the workers left in it one at most may still write its result.
LeasesExclude == RunningIsLeased /\ AttemptsAreExclusive /\ FenceAdmitsOne

\* RELEASE_v0.5.0: a worker that lost its lease cannot overwrite the state the
\* new owner gave the job; the terminal write is fenced by owner and attempt.
TerminalWriteIsFenced ==
    [][\A w \in Workers :
         workers[w].pc \in {"write_ok", "write_err"} /\ jobs' # jobs
           /\ workers'[w].pc = "poll" =>
         LET row == jobs[workers[w].job]
         IN Owns(w, row) /\ row.attempt = workers[w].attempt]_vars

\* Whatever crashes, stalls and lost leases happen, a queued job ends.
EventuallyTerminal ==
    \A j \in Jobs : jobs[j].status = "queued" ~> jobs[j].status \in Terminal

\* A job is not left running behind a dead lease: recovery or its own worker
\* moves it on, even when the worker that held it never comes back to it.
LeaseNeverStrands ==
    \A j \in Jobs : \A n \in Attempts :
        jobs[j].status = "running" /\ jobs[j].attempt = n
          ~> ~(jobs[j].status = "running" /\ jobs[j].attempt = n)

-----------------------------------------------------------------------------
(* Refinement *)

Tickets == INSTANCE AttemptTickets WITH
    issued <- [j \in Jobs |-> jobs[j].attempt],
    holds <- [w \in Workers |-> IF workers[w].pc \in Executing
                                THEN <<workers[w].job, workers[w].attempt>>
                                ELSE None]

\* Every entry of a worker into a job takes a fresh attempt number, and a job
\* is entered at most MaxAttempts times, retries and recoveries included.
TicketsSpec == Tickets!Spec
=============================================================================
