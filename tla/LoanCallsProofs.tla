--------------------------- MODULE LoanCallsProofs ---------------------------
(***************************************************************************)
(* Theorems about LoanCalls: a call goes out only under the session, the   *)
(* terms and the authority that stand, goes on only under today's policy   *)
(* and profile, and no dispatch calls twice, or once it was stopped; a     *)
(* case has one conversation and waits for one thing at a time.  They hold *)
(* for any sessions, workers, ledger entries and bounds, and rest on what  *)
(* the locks of a dispatching job keep true of what it has read, and on    *)
(* what a conversation that is over leaves behind.                         *)
(***************************************************************************)
EXTENDS MCLoanCalls, FiniteSums

JobIds == Sessions \X Kinds

\* Where a job holds the row of the tenant.
Holding == {"case", "delete", "recheck", "post", "fence", "commit"}

\* Where a job has a durable intent and has not called yet.
Sending == {"relock", "recheck", "post"}

Reach(w) == workers[w].job[1]

\* A row whose columns are known, the promise in it aside.
IsRow(r) ==
    /\ r \in [state : {r.state}, version : Nat, policy : {r.policy}, profile : Nat,
              granted : {r.granted}, today : {r.today}, promise : {r.promise}]
    /\ r.promise # None => r.state # "identity_pending"

Types ==
    /\ profile.version \in Nat
    /\ sessions = [s \in Sessions |-> sessions[s]]
    /\ dispatches \in [Sessions -> Dispatch \cup {None}]
    /\ jobs \in [JobIds -> Job]
    /\ workers \in [Workers -> Worker]
    /\ posts \in [Sessions -> Nat]

\* A session was started on a profile that is there.
RowsAreKnown ==
    \A s \in Sessions : sessions[s] # None \/ dispatches[s] # None =>
        IsRow(sessions[s]) /\ sessions[s].profile <= profile.version

\* What a request on the profile has read is at most too old: a stop it has not seen.
EditorIsOld ==
    editor # None =>
        /\ editor.dispatches \in [Sessions -> Dispatch \cup {None}]
        /\ \A s \in Sessions :
              /\ editor.dispatches[s] = None <=> dispatches[s] = None
              /\ editor.dispatches[s] # None /\ editor.dispatches[s].state \notin Running =>
                    dispatches[s].state \notin Running

\* Jobs are of dispatches.
JobsAreReserved == \A j \in JobIds : jobs[j].status # "absent" => dispatches[j[1]] # None

\* A dispatch that is not sent has not called.
UnsentIsSilent ==
    \A s \in Sessions :
        dispatches[s] = None \/ dispatches[s].state = "prepared" => posts[s] = 0

\* What the row of a worker says of itself.
Sound(q) ==
    /\ q.pc # "idle" => q.job \in JobIds
    /\ "tenant" \in q.locks <=> q.pc \in Holding
    /\ "case" \in q.locks => q.pc \in {"post", "fence", "commit"}
    /\ q.pc = "post" => "case" \in q.locks
    /\ q.pc \notin {"fence", "commit"} => q.write = "none"
    /\ q.write \notin {"prepared", "dispatching"}
    /\ q.write \in Running => "case" \in q.locks
    /\ q.pc = "case" => q.seen \in Dispatch

\* The tenant's row has one holder, and that of the case another none.
LocksExclude ==
    /\ \A v, w \in Workers :
          "tenant" \in workers[v].locks /\ "tenant" \in workers[w].locks => v = w
    /\ \A w \in Workers : "case" \in workers[w].locks => editor = None

\* What a worker has read or decided is still so.
Standing(s) == ~ blocked /\ IsCurrent(s) /\ sessions[s].state = "identity_pending"

ReadsStand(w) ==
    /\ workers[w].pc # "idle" => dispatches[Reach(w)] # None
    /\ workers[w].pc = "case" /\ Sends(w) =>
          \/ dispatches[Reach(w)].state = "prepared"
          \/ sessions[Reach(w)].state # "identity_pending"
          \/ sessions[Reach(w)].profile # profile.version
    /\ workers[w].pc \in Sending =>
          dispatches[Reach(w)].state # "prepared" /\ posts[Reach(w)] = 0
    /\ workers[w].pc = "post" \/ workers[w].write \in Running => Standing(Reach(w))
    /\ workers[w].pc = "post" =>
          /\ dispatches[Reach(w)].state = "dispatching"
          /\ sessions[Reach(w)].version = workers[w].seen.version

\* One worker at a time is about to call.
SendersAreAlone ==
    \A v, w \in Workers :
        workers[v].pc \in Sending /\ workers[w].pc \in Sending /\ Reach(v) = Reach(w) => v = w

WorkersAreSound == \A w \in Workers : Sound(workers[w]) /\ ReadsStand(w)

Inv ==
    /\ Types /\ RowsAreKnown /\ EditorIsOld /\ JobsAreReserved /\ UnsentIsSilent
    /\ LocksExclude /\ SendersAreAlone /\ WorkersAreSound
    /\ RunningIsCurrent /\ OverIsStopped

-----------------------------------------------------------------------------
(* Facts about the types *)

LEMMA IdleIsSound == IdleWorker \in Worker /\ Sound(IdleWorker)
BY CallsAssumption DEF LoanAssumption, IdleWorker, Worker, Sound, Both, Holding, Running

LEMMA StateOf ==
    ASSUME NEW row \in Dispatch, NEW state \in Running \cup {"blocked", "stop_requested"}
    PROVE  /\ [row EXCEPT !.state = state] \in Dispatch
           /\ [row EXCEPT !.state = state].state = state
           /\ [row EXCEPT !.state = state].version = row.version
BY DEF Dispatch

LEMMA StopOf ==
    ASSUME NEW state
    PROVE  StopState(state) \in {"blocked", "stop_requested"}
BY DEF StopState

\* What the steps of a session leave of its row.
LEMMA RowOf ==
    ASSUME NEW r, IsRow(r)
    PROVE  /\ IsRow(Paused(r)) /\ Paused(r).state = "paused"
           /\ Paused(r).policy = r.policy /\ Paused(r).profile = r.profile
<1>1. ASSUME NEW n \in Nat
      PROVE  LET q == [r EXCEPT !.state = "paused", !.version = n] IN
             /\ IsRow(q) /\ q.state = "paused"
             /\ q.policy = r.policy /\ q.profile = r.profile
  BY DEF IsRow
<1>2. r.version + 1 \in Nat
  BY DEF IsRow
<1> QED
  BY <1>1, <1>2 DEF Paused

Evented(r, to, p) ==
    [r EXCEPT !.state = to, !.version = r.version + 1, !.promise = p]

Promising(r, p) == [r EXCEPT !.promise = p, !.version = r.version + 1]

LEMMA EventRow ==
    ASSUME NEW r, IsRow(r), NEW to, to # "identity_pending", NEW p
    PROVE  /\ IsRow(Evented(r, to, p)) /\ Evented(r, to, p).state = to
           /\ Evented(r, to, p).policy = r.policy /\ Evented(r, to, p).profile = r.profile
<1>1. ASSUME NEW n \in Nat
      PROVE  LET q == [r EXCEPT !.state = to, !.version = n, !.promise = p] IN
             IsRow(q) /\ q.state = to /\ q.policy = r.policy /\ q.profile = r.profile
  BY DEF IsRow
<1>2. r.version + 1 \in Nat
  BY DEF IsRow
<1> QED
  BY <1>1, <1>2 DEF Evented

LEMMA PromiseRow ==
    ASSUME NEW r, IsRow(r), r.state # "identity_pending", NEW p
    PROVE  /\ IsRow(Promising(r, p)) /\ Promising(r, p).state = r.state
           /\ Promising(r, p).policy = r.policy /\ Promising(r, p).profile = r.profile
<1>1. ASSUME NEW n \in Nat
      PROVE  LET q == [r EXCEPT !.promise = p, !.version = n] IN
             IsRow(q) /\ q.state = r.state /\ q.policy = r.policy /\ q.profile = r.profile
  BY DEF IsRow
<1>2. r.version + 1 \in Nat
  BY DEF IsRow
<1> QED
  BY <1>1, <1>2 DEF Promising

Late(r, p) == [r EXCEPT !.promise = p]

LEMMA LateRow ==
    ASSUME NEW r, IsRow(r), r.state # "identity_pending", NEW p
    PROVE  /\ IsRow(Late(r, p)) /\ Late(r, p).state = r.state
           /\ Late(r, p).policy = r.policy
           /\ Late(r, p).profile = r.profile /\ Late(r, p).version = r.version
BY DEF IsRow, Late

Expired(r) == [r EXCEPT !.granted = FALSE]

LEMMA ExpiredRow ==
    ASSUME NEW r, IsRow(r)
    PROVE  /\ IsRow(Expired(r)) /\ Expired(r).state = r.state
           /\ Expired(r).policy = r.policy
           /\ Expired(r).profile = r.profile /\ Expired(r).version = r.version
BY DEF IsRow, Expired

Yesterdays(r) == [r EXCEPT !.today = FALSE]

LEMMA YesterdaysRow ==
    ASSUME NEW r, IsRow(r)
    PROVE  /\ IsRow(Yesterdays(r)) /\ Yesterdays(r).state = r.state
           /\ Yesterdays(r).policy = r.policy
           /\ Yesterdays(r).profile = r.profile /\ Yesterdays(r).version = r.version
BY DEF IsRow, Yesterdays

LEMMA JobOf ==
    ASSUME NEW row \in Job
    PROVE  /\ \A status \in {"queued", "running", "finished", "failed"} :
                 /\ [row EXCEPT !.status = status] \in Job
                 /\ [row EXCEPT !.status = status].status = status
           /\ \A b \in BOOLEAN :
                 /\ [row EXCEPT !.live = b] \in Job /\ [row EXCEPT !.cancel = b] \in Job
                 /\ [row EXCEPT !.live = b].status = row.status
                 /\ [row EXCEPT !.cancel = b].status = row.status
           /\ [row EXCEPT !.owner = None] \in Job
           /\ [row EXCEPT !.owner = None].status = row.status
BY DEF Job

\* What a stop does to dispatches, and to jobs.
OnlyStops ==
    \A s \in Sessions :
        \/ dispatches'[s] = dispatches[s]
        \/ /\ dispatches[s] # None /\ dispatches'[s] \in Dispatch
           /\ dispatches'[s].state \in {"blocked", "stop_requested"}

JobsKept ==
    /\ jobs' \in [JobIds -> Job]
    /\ \A j \in JobIds :
          jobs'[j].status # "absent" => jobs[j].status # "absent" \/ dispatches[j[1]] # None

LEMMA StopFacts ==
    ASSUME Types, NoneIsNoRow, NEW S \in SUBSET Sessions,
           NEW seen \in [Sessions -> Dispatch \cup {None}],
           \A s \in Sessions : seen[s] = None <=> dispatches[s] = None,
           StopDispatches(S, seen)
    PROVE  /\ dispatches' \in [Sessions -> Dispatch \cup {None}]
           /\ OnlyStops /\ JobsKept
           /\ \A s \in S : dispatches[s] # None =>
                 \/ dispatches'[s].state \notin Running
                 \/ seen[s].state \notin Running /\ dispatches'[s] = dispatches[s]
<1> DEFINE hit == {s \in S : seen[s] # None /\ seen[s].state # "blocked"}
<1>1. /\ dispatches' = [s \in Sessions |->
             IF s \in hit /\ StopState(seen[s].state) # seen[s].state
             THEN [dispatches[s] EXCEPT !.state = StopState(seen[s].state)]
             ELSE dispatches[s]]
      /\ jobs' = WithStops(hit)
  BY DEF StopDispatches
<1>2. \A s \in Sessions :
        dispatches[s] \in Dispatch \cup {None} /\ (dispatches[s] # None => dispatches[s] \in Dispatch)
  BY DEF Types
<1>3. ASSUME NEW s \in Sessions, s \in hit, StopState(seen[s].state) # seen[s].state
      PROVE  /\ dispatches[s] # None /\ dispatches'[s] \in Dispatch
             /\ dispatches'[s].state \in {"blocked", "stop_requested"}
  <2>1. dispatches[s] \in Dispatch
    BY <1>2, <1>3
  <2>2. dispatches'[s] = [dispatches[s] EXCEPT !.state = StopState(seen[s].state)]
    BY <1>1, <1>3
  <2> QED
    BY <2>1, <2>2, <1>3, StopOf, StateOf
<1>4. ASSUME NEW s \in Sessions, ~ (s \in hit /\ StopState(seen[s].state) # seen[s].state)
      PROVE  dispatches'[s] = dispatches[s]
  BY <1>1, <1>4
<1>5. OnlyStops
  BY <1>3, <1>4 DEF OnlyStops
<1>6. dispatches' \in [Sessions -> Dispatch \cup {None}]
  BY <1>1, <1>2, <1>3, <1>4
<1>7. JobsKept
  <2>1. ASSUME NEW j \in JobIds
        PROVE  /\ jobs'[j] \in Job
               /\ jobs'[j].status # "absent" => jobs[j].status # "absent" \/ dispatches[j[1]] # None
    <3>1. jobs'[j] = IF j[1] \in hit /\ j[2] = "stop" /\ jobs[j].status = "absent"
                     THEN [jobs[j] EXCEPT !.status = "queued"] ELSE jobs[j]
      BY <1>1 DEF WithStops, JobIds
    <3>2. jobs[j] \in Job /\ [jobs[j] EXCEPT !.status = "queued"] \in Job
      BY JobOf DEF Types
    <3> QED
      BY <3>1, <3>2
  <2>2. jobs' = [j \in JobIds |-> jobs'[j]]
    BY <1>1 DEF WithStops, JobIds
  <2> QED
    BY <2>1, <2>2 DEF JobsKept
<1>8. ASSUME NEW s \in S, dispatches[s] # None
      PROVE  \/ dispatches'[s].state \notin Running
             \/ seen[s].state \notin Running /\ dispatches'[s] = dispatches[s]
  <2>1. s \in Sessions /\ seen[s] # None /\ seen[s] \in Dispatch
    BY <1>8
  <2>2. seen[s].state \in Running => StopState(seen[s].state) # seen[s].state /\ s \in hit
    BY <2>1 DEF StopState, Running
  <2> QED
    BY <2>1, <2>2, <1>3, <1>4 DEF Running
<1> HIDE DEF hit
<1> QED
  BY <1>5, <1>6, <1>7, <1>8

-----------------------------------------------------------------------------
(* What steps leave of what workers have read *)

\* While nobody holds the row of the tenant, workers only know where they are.
LEMMA FreeWorkers ==
    ASSUME Inv, TenantFree, UNCHANGED <<workers, posts>>,
           \A s \in Sessions : dispatches[s] # None =>
               /\ dispatches'[s] # None
               /\ dispatches[s].state # "prepared" => dispatches'[s].state # "prepared"
    PROVE  SendersAreAlone' /\ WorkersAreSound'
<1>1. ASSUME NEW w \in Workers
      PROVE  /\ workers'[w] = workers[w] /\ Sound(workers[w]) /\ ReadsStand(w)
             /\ workers[w].pc \notin Holding /\ "case" \notin workers[w].locks
             /\ workers[w].write \notin Running /\ workers[w].pc # "case"
             /\ workers[w].pc # "post"
             /\ workers[w].pc # "idle" => Reach(w) \in Sessions
  BY DEF Inv, WorkersAreSound, Sound, TenantFree, Holding, Running, JobIds, Reach
<1>2. ASSUME NEW w \in Workers PROVE ReadsStand(w)'
  BY <1>1, UNCHANGED posts DEF ReadsStand, Reach, Sending
<1>3. WorkersAreSound'
  BY <1>1, <1>2 DEF WorkersAreSound
<1>4. SendersAreAlone'
  BY UNCHANGED workers DEF Inv, SendersAreAlone, Reach
<1> QED
  BY <1>3, <1>4

\* While nobody holds the row of the case, what a worker has read may get old, but not new again.
LEMMA CaseFreeWorkers ==
    ASSUME Inv, \A w \in Workers : "case" \notin workers[w].locks, UNCHANGED <<workers, posts>>,
           \A s \in Sessions : dispatches[s] # None =>
               /\ dispatches'[s] # None
               /\ dispatches[s].state # "prepared" => dispatches'[s].state # "prepared"
               /\ dispatches'[s].state = dispatches[s].state
                    \/ sessions'[s].profile # profile'.version
                    \/ sessions'[s].state # "identity_pending"
               /\ sessions[s].state # "identity_pending" => sessions'[s].state # "identity_pending"
               /\ sessions[s].profile # profile.version => sessions'[s].profile # profile'.version
    PROVE  SendersAreAlone' /\ WorkersAreSound'
<1>1. ASSUME NEW w \in Workers
      PROVE  /\ workers'[w] = workers[w] /\ Sound(workers[w]) /\ ReadsStand(w)
             /\ workers[w].write \notin Running
             /\ workers[w].pc # "post"
             /\ workers[w].pc # "idle" => Reach(w) \in Sessions
  BY DEF Inv, WorkersAreSound, Sound, Running, JobIds, Reach
<1>2. ASSUME NEW w \in Workers PROVE ReadsStand(w)'
  BY <1>1, UNCHANGED posts DEF ReadsStand, Reach, Sending, Sends
<1>3. WorkersAreSound'
  BY <1>1, <1>2 DEF WorkersAreSound
<1>4. SendersAreAlone'
  BY UNCHANGED workers DEF Inv, SendersAreAlone, Reach
<1> QED
  BY <1>3, <1>4

\* A session keeps its terms, and what workers look at.
SameTerms(s) ==
    /\ sessions'[s].state = sessions[s].state
    /\ sessions'[s].policy = sessions[s].policy /\ sessions'[s].profile = sessions[s].profile

SameSession(s) == SameTerms(s) /\ sessions'[s].version = sessions[s].version

\* Nothing a worker looks at changes.
LEMMA QuietWorkers ==
    ASSUME Inv, UNCHANGED <<workers, posts, policy, profile, blocked>>,
           \A s \in Sessions : dispatches[s] # None =>
               /\ dispatches'[s] # None /\ dispatches'[s].state = dispatches[s].state
               /\ SameSession(s)
    PROVE  SendersAreAlone' /\ WorkersAreSound'
<1>1. ASSUME NEW w \in Workers
      PROVE  /\ workers'[w] = workers[w] /\ Sound(workers[w]) /\ ReadsStand(w)
             /\ workers[w].pc # "idle" => Reach(w) \in Sessions /\ dispatches[Reach(w)] # None
             /\ workers[w].pc = "idle" => workers[w].write \notin Running
  BY DEF Inv, WorkersAreSound, Sound, Running, JobIds, Reach, ReadsStand
<1>2. ASSUME NEW w \in Workers PROVE ReadsStand(w)'
  <2>1. CASE workers[w].pc = "idle"
    BY <1>1, <2>1 DEF ReadsStand, Sending
  <2>2. CASE workers[w].pc # "idle"
    <3>1. Reach(w)' = Reach(w) /\ Reach(w) \in Sessions /\ dispatches[Reach(w)] # None
      BY <1>1, <2>2 DEF Reach
    <3>2. Standing(Reach(w)) => Standing(Reach(w))'
      BY <3>1, UNCHANGED <<policy, profile, blocked>> DEF Standing, IsCurrent, SameSession, SameTerms
    <3> QED
      BY <1>1, <3>1, <3>2, UNCHANGED <<posts, profile>> DEF ReadsStand, Sends, SameSession, SameTerms
  <2> QED
    BY <2>1, <2>2
<1>3. WorkersAreSound'
  BY <1>1, <1>2 DEF WorkersAreSound
<1>4. SendersAreAlone'
  BY UNCHANGED workers DEF Inv, SendersAreAlone, Reach
<1> QED
  BY <1>3, <1>4

\* What one worker does to itself, holding the rows it had or taking those that are free.
Moves(w, q) ==
    /\ workers' = [workers EXCEPT ![w] = q]
    /\ q \in Worker /\ Sound(q)
    /\ "tenant" \in q.locks => "tenant" \in workers[w].locks \/ TenantFree
    /\ "case" \in q.locks => "case" \in workers[w].locks \/ CaseFree

LEMMA MovedLocks ==
    ASSUME Inv, NEW w \in Workers, NEW q, Moves(w, q), UNCHANGED editor
    PROVE  /\ workers' \in [Workers -> Worker]
           /\ workers'[w] = q
           /\ \A v \in Workers : v # w => workers'[v] = workers[v] /\ Reach(v)' = Reach(v)
           /\ LocksExclude'
<1>1. /\ workers' \in [Workers -> Worker] /\ workers'[w] = q
      /\ \A v \in Workers : v # w => workers'[v] = workers[v] /\ Reach(v)' = Reach(v)
  BY DEF Moves, Inv, Types, Reach
<1>2. \A v, u \in Workers :
        "tenant" \in workers'[v].locks /\ "tenant" \in workers'[u].locks => v = u
  BY <1>1 DEF Moves, Inv, LocksExclude, TenantFree
<1>3. \A v \in Workers : "case" \in workers'[v].locks => editor = None
  BY <1>1 DEF Moves, Inv, LocksExclude, CaseFree
<1> QED
  BY <1>1, <1>2, <1>3 DEF LocksExclude

\* A step of one worker that writes nothing.
LEMMA MovedWorkers ==
    ASSUME Inv, NEW w \in Workers, NEW q, Moves(w, q),
           UNCHANGED <<policy, profile, blocked, sessions, dispatches, posts, editor>>,
           q.pc \in Sending => workers[w].pc \in Sending /\ q.job = workers[w].job,
           ReadsStand(w)'
    PROVE  LocksExclude' /\ SendersAreAlone' /\ WorkersAreSound'
<1>1. /\ workers'[w] = q /\ LocksExclude'
      /\ \A v \in Workers : v # w => workers'[v] = workers[v] /\ Reach(v)' = Reach(v)
  BY MovedLocks
<1>2. ASSUME NEW v \in Workers, v # w PROVE ReadsStand(v)'
  <2>1. ReadsStand(v)
    BY DEF Inv, WorkersAreSound
  <2>2. Standing(Reach(v))' = Standing(Reach(v))
    BY <1>1, <1>2 DEF Standing, IsCurrent
  <2> QED
    BY <1>1, <1>2, <2>1, <2>2 DEF ReadsStand, Sends
<1>3. WorkersAreSound'
  BY <1>1, <1>2 DEF Inv, WorkersAreSound, Moves
<1>4. SendersAreAlone'
  BY <1>1 DEF Inv, SendersAreAlone, Reach
<1> QED
  BY <1>1, <1>3, <1>4

-----------------------------------------------------------------------------
(* What steps leave of the rows *)

\* The rows stay what they are.
LEMMA SameRows ==
    ASSUME Inv, UNCHANGED <<profile, policy, sessions, dispatches, editor, posts>>
    PROVE  /\ RowsAreKnown' /\ EditorIsOld' /\ UnsentIsSilent'
           /\ RunningIsCurrent' /\ OverIsStopped'
BY DEF Inv, RowsAreKnown, EditorIsOld, UnsentIsSilent, RunningIsCurrent, OverIsStopped,
       IsRow, IsCurrent, Reserved

\* Dispatches are left alone or stopped.
LEMMA StopKeeps ==
    ASSUME Inv, NoneIsNoRow, OnlyStops, dispatches' \in [Sessions -> Dispatch \cup {None}],
           UNCHANGED posts, editor' = editor \/ editor' = None
    PROVE  /\ EditorIsOld' /\ UnsentIsSilent'
           /\ \A s \in Sessions :
                 /\ dispatches'[s] = None <=> dispatches[s] = None
                 /\ dispatches[s] # None /\ dispatches[s].state # "prepared" =>
                        dispatches'[s].state # "prepared"
                 /\ dispatches'[s].state \in Running => dispatches'[s] = dispatches[s]
<1>1. ASSUME NEW s \in Sessions
      PROVE  /\ dispatches'[s] = None <=> dispatches[s] = None
             /\ dispatches[s] # None /\ dispatches[s].state # "prepared" =>
                    dispatches'[s].state # "prepared"
             /\ dispatches'[s].state \in Running => dispatches'[s] = dispatches[s]
             /\ dispatches'[s].state = "prepared" => dispatches'[s] = dispatches[s]
  BY DEF OnlyStops, NoneIsNoRow, Running
<1>2. UnsentIsSilent'
  BY <1>1 DEF Inv, UnsentIsSilent
<1>3. EditorIsOld'
  <2>1. CASE editor' = editor
    BY <1>1, <2>1 DEF Inv, EditorIsOld
  <2>2. CASE editor' = None
    BY <2>2 DEF EditorIsOld
  <2> QED
    BY <2>1, <2>2
<1> QED
  BY <1>1, <1>2, <1>3

\* Jobs are only added for what is dispatched.
LEMMA StillReserved ==
    ASSUME Inv, JobsKept,
           \A s \in Sessions : dispatches[s] # None => dispatches'[s] # None
    PROVE  JobsAreReserved'
BY DEF Inv, JobsAreReserved, JobsKept, JobIds

\* Nobody is at work differently.
LEMMA SameLocks ==
    ASSUME Inv, UNCHANGED workers,
           editor' = editor \/ editor' = None \/ CaseFree
    PROVE  LocksExclude'
BY DEF Inv, LocksExclude, CaseFree

\* Sessions keep their state and terms.
LEMMA KeptTerms ==
    ASSUME Inv, UNCHANGED <<profile, policy>>,
           sessions' = [s \in Sessions |-> sessions'[s]],
           \A s \in Sessions : sessions'[s] # None \/ dispatches'[s] # None =>
               /\ sessions[s] # None \/ dispatches[s] # None
               /\ sessions'[s] = sessions[s] \/ (SameTerms(s) /\ IsRow(sessions'[s])),
           \A s \in Sessions : dispatches'[s] # None /\ dispatches'[s].state \in Running =>
               dispatches[s] # None /\ dispatches'[s].state = dispatches[s].state
    PROVE  RowsAreKnown' /\ RunningIsCurrent' /\ OverIsStopped'
<1>1. \A s \in Sessions : sessions'[s] # None \/ dispatches'[s] # None =>
          /\ IsRow(sessions'[s]) /\ SameTerms(s)
          /\ sessions[s].profile <= profile.version
  BY DEF Inv, RowsAreKnown, SameTerms
<1>2. RowsAreKnown'
  BY <1>1 DEF RowsAreKnown, SameTerms, IsRow
<1>3. RunningIsCurrent'
  BY <1>1 DEF Inv, RunningIsCurrent, IsCurrent, Reserved, SameTerms
<1>4. OverIsStopped'
  BY <1>1 DEF Inv, OverIsStopped, Reserved, SameTerms
<1> QED
  BY <1>2, <1>3, <1>4

-----------------------------------------------------------------------------
(* The invariant holds at the start *)

LEMMA InitInv == Init => Inv
<1> SUFFICES ASSUME Init PROVE Inv
  OBVIOUS
<1>1. AbsentJob \in Job
  BY CallsAssumption DEF LoanAssumption, AbsentJob, Job
<1>2. Types
  BY <1>1, IdleIsSound DEF Init, Types, JobIds
<1>3. \A s \in Sessions : sessions[s] = None /\ dispatches[s] = None /\ posts[s] = 0
  BY DEF Init
<1>4. \A w \in Workers : workers[w] = IdleWorker
  BY DEF Init
<1>5. RowsAreKnown /\ EditorIsOld /\ UnsentIsSilent /\ RunningIsCurrent /\ OverIsStopped
  BY <1>3 DEF Init, RowsAreKnown, EditorIsOld, UnsentIsSilent, RunningIsCurrent,
              OverIsStopped, Reserved
<1>6. JobsAreReserved
  BY DEF Init, JobsAreReserved, JobIds, AbsentJob
<1>7. LocksExclude /\ SendersAreAlone
  BY <1>4 DEF LocksExclude, SendersAreAlone, IdleWorker, Sending
<1>8. WorkersAreSound
  BY <1>4, IdleIsSound DEF WorkersAreSound, ReadsStand, IdleWorker, Sending, Running
<1> QED
  BY <1>2, <1>5, <1>6, <1>7, <1>8 DEF Inv

-----------------------------------------------------------------------------
(* Administration keeps the invariant *)

LEMMA SavePolicyInv ==
    ASSUME Inv, NoneIsNoRow, NEW paused \in BOOLEAN, SavePolicy(paused)
    PROVE  Inv'
<1> USE DEF SavePolicy
<1>1. /\ dispatches' \in [Sessions -> Dispatch \cup {None}] /\ OnlyStops /\ JobsKept
      /\ \A s \in Sessions : dispatches[s] # None => dispatches'[s].state \notin Running
  BY StopFacts DEF Inv, Types
<1>2. /\ EditorIsOld' /\ UnsentIsSilent'
      /\ \A s \in Sessions :
            /\ dispatches'[s] = None <=> dispatches[s] = None
            /\ dispatches[s] # None /\ dispatches[s].state # "prepared" =>
                   dispatches'[s].state # "prepared"
  BY <1>1, StopKeeps
<1>3. JobsAreReserved' /\ LocksExclude'
  BY <1>1, <1>2, StillReserved, SameLocks
<1>4. SendersAreAlone' /\ WorkersAreSound'
  BY <1>2, FreeWorkers
<1>5. RunningIsCurrent' /\ OverIsStopped'
  BY <1>1, <1>2 DEF RunningIsCurrent, OverIsStopped, Reserved
<1>6. RowsAreKnown'
  BY <1>2 DEF Inv, RowsAreKnown, IsRow
<1>7. Types'
  BY <1>1 DEF Inv, Types, JobsKept
<1> QED
  BY <1>2, <1>3, <1>4, <1>5, <1>6, <1>7 DEF Inv

LEMMA ProfileReadsInv ==
    ASSUME Inv, NoneIsNoRow, ProfileReads
    PROVE  Inv'
<1> USE DEF ProfileReads, gateVars, jobVars
<1>1. EditorIsOld'
  BY DEF Inv, Types, EditorIsOld
<1>2. RowsAreKnown' /\ UnsentIsSilent' /\ RunningIsCurrent' /\ OverIsStopped' /\ JobsAreReserved'
  BY DEF Inv, RowsAreKnown, UnsentIsSilent, RunningIsCurrent, OverIsStopped, JobsAreReserved,
         IsRow, IsCurrent, Reserved
<1>3. SendersAreAlone' /\ WorkersAreSound'
  BY QuietWorkers DEF SameSession, SameTerms
<1>4. LocksExclude'
  BY SameLocks
<1>5. Types'
  BY DEF Inv, Types
<1> QED
  BY <1>1, <1>2, <1>3, <1>4, <1>5 DEF Inv

LEMMA ProfileCommitsInv ==
    ASSUME Inv, NoneIsNoRow, ProfileCommits
    PROVE  Inv'
<1> USE DEF ProfileCommits
<1>1. /\ dispatches' \in [Sessions -> Dispatch \cup {None}] /\ OnlyStops /\ JobsKept
      /\ \A s \in Sessions : dispatches[s] # None => dispatches'[s].state \notin Running
  <2>1. editor.dispatches \in [Sessions -> Dispatch \cup {None}]
    BY DEF Inv, EditorIsOld
  <2>2. \A s \in Sessions : editor.dispatches[s] = None <=> dispatches[s] = None
    BY DEF Inv, EditorIsOld
  <2>3. \A s \in Sessions : dispatches[s] # None /\ editor.dispatches[s].state \notin Running =>
            dispatches[s].state \notin Running
    BY <2>2 DEF Inv, EditorIsOld
  <2> QED
    BY <2>1, <2>2, <2>3, StopFacts DEF Inv
<1>2. /\ EditorIsOld' /\ UnsentIsSilent'
      /\ \A s \in Sessions :
            /\ dispatches'[s] = None <=> dispatches[s] = None
            /\ dispatches[s] # None /\ dispatches[s].state # "prepared" =>
                   dispatches'[s].state # "prepared"
  BY <1>1, StopKeeps
<1>3. JobsAreReserved' /\ LocksExclude'
  BY <1>1, <1>2, StillReserved, SameLocks
<1>4. profile'.version = profile.version + 1 /\ profile.version \in Nat
  BY DEF Inv, Types
<1>5. RowsAreKnown' /\ Types'
  BY <1>1, <1>2, <1>4 DEF Inv, RowsAreKnown, IsRow, Types, JobsKept
<1>6. \A s \in Sessions : dispatches[s] # None => sessions'[s].profile # profile'.version
  <2>1. \A s \in Sessions : dispatches[s] # None =>
            sessions[s].profile \in Nat /\ sessions[s].profile <= profile.version
    BY DEF Inv, RowsAreKnown, IsRow
  <2>2. sessions' = sessions
    OBVIOUS
  <2> HIDE DEF ProfileCommits
  <2> QED
    BY <1>4, <2>1, <2>2
<1>7. \A w \in Workers : "case" \notin workers[w].locks
  BY DEF Inv, LocksExclude
<1>8. SendersAreAlone' /\ WorkersAreSound'
  BY <1>2, <1>6, <1>7, CaseFreeWorkers
<1>9. RunningIsCurrent' /\ OverIsStopped'
  BY <1>1, <1>2 DEF RunningIsCurrent, OverIsStopped, Reserved
<1> QED
  BY <1>2, <1>3, <1>5, <1>8, <1>9 DEF Inv

LEMMA StartSessionInv ==
    ASSUME Inv, NoneIsNoRow, NEW s \in Sessions, StartSession(s)
    PROVE  Inv'
<1> DEFINE row == [state |-> "identity_pending", version |-> 1, policy |-> policy.version,
                   profile |-> profile.version, granted |-> TRUE, today |-> TRUE,
                   promise |-> None]
<1>1. /\ TenantFree /\ CaseFree
      /\ sessions' = [AfterLapse EXCEPT ![s] = row]
      /\ UNCHANGED <<policy, profile, blocked, dispatches, jobs, workers, editor, posts>>
  BY DEF StartSession, gateVars, jobVars
<1>2. sessions' = [r \in Sessions |-> sessions'[r]] /\ sessions'[s] = row
  BY <1>1 DEF AfterLapse
<1>3. IsRow(row) /\ row.profile = profile.version /\ row.policy = policy.version
        /\ row.state = "identity_pending"
  BY DEF IsRow, Inv, Types
<1>4. ASSUME NEW r \in Sessions, r # s
      PROVE  \/ sessions'[r] = sessions[r]
             \/ sessions[r] # None /\ sessions'[r] = Paused(sessions[r])
  BY <1>1, <1>4 DEF AfterLapse, Started
<1> HIDE DEF row
<1>5. ASSUME NEW r \in Sessions, r # s, sessions'[r] # None \/ dispatches[r] # None
      PROVE  /\ sessions[r] # None \/ dispatches[r] # None
             /\ IsRow(sessions[r]) /\ IsRow(sessions'[r])
             /\ sessions'[r].profile = sessions[r].profile
             /\ sessions'[r].policy = sessions[r].policy
             /\ sessions'[r].state \in {sessions[r].state, "paused"}
  <2>1. sessions[r] # None \/ dispatches[r] # None
    BY <1>4, <1>5
  <2>2. IsRow(sessions[r])
    BY <2>1 DEF Inv, RowsAreKnown
  <2>3. CASE sessions'[r] = Paused(sessions[r])
    BY <2>1, <2>2, <2>3, RowOf
  <2> QED
    BY <1>4, <1>5, <2>1, <2>2, <2>3
<1>6. RowsAreKnown'
  <2>1. ASSUME NEW r \in Sessions, sessions'[r] # None \/ dispatches[r] # None
        PROVE  IsRow(sessions'[r]) /\ sessions'[r].profile <= profile.version
    BY <1>2, <1>3, <1>5, <2>1 DEF Inv, RowsAreKnown, Types
  <2> QED
    BY <2>1, <1>1 DEF RowsAreKnown, IsRow
<1>7. RunningIsCurrent' /\ OverIsStopped'
  <2>1. ASSUME NEW r \in Sessions, dispatches[r] # None
        PROVE  /\ dispatches[r].state \in Running =>
                      sessions'[r].policy = policy.version /\ sessions'[r].profile = profile.version
               /\ sessions'[r].state \in TERMINAL \ {"paused"} => dispatches[r].state \notin Running
    <3>1. CASE r = s
      BY <3>1, <1>2, <1>3 DEF TERMINAL
    <3>2. CASE r # s
      BY <3>2, <2>1, <1>5 DEF Inv, RunningIsCurrent, OverIsStopped, Reserved, IsCurrent
    <3> QED
      BY <3>1, <3>2
  <2> QED
    BY <2>1, <1>1 DEF RunningIsCurrent, OverIsStopped, Reserved, IsCurrent
<1>8. SendersAreAlone' /\ WorkersAreSound'
  BY <1>1, FreeWorkers
<1>9. EditorIsOld' /\ JobsAreReserved' /\ UnsentIsSilent' /\ LocksExclude'
  BY <1>1 DEF Inv, EditorIsOld, JobsAreReserved, UnsentIsSilent, LocksExclude
<1>10. Types'
  BY <1>1, <1>2 DEF Inv, Types
<1> QED
  BY <1>6, <1>7, <1>8, <1>9, <1>10 DEF Inv

LEMMA ReserveDispatchInv ==
    ASSUME Inv, NoneIsNoRow, NEW s \in Sessions, ReserveDispatch(s)
    PROVE  Inv'
<1> DEFINE row == [state |-> "prepared", version |-> sessions[s].version, today |-> TRUE]
<1>1. /\ TenantFree /\ CaseFree /\ sessions[s] # None /\ dispatches[s] = None
      /\ sessions[s].state = "identity_pending" /\ IsCurrent(s)
      /\ dispatches' = [dispatches EXCEPT ![s] = row]
      /\ jobs' = [jobs EXCEPT ![<<s, "call">>].status = "queued"]
      /\ UNCHANGED <<policy, profile, blocked, sessions, workers, editor, posts>>
  BY DEF ReserveDispatch, gateVars, Started, MayExecute
<1>2. row \in Dispatch /\ row.state = "prepared" /\ row # None
  <2>1. sessions[s].version \in Nat
    BY <1>1 DEF Inv, RowsAreKnown, IsRow
  <2> QED
    <3>1. \A n \in Nat : [state |-> "prepared", version |-> n, today |-> TRUE] \in Dispatch
      BY DEF Dispatch, Running
    <3> QED
      BY <2>1, <3>1 DEF NoneIsNoRow
<1>3. UnsentIsSilent' /\ LocksExclude'
  BY <1>1 DEF Inv, Types, UnsentIsSilent, LocksExclude
<1>4. \A r \in Sessions : r # s => dispatches'[r] = dispatches[r]
  BY <1>1 DEF Inv, Types
<1>5. dispatches'[s] = row /\ dispatches' \in [Sessions -> Dispatch \cup {None}]
  BY <1>1, <1>2 DEF Inv, Types
<1> HIDE DEF row
<1>6. RowsAreKnown'
  BY <1>1, <1>4 DEF Inv, RowsAreKnown, IsRow
<1>7. RunningIsCurrent' /\ OverIsStopped'
  BY <1>1, <1>4 DEF Inv, RunningIsCurrent, OverIsStopped, Reserved, IsCurrent, TERMINAL
<1>8. EditorIsOld'
  BY <1>1 DEF CaseFree, EditorIsOld
<1>9. /\ jobs' \in [JobIds -> Job]
      /\ \A j \in JobIds : jobs'[j].status # "absent" => jobs[j].status # "absent" \/ j[1] = s
  <2>1. <<s, "call">> \in JobIds /\ [jobs[<<s, "call">>] EXCEPT !.status = "queued"] \in Job
    BY JobOf DEF JobIds, Kinds, Inv, Types
  <2>2. /\ jobs' \in [JobIds -> Job]
        /\ \A j \in JobIds : j # <<s, "call">> => jobs'[j] = jobs[j]
    BY <1>1, <2>1 DEF Inv, Types
  <2> QED
    BY <2>2
<1>10. JobsAreReserved'
  BY <1>2, <1>4, <1>5, <1>9 DEF Inv, JobsAreReserved, JobIds
<1>11. SendersAreAlone' /\ WorkersAreSound'
  BY <1>1, <1>4, FreeWorkers
<1>12. Types'
  BY <1>1, <1>5, <1>9 DEF Inv, Types
<1> QED
  BY <1>3, <1>6, <1>7, <1>8, <1>10, <1>11, <1>12 DEF Inv

LEMMA StopSipInv ==
    ASSUME Inv, NoneIsNoRow, NEW s \in Sessions, StopSip(s)
    PROVE  Inv'
<1>1. /\ TenantFree /\ dispatches[s] # None
      /\ dispatches' = [dispatches EXCEPT ![s].state = StopState(dispatches[s].state)]
      /\ jobs' = WithStops({s})
      /\ UNCHANGED <<policy, profile, blocked, sessions, workers, editor, posts>>
  BY DEF StopSip, gateVars, Reserved
<1>2. dispatches[s] \in Dispatch
  BY <1>1 DEF Inv, Types
<1>3. /\ dispatches'[s] = [dispatches[s] EXCEPT !.state = StopState(dispatches[s].state)]
      /\ \A r \in Sessions : r # s => dispatches'[r] = dispatches[r]
      /\ dispatches' = [r \in Sessions |-> dispatches'[r]]
  BY <1>1 DEF Inv, Types
<1>4. dispatches'[s] \in Dispatch /\ dispatches'[s].state \in {"blocked", "stop_requested"}
  BY <1>2, <1>3, StopOf, StateOf
<1>5. OnlyStops /\ dispatches' \in [Sessions -> Dispatch \cup {None}]
  BY <1>1, <1>3, <1>4 DEF OnlyStops, Inv, Types
<1>6. JobsKept
  <2>1. ASSUME NEW j \in JobIds
        PROVE  /\ jobs'[j] \in Job
               /\ jobs'[j].status # "absent" => jobs[j].status # "absent" \/ dispatches[j[1]] # None
    <3>1. jobs'[j] = IF j[1] = s /\ j[2] = "stop" /\ jobs[j].status = "absent"
                     THEN [jobs[j] EXCEPT !.status = "queued"] ELSE jobs[j]
      BY <1>1 DEF WithStops, JobIds
    <3>2. jobs[j] \in Job /\ [jobs[j] EXCEPT !.status = "queued"] \in Job
      BY JobOf DEF Inv, Types
    <3> QED
      BY <1>1, <3>1, <3>2
  <2>2. jobs' = [j \in JobIds |-> jobs'[j]]
    BY <1>1 DEF WithStops, JobIds
  <2> QED
    BY <2>1, <2>2 DEF JobsKept
<1>7. /\ EditorIsOld' /\ UnsentIsSilent'
      /\ \A r \in Sessions :
            /\ dispatches'[r] = None <=> dispatches[r] = None
            /\ dispatches[r] # None /\ dispatches[r].state # "prepared" =>
                   dispatches'[r].state # "prepared"
            /\ dispatches'[r].state \in Running => dispatches'[r] = dispatches[r]
  BY <1>1, <1>5, StopKeeps
<1>8. JobsAreReserved' /\ LocksExclude'
  BY <1>1, <1>6, <1>7, StillReserved, SameLocks
<1>9. SendersAreAlone' /\ WorkersAreSound'
  BY <1>1, <1>7, FreeWorkers
<1>10. RowsAreKnown' /\ RunningIsCurrent' /\ OverIsStopped'
  <2>1. \A r \in Sessions : sessions'[r] = sessions[r] /\ SameSession(r)
    BY <1>1 DEF SameSession, SameTerms
  <2>2. sessions' = [r \in Sessions |-> sessions'[r]]
    BY <1>1 DEF Inv, Types
  <2>3. \A r \in Sessions : dispatches'[r] # None /\ dispatches'[r].state \in Running =>
            dispatches[r] # None /\ dispatches'[r].state = dispatches[r].state
    BY <1>7
  <2>4. \A r \in Sessions : sessions'[r] # None \/ dispatches'[r] # None =>
            sessions[r] # None \/ dispatches[r] # None
    BY <1>7, <2>1
  <2> QED
    BY <1>1, <2>1, <2>2, <2>3, <2>4, KeptTerms DEF SameTerms
<1>11. Types'
  BY <1>1, <1>5, <1>6 DEF Inv, Types, JobsKept
<1> QED
  BY <1>7, <1>8, <1>9, <1>10, <1>11 DEF Inv

\* Only jobs change, and none appears.
LEMMA OnlyJobs ==
    ASSUME Inv, UNCHANGED <<policy, profile, blocked, sessions, dispatches, workers,
                            editor, posts>>,
           jobs' \in [JobIds -> Job],
           \A j \in JobIds : jobs'[j].status # "absent" => jobs[j].status # "absent"
    PROVE  Inv'
<1>1. RowsAreKnown' /\ EditorIsOld' /\ UnsentIsSilent' /\ RunningIsCurrent' /\ OverIsStopped'
  BY SameRows
<1>2. SendersAreAlone' /\ WorkersAreSound'
  BY QuietWorkers DEF SameSession, SameTerms, Inv, RowsAreKnown
<1>3. JobsAreReserved' /\ LocksExclude'
  BY SameLocks DEF Inv, JobsAreReserved
<1>4. Types'
  BY DEF Inv, Types
<1> QED
  BY <1>1, <1>2, <1>3, <1>4 DEF Inv

LEMMA CancelJobInv ==
    ASSUME Inv, NEW j \in Sessions \X Kinds, CancelJob(j)
    PROVE  Inv'
<1>1. jobs[j] \in Job /\ jobs[j].status # "absent" /\ j \in JobIds
  BY DEF CancelJob, Inv, Types, JobIds
<1>2. /\ [jobs[j] EXCEPT !.cancel = TRUE] \in Job
      /\ [jobs[j] EXCEPT !.status = "finished", !.owner = None, !.cancel = TRUE] \in Job
  BY <1>1 DEF Job
<1>3. /\ jobs' \in [JobIds -> Job]
      /\ \A i \in JobIds : i # j => jobs'[i] = jobs[i]
  BY <1>1, <1>2 DEF CancelJob, Inv, Types, JobIds
<1> QED
  BY <1>1, <1>3, OnlyJobs DEF CancelJob, gateVars

LEMMA RetryJobInv ==
    ASSUME Inv, NEW j \in Sessions \X Kinds, RetryJob(j)
    PROVE  Inv'
<1>1. jobs[j] \in Job /\ jobs[j].status # "absent" /\ j \in JobIds
  BY DEF RetryJob, Inv, Types, JobIds
<1>2. [jobs[j] EXCEPT !.status = "queued"] \in Job
  BY <1>1, JobOf
<1>3. /\ jobs' \in [JobIds -> Job]
      /\ \A i \in JobIds : i # j => jobs'[i] = jobs[i]
  BY <1>1, <1>2 DEF RetryJob, Inv, Types, JobIds
<1> QED
  BY <1>1, <1>3, OnlyJobs DEF RetryJob, gateVars

-----------------------------------------------------------------------------
(* Conversations keep the invariant *)

LEMMA RecordEventInv ==
    ASSUME Inv, NoneIsNoRow, NEW s \in Sessions, NEW intent, RecordEvent(s, intent)
    PROVE  Inv'
<1> DEFINE fit == Eligible /\ Authorized(s) /\ IsCurrent(s)
           to == IF fit THEN After(sessions[s].state, intent) ELSE "paused"
           p == IF to = "ptp_recorded" THEN NewPromise ELSE sessions[s].promise
           S == IF to \in TERMINAL THEN {s} ELSE {}
<1>1. /\ TenantFree /\ sessions[s] # None
      /\ sessions' = [sessions EXCEPT ![s] =
             [sessions[s] EXCEPT !.state = to, !.version = sessions[s].version + 1, !.promise = p]]
      /\ StopDispatches(S, dispatches)
      /\ UNCHANGED <<policy, profile, blocked, workers, editor, posts>>
  BY DEF RecordEvent, gateVars, Answers, Started
<1>2. to # "identity_pending"
  BY DEF After
<1>3. S \in SUBSET Sessions /\ (to \in TERMINAL => s \in S)
  OBVIOUS
<1> HIDE DEF to, p, S
<1>4. IsRow(sessions[s]) /\ sessions[s].profile <= profile.version
  BY <1>1 DEF Inv, RowsAreKnown
<1>5. /\ sessions'[s] = Evented(sessions[s], to, p)
      /\ \A r \in Sessions : r # s => sessions'[r] = sessions[r]
      /\ sessions' = [r \in Sessions |-> sessions'[r]]
  BY <1>1 DEF Inv, Types, Evented
<1>6. /\ IsRow(sessions'[s]) /\ sessions'[s].state = to
      /\ sessions'[s].policy = sessions[s].policy
      /\ sessions'[s].profile = sessions[s].profile
  BY <1>2, <1>4, <1>5, EventRow
<1>7. /\ dispatches' \in [Sessions -> Dispatch \cup {None}] /\ OnlyStops /\ JobsKept
      /\ \A r \in S : dispatches[r] # None => dispatches'[r].state \notin Running
  BY <1>1, <1>3, StopFacts DEF Inv, Types
<1>8. /\ EditorIsOld' /\ UnsentIsSilent'
      /\ \A r \in Sessions :
            /\ dispatches'[r] = None <=> dispatches[r] = None
            /\ dispatches[r] # None /\ dispatches[r].state # "prepared" =>
                   dispatches'[r].state # "prepared"
            /\ dispatches'[r].state \in Running => dispatches'[r] = dispatches[r]
  BY <1>1, <1>7, StopKeeps
<1>9. JobsAreReserved' /\ LocksExclude'
  BY <1>1, <1>7, <1>8, StillReserved, SameLocks
<1>10. SendersAreAlone' /\ WorkersAreSound'
  BY <1>1, <1>8, FreeWorkers
<1>11. RowsAreKnown'
  BY <1>1, <1>4, <1>5, <1>6, <1>8 DEF Inv, RowsAreKnown, IsRow
<1>12. RunningIsCurrent'
  BY <1>1, <1>5, <1>6, <1>8 DEF Inv, RunningIsCurrent, Reserved, IsCurrent
<1>13. OverIsStopped'
  <2>1. ASSUME NEW r \in Sessions, dispatches'[r] # None,
               sessions'[r].state \in TERMINAL \ {"paused"}
        PROVE  dispatches'[r].state \notin Running
    <3>1. CASE r = s
      BY <3>1, <2>1, <1>3, <1>6, <1>7, <1>8
    <3>2. CASE r # s
      BY <3>2, <2>1, <1>5, <1>8 DEF Inv, OverIsStopped, Reserved
    <3> QED
      BY <3>1, <3>2
  <2> QED
    BY <2>1 DEF OverIsStopped, Reserved
<1>14. Types'
  BY <1>1, <1>5, <1>7 DEF Inv, Types, JobsKept
<1> QED
  BY <1>8, <1>9, <1>10, <1>11, <1>12, <1>13, <1>14 DEF Inv

LEMMA ReconcileInv ==
    ASSUME Inv, NoneIsNoRow, NEW s \in Sessions, NEW stops \in SUBSET {s}, Reconcile(s, stops)
    PROVE  Inv'
<1> DEFINE p == Reconciled(sessions[s].promise)
<1>1. /\ CaseFree /\ sessions[s] # None /\ sessions[s].promise # None
      /\ sessions' = [sessions EXCEPT ![s] =
             [sessions[s] EXCEPT !.promise = p, !.version = sessions[s].version + 1]]
      /\ StopDispatches(stops, dispatches)
      /\ UNCHANGED <<policy, profile, blocked, workers, editor, posts>>
  BY DEF Reconcile, gateVars, Started
<1> HIDE DEF p
<1>2. IsRow(sessions[s]) /\ sessions[s].profile <= profile.version
        /\ sessions[s].state # "identity_pending"
  BY <1>1 DEF Inv, RowsAreKnown, IsRow
<1>3. /\ sessions'[s] = Promising(sessions[s], p)
      /\ \A r \in Sessions : r # s => sessions'[r] = sessions[r]
      /\ sessions' = [r \in Sessions |-> sessions'[r]]
  BY <1>1 DEF Inv, Types, Promising
<1>4. IsRow(sessions'[s]) /\ SameTerms(s)
  BY <1>2, <1>3, PromiseRow DEF SameTerms
<1>5. /\ dispatches' \in [Sessions -> Dispatch \cup {None}] /\ OnlyStops /\ JobsKept
      /\ \A r \in Sessions : dispatches'[r] = dispatches[r] \/ r = s
  <2>1. stops \in SUBSET Sessions /\ dispatches \in [Sessions -> Dispatch \cup {None}]
    BY DEF Inv, Types
  <2>2. \A r \in Sessions : r # s => dispatches'[r] = dispatches[r]
    BY <1>1 DEF StopDispatches
  <2> QED
    BY <1>1, <2>1, <2>2, StopFacts DEF Inv
<1>6. /\ EditorIsOld' /\ UnsentIsSilent'
      /\ \A r \in Sessions :
            /\ dispatches'[r] = None <=> dispatches[r] = None
            /\ dispatches[r] # None /\ dispatches[r].state # "prepared" =>
                   dispatches'[r].state # "prepared"
            /\ dispatches'[r].state \in Running => dispatches'[r] = dispatches[r]
  BY <1>1, <1>5, StopKeeps
<1>7. JobsAreReserved' /\ LocksExclude'
  BY <1>1, <1>5, <1>6, StillReserved, SameLocks
<1>8. \A r \in Sessions : sessions'[r] = sessions[r] \/ (SameTerms(r) /\ IsRow(sessions'[r]))
  <2>1. ASSUME NEW r \in Sessions
        PROVE  sessions'[r] = sessions[r] \/ (SameTerms(r) /\ IsRow(sessions'[r]))
    <3>1. CASE r = s
      BY <3>1, <1>4
    <3>2. CASE r # s
      BY <3>2, <1>3
    <3> QED
      BY <3>1, <3>2
  <2> QED
    BY <2>1
<1>9. RowsAreKnown' /\ RunningIsCurrent' /\ OverIsStopped'
  <2>1. \A r \in Sessions : sessions'[r] # None \/ dispatches'[r] # None =>
            sessions[r] # None \/ dispatches[r] # None
    BY <1>1, <1>3, <1>6
  <2>2. \A r \in Sessions : dispatches'[r] # None /\ dispatches'[r].state \in Running =>
            dispatches[r] # None /\ dispatches'[r].state = dispatches[r].state
    BY <1>6
  <2> QED
    BY <1>1, <1>3, <1>8, <2>1, <2>2, KeptTerms DEF SameTerms
<1>10. SendersAreAlone' /\ WorkersAreSound'
  <2>1. ASSUME NEW r \in Sessions
        PROVE  /\ dispatches'[r].state = dispatches[r].state
                    \/ sessions'[r].state # "identity_pending"
               /\ sessions[r].state # "identity_pending" =>
                      sessions'[r].state # "identity_pending"
               /\ sessions[r].profile # profile.version =>
                      sessions'[r].profile # profile'.version
    BY <1>1, <1>2, <1>3, <1>4, <1>5 DEF SameTerms
  <2> QED
    BY <1>1, <1>6, <2>1, CaseFreeWorkers DEF CaseFree
<1>11. Types'
  BY <1>1, <1>3, <1>5 DEF Inv, Types, JobsKept
<1> QED
  BY <1>6, <1>7, <1>9, <1>10, <1>11 DEF Inv

-----------------------------------------------------------------------------
(* What happens elsewhere keeps the invariant *)

\* Sessions and dispatches keep all that matters.
LEMMA OnlyAges ==
    ASSUME Inv, UNCHANGED <<policy, profile, blocked, jobs, workers, editor, posts>>,
           sessions' = [s \in Sessions |-> sessions'[s]],
           dispatches' \in [Sessions -> Dispatch \cup {None}],
           \A s \in Sessions :
               sessions'[s] = sessions[s]
                 \/ (sessions[s] # None /\ SameSession(s) /\ IsRow(sessions'[s])),
           \A s \in Sessions :
               /\ dispatches'[s] = None <=> dispatches[s] = None
               /\ dispatches'[s].state = dispatches[s].state
    PROVE  Inv'
<1>1. ASSUME NEW s \in Sessions PROVE SameSession(s)
  BY DEF SameSession, SameTerms
<1>2. \A s \in Sessions : sessions'[s] = sessions[s] \/ (SameTerms(s) /\ IsRow(sessions'[s]))
  BY DEF SameSession
<1>3. RowsAreKnown' /\ RunningIsCurrent' /\ OverIsStopped'
  <2>1. \A s \in Sessions : sessions'[s] # None \/ dispatches'[s] # None =>
            sessions[s] # None \/ dispatches[s] # None
    OBVIOUS
  <2>2. \A s \in Sessions : dispatches'[s] # None /\ dispatches'[s].state \in Running =>
            dispatches[s] # None /\ dispatches'[s].state = dispatches[s].state
    OBVIOUS
  <2> QED
    BY <1>2, <2>1, <2>2, KeptTerms DEF SameTerms
<1>4. SendersAreAlone' /\ WorkersAreSound'
  BY <1>1, QuietWorkers DEF SameSession, SameTerms
<1>5. EditorIsOld' /\ UnsentIsSilent' /\ JobsAreReserved'
  BY DEF Inv, EditorIsOld, UnsentIsSilent, JobsAreReserved, JobIds
<1>6. LocksExclude' /\ Types'
  BY SameLocks DEF Inv, Types
<1> QED
  BY <1>3, <1>4, <1>5, <1>6 DEF Inv

LEMMA PostInv ==
    ASSUME Inv, NEW e, Post(e)
    PROVE  Inv'
BY OnlyJobs DEF Post, jobVars, Inv, Types

LEMMA ProtectionInv ==
    ASSUME Inv, Protect \/ Release
    PROVE  Inv'
<1>1. /\ UNCHANGED <<policy, profile, sessions, dispatches, jobs, workers, editor, posts>>
      /\ CaseFree
  BY DEF Protect, Release, jobVars
<1>2. RowsAreKnown' /\ EditorIsOld' /\ UnsentIsSilent' /\ RunningIsCurrent' /\ OverIsStopped'
  BY <1>1, SameRows
<1>3. SendersAreAlone' /\ WorkersAreSound'
  BY <1>1, CaseFreeWorkers DEF CaseFree
<1>4. JobsAreReserved' /\ LocksExclude' /\ Types'
  BY <1>1, SameLocks DEF Inv, JobsAreReserved, Types
<1> QED
  BY <1>2, <1>3, <1>4 DEF Inv

LEMMA GrantExpiresInv ==
    ASSUME Inv, NEW s \in Sessions, GrantExpires(s)
    PROVE  Inv'
<1>1. /\ sessions[s] # None
      /\ UNCHANGED <<policy, profile, blocked, dispatches, jobs, workers, editor, posts>>
  BY DEF GrantExpires, gateVars, jobVars, Started
<1>2. /\ sessions'[s] = Expired(sessions[s])
      /\ \A r \in Sessions : r # s => sessions'[r] = sessions[r]
      /\ sessions' = [r \in Sessions |-> sessions'[r]]
  BY DEF GrantExpires, Inv, Types, Expired
<1>3. IsRow(sessions[s])
  BY <1>1 DEF Inv, RowsAreKnown
<1>4. SameSession(s) /\ IsRow(sessions'[s])
  BY <1>2, <1>3, ExpiredRow DEF SameSession, SameTerms
<1>5. \A r \in Sessions : sessions'[r] = sessions[r]
          \/ (sessions[r] # None /\ SameSession(r) /\ IsRow(sessions'[r]))
  BY <1>1, <1>2, <1>4 DEF SameSession, SameTerms
<1> QED
  BY <1>1, <1>2, <1>5, OnlyAges DEF Inv, Types, SameSession, SameTerms

LEMMA DueDatePassesInv ==
    ASSUME Inv, NEW s \in Sessions, DueDatePasses(s)
    PROVE  Inv'
<1> DEFINE p == [sessions[s].promise EXCEPT !.late = TRUE]
<1>1. /\ sessions[s] # None /\ sessions[s].promise # None
      /\ UNCHANGED <<policy, profile, blocked, dispatches, jobs, workers, editor, posts>>
  BY DEF DueDatePasses, gateVars, jobVars, Started
<1>2. /\ sessions'[s] = Late(sessions[s], p)
      /\ \A r \in Sessions : r # s => sessions'[r] = sessions[r]
      /\ sessions' = [r \in Sessions |-> sessions'[r]]
  BY DEF DueDatePasses, Inv, Types, Late
<1> HIDE DEF p
<1>3. IsRow(sessions[s]) /\ sessions[s].state # "identity_pending"
  BY <1>1 DEF Inv, RowsAreKnown, IsRow
<1>4. SameSession(s) /\ IsRow(sessions'[s])
  BY <1>2, <1>3, LateRow DEF SameSession, SameTerms
<1>5. \A r \in Sessions : sessions'[r] = sessions[r]
          \/ (sessions[r] # None /\ SameSession(r) /\ IsRow(sessions'[r]))
  BY <1>1, <1>2, <1>4 DEF SameSession, SameTerms
<1> QED
  BY <1>1, <1>2, <1>5, OnlyAges DEF Inv, Types, SameSession, SameTerms

LEMMA DayEndsInv ==
    ASSUME Inv, NoneIsNoRow, DayEnds
    PROVE  Inv'
<1>1. /\ sessions' = [s \in Sessions |-> IF s \in Started
                                       THEN [sessions[s] EXCEPT !.today = FALSE] ELSE None]
      /\ dispatches' = [s \in Sessions |-> IF s \in Reserved
                                         THEN [dispatches[s] EXCEPT !.today = FALSE] ELSE None]
      /\ UNCHANGED <<policy, profile, blocked, jobs, workers, editor, posts>>
  BY DEF DayEnds, gateVars, jobVars
<1>2. sessions' = [s \in Sessions |-> sessions'[s]]
  BY <1>1
<1>3. ASSUME NEW s \in Sessions
      PROVE  sessions'[s] = sessions[s]
               \/ (sessions[s] # None /\ SameSession(s) /\ IsRow(sessions'[s]))
  <2>1. CASE sessions[s] = None
    BY <1>1, <2>1 DEF Started
  <2>2. CASE sessions[s] # None
    <3>1. IsRow(sessions[s])
      BY <2>2 DEF Inv, RowsAreKnown
    <3>2. sessions'[s] = Yesterdays(sessions[s])
      BY <1>1, <2>2 DEF Started, Yesterdays
    <3>3. SameSession(s) /\ IsRow(sessions'[s])
      BY <3>1, <3>2, YesterdaysRow DEF SameSession, SameTerms
    <3> QED
      BY <2>2, <3>3
  <2> QED
    BY <2>1, <2>2
<1>4. ASSUME NEW s \in Sessions
      PROVE  /\ dispatches'[s] \in Dispatch \cup {None}
             /\ dispatches'[s] = None <=> dispatches[s] = None
             /\ dispatches'[s].state = dispatches[s].state
  <2>1. CASE dispatches[s] = None
    BY <1>1, <2>1 DEF Reserved
  <2>2. CASE dispatches[s] # None
    <3>1. dispatches[s] \in Dispatch
      BY <2>2 DEF Inv, Types
    <3>2. dispatches'[s] = [dispatches[s] EXCEPT !.today = FALSE]
      BY <1>1, <2>2 DEF Reserved
    <3>3. dispatches'[s] \in Dispatch /\ dispatches'[s].state = dispatches[s].state
      BY <3>1, <3>2 DEF Dispatch
    <3> QED
      BY <2>2, <3>3 DEF NoneIsNoRow
  <2> QED
    BY <2>1, <2>2
<1>5. dispatches' \in [Sessions -> Dispatch \cup {None}]
  BY <1>1, <1>4
<1> QED
  BY <1>1, <1>2, <1>3, <1>4, <1>5, OnlyAges DEF SameSession, SameTerms

LEMMA LeaseExpiresInv ==
    ASSUME Inv, NEW j \in Sessions \X Kinds, LeaseExpires(j)
    PROVE  Inv'
<1>1. jobs[j] \in Job /\ jobs[j].status # "absent" /\ j \in JobIds
  BY DEF LeaseExpires, Inv, Types, JobIds
<1>2. [jobs[j] EXCEPT !.live = FALSE] \in Job
  BY <1>1, JobOf
<1>3. /\ jobs' \in [JobIds -> Job]
      /\ \A i \in JobIds : i # j => jobs'[i] = jobs[i]
  BY <1>1, <1>2 DEF LeaseExpires, Inv, Types, JobIds
<1> QED
  BY <1>1, <1>3, OnlyJobs DEF LeaseExpires, gateVars

LEMMA RecoversInv ==
    ASSUME Inv, NEW j \in Sessions \X Kinds, Recovers(j)
    PROVE  Inv'
<1> DEFINE status == IF jobs[j].cancel THEN "finished"
                     ELSE IF jobs[j].attempt < MaxAttempts THEN "queued" ELSE "failed"
<1>1. jobs[j] \in Job /\ jobs[j].status # "absent" /\ j \in JobIds
  BY DEF Recovers, Inv, Types, JobIds
<1>2. status \in {"queued", "finished", "failed"}
  OBVIOUS
<1>3. jobs' = [jobs EXCEPT ![j] = [jobs[j] EXCEPT !.status = status, !.owner = None]]
  BY DEF Recovers
<1> HIDE DEF status
<1>4. [jobs[j] EXCEPT !.status = status, !.owner = None] \in Job
  BY <1>1, <1>2 DEF Job
<1>5. /\ jobs' \in [JobIds -> Job]
      /\ \A i \in JobIds : i # j => jobs'[i] = jobs[i]
  BY <1>1, <1>3, <1>4 DEF Inv, Types, JobIds
<1> QED
  BY <1>1, <1>5, OnlyJobs DEF Recovers, gateVars

-----------------------------------------------------------------------------
(* Jobs keep the invariant: what they do to themselves *)

Ended(q, locks, write) ==
    [q EXCEPT !.pc = "fence", !.locks = locks, !.write = write, !.seen = None]

Outcomes == {"blocked", "stop_requested", "none", "submitted", "unknown"}

LEMMA EndedWorker ==
    ASSUME NEW q \in Worker, q.job \in JobIds, NEW locks \in SUBSET Both, NEW write \in Outcomes,
           "tenant" \in locks, write \in Running => "case" \in locks
    PROVE  /\ Ended(q, locks, write) \in Worker /\ Sound(Ended(q, locks, write))
           /\ Ended(q, locks, write).pc = "fence" /\ Ended(q, locks, write).job = q.job
           /\ Ended(q, locks, write).locks = locks /\ Ended(q, locks, write).write = write
<1>1. /\ Ended(q, locks, write) \in Worker
      /\ Ended(q, locks, write).pc = "fence" /\ Ended(q, locks, write).job = q.job
      /\ Ended(q, locks, write).locks = locks /\ Ended(q, locks, write).write = write
  BY DEF Ended, Worker, Outcomes, Running
<1>2. Sound(Ended(q, locks, write))
  BY <1>1 DEF Sound, Holding, Outcomes
<1> QED
  BY <1>1, <1>2

Stepped(q, locks, pc) == [q EXCEPT !.locks = locks, !.pc = pc]

LEMMA SteppedWorker ==
    ASSUME NEW q \in Worker, NEW locks \in SUBSET Both,
           NEW pc \in {"relock", "recheck", "post", "commit"}
    PROVE  /\ Stepped(q, locks, pc) \in Worker
           /\ Stepped(q, locks, pc).pc = pc /\ Stepped(q, locks, pc).job = q.job
           /\ Stepped(q, locks, pc).locks = locks /\ Stepped(q, locks, pc).write = q.write
           /\ Stepped(q, locks, pc).seen = q.seen
BY DEF Stepped, Worker

\* Only one worker and its job move on.
LEMMA MovedInv ==
    ASSUME Inv, NEW w \in Workers, NEW q, Moves(w, q),
           UNCHANGED <<policy, profile, blocked, sessions, dispatches, posts, editor>>,
           q.pc \in Sending => workers[w].pc \in Sending /\ q.job = workers[w].job,
           ReadsStand(w)',
           jobs' \in [JobIds -> Job],
           \A j \in JobIds : jobs'[j].status # "absent" => jobs[j].status # "absent"
    PROVE  Inv'
<1>1. LocksExclude' /\ SendersAreAlone' /\ WorkersAreSound'
  BY MovedWorkers
<1>2. RowsAreKnown' /\ EditorIsOld' /\ UnsentIsSilent' /\ RunningIsCurrent' /\ OverIsStopped'
  BY SameRows
<1>3. JobsAreReserved'
  BY DEF Inv, JobsAreReserved
<1>4. Types'
  BY MovedLocks DEF Inv, Types
<1> QED
  BY <1>1, <1>2, <1>3, <1>4 DEF Inv

\* A worker that gives up.
LEMMA IdleInv ==
    ASSUME Inv, NEW w \in Workers, workers' = [workers EXCEPT ![w] = IdleWorker],
           UNCHANGED <<policy, profile, blocked, sessions, dispatches, posts, editor>>,
           jobs' \in [JobIds -> Job],
           \A j \in JobIds : jobs'[j].status # "absent" => jobs[j].status # "absent"
    PROVE  Inv'
<1>1. IdleWorker.pc = "idle" /\ IdleWorker.locks = {} /\ IdleWorker.write = "none"
  BY DEF IdleWorker
<1>2. Moves(w, IdleWorker)
  BY <1>1, IdleIsSound DEF Moves
<1>3. workers'[w] = IdleWorker
  BY DEF Inv, Types
<1>4. ReadsStand(w)'
  BY <1>1, <1>3 DEF ReadsStand, Sending, Running
<1> QED
  BY <1>1, <1>2, <1>4, MovedInv DEF Sending

\* A worker whose handler is through.
LEMMA EndsInv ==
    ASSUME Inv, NEW w \in Workers, workers[w].pc # "idle",
           NEW locks \in SUBSET Both, NEW write \in Outcomes, Ends(w, locks, write),
           "tenant" \in locks, "tenant" \in workers[w].locks \/ TenantFree,
           "case" \in locks => "case" \in workers[w].locks \/ CaseFree,
           write \in Running => "case" \in locks /\ Standing(Reach(w)),
           UNCHANGED <<policy, profile, blocked, sessions, dispatches, jobs, posts, editor>>
    PROVE  Inv'
<1> DEFINE q == Ended(workers[w], locks, write)
<1>1. workers[w] \in Worker /\ workers[w].job \in JobIds /\ dispatches[Reach(w)] # None
  BY DEF Inv, Types, WorkersAreSound, Sound, ReadsStand
<1>2. /\ q \in Worker /\ Sound(q) /\ q.pc = "fence" /\ q.job = workers[w].job
      /\ q.locks = locks /\ q.write = write
  BY <1>1, EndedWorker
<1>3. workers' = [workers EXCEPT ![w] = q] /\ workers'[w] = q
  BY DEF Ends, Ended, Inv, Types
<1> HIDE DEF q
<1>4. Moves(w, q)
  BY <1>2, <1>3 DEF Moves
<1>5. Reach(w)' = Reach(w) /\ (Standing(Reach(w)) => Standing(Reach(w))')
  BY <1>2, <1>3 DEF Reach, Standing, IsCurrent
<1>6. ReadsStand(w)'
  BY <1>1, <1>2, <1>3, <1>5 DEF ReadsStand, Sending
<1> QED
  BY <1>2, <1>4, <1>6, MovedInv DEF Sending, Inv, Types

\* A worker that goes on with what it has read.
LEMMA StepsInv ==
    ASSUME Inv, NEW w \in Workers, NEW locks \in SUBSET Both,
           NEW pc \in {"relock", "recheck", "post", "commit"},
           workers' = [workers EXCEPT ![w] = Stepped(workers[w], locks, pc)],
           Sound(Stepped(workers[w], locks, pc)), workers[w].pc # "idle",
           "tenant" \in locks => "tenant" \in workers[w].locks \/ TenantFree,
           "case" \in locks => "case" \in workers[w].locks \/ CaseFree,
           pc \in Sending => workers[w].pc \in Sending,
           pc = "post" => /\ Standing(Reach(w)) /\ dispatches[Reach(w)].state = "dispatching"
                          /\ sessions[Reach(w)].version = workers[w].seen.version,
           UNCHANGED <<policy, profile, blocked, sessions, dispatches, jobs, posts, editor>>
    PROVE  Inv'
<1> DEFINE q == Stepped(workers[w], locks, pc)
<1>1. workers[w] \in Worker /\ ReadsStand(w)
  BY DEF Inv, Types, WorkersAreSound
<1>2. /\ q \in Worker /\ q.pc = pc /\ q.job = workers[w].job
      /\ q.locks = locks /\ q.write = workers[w].write /\ q.seen = workers[w].seen
  BY <1>1, SteppedWorker
<1>3. workers' = [workers EXCEPT ![w] = q] /\ workers'[w] = q
  BY DEF Inv, Types
<1>4. Sound(q)
  OBVIOUS
<1> HIDE DEF q
<1>5. Moves(w, q)
  BY <1>2, <1>3, <1>4 DEF Moves
<1>6. Reach(w)' = Reach(w) /\ (Standing(Reach(w)) => Standing(Reach(w))')
  BY <1>2, <1>3 DEF Reach, Standing, IsCurrent
<1>7. ReadsStand(w)'
  BY <1>1, <1>2, <1>3, <1>6 DEF ReadsStand, Sending
<1> QED
  BY <1>2, <1>5, <1>7, MovedInv DEF Inv, Types

-----------------------------------------------------------------------------
(* Jobs keep the invariant: their steps *)

Claimed(j, attempt) == [IdleWorker EXCEPT !.pc = "start", !.job = j, !.attempt = attempt]

LEMMA ClaimsInv ==
    ASSUME Inv, NEW w \in Workers, NEW j \in Sessions \X Kinds, Claims(w, j)
    PROVE  Inv'
<1> DEFINE attempt == jobs[j].attempt + 1
           row == [status |-> "running", attempt |-> attempt, owner |-> w,
                   live |-> TRUE, cancel |-> FALSE]
           q == Claimed(j, attempt)
<1>1. /\ j \in JobIds /\ jobs[j] \in Job /\ jobs[j].status = "queued"
      /\ jobs[j].attempt < MaxAttempts
      /\ jobs' = [jobs EXCEPT ![j] = row]
      /\ workers' = [workers EXCEPT ![w] = q]
      /\ UNCHANGED <<policy, profile, blocked, sessions, dispatches, editor, posts>>
  BY DEF Claims, Claimed, gateVars, Inv, Types, JobIds
<1>2. attempt \in 0 .. MaxAttempts
  BY <1>1, CallsAssumption DEF Job, LoanAssumption
<1>3. row \in Job
  BY <1>2 DEF Job
<1>4. /\ jobs' \in [JobIds -> Job]
      /\ \A i \in JobIds : i # j => jobs'[i] = jobs[i]
  BY <1>1, <1>3 DEF Inv, Types
<1>5. dispatches[j[1]] # None
  BY <1>1 DEF Inv, JobsAreReserved
<1> HIDE DEF attempt, row
<1>6. /\ q \in Worker /\ Sound(q) /\ q.pc = "start" /\ q.job = j
      /\ q.locks = {} /\ q.write = "none"
  BY <1>1, <1>2, IdleIsSound DEF Claimed, Worker, IdleWorker, Sound, Holding, Running, JobIds
<1> HIDE DEF q
<1>7. Moves(w, q) /\ workers'[w] = q
  BY <1>1, <1>6 DEF Moves, Inv, Types
<1>8. ReadsStand(w)'
  BY <1>1, <1>5, <1>6, <1>7 DEF ReadsStand, Reach, Sending, Running
<1> QED
  BY <1>1, <1>4, <1>6, <1>7, <1>8, MovedInv DEF Sending

\* A job that has read the dispatch under the row of the tenant.
LEMMA ReadsInv ==
    ASSUME Inv, NEW w \in Workers, workers[w].pc = "start", TenantFree,
           NEW pc \in {"case", "delete"},
           workers' = [workers EXCEPT ![w] =
               [@ EXCEPT !.locks = {"tenant"}, !.seen = dispatches[Reach(w)], !.pc = pc]],
           UNCHANGED <<policy, profile, blocked, sessions, dispatches, jobs, posts, editor>>
    PROVE  Inv'
<1> DEFINE q == [workers[w] EXCEPT !.locks = {"tenant"}, !.seen = dispatches[Reach(w)], !.pc = pc]
<1>1. /\ workers[w] \in Worker /\ workers[w].job \in JobIds /\ workers[w].write = "none"
      /\ dispatches[Reach(w)] # None /\ Reach(w) \in Sessions
  BY DEF Inv, Types, WorkersAreSound, Sound, ReadsStand, Reach, JobIds
<1>2. dispatches[Reach(w)] \in Dispatch
  BY <1>1 DEF Inv, Types
<1>3. /\ q \in Worker /\ q.pc = pc /\ q.job = workers[w].job /\ q.locks = {"tenant"}
      /\ q.write = "none" /\ q.seen = dispatches[Reach(w)]
  BY <1>1, <1>2 DEF Worker, Both
<1>4. workers' = [workers EXCEPT ![w] = q] /\ workers'[w] = q
  BY DEF Inv, Types
<1> HIDE DEF q
<1>5. Sound(q)
  BY <1>1, <1>2, <1>3 DEF Sound, Holding, Running
<1>6. Moves(w, q)
  BY <1>3, <1>4, <1>5 DEF Moves
<1>7. Reach(w)' = Reach(w)
  BY <1>3, <1>4 DEF Reach
<1>8. ReadsStand(w)'
  BY <1>1, <1>3, <1>4, <1>7 DEF ReadsStand, Sending, Sends, Running
<1> QED
  BY <1>3, <1>6, <1>8, MovedInv DEF Sending, Inv, Types

LEMMA JobStartsInv ==
    ASSUME Inv, NEW w \in Workers, JobStarts(w)
    PROVE  Inv'
<1>1. /\ workers[w].pc = "start" /\ TenantFree
      /\ UNCHANGED <<policy, profile, blocked, sessions, dispatches, jobs, posts, editor>>
  BY DEF JobStarts, gateVars
<1>2. ASSUME NEW write \in {"none", "blocked"}, Ends(w, {"tenant"}, write)
      PROVE  Inv'
  BY <1>1, <1>2, EndsInv DEF Both, Outcomes, Running
<1>3. ASSUME NEW pc \in {"case", "delete"},
             workers' = [workers EXCEPT ![w] =
                 [@ EXCEPT !.locks = {"tenant"}, !.seen = dispatches[Reach(w)], !.pc = pc]]
      PROVE  Inv'
  BY <1>1, <1>3, ReadsInv
<1>4. CASE workers[w].job[2] = "stop"
  BY <1>2, <1>3, <1>4 DEF JobStarts, Reach
<1>5. CASE workers[w].job[2] # "stop"
  BY <1>2, <1>3, <1>5 DEF JobStarts, Reach
<1> QED
  BY <1>4, <1>5

LEMMA DeletesInv ==
    ASSUME Inv, NEW w \in Workers, Deletes(w)
    PROVE  Inv'
<1>1. /\ workers[w].pc = "delete" /\ Ends(w, {"tenant"}, "stop_requested")
      /\ UNCHANGED <<policy, profile, blocked, sessions, dispatches, jobs, posts, editor>>
  BY DEF Deletes, gateVars
<1>2. "tenant" \in workers[w].locks
  BY <1>1 DEF Inv, WorkersAreSound, Sound, Holding
<1> QED
  BY <1>1, <1>2, EndsInv DEF Both, Outcomes, Running

LEMMA JobRelocksInv ==
    ASSUME Inv, NEW w \in Workers, JobRelocks(w)
    PROVE  Inv'
<1>1. /\ workers[w].pc = "relock" /\ TenantFree
      /\ workers' = [workers EXCEPT ![w] = Stepped(workers[w], {"tenant"}, "recheck")]
      /\ UNCHANGED <<policy, profile, blocked, sessions, dispatches, jobs, posts, editor>>
  BY DEF JobRelocks, gateVars, Stepped
<1>2. workers[w] \in Worker /\ Sound(workers[w])
  BY DEF Inv, Types, WorkersAreSound
<1>3. Sound(Stepped(workers[w], {"tenant"}, "recheck"))
  BY <1>1, <1>2, SteppedWorker DEF Sound, Holding, Both, Running
<1> QED
  BY <1>1, <1>3, StepsInv DEF Sending, Both

LEMMA JobRechecksInv ==
    ASSUME Inv, NEW w \in Workers, JobRechecks(w)
    PROVE  Inv'
<1>1. /\ workers[w].pc = "recheck" /\ CaseFree
      /\ UNCHANGED <<policy, profile, blocked, sessions, dispatches, jobs, posts, editor>>
  BY DEF JobRechecks, gateVars
<1>2. workers[w] \in Worker /\ Sound(workers[w]) /\ "tenant" \in workers[w].locks
  BY <1>1 DEF Inv, Types, WorkersAreSound, Sound, Holding
<1>3. ASSUME NEW write \in {"none", "blocked"}, Ends(w, Both, write)
      PROVE  Inv'
  BY <1>1, <1>2, <1>3, EndsInv DEF Both, Outcomes, Running
<1>4. CASE Intended(Reach(w)) /\ MayExecute(Reach(w), workers[w].seen.version)
             /\ workers' = [workers EXCEPT ![w] = Stepped(workers[w], Both, "post")]
  <2>1. Sound(Stepped(workers[w], Both, "post"))
    BY <1>1, <1>2, SteppedWorker DEF Sound, Holding, Both, Running
  <2>2. /\ Standing(Reach(w)) /\ dispatches[Reach(w)].state = "dispatching"
        /\ sessions[Reach(w)].version = workers[w].seen.version
    BY <1>4 DEF Standing, MayExecute, Eligible, Intended
  <2> QED
    BY <1>1, <1>2, <1>4, <2>1, <2>2, StepsInv DEF Sending
<1> QED
  BY <1>3, <1>4 DEF JobRechecks, Reach, Stepped

LEMMA FenceInv ==
    ASSUME Inv, NEW w \in Workers, Fence(w)
    PROVE  Inv'
<1>1. /\ workers[w].pc = "fence"
      /\ UNCHANGED <<policy, profile, blocked, sessions, dispatches, jobs, posts, editor>>
  BY DEF Fence, gateVars
<1>2. workers[w] \in Worker /\ Sound(workers[w])
  BY DEF Inv, Types, WorkersAreSound
<1>3. CASE workers' = [workers EXCEPT ![w] = IdleWorker]
  BY <1>1, <1>3, IdleInv DEF Inv, Types
<1>4. CASE workers' = [workers EXCEPT ![w] = [@ EXCEPT !.pc = "commit"]]
  <2>1. [workers[w] EXCEPT !.pc = "commit"] = Stepped(workers[w], workers[w].locks, "commit")
    BY <1>2 DEF Stepped, Worker
  <2>2. /\ workers' = [workers EXCEPT ![w] = Stepped(workers[w], workers[w].locks, "commit")]
        /\ workers[w].locks \in SUBSET Both
    BY <1>2, <1>4, <2>1 DEF Worker
  <2>3. Sound(Stepped(workers[w], workers[w].locks, "commit"))
    BY <1>1, <1>2, <2>2, SteppedWorker DEF Sound, Holding
  <2> QED
    BY <1>1, <2>2, <2>3, StepsInv DEF Sending
<1> QED
  BY <1>3, <1>4 DEF Fence

LEMMA DiesInv ==
    ASSUME Inv, NEW w \in Workers, Dies(w)
    PROVE  Inv'
BY IdleInv DEF Dies, gateVars, Inv, Types

LEMMA FailsInv ==
    ASSUME Inv, NEW w \in Workers, Fails(w)
    PROVE  Inv'
<1> DEFINE j == workers[w].job
           status == IF jobs[j].cancel THEN "finished" ELSE "failed"
<1>1. /\ workers' = [workers EXCEPT ![w] = IdleWorker] /\ workers[w].pc # "idle"
      /\ UNCHANGED <<policy, profile, blocked, sessions, dispatches, posts, editor>>
  BY DEF Fails, gateVars
<1>2. j \in JobIds /\ jobs[j] \in Job
  BY <1>1 DEF Inv, Types, WorkersAreSound, Sound
<1>3. CASE jobs' = jobs
  BY <1>1, <1>3, IdleInv DEF Inv, Types
<1>4. CASE OwnsAttempt(w)
             /\ jobs' = [jobs EXCEPT ![j] =
                    [jobs[j] EXCEPT !.status = status, !.owner = None, !.live = FALSE]]
  <2>1. status \in {"finished", "failed"} /\ jobs[j].status # "absent"
    BY <1>4 DEF OwnsAttempt
  <2> HIDE DEF status
  <2>2. [jobs[j] EXCEPT !.status = status, !.owner = None, !.live = FALSE] \in Job
    BY <1>2, <2>1 DEF Job
  <2>3. /\ jobs' \in [JobIds -> Job]
        /\ \A i \in JobIds : i # j => jobs'[i] = jobs[i]
    BY <1>2, <1>4, <2>2 DEF Inv, Types
  <2> QED
    BY <1>1, <2>1, <2>3, IdleInv
<1> QED
  BY <1>3, <1>4 DEF Fails

\* Who holds the row of the tenant is alone in reading it.
LEMMA HolderIsAlone ==
    ASSUME Inv, NEW w \in Workers, workers[w].pc \in Holding
    PROVE  /\ "tenant" \in workers[w].locks /\ Sound(workers[w]) /\ ReadsStand(w)
           /\ workers[w] \in Worker /\ workers[w].job \in JobIds
           /\ Reach(w) \in Sessions /\ dispatches[Reach(w)] \in Dispatch
           /\ \A v \in Workers : v # w =>
                 /\ workers[v].pc \notin Holding /\ "case" \notin workers[v].locks
                 /\ workers[v].write \notin Running
                 /\ Sound(workers[v]) /\ ReadsStand(v)
<1>1. "tenant" \in workers[w].locks /\ Sound(workers[w]) /\ ReadsStand(w)
  BY DEF Inv, WorkersAreSound, Sound
<1>2. workers[w] \in Worker /\ workers[w].job \in JobIds /\ workers[w].pc # "idle"
  BY <1>1 DEF Inv, Types, Sound, Holding
<1>3. Reach(w) \in Sessions /\ dispatches[Reach(w)] \in Dispatch
  BY <1>1, <1>2 DEF Reach, JobIds, ReadsStand, Inv, Types
<1>4. ASSUME NEW v \in Workers, v # w
      PROVE  /\ workers[v].pc \notin Holding /\ "case" \notin workers[v].locks
             /\ workers[v].write \notin Running
             /\ Sound(workers[v]) /\ ReadsStand(v)
  <2>1. Sound(workers[v]) /\ ReadsStand(v)
    BY DEF Inv, WorkersAreSound
  <2>2. "tenant" \notin workers[v].locks
    BY <1>1, <1>4 DEF Inv, LocksExclude
  <2> QED
    BY <2>1, <2>2 DEF Sound, Holding
<1> QED
  BY <1>1, <1>2, <1>3, <1>4

\* The durable intent.
LEMMA IntendsInv ==
    ASSUME Inv, NoneIsNoRow, NEW w \in Workers, workers[w].pc = "case", CaseFree,
           Sends(w), MayExecute(Reach(w), workers[w].seen.version),
           dispatches' = [dispatches EXCEPT ![Reach(w)].state = "dispatching"],
           workers' = [workers EXCEPT ![w] = Stepped(workers[w], {}, "relock")],
           UNCHANGED <<policy, profile, blocked, sessions, jobs, editor, posts>>
    PROVE  Inv'
<1> DEFINE s == Reach(w)
           q == Stepped(workers[w], {}, "relock")
<1>1. /\ s \in Sessions /\ dispatches[s] \in Dispatch /\ dispatches[s] # None
      /\ workers[w] \in Worker /\ workers[w].job \in JobIds
      /\ workers[w].write = "none" /\ ReadsStand(w)
      /\ \A v \in Workers : v # w =>
            /\ workers[v].pc \notin Holding /\ "case" \notin workers[v].locks
            /\ workers[v].write \notin Running
            /\ Sound(workers[v]) /\ ReadsStand(v)
  BY HolderIsAlone DEF Holding, NoneIsNoRow, Sound
<1>2. sessions[s].state = "identity_pending" /\ IsCurrent(s)
  BY DEF MayExecute
<1>3. dispatches[s].state = "prepared" /\ posts[s] = 0
  BY <1>1, <1>2 DEF ReadsStand, IsCurrent, Inv, UnsentIsSilent
<1>4. /\ q \in Worker /\ q.pc = "relock" /\ q.job = workers[w].job
      /\ q.locks = {} /\ q.write = "none"
  BY <1>1, SteppedWorker
<1>5. /\ workers' = [workers EXCEPT ![w] = q] /\ workers'[w] = q
      /\ Reach(w)' = Reach(w)
  BY <1>4 DEF Inv, Types, Reach
<1>6. /\ dispatches'[s] = [dispatches[s] EXCEPT !.state = "dispatching"]
      /\ \A r \in Sessions : r # s => dispatches'[r] = dispatches[r]
  BY <1>1 DEF Inv, Types
<1>7. dispatches'[s] \in Dispatch /\ dispatches'[s].state = "dispatching" /\ dispatches'[s] # None
  BY <1>1, <1>6 DEF Dispatch, Running, NoneIsNoRow
<1>8. dispatches' \in [Sessions -> Dispatch \cup {None}]
  BY <1>1, <1>6, <1>7 DEF Inv, Types
<1> HIDE DEF s, q
<1>9. Sound(q)
  BY <1>1, <1>4 DEF Sound, Holding, Running
<1>10. /\ workers' \in [Workers -> Worker] /\ LocksExclude'
       /\ \A v \in Workers : v # w => workers'[v] = workers[v] /\ Reach(v)' = Reach(v)
  BY <1>4, <1>5, <1>9, MovedLocks DEF Moves
<1>11. ASSUME NEW v \in Workers, v # w
       PROVE  ReadsStand(v)' /\ ~ (workers[v].pc \in Sending /\ Reach(v) = s)
  <2>1. workers[v].pc # "idle" => Reach(v) \in Sessions
    BY <1>1, <1>11 DEF Sound, Reach, JobIds
  <2>2. ~ (workers[v].pc \in Sending /\ Reach(v) = s)
    BY <1>1, <1>3, <1>11 DEF ReadsStand
  <2> QED
    BY <1>1, <1>6, <1>7, <1>10, <1>11, <2>1, <2>2 DEF ReadsStand, Holding, Sending
<1>12. ReadsStand(w)'
  BY <1>3, <1>4, <1>5, <1>7 DEF ReadsStand, Sending, Running, s
<1>13. WorkersAreSound'
  BY <1>1, <1>5, <1>9, <1>10, <1>11, <1>12 DEF WorkersAreSound
<1>14. SendersAreAlone'
  BY <1>5, <1>10, <1>11 DEF Inv, SendersAreAlone, s
<1>15. RowsAreKnown' /\ EditorIsOld' /\ UnsentIsSilent' /\ RunningIsCurrent' /\ OverIsStopped'
  <2>1. RowsAreKnown'
    BY <1>1, <1>6 DEF Inv, RowsAreKnown, IsRow
  <2>2. EditorIsOld'
    BY DEF CaseFree, EditorIsOld
  <2>3. UnsentIsSilent'
    BY <1>6, <1>7 DEF Inv, UnsentIsSilent
  <2>4. RunningIsCurrent' /\ OverIsStopped'
    BY <1>2, <1>6 DEF Inv, RunningIsCurrent, OverIsStopped, Reserved, IsCurrent, TERMINAL
  <2> QED
    BY <2>1, <2>2, <2>3, <2>4
<1>16. JobsAreReserved'
  BY <1>6, <1>7 DEF Inv, JobsAreReserved, JobIds
<1>17. Types'
  BY <1>8, <1>10 DEF Inv, Types
<1> QED
  BY <1>10, <1>13, <1>14, <1>15, <1>16, <1>17 DEF Inv

LEMMA JobDecidesInv ==
    ASSUME Inv, NoneIsNoRow, NEW w \in Workers, JobDecides(w)
    PROVE  Inv'
<1>1. /\ workers[w].pc = "case" /\ CaseFree
      /\ UNCHANGED <<policy, profile, blocked, sessions, jobs, posts, editor>>
  BY DEF JobDecides, gateVars
<1>2. "tenant" \in workers[w].locks
  BY <1>1 DEF Inv, WorkersAreSound, Sound, Holding
<1>3. ASSUME NEW write \in {"none", "blocked"}, Ends(w, Both, write), UNCHANGED dispatches
      PROVE  Inv'
  BY <1>1, <1>2, <1>3, EndsInv DEF Both, Outcomes, Running
<1>4. CASE /\ Sends(w) /\ MayExecute(Reach(w), workers[w].seen.version)
           /\ dispatches' = [dispatches EXCEPT ![Reach(w)].state = "dispatching"]
           /\ workers' = [workers EXCEPT ![w] = Stepped(workers[w], {}, "relock")]
  BY <1>1, <1>4, IntendsInv
<1> QED
  BY <1>3, <1>4 DEF JobDecides, Reach, Stepped

LEMMA PostsInv ==
    ASSUME Inv, NEW w \in Workers, NEW outcome \in {"submitted", "unknown"}, Posts(w, outcome)
    PROVE  Inv'
<1> DEFINE s == Reach(w)
           q == Ended(workers[w], Both, outcome)
<1>1. /\ workers[w].pc = "post"
      /\ posts' = [posts EXCEPT ![s] = posts[s] + 1]
      /\ workers' = [workers EXCEPT ![w] = q]
      /\ UNCHANGED <<policy, profile, blocked, sessions, dispatches, jobs, editor>>
  BY DEF Posts, gateVars, Reach, Ends, Ended
<1>2. /\ s \in Sessions /\ dispatches[s] \in Dispatch
      /\ workers[w] \in Worker /\ workers[w].job \in JobIds
      /\ Sound(workers[w]) /\ ReadsStand(w) /\ "tenant" \in workers[w].locks
      /\ \A v \in Workers : v # w =>
            /\ workers[v].pc \notin Holding /\ "case" \notin workers[v].locks
            /\ workers[v].write \notin Running
            /\ Sound(workers[v]) /\ ReadsStand(v)
  BY <1>1, HolderIsAlone DEF Holding
<1>3. /\ "case" \in workers[w].locks /\ Standing(s) /\ dispatches[s].state = "dispatching"
      /\ dispatches[s] # None
  BY <1>1, <1>2 DEF Sound, ReadsStand
<1>4. /\ q \in Worker /\ Sound(q) /\ q.pc = "fence" /\ q.job = workers[w].job
      /\ q.locks = Both /\ q.write = outcome
  BY <1>2, EndedWorker DEF Both, Outcomes
<1>5. workers'[w] = q /\ Reach(w)' = Reach(w)
  BY <1>1, <1>4 DEF Inv, Types, Reach
<1>6. /\ posts'[s] = posts[s] + 1 /\ posts' \in [Sessions -> Nat]
      /\ \A r \in Sessions : r # s => posts'[r] = posts[r]
  BY <1>1, <1>2 DEF Inv, Types
<1> HIDE DEF q, s
<1>7. /\ workers' \in [Workers -> Worker] /\ LocksExclude'
      /\ \A v \in Workers : v # w => workers'[v] = workers[v] /\ Reach(v)' = Reach(v)
  BY <1>1, <1>2, <1>3, <1>4, MovedLocks DEF Moves
<1>8. ASSUME NEW v \in Workers, v # w PROVE ReadsStand(v)'
  <2>1. ~ (workers[v].pc \in Sending /\ Reach(v) = s)
    BY <1>1, <1>8 DEF Inv, SendersAreAlone, Sending, s
  <2>2. workers[v].pc # "idle" => Reach(v) \in Sessions
    BY <1>2, <1>8 DEF Sound, Reach, JobIds
  <2> QED
    BY <1>1, <1>2, <1>6, <1>7, <1>8, <2>1, <2>2 DEF ReadsStand, Holding, Sending
<1>9. ReadsStand(w)'
  <2>1. Standing(s)'
    BY <1>1, <1>3, <1>5 DEF Standing, IsCurrent, s
  <2> QED
    BY <1>1, <1>3, <1>4, <1>5, <2>1 DEF ReadsStand, Sending, s
<1>10. WorkersAreSound'
  BY <1>2, <1>4, <1>5, <1>7, <1>8, <1>9 DEF WorkersAreSound
<1>11. SendersAreAlone'
  BY <1>4, <1>5, <1>7 DEF Inv, SendersAreAlone, Sending
<1>12. UnsentIsSilent'
  BY <1>1, <1>3, <1>6 DEF Inv, UnsentIsSilent
<1>13. RowsAreKnown' /\ EditorIsOld' /\ RunningIsCurrent' /\ OverIsStopped' /\ JobsAreReserved'
  BY <1>1 DEF Inv, RowsAreKnown, EditorIsOld, RunningIsCurrent, OverIsStopped,
              JobsAreReserved, IsRow, IsCurrent, Reserved
<1>14. Types'
  BY <1>1, <1>6, <1>7 DEF Inv, Types
<1> QED
  BY <1>7, <1>10, <1>11, <1>12, <1>13, <1>14 DEF Inv

LEMMA CommitsInv ==
    ASSUME Inv, NoneIsNoRow, NEW w \in Workers, Commits(w)
    PROVE  Inv'
<1> DEFINE s == Reach(w)
           j == workers[w].job
           write == workers[w].write
           row == [dispatches[s] EXCEPT !.state = write]
<1>1. /\ workers[w].pc = "commit"
      /\ dispatches' = IF write = "none" THEN dispatches ELSE [dispatches EXCEPT ![s] = row]
      /\ jobs' = [jobs EXCEPT ![j] =
             [jobs[j] EXCEPT !.status = "finished", !.owner = None, !.live = FALSE]]
      /\ workers' = [workers EXCEPT ![w] = IdleWorker]
      /\ UNCHANGED <<policy, profile, blocked, sessions, editor, posts>>
  BY DEF Commits, gateVars, Reach
<1>2. /\ s \in Sessions /\ dispatches[s] \in Dispatch /\ dispatches[s] # None
      /\ workers[w] \in Worker /\ j \in JobIds
      /\ Sound(workers[w]) /\ ReadsStand(w)
      /\ \A v \in Workers : v # w =>
            /\ workers[v].pc \notin Holding /\ "case" \notin workers[v].locks
            /\ workers[v].write \notin Running
            /\ Sound(workers[v]) /\ ReadsStand(v)
  BY <1>1, HolderIsAlone DEF Holding, NoneIsNoRow
<1>3. /\ write \in Outcomes
      /\ write \in Running => Standing(s) /\ editor = None
  BY <1>1, <1>2 DEF Sound, ReadsStand, Worker, Running, Outcomes, Inv, LocksExclude
<1>4. /\ \A r \in Sessions : r # s => dispatches'[r] = dispatches[r]
      /\ dispatches'[s] \in Dispatch /\ dispatches'[s] # None
      /\ \/ dispatches'[s] = dispatches[s]
         \/ dispatches'[s].state = write /\ write # "none"
      /\ dispatches' \in [Sessions -> Dispatch \cup {None}]
  <2>1. CASE write = "none"
    BY <1>1, <1>2, <2>1 DEF Inv, Types
  <2>2. CASE write # "none"
    <3>1. write \in Running \cup {"blocked", "stop_requested"}
      BY <1>3, <2>2 DEF Outcomes, Running
    <3> HIDE DEF write
    <3>2. row \in Dispatch /\ row.state = write
      BY <1>2, <3>1, StateOf
    <3> HIDE DEF row
    <3> QED
      BY <1>1, <1>2, <2>2, <3>2 DEF Inv, Types, NoneIsNoRow
  <2> QED
    BY <2>1, <2>2
<1>5. [jobs[j] EXCEPT !.status = "finished", !.owner = None, !.live = FALSE] \in Job
  <2>1. jobs[j] \in Job
    BY <1>2 DEF Inv, Types
  <2> QED
    BY <2>1 DEF Job
<1>6. /\ jobs' \in [JobIds -> Job]
      /\ \A i \in JobIds : i # j => jobs'[i] = jobs[i]
  BY <1>1, <1>2, <1>5 DEF Inv, Types
<1>7. workers'[w] = IdleWorker /\ IdleWorker.pc = "idle" /\ IdleWorker.write = "none"
        /\ IdleWorker.locks = {}
  BY <1>1 DEF IdleWorker, Inv, Types
<1>8. /\ workers' \in [Workers -> Worker] /\ LocksExclude'
      /\ \A v \in Workers : v # w => workers'[v] = workers[v] /\ Reach(v)' = Reach(v)
  <2>1. Moves(w, IdleWorker)
    BY <1>1, <1>7, IdleIsSound DEF Moves
  <2> QED
    BY <1>1, <2>1, MovedLocks
<1> HIDE DEF row, write
<1>9. ASSUME NEW v \in Workers, v # w PROVE ReadsStand(v)'
  <2>1. workers[v].pc # "idle" => Reach(v) \in Sessions
    BY <1>2, <1>9 DEF Sound, Reach, JobIds
  <2> QED
    BY <1>1, <1>2, <1>3, <1>4, <1>8, <1>9, <2>1 DEF ReadsStand, Holding, Sending, Outcomes
<1>10. ReadsStand(w)'
  BY <1>7 DEF ReadsStand, Sending, Running
<1>11. WorkersAreSound'
  BY <1>2, <1>7, <1>8, <1>9, <1>10, IdleIsSound DEF WorkersAreSound
<1>12. SendersAreAlone'
  BY <1>7, <1>8 DEF Inv, SendersAreAlone, Sending
<1> HIDE DEF s, j
<1>13. UnsentIsSilent'
  BY <1>1, <1>2, <1>3, <1>4 DEF Inv, UnsentIsSilent, Outcomes
<1>14. EditorIsOld'
  BY <1>1, <1>2, <1>3, <1>4 DEF Inv, EditorIsOld
<1>15. RunningIsCurrent' /\ OverIsStopped'
  BY <1>1, <1>2, <1>3, <1>4 DEF Inv, RunningIsCurrent, OverIsStopped, Reserved, IsCurrent,
                                Standing, TERMINAL
<1>16. RowsAreKnown'
  BY <1>1, <1>2, <1>4 DEF Inv, RowsAreKnown, IsRow
<1>17. JobsAreReserved'
  <2>1. ASSUME NEW i \in JobIds, jobs'[i].status # "absent"
        PROVE  dispatches'[i[1]] # None
    <3>1. i[1] \in Sessions
      BY DEF JobIds
    <3>2. CASE i = j
      BY <1>4, <3>2 DEF j, s, Reach
    <3>3. CASE i # j
      BY <1>2, <1>4, <1>6, <2>1, <3>1, <3>3 DEF Inv, JobsAreReserved
    <3> QED
      BY <3>2, <3>3
  <2> QED
    BY <2>1 DEF JobsAreReserved
<1>18. Types'
  BY <1>1, <1>4, <1>6, <1>8 DEF Inv, Types
<1> QED
  BY <1>8, <1>11, <1>12, <1>13, <1>14, <1>15, <1>16, <1>17, <1>18 DEF Inv

-----------------------------------------------------------------------------
(* The invariant, and what it is for *)

LEMMA AdministersInv == Inv /\ NoneIsNoRow /\ Administers => Inv'
BY SavePolicyInv, ProfileReadsInv, ProfileCommitsInv, StartSessionInv, ReserveDispatchInv,
   StopSipInv, CancelJobInv, RetryJobInv DEF Administers

LEMMA OperatesInv == Inv /\ NoneIsNoRow /\ Operates => Inv'
<1> SUFFICES ASSUME Inv, NoneIsNoRow, Operates PROVE Inv'
  OBVIOUS
<1>1. PICK s \in Sessions :
         \/ \E intent \in {"exception", "identity_verified", "promise", "paid_claimed", "end"} :
                RecordEvent(s, intent)
         \/ \E stops \in {{}, {s}} : Reconcile(s, stops)
  BY DEF Operates
<1>2. CASE \E intent \in {"exception", "identity_verified", "promise", "paid_claimed", "end"} :
               RecordEvent(s, intent)
  BY <1>2, RecordEventInv
<1>3. CASE \E stops \in {{}, {s}} : Reconcile(s, stops)
  <2>1. PICK stops \in SUBSET {s} : Reconcile(s, stops)
    BY <1>3
  <2> QED
    BY <2>1, ReconcileInv
<1> QED
  BY <1>1, <1>2, <1>3

LEMMA WorksInv == Inv /\ NoneIsNoRow /\ Works => Inv'
BY ClaimsInv, JobStartsInv, DeletesInv, JobDecidesInv, JobRelocksInv, JobRechecksInv,
   FenceInv, CommitsInv, PostsInv, FailsInv, DiesInv, LeaseExpiresInv, RecoversInv DEF Works

LEMMA HappensInv == Inv /\ NoneIsNoRow /\ Happens => Inv'
BY PostInv, ProtectionInv, DayEndsInv, GrantExpiresInv, DueDatePassesInv DEF Happens

LEMMA StutterInv == Inv /\ UNCHANGED vars => Inv'
<1> SUFFICES ASSUME Inv, UNCHANGED vars PROVE Inv'
  OBVIOUS
<1> QED
  BY OnlyJobs DEF vars, gateVars, jobVars, Inv, Types

\* What locks, versions and the durable intent keep true, step by step.
THEOREM Invariance == Spec => []Inv
<1>1. NoneIsNoRow
  BY CallsAssumption
<1>2. Inv /\ [Next]_vars => Inv'
  BY <1>1, AdministersInv, OperatesInv, WorksInv, HappensInv, StutterInv DEF Next
<1> QED
  BY <1>2, InitInv, PTL DEF Spec

\* A call goes out only while its case may be contacted, and its session is the one that was
\* authorized, on today's policy and profile; saving either, ending the conversation, a claimed
\* payment or a promise stops it whatever the dispatching jobs are doing meanwhile. For any
\* number of sessions, workers and attempts.
THEOREM OnlyAuthorizedCalls == Spec => []CallsAreAuthorized
<1>1. Inv => PostingIsAuthorized
  BY DEF Inv, WorkersAreSound, ReadsStand, Standing, PostingIsAuthorized, Reach
<1>2. Inv => CallsAreAuthorized
  BY <1>1 DEF CallsAreAuthorized, Inv
<1> QED
  BY <1>2, Invariance, PTL

-----------------------------------------------------------------------------
(* A dispatch fires once: every step is one of OneShot, or none *)

Armed == {"prepared", "dispatching"}

\* No dispatch appears, and none is armed again.
Fades ==
    /\ UNCHANGED posts
    /\ \A s \in Sessions :
          /\ dispatches'[s] = None <=> dispatches[s] = None
          /\ dispatches[s] # None /\ dispatches'[s].state \in Armed =>
                 dispatches[s].state \in Armed

LEMMA StageType ==
    ASSUME Inv, NEW s \in Sessions
    PROVE  /\ posts[s] \in Nat /\ Stages[s] = Stage(s) /\ Stages'[s] = Stage(s)'
           /\ Stages = [r \in Sessions |-> Stage(r)] /\ Stages' = [r \in Sessions |-> Stage(r)']
BY DEF Inv, Types, Stages

LEMMA FadingWithdraws == Inv /\ Fades => Calls!WithdrawMany
<1> SUFFICES ASSUME Inv, Fades PROVE Calls!WithdrawMany
  OBVIOUS
<1> DEFINE S == {s \in Sessions : Stage(s) = "armed" /\ Stage(s)' # "armed"}
<1>1. ASSUME NEW s \in Sessions
      PROVE  Stage(s)' = IF s \in S THEN "withdrawn" ELSE Stage(s)
  <2>1. posts'[s] = posts[s]
    BY DEF Fades
  <2>2. dispatches'[s] = None <=> dispatches[s] = None
    BY DEF Fades
  <2>3. dispatches[s] # None /\ dispatches'[s].state \in Armed => dispatches[s].state \in Armed
    BY DEF Fades
  <2> QED
    BY <2>1, <2>2, <2>3 DEF Stage, Armed
<1>2. \A s \in S : Stages[s] = "armed"
  BY DEF Stages
<1>3. Stages' = [s \in Sessions |-> IF s \in S THEN "withdrawn" ELSE Stages[s]]
  BY <1>1 DEF Stages
<1> QED
  BY <1>2, <1>3 DEF Calls!WithdrawMany

LEMMA StopsFade ==
    ASSUME NoneIsNoRow, OnlyStops, UNCHANGED posts
    PROVE  Fades
BY DEF OnlyStops, NoneIsNoRow, Fades, Armed

LEMMA AdministersFades ==
    ASSUME Inv, NoneIsNoRow, Administers
    PROVE  Fades \/ \E s \in Sessions : ReserveDispatch(s)
<1>1. ASSUME NEW paused \in BOOLEAN, SavePolicy(paused) PROVE Fades
  <2>1. OnlyStops
    BY <1>1, StopFacts DEF SavePolicy, Inv, Types
  <2> QED
    BY <1>1, <2>1, StopsFade DEF SavePolicy
<1>2. ASSUME ProfileCommits PROVE Fades
  <2>1. OnlyStops
    BY <1>2, StopFacts DEF ProfileCommits, Inv, EditorIsOld
  <2> QED
    BY <1>2, <2>1, StopsFade DEF ProfileCommits
<1>3. ASSUME NEW s \in Sessions, StopSip(s) PROVE Fades
  <2>1. /\ dispatches[s] # None /\ dispatches[s] \in Dispatch
        /\ dispatches'[s] = [dispatches[s] EXCEPT !.state = StopState(dispatches[s].state)]
        /\ \A r \in Sessions : r # s => dispatches'[r] = dispatches[r]
    BY <1>3 DEF StopSip, Reserved, Inv, Types
  <2>2. dispatches'[s] \in Dispatch /\ dispatches'[s].state \in {"blocked", "stop_requested"}
    BY <2>1, StopOf, StateOf
  <2>3. OnlyStops
    BY <2>1, <2>2 DEF OnlyStops
  <2> QED
    BY <1>3, <2>3, StopsFade DEF StopSip
<1>4. ASSUME ProfileReads PROVE Fades
  BY <1>4 DEF ProfileReads, Fades
<1>5. ASSUME NEW s \in Sessions, StartSession(s) PROVE Fades
  BY <1>5 DEF StartSession, Fades
<1>6. ASSUME NEW j \in Sessions \X Kinds, CancelJob(j) \/ RetryJob(j) PROVE Fades
  BY <1>6 DEF CancelJob, RetryJob, Fades
<1> QED
  BY <1>1, <1>2, <1>3, <1>4, <1>5, <1>6 DEF Administers

LEMMA OperatesFades ==
    ASSUME Inv, NoneIsNoRow, Operates
    PROVE  Fades
<1>1. ASSUME NEW s \in Sessions, NEW S \in SUBSET {s}, StopDispatches(S, dispatches),
             UNCHANGED posts
      PROVE  Fades
  <2>1. OnlyStops
    BY <1>1, StopFacts DEF Inv, Types
  <2> QED
    BY <1>1, <2>1, StopsFade
<1>2. ASSUME NEW s \in Sessions, NEW intent, RecordEvent(s, intent) PROVE Fades
  BY <1>1, <1>2 DEF RecordEvent
<1>3. ASSUME NEW s \in Sessions, NEW stops \in SUBSET {s}, Reconcile(s, stops) PROVE Fades
  BY <1>1, <1>3 DEF Reconcile
<1> QED
  BY <1>2, <1>3 DEF Operates

LEMMA CommitsFades ==
    ASSUME Inv, NoneIsNoRow, NEW w \in Workers, Commits(w)
    PROVE  Fades
<1> DEFINE s == Reach(w)
           write == workers[w].write
<1>1. /\ workers[w].pc = "commit" /\ UNCHANGED posts
      /\ dispatches' = IF write = "none" THEN dispatches
                       ELSE [dispatches EXCEPT ![s].state = write]
  BY DEF Commits, Reach
<1>2. s \in Sessions /\ dispatches[s] \in Dispatch /\ workers[w] \in Worker /\ Sound(workers[w])
  BY <1>1, HolderIsAlone DEF Holding
<1>3. write = "none" \/ write \in (Running \cup {"blocked", "stop_requested"}) \ Armed
  BY <1>2 DEF Sound, Worker, Running, Armed
<1> HIDE DEF write, s
<1>4. CASE write = "none"
  BY <1>1, <1>4 DEF Fades
<1>5. CASE write # "none"
  <2>1. /\ \A r \in Sessions : r # s => dispatches'[r] = dispatches[r]
        /\ dispatches'[s] = [dispatches[s] EXCEPT !.state = write]
    BY <1>1, <1>2, <1>5 DEF Inv, Types
  <2>2. dispatches'[s] \in Dispatch /\ dispatches'[s].state = write
    BY <1>2, <1>3, <1>5, <2>1, StateOf
  <2> QED
    BY <1>1, <1>2, <1>3, <1>5, <2>1, <2>2 DEF Fades, NoneIsNoRow
<1> QED
  BY <1>4, <1>5

LEMMA JobDecidesFades ==
    ASSUME Inv, NoneIsNoRow, NEW w \in Workers, JobDecides(w)
    PROVE  Fades
<1> DEFINE s == Reach(w)
<1>1. workers[w].pc = "case" /\ UNCHANGED posts
  BY DEF JobDecides
<1>2. s \in Sessions /\ dispatches[s] \in Dispatch /\ ReadsStand(w)
  BY <1>1, HolderIsAlone DEF Holding
<1>3. CASE UNCHANGED dispatches
  BY <1>1, <1>3 DEF Fades
<1>4. CASE Sends(w) /\ MayExecute(s, workers[w].seen.version)
             /\ dispatches' = [dispatches EXCEPT ![s].state = "dispatching"]
  <2>1. dispatches[s].state = "prepared"
    BY <1>1, <1>2, <1>4 DEF ReadsStand, MayExecute, IsCurrent
  <2>2. /\ \A r \in Sessions : r # s => dispatches'[r] = dispatches[r]
        /\ dispatches'[s] \in Dispatch
    BY <1>2, <1>4, StateOf DEF Inv, Types, Running
  <2> QED
    BY <1>1, <1>2, <2>1, <2>2 DEF Fades, Armed, NoneIsNoRow
<1> QED
  BY <1>3, <1>4 DEF JobDecides, Reach

LEMMA WorksFades ==
    ASSUME Inv, NoneIsNoRow, Works
    PROVE  Fades \/ \E w \in Workers, outcome \in {"submitted", "unknown"} : Posts(w, outcome)
<1>1. ASSUME NEW w \in Workers, NEW j \in Sessions \X Kinds, Claims(w, j) PROVE Fades
  BY <1>1 DEF Claims, Fades
<1>2. ASSUME NEW w \in Workers,
             \/ JobStarts(w) \/ Deletes(w) \/ JobRelocks(w) \/ JobRechecks(w)
             \/ Fence(w) \/ Fails(w) \/ Dies(w)
      PROVE  Fades
  BY <1>2 DEF JobStarts, Deletes, JobRelocks, JobRechecks, Fence, Fails, Dies, Fades
<1>3. ASSUME NEW j \in Sessions \X Kinds, LeaseExpires(j) \/ Recovers(j) PROVE Fades
  BY <1>3 DEF LeaseExpires, Recovers, Fades
<1> QED
  BY <1>1, <1>2, <1>3, CommitsFades, JobDecidesFades DEF Works

LEMMA HappensFades ==
    ASSUME Inv, NoneIsNoRow, Happens
    PROVE  Fades
<1>1. ASSUME NEW s \in Sessions, GrantExpires(s) \/ DueDatePasses(s) PROVE Fades
  BY <1>1 DEF GrantExpires, DueDatePasses, Fades
<1>2. ASSUME NEW e, Post(e) \/ Protect \/ Release PROVE Fades
  BY <1>2 DEF Post, Protect, Release, Fades
<1>3. ASSUME DayEnds PROVE Fades
  <2>1. ASSUME NEW s \in Sessions
        PROVE  /\ dispatches'[s] = None <=> dispatches[s] = None
               /\ dispatches[s] # None => dispatches'[s].state = dispatches[s].state
    <3>1. dispatches'[s] = IF dispatches[s] # None
                           THEN [dispatches[s] EXCEPT !.today = FALSE] ELSE None
      BY <1>3 DEF DayEnds, Reserved
    <3>2. CASE dispatches[s] # None
      <4>1. dispatches[s] \in Dispatch
        BY <3>2 DEF Inv, Types
      <4>2. [dispatches[s] EXCEPT !.today = FALSE] \in Dispatch
            /\ [dispatches[s] EXCEPT !.today = FALSE].state = dispatches[s].state
        BY <4>1 DEF Dispatch
      <4> QED
        BY <3>1, <3>2, <4>2 DEF NoneIsNoRow
    <3> QED
      BY <3>1, <3>2
  <2> QED
    BY <1>3, <2>1 DEF DayEnds, Fades
<1> QED
  BY <1>1, <1>2, <1>3 DEF Happens

\* One stage changes.
LEMMA StageMoves ==
    ASSUME Inv, NEW s \in Sessions, NEW from, NEW to,
           Stage(s) = from, Stage(s)' = to,
           \A r \in Sessions : r # s => posts'[r] = posts[r] /\ dispatches'[r] = dispatches[r]
    PROVE  Calls!Move(s, from, to)
<1>1. \A r \in Sessions : r # s => Stage(r)' = Stage(r)
  BY DEF Stage
<1>2. Stages' = [Stages EXCEPT ![s] = to]
  BY <1>1 DEF Stages
<1> QED
  BY <1>2 DEF Calls!Move, Stages

LEMMA ReserveDispatchArms ==
    ASSUME Inv, NoneIsNoRow, NEW s \in Sessions, ReserveDispatch(s)
    PROVE  Calls!Move(s, "unarmed", "armed")
<1> DEFINE row == [state |-> "prepared", version |-> sessions[s].version, today |-> TRUE]
<1>1. /\ sessions[s] # None /\ dispatches[s] = None /\ UNCHANGED posts
      /\ dispatches' = [dispatches EXCEPT ![s] = row]
  BY DEF ReserveDispatch, Started
<1>2. /\ dispatches'[s] = row /\ row.state = "prepared"
      /\ \A r \in Sessions : r # s => dispatches'[r] = dispatches[r]
  BY <1>1 DEF Inv, Types
<1>3. row # None
  <2>1. sessions[s].version \in Nat
    BY <1>1 DEF Inv, RowsAreKnown, IsRow
  <2>2. \A n \in Nat : [state |-> "prepared", version |-> n, today |-> TRUE] \in Dispatch
    BY DEF Dispatch, Running
  <2> QED
    BY <2>1, <2>2 DEF NoneIsNoRow
<1> HIDE DEF row
<1>4. posts[s] = 0
  BY <1>1 DEF Inv, UnsentIsSilent
<1>5. Stage(s) = "unarmed" /\ Stage(s)' = "armed"
  BY <1>1, <1>2, <1>3, <1>4 DEF Stage
<1> QED
  BY <1>1, <1>2, <1>5, StageMoves

LEMMA PostsActs ==
    ASSUME Inv, NoneIsNoRow, NEW w \in Workers, NEW outcome, Posts(w, outcome)
    PROVE  Reach(w) \in Sessions /\ Calls!Move(Reach(w), "armed", "acted")
<1>0. PICK s : s = Reach(w)
  OBVIOUS
<1>1. /\ workers[w].pc = "post" /\ UNCHANGED dispatches
      /\ posts' = [posts EXCEPT ![s] = posts[s] + 1]
  BY <1>0 DEF Posts, Reach
<1>2. /\ s \in Sessions /\ dispatches[s] \in Dispatch /\ posts[s] = 0
      /\ dispatches[s].state = "dispatching"
  BY <1>0, <1>1, HolderIsAlone DEF Holding, ReadsStand, Sending
<1>3. posts'[s] = 1 /\ \A r \in Sessions : r # s => posts'[r] = posts[r]
  BY <1>1, <1>2 DEF Inv, Types
<1>4. Stage(s) = "armed" /\ Stage(s)' = "acted"
  BY <1>1, <1>2, <1>3 DEF Stage, NoneIsNoRow
<1> QED
  BY <1>0, <1>1, <1>2, <1>3, <1>4, StageMoves

\* Reserving arms a dispatch, the POST is its act, and whatever stops or blocks it withdraws it:
\* no dispatch calls twice, and none calls that was stopped, across lost leases, crashes,
\* retries and any number of workers.
THEOREM ImplementsOneShot == Spec => CallsFireOnce
<1>1. NoneIsNoRow
  BY CallsAssumption
<1>2. Init => Stages = [i \in Sessions |-> "unarmed"]
  <2>1. ASSUME Init, NEW s \in Sessions PROVE Stage(s) = "unarmed"
    BY <2>1 DEF Init, Stage
  <2> QED
    BY <2>1 DEF Stages
<1>3. Inv /\ [Next]_vars => [Calls!Next \/ Calls!WithdrawMany]_Stages
  <2> SUFFICES ASSUME Inv, [Next]_vars PROVE [Calls!Next \/ Calls!WithdrawMany]_Stages
    OBVIOUS
  <2>1. CASE Fades
    BY <2>1, FadingWithdraws
  <2>2. CASE \E s \in Sessions : ReserveDispatch(s)
    BY <1>1, <2>2, ReserveDispatchArms DEF Calls!Next
  <2>3. CASE \E w \in Workers, outcome \in {"submitted", "unknown"} : Posts(w, outcome)
    <3>1. PICK w \in Workers, outcome \in {"submitted", "unknown"} : Posts(w, outcome)
      BY <2>3
    <3> QED
      BY <1>1, <3>1, PostsActs DEF Calls!Next
  <2>4. CASE UNCHANGED vars
    BY <2>4 DEF vars, Stages, Stage
  <2> QED
    BY <1>1, <2>1, <2>2, <2>3, <2>4, AdministersFades, OperatesFades, WorksFades, HappensFades
       DEF Next
<1>4. Spec => Stages = [i \in Sessions |-> "unarmed"]
  BY <1>2 DEF Spec
<1>5. Spec => [][Calls!Next \/ Calls!WithdrawMany]_Stages
  BY <1>3, Invariance, PTL DEF Spec
<1> QED
  BY <1>4, <1>5 DEF CallsFireOnce, Calls!Spec
-----------------------------------------------------------------------------
(* One conversation, and one thing to wait for, at a time                  *)

NoRefunds == \A e \in posted : Cents[e] >= 0

Open(s) == sessions[s].state \notin TERMINAL

\* The session keeps its case waiting.
Obliges(s) ==
    /\ sessions[s].state \notin {"paused", "ended"}
    /\ sessions[s].promise # None =>
           sessions[s].promise.status \notin {"fulfilled", "broken"}

\* A promise belongs to the state it led to; it was broken late, and what kept it is there.
PromiseStands(s) ==
    /\ sessions[s].state = "ptp_recorded" <=> sessions[s].promise # None
    /\ sessions[s].promise # None =>
          /\ sessions[s].promise \in Promise
          /\ sessions[s].promise.status = "broken" => sessions[s].promise.late
          /\ sessions[s].promise.status = "fulfilled" /\ NoRefunds =>
                 net_recovery - sessions[s].promise.baseline >= Promised

Duties ==
    /\ posted \subseteq Entries /\ IsFiniteSet(posted)
    /\ IsFiniteSet(Started) /\ IsFiniteSet(Reserved)
    /\ \A s \in Started : PromiseStands(s)
    /\ \A r, s \in Started : Open(r) /\ Open(s) => r = s
    /\ Cardinality(StartedToday) <= Limit
    /\ Cardinality(ReservedToday) <= Quota
    /\ OneObligation

LEMMA NetIsTotal ==
    net_recovery = Total(Cents, posted) /\ net_recovery' = Total(Cents, posted')
BY DEF net_recovery, Total, MapThenSumSet, MapThenFoldSet

\* As long as nothing is taken back, what was recovered only grows.
LEMMA NetGrows ==
    ASSUME IsFiniteSet(posted), posted \subseteq Entries,
           IsFiniteSet(posted'), posted' \subseteq Entries, posted \subseteq posted'
    PROVE  /\ net_recovery \in Int /\ net_recovery' \in Int
           /\ NoRefunds' => NoRefunds /\ net_recovery <= net_recovery'
<1>1. /\ \A e \in posted : Cents[e] \in Int
      /\ \A e \in posted' : Cents[e] \in Int
  BY CallsAssumption DEF LoanAssumption
<1>2. net_recovery = Total(Cents, posted) /\ net_recovery' = Total(Cents, posted')
  BY NetIsTotal
<1>3. Total(Cents, posted) \in Int /\ Total(Cents, posted') \in Int
  BY <1>1, TotalIsInt
<1>4. ASSUME NoRefunds' PROVE NoRefunds /\ Total(Cents, posted) <= Total(Cents, posted')
  <2>1. \A e \in posted' \ posted : Cents[e] >= 0
    BY <1>4 DEF NoRefunds
  <2>2. Total(Cents, posted) <= Total(Cents, posted')
    BY <1>1, <2>1, TotalOfPart
  <2> QED
    BY <1>4, <2>2 DEF NoRefunds
<1> QED
  BY <1>2, <1>3, <1>4

\* Cardinalities of what only loses members.
LEMMA NoMore ==
    ASSUME NEW S, IsFiniteSet(S), NEW T, T \subseteq S, NEW n \in Nat, Cardinality(S) <= n
    PROVE  Cardinality(T) <= n
<1>1. IsFiniteSet(T) /\ Cardinality(T) <= Cardinality(S)
  BY FS_Subset
<1> QED
  BY <1>1, FS_CardinalityType

LEMMA OneMore ==
    ASSUME NEW S, IsFiniteSet(S), NEW s, NEW T, T \subseteq S \cup {s},
           NEW n \in Nat, Cardinality(S) < n
    PROVE  Cardinality(T) <= n
<1>1. /\ IsFiniteSet(S \cup {s})
      /\ Cardinality(S \cup {s}) = IF s \in S THEN Cardinality(S) ELSE Cardinality(S) + 1
  BY FS_AddElement
<1>2. Cardinality(S) \in Nat
  BY FS_CardinalityType
<1>3. Cardinality(S \cup {s}) <= n
  BY <1>1, <1>2
<1> QED
  BY <1>1, <1>3, NoMore

LEMMA Bounds == Limit \in Nat /\ Quota \in Nat /\ Promised \in Nat \ {0}
BY CallsAssumption DEF LoanAssumption

\* What a step leaves of a conversation: it does not become open, or owed, again.
GoesOn(s) ==
    /\ sessions'[s].today => sessions[s].today
    /\ Open(s)' => Open(s)
    /\ PromiseStands(s)'
    /\ NoRefunds' /\ Obliges(s)' => Obliges(s)

NoneStarts == \A s \in Sessions : sessions'[s] # None => sessions[s] # None

NoneIsReserved ==
    \A s \in Sessions : dispatches'[s] # None =>
        dispatches[s] # None /\ (dispatches'[s].today => dispatches[s].today)

PostedOnly == posted' \subseteq Entries /\ IsFiniteSet(posted') /\ posted \subseteq posted'

LEMMA ObligationIs ==
    OneObligation <=>
        (NoRefunds => \A r, s \in Started : Obliges(r) /\ Obliges(s) => r = s)
BY DEF OneObligation, NoRefunds, Obliges

LEMMA ReservedKept ==
    ASSUME Duties, NoneIsReserved
    PROVE  IsFiniteSet(Reserved') /\ Cardinality(ReservedToday') <= Quota
<1>1. Reserved' \subseteq Reserved /\ ReservedToday' \subseteq ReservedToday
        /\ ReservedToday \subseteq Reserved
  BY DEF NoneIsReserved, Reserved, ReservedToday
<1>2. IsFiniteSet(Reserved') /\ IsFiniteSet(ReservedToday)
  BY <1>1, FS_Subset DEF Duties
<1> QED
  BY <1>1, <1>2, NoMore, Bounds DEF Duties

LEMMA DutiesKept ==
    ASSUME Duties, PostedOnly, NoneStarts, NoneIsReserved, \A s \in Started : GoesOn(s)
    PROVE  Duties'
<1>1. Started' \subseteq Started
  BY DEF NoneStarts, Started
<1>2. StartedToday' \subseteq StartedToday /\ StartedToday \subseteq Started
  BY <1>1 DEF StartedToday, GoesOn
<1>3. IsFiniteSet(Started') /\ Cardinality(StartedToday') <= Limit
  BY <1>1, <1>2, FS_Subset, NoMore, Bounds DEF Duties
<1>4. IsFiniteSet(Reserved') /\ Cardinality(ReservedToday') <= Quota
  BY ReservedKept
<1>5. /\ \A s \in Started' : PromiseStands(s)'
      /\ \A r, s \in Started' : Open(r)' /\ Open(s)' => r = s
  BY <1>1 DEF GoesOn, Duties
<1>6. NoRefunds' => NoRefunds
  BY DEF PostedOnly, NoRefunds
<1>7. NoRefunds => \A r, s \in Started : Obliges(r) /\ Obliges(s) => r = s
  BY ObligationIs DEF Duties
<1>8. NoRefunds' => \A r, s \in Started' : Obliges(r)' /\ Obliges(s)' => r = s
  BY <1>1, <1>6, <1>7 DEF GoesOn
<1>9. OneObligation'
  BY <1>8 DEF OneObligation, NoRefunds, Obliges
<1> QED
  BY <1>3, <1>4, <1>5, <1>9 DEF Duties, PostedOnly

\* A row that does not change, while what was recovered at most grows.
LEMMA SameGoesOn ==
    ASSUME Duties, PostedOnly, NEW s \in Started, sessions'[s] = sessions[s]
    PROVE  GoesOn(s)
<1>1. /\ net_recovery \in Int /\ net_recovery' \in Int
      /\ NoRefunds' => NoRefunds /\ net_recovery <= net_recovery'
  BY NetGrows DEF Duties, PostedOnly
<1>2. PromiseStands(s)
  BY DEF Duties
<1>3. PromiseStands(s)'
  <2>1. sessions[s].promise # None => sessions[s].promise.baseline \in Int
    BY <1>2 DEF PromiseStands, Promise
  <2> QED
    BY <1>1, <1>2, <2>1, Bounds DEF PromiseStands
<1> QED
  BY <1>3 DEF GoesOn, Open, Obliges

LEMMA SamePosted ==
    ASSUME Duties, posted' = posted
    PROVE  PostedOnly /\ net_recovery' = net_recovery /\ NoRefunds' = NoRefunds
<1>1. net_recovery = Total(Cents, posted) /\ net_recovery' = Total(Cents, posted')
  BY NetIsTotal
<1> QED
  BY <1>1 DEF Duties, PostedOnly, NoRefunds

LEMMA StopsReserve ==
    ASSUME Inv, NoneIsNoRow, NEW S,
           NEW seen, \A s \in Sessions : seen[s] = None <=> dispatches[s] = None,
           StopDispatches(S, seen)
    PROVE  NoneIsReserved
<1>1. ASSUME NEW s \in Sessions, dispatches'[s] # None
      PROVE  dispatches[s] # None /\ (dispatches'[s].today => dispatches[s].today)
  <2>1. CASE dispatches'[s] = dispatches[s]
    BY <1>1, <2>1
  <2>2. CASE dispatches'[s] # dispatches[s]
    <3>1. seen[s] # None
            /\ dispatches'[s] = [dispatches[s] EXCEPT !.state = StopState(seen[s].state)]
      BY <2>2 DEF StopDispatches
    <3>2. dispatches[s] \in Dispatch
      BY <3>1 DEF Inv, Types
    <3>3. ASSUME NEW state PROVE [dispatches[s] EXCEPT !.state = state].today = dispatches[s].today
      BY <3>2 DEF Dispatch
    <3> QED
      BY <3>1, <3>2, <3>3
  <2> QED
    BY <2>1, <2>2
<1> QED
  BY <1>1 DEF NoneIsReserved

LEMMA StateReserves ==
    ASSUME Inv, NEW s \in Sessions, dispatches[s] # None, NEW state,
           dispatches' = [dispatches EXCEPT ![s].state = state]
    PROVE  NoneIsReserved
<1>1. dispatches[s] \in Dispatch /\ dispatches \in [Sessions -> Dispatch \cup {None}]
  BY DEF Inv, Types
<1>2. [dispatches[s] EXCEPT !.state = state].today = dispatches[s].today
  BY <1>1 DEF Dispatch
<1>3. /\ dispatches'[s] = [dispatches[s] EXCEPT !.state = state]
      /\ \A r \in Sessions : r # s => dispatches'[r] = dispatches[r]
  BY <1>1
<1>4. dispatches'[s].today = dispatches[s].today
  BY <1>2, <1>3
<1> QED
  BY <1>3, <1>4 DEF NoneIsReserved

\* A step on jobs, workers, terms or states of dispatches.
LEMMA AsideKeeps ==
    ASSUME Duties, posted' = posted, sessions' = sessions, NoneIsReserved
    PROVE  Duties'
<1>1. PostedOnly
  BY SamePosted
<1>2. NoneStarts /\ \A s \in Started : sessions'[s] = sessions[s]
  BY DEF NoneStarts
<1>3. \A s \in Started : GoesOn(s)
  BY <1>1, <1>2, SameGoesOn
<1> QED
  BY <1>1, <1>2, <1>3, DutiesKept

\* A step on the row of one conversation.
LEMMA OneGoesOn ==
    ASSUME Duties, posted' = posted, NEW s \in Started,
           \A r \in Sessions : r # s => sessions'[r] = sessions[r],
           NoneIsReserved, GoesOn(s)
    PROVE  Duties'
<1>1. PostedOnly
  BY SamePosted
<1>2. NoneStarts
  BY DEF NoneStarts, Started
<1>3. \A r \in Started : GoesOn(r)
  <2>1. ASSUME NEW r \in Started, r # s PROVE GoesOn(r)
    <3>1. sessions'[r] = sessions[r]
      BY <2>1 DEF Started
    <3> QED
      BY <1>1, <3>1, SameGoesOn
  <2> QED
    BY <2>1
<1> QED
  BY <1>1, <1>2, <1>3, DutiesKept

LEMMA WorksKeeps ==
    ASSUME Inv, Duties, Works
    PROVE  Duties'
<1>1. posted' = posted /\ sessions' = sessions
  BY DEF Works, Claims, JobStarts, Deletes, JobDecides, JobRelocks, JobRechecks, Posts, Fence,
         Commits, Fails, Dies, LeaseExpires, Recovers, gateVars
<1>2. ASSUME NEW w \in Workers, workers[w].pc # "idle"
      PROVE  Reach(w) \in Sessions /\ dispatches[Reach(w)] # None
  BY <1>2 DEF Inv, WorkersAreSound, ReadsStand, Sound, JobIds, Reach
<1>3. CASE dispatches' = dispatches
  BY <1>1, <1>3, AsideKeeps DEF NoneIsReserved
<1>4. CASE \E w \in Workers : JobDecides(w) /\ dispatches' # dispatches
  <2>1. PICK w \in Workers : JobDecides(w) /\ dispatches' # dispatches
    BY <1>4
  <2>2. dispatches' = [dispatches EXCEPT ![Reach(w)].state = "dispatching"]
          /\ workers[w].pc # "idle"
    BY <2>1 DEF JobDecides, Reach
  <2> QED
    BY <1>1, <1>2, <2>2, StateReserves, AsideKeeps
<1>5. CASE \E w \in Workers : Commits(w) /\ dispatches' # dispatches
  <2>1. PICK w \in Workers : Commits(w) /\ dispatches' # dispatches
    BY <1>5
  <2>2. dispatches' = [dispatches EXCEPT ![Reach(w)].state = workers[w].write]
          /\ workers[w].pc # "idle"
    BY <2>1 DEF Commits, Reach
  <2> QED
    BY <1>1, <1>2, <2>2, StateReserves, AsideKeeps
<1> QED
  BY <1>3, <1>4, <1>5
  DEF Works, Claims, JobStarts, Deletes, JobRelocks, JobRechecks, Posts, Fence,
      Fails, Dies, LeaseExpires, Recovers

LEMMA ReserveDispatchKeeps ==
    ASSUME Inv, Duties, NEW s \in Sessions, ReserveDispatch(s)
    PROVE  Duties'
<1>1. /\ posted' = posted /\ sessions' = sessions
      /\ Cardinality(ReservedToday) < Quota
      /\ \A r \in Sessions : r # s => dispatches'[r] = dispatches[r]
  BY DEF ReserveDispatch, gateVars, Inv, Types
<1>2. /\ Reserved' \subseteq Reserved \cup {s}
      /\ ReservedToday' \subseteq ReservedToday \cup {s}
      /\ ReservedToday \subseteq Reserved
  BY <1>1 DEF Reserved, ReservedToday
<1>3. IsFiniteSet(Reserved \cup {s})
  BY FS_AddElement DEF Duties
<1>4. IsFiniteSet(Reserved') /\ IsFiniteSet(ReservedToday)
  <2>1. IsFiniteSet(Reserved)
    BY DEF Duties
  <2> QED
    BY <1>2, <1>3, <2>1, FS_Subset
<1>5. Cardinality(ReservedToday') <= Quota
  BY <1>1, <1>2, <1>4, OneMore, Bounds
<1>6. net_recovery' = net_recovery /\ NoRefunds' = NoRefunds
  BY <1>1, SamePosted
<1>7. /\ Started' = Started /\ StartedToday' = StartedToday
      /\ \A r : PromiseStands(r)' = PromiseStands(r) /\ Open(r)' = Open(r)
      /\ OneObligation' = OneObligation
  BY <1>1, <1>6 DEF Started, StartedToday, PromiseStands, Open, OneObligation
<1> QED
  BY <1>1, <1>4, <1>5, <1>7 DEF Duties

LEMMA StartSessionKeeps ==
    ASSUME Inv, NoneIsNoRow, Duties, NEW s \in Sessions, StartSession(s)
    PROVE  Duties'
<1> DEFINE row == [state |-> "identity_pending", version |-> 1, policy |-> policy.version,
                   profile |-> profile.version, granted |-> TRUE, today |-> TRUE,
                   promise |-> None]
<1>1. /\ posted' = posted /\ dispatches' = dispatches
      /\ sessions[s] = None
      /\ Cardinality(StartedToday) < Limit
      /\ \A r \in Started : ~ Holds(AfterLapse[r])
      /\ sessions' = [AfterLapse EXCEPT ![s] = row]
  BY DEF StartSession, gateVars
<1>2. /\ sessions'[s] = row
      /\ \A r \in Sessions : r # s => sessions'[r] = AfterLapse[r]
  BY <1>1 DEF AfterLapse
<1>3. /\ row.state = "identity_pending" /\ row.promise = None
      /\ row.state \notin TERMINAL
  BY DEF TERMINAL
<1> HIDE DEF row
<1>4. ASSUME NEW r \in Sessions, r # s
      PROVE  /\ sessions'[r] # None => r \in Started
             /\ r \in Started /\ ~ Lapsed(r) => sessions'[r] = sessions[r]
             /\ r \in Started /\ Lapsed(r) => sessions'[r] = Paused(sessions[r])
  BY <1>2, <1>4 DEF AfterLapse, Started
<1>5. ASSUME NEW r \in Started
      PROVE  /\ r # s /\ r \in Sessions /\ IsRow(sessions[r]) /\ PromiseStands(r)
             /\ ~ Holds(sessions'[r])
  BY <1>1, <1>2 DEF Started, Inv, RowsAreKnown, Duties
<1>6. ASSUME NEW r \in Started
      PROVE  /\ sessions'[r].promise = sessions[r].promise
             /\ sessions'[r].today = sessions[r].today
             /\ sessions'[r].state \in {sessions[r].state, "paused"}
             /\ Lapsed(r) => sessions[r].state \notin TERMINAL
  BY <1>4, <1>5 DEF IsRow, Paused, Lapsed
<1>7. ASSUME NEW r \in Started
      PROVE  /\ sessions'[r].state \in TERMINAL
             /\ ~ Obliges(r)'
             /\ PromiseStands(r)'
  <2>1. sessions'[r].state = "ptp_recorded" => sessions'[r].promise # None
    BY <1>5, <1>6 DEF PromiseStands
  <2>2. sessions'[r].state \in {"paused", "ended", "ptp_recorded"}
    BY <1>5 DEF Holds
  <2>3. sessions'[r].promise # None =>
            sessions[r].promise.status \in {"pending", "partial", "fulfilled", "broken"}
    BY <1>5, <1>6 DEF PromiseStands, Promise
  <2>4. ~ Obliges(r)'
    BY <1>5, <1>6, <2>1, <2>2, <2>3 DEF Obliges, Holds
  <2>5. PostedOnly
    BY <1>1, SamePosted
  <2>6. CASE sessions'[r] = sessions[r]
    BY <2>2, <2>4, <2>5, <2>6, SameGoesOn DEF GoesOn, TERMINAL
  <2>7. CASE sessions'[r] # sessions[r]
    <3>1. sessions[r].state \notin TERMINAL /\ sessions'[r] = Paused(sessions[r])
      BY <1>4, <1>5, <1>6, <2>7
    <3>2. sessions[r].promise = None
      BY <1>5, <3>1 DEF PromiseStands, TERMINAL
    <3>3. Paused(sessions[r]).state = "paused"
      BY <1>5, RowOf
    <3>4. sessions'[r].state = "paused" /\ sessions'[r].promise = None
      BY <1>6, <3>1, <3>2, <3>3
    <3> QED
      BY <2>2, <2>4, <3>4 DEF PromiseStands, TERMINAL
  <2> QED
    BY <2>2, <2>4, <2>6, <2>7 DEF TERMINAL
<1>8. Started' \subseteq Started \cup {s}
  BY <1>4 DEF Started
<1>9. StartedToday' \subseteq StartedToday \cup {s} /\ StartedToday \subseteq Started
  BY <1>6, <1>8 DEF StartedToday
<1>10. IsFiniteSet(Started') /\ IsFiniteSet(StartedToday)
  <2>1. IsFiniteSet(Started) /\ IsFiniteSet(Started \cup {s})
    BY FS_AddElement DEF Duties
  <2> QED
    BY <1>8, <1>9, <2>1, FS_Subset
<1>11. Cardinality(StartedToday') <= Limit
  BY <1>1, <1>9, <1>10, OneMore, Bounds
<1>12. PromiseStands(s)'
  BY <1>2, <1>3 DEF PromiseStands
<1>13. \A r \in Started' : PromiseStands(r)'
  BY <1>7, <1>8, <1>12
<1>14. \A r \in Started' : Open(r)' \/ Obliges(r)' => r = s
  BY <1>7, <1>8 DEF Open
<1>15. OneObligation'
  BY <1>14 DEF OneObligation, Obliges
<1>16. Reserved' = Reserved /\ ReservedToday' = ReservedToday
  BY <1>1 DEF Reserved, ReservedToday
<1> QED
  BY <1>1, <1>10, <1>11, <1>13, <1>14, <1>15, <1>16 DEF Duties

\* The promise that a conversation records is new, and not kept yet.
LEMMA RecordEventKeeps ==
    ASSUME Inv, NoneIsNoRow, Duties, NEW s \in Sessions, NEW intent, RecordEvent(s, intent)
    PROVE  Duties'
<1> DEFINE fit == Eligible /\ Authorized(s) /\ IsCurrent(s)
           to == IF fit THEN After(sessions[s].state, intent) ELSE "paused"
           p == IF to = "ptp_recorded" THEN NewPromise ELSE sessions[s].promise
           S == IF to \in TERMINAL THEN {s} ELSE {}
<1>1. /\ s \in Started /\ sessions[s] # None /\ Open(s)
      /\ sessions' = [sessions EXCEPT ![s] =
             [sessions[s] EXCEPT !.state = to, !.version = sessions[s].version + 1, !.promise = p]]
      /\ StopDispatches(S, dispatches)
      /\ posted' = posted
  BY DEF RecordEvent, gateVars, Answers, Started, Open
<1>2. p = IF to = "ptp_recorded" THEN NewPromise ELSE sessions[s].promise
  OBVIOUS
<1> HIDE DEF to, p, S
<1>3. NoneIsReserved
  BY <1>1, StopsReserve
<1>4. IsRow(sessions[s]) /\ PromiseStands(s)
  BY <1>1 DEF Inv, RowsAreKnown, Duties
<1>5. /\ sessions'[s] = Evented(sessions[s], to, p)
      /\ \A r \in Sessions : r # s => sessions'[r] = sessions[r]
  BY <1>1 DEF Inv, Types, Evented
<1>6. /\ sessions'[s].state = to /\ sessions'[s].promise = p
      /\ sessions'[s].today = sessions[s].today
  BY <1>4, <1>5 DEF Evented, IsRow
<1>7. sessions[s].promise = None
  BY <1>1, <1>4 DEF PromiseStands, Open, TERMINAL
<1>8. net_recovery' = net_recovery /\ NoRefunds' = NoRefunds /\ net_recovery \in Int
  <2>1. PostedOnly
    BY <1>1, SamePosted
  <2>2. net_recovery \in Int
    BY <2>1, NetGrows DEF Duties, PostedOnly
  <2> QED
    BY <2>2, <1>1, SamePosted
<1>9. /\ NewPromise \in Promise /\ NewPromise # None
      /\ NewPromise.status = "pending"
  <2>1. ASSUME NEW n \in Int
        PROVE  [baseline |-> n, paid |-> 0, late |-> FALSE, status |-> "pending"] \in Promise
    BY DEF Promise
  <2>2. NewPromise \in Promise
    BY <1>8, <2>1 DEF NewPromise
  <2> QED
    BY <2>2 DEF NewPromise, NoneIsNoRow
<1>10. PromiseStands(s)'
  BY <1>2, <1>6, <1>7, <1>9 DEF PromiseStands
<1>11. Obliges(s)
  BY <1>1, <1>7 DEF Obliges, Open, TERMINAL
<1>12. GoesOn(s)
  BY <1>1, <1>6, <1>10, <1>11 DEF GoesOn
<1> QED
  BY <1>1, <1>3, <1>5, <1>12, OneGoesOn

LEMMA AtLeast == \A n \in Int, m \in Nat \ {0} : AtLeastZero(n) >= m <=> n >= m
BY DEF AtLeastZero

\* Reconciling never reopens a promise that was kept, unless money was taken back.
LEMMA ReconcileKeeps ==
    ASSUME Inv, NoneIsNoRow, Duties, NEW s \in Sessions, NEW stops, Reconcile(s, stops)
    PROVE  Duties'
<1> DEFINE old == sessions[s].promise
           paid == AtLeastZero(net_recovery - old.baseline)
           status == IF paid >= Promised THEN "fulfilled"
                     ELSE IF old.late THEN "broken"
                     ELSE IF paid > 0 THEN "partial" ELSE "pending"
           p == [old EXCEPT !.paid = paid, !.status = status]
<1>1. /\ s \in Started /\ sessions[s] # None /\ old # None
      /\ sessions' = [sessions EXCEPT ![s] =
             [sessions[s] EXCEPT !.promise = p, !.version = sessions[s].version + 1]]
      /\ StopDispatches(stops, dispatches)
      /\ posted' = posted
  BY DEF Reconcile, Reconciled, gateVars, Started
<1>2. NoneIsReserved
  BY <1>1, StopsReserve
<1>3. IsRow(sessions[s]) /\ PromiseStands(s)
  BY <1>1 DEF Inv, RowsAreKnown, Duties
<1>4. old \in Promise
  BY <1>1, <1>3 DEF PromiseStands
<1>5. net_recovery' = net_recovery /\ NoRefunds' = NoRefunds /\ net_recovery \in Int
  <2>1. PostedOnly
    BY <1>1, SamePosted
  <2>2. net_recovery \in Int
    BY <2>1, NetGrows DEF Duties, PostedOnly
  <2> QED
    BY <2>2, <1>1, SamePosted
<1>6. /\ net_recovery - old.baseline \in Int
      /\ paid \in Nat /\ (paid >= Promised <=> net_recovery - old.baseline >= Promised)
  <2>1. net_recovery - old.baseline \in Int
    BY <1>4, <1>5 DEF Promise
  <2> QED
    BY <2>1, AtLeast, Bounds DEF AtLeastZero
<1>7. /\ status \in {"pending", "partial", "fulfilled", "broken"}
      /\ status = "fulfilled" <=> net_recovery - old.baseline >= Promised
      /\ status = "broken" => old.late
  BY <1>6
<1>8. /\ old.status = "broken" => status \in {"fulfilled", "broken"}
      /\ old.status = "fulfilled" /\ NoRefunds => status = "fulfilled"
  <2>1. /\ old.status = "broken" => old.late
        /\ old.status = "fulfilled" /\ NoRefunds => net_recovery - old.baseline >= Promised
    BY <1>1, <1>3 DEF PromiseStands
  <2>2. CASE net_recovery - old.baseline >= Promised
    BY <1>7, <2>2
  <2>3. CASE ~ (net_recovery - old.baseline >= Promised)
    BY <1>6, <2>1, <2>3
  <2> QED
    BY <2>2, <2>3
<1>9. /\ p \in Promise /\ p.status = status /\ p.late = old.late /\ p.baseline = old.baseline
  <2>1. ASSUME NEW a \in Nat, NEW b \in {"pending", "partial", "fulfilled", "broken"}
        PROVE  LET q == [old EXCEPT !.paid = a, !.status = b] IN
               q \in Promise /\ q.status = b /\ q.late = old.late /\ q.baseline = old.baseline
    BY <1>4 DEF Promise
  <2> HIDE DEF paid, status, old
  <2> QED
    BY <1>6, <1>7, <2>1
<1> HIDE DEF p, paid, status
<1>10. /\ sessions'[s] = Promising(sessions[s], p)
       /\ \A r \in Sessions : r # s => sessions'[r] = sessions[r]
  BY <1>1 DEF Inv, Types, Promising
<1>11. /\ sessions'[s].state = sessions[s].state /\ sessions'[s].promise = p
       /\ sessions'[s].today = sessions[s].today
  BY <1>3, <1>10 DEF Promising, IsRow
<1>12. p # None
  BY <1>9 DEF NoneIsNoRow
<1>13. PromiseStands(s)'
  <2>1. sessions[s].state = "ptp_recorded"
    BY <1>1, <1>3 DEF PromiseStands
  <2> HIDE DEF old
  <2> QED
    BY <1>5, <1>7, <1>9, <1>11, <1>12, <2>1 DEF PromiseStands
<1>14. NoRefunds' /\ Obliges(s)' => Obliges(s)
  <2>1. p.status \notin {"fulfilled", "broken"} /\ NoRefunds =>
            old.status \notin {"fulfilled", "broken"}
    BY <1>8, <1>9
  <2> QED
    BY <1>1, <1>5, <1>11, <1>12, <2>1 DEF Obliges
<1>15. GoesOn(s)
  BY <1>11, <1>13, <1>14 DEF GoesOn, Open
<1> QED
  BY <1>1, <1>2, <1>10, <1>15, OneGoesOn

LEMMA PostKeeps ==
    ASSUME Duties, NEW e \in Entries, Post(e)
    PROVE  Duties'
<1>1. /\ posted' = posted \cup {e} /\ sessions' = sessions /\ dispatches' = dispatches
  BY DEF Post
<1>2. PostedOnly
  BY <1>1, FS_AddElement DEF Duties, PostedOnly
<1>3. NoneStarts /\ NoneIsReserved /\ \A s \in Started : sessions'[s] = sessions[s]
  BY <1>1 DEF NoneStarts, NoneIsReserved
<1> QED
  BY <1>2, <1>3, SameGoesOn, DutiesKept

LEMMA GrantExpiresKeeps ==
    ASSUME Inv, Duties, NEW s \in Sessions, GrantExpires(s)
    PROVE  Duties'
<1>1. /\ s \in Started /\ sessions[s] # None /\ posted' = posted /\ dispatches' = dispatches
  BY DEF GrantExpires, gateVars, Started
<1>2. /\ sessions'[s] = Expired(sessions[s])
      /\ \A r \in Sessions : r # s => sessions'[r] = sessions[r]
  BY DEF GrantExpires, Inv, Types, Expired
<1>3. IsRow(sessions[s]) /\ PromiseStands(s)
  BY <1>1 DEF Inv, RowsAreKnown, Duties
<1>4. /\ sessions'[s].state = sessions[s].state /\ sessions'[s].promise = sessions[s].promise
      /\ sessions'[s].today = sessions[s].today
  BY <1>2, <1>3 DEF IsRow, Expired
<1>5. net_recovery' = net_recovery /\ NoRefunds' = NoRefunds
  BY <1>1, SamePosted
<1>6. GoesOn(s)
  BY <1>3, <1>4, <1>5 DEF GoesOn, Open, Obliges, PromiseStands
<1> QED
  BY <1>1, <1>2, <1>6, OneGoesOn DEF NoneIsReserved

LEMMA DueDatePassesKeeps ==
    ASSUME Inv, NoneIsNoRow, Duties, NEW s \in Sessions, DueDatePasses(s)
    PROVE  Duties'
<1> DEFINE p == [sessions[s].promise EXCEPT !.late = TRUE]
<1>1. /\ s \in Started /\ sessions[s].promise # None
      /\ posted' = posted /\ dispatches' = dispatches
  BY DEF DueDatePasses, gateVars
<1>2. /\ sessions'[s] = Late(sessions[s], p)
      /\ \A r \in Sessions : r # s => sessions'[r] = sessions[r]
  BY DEF DueDatePasses, Inv, Types, Late
<1>3. IsRow(sessions[s]) /\ PromiseStands(s)
  BY <1>1 DEF Inv, RowsAreKnown, Duties, Started
<1>4. /\ p \in Promise /\ p.late /\ p.status = sessions[s].promise.status
      /\ p.baseline = sessions[s].promise.baseline
  BY <1>1, <1>3 DEF PromiseStands, Promise
<1> HIDE DEF p
<1>5. /\ sessions'[s].state = sessions[s].state /\ sessions'[s].promise = p
      /\ sessions'[s].today = sessions[s].today
  BY <1>2, <1>3 DEF IsRow, Late
<1>6. net_recovery' = net_recovery /\ NoRefunds' = NoRefunds
  BY <1>1, SamePosted
<1>7. p # None
  BY <1>4 DEF NoneIsNoRow
<1>8. GoesOn(s)
  BY <1>1, <1>3, <1>4, <1>5, <1>6, <1>7 DEF GoesOn, Open, Obliges, PromiseStands
<1> QED
  BY <1>1, <1>2, <1>8, OneGoesOn DEF NoneIsReserved

LEMMA DayEndsKeeps ==
    ASSUME Inv, NoneIsNoRow, Duties, DayEnds
    PROVE  Duties'
<1>1. /\ sessions' = [s \in Sessions |-> IF s \in Started
                                       THEN [sessions[s] EXCEPT !.today = FALSE] ELSE None]
      /\ dispatches' = [s \in Sessions |-> IF s \in Reserved
                                         THEN [dispatches[s] EXCEPT !.today = FALSE] ELSE None]
      /\ posted' = posted
  BY DEF DayEnds, gateVars
<1>2. PostedOnly /\ net_recovery' = net_recovery /\ NoRefunds' = NoRefunds
  BY <1>1, SamePosted
<1>3. NoneStarts
  BY <1>1 DEF NoneStarts, Started
<1>4. NoneIsReserved
  <2>1. ASSUME NEW s \in Sessions, dispatches'[s] # None
        PROVE  dispatches[s] # None /\ (dispatches'[s].today => dispatches[s].today)
    <3>1. s \in Reserved /\ dispatches'[s] = [dispatches[s] EXCEPT !.today = FALSE]
      BY <1>1, <2>1
    <3>2. dispatches[s] # None /\ dispatches[s] \in Dispatch
      BY <3>1 DEF Reserved, Inv, Types
    <3>3. dispatches'[s].today = FALSE
      BY <3>1, <3>2 DEF Dispatch
    <3> QED
      BY <3>2, <3>3
  <2> QED
    BY <2>1 DEF NoneIsReserved
<1>5. ASSUME NEW s \in Started PROVE GoesOn(s)
  <2>1. sessions'[s] = Yesterdays(sessions[s]) /\ sessions[s] # None /\ s \in Sessions
    BY <1>1 DEF Started, Yesterdays
  <2>2. IsRow(sessions[s]) /\ PromiseStands(s)
    BY <2>1 DEF Inv, RowsAreKnown, Duties
  <2>3. /\ sessions'[s].state = sessions[s].state /\ sessions'[s].promise = sessions[s].promise
        /\ sessions'[s].today = FALSE
    BY <2>1, <2>2 DEF IsRow, Yesterdays
  <2> QED
    BY <1>2, <2>2, <2>3 DEF GoesOn, Open, Obliges, PromiseStands
<1> QED
  BY <1>2, <1>3, <1>4, <1>5, DutiesKept

LEMMA AdministersKeeps ==
    ASSUME Inv, NoneIsNoRow, Duties, Administers
    PROVE  Duties'
<1>1. CASE \E paused \in BOOLEAN : SavePolicy(paused)
  <2>1. StopDispatches(Sessions, dispatches) /\ posted' = posted /\ sessions' = sessions
    BY <1>1 DEF SavePolicy
  <2> QED
    BY <2>1, StopsReserve, AsideKeeps
<1>2. CASE ProfileCommits
  <2>1. /\ StopDispatches(Sessions, editor.dispatches) /\ editor # None
        /\ posted' = posted /\ sessions' = sessions
    BY <1>2 DEF ProfileCommits
  <2>2. \A s \in Sessions : editor.dispatches[s] = None <=> dispatches[s] = None
    BY <2>1 DEF Inv, EditorIsOld
  <2> QED
    BY <2>1, <2>2, StopsReserve, AsideKeeps
<1>3. CASE \E s \in Sessions : StopSip(s)
  <2>1. PICK s \in Sessions : StopSip(s)
    BY <1>3
  <2>2. /\ dispatches[s] # None /\ posted' = posted /\ sessions' = sessions
        /\ dispatches' = [dispatches EXCEPT ![s].state = StopState(dispatches[s].state)]
    BY <2>1 DEF StopSip, Reserved, gateVars
  <2> QED
    BY <2>2, StateReserves, AsideKeeps
<1>4. CASE ProfileReads \/ \E j \in Sessions \X Kinds : CancelJob(j) \/ RetryJob(j)
  <2>1. posted' = posted /\ sessions' = sessions /\ dispatches' = dispatches
    BY <1>4 DEF ProfileReads, CancelJob, RetryJob, gateVars
  <2> QED
    BY <2>1, AsideKeeps DEF NoneIsReserved
<1> QED
  BY <1>1, <1>2, <1>3, <1>4, StartSessionKeeps, ReserveDispatchKeeps DEF Administers

LEMMA HappensKeeps ==
    ASSUME Inv, NoneIsNoRow, Duties, Happens
    PROVE  Duties'
<1>1. CASE Protect \/ Release
  BY <1>1, AsideKeeps DEF Protect, Release, NoneIsReserved
<1> QED
  BY <1>1, PostKeeps, GrantExpiresKeeps, DueDatePassesKeeps, DayEndsKeeps DEF Happens

LEMMA InitDuties == Init => Duties
<1> SUFFICES ASSUME Init PROVE Duties
  OBVIOUS
<1>1. posted = {} /\ Started = {} /\ Reserved = {} /\ StartedToday = {} /\ ReservedToday = {}
  BY DEF Init, Started, Reserved, StartedToday, ReservedToday
<1>2. OneObligation
  BY <1>1 DEF OneObligation
<1> QED
  BY <1>1, <1>2, FS_EmptySet, Bounds DEF Duties

\* At most one conversation of a case is open, and as long as no money is taken back the case
\* waits for one thing: a conversation, a claim to be verified, or a promise to be kept. No more
\* begin a day than the policy allows, nor are more calls reserved than the quota. For any
\* number of sessions and entries, whoever starts, reconciles and posts in between.
THEOREM OneConversation == Spec => []OneAtATime
<1>1. NoneIsNoRow
  BY CallsAssumption
<1>2. Inv /\ Duties /\ [Next]_vars => Duties'
  <2> SUFFICES ASSUME Inv, Duties, [Next]_vars PROVE Duties'
    OBVIOUS
  <2>1. CASE UNCHANGED vars
    BY <2>1, AsideKeeps DEF vars, NoneIsReserved
  <2>2. CASE Operates
    BY <2>2, <1>1, RecordEventKeeps, ReconcileKeeps DEF Operates
  <2> QED
    BY <1>1, <2>1, <2>2, AdministersKeeps, WorksKeeps, HappensKeeps DEF Next
<1>3. Duties => OneAtATime
  <2> SUFFICES ASSUME Duties PROVE OneAtATime
    OBVIOUS
  <2> DEFINE open == {s \in Started : sessions[s].state \notin TERMINAL}
  <2>1. \A r, s \in open : r = s
    BY DEF Duties, Open
  <2>2. open = {} \/ \E s : open = {s}
    BY <2>1
  <2>3. Cardinality(open) <= 1
    BY <2>2, FS_EmptySet, FS_Singleton
  <2> QED
    BY <2>3 DEF Duties, OneAtATime, SessionsAreExclusive
<1> QED
  BY <1>2, <1>3, InitDuties, Invariance, PTL DEF Spec

=============================================================================
