------------------------------ MODULE LoanCalls ------------------------------
(***************************************************************************)
(* Standard-loan collection on one case: the tenant's policy, the loan     *)
(* profile, the dialogue sessions an administrator authorizes, the promise *)
(* a session may record, and the test call a session may dispatch.         *)
(*                                                                         *)
(* Every operation on policy, sessions and dispatches takes the row of the *)
(* tenant (lock_policy_scope), then that of the case (lock_case), where it *)
(* takes both; saving a profile and reconciling a promise take the case    *)
(* only, saving the policy and stopping a call the tenant only.  An        *)
(* operation that reads nothing before its last lock is one action.  The   *)
(* job that dispatches is many: it gives its locks back between the        *)
(* durable intent and the call, and its lease may be lost at any time.     *)
(***************************************************************************)
EXTENDS Naturals, Integers, FiniteSets, FiniteSetsExt

CONSTANTS
    Sessions,       \* ids of the sessions that may be started on the case
    Workers,        \* worker processes that may hold a job
    Entries,        \* recovery ledger entries of the case,
    Cents,          \* [Entries -> their signed amount]
    Claim,          \* amount_cents of the profile
    Promised,       \* amount_cents of a promise
    Limit,          \* daily_session_limit of the policy
    Quota,          \* dispatches a tenant may reserve a day
    MaxAttempts,    \* async_jobs.max_attempts
    MaxChanges,     \* bound: how much happens besides conversations and jobs
    None            \* SQL NULL

\* Of the constants; assumed where an instance gives them values.
LoanAssumption ==
    /\ Cents \in [Entries -> Int]
    /\ {Claim, Promised, Limit, Quota, MaxAttempts} \subseteq Nat \ {0}
    /\ MaxChanges \in Nat
    /\ None \notin Sessions \cup Workers

VARIABLES
    policy,     \* loan_contact_policies: version and paused
    profile,    \* loan_profiles: version and ledger_baseline
    posted,     \* the entries that are in the ledger
    blocked,    \* the case is protected
    sessions,   \* [Sessions -> loan_sessions row, or None]
    dispatches, \* [Sessions -> loan_sip_dispatches row of the session, or None]
    jobs,       \* [Sessions \X Kinds -> async_jobs row of kind loan.sip_echo]
    workers,    \* [Workers -> control state of dispatch_job]
    editor,     \* what a put_profile request has read, or None
    posts,      \* [Sessions -> how many calls were originated for it]
    changes     \* bound: how much happened so far

vars == <<policy, profile, posted, blocked, sessions, dispatches, jobs,
          workers, editor, posts, changes>>
gateVars == <<policy, profile, posted, blocked>>
jobVars == <<jobs, workers>>

-----------------------------------------------------------------------------
(* Types *)

TERMINAL == {"paused", "ptp_recorded", "ended", "paid_claimed"}
Dialogue == {"identity_pending", "debt_explained"}

Versions == 1 .. MaxChanges + 1

Promise == [baseline : Int, paid : Nat, late : BOOLEAN,
            status : {"pending", "partial", "fulfilled", "broken"}]

Session == [state : TERMINAL \cup Dialogue, version : Nat, policy : Versions,
            profile : Versions, granted : BOOLEAN, today : BOOLEAN,
            promise : Promise \cup {None}]

\* Unsent, in flight, or stopped.
Running == {"prepared", "dispatching", "unknown", "submitted"}
Dispatch == [state : Running \cup {"blocked", "stop_requested"},
             version : Nat, today : BOOLEAN]

\* A lookup_only job queries and writes an observation: it has no effect here.
Kinds == {"call", "stop"}

\* Finished: succeeded or cancelled.
Job == [status : {"absent", "queued", "running", "finished", "failed"},
        attempt : 0 .. MaxAttempts, owner : Workers \cup {None},
        live : BOOLEAN, cancel : BOOLEAN]

Both == {"tenant", "case"}

Worker == [pc : {"idle", "start", "case", "relock", "recheck", "post", "delete",
                 "fence", "commit"},
           job : (Sessions \X Kinds) \cup {None}, attempt : 0 .. MaxAttempts,
           locks : SUBSET Both,
           seen : Dispatch \cup {None},
           write : Running \cup {"blocked", "stop_requested", "none"}]

\* None stands for a row, or a promise, that is not there.
NoneIsNoRow == None \notin Dispatch \cup Promise

IdleWorker == [pc |-> "idle", job |-> None, attempt |-> 0, locks |-> {},
               seen |-> None, write |-> "none"]

AbsentJob == [status |-> "absent", attempt |-> 0, owner |-> None,
              live |-> FALSE, cancel |-> FALSE]

-----------------------------------------------------------------------------
(* A tenant that is set up: a policy, a profile, nothing started. *)

Init ==
    /\ policy = [version |-> 1, paused |-> FALSE]
    /\ profile = [version |-> 1, baseline |-> 0]
    /\ posted = {}
    /\ blocked = FALSE
    /\ sessions = [s \in Sessions |-> None]
    /\ dispatches = [s \in Sessions |-> None]
    /\ jobs = [j \in Sessions \X Kinds |-> AbsentJob]
    /\ workers = [w \in Workers |-> IdleWorker]
    /\ editor = None
    /\ posts = [s \in Sessions |-> 0]
    /\ changes = 0

\* Mutant: the gate is read without the tenant's row.
TenantFree_NoLock == TRUE

\* Bound: something happens besides.
Counts == changes < MaxChanges /\ changes' = changes + 1

\* UPDATE tenants gets through.
TenantFree == \A w \in Workers : "tenant" \notin workers[w].locks

\* UPDATE cases gets through.
CaseFree == editor = None /\ \A w \in Workers : "case" \notin workers[w].locks

Started == {s \in Sessions : sessions[s] # None}
Reserved == {s \in Sessions : dispatches[s] # None}

net_recovery == MapThenSumSet(LAMBDA e : Cents[e], posted)

AtLeastZero(n) == IF n < 0 THEN 0 ELSE n

Owed == AtLeastZero(Claim - (net_recovery - profile.baseline))

\* preflight: policy, protection and the amount still owed.
Eligible ==
    /\ ~ policy.paused
    /\ ~ blocked
    /\ Owed > 0

\* authorization_blocker finds nothing.
Authorized(s) == sessions[s].granted

IsCurrent(s) ==
    /\ sessions[s].policy = policy.version
    /\ sessions[s].profile = profile.version

\* execution_blockers finds nothing.
MayExecute(s, v) ==
    /\ Eligible /\ Authorized(s)
    /\ sessions[s].state = "identity_pending" /\ sessions[s].version = v
    /\ IsCurrent(s)

-----------------------------------------------------------------------------
(* queue_sip_stops *)

StopState(state) ==
    IF state \in {"prepared", "blocked"} THEN "blocked" ELSE "stop_requested"

\* Bound: a dispatch has one stop job; later requests find it.
WithStops(S) ==
    [j \in Sessions \X Kinds |->
        IF j[1] \in S /\ j[2] = "stop" /\ jobs[j].status = "absent"
        THEN [jobs[j] EXCEPT !.status = "queued"] ELSE jobs[j]]

\* The dispatches of S, read as seen, are stopped and a job queued for each.
StopDispatches(S, seen) ==
    LET hit == {s \in S : seen[s] # None /\ seen[s].state # "blocked"} IN
    /\ dispatches' = [s \in Sessions |->
           IF s \in hit /\ StopState(seen[s].state) # seen[s].state
           THEN [dispatches[s] EXCEPT !.state = StopState(seen[s].state)]
           ELSE dispatches[s]]
    /\ jobs' = WithStops(hit)

-----------------------------------------------------------------------------
(* save_policy, put_profile *)

SavePolicy(paused) ==
    /\ TenantFree
    /\ Counts
    /\ policy' = [version |-> policy.version + 1, paused |-> paused]
    /\ StopDispatches(Sessions, dispatches)
    /\ UNCHANGED <<profile, posted, blocked, sessions, workers, editor, posts>>

ProfileReads ==
    /\ CaseFree
    /\ Counts
    /\ editor' = [baseline |-> net_recovery, dispatches |-> dispatches]
    /\ UNCHANGED <<gateVars, sessions, dispatches, jobVars, posts>>

ProfileCommits ==
    /\ editor # None
    /\ profile' = [version |-> profile.version + 1, baseline |-> editor.baseline]
    /\ StopDispatches(Sessions, editor.dispatches)
    /\ editor' = None
    /\ UNCHANGED <<policy, posted, blocked, sessions, workers, posts, changes>>

-----------------------------------------------------------------------------
(* start_session *)

\* Mutant: a promise holds only while nothing was paid on it.
Holds_PendingOnly(row) ==
    /\ row.state \notin {"paused", "ended"}
    /\ row.state = "ptp_recorded" => row.promise.status = "pending"

\* A session that keeps a new one from starting.
Holds(row) ==
    /\ row.state \notin {"paused", "ended"}
    /\ row.state = "ptp_recorded" => row.promise.status \in {"pending", "partial"}

Paused(row) == [row EXCEPT !.state = "paused", !.version = row.version + 1]

\* A dialogue whose grant ended or whose policy is old does not strand the case.
Lapsed(s) ==
    /\ sessions[s].state \notin TERMINAL
    /\ ~ Authorized(s) \/ sessions[s].policy # policy.version

AfterLapse ==
    [s \in Sessions |-> IF s \in Started /\ Lapsed(s) THEN Paused(sessions[s])
                        ELSE sessions[s]]

StartedToday == {s \in Started : sessions[s].today}

StartSession(s) ==
    /\ TenantFree /\ CaseFree
    /\ sessions[s] = None
    /\ Eligible
    /\ Cardinality(StartedToday) < Limit
    /\ \A r \in Started : ~ Holds(AfterLapse[r])
    /\ sessions' = [AfterLapse EXCEPT ![s] =
           [state |-> "identity_pending", version |-> 1, policy |-> policy.version,
            profile |-> profile.version, granted |-> TRUE, today |-> TRUE,
            promise |-> None]]
    /\ UNCHANGED <<gateVars, dispatches, jobVars, editor, posts, changes>>

-----------------------------------------------------------------------------
(* record_event; a replayed event returns the row and changes nothing *)

\* The expected_version of the request is the current one, or it is refused.
Answers(s) == s \in Started /\ sessions[s].state \notin TERMINAL

\* The state an event leads to, as long as nothing has changed.
After(state, intent) ==
    CASE intent = "exception" -> "paused"
      [] intent = "identity_verified" /\ state = "identity_pending" -> "debt_explained"
      [] intent = "promise" /\ state = "debt_explained" -> "ptp_recorded"
      [] intent = "paid_claimed" /\ state = "debt_explained" -> "paid_claimed"
      [] intent = "end" -> "ended"
      [] OTHER -> "refused"

NewPromise == [baseline |-> net_recovery, paid |-> 0, late |-> FALSE,
               status |-> "pending"]

RecordEvent(s, intent) ==
    LET fit == Eligible /\ Authorized(s) /\ IsCurrent(s)
        to == IF fit THEN After(sessions[s].state, intent) ELSE "paused" IN
    /\ TenantFree /\ CaseFree
    /\ Answers(s)
    /\ to # "refused"
    /\ to = "ptp_recorded" => Promised <= Owed
    /\ sessions' = [sessions EXCEPT ![s] = [sessions[s] EXCEPT
           !.state = to, !.version = sessions[s].version + 1,
           !.promise = IF to = "ptp_recorded" THEN NewPromise ELSE sessions[s].promise]]
    /\ StopDispatches(IF to \in TERMINAL THEN {s} ELSE {}, dispatches)
    /\ UNCHANGED <<gateVars, workers, editor, posts, changes>>

-----------------------------------------------------------------------------
(* reconcile, asked for by the loan.promise_check job or by an operator,    *)
(* whose request also stops the calls of the session                        *)

Reconciled(promise) ==
    LET paid == AtLeastZero(net_recovery - promise.baseline) IN
    [promise EXCEPT
        !.paid = paid,
        !.status = IF paid >= Promised THEN "fulfilled"
                   ELSE IF promise.late THEN "broken"
                   ELSE IF paid > 0 THEN "partial" ELSE "pending"]

Reconcile(s, stops) ==
    /\ CaseFree
    /\ s \in Started /\ sessions[s].promise # None
    /\ sessions[s].profile = profile.version
    /\ Reconciled(sessions[s].promise) # sessions[s].promise
    /\ sessions' = [sessions EXCEPT ![s] = [sessions[s] EXCEPT
           !.promise = Reconciled(sessions[s].promise), !.version = sessions[s].version + 1]]
    /\ StopDispatches(stops, dispatches)
    /\ UNCHANGED <<gateVars, workers, editor, posts, changes>>

-----------------------------------------------------------------------------
(* reserve_dispatch, stop_sip, and the job's own endpoints *)

ReservedToday == {s \in Reserved : dispatches[s].today}

ReserveDispatch(s) ==
    /\ TenantFree /\ CaseFree
    /\ s \in Started /\ dispatches[s] = None
    /\ MayExecute(s, sessions[s].version)
    /\ Cardinality(ReservedToday) < Quota
    /\ Cardinality(ReservedToday) < Limit
    /\ dispatches' = [dispatches EXCEPT ![s] =
           [state |-> "prepared", version |-> sessions[s].version, today |-> TRUE]]
    /\ jobs' = [jobs EXCEPT ![<<s, "call">>].status = "queued"]
    /\ UNCHANGED <<gateVars, sessions, workers, editor, posts, changes>>

StopSip(s) ==
    /\ Counts
    /\ TenantFree
    /\ s \in Reserved
    /\ dispatches' = [dispatches EXCEPT ![s].state = StopState(dispatches[s].state)]
    /\ jobs' = WithStops({s})
    /\ UNCHANGED <<gateVars, sessions, workers, editor, posts>>

CancelJob(j) ==
    /\ Counts
    /\ jobs[j].status \in {"queued", "running"} /\ ~ jobs[j].cancel
    /\ jobs' = [jobs EXCEPT ![j] =
           IF @.status = "running" /\ @.live THEN [@ EXCEPT !.cancel = TRUE]
           ELSE [@ EXCEPT !.status = "finished", !.owner = None, !.cancel = TRUE]]
    /\ UNCHANGED <<gateVars, sessions, dispatches, workers, editor, posts>>

RetryJob(j) ==
    /\ jobs[j].status = "failed" /\ jobs[j].attempt < MaxAttempts
    /\ jobs' = [jobs EXCEPT ![j].status = "queued"]
    /\ UNCHANGED <<gateVars, sessions, dispatches, workers, editor, posts, changes>>

-----------------------------------------------------------------------------
(* execute_claimed_job and dispatch_job *)

\* A claim, and the row that is loaded without a lock.
Claims(w, j) ==
    /\ workers[w].pc = "idle"
    /\ jobs[j].status = "queued" /\ jobs[j].attempt < MaxAttempts
    /\ jobs' = [jobs EXCEPT ![j] =
           [status |-> "running", attempt |-> jobs[j].attempt + 1, owner |-> w,
            live |-> TRUE, cancel |-> FALSE]]
    /\ workers' = [workers EXCEPT ![w] = [IdleWorker EXCEPT
           !.pc = "start", !.job = j, !.attempt = jobs[j].attempt + 1]]
    /\ UNCHANGED <<gateVars, sessions, dispatches, editor, posts, changes>>

\* The write of a handler commits with the end of its job.
Ends(w, locks, write) ==
    workers' = [workers EXCEPT ![w] =
        [@ EXCEPT !.pc = "fence", !.locks = locks, !.write = write, !.seen = None]]

\* Takes the row of the tenant and reads the dispatch.
JobStarts(w) ==
    LET s == workers[w].job[1]
        kind == workers[w].job[2]
        row == dispatches[s] IN
    /\ workers[w].pc = "start"
    /\ TenantFree
    /\ IF row.state = "blocked" THEN Ends(w, {"tenant"}, "none")
       ELSE IF kind = "stop" /\ row.state = "prepared" THEN Ends(w, {"tenant"}, "blocked")
       ELSE workers' = [workers EXCEPT ![w] =
                [@ EXCEPT !.locks = {"tenant"}, !.seen = row,
                          !.pc = IF kind = "stop" THEN "delete" ELSE "case"]]
    /\ UNCHANGED <<gateVars, sessions, dispatches, jobs, editor, posts, changes>>

\* DELETE of the channel, whatever it answers.
Deletes(w) ==
    /\ workers[w].pc = "delete"
    /\ Ends(w, {"tenant"}, "stop_requested")
    /\ UNCHANGED <<gateVars, sessions, dispatches, jobs, editor, posts, changes>>

\* Mutant: an intent whose outcome is not known is sent again.
Sends_Again(w) ==
    workers[w].job[2] = "call" /\ workers[w].seen.state \in {"prepared", "dispatching"}

\* Only what was never sent is sent.
Sends(w) == workers[w].job[2] = "call" /\ workers[w].seen.state = "prepared"

\* Takes the row of the case: a query, a refusal, or the durable intent.
JobDecides(w) ==
    LET s == workers[w].job[1]
        seen == workers[w].seen IN
    /\ workers[w].pc = "case"
    /\ CaseFree
    /\ \/ /\ ~ Sends(w)
          /\ Ends(w, Both, "none")
          /\ UNCHANGED dispatches
       \/ /\ Sends(w) /\ ~ MayExecute(s, seen.version)
          /\ Ends(w, Both, "blocked")
          /\ UNCHANGED dispatches
       \/ /\ Sends(w) /\ MayExecute(s, seen.version)
          /\ dispatches' = [dispatches EXCEPT ![s].state = "dispatching"]
          /\ workers' = [workers EXCEPT ![w] =
                 [@ EXCEPT !.locks = {}, !.pc = "relock"]]
    /\ UNCHANGED <<gateVars, sessions, jobs, editor, posts, changes>>

JobRelocks(w) ==
    /\ workers[w].pc = "relock"
    /\ TenantFree
    /\ workers' = [workers EXCEPT ![w] =
           [@ EXCEPT !.locks = {"tenant"}, !.pc = "recheck"]]
    /\ UNCHANGED <<gateVars, sessions, dispatches, jobs, editor, posts, changes>>

\* Nobody touched the intent while the locks were given back.
Intended(s) == dispatches[s].state = "dispatching"

HoldsLease(w) ==
    LET job == jobs[workers[w].job] IN
    job.status = "running" /\ job.owner = w /\ job.live /\ ~ job.cancel

\* Takes the row of the case again and refreshes dispatch, session and job.
JobRechecks(w) ==
    LET s == workers[w].job[1]
        seen == workers[w].seen
        fit == HoldsLease(w) /\ MayExecute(s, seen.version) IN
    /\ workers[w].pc = "recheck"
    /\ CaseFree
    /\ IF Intended(s) /\ fit
       THEN workers' = [workers EXCEPT ![w] = [@ EXCEPT !.locks = Both, !.pc = "post"]]
       ELSE Ends(w, Both, IF Intended(s) THEN "blocked" ELSE "none")
    /\ UNCHANGED <<gateVars, sessions, dispatches, jobs, editor, posts, changes>>

\* POST: accepted, or no usable answer, which does not say it was not sent.
Posts(w, outcome) ==
    /\ workers[w].pc = "post"
    /\ posts' = [posts EXCEPT ![workers[w].job[1]] = @ + 1]
    /\ Ends(w, Both, outcome)
    /\ UNCHANGED <<gateVars, sessions, dispatches, jobs, editor, changes>>

OwnsAttempt(w) ==
    LET job == jobs[workers[w].job] IN
    job.status = "running" /\ job.owner = w /\ job.attempt = workers[w].attempt
        /\ job.live

\* The SELECT before the terminal write; a lost lease rolls back.
Fence(w) ==
    /\ workers[w].pc = "fence"
    /\ workers' = [workers EXCEPT ![w] =
           IF OwnsAttempt(w) THEN [@ EXCEPT !.pc = "commit"] ELSE IdleWorker]
    /\ UNCHANGED <<gateVars, sessions, dispatches, jobs, editor, posts, changes>>

\* What the handler wrote, unless it read the same, and the end of the job.
Commits(w) ==
    LET s == workers[w].job[1]
        write == workers[w].write IN
    /\ workers[w].pc = "commit"
    /\ dispatches' = IF write = "none" THEN dispatches
                     ELSE [dispatches EXCEPT ![s].state = write]
    /\ jobs' = [jobs EXCEPT ![workers[w].job] =
           [@ EXCEPT !.status = "finished", !.owner = None, !.live = FALSE]]
    /\ workers' = [workers EXCEPT ![w] = IdleWorker]
    /\ UNCHANGED <<gateVars, sessions, editor, posts, changes>>

\* The handler raises: everything since its last commit is rolled back.
Fails(w) ==
    /\ workers[w].pc \in {"start", "case", "relock", "recheck", "delete"}
    /\ Counts
    /\ workers' = [workers EXCEPT ![w] = IdleWorker]
    /\ jobs' = IF OwnsAttempt(w)
               THEN [jobs EXCEPT ![workers[w].job] =
                        [@ EXCEPT !.status = IF jobs[workers[w].job].cancel THEN "finished" ELSE "failed",
                                  !.owner = None, !.live = FALSE]]
               ELSE jobs
    /\ UNCHANGED <<gateVars, sessions, dispatches, editor, posts>>

\* The process dies; its lease stays until it expires.
Dies(w) ==
    /\ workers[w].pc # "idle"
    /\ Counts
    /\ workers' = [workers EXCEPT ![w] = IdleWorker]
    /\ UNCHANGED <<gateVars, sessions, dispatches, jobs, editor, posts>>

LeaseExpires(j) ==
    /\ jobs[j].status = "running" /\ jobs[j].live
    /\ workers[jobs[j].owner].job = j => changes < MaxChanges
    /\ changes' = IF workers[jobs[j].owner].job = j THEN changes + 1 ELSE changes
    /\ jobs' = [jobs EXCEPT ![j].live = FALSE]
    /\ UNCHANGED <<gateVars, sessions, dispatches, workers, editor, posts>>

Recovers(j) ==
    /\ jobs[j].status = "running" /\ ~ jobs[j].live
    /\ jobs' = [jobs EXCEPT ![j] =
           [@ EXCEPT !.status = IF jobs[j].cancel THEN "finished"
                                ELSE IF jobs[j].attempt < MaxAttempts THEN "queued"
                                ELSE "failed",
                     !.owner = None]]
    /\ UNCHANGED <<gateVars, sessions, dispatches, workers, editor, posts, changes>>

-----------------------------------------------------------------------------
(* What happens elsewhere: the ledger, protection, authority and time *)

Post(e) ==
    /\ Counts
    /\ e \notin posted
    /\ posted' = posted \cup {e}
    /\ UNCHANGED <<policy, profile, blocked, sessions, dispatches, jobVars, editor, posts>>

\* Protection is opened and released under the row of the case.
Protect ==
    /\ Counts
    /\ CaseFree /\ ~ blocked
    /\ blocked' = TRUE
    /\ UNCHANGED <<policy, profile, posted, sessions, dispatches, jobVars, editor, posts>>

Release ==
    /\ CaseFree /\ blocked
    /\ blocked' = FALSE
    /\ UNCHANGED <<policy, profile, posted, sessions, dispatches, jobVars, editor, posts,
                   changes>>

\* The grant runs out, or its administrator is one no longer.
GrantExpires(s) ==
    /\ Counts
    /\ s \in Started /\ sessions[s].granted
    /\ sessions' = [sessions EXCEPT ![s].granted = FALSE]
    /\ UNCHANGED <<gateVars, dispatches, jobVars, editor, posts>>

DueDatePasses(s) ==
    /\ Counts
    /\ s \in Started /\ sessions[s].promise # None /\ ~ sessions[s].promise.late
    /\ sessions' = [sessions EXCEPT ![s].promise.late = TRUE]
    /\ UNCHANGED <<gateVars, dispatches, jobVars, editor, posts>>

\* Midnight in Shanghai.
DayEnds ==
    /\ Counts
    /\ StartedToday # {}
    /\ sessions' = [s \in Sessions |-> IF s \in Started
                                       THEN [sessions[s] EXCEPT !.today = FALSE] ELSE None]
    /\ dispatches' = [s \in Sessions |-> IF s \in Reserved
                                         THEN [dispatches[s] EXCEPT !.today = FALSE] ELSE None]
    /\ UNCHANGED <<gateVars, jobVars, editor, posts>>

-----------------------------------------------------------------------------
Administers ==
    \/ \E paused \in BOOLEAN : SavePolicy(paused)
    \/ ProfileReads \/ ProfileCommits
    \/ \E s \in Sessions : StartSession(s) \/ ReserveDispatch(s) \/ StopSip(s)
    \/ \E j \in Sessions \X Kinds : CancelJob(j) \/ RetryJob(j)

Operates ==
    \E s \in Sessions :
        \/ \E intent \in {"exception", "identity_verified", "promise", "paid_claimed",
                          "end"} : RecordEvent(s, intent)
        \/ \E stops \in {{}, {s}} : Reconcile(s, stops)

Works ==
    \/ \E w \in Workers :
        \/ \E j \in Sessions \X Kinds : Claims(w, j)
        \/ JobStarts(w) \/ Deletes(w) \/ JobDecides(w) \/ JobRelocks(w)
        \/ JobRechecks(w) \/ Fence(w) \/ Commits(w)
        \/ \E outcome \in {"submitted", "unknown"} : Posts(w, outcome)
        \/ Fails(w) \/ Dies(w)
    \/ \E j \in Sessions \X Kinds : LeaseExpires(j) \/ Recovers(j)

Happens ==
    \/ \E e \in Entries : Post(e)
    \/ Protect \/ Release \/ DayEnds
    \/ \E s \in Sessions : GrantExpires(s) \/ DueDatePasses(s)

Next == Administers \/ Operates \/ Works \/ Happens

Spec == Init /\ [][Next]_vars

-----------------------------------------------------------------------------
(* Properties *)

\* Every row and every request at work is one the columns can hold.
TypeOK ==
    /\ policy \in [version : Versions, paused : BOOLEAN]
    /\ profile \in [version : Versions, baseline : Int]
    /\ posted \subseteq Entries
    /\ \A s \in Started : sessions[s] \in Session
    /\ \A s \in Reserved : dispatches[s] \in Dispatch
    /\ jobs \in [Sessions \X Kinds -> Job]
    /\ workers \in [Workers -> Worker]

\* A dispatch that may still be sent, or whose call may be going on, is of a
\* session on today's policy and profile: saving either stops all the others,
\* whatever the dispatching jobs are doing meanwhile.
RunningIsCurrent ==
    \A s \in Reserved : dispatches[s].state \in Running => IsCurrent(s)

\* A conversation that is over has no call left: a session that ended, claimed
\* a payment or recorded a promise stopped its dispatch, and no job that was
\* half way through puts it back.
OverIsStopped ==
    \A s \in Reserved :
        sessions[s].state \in TERMINAL \ {"paused"} =>
            dispatches[s].state \notin Running

\* The moment a call goes out, its session is still the one that was
\* authorized, current, and on a case that may be contacted.
PostingIsAuthorized ==
    \A w \in Workers : workers[w].pc = "post" =>
        LET s == workers[w].job[1] IN
        /\ ~ blocked /\ IsCurrent(s)
        /\ sessions[s].state = "identity_pending"
        /\ sessions[s].version = workers[w].seen.version

\* One conversation at a time with a debtor, and no more a day than the policy
\* allows; dispatches stay within the quota.
SessionsAreExclusive ==
    /\ Cardinality({s \in Started : sessions[s].state \notin TERMINAL}) <= 1
    /\ Cardinality(StartedToday) <= Limit
    /\ Cardinality(ReservedToday) <= Quota

\* As long as no money is taken back, a case waits for one thing at a time: a
\* conversation, a claimed payment to be verified, or a promise not yet kept.
\* (A refund reopens a promise that was kept, whatever was started since.)
OneObligation ==
    (\A e \in posted : Cents[e] >= 0) =>
        \A r, s \in Started :
            (/\ sessions[r].state \notin {"paused", "ended"}
             /\ sessions[s].state \notin {"paused", "ended"}
             /\ \A q \in {r, s} : sessions[q].promise # None =>
                    sessions[q].promise.status \notin {"fulfilled", "broken"})
            => r = s

Stage(s) == IF posts[s] > 1 THEN "repeated"
            ELSE IF posts[s] = 1 THEN "acted"
            ELSE IF dispatches[s] = None THEN "unarmed"
            ELSE IF dispatches[s].state \in {"prepared", "dispatching"} THEN "armed"
            ELSE "withdrawn"

Stages == [s \in Sessions |-> Stage(s)]

Calls == INSTANCE OneShot WITH Items <- Sessions, stage <- Stages

\* A dispatch originates at most one call, and none once it was stopped or
\* blocked, across lost leases, crashes, retries and a second worker.
CallsFireOnce == Calls!Spec
=============================================================================
