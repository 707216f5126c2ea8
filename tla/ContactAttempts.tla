--------------------------- MODULE ContactAttempts ---------------------------
(***************************************************************************)
(* Contact attempts of one case, the operators who queue, hand over,       *)
(* cancel and retry them, and the telephony provider that reports on its   *)
(* calls by webhook: late, more than once and in any order.                *)
(*                                                                         *)
(* Queueing writes the case row before it counts the attempts of the day,  *)
(* and keeps it to its commit.  Handing over and cancelling lock the row   *)
(* of the attempt.  A webhook looks for its event without a lock, and then *)
(* inserts it beside one conditional UPDATE of the attempt.                *)
(***************************************************************************)
EXTENDS Naturals, FiniteSets, FiniteSetsExt

CONSTANTS
    Attempts,   \* ids of attempts that may be queued
    Phone,      \* those made for the phone; the others stay in the sandbox
    Requests,   \* requests that may be under way at once
    Days,       \* days an attempt may be scheduled on
    Limit,      \* CONTACT_MAX_ATTEMPTS_PER_CASE_DAY
    Reported,   \* bound: the stages the provider reports
    MaxTime,    \* bound: seconds of a call
    MaxDeaths,  \* bound: requests that end without a commit
    None

\* Of the constants; assumed where an instance gives them values.
ContactAssumption ==
    /\ Phone \subseteq Attempts
    /\ Limit \in Nat \ {0}
    /\ {MaxTime, MaxDeaths} \subseteq Nat
    /\ Reported \subseteq {"initiated", "ringing", "answered", "completed", "failed"}
    /\ None \notin Attempts

VARIABLES
    blocked,    \* cases.blocked
    attempts,   \* [Attempts -> contact_attempts row, or None]
    calls,      \* [Phone -> the events of the call, as the provider knows them]
    events,     \* telephony_events: the events taken in
    requests,   \* [Requests -> what the request has read, or None]
    deaths      \* bound

vars == <<blocked, attempts, calls, events, requests, deaths>>

-----------------------------------------------------------------------------
Ended == {"completed", "failed"}
ALLOWED_EVENTS == {"initiated", "ringing", "answered"} \cup Ended

Attempt == [day : Days, last : 0 .. MaxTime, retry_of : Attempts \cup {None},
            status : ALLOWED_EVENTS \cup {"queued", "handoff", "blocked"}]

Event == [call : Phone, type : Reported, at : 1 .. MaxTime]

\* NULL is no row of a table; assumed as well.
NoneIsNoRow == None \notin Attempt

Request ==
    [op : {"create"}, attempt : Attempts, row : Attempt] \cup [op : {"webhook"}, event : Event]

ranks(status) ==
    CASE status = "queued" -> 0 [] status = "initiated" -> 1 [] status = "ringing" -> 2
      [] status = "answered" -> 3 [] OTHER -> 4

Init ==
    /\ blocked = FALSE
    /\ attempts = [a \in Attempts |-> None]
    /\ calls = [a \in Phone |-> {}]
    /\ events = {}
    /\ requests = [r \in Requests |-> None]
    /\ deaths = 0

Queued == {a \in Attempts : attempts[a] # None}

Creating == {r \in Requests : requests[r] # None /\ requests[r].op = "create"}

\* Mutant: the case is read without writing it first.
CaseFree_NoLock == TRUE

\* No other request has written the row of the case.
CaseFree == Creating = {}

-----------------------------------------------------------------------------
(* create_contact_attempt, also called by retry_contact_attempt *)

Today(day) == {a \in Queued : attempts[a].day = day /\ attempts[a].status # "blocked"}

CreateReads(r, a, day, previous) ==
    /\ requests[r] = None
    /\ attempts[a] = None
    /\ \A q \in Creating : requests[q].attempt # a
    /\ previous # None => previous \in Queued /\ attempts[previous].status = "failed"
    /\ CaseFree
    /\ ~ blocked
    /\ Cardinality(Today(day)) < Limit
    /\ requests' = [requests EXCEPT ![r] =
           [op |-> "create", attempt |-> a,
            row |-> [day |-> day, last |-> 0, retry_of |-> previous, status |-> "queued"]]]
    /\ UNCHANGED <<blocked, attempts, calls, events, deaths>>

CreateCommits(r) ==
    /\ r \in Creating
    /\ attempts' = [attempts EXCEPT ![requests[r].attempt] = requests[r].row]
    /\ requests' = [requests EXCEPT ![r] = None]
    /\ UNCHANGED <<blocked, calls, events, deaths>>

-----------------------------------------------------------------------------
(* request_handoff, cancel_contact_attempt *)

\* Mutant: a call that failed may still be cancelled.
Undecided_Completed(a) == a \in Queued /\ attempts[a].status \notin {"completed", "blocked"}

\* Not in a terminal state.
Undecided(a) == a \in Queued /\ attempts[a].status \notin Ended \cup {"blocked"}

Decide(a, status) ==
    /\ Undecided(a)
    /\ attempts' = [attempts EXCEPT ![a].status = status]
    /\ UNCHANGED <<blocked, calls, events, requests, deaths>>

Handoff(a) == Decide(a, "handoff")
Cancel(a) == Decide(a, "blocked")

-----------------------------------------------------------------------------
(* accept_telephony_webhook *)

WebhookReads(r, e) ==
    /\ requests[r] = None
    /\ e \notin events
    /\ requests' = [requests EXCEPT ![r] = [op |-> "webhook", event |-> e]]
    /\ UNCHANGED <<blocked, attempts, calls, events, deaths>>

\* Mutant: a stage only follows the stage before it.
Advances_InOrder(row, e) ==
    /\ row.status \notin Ended \cup {"handoff", "blocked"}
    /\ ranks(row.status) + 1 = ranks(e.type)
    /\ row.last <= e.at

\* The WHERE of the conditional UPDATE.
Advances(row, e) ==
    /\ row.status \notin Ended \cup {"handoff", "blocked"}
    /\ ranks(row.status) <= ranks(e.type)
    /\ row.last <= e.at

\* The UPDATE and the INSERT; if the event was inserted meanwhile its unique key
\* rolls both back, and the provider will deliver it again.
WebhookCommits(r) ==
    /\ requests[r] # None /\ requests[r].op = "webhook"
    /\ LET e == requests[r].event IN
       /\ attempts' = IF e \notin events /\ Advances(attempts[e.call], e)
                      THEN [attempts EXCEPT ![e.call] =
                                [@ EXCEPT !.status = e.type, !.last = e.at]]
                      ELSE attempts
       /\ events' = events \cup {e}
    /\ requests' = [requests EXCEPT ![r] = None]
    /\ UNCHANGED <<blocked, calls, deaths>>

RequestDies(r) ==
    /\ requests[r] # None
    /\ deaths < MaxDeaths /\ deaths' = deaths + 1
    /\ requests' = [requests EXCEPT ![r] = None]
    /\ UNCHANGED <<blocked, attempts, calls, events>>

-----------------------------------------------------------------------------
(* The provider, and protection *)

Latest(a) == Max({0} \cup {e.at : e \in calls[a]})
Stage(a) == Max({0} \cup {ranks(e.type) : e \in calls[a]})

\* A call goes through its stages in order, a stage may be skipped, and two may
\* fall into one second.
CallProceeds(a, type, at) ==
    /\ a \in Queued \cap Phone
    /\ Stage(a) < ranks(type)
    /\ at >= Latest(a)
    /\ calls' = [calls EXCEPT ![a] = @ \cup {[call |-> a, type |-> type, at |-> at]}]
    /\ UNCHANGED <<blocked, attempts, events, requests, deaths>>

Protect ==
    /\ CaseFree
    /\ blocked' = ~ blocked
    /\ UNCHANGED <<attempts, calls, events, requests, deaths>>

Deliver(e) == \E r \in Requests : WebhookReads(r, e)
Emitted == UNION {calls[a] : a \in Phone}

Next ==
    \/ \E r \in Requests :
        \/ \E a \in Attempts, day \in Days, previous \in Attempts \cup {None} :
               CreateReads(r, a, day, previous)
        \/ CreateCommits(r) \/ WebhookCommits(r) \/ RequestDies(r)
    \/ \E e \in Emitted : Deliver(e)
    \/ \E a \in Attempts : Handoff(a) \/ Cancel(a)
    \/ \E a \in Phone, type \in Reported, at \in 1 .. MaxTime :
           CallProceeds(a, type, at)
    \/ Protect

\* A request that was admitted ends, and the provider delivers at least the end
\* of a call until one delivery is answered.
Fairness ==
    /\ \A r \in Requests : WF_vars(CreateCommits(r)) /\ WF_vars(WebhookCommits(r))
    /\ \A e \in Event : e.type \in Ended => SF_vars(e \in Emitted /\ Deliver(e))

Spec == Init /\ [][Next]_vars /\ Fairness

-----------------------------------------------------------------------------
(* Properties *)

\* Every row is one the columns and their CHECK allow.
TypeOK ==
    /\ \A a \in Queued : attempts[a] \in Attempt
    /\ events \subseteq Event
    /\ \A r \in Requests : requests[r] # None => requests[r] \in Request

\* No day of a case holds more attempts than the limit, cancelled ones aside,
\* however many requests, retries and cancellations run at once.
DailyCap == \A day \in Days : Cardinality(Today(day)) <= Limit

\* The state of an attempt no operator has taken is the furthest stage that was
\* reported, in whatever order and however often the reports came in.
FollowsCall ==
    \A a \in Queued : attempts[a].status \notin {"handoff", "blocked"} =>
        ranks(attempts[a].status) =
            Max({0} \cup {ranks(e.type) : e \in {x \in events : x.call = a}})

\* What was decided stays decided: a finished or cancelled attempt keeps its
\* state, and one handed to an operator can only be cancelled.
DecisionsStand ==
    [][\A a \in Queued :
          /\ attempts[a].status \in Ended \cup {"blocked"} => attempts'[a] = attempts[a]
          /\ attempts[a].status = "handoff" => attempts'[a].status \in {"handoff", "blocked"}
      ]_vars

\* A call that ended is known to have ended, unless an operator has the attempt.
CallsSettle ==
    \A a \in Phone :
        (\E e \in calls[a] : e.type \in Ended)
            ~> a \in Queued /\ attempts[a].status \in Ended \cup {"handoff", "blocked"}
=============================================================================
