----------------------------- MODULE MCSettling -----------------------------
\* Work that must come to its end, each kind on its own: the jobs of the queue, and the
\* contact attempts of a case.
EXTENDS JobQueue, TLC

CONSTANTS Attempted, Phone, Callers, Days, Limit, Reported, MaxTime, MaxDeaths

VARIABLES part, blocked, attempts, calls, events, requests, deaths

Contacts == INSTANCE ContactAttempts WITH Attempts <- Attempted, Requests <- Callers

ASSUME SettlingAssumption == Contacts!ContactAssumption /\ Contacts!NoneIsNoRow

contactVars == <<blocked, attempts, calls, events, requests, deaths>>

SettlingInit == part \in {"queue", "contacts"} /\ Init /\ Contacts!Init

SettlingNext ==
    /\ \/ part = "queue" /\ Next /\ UNCHANGED contactVars
       \/ part = "contacts" /\ Contacts!Next /\ UNCHANGED vars
    /\ UNCHANGED part

\* Of JobQueue and of ContactAttempts.
SettlingFairness ==
    /\ \A w \in Workers : WF_vars(part = "queue" /\ WorkerLoop(w))
                            /\ WF_vars(part = "queue" /\ Restart(w))
    /\ \A j \in Jobs : WF_vars(part = "queue" /\ Tick(j)) /\ WF_vars(part = "queue" /\ BecomeDue(j))
    /\ \A r \in Requests : WF_vars(part = "queue" /\ (Cancel(r) \/ Retry(r)))
    /\ \A r \in Callers : /\ WF_contactVars(part = "contacts" /\ Contacts!CreateCommits(r))
                          /\ WF_contactVars(part = "contacts" /\ Contacts!WebhookCommits(r))
    /\ \A e \in Contacts!Event : e.type \in Contacts!Ended =>
          SF_contactVars(part = "contacts" /\ e \in Contacts!Emitted /\ Contacts!Deliver(e))

SettlingSpec ==
    /\ SettlingInit /\ [][SettlingNext]_<<vars, contactVars, part>>
    /\ SettlingFairness

\* A day holds no more attempts than the limit, and an attempt shows the furthest stage
\* that was reported, in whatever order (ContactAttempts).
AttemptsAreTrue == Contacts!DailyCap /\ Contacts!FollowsCall

\* What was decided about an attempt stays decided (ContactAttempts).
DecisionsStand == Contacts!DecisionsStand

\* A call that ended is known to have ended (ContactAttempts).
CallsSettle == Contacts!CallsSettle
=============================================================================
