---------------------------- MODULE ModelReplays ----------------------------
(***************************************************************************)
(* Live replays of the model: each is queued for the configuration of the  *)
(* model service an administrator reviewed, and is a job of one attempt    *)
(* that calls the provider if the service is still configured so and the   *)
(* day's budget has room for the most the call may cost.  The job's result *)
(* is committed when the call is over.                                     *)
(***************************************************************************)
EXTENDS Integers, FiniteSets, FiniteSetsExt

CONSTANTS
    Replays,     \* the replays of a day
    Workers,     \* how many jobs run at once
    MaxCost,     \* max_cost_usd of the policy, in units of cost
    DailyLimit,  \* MODEL_DAILY_COST_USD_PER_TENANT
    MaxVersions  \* bound: versions of the configuration

\* Of the constants; assumed where an instance gives them values.
ReplaysAssumption ==
    /\ IsFiniteSet(Replays)
    /\ {Workers, MaxCost, DailyLimit} \subseteq Nat /\ Workers > 0

VARIABLES
    model,   \* the ServiceConfig row of the model service
    replay   \* ModelReplayRun, with what its job has read

vars == <<model, replay>>

NotQueued == [status |-> "none"]
Failed == [status |-> "failed"]

Init ==
    /\ model = [version |-> 1, connected |-> FALSE]
    /\ replay = [p \in Replays |-> NotQueued]

-----------------------------------------------------------------------------

\* A new version has to be connected again.
Reconfigure ==
    /\ model.version < MaxVersions
    /\ model' = [version |-> model.version + 1, connected |-> FALSE]
    /\ UNCHANGED replay

Connect ==
    /\ ~model.connected
    /\ model' = [model EXCEPT !.connected = TRUE]
    /\ UNCHANGED replay

Queue(p) ==
    /\ replay[p] = NotQueued /\ model.connected
    /\ replay' = [replay EXCEPT ![p] = [status |-> "queued", version |-> model.version]]
    /\ UNCHANGED model

\* estimated_cost_usd: nothing but what a completed evaluation has recorded.
Recorded(p) == IF replay[p].status = "completed" THEN replay[p].cost ELSE 0

Spent == MapThenSumSet(Recorded, Replays)

Evaluating == {p \in Replays : replay[p].status \in {"admitted", "called"}}

\* Mutant: only what is already recorded is held against the limit.
Admits_NotReserved(p) ==
    /\ model.version = replay[p].version /\ model.connected
    /\ Spent <= DailyLimit

\* The configuration is the one the replay was queued for, connected, and the budget has
\* room for the most a call may cost.
Admits(p) ==
    /\ model.version = replay[p].version /\ model.connected
    /\ Spent + MaxCost <= DailyLimit

\* The job starts; nothing it has read is locked while it goes on.
Evaluate(p) ==
    /\ replay[p].status = "queued" /\ Cardinality(Evaluating) < Workers
    /\ replay' = [replay EXCEPT ![p] =
                    IF Admits(p)
                    THEN [status |-> "admitted", version |-> @.version, used |-> model.version]
                    ELSE Failed]
    /\ UNCHANGED model

\* The provider charges for the tokens of the call, which may be more than was reserved.
Call(p) ==
    /\ replay[p].status = "admitted"
    /\ \E cost \in 0 .. MaxCost + 1 :
          replay' = [replay EXCEPT ![p] = [status |-> "called", version |-> @.version,
                                           used |-> @.used, cost |-> cost]]
    /\ UNCHANGED model

\* Of an answer that is read, and cost no more than a call may.
Complete(p) ==
    /\ replay[p].status = "called" /\ replay[p].cost <= MaxCost
    /\ replay' = [replay EXCEPT ![p].status = "completed"]
    /\ UNCHANGED model

\* No credential, a provider that fails or answers badly or too dearly, or a lost lease:
\* the replay is not attempted again, and what it cost is not recorded.
FailReplay(p) ==
    /\ p \in Evaluating
    /\ replay' = [replay EXCEPT ![p] = Failed]
    /\ UNCHANGED model

Next ==
    \/ Reconfigure \/ Connect
    \/ \E p \in Replays : Queue(p) \/ Evaluate(p) \/ Call(p) \/ Complete(p) \/ FailReplay(p)

Spec == Init /\ [][Next]_vars

-----------------------------------------------------------------------------

\* A replay calls the model in the version that was reviewed when it was queued, whatever
\* is configured while it waits.
ReplaysArePinned ==
    \A p \in Replays :
        replay[p].status \in {"admitted", "called", "completed"} => replay[p].used = replay[p].version

\* What the day's replays record exceeds the limit by no more than the calls that were
\* admitted side by side.
SpendIsBounded == Spent <= DailyLimit + (Workers - 1) * MaxCost
=============================================================================
