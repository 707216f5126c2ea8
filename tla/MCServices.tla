----------------------------- MODULE MCServices -----------------------------
\* What the parts of the platform rest on, each on its own: the queue of jobs, the services
\* of a tenant and the gate before them, the turns of an agent session, the replays of a day
\* and the envelopes of credentials.
EXTENDS JobQueue

CONSTANTS
    Services, Savers, MaxEdits,
    Hosts, Runners, Turns, MaxTries, MaxConfigs, MaxRestarts,
    Replays, Replayers, MaxCost, DailyLimit, MaxVersions,
    Processes, Refs, MaxKeys

VARIABLES
    component,
    config, gate, request, edits,
    job, checkpoint, dialogue, act, entry, processes, runtime, restarts,
    model, replay,
    reference, secret, deployed, keyring, saving

-----------------------------------------------------------------------------

Gate == INSTANCE ServiceGate

\* The runners share one host.  A process may miss turns that others answered: of another
\* host, or of another runner that worked with it while the configuration changed.
OnlyHost == [r \in Runners |-> CHOOSE h \in Hosts : TRUE]

Agent == INSTANCE AgentTurns WITH
    HostOf <- OnlyHost, MaxAttempts <- MaxTries, config <- runtime

Replaying == INSTANCE ModelReplays WITH Workers <- Replayers

Secrets == INSTANCE SecretRotation WITH config <- reference, request <- saving

ASSUME ServicesAssumption ==
       /\ Gate!GateAssumption /\ Agent!TurnsAssumption /\ Replaying!ReplaysAssumption
       /\ Secrets!RotationAssumption

gateVars == <<config, gate, request, edits>>
agentVars == <<job, checkpoint, dialogue, act, entry, processes, runtime, restarts>>
replayVars == <<model, replay>>
secretVars == <<reference, secret, deployed, keyring, saving>>

-----------------------------------------------------------------------------

ServicesInit ==
    /\ component \in {"queue", "gate", "agent", "replays", "secrets"}
    /\ Init /\ Gate!Init /\ Agent!Init /\ Replaying!Init /\ Secrets!Init

ServicesNext ==
    /\ \/ /\ component = "queue" /\ Next
          /\ UNCHANGED <<gateVars, agentVars, replayVars, secretVars>>
       \/ /\ component = "gate" /\ Gate!Next
          /\ UNCHANGED <<vars, agentVars, replayVars, secretVars>>
       \/ /\ component = "agent" /\ Agent!Next
          /\ UNCHANGED <<vars, gateVars, replayVars, secretVars>>
       \/ /\ component = "replays" /\ Replaying!Next
          /\ UNCHANGED <<vars, gateVars, agentVars, secretVars>>
       \/ /\ component = "secrets" /\ Secrets!Next
          /\ UNCHANGED <<vars, gateVars, agentVars, replayVars>>
    /\ UNCHANGED component

ServicesSpec ==
    ServicesInit
        /\ [][ServicesNext]_<<vars, gateVars, agentVars, replayVars, secretVars, component>>

\* Production calls rest on a self-test of the present settings (ServiceGate).
ReadyAsTested == Gate!ReadyAsTested

\* A process asked without the dialogue has heard all of it (AgentTurns).
ProcessesKnowTheDialogue == Agent!ProcessesKnowTheDialogue

\* A replay calls the model that was reviewed, within the budget of the day (ModelReplays).
ReplaysAreBounded == Replaying!ReplaysArePinned /\ Replaying!SpendIsBounded

\* Every credential in use can be opened (SecretRotation).
NothingIsLost == Secrets!NothingIsLost
=============================================================================
