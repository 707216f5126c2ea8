----------------------------- MODULE AgentTurns -----------------------------
(***************************************************************************)
(* The turns of one agent session: a message becomes a job, a runner of    *)
(* some host process claims it, loads the session's checkpoint and the     *)
(* dialogue so far, and has the host's runtime manager put the question to *)
(* a harness process.  A process remembers its own part of the dialogue;   *)
(* it is kept for the next turn of the host, given the whole dialogue      *)
(* again when it is not the one the checkpoint names, and replaced when    *)
(* the configuration changes.  Everything a turn writes is committed with  *)
(* its job, if the lease is still held.                                    *)
(***************************************************************************)
EXTENDS Integers, FiniteSets

CONSTANTS
    Hosts,        \* operating-system processes of workers (and of the API)
    Runners,      \* their threads that run jobs
    HostOf,       \* the host of each runner
    Turns,        \* the messages of the session
    MaxAttempts,  \* of a job
    MaxConfigs,   \* bound: configurations (and token lifetimes) of the runtime
    MaxRestarts   \* bound: restarts of hosts

\* Of the constants; assumed where an instance gives them values.
TurnsAssumption ==
    /\ IsFiniteSet(Hosts) /\ IsFiniteSet(Runners)
    /\ HostOf \in [Runners -> Hosts]

VARIABLES
    job,        \* per turn: status, runner and attempt of its job
    checkpoint, \* turn_count, and process_generation of runtime_metadata
    dialogue,   \* the turns whose answers are committed
    act,        \* what each runner is doing
    entry,      \* per host: the process the manager keeps for the session
    processes,  \* the harness processes, by slot; that of a closed one is free
    config,     \* what the fingerprint is taken of, and the token's period
    restarts

vars == <<job, checkpoint, dialogue, act, entry, processes, config, restarts>>

NoProcess == 0

Slots == 1 .. Cardinality(Hosts) + Cardinality(Runners)

Closed == [generation |-> 0, config |-> 0, knows |-> {}, open |-> FALSE]

Idle == [at |-> "idle"]

Init ==
    /\ job = [t \in Turns |-> [status |-> "none", runner |-> "nobody", attempt |-> 0]]
    /\ checkpoint = [count |-> 0, generation |-> 0]
    /\ dialogue = {}
    /\ act = [r \in Runners |-> Idle]
    /\ entry = [h \in Hosts |-> NoProcess]
    /\ processes = [p \in Slots |-> Closed]
    /\ config = 1
    /\ restarts = 0

-----------------------------------------------------------------------------
(* Messages and their jobs *)

\* Only turns of the same dialogue matter here: the answer of one may be asked for
\* while others are still queued.
Send(t) ==
    /\ job[t].status = "none"
    /\ job' = [job EXCEPT ![t].status = "queued"]
    /\ UNCHANGED <<checkpoint, dialogue, act, entry, processes, config, restarts>>

\* claim_job, and the handler up to its AgentRun, which it commits at once.
Claim(r, t) ==
    /\ act[r].at = "idle"
    /\ job[t].status = "queued" /\ job[t].attempt < MaxAttempts
    /\ job' = [job EXCEPT ![t] = [status |-> "running", runner |-> r, attempt |-> @.attempt + 1]]
    /\ act' = [act EXCEPT ![r] = [at |-> "claimed", turn |-> t, attempt |-> job[t].attempt + 1]]
    /\ UNCHANGED <<checkpoint, dialogue, entry, processes, config, restarts>>

\* Recovery finds the lease of a runner expired, which may be alive all the same.
Recover(t) ==
    /\ job[t].status = "running"
    /\ job' = [job EXCEPT ![t].status = IF job[t].attempt < MaxAttempts THEN "queued" ELSE "failed",
                          ![t].runner = "nobody"]
    /\ UNCHANGED <<checkpoint, dialogue, act, entry, processes, config, restarts>>

Retry(t) ==
    /\ job[t].status = "failed" /\ job[t].attempt < MaxAttempts
    /\ job' = [job EXCEPT ![t].status = "queued"]
    /\ UNCHANGED <<checkpoint, dialogue, act, entry, processes, config, restarts>>

OwnsJob(r) ==
    LET j == job[act[r].turn] IN
    j.status = "running" /\ j.runner = r /\ j.attempt = act[r].attempt

-----------------------------------------------------------------------------
(* run_runtime_turn *)

\* The first turn inserts the checkpoint: another first turn waits for its end.
FirstTurnOpen(r) == \E q \in Runners \ {r} : act[q].at \in {"loaded", "asking", "answered"} /\ act[q].count = 0

Load(r) ==
    /\ act[r].at = "claimed"
    /\ checkpoint.count = 0 => ~FirstTurnOpen(r)
    /\ act' = [act EXCEPT ![r] =
                 [at |-> "loaded", turn |-> @.turn, attempt |-> @.attempt,
                  count |-> checkpoint.count, generation |-> checkpoint.generation,
                  history |-> dialogue, config |-> config]]
    /\ UNCHANGED <<job, checkpoint, dialogue, entry, processes, config, restarts>>

\* The manager's locked section: what it keeps is used, or replaced and closed.
Keeps(h, fingerprint) == entry[h] # NoProcess /\ processes[entry[h]].config = fingerprint

\* Mutant: the generation of a new process is counted by the host, not by the checkpoint.
NewProcess_OwnCount(loaded) ==
    [generation |-> 1, config |-> loaded.config, knows |-> {}, open |-> TRUE]

NewProcess(loaded) ==
    [generation |-> loaded.generation + 1, config |-> loaded.config, knows |-> {}, open |-> TRUE]

Close(p) == IF p = NoProcess THEN processes ELSE [processes EXCEPT ![p] = Closed]

\* A slot nobody's question is waiting in.
FreeSlot ==
    CHOOSE p \in Slots :
        /\ \A h \in Hosts : entry[h] # p
        /\ \A q \in Runners : act[q].at = "asking" => act[q].process # p

\* A process is taken to remember the dialogue when its generation is the checkpoint's.
ResumesIn(loaded, generation) == loaded.count > 0 /\ generation = loaded.generation

Asks(r, p, generation) ==
    act' = [act EXCEPT ![r] =
              [at |-> "asking", turn |-> @.turn, attempt |-> @.attempt, count |-> @.count,
               history |-> @.history, process |-> p,
               replays |-> act[r].count > 0 /\ ~ResumesIn(act[r], generation)]]

Enter(r) ==
    /\ act[r].at = "loaded"
    /\ LET h == HostOf[r] IN
       IF Keeps(h, act[r].config)
       THEN /\ Asks(r, entry[h], processes[entry[h]].generation)
            /\ UNCHANGED <<entry, processes>>
       ELSE LET new == NewProcess(act[r]) IN
            /\ processes' = [Close(entry[h]) EXCEPT ![FreeSlot] = new]
            /\ entry' = [entry EXCEPT ![h] = FreeSlot]
            /\ Asks(r, FreeSlot, new.generation)
    /\ UNCHANGED <<job, checkpoint, dialogue, config, restarts>>

\* One question at a time: the entry's own lock.
Answer(r) ==
    /\ act[r].at = "asking" /\ processes[act[r].process].open
    /\ processes' = [processes EXCEPT ![act[r].process].knows =
                       @ \cup {act[r].turn} \cup (IF act[r].replays THEN act[r].history ELSE {})]
    /\ act' = [act EXCEPT ![r] =
                 [at |-> "answered", turn |-> @.turn, attempt |-> @.attempt, count |-> @.count,
                  generation |-> processes[@.process].generation]]
    /\ UNCHANGED <<job, checkpoint, dialogue, entry, config, restarts>>

\* The answer, the checkpoint and the job's result are one commit; without the lease
\* they are rolled back, and the process keeps what it heard.
Finish(r) ==
    /\ act[r].at = "answered"
    /\ IF OwnsJob(r)
       THEN /\ dialogue' = dialogue \cup {act[r].turn}
            /\ checkpoint' = [count |-> act[r].count + 1, generation |-> act[r].generation]
            /\ job' = [job EXCEPT ![act[r].turn].status = "succeeded", ![act[r].turn].runner = "nobody"]
       ELSE UNCHANGED <<dialogue, checkpoint, job>>
    /\ act' = [act EXCEPT ![r] = Idle]
    /\ UNCHANGED <<entry, processes, config, restarts>>

\* An error of the provider, or of a process closed under the question, evicts whatever
\* process the manager keeps by then.
Fail(r) ==
    /\ act[r].at \in {"loaded", "asking"}
    /\ job' = IF OwnsJob(r)
              THEN [job EXCEPT ![act[r].turn].status = "failed", ![act[r].turn].runner = "nobody"]
              ELSE job
    /\ IF act[r].at = "asking"
       THEN /\ processes' = Close(entry[HostOf[r]])
            /\ entry' = [entry EXCEPT ![HostOf[r]] = NoProcess]
       ELSE UNCHANGED <<processes, entry>>
    /\ act' = [act EXCEPT ![r] = Idle]
    /\ UNCHANGED <<checkpoint, dialogue, config, restarts>>

-----------------------------------------------------------------------------
(* The world *)

\* The administrator saves another agent or model service, or the runtime token of the
\* processes runs out: what is kept is stale.
Reconfigure ==
    /\ config < MaxConfigs
    /\ config' = config + 1
    /\ UNCHANGED <<job, checkpoint, dialogue, act, entry, processes, restarts>>

\* The harness processes of a host end with it; its leases expire later.
Restart(h) ==
    /\ restarts < MaxRestarts
    /\ restarts' = restarts + 1
    /\ entry' = [entry EXCEPT ![h] = NoProcess]
    /\ processes' = Close(entry[h])
    /\ act' = [r \in Runners |-> IF HostOf[r] = h THEN Idle ELSE act[r]]
    /\ UNCHANGED <<job, checkpoint, dialogue, config>>

Next ==
    \/ \E t \in Turns : Send(t) \/ Recover(t) \/ Retry(t)
    \/ \E r \in Runners, t \in Turns : Claim(r, t)
    \/ \E r \in Runners : Load(r) \/ Enter(r) \/ Answer(r) \/ Finish(r) \/ Fail(r)
    \/ Reconfigure
    \/ \E h \in Hosts : Restart(h)

Spec == Init /\ [][Next]_vars

-----------------------------------------------------------------------------
\* A process that is asked without the dialogue being given to it again has heard every
\* turn of it that was committed when the question was prepared.
ProcessesKnowTheDialogue ==
    \A r \in Runners :
        act[r].at = "asking" /\ ~act[r].replays => act[r].history \subseteq processes[act[r].process].knows
=============================================================================
