----------------------------- MODULE VoiceTurns -----------------------------
(***************************************************************************)
(* A phone call with the synthetic loan dialogue of the voice laboratory.  *)
(*                                                                         *)
(* Three threads and a task take part.  The media loop of the call hears   *)
(* when the caller speaks and plays the replies; the reader of the voice   *)
(* client owns the connection to the model host; the task of the session   *)
(* on the host serves that connection; a worker of its own thinks about    *)
(* one utterance and speaks the reply.  Whoever speaks up during a reply   *)
(* has not heard it, and the dialogue must not take it for heard.          *)
(*                                                                         *)
(* An epoch of the client is a turn that is stale or not; the header of a  *)
(* block of audio and the block are one message, and so are a command and  *)
(* the utterance it announces.                                             *)
(***************************************************************************)
EXTENDS Naturals, Sequences

CONSTANTS
    MaxTurns,       \* requests of one call (8)
    Frames,         \* blocks of audio of one reply
    QueueSize,      \* blocks the host keeps between its worker and the connection (8)
    Words,          \* bound: what the caller says
    None

\* Of the constants; assumed where an instance gives them values.
VoiceAssumption ==
    /\ MaxTurns \in Nat \ {0} /\ Frames \in Nat /\ QueueSize \in Nat \ {0}
    /\ Words \subseteq {"offer", "confirm", "other", "stop", "stop_confirm"}
    /\ None \notin Words \cup Nat \cup {"complete", "cancelled", "error"}

VARIABLES
    client, \* the voice client of the call (LocalVoiceClient)
    up,     \* commands on their way to the host
    down,   \* events on their way to the client
    host,   \* the session on the host, and its gate
    worker, \* the thread of the turn, or None
    engine, \* the dialogue (SyntheticPhoneDialogue) and the stop it waits to have confirmed
    heard   \* auxiliary: how much of each reply of the call was played

vars == <<client, up, down, host, worker, engine, heard>>
hostVars == <<host, worker, engine>>

-----------------------------------------------------------------------------
\* A turn is the number of its request in the call.
Turns == 1 .. MaxTurns

\* What the client is to ask, and what it has asked; the dialogue, what a worker made of it,
\* and the worker.
Pending == [turn : Turns, word : Words \cup {"greeting"}]
Remote  == [turn : Turns, stale : BOOLEAN, cancelled : BOOLEAN]
Engine  == [stage : {"collecting", "pending", "confirmed"},
            basis : Turns \cup {None}, stop : Turns \cup {None}]
Reply   == [next : Engine, end : BOOLEAN, relies_on : SUBSET Turns]
Thread  == [turn : Turns, word : Words \cup {"greeting"}, thought : Reply \cup {None},
            outcome : {"complete", "cancelled", "error", None}, left : 0 .. Frames]

NoneIsNoRecord == None \notin Pending \cup Remote \cup Reply \cup Thread

\* One call follows another: what it starts from holds nothing of the last one.
Nothing == [n \in Turns |-> 0]

\* begin_session.  basis is the turn whose reply brought the dialogue to its stage.
FreshEngine == [stage |-> "collecting", basis |-> None, stop |-> None]

Silent == [phase |-> "gone", pending |-> None, remote |-> None, unreported |-> FALSE,
           last |-> None, audio |-> <<>>, active |-> FALSE, ended |-> FALSE, submitted |-> 0,
           speaking |-> FALSE]

Init ==
    /\ client = Silent
    /\ up = <<>> /\ down = <<>>
    /\ host = [open |-> FALSE, gate |-> FALSE, clean |-> FALSE, active |-> None, last |-> None,
               cancel |-> FALSE, queue |-> 0]
    /\ worker = None
    /\ engine = FreshEngine
    /\ heard = Nothing

\* TokenVoiceEngine.cancel_turn_state: neither a readback nor a confirmation stands.
CancelTurnState(e) == [e EXCEPT !.stop = None, !.stage = "collecting", !.basis = None]

\* cancel() without include_confirmed: a readback is disarmed.
Disarm(e) == IF e.stage = "pending" THEN [e EXCEPT !.stage = "collecting", !.basis = None] ELSE e

-----------------------------------------------------------------------------
(* The media loop: VoiceMediaSession and the methods of the client it calls *)

Stale(remote) == IF remote = None THEN None ELSE [remote EXCEPT !.stale = TRUE]

\* A call comes in, the gate of the host is free, and the client asks for the greeting.
Connect ==
    /\ client.phase = "gone" /\ ~host.gate
    /\ client' = [Silent EXCEPT !.phase = "open", !.active = TRUE,
                                !.pending = [turn |-> 1, word |-> "greeting"],
                                !.submitted = 1]
    /\ host' = [host EXCEPT !.open = TRUE, !.gate = TRUE, !.clean = FALSE, !.active = None,
                            !.last = None, !.cancel = FALSE, !.queue = 0]
    /\ worker' = None
    /\ engine' = FreshEngine
    /\ up' = <<>> /\ down' = <<>>
    /\ heard' = Nothing

Interruptible(c) == c.active \/ c.audio # <<>>

SpeechStarts ==
    /\ client.phase = "open" /\ ~client.speaking
    /\ client' = IF Interruptible(client)
                 THEN [client EXCEPT !.speaking = TRUE, !.remote = Stale(@), !.pending = None,
                                     !.audio = <<>>, !.ended = FALSE, !.unreported = TRUE,
                                     !.active = FALSE]
                 ELSE [client EXCEPT !.speaking = TRUE]
    /\ UNCHANGED <<up, down, hostVars, heard>>

\* Too short to be an utterance.
SpeechWasNoise ==
    /\ client.phase = "open" /\ client.speaking
    /\ client' = [client EXCEPT !.speaking = FALSE]
    /\ UNCHANGED <<up, down, hostVars, heard>>

\* submit
SpeechEnds(word) ==
    /\ client.phase = "open" /\ client.speaking /\ client.submitted < MaxTurns
    /\ client' = [client EXCEPT !.speaking = FALSE, !.remote = Stale(@), !.audio = <<>>,
                                !.ended = FALSE, !.active = TRUE, !.submitted = @ + 1,
                                !.pending = [turn |-> client.submitted + 1, word |-> word]]
    /\ UNCHANGED <<up, down, hostVars, heard>>

Plays ==
    /\ client.phase = "open" /\ client.audio # <<>>
    /\ heard' = [heard EXCEPT ![Head(client.audio)] = @ + 1]
    /\ client' = [client EXCEPT !.audio = Tail(@)]
    /\ UNCHANGED <<up, down, hostVars>>

\* close: the caller hangs up, the dialogue or the time of the call has ended, or an
\* utterance was one too many.
HangsUp ==
    /\ client.phase = "open"
    /\ client' = [client EXCEPT !.phase = "stopping", !.unreported = @ \/ Interruptible(client),
                                !.remote = Stale(@), !.pending = None, !.audio = <<>>]
    /\ UNCHANGED <<up, down, hostVars, heard>>

-----------------------------------------------------------------------------
(* The reader: LocalVoiceClient._run *)

Connected == client.phase \in {"open", "stopping"}

\* The commands one round of the loop sends, in this order.
Interruption(c) ==
    IF c.remote = None /\ c.last # None /\ c.unreported
    THEN <<[kind |-> "playback_interrupted", turn |-> c.last]>> ELSE <<>>

Cancellation(c) ==
    IF c.remote = None THEN <<>>
    ELSE IF c.remote.stale /\ ~c.remote.cancelled
         THEN <<[kind |-> "cancel", turn |-> c.remote.turn]>> ELSE <<>>

Request(c) ==
    IF c.remote = None /\ c.pending # None
    THEN <<[kind |-> "turn", turn |-> c.pending.turn, word |-> c.pending.word,
            previous_interrupted |-> /\ c.pending.word # "greeting" /\ c.unreported
                                     /\ Interruption(c) = <<>>]>>
    ELSE <<>>

Commands(c) == Interruption(c) \o Cancellation(c) \o Request(c)

ReaderSends ==
    /\ Connected /\ Commands(client) # <<>>
    /\ up' = up \o Commands(client)
    /\ client' =
         IF Cancellation(client) # <<>> THEN [client EXCEPT !.remote.cancelled = TRUE]
         ELSE IF Request(client) = <<>> THEN [client EXCEPT !.unreported = FALSE]
         ELSE [client EXCEPT !.unreported = FALSE, !.pending = None,
                             !.remote = [turn |-> client.pending.turn, stale |-> FALSE,
                                         cancelled |-> FALSE]]
    /\ UNCHANGED <<down, hostVars, heard>>

\* An event for a turn that the caller has not spoken over.
Current(c, turn) == c.remote.turn = turn /\ ~c.remote.stale

ReaderReceives ==
    LET event == Head(down) IN
    /\ Connected /\ down # <<>>
    /\ down' = Tail(down)
    /\ \/ /\ event.kind = "audio"
          /\ client' = IF Current(client, event.turn)
                       THEN [client EXCEPT !.audio = Append(@, event.turn)] ELSE client
          /\ up' = up
       \/ /\ event.kind = "complete"
          /\ client' = [client EXCEPT !.ended = IF Current(client, event.turn) THEN event.end ELSE @,
                                      !.active = client.pending # None, !.last = event.turn,
                                      !.remote = None]
          /\ up' = up
       \/ /\ event.kind = "cancelled"
          /\ client' = [client EXCEPT !.active = client.pending # None, !.remote = None]
          /\ up' = up
       \/ /\ event.kind \in {"error", "closed"}
          /\ client' = [client EXCEPT !.phase = "gone", !.audio = <<>>, !.remote = None]
          /\ up' = Append(up, [kind |-> "disconnect"])
    /\ UNCHANGED <<hostVars, heard>>

\* Mutant: what was last reported is what there is to report.
StillInterrupted_Reported(c) == FALSE

StillInterrupted(c) == c.unreported \/ c.audio # <<>> \/ c.active

\* The loop is left with a word about the last reply, and the connection closed.
ReaderLeaves ==
    /\ client.phase = "stopping"
    /\ up' = up \o (IF client.remote = None /\ client.last # None
                    THEN <<[kind |-> "session_end", turn |-> client.last,
                            interrupted |-> StillInterrupted(client)]>>
                    ELSE <<>>) \o <<[kind |-> "disconnect"]>>
    /\ client' = [client EXCEPT !.phase = "gone"]
    /\ UNCHANGED <<down, hostVars, heard>>

-----------------------------------------------------------------------------
(* The session on the host *)

Alive == worker # None /\ worker.outcome = None

\* The end of a session: what it has not finished cleanly does not stand, and the gate
\* is kept until its worker has left the model.
Ends(clean, e) ==
    /\ host' = [host EXCEPT !.open = FALSE, !.clean = clean, !.cancel = TRUE, !.gate = Alive]
    /\ engine' = IF clean \/ Alive THEN e ELSE CancelTurnState(e)
    /\ down' = Append(down, [kind |-> "closed"])

\* What the session answers to with an error, and so with its end.
Refused(command) ==
    CASE command.kind = "turn" -> host.active # None
      [] command.kind = "cancel" -> host.active # command.turn
      [] command.kind \in {"playback_interrupted", "session_end"} ->
           host.active # None \/ host.last # command.turn
      [] OTHER -> FALSE

HostReceives ==
    LET command == Head(up) IN
    /\ host.open /\ up # <<>>
    /\ up' = Tail(up)
    /\ \/ /\ (Refused(command) \/ command.kind = "disconnect")
          /\ Ends(FALSE, engine) /\ UNCHANGED worker
       \/ /\ ~Refused(command) /\ command.kind = "turn"
          /\ engine' = IF command.previous_interrupted THEN CancelTurnState(engine) ELSE engine
          /\ host' = [host EXCEPT !.active = command.turn, !.cancel = FALSE]
          /\ worker' = [turn |-> command.turn, word |-> command.word, outcome |-> None,
                        thought |-> None, left |-> Frames]
          /\ UNCHANGED down
       \/ /\ ~Refused(command) /\ command.kind = "cancel"
          /\ host' = [host EXCEPT !.cancel = TRUE]
          /\ UNCHANGED <<worker, engine, down>>
       \/ /\ ~Refused(command) /\ command.kind = "playback_interrupted"
          /\ engine' = CancelTurnState(engine)
          /\ UNCHANGED <<host, worker, down>>
       \/ /\ ~Refused(command) /\ command.kind = "session_end"
          /\ Ends(TRUE, IF command.interrupted THEN CancelTurnState(engine) ELSE engine)
          /\ UNCHANGED worker
    /\ UNCHANGED <<client, heard>>

\* The connection is lost, or the time of the session is over.
HostLeaves ==
    /\ host.open
    /\ Ends(FALSE, engine)
    /\ UNCHANGED <<client, up, worker, heard>>

HostSendsAudio ==
    /\ host.open /\ host.queue > 0
    /\ host' = [host EXCEPT !.queue = @ - 1]
    /\ down' = IF host.cancel THEN down ELSE Append(down, [kind |-> "audio", turn |-> host.active])
    /\ UNCHANGED <<client, up, worker, engine, heard>>

HostReports ==
    /\ host.open /\ host.queue = 0
    /\ worker # None /\ worker.outcome # None
    /\ worker' = None
    /\ \/ /\ (host.cancel \/ worker.outcome = "cancelled")
          /\ engine' = CancelTurnState(engine)
          /\ host' = [host EXCEPT !.active = None]
          /\ down' = Append(down, [kind |-> "cancelled", turn |-> host.active])
       \/ /\ ~host.cancel /\ worker.outcome = "error"
          /\ host' = [host EXCEPT !.open = FALSE, !.cancel = TRUE, !.gate = FALSE, !.active = None]
          /\ engine' = CancelTurnState(engine)
          /\ down' = Append(down, [kind |-> "error", turn |-> host.active])
       \/ /\ ~host.cancel /\ worker.outcome = "complete"
          /\ host' = [host EXCEPT !.active = None, !.last = host.active]
          /\ down' = Append(down, [kind |-> "complete", turn |-> host.active,
                                   end |-> worker.thought.end])
          /\ UNCHANGED engine
    /\ UNCHANGED <<client, up, heard>>

\* release_after_worker
HostReleases ==
    /\ ~host.open /\ host.gate /\ ~Alive
    /\ host' = [host EXCEPT !.gate = FALSE]
    /\ engine' = IF host.clean THEN engine ELSE CancelTurnState(engine)
    /\ UNCHANGED <<client, up, down, worker, heard>>

-----------------------------------------------------------------------------
(* The worker: execute_qwen_turn *)

\* SyntheticPhoneDialogue.advance, in a copy that counts once the reply was spoken.
Advance(e, word, turn) ==
    CASE word = "offer" -> [e EXCEPT !.stage = "pending", !.basis = turn]
      [] word = "confirm" /\ e.stage = "pending" -> [e EXCEPT !.stage = "confirmed", !.basis = turn]
      [] word = "confirm" /\ e.stage # "pending" -> e
      [] OTHER -> [e EXCEPT !.stage = "collecting", !.basis = None]

\* relies_on: the turns whose replies the caller's words are an answer to.
Thought(e, word, turn) ==
    CASE word = "greeting" -> [next |-> e, end |-> FALSE, relies_on |-> {}]
      [] word = "stop" -> [next |-> [Disarm(e) EXCEPT !.stop = turn], end |-> FALSE, relies_on |-> {}]
      [] word = "stop_confirm" -> [next |-> [Disarm(e) EXCEPT !.stop = None], end |-> e.stop # None,
                                   relies_on |-> {e.stop} \ {None}]
      [] OTHER -> [next |-> [Advance(e, word, turn) EXCEPT !.stop = None], end |-> FALSE,
                   relies_on |-> IF word = "confirm" /\ e.stage = "pending" THEN {e.basis} ELSE {}]

WorkerDone(outcome) == worker' = [worker EXCEPT !.outcome = outcome]

\* Whatever it comes to, a stop that was asked for before is asked for no more, and words
\* that are not for the dialogue disarm its readback.
WorkerThinks ==
    /\ Alive /\ worker.thought = None
    /\ worker' = [worker EXCEPT !.thought = Thought(engine, worker.word, worker.turn)]
    /\ engine' = [(IF worker.word \in {"stop", "stop_confirm"} THEN Disarm(engine) ELSE engine)
                  EXCEPT !.stop = None]
    /\ UNCHANGED <<client, up, down, host, heard>>

\* emit: the cancellation is looked at between blocks, one more may come after it; and while
\* the queue is full, which nobody empties when the session is over.
WorkerSpeaks ==
    /\ Alive /\ worker.thought # None /\ worker.left > 0
    /\ host.queue < QueueSize
    /\ worker' = [worker EXCEPT !.left = @ - 1]
    /\ host' = [host EXCEPT !.queue = @ + 1]
    /\ UNCHANGED <<client, up, down, engine, heard>>

\* Mutant: the worker waits for room in the queue and looks at nothing else.
SeesCancel_WithRoom == host.cancel /\ host.queue < QueueSize

SeesCancel == host.cancel

WorkerIsCancelled ==
    /\ Alive /\ SeesCancel
    /\ WorkerDone("cancelled")
    /\ UNCHANGED <<client, up, down, host, engine, heard>>

\* A model fails, or the turn takes too long.
WorkerFails ==
    /\ Alive
    /\ WorkerDone("error")
    /\ engine' = CancelTurnState(engine)
    /\ UNCHANGED <<client, up, down, host, heard>>

WorkerFinishes ==
    /\ Alive /\ worker.thought # None /\ worker.left = 0
    /\ WorkerDone("complete")
    /\ engine' = worker.thought.next
    /\ UNCHANGED <<client, up, down, host, heard>>

-----------------------------------------------------------------------------
Caller == SpeechStarts \/ SpeechWasNoise \/ (\E w \in Words : SpeechEnds(w)) \/ HangsUp
Reader == ReaderSends \/ ReaderReceives \/ ReaderLeaves
HostSession == HostReceives \/ HostSendsAudio \/ HostReports \/ HostReleases
Worker == WorkerThinks \/ WorkerSpeaks \/ WorkerIsCancelled \/ WorkerFinishes

Next == Connect \/ Caller \/ Plays \/ Reader \/ HostSession \/ HostLeaves \/ Worker \/ WorkerFails

Spec == Init /\ [][Next]_vars

\* The threads run as long as they can; the caller, the network and the models owe nothing.
FairSpec == Spec /\ WF_vars(Reader) /\ WF_vars(HostSession) /\ WF_vars(Worker)

-----------------------------------------------------------------------------
(* Properties *)

Heard(turn) == heard[turn] = Frames

\* Nobody answers what was not heard.  A readback is confirmed, and the test stopped, on
\* the strength of a reply that was played to its end; a confirmation that stands when the
\* call is over was itself heard.
OnlyWhatWasHeard ==
    /\ Alive /\ worker.thought # None => \A t \in worker.thought.relies_on : Heard(t)
    /\ ~host.gate /\ engine.stage = "confirmed" => Heard(engine.basis)

\* What is played answers the caller's last words: no block of a reply that was spoken
\* over is ever played, however late it arrives.
PlaybackIsCurrent ==
    \A i \in 1..Len(client.audio) :
        /\ client.audio[i] = client.submitted
        /\ \/ client.remote = None
           \/ client.remote # None /\ Current(client, client.audio[i])

\* The model host is free again after every call, whatever the caller, the network or the
\* models did.
GateOpens == host.gate /\ client.phase = "gone" ~> ~host.gate
=============================================================================
