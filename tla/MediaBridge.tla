---------------------------- MODULE MediaBridge ----------------------------
(***************************************************************************)
(* The bridge between Asterisk and the voice dialogue: what a call makes   *)
(* in Asterisk, a bridge and a media channel beside the channel of the     *)
(* phone, and the journal that is to find it all again after a crash.      *)
(*                                                                         *)
(* Asterisk and the network between are external.  A request is answered,  *)
(* or fails, or was carried out and its answer lost; a request that failed *)
(* is not carried out later.                                               *)
(***************************************************************************)
EXTENDS Naturals, Sequences, FiniteSets

CONSTANTS
    Phones,     \* channels of phones; a call has a channel of its own
    DailyLimit, \* reservations of one day (20)
    None

\* Of the constants; assumed where an instance gives them values.
BridgeAssumption ==
    /\ DailyLimit \in Nat
    /\ None \notin Phones \cup {"pending", "active", "closed", "unknown"}

VARIABLES
    asterisk,   \* the channels and bridges there are
    events,     \* from Asterisk to the program, while it is connected
    journal,    \* media_calls: the state of each phone, or None
    program     \* where run_loop is, and with which phone

vars == <<asterisk, events, journal, program>>

-----------------------------------------------------------------------------
Program(at, phone, step, ok, then) ==
    [at |-> at, phone |-> phone, step |-> step, ok |-> ok, then |-> then]

At(at) == Program(at, None, 0, TRUE, "down")

Init ==
    /\ asterisk = [waiting |-> Phones, phone |-> {}, media |-> {}, bridge |-> {}]
    /\ events = <<>>
    /\ journal = [p \in Phones |-> None]
    /\ program = At("down")

\* What a request does, or does not do, and whether the program hears so.
Request(effect, heard) ==
    \/ asterisk' = effect
    \/ ~heard /\ asterisk' = asterisk

-----------------------------------------------------------------------------
(* Asterisk *)

\* A call without a program to take it ends at once.
PhoneCalls(p) ==
    /\ p \in asterisk.waiting
    /\ IF program.at = "down"
       THEN asterisk' = [asterisk EXCEPT !.waiting = @ \ {p}] /\ UNCHANGED events
       ELSE /\ asterisk' = [asterisk EXCEPT !.waiting = @ \ {p}, !.phone = @ \cup {p}]
            /\ events' = Append(events, [type |-> "StasisStart", phone |-> p])
    /\ UNCHANGED <<journal, program>>

\* The phone hangs up, or its media channel ends.
ChannelEnds(p, kind) ==
    /\ p \in asterisk[kind]
    /\ asterisk' = [asterisk EXCEPT ![kind] = @ \ {p}]
    /\ events' = IF program.at = "down" THEN events
                 ELSE Append(events, [type |-> "StasisEnd", phone |-> p])
    /\ UNCHANGED <<journal, program>>

-----------------------------------------------------------------------------
(* cleanup *)

CleansUp(p, then) == program' = Program("cleanup", p, 1, TRUE, then)

Kinds == <<"media", "phone", "bridge">>

\* What is not there any more is as good as deleted.
Delete ==
    LET kind == Kinds[program.step] IN
    /\ program.at = "cleanup" /\ program.step <= 3
    /\ \E heard \in BOOLEAN :
          /\ Request([asterisk EXCEPT ![kind] = @ \ {program.phone}], heard)
          /\ program' = [program EXCEPT !.step = @ + 1, !.ok = @ /\ heard]
    /\ UNCHANGED <<events, journal>>

CallState(ok) == IF ok THEN "closed" ELSE "unknown"

\* Mutant: a cleanup that failed is left for the next start, and the calls go on.
AfterFailure_GoesOn(then) == At(IF then = "recover" THEN "idle" ELSE then)

\* Out of the loop, where what is still active is cleaned up once more; and out of the program.
AfterFailure(then) ==
    IF then = "idle" THEN Program("cleanup", program.phone, 1, TRUE, "down") ELSE At("down")

Mark ==
    /\ program.at = "cleanup" /\ program.step = 4
    /\ journal' = [journal EXCEPT ![program.phone] = IF @ = None THEN None ELSE CallState(program.ok)]
    /\ program' = IF program.ok THEN At(program.then) ELSE AfterFailure(program.then)
    /\ UNCHANGED <<asterisk, events>>

-----------------------------------------------------------------------------
(* run_loop *)

Unfinished == {p \in Phones : journal[p] \notin {None, "closed"}}

Start ==
    /\ program.at = "down"
    /\ program' = At("recover")
    /\ events' = <<>>
    /\ UNCHANGED <<asterisk, journal>>

Recovers ==
    /\ program.at = "recover"
    /\ IF Unfinished = {} THEN program' = At("idle")
       ELSE \E p \in Unfinished : CleansUp(p, "recover")
    /\ UNCHANGED <<asterisk, events, journal>>

Hears(type) ==
    /\ program.at \in {"idle", "serve"} /\ events # <<>> /\ Head(events).type = type
    /\ events' = Tail(events)

\* reserve: one intent for a channel, kept for ever.
TakesCall ==
    LET p == Head(events).phone IN
    /\ Hears("StasisStart") /\ program.at = "idle"
    /\ IF journal[p] # None \/ Cardinality({q \in Phones : journal[q] # None}) >= DailyLimit
       THEN CleansUp(p, "idle") /\ UNCHANGED journal
       ELSE /\ journal' = [journal EXCEPT ![p] = "pending"]
            /\ program' = Program("setup", p, 1, TRUE, "idle")
    /\ UNCHANGED asterisk

\* Only one call at a time: the other is hung up, and whoever cannot do that stops.
RefusesCall ==
    LET p == Head(events).phone IN
    /\ Hears("StasisStart") /\ program.at = "serve"
    /\ \E heard \in BOOLEAN :
          /\ Request([asterisk EXCEPT !.phone = @ \ {p}], heard)
          /\ IF heard THEN UNCHANGED program ELSE CleansUp(program.phone, "down")
    /\ UNCHANGED journal

HearsEnd ==
    /\ Hears("StasisEnd")
    /\ IF program.at = "serve" /\ Head(events).phone = program.phone
       THEN CleansUp(program.phone, "idle") ELSE UNCHANGED program
    /\ UNCHANGED <<asterisk, journal>>

\* The dialogue has ended or its time is over; or the program is to stop, or fails.
StopsServing ==
    /\ program.at = "serve"
    /\ \E then \in {"idle", "down"} : CleansUp(program.phone, then)
    /\ UNCHANGED <<asterisk, events, journal>>

StopsIdle ==
    /\ program.at = "idle"
    /\ program' = At("down")
    /\ UNCHANGED <<asterisk, events, journal>>

-----------------------------------------------------------------------------
(* prepare_session *)

\* The bridge, the media channel, where it listens, and the channels joined.
Effect(step, p) ==
    CASE step = 1 -> [asterisk EXCEPT !.bridge = @ \cup {p}]
      [] step = 2 -> [asterisk EXCEPT !.media = @ \cup {p}]
      [] OTHER -> asterisk

Feasible(step, p) ==
    CASE step = 3 -> p \in asterisk.media
      [] step = 4 -> p \in asterisk.media \cap asterisk.phone \cap asterisk.bridge
      [] OTHER -> TRUE

SetsUp ==
    LET p == program.phone IN
    /\ program.at = "setup" /\ program.step <= 4
    /\ \E heard \in BOOLEAN :
          /\ Request(IF Feasible(program.step, p) THEN Effect(program.step, p) ELSE asterisk, heard)
          /\ IF heard /\ Feasible(program.step, p)
             THEN program' = [program EXCEPT !.step = @ + 1]
             ELSE CleansUp(p, "idle")
    /\ UNCHANGED <<events, journal>>

IsSetUp ==
    /\ program.at = "setup" /\ program.step = 5
    /\ journal' = [journal EXCEPT ![program.phone] = "active"]
    /\ program' = Program("serve", program.phone, 0, TRUE, "idle")
    /\ UNCHANGED <<asterisk, events>>

\* The process is killed: what it knew is gone.
Crash ==
    /\ program.at # "down"
    /\ program' = At("down")
    /\ UNCHANGED <<asterisk, events, journal>>

-----------------------------------------------------------------------------
Next ==
    \/ \E p \in Phones : PhoneCalls(p) \/ (\E kind \in {"phone", "media"} : ChannelEnds(p, kind))
    \/ Start \/ Recovers \/ TakesCall \/ RefusesCall \/ HearsEnd \/ StopsServing \/ StopsIdle
    \/ SetsUp \/ IsSetUp \/ Delete \/ Mark
    \/ Crash

Spec == Init /\ [][Next]_vars

-----------------------------------------------------------------------------
(* Properties *)

\* Whatever a call has made in Asterisk is known to a journal that does not take it for
\* closed, through every failed request and every crash.
NothingIsForgotten ==
    \A p \in asterisk.media \cup asterisk.bridge : journal[p] \notin {None, "closed"}

\* While a call is served nothing is left of another, for they would share one port.
ServesAlone ==
    program.at \in {"setup", "serve"} => asterisk.media \cup asterisk.bridge \subseteq {program.phone}
=============================================================================
