--------------------------- MODULE AttemptTickets ---------------------------
(***************************************************************************)
(* What the attempt counter of the job queue promises, seen from outside:  *)
(* each job has a book of MaxAttempts numbered tickets.  A worker enters a *)
(* job by tearing off the next ticket, holds it while it is inside, and    *)
(* throws it away when it leaves.  No ticket is ever issued twice and no   *)
(* job is entered more often than its book allows.                         *)
(***************************************************************************)
EXTENDS Naturals

CONSTANTS Jobs, Workers, None, MaxAttempts

VARIABLES
    issued,     \* [Jobs -> number of tickets torn off]
    holds       \* [Workers -> the <<job, ticket>> in its hand, or None]

tickets == <<issued, holds>>

Init ==
    /\ issued = [j \in Jobs |-> 0]
    /\ holds = [w \in Workers |-> None]

Enter(w, j) ==
    /\ holds[w] = None
    /\ issued[j] < MaxAttempts
    /\ issued' = [issued EXCEPT ![j] = @ + 1]
    /\ holds' = [holds EXCEPT ![w] = <<j, issued[j] + 1>>]

Leave(w) ==
    /\ holds[w] # None
    /\ holds' = [holds EXCEPT ![w] = None]
    /\ UNCHANGED issued

Next == \E w \in Workers : Leave(w) \/ \E j \in Jobs : Enter(w, j)

Spec == Init /\ [][Next]_tickets
=============================================================================
