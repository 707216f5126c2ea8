------------------------------- MODULE OneShot -------------------------------
(***************************************************************************)
(* What a durable intent promises, seen from outside: an item is armed by  *)
(* somebody entitled to, and then either acts on the world once or is      *)
(* withdrawn.  Nothing acts twice, nothing acts that was never armed, and  *)
(* nothing acts once it is withdrawn.                                      *)
(***************************************************************************)
CONSTANT Items

VARIABLE stage      \* [Items -> "unarmed", "armed", "acted" or "withdrawn"]

Move(i, from, to) ==
    /\ stage[i] = from
    /\ stage' = [stage EXCEPT ![i] = to]

Next == \E i \in Items : \/ Move(i, "unarmed", "armed")
                         \/ Move(i, "armed", "acted")
                         \/ Move(i, "armed", "withdrawn")

\* Withdrawing a group of items is one step of the program.
WithdrawMany ==
    \E S \in SUBSET Items :
        /\ \A i \in S : stage[i] = "armed"
        /\ stage' = [i \in Items |-> IF i \in S THEN "withdrawn" ELSE stage[i]]

Spec == /\ stage = [i \in Items |-> "unarmed"]
        /\ [][Next \/ WithdrawMany]_stage
=============================================================================
