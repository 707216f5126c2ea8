---------------------------- MODULE MakerChecker ----------------------------
(***************************************************************************)
(* What every reviewed change of RepayGuard promises, whichever table it   *)
(* lives in: nothing takes effect unless one person proposed it and        *)
(* another approved that proposal, and what took effect stays so.  A       *)
(* rejected proposal leaves the item open for the next one.                *)
(***************************************************************************)
CONSTANTS Items, People, None

VARIABLES
    stage,      \* [Items -> {"open", "pending", "effective"}]
    maker,      \* [Items -> who proposed what is pending or effective]
    checker     \* [Items -> who approved what is effective]

vars == <<stage, maker, checker>>

Init ==
    /\ stage = [i \in Items |-> "open"]
    /\ maker = [i \in Items |-> None]
    /\ checker = [i \in Items |-> None]

Propose(i, p) ==
    /\ stage[i] = "open"
    /\ stage' = [stage EXCEPT ![i] = "pending"]
    /\ maker' = [maker EXCEPT ![i] = p]
    /\ UNCHANGED checker

Return(i) ==
    /\ stage[i] = "pending"
    /\ stage' = [stage EXCEPT ![i] = "open"]
    /\ maker' = [maker EXCEPT ![i] = None]
    /\ UNCHANGED checker

Approve(i, p) ==
    /\ stage[i] = "pending"
    /\ p # maker[i]
    /\ stage' = [stage EXCEPT ![i] = "effective"]
    /\ checker' = [checker EXCEPT ![i] = p]
    /\ UNCHANGED maker

Next ==
    \E i \in Items :
        \/ Return(i)
        \/ \E p \in People : Propose(i, p) \/ Approve(i, p)

Spec == Init /\ [][Next]_vars
=============================================================================
