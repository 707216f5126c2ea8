------------------------------ MODULE MCLedger ------------------------------
\* Two instances of PaymentLedger, one at a time: the reconciliation of receipts, and the
\* settlement of the commission they earn.
EXTENDS TLC

CONSTANTS m1, f1, f2, c1, c2, Hooks, Actors, Claims, Keys, None

VARIABLES part, receipts, entries, reviews, screens, hooks, book, claims

-----------------------------------------------------------------------------
(* A payment of five cents and two refunds that together exceed it; the second refund     *)
(* names the wrong case, and the provider does not name the payment's.  Where commission  *)
(* is asked for there is one refund.                                                       *)

Of(p, r, q) == (m1 :> p) @@ (f1 :> r) @@ (f2 :> q)

MCCases    == {c1, c2}
MCEvents   == {m1, f1, f2}
MCKind     == Of("payment", "refund", "refund")
MCAmount   == Of(5, 2, 4)
MCOriginal == Of(None, m1, m1)
MCCaseRef  == Of(None, c1, c2)
MCBooked   == Of(2, 4, 5)

Reconciling == INSTANCE PaymentLedger WITH
    Events <- MCEvents, Kind <- MCKind, Amount <- MCAmount, Original <- MCOriginal,
    CaseRef <- MCCaseRef, Booked <- MCBooked, Cases <- MCCases, Ruled <- MCCases,
    MandateStart <- 1, MandateEnd <- 3, TailEnd <- 4, RateBps <- 3500,
    Claims <- {}, ClaimAmounts <- {1}, Opening <- 1, LegacyMatch <- FALSE, MaxVersion <- 4

TwoEvents == {m1, f1}
Two(f) == [e \in TwoEvents |-> f[e]]
TwoKind     == Two(MCKind)
TwoAmount   == Two(MCAmount)
TwoOriginal == Two(MCOriginal)
TwoCaseRef  == Two(MCCaseRef)
TwoBooked   == Two(MCBooked)

Settling == INSTANCE PaymentLedger WITH
    Events <- TwoEvents, Kind <- TwoKind, Amount <- TwoAmount, Original <- TwoOriginal,
    CaseRef <- TwoCaseRef, Booked <- TwoBooked, Cases <- MCCases, Ruled <- MCCases,
    MandateStart <- 1, MandateEnd <- 3, TailEnd <- 0, RateBps <- 3000,
    ClaimAmounts <- {1}, Opening <- 1, LegacyMatch <- TRUE, MaxVersion <- 2

ASSUME InstancesAssumption ==
    /\ Reconciling!LedgerAssumption /\ Reconciling!NoneIsNoRow
    /\ Settling!LedgerAssumption /\ Settling!NoneIsNoRow /\ Settling!HistoryAssumption

ledgerVars == <<receipts, entries, reviews, screens, hooks, book, claims>>

LedgerInit ==
    \/ part = "reconciling" /\ Reconciling!Init
    \/ part = "settling" /\ Settling!Init

LedgerNext ==
    /\ \/ part = "reconciling" /\ Reconciling!Next
       \/ part = "settling" /\ Settling!Next
    /\ UNCHANGED part

LedgerSpec == LedgerInit /\ [][LedgerNext]_<<ledgerVars, part>>

\* Entries exist for matched receipts, on their case (PaymentLedger).
LedgerMatchesReceipts == part = "reconciling" => Reconciling!LedgerMatchesReceipts

\* Refunds never exceed what they take back, in money and in commission (PaymentLedger).
RefundsFollowPayment ==
    part = "reconciling" => Reconciling!RefundsFollowPayment /\ Reconciling!RoundingBounded

\* What is approved is what the checker was shown (PaymentLedger).
ApprovedAsShown == [][part = "reconciling" => Reconciling!ApprovesAsShown]_ledgerVars

\* No balance of commission is spent twice (PaymentLedger).
BalancesCovered == part = "settling" => Settling!BalancesCovered

\* Entries are neither changed nor removed (PaymentLedger).
EntriesAreImmutable == [][part = "settling" => Settling!KeepsEntries]_ledgerVars

Symmetry ==
    Permutations(Hooks) \cup Permutations(Actors) \cup Permutations(Claims) \cup Permutations(Keys)
=============================================================================
