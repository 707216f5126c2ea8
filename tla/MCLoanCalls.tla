----------------------------- MODULE MCLoanCalls -----------------------------
EXTENDS LoanCalls, TLC

\* A part of the promise, a payment that covers it and not the claim, a refund.
MCCents == [e \in Entries |->
    CASE e = "part" -> 1 [] e = "pay" -> 2 [] e = "refund" -> -1]

ASSUME CallsAssumption == LoanAssumption /\ NoneIsNoRow

\* A call is posted, and goes on, only under the session, the terms and the authority that
\* stand.
CallsAreAuthorized == RunningIsCurrent /\ OverIsStopped /\ PostingIsAuthorized

\* A case has one conversation and one promise to keep.
OneAtATime == SessionsAreExclusive /\ OneObligation

\* Workers are interchangeable, and so are session ids.
Symmetric == Permutations(Workers) \cup Permutations(Sessions)
=============================================================================
