------------------------------ MODULE MCCases ------------------------------
\* What protects a case and what settles it, each on its own: incidents and the activities
\* they interrupt, the repayment plans of a case, and the policy that allows them.
EXTENDS CaseProtection, TLC

CONSTANTS c1, c2, i1, i2, i3, l1, l2, m1, m2, f1, f2, q1, PlanDesks, Policies, Clerks

VARIABLES
    part,
    package, policyProposals, planClerks, case, protections, plans, paid, shares, planDesks,
    terms, policies, policyClerks

-----------------------------------------------------------------------------
(* Two incidents and a stop-contact request on case c1; case c2 has a signed plan. *)

MCCaseOf == [i \in Incidents |-> c1]

-----------------------------------------------------------------------------
(* Two plans of two installments, one of them acceptable only under the lenient policy that *)
(* a proposal introduces; a payment that exceeds the plan, one that fits, and two refunds   *)
(* that together take the first one back.                                                   *)

MCPlans == {l1, l2}
MCPayments == {m1, m2}
MCRefunds == {f1, f2}
MCDue == [p \in MCPlans |-> IF p = l1 THEN <<2, 1>> ELSE <<1, 2>>]
MCLenient == {l2}
MCAmount == [e \in MCPayments \cup MCRefunds |-> IF e = m1 THEN 4 ELSE 2]
MCOriginal == [r \in MCRefunds |-> m1]
OnlyLenient == {q1}
OneClerk == {"clerk"}
MCTermsOf == [q \in Policies |-> IF q = q1 THEN "lenient" ELSE "strict"]
LenientTerms == [q \in OnlyLenient |-> "lenient"]
MCFirstTerms == "standard"

Repaying == INSTANCE RepaymentPlans WITH
    Plans <- MCPlans, Due <- MCDue, MaxInstallments <- 2, Lenient <- MCLenient,
    Payments <- MCPayments, Refunds <- MCRefunds, Amount <- MCAmount, Original <- MCOriginal,
    Early <- {}, Desks <- PlanDesks, MaxIncidents <- 1, Proposals <- OnlyLenient,
    TermsOf <- LenientTerms, FirstTerms <- MCFirstTerms, Clerks <- OneClerk,
    clerks <- planClerks, proposals <- policyProposals, incidents <- protections, desks <- planDesks

-----------------------------------------------------------------------------
(* One lenient and two strict proposals of a policy. *)

Changing == INSTANCE PolicyProposals WITH
    Proposals <- Policies, TermsOf <- MCTermsOf, FirstTerms <- MCFirstTerms,
    package <- terms, proposals <- policies, clerks <- policyClerks

ASSUME InstancesAssumption ==
    /\ Repaying!PlanAssumption /\ Repaying!NoneIsNoRecord
    /\ Repaying!Policy!PolicyAssumption /\ Repaying!Policy!NoneIsNoRow
    /\ Changing!PolicyAssumption /\ Changing!NoneIsNoRow

planVars == <<package, policyProposals, planClerks, case, protections, plans, paid, shares, planDesks>>
policyVars == <<terms, policies, policyClerks>>

-----------------------------------------------------------------------------

CasesInit ==
    part \in {"protection", "plans", "policy"} /\ Init /\ Repaying!Init /\ Changing!Init

CasesNext ==
    /\ \/ part = "protection" /\ Next /\ UNCHANGED <<planVars, policyVars>>
       \/ part = "plans" /\ Repaying!Next /\ UNCHANGED <<vars, policyVars>>
       \/ part = "policy" /\ Changing!Next /\ UNCHANGED <<vars, planVars>>
    /\ UNCHANGED part

CasesSpec == CasesInit /\ [][CasesNext]_<<vars, planVars, policyVars, part>>

\* What plans show as paid is what payments left on them (RepaymentPlans).
MoneyIsAllocated ==
    Repaying!PaidIsAllocated /\ Repaying!NetShareCovered /\ Repaying!CompletedWhenPaid

\* A case has one plan, and is settled by it alone (RepaymentPlans).
PlanSettlesCase == Repaying!OnePlanPerCase /\ Repaying!SettledMeansPaid

\* No plan takes effect on a protected case or under another policy (RepaymentPlans).
NothingActivatesProtected == Repaying!NothingActivatesProtected

\* Each version of the policy is the work of one approval (PolicyProposals).
OneApprovalPerVersion == Changing!OneApprovalPerVersion

\* Plans and policies take effect by the decision of a second person (MakerChecker).
DecisionsAreReviewed == Repaying!PlansAreReviewed /\ Changing!PolicyIsReviewed

\* Requests of all kinds are the same two, which are interchangeable.
Symmetry == Permutations(Actors) \cup Permutations(Desks) \cup Permutations(MCRefunds)
=============================================================================
