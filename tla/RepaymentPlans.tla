--------------------------- MODULE RepaymentPlans ---------------------------
(***************************************************************************)
(* The repayment plans of one case: proposed, reviewed, paid by the        *)
(* recovery entries the ledger books, and taken back by refunds.           *)
(*                                                                         *)
(* Proposing locks the rows of the case and its package, deciding locks    *)
(* the plan and then the case and the package, allocating locks the plan.  *)
(* Each is a transaction in steps: what it reads, and its commit.          *)
(* Allocating reads the case without a lock, a payment's before the lock   *)
(* of the plan: the session keeps the first row it loaded.  Incidents of   *)
(* CaseProtection appear as the two commits that change the case; the      *)
(* policy of the package is that of PolicyProposals.                       *)
(***************************************************************************)
EXTENDS Naturals, Integers, FiniteSets, Sums

CONSTANTS
    Plans,          \* plan_id of the plans that may be proposed
    Due,            \* [Plans -> [1 .. MaxInstallments -> due_cents, 0 if none]]
    MaxInstallments,
    Lenient,        \* the plans that meet the policy only while it is lenient
    Payments,       \* recovery entries of type PAYMENT, and
    Refunds,        \* of type REFUND
    Amount,         \* [Payments \cup Refunds -> cents]
    Original,       \* [Refunds -> Payments]
    Early,          \* the payments booked before the plans were signed
    Desks,          \* concurrent requests on plans, and deliveries of entries
    MaxIncidents,   \* bound: times the case is put under protection
    Proposals, TermsOf, FirstTerms, Actors, Clerks,   \* of PolicyProposals
    None            \* SQL NULL

\* Of the constants; assumed where an instance gives them values.
PlanAssumption ==
    /\ Due \in [Plans -> [1 .. MaxInstallments -> Nat]]
    /\ \A p \in Plans : Due[p][1] > 0
    /\ Lenient \subseteq Plans
    /\ Amount \in [Payments \cup Refunds -> Nat \ {0}]
    /\ Original \in [Refunds -> Payments]
    /\ Early \subseteq Payments
    /\ Payments \cap Refunds = {}
    /\ MaxInstallments \in Nat \ {0} /\ MaxIncidents \in Nat
    /\ None \notin Plans \cup Payments \cup Refunds \cup Actors

VARIABLES
    package, proposals, clerks,     \* of PolicyProposals
    case,       \* the columns blocked and status of the case
    incidents,  \* bound: how often the case was put under protection
    plans,      \* [Plans -> repayment_plans row, or None]
    paid,       \* [Plans -> [1 .. MaxInstallments -> paid_cents]]
    shares,     \* [Payments \cup Refunds -> its allocations, or None]
    desks       \* [Desks -> control state of the request]

policyVars == <<package, proposals, clerks>>
vars == <<package, proposals, clerks, case, incidents, plans, paid, shares, desks>>

Policy == INSTANCE PolicyProposals

-----------------------------------------------------------------------------
(* Types *)

Events == Payments \cup Refunds

Installments == 1 .. MaxInstallments

Zero == [k \in Installments |-> 0]

Case == [blocked : BOOLEAN,
         status  : {"contactable", "performing", "settled", "protected",
                    "reassess"}]

\* The reviewer is never the proposer.
Plan ==
    {row \in [status   : {"pending_review", "active", "completed", "rejected"},
              policy   : Policy!Versions,
              proposer : Actors,
              reviewer : Actors \cup {None}] : row.reviewer # row.proposer}

\* The rows an entry adds to repayment_allocations, all of one plan.
Share == [plan : Plans \cup {None}, cents : [Installments -> Nat]]

\* NULL is no record; assumed where an instance gives the constants values.
NoneIsNoRecord == None \notin Plan /\ None \notin Share /\ None \notin Case

Desk == [pc     : {"idle", "proposing", "opened", "approving", "rejecting",
                   "booking", "posting"},
         plan   : Plans \cup {None},
         event  : Events \cup {None},
         actor  : Actors \cup {None},
         wants  : {"none", "approving", "rejecting"},
         policy : Policy!Versions,
         cents  : [Installments -> Nat],
         after  : [Installments -> Nat],
         seen   : Case \cup {None}]

IdleDesk == [pc |-> "idle", plan |-> None, event |-> None, actor |-> None,
             wants |-> "none", policy |-> 1, cents |-> Zero, after |-> Zero,
             seen |-> None]

-----------------------------------------------------------------------------
Init ==
    /\ Policy!Init
    /\ case = [blocked |-> FALSE, status |-> "contactable"]
    /\ incidents = 0
    /\ plans = [p \in Plans |-> None]
    /\ paid = [p \in Plans |-> Zero]
    /\ shares = [e \in Events |-> None]
    /\ desks = [d \in Desks |-> IdleDesk]

WithStatus(S) == {p \in Plans : plans[p] # None /\ plans[p].status \in S}

\* ACTIVE_PLAN_STATUSES
InForce == WithStatus({"active", "completed"})

\* Mutant: a completed plan does not count.
Live_NotCompleted == WithStatus({"pending_review", "active"})

\* What a new plan must not meet.
Live == WithStatus({"pending_review", "active", "completed"})

Posted == {e \in Events : shares[e] # None}

NoDeskHoldsContext ==
    \A d \in Desks : desks[d].pc \notin {"proposing", "approving", "rejecting"}

\* Mutant: the case and the package are read without FOR UPDATE.
ContextUnlocked_NoLock == TRUE

\* SELECT ... FOR UPDATE of the case and of its package gets through.
ContextUnlocked == NoDeskHoldsContext /\ Policy!PackageUnlocked

\* Mutant: the plan is read without FOR UPDATE.
PlanUnlocked_NoLock(p) == TRUE

\* SELECT ... FOR UPDATE of a plan gets through.
PlanUnlocked(p) ==
    \A d \in Desks : desks[d].pc # "proposing" => desks[d].plan # p

\* _validate_terms
TermsValid(p) ==
    /\ ~ case.blocked
    /\ p \in Lenient => package.terms = "lenient"

-----------------------------------------------------------------------------
(* create_plan_proposal *)

ProposeReads(d, a, p) ==
    /\ desks[d].pc = "idle"
    /\ plans[p] = None
    /\ ContextUnlocked
    /\ TermsValid(p)
    /\ desks' = [desks EXCEPT ![d] = [IdleDesk EXCEPT
           !.pc = "proposing", !.plan = p, !.actor = a,
           !.policy = package.version]]
    /\ UNCHANGED <<policyVars, case, incidents, plans, paid, shares>>

\* A plan in progress is locked before it is found to be in the way.
ProposeCommits(d) ==
    LET q == desks[d] IN
    /\ q.pc = "proposing"
    /\ \A p \in Live : PlanUnlocked(p)
    /\ plans' = IF Live = {}
                THEN [plans EXCEPT ![q.plan] =
                         [status |-> "pending_review", policy |-> q.policy,
                          proposer |-> q.actor, reviewer |-> None]]
                ELSE plans
    /\ desks' = [desks EXCEPT ![d] = IdleDesk]
    /\ UNCHANGED <<policyVars, case, incidents, paid, shares>>

-----------------------------------------------------------------------------
(* decide_plan *)

\* Mutant: the proposer may decide.
MayDecide_Proposer(a, p) == p \in WithStatus({"pending_review"})

\* A pending plan is at version 1, the one that is shown.
MayDecide(a, p) ==
    /\ p \in WithStatus({"pending_review"})
    /\ plans[p].proposer # a

DecideOpens(d, a, p, wants) ==
    /\ desks[d].pc = "idle"
    /\ MayDecide(a, p)
    /\ PlanUnlocked(p)
    /\ desks' = [desks EXCEPT ![d] = [IdleDesk EXCEPT
           !.pc = "opened", !.plan = p, !.actor = a, !.wants = wants]]
    /\ UNCHANGED <<policyVars, case, incidents, plans, paid, shares>>

Approvable(p) ==
    /\ package.version = plans[p].policy
    /\ TermsValid(p)
    /\ InForce \ {p} = {}

\* A refused approval rolls back.
DecideReads(d) ==
    LET q == desks[d] IN
    /\ q.pc = "opened"
    /\ ContextUnlocked
    /\ desks' = [desks EXCEPT ![d] =
           IF q.wants = "rejecting" \/ Approvable(q.plan)
           THEN [q EXCEPT !.pc = q.wants] ELSE IdleDesk]
    /\ UNCHANGED <<policyVars, case, incidents, plans, paid, shares>>

DecideCommits(d) ==
    LET q == desks[d] IN
    /\ q.pc \in {"approving", "rejecting"}
    /\ plans' = [plans EXCEPT ![q.plan] =
           [@ EXCEPT !.status = IF q.pc = "approving" THEN "active" ELSE "rejected",
                     !.reviewer = q.actor]]
    /\ case' = IF q.pc = "approving"
               THEN [case EXCEPT !.status = "performing"] ELSE case
    /\ desks' = [desks EXCEPT ![d] = IdleDesk]
    /\ UNCHANGED <<policyVars, incidents, paid, shares>>

-----------------------------------------------------------------------------
(* allocate_recovery_to_plan *)

AtMost(x, y) == IF x <= y THEN x ELSE y

\* What is left of cents after the installments of K took theirs.
Rest(cents, room, K) ==
    LET taken == Total(room, K)
    IN  IF cents > taken THEN cents - taken ELSE 0

\* A payment fills the installments in order.
Spread(cents, room) ==
    [k \in Installments |-> AtMost(Rest(cents, room, 1 .. k - 1), room[k])]

\* A refund empties them from the last.
TakeBack(cents, room) ==
    [k \in Installments |->
        AtMost(Rest(cents, room, k + 1 .. MaxInstallments), room[k])]

RefundsOf(e) == {r \in Posted \cap Refunds : Original[r] = e}

\* What the entries of E put on installment k, or took from it.
Put(E, k) == Total([e \in E |-> shares[e].cents[k]], E)

\* Of each allocation of the payment, what earlier refunds left.
Refundable(e) == [k \in Installments |-> shares[e].cents[k] - Put(RefundsOf(e), k)]

Open(p) == [k \in Installments |-> Due[p][k] - paid[p][k]]

\* The plan an entry is for, None if there is none.
PlanOf(e) ==
    IF e \in Refunds THEN shares[Original[e]].plan
    ELSE IF e \in Early \/ InForce = {} THEN None
    ELSE CHOOSE p \in InForce : TRUE

\* The checks of financial_ledger before it books the entry; it holds the
\* lock of the payment a refund takes back.
Bookable(e) ==
    /\ e \notin Posted
    /\ \A d \in Desks : desks[d].event # e
    /\ e \in Refunds =>
          /\ Original[e] \in Posted
          /\ Amount[e] + Total(Amount, RefundsOf(Original[e])) <= Amount[Original[e]]
          /\ \A d \in Desks : desks[d].event \in Refunds =>
                Original[desks[d].event] # Original[e]

Allocation(e, p) ==
    IF p = None THEN Zero
    ELSE IF e \in Payments THEN Spread(Amount[e], Open(p))
    ELSE TakeBack(Amount[e], Refundable(Original[e]))

PaidAfter(e, p) ==
    [k \in Installments |->
        IF e \in Payments THEN paid[p][k] + Allocation(e, p)[k]
        ELSE IF paid[p][k] > Allocation(e, p)[k]
        THEN paid[p][k] - Allocation(e, p)[k] ELSE 0]

\* The profile of a payment is read, and the case with it.
PostOpens(d, e) ==
    /\ desks[d].pc = "idle"
    /\ Bookable(e)
    /\ desks' = [desks EXCEPT ![d] = [IdleDesk EXCEPT
           !.pc = "booking", !.event = e,
           !.seen = IF e \in Payments THEN case ELSE None]]
    /\ UNCHANGED <<policyVars, case, incidents, plans, paid, shares>>

\* The lock of the plan, and a refund's read of the case.
PostReads(d) ==
    LET q == desks[d]
        p == PlanOf(q.event)
    IN
    /\ q.pc = "booking"
    /\ p # None => PlanUnlocked(p)
    /\ desks' = [desks EXCEPT ![d] = [q EXCEPT
           !.pc = "posting", !.plan = p, !.cents = Allocation(q.event, p),
           !.after = IF p = None THEN Zero ELSE PaidAfter(q.event, p),
           !.seen = IF q.event \in Payments THEN q.seen ELSE case]]
    /\ UNCHANGED <<policyVars, case, incidents, plans, paid, shares>>

\* _sync_plan_state
PaidUp(p, after) == Total(after, Installments) >= Total(Due[p], Installments)

PlanSynced(p, after) ==
    IF PaidUp(p, after) THEN "completed" ELSE "active"

CaseSynced(d) ==
    IF PaidUp(desks[d].plan, desks[d].after) THEN "settled"
    ELSE IF plans[desks[d].plan].status = "completed" THEN "performing"
    ELSE desks[d].seen.status

\* The session sends an UPDATE only if the status differs from the one it
\* loaded; the UPDATE waits for the lock of the case.
SyncCase(d) ==
    IF desks[d].seen.blocked \/ CaseSynced(d) = desks[d].seen.status
    THEN UNCHANGED case
    ELSE /\ ContextUnlocked
         /\ case' = [case EXCEPT !.status = CaseSynced(d)]

\* An entry that allocates nothing touches neither the plan nor the case.
PostCommits(d) ==
    LET q == desks[d] IN
    /\ q.pc = "posting"
    /\ IF q.cents = Zero
       THEN /\ shares' = [shares EXCEPT ![q.event] =
                   [plan |-> None, cents |-> Zero]]
            /\ UNCHANGED <<case, plans, paid>>
       ELSE /\ shares' = [shares EXCEPT ![q.event] =
                   [plan |-> q.plan, cents |-> q.cents]]
            /\ paid' = [paid EXCEPT ![q.plan] = q.after]
            /\ plans' = [plans EXCEPT ![q.plan].status =
                   PlanSynced(q.plan, q.after)]
            /\ SyncCase(d)
    /\ desks' = [desks EXCEPT ![d] = IdleDesk]
    /\ UNCHANGED <<policyVars, incidents>>

\* The connection is lost, or PostgreSQL aborts one of two requests that
\* wait for each other.
DeskDies(d) ==
    /\ desks[d].pc # "idle"
    /\ desks' = [desks EXCEPT ![d] = IdleDesk]
    /\ UNCHANGED <<policyVars, case, incidents, plans, paid, shares>>

-----------------------------------------------------------------------------
(* CaseProtection *)

Protect ==
    /\ ~ case.blocked
    /\ incidents < MaxIncidents
    /\ ContextUnlocked
    /\ case' = [blocked |-> TRUE, status |-> "protected"]
    /\ incidents' = incidents + 1
    /\ UNCHANGED <<policyVars, plans, paid, shares, desks>>

Release ==
    /\ case.blocked
    /\ ContextUnlocked
    /\ case' = [blocked |-> FALSE, status |-> "reassess"]
    /\ UNCHANGED <<policyVars, incidents, plans, paid, shares, desks>>

-----------------------------------------------------------------------------
PolicyDecider(k) == clerks[k].pc \in {"approving", "rejecting"}

\* The decision on a policy locks the package.
PolicyChanges ==
    /\ Policy!Next
    /\ (\E k \in Clerks : ~ PolicyDecider(k) /\ PolicyDecider(k)')
          => NoDeskHoldsContext
    /\ UNCHANGED <<case, incidents, plans, paid, shares, desks>>

Next ==
    \/ PolicyChanges
    \/ Protect \/ Release
    \/ \E d \in Desks, a \in Actors, p \in Plans :
          \/ ProposeReads(d, a, p)
          \/ DecideOpens(d, a, p, "approving")
          \/ DecideOpens(d, a, p, "rejecting")
    \/ \E d \in Desks, e \in Events : PostOpens(d, e)
    \/ \E d \in Desks :
          \/ ProposeCommits(d) \/ DecideReads(d) \/ DecideCommits(d)
          \/ PostReads(d) \/ PostCommits(d) \/ DeskDies(d)

Spec == Init /\ [][Next]_vars

-----------------------------------------------------------------------------
(* Properties *)

TypeOK ==
    /\ Policy!TypeOK
    /\ case \in Case
    /\ incidents \in 0 .. MaxIncidents
    /\ plans \in [Plans -> Plan \cup {None}]
    /\ paid \in [Plans -> [Installments -> Nat]]
    /\ shares \in [Events -> Share \cup {None}]
    /\ desks \in [Desks -> Desk]

\* A case never has two plans under review or in force: not when two are
\* proposed at once, and not when a refund reopens one that was completed.
OnePlanPerCase ==
    \A p, q \in WithStatus({"pending_review", "active", "completed"}) : p = q

Allotted(E, p, k) == Put({e \in Posted \cap E : shares[e].plan = p}, k)

\* What an installment shows as paid is what payments put on it less what
\* refunds took back, and never more than is due: no concurrent update is lost.
PaidIsAllocated ==
    \A p \in Plans, k \in Installments :
        /\ paid[p][k] = Allotted(Payments, p, k) - Allotted(Refunds, p, k)
        /\ paid[p][k] <= Due[p][k]

\* The plan never holds more of a payment than refunds have left of it, and a
\* refund never takes more from an installment than the payment put there.
NetShareCovered ==
    \A e \in Posted \cap Payments :
        /\ Total(Refundable(e), Installments) + Total(Amount, RefundsOf(e)) <= Amount[e]
        /\ \A k \in Installments : Refundable(e)[k] >= 0

\* A plan in force is completed exactly while it is paid in full.
CompletedWhenPaid ==
    \A p \in InForce :
        plans[p].status = "completed" <=> PaidUp(p, paid[p])

\* A case that may be contacted is not taken for settled while its plan is
\* unpaid, wherever incidents are opened and released around the bookings.
SettledMeansPaid ==
    ~ case.blocked /\ case.status = "settled" =>
        WithStatus({"completed"}) # {}

\* No plan takes effect on a case under protection, nor under a policy other
\* than the one it was proposed for.
NothingActivatesProtected ==
    [][\A p \in Plans :
        (plans[p] # None /\ plans[p].status = "pending_review"
            /\ plans'[p].status = "active")
        => ~ case.blocked /\ package.version = plans[p].policy
      ]_vars

\* A plan takes effect by review.
Stage(p) == IF p \in InForce THEN "effective"
            ELSE IF p \in Live THEN "pending" ELSE "open"

Review == INSTANCE MakerChecker WITH
    Items   <- Plans,
    People  <- Actors,
    stage   <- [p \in Plans |-> Stage(p)],
    maker   <- [p \in Plans |->
                   IF Stage(p) = "open" THEN None ELSE plans[p].proposer],
    checker <- [p \in Plans |->
                   IF Stage(p) = "effective" THEN plans[p].reviewer ELSE None]

PlansAreReviewed == Review!Spec
=============================================================================
