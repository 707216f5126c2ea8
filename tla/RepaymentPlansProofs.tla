------------------------ MODULE RepaymentPlansProofs ------------------------
(***************************************************************************)
(* Proofs about RepaymentPlans, and about the PolicyProposals it is made   *)
(* of, for every set of plans, installments, entries, people and requests. *)
(*                                                                         *)
(* The inductive invariant is Inv.  Three kinds of locks exclude requests: *)
(* those of the case and its package (ContextAlone), of a plan             *)
(* (PlansAlone), and of an entry (EventsAlone); so what a request read     *)
(* under its locks stays true until it commits (DesksSound).  A payment    *)
(* reads the case without a lock: SettledMeansPaid holds because it writes *)
(* "settled" only as it completes the plan, and because a refund reads the *)
(* case under the lock of the plan (SeenSound).                            *)
(*                                                                         *)
(* The sums: installments filled in order take the least of the amount and *)
(* of what is open (FillTotals); what a plan shows as paid is what refunds *)
(* left of its payments (PlanNet), so a refund finds what it takes back.   *)
(*                                                                         *)
(* Of the policy: the version an approval writes is the one it read, plus  *)
(* one, and right because the lock of the package leaves one decision at a *)
(* time (OneDecides), whose reads stay true (PolicyReadsAreCurrent).       *)
(***************************************************************************)
EXTENDS RepaymentPlans, FiniteSums, TLAPS

-----------------------------------------------------------------------------
(* The invariant of the policy *)

Deciding(k) == clerks[k].pc \in {"approving", "rejecting"}

OneDecides == \A k, l \in Clerks : Deciding(k) /\ Deciding(l) => k = l

\* Two requests are not at work on one proposal.
OneHolder ==
    \A k, l \in Clerks :
        clerks[k].proposal # None /\ clerks[k].proposal = clerks[l].proposal => k = l

PolicyReadIsCurrent(q) ==
    /\ q.pc # "idle" => q.proposal \in Proposals /\ q.actor \in Actors
    /\ q.pc \in {"seen", "checked"} =>
          /\ proposals[q.proposal] = None
          /\ q.expected <= package.version
    /\ q.pc \in {"approving", "rejecting"} =>
          /\ q.proposal \in Policy!Pending
          /\ proposals[q.proposal].proposer # q.actor
          /\ q.expected = package.version
          /\ proposals[q.proposal].expected = package.version

PolicyReadsAreCurrent == \A k \in Clerks : PolicyReadIsCurrent(clerks[k])

\* Until it is decided a proposal has no reviewer.
PolicyReviewers ==
    \A q \in Proposals : proposals[q] # None =>
        /\ proposals[q].expected <= package.version
        /\ proposals[q].status # "pending_review" => proposals[q].reviewer \in Actors

PolicyInv == /\ Policy!TypeOK /\ OneDecides /\ OneHolder /\ PolicyReadsAreCurrent
             /\ PolicyReviewers /\ Policy!OneApprovalPerVersion

-----------------------------------------------------------------------------
(* The invariant of the plans *)

\* The columns of the case and of its package are locked by one transaction at most.
HoldsContext(q) == q.pc \in {"proposing", "approving", "rejecting"}

ContextAlone ==
    /\ \A d, e \in Desks : HoldsContext(desks[d]) /\ HoldsContext(desks[e]) => d = e
    /\ \A d \in Desks, k \in Clerks : HoldsContext(desks[d]) => ~ Deciding(k)

\* A plan that exists is locked by one request at most.
PlansAlone ==
    \A d, e \in Desks :
        /\ desks[d].plan # None /\ desks[d].plan = desks[e].plan
        /\ desks[d].pc # "proposing" /\ desks[e].pc # "proposing"
        => d = e

\* An entry, and a payment that is refunded, is booked by one request at most.
EventsAlone ==
    \A d, e \in Desks :
        /\ desks[d].event # None /\ desks[e].event # None
        /\ \/ desks[d].event = desks[e].event
           \/ /\ desks[d].event \in Refunds /\ desks[e].event \in Refunds
              /\ Original[desks[d].event] = Original[desks[e].event]
        => d = e

\* What a request knows at each of its steps.
IdleSound(q) == q.pc = "idle" => q.plan = None /\ q.event = None

ProposingSound(q) ==
    q.pc = "proposing" =>
        /\ q.plan \in Plans /\ q.actor \in Actors /\ q.event = None
        /\ plans[q.plan] = None

DecidingSound(q) ==
    q.pc \in {"opened", "approving", "rejecting"} =>
        /\ q.plan \in Plans /\ q.actor \in Actors /\ q.event = None
        /\ q.wants \in {"approving", "rejecting"}
        /\ plans[q.plan] # None
        /\ plans[q.plan].status = "pending_review"
        /\ plans[q.plan].proposer # q.actor

ApprovingSound(q) ==
    q.pc = "approving" => ~ case.blocked /\ package.version = plans[q.plan].policy

\* The payment a refund takes back has room for it.
EventSound(e) ==
    /\ e \notin Posted
    /\ e \in Refunds =>
          /\ Original[e] \in Posted
          /\ Amount[e] + Total(Amount, RefundsOf(Original[e])) <= Amount[Original[e]]

BookingSound(q) ==
    q.pc = "booking" =>
        /\ q.plan = None
        /\ q.event \in Events
        /\ \A e \in Events : q.event = e => EventSound(e)
        /\ q.event \in Payments => q.seen \in Case

PostingSound(q) ==
    q.pc = "posting" =>
        /\ q.event \in Events
        /\ q.seen \in Case
        /\ \A e \in Events, p \in Plans \cup {None} :
              q.event = e /\ q.plan = p =>
                  /\ EventSound(e)
                  /\ q.cents = Allocation(e, p)
                  /\ p # None => p \in InForce /\ q.after = PaidAfter(e, p)
                  /\ e \in Refunds => p = shares[Original[e]].plan

\* While a refund holds the lock of a plan no one takes the case for settled.
SeenSound(q) ==
    q.pc = "posting" /\ q.event \in Refunds /\ q.plan # None =>
        case = q.seen \/ case.blocked \/ case.status # "settled"

DeskSound(q) ==
    /\ IdleSound(q) /\ ProposingSound(q) /\ DecidingSound(q) /\ ApprovingSound(q)
    /\ BookingSound(q) /\ PostingSound(q) /\ SeenSound(q)

DesksSound == \A d \in Desks : DeskSound(desks[d])

\* What is allocated to no plan is nothing; what is allocated to a plan is in force, and a
\* refund is allocated to the plan of its payment.
ShareSound(e) ==
    /\ shares[e].plan # None => shares[e].plan \in InForce
    /\ shares[e].plan = None => shares[e].cents = Zero
    /\ e \in Refunds => /\ Original[e] \in Posted
                        /\ shares[e].plan \in {None, shares[Original[e]].plan}

SharesSound == IsFiniteSet(Posted) /\ \A e \in Posted : ShareSound(e)

PaymentsOf(p) == {e \in Posted \cap Payments : shares[e].plan = p}

Nets(p, k) == [e \in PaymentsOf(p) |-> Refundable(e)[k]]

\* What an installment shows as paid is what refunds left of the payments of the plan.
PlanNet ==
    \A p \in Plans, k \in Installments :
        paid[p][k] = Total(Nets(p, k), PaymentsOf(p))

Money == PaidIsAllocated /\ PlanNet /\ NetShareCovered

NewPlansUnpaid == \A p \in Plans \ InForce : paid[p] = Zero

Standing == OnePlanPerCase /\ CompletedWhenPaid /\ SettledMeansPaid /\ NewPlansUnpaid

Inv == /\ TypeOK /\ PolicyInv /\ ContextAlone /\ PlansAlone /\ EventsAlone /\ DesksSound
       /\ SharesSound /\ Money /\ Standing

-----------------------------------------------------------------------------
(* The policy: types and the initial state *)

LEMMA PolicyCounts ==
    ASSUME NEW S
    PROVE  /\ Policy!Cardinality(S) = Cardinality(S)
           /\ Policy!IsFiniteSet(S) <=> IsFiniteSet(S)
BY DEF Policy!Cardinality, Cardinality, Policy!IsFiniteSet, IsFiniteSet

LEMMA VersionsRange ==
    ASSUME Policy!PolicyAssumption
    PROVE  /\ Cardinality(Proposals) \in Nat
           /\ Policy!Versions \subseteq Nat
           /\ 1 \in Policy!Versions
BY FS_CardinalityType, PolicyCounts DEF Policy!PolicyAssumption, Policy!Versions

LEMMA PolicyIdleType == ASSUME Policy!PolicyAssumption PROVE Policy!IdleClerk \in Policy!Clerk
BY VersionsRange DEF Policy!IdleClerk, Policy!Clerk

LEMMA ApprovedFinite ==
    ASSUME Policy!PolicyAssumption
    PROVE  /\ IsFiniteSet(Policy!Approved)
           /\ Cardinality(Policy!Approved) \in Nat
           /\ Cardinality(Policy!Approved) <= Cardinality(Proposals)
<1>1. Policy!Approved \subseteq Proposals
  BY DEF Policy!Approved
<1> QED
  BY <1>1, FS_Subset, FS_CardinalityType, PolicyCounts DEF Policy!PolicyAssumption

LEMMA PolicyInitInv == ASSUME Policy!PolicyAssumption PROVE Policy!Init => PolicyInv
<1> SUFFICES ASSUME Policy!Init PROVE PolicyInv
  OBVIOUS
<1>1. Policy!TypeOK
  BY VersionsRange, PolicyIdleType DEF Policy!Init, Policy!TypeOK, Policy!Package, Policy!Terms
<1>2. OneDecides /\ OneHolder /\ PolicyReadsAreCurrent
  BY DEF Policy!Init, OneDecides, Deciding, OneHolder, PolicyReadsAreCurrent,
       PolicyReadIsCurrent, Policy!IdleClerk
<1>3. PolicyReviewers
  BY DEF Policy!Init, PolicyReviewers
<1>4. Policy!OneApprovalPerVersion
  <2>1. Policy!Approved = {}
    BY DEF Policy!Init, Policy!Approved
  <2> QED
    BY <2>1, FS_EmptySet, PolicyCounts DEF Policy!Init, Policy!OneApprovalPerVersion
<1> QED
  BY <1>1, <1>2, <1>3, <1>4 DEF PolicyInv

-----------------------------------------------------------------------------
(* The policy: requests that change nothing but what they have read *)

\* A request whose new read is true, and which enters alone where only one may be.
LEMMA ClerkInv ==
    ASSUME Policy!PolicyAssumption, PolicyInv, NEW k \in Clerks, NEW q \in Policy!Clerk,
           UNCHANGED <<package, proposals>>, clerks' = [clerks EXCEPT ![k] = q],
           PolicyReadIsCurrent(q),
           q.proposal \in {None, clerks[k].proposal} \/ ~ Policy!Held(q.proposal),
           q.pc \in {"approving", "rejecting"} => Deciding(k) \/ Policy!PackageUnlocked
    PROVE  PolicyInv'
<1>1. \A l \in Clerks : clerks'[l] = IF l = k THEN q ELSE clerks[l]
  BY DEF PolicyInv, Policy!TypeOK
<1>2. Policy!TypeOK'
  BY DEF PolicyInv, Policy!TypeOK
<1>3. OneDecides'
  BY <1>1 DEF PolicyInv, OneDecides, Deciding, Policy!PackageUnlocked
<1>4. OneHolder'
  BY <1>1 DEF PolicyInv, OneHolder, Policy!Held
<1>5. \A l \in Clerks : PolicyReadIsCurrent(clerks'[l])
  BY <1>1 DEF PolicyInv, PolicyReadsAreCurrent
<1>6. PolicyReadsAreCurrent'
  BY <1>5 DEF PolicyReadsAreCurrent, PolicyReadIsCurrent, Policy!Pending
<1>7. PolicyReviewers' /\ Policy!OneApprovalPerVersion'
  BY DEF PolicyInv, PolicyReviewers, Policy!OneApprovalPerVersion, Policy!Approved
<1> QED
  BY <1>2, <1>3, <1>4, <1>6, <1>7 DEF PolicyInv

LEMMA IdleIsCurrent == PolicyReadIsCurrent(Policy!IdleClerk)
BY DEF PolicyReadIsCurrent, Policy!IdleClerk

LEMMA CreateReadsInv ==
    ASSUME Policy!PolicyAssumption, PolicyInv,
           NEW k \in Clerks, NEW a \in Actors, NEW q \in Proposals,
           Policy!CreateReads(k, a, q)
    PROVE  PolicyInv'
<1> DEFINE new == [pc |-> "seen", proposal |-> q, actor |-> a, expected |-> package.version]
<1>1. new \in Policy!Clerk /\ package.version \in Nat
  BY VersionsRange DEF PolicyInv, Policy!TypeOK, Policy!Package, Policy!Clerk
<1>2. PolicyReadIsCurrent(new)
  BY <1>1 DEF PolicyReadIsCurrent, Policy!CreateReads
<1> QED
  BY <1>1, <1>2, ClerkInv DEF Policy!CreateReads

LEMMA PolicyDecideReadsInv ==
    ASSUME Policy!PolicyAssumption, PolicyInv,
           NEW k \in Clerks, NEW a \in Actors, NEW q \in Proposals,
           NEW pc \in {"approving", "rejecting"}, Policy!DecideReads(k, a, q, pc)
    PROVE  PolicyInv'
<1> DEFINE new == [pc |-> pc, proposal |-> q, actor |-> a, expected |-> package.version]
<1>1. new \in Policy!Clerk
  BY DEF PolicyInv, Policy!TypeOK, Policy!Package, Policy!Clerk
<1>2. PolicyReadIsCurrent(new)
  BY DEF PolicyReadIsCurrent, Policy!DecideReads, Policy!MayDecide
<1> QED
  BY <1>1, <1>2, ClerkInv DEF Policy!DecideReads

LEMMA CreateChecksInv ==
    ASSUME Policy!PolicyAssumption, PolicyInv, NEW k \in Clerks, Policy!CreateChecks(k)
    PROVE  PolicyInv'
<1> DEFINE old == clerks[k]
           new == [old EXCEPT !.pc = "checked"]
<1>1. /\ old.pc = "seen" /\ old \in Policy!Clerk /\ PolicyReadIsCurrent(old)
      /\ UNCHANGED <<package, proposals>>
      /\ \/ clerks' = [clerks EXCEPT ![k] = new]
         \/ clerks' = [clerks EXCEPT ![k] = Policy!IdleClerk]
  BY DEF Policy!CreateChecks, PolicyInv, Policy!TypeOK, PolicyReadsAreCurrent
<1>2. /\ new \in Policy!Clerk /\ new.pc = "checked" /\ new.proposal = old.proposal
      /\ new.expected = old.expected /\ new.actor = old.actor
  BY <1>1 DEF Policy!Clerk
<1>3. PolicyReadIsCurrent(new)
  BY <1>1, <1>2 DEF PolicyReadIsCurrent
<1>4. /\ Policy!IdleClerk \in Policy!Clerk
      /\ Policy!IdleClerk.proposal = None /\ Policy!IdleClerk.pc = "idle"
  BY PolicyIdleType DEF Policy!IdleClerk
<1> HIDE DEF new
<1> QED
  BY <1>1, <1>2, <1>3, <1>4, IdleIsCurrent, ClerkInv

LEMMA ClerkDiesInv ==
    ASSUME Policy!PolicyAssumption, PolicyInv, NEW k \in Clerks, Policy!ClerkDies(k)
    PROVE  PolicyInv'
<1>1. /\ Policy!IdleClerk \in Policy!Clerk
      /\ Policy!IdleClerk.proposal = None /\ Policy!IdleClerk.pc = "idle"
  BY PolicyIdleType DEF Policy!IdleClerk
<1> QED
  BY <1>1, IdleIsCurrent, ClerkInv DEF Policy!ClerkDies

-----------------------------------------------------------------------------
(* The policy: commits *)

\* A new proposal is pending, at a version that is not in the future.
LEMMA CreateCommitsInv ==
    ASSUME Policy!PolicyAssumption, Policy!NoneIsNoRow, PolicyInv,
           NEW k \in Clerks, Policy!CreateCommits(k)
    PROVE  PolicyInv'
<1> DEFINE c == clerks[k]
           p == c.proposal
           row == [status |-> "pending_review", expected |-> c.expected,
                   proposer |-> c.actor, reviewer |-> None]
<1>1. /\ c.pc = "checked" /\ c \in Policy!Clerk /\ p \in Proposals /\ c.actor \in Actors
      /\ proposals[p] = None /\ c.expected <= package.version
      /\ proposals' = [proposals EXCEPT ![p] = row]
      /\ clerks' = [clerks EXCEPT ![k] = Policy!IdleClerk]
      /\ UNCHANGED package
  BY DEF Policy!CreateCommits, PolicyInv, Policy!TypeOK, PolicyReadsAreCurrent,
       PolicyReadIsCurrent
<1>2. row \in Policy!Proposal /\ row # None
  BY <1>1 DEF Policy!Proposal, Policy!Clerk, Policy!PolicyAssumption, Policy!NoneIsNoRow
<1> HIDE DEF c, p, row
<1>3. \A q \in Proposals : proposals'[q] = IF q = p THEN row ELSE proposals[q]
  BY <1>1 DEF PolicyInv, Policy!TypeOK
<1>4. \A l \in Clerks : clerks'[l] = IF l = k THEN Policy!IdleClerk ELSE clerks[l]
  BY <1>1 DEF PolicyInv, Policy!TypeOK
<1>5. Policy!TypeOK'
  BY <1>1, <1>2, PolicyIdleType DEF PolicyInv, Policy!TypeOK
<1>6. OneDecides' /\ OneHolder'
  BY <1>4 DEF PolicyInv, OneDecides, OneHolder, Deciding, Policy!IdleClerk
<1>7. row.status = "pending_review" /\ row.expected = c.expected
  BY DEF row
<1>8. PolicyReviewers'
  BY <1>1, <1>2, <1>3, <1>7 DEF PolicyInv, PolicyReviewers
<1>9. Policy!Approved' = Policy!Approved
  BY <1>1, <1>2, <1>3, <1>7 DEF Policy!Approved
<1>10. Policy!OneApprovalPerVersion'
  <2>1. \A q \in Policy!Approved : proposals'[q] = proposals[q]
    BY <1>1, <1>3 DEF Policy!Approved
  <2> QED
    BY <1>1, <1>9, <2>1 DEF PolicyInv, Policy!OneApprovalPerVersion
<1>11. ASSUME NEW l \in Clerks PROVE PolicyReadIsCurrent(clerks[l])'
  <2>1. CASE l = k
    BY <1>4, <2>1 DEF PolicyReadIsCurrent, Policy!IdleClerk
  <2>2. CASE l # k
    <3>1. clerks'[l] = clerks[l] /\ PolicyReadIsCurrent(clerks[l])
      BY <1>4, <2>2 DEF PolicyInv, PolicyReadsAreCurrent
    <3>2. clerks[l].proposal # p
      BY <1>1, <2>2 DEF PolicyInv, OneHolder, c, p, Policy!PolicyAssumption
    <3>3. clerks[l].pc # "idle" => proposals'[clerks[l].proposal] = proposals[clerks[l].proposal]
      BY <1>3, <3>1, <3>2 DEF PolicyReadIsCurrent
    <3> QED
      BY <1>1, <3>1, <3>3 DEF PolicyReadIsCurrent, Policy!Pending, PolicyInv, Policy!TypeOK,
           Policy!Clerk
  <2> QED
    BY <2>1, <2>2
<1> QED
  BY <1>5, <1>6, <1>8, <1>10, <1>11 DEF PolicyInv, PolicyReadsAreCurrent

\* What a decision writes, and what it leaves.
LEMMA PolicyDecidedRow ==
    ASSUME Policy!PolicyAssumption, Policy!NoneIsNoRow, PolicyInv,
           NEW k \in Clerks, Policy!DecideCommits(k)
    PROVE  \E p \in Proposals, a \in Actors :
             /\ p = clerks[k].proposal /\ a = clerks[k].actor /\ Deciding(k)
             /\ p \in Policy!Pending /\ proposals[p] \in Policy!Proposal
             /\ proposals[p].proposer \in Actors \ {a}
             /\ clerks[k].expected = package.version /\ proposals[p].expected = package.version
             /\ proposals'[p] \in Policy!Proposal /\ proposals'[p] # None
             /\ proposals'[p].status =
                    IF clerks[k].pc = "approving" THEN "approved" ELSE "rejected"
             /\ proposals'[p].reviewer = a
             /\ proposals'[p].proposer = proposals[p].proposer
             /\ proposals'[p].expected = proposals[p].expected
             /\ \A r \in Proposals \ {p} : proposals'[r] = proposals[r]
<1> DEFINE c == clerks[k]
           p == c.proposal
<1>1. /\ c.pc \in {"approving", "rejecting"} /\ p \in Proposals /\ c.actor \in Actors
      /\ p \in Policy!Pending /\ proposals[p].proposer # c.actor
      /\ c.expected = package.version /\ proposals[p].expected = package.version
  BY DEF Policy!DecideCommits, PolicyInv, PolicyReadsAreCurrent, PolicyReadIsCurrent
<1>2. proposals[p] \in Policy!Proposal
  BY <1>1 DEF PolicyInv, Policy!TypeOK, Policy!Pending
<1> DEFINE st == IF c.pc = "approving" THEN "approved" ELSE "rejected"
           new == [proposals[p] EXCEPT !.status = st, !.reviewer = c.actor]
<1>3. proposals[p].proposer \in Actors
  BY <1>2 DEF Policy!Proposal
<1>4. proposals' = [proposals EXCEPT ![p] = new]
  BY DEF Policy!DecideCommits
<1>5. /\ new \in Policy!Proposal /\ new # None
      /\ new.status = st /\ new.reviewer = c.actor
      /\ new.proposer = proposals[p].proposer /\ new.expected = proposals[p].expected
  <2>1. st \in {"approved", "rejected"}
    OBVIOUS
  <2> HIDE DEF st, p, c
  <2>2. proposals[p] \in [status   : {"pending_review", "approved", "rejected"},
                          expected : Policy!Versions,
                          proposer : Actors,
                          reviewer : Actors \cup {None}]
    BY <1>2 DEF Policy!Proposal
  <2>3. /\ new \in [status   : {"pending_review", "approved", "rejected"},
                   expected : Policy!Versions,
                   proposer : Actors,
                   reviewer : Actors \cup {None}]
        /\ new.status = st /\ new.reviewer = c.actor
        /\ new.proposer = proposals[p].proposer /\ new.expected = proposals[p].expected
    BY <1>1, <2>1, <2>2
  <2> HIDE DEF new
  <2>4. new \in Policy!Proposal
    BY <1>1, <2>3 DEF Policy!Proposal
  <2> QED
    BY <2>3, <2>4 DEF Policy!NoneIsNoRow
<1> HIDE DEF new
<1>6. proposals'[p] = new /\ \A r \in Proposals \ {p} : proposals'[r] = proposals[r]
  BY <1>1, <1>4 DEF PolicyInv, Policy!TypeOK
<1> QED
  BY <1>1, <1>2, <1>3, <1>5, <1>6 DEF Deciding

LEMMA PolicyDecideCommitsInv ==
    ASSUME Policy!PolicyAssumption, Policy!NoneIsNoRow, PolicyInv,
           NEW k \in Clerks, Policy!DecideCommits(k)
    PROVE  PolicyInv'
<1> PICK p \in Proposals, a \in Actors :
             /\ p = clerks[k].proposal /\ a = clerks[k].actor /\ Deciding(k)
             /\ p \in Policy!Pending /\ proposals[p] \in Policy!Proposal
             /\ proposals[p].proposer \in Actors \ {a}
             /\ clerks[k].expected = package.version /\ proposals[p].expected = package.version
             /\ proposals'[p] \in Policy!Proposal /\ proposals'[p] # None
             /\ proposals'[p].status =
                    IF clerks[k].pc = "approving" THEN "approved" ELSE "rejected"
             /\ proposals'[p].reviewer = a
             /\ proposals'[p].proposer = proposals[p].proposer
             /\ proposals'[p].expected = proposals[p].expected
             /\ \A r \in Proposals \ {p} : proposals'[r] = proposals[r]
  BY PolicyDecidedRow
<1> DEFINE approves == clerks[k].pc = "approving"
<1>1. /\ package' = IF approves THEN [version |-> package.version + 1, terms |-> TermsOf[p]]
                    ELSE package
      /\ clerks' = [clerks EXCEPT ![k] = Policy!IdleClerk]
      /\ proposals' = [q \in Proposals |-> proposals'[q]]
  BY DEF Policy!DecideCommits, PolicyInv, Policy!TypeOK
<1>2. p \notin Policy!Approved /\ proposals[p] # None
  BY DEF Policy!Pending, Policy!Approved
<1>3. Policy!Approved' = IF approves THEN Policy!Approved \cup {p} ELSE Policy!Approved
  BY <1>2 DEF Policy!Approved
<1>4. /\ IsFiniteSet(Policy!Approved) /\ Cardinality(Policy!Approved) \in Nat
      /\ package.version = 1 + Cardinality(Policy!Approved)
      /\ Cardinality(Policy!Approved') = IF approves THEN Cardinality(Policy!Approved) + 1
                                  ELSE Cardinality(Policy!Approved)
  BY <1>2, <1>3, ApprovedFinite, FS_AddElement, PolicyCounts
     DEF PolicyInv, Policy!OneApprovalPerVersion
<1>5. Cardinality(Policy!Approved') <= Cardinality(Proposals)
  <2>1. Policy!Approved' \subseteq Proposals
    BY DEF Policy!Approved
  <2> QED
    BY <2>1, FS_Subset, PolicyCounts DEF Policy!PolicyAssumption
<1>6. package'.version = 1 + Cardinality(Policy!Approved')
  BY <1>1, <1>4
<1>7. package' \in Policy!Package
  <2>1. package'.version \in Policy!Versions
    BY <1>4, <1>5, <1>6, VersionsRange, PolicyCounts DEF Policy!Versions
  <2>2. CASE approves
    BY <1>1, <2>1, <2>2 DEF Policy!Package, Policy!Terms
  <2>3. CASE ~ approves
    BY <1>1, <2>3 DEF PolicyInv, Policy!TypeOK
  <2> QED
    BY <2>2, <2>3
<1>8. Policy!TypeOK'
  BY <1>1, <1>7, PolicyIdleType DEF PolicyInv, Policy!TypeOK
<1>9. \A l \in Clerks : clerks'[l] = IF l = k THEN Policy!IdleClerk ELSE clerks[l]
  BY <1>1 DEF PolicyInv, Policy!TypeOK
<1>10. OneDecides' /\ OneHolder'
  BY <1>9 DEF PolicyInv, OneDecides, OneHolder, Deciding, Policy!IdleClerk
<1>11. /\ package.version \in Nat /\ package'.version \in Nat
       /\ package.version <= package'.version
       /\ approves => package'.version = package.version + 1 /\ package'.terms = TermsOf[p]
       /\ ~ approves => package' = package
  BY <1>1, <1>4
<1>12. \A q \in Proposals : proposals[q] # None => proposals[q].expected \in Nat
  BY VersionsRange DEF PolicyInv, Policy!TypeOK, Policy!Proposal
<1>13. PolicyReviewers'
  <2>1. ASSUME NEW q \in Proposals, proposals'[q] # None
        PROVE  /\ proposals'[q].expected <= package'.version
               /\ proposals'[q].status # "pending_review" => proposals'[q].reviewer \in Actors
    <3>1. CASE q = p
      BY <1>11, <3>1
    <3>2. CASE q # p
      BY <1>11, <1>12, <2>1, <3>2 DEF PolicyInv, PolicyReviewers
    <3> QED
      BY <3>1, <3>2
  <2> QED
    BY <2>1 DEF PolicyReviewers
<1>14. Policy!OneApprovalPerVersion'
  <2>1. \A q \in Policy!Approved :
          /\ q \in Proposals \ {p} /\ proposals'[q] = proposals[q]
          /\ proposals[q].expected \in Nat /\ proposals[q].expected < package.version
    BY <1>2, <1>12 DEF PolicyInv, Policy!OneApprovalPerVersion, Policy!Approved
  <2>2. CASE approves
    <3>1. \A q \in Policy!Approved' : proposals'[q].expected < package'.version
      BY <1>3, <1>11, <2>1, <2>2
    <3>2. \A q \in Policy!Approved' : proposals'[q].expected + 1 = package'.version => q = p
      BY <1>3, <1>11, <2>1, <2>2
    <3>3. \A q, r \in Policy!Approved' : proposals'[q].expected = proposals'[r].expected => q = r
      BY <1>3, <1>11, <2>1, <2>2 DEF PolicyInv, Policy!OneApprovalPerVersion
    <3> QED
      BY <1>6, <1>11, <2>2, <3>1, <3>2, <3>3, PolicyCounts DEF Policy!OneApprovalPerVersion
  <2>3. CASE ~ approves
    BY <1>3, <1>6, <1>11, <2>1, <2>3, PolicyCounts DEF PolicyInv, Policy!OneApprovalPerVersion
  <2> QED
    BY <2>2, <2>3
<1>15. ASSUME NEW l \in Clerks PROVE PolicyReadIsCurrent(clerks[l])'
  <2>1. CASE l = k
    BY <1>9, <2>1 DEF PolicyReadIsCurrent, Policy!IdleClerk
  <2>2. CASE l # k
    <3>1. clerks'[l] = clerks[l] /\ PolicyReadIsCurrent(clerks[l]) /\ ~ Deciding(l)
      BY <1>9, <2>2 DEF PolicyInv, PolicyReadsAreCurrent, OneDecides
    <3>2. clerks[l].proposal # p
      BY <2>2 DEF PolicyInv, OneHolder, Policy!PolicyAssumption
    <3>3. /\ clerks[l].expected \in Nat
          /\ clerks[l].pc \in {"idle", "seen", "checked", "approving", "rejecting"}
      BY VersionsRange DEF PolicyInv, Policy!TypeOK, Policy!Clerk
    <3> QED
      BY <1>11, <3>1, <3>2, <3>3 DEF PolicyReadIsCurrent, Deciding
  <2> QED
    BY <2>1, <2>2
<1> QED
  BY <1>8, <1>10, <1>13, <1>14, <1>15 DEF PolicyInv, PolicyReadsAreCurrent

LEMMA PolicyNextInv ==
    ASSUME Policy!PolicyAssumption, Policy!NoneIsNoRow
    PROVE  PolicyInv /\ [Policy!Next]_(Policy!vars) => PolicyInv'
<1> SUFFICES ASSUME PolicyInv, [Policy!Next]_(Policy!vars) PROVE PolicyInv'
  OBVIOUS
<1>1. CASE UNCHANGED Policy!vars
  BY <1>1 DEF Policy!vars, PolicyInv, Policy!TypeOK, OneDecides, Deciding, OneHolder,
       PolicyReadsAreCurrent, PolicyReadIsCurrent,
              PolicyReviewers, Policy!OneApprovalPerVersion, Policy!Approved, Policy!Pending
<1>2. CASE Policy!Next
  BY <1>2, CreateReadsInv, PolicyDecideReadsInv, CreateChecksInv, CreateCommitsInv,
       PolicyDecideCommitsInv,
     ClerkDiesInv DEF Policy!Next
<1> QED
  BY <1>1, <1>2

LEMMA PolicyInvariance ==
    ASSUME Policy!PolicyAssumption, Policy!NoneIsNoRow
    PROVE  Policy!Spec => []PolicyInv
BY PolicyInitInv, PolicyNextInv, PTL DEF Policy!Spec

\* Every version of the policy after the first is the work of exactly one approved proposal, and
\* the last of them is in force, however many proposals are made and decided at once.
THEOREM EachVersionApprovedOnce ==
    ASSUME Policy!PolicyAssumption, Policy!NoneIsNoRow
    PROVE  Policy!Spec => []Policy!OneApprovalPerVersion
BY PolicyInvariance, PTL DEF PolicyInv

-----------------------------------------------------------------------------
(* The policy: proposals implement MakerChecker *)

\* The three columns of the refinement mapping.
PolicyStaged == [q \in Proposals |-> Policy!Stage(q)]
PolicyMaker ==
    [q \in Proposals |-> IF Policy!Stage(q) = "open" THEN None ELSE proposals[q].proposer]
PolicyChecker ==
    [q \in Proposals |-> IF Policy!Stage(q) = "effective" THEN proposals[q].reviewer ELSE None]

\* What the mapping shows of every proposal but p stays as it was.
LEMMA PolicyOnlyOne ==
    ASSUME NEW p \in Proposals, \A q \in Proposals \ {p} : proposals'[q] = proposals[q]
    PROVE  /\ PolicyStaged' = [PolicyStaged EXCEPT ![p] = Policy!Stage(p)']
           /\ PolicyMaker' = [PolicyMaker EXCEPT ![p] = PolicyMaker'[p]]
           /\ PolicyChecker' = [PolicyChecker EXCEPT ![p] = PolicyChecker'[p]]
<1>1. \A q \in Proposals \ {p} : Policy!Stage(q)' = Policy!Stage(q)
  BY DEF Policy!Stage, Policy!Pending, Policy!Approved
<1> QED
  BY <1>1 DEF PolicyStaged, PolicyMaker, PolicyChecker

LEMMA SameProposals == ASSUME UNCHANGED proposals PROVE UNCHANGED Policy!Review!vars
<1>1. \A q \in Proposals : Policy!Stage(q)' = Policy!Stage(q)
  BY DEF Policy!Stage, Policy!Pending, Policy!Approved
<1>2. UNCHANGED <<PolicyStaged, PolicyMaker, PolicyChecker>>
  BY <1>1 DEF PolicyStaged, PolicyMaker, PolicyChecker
<1> QED
  BY <1>2 DEF Policy!Review!vars, PolicyStaged, PolicyMaker, PolicyChecker

LEMMA PolicyInitReview == Policy!Init => Policy!Review!Init
<1> SUFFICES ASSUME Policy!Init PROVE Policy!Review!Init
  OBVIOUS
<1>1. \A q \in Proposals : Policy!Stage(q) = "open"
  BY DEF Policy!Init, Policy!Stage, Policy!Pending, Policy!Approved
<1> QED
  BY <1>1 DEF Policy!Review!Init

LEMMA CreateIsPropose ==
    ASSUME Policy!PolicyAssumption, Policy!NoneIsNoRow, PolicyInv,
           NEW k \in Clerks, Policy!CreateCommits(k)
    PROVE  Policy!Review!Next
<1> PICK p \in Proposals, a \in Actors : p = clerks[k].proposal /\ a = clerks[k].actor
  BY DEF Policy!CreateCommits, PolicyInv, PolicyReadsAreCurrent, PolicyReadIsCurrent
<1> DEFINE row == [status |-> "pending_review", expected |-> clerks[k].expected,
                   proposer |-> a, reviewer |-> None]
<1>1. /\ proposals[p] = None
      /\ proposals' = [proposals EXCEPT ![p] = row]
  BY DEF Policy!CreateCommits, PolicyInv, PolicyReadsAreCurrent, PolicyReadIsCurrent
<1>2. row # None
  BY DEF PolicyInv, Policy!TypeOK, Policy!Clerk, Policy!Proposal, Policy!NoneIsNoRow,
       Policy!PolicyAssumption
<1>3. /\ Policy!Stage(p) = "open" /\ Policy!Stage(p)' = "pending" /\ proposals'[p].proposer = a
      /\ \A q \in Proposals \ {p} : proposals'[q] = proposals[q]
  BY <1>1, <1>2 DEF Policy!Stage, Policy!Pending, Policy!Approved, PolicyInv, Policy!TypeOK
<1>4. /\ PolicyStaged[p] = "open"
      /\ PolicyStaged' = [PolicyStaged EXCEPT ![p] = "pending"]
      /\ PolicyMaker' = [PolicyMaker EXCEPT ![p] = a]
      /\ PolicyChecker' = PolicyChecker
  BY <1>3, PolicyOnlyOne DEF PolicyStaged, PolicyMaker, PolicyChecker
<1>5. Policy!Review!Propose(p, a)
  BY <1>4 DEF Policy!Review!Propose, PolicyStaged, PolicyMaker, PolicyChecker
<1> QED
  BY <1>5 DEF Policy!Review!Next

LEMMA PolicyDecisionIsDecision ==
    ASSUME Policy!PolicyAssumption, Policy!NoneIsNoRow, PolicyInv,
           NEW k \in Clerks, Policy!DecideCommits(k)
    PROVE  Policy!Review!Next
<1> PICK p \in Proposals, a \in Actors :
             /\ p \in Policy!Pending /\ proposals[p].proposer \in Actors \ {a}
             /\ proposals'[p] # None
             /\ proposals'[p].status =
                    IF clerks[k].pc = "approving" THEN "approved" ELSE "rejected"
             /\ proposals'[p].reviewer = a
             /\ proposals'[p].proposer = proposals[p].proposer
             /\ \A r \in Proposals \ {p} : proposals'[r] = proposals[r]
  BY PolicyDecidedRow
<1>1. /\ Policy!Stage(p) = "pending" /\ PolicyStaged[p] = "pending"
      /\ PolicyMaker[p] = proposals[p].proposer
  BY DEF Policy!Stage, PolicyStaged, PolicyMaker
<1>2. CASE clerks[k].pc # "approving"
  <2>1. Policy!Stage(p)' = "open"
    BY <1>2 DEF Policy!Stage, Policy!Pending, Policy!Approved
  <2>2. /\ PolicyStaged' = [PolicyStaged EXCEPT ![p] = "open"]
        /\ PolicyMaker' = [PolicyMaker EXCEPT ![p] = None]
        /\ PolicyChecker' = PolicyChecker
    BY <1>1, <2>1, PolicyOnlyOne DEF PolicyStaged, PolicyMaker, PolicyChecker
  <2>3. Policy!Review!Return(p)
    BY <1>1, <2>2 DEF Policy!Review!Return, PolicyStaged, PolicyMaker, PolicyChecker
  <2> QED
    BY <2>3 DEF Policy!Review!Next
<1>3. CASE clerks[k].pc = "approving"
  <2>1. Policy!Stage(p)' = "effective"
    BY <1>3 DEF Policy!Stage, Policy!Pending, Policy!Approved
  <2>2. /\ PolicyStaged'[p] = "effective" /\ PolicyChecker'[p] = a
        /\ PolicyMaker'[p] = PolicyMaker[p]
    BY <1>1, <2>1 DEF PolicyStaged, PolicyMaker, PolicyChecker
  <2>3. /\ PolicyStaged' = [PolicyStaged EXCEPT ![p] = "effective"]
        /\ PolicyChecker' = [PolicyChecker EXCEPT ![p] = a]
        /\ PolicyMaker' = PolicyMaker
    <3>1. /\ PolicyStaged' = [PolicyStaged EXCEPT ![p] = Policy!Stage(p)']
          /\ PolicyMaker' = [PolicyMaker EXCEPT ![p] = PolicyMaker'[p]]
          /\ PolicyChecker' = [PolicyChecker EXCEPT ![p] = PolicyChecker'[p]]
      BY PolicyOnlyOne
    <3>2. PolicyMaker = [q \in Proposals |-> PolicyMaker[q]]
      BY DEF PolicyMaker
    <3> QED
      BY <2>1, <2>2, <3>1, <3>2
  <2>4. a # PolicyMaker[p]
    BY <1>1
  <2>5. Policy!Review!Approve(p, a)
    BY <1>1, <2>3, <2>4 DEF Policy!Review!Approve, PolicyStaged, PolicyMaker, PolicyChecker
  <2> QED
    BY <2>5 DEF Policy!Review!Next
<1> QED
  BY <1>2, <1>3

LEMMA PolicyNextReview ==
    ASSUME Policy!PolicyAssumption, Policy!NoneIsNoRow
    PROVE  PolicyInv /\ [Policy!Next]_(Policy!vars) => [Policy!Review!Next]_(Policy!Review!vars)
<1> SUFFICES ASSUME PolicyInv, [Policy!Next]_(Policy!vars)
             PROVE  [Policy!Review!Next]_(Policy!Review!vars)
  OBVIOUS
<1>1. \/ UNCHANGED proposals
      \/ \E k \in Clerks : Policy!CreateCommits(k) \/ Policy!DecideCommits(k)
  BY DEF Policy!Next, Policy!vars, Policy!CreateReads, Policy!CreateChecks, Policy!DecideReads,
       Policy!ClerkDies
<1> QED
  BY <1>1, SameProposals, CreateIsPropose, PolicyDecisionIsDecision

\* A change of the policy is a reviewed change: one person proposes it, another approves that
\* proposal, and what was approved stays so.
THEOREM PolicyTakesTwo ==
    ASSUME Policy!PolicyAssumption, Policy!NoneIsNoRow
    PROVE  Policy!Spec => Policy!PolicyIsReviewed
BY PolicyInvariance, PolicyInitReview, PolicyNextReview, PTL DEF Policy!Spec,
     Policy!PolicyIsReviewed, Policy!Review!Spec

-----------------------------------------------------------------------------
(* What an entry takes of the installments *)

\* Of the constants.
Given == PlanAssumption /\ Policy!PolicyAssumption /\ Policy!NoneIsNoRow /\ NoneIsNoRecord

LEMMA TotalIsNat ==
    ASSUME NEW S, IsFiniteSet(S), NEW f, \A x \in S : f[x] \in Nat
    PROVE  Total(f, S) \in Nat
<1>1. \A x \in S : f[x] \in Int /\ f[x] >= 0
  OBVIOUS
<1>2. Total(f, S) \in Int /\ Total(f, S) >= Total(f, {})
  BY <1>1, TotalIsInt, TotalOfPart
<1> QED
  BY <1>2, TotalOfNothing

LEMMA RestIsNat ==
    ASSUME NEW K, IsFiniteSet(K), NEW c \in Nat, NEW room, \A k \in K : room[k] \in Nat
    PROVE  /\ Total(room, K) \in Nat
           /\ Rest(c, room, K) \in Nat
           /\ Rest(c, room, K) = IF c > Total(room, K) THEN c - Total(room, K) ELSE 0
<1>1. Total(room, K) \in Nat
  BY TotalIsNat
<1> QED
  BY <1>1 DEF Rest

\* The installments of K are filled one after the other, each after those of before[k]: they
\* take what there is, up to what they have room for.  Chain holds the sets that come about.
InOrder(f, c, room, K, before, Chain) ==
    /\ IsFiniteSet(K) /\ c \in Nat /\ room \in [K -> Nat] /\ f \in [K -> Nat]
    /\ \A k \in K : f[k] = AtMost(Rest(c, room, before[k]), room[k])
    /\ Chain \subseteq SUBSET K
    /\ \A T \in Chain : \/ T = {}
                        \/ \E k \in K : /\ k \notin before[k] /\ before[k] \in Chain
                                        /\ T = before[k] \cup {k}

LEMMA FillTotals ==
    ASSUME NEW f, NEW c, NEW room, NEW K, NEW before, NEW Chain,
           InOrder(f, c, room, K, before, Chain)
    PROVE  \A T \in Chain : Total(f, T) = AtMost(c, Total(room, T))
<1> USE DEF InOrder
<1> DEFINE Fails == {T \in Chain : Total(f, T) # AtMost(c, Total(room, T))}
<1> SUFFICES ASSUME Fails # {} PROVE FALSE
  OBVIOUS
<1>1. Fails \subseteq SUBSET K
  OBVIOUS
<1>2. PICK t \in Fails : \A u \in Fails : u \subseteq t => u = t
  <2> HIDE DEF Fails
  <2> QED
    BY <1>1, SmallestFails
<1>3. t # {}
  <2>1. Total(f, {}) = 0 /\ Total(room, {}) = 0
    BY TotalOfNothing
  <2>2. Total(f, {}) = AtMost(c, Total(room, {}))
    BY <2>1 DEF AtMost
  <2>3. Total(f, t) # AtMost(c, Total(room, t))
    OBVIOUS
  <2> QED
    BY <2>2, <2>3
<1>4. PICK k \in K : k \notin before[k] /\ before[k] \in Chain /\ t = before[k] \cup {k}
  BY <1>3
<1> DEFINE b == before[k]
<1>5. Total(f, b) = AtMost(c, Total(room, b))
  BY <1>2, <1>4
<1>6. IsFiniteSet(b) /\ b \subseteq K
  BY <1>4, FS_Subset
<1>7. /\ Total(f, t) = f[k] + Total(f, b)
      /\ Total(room, t) = room[k] + Total(room, b)
  BY <1>4, <1>6, TotalWith
<1>8. /\ Total(room, b) \in Nat
      /\ Rest(c, room, b) = IF c > Total(room, b) THEN c - Total(room, b) ELSE 0
  BY <1>6, RestIsNat
<1>9. f[k] = AtMost(Rest(c, room, b), room[k]) /\ room[k] \in Nat
  OBVIOUS
<1> HIDE DEF Fails, b
<1>10. Total(f, t) = AtMost(c, Total(room, t))
  BY <1>5, <1>7, <1>8, <1>9 DEF AtMost
<1> QED
  BY <1>10 DEF Fails

\* What an entry of c cents takes of the room the installments have.
Filled(f, c, room) ==
    /\ f \in [Installments -> Nat]
    /\ \A k \in Installments : f[k] <= room[k]
    /\ Total(f, Installments) = AtMost(c, Total(room, Installments))

LEMMA SpreadFills ==
    ASSUME MaxInstallments \in Nat, NEW c \in Nat, NEW room \in [Installments -> Nat]
    PROVE  Filled(Spread(c, room), c, room)
<1> DEFINE f == Spread(c, room)
           before == [k \in Installments |-> 1 .. k - 1]
           Chain == {1 .. n : n \in 0 .. MaxInstallments}
<1>1. IsFiniteSet(Installments)
  BY FS_Interval DEF Installments
<1>2. ASSUME NEW k \in Installments
      PROVE  /\ 1 .. k - 1 \subseteq Installments /\ before[k] = 1 .. k - 1
             /\ f[k] = AtMost(Rest(c, room, before[k]), room[k])
             /\ f[k] \in Nat /\ f[k] <= room[k]
  <2>1. 1 .. k - 1 \subseteq Installments
    BY DEF Installments
  <2>2. f[k] = AtMost(Rest(c, room, 1 .. k - 1), room[k])
    BY DEF Spread
  <2>3. Rest(c, room, 1 .. k - 1) \in Nat
    BY <1>1, <2>1, FS_Subset, RestIsNat
  <2> QED
    BY <2>1, <2>2, <2>3 DEF AtMost
<1>3. f \in [Installments -> Nat]
  BY <1>2 DEF Spread
<1>4. Chain \in SUBSET SUBSET Installments
  BY DEF Installments
<1>5. ASSUME NEW T \in Chain
      PROVE  \/ T = {}
             \/ \E k \in Installments : /\ k \notin before[k] /\ before[k] \in Chain
                                        /\ T = before[k] \cup {k}
  <2>1. PICK n \in 0 .. MaxInstallments : T = 1 .. n
    OBVIOUS
  <2>2. CASE n = 0
    BY <2>1, <2>2
  <2>3. CASE n # 0
    <3>1. n \in Installments /\ n - 1 \in 0 .. MaxInstallments /\ before[n] = 1 .. n - 1
      BY <2>3, <1>2 DEF Installments
    <3>2. before[n] \in Chain /\ n \notin before[n] /\ T = before[n] \cup {n}
      BY <2>1, <3>1
    <3> QED
      BY <3>1, <3>2
  <2> QED
    BY <2>2, <2>3
<1>6. Installments \in Chain
  BY DEF Installments
<1> HIDE DEF f, before, Chain
<1>7. \A T \in Chain : Total(f, T) = AtMost(c, Total(room, T))
  <2>1. \A k \in Installments : f[k] = AtMost(Rest(c, room, before[k]), room[k])
    BY <1>2
  <2>2. \A T \in Chain : \/ T = {}
                         \/ \E k \in Installments : /\ k \notin before[k] /\ before[k] \in Chain
                                                    /\ T = before[k] \cup {k}
    BY <1>5
  <2>3. InOrder(f, c, room, Installments, before, Chain)
    BY <1>1, <1>3, <1>4, <2>1, <2>2 DEF InOrder
  <2> QED
    BY <2>3, FillTotals
<1> QED
  BY <1>2, <1>3, <1>6, <1>7 DEF Filled, f

LEMMA TakeBackFills ==
    ASSUME MaxInstallments \in Nat, NEW c \in Nat, NEW room \in [Installments -> Nat]
    PROVE  Filled(TakeBack(c, room), c, room)
<1> DEFINE f == TakeBack(c, room)
           before == [k \in Installments |-> k + 1 .. MaxInstallments]
           Chain == {n .. MaxInstallments : n \in 1 .. MaxInstallments + 1}
<1>1. IsFiniteSet(Installments)
  BY FS_Interval DEF Installments
<1>2. ASSUME NEW k \in Installments
      PROVE  /\ before[k] = k + 1 .. MaxInstallments
             /\ f[k] = AtMost(Rest(c, room, before[k]), room[k])
             /\ f[k] \in Nat /\ f[k] <= room[k]
  <2>1. k + 1 .. MaxInstallments \subseteq Installments
    BY DEF Installments
  <2>2. f[k] = AtMost(Rest(c, room, k + 1 .. MaxInstallments), room[k])
    BY DEF TakeBack
  <2>3. Rest(c, room, k + 1 .. MaxInstallments) \in Nat
    BY <1>1, <2>1, FS_Subset, RestIsNat
  <2> QED
    BY <2>1, <2>2, <2>3 DEF AtMost
<1>3. f \in [Installments -> Nat]
  BY <1>2 DEF TakeBack
<1>4. Chain \in SUBSET SUBSET Installments
  BY DEF Installments
<1>5. ASSUME NEW T \in Chain
      PROVE  \/ T = {}
             \/ \E k \in Installments : /\ k \notin before[k] /\ before[k] \in Chain
                                        /\ T = before[k] \cup {k}
  <2>1. PICK n \in 1 .. MaxInstallments + 1 : T = n .. MaxInstallments
    OBVIOUS
  <2>2. CASE n = MaxInstallments + 1
    BY <2>1, <2>2
  <2>3. CASE n # MaxInstallments + 1
    <3>1. /\ n \in Installments /\ n + 1 \in 1 .. MaxInstallments + 1
          /\ before[n] = n + 1 .. MaxInstallments
      BY <2>3, <1>2 DEF Installments
    <3>2. before[n] \in Chain /\ n \notin before[n] /\ T = before[n] \cup {n}
      BY <2>1, <3>1
    <3> QED
      BY <3>1, <3>2
  <2> QED
    BY <2>2, <2>3
<1>6. Installments \in Chain
  BY DEF Installments
<1> HIDE DEF f, before, Chain
<1>7. \A T \in Chain : Total(f, T) = AtMost(c, Total(room, T))
  <2>1. \A k \in Installments : f[k] = AtMost(Rest(c, room, before[k]), room[k])
    BY <1>2
  <2>2. \A T \in Chain : \/ T = {}
                         \/ \E k \in Installments : /\ k \notin before[k] /\ before[k] \in Chain
                                                    /\ T = before[k] \cup {k}
    BY <1>5
  <2>3. InOrder(f, c, room, Installments, before, Chain)
    BY <1>1, <1>3, <1>4, <2>1, <2>2 DEF InOrder
  <2> QED
    BY <2>3, FillTotals
<1> QED
  BY <1>2, <1>3, <1>6, <1>7 DEF Filled, f

-----------------------------------------------------------------------------
(* What the invariant says of the sums *)

LEMMA InstallmentsFinite ==
    ASSUME Given
    PROVE  /\ MaxInstallments \in Nat /\ IsFiniteSet(Installments) /\ 1 \in Installments
           /\ Zero \in [Installments -> Nat]
BY FS_Interval DEF Given, PlanAssumption, Installments, Zero

LEMMA DeskTypes == ASSUME Given PROVE IdleDesk \in Desk /\ 1 \in Policy!Versions
BY InstallmentsFinite, VersionsRange DEF Given, IdleDesk, Desk

LEMMA SharesTyped ==
    ASSUME Given, TypeOK, NEW e \in Posted
    PROVE  /\ e \in Events /\ shares[e] \in Share /\ shares[e].cents \in [Installments -> Nat]
           /\ shares[e].plan \in Plans \cup {None}
BY DEF TypeOK, Posted, Share

LEMMA PutIsNat ==
    ASSUME Given, TypeOK, IsFiniteSet(Posted), NEW E \in SUBSET Posted, NEW k \in Installments
    PROVE  IsFiniteSet(E) /\ Put(E, k) \in Nat
<1>1. IsFiniteSet(E)
  BY FS_Subset
<1>2. \A e \in E : [x \in E |-> shares[x].cents[k]][e] \in Nat
  BY SharesTyped
<1> QED
  BY <1>1, <1>2, TotalIsNat DEF Put

LEMMA RefundableTyped ==
    ASSUME Given, TypeOK, IsFiniteSet(Posted), NetShareCovered, NEW e \in Posted \cap Payments
    PROVE  Refundable(e) \in [Installments -> Nat]
<1>1. ASSUME NEW k \in Installments PROVE Refundable(e)[k] \in Nat
  <2>1. RefundsOf(e) \in SUBSET Posted
    BY DEF RefundsOf
  <2>2. Put(RefundsOf(e), k) \in Nat /\ shares[e].cents[k] \in Nat
    BY <2>1, PutIsNat, SharesTyped
  <2>3. Refundable(e)[k] = shares[e].cents[k] - Put(RefundsOf(e), k) /\ Refundable(e)[k] >= 0
    BY DEF Refundable, NetShareCovered
  <2> QED
    BY <2>2, <2>3
<1> QED
  BY <1>1 DEF Refundable

LEMMA OpenTyped ==
    ASSUME Given, TypeOK, PaidIsAllocated, NEW p \in Plans
    PROVE  /\ Open(p) \in [Installments -> Nat]
           /\ Due[p] \in [Installments -> Nat] /\ paid[p] \in [Installments -> Nat]
<1>1. Due[p] \in [Installments -> Nat] /\ paid[p] \in [Installments -> Nat]
  BY DEF Given, PlanAssumption, Installments, TypeOK
<1>2. \A k \in Installments : paid[p][k] <= Due[p][k]
  BY DEF PaidIsAllocated
<1> QED
  BY <1>1, <1>2 DEF Open

LEMMA AmountTyped ==
    ASSUME Given, NEW e \in Events
    PROVE  /\ Amount[e] \in Nat /\ Amount[e] > 0
           /\ e \in Payments \/ e \in Refunds
           /\ ~ (e \in Payments /\ e \in Refunds)
           /\ e \in Refunds => Original[e] \in Payments
BY DEF Given, PlanAssumption, Events

\* What an entry takes, of the open installments or of what is left of its payment.
LEMMA PaymentFills ==
    ASSUME Given, TypeOK, PaidIsAllocated, NEW e \in Payments, NEW p \in Plans
    PROVE  Filled(Allocation(e, p), Amount[e], Open(p))
<1>1. Allocation(e, p) = Spread(Amount[e], Open(p))
  BY DEF Allocation, Given, PlanAssumption
<1> QED
  BY <1>1, InstallmentsFinite, OpenTyped, AmountTyped, SpreadFills DEF Events

LEMMA RefundFills ==
    ASSUME Given, TypeOK, SharesSound, NetShareCovered, NEW e \in Refunds, Original[e] \in Posted,
           NEW p \in Plans
    PROVE  Filled(Allocation(e, p), Amount[e], Refundable(Original[e]))
<1>1. Allocation(e, p) = TakeBack(Amount[e], Refundable(Original[e]))
  BY DEF Allocation, Given, PlanAssumption
<1>2. Refundable(Original[e]) \in [Installments -> Nat]
  BY AmountTyped, RefundableTyped DEF Events, SharesSound
<1> QED
  BY <1>1, <1>2, InstallmentsFinite, AmountTyped, TakeBackFills DEF Events

LEMMA AllocationTyped ==
    ASSUME Given, TypeOK, SharesSound, Money, NEW e \in Events, NEW p \in Plans \cup {None},
           e \in Refunds => Original[e] \in Posted
    PROVE  /\ Allocation(e, p) \in [Installments -> Nat]
           /\ p = None => Allocation(e, p) = Zero
           /\ p # None => PaidAfter(e, p) \in [Installments -> Nat]
<1>1. CASE p = None
  BY <1>1, InstallmentsFinite DEF Allocation
<1>2. CASE p # None
  <2>1. Allocation(e, p) \in [Installments -> Nat]
    BY <1>2, AmountTyped, PaymentFills, RefundFills DEF Filled, Money
  <2>2. paid[p] \in [Installments -> Nat]
    BY <1>2 DEF TypeOK
  <2> QED
    BY <1>2, <2>1, <2>2 DEF PaidAfter
<1> QED
  BY <1>1, <1>2

\* What refunds left of one payment is part of what the plan shows.
LEMMA RefundableIsPaid ==
    ASSUME Given, TypeOK, SharesSound, Money,
           NEW e \in Posted \cap Payments, shares[e].plan # None,
           NEW k \in Installments
    PROVE  Refundable(e)[k] <= paid[shares[e].plan][k]
<1> DEFINE p == shares[e].plan
           S == PaymentsOf(p)
           f == Nets(p, k)
<1>1. p \in Plans /\ e \in S
  BY SharesTyped DEF PaymentsOf
<1>2. IsFiniteSet(S)
  BY FS_Subset DEF SharesSound, PaymentsOf
<1>3. \A x \in S : f[x] = Refundable(x)[k] /\ Refundable(x)[k] \in Nat
  BY RefundableTyped DEF Nets, PaymentsOf, SharesSound, Money
<1>4. Total(f, S) = f[e] + Total(f, S \ {e})
  BY <1>1, <1>2, <1>3, TotalWithout
<1>5. Total(f, S \ {e}) \in Nat
  BY <1>2, <1>3, FS_Subset, TotalIsNat
<1>6. paid[p][k] = Total(f, S)
  BY <1>1 DEF Money, PlanNet
<1> QED
  BY <1>1, <1>3, <1>4, <1>5, <1>6

-----------------------------------------------------------------------------
(* What does not change *)

LEMMA SharesKept ==
    ASSUME SharesSound, UNCHANGED shares, InForce \subseteq InForce'
    PROVE  SharesSound'
<1>1. Posted' = Posted
  BY DEF Posted
<1>2. ASSUME NEW e \in Posted PROVE ShareSound(e)'
  BY <1>1 DEF SharesSound, ShareSound
<1> QED
  BY <1>1, <1>2 DEF SharesSound

LEMMA MoneyKept == ASSUME Money, UNCHANGED <<paid, shares>> PROVE Money'
<1>1. Posted' = Posted
  BY DEF Posted
<1>2. ASSUME NEW E, NEW k PROVE Put(E, k)' = Put(E, k)
  BY DEF Put
<1>3. ASSUME NEW e PROVE RefundsOf(e)' = RefundsOf(e) /\ Refundable(e)' = Refundable(e)
  BY <1>1, <1>2 DEF RefundsOf, Refundable, Put
<1>4. PaidIsAllocated'
  BY <1>1 DEF Money, PaidIsAllocated, Allotted, Put
<1>5. PlanNet'
  BY <1>1, <1>3 DEF Money, PlanNet, Nets, PaymentsOf, Refundable, Put, RefundsOf
<1>6. NetShareCovered'
  BY <1>1, <1>3 DEF Money, NetShareCovered, Refundable, Put, RefundsOf
<1> QED
  BY <1>4, <1>5, <1>6 DEF Money

LEMMA PlansKept == ASSUME UNCHANGED plans PROVE InForce' = InForce /\ Live' = Live
BY DEF InForce, Live, WithStatus

LEMMA StandingKept == ASSUME Standing, UNCHANGED <<case, plans, paid>> PROVE Standing'
BY DEF Standing, OnePlanPerCase, CompletedWhenPaid, SettledMeansPaid, NewPlansUnpaid, WithStatus,
     InForce, PaidUp

LEMMA PolicyKept == ASSUME PolicyInv, UNCHANGED policyVars PROVE PolicyInv'
BY DEF policyVars, PolicyInv, Policy!TypeOK, OneDecides, Deciding, OneHolder,
     PolicyReadsAreCurrent, PolicyReadIsCurrent, PolicyReviewers, Policy!OneApprovalPerVersion,
     Policy!Approved, Policy!Pending

LEMMA EventKept ==
    ASSUME NEW e, UNCHANGED shares
    PROVE  EventSound(e)' <=> EventSound(e)
BY DEF EventSound, Posted, RefundsOf

LEMMA AllocationKept ==
    ASSUME UNCHANGED <<paid, shares>>, NEW e, NEW p
    PROVE  Allocation(e, p)' = Allocation(e, p) /\ PaidAfter(e, p)' = PaidAfter(e, p)
<1>1. Posted' = Posted
  BY DEF Posted
<1>2. ASSUME NEW x PROVE RefundsOf(x)' = RefundsOf(x)
  BY <1>1 DEF RefundsOf
<1>3. ASSUME NEW x PROVE Refundable(x)' = Refundable(x)
  BY <1>2 DEF Refundable, Put, RefundsOf, Posted
<1>4. Open(p)' = Open(p)
  BY DEF Open
<1>5. Refundable(Original[e])' = Refundable(Original[e])
  BY <1>3
<1>6. Allocation(e, p)' = Allocation(e, p)
  BY <1>4, <1>5 DEF Allocation
<1> QED
  BY <1>6 DEF PaidAfter

\* A request that is not at its turn still knows what it knew, if nothing it relies on changes.
LEMMA OtherSound ==
    ASSUME NEW d \in Desks, NEW q, desks'[d] = q, DeskSound(q), InForce \subseteq InForce',
           q.pc \in {"proposing", "opened", "approving", "rejecting"} =>
               plans'[q.plan] = plans[q.plan],
           q.pc = "approving" => package' = package /\ case'.blocked = case.blocked,
           q.pc \in {"booking", "posting"} =>
               \A e \in Events, p \in Plans \cup {None} :
                   q.event = e /\ q.plan = p /\ EventSound(e) =>
                       /\ EventSound(e)'
                       /\ Allocation(e, p)' = Allocation(e, p)
                       /\ p # None => PaidAfter(e, p)' = PaidAfter(e, p)
                       /\ e \in Refunds => shares'[Original[e]].plan = shares[Original[e]].plan,
           q.pc = "posting" /\ q.event \in Refunds /\ q.plan # None =>
               case' = case \/ case'.blocked \/ case'.status # "settled"
    PROVE  DeskSound(desks[d])'
<1>1. IdleSound(desks[d])' /\ ProposingSound(desks[d])' /\ DecidingSound(desks[d])'
  BY DEF DeskSound, IdleSound, ProposingSound, DecidingSound
<1>2. ApprovingSound(desks[d])' /\ SeenSound(desks[d])'
  BY DEF DeskSound, ApprovingSound, SeenSound
<1>3. BookingSound(desks[d])'
  <2>1. q.pc = "booking" => q.plan \in Plans \cup {None}
    BY DEF DeskSound, BookingSound
  <2> QED
    BY <2>1 DEF DeskSound, BookingSound
<1>4. PostingSound(desks[d])'
  BY DEF DeskSound, PostingSound
<1> QED
  BY <1>1, <1>2, <1>3, <1>4 DEF DeskSound

LEMMA SoundKept ==
    ASSUME NEW d \in Desks, NEW q, desks'[d] = q, DeskSound(q),
           UNCHANGED <<package, case, plans, paid, shares>>
    PROVE  DeskSound(desks[d])'
BY PlansKept, EventKept, AllocationKept, OtherSound

LEMMA IdleIsSound == DeskSound(IdleDesk) /\ IdleDesk.plan = None /\ IdleDesk.event = None
BY DEF IdleDesk, DeskSound, IdleSound, ProposingSound, DecidingSound, ApprovingSound,
     BookingSound, PostingSound, SeenSound

LEMMA EndsSound == ASSUME NEW d \in Desks, desks'[d] = IdleDesk PROVE DeskSound(desks[d])'
BY DEF IdleDesk, DeskSound, IdleSound, ProposingSound, DecidingSound, ApprovingSound,
     BookingSound, PostingSound, SeenSound

-----------------------------------------------------------------------------
(* Requests that change nothing but what they have read *)

\* The entry, and the payment it takes back, are at no other request.
EventFree(e) ==
    \A d \in Desks :
        /\ desks[d].event # e
        /\ e \in Refunds /\ desks[d].event \in Refunds => Original[desks[d].event] # Original[e]

LEMMA AloneKept ==
    ASSUME Inv, NEW d \in Desks, NEW q,
           desks' = [desks EXCEPT ![d] = q], UNCHANGED clerks,
           HoldsContext(q) => HoldsContext(desks[d]) \/ ContextUnlocked,
           \/ q.plan = None \/ q.pc = "proposing" \/ PlanUnlocked(q.plan)
           \/ q.plan = desks[d].plan /\ desks[d].pc # "proposing",
           q.event \in {None, desks[d].event} \/ EventFree(q.event)
    PROVE  ContextAlone' /\ PlansAlone' /\ EventsAlone'
<1>1. \A e \in Desks : desks'[e] = IF e = d THEN q ELSE desks[e]
  BY DEF Inv, TypeOK
<1>2. ContextAlone'
  BY <1>1 DEF Inv, ContextAlone, HoldsContext, ContextUnlocked, NoDeskHoldsContext,
       Policy!PackageUnlocked, Deciding
<1>3. PlansAlone'
  BY <1>1 DEF Inv, PlansAlone, PlanUnlocked
<1>4. EventsAlone'
  BY <1>1 DEF Inv, EventsAlone, EventFree
<1> QED
  BY <1>2, <1>3, <1>4

LEMMA DeskStep ==
    ASSUME Inv, NEW d \in Desks, NEW q \in Desk,
           desks' = [desks EXCEPT ![d] = q], DeskSound(q),
           UNCHANGED <<policyVars, case, incidents, plans, paid, shares>>,
           HoldsContext(q) => HoldsContext(desks[d]) \/ ContextUnlocked,
           \/ q.plan = None \/ q.pc = "proposing" \/ PlanUnlocked(q.plan)
           \/ q.plan = desks[d].plan /\ desks[d].pc # "proposing",
           q.event \in {None, desks[d].event} \/ EventFree(q.event)
    PROVE  Inv'
<1>1. \A e \in Desks : desks'[e] = IF e = d THEN q ELSE desks[e]
  BY DEF Inv, TypeOK
<1>2. UNCHANGED <<package, proposals, clerks>>
  BY DEF policyVars
<1>3. TypeOK'
  BY <1>2 DEF Inv, TypeOK, Policy!TypeOK
<1>4. ContextAlone' /\ PlansAlone' /\ EventsAlone'
  BY <1>2, AloneKept
<1>5. ASSUME NEW e \in Desks PROVE DeskSound(desks[e])'
  <2>1. CASE e = d
    BY <1>1, <1>2, <2>1, SoundKept
  <2>2. CASE e # d
    <3>1. desks'[e] = desks[e] /\ DeskSound(desks[e])
      BY <1>1, <2>2 DEF Inv, DesksSound
    <3> QED
      BY <1>2, <3>1, SoundKept
  <2> QED
    BY <2>1, <2>2
<1>6. DesksSound'
  BY <1>5 DEF DesksSound
<1>7. PolicyInv' /\ SharesSound' /\ Money' /\ Standing'
  BY PolicyKept, PlansKept, SharesKept, MoneyKept, StandingKept DEF Inv
<1> QED
  BY <1>3, <1>4, <1>6, <1>7 DEF Inv

\* A request that ends.
LEMMA DeskDiesInv ==
    ASSUME Given, Inv, NEW d \in Desks, DeskDies(d)
    PROVE  Inv'
<1>1. ~ HoldsContext(IdleDesk)
  BY DEF IdleDesk, HoldsContext
<1> QED
  BY <1>1, DeskTypes, IdleIsSound, DeskStep DEF DeskDies

LEMMA ProposeReadsInv ==
    ASSUME Given, Inv, NEW d \in Desks, NEW a \in Actors, NEW p \in Plans, ProposeReads(d, a, p)
    PROVE  Inv'
<1> DEFINE q == [IdleDesk EXCEPT !.pc = "proposing", !.plan = p, !.actor = a,
                                 !.policy = package.version]
<1>1. package.version \in Policy!Versions
  BY DEF Inv, TypeOK, Policy!TypeOK, Policy!Package
<1>2. q \in Desk /\ q.pc = "proposing" /\ q.plan = p /\ q.actor = a /\ q.event = None
  BY <1>1, DeskTypes DEF Desk, IdleDesk
<1>3. /\ plans[p] = None /\ ContextUnlocked
      /\ desks' = [desks EXCEPT ![d] = q]
      /\ UNCHANGED <<policyVars, case, incidents, plans, paid, shares>>
  BY DEF ProposeReads
<1> HIDE DEF q
<1>4. DeskSound(q)
  BY <1>2, <1>3 DEF DeskSound, IdleSound, ProposingSound, DecidingSound, ApprovingSound,
       BookingSound, PostingSound, SeenSound
<1> QED
  BY <1>2, <1>3, <1>4, DeskStep

LEMMA DecideOpensInv ==
    ASSUME Given, Inv, NEW d \in Desks, NEW a \in Actors, NEW p \in Plans,
           NEW wants \in {"approving", "rejecting"}, DecideOpens(d, a, p, wants)
    PROVE  Inv'
<1> DEFINE q == [IdleDesk EXCEPT !.pc = "opened", !.plan = p, !.actor = a, !.wants = wants]
<1>1. /\ q \in Desk /\ q.pc = "opened" /\ q.plan = p /\ q.actor = a /\ q.event = None
      /\ q.wants = wants
  BY DeskTypes DEF Desk, IdleDesk
<1>2. /\ MayDecide(a, p) /\ PlanUnlocked(p)
      /\ desks' = [desks EXCEPT ![d] = q]
      /\ UNCHANGED <<policyVars, case, incidents, plans, paid, shares>>
  BY DEF DecideOpens
<1>3. plans[p] # None /\ plans[p].status = "pending_review" /\ plans[p].proposer # a
  BY <1>2 DEF MayDecide, WithStatus
<1>4. ~ HoldsContext(q)
  BY <1>1 DEF HoldsContext
<1> HIDE DEF q
<1>5. DeskSound(q)
  BY <1>1, <1>3 DEF DeskSound, IdleSound, ProposingSound, DecidingSound, ApprovingSound,
       BookingSound, PostingSound, SeenSound
<1> QED
  BY <1>1, <1>2, <1>4, <1>5, DeskStep

LEMMA DecideReadsInv ==
    ASSUME Given, Inv, NEW d \in Desks, DecideReads(d)
    PROVE  Inv'
<1> DEFINE old == desks[d]
           q == [old EXCEPT !.pc = old.wants]
<1>1. /\ old.pc = "opened" /\ old \in Desk /\ DeskSound(old) /\ ContextUnlocked
      /\ UNCHANGED <<policyVars, case, incidents, plans, paid, shares>>
  BY DEF DecideReads, Inv, TypeOK, DesksSound
<1>2. CASE /\ old.wants = "rejecting" \/ Approvable(old.plan)
           /\ desks' = [desks EXCEPT ![d] = q]
  <2>1. old.wants \in {"approving", "rejecting"} /\ DecidingSound(old)
    BY <1>1 DEF DeskSound, DecidingSound
  <2>2. /\ q \in Desk /\ q.pc = old.wants /\ q.plan = old.plan /\ q.actor = old.actor
        /\ q.event = old.event /\ q.wants = old.wants
    BY <1>1, <2>1 DEF Desk
  <2> HIDE DEF q
  <2>3. DecidingSound(q) /\ ApprovingSound(q)
    BY <1>1, <1>2, <2>1, <2>2
       DEF DecidingSound, ApprovingSound, Approvable, TermsValid
  <2>4. DeskSound(q)
    BY <2>1, <2>2, <2>3 DEF DeskSound, IdleSound, ProposingSound, BookingSound, PostingSound,
         SeenSound
  <2>5. q.event \in {None, desks[d].event}
    BY <2>2
  <2>6. q.plan = desks[d].plan /\ desks[d].pc # "proposing"
    BY <1>1, <2>2
  <2> QED
    BY <1>1, <1>2, <2>2, <2>4, <2>5, <2>6, DeskStep
<1>3. CASE desks' = [desks EXCEPT ![d] = IdleDesk]
  <2>1. ~ HoldsContext(IdleDesk)
    BY DEF IdleDesk, HoldsContext
  <2> QED
    BY <1>1, <1>3, <2>1, DeskTypes, IdleIsSound, DeskStep
<1> QED
  BY <1>2, <1>3 DEF DecideReads

LEMMA PostOpensInv ==
    ASSUME Given, Inv, NEW d \in Desks, NEW e \in Events, PostOpens(d, e)
    PROVE  Inv'
<1> DEFINE seen == IF e \in Payments THEN case ELSE None
           q == [IdleDesk EXCEPT !.pc = "booking", !.event = e, !.seen = seen]
<1>1. case \in Case /\ (e \in Payments => seen = case) /\ seen \in Case \cup {None}
  BY DEF Inv, TypeOK
<1>2. /\ Bookable(e)
      /\ desks' = [desks EXCEPT ![d] = q]
      /\ UNCHANGED <<policyVars, case, incidents, plans, paid, shares>>
  BY DEF PostOpens
<1> HIDE DEF seen
<1>3. /\ q \in Desk /\ q.pc = "booking" /\ q.plan = None /\ q.event = e
      /\ q.seen = seen
  BY <1>1, DeskTypes DEF Desk, IdleDesk
<1>4. ~ HoldsContext(q)
  BY <1>3 DEF HoldsContext
<1>5. EventSound(e) /\ EventFree(e)
  BY <1>2 DEF Bookable, EventSound, EventFree
<1> HIDE DEF q
<1>6. DeskSound(q)
  BY <1>1, <1>3, <1>5 DEF DeskSound, IdleSound, ProposingSound, DecidingSound, ApprovingSound,
       BookingSound, PostingSound, SeenSound
<1> QED
  BY <1>2, <1>3, <1>4, <1>5, <1>6, DeskStep

\* The plan an entry is for is in force, and a refund is for the plan of its payment.
LEMMA PlanOfSound ==
    ASSUME Given, Inv, NEW e \in Events, EventSound(e)
    PROVE  /\ PlanOf(e) \in Plans \cup {None}
           /\ PlanOf(e) # None => PlanOf(e) \in InForce
           /\ e \in Refunds => PlanOf(e) = shares[Original[e]].plan
<1>1. InForce \subseteq Plans
  BY DEF InForce, WithStatus
<1>2. CASE e \in Refunds
  <2>1. Original[e] \in Posted /\ ShareSound(Original[e]) /\ PlanOf(e) = shares[Original[e]].plan
    BY <1>2 DEF EventSound, Inv, SharesSound, PlanOf
  <2> QED
    BY <1>1, <2>1, SharesTyped DEF ShareSound, Inv
<1>3. CASE e \notin Refunds
  BY <1>1, <1>3 DEF PlanOf
<1> QED
  BY <1>2, <1>3

LEMMA PostReadsInv ==
    ASSUME Given, Inv, NEW d \in Desks, PostReads(d)
    PROVE  Inv'
<1> DEFINE old == desks[d]
<1>1. old.pc = "booking" /\ old \in Desk /\ DeskSound(old)
  BY DEF PostReads, Inv, TypeOK, DesksSound
<1>2. PICK e \in Events : e = old.event
  BY <1>1 DEF DeskSound, BookingSound
<1>3. PICK p : p = PlanOf(e)
  OBVIOUS
<1> DEFINE seen == IF e \in Payments THEN old.seen ELSE case
           cents == Allocation(e, p)
           after == IF p = None THEN Zero ELSE PaidAfter(e, p)
           q == [old EXCEPT !.pc = "posting", !.plan = p, !.cents = cents, !.after = after,
                            !.seen = seen]
<1>4. EventSound(e) /\ (e \in Payments => old.seen \in Case)
  BY <1>1, <1>2 DEF DeskSound, BookingSound
<1>5. /\ p \in Plans \cup {None} /\ (p # None => p \in InForce)
      /\ e \in Refunds => p = shares[Original[e]].plan
  BY <1>3, <1>4, PlanOfSound
<1>6. seen \in Case /\ (e \in Refunds => seen = case)
  BY <1>4, AmountTyped DEF Inv, TypeOK
<1>7. cents \in [Installments -> Nat] /\ after \in [Installments -> Nat]
  BY <1>4, <1>5, AllocationTyped, InstallmentsFinite DEF Inv, EventSound
<1>8. /\ p # None => PlanUnlocked(p)
      /\ desks' = [desks EXCEPT ![d] = q]
      /\ UNCHANGED <<policyVars, case, incidents, plans, paid, shares>>
  <2>1. desks[d].event = e /\ PlanOf(desks[d].event) = p
    BY <1>2, <1>3
  <2>2. desks' = [desks EXCEPT ![d] = q]
    BY <2>1, Zenon DEF PostReads
  <2>3. p # None => PlanUnlocked(p)
    BY <2>1 DEF PostReads
  <2> QED
    BY <2>2, <2>3 DEF PostReads
<1>9. cents = Allocation(e, p) /\ (p # None => after = PaidAfter(e, p))
  OBVIOUS
<1> HIDE DEF seen, cents, after
<1>10. /\ q \in Desk /\ q.pc = "posting" /\ q.plan = p /\ q.event = e
       /\ q.seen = seen /\ q.cents = cents /\ q.after = after
  BY <1>1, <1>2, <1>5, <1>6, <1>7 DEF Desk
<1> HIDE DEF q
<1>11. ~ HoldsContext(q)
  BY <1>10 DEF HoldsContext
<1>12. DeskSound(q)
  BY <1>4, <1>5, <1>6, <1>9, <1>10
     DEF DeskSound, IdleSound, ProposingSound, DecidingSound, ApprovingSound, BookingSound,
         PostingSound, SeenSound
<1> QED
  BY <1>2, <1>8, <1>10, <1>11, <1>12, DeskStep

-----------------------------------------------------------------------------
(* The policy and the protection of the case *)

\* The policy changes only while a decision on it holds the package.
LEMMA PackageChanges ==
    ASSUME Policy!Next, \A k \in Clerks : ~ Deciding(k)
    PROVE  package' = package
BY DEF Policy!Next, Policy!CreateReads, Policy!DecideReads, Policy!CreateChecks,
     Policy!CreateCommits, Policy!DecideCommits, Policy!ClerkDies, Deciding

LEMMA PolicyChangesInv ==
    ASSUME Given, Inv, PolicyChanges
    PROVE  Inv'
<1>1. /\ Policy!Next
      /\ (\E k \in Clerks : ~ Deciding(k) /\ Deciding(k)') => NoDeskHoldsContext
      /\ UNCHANGED <<case, incidents, plans, paid, shares, desks>>
  BY DEF PolicyChanges, PolicyDecider, Deciding
<1>2. PolicyInv'
  BY <1>1, PolicyNextInv DEF Given, Inv
<1>3. TypeOK'
  BY <1>1, <1>2 DEF Inv, TypeOK, PolicyInv
<1>4. ContextAlone'
  BY <1>1 DEF Inv, ContextAlone, HoldsContext, NoDeskHoldsContext, Deciding
<1>5. PlansAlone' /\ EventsAlone'
  BY <1>1 DEF Inv, PlansAlone, EventsAlone
<1>6. SharesSound' /\ Money' /\ Standing' /\ InForce' = InForce
  BY <1>1, PlansKept, SharesKept, MoneyKept, StandingKept DEF Inv
<1>7. ASSUME NEW d \in Desks PROVE DeskSound(desks[d])'
  <2>1. desks'[d] = desks[d] /\ DeskSound(desks[d])
    BY <1>1 DEF Inv, DesksSound
  <2>2. desks[d].pc = "approving" => package' = package
    BY <1>1, PackageChanges DEF Inv, ContextAlone, HoldsContext
  <2> QED
    BY <1>1, <1>6, <2>1, <2>2, EventKept, AllocationKept, OtherSound
<1> QED
  BY <1>2, <1>3, <1>4, <1>5, <1>6, <1>7 DEF Inv, DesksSound

\* Whatever happens to the case while no request on a plan has locked it, but for settling it.
LEMMA CaseStep ==
    ASSUME Given, Inv, ContextUnlocked, case' \in Case, case'.blocked \/ case'.status # "settled",
           incidents' \in 0 .. MaxIncidents,
           UNCHANGED <<policyVars, plans, paid, shares, desks>>
    PROVE  Inv'
<1>1. UNCHANGED <<package, proposals, clerks>>
  BY DEF policyVars
<1>2. TypeOK'
  BY <1>1 DEF Inv, TypeOK, Policy!TypeOK
<1>3. ContextAlone' /\ PlansAlone' /\ EventsAlone'
  BY <1>1 DEF Inv, ContextAlone, PlansAlone, EventsAlone, HoldsContext, Deciding
<1>4. PolicyInv' /\ SharesSound' /\ Money' /\ InForce' = InForce
  BY PolicyKept, PlansKept, SharesKept, MoneyKept DEF Inv
<1>5. Standing'
  BY DEF Inv, Standing, OnePlanPerCase, CompletedWhenPaid, SettledMeansPaid, NewPlansUnpaid,
     WithStatus, InForce, PaidUp
<1>6. ASSUME NEW d \in Desks PROVE DeskSound(desks[d])'
  <2>1. desks'[d] = desks[d] /\ DeskSound(desks[d])
    BY DEF Inv, DesksSound
  <2>2. desks[d].pc # "approving"
    BY DEF ContextUnlocked, NoDeskHoldsContext
  <2> QED
    BY <1>4, <2>1, <2>2, EventKept, AllocationKept, OtherSound
<1> QED
  BY <1>2, <1>3, <1>4, <1>5, <1>6 DEF Inv, DesksSound

LEMMA ProtectionInv ==
    ASSUME Given, Inv, Protect \/ Release
    PROVE  Inv'
<1>1. CASE Protect
  <2>1. /\ case' = [blocked |-> TRUE, status |-> "protected"]
        /\ incidents' = incidents + 1 /\ incidents < MaxIncidents
        /\ ContextUnlocked /\ UNCHANGED <<policyVars, plans, paid, shares, desks>>
    BY <1>1 DEF Protect
  <2>2. incidents' \in 0 .. MaxIncidents
    BY <2>1 DEF Inv, TypeOK, Given, PlanAssumption
  <2>3. case' \in Case /\ case'.blocked
    BY <2>1 DEF Case
  <2> QED
    BY <2>1, <2>2, <2>3, CaseStep
<1>2. CASE Release
  <2>1. /\ case' = [blocked |-> FALSE, status |-> "reassess"]
        /\ ContextUnlocked /\ UNCHANGED <<policyVars, incidents, plans, paid, shares, desks>>
    BY <1>2 DEF Release
  <2>2. incidents' \in 0 .. MaxIncidents
    BY <2>1 DEF Inv, TypeOK
  <2>3. case' \in Case /\ case'.status # "settled"
    BY <2>1 DEF Case
  <2> QED
    BY <2>1, <2>2, <2>3, CaseStep
<1> QED
  BY <1>1, <1>2

-----------------------------------------------------------------------------
(* Commits of proposals and decisions *)

LEMMA ProposeCommitsInv ==
    ASSUME Given, Inv, NEW d \in Desks, ProposeCommits(d)
    PROVE  Inv'
<1> DEFINE q == desks[d]
           p == q.plan
           row == [status |-> "pending_review", policy |-> q.policy,
                   proposer |-> q.actor, reviewer |-> None]
<1>1. /\ q.pc = "proposing" /\ q \in Desk /\ DeskSound(q)
      /\ plans' = IF Live = {} THEN [plans EXCEPT ![p] = row] ELSE plans
      /\ desks' = [desks EXCEPT ![d] = IdleDesk]
      /\ UNCHANGED <<policyVars, case, incidents, paid, shares>>
  BY DEF ProposeCommits, Inv, TypeOK, DesksSound
<1>2. CASE Live # {}
  <2>1. ~ HoldsContext(IdleDesk)
    BY DEF IdleDesk, HoldsContext
  <2> QED
    BY <1>1, <1>2, <2>1, DeskTypes, IdleIsSound, DeskStep
<1>3. CASE Live = {}
  <2>1. p \in Plans /\ plans[p] = None /\ q.actor \in Actors
    BY <1>1 DEF DeskSound, ProposingSound
  <2>2. row \in Plan /\ row # None /\ row.status = "pending_review"
    BY <1>1, <2>1 DEF Plan, Desk, Given, PlanAssumption, NoneIsNoRecord
  <2> HIDE DEF row
  <2>3. \A x \in Plans : plans'[x] = IF x = p THEN row ELSE plans[x]
    BY <1>1, <1>3, <2>1 DEF Inv, TypeOK
  <2>4. \A e \in Desks : desks'[e] = IF e = d THEN IdleDesk ELSE desks[e]
    BY <1>1 DEF Inv, TypeOK
  <2> HIDE DEF p
  <2>5. UNCHANGED <<package, proposals, clerks>>
    BY <1>1 DEF policyVars
  <2>6. TypeOK'
    BY <1>1, <1>3, <2>2, <2>5, DeskTypes DEF Inv, TypeOK, Policy!TypeOK
  <2>7. InForce = {} /\ InForce' = {} /\ WithStatus({"completed"}) = {}
    BY <1>3, <2>2, <2>3 DEF InForce, Live, WithStatus
  <2>8. WithStatus({"completed"})' = {}
    BY <2>2, <2>3, <2>7 DEF WithStatus
  <2>9. OnePlanPerCase'
    BY <1>3, <2>2, <2>3 DEF Live, OnePlanPerCase, WithStatus
  <2>10. Standing'
    BY <1>1, <2>7, <2>8, <2>9 DEF Inv, Standing, CompletedWhenPaid, SettledMeansPaid,
       NewPlansUnpaid
  <2>11. ContextAlone' /\ PlansAlone' /\ EventsAlone'
    <3>1. ~ HoldsContext(IdleDesk)
      BY DEF IdleDesk, HoldsContext
    <3> QED
      BY <1>1, <2>5, <3>1, IdleIsSound, AloneKept
  <2>12. PolicyInv' /\ SharesSound' /\ Money'
    BY <1>1, <2>7, PolicyKept, SharesKept, MoneyKept DEF Inv
  <2>13. ASSUME NEW e \in Desks PROVE DeskSound(desks[e])'
    <3>1. CASE e = d
      BY <2>4, <3>1, EndsSound
    <3>2. CASE e # d
      <4>1. desks'[e] = desks[e] /\ DeskSound(desks[e])
        BY <2>4, <3>2 DEF Inv, DesksSound
      <4>2. desks[e].pc # "proposing"
        BY <1>1, <3>2 DEF Inv, ContextAlone, HoldsContext
      <4>3. desks[e].pc \in {"opened", "approving", "rejecting"} =>
                plans'[desks[e].plan] = plans[desks[e].plan]
        BY <2>1, <2>3, <4>1 DEF DeskSound, DecidingSound
      <4> QED
        BY <1>1, <2>5, <2>7, <4>1, <4>2, <4>3, EventKept, AllocationKept, OtherSound
    <3> QED
      BY <3>1, <3>2
  <2> QED
    BY <2>6, <2>10, <2>11, <2>12, <2>13 DEF Inv, DesksSound
<1> QED
  BY <1>2, <1>3

\* A plan that nothing is paid on is not paid up.
LEMMA UnpaidIsNotPaidUp ==
    ASSUME Given, NEW p \in Plans
    PROVE  ~ PaidUp(p, Zero)
<1>1. Due[p] \in [Installments -> Nat] /\ Due[p][1] > 0
  BY DEF Given, PlanAssumption, Installments
<1>2. IsFiniteSet(Installments) /\ 1 \in Installments
  BY InstallmentsFinite
<1>3. Total(Due[p], Installments) = Due[p][1] + Total(Due[p], Installments \ {1})
  BY <1>1, <1>2, TotalWithout
<1>4. Total(Due[p], Installments \ {1}) \in Nat
  BY <1>1, <1>2, FS_Subset, TotalIsNat
<1>5. Total(Zero, Installments) <= Total(Zero, {}) /\ Total(Zero, Installments) \in Nat
  <2>1. \A k \in Installments : Zero[k] \in Nat /\ Zero[k] \in Int /\ Zero[k] <= 0
    BY DEF Zero
  <2> QED
    BY <1>2, <2>1, TotalOfPart, TotalIsNat
<1>6. Total(Zero, Installments) = 0
  BY <1>5, TotalOfNothing
<1> QED
  BY <1>1, <1>2, <1>3, <1>4, <1>6 DEF PaidUp

\* What a decision writes, and what it leaves.
LEMMA DecidedPlan ==
    ASSUME Given, Inv, NEW d \in Desks, DecideCommits(d)
    PROVE  LET q == desks[d]
               p == q.plan
           IN /\ p \in Plans /\ q.actor \in Actors /\ DeskSound(q)
              /\ q.pc \in {"approving", "rejecting"} /\ HoldsContext(q)
              /\ plans[p] # None /\ plans[p].status = "pending_review"
              /\ plans[p].proposer \in Actors \ {q.actor}
              /\ plans' \in [Plans -> Plan \cup {None}]
              /\ \A x \in Plans \ {p} : plans'[x] = plans[x]
              /\ plans'[p] # None /\ plans'[p].reviewer = q.actor
              /\ plans'[p].proposer = plans[p].proposer
              /\ plans'[p].status = IF q.pc = "approving" THEN "active" ELSE "rejected"
<1> DEFINE q == desks[d]
           p == q.plan
           st == IF q.pc = "approving" THEN "active" ELSE "rejected"
           new == [plans[p] EXCEPT !.status = st, !.reviewer = q.actor]
<1>1. /\ q.pc \in {"approving", "rejecting"} /\ DeskSound(q) /\ HoldsContext(q)
      /\ plans' = [plans EXCEPT ![p] = new]
  BY DEF DecideCommits, Inv, DesksSound, HoldsContext
<1>2. /\ p \in Plans /\ q.actor \in Actors
      /\ plans[p] # None /\ plans[p].status = "pending_review" /\ plans[p].proposer # q.actor
  BY <1>1 DEF DeskSound, DecidingSound
<1>3. st \in {"active", "rejected"}
  OBVIOUS
<1>4. plans[p] \in Plan
  BY <1>2 DEF Inv, TypeOK
<1> HIDE DEF st, p, q
<1>5. plans[p] \in [status   : {"pending_review", "active", "completed", "rejected"},
                    policy   : Policy!Versions,
                    proposer : Actors,
                    reviewer : Actors \cup {None}]
  BY <1>4 DEF Plan
<1>6. /\ new \in [status   : {"pending_review", "active", "completed", "rejected"},
                  policy   : Policy!Versions,
                  proposer : Actors,
                  reviewer : Actors \cup {None}]
      /\ new.status = st /\ new.reviewer = q.actor /\ new.proposer = plans[p].proposer
  BY <1>2, <1>3, <1>5
<1>7. new \in Plan /\ new # None
  BY <1>2, <1>6 DEF Plan, Given, NoneIsNoRecord
<1> HIDE DEF new
<1>8. /\ plans' \in [Plans -> Plan \cup {None}]
      /\ \A x \in Plans \ {p} : plans'[x] = plans[x]
      /\ plans'[p] = new
  BY <1>1, <1>2, <1>7 DEF Inv, TypeOK
<1> QED
  BY <1>1, <1>2, <1>5, <1>6, <1>7, <1>8 DEF p, q, st

LEMMA DecideCommitsInv ==
    ASSUME Given, Inv, NEW d \in Desks, DecideCommits(d)
    PROVE  Inv'
<1> DEFINE q == desks[d]
<1> PICK p \in Plans : p = q.plan
  BY DecidedPlan
<1>1. /\ q.pc \in {"approving", "rejecting"} /\ HoldsContext(q) /\ DeskSound(q)
      /\ plans[p] # None /\ plans[p].status = "pending_review"
      /\ plans' \in [Plans -> Plan \cup {None}]
      /\ \A x \in Plans \ {p} : plans'[x] = plans[x]
      /\ plans'[p] # None
      /\ plans'[p].status = IF q.pc = "approving" THEN "active" ELSE "rejected"
  BY DecidedPlan
<1>2. /\ case' = IF q.pc = "approving" THEN [case EXCEPT !.status = "performing"] ELSE case
      /\ desks' = [desks EXCEPT ![d] = IdleDesk]
      /\ UNCHANGED <<policyVars, incidents, paid, shares>>
  BY DEF DecideCommits
<1>3. UNCHANGED <<package, proposals, clerks>>
  BY <1>2 DEF policyVars
<1>4. \A e \in Desks : desks'[e] = IF e = d THEN IdleDesk ELSE desks[e]
  BY <1>2 DEF Inv, TypeOK
<1>5. /\ case' \in Case
      /\ case' = case \/ case'.status # "settled"
  <2>1. case \in Case
    BY DEF Inv, TypeOK
  <2> QED
    BY <1>2, <2>1 DEF Case
<1>6. TypeOK'
  BY <1>1, <1>2, <1>3, <1>5, DeskTypes DEF Inv, TypeOK, Policy!TypeOK
<1>7. \A x \in Live : x = p
  BY <1>1 DEF Inv, Standing, OnePlanPerCase, Live, WithStatus
<1>8. InForce = {} /\ WithStatus({"completed"}) = {}
  <2>1. p \notin InForce /\ p \notin WithStatus({"completed"})
    BY <1>1 DEF InForce, WithStatus
  <2>2. InForce \subseteq Live /\ WithStatus({"completed"}) \subseteq Live
    BY DEF InForce, Live, WithStatus
  <2> QED
    BY <1>7, <2>1, <2>2
<1>9. /\ InForce' = IF q.pc = "approving" THEN {p} ELSE {}
      /\ WithStatus({"completed"})' = {}
  BY <1>1, <1>8 DEF InForce, WithStatus
<1>10. Standing'
  <2>1. Live' \subseteq Live
    BY <1>1 DEF Live, WithStatus
  <2>2. OnePlanPerCase'
    BY <1>7, <2>1 DEF OnePlanPerCase, Live
  <2>3. paid[p] = Zero
    BY <1>8 DEF Inv, Standing, NewPlansUnpaid
  <2>4. ~ PaidUp(p, paid'[p])
    BY <1>2, <2>3, UnpaidIsNotPaidUp
  <2>5. ASSUME NEW x \in InForce' PROVE plans'[x].status = "completed" <=> PaidUp(x, paid'[x])
    BY <1>1, <1>9, <2>4, <2>5
  <2>6. CompletedWhenPaid'
    BY <2>5 DEF CompletedWhenPaid, PaidUp
  <2>7. SettledMeansPaid'
    BY <1>5, <1>8, <1>9 DEF Inv, Standing, SettledMeansPaid
  <2>8. NewPlansUnpaid'
    BY <1>2, <1>8, <1>9 DEF Inv, Standing, NewPlansUnpaid
  <2> QED
    BY <2>2, <2>6, <2>7, <2>8 DEF Standing
<1>11. ContextAlone' /\ PlansAlone' /\ EventsAlone'
  <2>1. ~ HoldsContext(IdleDesk)
    BY DEF IdleDesk, HoldsContext
  <2> QED
    BY <1>2, <1>3, <2>1, IdleIsSound, AloneKept
<1>12. PolicyInv' /\ SharesSound' /\ Money'
  BY <1>2, <1>8, PolicyKept, SharesKept, MoneyKept DEF Inv
<1>13. ASSUME NEW e \in Desks PROVE DeskSound(desks[e])'
  <2>1. CASE e = d
    BY <1>4, <2>1, EndsSound
  <2>2. CASE e # d
    <3>1. desks'[e] = desks[e] /\ DeskSound(desks[e])
      BY <1>4, <2>2 DEF Inv, DesksSound
    <3>2. desks[e].pc \notin {"proposing", "approving", "rejecting"}
      BY <1>1, <2>2 DEF Inv, ContextAlone, HoldsContext
    <3>3. desks[e].pc = "opened" => plans'[desks[e].plan] = plans[desks[e].plan]
      <4>1. desks[e].pc = "opened" => desks[e].plan \in Plans \ {p}
        BY <1>1, <2>2, <3>1, AmountTyped DEF DeskSound, DecidingSound, Inv, PlansAlone, Given,
           PlanAssumption
      <4> QED
        BY <1>1, <4>1
    <3> QED
      BY <1>2, <1>3, <1>5, <1>8, <3>1, <3>2, <3>3, EventKept, AllocationKept, OtherSound
  <2> QED
    BY <2>1, <2>2
<1> QED
  BY <1>6, <1>10, <1>11, <1>12, <1>13 DEF Inv, DesksSound

-----------------------------------------------------------------------------
(* Booking an entry: what it does to the sums *)

\* The sum of Put, of any allocations.
SumOf(sh, E, k) == Total([e \in E |-> sh[e].cents[k]], E)

\* The entry e puts c on plan p, or takes c from it.
Books(e, p, c) ==
    /\ shares' = [shares EXCEPT ![e] = [plan |-> p, cents |-> c]]
    /\ \A x \in Plans, k \in Installments :
          paid'[x][k] = IF x # p THEN paid[x][k]
                        ELSE IF e \in Payments THEN paid[x][k] + c[k] ELSE paid[x][k] - c[k]

\* What it may book.
MayBook(e, p, c) ==
    /\ e \in Events /\ p \in Plans \cup {None} /\ c \in [Installments -> Nat]
    /\ EventSound(e)
    /\ p = None => c = Zero
    /\ p # None => p \in InForce
    /\ e \in Payments =>
          /\ Total(c, Installments) <= Amount[e]
          /\ p # None => \A k \in Installments : c[k] <= Due[p][k] - paid[p][k]
    /\ e \in Refunds =>
          /\ p \in {None, shares[Original[e]].plan}
          /\ \A k \in Installments : c[k] <= Refundable(Original[e])[k]
          /\ Total(c, Installments)
                = AtMost(Amount[e], Total(Refundable(Original[e]), Installments))

LEMMA BookedShares ==
    ASSUME Given, Inv, NEW e, NEW p, NEW c, MayBook(e, p, c), Books(e, p, c)
    PROVE  /\ e \notin Posted /\ Posted' = Posted \cup {e} /\ IsFiniteSet(Posted')
           /\ \A x \in Events \ {e} : shares'[x] = shares[x]
           /\ \A x \in Posted : shares'[x] = shares[x]
           /\ shares'[e].plan = p /\ shares'[e].cents = c
           /\ shares' \in [Events -> Share \cup {None}]
           /\ \A x \in Posted \cup {e} :
                 RefundsOf(x)' = IF e \in Refunds /\ x = Original[e]
                                 THEN RefundsOf(x) \cup {e} ELSE RefundsOf(x)
           /\ \A x \in Posted \cup {e} : RefundsOf(x) \subseteq Posted
           /\ RefundsOf(e) = {}
<1> DEFINE row == [plan |-> p, cents |-> c]
<1>1. row \in Share /\ row # None
  BY DEF MayBook, Share, Given, NoneIsNoRecord
<1>2. e \in Events /\ e \notin Posted /\ shares' = [shares EXCEPT ![e] = row]
  BY DEF MayBook, EventSound, Books
<1> HIDE DEF row
<1>3. /\ \A x \in Events \ {e} : shares'[x] = shares[x]
      /\ shares'[e] = row
      /\ shares' \in [Events -> Share \cup {None}]
  BY <1>1, <1>2 DEF Inv, TypeOK
<1>4. Posted' = Posted \cup {e}
  BY <1>1, <1>2, <1>3 DEF Posted
<1>5. IsFiniteSet(Posted')
  BY <1>4, FS_AddElement DEF Inv, SharesSound
<1>6. \A x \in Posted \cup {e} :
          RefundsOf(x)' = IF e \in Refunds /\ x = Original[e]
                          THEN RefundsOf(x) \cup {e} ELSE RefundsOf(x)
  BY <1>2, <1>4 DEF RefundsOf
<1>7. RefundsOf(e) = {}
  <2>1. \A r \in Posted \cap Refunds : Original[r] \in Posted
    BY DEF Inv, SharesSound, ShareSound
  <2> QED
    BY <1>2, <2>1 DEF RefundsOf
<1>8. \A x \in Posted \cup {e} : RefundsOf(x) \subseteq Posted
  BY DEF RefundsOf
<1>9. \A x \in Posted : shares'[x] = shares[x]
  BY <1>2, <1>3 DEF Posted
<1>10. row.plan = p /\ row.cents = c
  BY DEF row
<1> QED
  BY <1>2, <1>3, <1>4, <1>5, <1>6, <1>7, <1>8, <1>9, <1>10

LEMMA BookedSums ==
    ASSUME Given, Inv, NEW e, NEW p, NEW c, MayBook(e, p, c), Books(e, p, c),
           NEW E \in SUBSET Posted, NEW k \in Installments
    PROVE  /\ SumOf(shares, E, k) \in Nat
           /\ SumOf(shares', E, k) = SumOf(shares, E, k)
           /\ SumOf(shares', E \cup {e}, k) = c[k] + SumOf(shares, E, k)
<1> DEFINE f == [x \in E |-> shares[x].cents[k]]
           g == [x \in E |-> shares'[x].cents[k]]
           h == [x \in E \cup {e} |-> shares'[x].cents[k]]
<1>1. IsFiniteSet(E) /\ e \notin E
  BY BookedShares, FS_Subset DEF Inv, SharesSound
<1>2. \A x \in E : shares'[x] = shares[x] /\ shares[x].cents[k] \in Nat
  BY BookedShares, SharesTyped DEF Inv
<1>3. shares'[e].cents = c /\ c[k] \in Nat
  BY BookedShares DEF MayBook
<1>4. \A x \in E : f[x] \in Nat /\ f[x] \in Int /\ f[x] = g[x] /\ g[x] = h[x] /\ h[x] \in Int
  BY <1>2
<1>5. h[e] = c[k] /\ \A x \in E \cup {e} : h[x] \in Int
  BY <1>3, <1>4
<1>6. SumOf(shares, E, k) = Total(f, E) /\ SumOf(shares', E, k) = Total(g, E)
      /\ SumOf(shares', E \cup {e}, k) = Total(h, E \cup {e})
  BY DEF SumOf
<1> HIDE DEF f, g, h
<1>7. Total(f, E) \in Nat
  BY <1>1, <1>4, TotalIsNat
<1>8. Total(g, E) = Total(f, E) /\ Total(h, E) = Total(f, E)
  BY <1>1, <1>4, TotalSame
<1>9. Total(h, E \cup {e}) = h[e] + Total(h, E)
  BY <1>1, <1>5, TotalWith
<1> QED
  BY <1>5, <1>6, <1>7, <1>8, <1>9

\* What is left of a payment.
LEMMA BookedRefundable ==
    ASSUME Given, Inv, NEW e, NEW p, NEW c, MayBook(e, p, c), Books(e, p, c),
           NEW x \in (Posted \cup {e}) \cap Payments, NEW k \in Installments
    PROVE  Refundable(x)'[k] = IF x = e THEN c[k]
                               ELSE IF e \in Refunds /\ x = Original[e]
                               THEN Refundable(x)[k] - c[k] ELSE Refundable(x)[k]
<1>1. /\ Refundable(x)[k] = shares[x].cents[k] - SumOf(shares, RefundsOf(x), k)
      /\ Refundable(x)'[k] = shares'[x].cents[k] - SumOf(shares', RefundsOf(x)', k)
  BY DEF Refundable, Put, SumOf
<1> DEFINE R == RefundsOf(x)
<1>2. /\ R \subseteq Posted
      /\ RefundsOf(x)' = IF e \in Refunds /\ x = Original[e] THEN R \cup {e} ELSE R
      /\ x = e => R = {}
  BY BookedShares
<1> HIDE DEF R
<1>3. /\ SumOf(shares, R, k) \in Nat /\ SumOf(shares', R, k) = SumOf(shares, R, k)
      /\ SumOf(shares', R \cup {e}, k) = c[k] + SumOf(shares, R, k)
  BY <1>2, BookedSums
<1>4. c[k] \in Nat
  BY DEF MayBook
<1>5. CASE x = e
  <2>1. e \notin Refunds /\ R = {}
    BY <1>2, <1>5 DEF Given, PlanAssumption
  <2>2. SumOf(shares', {}, k) = 0
    BY TotalOfNothing DEF SumOf
  <2>3. shares'[x].cents = c
    BY <1>5, BookedShares
  <2>4. RefundsOf(x)' = {}
    BY <1>2, <2>1
  <2> QED
    BY <1>1, <1>4, <1>5, <2>2, <2>3, <2>4
<1>6. CASE x # e
  <2>1. x \in Posted /\ x \in Events /\ shares'[x] = shares[x] /\ shares[x].cents[k] \in Nat
    BY <1>6, BookedShares, SharesTyped DEF Inv
  <2>2. Refundable(x)[k] = shares[x].cents[k] - SumOf(shares, R, k)
    BY <1>1 DEF R
  <2> QED
    BY <1>1, <1>2, <1>3, <1>4, <1>6, <2>1, <2>2
<1> QED
  BY <1>5, <1>6

LEMMA BookedAllotted ==
    ASSUME Given, Inv, NEW e, NEW p, NEW c, MayBook(e, p, c), Books(e, p, c),
           NEW E \in {Payments, Refunds}, NEW x \in Plans, NEW k \in Installments
    PROVE  /\ Allotted(E, x, k) \in Nat
           /\ Allotted(E, x, k)' = Allotted(E, x, k) + (IF e \in E /\ x = p THEN c[k] ELSE 0)
<1> DEFINE S == {y \in Posted \cap E : shares[y].plan = x}
<1>1. {y \in Posted \cap E : shares[y].plan = x}'
          = IF e \in E /\ x = p THEN S \cup {e} ELSE S
  <2>1. /\ e \notin Posted /\ Posted' = Posted \cup {e}
        /\ \A y \in Posted : shares'[y] = shares[y]
        /\ shares'[e].plan = p
    BY BookedShares
  <2> QED
    BY <2>1
<1>2. Allotted(E, x, k) = SumOf(shares, S, k)
  BY DEF Allotted, Put, SumOf
<1>3. Allotted(E, x, k)' = SumOf(shares', {y \in Posted \cap E : shares[y].plan = x}', k)
  BY DEF Allotted, Put, SumOf
<1>4. S \subseteq Posted
  OBVIOUS
<1> HIDE DEF S
<1>5. /\ SumOf(shares, S, k) \in Nat /\ SumOf(shares', S, k) = SumOf(shares, S, k)
      /\ SumOf(shares', S \cup {e}, k) = c[k] + SumOf(shares, S, k)
  BY <1>4, BookedSums
<1>6. c[k] \in Nat
  BY DEF MayBook
<1>7. CASE e \in E /\ x = p
  <2>1. Allotted(E, x, k)' = c[k] + SumOf(shares, S, k)
    BY <1>1, <1>3, <1>5, <1>7
  <2> QED
    BY <1>2, <1>5, <1>6, <1>7, <2>1
<1>8. CASE ~ (e \in E /\ x = p)
  <2>1. Allotted(E, x, k)' = SumOf(shares, S, k)
    BY <1>1, <1>3, <1>5, <1>8
  <2> QED
    BY <1>2, <1>5, <1>8, <2>1
<1> QED
  BY <1>7, <1>8

LEMMA BookedPaid ==
    ASSUME Given, Inv, NEW e, NEW p, NEW c, MayBook(e, p, c), Books(e, p, c)
    PROVE  PaidIsAllocated'
<1>1. ASSUME NEW x \in Plans, NEW k \in Installments
      PROVE  /\ paid'[x][k] = Allotted(Payments, x, k)' - Allotted(Refunds, x, k)'
             /\ paid'[x][k] <= Due[x][k]
  <2>1. /\ paid[x][k] = Allotted(Payments, x, k) - Allotted(Refunds, x, k)
        /\ paid[x][k] <= Due[x][k] /\ paid[x][k] \in Nat /\ Due[x][k] \in Nat
    BY OpenTyped DEF Inv, Money, PaidIsAllocated
  <2>2. /\ Allotted(Payments, x, k) \in Nat /\ Allotted(Refunds, x, k) \in Nat
        /\ Allotted(Payments, x, k)'
              = Allotted(Payments, x, k) + (IF e \in Payments /\ x = p THEN c[k] ELSE 0)
        /\ Allotted(Refunds, x, k)'
              = Allotted(Refunds, x, k) + (IF e \in Refunds /\ x = p THEN c[k] ELSE 0)
    BY BookedAllotted
  <2>3. /\ c[k] \in Nat /\ (e \in Payments \/ e \in Refunds)
        /\ ~ (e \in Payments /\ e \in Refunds)
        /\ e \in Payments /\ x = p => c[k] <= Due[x][k] - paid[x][k]
    BY AmountTyped DEF MayBook, Given, PlanAssumption
  <2>4. paid'[x][k] = IF x # p THEN paid[x][k]
                      ELSE IF e \in Payments THEN paid[x][k] + c[k] ELSE paid[x][k] - c[k]
    BY DEF Books
  <2> QED
    BY <2>1, <2>2, <2>3, <2>4
<1> QED
  BY <1>1 DEF PaidIsAllocated

\* What refunds left of the payments of plan x.
LEMMA BookedNet ==
    ASSUME Given, Inv, NEW e, NEW p, NEW c, MayBook(e, p, c), Books(e, p, c)
    PROVE  PlanNet'
<1>1. ASSUME NEW x \in Plans, NEW k \in Installments
      PROVE  paid'[x][k] = Total(Nets(x, k)', PaymentsOf(x)')
  <2> DEFINE S == PaymentsOf(x)
             f == Nets(x, k)
             g == Nets(x, k)'
  <2>1. PaymentsOf(x)' = IF e \in Payments /\ x = p THEN S \cup {e} ELSE S
    <3>1. /\ e \notin Posted /\ Posted' = Posted \cup {e}
          /\ \A y \in Posted : shares'[y] = shares[y]
          /\ shares'[e].plan = p
      BY BookedShares
    <3> QED
      BY <3>1 DEF PaymentsOf
  <2>2. IsFiniteSet(S) /\ S \subseteq Posted \cap Payments /\ e \notin S
    BY BookedShares, FS_Subset DEF PaymentsOf, Inv, SharesSound
  <2>3. /\ \A y \in S : f[y] = Refundable(y)[k] /\ Refundable(y)[k] \in Nat
        /\ \A y \in PaymentsOf(x)' : g[y] = Refundable(y)'[k]
    BY <2>2, RefundableTyped DEF Nets, Inv, SharesSound, Money
  <2>4. paid[x][k] = Total(f, S) /\ paid[x][k] \in Nat /\ c[k] \in Nat
    BY DEF Inv, Money, PlanNet, TypeOK, MayBook
  <2>5. paid'[x][k] = IF x # p THEN paid[x][k]
                      ELSE IF e \in Payments THEN paid[x][k] + c[k] ELSE paid[x][k] - c[k]
    BY DEF Books
  <2>6. ASSUME NEW y \in S
        PROVE  g[y] = IF e \in Refunds /\ y = Original[e] THEN f[y] - c[k] ELSE f[y]
    <3>1. y \in PaymentsOf(x)' /\ y \in Posted \cap Payments /\ y # e
      BY <2>1, <2>2
    <3>2. Refundable(y)'[k] = IF y = e THEN c[k]
                              ELSE IF e \in Refunds /\ y = Original[e]
                              THEN Refundable(y)[k] - c[k] ELSE Refundable(y)[k]
      BY <3>1, BookedRefundable
    <3> QED
      BY <2>3, <3>1, <3>2
  <2>7. CASE e \in Payments
    <3>1. e \notin Refunds
      BY <2>7 DEF Given, PlanAssumption
    <3>2. \A y \in S : g[y] = f[y] /\ f[y] \in Int /\ g[y] \in Int
      BY <2>3, <2>6, <3>1
    <3>3. CASE x = p
      <4>1. PaymentsOf(x)' = S \cup {e}
        BY <2>1, <2>7, <3>3
      <4>2. g[e] = c[k]
        <5>1. Refundable(e)'[k] = c[k]
          BY <2>7, BookedRefundable
        <5> QED
          BY <2>3, <4>1, <5>1
      <4> HIDE DEF S, f, g
      <4>3. Total(g, S \cup {e}) = g[e] + Total(g, S)
        <5>1. \A y \in S \cup {e} : g[y] \in Int
          BY <2>4, <3>2, <4>2
        <5> QED
          BY <2>2, <5>1, TotalWith
      <4>4. Total(g, S) = Total(f, S)
        BY <2>2, <3>2, TotalSame
      <4>5. paid'[x][k] = Total(g, S \cup {e})
        BY <2>4, <2>5, <2>7, <3>3, <4>2, <4>3, <4>4
      <4> QED
        BY <4>1, <4>5 DEF g
    <3>4. CASE x # p
      <4>1. PaymentsOf(x)' = S
        BY <2>1, <3>4
      <4> HIDE DEF S, f, g
      <4>2. Total(g, S) = Total(f, S)
        BY <2>2, <3>2, TotalSame
      <4>3. paid'[x][k] = Total(g, S)
        BY <2>4, <2>5, <3>4, <4>2
      <4> QED
        BY <4>1, <4>3 DEF g
    <3> QED
      BY <3>3, <3>4
  <2>8. CASE e \notin Payments
    <3>1. e \in Refunds /\ Original[e] \in Posted \cap Payments
      BY <2>8, AmountTyped DEF MayBook, EventSound
    <3>2. PaymentsOf(x)' = S
      BY <2>1, <2>8
    <3>3. p # None => p = shares[Original[e]].plan
      BY <3>1 DEF MayBook
    <3>4. CASE x = p
      <4>1. Original[e] \in S
        BY <3>1, <3>3, <3>4 DEF PaymentsOf, Given, PlanAssumption
      <4>2. g[Original[e]] = f[Original[e]] - c[k] /\ f[Original[e]] \in Nat
        BY <2>3, <2>6, <3>1, <4>1
      <4>3. \A y \in S \ {Original[e]} : f[y] = g[y] /\ f[y] \in Int
        BY <2>3, <2>6
      <4> DEFINE o == Original[e]
      <4> HIDE DEF S, f, g, o
      <4>4. /\ o \in S /\ f[o] \in Int /\ g[o] \in Int
            /\ \A y \in S \ {o} : f[y] = g[y] /\ f[y] \in Int
        BY <2>4, <4>1, <4>2, <4>3 DEF o
      <4>5. Total(g, S) = Total(f, S) - f[o] + g[o]
        BY <2>2, <4>4, TotalChanged
      <4>6. g[o] = f[o] - c[k]
        BY <4>2 DEF o
      <4>7. paid'[x][k] = Total(g, S)
        BY <2>4, <2>5, <2>8, <3>4, <4>4, <4>5, <4>6
      <4> QED
        BY <3>2, <4>7 DEF g
    <3>5. CASE x # p
      <4>1. \A y \in S : g[y] = f[y] /\ f[y] \in Int
        <5>1. ASSUME NEW y \in S, y = Original[e] PROVE c[k] = 0
          <6>1. shares[Original[e]].plan = x
            BY <5>1 DEF PaymentsOf
          <6>2. p = None
            BY <3>3, <3>5, <6>1
          <6> QED
            BY <6>2 DEF MayBook, Zero
        <5> QED
          BY <2>3, <2>6, <5>1
      <4> HIDE DEF S, f, g
      <4>2. Total(g, S) = Total(f, S)
        BY <2>2, <4>1, TotalSame
      <4>3. paid'[x][k] = Total(g, S)
        BY <2>4, <2>5, <3>5, <4>2
      <4> QED
        BY <3>2, <4>3 DEF g
    <3> QED
      BY <3>4, <3>5
  <2> QED
    BY <2>7, <2>8
<1> QED
  BY <1>1 DEF PlanNet

LEMMA BookedCovered ==
    ASSUME Given, Inv, NEW e, NEW p, NEW c, MayBook(e, p, c), Books(e, p, c)
    PROVE  NetShareCovered'
<1>0. IsFiniteSet(Installments) /\ c \in [Installments -> Nat] /\ e \in Events
  BY InstallmentsFinite DEF MayBook
<1>1. ASSUME NEW x \in (Posted \cup {e}) \cap Payments
      PROVE  /\ Total(Refundable(x)', Installments) + Total(Amount, RefundsOf(x)') <= Amount[x]
             /\ \A k \in Installments : Refundable(x)'[k] >= 0
  <2> DEFINE g == Refundable(x)'
             R == RefundsOf(x)
  <2>1. \A k \in Installments :
            g[k] = IF x = e THEN c[k]
                   ELSE IF e \in Refunds /\ x = Original[e]
                   THEN Refundable(x)[k] - c[k] ELSE Refundable(x)[k]
    BY BookedRefundable
  <2>2. /\ R \subseteq Posted
        /\ RefundsOf(x)' = IF e \in Refunds /\ x = Original[e] THEN R \cup {e} ELSE R
        /\ x = e => R = {}
    BY BookedShares
  <2>3. IsFiniteSet(R) /\ e \notin R /\ \A r \in R : Amount[r] \in Nat
    BY <2>2, BookedShares, FS_Subset, AmountTyped, SharesTyped DEF Inv, SharesSound
  <2>4. Amount[e] \in Nat /\ Amount[x] \in Nat
    BY <1>0, AmountTyped DEF Events
  <2>5. Total(Amount, R) \in Nat
    BY <2>3, TotalIsNat
  <2>6. CASE x = e
    <3>1. e \notin Refunds /\ e \in Payments
      BY <2>6 DEF Given, PlanAssumption
    <3>2. RefundsOf(x)' = {} /\ Total(Amount, {}) = 0
      BY <2>2, <2>6, <3>1, TotalOfNothing
    <3>3. \A k \in Installments : g[k] = c[k] /\ c[k] \in Int /\ c[k] >= 0
      BY <1>0, <2>1, <2>6
    <3> HIDE DEF g
    <3>4. Total(g, Installments) = Total(c, Installments) /\ Total(c, Installments) \in Int
      BY <1>0, <3>3, TotalSame, TotalIsInt
    <3>5. Total(c, Installments) <= Amount[x]
      BY <2>6, <3>1 DEF MayBook
    <3>6. Total(g, Installments) + Total(Amount, RefundsOf(x)') <= Amount[x]
      BY <3>2, <3>4, <3>5
    <3> QED
      BY <3>3, <3>6 DEF g
  <2>7. CASE x # e
    <3> DEFINE f == Refundable(x)
    <3>1. x \in Posted \cap Payments
      BY <2>7
    <3>2. f \in [Installments -> Nat]
      BY <3>1, RefundableTyped DEF Inv, SharesSound, Money
    <3>3. Total(f, Installments) + Total(Amount, R) <= Amount[x]
      BY <3>1 DEF Inv, Money, NetShareCovered
    <3>4. Total(f, Installments) \in Nat /\ Total(c, Installments) \in Nat
      <4> HIDE DEF f
      <4> QED
        BY <1>0, <3>2, TotalIsNat
    <3>5. CASE e \in Refunds /\ x = Original[e]
      <4>1. /\ Total(c, Installments) = AtMost(Amount[e], Total(f, Installments))
            /\ \A k \in Installments : c[k] <= f[k]
            /\ Amount[e] + Total(Amount, R) <= Amount[x]
        BY <3>5 DEF MayBook, EventSound
      <4>2. RefundsOf(x)' = R \cup {e}
        BY <2>2, <3>5
      <4>3. \A k \in Installments : g[k] = f[k] - c[k] /\ f[k] \in Int /\ c[k] \in Int
        BY <1>0, <2>1, <2>7, <3>2, <3>5
      <4> HIDE DEF f, g, R
      <4>4. Total(g, Installments) = Total(f, Installments) - Total(c, Installments)
        BY <1>0, <4>3, TotalOfDifferences
      <4>5. Total(Amount, R \cup {e}) = Amount[e] + Total(Amount, R)
        <5>1. \A r \in R \cup {e} : Amount[r] \in Int
          BY <2>3, <2>4
        <5> QED
          BY <2>3, <5>1, TotalWith
      <4>6. Total(g, Installments) + Total(Amount, R \cup {e}) <= Amount[x]
        BY <2>4, <2>5, <3>3, <3>4, <4>1, <4>4, <4>5 DEF AtMost
      <4>7. \A k \in Installments : g[k] >= 0
        BY <1>0, <3>2, <4>1, <4>3
      <4> QED
        BY <4>2, <4>6, <4>7 DEF g
    <3>6. CASE ~ (e \in Refunds /\ x = Original[e])
      <4>1. RefundsOf(x)' = R
        BY <2>2, <3>6
      <4>2. \A k \in Installments : g[k] = f[k] /\ f[k] \in Int /\ f[k] >= 0
        BY <2>1, <2>7, <3>2, <3>6
      <4> HIDE DEF f, g, R
      <4>3. Total(g, Installments) = Total(f, Installments)
        BY <1>0, <4>2, TotalSame
      <4> QED
        BY <3>3, <4>1, <4>2, <4>3 DEF g
    <3> QED
      BY <3>5, <3>6
  <2> QED
    BY <2>6, <2>7
<1>2. Posted' = Posted \cup {e}
  BY BookedShares
<1> QED
  BY <1>1, <1>2 DEF NetShareCovered

-----------------------------------------------------------------------------
(* Booking an entry: the commit *)

\* Nothing is left, or was ever there, of what was allocated to no plan.
LEMMA UnplannedIsZero ==
    ASSUME Given, Inv, NEW e \in Posted \cap Payments, shares[e].plan = None
    PROVE  Total(Refundable(e), Installments) = 0
<1>1. ASSUME NEW k \in Installments PROVE Refundable(e)[k] = 0
  <2>1. shares[e].cents[k] = 0
    BY DEF Inv, SharesSound, ShareSound, Zero
  <2>2. Put(RefundsOf(e), k) \in Nat /\ Refundable(e)[k] \in Nat
    BY PutIsNat, RefundableTyped DEF RefundsOf, Inv, SharesSound, Money
  <2>3. Refundable(e)[k] = shares[e].cents[k] - Put(RefundsOf(e), k)
    BY DEF Refundable
  <2> QED
    BY <2>1, <2>2, <2>3
<1>2. \A k \in Installments : Refundable(e)[k] = Zero[k] /\ Refundable(e)[k] \in Int
  BY <1>1 DEF Zero
<1>3. \A k \in Installments : Zero[k] \in Int /\ Zero[k] <= 0 /\ Zero[k] >= 0
  BY DEF Zero
<1>4. Total(Refundable(e), Installments) = Total(Zero, Installments)
  BY <1>2, InstallmentsFinite, TotalSame
<1>5. Total(Zero, Installments) <= Total(Zero, {}) /\ Total(Zero, Installments) >= Total(Zero, {})
  BY <1>3, InstallmentsFinite, TotalOfPart
<1>6. Total(Zero, Installments) \in Int
  BY <1>3, InstallmentsFinite, TotalIsInt
<1> QED
  BY <1>4, <1>5, <1>6, TotalOfNothing

LEMMA ZeroTotal == ASSUME Given PROVE Total(Zero, Installments) = 0
<1>1. \A k \in Installments : Zero[k] \in Int /\ Zero[k] <= 0 /\ Zero[k] >= 0
  BY DEF Zero
<1>2. Total(Zero, Installments) <= Total(Zero, {}) /\ Total(Zero, Installments) >= Total(Zero, {})
  BY <1>1, InstallmentsFinite, TotalOfPart
<1>3. Total(Zero, Installments) \in Int
  BY <1>1, InstallmentsFinite, TotalIsInt
<1> QED
  BY <1>2, <1>3, TotalOfNothing

\* What a request that is posting knows.
LEMMA PostingKnows ==
    ASSUME Given, Inv, NEW d \in Desks, desks[d].pc = "posting"
    PROVE  \E e \in Events, p \in Plans \cup {None} :
             /\ desks[d].event = e /\ desks[d].plan = p
             /\ EventSound(e) /\ desks[d].seen \in Case
             /\ desks[d].cents = Allocation(e, p)
             /\ p # None => p \in InForce /\ desks[d].after = PaidAfter(e, p)
             /\ e \in Refunds => p = shares[Original[e]].plan
<1>1. desks[d] \in Desk /\ PostingSound(desks[d])
  BY DEF Inv, TypeOK, DesksSound, DeskSound
<1>2. desks[d].event \in Events /\ desks[d].plan \in Plans \cup {None}
  BY <1>1 DEF Desk, PostingSound
<1> QED
  BY <1>1, <1>2 DEF PostingSound

LEMMA PostMayBook ==
    ASSUME Given, Inv, NEW e \in Events, NEW p \in Plans \cup {None}, EventSound(e),
           p # None => p \in InForce,
           e \in Refunds => p = shares[Original[e]].plan
    PROVE  /\ MayBook(e, p, Allocation(e, p))
           /\ Allocation(e, p) = Zero => MayBook(e, None, Zero)
           /\ p = None => Allocation(e, p) = Zero
<1> DEFINE c == Allocation(e, p)
<1>1. c \in [Installments -> Nat] /\ (p = None => c = Zero)
  BY AllocationTyped DEF Inv, EventSound
<1>2. Zero \in [Installments -> Nat] /\ Total(Zero, Installments) = 0 /\ Amount[e] \in Nat
  BY InstallmentsFinite, ZeroTotal, AmountTyped
<1>3. CASE e \in Payments
  <2>1. e \notin Refunds
    BY <1>3 DEF Given, PlanAssumption
  <2>2. MayBook(e, None, Zero)
    BY <1>2, <1>3, <2>1 DEF MayBook
  <2>3. p # None => MayBook(e, p, c)
    <3>1. SUFFICES ASSUME p # None PROVE MayBook(e, p, c)
      OBVIOUS
    <3>2. Filled(c, Amount[e], Open(p))
      BY <1>3, <3>1, PaymentFills DEF Inv, Money
    <3>3. \A k \in Installments : Open(p)[k] = Due[p][k] - paid[p][k] /\ Open(p)[k] \in Nat
      BY <3>1, OpenTyped DEF Open, Inv, Money
    <3>4. Total(Open(p), Installments) \in Nat
      BY <3>3, InstallmentsFinite, TotalIsNat
    <3> HIDE DEF c
    <3>5. Total(c, Installments) <= Amount[e]
      BY <1>2, <3>2, <3>4 DEF Filled, AtMost
    <3> QED
      BY <1>1, <1>3, <2>1, <3>1, <3>2, <3>3, <3>5 DEF MayBook, Filled
  <2> QED
    BY <1>1, <2>2, <2>3
<1>4. CASE e \in Refunds
  <2>1. e \notin Payments /\ Original[e] \in Posted \cap Payments
    BY <1>4, AmountTyped DEF EventSound, Given, PlanAssumption
  <2> DEFINE left == Refundable(Original[e])
  <2>2. left \in [Installments -> Nat]
    BY <2>1, RefundableTyped DEF Inv, SharesSound, Money
  <2>3. /\ \A k \in Installments : c[k] <= left[k]
        /\ Total(c, Installments) = AtMost(Amount[e], Total(left, Installments))
    <3>1. CASE p = None
      <4>1. Total(left, Installments) = 0
        BY <1>4, <2>1, <3>1, UnplannedIsZero
      <4> HIDE DEF c, left
      <4> QED
        BY <1>1, <1>2, <2>2, <3>1, <4>1 DEF AtMost, Zero
    <3>2. CASE p # None
      BY <1>4, <2>1, <3>2, RefundFills DEF Inv, Money, Filled
    <3> QED
      BY <3>1, <3>2
  <2>4. MayBook(e, p, c)
    BY <1>1, <1>4, <2>1, <2>3 DEF MayBook
  <2>5. c = Zero => MayBook(e, None, Zero)
    BY <1>1, <1>4, <2>1, <2>3 DEF MayBook
  <2> QED
    BY <1>1, <2>4, <2>5
<1> QED
  BY <1>3, <1>4, AmountTyped

\* What the requests of other entries know is not touched.
LEMMA BookedOthers ==
    ASSUME Given, Inv, NEW e, NEW p, NEW c, MayBook(e, p, c), Books(e, p, c),
           NEW x \in Events, NEW y \in Plans \cup {None}, EventSound(x), x # e,
           e \in Refunds /\ x \in Refunds => Original[x] # Original[e],
           y # None => y # p
    PROVE  /\ EventSound(x)'
           /\ Allocation(x, y)' = Allocation(x, y)
           /\ y # None => PaidAfter(x, y)' = PaidAfter(x, y)
           /\ x \in Refunds => shares'[Original[x]].plan = shares[Original[x]].plan
<1>1. ASSUME x \in Refunds
      PROVE  /\ Original[x] \in Posted \cap Payments /\ Original[x] \in Posted'
             /\ RefundsOf(Original[x])' = RefundsOf(Original[x])
             /\ shares'[Original[x]] = shares[Original[x]]
             /\ Refundable(Original[x])' = Refundable(Original[x])
  <2> DEFINE o == Original[x]
  <2>1. o \in Posted \cap Payments /\ ~ (e \in Refunds /\ o = Original[e])
    BY <1>1, AmountTyped DEF EventSound
  <2>2. o # e /\ o \in Posted' /\ RefundsOf(o)' = RefundsOf(o) /\ shares'[o] = shares[o]
    BY <2>1, BookedShares
  <2>3. ASSUME NEW k \in Installments PROVE Refundable(o)'[k] = Refundable(o)[k]
    BY <2>1, <2>2, BookedRefundable
  <2>4. Refundable(o)' = Refundable(o)
    <3>1. Refundable(o) = [k \in Installments |-> Refundable(o)[k]]
      BY DEF Refundable
    <3>2. Refundable(o)' = [k \in Installments |-> Refundable(o)'[k]]
      BY DEF Refundable
    <3> QED
      BY <2>3, <3>1, <3>2
  <2> QED
    BY <2>1, <2>2, <2>4
<1>2. EventSound(x)'
  <2>1. x \notin Posted'
    BY BookedShares DEF EventSound
  <2>2. ASSUME x \in Refunds
        PROVE  /\ Original[x] \in Posted'
               /\ Amount[x] + Total(Amount, RefundsOf(Original[x])') <= Amount[Original[x]]
    BY <1>1, <2>2 DEF EventSound
  <2> QED
    BY <2>1, <2>2 DEF EventSound
<1>3. y # None => Open(y)' = Open(y)
  BY DEF Open, Books
<1>4. Allocation(x, y)' = Allocation(x, y)
  <2>1. x \in Payments \/ x \in Refunds
    BY AmountTyped
  <2> QED
    BY <1>1, <1>3, <2>1 DEF Allocation
<1>5. y # None => PaidAfter(x, y)' = PaidAfter(x, y)
  BY <1>4 DEF PaidAfter, Books
<1> QED
  BY <1>1, <1>2, <1>4, <1>5

\* The commit keeps the invariant if it keeps the standing of the plans and of the case.
LEMMA BookedInv ==
    ASSUME Given, Inv, NEW d \in Desks, desks[d].pc = "posting", NEW e, NEW p, NEW c,
           desks[d].event = e, p \in {None, desks[d].plan},
           MayBook(e, p, c), Books(e, p, c),
           desks' = [desks EXCEPT ![d] = IdleDesk],
           UNCHANGED <<policyVars, incidents>>,
           paid' \in [Plans -> [Installments -> Nat]],
           plans' \in [Plans -> Plan \cup {None}],
           InForce' = InForce,
           \A x \in Plans : x # p => plans'[x] = plans[x],
           case' \in Case, case'.blocked = case.blocked,
           p = None => case' = case,
           Standing'
    PROVE  Inv'
<1>0. MayBook(e, p, c) /\ Books(e, p, c) /\ e \in Events
  BY DEF MayBook
<1>1. UNCHANGED <<package, proposals, clerks>>
  BY DEF policyVars
<1>2. \A f \in Desks : desks'[f] = IF f = d THEN IdleDesk ELSE desks[f]
  BY DEF Inv, TypeOK
<1>3. TypeOK'
  BY <1>0, <1>1, BookedShares, DeskTypes DEF Inv, TypeOK, Policy!TypeOK
<1>4. ContextAlone' /\ PlansAlone' /\ EventsAlone'
  <2>1. ~ HoldsContext(IdleDesk)
    BY DEF IdleDesk, HoldsContext
  <2> QED
    BY <1>1, <2>1, IdleIsSound, AloneKept
<1>5. PolicyInv'
  BY PolicyKept DEF Inv
<1>6. Money'
  BY <1>0, BookedPaid, BookedNet, BookedCovered DEF Money
<1>7. SharesSound'
  <2>1. ASSUME NEW x \in Posted' PROVE ShareSound(x)'
    <3>1. /\ e \notin Posted /\ Posted' = Posted \cup {e} /\ e \in Events
          /\ \A y \in Posted : shares'[y] = shares[y]
          /\ shares'[e].plan = p /\ shares'[e].cents = c
      BY <1>0, BookedShares
    <3>2. CASE x = e
      <4>1. /\ p = None => c = Zero
            /\ p # None => p \in InForce
            /\ e \in Refunds => Original[e] \in Posted /\ p \in {None, shares[Original[e]].plan}
        BY <1>0 DEF MayBook, EventSound
      <4> QED
        BY <3>1, <3>2, <4>1 DEF ShareSound
    <3>3. CASE x # e
      <4>1. x \in Posted /\ ShareSound(x)
        BY <3>1, <3>3 DEF Inv, SharesSound
      <4> QED
        BY <3>1, <4>1 DEF ShareSound
    <3> QED
      BY <3>2, <3>3
  <2> QED
    BY <1>0, <2>1, BookedShares DEF SharesSound
<1>8. ASSUME NEW f \in Desks PROVE DeskSound(desks[f])'
  <2>1. CASE f = d
    BY <1>2, <2>1, EndsSound
  <2>2. CASE f # d
    <3> DEFINE q == desks[f]
    <3>1. desks'[f] = q /\ DeskSound(q) /\ q \in Desk
      BY <1>2, <2>2 DEF Inv, DesksSound, TypeOK
    <3>2. q.pc \in {"proposing", "opened", "approving", "rejecting"} =>
              plans'[q.plan] = plans[q.plan]
      <4>1. q.pc \in {"proposing", "opened", "approving", "rejecting"} =>
                /\ q.plan \in Plans
                /\ plans[q.plan] = None \/ plans[q.plan].status = "pending_review"
        BY <3>1 DEF DeskSound, ProposingSound, DecidingSound
      <4>2. p # None => plans[p] # None /\ plans[p].status # "pending_review"
        BY <1>0 DEF MayBook, InForce, WithStatus
      <4>3. p = None \/ p \in Plans
        BY <1>0 DEF MayBook
      <4> QED
        BY <4>1, <4>2, <4>3 DEF Given, PlanAssumption
    <3>3. ASSUME q.pc \in {"booking", "posting"}, NEW x \in Events, NEW y \in Plans \cup {None},
                 q.event = x, q.plan = y, EventSound(x)
          PROVE  /\ EventSound(x)'
                 /\ Allocation(x, y)' = Allocation(x, y)
                 /\ y # None => PaidAfter(x, y)' = PaidAfter(x, y)
                 /\ x \in Refunds => shares'[Original[x]].plan = shares[Original[x]].plan
      <4>1. e # None /\ x # None
        BY <1>0, <3>3 DEF Given, PlanAssumption, Events
      <4>2. x # e /\ (e \in Refunds /\ x \in Refunds => Original[x] # Original[e])
        BY <2>2, <3>3, <4>1 DEF Inv, EventsAlone
      <4>3. y # None => y # p
        BY <2>2, <3>3 DEF Inv, PlansAlone
      <4>4. MayBook(e, p, c) /\ Books(e, p, c) /\ EventSound(x)
        BY <1>0, <3>3
      <4> QED
        BY <4>2, <4>3, <4>4, BookedOthers
    <3>4. q.pc = "posting" /\ q.event \in Refunds /\ q.plan # None =>
              case' = case \/ case'.blocked \/ case'.status # "settled"
      <4>1. SUFFICES ASSUME q.pc = "posting", q.plan # None, p # None PROVE FALSE
        OBVIOUS
      <4>2. q.plan \in InForce
        BY <4>1, PostingKnows
      <4>3. p \in InForce
        BY <1>0, <4>1 DEF MayBook
      <4>4. q.plan = p
        BY <4>2, <4>3 DEF Inv, Standing, OnePlanPerCase, InForce, WithStatus
      <4> QED
        BY <2>2, <4>1, <4>4 DEF Inv, PlansAlone
    <3> HIDE DEF q
    <3> QED
      BY <1>1, <3>1, <3>2, <3>3, <3>4, OtherSound
  <2> QED
    BY <2>1, <2>2
<1> QED
  BY <1>3, <1>4, <1>5, <1>6, <1>7, <1>8 DEF Inv, DesksSound

LEMMA NothingBooked ==
    ASSUME Given, Inv, NEW d \in Desks, PostCommits(d), desks[d].cents = Zero
    PROVE  Inv'
<1> PICK e \in Events, p \in Plans \cup {None} :
             /\ desks[d].event = e /\ desks[d].plan = p
             /\ EventSound(e) /\ desks[d].seen \in Case
             /\ desks[d].cents = Allocation(e, p)
             /\ p # None => p \in InForce /\ desks[d].after = PaidAfter(e, p)
             /\ e \in Refunds => p = shares[Original[e]].plan
  BY PostingKnows DEF PostCommits
<1>1. /\ shares' = [shares EXCEPT ![e] = [plan |-> None, cents |-> Zero]]
      /\ desks' = [desks EXCEPT ![d] = IdleDesk] /\ desks[d].pc = "posting"
      /\ UNCHANGED <<policyVars, incidents, case, plans, paid>>
  BY DEF PostCommits
<1>2. MayBook(e, None, Zero)
  BY PostMayBook
<1>3. Books(e, None, Zero)
  BY <1>1 DEF Books, Given, PlanAssumption
<1>4. InForce' = InForce /\ Standing'
  BY <1>1, PlansKept, StandingKept DEF Inv
<1>5. /\ paid' \in [Plans -> [Installments -> Nat]] /\ plans' \in [Plans -> Plan \cup {None}]
      /\ case' \in Case
  BY <1>1 DEF Inv, TypeOK
<1> QED
  BY <1>1, <1>2, <1>3, <1>4, <1>5, BookedInv

\* A plan that is paid up stays so when a payment is booked.
LEMMA PaymentsAdd ==
    ASSUME Given, Inv, NEW e \in Payments, NEW p \in Plans, PaidUp(p, paid[p])
    PROVE  PaidUp(p, PaidAfter(e, p))
<1> DEFINE f == paid[p]
           g == PaidAfter(e, p)
<1>1. Allocation(e, p) \in [Installments -> Nat] /\ f \in [Installments -> Nat]
  BY PaymentFills, OpenTyped DEF Inv, Money, Filled
<1>2. \A k \in Installments : f[k] \in Int /\ g[k] \in Int /\ f[k] <= g[k]
  BY <1>1 DEF PaidAfter
<1> HIDE DEF f, g
<1>3. Total(f, Installments) <= Total(g, Installments)
  BY <1>2, InstallmentsFinite, TotalAtMost
<1>4. Total(f, Installments) \in Int /\ Total(g, Installments) \in Int
  BY <1>2, InstallmentsFinite, TotalIsInt
<1>5. Due[p] \in [Installments -> Nat]
  BY OpenTyped DEF Inv, Money
<1>6. Total(Due[p], Installments) \in Int
  BY <1>5, InstallmentsFinite, TotalIsInt
<1> QED
  BY <1>3, <1>4, <1>6 DEF PaidUp, f, g

\* The case is settled by the booking that pays its plan up, and by no other.
LEMMA SettledAfter ==
    ASSUME Given, Inv, NEW d \in Desks, PostCommits(d), NEW e \in Events, NEW p \in InForce,
           desks[d].event = e, desks[d].plan = p, desks[d].cents # Zero,
           desks[d].after = PaidAfter(e, p), ~ PaidUp(p, PaidAfter(e, p)),
           ~ case'.blocked, case'.status = "settled"
    PROVE  FALSE
<1> DEFINE q == desks[d]
           seen == q.seen
<1>1. SyncCase(d) /\ q.pc = "posting" /\ DeskSound(q)
  BY DEF PostCommits, Inv, DesksSound
<1>2. p \in Plans /\ (plans[p].status = "completed" <=> PaidUp(p, paid[p]))
  BY DEF InForce, WithStatus, Inv, Standing, CompletedWhenPaid
<1>3. p # None /\ (e \in Payments \/ e \in Refunds)
  BY <1>2, AmountTyped DEF Given, PlanAssumption
<1>4. CaseSynced(d) = IF plans[p].status = "completed" THEN "performing" ELSE seen.status
  BY DEF CaseSynced
<1>5. case \in Case
  BY DEF Inv, TypeOK
<1>6. CASE plans[p].status = "completed"
  <2>1. e \in Refunds
    BY <1>2, <1>3, <1>6, PaymentsAdd
  <2>2. case = seen \/ case.blocked \/ case.status # "settled"
    BY <1>1, <1>3, <2>1 DEF DeskSound, SeenSound
  <2>3. CASE case' = case
    <3>1. case = seen /\ ~ case.blocked /\ case.status = "settled"
      BY <2>2, <2>3
    <3>2. case' = [case EXCEPT !.status = "performing"]
      BY <1>1, <1>4, <1>6, <3>1 DEF SyncCase
    <3> QED
      BY <1>5, <3>2 DEF Case
  <2>4. CASE case' # case
    <3>1. case' = [case EXCEPT !.status = "performing"]
      BY <1>1, <1>4, <1>6, <2>4 DEF SyncCase
    <3> QED
      BY <1>5, <3>1 DEF Case
  <2> QED
    BY <2>3, <2>4
<1>7. CASE plans[p].status # "completed"
  <2>1. case' = case
    BY <1>1, <1>4, <1>7 DEF SyncCase
  <2>2. PICK x \in WithStatus({"completed"}) : TRUE
    BY <2>1 DEF Inv, Standing, SettledMeansPaid
  <2>3. x = p
    BY DEF Inv, Standing, OnePlanPerCase, WithStatus, InForce
  <2> QED
    BY <1>7, <2>3 DEF WithStatus
<1> QED
  BY <1>6, <1>7

LEMMA SomethingBooked ==
    ASSUME Given, Inv, NEW d \in Desks, PostCommits(d), desks[d].cents # Zero
    PROVE  Inv'
<1> PICK e \in Events, p \in Plans \cup {None} :
             /\ desks[d].event = e /\ desks[d].plan = p
             /\ EventSound(e) /\ desks[d].seen \in Case
             /\ desks[d].cents = Allocation(e, p)
             /\ p # None => p \in InForce /\ desks[d].after = PaidAfter(e, p)
             /\ e \in Refunds => p = shares[Original[e]].plan
  BY PostingKnows DEF PostCommits
<1> PICK c, after : c = Allocation(e, p) /\ after = PaidAfter(e, p)
  OBVIOUS
<1>1. MayBook(e, p, c) /\ p # None
  BY PostMayBook
<1> DEFINE old == plans[p]
           st == PlanSynced(p, after)
           new == [old EXCEPT !.status = st]
<1>2. p \in Plans /\ p \in InForce /\ old # None /\ old.status \in {"active", "completed"}
  BY <1>1 DEF InForce, WithStatus
<1>3. /\ shares' = [shares EXCEPT ![e] = [plan |-> p, cents |-> c]]
      /\ paid' = [paid EXCEPT ![p] = after]
      /\ plans' = [plans EXCEPT ![p] = new]
      /\ SyncCase(d)
      /\ desks' = [desks EXCEPT ![d] = IdleDesk] /\ desks[d].pc = "posting"
      /\ UNCHANGED <<policyVars, incidents>>
  BY <1>1 DEF PostCommits
<1>4. /\ c \in [Installments -> Nat] /\ after \in [Installments -> Nat]
      /\ paid[p] \in [Installments -> Nat]
  BY <1>1, <1>2, AllocationTyped DEF Inv, TypeOK, EventSound
<1>5. Books(e, p, c)
  <2>1. ASSUME NEW x \in Plans, NEW k \in Installments
        PROVE  paid'[x][k] = IF x # p THEN paid[x][k]
                             ELSE IF e \in Payments THEN paid[x][k] + c[k]
                             ELSE paid[x][k] - c[k]
    <3>1. CASE x # p
      BY <1>3, <3>1 DEF Inv, TypeOK
    <3>2. CASE x = p
      <4>1. paid'[p] = after
        BY <1>2, <1>3 DEF Inv, TypeOK
      <4>2. after[k] = IF e \in Payments THEN paid[p][k] + c[k]
                       ELSE IF paid[p][k] > c[k] THEN paid[p][k] - c[k] ELSE 0
        BY DEF PaidAfter
      <4>3. e \notin Payments => c[k] <= paid[p][k]
        <5>1. SUFFICES ASSUME e \notin Payments PROVE c[k] <= paid[p][k]
          OBVIOUS
        <5>2. e \in Refunds /\ Original[e] \in Posted \cap Payments
          BY <5>1, AmountTyped DEF EventSound
        <5>3. c[k] <= Refundable(Original[e])[k]
          BY <1>1, <5>2 DEF MayBook
        <5>4. Refundable(Original[e])[k] <= paid[p][k]
          BY <1>1, <5>2, RefundableIsPaid DEF Inv
        <5>5. Refundable(Original[e])[k] \in Nat
          BY <5>2, RefundableTyped DEF Inv, SharesSound, Money
        <5> QED
          BY <1>4, <5>3, <5>4, <5>5
      <4>4. paid[p][k] \in Nat /\ c[k] \in Nat
        BY <1>4
      <4> QED
        BY <3>2, <4>1, <4>2, <4>3, <4>4
    <3> QED
      BY <3>1, <3>2
  <2> QED
    BY <1>3, <2>1 DEF Books
<1>6. st \in {"active", "completed"} /\ (st = "completed" <=> PaidUp(p, after))
  BY DEF PlanSynced
<1>7. new \in Plan /\ new # None /\ new.status = st
  <2>1. old \in Plan
    BY <1>2 DEF Inv, TypeOK
  <2> HIDE DEF st, old
  <2> QED
    BY <1>6, <2>1 DEF Plan, Given, NoneIsNoRecord
<1> HIDE DEF st, new, old
<1>8. /\ plans' \in [Plans -> Plan \cup {None}]
      /\ plans'[p] = new
      /\ \A x \in Plans : x # p => plans'[x] = plans[x]
      /\ paid' \in [Plans -> [Installments -> Nat]]
      /\ paid'[p] = after
      /\ \A x \in Plans : x # p => paid'[x] = paid[x]
  BY <1>2, <1>3, <1>4, <1>7 DEF Inv, TypeOK
<1>9. InForce' = InForce
  BY <1>2, <1>6, <1>7, <1>8 DEF InForce, WithStatus, old
<1>10. case' \in Case /\ case'.blocked = case.blocked
  <2>1. CaseSynced(d) \in {"contactable", "performing", "settled", "protected", "reassess"}
    BY DEF CaseSynced, Case
  <2>2. case' = case \/ case' = [case EXCEPT !.status = CaseSynced(d)]
    BY <1>3 DEF SyncCase
  <2>3. case \in Case
    BY DEF Inv, TypeOK
  <2> QED
    BY <2>1, <2>2, <2>3 DEF Case
<1>11. Standing'
  <2>1. OnePlanPerCase'
    <3>1. \A x \in Live' : x \in Live
      BY <1>2, <1>8 DEF Live, WithStatus, old
    <3>2. \A x, y \in Live : x = y
      BY DEF Inv, Standing, OnePlanPerCase, Live
    <3> QED
      BY <3>1, <3>2 DEF OnePlanPerCase, Live
  <2>2. \A x \in InForce : x = p
    BY <1>2 DEF Inv, Standing, OnePlanPerCase, InForce, WithStatus
  <2>3. CompletedWhenPaid'
    <3>1. ASSUME NEW x \in InForce' PROVE plans'[x].status = "completed" <=> PaidUp(x, paid'[x])
      <4>1. x = p
        BY <1>9, <2>2
      <4> QED
        BY <1>6, <1>7, <1>8, <4>1
    <3> QED
      BY <3>1 DEF CompletedWhenPaid, PaidUp
  <2>4. SettledMeansPaid'
    <3>1. SUFFICES ASSUME ~ case'.blocked, case'.status = "settled"
                   PROVE  WithStatus({"completed"})' # {}
      BY DEF SettledMeansPaid
    <3>2. PaidUp(p, after)
      BY <1>1, <1>2, <3>1, SettledAfter
    <3>3. p \in WithStatus({"completed"})'
      BY <1>2, <1>6, <1>7, <1>8, <3>2 DEF WithStatus
    <3> QED
      BY <3>3
  <2>5. NewPlansUnpaid'
    BY <1>2, <1>8, <1>9 DEF Inv, Standing, NewPlansUnpaid
  <2> QED
    BY <2>1, <2>3, <2>4, <2>5 DEF Standing
<1>12. p \in {None, desks[d].plan} /\ desks[d].event = e /\ desks[d].pc = "posting"
  BY <1>3
<1>13. /\ desks' = [desks EXCEPT ![d] = IdleDesk]
       /\ UNCHANGED <<policyVars, incidents>>
  BY <1>3
<1>14. p = None => case' = case
  BY <1>1
<1>15. \A x \in Plans : x # p => plans'[x] = plans[x]
  BY <1>8
<1>16. paid' \in [Plans -> [Installments -> Nat]] /\ plans' \in [Plans -> Plan \cup {None}]
  BY <1>8
<1>17. MayBook(e, p, c)
  BY <1>1
<1> QED
  BY <1>5, <1>9, <1>10, <1>11, <1>12, <1>13, <1>14, <1>15, <1>16, <1>17, BookedInv

LEMMA PostCommitsInv ==
    ASSUME Given, Inv, NEW d \in Desks, PostCommits(d)
    PROVE  Inv'
BY NothingBooked, SomethingBooked

-----------------------------------------------------------------------------
(* The invariant *)

LEMMA InitInv == ASSUME Given PROVE Init => Inv
<1> SUFFICES ASSUME Init PROVE Inv
  OBVIOUS
<1>1. PolicyInv
  BY PolicyInitInv DEF Given, Init
<1>2. TypeOK
  <2>1. case \in Case
    BY DEF Init, Case
  <2> QED
    BY <1>1, <2>1, DeskTypes, InstallmentsFinite
       DEF Init, TypeOK, PolicyInv, Given, PlanAssumption
<1>3. Posted = {} /\ InForce = {} /\ \A S : WithStatus(S) = {}
  BY DEF Init, Posted, InForce, WithStatus
<1>4. \A d \in Desks : desks[d] = IdleDesk
  BY DEF Init
<1>5. ContextAlone /\ PlansAlone /\ EventsAlone /\ DesksSound
  BY <1>4, IdleIsSound
     DEF ContextAlone, PlansAlone, EventsAlone, DesksSound, HoldsContext, IdleDesk
<1>6. SharesSound /\ NetShareCovered
  BY <1>3, FS_EmptySet DEF SharesSound, NetShareCovered
<1>7. \A p \in Plans, k \in Installments : paid[p][k] = 0 /\ paid[p] = Zero
  BY DEF Init, Zero
<1>8. PaidIsAllocated
  <2>1. ASSUME NEW p \in Plans, NEW k \in Installments
        PROVE  Allotted(Payments, p, k) = 0 /\ Allotted(Refunds, p, k) = 0 /\ Due[p][k] \in Nat
    BY <1>3, TotalOfNothing DEF Allotted, Put, Given, PlanAssumption, Installments
  <2> QED
    BY <1>7, <2>1 DEF PaidIsAllocated
<1>9. PlanNet
  BY <1>3, <1>7, TotalOfNothing DEF PlanNet, PaymentsOf, Nets
<1>10. Standing
  BY <1>3, <1>7
     DEF Init, Standing, OnePlanPerCase, CompletedWhenPaid, SettledMeansPaid, NewPlansUnpaid
<1> QED
  BY <1>1, <1>2, <1>5, <1>6, <1>8, <1>9, <1>10 DEF Inv, Money

LEMMA NextInv == ASSUME Given PROVE Inv /\ [Next]_vars => Inv'
<1> SUFFICES ASSUME Inv, [Next]_vars PROVE Inv'
  OBVIOUS
<1>1. CASE UNCHANGED vars
  <2>1. UNCHANGED <<package, proposals, clerks, case, incidents, plans, paid, shares, desks>>
    BY <1>1 DEF vars
  <2>2. PolicyInv' /\ SharesSound' /\ Money' /\ Standing'
    BY <2>1, PolicyKept, PlansKept, SharesKept, MoneyKept, StandingKept DEF Inv, policyVars
  <2>3. TypeOK' /\ ContextAlone' /\ PlansAlone' /\ EventsAlone'
    BY <2>1 DEF Inv, TypeOK, Policy!TypeOK, ContextAlone, PlansAlone, EventsAlone, HoldsContext,
       Deciding
  <2>4. ASSUME NEW d \in Desks PROVE DeskSound(desks[d])'
    BY <2>1, SoundKept DEF Inv, DesksSound
  <2> QED
    BY <2>2, <2>3, <2>4 DEF Inv, DesksSound
<1>2. CASE Next
  <2>1. CASE PolicyChanges \/ Protect \/ Release
    BY <2>1, PolicyChangesInv, ProtectionInv
  <2>2. ASSUME NEW d \in Desks, NEW a \in Actors, NEW p \in Plans,
               \/ ProposeReads(d, a, p)
               \/ DecideOpens(d, a, p, "approving")
               \/ DecideOpens(d, a, p, "rejecting")
        PROVE  Inv'
    <3>1. "approving" \in {"approving", "rejecting"} /\ "rejecting" \in {"approving", "rejecting"}
      OBVIOUS
    <3> QED
      BY <2>2, <3>1, ProposeReadsInv, DecideOpensInv
  <2>3. ASSUME NEW d \in Desks, NEW e \in Events, PostOpens(d, e) PROVE Inv'
    BY <2>3, PostOpensInv
  <2>4. ASSUME NEW d \in Desks,
               \/ ProposeCommits(d) \/ DecideReads(d) \/ DecideCommits(d)
               \/ PostReads(d) \/ PostCommits(d) \/ DeskDies(d)
        PROVE  Inv'
    BY <2>4, ProposeCommitsInv, DecideReadsInv, DecideCommitsInv, PostReadsInv, PostCommitsInv,
       DeskDiesInv
  <2> QED
    BY <1>2, <2>1, <2>2, <2>3, <2>4 DEF Next
<1> QED
  BY <1>1, <1>2

\* The invariant, of every run of the plans of a case.
THEOREM Invariance == ASSUME Given PROVE Spec => []Inv
BY InitInv, NextInv, PTL DEF Spec

-----------------------------------------------------------------------------
(* The properties *)

\* However requests on plans, payments, refunds and incidents interleave, what a plan shows as
\* paid is what its allocations add up to, refunds stay within their payment, and a plan is
\* completed exactly while it is paid in full.
THEOREM PaidIsWhatPaymentsLeft ==
    ASSUME Given PROVE Spec => [](PaidIsAllocated /\ NetShareCovered /\ CompletedWhenPaid)
<1>1. Inv => PaidIsAllocated /\ NetShareCovered /\ CompletedWhenPaid
  BY DEF Inv, Money, Standing
<1> QED
  BY <1>1, Invariance, PTL

\* A case has one plan at most, and a case that may be contacted is settled by a completed plan
\* only, wherever incidents are opened and released around the bookings.
THEOREM OnePlanSettles == ASSUME Given PROVE Spec => [](OnePlanPerCase /\ SettledMeansPaid)
<1>1. Inv => OnePlanPerCase /\ SettledMeansPaid
  BY DEF Inv, Standing
<1> QED
  BY <1>1, Invariance, PTL

\* Only three steps write plans, each of one request.
LEMMA WritesPlans ==
    ASSUME [Next]_vars
    PROVE  \/ UNCHANGED plans
           \/ \E d \in Desks : ProposeCommits(d) \/ DecideCommits(d) \/ PostCommits(d)
BY DEF Next, vars, PolicyChanges, Protect, Release, ProposeReads, DecideOpens, PostOpens,
     DecideReads, PostReads, DeskDies

\* A booking changes the status of plans in force only, and only between the two of them.
LEMMA BookingKeepsPlans ==
    ASSUME Given, Inv, NEW d \in Desks, PostCommits(d), NEW x \in Plans
    PROVE  \/ plans'[x] = plans[x]
           \/ /\ x \in InForce /\ x \in InForce'
              /\ plans'[x].proposer = plans[x].proposer
              /\ plans'[x].reviewer = plans[x].reviewer
<1>1. CASE desks[d].cents = Zero
  BY <1>1 DEF PostCommits
<1>2. CASE desks[d].cents # Zero
  <2> PICK e \in Events, p \in Plans \cup {None} :
               /\ desks[d].event = e /\ desks[d].plan = p
               /\ EventSound(e) /\ desks[d].seen \in Case
               /\ desks[d].cents = Allocation(e, p)
               /\ p # None => p \in InForce /\ desks[d].after = PaidAfter(e, p)
               /\ e \in Refunds => p = shares[Original[e]].plan
    BY PostingKnows DEF PostCommits
  <2>1. p \in InForce
    BY <1>2, PostMayBook
  <2>2. PICK st \in {"active", "completed"} : plans' = [plans EXCEPT ![p] =
                                                          [plans[p] EXCEPT !.status = st]]
    <3>1. plans' = [plans EXCEPT ![p] =
                       [plans[p] EXCEPT !.status = PlanSynced(p, desks[d].after)]]
      BY <1>2 DEF PostCommits
    <3>2. PlanSynced(p, desks[d].after) \in {"active", "completed"}
      BY DEF PlanSynced
    <3> QED
      BY <3>1, <3>2
  <2>3. p \in Plans /\ plans[p] # None /\ plans[p] \in Plan
    BY <2>1 DEF InForce, WithStatus, Inv, TypeOK
  <2>4. CASE x # p
    BY <2>2, <2>4 DEF Inv, TypeOK
  <2>5. CASE x = p
    <3>1. plans'[p] = [plans[p] EXCEPT !.status = st]
      BY <2>2, <2>3 DEF Inv, TypeOK
    <3>2. /\ plans'[p].status = st
          /\ plans'[p].proposer = plans[p].proposer /\ plans'[p].reviewer = plans[p].reviewer
          /\ plans'[p] \in Plan
      BY <2>3, <3>1 DEF Plan
    <3>3. plans'[p] # None
      BY <3>2 DEF Given, NoneIsNoRecord
    <3> QED
      BY <2>1, <2>3, <2>5, <3>2, <3>3 DEF InForce, WithStatus
  <2> QED
    BY <2>4, <2>5
<1> QED
  BY <1>1, <1>2

\* No plan takes effect on a case under protection, nor under a policy other than the one it was
\* proposed for: what the approving request found stays true until it commits.
THEOREM NothingStartsProtected == ASSUME Given PROVE Spec => NothingActivatesProtected
<1> DEFINE Pays(p) == (plans[p] # None /\ plans[p].status = "pending_review"
                          /\ plans'[p].status = "active")
                      => ~ case.blocked /\ package.version = plans[p].policy
<1>1. Inv /\ [Next]_vars => \A p \in Plans : Pays(p)
  <2> SUFFICES ASSUME Inv, [Next]_vars, NEW p \in Plans,
                      plans[p] # None, plans[p].status = "pending_review",
                      plans'[p].status = "active"
               PROVE  ~ case.blocked /\ package.version = plans[p].policy
    OBVIOUS
  <2>1. PICK d \in Desks : ProposeCommits(d) \/ DecideCommits(d) \/ PostCommits(d)
    BY WritesPlans
  <2>2. CASE ProposeCommits(d)
    <3>1. Live # {}
      BY DEF Live, WithStatus
    <3> QED
      BY <2>2, <3>1 DEF ProposeCommits
  <2>3. CASE DecideCommits(d)
    <3>1. desks[d].plan = p /\ desks[d].pc = "approving" /\ DeskSound(desks[d])
      BY <2>3, DecidedPlan
    <3> QED
      BY <3>1 DEF DeskSound, ApprovingSound
  <2>4. CASE PostCommits(d)
    <3>1. p \notin InForce
      BY DEF InForce, WithStatus
    <3> QED
      BY <2>4, <3>1, BookingKeepsPlans
  <2> QED
    BY <2>1, <2>2, <2>3, <2>4
<1>2. Spec => [][\A p \in Plans : Pays(p)]_vars
  BY <1>1, Invariance, PTL DEF Spec
<1> QED
  BY <1>2 DEF NothingActivatesProtected

-----------------------------------------------------------------------------
(* Plans implement MakerChecker *)

\* The three columns of the refinement mapping.
Staged == [p \in Plans |-> Stage(p)]
Maker == [p \in Plans |-> IF Stage(p) = "open" THEN None ELSE plans[p].proposer]
Checker == [p \in Plans |-> IF Stage(p) = "effective" THEN plans[p].reviewer ELSE None]

\* What the mapping shows of every plan but p stays as it was.
LEMMA OnlyOne ==
    ASSUME NEW p \in Plans, \A x \in Plans \ {p} : plans'[x] = plans[x]
    PROVE  /\ Staged' = [Staged EXCEPT ![p] = Stage(p)']
           /\ Maker' = [Maker EXCEPT ![p] = Maker'[p]]
           /\ Checker' = [Checker EXCEPT ![p] = Checker'[p]]
<1>1. \A x \in Plans \ {p} : Stage(x)' = Stage(x)
  BY DEF Stage, InForce, Live, WithStatus
<1> QED
  BY <1>1 DEF Staged, Maker, Checker

\* A booking shows nothing: a plan in force stays so, as do the people of every plan.
LEMMA SameReviews ==
    ASSUME \A x \in Plans : \/ plans'[x] = plans[x]
                            \/ /\ x \in InForce /\ x \in InForce'
                               /\ plans'[x].proposer = plans[x].proposer
                               /\ plans'[x].reviewer = plans[x].reviewer
    PROVE  UNCHANGED Review!vars
<1>1. \A x \in Plans : Stage(x)' = Stage(x)
  BY DEF Stage, InForce, Live, WithStatus
<1>2. UNCHANGED <<Staged, Maker, Checker>>
  BY <1>1 DEF Staged, Maker, Checker
<1> QED
  BY <1>2 DEF Review!vars, Staged, Maker, Checker

LEMMA InitReview == Init => Review!Init
<1> SUFFICES ASSUME Init PROVE Review!Init
  OBVIOUS
<1>1. \A p \in Plans : Stage(p) = "open"
  BY DEF Init, Stage, InForce, Live, WithStatus
<1> QED
  BY <1>1 DEF Review!Init

LEMMA ProposalIsPropose ==
    ASSUME Given, Inv, NEW d \in Desks, ProposeCommits(d), Live = {}
    PROVE  Review!Next
<1> PICK p \in Plans, a \in Actors : p = desks[d].plan /\ a = desks[d].actor
  BY DEF ProposeCommits, Inv, DesksSound, DeskSound, ProposingSound
<1> DEFINE row == [status |-> "pending_review", policy |-> desks[d].policy,
                   proposer |-> a, reviewer |-> None]
<1>1. plans[p] = None /\ plans' = [plans EXCEPT ![p] = row]
  BY DEF ProposeCommits, Inv, DesksSound, DeskSound, ProposingSound
<1>2. row # None
  <2>1. row \in Plan
    BY DEF Inv, TypeOK, Desk, Plan, Given, PlanAssumption
  <2> QED
    BY <2>1 DEF Given, NoneIsNoRecord
<1>3. /\ Stage(p) = "open" /\ Stage(p)' = "pending" /\ plans'[p].proposer = a
      /\ \A x \in Plans \ {p} : plans'[x] = plans[x]
  BY <1>1, <1>2 DEF Stage, InForce, Live, WithStatus, Inv, TypeOK
<1>4. /\ Staged[p] = "open"
      /\ Staged' = [Staged EXCEPT ![p] = "pending"]
      /\ Maker' = [Maker EXCEPT ![p] = a]
      /\ Checker' = Checker
  BY <1>3, OnlyOne DEF Staged, Maker, Checker
<1>5. Review!Propose(p, a)
  BY <1>4 DEF Review!Propose, Staged, Maker, Checker
<1> QED
  BY <1>5 DEF Review!Next

LEMMA DecisionIsDecision ==
    ASSUME Given, Inv, NEW d \in Desks, DecideCommits(d)
    PROVE  Review!Next
<1> PICK p \in Plans, a \in Actors :
             /\ plans[p] # None /\ plans[p].status = "pending_review"
             /\ plans[p].proposer \in Actors \ {a}
             /\ plans'[p] # None
             /\ plans'[p].status = IF desks[d].pc = "approving" THEN "active" ELSE "rejected"
             /\ plans'[p].reviewer = a
             /\ plans'[p].proposer = plans[p].proposer
             /\ \A x \in Plans \ {p} : plans'[x] = plans[x]
  BY DecidedPlan
<1>1. Stage(p) = "pending" /\ Staged[p] = "pending" /\ Maker[p] = plans[p].proposer
  BY DEF Stage, InForce, Live, WithStatus, Staged, Maker
<1>2. CASE desks[d].pc # "approving"
  <2>1. Stage(p)' = "open"
    BY <1>2 DEF Stage, InForce, Live, WithStatus
  <2>2. /\ Staged' = [Staged EXCEPT ![p] = "open"]
        /\ Maker' = [Maker EXCEPT ![p] = None]
        /\ Checker' = Checker
    BY <1>1, <2>1, OnlyOne DEF Staged, Maker, Checker
  <2>3. Review!Return(p)
    BY <1>1, <2>2 DEF Review!Return, Staged, Maker, Checker
  <2> QED
    BY <2>3 DEF Review!Next
<1>3. CASE desks[d].pc = "approving"
  <2>1. Stage(p)' = "effective"
    BY <1>3 DEF Stage, InForce, Live, WithStatus
  <2>2. Staged'[p] = "effective" /\ Checker'[p] = a /\ Maker'[p] = Maker[p]
    BY <1>1, <2>1 DEF Staged, Maker, Checker
  <2>3. /\ Staged' = [Staged EXCEPT ![p] = "effective"]
        /\ Checker' = [Checker EXCEPT ![p] = a]
        /\ Maker' = Maker
    <3>1. /\ Staged' = [Staged EXCEPT ![p] = Stage(p)']
          /\ Maker' = [Maker EXCEPT ![p] = Maker'[p]]
          /\ Checker' = [Checker EXCEPT ![p] = Checker'[p]]
      BY OnlyOne
    <3>2. Maker = [x \in Plans |-> Maker[x]]
      BY DEF Maker
    <3> QED
      BY <2>1, <2>2, <3>1, <3>2
  <2>4. a # Maker[p]
    BY <1>1
  <2>5. Review!Approve(p, a)
    BY <1>1, <2>3, <2>4 DEF Review!Approve, Staged, Maker, Checker
  <2> QED
    BY <2>5 DEF Review!Next
<1> QED
  BY <1>2, <1>3

LEMMA NextReview ==
    ASSUME Given
    PROVE  Inv /\ [Next]_vars => [Review!Next]_(Review!vars)
<1> SUFFICES ASSUME Inv, [Next]_vars PROVE [Review!Next]_(Review!vars)
  OBVIOUS
<1>1. CASE UNCHANGED plans
  BY <1>1, SameReviews
<1>2. ASSUME NEW d \in Desks, ProposeCommits(d) \/ DecideCommits(d) \/ PostCommits(d)
      PROVE  [Review!Next]_(Review!vars)
  <2>1. CASE ProposeCommits(d)
    <3>1. CASE Live = {}
      BY <2>1, <3>1, ProposalIsPropose
    <3>2. CASE Live # {}
      <4>1. UNCHANGED plans
        BY <2>1, <3>2 DEF ProposeCommits
      <4> QED
        BY <4>1, SameReviews
    <3> QED
      BY <3>1, <3>2
  <2>2. CASE DecideCommits(d)
    BY <2>2, DecisionIsDecision
  <2>3. CASE PostCommits(d)
    BY <2>3, BookingKeepsPlans, SameReviews
  <2> QED
    BY <1>2, <2>1, <2>2, <2>3
<1> QED
  BY <1>1, <1>2, WritesPlans

\* A plan takes effect by review: one person proposes it, another approves that proposal, and
\* bookings that complete or reopen it leave that as it was.
THEOREM PlansTakeTwo == ASSUME Given PROVE Spec => PlansAreReviewed
BY Invariance, InitReview, NextReview, PTL DEF Spec, PlansAreReviewed, Review!Spec
=============================================================================
