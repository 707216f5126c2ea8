-------------------------- MODULE TenantGovernance --------------------------
(***************************************************************************)
(* Who belongs to a tenant, and which stage of its life it is in.  Both    *)
(* change only through a proposal that another administrator decides.      *)
(*                                                                         *)
(* A proposal is checked against what is pending and then inserted.  A     *)
(* decision locks its proposal; a decision on a member locks the row of    *)
(* that member as well, if there is one, but counts seats and              *)
(* administrators without a lock; a decision on the stage locks neither    *)
(* the lifecycle nor the plan.                                             *)
(***************************************************************************)
EXTENDS Naturals, FiniteSets

CONSTANTS
    Users,
    FirstAdmins,    \* the administrators the tenant is provisioned with
    MemberProposals,
    StageProposals,
    Clerks,         \* requests that may be under way at once
    SeatLimit,      \* seat_limit of the plan
    Stages,         \* bound: the stages that are proposed
    Requests,       \* bound: the roles and states that are proposed
    MaxProposals,   \* bound: proposals of both kinds together
    None

\* Of the constants; assumed where an instance gives them values.
GovernanceAssumption ==
    /\ FirstAdmins \subseteq Users
    /\ IsFiniteSet(Users)
    /\ SeatLimit \in Nat /\ MaxProposals \in Nat
    /\ Stages \subseteq {"trial", "active", "grace", "suspended", "closed"}
    /\ None \notin Users \cup MemberProposals \cup StageProposals

VARIABLES
    memberships,    \* [Users -> tenant_memberships row, or None]
    proposals,      \* [MemberProposals -> membership_proposals row, or None]
    lifecycle,      \* tenant_lifecycles row, or None
    stageProposals, \* [StageProposals -> tenant_lifecycle_proposals row, or None]
    plan,           \* status of the tenant_plans row, or None
    clerks          \* [Clerks -> what the request has read, or None]

vars == <<memberships, proposals, lifecycle, stageProposals, plan, clerks>>
memberVars == <<memberships, proposals>>
stageVars == <<lifecycle, stageProposals, plan>>

-----------------------------------------------------------------------------
\* "operator" stands for every role that is not an administrator.
Membership == [role : {"operator", "admin"}, status : {"active", "inactive"}]

MemberProposal == [target : Users, requested : Requests, expected : Membership \cup {None},
                   status : {"pending_review", "approved", "rejected"}, by : Users]

TRANSITIONS(stage) ==
    CASE stage = "trial" -> {"active", "suspended", "closed"}
      [] stage = "active" -> {"grace", "suspended", "closed"}
      [] stage = "grace" -> {"active", "suspended", "closed"}
      [] stage = "suspended" -> {"active", "closed"}
      [] stage = "closed" -> {}

Lifecycle == [stage : {"trial", "active", "grace", "suspended", "closed"}, version : Nat]

StageProposal == [current : Lifecycle, target : Stages, by : Users,
                  status : {"pending_review", "approved", "rejected"}]

\* What is proposed of a member is a row, and NULL is none.
RowsAssumption == Requests \subseteq Membership /\ None \notin Lifecycle

Administrator == [role |-> "admin", status |-> "active"]

Init ==
    /\ memberships = [u \in Users |-> IF u \in FirstAdmins THEN Administrator ELSE None]
    /\ proposals = [p \in MemberProposals |-> None]
    /\ lifecycle = None
    /\ stageProposals = [p \in StageProposals |-> None]
    /\ plan \in {None, "active"}
    /\ clerks = [c \in Clerks |-> None]

Admins == {u \in Users : memberships[u] = Administrator}
Members == {u \in Users : memberships[u] # None}
Seated == {u \in Members : memberships[u].status = "active"}

Busy == {c \in Clerks : clerks[c] # None}
At(c, op) == clerks[c] # None /\ clerks[c].op = op
Goes(c, record) == clerks' = [clerks EXCEPT ![c] = record]
Made ==
    Cardinality({p \in MemberProposals : proposals[p] # None})
        + Cardinality({p \in StageProposals : stageProposals[p] # None})
Pending(rows, S) == {p \in S : rows[p] # None /\ rows[p].status = "pending_review"}

\* FOR UPDATE of a proposal.
ProposalFree(p) == \A c \in Busy : clerks[c].p # p

-----------------------------------------------------------------------------
(* create_proposal, decide_proposal *)

ProposeMember(c, a, u, requested, p) ==
    /\ clerks[c] = None /\ a \in Admins
    /\ proposals[p] = None /\ ProposalFree(p) /\ Made < MaxProposals
    /\ \A q \in Pending(proposals, MemberProposals) : proposals[q].target # u
    /\ memberships[u] # requested
    /\ Goes(c, [op |-> "propose", p |-> p,
                row |-> [target |-> u, requested |-> requested, expected |-> memberships[u],
                         status |-> "pending_review", by |-> a]])
    /\ UNCHANGED <<memberVars, stageVars>>

ProposeMemberCommits(c) ==
    /\ At(c, "propose")
    /\ proposals' = [proposals EXCEPT ![clerks[c].p] = clerks[c].row]
    /\ Goes(c, None)
    /\ UNCHANGED <<memberships, stageVars>>

\* Mutant: the row of the member is read without a lock.
MemberFree_NoLock(u) == TRUE

\* FOR UPDATE of the membership, where there is one.
MemberFree(u) ==
    memberships[u] # None =>
        \A c \in Busy : At(c, "decide") => proposals[clerks[c].p].target # u

\* require_capacity(seats), counted now.
SeatLeft(u, requested) ==
    requested.status = "active" /\ u \notin Seated =>
        /\ plan # "suspended"
        /\ Cardinality(Seated) < SeatLimit

\* The last administrator, counted now.
AdminLeft(u, requested) ==
    u \in Admins /\ requested # Administrator => Cardinality(Admins) > 1

DecideMember(c, a, p, decision) ==
    LET row == proposals[p] IN
    /\ clerks[c] = None /\ a \in Admins
    /\ p \in Pending(proposals, MemberProposals) /\ ProposalFree(p)
    /\ row.by # a
    /\ MemberFree(row.target)
    /\ memberships[row.target] = row.expected
    /\ decision = "approved" =>
           SeatLeft(row.target, row.requested) /\ AdminLeft(row.target, row.requested)
    /\ Goes(c, [op |-> "decide", p |-> p, decision |-> decision,
                insert |-> memberships[row.target] = None])
    /\ UNCHANGED <<memberVars, stageVars>>

\* A second row of one member is refused by its unique key, and the request with it.
DecideMemberCommits(c) ==
    LET p == clerks[c].p
        u == proposals[p].target
    IN
    /\ At(c, "decide")
    /\ IF clerks[c].decision = "approved" /\ clerks[c].insert /\ memberships[u] # None
       THEN UNCHANGED memberVars
       ELSE /\ proposals' = [proposals EXCEPT ![p].status = clerks[c].decision]
            /\ memberships' = IF clerks[c].decision = "rejected" THEN memberships
                              ELSE [memberships EXCEPT ![u] = proposals[p].requested]
    /\ Goes(c, None)
    /\ UNCHANGED stageVars

-----------------------------------------------------------------------------
(* propose_lifecycle, decide_lifecycle, update_subscription, provisioning *)

\* _lifecycle_view
Current == IF lifecycle = None THEN [stage |-> "trial", version |-> 0] ELSE lifecycle

ProposeStage(c, a, target, p) ==
    /\ clerks[c] = None /\ a \in Admins
    /\ stageProposals[p] = None /\ ProposalFree(p) /\ Made < MaxProposals
    /\ target \in TRANSITIONS(Current.stage)
    /\ Pending(stageProposals, StageProposals) = {}
    /\ Goes(c, [op |-> "propose_stage", p |-> p,
                row |-> [current |-> Current, target |-> target, by |-> a,
                         status |-> "pending_review"]])
    /\ UNCHANGED <<memberVars, stageVars>>

ProposeStageCommits(c) ==
    /\ At(c, "propose_stage")
    /\ stageProposals' = [stageProposals EXCEPT ![clerks[c].p] = clerks[c].row]
    /\ Goes(c, None)
    /\ UNCHANGED <<memberVars, lifecycle, plan>>

StillCurrent(p) == stageProposals[p].current = Current

DecideStage(c, a, p, decision) ==
    /\ clerks[c] = None /\ a \in Admins
    /\ p \in Pending(stageProposals, StageProposals) /\ ProposalFree(p)
    /\ stageProposals[p].by # a
    /\ StillCurrent(p)
    /\ Goes(c, [op |-> "decide_stage", p |-> p, decision |-> decision,
                insert |-> lifecycle = None, plan |-> plan, version |-> Current.version])
    /\ UNCHANGED <<memberVars, stageVars>>

Suspends(stage) == stage \in {"suspended", "closed"}
PlanStatus(stage) == IF Suspends(stage) THEN "suspended" ELSE "active"

\* The rows are written by primary key: the lifecycle as a whole, the status of the
\* plan only where it differs from the one that was read.
DecideStageCommits(c) ==
    LET k == clerks[c]
        target == stageProposals[k.p].target
    IN
    /\ At(c, "decide_stage")
    /\ IF k.decision = "approved" /\ k.insert /\ lifecycle # None
       THEN UNCHANGED stageVars
       ELSE /\ stageProposals' = [stageProposals EXCEPT ![k.p].status = k.decision]
            /\ IF k.decision = "rejected"
               THEN UNCHANGED <<lifecycle, plan>>
               ELSE /\ lifecycle' = [stage |-> target, version |-> k.version + 1]
                    /\ plan' = IF k.plan \in {None, PlanStatus(target)} THEN plan
                               ELSE PlanStatus(target)
    /\ Goes(c, None)
    /\ UNCHANGED memberVars

\* Choosing a plan makes the row; later choices keep its status.
UpdateSubscription(a) ==
    /\ a \in Admins
    /\ plan = None /\ plan' = "active"
    /\ UNCHANGED <<memberVars, lifecycle, stageProposals, clerks>>

\* provision_enterprise run again with the manifest the tenant was made from: it adds
\* what is missing, and never gives back a role or a seat that was taken away.
Provision ==
    /\ \A u \in FirstAdmins : memberships[u] = Administrator
    /\ plan \in {None, "active"} /\ plan' = "active"
    /\ UNCHANGED <<memberVars, lifecycle, stageProposals, clerks>>

Next ==
    \/ \E c \in Clerks, a \in Users :
        \/ \E u \in Users, requested \in Requests, p \in MemberProposals :
               ProposeMember(c, a, u, requested, p)
        \/ \E p \in MemberProposals, d \in {"approved", "rejected"} : DecideMember(c, a, p, d)
        \/ \E p \in StageProposals, stage \in Stages : ProposeStage(c, a, stage, p)
        \/ \E p \in StageProposals, d \in {"approved", "rejected"} : DecideStage(c, a, p, d)
    \/ \E c \in Clerks :
        \/ ProposeMemberCommits(c) \/ DecideMemberCommits(c)
        \/ ProposeStageCommits(c) \/ DecideStageCommits(c)
    \/ \E a \in Users : UpdateSubscription(a)
    \/ Provision

Spec == Init /\ [][Next]_vars

-----------------------------------------------------------------------------
(* Properties *)

TypeOK ==
    /\ memberships \in [Users -> Membership \cup {None}]
    /\ proposals \in [MemberProposals -> MemberProposal \cup {None}]
    /\ lifecycle # None => lifecycle \in Lifecycle
    /\ \A p \in StageProposals : stageProposals[p] # None => stageProposals[p] \in StageProposal
    /\ plan \in {None, "active", "suspended"}

\* A role or a seat changes from exactly what its proposer saw to exactly what was
\* proposed, however many proposals and decisions about one person meet.
ChangesAreReviewed ==
    [][\A u \in Users : memberships'[u] # memberships[u] =>
          \E p \in Pending(proposals, MemberProposals) :
              /\ proposals'[p].status = "approved"
              /\ proposals[p].target = u
              /\ proposals[p].expected = memberships[u]
              /\ proposals[p].requested = memberships'[u]]_vars

\* A closed tenant is not reopened by a proposal that was pending when it was closed:
\* only a decision that had read the stage before can still overwrite it.
ClosedStaysClosed ==
    [][lifecycle # None /\ lifecycle.stage = "closed" =>
          \/ lifecycle' = lifecycle
          \/ \E c \in Clerks : At(c, "decide_stage") /\ clerks[c].version < lifecycle.version]_vars

\* "The last administrator cannot be disabled or demoted."
AdminRemains == Admins # {}
=============================================================================
