-------------------------- MODULE PolicyProposals --------------------------
(***************************************************************************)
(* The settlement policy of one asset package changes only through         *)
(* proposals that a second person approves.  A proposal names the policy   *)
(* version it was made for.                                                *)
(*                                                                         *)
(* Making a proposal reads the package and then the pending proposals,     *)
(* without locks, and inserts in a third step.  Deciding holds the row     *)
(* locks of the proposal and of the package from its reads to its commit.  *)
(***************************************************************************)
EXTENDS Naturals, FiniteSets

CONSTANTS
    Proposals,      \* policy proposals that may be made
    TermsOf,        \* [Proposals -> the policy proposed]
    FirstTerms,     \* the policy the package was imported with
    Actors,         \* operators and admins
    Clerks,         \* concurrent requests
    None            \* SQL NULL

\* Of the constants; assumed where an instance gives them values.
PolicyAssumption ==
    /\ IsFiniteSet(Proposals)
    /\ TermsOf \in [Proposals -> STRING]
    /\ FirstTerms \in STRING
    /\ None \notin Proposals \cup Actors

VARIABLES
    package,    \* the policy columns of the asset_packages row
    proposals,  \* [Proposals -> policy_proposals row, or None]
    clerks      \* [Clerks -> control state of the request]

vars == <<package, proposals, clerks>>

-----------------------------------------------------------------------------
(* Types *)

Versions == 1 .. 1 + Cardinality(Proposals)

Terms == {FirstTerms} \cup {TermsOf[q] : q \in Proposals}

Package == [version : Versions, terms : Terms]

\* The reviewer is never the proposer.
Proposal ==
    {row \in [status   : {"pending_review", "approved", "rejected"},
              expected : Versions,
              proposer : Actors,
              reviewer : Actors \cup {None}] : row.reviewer # row.proposer}

\* NULL is no row; assumed where an instance gives the constants values.
NoneIsNoRow == None \notin Proposal

Clerk == [pc       : {"idle", "seen", "checked", "approving", "rejecting"},
          proposal : Proposals \cup {None},
          actor    : Actors \cup {None},
          expected : Versions]

IdleClerk == [pc |-> "idle", proposal |-> None, actor |-> None, expected |-> 1]

-----------------------------------------------------------------------------
Init ==
    /\ package = [version |-> 1, terms |-> FirstTerms]
    /\ proposals = [q \in Proposals |-> None]
    /\ clerks = [k \in Clerks |-> IdleClerk]

Pending == {q \in Proposals : /\ proposals[q] # None
                              /\ proposals[q].status = "pending_review"}

Approved == {q \in Proposals : /\ proposals[q] # None
                               /\ proposals[q].status = "approved"}

Held(q) == \E k \in Clerks : clerks[k].proposal = q

\* Mutant: the package is read without FOR UPDATE.
PackageUnlocked_NoLock == TRUE

\* SELECT ... FOR UPDATE of the package gets through.
PackageUnlocked ==
    \A k \in Clerks : clerks[k].pc \notin {"approving", "rejecting"}

-----------------------------------------------------------------------------
(* create_policy_proposal *)

\* The version the proposer saw is the current one.
CreateReads(k, a, q) ==
    /\ clerks[k].pc = "idle"
    /\ proposals[q] = None
    /\ ~ Held(q)
    /\ clerks' = [clerks EXCEPT ![k] =
           [pc |-> "seen", proposal |-> q, actor |-> a,
            expected |-> package.version]]
    /\ UNCHANGED <<package, proposals>>

\* pending_review_exists is refused.
CreateChecks(k) ==
    /\ clerks[k].pc = "seen"
    /\ clerks' = [clerks EXCEPT ![k] =
           IF Pending = {} THEN [@ EXCEPT !.pc = "checked"] ELSE IdleClerk]
    /\ UNCHANGED <<package, proposals>>

CreateCommits(k) ==
    LET q == clerks[k] IN
    /\ q.pc = "checked"
    /\ proposals' = [proposals EXCEPT ![q.proposal] =
           [status |-> "pending_review", expected |-> q.expected,
            proposer |-> q.actor, reviewer |-> None]]
    /\ clerks' = [clerks EXCEPT ![k] = IdleClerk]
    /\ UNCHANGED package

-----------------------------------------------------------------------------
(* decide_policy_proposal *)

\* Mutant: the proposer may decide.
MayDecide_Proposer(a, q) ==
    /\ q \in Pending
    /\ package.version = proposals[q].expected

\* The version is compared for a rejection too.  A pending proposal is at
\* version 1, the one that is shown.
MayDecide(a, q) ==
    /\ q \in Pending
    /\ proposals[q].proposer # a
    /\ package.version = proposals[q].expected

DecideReads(k, a, q, pc) ==
    /\ clerks[k].pc = "idle"
    /\ ~ Held(q)
    /\ PackageUnlocked
    /\ MayDecide(a, q)
    /\ clerks' = [clerks EXCEPT ![k] =
           [pc |-> pc, proposal |-> q, actor |-> a,
            expected |-> package.version]]
    /\ UNCHANGED <<package, proposals>>

\* The session writes the version it read, plus one.
DecideCommits(k) ==
    LET q == clerks[k] IN
    /\ q.pc \in {"approving", "rejecting"}
    /\ proposals' = [proposals EXCEPT ![q.proposal] =
           [@ EXCEPT !.status =
                IF q.pc = "approving" THEN "approved" ELSE "rejected",
                     !.reviewer = q.actor]]
    /\ package' = IF q.pc = "approving"
                  THEN [version |-> q.expected + 1,
                        terms   |-> TermsOf[q.proposal]]
                  ELSE package
    /\ clerks' = [clerks EXCEPT ![k] = IdleClerk]

\* The process or its connection is lost: the transaction rolls back.
ClerkDies(k) ==
    /\ clerks[k].pc # "idle"
    /\ clerks' = [clerks EXCEPT ![k] = IdleClerk]
    /\ UNCHANGED <<package, proposals>>

-----------------------------------------------------------------------------
Next ==
    \/ \E k \in Clerks, a \in Actors, q \in Proposals :
          \/ CreateReads(k, a, q)
          \/ DecideReads(k, a, q, "approving")
          \/ DecideReads(k, a, q, "rejecting")
    \/ \E k \in Clerks :
          CreateChecks(k) \/ CreateCommits(k) \/ DecideCommits(k) \/ ClerkDies(k)

Spec == Init /\ [][Next]_vars

-----------------------------------------------------------------------------
(* Properties *)

TypeOK ==
    /\ package \in Package
    /\ proposals \in [Proposals -> Proposal \cup {None}]
    /\ clerks \in [Clerks -> Clerk]

\* Every version after the first is the work of exactly one approved
\* proposal, and the policy in force is what the latest of them proposed,
\* however many proposals were made and decided at once.
OneApprovalPerVersion ==
    /\ package.version = 1 + Cardinality(Approved)
    /\ \A q \in Approved : proposals[q].expected < package.version
    /\ \A q \in Approved :
          proposals[q].expected + 1 = package.version => package.terms = TermsOf[q]
    /\ \A q, r \in Approved :
          proposals[q].expected = proposals[r].expected => q = r

\* A policy change is a reviewed change.
Stage(q) == IF q \in Pending THEN "pending"
            ELSE IF q \in Approved THEN "effective" ELSE "open"

Review == INSTANCE MakerChecker WITH
    Items   <- Proposals,
    People  <- Actors,
    stage   <- [q \in Proposals |-> Stage(q)],
    maker   <- [q \in Proposals |->
                   IF Stage(q) = "open" THEN None ELSE proposals[q].proposer],
    checker <- [q \in Proposals |->
                   IF Stage(q) = "effective" THEN proposals[q].reviewer ELSE None]

PolicyIsReviewed == Review!Spec
=============================================================================
