----------------------------- MODULE MCProposals -----------------------------
\* What one person proposes and another decides, each on its own: the members and the stage
\* of a tenant, and files of assets.
EXTENDS TenantGovernance, TLC

CONSTANTS
    Importers, Keys, Files, MaxDay,     \* of AssetImports
    Ids, id3, u1, u2, u3

VARIABLES part, batches, packages, rules, cases, imports, today

-----------------------------------------------------------------------------
(* Somebody joins as an operator or is made one, or loses the seat. *)

MCRequests == [role : {"operator"}, status : {"active", "inactive"}]

-----------------------------------------------------------------------------
(* Files that overlap in cases and disagree about titles, commissions and mandates. *)

Row(case, asset, title, rate, until) ==
    [case |-> case, package |-> asset, title |-> title, rule |-> "rule", rate |-> rate,
     until |-> until]

MCFiles ==
    { {Row("c1", "p1", "t1", 1, 1), Row("c2", "p1", "t1", 1, 0)},
      {Row("c1", "p1", "t1", 1, 1)},
      {Row("c2", "p1", "t2", 1, 1)},
      {Row("c2", "p2", "t1", 1, 1)},
      {Row("c1", "p1", "t1", 2, 1), Row("c2", "p1", "t2", 2, 1)} }

MCKeys == Ids \cup {id3}
MCImporters == {u1, u2}

Imports == INSTANCE AssetImports WITH
    Users <- Importers, Requests <- Clerks, requests <- imports

ASSUME ProposalsAssumption ==
    /\ GovernanceAssumption /\ RowsAssumption
    /\ Imports!ImportsAssumption /\ Imports!NoneIsNoRow

-----------------------------------------------------------------------------

importVars == <<batches, packages, rules, cases, imports, today>>

ProposalsInit ==
    /\ part \in {"tenant", "imports"} /\ Init /\ Imports!Init
    /\ part # "tenant" => plan = None

ProposalsNext ==
    /\ \/ part = "tenant" /\ Next /\ UNCHANGED importVars
       \/ part = "imports" /\ Imports!Next /\ UNCHANGED vars
    /\ UNCHANGED part

ProposalsSpec == ProposalsInit /\ [][ProposalsNext]_<<vars, importVars, part>>

\* Members change as reviewed, and a closed tenant stays closed (TenantGovernance).
TenantsAreReviewed == ChangesAreReviewed /\ ClosedStaysClosed

\* What was imported is what a second person reviewed (AssetImports).
ImportedAsReviewed == Imports!ImportedAsReviewed

\* Requests, the identities they choose and the first two users are interchangeable.
Symmetry == Permutations(Clerks) \cup Permutations(Ids) \cup Permutations({u1, u2})
=============================================================================
