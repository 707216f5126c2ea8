-------------------------- MODULE CustomerEvidence --------------------------
(***************************************************************************)
(* What customer materials prove about one case.  A material is associated *)
(* with the case by one person and approved by another; an acceptance      *)
(* record of the approved association is proposed and decided likewise.    *)
(* Both are bound to a digest of the evidence as it was when they were     *)
(* proposed, and count for as long as the evidence still has that digest.  *)
(*                                                                         *)
(* A decision locks the row it decides on, and nothing else: the material, *)
(* the case and the association below it may change before it commits.     *)
(***************************************************************************)
EXTENDS MaterialVersions

CONSTANTS
    Actors,         \* operators and administrators
    Creator,        \* [Materials -> who submitted it]
    Linked,         \* bound: materials somebody associates with the case
    Facts,          \* states of the case report and of the configuration
    Matched,        \* material and facts that agree in every check
    Acceptances,    \* ids of acceptance records
    Clerks,         \* requests that may be under way at once
    MaxChanges      \* bound: changes of facts, expiries and repeated proposals

\* Of the constants; assumed where an instance gives them values.
EvidenceAssumption ==
    /\ Linked \subseteq Materials
    /\ Matched \subseteq Materials \X Facts
    /\ None \notin Actors \cup Acceptances
    /\ MaxChanges \in Nat

VARIABLES
    facts,          \* what the case report says now
    links,          \* [Linked -> material_associations row, or None]
    acceptances,    \* [Acceptances -> case_acceptances row, or None]
    clerks,         \* [Clerks -> what the request has read, or None]
    changes         \* bound

evidenceVars == <<facts, links, acceptances, clerks, changes>>
vars == <<versionVars, evidenceVars>>

-----------------------------------------------------------------------------
Digests == [state : [root : Materials, version : 1 .. MaxVersions, head : Series], facts : Facts]

Link == [digest : Digests, status : {"pending_review", "approved", "rejected"}, version : Nat,
         by : Actors, reviewer : Actors \cup {None}]

Acceptance == [link : Linked,
               seen : [digest : Digests, version : Nat,
                       effective : {"stale", "pending_review", "approved", "rejected"}],
               status : {"pending_review", "accepted", "rejected"}, by : Actors,
               reviewer : Actors \cup {None}, expired : BOOLEAN]

\* NULL is no row.
NoneIsNoRow == NoneIsNoVersion /\ None \notin Link \cup Acceptance

\* association_snapshot, and what association_view makes of it.
Digest(m) == [state |-> VersionState(m), facts |-> facts]

EffectiveLink(m) == IF links[m].digest # Digest(m) THEN "stale" ELSE links[m].status

Checks(m) ==
    EffectiveLink(m) = "approved" /\ IsLatest(m) /\ <<m, facts>> \in Matched

\* case_acceptance.snapshot
Snapshot(m) == [digest |-> Digest(m), effective |-> EffectiveLink(m), version |-> links[m].version]

\* acceptance_view
EffectiveAcceptance(x) ==
    LET row == acceptances[x] IN
    IF row.status = "rejected" THEN "rejected"
    ELSE IF row.expired THEN "expired"
    ELSE IF row.seen # Snapshot(row.link) THEN "stale"
    ELSE row.status

EvidenceInit ==
    /\ facts \in Facts
    /\ links = [m \in Linked |-> None]
    /\ acceptances = [x \in Acceptances |-> None]
    /\ clerks = [c \in Clerks |-> None]
    /\ changes = 0

Init == VersionsInit /\ EvidenceInit

Counts == changes < MaxChanges /\ changes' = changes + 1

At(c, op) == clerks[c] # None /\ clerks[c].op = op
Goes(c, record) == clerks' = [clerks EXCEPT ![c] = record]

\* FOR UPDATE of the association, or of the acceptance.
LinkFree(m) == \A c \in Clerks : ~ (At(c, "decide_link") /\ clerks[c].m = m)
AcceptanceFree(x) == \A c \in Clerks : ~ (At(c, "decide") /\ clerks[c].x = x)

-----------------------------------------------------------------------------
(* propose_association: is it the latest, the snapshot, the row. *)

ProposeLink(c, a, m) ==
    /\ clerks[c] = None
    /\ m \in stored /\ IsLatest(m)
    /\ Goes(c, [op |-> "latest", by |-> a, m |-> m])
    /\ UNCHANGED <<facts, links, acceptances, changes, versionVars>>

LinkSnapshot(c) ==
    /\ At(c, "latest")
    /\ Goes(c, [op |-> "propose_link", by |-> clerks[c].by, m |-> clerks[c].m,
                digest |-> Digest(clerks[c].m)])
    /\ UNCHANGED <<facts, links, acceptances, changes, versionVars>>

\* A live proposal of the same evidence stands; any other is proposed anew.
ProposeLinkCommits(c) ==
    LET m == clerks[c].m
        row == links[m]
        proposed(version) == [digest |-> clerks[c].digest, status |-> "pending_review",
                              version |-> version, by |-> clerks[c].by, reviewer |-> None]
    IN
    /\ At(c, "propose_link")
    /\ LinkFree(m)
    /\ \/ /\ row = None
          /\ links' = [links EXCEPT ![m] = proposed(1)]
          /\ UNCHANGED changes
       \/ /\ row # None
          /\ IF row.status # "rejected" /\ row.digest = clerks[c].digest
             THEN UNCHANGED <<links, changes>>
             ELSE links' = [links EXCEPT ![m] = proposed(row.version + 1)] /\ Counts
    /\ Goes(c, None)
    /\ UNCHANGED <<facts, acceptances, versionVars>>

-----------------------------------------------------------------------------
(* decide_association *)

DecideLink(c, a, m) ==
    /\ clerks[c] = None
    /\ links[m] # None /\ LinkFree(m)
    /\ a \notin {links[m].by, Creator[m]}
    /\ links[m].status = "pending_review"
    /\ links[m].digest = Digest(m)
    /\ Goes(c, [op |-> "decide_link", by |-> a, m |-> m])
    /\ UNCHANGED <<facts, links, acceptances, changes, versionVars>>

DecideLinkCommits(c, decision) ==
    /\ At(c, "decide_link")
    /\ links' = [links EXCEPT ![clerks[c].m] =
           [digest |-> @.digest, status |-> decision, version |-> @.version + 1, by |-> @.by,
            reviewer |-> clerks[c].by]]
    /\ Goes(c, None)
    /\ UNCHANGED <<facts, acceptances, changes, versionVars>>

-----------------------------------------------------------------------------
(* propose_acceptance; its idempotency key is the id of the record. *)

ProposeAcceptance(c, a, m, x) ==
    /\ clerks[c] = None
    /\ links[m] # None /\ EffectiveLink(m) = "approved"
    /\ acceptances[x] = None
    /\ Goes(c, [op |-> "propose", by |-> a, m |-> m, x |-> x, seen |-> Snapshot(m)])
    /\ UNCHANGED <<facts, links, acceptances, changes, versionVars>>

\* The unique key of the tenant refuses a second record of one request.
ProposeAcceptanceCommits(c) ==
    LET p == clerks[c] IN
    /\ At(c, "propose")
    /\ acceptances' = IF acceptances[p.x] # None THEN acceptances
                      ELSE [acceptances EXCEPT ![p.x] =
                                [link |-> p.m, seen |-> p.seen, status |-> "pending_review",
                                 by |-> p.by, reviewer |-> None, expired |-> FALSE]]
    /\ Goes(c, None)
    /\ UNCHANGED <<facts, links, changes, versionVars>>

-----------------------------------------------------------------------------
(* decide_acceptance *)

\* Mutant: whoever proposed the association below may decide.
Independent_OfProposer(a, x) == a \notin {acceptances[x].by, Creator[acceptances[x].link]}

Independent(a, x) ==
    LET row == acceptances[x] IN a \notin {row.by, links[row.link].by, Creator[row.link]}

DecideAcceptance(c, a, x) ==
    /\ clerks[c] = None
    /\ acceptances[x] # None /\ AcceptanceFree(x)
    /\ Independent(a, x)
    /\ acceptances[x].status = "pending_review"
    /\ ~ acceptances[x].expired
    /\ acceptances[x].seen = Snapshot(acceptances[x].link)
    /\ Goes(c, [op |-> "decide", by |-> a, x |-> x, ready |-> Checks(acceptances[x].link)])
    /\ UNCHANGED <<facts, links, acceptances, changes, versionVars>>

DecideAcceptanceCommits(c, decision) ==
    /\ At(c, "decide")
    /\ decision = "accepted" => clerks[c].ready
    /\ acceptances' = [acceptances EXCEPT ![clerks[c].x] =
           [@ EXCEPT !.status = decision, !.reviewer = clerks[c].by]]
    /\ Goes(c, None)
    /\ UNCHANGED <<facts, links, changes, versionVars>>

-----------------------------------------------------------------------------
\* Receipts, postings, protection or settings change what the report says, and may
\* change it back.
FactsChange(f) ==
    /\ f # facts /\ facts' = f
    /\ Counts
    /\ UNCHANGED <<links, acceptances, clerks, versionVars>>

Expire(x) ==
    /\ acceptances[x] # None /\ ~ acceptances[x].expired
    /\ Counts
    /\ acceptances' = [acceptances EXCEPT ![x].expired = TRUE]
    /\ UNCHANGED <<facts, links, clerks, versionVars>>

EvidenceNext ==
    \/ \E c \in Clerks :
        \/ \E a \in Actors, m \in Linked :
            ProposeLink(c, a, m) \/ DecideLink(c, a, m)
              \/ \E x \in Acceptances : ProposeAcceptance(c, a, m, x)
        \/ \E a \in Actors, x \in Acceptances : DecideAcceptance(c, a, x)
        \/ LinkSnapshot(c) \/ ProposeLinkCommits(c) \/ ProposeAcceptanceCommits(c)
        \/ \E d \in {"approved", "rejected"} : DecideLinkCommits(c, d)
        \/ \E d \in {"accepted", "rejected"} : DecideAcceptanceCommits(c, d)
    \/ \E f \in Facts : FactsChange(f)
    \/ \E x \in Acceptances : Expire(x)

Next == EvidenceNext \/ (VersionsNext /\ UNCHANGED evidenceVars)

EvidenceSpec == Init /\ [][Next]_vars

-----------------------------------------------------------------------------
(* Properties *)

\* Whatever changed, and was changed back, while people proposed and decided: a
\* record that shows as accepted rests on an association that shows as approved, on
\* the latest material, on checks that pass now, and on reviewers who had no part
\* in what they reviewed.
AcceptanceStands ==
    \A x \in Acceptances : acceptances[x] # None /\ EffectiveAcceptance(x) = "accepted" =>
        LET m == acceptances[x].link IN
        /\ Checks(m)
        /\ links[m].reviewer \notin {links[m].by, Creator[m], None}
        /\ acceptances[x].reviewer \notin {acceptances[x].by, links[m].by, Creator[m], None}
=============================================================================
