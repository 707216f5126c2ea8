---------------------------- MODULE AssetImports ----------------------------
(***************************************************************************)
(* How cases enter a tenant.  A file is previewed by one person: parsed,   *)
(* compared with what the tenant already has, and kept as a batch of the   *)
(* rows that are new.  Another person commits the batch, which creates its *)
(* packages, commission rules, cases and financial profiles together.      *)
(*                                                                         *)
(* A preview reads without a lock and inserts later; commits of a tenant   *)
(* take turns.                                                             *)
(***************************************************************************)
EXTENDS Naturals, FiniteSets

CONSTANTS
    Users,
    Keys,       \* idempotency keys, and so the batches made under them
    Files,      \* bound: the files that are previewed, each a set of rows
    Requests,   \* requests that may be under way at once
    MaxDay,     \* bound: days that pass
    None

\* Of the constants; assumed where an instance gives them values.
ImportsAssumption ==
    /\ MaxDay \in Nat
    /\ \A file \in Files : IsFiniteSet(file)
    /\ None \notin Users \cup Keys

VARIABLES
    batches,    \* [Keys -> asset_import_batches row, or None]
    packages,   \* [package ids -> title, or None]
    rules,      \* [commission rule ids -> its one version, or None]
    cases,      \* [case ids -> case_records and case_financial_profiles row, or None]
    requests,   \* [Requests -> what the request has read, or None]
    today

vars == <<batches, packages, rules, cases, requests, today>>
tenantVars == <<packages, rules, cases>>

-----------------------------------------------------------------------------
Rows == UNION Files
CaseIds == {r.case : r \in Rows}
PackageIds == {r.package : r \in Rows}
RuleIds == {r.rule : r \in Rows}

Rule(r) == [package |-> r.package, rate |-> r.rate]

Case(r, k) == [package |-> r.package, rule |-> r.rule, until |-> r.until, batch |-> k]

Batch == [rows : SUBSET Rows, file : Files, created_by : Users, committed_by : Users \cup {None},
          status : {"blocked", "ready", "committed"}]

\* NULL is no title and no row.
NoneIsNoRow ==
    /\ None \notin Batch
    /\ \A r \in Rows, k \in Keys : None \notin {r.title, Rule(r), Case(r, k)}

Init ==
    /\ batches = [k \in Keys |-> None]
    /\ packages = [p \in PackageIds |-> None]
    /\ rules = [p \in RuleIds |-> None]
    /\ cases = [p \in CaseIds |-> None]
    /\ requests = [q \in Requests |-> None]
    /\ today = 0

Busy == {q \in Requests : requests[q] # None}
Goes(q, record) == requests' = [requests EXCEPT ![q] = record]

\* Two rows of one file that cannot both be meant.
Contradict(r, s) ==
    \/ r.case = s.case
    \/ r.package = s.package /\ r.title # s.title
    \/ r.rule = s.rule /\ Rule(r) # Rule(s)

Expired(r) == r.until < today

\* The errors of a file in itself (_parse_csv).
Faulty(file) == {r \in file : Expired(r) \/ \E s \in file \ {r} : Contradict(r, s)}

TitleAgrees(r) == packages[r.package] \in {None, r.title}

\* Mutant: any active rule of that name will do.
RuleAgrees_AnyActive(r) == TRUE

RuleAgrees(r) == rules[r.rule] \in {None, Rule(r)}

-----------------------------------------------------------------------------
(* create_import_preview *)

\* The same key is the same preview, or a refusal; otherwise the file is compared with
\* what the tenant has now.  Cases that exist are left out, everything else must agree.
PreviewReads(q, u, k, file) ==
    LET new == {r \in file : cases[r.case] = None}
        good == {r \in new : TitleAgrees(r) /\ RuleAgrees(r)}
    IN
    /\ requests[q] = None /\ batches[k] = None
    /\ Goes(q, [op |-> "preview", key |-> k,
                batch |-> [rows |-> good, file |-> file, created_by |-> u, committed_by |-> None,
                           status |-> IF Faulty(file) # {} \/ new # good \/ good = {}
                                      THEN "blocked" ELSE "ready"]])
    /\ UNCHANGED <<batches, tenantVars, today>>

\* A batch made under the same key meanwhile wins; this request fails.
PreviewInserts(q) ==
    LET k == requests[q].key IN
    /\ requests[q] # None /\ requests[q].op = "preview"
    /\ batches' = IF batches[k] = None THEN [batches EXCEPT ![k] = requests[q].batch] ELSE batches
    /\ Goes(q, None)
    /\ UNCHANGED <<tenantVars, today>>

-----------------------------------------------------------------------------
(* commit_import_batch *)

\* pg_advisory_xact_lock of the tenant's imports.
ImportsFree == \A q \in Busy : requests[q].op # "commit"

\* Committing a committed batch again answers the batch and changes nothing.
CommitReads(q, u, k) ==
    /\ requests[q] = None /\ batches[k] # None /\ ImportsFree
    /\ LET batch == batches[k] IN
       /\ batch.status = "ready"
       /\ batch.created_by # u
       /\ \A r \in batch.rows : cases[r.case] = None /\ TitleAgrees(r) /\ RuleAgrees(r)
    /\ Goes(q, [op |-> "commit", key |-> k, by |-> u])
    /\ UNCHANGED <<batches, tenantVars, today>>

\* Rows of a ready batch that name the same thing agree about it.
Any(rows) == CHOOSE r \in rows : TRUE

CommitWrites(q) ==
    LET k == requests[q].key
        rows == batches[k].rows
    IN
    /\ requests[q] # None /\ requests[q].op = "commit"
    /\ batches' = [batches EXCEPT ![k].status = "committed", ![k].committed_by = requests[q].by]
    /\ packages' = [p \in PackageIds |->
           LET named == {r \in rows : r.package = p} IN
           IF named = {} THEN packages[p] ELSE Any(named).title]
    /\ rules' = [p \in RuleIds |->
           LET named == {r \in rows : r.rule = p} IN
           IF named = {} \/ rules[p] # None THEN rules[p] ELSE Rule(Any(named))]
    /\ cases' = [c \in CaseIds |->
           LET named == {r \in rows : r.case = c} IN
           IF named = {} THEN cases[c] ELSE Case(Any(named), k)]
    /\ Goes(q, None)
    /\ UNCHANGED today

DayPasses ==
    /\ today < MaxDay /\ today' = today + 1
    /\ UNCHANGED <<batches, tenantVars, requests>>

Next ==
    \/ \E q \in Requests, u \in Users, k \in Keys :
        \/ \E file \in Files : PreviewReads(q, u, k, file)
        \/ CommitReads(q, u, k)
    \/ \E q \in Requests : PreviewInserts(q) \/ CommitWrites(q)
    \/ DayPasses

Spec == Init /\ [][Next]_vars

-----------------------------------------------------------------------------
(* Properties *)

TypeOK ==
    /\ \A k \in Keys : batches[k] # None =>
        batches[k] \in Batch /\ batches[k].rows \subseteq batches[k].file
    /\ today \in 0..MaxDay

\* What two people agreed on is what there is: each case stands as a row of the batch
\* it came from, under the title and the commission that row shows, whatever was
\* imported in between; and a committed batch is there as a whole.
ImportedAsReviewed ==
    /\ \A c \in CaseIds : cases[c] # None =>
        \E r \in batches[cases[c].batch].rows :
            /\ r.case = c
            /\ cases[c].package = r.package /\ packages[r.package] = r.title
            /\ cases[c].rule = r.rule /\ rules[r.rule] = Rule(r)
    /\ \A k \in Keys : batches[k] # None =>
        IF batches[k].status = "committed"
        THEN /\ batches[k].committed_by \in Users \ {batches[k].created_by}
             /\ \A r \in batches[k].rows : cases[r.case] # None /\ cases[r.case].batch = k
        ELSE \A c \in CaseIds : cases[c] = None \/ cases[c].batch # k
=============================================================================
