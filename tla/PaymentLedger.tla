--------------------------- MODULE PaymentLedger ---------------------------
(***************************************************************************)
(* Payment receipts, their reconciliation by two people, the immutable     *)
(* recovery and commission ledgers, and the settlement and collection of   *)
(* commission, for one tenant and one payment provider.                    *)
(*                                                                         *)
(* A webhook delivery is three steps: the look-up of the event id, the     *)
(* flush of the receipt (which owns the unique key from then on, and for a *)
(* refund locks the original ledger entry), and the commit.  A commission  *)
(* request is four: the row locks on the commission history, the balance   *)
(* it reads, the INSERT, the commit.  The reconciliation endpoints hold    *)
(* the row locks of receipt and review throughout and are one step each.   *)
(*                                                                         *)
(* An event id stands for a payload: what the provider signs for it is     *)
(* given by the constants.  A second payload under the same id is refused  *)
(* with 409 and changes nothing, so it has no action.                      *)
(***************************************************************************)
EXTENDS Integers, FiniteSets, FiniteSetsExt

CONSTANTS
    Events,         \* provider event ids
    Kind,           \* [Events -> {"payment", "refund"}]
    Amount,         \* [Events -> positive cents]
    Original,       \* [Events -> Events \cup {None}]  original_event_id
    CaseRef,        \* [Events -> case id the provider names, or None]
    Booked,         \* [Events -> date of occurred_at]
    Cases,          \* cases with a financial profile
    Ruled,          \* the cases whose package has an active commission rule
    MandateStart, MandateEnd,   \* CaseFinancialProfile, the same for every case
    TailEnd,        \* signed_plan_last_due of an eligible tail, 0 without one
    RateBps,        \* CommissionRule.rate_bps
    Hooks,          \* concurrent webhook deliveries
    Actors,         \* operators and admins
    Claims,         \* concurrent requests to POST /commissions/events
    Keys,           \* their idempotency keys
    ClaimAmounts,   \* the amounts they ask for
    Opening,        \* commission accrued before the behaviour starts
    LegacyMatch,    \* ALLOW_LEGACY_PAYMENT_MATCH
    MaxVersion,     \* bound: versions of one reconciliation
    None            \* SQL NULL

\* Of the constants; assumed where an instance gives them values.
LedgerAssumption ==
    /\ Kind \in [Events -> {"payment", "refund"}]
    /\ Amount \in [Events -> Nat \ {0}]
    /\ Original \in [Events -> Events \cup {None}]
    /\ None \notin Events \cup Cases \cup Actors \cup Keys
    /\ Booked \in [Events -> Nat]
    /\ Ruled \subseteq Cases
    /\ MandateStart \in Nat /\ MandateEnd \in Nat /\ TailEnd \in Nat
    /\ RateBps \in 0 .. 10000
    /\ ClaimAmounts \subseteq Nat \ {0}
    /\ Opening \in Nat
    /\ LegacyMatch \in BOOLEAN
    /\ MaxVersion \in Nat \ {0}

\* The commission history has a row that requests can lock.
HistoryAssumption == Opening > 0

VARIABLES
    receipts,   \* [Events -> payment_receipts row]
    entries,    \* [Events -> recovery_ledger row, or None]; entry_id is the event
    reviews,    \* [Events -> payment_reconciliations row, or None]
    screens,    \* [Actors -> the proposal an admin has open, or None]
    hooks,      \* [Hooks -> control state of the delivery]
    book,       \* the settlement and collection rows of the commission ledger
    claims      \* [Claims -> control state of the request]

vars == <<receipts, entries, reviews, screens, hooks, book, claims>>

-----------------------------------------------------------------------------
(* Types *)

CaseIds == Cases \cup {CaseRef[e] : e \in Events} \cup {None}

Reconcilable == {"unmatched", "review_required", "review_pending", "rejected"}

Receipt == [status : {"absent", "matched"} \cup Reconcilable, case : CaseIds]

Entry == [case : Cases, amount : Int, eligible : BOOLEAN, commission : Int]

Review == [status   : {"pending_review", "approved", "rejected"},
           version  : 1 .. MaxVersion,
           case     : Cases,
           proposer : Actors,
           reviewer : Actors \cup {None}]

Screen == [event : Events, version : 1 .. MaxVersion, case : Cases]

Hook == [pc : {"idle", "checked", "flushed"}, event : Events \cup {None},
         posts : BOOLEAN, locked : Events \cup {None}]

Book == [settled : Nat, collected : Nat, keys : SUBSET Keys]

Claim == [pc : {"idle", "locked", "checked"}, key : Keys \cup {None},
          type : {"settlement", "collection"}, amount : Nat, locks : BOOLEAN]

IdleHook == [pc |-> "idle", event |-> None, posts |-> FALSE,
             locked |-> None]

IdleClaim == [pc |-> "idle", key |-> None, type |-> "settlement",
              amount |-> 0, locks |-> FALSE]

\* SQL NULL is no row.
NoneIsNoRow == None \notin Entry /\ None \notin Review /\ None \notin Screen

-----------------------------------------------------------------------------
(* Commission arithmetic and the balances read from the ledgers *)

\* The commission of a positive amount; a refund's is its negation.
Commission(cents) == (cents * RateBps + 5000) \div 10000

Posted == {e \in Events : entries[e] # None}

RefundsOf(p) == {r \in Posted : Kind[r] = "refund" /\ Original[r] = p}

CommissionOf(events) == MapThenSumSet(LAMBDA e : entries[e].commission, events)

\* accrued_commission_cents of financial_summary.
Accrued == Opening + CommissionOf(Posted)

\* The recovery entry gets its commission row at once: one history.
HistoryExists == Opening > 0 \/ Posted # {} \/ book.keys # {}

-----------------------------------------------------------------------------
(* Reconciliation of one receipt with one case *)

\* The mandate period, then the tail of the signed plan.
Eligible(e) ==
    /\ Booked[e] >= MandateStart
    /\ Booked[e] <= MandateEnd \/ Booked[e] <= TailEnd

\* The payment a refund names, once it is matched.
OriginalPosted(e) ==
    /\ Original[e] # None
    /\ receipts[Original[e]].status = "matched"
    /\ Kind[Original[e]] = "payment"

Refunded(p) == MapThenSumSet(LAMBDA r : Amount[r], RefundsOf(p))

\* _reconcile_receipt raises unless this holds of event and case.
Postable(e, c) ==
    IF Kind[e] = "payment"
    THEN c \in Ruled
    ELSE /\ OriginalPosted(e)
         /\ entries[Original[e]].case = c
         /\ Refunded(Original[e]) + Amount[e] <= Amount[Original[e]]

\* The status a delivery leaves behind when it raises.
RefusedStatus(e, c) ==
    IF c = None \/ (Kind[e] = "payment" /\ c \notin Cases)
    THEN "unmatched" ELSE "review_required"

\* A refund inherits the eligibility of the payment it takes back.
EntryFor(e, c) ==
    LET sign == IF Kind[e] = "payment" THEN 1 ELSE -1
        ok   == IF Kind[e] = "payment" THEN Eligible(e)
                                       ELSE entries[Original[e]].eligible
    IN  [case       |-> c,
         amount     |-> sign * Amount[e],
         eligible   |-> ok,
         commission |-> IF ok THEN sign * Commission(Amount[e]) ELSE 0]

Post(e, c) ==
    /\ entries' = [entries EXCEPT ![e] = EntryFor(e, c)]
    /\ receipts' = [receipts EXCEPT ![e] = [status |-> "matched", case |-> c]]

\* The entry SELECT ... FOR UPDATE locks while a refund is reconciled.
LockedBy(e) ==
    IF Kind[e] = "refund" /\ OriginalPosted(e) THEN Original[e] ELSE None

\* Mutant: the original entry is read without FOR UPDATE.
Unlocked_NoLock(e) == TRUE

\* The lock is free, or not asked for.
Unlocked(e) ==
    LockedBy(e) # None => \A h \in Hooks : hooks[h].locked # LockedBy(e)

-----------------------------------------------------------------------------
Init ==
    /\ receipts = [e \in Events |-> [status |-> "absent", case |-> None]]
    /\ entries = [e \in Events |-> None]
    /\ reviews = [e \in Events |-> None]
    /\ screens = [a \in Actors |-> None]
    /\ hooks = [h \in Hooks |-> IdleHook]
    /\ book = [settled |-> 0, collected |-> 0, keys |-> {}]
    /\ claims = [r \in Claims |-> IdleClaim]

-----------------------------------------------------------------------------
(* accept_payment_webhook.  The provider may send an event any number of   *)
(* times, in any order; a delivery that finds the receipt counts itself in *)
(* duplicate_count and changes nothing else.                               *)

HookLooksUp(h, e) ==
    /\ hooks[h].pc = "idle"
    /\ receipts[e].status = "absent"
    /\ hooks' = [hooks EXCEPT ![h] = [IdleHook EXCEPT !.pc = "checked", !.event = e]]
    /\ UNCHANGED <<receipts, entries, reviews, screens, book, claims>>

\* The unique key lets one delivery of an event through; the next waits for
\* its commit and is then a duplicate.
HookFlushes(h) ==
    LET e == hooks[h].event IN
    /\ hooks[h].pc = "checked"
    /\ \A g \in Hooks : ~ (hooks[g].pc = "flushed" /\ hooks[g].event = e)
    /\ Unlocked(e)
    /\ hooks' = [hooks EXCEPT ![h] =
           IF receipts[e].status # "absent"
           THEN IdleHook
           ELSE [pc |-> "flushed", event |-> e,
                 posts |-> Postable(e, CaseRef[e]), locked |-> LockedBy(e)]]
    /\ UNCHANGED <<receipts, entries, reviews, screens, book, claims>>

HookCommits(h) ==
    LET e == hooks[h].event IN
    /\ hooks[h].pc = "flushed"
    /\ IF hooks[h].posts
       THEN Post(e, CaseRef[e])
       ELSE /\ receipts' = [receipts EXCEPT ![e] =
                  [status |-> RefusedStatus(e, CaseRef[e]), case |-> CaseRef[e]]]
            /\ UNCHANGED entries
    /\ hooks' = [hooks EXCEPT ![h] = IdleHook]
    /\ UNCHANGED <<reviews, screens, book, claims>>

\* The process or its connection is lost: the transaction rolls back.
HookDies(h) ==
    /\ hooks[h].pc # "idle"
    /\ hooks' = [hooks EXCEPT ![h] = IdleHook]
    /\ UNCHANGED <<receipts, entries, reviews, screens, book, claims>>

-----------------------------------------------------------------------------
(* Reconciliation by a maker and a checker *)

Pending(e) == reviews[e] # None /\ reviews[e].status = "pending_review"
Approved(e) == reviews[e] # None /\ reviews[e].status = "approved"

NextVersion(e) == IF reviews[e] = None THEN 1 ELSE reviews[e].version + 1

\* propose_payment_reconciliation: repeating one's own pending proposal
\* returns it, anything else on a pending or approved one is refused.
Propose(a, e, c) ==
    /\ receipts[e].status \in Reconcilable
    /\ ~ Pending(e)
    /\ ~ Approved(e)
    /\ NextVersion(e) <= MaxVersion
    /\ reviews' = [reviews EXCEPT ![e] =
           [status |-> "pending_review", version |-> NextVersion(e), case |-> c,
            proposer |-> a, reviewer |-> None]]
    /\ receipts' = [receipts EXCEPT ![e].status = "review_pending"]
    /\ UNCHANGED <<entries, screens, hooks, book, claims>>

\* An admin opens a pending proposal; the decision posts the version shown.
OpenReview(a, e) ==
    /\ Pending(e)
    /\ screens' = [screens EXCEPT ![a] =
           [event |-> e, version |-> reviews[e].version, case |-> reviews[e].case]]
    /\ UNCHANGED <<receipts, entries, reviews, hooks, book, claims>>

\* Mutant: the version is not compared.
MayDecide_AnyVersion(a, e) ==
    /\ Pending(e)
    /\ screens[a] # None
    /\ screens[a].event = e
    /\ reviews[e].proposer # a

\* The checks of decide_payment_reconciliation before it locks the receipt.
MayDecide(a, e) ==
    /\ Pending(e)
    /\ screens[a] # None
    /\ screens[a].event = e
    /\ screens[a].version = reviews[e].version
    /\ reviews[e].proposer # a

Decided(a, e, decision) ==
    /\ reviews[e].version < MaxVersion
    /\ reviews' = [reviews EXCEPT ![e] =
           [reviews[e] EXCEPT !.status = decision, !.version = @ + 1, !.reviewer = a]]

Reject(a, e) ==
    /\ MayDecide(a, e)
    /\ Decided(a, e, "rejected")
    /\ receipts' = [receipts EXCEPT ![e].status = "rejected"]
    /\ UNCHANGED <<entries, screens, hooks, book, claims>>

\* Mutant: the decision is recorded and the ledger left for later.
Approve_NotPosted(a, e) ==
    /\ MayDecide(a, e)
    /\ Decided(a, e, "approved")
    /\ receipts' = [receipts EXCEPT ![e].status = "matched"]
    /\ UNCHANGED <<entries, screens, hooks, book, claims>>

\* Mutant: the entry of a receipt matched meanwhile is written again.
Approve_Reposts(a, e) ==
    /\ MayDecide(a, e)
    /\ Decided(a, e, "approved")
    /\ Postable(e, reviews[e].case)
    /\ Unlocked(e)
    /\ Post(e, reviews[e].case)
    /\ UNCHANGED <<screens, hooks, book, claims>>

\* The receipt may have been matched meanwhile: the entry is then reused.
\* A case that cannot be posted rolls everything back (no action).
\* _reconcile_receipt returns early when the receipt has an entry, leaving
\* its status alone.
Approve(a, e) ==
    LET c == reviews[e].case IN
    /\ MayDecide(a, e)
    /\ Decided(a, e, "approved")
    /\ IF entries[e] # None
       THEN /\ receipts' = [receipts EXCEPT ![e].case =
                   IF receipts[e].status = "matched" THEN @ ELSE c]
            /\ UNCHANGED entries
       ELSE /\ Postable(e, c)
            /\ Unlocked(e)
            /\ Post(e, c)
    /\ UNCHANGED <<screens, hooks, book, claims>>

\* match_pending_payment_receipt, one admin in one step, off by default.
MatchDirectly(e, c) ==
    /\ LegacyMatch
    /\ receipts[e].status \notin {"absent", "matched"}
    /\ IF entries[e] # None
       THEN /\ receipts' = [receipts EXCEPT ![e].case = c]
            /\ UNCHANGED entries
       ELSE /\ Postable(e, c)
            /\ Unlocked(e)
            /\ Post(e, c)
    /\ UNCHANGED <<reviews, screens, hooks, book, claims>>

-----------------------------------------------------------------------------
(* record_commission_event.  FOR UPDATE locks the commission rows that      *)
(* exist; rows are never deleted, so two requests exclude each other as     *)
(* soon as the earlier one found a row to lock.                             *)

\* Mutant: the history is not locked.
ClaimLocks_None(r, k, type, amount) ==
    /\ claims[r].pc = "idle"
    /\ claims' = [claims EXCEPT ![r] =
           [pc |-> "locked", key |-> k, type |-> type, amount |-> amount,
            locks |-> FALSE]]
    /\ UNCHANGED <<receipts, entries, reviews, screens, hooks, book>>

ClaimLocks(r, k, type, amount) ==
    /\ claims[r].pc = "idle"
    /\ \A q \in Claims : ~ claims[q].locks
    /\ claims' = [claims EXCEPT ![r] =
           [pc |-> "locked", key |-> k, type |-> type, amount |-> amount,
            locks |-> HistoryExists]]
    /\ UNCHANGED <<receipts, entries, reviews, screens, hooks, book>>

\* The balance a request may use up.
Covered(type, amount) ==
    IF type = "settlement" THEN amount <= Accrued - book.settled
                           ELSE amount <= book.settled - book.collected

\* A known key returns its event, an uncovered amount is refused with 409.
ClaimChecks(r) ==
    LET q == claims[r] IN
    /\ q.pc = "locked"
    /\ claims' = [claims EXCEPT ![r] =
           IF q.key \notin book.keys /\ Covered(q.type, q.amount)
           THEN [q EXCEPT !.pc = "checked"] ELSE IdleClaim]
    /\ UNCHANGED <<receipts, entries, reviews, screens, hooks, book>>

BookedClaim(q) ==
    IF q.type = "settlement"
    THEN [book EXCEPT !.settled = @ + q.amount, !.keys = @ \cup {q.key}]
    ELSE [book EXCEPT !.collected = @ + q.amount, !.keys = @ \cup {q.key}]

\* INSERT and commit; the unique key refuses a second row with this key.
ClaimCommits(r) ==
    LET q == claims[r] IN
    /\ q.pc = "checked"
    /\ book' = IF q.key \in book.keys THEN book ELSE BookedClaim(q)
    /\ claims' = [claims EXCEPT ![r] = IdleClaim]
    /\ UNCHANGED <<receipts, entries, reviews, screens, hooks>>

ClaimDies(r) ==
    /\ claims[r].pc # "idle"
    /\ claims' = [claims EXCEPT ![r] = IdleClaim]
    /\ UNCHANGED <<receipts, entries, reviews, screens, hooks, book>>

-----------------------------------------------------------------------------
Deliver ==
    \/ \E h \in Hooks, e \in Events : HookLooksUp(h, e)
    \/ \E h \in Hooks : HookFlushes(h)
    \/ \E h \in Hooks : HookCommits(h)
    \/ \E h \in Hooks : HookDies(h)

Reconcile ==
    \/ \E a \in Actors, e \in Events, c \in Cases : Propose(a, e, c)
    \/ \E a \in Actors, e \in Events :
          OpenReview(a, e) \/ Reject(a, e) \/ Approve(a, e)
    \/ \E e \in Events, c \in Cases : MatchDirectly(e, c)

Settle ==
    \/ \E r \in Claims, k \in Keys, amount \in ClaimAmounts :
          \/ ClaimLocks(r, k, "settlement", amount)
          \/ ClaimLocks(r, k, "collection", amount)
    \/ \E r \in Claims : ClaimChecks(r) \/ ClaimCommits(r) \/ ClaimDies(r)

Next == Deliver \/ Reconcile \/ Settle

Spec == Init /\ [][Next]_vars

-----------------------------------------------------------------------------
(* Properties *)

TypeOK ==
    /\ receipts \in [Events -> Receipt]
    /\ entries \in [Events -> Entry \cup {None}]
    /\ reviews \in [Events -> Review \cup {None}]
    /\ screens \in [Actors -> Screen \cup {None}]
    /\ hooks \in [Hooks -> Hook]
    /\ book \in Book
    /\ claims \in [Claims -> Claim]

\* Money and its evidence agree: a ledger entry exists exactly for the matched
\* receipts, it is booked on the receipt's case, and an approved proposal never
\* lacks its entry, nor a rejected or open one have one.
LedgerMatchesReceipts ==
    \A e \in Events :
        /\ (entries[e] # None) <=> (receipts[e].status = "matched")
        /\ entries[e] # None => entries[e].case = receipts[e].case
        /\ reviews[e] # None =>
              (reviews[e].status = "approved" <=> entries[e] # None)

\* Refunds, however many deliveries race and whatever reviewers approve,
\* never exceed the payment they take back, and are booked on its case with
\* its eligibility.
RefundsFollowPayment ==
    \A p \in Posted : Kind[p] = "payment" =>
        /\ Refunded(p) <= Amount[p]
        /\ \A r \in RefundsOf(p) : /\ entries[r].case = entries[p].case
                                   /\ entries[r].eligible = entries[p].eligible

\* Rounding to the cent, once per entry, moves the net commission of a
\* payment and its refunds by at most half a cent per entry.
RoundingBounded ==
    \A p \in Posted : Kind[p] = "payment" /\ entries[p].eligible =>
        LET family == {p} \cup RefundsOf(p)
            exact  == (Amount[p] - Refunded(p)) * RateBps
            drift  == 10000 * CommissionOf(family) - exact
        IN  /\ 2 * drift <= 10000 * Cardinality(family)
            /\ -2 * drift <= 10000 * Cardinality(family)

\* What a checker approves is what the checker was shown: the entry lands on
\* the case of the proposal version on screen, and the checker is not its
\* maker.
ApprovesAsShown ==
    \A e \in Events :
        Pending(e) /\ reviews'[e].status = "approved" =>
            \E a \in Actors :
                /\ screens[a] # None
                /\ screens[a].event = e
                /\ entries'[e].case = screens[a].case
                /\ a # reviews[e].proposer

\* A recovery entry, once booked, is neither changed nor removed.
KeepsEntries == \A e \in Posted : entries'[e] = entries[e]

\* Commission is collected only out of what was settled, and settled only out
\* of what was accrued before refunds: concurrent requests cannot spend a
\* balance twice.
GrossAccrued ==
    Opening + CommissionOf({e \in Posted : entries[e].commission > 0})

BalancesCovered ==
    /\ book.collected <= book.settled
    /\ book.settled <= GrossAccrued
=============================================================================
