------------------------- MODULE PaymentLedgerProofs -------------------------
(***************************************************************************)
(* What holds of the ledger of payments for any set of events and cases,   *)
(* any number of deliveries, reviewers and commission requests: entries    *)
(* are never changed, a refund is booked where its payment is and never    *)
(* exceeds it, rounding stays within half a cent an entry, a checker       *)
(* approves what was shown, money and evidence agree, and no balance of    *)
(* commission is spent twice.                                              *)
(***************************************************************************)
EXTENDS PaymentLedger, FiniteSums, TLAPS

-----------------------------------------------------------------------------
(* The inductive invariant *)

\* A delivery or a commission request at work knows its event or its key.
NamesExist ==
    /\ \A h \in Hooks : hooks[h].pc # "idle" => hooks[h].event \in Events
    /\ \A r \in Claims : claims[r].pc # "idle" => claims[r].key \in Keys

\* What never arrived is neither posted nor reviewed, and what is matched is posted.
EvidenceFirst ==
    \A e \in Events :
        /\ receipts[e].status = "absent" => entries[e] = None /\ reviews[e] = None
        /\ receipts[e].status = "matched" => entries[e] # None

\* What Postable says of an event and a case that stays so: the sum of refunds apart.
Fits(e, c) ==
    \/ Kind[e] = "payment" /\ c \in Ruled
    \/ /\ Kind[e] = "refund" /\ Original[e] \in Events
       /\ entries[Original[e]] # None /\ Kind[Original[e]] = "payment"
       /\ entries[Original[e]].case = c

\* A delivery that has inserted its receipt is alone with the event, and what it found still
\* stands.
DeliversAlone ==
    \A h \in Hooks : hooks[h].pc = "flushed" =>
        /\ receipts[hooks[h].event].status = "absent"
        /\ \A g \in Hooks :
              hooks[g].pc = "flushed" /\ hooks[g].event = hooks[h].event => g = h
        /\ hooks[h].posts => Fits(hooks[h].event, CaseRef[hooks[h].event])

\* The version on a screen is one the proposal has, or had.
ScreensAreTrue ==
    \A a \in Actors : screens[a] # None =>
        LET seen == screens[a] IN
        /\ reviews[seen.event] # None
        /\ seen.version <= reviews[seen.event].version
        /\ seen.version = reviews[seen.event].version =>
              seen.case = reviews[seen.event].case

\* A refund is booked on the case of its payment, with its eligibility.
RefundsAreBooked ==
    \A r \in Events : entries[r] # None /\ Kind[r] = "refund" =>
        /\ Fits(r, entries[r].case)
        /\ entries[r].eligible = entries[Original[r]].eligible

Inv ==
    /\ TypeOK
    /\ NamesExist
    /\ EvidenceFirst
    /\ DeliversAlone
    /\ ScreensAreTrue
    /\ RefundsAreBooked

LEMMA InitInv == ASSUME LedgerAssumption, NoneIsNoRow PROVE Init => Inv
<1> SUFFICES ASSUME Init PROVE Inv
  OBVIOUS
<1>1. TypeOK
  BY DEF LedgerAssumption, Init, TypeOK, Receipt, CaseIds, Hook, Book, Claim, IdleHook,
         IdleClaim
<1> QED
  BY <1>1 DEF Init, Inv, NamesExist, EvidenceFirst, DeliversAlone, ScreensAreTrue,
              RefundsAreBooked, IdleHook, IdleClaim

-----------------------------------------------------------------------------
(* Posting *)

\* What can be posted fits.
LEMMA PostableFits ==
    ASSUME LedgerAssumption, Inv, NEW e \in Events, NEW c, Postable(e, c)
    PROVE  Fits(e, c)
BY DEF LedgerAssumption, Inv, EvidenceFirst, Postable, OriginalPosted, Fits

\* The commission of an amount is a number of cents.
LEMMA CommissionIsInt ==
    ASSUME LedgerAssumption, NEW e \in Events
    PROVE  Commission(Amount[e]) \in Int
<1>1. Amount[e] \in Int /\ RateBps \in Int
  BY DEF LedgerAssumption
<1>2. Amount[e] * RateBps \in Int
  BY <1>1
<1> QED
  BY <1>2 DEF Commission

\* An entry for a case that fits is an entry, and follows the payment it takes back.
LEMMA EntryFits ==
    ASSUME LedgerAssumption, NoneIsNoRow, Inv, NEW e \in Events, NEW c, Fits(e, c)
    PROVE  /\ c \in Cases
           /\ EntryFor(e, c) \in Entry
           /\ EntryFor(e, c) # None
           /\ EntryFor(e, c).case = c
           /\ Kind[e] = "refund" =>
                 EntryFor(e, c).eligible = entries[Original[e]].eligible
<1> DEFINE ok == IF Kind[e] = "payment" THEN Eligible(e) ELSE entries[Original[e]].eligible
           sign == IF Kind[e] = "payment" THEN 1 ELSE -1
           cents == IF ok THEN sign * Commission(Amount[e]) ELSE 0
<1>1. c \in Cases
  BY DEF LedgerAssumption, Inv, TypeOK, Fits, Entry
<1>2. ok \in BOOLEAN
  <2>1. Eligible(e) \in BOOLEAN
    BY DEF Eligible
  <2>2. Kind[e] # "payment" => entries[Original[e]].eligible \in BOOLEAN
    BY DEF Inv, TypeOK, Fits, Entry
  <2> QED
    BY <2>1, <2>2, Zenon
<1>3. sign * Amount[e] \in Int /\ cents \in Int
  BY CommissionIsInt DEF LedgerAssumption
<1>4. EntryFor(e, c) =
        [case |-> c, amount |-> sign * Amount[e], eligible |-> ok, commission |-> cents]
  BY Zenon DEF EntryFor
<1> HIDE DEF ok, sign, cents
<1>5. EntryFor(e, c) \in Entry
  BY <1>1, <1>2, <1>3, <1>4 DEF Entry
<1>6. EntryFor(e, c) # None
  BY <1>5 DEF NoneIsNoRow
<1>7. Kind[e] = "refund" => EntryFor(e, c).eligible = entries[Original[e]].eligible
  BY <1>4 DEF ok
<1> QED
  BY <1>1, <1>4, <1>5, <1>6, <1>7

\* A posted event has an entry from then on, and no other event's is touched.
LEMMA Posts ==
    ASSUME LedgerAssumption, NoneIsNoRow, Inv, NEW e \in Events, NEW c,
           entries[e] = None, Fits(e, c), Post(e, c)
    PROVE  /\ entries' \in [Events -> Entry \cup {None}]
           /\ receipts' \in [Events -> Receipt]
           /\ entries'[e] # None /\ entries'[e].case = c
           /\ receipts'[e] = [status |-> "matched", case |-> c]
           /\ \A d \in Events \ {e} : entries'[d] = entries[d] /\ receipts'[d] = receipts[d]
           /\ RefundsAreBooked'
           /\ \A d \in Events, k \in CaseIds : Fits(d, k) => Fits(d, k)'
<1> DEFINE new == EntryFor(e, c)
<1>1. /\ c \in Cases /\ new \in Entry /\ new # None /\ new.case = c
      /\ Kind[e] = "refund" => new.eligible = entries[Original[e]].eligible
  BY EntryFits
<1>2. /\ entries' = [entries EXCEPT ![e] = new]
      /\ receipts' = [receipts EXCEPT ![e] = [status |-> "matched", case |-> c]]
  BY DEF Post
<1> HIDE DEF new
<1>3. entries \in [Events -> Entry \cup {None}] /\ receipts \in [Events -> Receipt]
  BY DEF Inv, TypeOK
<1>4. [status |-> "matched", case |-> c] \in Receipt
  BY <1>1 DEF Receipt, CaseIds
<1>5. /\ entries' \in [Events -> Entry \cup {None}] /\ receipts' \in [Events -> Receipt]
      /\ entries'[e] = new /\ receipts'[e] = [status |-> "matched", case |-> c]
      /\ \A d \in Events \ {e} : entries'[d] = entries[d] /\ receipts'[d] = receipts[d]
  BY <1>1, <1>2, <1>3, <1>4
<1>6. \A d \in Events : \A k : Fits(d, k) => Fits(d, k)'
  BY <1>5 DEF Fits
<1>7. RefundsAreBooked'
  <2> SUFFICES ASSUME NEW r \in Events, entries'[r] # None, Kind[r] = "refund"
               PROVE  /\ Fits(r, entries[r].case)'
                      /\ entries'[r].eligible = entries'[Original[r]].eligible
    BY DEF RefundsAreBooked
  <2>1. CASE r = e
    <3>1. Fits(r, c)' /\ entries'[r] = new /\ Original[r] # e
      BY <1>5, <1>6, <2>1 DEF Fits
    <3>2. Original[r] \in Events
      BY <3>1 DEF Fits
    <3> QED
      BY <1>1, <1>5, <2>1, <3>1, <3>2
  <2>2. CASE r # e
    <3>1. entries'[r] = entries[r] /\ Fits(r, entries[r].case)
      BY <1>5, <2>2 DEF Inv, RefundsAreBooked
    <3>2. Original[r] \in Events \ {e}
      BY <3>1 DEF Fits
    <3>3. Fits(r, entries[r].case)'
      BY <1>5, <3>1, <3>2 DEF Fits
    <3> QED
      BY <1>5, <2>2, <3>1, <3>2, <3>3 DEF Inv, RefundsAreBooked
  <2> QED
    BY <2>1, <2>2
<1> QED
  BY <1>1, <1>5, <1>6, <1>7

-----------------------------------------------------------------------------
(* Deliveries *)

\* What a step keeps that changes only requests at work.
LEMMA RequestsOnly ==
    ASSUME Inv, UNCHANGED <<receipts, entries, reviews, screens>>
    PROVE  /\ EvidenceFirst' /\ ScreensAreTrue' /\ RefundsAreBooked'
           /\ \A e \in Events : \A k : Fits(e, k)' <=> Fits(e, k)
<1>1. \A e \in Events : \A k : Fits(e, k)' <=> Fits(e, k)
  BY DEF Fits
<1>2. RefundsAreBooked'
  <2> SUFFICES ASSUME NEW r \in Events, entries[r] # None, Kind[r] = "refund"
               PROVE  /\ Fits(r, entries[r].case)'
                      /\ entries[r].eligible = entries[Original[r]].eligible
    BY DEF RefundsAreBooked
  <2>1. Fits(r, entries[r].case)
    BY DEF Inv, RefundsAreBooked
  <2> QED
    BY <2>1 DEF Inv, RefundsAreBooked, Fits
<1> QED
  BY <1>1, <1>2 DEF Inv, EvidenceFirst, ScreensAreTrue

\* A delivery that changes nothing but itself, and is not flushed afterwards.
LEMMA HookMoves ==
    ASSUME Inv, NEW h \in Hooks, NEW hook \in Hook,
           hook.pc # "idle" => hook.event \in Events, hook.pc # "flushed",
           hooks' = [hooks EXCEPT ![h] = hook],
           UNCHANGED <<receipts, entries, reviews, screens, book, claims>>
    PROVE  Inv'
<1>1. /\ hooks' \in [Hooks -> Hook] /\ hooks'[h] = hook
      /\ \A g \in Hooks \ {h} : hooks'[g] = hooks[g]
  BY DEF Inv, TypeOK
<1>2. TypeOK' /\ NamesExist'
  BY <1>1 DEF Inv, TypeOK, NamesExist
<1>3. DeliversAlone'
  <2> SUFFICES ASSUME NEW g \in Hooks, hooks'[g].pc = "flushed"
               PROVE  /\ receipts[hooks[g].event].status = "absent"
                      /\ \A f \in Hooks :
                            hooks'[f].pc = "flushed" /\ hooks'[f].event = hooks[g].event => f = g
                      /\ hooks[g].posts => Fits(hooks[g].event, CaseRef[hooks[g].event])'
    BY <1>1 DEF DeliversAlone
  <2>1. g # h /\ hooks'[g] = hooks[g] /\ hooks[g].event \in Events
    BY <1>1 DEF Inv, NamesExist
  <2> QED
    BY <1>1, <2>1, RequestsOnly DEF Inv, DeliversAlone
<1> QED
  BY <1>2, <1>3, RequestsOnly DEF Inv

LEMMA IdleHooks == ASSUME LedgerAssumption PROVE IdleHook \in Hook /\ IdleHook.pc = "idle"
BY DEF IdleHook, Hook

LEMMA HookLooksUpInv ==
    ASSUME LedgerAssumption, Inv, NEW h \in Hooks, NEW e \in Events, HookLooksUp(h, e)
    PROVE  Inv'
<1> DEFINE hook == [IdleHook EXCEPT !.pc = "checked", !.event = e]
<1>1. hook \in Hook /\ hook.pc = "checked" /\ hook.event = e
  BY DEF IdleHook, Hook
<1>2. /\ hooks' = [hooks EXCEPT ![h] = hook]
      /\ UNCHANGED <<receipts, entries, reviews, screens, book, claims>>
  BY DEF HookLooksUp
<1> HIDE DEF hook
<1> QED
  BY <1>1, <1>2, HookMoves

LEMMA HookDiesInv ==
    ASSUME LedgerAssumption, Inv, NEW h \in Hooks, HookDies(h)
    PROVE  Inv'
BY IdleHooks, HookMoves DEF HookDies

LEMMA HookFlushesInv ==
    ASSUME LedgerAssumption, Inv, NEW h \in Hooks, HookFlushes(h)
    PROVE  Inv'
<1>1. PICK e \in Events : e = hooks[h].event
  BY DEF HookFlushes, Inv, NamesExist
<1>2. UNCHANGED <<receipts, entries, reviews, screens, book, claims>>
  BY DEF HookFlushes
<1>3. CASE receipts[e].status # "absent"
  <2>1. hooks' = [hooks EXCEPT ![h] = IdleHook]
    BY <1>1, <1>3 DEF HookFlushes
  <2> QED
    BY <1>2, <2>1, IdleHooks, HookMoves
<1>4. CASE receipts[e].status = "absent"
  <2> DEFINE hook == [pc |-> "flushed", event |-> e, posts |-> Postable(e, CaseRef[e]),
                      locked |-> LockedBy(e)]
  <2>1. hooks' = [hooks EXCEPT ![h] = hook]
    BY <1>1, <1>4 DEF HookFlushes
  <2>2. hook \in Hook
    <3>1. Postable(e, CaseRef[e]) \in BOOLEAN
      <4>1. CASE Kind[e] = "payment"
        <5>1. (CaseRef[e] \in Ruled) \in BOOLEAN
          OBVIOUS
        <5>2. Postable(e, CaseRef[e]) = (CaseRef[e] \in Ruled)
          BY <4>1, Zenon DEF Postable
        <5> QED
          BY <5>1, <5>2
      <4>2. CASE Kind[e] # "payment"
        <5> DEFINE fits == /\ OriginalPosted(e)
                           /\ entries[Original[e]].case = CaseRef[e]
                           /\ Refunded(Original[e]) + Amount[e] <= Amount[Original[e]]
        <5>1. fits \in BOOLEAN
          BY Zenon
        <5>2. Postable(e, CaseRef[e]) = fits
          BY <4>2, Zenon DEF Postable
        <5> HIDE DEF fits
        <5> QED
          BY <5>1, <5>2
      <4> QED
        BY <4>1, <4>2
    <3>2. LockedBy(e) \in Events \cup {None}
      BY DEF LockedBy, OriginalPosted, LedgerAssumption
    <3> QED
      BY <3>1, <3>2 DEF Hook
  <2>3. hook.posts => Fits(e, CaseRef[e])
    BY PostableFits
  <2>4. hook.pc = "flushed" /\ hook.event = e
    OBVIOUS
  <2> HIDE DEF hook
  <2>5. /\ hooks' \in [Hooks -> Hook] /\ hooks'[h] = hook
        /\ \A g \in Hooks \ {h} : hooks'[g] = hooks[g]
    BY <2>1, <2>2 DEF Inv, TypeOK
  <2>6. TypeOK' /\ NamesExist'
    BY <1>2, <2>4, <2>5 DEF Inv, TypeOK, NamesExist
  <2>7. \A g \in Hooks \ {h} : ~ (hooks[g].pc = "flushed" /\ hooks[g].event = e)
    BY <1>1 DEF HookFlushes
  <2>8. DeliversAlone'
    <3> SUFFICES ASSUME NEW g \in Hooks, hooks'[g].pc = "flushed"
                 PROVE  /\ receipts[hooks'[g].event].status = "absent"
                        /\ \A f \in Hooks :
                              hooks'[f].pc = "flushed" /\ hooks'[f].event = hooks'[g].event
                                  => f = g
                        /\ hooks'[g].posts => Fits(hooks[g].event, CaseRef[hooks[g].event])'
      BY <1>2 DEF DeliversAlone
    <3>1. CASE g = h
      <4>1. Fits(e, CaseRef[e])' <=> Fits(e, CaseRef[e])
        BY <1>2, RequestsOnly
      <4> QED
        BY <1>4, <2>3, <2>4, <2>5, <2>7, <3>1, <4>1
    <3>2. CASE g # h
      <4>1. hooks'[g] = hooks[g] /\ hooks[g].event \in Events /\ hooks[g].event # e
        BY <2>5, <2>7, <3>2 DEF Inv, NamesExist
      <4>2. \A k : Fits(hooks[g].event, k)' <=> Fits(hooks[g].event, k)
        BY <1>2, <4>1 DEF Fits
      <4> QED
        BY <2>4, <2>5, <3>2, <4>1, <4>2 DEF Inv, DeliversAlone
    <3> QED
      BY <3>1, <3>2
  <2> QED
    BY <1>2, <2>6, <2>8, RequestsOnly DEF Inv
<1> QED
  BY <1>3, <1>4

\* The commit of a delivery: its own receipt, and an entry if it was found to fit.
LEMMA HookCommitsInv ==
    ASSUME LedgerAssumption, NoneIsNoRow, Inv, NEW h \in Hooks, HookCommits(h)
    PROVE  Inv' /\ KeepsEntries
<1>1. PICK e \in Events : e = hooks[h].event
  BY DEF HookCommits, Inv, NamesExist
<1>2. PICK c \in CaseIds : c = CaseRef[e]
  BY DEF CaseIds
<1>3. /\ receipts[e].status = "absent" /\ entries[e] = None /\ reviews[e] = None
      /\ \A g \in Hooks \ {h} : hooks[g].pc = "flushed" => hooks[g].event # e
      /\ hooks[h].posts => Fits(e, c)
  BY <1>1, <1>2 DEF HookCommits, Inv, DeliversAlone, EvidenceFirst
<1>4. /\ hooks' \in [Hooks -> Hook] /\ hooks'[h].pc = "idle"
      /\ \A g \in Hooks \ {h} : hooks'[g] = hooks[g]
  BY IdleHooks DEF HookCommits, Inv, TypeOK
<1>5. UNCHANGED <<reviews, screens, book, claims>>
  BY DEF HookCommits
<1>6. /\ entries' \in [Events -> Entry \cup {None}] /\ receipts' \in [Events -> Receipt]
      /\ receipts'[e].status # "absent"
      /\ receipts'[e].status = "matched" => entries'[e] # None
      /\ \A d \in Events \ {e} : entries'[d] = entries[d] /\ receipts'[d] = receipts[d]
      /\ RefundsAreBooked'
      /\ \A d \in Events, k \in CaseIds : Fits(d, k) => Fits(d, k)'
  <2>1. CASE hooks[h].posts
    <3>1. Post(e, c)
      BY <1>1, <1>2, <2>1 DEF HookCommits
    <3>2. Fits(e, c) /\ entries[e] = None
      BY <1>3, <2>1
    <3>3. /\ entries' \in [Events -> Entry \cup {None}] /\ receipts' \in [Events -> Receipt]
          /\ entries'[e] # None /\ receipts'[e] = [status |-> "matched", case |-> c]
          /\ \A d \in Events \ {e} : entries'[d] = entries[d] /\ receipts'[d] = receipts[d]
          /\ RefundsAreBooked'
          /\ \A d \in Events, k \in CaseIds : Fits(d, k) => Fits(d, k)'
      BY <3>1, <3>2, Posts
    <3> QED
      BY <3>3
  <2>2. CASE ~ hooks[h].posts
    <3> DEFINE receipt == [status |-> RefusedStatus(e, c), case |-> c]
    <3>1. receipts' = [receipts EXCEPT ![e] = receipt] /\ UNCHANGED entries
      BY <1>1, <1>2, <2>2 DEF HookCommits
    <3>2. receipt \in Receipt /\ receipt.status \notin {"absent", "matched"}
      BY DEF Receipt, RefusedStatus, Reconcilable
    <3> HIDE DEF receipt
    <3>3. /\ receipts' \in [Events -> Receipt] /\ receipts'[e] = receipt
          /\ \A d \in Events \ {e} : receipts'[d] = receipts[d]
      BY <3>1, <3>2 DEF Inv, TypeOK
    <3>4. \A d \in Events : \A k : Fits(d, k)' <=> Fits(d, k)
      BY <3>1 DEF Fits
    <3>5. RefundsAreBooked'
      <4> SUFFICES ASSUME NEW r \in Events, entries[r] # None, Kind[r] = "refund"
                   PROVE  /\ Fits(r, entries[r].case)'
                          /\ entries[r].eligible = entries[Original[r]].eligible
        BY <3>1 DEF RefundsAreBooked
      <4>1. Fits(r, entries[r].case) /\ entries[r].eligible = entries[Original[r]].eligible
        BY DEF Inv, RefundsAreBooked
      <4> QED
        BY <3>1, <4>1 DEF Fits
    <3> QED
      BY <3>1, <3>2, <3>3, <3>4, <3>5 DEF Inv, TypeOK
  <2> QED
    BY <2>1, <2>2
<1>7. TypeOK' /\ NamesExist'
  BY <1>4, <1>5, <1>6 DEF Inv, TypeOK, NamesExist
<1>8. EvidenceFirst'
  BY <1>3, <1>5, <1>6 DEF Inv, EvidenceFirst
<1>9. DeliversAlone'
  <2> SUFFICES ASSUME NEW g \in Hooks \ {h}, hooks[g].pc = "flushed"
               PROVE  /\ receipts'[hooks[g].event].status = "absent"
                      /\ \A f \in Hooks : hooks'[f].pc = "flushed" /\
                            hooks'[f].event = hooks[g].event => f = g
                      /\ hooks[g].posts => Fits(hooks[g].event, CaseRef[hooks[g].event])'
    BY <1>4 DEF DeliversAlone
  <2>1. PICK d \in Events \ {e} : d = hooks[g].event
    BY <1>3 DEF Inv, NamesExist
  <2>2. receipts'[d] = receipts[d] /\ CaseRef[d] \in CaseIds
    BY <1>6, <2>1 DEF CaseIds
  <2>3. Fits(d, CaseRef[d]) => Fits(d, CaseRef[d])'
    BY <1>6, <2>2
  <2>4. hooks[g].posts => Fits(d, CaseRef[d])'
    BY <2>1, <2>3 DEF Inv, DeliversAlone
  <2>5. hooks[g].posts => Fits(hooks[g].event, CaseRef[hooks[g].event])'
    BY <1>4, <2>1, <2>4
  <2> QED
    BY <1>4, <2>1, <2>2, <2>5 DEF Inv, DeliversAlone
<1>10. ScreensAreTrue'
  BY <1>5 DEF Inv, ScreensAreTrue
<1>11. KeepsEntries
  BY <1>3, <1>6 DEF KeepsEntries, Posted
<1> QED
  BY <1>6, <1>7, <1>8, <1>9, <1>10, <1>11 DEF Inv

-----------------------------------------------------------------------------
(* Reconciliation *)

\* What the steps on an event that has arrived leave as it was, whatever they do to its
\* receipt and its review; they may post it.
LEMMA Arrived ==
    ASSUME LedgerAssumption, NoneIsNoRow, Inv, NEW e \in Events, receipts[e].status # "absent",
           receipts' \in [Events -> Receipt], receipts'[e].status # "absent",
           \A d \in Events \ {e} : receipts'[d] = receipts[d],
           UNCHANGED hooks,
           \A d \in Events, k \in CaseIds : Fits(d, k) => Fits(d, k)'
    PROVE  DeliversAlone'
<1> SUFFICES ASSUME NEW h \in Hooks, hooks[h].pc = "flushed"
             PROVE  /\ receipts'[hooks[h].event].status = "absent"
                    /\ \A g \in Hooks :
                          hooks[g].pc = "flushed" /\ hooks[g].event = hooks[h].event => g = h
                    /\ hooks[h].posts => Fits(hooks[h].event, CaseRef[hooks[h].event])'
  BY DEF DeliversAlone
<1>1. PICK d \in Events \ {e} : d = hooks[h].event
  BY DEF Inv, NamesExist, DeliversAlone
<1>2. receipts'[d] = receipts[d] /\ CaseRef[d] \in CaseIds
  BY <1>1 DEF CaseIds
<1>3. Fits(d, CaseRef[d]) => Fits(d, CaseRef[d])'
  BY <1>2
<1>4. hooks[h].posts => Fits(d, CaseRef[d])'
  BY <1>1, <1>3 DEF Inv, DeliversAlone
<1>5. hooks[h].posts => Fits(hooks[h].event, CaseRef[hooks[h].event])'
  BY <1>1, <1>4
<1> QED
  BY <1>1, <1>2, <1>5 DEF Inv, DeliversAlone

\* A step that leaves the entries alone changes nothing about refunds.
LEMMA EntriesKept ==
    ASSUME Inv, UNCHANGED entries
    PROVE  /\ RefundsAreBooked' /\ KeepsEntries
           /\ \A d \in Events, k \in CaseIds : Fits(d, k) => Fits(d, k)'
<1>1. \A d \in Events, k \in CaseIds : Fits(d, k) => Fits(d, k)'
  BY DEF Fits
<1>2. RefundsAreBooked'
  <2> SUFFICES ASSUME NEW r \in Events, entries[r] # None, Kind[r] = "refund"
               PROVE  /\ Fits(r, entries[r].case)'
                      /\ entries[r].eligible = entries[Original[r]].eligible
    BY DEF RefundsAreBooked
  <2>1. Fits(r, entries[r].case) /\ entries[r].eligible = entries[Original[r]].eligible
    BY DEF Inv, RefundsAreBooked
  <2> QED
    BY <2>1 DEF Fits
<1> QED
  BY <1>1, <1>2 DEF KeepsEntries, Posted

\* Only rows change that a review names.
LEMMA Reviewed ==
    ASSUME Inv, NEW e \in Events, reviews[e] # None
    PROVE  /\ reviews[e] \in Review /\ receipts[e] \in Receipt
           /\ receipts[e].status # "absent"
BY DEF Inv, TypeOK, EvidenceFirst

LEMMA ProposeInv ==
    ASSUME LedgerAssumption, NoneIsNoRow, Inv,
           NEW a \in Actors, NEW e \in Events, NEW c \in Cases, Propose(a, e, c)
    PROVE  Inv' /\ KeepsEntries
<1> DEFINE review == [status |-> "pending_review", version |-> NextVersion(e), case |-> c,
                      proposer |-> a, reviewer |-> None]
<1>1. /\ reviews' = [reviews EXCEPT ![e] = review]
      /\ receipts' = [receipts EXCEPT ![e].status = "review_pending"]
      /\ UNCHANGED <<entries, screens, hooks, book, claims>>
  BY DEF Propose
<1>2. /\ NextVersion(e) \in 1 .. MaxVersion
      /\ reviews[e] # None => NextVersion(e) = reviews[e].version + 1
      /\ reviews[e] # None => reviews[e].version \in Nat
  BY DEF Propose, NextVersion, Inv, TypeOK, Review, LedgerAssumption
<1>3. review \in Review /\ review.version = NextVersion(e)
  BY <1>2 DEF Review
<1> HIDE DEF review
<1>4. /\ receipts' \in [Events -> Receipt] /\ receipts'[e].status = "review_pending"
      /\ \A d \in Events \ {e} : receipts'[d] = receipts[d]
  BY <1>1 DEF Inv, TypeOK, Receipt, Reconcilable
<1>5. /\ reviews' \in [Events -> Review \cup {None}] /\ reviews'[e] = review
      /\ \A d \in Events \ {e} : reviews'[d] = reviews[d]
  BY <1>1, <1>3 DEF Inv, TypeOK
<1>6. receipts[e].status \notin {"absent", "matched"}
  BY DEF Propose, Reconcilable
<1>7. TypeOK' /\ NamesExist'
  BY <1>1, <1>4, <1>5 DEF Inv, TypeOK, NamesExist
<1>8. EvidenceFirst'
  BY <1>1, <1>4, <1>5 DEF Inv, EvidenceFirst
<1>9. DeliversAlone'
  BY <1>1, <1>4, <1>6, EntriesKept, Arrived
<1>10. ScreensAreTrue'
  <2> SUFFICES ASSUME NEW b \in Actors, screens[b] # None
               PROVE  LET seen == screens[b] IN
                      /\ reviews'[seen.event] # None
                      /\ seen.version <= reviews'[seen.event].version
                      /\ seen.version = reviews'[seen.event].version =>
                            seen.case = reviews'[seen.event].case
    BY <1>1 DEF ScreensAreTrue
  <2>1. screens[b].event \in Events /\ screens[b].version \in Nat
    BY DEF Inv, TypeOK, Screen
  <2>2. CASE screens[b].event = e
    BY <1>2, <1>3, <1>5, <2>1, <2>2 DEF Inv, ScreensAreTrue, NoneIsNoRow
  <2>3. CASE screens[b].event # e
    BY <1>5, <2>1, <2>3 DEF Inv, ScreensAreTrue
  <2> QED
    BY <2>2, <2>3
<1> QED
  BY <1>1, <1>7, <1>8, <1>9, <1>10, EntriesKept DEF Inv

LEMMA OpenReviewInv ==
    ASSUME LedgerAssumption, NoneIsNoRow, Inv, NEW a \in Actors, NEW e \in Events,
           OpenReview(a, e)
    PROVE  Inv' /\ KeepsEntries
<1> DEFINE screen == [event |-> e, version |-> reviews[e].version, case |-> reviews[e].case]
<1>1. /\ screens' = [screens EXCEPT ![a] = screen]
      /\ UNCHANGED <<receipts, entries, reviews, hooks, book, claims>>
  BY DEF OpenReview
<1>2. reviews[e] # None /\ reviews[e] \in Review /\ receipts[e].status # "absent"
  BY Reviewed DEF OpenReview, Pending
<1>3. screen \in Screen /\ reviews[e].version \in Nat
  BY <1>2 DEF Screen, Review
<1>4. /\ screens' \in [Actors -> Screen \cup {None}] /\ screens'[a] = screen
      /\ \A b \in Actors \ {a} : screens'[b] = screens[b]
  BY <1>1, <1>3 DEF Inv, TypeOK
<1>5. TypeOK' /\ NamesExist' /\ EvidenceFirst'
  BY <1>1, <1>4 DEF Inv, TypeOK, NamesExist, EvidenceFirst
<1>6. ScreensAreTrue'
  BY <1>1, <1>2, <1>3, <1>4 DEF Inv, ScreensAreTrue
<1>7. DeliversAlone'
  BY <1>1, <1>2, EntriesKept, Arrived DEF Inv, TypeOK
<1> QED
  BY <1>1, <1>5, <1>6, <1>7, EntriesKept DEF Inv

\* A decision changes the row of its review, and no screen shows the new version.
LEMMA Decides ==
    ASSUME LedgerAssumption, NoneIsNoRow, Inv, NEW a \in Actors, NEW e \in Events,
           NEW decision \in {"approved", "rejected"}, Pending(e), Decided(a, e, decision),
           UNCHANGED screens
    PROVE  /\ reviews' \in [Events -> Review \cup {None}]
           /\ reviews'[e] # None /\ reviews'[e].status = decision
           /\ \A d \in Events \ {e} : reviews'[d] = reviews[d]
           /\ ScreensAreTrue'
<1> DEFINE review == [reviews[e] EXCEPT !.status = decision, !.version = @ + 1, !.reviewer = a]
<1>1. reviews' = [reviews EXCEPT ![e] = review] /\ reviews[e].version < MaxVersion
  BY DEF Decided
<1>2. reviews[e] \in Review /\ reviews[e] # None
  BY Reviewed DEF Pending
<1>3. /\ review \in Review /\ review.status = decision
      /\ review.version = reviews[e].version + 1 /\ reviews[e].version \in Nat
  <2>1. reviews[e].version \in Nat /\ reviews[e].version + 1 \in 1 .. MaxVersion
    BY <1>1, <1>2 DEF Review, LedgerAssumption
  <2> QED
    BY <1>2, <2>1 DEF Review
<1> HIDE DEF review
<1>4. /\ reviews' \in [Events -> Review \cup {None}] /\ reviews'[e] = review
      /\ \A d \in Events \ {e} : reviews'[d] = reviews[d]
  BY <1>1, <1>3 DEF Inv, TypeOK
<1>5. review # None
  BY <1>3 DEF NoneIsNoRow
<1>6. ScreensAreTrue'
  <2> SUFFICES ASSUME NEW b \in Actors, screens[b] # None
               PROVE  LET seen == screens[b] IN
                      /\ reviews'[seen.event] # None
                      /\ seen.version <= reviews'[seen.event].version
                      /\ seen.version = reviews'[seen.event].version =>
                            seen.case = reviews'[seen.event].case
    BY DEF ScreensAreTrue
  <2>1. screens[b].event \in Events /\ screens[b].version \in Nat
    BY DEF Inv, TypeOK, Screen
  <2>2. CASE screens[b].event = e
    BY <1>3, <1>4, <1>5, <2>1, <2>2 DEF Inv, ScreensAreTrue
  <2>3. CASE screens[b].event # e
    BY <1>4, <2>1, <2>3 DEF Inv, ScreensAreTrue
  <2> QED
    BY <2>2, <2>3
<1> QED
  BY <1>3, <1>4, <1>5, <1>6

LEMMA RejectInv ==
    ASSUME LedgerAssumption, NoneIsNoRow, Inv, NEW a \in Actors, NEW e \in Events, Reject(a, e)
    PROVE  Inv' /\ KeepsEntries
<1>1. /\ Pending(e) /\ Decided(a, e, "rejected")
      /\ receipts' = [receipts EXCEPT ![e].status = "rejected"]
      /\ UNCHANGED <<entries, screens, hooks, book, claims>>
  BY DEF Reject, MayDecide
<1>2. receipts[e].status # "absent"
  BY <1>1, Reviewed DEF Pending
<1>3. /\ receipts' \in [Events -> Receipt] /\ receipts'[e].status = "rejected"
      /\ \A d \in Events \ {e} : receipts'[d] = receipts[d]
  BY <1>1 DEF Inv, TypeOK, Receipt, Reconcilable
<1>4. /\ reviews' \in [Events -> Review \cup {None}]
      /\ \A d \in Events \ {e} : reviews'[d] = reviews[d]
      /\ ScreensAreTrue'
  BY <1>1, Decides
<1>5. TypeOK' /\ NamesExist'
  BY <1>1, <1>3, <1>4 DEF Inv, TypeOK, NamesExist
<1>6. EvidenceFirst'
  BY <1>1, <1>3, <1>4 DEF Inv, EvidenceFirst
<1>7. DeliversAlone'
  BY <1>1, <1>2, <1>3, EntriesKept, Arrived
<1> QED
  BY <1>1, <1>4, <1>5, <1>6, <1>7, EntriesKept DEF Inv

\* A receipt is matched with a case by a reviewer or by the legacy endpoint: its entry, if
\* there is one, stays; if there is none, one is posted.
LEMMA MatchKeeps ==
    ASSUME LedgerAssumption, NoneIsNoRow, Inv, NEW e \in Events, NEW c \in Cases, NEW k \in CaseIds,
           receipts[e].status # "absent",
           IF entries[e] # None
           THEN receipts' = [receipts EXCEPT ![e].case = k] /\ UNCHANGED entries
           ELSE Postable(e, c) /\ Post(e, c)
    PROVE  /\ entries' \in [Events -> Entry \cup {None}] /\ receipts' \in [Events -> Receipt]
           /\ \A d \in Events \ {e} : entries'[d] = entries[d] /\ receipts'[d] = receipts[d]
           /\ entries'[e] # None /\ receipts'[e].status # "absent"
           /\ entries[e] = None => /\ entries'[e].case = c
                                   /\ receipts'[e] = [status |-> "matched", case |-> c]
           /\ KeepsEntries /\ RefundsAreBooked'
           /\ \A d \in Events, i \in CaseIds : Fits(d, i) => Fits(d, i)'
<1>1. CASE entries[e] # None
  <2>1. receipts' = [receipts EXCEPT ![e].case = k] /\ UNCHANGED entries
    BY <1>1
  <2>2. /\ receipts' \in [Events -> Receipt] /\ receipts'[e].status = receipts[e].status
        /\ \A d \in Events \ {e} : receipts'[d] = receipts[d]
    BY <2>1 DEF Inv, TypeOK, Receipt
  <2>3. entries' \in [Events -> Entry \cup {None}]
    BY <2>1 DEF Inv, TypeOK
  <2>4. \A d \in Events \ {e} : entries'[d] = entries[d]
    BY <2>1
  <2> QED
    BY <1>1, <2>1, <2>2, <2>3, <2>4, EntriesKept
<1>2. CASE entries[e] = None
  <2>1. Post(e, c) /\ Fits(e, c)
    BY <1>2, PostableFits
  <2>2. /\ entries' \in [Events -> Entry \cup {None}] /\ receipts' \in [Events -> Receipt]
        /\ entries'[e] # None /\ entries'[e].case = c
        /\ receipts'[e] = [status |-> "matched", case |-> c]
        /\ \A d \in Events \ {e} : entries'[d] = entries[d] /\ receipts'[d] = receipts[d]
        /\ RefundsAreBooked'
        /\ \A d \in Events, i \in CaseIds : Fits(d, i) => Fits(d, i)'
    BY <1>2, <2>1, Posts
  <2>3. KeepsEntries
    BY <1>2, <2>2 DEF KeepsEntries, Posted
  <2> QED
    BY <2>2, <2>3
<1> QED
  BY <1>1, <1>2

LEMMA ApproveInv ==
    ASSUME LedgerAssumption, NoneIsNoRow, Inv, NEW a \in Actors, NEW e \in Events, Approve(a, e)
    PROVE  Inv' /\ KeepsEntries
<1>1. /\ Pending(e) /\ Decided(a, e, "approved")
      /\ UNCHANGED <<screens, hooks, book, claims>>
  BY DEF Approve, MayDecide
<1>2. reviews[e] \in Review /\ receipts[e] \in Receipt /\ receipts[e].status # "absent"
  BY <1>1, Reviewed DEF Pending
<1>3. PICK c \in Cases : c = reviews[e].case
  BY <1>2 DEF Review
<1>4. PICK k \in CaseIds : k = IF receipts[e].status = "matched" THEN receipts[e].case ELSE c
  BY <1>2, <1>3 DEF Receipt, CaseIds
<1>5. IF entries[e] # None
      THEN receipts' = [receipts EXCEPT ![e].case = k] /\ UNCHANGED entries
      ELSE Postable(e, c) /\ Post(e, c)
  <2>1. CASE entries[e] # None
    <3>1. UNCHANGED entries /\ receipts' = [receipts EXCEPT ![e].case =
                   IF receipts[e].status = "matched" THEN receipts[e].case ELSE c]
      BY <1>3, <2>1 DEF Approve
    <3> QED
      BY <1>4, <2>1, <3>1
  <2>2. CASE entries[e] = None
    BY <1>3, <2>2 DEF Approve
  <2> QED
    BY <2>1, <2>2
<1>6. /\ entries' \in [Events -> Entry \cup {None}] /\ receipts' \in [Events -> Receipt]
      /\ \A d \in Events \ {e} : entries'[d] = entries[d] /\ receipts'[d] = receipts[d]
      /\ entries'[e] # None /\ receipts'[e].status # "absent"
      /\ KeepsEntries /\ RefundsAreBooked'
      /\ \A d \in Events, i \in CaseIds : Fits(d, i) => Fits(d, i)'
  BY <1>2, <1>5, MatchKeeps
<1>7. /\ reviews' \in [Events -> Review \cup {None}]
      /\ \A d \in Events \ {e} : reviews'[d] = reviews[d]
      /\ ScreensAreTrue'
  BY <1>1, Decides
<1>8. TypeOK' /\ NamesExist'
  BY <1>1, <1>6, <1>7 DEF Inv, TypeOK, NamesExist
<1>9. EvidenceFirst'
  BY <1>6, <1>7 DEF Inv, EvidenceFirst
<1>10. DeliversAlone'
  BY <1>1, <1>2, <1>6, Arrived
<1> QED
  BY <1>6, <1>7, <1>8, <1>9, <1>10 DEF Inv

LEMMA MatchDirectlyInv ==
    ASSUME LedgerAssumption, NoneIsNoRow, Inv, NEW e \in Events, NEW c \in Cases,
           MatchDirectly(e, c)
    PROVE  Inv' /\ KeepsEntries
<1>1. /\ receipts[e].status # "absent" /\ c \in CaseIds
      /\ IF entries[e] # None
         THEN receipts' = [receipts EXCEPT ![e].case = c] /\ UNCHANGED entries
         ELSE Postable(e, c) /\ Post(e, c)
      /\ UNCHANGED <<reviews, screens, hooks, book, claims>>
  BY DEF MatchDirectly, CaseIds
<1>2. /\ entries' \in [Events -> Entry \cup {None}] /\ receipts' \in [Events -> Receipt]
      /\ \A d \in Events \ {e} : entries'[d] = entries[d] /\ receipts'[d] = receipts[d]
      /\ entries'[e] # None /\ receipts'[e].status # "absent"
      /\ KeepsEntries /\ RefundsAreBooked'
      /\ \A d \in Events, i \in CaseIds : Fits(d, i) => Fits(d, i)'
  BY <1>1, MatchKeeps
<1>3. TypeOK' /\ NamesExist'
  BY <1>1, <1>2 DEF Inv, TypeOK, NamesExist
<1>4. EvidenceFirst'
  BY <1>1, <1>2 DEF Inv, EvidenceFirst
<1>5. DeliversAlone'
  BY <1>1, <1>2, Arrived
<1>6. ScreensAreTrue'
  BY <1>1 DEF Inv, ScreensAreTrue
<1> QED
  BY <1>2, <1>3, <1>4, <1>5, <1>6 DEF Inv

-----------------------------------------------------------------------------
(* Settlement and collection *)

\* Commission requests leave receipts and entries alone.
LEMMA ClaimMoves ==
    ASSUME Inv, NEW r \in Claims, NEW claim \in Claim, claim.pc # "idle" => claim.key \in Keys,
           claims' = [claims EXCEPT ![r] = claim], book' \in Book,
           UNCHANGED <<receipts, entries, reviews, screens, hooks>>
    PROVE  Inv' /\ KeepsEntries
<1>1. /\ claims' \in [Claims -> Claim] /\ claims'[r] = claim
      /\ \A q \in Claims \ {r} : claims'[q] = claims[q]
  BY DEF Inv, TypeOK
<1>2. TypeOK' /\ NamesExist'
  BY <1>1 DEF Inv, TypeOK, NamesExist
<1>3. DeliversAlone'
  <2> SUFFICES ASSUME NEW h \in Hooks, hooks[h].pc = "flushed"
               PROVE  /\ receipts[hooks[h].event].status = "absent"
                      /\ \A g \in Hooks :
                            hooks[g].pc = "flushed" /\ hooks[g].event = hooks[h].event => g = h
                      /\ hooks[h].posts => Fits(hooks[h].event, CaseRef[hooks[h].event])'
    BY DEF DeliversAlone
  <2> QED
    BY DEF Inv, DeliversAlone, Fits
<1> QED
  BY <1>2, <1>3, RequestsOnly, EntriesKept DEF Inv

LEMMA IdleClaims == IdleClaim \in Claim /\ IdleClaim.pc = "idle"
BY DEF IdleClaim, Claim

LEMMA ClaimLocksInv ==
    ASSUME LedgerAssumption, Inv, NEW r \in Claims, NEW k \in Keys,
           NEW type \in {"settlement", "collection"}, NEW amount \in ClaimAmounts,
           ClaimLocks(r, k, type, amount)
    PROVE  Inv' /\ KeepsEntries
<1> DEFINE claim == [pc |-> "locked", key |-> k, type |-> type, amount |-> amount,
                     locks |-> HistoryExists]
<1>1. claim \in Claim /\ claim.key \in Keys
  <2>1. HistoryExists \in BOOLEAN
    BY DEF HistoryAssumption, HistoryExists
  <2>2. amount \in Nat
    BY DEF LedgerAssumption
  <2> QED
    BY <2>1, <2>2 DEF Claim
<1>2. /\ claims' = [claims EXCEPT ![r] = claim]
      /\ UNCHANGED <<receipts, entries, reviews, screens, hooks, book>>
  BY DEF ClaimLocks
<1> HIDE DEF claim
<1>3. book' \in Book
  BY <1>2 DEF Inv, TypeOK
<1> QED
  BY <1>1, <1>2, <1>3, ClaimMoves

LEMMA ClaimChecksInv ==
    ASSUME Inv, NEW r \in Claims, ClaimChecks(r)
    PROVE  Inv' /\ KeepsEntries
<1> DEFINE claim == IF claims[r].key \notin book.keys /\ Covered(claims[r].type, claims[r].amount)
                    THEN [claims[r] EXCEPT !.pc = "checked"] ELSE IdleClaim
<1>1. claim \in Claim /\ (claim.pc # "idle" => claim.key \in Keys)
  <2>1. claims[r] \in Claim /\ claims[r].key \in Keys
    BY DEF ClaimChecks, Inv, TypeOK, NamesExist
  <2>2. /\ [claims[r] EXCEPT !.pc = "checked"] \in Claim
        /\ [claims[r] EXCEPT !.pc = "checked"].key = claims[r].key
    BY <2>1 DEF Claim
  <2> QED
    BY <2>1, <2>2, IdleClaims
<1>2. /\ claims' = [claims EXCEPT ![r] = claim]
      /\ UNCHANGED <<receipts, entries, reviews, screens, hooks, book>>
  BY DEF ClaimChecks
<1> HIDE DEF claim
<1>3. book' \in Book
  BY <1>2 DEF Inv, TypeOK
<1> QED
  BY <1>1, <1>2, <1>3, ClaimMoves

LEMMA BookWith ==
    ASSUME NEW old \in Book, NEW cents \in Nat, NEW keys \in SUBSET Keys
    PROVE  /\ [old EXCEPT !.settled = cents, !.keys = keys] \in Book
           /\ [old EXCEPT !.collected = cents, !.keys = keys] \in Book
BY DEF Book

LEMMA ClaimCommitsInv ==
    ASSUME Inv, NEW r \in Claims, ClaimCommits(r)
    PROVE  Inv' /\ KeepsEntries
<1>1. claims[r] \in Claim /\ claims[r].key \in Keys /\ book \in Book
  BY DEF ClaimCommits, Inv, TypeOK, NamesExist
<1>2. BookedClaim(claims[r]) \in Book
  <2>1. book.keys \cup {claims[r].key} \in SUBSET Keys
    BY <1>1 DEF Book
  <2>2. book.settled + claims[r].amount \in Nat /\ book.collected + claims[r].amount \in Nat
    BY <1>1 DEF Book, Claim
  <2> QED
    BY <1>1, <2>1, <2>2, BookWith, Zenon DEF BookedClaim
<1>3. /\ claims' = [claims EXCEPT ![r] = IdleClaim]
      /\ book' = IF claims[r].key \in book.keys THEN book ELSE BookedClaim(claims[r])
      /\ UNCHANGED <<receipts, entries, reviews, screens, hooks>>
  BY DEF ClaimCommits
<1> QED
  BY <1>1, <1>2, <1>3, IdleClaims, ClaimMoves

LEMMA ClaimDiesInv ==
    ASSUME Inv, NEW r \in Claims, ClaimDies(r)
    PROVE  Inv' /\ KeepsEntries
BY IdleClaims, ClaimMoves DEF ClaimDies, Inv, TypeOK

-----------------------------------------------------------------------------
(* All steps *)

LEMMA NextInv ==
    ASSUME LedgerAssumption, NoneIsNoRow, Inv, [Next]_vars
    PROVE  Inv' /\ (KeepsEntries \/ UNCHANGED vars)
<1>1. ASSUME NEW h \in Hooks, NEW e \in Events, HookLooksUp(h, e) PROVE Inv' /\ KeepsEntries
  BY <1>1, HookLooksUpInv, EntriesKept DEF HookLooksUp
<1>2. ASSUME NEW h \in Hooks, HookFlushes(h) PROVE Inv' /\ KeepsEntries
  BY <1>2, HookFlushesInv, EntriesKept DEF HookFlushes
<1>3. ASSUME NEW h \in Hooks, HookDies(h) PROVE Inv' /\ KeepsEntries
  BY <1>3, HookDiesInv, EntriesKept DEF HookDies
<1>4. Deliver => Inv' /\ KeepsEntries
  BY <1>1, <1>2, <1>3, HookCommitsInv DEF Deliver
<1>5. Reconcile => Inv' /\ KeepsEntries
  BY ProposeInv, OpenReviewInv, RejectInv, ApproveInv, MatchDirectlyInv DEF Reconcile
<1>6. Settle => Inv' /\ KeepsEntries
  BY ClaimLocksInv, ClaimChecksInv, ClaimCommitsInv, ClaimDiesInv DEF Settle
<1>7. CASE UNCHANGED vars
  <2>1. UNCHANGED <<receipts, entries, reviews, screens>>
    BY <1>7 DEF vars
  <2>2. TypeOK' /\ NamesExist'
    BY <1>7 DEF vars, Inv, TypeOK, NamesExist
  <2>3. DeliversAlone'
    BY <1>7 DEF vars, Inv, DeliversAlone, Fits
  <2> QED
    BY <1>7, <2>1, <2>2, <2>3, RequestsOnly DEF Inv
<1> QED
  BY <1>4, <1>5, <1>6, <1>7 DEF Next

LEMMA Invariance == ASSUME LedgerAssumption, NoneIsNoRow PROVE Spec => []Inv
<1>1. Inv /\ [Next]_vars => Inv'
  BY NextInv
<1> QED
  BY InitInv, <1>1, PTL DEF Spec

\* Every row of the receipts, the reviews and both ledgers is one its columns can hold, with a
\* case that has a profile wherever money is booked.
THEOREM TypeCorrect == ASSUME LedgerAssumption, NoneIsNoRow PROVE Spec => []TypeOK
<1>1. Inv => TypeOK
  BY DEF Inv
<1> QED
  BY <1>1, Invariance, PTL

\* Recovery entries are neither changed nor removed, whatever deliveries race, whatever is
\* reviewed twice, matched directly or booked again, for any events and any rates.
THEOREM EntriesAreForever ==
    ASSUME LedgerAssumption, NoneIsNoRow PROVE Spec => [][KeepsEntries]_vars
<1>1. Inv /\ [Next]_vars => [KeepsEntries]_vars
  BY NextInv
<1> QED
  BY <1>1, Invariance, PTL DEF Spec

\* A refund is booked on the case of the payment it takes back and with its eligibility, and
\* that payment is booked, for any order of deliveries, reviews and matches.
THEOREM RefundsStayWithPayments ==
    ASSUME LedgerAssumption, NoneIsNoRow PROVE Spec => []RefundsAreBooked
<1>1. Inv => RefundsAreBooked
  BY DEF Inv
<1> QED
  BY <1>1, Invariance, PTL

-----------------------------------------------------------------------------
(* Money and evidence, where receipts are matched by two people only *)

\* Nothing is approved where no review changes.
LEMMA NothingApproved == ASSUME UNCHANGED reviews PROVE ApprovesAsShown
BY DEF ApprovesAsShown, Pending

LEMMA HookCommitsAgrees ==
    ASSUME LedgerAssumption, NoneIsNoRow, Inv, LedgerMatchesReceipts,
           NEW h \in Hooks, HookCommits(h)
    PROVE  LedgerMatchesReceipts'
<1>1. PICK e \in Events : e = hooks[h].event
  BY DEF HookCommits, Inv, NamesExist
<1>2. PICK c \in CaseIds : c = CaseRef[e]
  BY DEF CaseIds
<1>3. /\ entries[e] = None /\ reviews[e] = None /\ UNCHANGED reviews
      /\ hooks[h].posts => Fits(e, c)
  BY <1>1, <1>2 DEF HookCommits, Inv, DeliversAlone, EvidenceFirst
<1>4. CASE hooks[h].posts
  <2>1. Post(e, c) /\ Fits(e, c)
    BY <1>1, <1>2, <1>3, <1>4 DEF HookCommits
  <2>2. /\ entries'[e] # None /\ entries'[e].case = c
        /\ receipts'[e] = [status |-> "matched", case |-> c]
        /\ \A d \in Events \ {e} : entries'[d] = entries[d] /\ receipts'[d] = receipts[d]
    BY <1>3, <2>1, Posts
  <2> QED
    BY <1>3, <2>2 DEF LedgerMatchesReceipts
<1>5. CASE ~ hooks[h].posts
  <2>1. receipts' = [receipts EXCEPT ![e] = [status |-> RefusedStatus(e, c), case |-> c]]
    BY <1>1, <1>2, <1>5 DEF HookCommits
  <2>2. UNCHANGED entries /\ RefusedStatus(e, c) # "matched"
    BY <1>5 DEF HookCommits, RefusedStatus
  <2>3. /\ receipts'[e].status # "matched"
        /\ \A d \in Events \ {e} : receipts'[d] = receipts[d]
    BY <2>1, <2>2 DEF Inv, TypeOK
  <2> QED
    BY <1>3, <2>2, <2>3 DEF LedgerMatchesReceipts
<1> QED
  BY <1>4, <1>5

LEMMA ProposeAgrees ==
    ASSUME LedgerAssumption, NoneIsNoRow, Inv, LedgerMatchesReceipts,
           NEW a \in Actors, NEW e \in Events, NEW c \in Cases, Propose(a, e, c)
    PROVE  LedgerMatchesReceipts' /\ ApprovesAsShown
<1>1. /\ reviews'[e].status = "pending_review"
      /\ \A d \in Events \ {e} : reviews'[d] = reviews[d]
  BY DEF Propose, Inv, TypeOK
<1>2. /\ receipts'[e].status = "review_pending"
      /\ \A d \in Events \ {e} : receipts'[d] = receipts[d]
  BY DEF Propose, Inv, TypeOK, Receipt
<1>3. UNCHANGED entries /\ receipts[e].status # "matched" /\ ~ Pending(e)
  BY DEF Propose, Reconcilable
<1> QED
  BY <1>1, <1>2, <1>3 DEF LedgerMatchesReceipts, ApprovesAsShown, Pending

LEMMA RejectAgrees ==
    ASSUME LedgerAssumption, NoneIsNoRow, Inv, LedgerMatchesReceipts,
           NEW a \in Actors, NEW e \in Events, Reject(a, e)
    PROVE  LedgerMatchesReceipts' /\ ApprovesAsShown
<1>1. Pending(e) /\ Decided(a, e, "rejected") /\ UNCHANGED <<entries, screens>>
  BY DEF Reject, MayDecide
<1>2. /\ receipts'[e].status = "rejected"
      /\ \A d \in Events \ {e} : receipts'[d] = receipts[d]
  BY DEF Reject, Inv, TypeOK, Receipt
<1>3. /\ reviews'[e].status = "rejected"
      /\ \A d \in Events \ {e} : reviews'[d] = reviews[d]
  BY <1>1, Decides
<1>4. entries[e] = None
  BY <1>1 DEF LedgerMatchesReceipts, Pending
<1> QED
  BY <1>1, <1>2, <1>3, <1>4 DEF LedgerMatchesReceipts, ApprovesAsShown, Pending

LEMMA ApproveAgrees ==
    ASSUME LedgerAssumption, NoneIsNoRow, Inv, LedgerMatchesReceipts,
           NEW a \in Actors, NEW e \in Events, Approve(a, e)
    PROVE  LedgerMatchesReceipts' /\ ApprovesAsShown
<1>1. /\ Pending(e) /\ Decided(a, e, "approved") /\ UNCHANGED screens
      /\ screens[a] # None /\ screens[a].event = e
      /\ screens[a].version = reviews[e].version /\ reviews[e].proposer # a
  BY DEF Approve, MayDecide
<1>2. PICK c \in Cases : c = reviews[e].case
  BY <1>1, Reviewed DEF Review, Pending
<1>3. entries[e] = None /\ screens[a].case = c
  BY <1>1, <1>2 DEF LedgerMatchesReceipts, Pending, Inv, ScreensAreTrue
<1>4. Fits(e, c) /\ Post(e, c)
  <2>1. Postable(e, c) /\ Post(e, c)
    BY <1>2, <1>3 DEF Approve
  <2> QED
    BY <2>1, PostableFits
<1>5. /\ entries'[e] # None /\ entries'[e].case = c
      /\ receipts'[e] = [status |-> "matched", case |-> c]
      /\ \A d \in Events \ {e} : entries'[d] = entries[d] /\ receipts'[d] = receipts[d]
  BY <1>3, <1>4, Posts
<1>6. /\ reviews'[e].status = "approved"
      /\ \A d \in Events \ {e} : reviews'[d] = reviews[d]
  BY <1>1, Decides
<1>7. LedgerMatchesReceipts'
  BY <1>5, <1>6 DEF LedgerMatchesReceipts
<1>8. ApprovesAsShown
  BY <1>1, <1>3, <1>5, <1>6 DEF ApprovesAsShown, Pending
<1> QED
  BY <1>7, <1>8

LEMMA NextAgrees ==
    ASSUME LedgerAssumption, NoneIsNoRow, ~LegacyMatch, Inv, LedgerMatchesReceipts, [Next]_vars
    PROVE  LedgerMatchesReceipts' /\ [ApprovesAsShown]_vars
<1>1. CASE UNCHANGED <<receipts, entries, reviews>>
  BY <1>1, NothingApproved DEF LedgerMatchesReceipts
<1>2. Deliver => \/ UNCHANGED <<receipts, entries, reviews>>
                 \/ \E h \in Hooks : HookCommits(h) /\ UNCHANGED reviews
  BY DEF Deliver, HookLooksUp, HookFlushes, HookDies, HookCommits
<1>3. CASE Deliver
  BY <1>1, <1>2, <1>3, HookCommitsAgrees, NothingApproved
<1>4. CASE Reconcile
  <2>1. ASSUME NEW a \in Actors, NEW e \in Events, OpenReview(a, e)
        PROVE  UNCHANGED <<receipts, entries, reviews>>
    BY <2>1 DEF OpenReview
  <2>2. ASSUME NEW e \in Events, NEW c \in Cases, MatchDirectly(e, c) PROVE FALSE
    BY <2>2 DEF MatchDirectly
  <2> QED
    BY <1>1, <1>4, <2>1, <2>2, ProposeAgrees, RejectAgrees, ApproveAgrees DEF Reconcile
<1>5. Settle => UNCHANGED <<receipts, entries, reviews>>
  BY DEF Settle, ClaimLocks, ClaimChecks, ClaimCommits, ClaimDies
<1>6. UNCHANGED vars => UNCHANGED <<receipts, entries, reviews>>
  BY DEF vars
<1> QED
  BY <1>1, <1>3, <1>4, <1>5, <1>6 DEF Next

LEMMA Agreement ==
    ASSUME LedgerAssumption, NoneIsNoRow, ~LegacyMatch
    PROVE  Spec => [](Inv /\ LedgerMatchesReceipts)
<1>1. Init => LedgerMatchesReceipts
  BY DEF Init, LedgerMatchesReceipts
<1>2. Inv /\ LedgerMatchesReceipts /\ [Next]_vars => Inv' /\ LedgerMatchesReceipts'
  BY NextInv, NextAgrees
<1> QED
  BY InitInv, <1>1, <1>2, PTL DEF Spec

\* Where the one-step endpoint is off, a receipt is matched exactly if its entry is booked, on
\* the same case, and a review is approved exactly if it is.
THEOREM MoneyHasEvidence ==
    ASSUME LedgerAssumption, NoneIsNoRow, ~LegacyMatch PROVE Spec => []LedgerMatchesReceipts
BY Agreement, PTL

\* Where the one-step endpoint is off, what a checker approves was proposed by somebody else
\* and is booked on the case the checker was shown.
THEOREM ApprovedWasShown ==
    ASSUME LedgerAssumption, NoneIsNoRow, ~LegacyMatch PROVE Spec => [][ApprovesAsShown]_vars
<1>1. Inv /\ LedgerMatchesReceipts /\ [Next]_vars => [ApprovesAsShown]_vars
  BY NextAgrees
<1> QED
  BY <1>1, Agreement, PTL DEF Spec

-----------------------------------------------------------------------------
(* Sums of commissions and of refunds *)

Cents == [e \in Events |-> entries[e].commission]

LEMMA CentsAre ==
    ASSUME NEW T \in SUBSET Events, IsFiniteSet(T)
    PROVE  CommissionOf(T) = Total(Cents, T)
<1> DEFINE IsIter(g) ==
             g = [s \in SUBSET T |->
                    IF s = {} THEN 0 ELSE entries[Chosen(s)].commission + g[s \ {Chosen(s)}]]
           iter == CHOOSE g : IsIter(g)
<1>1. \A g : IsIter(g) <=> IsSum(g, Cents, T)
  <2>1. \A s \in SUBSET T : s # {} => Cents[Chosen(s)] = entries[Chosen(s)].commission
    BY ChosenIn DEF Cents
  <2>2. ASSUME NEW g
        PROVE  [s \in SUBSET T |->
                  IF s = {} THEN 0 ELSE entries[Chosen(s)].commission + g[s \ {Chosen(s)}]]
               = [s \in SUBSET T |->
                  IF s = {} THEN 0 ELSE Cents[Chosen(s)] + g[s \ {Chosen(s)}]]
    BY <2>1
  <2> QED
    BY <2>2 DEF IsSum
<1>2. PICK g : IsSum(g, Cents, T) /\ Total(Cents, T) = g[T]
  BY TotalIsSum
<1>3. IsIter(iter)
  BY <1>1, <1>2
<1>4. CommissionOf(T) = iter[T]
  BY DEF CommissionOf, MapThenSumSet, MapThenFoldSet, Chosen
<1>5. IsSum(iter, Cents, T)
  BY <1>1, <1>3
<1> HIDE DEF iter
<1> QED
  BY <1>4, <1>5, TotalWithin

LEMMA Refunds == \A p : /\ Refunded(p) = Total(Amount, RefundsOf(p))
                        /\ Refunded(p)' = Total(Amount, RefundsOf(p)')
BY DEF Refunded, Total, MapThenSumSet, MapThenFoldSet

-----------------------------------------------------------------------------
(* Refunds and the payments they take back *)

\* A commission is that of the amount, and refunds stay within their payment.
Sums ==
    /\ IsFiniteSet(Posted)
    /\ \A e \in Posted : entries[e].commission =
          IF ~ entries[e].eligible THEN 0
          ELSE IF Kind[e] = "payment" THEN Commission(Amount[e]) ELSE - Commission(Amount[e])
    /\ \A p \in Posted : Kind[p] = "payment" => Refunded(p) <= Amount[p]

\* What is left of the payment covers the refund.
HasRoom(e) == Refunded(Original[e]) + Amount[e] <= Amount[Original[e]]

\* A delivery about to book refund e.
Refunding(hook, e) ==
    hook.pc = "flushed" /\ hook.event = e /\ hook.posts /\ Kind[e] = "refund"

\* One delivery at a time holds the entry of a payment, and while it does there stays room for
\* the refund it will book.
LocksAlone ==
    \A g, h \in Hooks :
        hooks[g].locked # None /\ hooks[g].locked = hooks[h].locked => g = h

RoomIsHeld ==
    \A h \in Hooks, e \in Events :
        Refunding(hooks[h], e) => hooks[h].locked = Original[e] /\ HasRoom(e)

Room == Sums /\ LocksAlone /\ RoomIsHeld

LEMMA RefundedIsInt ==
    ASSUME LedgerAssumption, IsFiniteSet(Posted), NEW p
    PROVE  IsFiniteSet(RefundsOf(p)) /\ Refunded(p) \in Int
<1>1. IsFiniteSet(RefundsOf(p))
  BY FS_Subset DEF RefundsOf
<1>2. \A r \in RefundsOf(p) : Amount[r] \in Int
  BY DEF RefundsOf, Posted, LedgerAssumption
<1> QED
  BY <1>1, <1>2, TotalIsInt, Refunds

\* What is booked changes the refunds of one payment at most, and keeps them within it.
LEMMA PostSums ==
    ASSUME LedgerAssumption, NoneIsNoRow, Inv, Sums, NEW e \in Events, NEW c,
           entries[e] = None, Fits(e, c), Post(e, c),
           Kind[e] = "refund" => HasRoom(e)
    PROVE  /\ Sums'
           /\ Posted' = Posted \cup {e} /\ e \notin Posted
           /\ \A d \in Posted : entries'[d] = entries[d]
           /\ \A p : Kind[e] = "payment" \/ Original[e] # p => Refunded(p)' = Refunded(p)
<1>1. /\ entries'[e] # None
      /\ \A d \in Events \ {e} : entries'[d] = entries[d]
  BY Posts
<1>2. /\ Posted' = Posted \cup {e} /\ e \notin Posted
      /\ \A d \in Posted : entries'[d] = entries[d]
  BY <1>1 DEF Posted
<1>3. IsFiniteSet(Posted')
  BY <1>2, FS_AddElement DEF Sums
<1>4. ASSUME NEW p, Kind[e] = "payment" \/ Original[e] # p PROVE Refunded(p)' = Refunded(p)
  <2>1. RefundsOf(p)' = RefundsOf(p)
    BY <1>2, <1>4 DEF RefundsOf
  <2> QED
    BY <2>1, Refunds
<1>5. ASSUME NEW d \in Posted'
      PROVE  entries'[d].commission =
                IF ~ entries'[d].eligible THEN 0
                ELSE IF Kind[d] = "payment" THEN Commission(Amount[d]) ELSE - Commission(Amount[d])
  <2>1. CASE d \in Posted
    BY <1>2, <2>1 DEF Sums
  <2>2. CASE d = e
    <3> DEFINE ok == IF Kind[e] = "payment" THEN Eligible(e) ELSE entries[Original[e]].eligible
               sign == IF Kind[e] = "payment" THEN 1 ELSE -1
    <3>1. entries'[e] = [case |-> c, amount |-> sign * Amount[e], eligible |-> ok,
                         commission |-> IF ok THEN sign * Commission(Amount[e]) ELSE 0]
      <4>1. entries' = [entries EXCEPT ![e] = EntryFor(e, c)]
        BY DEF Post
      <4>2. entries'[e] = EntryFor(e, c)
        BY <4>1 DEF Inv, TypeOK
      <4> QED
        BY <4>2, Zenon DEF EntryFor
    <3>2. Commission(Amount[e]) \in Int
      BY CommissionIsInt
    <3> HIDE DEF ok
    <3> QED
      BY <2>2, <3>1, <3>2 DEF LedgerAssumption
  <2> QED
    BY <1>2, <2>1, <2>2
<1>6. ASSUME NEW p \in Posted', Kind[p] = "payment" PROVE Refunded(p)' <= Amount[p]
  <2>1. CASE p = e
    <3>1. RefundsOf(p)' = {}
      <4> SUFFICES ASSUME NEW r \in Posted', Kind[r] = "refund", Original[r] = e PROVE FALSE
        BY <2>1 DEF RefundsOf
      <4>1. r \in Posted
        BY <1>2, <1>6, <2>1
      <4> QED
        BY <4>1 DEF Inv, RefundsAreBooked, Fits, Posted
    <3>2. Refunded(p)' = 0
      BY <3>1, Refunds, TotalOfNothing
    <3> QED
      BY <3>2 DEF LedgerAssumption, Posted
  <2>2. CASE p # e /\ (Kind[e] = "payment" \/ Original[e] # p)
    BY <1>2, <1>4, <1>6, <2>2 DEF Sums
  <2>3. CASE Kind[e] = "refund" /\ Original[e] = p
    <3>1. RefundsOf(p)' = RefundsOf(p) \cup {e} /\ e \notin RefundsOf(p)
      BY <1>2, <2>3 DEF RefundsOf
    <3>2. \A r \in RefundsOf(p) \cup {e} : Amount[r] \in Int
      BY DEF RefundsOf, Posted, LedgerAssumption
    <3>3. IsFiniteSet(RefundsOf(p)) /\ Refunded(p) \in Int
      BY RefundedIsInt DEF Sums
    <3>4. Refunded(p)' = Total(Amount, RefundsOf(p) \cup {e})
      BY <3>1, Refunds
    <3>5. Refunded(p)' = Amount[e] + Refunded(p)
      BY <3>1, <3>2, <3>3, <3>4, TotalWith, Refunds
    <3> QED
      BY <2>3, <3>2, <3>3, <3>5 DEF HasRoom
  <2> QED
    BY <2>1, <2>2, <2>3 DEF LedgerAssumption
<1> QED
  BY <1>2, <1>3, <1>4, <1>5, <1>6 DEF Sums

\* What neither books nor moves a delivery keeps all of this.
LEMMA SumsStay ==
    ASSUME UNCHANGED entries
    PROVE  /\ Posted' = Posted /\ (Sums => Sums')
           /\ \A p : Refunded(p)' = Refunded(p)
           /\ \A e : HasRoom(e)' <=> HasRoom(e)
<1>1. Posted' = Posted /\ \A p : RefundsOf(p)' = RefundsOf(p)
  BY DEF Posted, RefundsOf
<1>2. \A p : Refunded(p)' = Refunded(p)
  BY <1>1, Refunds
<1> QED
  BY <1>1, <1>2 DEF Sums, HasRoom

LEMMA RoomStays ==
    ASSUME Room, UNCHANGED <<entries, hooks>>
    PROVE  Room'
<1>1. Sums' /\ \A e : HasRoom(e)' <=> HasRoom(e)
  BY SumsStay DEF Room
<1> QED
  BY <1>1 DEF Room, LocksAlone, RoomIsHeld

\* A delivery that is not flushed afterwards holds nothing.
LEMMA HookRests ==
    ASSUME Inv, Room, NEW h \in Hooks, UNCHANGED entries, NEW hook, hook.pc # "flushed",
           hook.locked = None, hooks' = [hooks EXCEPT ![h] = hook]
    PROVE  Room'
<1>1. /\ hooks'[h] = hook
      /\ \A g \in Hooks \ {h} : hooks'[g] = hooks[g]
  BY DEF Inv, TypeOK
<1>2. Sums' /\ \A e : HasRoom(e)' <=> HasRoom(e)
  BY SumsStay DEF Room
<1>3. LocksAlone'
  BY <1>1 DEF Room, LocksAlone
<1>4. RoomIsHeld'
  BY <1>1, <1>2 DEF Room, RoomIsHeld, Refunding
<1> QED
  BY <1>2, <1>3, <1>4 DEF Room

LEMMA HookFlushesRoom ==
    ASSUME LedgerAssumption, Inv, Room, NEW h \in Hooks, HookFlushes(h)
    PROVE  Room'
<1> DEFINE e == hooks[h].event
<1>1. CASE receipts[e].status # "absent"
  <2>1. hooks' = [hooks EXCEPT ![h] = IdleHook] /\ UNCHANGED entries
    BY <1>1 DEF HookFlushes
  <2>2. IdleHook.pc # "flushed" /\ IdleHook.locked = None
    BY DEF IdleHook
  <2> QED
    BY <2>1, <2>2, HookRests
<1>2. CASE receipts[e].status = "absent"
  <2> DEFINE new == [pc |-> "flushed", event |-> e,
                     posts |-> Postable(e, CaseRef[e]), locked |-> LockedBy(e)]
  <2>1. hooks' = [hooks EXCEPT ![h] = new] /\ UNCHANGED entries /\ Unlocked(e)
    BY <1>2 DEF HookFlushes
  <2>2. /\ hooks'[h] = new
        /\ \A g \in Hooks \ {h} : hooks'[g] = hooks[g]
    BY <2>1 DEF Inv, TypeOK
  <2>3. \A g \in Hooks : LockedBy(e) # None => hooks[g].locked # LockedBy(e)
    BY <2>1 DEF Unlocked
  <2>4. new.posts /\ Kind[e] = "refund" => new.locked = Original[e] /\ HasRoom(e)
    BY DEF Postable, LockedBy, HasRoom
  <2>5. new.event = e /\ new.locked = LockedBy(e)
    OBVIOUS
  <2> HIDE DEF new, e
  <2>6. Sums' /\ \A d : HasRoom(d)' <=> HasRoom(d)
    BY <2>1, SumsStay DEF Room
  <2>7. LocksAlone'
    BY <2>2, <2>3, <2>5 DEF Room, LocksAlone
  <2>8. RoomIsHeld'
    BY <2>2, <2>4, <2>5, <2>6 DEF Room, RoomIsHeld, Refunding
  <2> QED
    BY <2>6, <2>7, <2>8 DEF Room
<1> QED
  BY <1>1, <1>2

LEMMA HookCommitsRoom ==
    ASSUME LedgerAssumption, NoneIsNoRow, Inv, Room, NEW h \in Hooks, HookCommits(h)
    PROVE  Room'
<1> DEFINE e == hooks[h].event
<1>1. /\ hooks' = [hooks EXCEPT ![h] = IdleHook] /\ hooks[h].pc = "flushed"
      /\ hooks[h].posts => Post(e, CaseRef[e])
      /\ ~ hooks[h].posts => UNCHANGED entries
  BY DEF HookCommits
<1>2. IdleHook.pc # "flushed" /\ IdleHook.locked = None
  BY DEF IdleHook
<1>3. CASE ~ hooks[h].posts
  BY <1>1, <1>2, <1>3, HookRests
<1>4. CASE hooks[h].posts
  <2>1. e \in Events /\ entries[e] = None /\ Fits(e, CaseRef[e])
    BY <1>1, <1>4 DEF Inv, NamesExist, DeliversAlone, EvidenceFirst
  <2>2. Kind[e] = "refund" => /\ hooks[h].locked = Original[e]
                              /\ HasRoom(e)
    BY <1>1, <1>4, <2>1 DEF Room, RoomIsHeld, Refunding
  <2>3. /\ Sums'
        /\ \A p : Kind[e] = "payment" \/ Original[e] # p => Refunded(p)' = Refunded(p)
    BY <1>1, <1>4, <2>1, <2>2, PostSums DEF Room
  <2>4. /\ hooks'[h] = IdleHook
        /\ \A g \in Hooks \ {h} : hooks'[g] = hooks[g]
    BY <1>1 DEF Inv, TypeOK
  <2>5. Kind[e] \in {"payment", "refund"} /\ None \notin Events
        /\ (Kind[e] = "refund" => Original[e] # None)
    BY <2>1 DEF LedgerAssumption, Fits
  <2> HIDE DEF e
  <2>6. LocksAlone'
    BY <1>2, <2>4 DEF Room, LocksAlone
  <2>7. ASSUME NEW g \in Hooks, NEW d \in Events, Refunding(hooks'[g], d)
        PROVE  hooks'[g].locked = Original[d] /\ HasRoom(d)'
    <3>1. g # h /\ hooks'[g] = hooks[g]
      BY <1>2, <2>4, <2>7 DEF Refunding
    <3>2. hooks[g].locked = Original[d] /\ HasRoom(d)
      BY <2>7, <3>1 DEF Room, RoomIsHeld
    <3>3. Kind[e] = "refund" => Original[e] # Original[d]
      BY <2>2, <2>5, <3>1, <3>2 DEF Room, LocksAlone
    <3>4. Refunded(Original[d])' = Refunded(Original[d])
      BY <2>3, <2>5, <3>3
    <3>5. HasRoom(d)'
      BY <3>2, <3>4 DEF HasRoom
    <3> QED
      BY <3>1, <3>2, <3>5
  <2>8. RoomIsHeld'
    BY <2>7 DEF RoomIsHeld
  <2> QED
    BY <2>3, <2>6, <2>8 DEF Room
<1> QED
  BY <1>3, <1>4

\* What a reviewer or the one-step match books waits for the deliveries that hold its payment.
LEMMA ReviewRoom ==
    ASSUME LedgerAssumption, NoneIsNoRow, Inv, Room, NEW e \in Events, NEW c,
           entries[e] = None, Postable(e, c), Unlocked(e), Post(e, c), UNCHANGED hooks
    PROVE  Room'
<1>1. Fits(e, c)
  BY PostableFits
<1>2. Kind[e] = "refund" => /\ Original[e] # None
                            /\ HasRoom(e)
                            /\ \A h \in Hooks : hooks[h].locked # Original[e]
  BY DEF Postable, Unlocked, LockedBy, OriginalPosted, HasRoom
<1>3. /\ Sums'
      /\ \A p : Kind[e] = "payment" \/ Original[e] # p => Refunded(p)' = Refunded(p)
  BY <1>1, <1>2, PostSums DEF Room
<1>4. Kind[e] \in {"payment", "refund"}
  BY DEF LedgerAssumption
<1>5. RoomIsHeld'
  <2>1. ASSUME NEW h \in Hooks, NEW d \in Events, Refunding(hooks[h], d)
        PROVE  hooks[h].locked = Original[d] /\ HasRoom(d)'
    <3>1. hooks[h].locked = Original[d] /\ HasRoom(d)
      BY <2>1 DEF Room, RoomIsHeld
    <3>2. Refunded(Original[d])' = Refunded(Original[d])
      BY <1>2, <1>3, <1>4, <3>1
    <3>3. HasRoom(d)'
      BY <3>1, <3>2 DEF HasRoom
    <3> QED
      BY <3>1, <3>3
  <2> QED
    BY <2>1 DEF RoomIsHeld
<1>6. LocksAlone'
  BY DEF Room, LocksAlone
<1> QED
  BY <1>3, <1>5, <1>6 DEF Room

LEMMA NextRoom ==
    ASSUME LedgerAssumption, NoneIsNoRow, Inv, Room, [Next]_vars
    PROVE  Room'
<1>1. ASSUME NEW h \in Hooks, NEW e \in Events, HookLooksUp(h, e) PROVE Room'
  <2> DEFINE new == [IdleHook EXCEPT !.pc = "checked", !.event = e]
  <2>1. hooks' = [hooks EXCEPT ![h] = new] /\ UNCHANGED entries
    BY <1>1 DEF HookLooksUp
  <2>2. new.pc # "flushed" /\ new.locked = None
    BY DEF IdleHook
  <2> HIDE DEF new
  <2> QED
    BY <2>1, <2>2, HookRests
<1>2. ASSUME NEW h \in Hooks, HookDies(h) PROVE Room'
  <2>1. IdleHook.pc # "flushed" /\ IdleHook.locked = None
    BY DEF IdleHook
  <2> QED
    BY <1>2, <2>1, HookRests DEF HookDies
<1>3. Deliver => Room'
  BY <1>1, <1>2, HookFlushesRoom, HookCommitsRoom DEF Deliver
<1>4. ASSUME NEW a \in Actors, NEW e \in Events, Approve(a, e) PROVE Room'
  BY <1>4, RoomStays, ReviewRoom DEF Approve
<1>5. ASSUME NEW e \in Events, NEW c \in Cases, MatchDirectly(e, c) PROVE Room'
  BY <1>5, RoomStays, ReviewRoom DEF MatchDirectly
<1>6. Reconcile => Room'
  <2>1. ASSUME NEW a \in Actors, NEW e \in Events,
               (\E c \in Cases : Propose(a, e, c)) \/ OpenReview(a, e) \/ Reject(a, e)
        PROVE  UNCHANGED <<entries, hooks>>
    BY <2>1 DEF Propose, OpenReview, Reject
  <2> QED
    BY <1>4, <1>5, <2>1, RoomStays DEF Reconcile
<1>7. Settle => Room'
  BY RoomStays DEF Settle, ClaimLocks, ClaimChecks, ClaimCommits, ClaimDies
<1>8. CASE UNCHANGED vars
  BY <1>8, RoomStays DEF vars
<1> QED
  BY <1>3, <1>6, <1>7, <1>8 DEF Next

LEMMA InitRoom == ASSUME LedgerAssumption PROVE Init => Room
<1> SUFFICES ASSUME Init PROVE Room
  OBVIOUS
<1>1. Posted = {}
  BY DEF Init, Posted
<1>2. IsFiniteSet(Posted)
  BY <1>1, FS_EmptySet
<1>3. LocksAlone /\ RoomIsHeld
  BY DEF Init, LocksAlone, RoomIsHeld, Refunding, IdleHook
<1> QED
  BY <1>1, <1>2, <1>3 DEF Room, Sums

\* Refunds, whoever books them and in whatever order, never exceed their payment.
LEMMA RefundsWithin ==
    ASSUME Inv, Room
    PROVE  RefundsFollowPayment
<1> SUFFICES ASSUME NEW p \in Posted, Kind[p] = "payment"
             PROVE  /\ Refunded(p) <= Amount[p]
                    /\ \A r \in RefundsOf(p) : /\ entries[r].case = entries[p].case
                                               /\ entries[r].eligible = entries[p].eligible
  BY DEF RefundsFollowPayment
<1>1. Refunded(p) <= Amount[p]
  BY DEF Room, Sums
<1>2. ASSUME NEW r \in RefundsOf(p)
      PROVE  entries[r].case = entries[p].case /\ entries[r].eligible = entries[p].eligible
  <2>1. r \in Events /\ entries[r] # None /\ Kind[r] = "refund" /\ Original[r] = p
    BY DEF RefundsOf, Posted
  <2> QED
    BY <2>1 DEF Inv, RefundsAreBooked, Fits
<1> QED
  BY <1>1, <1>2

\* Rounding moves one commission by half a cent at most.
LEMMA OneRounding ==
    ASSUME LedgerAssumption, NEW e \in Events
    PROVE  /\ Amount[e] * RateBps \in Int /\ Commission(Amount[e]) \in Int
           /\ 2 * (10000 * Commission(Amount[e]) - Amount[e] * RateBps) <= 10000
           /\ -2 * (10000 * Commission(Amount[e]) - Amount[e] * RateBps) <= 10000
<1>1. Amount[e] \in Int /\ RateBps \in Int
  BY DEF LedgerAssumption
<1>2. PICK x \in Int : x = Amount[e] * RateBps
  BY <1>1
<1>3. PICK c \in Int : c = (x + 5000) \div 10000
  BY <1>2
<1>4. 10000 * c <= x + 5000 /\ x + 5000 < 10000 * c + 10000
  BY <1>2, <1>3
<1> QED
  BY <1>2, <1>3, <1>4 DEF Commission

LEMMA Distributes == \A a, b, r \in Int : (a + b) * r = a * r + b * r
OBVIOUS

\* The refunds of a payment drift by half a cent each at most.
LEMMA RefundsDrift ==
    ASSUME LedgerAssumption, Inv, Room, NEW p \in Posted, Kind[p] = "payment",
           entries[p].eligible, NEW S, S = RefundsOf(p)
    PROVE  /\ 2 * (10000 * CommissionOf(S) + Total(Amount, S) * RateBps)
                  <= 10000 * Cardinality(S)
           /\ -2 * (10000 * CommissionOf(S) + Total(Amount, S) * RateBps)
                  <= 10000 * Cardinality(S)
<1> DEFINE Drift(s) == 10000 * Total(Cents, s) + Total(Amount, s) * RateBps
           Within(s) == /\ 2 * Drift(s) <= 10000 * Cardinality(s)
                        /\ -2 * Drift(s) <= 10000 * Cardinality(s)
           Fails == {s \in SUBSET S : ~ Within(s)}
<1>1. IsFiniteSet(S) /\ S \subseteq Events
  BY RefundedIsInt DEF Room, Sums, RefundsOf, Posted
<1>2. ASSUME NEW r \in S
      PROVE  /\ Cents[r] = - Commission(Amount[r]) /\ Cents[r] \in Int /\ Amount[r] \in Int
             /\ Amount[r] * RateBps \in Int
             /\ 2 * (10000 * Cents[r] + Amount[r] * RateBps) <= 10000
             /\ -2 * (10000 * Cents[r] + Amount[r] * RateBps) <= 10000
  <2>1. r \in Events /\ r \in Posted /\ Kind[r] = "refund" /\ Original[r] = p
    BY DEF RefundsOf, Posted
  <2>2. entries[r].eligible
    BY <2>1, RefundsWithin DEF RefundsFollowPayment
  <2>3. Cents[r] = - Commission(Amount[r])
    BY <2>1, <2>2 DEF Room, Sums, Cents
  <2>4. Amount[r] \in Int
    BY <2>1 DEF LedgerAssumption
  <2> QED
    BY <2>1, <2>3, <2>4, OneRounding
<1>3. RateBps \in Int
  BY DEF LedgerAssumption
<1>4. CommissionOf(S) = Total(Cents, S)
  BY <1>1, CentsAre
<1>5. Fails = {}
  <2> SUFFICES ASSUME Fails # {} PROVE FALSE
    OBVIOUS
  <2>1. Fails \subseteq SUBSET S
    OBVIOUS
  <2>2. PICK t \in Fails : \A u \in Fails : u \subseteq t => u = t
    <3> HIDE DEF Fails
    <3> QED
      BY <1>1, <2>1, SmallestFails
  <2>3. t \subseteq S /\ IsFiniteSet(t)
    BY <1>1, FS_Subset
  <2>4. t # {}
    <3>1. Total(Cents, {}) = 0 /\ Total(Amount, {}) = 0 /\ Cardinality({}) = 0
      BY TotalOfNothing, FS_EmptySet
    <3>2. Within({})
      BY <1>3, <3>1
    <3>3. ~ Within(t)
      BY <2>2
    <3> HIDE DEF Within
    <3> QED
      BY <3>2, <3>3
  <2>5. PICK r \in t : TRUE
    BY <2>4
  <2> DEFINE u == t \ {r}
  <2>6. Within(u)
    BY <2>2, <2>5
  <2>7. /\ Total(Cents, t) = Cents[r] + Total(Cents, u)
        /\ Total(Amount, t) = Amount[r] + Total(Amount, u)
    BY <1>2, <2>3, TotalWithout
  <2>8. IsFiniteSet(u) /\ Total(Cents, u) \in Int /\ Total(Amount, u) \in Int
    <3>1. IsFiniteSet(u) /\ \A q \in u : Cents[q] \in Int /\ Amount[q] \in Int
      BY <1>2, <2>3, FS_Subset
    <3> HIDE DEF u
    <3> QED
      BY <3>1, TotalIsInt
  <2>9. Cardinality(t) = Cardinality(u) + 1 /\ Cardinality(u) \in Int
    BY <2>3, <2>5, <2>8, FS_RemoveElement, FS_CardinalityType
  <2>10. Total(Amount, t) * RateBps = Amount[r] * RateBps + Total(Amount, u) * RateBps
    BY <1>2, <1>3, <2>3, <2>7, <2>8, Distributes
  <2>11. Total(Amount, u) * RateBps \in Int
    BY <1>3, <2>8
  <2> HIDE DEF u
  <2>12. Within(t)
    BY <1>2, <2>3, <2>6, <2>7, <2>8, <2>9, <2>10, <2>11
  <2> QED
    BY <2>12
<1> QED
  BY <1>4, <1>5

\* What rounding does to the net commission of a payment and its refunds.
LEMMA RoundingWithin ==
    ASSUME LedgerAssumption, Inv, Room
    PROVE  RoundingBounded
<1>0. SUFFICES ASSUME NEW p \in Posted, Kind[p] = "payment", entries[p].eligible,
                      NEW family, family = {p} \cup RefundsOf(p)
               PROVE  LET exact == (Amount[p] - Refunded(p)) * RateBps
                          drift == 10000 * CommissionOf(family) - exact
                      IN  /\ 2 * drift <= 10000 * Cardinality(family)
                          /\ -2 * drift <= 10000 * Cardinality(family)
  BY DEF RoundingBounded
<1>1. PICK S : S = RefundsOf(p)
  OBVIOUS
<1>2. IsFiniteSet(S) /\ Total(Amount, S) \in Int /\ Refunded(p) = Total(Amount, S)
  BY <1>1, RefundedIsInt, Refunds DEF Room, Sums
<1>3. /\ p \in Events /\ p \notin S /\ S \subseteq Events /\ S \subseteq Posted
      /\ family = S \cup {p} /\ family \subseteq Events
  BY <1>0, <1>1 DEF RefundsOf, Posted
<1>4. \A e \in family : Cents[e] \in Int
  <2> SUFFICES ASSUME NEW e \in family PROVE entries[e].commission \in Int
    BY <1>3 DEF Cents
  <2>1. e \in Posted
    BY <1>0, <1>3
  <2> QED
    BY <2>1 DEF Inv, TypeOK, Entry, Posted
<1>5. IsFiniteSet(family) /\ Cardinality(family) = Cardinality(S) + 1 /\ Cardinality(S) \in Int
  BY <1>2, <1>3, FS_AddElement, FS_CardinalityType
<1>6. CommissionOf(family) = Cents[p] + Total(Cents, S)
  <2>1. CommissionOf(family) = Total(Cents, family)
    BY <1>3, <1>5, CentsAre
  <2>2. Total(Cents, S \cup {p}) = Cents[p] + Total(Cents, S)
    BY <1>2, <1>3, <1>4, TotalWith
  <2> QED
    BY <1>0, <1>3, <2>1, <2>2
<1>7. Cents[p] = Commission(Amount[p])
  BY <1>0, <1>3 DEF Cents, Room, Sums
<1>8. PICK c \in Int, x \in Int, n \in Int :
         /\ c = Commission(Amount[p]) /\ x = Amount[p] * RateBps
         /\ n = CommissionOf(S) /\ n = Total(Cents, S)
         /\ 2 * (10000 * c - x) <= 10000 /\ -2 * (10000 * c - x) <= 10000
  <2>1. Total(Cents, S) \in Int
    BY <1>2, <1>3, <1>4, TotalIsInt
  <2> QED
    BY <1>2, <1>3, <2>1, OneRounding, CentsAre
<1>9. PICK y \in Int : y = Total(Amount, S) * RateBps
  BY <1>2 DEF LedgerAssumption
<1>10. /\ 2 * (10000 * n + y) <= 10000 * Cardinality(S)
       /\ -2 * (10000 * n + y) <= 10000 * Cardinality(S)
  <2>1. entries[p].eligible
    BY <1>0
  <2>2. /\ 2 * (10000 * CommissionOf(S) + Total(Amount, S) * RateBps)
               <= 10000 * Cardinality(S)
        /\ -2 * (10000 * CommissionOf(S) + Total(Amount, S) * RateBps)
               <= 10000 * Cardinality(S)
    BY <1>0, <1>1, <2>1, RefundsDrift
  <2> QED
    BY <1>8, <1>9, <2>2
<1>11. (Amount[p] - Refunded(p)) * RateBps = x - y
  <2>1. Amount[p] \in Int /\ RateBps \in Int
    BY <1>3 DEF LedgerAssumption
  <2>2. \A a, b, r \in Int : (a - b) * r = a * r - b * r
    OBVIOUS
  <2> QED
    BY <1>2, <1>8, <1>9, <2>1, <2>2
<1>12. CommissionOf(family) = c + n
  BY <1>6, <1>7, <1>8
<1> QED
  BY <1>5, <1>8, <1>9, <1>10, <1>11, <1>12

-----------------------------------------------------------------------------
(* Commission that is settled and collected *)

Earning == {e \in Posted : entries[e].commission > 0}

\* Two requests at work exclude each other: the commission history has a row to lock, since
\* commission was accrued before.
RequestsAlone ==
    /\ \A r \in Claims : claims[r].pc # "idle" => claims[r].locks
    /\ \A q, r \in Claims : claims[q].locks /\ claims[r].locks => q = r

\* A request about to book what it asked for has the balance it needs.
ClaimCovered(q) ==
    IF q.type = "settlement" THEN book.settled + q.amount <= GrossAccrued
                             ELSE book.collected + q.amount <= book.settled

Balances ==
    /\ BalancesCovered
    /\ RequestsAlone
    /\ \A r \in Claims : claims[r].pc = "checked" => ClaimCovered(claims[r])

LEMMA GrossIs ==
    Inv /\ Room => /\ IsFiniteSet(Earning)
                   /\ GrossAccrued = Opening + Total(Cents, Earning)
                   /\ \A e \in Posted : Cents[e] = entries[e].commission /\ Cents[e] \in Int
<1> SUFFICES ASSUME Inv, Room
             PROVE  /\ IsFiniteSet(Earning)
                    /\ GrossAccrued = Opening + Total(Cents, Earning)
                    /\ \A e \in Posted : Cents[e] = entries[e].commission /\ Cents[e] \in Int
  OBVIOUS
<1>1. IsFiniteSet(Earning) /\ Earning \in SUBSET Events
  BY FS_Subset DEF Room, Sums, Earning, Posted
<1>2. CommissionOf(Earning) = Total(Cents, Earning)
  BY <1>1, CentsAre
<1>3. GrossAccrued = Opening + CommissionOf(Earning)
  BY DEF GrossAccrued, Earning
<1>4. \A e \in Posted : Cents[e] = entries[e].commission /\ Cents[e] \in Int
  BY DEF Cents, Posted, Inv, TypeOK, Entry
<1> QED
  BY <1>1, <1>2, <1>3, <1>4

LEMMA GrossIsThen ==
    (Inv /\ Room => /\ IsFiniteSet(Earning)
                    /\ GrossAccrued = Opening + Total(Cents, Earning)
                    /\ \A e \in Posted : Cents[e] = entries[e].commission /\ Cents[e] \in Int)'
BY GrossIs, PTL

\* What is accrued, refunds taken off, is no more than what payments earned.
LEMMA AccruedWithinGross ==
    ASSUME LedgerAssumption, Inv, Room
    PROVE  Accrued \in Int /\ GrossAccrued \in Int /\ Accrued <= GrossAccrued
<1>1. IsFiniteSet(Posted) /\ Posted \in SUBSET Events /\ Earning \in SUBSET Posted
  BY DEF Room, Sums, Posted, Earning
<1>2. \A e \in Posted : Cents[e] \in Int /\ (e \in Earning <=> Cents[e] > 0)
  BY GrossIs DEF Earning
<1>3. Total(Cents, Posted) \in Int /\ Total(Cents, Earning) \in Int
  BY <1>1, <1>2, GrossIs, TotalIsInt
<1>4. Total(Cents, Posted) <= Total(Cents, Earning)
  <2>1. \A e \in Posted \ Earning : Cents[e] <= 0
    BY <1>2
  <2> QED
    BY <1>1, <1>2, <2>1, TotalOfPart
<1>5. Accrued = Opening + Total(Cents, Posted)
  BY <1>1, CentsAre DEF Accrued
<1>6. Opening \in Int
  BY DEF LedgerAssumption
<1> QED
  BY <1>3, <1>4, <1>5, <1>6, GrossIs

\* What payments earned never falls.
LEMMA GrossGrows ==
    ASSUME LedgerAssumption, Inv, Room, Inv', Room', KeepsEntries \/ UNCHANGED entries
    PROVE  GrossAccrued' \in Int /\ GrossAccrued <= GrossAccrued'
<1>1. /\ IsFiniteSet(Earning) /\ IsFiniteSet(Earning')
      /\ GrossAccrued = Opening + Total(Cents, Earning)
      /\ GrossAccrued' = Opening + Total(Cents', Earning')
      /\ \A e \in Posted : Cents[e] = entries[e].commission /\ Cents[e] \in Int
      /\ \A e \in Posted' : Cents'[e] = entries'[e].commission /\ Cents'[e] \in Int
  BY GrossIs, GrossIsThen
<1>2. Posted \subseteq Posted' /\ \A e \in Posted : entries'[e] = entries[e]
  <2>1. \A e \in Posted : entries[e] # None
    BY DEF Posted
  <2> QED
    BY <2>1 DEF KeepsEntries, Posted
<1>3. /\ Earning \in SUBSET Earning'
      /\ \A e \in Earning' \ Earning : Cents'[e] >= 0
      /\ \A e \in Earning : Cents'[e] = Cents[e] /\ Cents'[e] \in Int
      /\ \A e \in Earning' : Cents'[e] \in Int
  BY <1>1, <1>2 DEF Earning
<1>4. Total(Cents', Earning') >= Total(Cents', Earning)
  BY <1>1, <1>3, TotalOfPart
<1>5. Total(Cents', Earning) = Total(Cents, Earning)
  BY <1>1, <1>3, TotalSame
<1>6. Total(Cents', Earning') \in Int /\ Total(Cents', Earning) \in Int
  BY <1>1, <1>3, TotalIsInt
<1>7. Opening \in Int
  BY DEF LedgerAssumption
<1> QED
  BY <1>1, <1>4, <1>5, <1>6, <1>7

\* What leaves the requests and the balances alone keeps them covered.
LEMMA BalancesStay ==
    ASSUME LedgerAssumption, Inv, Room, Balances, GrossAccrued' \in Int,
           GrossAccrued <= GrossAccrued', UNCHANGED <<book, claims>>
    PROVE  Balances'
<1>1. /\ GrossAccrued \in Int
      /\ book.settled \in Int
      /\ \A r \in Claims : claims[r].amount \in Int
  BY AccruedWithinGross DEF Inv, TypeOK, Book, Claim
<1>2. BalancesCovered'
  BY <1>1 DEF Balances, BalancesCovered
<1>3. RequestsAlone'
  BY DEF Balances, RequestsAlone
<1>4. ASSUME NEW r \in Claims, claims[r].pc = "checked" PROVE ClaimCovered(claims[r])'
  BY <1>1, <1>4 DEF Balances, ClaimCovered
<1> QED
  BY <1>2, <1>3, <1>4 DEF Balances

\* A request that changes only itself.
LEMMA RequestMoves ==
    ASSUME Inv, Balances, NEW r \in Claims, NEW claim, claims' = [claims EXCEPT ![r] = claim],
           GrossAccrued' = GrossAccrued, UNCHANGED book,
           claim.pc # "idle" => claim.locks,
           claim.locks => \A q \in Claims \ {r} : ~ claims[q].locks,
           claim.pc = "checked" => ClaimCovered(claim)
    PROVE  Balances'
<1>1. /\ claims'[r] = claim
      /\ \A q \in Claims \ {r} : claims'[q] = claims[q]
  BY DEF Inv, TypeOK
<1>2. BalancesCovered'
  BY DEF Balances, BalancesCovered
<1>3. RequestsAlone'
  BY <1>1 DEF Balances, RequestsAlone
<1>4. \A q \in Claims : claims'[q].pc = "checked" => ClaimCovered(claims[q])'
  <2> SUFFICES ASSUME NEW q \in Claims, claims'[q].pc = "checked" PROVE ClaimCovered(claims[q])'
    OBVIOUS
  <2>1. ClaimCovered(claims'[q])
    BY <1>1 DEF Balances
  <2> QED
    BY <2>1 DEF ClaimCovered
<1> QED
  BY <1>2, <1>3, <1>4 DEF Balances

LEMMA ClaimLocksBalances ==
    ASSUME LedgerAssumption, HistoryAssumption, Inv, Balances, GrossAccrued' = GrossAccrued,
           NEW r \in Claims, NEW k, NEW type, NEW amount, ClaimLocks(r, k, type, amount)
    PROVE  Balances'
<1> DEFINE claim == [pc |-> "locked", key |-> k, type |-> type, amount |-> amount,
                     locks |-> HistoryExists]
<1>1. claims' = [claims EXCEPT ![r] = claim] /\ UNCHANGED book
  BY DEF ClaimLocks
<1>2. claim.pc = "locked" /\ claim.locks
  BY DEF HistoryAssumption, HistoryExists
<1>3. \A q \in Claims : ~ claims[q].locks
  BY DEF ClaimLocks
<1> HIDE DEF claim
<1> QED
  BY <1>1, <1>2, <1>3, RequestMoves

LEMMA ClaimRests ==
    ASSUME Inv, Balances, NEW r \in Claims, claims' = [claims EXCEPT ![r] = IdleClaim],
           GrossAccrued' = GrossAccrued, UNCHANGED book
    PROVE  Balances'
<1>1. IdleClaim.pc = "idle" /\ ~ IdleClaim.locks
  BY DEF IdleClaim
<1> QED
  BY <1>1, RequestMoves

LEMMA ClaimChecksBalances ==
    ASSUME LedgerAssumption, Inv, Room, Balances, GrossAccrued' = GrossAccrued,
           NEW r \in Claims, ClaimChecks(r)
    PROVE  Balances'
<1> DEFINE q == claims[r]
           checked == [q EXCEPT !.pc = "checked"]
<1>1. CASE ~ (q.key \notin book.keys /\ Covered(q.type, q.amount))
  BY <1>1, ClaimRests DEF ClaimChecks
<1>2. CASE q.key \notin book.keys /\ Covered(q.type, q.amount)
  <2>1. claims' = [claims EXCEPT ![r] = checked] /\ UNCHANGED book /\ q.pc = "locked"
    BY <1>2 DEF ClaimChecks
  <2>2. q \in Claim
    BY DEF Inv, TypeOK
  <2>3. /\ checked.pc = "checked" /\ checked.type = q.type /\ checked.amount = q.amount
        /\ checked.locks = q.locks
    BY <2>2 DEF Claim
  <2>4. q.locks /\ \A p \in Claims \ {r} : ~ claims[p].locks
    BY <2>1 DEF Balances, RequestsAlone
  <2>5. q.amount \in Int /\ book.settled \in Int /\ book.collected \in Int
    BY <2>2 DEF Claim, Inv, TypeOK, Book
  <2> HIDE DEF checked, q
  <2>6. ClaimCovered(checked)
    BY <1>2, <2>3, <2>5, AccruedWithinGross DEF ClaimCovered, Covered
  <2> QED
    BY <2>1, <2>3, <2>4, <2>6, RequestMoves
<1> QED
  BY <1>1, <1>2

LEMMA ClaimCommitsBalances ==
    ASSUME LedgerAssumption, Inv, Room, Balances, GrossAccrued' = GrossAccrued,
           NEW r \in Claims, ClaimCommits(r)
    PROVE  Balances'
<1> DEFINE q == claims[r]
<1>1. /\ q.pc = "checked" /\ claims' = [claims EXCEPT ![r] = IdleClaim]
      /\ book' = IF q.key \in book.keys THEN book ELSE BookedClaim(q)
  BY DEF ClaimCommits
<1>2. CASE q.key \in book.keys
  BY <1>1, <1>2, ClaimRests
<1>3. CASE q.key \notin book.keys
  <2>1. book \in Book /\ q.amount \in Nat
    BY DEF Inv, TypeOK, Claim
  <2>2. /\ q.type = "settlement" => /\ book'.settled = book.settled + q.amount
                                    /\ book'.collected = book.collected
        /\ q.type # "settlement" => /\ book'.settled = book.settled
                                    /\ book'.collected = book.collected + q.amount
    BY <1>1, <1>3, <2>1 DEF BookedClaim, Book
  <2>3. /\ IdleClaim.pc = "idle" /\ ~ IdleClaim.locks /\ claims'[r] = IdleClaim
        /\ \A p \in Claims \ {r} : claims'[p] = claims[p]
    BY <1>1 DEF IdleClaim, Inv, TypeOK
  <2>4. ClaimCovered(q) /\ BalancesCovered
    BY <1>1 DEF Balances
  <2>5. BalancesCovered'
    <3>1. book.settled \in Nat /\ book.collected \in Nat /\ GrossAccrued \in Int
      BY <2>1, AccruedWithinGross DEF Book
    <3> HIDE DEF q
    <3> QED
      BY <2>1, <2>2, <2>4, <3>1 DEF BalancesCovered, ClaimCovered
  <2>6. \A p \in Claims : claims'[p].pc = "idle"
    BY <1>1, <2>3 DEF Balances, RequestsAlone
  <2>7. RequestsAlone'
    BY <2>3, <2>6 DEF Balances, RequestsAlone
  <2>8. \A p \in Claims : claims'[p].pc = "checked" => ClaimCovered(claims[p])'
    BY <2>6
  <2> QED
    BY <2>5, <2>7, <2>8 DEF Balances
<1> QED
  BY <1>2, <1>3

LEMMA NextBalances ==
    ASSUME LedgerAssumption, NoneIsNoRow, HistoryAssumption, Inv, Room, Balances, [Next]_vars
    PROVE  Balances'
<1>1. Inv' /\ Room' /\ (KeepsEntries \/ UNCHANGED entries)
  BY NextInv, NextRoom DEF vars
<1>2. GrossAccrued' \in Int /\ GrossAccrued <= GrossAccrued'
  BY <1>1, GrossGrows
<1>3. CASE UNCHANGED <<book, claims>>
  BY <1>2, <1>3, BalancesStay
<1>4. Deliver => UNCHANGED <<book, claims>>
  BY DEF Deliver, HookLooksUp, HookFlushes, HookCommits, HookDies
<1>5. Reconcile => UNCHANGED <<book, claims>>
  BY DEF Reconcile, Propose, OpenReview, Reject, Approve, MatchDirectly
<1>6. CASE Settle
  <2>1. UNCHANGED entries
    BY <1>6 DEF Settle, ClaimLocks, ClaimChecks, ClaimCommits, ClaimDies
  <2>2. GrossAccrued' = GrossAccrued
    BY <2>1 DEF GrossAccrued, Posted, CommissionOf, MapThenSumSet, MapThenFoldSet
  <2>3. ASSUME NEW r \in Claims, NEW k \in Keys, NEW amount \in ClaimAmounts,
               \/ ClaimLocks(r, k, "settlement", amount)
               \/ ClaimLocks(r, k, "collection", amount)
        PROVE  Balances'
    BY <2>2, <2>3, ClaimLocksBalances
  <2>4. ASSUME NEW r \in Claims, ClaimDies(r) PROVE Balances'
    BY <2>2, <2>4, ClaimRests DEF ClaimDies
  <2> QED
    BY <1>6, <2>2, <2>3, <2>4, ClaimChecksBalances, ClaimCommitsBalances DEF Settle
<1>7. CASE UNCHANGED vars
  BY <1>3, <1>7 DEF vars
<1> QED
  BY <1>3, <1>4, <1>5, <1>6, <1>7 DEF Next

LEMMA InitBalances ==
    ASSUME LedgerAssumption, Inv, Room, Init
    PROVE  Balances
<1>1. RequestsAlone /\ \A r \in Claims : claims[r].pc # "checked"
  BY DEF Init, RequestsAlone, IdleClaim
<1>2. Earning = {}
  BY DEF Init, Posted, Earning
<1>3. GrossAccrued = Opening /\ Opening \in Nat
  BY <1>2, GrossIs, TotalOfNothing DEF LedgerAssumption
<1>4. BalancesCovered
  BY <1>3 DEF Init, BalancesCovered
<1> QED
  BY <1>1, <1>4 DEF Balances

-----------------------------------------------------------------------------
LEMMA RoomInvariance ==
    ASSUME LedgerAssumption, NoneIsNoRow PROVE Spec => [](Inv /\ Room)
<1>1. Init => Inv /\ Room
  BY InitInv, InitRoom
<1>2. Inv /\ Room /\ [Next]_vars => (Inv /\ Room)'
  BY NextInv, NextRoom
<1> QED
  BY <1>1, <1>2, PTL DEF Spec

\* However many deliveries race and whatever reviewers approve, refunds never exceed the
\* payment they take back.
THEOREM RefundsNeverExceed ==
    ASSUME LedgerAssumption, NoneIsNoRow PROVE Spec => []RefundsFollowPayment
<1>1. Inv /\ Room => RefundsFollowPayment
  BY RefundsWithin
<1> QED
  BY <1>1, RoomInvariance, PTL

\* Rounding each entry to the cent moves a payment's net commission by at most half a cent for
\* each entry, however many refunds there are.
THEOREM RoundingStaysBounded ==
    ASSUME LedgerAssumption, NoneIsNoRow PROVE Spec => []RoundingBounded
<1>1. Inv /\ Room => RoundingBounded
  BY RoundingWithin
<1> QED
  BY <1>1, RoomInvariance, PTL

\* Once there is a commission row to lock, concurrent requests never settle more than was
\* accrued before refunds, nor collect more than was settled.
THEOREM NoBalanceIsSpentTwice ==
    ASSUME LedgerAssumption, NoneIsNoRow, HistoryAssumption PROVE Spec => []BalancesCovered
<1>1. Init => Inv /\ Room /\ Balances
  BY InitInv, InitRoom, InitBalances
<1>2. Inv /\ Room /\ Balances /\ [Next]_vars => (Inv /\ Room /\ Balances)'
  BY NextInv, NextRoom, NextBalances
<1>3. Balances => BalancesCovered
  BY DEF Balances
<1> QED
  BY <1>1, <1>2, <1>3, PTL DEF Spec
=============================================================================
