----------------------------- MODULE CasesProofs -----------------------------
(***************************************************************************)
(* Proofs about the three parts of MCCases.                                *)
(*                                                                         *)
(* CaseProtection, for every set of cases, incidents, people and           *)
(* concurrent requests.  The inductive invariant is Inv.  What a request   *)
(* read under the row lock of the case stays true until it commits         *)
(* (ReadsAreCurrent), because no other request is at work on the case      *)
(* meanwhile (CaseIsLocked).  Both are needed: a release is decided on the *)
(* absence of other incidents, and written later.                          *)
(*                                                                         *)
(* The repayment plans and the policy: the theorems of                     *)
(* RepaymentPlansProofs, with the constants of MCCases.                    *)
(***************************************************************************)
EXTENDS MCCases, FiniteSetTheorems, TLAPS

\* At most one request is at work on the incidents of a case.
CaseIsLocked ==
    \A d, e \in Desks :
        /\ desks[d].pc # "idle" /\ desks[e].pc # "idle"
        /\ CaseOf[desks[d].incident] = CaseOf[desks[e].incident]
        => d = e

\* What a request that holds the lock has read of the incident.
ReadIsCurrent(q) ==
    /\ q.pc = "idle" <=> q.incident = None
    /\ q.hits \subseteq Created
    /\ q.pc = "opening" => incidents[q.incident] = None
    /\ q.pc \in {"rejecting", "approving"} =>
          /\ q.actor \in Actors
          /\ Pending(q.incident)
          /\ incidents[q.incident].proposer # q.actor
          /\ incidents[q.incident].version < MaxVersion
          /\ q.releases <=> (q.pc = "approving" /\ OtherActive(q.incident) = {})

ReadsAreCurrent == \A d \in Desks : ReadIsCurrent(desks[d])

\* A proposal has a proposer, and a stop-contact incident is never proposed.
ProposalsAreSound ==
    /\ \A i \in Incidents : Pending(i) => incidents[i].proposer \in Actors
    /\ \A i \in Holds :
          incidents[i] # None => incidents[i].status = "permanent_hold"

\* What activity requests and agent proposals name exists.
NamesExist ==
    /\ \A p \in Proposals :
          proposals[p] # None => proposals[p].activity \in Created
    /\ \A r \in Apis :
          /\ apis[r].pc = "update" =>
                apis[r].activity \in Created /\ apis[r].to # "none"
          /\ apis[r].proposal # None => proposals[apis[r].proposal] # None

Inv == /\ TypeOK /\ CaseIsLocked /\ ReadsAreCurrent /\ ProposalsAreSound
       /\ NamesExist /\ BlockedIffProtected

-----------------------------------------------------------------------------
(* Facts about the types *)

LEMMA IdleTypes == IdleDesk \in Desk /\ IdleApi \in Api
BY DEF IdleDesk, Desk, IdleApi, Api

\* The number a new activity gets is in range.
LEMMA NextNumber ==
    ASSUME TypeOK, Cardinality(Created) # MaxActivities
    PROVE  Cardinality(Created) + 1 \in Activities
<1>1. Created \subseteq Activities
  BY DEF Created
<1>2. IsFiniteSet(Activities) /\ Cardinality(Activities) = MaxActivities
  BY FS_Interval, ProtectionAssumption DEF Activities
<1>3. /\ Cardinality(Created) \in Nat
      /\ Cardinality(Created) <= MaxActivities
  BY <1>1, <1>2, FS_Subset, FS_CardinalityType
<1> QED
  BY <1>3, ProtectionAssumption DEF Activities

LEMMA InitInv == Init => Inv
<1> SUFFICES ASSUME Init PROVE Inv
  OBVIOUS
<1>1. TypeOK
  BY IdleTypes DEF Init, TypeOK, Case
<1>2. \A d \in Desks : /\ desks[d].pc = "idle" /\ desks[d].incident = None
                       /\ desks[d].hits = {}
  BY DEF Init, IdleDesk
<1>3. CaseIsLocked /\ ReadsAreCurrent
  BY <1>2 DEF CaseIsLocked, ReadsAreCurrent, ReadIsCurrent
<1>4. ProposalsAreSound /\ BlockedIffProtected
  BY ProtectionAssumption
     DEF Init, ProposalsAreSound, BlockedIffProtected, Pending, Active
<1>5. NamesExist
  BY DEF Init, NamesExist, IdleApi
<1> QED
  BY <1>1, <1>3, <1>4, <1>5 DEF Inv

-----------------------------------------------------------------------------
(* Activity requests leave the protection side alone *)

ActivitySide ==
    /\ activities \in [Activities -> Activity \cup {None}]
    /\ proposals \in [Proposals -> Proposal \cup {None}]
    /\ apis \in [Apis -> Api]
    /\ NamesExist

\* Whatever keeps the activities there are keeps the names valid.
LEMMA NamesKept ==
    ASSUME TypeOK, NamesExist, Created \subseteq Created', UNCHANGED <<proposals, apis>>
    PROVE  NamesExist'
BY DEF NamesExist

\* A request that goes back to idle names nothing.
LEMMA ApiSet ==
    ASSUME ActivitySide, NEW r \in Apis, NEW q \in Api,
           apis' = [apis EXCEPT ![r] = q],
           UNCHANGED <<activities, proposals>>,
           q.pc = "update" => q.activity \in Created /\ q.to # "none",
           q.proposal # None => proposals[q.proposal] # None
    PROVE  ActivitySide' /\ Created \subseteq Created'
<1>1. apis' \in [Apis -> Api]
  BY DEF ActivitySide
<1>2. Created' = Created
  BY DEF Created
<1>3. NamesExist'
  BY <1>1, <1>2 DEF NamesExist, ActivitySide
<1> QED
  BY <1>1, <1>2, <1>3 DEF ActivitySide

LEMMA CreateReadsActivity ==
    ASSUME ActivitySide, NEW r \in Apis, NEW wanted \in SUBSET Cases, NEW goal,
           CreateReads(r, wanted, goal)
    PROVE  ActivitySide' /\ Created \subseteq Created'
<1> DEFINE q == [IdleApi EXCEPT !.pc = "count", !.members = Eligible(wanted, goal)]
<1>1. Eligible(wanted, goal) \in SUBSET Cases
  BY DEF Eligible
<1>2. q \in Api /\ q.pc = "count" /\ q.proposal = None
  BY <1>1, IdleTypes DEF Api, IdleApi
<1>3. apis' = [apis EXCEPT ![r] = q] /\ UNCHANGED <<activities, proposals>>
  BY DEF CreateReads
<1> HIDE DEF q
<1> QED
  BY <1>2, <1>3, ApiSet

LEMMA CreateCountsActivity ==
    ASSUME Inv, NEW r \in Apis, CreateCounts(r)
    PROVE  ActivitySide' /\ Created \subseteq Created'
<1>0. ActivitySide
  BY DEF Inv, TypeOK, ActivitySide
<1> DEFINE q == [apis[r] EXCEPT !.pc = "create", !.activity = Cardinality(Created) + 1]
<1>1. CASE Cardinality(Created) = MaxActivities
  <2>1. apis' = [apis EXCEPT ![r] = IdleApi] /\ UNCHANGED <<activities, proposals>>
    BY <1>1 DEF CreateCounts
  <2>2. IdleApi.pc = "idle" /\ IdleApi.proposal = None
    BY DEF IdleApi
  <2> QED
    BY <1>0, <2>1, <2>2, IdleTypes, ApiSet
<1>2. CASE Cardinality(Created) # MaxActivities
  <2>1. Cardinality(Created) + 1 \in Activities
    BY <1>2, NextNumber DEF Inv
  <2>2. /\ q \in Api
        /\ q.pc = "create"
        /\ q.proposal = apis[r].proposal
    BY <1>0, <2>1 DEF ActivitySide, Api
  <2>3. q.proposal # None => proposals[q.proposal] # None
    BY <1>0, <2>2 DEF ActivitySide, NamesExist
  <2>4. apis' = [apis EXCEPT ![r] = q] /\ UNCHANGED <<activities, proposals>>
    BY <1>2 DEF CreateCounts
  <2> HIDE DEF q
  <2> QED
    BY <1>0, <2>2, <2>3, <2>4, ApiSet
<1> QED
  BY <1>1, <1>2

LEMMA CreateCommitsActivity ==
    ASSUME ActivitySide, NEW r \in Apis, CreateCommits(r)
    PROVE  ActivitySide' /\ Created \subseteq Created'
<1> DEFINE new == [status |-> "running", members |-> apis[r].members]
<1>1. new \in Activity /\ new # None
  BY NoneIsNoRow DEF ActivitySide, Api, Activity
<1>2. activities' \in {activities, [activities EXCEPT ![apis[r].activity] = new]}
  BY DEF CreateCommits
<1> HIDE DEF new
<1>3. /\ activities' \in [Activities -> Activity \cup {None}]
      /\ Created \subseteq Created'
  BY <1>1, <1>2 DEF ActivitySide, Created
<1>4. /\ apis' = [apis EXCEPT ![r] = IdleApi]
      /\ UNCHANGED proposals
      /\ apis' \in [Apis -> Api]
  BY IdleTypes DEF CreateCommits, ActivitySide
<1>5. IdleApi.pc = "idle" /\ IdleApi.proposal = None
  BY DEF IdleApi
<1>6. NamesExist'
  BY <1>3, <1>4, <1>5 DEF ActivitySide, NamesExist
<1> QED
  BY <1>3, <1>4, <1>6 DEF ActivitySide

LEMMA TransitionReadsActivity ==
    ASSUME ActivitySide, NEW r \in Apis, NEW a \in Activities,
           NEW to \in {"running", "paused"}, TransitionReads(r, a, to)
    PROVE  ActivitySide' /\ Created \subseteq Created'
<1> DEFINE q == [IdleApi EXCEPT !.pc = "update", !.activity = a,
                                !.from = activities[a].status, !.to = to]
<1>1. a \in Created /\ activities[a].status \in {"running", "paused"}
  BY DEF TransitionReads, Steerable, Created, ActivitySide, Activity
<1>2. /\ q \in Api
      /\ q.activity = a /\ q.to = to /\ q.proposal = None
  BY <1>1, IdleTypes DEF Api, IdleApi
<1>3. apis' = [apis EXCEPT ![r] = q] /\ UNCHANGED <<activities, proposals>>
  BY DEF TransitionReads
<1> HIDE DEF q
<1> QED
  BY <1>1, <1>2, <1>3, ApiSet

LEMMA ConfirmReadsActivity ==
    ASSUME ActivitySide, NEW r \in Apis, NEW p \in Proposals, ConfirmReads(r, p)
    PROVE  ActivitySide' /\ Created \subseteq Created'
<1> DEFINE a == proposals[p].activity
           q == [IdleApi EXCEPT
                   !.pc = "update", !.activity = a, !.from = activities[a].status,
                   !.to = IF proposals[p].kind = "pause" THEN "paused" ELSE "running",
                   !.proposal = p]
<1>1. proposals[p] # None
  BY DEF ConfirmReads
<1>2. a \in Created
  BY <1>1 DEF ActivitySide, NamesExist
<1>3. a \in Activities /\ activities[a] \in Activity
  BY <1>2 DEF Created, ActivitySide
<1>4. activities[a].status \in {"running", "paused"}
  <2>1. activities[a].status # "blocked"
    BY DEF ConfirmReads
  <2> QED
    BY <1>3, <2>1 DEF Activity
<1>5. /\ apis' = [apis EXCEPT ![r] = q]
      /\ UNCHANGED <<activities, proposals>>
  BY DEF ConfirmReads
<1> HIDE DEF a
<1>6. /\ q \in Api
      /\ q.activity = a /\ q.to # "none" /\ q.proposal = p
  BY <1>3, <1>4, IdleTypes DEF Api, IdleApi
<1> HIDE DEF q
<1> QED
  BY <1>1, <1>2, <1>5, <1>6, ApiSet

LEMMA AgentProposesActivity ==
    ASSUME ActivitySide, NEW p \in Proposals, NEW a \in Activities,
           NEW kind \in {"pause", "resume"}, AgentProposes(p, a, kind)
    PROVE  ActivitySide' /\ Created \subseteq Created'
<1> DEFINE new == [kind |-> kind, activity |-> a, status |-> "pending"]
<1>1. new \in Proposal /\ new # None /\ new.activity = a
  BY NoneIsNoRow DEF Proposal
<1>2. /\ proposals' = [proposals EXCEPT ![p] = new]
      /\ UNCHANGED <<activities, apis>>
      /\ a \in Created
  BY DEF AgentProposes
<1> HIDE DEF new
<1>3. proposals' \in [Proposals -> Proposal \cup {None}]
  BY <1>1, <1>2 DEF ActivitySide
<1>4. Created' = Created
  BY <1>2 DEF Created
<1>5. NamesExist'
  <2>1. \A x \in Proposals : proposals'[x] # None => proposals'[x].activity \in Created'
    BY <1>1, <1>2, <1>4 DEF ActivitySide, NamesExist
  <2>2. \A x \in Proposals : proposals[x] # None => proposals'[x] # None
    BY <1>1, <1>2 DEF ActivitySide
  <2>3. \A r \in Apis : apis'[r].proposal # None => proposals'[apis'[r].proposal] # None
    BY <1>2, <2>2 DEF ActivitySide, NamesExist, Api
  <2> QED
    BY <1>2, <1>4, <2>1, <2>3 DEF ActivitySide, NamesExist
<1> QED
  BY <1>2, <1>3, <1>4, <1>5 DEF ActivitySide

\* A proposal is decided: its status changes and nothing else.
LEMMA ProposalDecided ==
    ASSUME ActivitySide, NEW p \in Proposals, proposals[p] # None,
           NEW s \in {"confirmed", "expired"}
    PROVE  /\ [proposals EXCEPT ![p].status = s] \in [Proposals -> Proposal \cup {None}]
           /\ \A x \in Proposals :
                 proposals[x] # None =>
                     /\ [proposals EXCEPT ![p].status = s][x] # None
                     /\ [proposals EXCEPT ![p].status = s][x].activity = proposals[x].activity
           /\ \A x \in Proposals :
                 proposals[x] = None => [proposals EXCEPT ![p].status = s][x] = None
<1> DEFINE new == [proposals[p] EXCEPT !.status = s]
<1>1. proposals[p] \in Proposal
  BY DEF ActivitySide
<1>2. new \in Proposal /\ new # None /\ new.activity = proposals[p].activity
  BY <1>1, NoneIsNoRow DEF Proposal
<1>3. [proposals EXCEPT ![p].status = s] = [proposals EXCEPT ![p] = new]
  OBVIOUS
<1> HIDE DEF new
<1> QED
  BY <1>2, <1>3 DEF ActivitySide

LEMMA ConfirmExpiresActivity ==
    ASSUME ActivitySide, NEW p \in Proposals, ConfirmExpires(p)
    PROVE  ActivitySide' /\ Created \subseteq Created'
<1>1. /\ proposals[p] # None
      /\ proposals' = [proposals EXCEPT ![p].status = "expired"]
      /\ UNCHANGED <<activities, apis>>
  BY DEF ConfirmExpires
<1>2. /\ proposals' \in [Proposals -> Proposal \cup {None}]
      /\ \A x \in Proposals : proposals[x] # None =>
             proposals'[x] # None /\ proposals'[x].activity = proposals[x].activity
      /\ \A x \in Proposals : proposals[x] = None => proposals'[x] = None
  BY <1>1, ProposalDecided
<1>3. Created' = Created
  BY <1>1 DEF Created
<1>4. NamesExist'
  BY <1>1, <1>2, <1>3 DEF ActivitySide, NamesExist, Api
<1> QED
  BY <1>1, <1>2, <1>3, <1>4 DEF ActivitySide

LEMMA UpdateCommitsActivity ==
    ASSUME ActivitySide, NEW r \in Apis, UpdateCommits(r)
    PROVE  ActivitySide' /\ Created \subseteq Created'
<1> DEFINE q == apis[r]
           new == [activities[q.activity] EXCEPT !.status = q.to]
<1>1. q \in Api /\ q.pc = "update"
  BY DEF UpdateCommits, ActivitySide
<1>2. /\ q.activity \in Created /\ q.to \in {"running", "paused"}
      /\ q.proposal # None => q.proposal \in Proposals /\ proposals[q.proposal] # None
  BY <1>1 DEF ActivitySide, NamesExist, Api
<1>3. new \in Activity /\ new # None
  BY <1>2, NoneIsNoRow DEF ActivitySide, Created, Activity
<1>4. activities' \in {activities, [activities EXCEPT ![q.activity] = new]}
  BY DEF UpdateCommits
<1>5. /\ activities' \in [Activities -> Activity \cup {None}]
      /\ Created \subseteq Created'
  <2> HIDE DEF new, q
  <2> QED
    BY <1>3, <1>4 DEF ActivitySide, Created
<1>6. /\ proposals' \in [Proposals -> Proposal \cup {None}]
      /\ \A x \in Proposals : proposals[x] # None =>
             proposals'[x] # None /\ proposals'[x].activity = proposals[x].activity
      /\ \A x \in Proposals : proposals[x] = None => proposals'[x] = None
  <2>1. CASE q.proposal = None
    BY <2>1 DEF UpdateCommits, ActivitySide
  <2>2. CASE q.proposal # None
    <3>1. proposals' = [proposals EXCEPT ![q.proposal].status = "confirmed"]
      BY <2>2 DEF UpdateCommits
    <3> QED
      BY <1>2, <2>2, <3>1, ProposalDecided
  <2> QED
    BY <2>1, <2>2
<1>7. /\ apis' = [apis EXCEPT ![r] = IdleApi]
      /\ apis' \in [Apis -> Api]
  BY IdleTypes DEF UpdateCommits, ActivitySide
<1>8. IdleApi.pc = "idle" /\ IdleApi.proposal = None
  BY DEF IdleApi
<1>9. NamesExist'
  BY <1>5, <1>6, <1>7, <1>8 DEF ActivitySide, NamesExist, Api
<1> QED
  BY <1>5, <1>6, <1>7, <1>9 DEF ActivitySide

LEMMA ReachInv == Inv /\ Reach => Inv'
<1> SUFFICES ASSUME Inv, Reach PROVE Inv'
  OBVIOUS
<1>0. ActivitySide
  BY DEF Inv, TypeOK, ActivitySide
<1>1. UNCHANGED caseVars
  BY DEF Reach, CreateReads, CreateCounts, CreateCommits, TransitionReads,
         AgentProposes, ConfirmReads, ConfirmExpires, UpdateCommits
<1>2. ActivitySide' /\ Created \subseteq Created'
  BY <1>0, CreateReadsActivity, CreateCountsActivity, CreateCommitsActivity,
     TransitionReadsActivity, AgentProposesActivity, ConfirmReadsActivity,
     ConfirmExpiresActivity, UpdateCommitsActivity DEF Reach
<1>3. TypeOK' /\ NamesExist'
  BY <1>1, <1>2 DEF Inv, TypeOK, ActivitySide, caseVars
<1>4. CaseIsLocked' /\ ProposalsAreSound' /\ BlockedIffProtected'
  BY <1>1 DEF Inv, CaseIsLocked, ProposalsAreSound, BlockedIffProtected,
              Active, Pending, caseVars
<1>5. ReadsAreCurrent'
  <2>1. UNCHANGED <<incidents, desks>>
    BY <1>1 DEF caseVars
  <2>2. \A i \in Incidents : OtherActive(i)' = OtherActive(i)
    BY <2>1 DEF OtherActive, Active
  <2>3. \A d \in Desks : desks[d].incident \in Incidents \cup {None}
    BY DEF Inv, TypeOK, Desk
  <2> QED
    BY <1>2, <2>1, <2>2, <2>3
       DEF Inv, ReadsAreCurrent, ReadIsCurrent, Pending, OtherActive, Active
<1> QED
  BY <1>3, <1>4, <1>5 DEF Inv
-----------------------------------------------------------------------------
(* Protection requests *)

\* An action that leaves the activities alone keeps their side.
LEMMA ActivitiesKept ==
    ASSUME Inv, UNCHANGED activityVars
    PROVE  /\ NamesExist'
           /\ Created' = Created
           /\ activities' \in [Activities -> Activity \cup {None}]
           /\ proposals' \in [Proposals -> Proposal \cup {None}]
           /\ apis' \in [Apis -> Api]
BY DEF Inv, TypeOK, NamesExist, Created, activityVars

\* What two requests at work on different incidents say of their cases.
LEMMA OtherDesks ==
    ASSUME Inv, NEW d \in Desks, NEW e \in Desks, d # e,
           desks[d].pc # "idle", desks[e].pc # "idle"
    PROVE  /\ desks[d].incident \in Incidents
           /\ desks[e].incident \in Incidents
           /\ CaseOf[desks[d].incident] # CaseOf[desks[e].incident]
BY DEF Inv, TypeOK, Desk, CaseIsLocked, ReadsAreCurrent, ReadIsCurrent

\* A request takes the lock of a case and reads.
LEMMA Enters ==
    ASSUME Inv, NEW d \in Desks, NEW q \in Desk, desks[d].pc = "idle",
           q.pc # "idle", q.incident \in Incidents, ReadIsCurrent(q),
           CaseUnlocked(CaseOf[q.incident]),
           desks' = [desks EXCEPT ![d] = q],
           UNCHANGED <<cases, incidents, screens, activityVars>>
    PROVE  Inv'
<1>1. TypeOK'
  BY ActivitiesKept DEF Inv, TypeOK
<1>2. CaseIsLocked'
  BY DEF Inv, TypeOK, CaseIsLocked, CaseUnlocked
<1>3. ReadsAreCurrent'
  <2>1. \A e \in Desks : desks'[e] = IF e = d THEN q ELSE desks[e]
    BY DEF Inv, TypeOK
  <2>2. \A e \in Desks : ReadIsCurrent(desks'[e])
    BY <2>1 DEF Inv, ReadsAreCurrent
  <2> QED
    BY <2>2, ActivitiesKept DEF ReadsAreCurrent, ReadIsCurrent, Pending, OtherActive, Active
<1>4. ProposalsAreSound' /\ BlockedIffProtected'
  BY DEF Inv, ProposalsAreSound, BlockedIffProtected, Active, Pending
<1> QED
  BY <1>1, <1>2, <1>3, <1>4, ActivitiesKept DEF Inv

\* A request writes the incident it is at work on and gives the lock back.
LEMMA Leaves ==
    ASSUME Inv, NEW d \in Desks, desks[d].pc # "idle",
           \A j \in Incidents : j # desks[d].incident => incidents'[j] = incidents[j],
           desks' = [desks EXCEPT ![d] = IdleDesk],
           Created \subseteq Created'
    PROVE  CaseIsLocked' /\ ReadsAreCurrent'
<1>1. \A e \in Desks : desks'[e] = IF e = d THEN IdleDesk ELSE desks[e]
  BY DEF Inv, TypeOK
<1>2. IdleDesk.pc = "idle" /\ IdleDesk.incident = None /\ IdleDesk.hits = {}
  BY DEF IdleDesk
<1>3. CaseIsLocked'
  BY <1>1, <1>2 DEF Inv, CaseIsLocked
<1>4. ASSUME NEW e \in Desks, e # d, desks[e].pc # "idle"
      PROVE  ReadIsCurrent(desks[e])'
  <2> DEFINE j == desks[e].incident
  <2>1. j \in Incidents /\ CaseOf[desks[d].incident] # CaseOf[j]
    BY <1>4, OtherDesks
  <2>2. \A k \in Incidents : CaseOf[k] = CaseOf[j] => incidents'[k] = incidents[k]
    BY <2>1
  <2>3. /\ incidents'[j] = incidents[j]
        /\ Pending(j)' <=> Pending(j)
        /\ OtherActive(j)' = OtherActive(j)
    BY <1>1, <1>4, <2>1, <2>2 DEF OtherActive, Active, Pending
  <2>4. desks'[e] = desks[e] /\ ReadIsCurrent(desks[e])
    BY <1>1, <1>4 DEF Inv, ReadsAreCurrent
  <2> QED
    BY <2>3, <2>4 DEF ReadIsCurrent, Pending
<1>5. ASSUME NEW e \in Desks, e # d, desks[e].pc = "idle"
      PROVE  ReadIsCurrent(desks[e])'
  BY <1>1, <1>5 DEF Inv, ReadsAreCurrent, ReadIsCurrent
<1>6. ReadIsCurrent(desks[d])'
  BY <1>1, <1>2 DEF ReadIsCurrent
<1> QED
  BY <1>3, <1>4, <1>5, <1>6 DEF ReadsAreCurrent

LEMMA OpenReadsInv ==
    ASSUME Inv, NEW d \in Desks, NEW i \in Incidents, OpenReads(d, i)
    PROVE  Inv'
<1> DEFINE q == [IdleDesk EXCEPT !.pc = "opening", !.incident = i,
                                 !.hits = Affected(CaseOf[i])]
<1>1. Affected(CaseOf[i]) \subseteq Created /\ Created \subseteq Activities
  BY DEF Affected, Created
<1>2. /\ q \in Desk /\ q.pc = "opening"
      /\ q.incident = i /\ q.hits = Affected(CaseOf[i])
  BY <1>1 DEF IdleDesk, Desk
<1>3. /\ desks[d].pc = "idle" /\ CaseUnlocked(CaseOf[i]) /\ incidents[i] = None
      /\ desks' = [desks EXCEPT ![d] = q]
      /\ UNCHANGED <<cases, incidents, screens, activityVars>>
  BY DEF OpenReads
<1> HIDE DEF q
<1>4. ReadIsCurrent(q)
  BY <1>1, <1>2, <1>3, ProtectionAssumption DEF ReadIsCurrent
<1> QED
  BY <1>2, <1>3, <1>4, Enters

LEMMA DecideReadsInv ==
    ASSUME Inv, NEW d \in Desks, NEW a \in Actors, NEW i \in Incidents,
           NEW pc \in {"rejecting", "approving"}, DecideReads(d, a, i, pc)
    PROVE  Inv'
<1> DEFINE b == pc = "approving" /\ OtherActive(i) = {}
           q == [IdleDesk EXCEPT !.pc = pc, !.incident = i, !.actor = a, !.releases = b]
<1>0. b \in BOOLEAN
  OBVIOUS
<1>1. /\ desks[d].pc = "idle" /\ CaseUnlocked(CaseOf[i])
      /\ MayDecide(a, i) /\ incidents[i].version < MaxVersion
      /\ desks' = [desks EXCEPT ![d] = q]
      /\ UNCHANGED <<cases, incidents, screens, activityVars>>
  BY DEF DecideReads
<1>2. /\ q \in Desk /\ q.pc = pc /\ q.incident = i /\ q.actor = a
      /\ q.releases = b /\ q.hits = {}
  <2> HIDE DEF b
  <2> QED
    BY <1>0 DEF IdleDesk, Desk
<1> HIDE DEF q
<1>3. ReadIsCurrent(q)
  BY <1>1, <1>2, ProtectionAssumption DEF ReadIsCurrent, MayDecide
<1> QED
  BY <1>1, <1>2, <1>3, Enters

\* The row an incident opens with.
LEMMA FirstRow ==
    ASSUME NEW s \in ActiveStatuses
    PROVE  [status |-> s, version |-> 1, proposer |-> None, reviewer |-> None] \in Incident
<1>1. 1 \in 1 .. MaxVersion
  BY ProtectionAssumption
<1> QED
  BY <1>1 DEF Incident, ActiveStatuses

LEMMA OpenCommitsInv ==
    ASSUME Inv, NEW d \in Desks, OpenCommits(d)
    PROVE  Inv'
<1> DEFINE i == desks[d].incident
           s == IF i \in Holds THEN "permanent_hold" ELSE "open"
           row == [status |-> s, version |-> 1, proposer |-> None, reviewer |-> None]
           c == CaseOf[i]
<1>1. /\ desks[d].pc = "opening" /\ i \in Incidents /\ incidents[i] = None
      /\ desks[d].hits \subseteq Created
  BY DEF OpenCommits, Inv, TypeOK, Desk, ReadsAreCurrent, ReadIsCurrent
<1>2. row \in Incident /\ row # None /\ row.status = s
  BY FirstRow, NoneIsNoRow DEF ActiveStatuses
<1>3. /\ incidents' = [incidents EXCEPT ![i] = row]
      /\ cases' = [cases EXCEPT ![c] = [blocked |-> TRUE, status |-> "protected"]]
      /\ desks' = [desks EXCEPT ![d] = IdleDesk]
      /\ UNCHANGED <<screens, proposals, apis>>
  BY DEF OpenCommits
<1>4. c \in Cases
  BY <1>1, ProtectionAssumption
<1>5. /\ activities' \in [Activities -> Activity \cup {None}]
      /\ Created \subseteq Created'
  <2>1. activities' = [a \in Activities |->
            IF a \in desks[d].hits
            THEN [activities[a] EXCEPT !.status = "blocked"] ELSE activities[a]]
    BY DEF OpenCommits
  <2>2. \A a \in Created : /\ [activities[a] EXCEPT !.status = "blocked"] \in Activity
                           /\ [activities[a] EXCEPT !.status = "blocked"] # None
    BY NoneIsNoRow DEF Inv, TypeOK, Activity, Created
  <2> QED
    BY <1>1, <2>1, <2>2 DEF Inv, TypeOK, Created
<1> HIDE DEF row, c
<1>6. \A j \in Incidents : incidents'[j] = IF j = i THEN row ELSE incidents[j]
  BY <1>3 DEF Inv, TypeOK
<1>7. TypeOK'
  <2>1. incidents' \in [Incidents -> Incident \cup {None}]
    BY <1>2, <1>3 DEF Inv, TypeOK
  <2>2. cases' \in [Cases -> Case]
    BY <1>3 DEF Inv, TypeOK, Case
  <2> QED
    BY <1>3, <1>5, <2>1, <2>2, IdleTypes DEF Inv, TypeOK
<1>8. CaseIsLocked' /\ ReadsAreCurrent'
  BY <1>1, <1>3, <1>5, <1>6, Leaves
<1>9. ProposalsAreSound'
  BY <1>2, <1>6, ProtectionAssumption DEF Inv, ProposalsAreSound, Pending
<1>10. NamesExist'
  BY <1>3, <1>5 DEF Inv, NamesExist
<1>11. BlockedIffProtected'
  <2>1. row.status \in ActiveStatuses
    BY <1>2 DEF ActiveStatuses
  <2>2. \A j \in Incidents : Active(j)' <=> (j = i \/ Active(j))
    BY <1>2, <1>6, <2>1 DEF Active
  <2>3. /\ cases'[c].blocked = TRUE
        /\ \A k \in Cases \ {c} : cases'[k] = cases[k]
    BY <1>3, <1>4 DEF Inv, TypeOK
  <2> QED
    BY <1>1, <2>2, <2>3 DEF c, Inv, BlockedIffProtected
<1> QED
  BY <1>7, <1>8, <1>9, <1>10, <1>11 DEF Inv

LEMMA ProposeInv ==
    ASSUME Inv, NEW a \in Actors, NEW i \in Incidents, Propose(a, i)
    PROVE  Inv'
<1> DEFINE row == [status |-> "pending_review", version |-> incidents[i].version + 1,
                   proposer |-> a, reviewer |-> None]
<1>1. /\ incidents[i] # None /\ incidents[i].status = "open"
      /\ incidents[i].version < MaxVersion
      /\ incidents' = [incidents EXCEPT ![i] = row]
      /\ UNCHANGED <<cases, screens, desks, activityVars>>
      /\ ~ Busy(i)
  BY DEF Propose, Proposable
<1>2. row \in Incident /\ row # None
  <2>1. incidents[i].version \in 1 .. MaxVersion
    BY <1>1 DEF Inv, TypeOK, Incident
  <2>2. incidents[i].version + 1 \in 1 .. MaxVersion
    BY <1>1, <2>1, ProtectionAssumption
  <2> QED
    BY <2>2, NoneIsNoRow DEF Incident, ActiveStatuses
<1>3. row.status = "pending_review" /\ row.proposer = a
  OBVIOUS
<1> HIDE DEF row
<1>4. \A j \in Incidents : incidents'[j] = IF j = i THEN row ELSE incidents[j]
  BY <1>1 DEF Inv, TypeOK
<1>5. TypeOK'
  BY <1>1, <1>2, ActivitiesKept DEF Inv, TypeOK
<1>6. \A j \in Incidents : Active(j)' <=> Active(j)
  BY <1>1, <1>2, <1>3, <1>4 DEF Active, ActiveStatuses
<1>7. CaseIsLocked'
  BY <1>1 DEF Inv, CaseIsLocked
<1>8. ReadsAreCurrent'
  <2> SUFFICES ASSUME NEW d \in Desks PROVE ReadIsCurrent(desks[d])'
    BY DEF ReadsAreCurrent
  <2>1. desks[d].incident # i /\ desks'[d] = desks[d] /\ ReadIsCurrent(desks[d])
    BY <1>1 DEF Busy, Inv, ReadsAreCurrent
  <2>2. CASE desks[d].pc = "idle"
    BY <2>1, <2>2, <1>1, ActivitiesKept DEF ReadIsCurrent
  <2>3. CASE desks[d].pc # "idle"
    <3> DEFINE j == desks[d].incident
    <3>1. j \in Incidents
      BY <2>1, <2>3 DEF Inv, TypeOK, Desk, ReadIsCurrent
    <3>2. incidents'[j] = incidents[j] /\ OtherActive(j)' = OtherActive(j)
      BY <1>1, <1>4, <1>6, <2>1, <3>1 DEF OtherActive
    <3> QED
      BY <1>1, <2>1, <2>3, <3>1, <3>2, ActivitiesKept DEF ReadIsCurrent, Pending
  <2> QED
    BY <2>2, <2>3
<1>9. ProposalsAreSound'
  BY <1>1, <1>3, <1>4 DEF Inv, ProposalsAreSound, Pending
<1>10. BlockedIffProtected'
  BY <1>1, <1>6 DEF Inv, BlockedIffProtected
<1> QED
  BY <1>1, <1>5, <1>7, <1>8, <1>9, <1>10, ActivitiesKept DEF Inv
LEMMA OpenReviewInv ==
    ASSUME Inv, NEW a \in Actors, NEW i \in Incidents, OpenReview(a, i)
    PROVE  Inv'
<1>1. /\ Pending(i)
      /\ screens' = [screens EXCEPT ![a] = [incident |-> i, version |-> incidents[i].version]]
      /\ UNCHANGED <<cases, incidents, desks, activityVars>>
  BY DEF OpenReview
<1>2. [incident |-> i, version |-> incidents[i].version] \in Screen
  BY <1>1 DEF Pending, Inv, TypeOK, Incident, Screen
<1>3. TypeOK'
  BY <1>1, <1>2, ActivitiesKept DEF Inv, TypeOK
<1>4. CaseIsLocked' /\ ReadsAreCurrent' /\ ProposalsAreSound' /\ BlockedIffProtected'
  BY <1>1, ActivitiesKept
     DEF Inv, CaseIsLocked, ReadsAreCurrent, ReadIsCurrent, ProposalsAreSound,
         BlockedIffProtected, Pending, OtherActive, Active
<1> QED
  BY <1>1, <1>3, <1>4, ActivitiesKept DEF Inv

\* The row a decision writes.
LEMMA DecidedRow ==
    ASSUME Inv, NEW d \in Desks, DecideCommits(d)
    PROVE  LET q == desks[d]
               i == q.incident
               row == incidents'[i]
           IN /\ i \in Incidents /\ Pending(i) /\ q.actor \in Actors
              /\ incidents[i].proposer \in Actors \ {q.actor}
              /\ incidents' \in [Incidents -> Incident \cup {None}]
              /\ \A j \in Incidents \ {i} : incidents'[j] = incidents[j]
              /\ row # None /\ row.proposer = incidents[i].proposer
              /\ row.reviewer = q.actor
              /\ row.status = IF q.pc = "approving" THEN "resolved" ELSE "open"
<1> DEFINE q == desks[d]
           i == q.incident
           s == IF q.pc = "approving" THEN "resolved" ELSE "open"
           row == [status |-> s, version |-> incidents[i].version + 1,
                   proposer |-> incidents[i].proposer, reviewer |-> q.actor]
<1>1. /\ q.pc \in {"rejecting", "approving"}
      /\ i \in Incidents /\ Pending(i) /\ q.actor \in Actors
      /\ incidents[i].proposer \in Actors \ {q.actor}
      /\ incidents[i].version < MaxVersion
  BY DEF DecideCommits, Inv, TypeOK, Desk, ReadsAreCurrent, ReadIsCurrent,
         ProposalsAreSound
<1>2. incidents[i] \in Incident
  BY <1>1 DEF Inv, TypeOK, Pending
<1>3. incidents' = [incidents EXCEPT ![i] = row]
  BY DEF DecideCommits
<1>4. incidents[i].version + 1 \in 1 .. MaxVersion
  BY <1>1, <1>2, ProtectionAssumption DEF Incident
<1>5. /\ row.proposer = incidents[i].proposer
      /\ row.reviewer = q.actor /\ row.status = s
  BY <1>2 DEF Incident
<1>6. row \in Incident
  <2>1. s \in ActiveStatuses \cup {"resolved"}
    BY DEF ActiveStatuses
  <2>2. row \in [status : ActiveStatuses \cup {"resolved"}, version : 1 .. MaxVersion,
                 proposer : Actors \cup {None}, reviewer : Actors \cup {None}]
    <3> HIDE DEF s, q, i
    <3> QED
      BY <1>1, <1>2, <1>4, <2>1 DEF Incident
  <2>3. row.proposer \notin {None, row.reviewer}
    BY <1>1, <1>5, ProtectionAssumption
  <2> QED
    BY <2>2, <2>3 DEF Incident
<1>7. row # None
  BY <1>6, NoneIsNoRow
<1> HIDE DEF row
<1> QED
  BY <1>1, <1>3, <1>5, <1>6, <1>7 DEF Inv, TypeOK

LEMMA DecideCommitsInv ==
    ASSUME Inv, NEW d \in Desks, DecideCommits(d)
    PROVE  Inv'
<1> DEFINE q == desks[d]
<1> PICK i \in Incidents : i = q.incident
  BY DecidedRow
<1> DEFINE c == CaseOf[i]
<1>1. /\ q.pc \in {"rejecting", "approving"}
      /\ q.releases <=> (q.pc = "approving" /\ OtherActive(i) = {})
      /\ cases' = IF q.releases
                  THEN [cases EXCEPT ![c] = [blocked |-> FALSE, status |-> "reassess"]]
                  ELSE cases
      /\ desks' = [desks EXCEPT ![d] = IdleDesk]
      /\ UNCHANGED <<screens, activityVars>>
  BY DEF DecideCommits, Inv, ReadsAreCurrent, ReadIsCurrent
<1>2. /\ Pending(i)
      /\ incidents' \in [Incidents -> Incident \cup {None}]
      /\ \A j \in Incidents \ {i} : incidents'[j] = incidents[j]
      /\ incidents'[i] # None
      /\ incidents'[i].status = IF q.pc = "approving" THEN "resolved" ELSE "open"
  BY DecidedRow
<1>3. c \in Cases
  BY <1>2, ProtectionAssumption
<1>4. TypeOK'
  <2>1. cases' \in [Cases -> Case]
    BY <1>1 DEF Inv, TypeOK, Case
  <2> QED
    BY <1>1, <1>2, <2>1, IdleTypes, ActivitiesKept DEF Inv, TypeOK
<1>5. CaseIsLocked' /\ ReadsAreCurrent'
  BY <1>1, <1>2, Leaves, ActivitiesKept
<1>6. ProposalsAreSound'
  BY <1>2, ProtectionAssumption DEF Inv, ProposalsAreSound, Pending
<1>7. BlockedIffProtected'
  <2>1. Active(i) /\ (Active(i)' <=> q.pc = "rejecting")
    BY <1>1, <1>2 DEF Active, Pending, ActiveStatuses
  <2>2. \A j \in Incidents \ {i} : Active(j)' <=> Active(j)
    BY <1>2 DEF Active
  <2>3. \A k \in Cases \ {c} : cases'[k] = cases[k]
    BY <1>1 DEF Inv, TypeOK
  <2>4. CASE q.releases
    <3>1. cases'[c].blocked = FALSE
      BY <1>1, <1>3, <2>4 DEF Inv, TypeOK
    <3>2. \A j \in Incidents : CaseOf[j] = c => ~ Active(j)'
      BY <1>1, <2>1, <2>2, <2>4 DEF OtherActive
    <3> QED
      BY <2>2, <2>3, <3>1, <3>2, <1>2 DEF Inv, BlockedIffProtected
  <2>5. CASE ~ q.releases
    <3>1. cases' = cases /\ cases[c].blocked
      BY <1>1, <1>2, <1>3, <2>1, <2>5 DEF Inv, BlockedIffProtected
    <3>2. \E j \in Incidents : CaseOf[j] = c /\ Active(j)'
      BY <1>1, <1>2, <2>1, <2>2, <2>5 DEF OtherActive
    <3> QED
      BY <2>2, <3>1, <3>2, <1>2 DEF Inv, BlockedIffProtected
  <2> QED
    BY <2>4, <2>5
<1> QED
  BY <1>1, <1>4, <1>5, <1>6, <1>7, ActivitiesKept DEF Inv

LEMMA DeskDiesInv ==
    ASSUME Inv, NEW d \in Desks, DeskDies(d)
    PROVE  Inv'
<1>1. /\ desks[d].pc # "idle"
      /\ desks' = [desks EXCEPT ![d] = IdleDesk]
      /\ UNCHANGED <<cases, incidents, screens, activityVars>>
  BY DEF DeskDies
<1>2. TypeOK'
  BY <1>1, IdleTypes, ActivitiesKept DEF Inv, TypeOK
<1>3. CaseIsLocked' /\ ReadsAreCurrent'
  BY <1>1, Leaves, ActivitiesKept
<1>4. ProposalsAreSound' /\ BlockedIffProtected'
  BY <1>1 DEF Inv, ProposalsAreSound, BlockedIffProtected, Active, Pending
<1> QED
  BY <1>1, <1>2, <1>3, <1>4, ActivitiesKept DEF Inv

LEMMA NextInv == Inv /\ [Next]_vars => Inv'
<1> SUFFICES ASSUME Inv, [Next]_vars PROVE Inv'
  OBVIOUS
<1>1. CASE Protect
  BY <1>1, OpenReadsInv, OpenCommitsInv, ProposeInv, OpenReviewInv, DecideReadsInv,
     DecideCommitsInv, DeskDiesInv DEF Protect
<1>2. CASE Reach
  BY <1>2, ReachInv
<1>3. CASE UNCHANGED vars
  BY <1>3 DEF vars, Inv, TypeOK, CaseIsLocked, ReadsAreCurrent, ReadIsCurrent,
              ProposalsAreSound, NamesExist, BlockedIffProtected, Pending,
              OtherActive, Active, Created
<1> QED
  BY <1>1, <1>2, <1>3 DEF Next

\* Every reachable state satisfies the inductive invariant.
THEOREM Invariance == Spec => []Inv
BY InitInv, NextInv, PTL DEF Spec

\* The state is well typed; in particular the reviewer of an incident is
\* never the one who proposed its release (decide_protection_resolution).
THEOREM TypeCorrect == Spec => []TypeOK
BY Invariance, PTL DEF Inv

\* A case is blocked exactly while an incident on it is active, however many
\* requests open and release incidents on it at once.
THEOREM BlockedWhileProtected == Spec => []BlockedIffProtected
BY Invariance, PTL DEF Inv

\* A case whose customer asked not to be contacted stays blocked for ever,
\* whatever other incidents on it are opened and released.
THEOREM HoldsAreForever == Spec => []StopContactIsForever
<1>1. Inv => StopContactIsForever
  BY ProtectionAssumption
     DEF Inv, StopContactIsForever, ProposalsAreSound, BlockedIffProtected, Active,
         ActiveStatuses
<1> QED
  BY <1>1, Invariance, PTL
-----------------------------------------------------------------------------
(* Activities and protection, where their requests take turns *)

TakeTurns == \/ \A r \in Apis : apis[r].pc = "idle"
             \/ \A d \in Desks : desks[d].pc = "idle"

\* What a request that starts or steers an activity found is so until it commits.
ReachIsSound ==
    \A r \in Apis :
        /\ apis[r].pc \in {"count", "create"} => \A c \in apis[r].members : ~ cases[c].blocked
        /\ apis[r].pc = "update" => activities[apis[r].activity].status # "blocked"

\* A request that opens an incident has found every activity that works on the case.
HitsAreAll ==
    \A d \in Desks : desks[d].pc = "opening" =>
        Affected(CaseOf[desks[d].incident]) \subseteq desks[d].hits

Quiet == TakeTurns /\ ReachIsSound /\ HitsAreAll /\ NothingRunsOnProtected

LEMMA InitQuiet == Init => Quiet
BY DEF Init, Quiet, TakeTurns, ReachIsSound, HitsAreAll, NothingRunsOnProtected, IdleDesk,
       IdleApi, Created

\* A request of the one kind is at work, or starts, while none of the other kind is.
LEMMA ReachWaits ==
    ASSUME ~ Overlap, TakeTurns, Reach
    PROVE  UNCHANGED <<activities, apis>> \/ \A d \in Desks : desks[d].pc = "idle"
BY DEF TakeTurns, Reach, ApisMayStart, CreateReads, CreateCounts, CreateCommits,
       TransitionReads, AgentProposes, ConfirmReads, ConfirmExpires, UpdateCommits

LEMMA ReachQuiet ==
    ASSUME ~ Overlap, Inv, Quiet, Reach
    PROVE  Quiet'
<1>1. UNCHANGED <<cases, desks>>
  BY DEF Reach, CreateReads, CreateCounts, CreateCommits, TransitionReads,
         AgentProposes, ConfirmReads, ConfirmExpires, UpdateCommits, caseVars
<1>2. CASE UNCHANGED <<activities, apis>>
  BY <1>1, <1>2 DEF Quiet, TakeTurns, ReachIsSound, HitsAreAll, Affected,
     NothingRunsOnProtected, Created
<1>3. CASE \A d \in Desks : desks[d].pc = "idle"
  <2>1. TakeTurns' /\ HitsAreAll'
    BY <1>1, <1>3 DEF TakeTurns, HitsAreAll
  <2>2. /\ apis \in [Apis -> Api] /\ activities \in [Activities -> Activity \cup {None}]
        /\ \A r \in Apis : apis[r].pc = "update" =>
               apis[r].activity \in Created /\ apis[r].to # "none"
    BY DEF Inv, TypeOK, NamesExist
  <2>3. ASSUME NEW r \in Apis, NEW q,
               apis' = [apis EXCEPT ![r] = q], UNCHANGED activities,
               q.pc \in {"count", "create"} => \A c \in q.members : ~ cases[c].blocked,
               q.pc = "update" => activities[q.activity].status # "blocked"
        PROVE  ReachIsSound' /\ NothingRunsOnProtected'
    <3>1. \A x \in Apis : apis'[x] = IF x = r THEN q ELSE apis[x]
      BY <2>2, <2>3
    <3> QED
      BY <1>1, <2>3, <3>1 DEF Quiet, ReachIsSound, NothingRunsOnProtected, Created
  <2>4. ASSUME NEW r \in Apis, NEW wanted \in SUBSET Cases, NEW goal, CreateReads(r, wanted, goal)
        PROVE  ReachIsSound' /\ NothingRunsOnProtected'
    <3> DEFINE q == [IdleApi EXCEPT !.pc = "count", !.members = Eligible(wanted, goal)]
    <3>1. q.pc = "count" /\ \A c \in q.members : ~ cases[c].blocked
      BY DEF IdleApi, Eligible
    <3>2. apis' = [apis EXCEPT ![r] = q] /\ UNCHANGED activities
      BY <2>4 DEF CreateReads
    <3> HIDE DEF q
    <3> QED
      BY <2>3, <3>1, <3>2
  <2>5. ASSUME NEW r \in Apis, CreateCounts(r) PROVE ReachIsSound' /\ NothingRunsOnProtected'
    <3>1. PICK q \in {IdleApi, [apis[r] EXCEPT !.pc = "create",
                                               !.activity = Cardinality(Created) + 1]} :
              apis' = [apis EXCEPT ![r] = q]
      BY <2>5 DEF CreateCounts
    <3>2. UNCHANGED activities /\ apis[r].pc = "count"
      BY <2>5 DEF CreateCounts
    <3>3. q.pc = "idle" \/ (q.pc = "create" /\ q.members = apis[r].members)
      <4>1. apis[r] \in Api
        BY <2>2
      <4>2. CASE q = IdleApi
        BY <4>2 DEF IdleApi
      <4>3. CASE q = [apis[r] EXCEPT !.pc = "create", !.activity = Cardinality(Created) + 1]
        BY <4>1, <4>3 DEF Api
      <4> QED
        BY <4>2, <4>3
    <3>4. \A c \in apis[r].members : ~ cases[c].blocked
      BY <3>2 DEF Quiet, ReachIsSound
    <3> QED
      BY <2>3, <3>1, <3>2, <3>3, <3>4
  <2>6. ASSUME NEW r \in Apis, CreateCommits(r) PROVE ReachIsSound' /\ NothingRunsOnProtected'
    <3> DEFINE a == apis[r].activity
               new == [status |-> "running", members |-> apis[r].members]
    <3>1. apis[r].pc = "create" /\ apis' = [apis EXCEPT ![r] = IdleApi]
      BY <2>6 DEF CreateCommits
    <3>2. \A x \in Activities :
              \/ activities'[x] = activities[x]
              \/ activities[x] = None /\ activities'[x] = new
      BY <2>2, <2>6 DEF CreateCommits
    <3>3. new.status = "running" /\ new.members = apis[r].members
      OBVIOUS
    <3>4. \A x \in Apis : apis'[x] = IF x = r THEN IdleApi ELSE apis[x]
      BY <2>2, <3>1
    <3> HIDE DEF a, new
    <3>5. ReachIsSound'
      <4>1. \A x \in Created : activities'[x] = activities[x]
        BY <3>2 DEF Created
      <4> QED
        BY <1>1, <2>2, <3>4, <4>1 DEF Quiet, ReachIsSound, IdleApi
    <3>6. NothingRunsOnProtected'
      <4>1. \A c \in apis[r].members : ~ cases[c].blocked
        BY <3>1 DEF Quiet, ReachIsSound
      <4>2. \A x \in Created' : \/ x \in Created /\ activities'[x] = activities[x]
                                \/ activities'[x] = new
        BY <3>2 DEF Created
      <4> QED
        BY <1>1, <3>3, <4>1, <4>2 DEF Quiet, NothingRunsOnProtected
    <3> QED
      BY <3>5, <3>6
  <2>7. ASSUME NEW r \in Apis, NEW a \in Activities, NEW to \in {"running", "paused"},
               TransitionReads(r, a, to)
        PROVE  ReachIsSound' /\ NothingRunsOnProtected'
    <3> DEFINE q == [IdleApi EXCEPT !.pc = "update", !.activity = a,
                                    !.from = activities[a].status, !.to = to]
    <3>1. apis' = [apis EXCEPT ![r] = q] /\ UNCHANGED activities
      BY <2>7 DEF TransitionReads
    <3>2. q.pc = "update" /\ q.activity = a /\ activities[a].status # "blocked"
      BY <2>7 DEF TransitionReads, Steerable, IdleApi
    <3> HIDE DEF q
    <3> QED
      BY <2>3, <3>1, <3>2
  <2>8. ASSUME NEW r \in Apis, NEW p \in Proposals, ConfirmReads(r, p)
        PROVE  ReachIsSound' /\ NothingRunsOnProtected'
    <3> DEFINE a == proposals[p].activity
               q == [IdleApi EXCEPT
                       !.pc = "update", !.activity = a, !.from = activities[a].status,
                       !.to = IF proposals[p].kind = "pause" THEN "paused" ELSE "running",
                       !.proposal = p]
    <3>1. apis' = [apis EXCEPT ![r] = q] /\ UNCHANGED activities
      BY <2>8 DEF ConfirmReads
    <3>2. q.pc = "update" /\ q.activity = a /\ activities[a].status # "blocked"
      BY <2>8 DEF ConfirmReads, IdleApi
    <3> HIDE DEF q, a
    <3> QED
      BY <2>3, <3>1, <3>2
  <2>9. ASSUME NEW r \in Apis, UpdateCommits(r) PROVE ReachIsSound' /\ NothingRunsOnProtected'
    <3>1. PICK a, to : a = apis[r].activity /\ to = apis[r].to
      OBVIOUS
    <3>2. /\ a \in Created /\ activities[a] \in Activity /\ to \in {"running", "paused"}
          /\ activities[a].status # "blocked"
      BY <2>2, <2>9, <3>1 DEF UpdateCommits, Api, Quiet, ReachIsSound, Created
    <3> DEFINE new == [activities[a] EXCEPT !.status = to]
    <3>3. \A x \in Activities : \/ activities'[x] = activities[x]
                                \/ x = a /\ activities'[x] = new
      BY <2>2, <2>9, <3>1 DEF UpdateCommits
    <3>4. new.status = to /\ new.members = activities[a].members
      BY <3>2 DEF Activity
    <3>5. \A x \in Apis : apis'[x] = IF x = r THEN IdleApi ELSE apis[x]
      BY <2>2, <2>9 DEF UpdateCommits
    <3> HIDE DEF new
    <3>6. ReachIsSound'
      BY <1>1, <2>2, <3>2, <3>3, <3>4, <3>5 DEF Quiet, ReachIsSound, IdleApi, Created
    <3>7. NothingRunsOnProtected'
      <4>1. activities[a].status \in {"running", "paused"}
        BY <3>2 DEF Activity
      <4>2. \A x \in Created' : \/ x \in Created /\ activities'[x] = activities[x]
                                \/ x = a /\ activities'[x] = new
        BY <3>3 DEF Created
      <4> QED
        BY <1>1, <3>2, <3>4, <4>1, <4>2 DEF Quiet, NothingRunsOnProtected
    <3> QED
      BY <3>6, <3>7
  <2>10. CASE UNCHANGED <<activities, apis>>
    BY <1>2, <2>10 DEF Quiet
  <2>11. ReachIsSound' /\ NothingRunsOnProtected'
    <3>1. /\ \A p \in Proposals, a \in Activities, kind \in {"pause", "resume"} :
                AgentProposes(p, a, kind) => UNCHANGED <<activities, apis>>
          /\ \A p \in Proposals : ConfirmExpires(p) => UNCHANGED <<activities, apis>>
      BY DEF AgentProposes, ConfirmExpires
    <3>2. CASE \E r \in Apis, wanted \in SUBSET Cases, goal \in {"contact", "signed"} :
                  CreateReads(r, wanted, goal)
      BY <2>4, <3>2
    <3>3. CASE \E r \in Apis, a \in Activities, to \in {"running", "paused"} :
                  TransitionReads(r, a, to)
      BY <2>7, <3>3
    <3>4. CASE \E r \in Apis, p \in Proposals : ConfirmReads(r, p)
      BY <2>8, <3>4
    <3>5. CASE \E r \in Apis : CreateCounts(r) \/ CreateCommits(r) \/ UpdateCommits(r)
      BY <2>5, <2>6, <2>9, <3>5
    <3>6. CASE UNCHANGED <<activities, apis>>
      BY <2>10, <3>6 DEF Quiet
    <3> QED
      BY <3>1, <3>2, <3>3, <3>4, <3>5, <3>6 DEF Reach
  <2> QED
    BY <2>1, <2>11 DEF Quiet
<1> QED
  BY <1>2, <1>3, ReachWaits DEF Quiet

LEMMA ProtectWaits ==
    ASSUME ~ Overlap, TakeTurns, Protect
    PROVE  UNCHANGED <<cases, desks, activities>> \/ \A r \in Apis : apis[r].pc = "idle"
BY DEF TakeTurns, Protect, DesksMayStart, OpenReads, OpenCommits, DecideCommits, DeskDies,
       Propose, OpenReview, DecideReads, activityVars

LEMMA ProtectQuiet ==
    ASSUME ~ Overlap, Inv, Quiet, Protect
    PROVE  Quiet'
<1>1. UNCHANGED apis
  BY DEF Protect, OpenReads, OpenCommits, DecideCommits, DeskDies, Propose, OpenReview,
         DecideReads, activityVars
<1>2. CASE UNCHANGED <<cases, desks, activities>>
  BY <1>1, <1>2 DEF Quiet, TakeTurns, ReachIsSound, HitsAreAll, Affected,
     NothingRunsOnProtected, Created
<1>3. CASE \A r \in Apis : apis[r].pc = "idle"
  <2>1. TakeTurns' /\ ReachIsSound'
    BY <1>1, <1>3 DEF TakeTurns, ReachIsSound
  <2>2. desks \in [Desks -> Desk] /\ cases \in [Cases -> Case]
    BY DEF Inv, TypeOK
  <2>3. ASSUME NEW d \in Desks, NEW q, desks' = [desks EXCEPT ![d] = q],
               UNCHANGED <<cases, activities>>,
               q.pc = "opening" => Affected(CaseOf[q.incident]) \subseteq q.hits
        PROVE  HitsAreAll' /\ NothingRunsOnProtected'
    <3>1. \A e \in Desks : desks'[e] = IF e = d THEN q ELSE desks[e]
      BY <2>2, <2>3
    <3> QED
      BY <2>3, <3>1 DEF Quiet, HitsAreAll, Affected, NothingRunsOnProtected, Created
  <2>4. ASSUME NEW d \in Desks, NEW i \in Incidents, OpenReads(d, i)
        PROVE  HitsAreAll' /\ NothingRunsOnProtected'
    <3> DEFINE q == [IdleDesk EXCEPT
                       !.pc = "opening", !.incident = i, !.hits = Affected(CaseOf[i])]
    <3>1. q.incident = i /\ q.hits = Affected(CaseOf[i])
      BY DEF IdleDesk
    <3>2. desks' = [desks EXCEPT ![d] = q] /\ UNCHANGED <<cases, activities>>
      BY <2>4 DEF OpenReads, activityVars
    <3> HIDE DEF q
    <3> QED
      BY <2>3, <3>1, <3>2
  <2>5. ASSUME NEW d \in Desks, NEW a \in Actors, NEW i \in Incidents,
               NEW pc \in {"rejecting", "approving"}, DecideReads(d, a, i, pc)
        PROVE  HitsAreAll' /\ NothingRunsOnProtected'
    <3> DEFINE q == [IdleDesk EXCEPT
                       !.pc = pc, !.incident = i, !.actor = a,
                       !.releases = pc = "approving" /\ OtherActive(i) = {}]
    <3>1. q.pc = pc
      BY DEF IdleDesk
    <3>2. desks' = [desks EXCEPT ![d] = q] /\ UNCHANGED <<cases, activities>>
      BY <2>5 DEF DecideReads, activityVars
    <3> HIDE DEF q
    <3> QED
      BY <2>3, <3>1, <3>2
  <2>6. ASSUME NEW d \in Desks, DeskDies(d) PROVE HitsAreAll' /\ NothingRunsOnProtected'
    <3>1. IdleDesk.pc = "idle"
      BY DEF IdleDesk
    <3> QED
      BY <2>3, <2>6, <3>1 DEF DeskDies, activityVars
  <2>7. ASSUME NEW d \in Desks, DecideCommits(d) PROVE HitsAreAll' /\ NothingRunsOnProtected'
    <3>1. \A e \in Desks : desks'[e] = IF e = d THEN IdleDesk ELSE desks[e]
      BY <2>2, <2>7 DEF DecideCommits
    <3>2. IdleDesk.pc = "idle" /\ UNCHANGED activities
      BY <2>7 DEF DecideCommits, IdleDesk, activityVars
    <3>3. \A c \in Cases : ~ cases[c].blocked => ~ cases'[c].blocked
      BY <2>2, <2>7 DEF DecideCommits
    <3>4. \A a \in Created : activities[a].members \subseteq Cases
      BY DEF Inv, TypeOK, Created, Activity
    <3> QED
      BY <3>1, <3>2, <3>3, <3>4
         DEF Quiet, HitsAreAll, Affected, NothingRunsOnProtected, Created
  <2>8. ASSUME NEW d \in Desks, OpenCommits(d) PROVE HitsAreAll' /\ NothingRunsOnProtected'
    <3>1. PICK c, hits : c = CaseOf[desks[d].incident] /\ hits = desks[d].hits
      OBVIOUS
    <3>2. Affected(c) \subseteq hits /\ hits \subseteq Created
      BY <2>8, <3>1 DEF OpenCommits, Quiet, HitsAreAll, Inv, ReadsAreCurrent, ReadIsCurrent
    <3>3. \A e \in Desks : desks'[e] = IF e = d THEN IdleDesk ELSE desks[e]
      BY <2>2, <2>8 DEF OpenCommits
    <3>4. \A k \in Cases \ {c} : cases'[k] = cases[k]
      BY <2>2, <2>8, <3>1 DEF OpenCommits
    <3>5. \A a \in Activities :
              activities'[a] = IF a \in hits THEN [activities[a] EXCEPT !.status = "blocked"]
                               ELSE activities[a]
      BY <2>8, <3>1 DEF OpenCommits
    <3>6. \A a \in Created : activities[a] \in Activity /\ a \in Activities
      BY DEF Inv, TypeOK, Created
    <3>7. \A a \in hits : activities'[a].status = "blocked"
      BY <3>2, <3>5, <3>6 DEF Activity
    <3>8. \A a \in Activities \ hits : activities'[a] = activities[a]
      BY <3>5
    <3>9. \A k : Affected(k)' \subseteq Affected(k)
      BY <3>7, <3>8 DEF Affected
    <3>10. HitsAreAll'
      BY <3>3, <3>9 DEF Quiet, HitsAreAll, IdleDesk
    <3>11. NothingRunsOnProtected'
      <4> SUFFICES ASSUME NEW a \in Created', activities'[a].status \in {"running", "paused"},
                          NEW k \in activities'[a].members
                   PROVE  ~ cases'[k].blocked
        BY DEF NothingRunsOnProtected
      <4>1. a \in Activities /\ a \notin hits /\ activities'[a] = activities[a] /\ a \in Created
        BY <3>7, <3>8 DEF Created
      <4>2. k # c
        BY <3>2, <4>1 DEF Affected, Created
      <4>3. k \in Cases
        BY <3>6, <4>1 DEF Activity
      <4> QED
        BY <3>4, <4>1, <4>2, <4>3 DEF Quiet, NothingRunsOnProtected
    <3> QED
      BY <3>10, <3>11
  <2>9. CASE UNCHANGED <<cases, desks, activities>>
    BY <1>2, <2>9 DEF Quiet
  <2>10. HitsAreAll' /\ NothingRunsOnProtected'
    <3>1. \A a \in Actors, i \in Incidents :
              Propose(a, i) \/ OpenReview(a, i) => UNCHANGED <<cases, desks, activities>>
      BY DEF Propose, OpenReview, activityVars
    <3>2. CASE \E d \in Desks, i \in Incidents : OpenReads(d, i)
      BY <2>4, <3>2
    <3>3. CASE \E d \in Desks : OpenCommits(d) \/ DecideCommits(d) \/ DeskDies(d)
      BY <2>6, <2>7, <2>8, <3>3
    <3>4. CASE \E d \in Desks, a \in Actors, i \in Incidents :
                  DecideReads(d, a, i, "rejecting") \/ DecideReads(d, a, i, "approving")
      BY <2>5, <3>4
    <3>5. CASE UNCHANGED <<cases, desks, activities>>
      BY <2>9, <3>5 DEF Quiet
    <3> QED
      BY <3>1, <3>2, <3>3, <3>4, <3>5 DEF Protect
  <2> QED
    BY <2>1, <2>10 DEF Quiet
<1> QED
  BY <1>2, <1>3, ProtectWaits DEF Quiet

\* No activity works on a protected case, where requests that open or decide incidents do not
\* overlap those that create or steer activities; where they do, one does.
THEOREM NothingReachesProtected == ASSUME ~ Overlap PROVE Spec => []NothingRunsOnProtected
<1>1. Inv /\ Quiet /\ [Next]_vars => Quiet'
  <2>1. UNCHANGED vars /\ Quiet => Quiet'
    BY DEF vars, Quiet, TakeTurns, ReachIsSound, HitsAreAll, Affected, NothingRunsOnProtected,
       Created
  <2> QED
    BY <2>1, ReachQuiet, ProtectQuiet DEF Next
<1>2. Quiet => NothingRunsOnProtected
  BY DEF Quiet
<1> QED
  BY <1>1, <1>2, InitQuiet, Invariance, PTL DEF Spec

-----------------------------------------------------------------------------
(* The release of an incident implements MakerChecker *)

\* The three columns of the refinement mapping.
Staged == [i \in Incidents |-> Stage(i)]
Maker == [i \in Incidents |-> IF Stage(i) = "open" THEN None ELSE incidents[i].proposer]
Checker == [i \in Incidents |->
               IF Stage(i) = "effective" THEN incidents[i].reviewer ELSE None]

LEMMA SameIncidents ==
    ASSUME UNCHANGED incidents
    PROVE  UNCHANGED Release!vars
<1>1. \A i \in Incidents : Stage(i)' = Stage(i)
  BY DEF Stage, Pending
<1>2. UNCHANGED <<Staged, Maker, Checker>>
  BY <1>1 DEF Staged, Maker, Checker
<1> QED
  BY <1>2 DEF Release!vars, Staged, Maker, Checker

\* What the mapping shows of every incident but i stays as it was.
LEMMA OnlyOne ==
    ASSUME NEW i \in Incidents,
           \A j \in Incidents \ {i} : incidents'[j] = incidents[j]
    PROVE  /\ Staged' = [Staged EXCEPT ![i] = Stage(i)']
           /\ Maker' = [Maker EXCEPT ![i] = Maker'[i]]
           /\ Checker' = [Checker EXCEPT ![i] = Checker'[i]]
<1>1. \A j \in Incidents \ {i} : Stage(j)' = Stage(j)
  BY DEF Stage, Pending
<1> QED
  BY <1>1 DEF Staged, Maker, Checker

LEMMA InitReview == Init => Release!Init
<1> SUFFICES ASSUME Init PROVE Release!Init
  OBVIOUS
<1>1. \A i \in Incidents : Stage(i) = "open"
  BY DEF Init, Stage, Pending
<1> QED
  BY <1>1 DEF Release!Init

LEMMA OpensUnseen ==
    ASSUME Inv, NEW d \in Desks, OpenCommits(d)
    PROVE  UNCHANGED Release!vars
<1> PICK i \in Incidents : i = desks[d].incident
  BY DEF OpenCommits, Inv, TypeOK, Desk, ReadsAreCurrent, ReadIsCurrent
<1>1. /\ incidents[i] = None
      /\ incidents' = [incidents EXCEPT ![i] =
             [status |-> IF i \in Holds THEN "permanent_hold" ELSE "open",
              version |-> 1, proposer |-> None, reviewer |-> None]]
  BY DEF OpenCommits, Inv, ReadsAreCurrent, ReadIsCurrent
<1>2. Stage(i) = "open" /\ Stage(i)' = "open"
  BY <1>1 DEF Stage, Pending, Inv, TypeOK
<1>3. \A j \in Incidents \ {i} : incidents'[j] = incidents[j]
  BY <1>1 DEF Inv, TypeOK
<1>4. \A j \in Incidents : Stage(j)' = Stage(j)
  BY <1>2, <1>3 DEF Stage, Pending
<1>5. \A j \in Incidents : Stage(j) # "open" => incidents'[j] = incidents[j]
  BY <1>2, <1>3
<1>6. UNCHANGED Staged
  BY <1>4 DEF Staged
<1>7. UNCHANGED Maker
  BY <1>4, <1>5 DEF Maker
<1>8. UNCHANGED Checker
  BY <1>4, <1>5 DEF Checker
<1> QED
  BY <1>6, <1>7, <1>8 DEF Release!vars, Staged, Maker, Checker

LEMMA ProposeIsPropose ==
    ASSUME Inv, NEW a \in Actors, NEW i \in Incidents, Propose(a, i)
    PROVE  Release!Propose(i, a)
<1>1. /\ incidents[i] # None /\ incidents[i].status = "open"
      /\ incidents' = [incidents EXCEPT ![i] =
             [status |-> "pending_review", version |-> incidents[i].version + 1,
              proposer |-> a, reviewer |-> None]]
  BY DEF Propose, Proposable
<1>2. [status |-> "pending_review", version |-> incidents[i].version + 1,
       proposer |-> a, reviewer |-> None] # None
  <2>1. Inv'
    BY ProposeInv
  <2>2. incidents'[i] \in Incident \cup {None}
    BY <2>1 DEF Inv, TypeOK
  <2>3. 1 \in 1 .. MaxVersion /\ incidents[i].version + 1 \in 1 .. MaxVersion
    BY <1>1, ProtectionAssumption DEF Inv, TypeOK, Incident, Propose
  <2> QED
    BY <2>3, NoneIsNoRow DEF Incident, ActiveStatuses
<1>3. /\ Stage(i) = "open" /\ Stage(i)' = "pending"
      /\ incidents'[i].proposer = a
  BY <1>1, <1>2 DEF Stage, Pending, Inv, TypeOK
<1>4. \A j \in Incidents \ {i} : incidents'[j] = incidents[j]
  BY <1>1 DEF Inv, TypeOK
<1>5. /\ Staged[i] = "open"
      /\ Staged' = [Staged EXCEPT ![i] = "pending"]
      /\ Maker' = [Maker EXCEPT ![i] = a]
      /\ Checker' = Checker
  BY <1>3, <1>4, OnlyOne DEF Staged, Maker, Checker
<1> QED
  BY <1>5 DEF Release!Propose, Staged, Maker, Checker

LEMMA DecisionIsDecision ==
    ASSUME Inv, NEW d \in Desks, DecideCommits(d)
    PROVE  \E i \in Incidents : Release!Return(i) \/ \E a \in Actors : Release!Approve(i, a)
<1> DEFINE q == desks[d]
<1> PICK i \in Incidents, a \in Actors : i = q.incident /\ a = q.actor
  BY DecidedRow
<1>1. /\ q.pc \in {"rejecting", "approving"}
      /\ Pending(i)
      /\ incidents[i].proposer \in Actors \ {a}
      /\ \A j \in Incidents \ {i} : incidents'[j] = incidents[j]
      /\ incidents'[i] # None
      /\ incidents'[i].proposer = incidents[i].proposer
      /\ incidents'[i].reviewer = a
      /\ incidents'[i].status = IF q.pc = "approving" THEN "resolved" ELSE "open"
  BY DecidedRow DEF DecideCommits
<1>2. Stage(i) = "pending" /\ Staged[i] = "pending" /\ Maker[i] = incidents[i].proposer
  BY <1>1 DEF Stage, Staged, Maker
<1>3. CASE q.pc = "rejecting"
  <2>1. Stage(i)' = "open"
    BY <1>1, <1>3 DEF Stage, Pending
  <2>2. /\ Staged' = [Staged EXCEPT ![i] = "open"]
        /\ Maker' = [Maker EXCEPT ![i] = None]
        /\ Checker' = Checker
    BY <1>1, <1>2, <2>1, OnlyOne DEF Staged, Maker, Checker
  <2> QED
    BY <1>2, <2>2 DEF Release!Return, Staged, Maker, Checker
<1>4. CASE q.pc = "approving"
  <2>1. Stage(i)' = "effective"
    BY <1>1, <1>4 DEF Stage, Pending
  <2>2. /\ Staged'[i] = "effective"
        /\ Checker'[i] = a
        /\ Maker'[i] = Maker[i]
    BY <1>1, <1>2, <2>1 DEF Staged, Maker, Checker
  <2>3. /\ Staged' = [Staged EXCEPT ![i] = "effective"]
        /\ Checker' = [Checker EXCEPT ![i] = a]
        /\ Maker' = Maker
    <3>1. /\ Staged' = [Staged EXCEPT ![i] = Stage(i)']
          /\ Maker' = [Maker EXCEPT ![i] = Maker'[i]]
          /\ Checker' = [Checker EXCEPT ![i] = Checker'[i]]
      BY <1>1, OnlyOne
    <3>2. Maker = [j \in Incidents |-> Maker[j]]
      BY DEF Maker
    <3> QED
      BY <2>1, <2>2, <3>1, <3>2
  <2>4. a # Maker[i]
    BY <1>1, <1>2
  <2>5. Release!Approve(i, a)
    BY <1>2, <2>3, <2>4 DEF Release!Approve, Staged, Maker, Checker
  <2> QED
    BY <2>5
<1> QED
  BY <1>1, <1>3, <1>4

LEMMA NextReview == Inv /\ [Next]_vars => [Release!Next]_(Release!vars)
<1> SUFFICES ASSUME Inv, [Next]_vars PROVE [Release!Next]_(Release!vars)
  OBVIOUS
<1>1. ASSUME NEW d \in Desks, OpenCommits(d) PROVE UNCHANGED Release!vars
  BY <1>1, OpensUnseen
<1>2. ASSUME NEW a \in Actors, NEW i \in Incidents, Propose(a, i) PROVE Release!Next
  BY <1>2, ProposeIsPropose DEF Release!Next
<1>3. ASSUME NEW d \in Desks, DecideCommits(d) PROVE Release!Next
  BY <1>3, DecisionIsDecision DEF Release!Next
<1>4. CASE UNCHANGED incidents
  BY <1>4, SameIncidents
<1>5. \/ UNCHANGED incidents
      \/ \E d \in Desks : OpenCommits(d) \/ DecideCommits(d)
      \/ \E a \in Actors, i \in Incidents : Propose(a, i)
  BY DEF Next, Protect, Reach, vars, OpenReads, OpenReview, DecideReads, DeskDies,
         CreateReads, CreateCounts, CreateCommits, TransitionReads, AgentProposes,
         ConfirmReads, ConfirmExpires, UpdateCommits, caseVars
<1> QED
  BY <1>1, <1>2, <1>3, <1>4, <1>5

\* The release of a protected case is a reviewed change: one person proposes
\* it, another approves that proposal, and what is resolved stays resolved.
THEOREM ReleaseTakesTwo == Spec => ReleaseIsReviewed
BY Invariance, InitReview, NextReview, PTL DEF Spec, ReleaseIsReviewed, Release!Spec

-----------------------------------------------------------------------------
(* The plans of a case and the policy *)

RepayingTheorems == INSTANCE RepaymentPlansProofs WITH
    Plans <- MCPlans, Due <- MCDue, MaxInstallments <- 2, Lenient <- MCLenient,
    Payments <- MCPayments, Refunds <- MCRefunds, Amount <- MCAmount, Original <- MCOriginal,
    Early <- {}, Desks <- PlanDesks, MaxIncidents <- 1, Proposals <- OnlyLenient,
    TermsOf <- LenientTerms, FirstTerms <- MCFirstTerms, Clerks <- OneClerk,
    clerks <- planClerks, proposals <- policyProposals, incidents <- protections,
    desks <- planDesks

\* The plans play no part in what is said of the policy alone.
ChangingTheorems == INSTANCE RepaymentPlansProofs WITH
    Plans <- MCPlans, Due <- MCDue, MaxInstallments <- 2, Lenient <- MCLenient,
    Payments <- MCPayments, Refunds <- MCRefunds, Amount <- MCAmount, Original <- MCOriginal,
    Early <- {}, Desks <- PlanDesks, MaxIncidents <- 1, Proposals <- Policies,
    TermsOf <- MCTermsOf, FirstTerms <- MCFirstTerms,
    package <- terms, proposals <- policies, clerks <- policyClerks,
    incidents <- protections, desks <- planDesks

-----------------------------------------------------------------------------
(* RepaymentPlansProofs speaks of the modules MCCases instantiates *)

LEMMA SameRepaying ==
    /\ Repaying!Init <=> RepayingTheorems!Init
    /\ Repaying!Next <=> RepayingTheorems!Next
    /\ Repaying!Policy!PolicyAssumption <=> RepayingTheorems!Policy!PolicyAssumption
    /\ Repaying!Policy!NoneIsNoRow <=> RepayingTheorems!Policy!NoneIsNoRow
    /\ Repaying!PlanAssumption <=> RepayingTheorems!PlanAssumption
    /\ Repaying!NoneIsNoRecord <=> RepayingTheorems!NoneIsNoRecord
    /\ Repaying!PaidIsAllocated <=> RepayingTheorems!PaidIsAllocated
    /\ Repaying!NetShareCovered <=> RepayingTheorems!NetShareCovered
    /\ Repaying!CompletedWhenPaid <=> RepayingTheorems!CompletedWhenPaid
    /\ Repaying!OnePlanPerCase <=> RepayingTheorems!OnePlanPerCase
    /\ Repaying!SettledMeansPaid <=> RepayingTheorems!SettledMeansPaid
    /\ Repaying!Review!Init <=> RepayingTheorems!Review!Init
    /\ [Repaying!Review!Next]_(Repaying!Review!vars)
          <=> [RepayingTheorems!Review!Next]_(RepayingTheorems!Review!vars)
<1>1. \A f, S : Repaying!Total(f, S) = RepayingTheorems!Total(f, S)
  BY DEF Repaying!Total, RepayingTheorems!Total, Repaying!MapThenSumSet,
      RepayingTheorems!MapThenSumSet, Repaying!MapThenFoldSet, RepayingTheorems!MapThenFoldSet
<1>2. /\ Repaying!Events = RepayingTheorems!Events
      /\ Repaying!Posted = RepayingTheorems!Posted
      /\ Repaying!InForce = RepayingTheorems!InForce
      /\ Repaying!Live = RepayingTheorems!Live
      /\ \A S : Repaying!WithStatus(S) = RepayingTheorems!WithStatus(S)
  BY DEF Repaying!Events, RepayingTheorems!Events, Repaying!Posted, RepayingTheorems!Posted,
      Repaying!InForce, RepayingTheorems!InForce, Repaying!Live, RepayingTheorems!Live,
      Repaying!WithStatus, RepayingTheorems!WithStatus
<1>3. /\ Repaying!Installments = RepayingTheorems!Installments
      /\ Repaying!Zero = RepayingTheorems!Zero
      /\ Repaying!IdleDesk = RepayingTheorems!IdleDesk
  BY DEF Repaying!Installments, RepayingTheorems!Installments, Repaying!Zero,
      RepayingTheorems!Zero, Repaying!IdleDesk, RepayingTheorems!IdleDesk
<1>4. \A E, k : Repaying!Put(E, k) = RepayingTheorems!Put(E, k)
  BY <1>1 DEF Repaying!Put, RepayingTheorems!Put
<1>5. \A e : Repaying!RefundsOf(e) = RepayingTheorems!RefundsOf(e)
  BY <1>2 DEF Repaying!RefundsOf, RepayingTheorems!RefundsOf
<1>6. \A e : Repaying!Refundable(e) = RepayingTheorems!Refundable(e)
  BY <1>3, <1>4, <1>5 DEF Repaying!Refundable, RepayingTheorems!Refundable
<1>7. /\ \A c, room : Repaying!Spread(c, room) = RepayingTheorems!Spread(c, room)
      /\ \A c, room : Repaying!TakeBack(c, room) = RepayingTheorems!TakeBack(c, room)
  BY <1>1, <1>3 DEF Repaying!Spread, RepayingTheorems!Spread, Repaying!TakeBack,
      RepayingTheorems!TakeBack, Repaying!Rest, RepayingTheorems!Rest, Repaying!AtMost,
      RepayingTheorems!AtMost
<1>8. \A e, p : Repaying!Allocation(e, p) = RepayingTheorems!Allocation(e, p)
  BY <1>3, <1>6, <1>7 DEF Repaying!Allocation, RepayingTheorems!Allocation, Repaying!Open,
      RepayingTheorems!Open
<1>9. \A e, p : Repaying!PaidAfter(e, p) = RepayingTheorems!PaidAfter(e, p)
  BY <1>3, <1>8 DEF Repaying!PaidAfter, RepayingTheorems!PaidAfter
<1>10. \A e : Repaying!PlanOf(e) = RepayingTheorems!PlanOf(e)
  BY <1>2 DEF Repaying!PlanOf, RepayingTheorems!PlanOf
<1>11. \A e : Repaying!Bookable(e) <=> RepayingTheorems!Bookable(e)
  BY <1>1, <1>2, <1>5 DEF Repaying!Bookable, RepayingTheorems!Bookable
<1>12. \A p, q : Repaying!PaidUp(p, q) <=> RepayingTheorems!PaidUp(p, q)
  BY <1>1, <1>3 DEF Repaying!PaidUp, RepayingTheorems!PaidUp
<1>13. /\ Repaying!ContextUnlocked <=> RepayingTheorems!ContextUnlocked
       /\ \A p : Repaying!PlanUnlocked(p) <=> RepayingTheorems!PlanUnlocked(p)
       /\ Repaying!NoDeskHoldsContext <=> RepayingTheorems!NoDeskHoldsContext
  BY DEF Repaying!ContextUnlocked, RepayingTheorems!ContextUnlocked,
      Repaying!NoDeskHoldsContext, RepayingTheorems!NoDeskHoldsContext,
      Repaying!Policy!PackageUnlocked, RepayingTheorems!Policy!PackageUnlocked,
      Repaying!PlanUnlocked, RepayingTheorems!PlanUnlocked
<1>14. /\ \A p : Repaying!TermsValid(p) <=> RepayingTheorems!TermsValid(p)
       /\ \A p : Repaying!Approvable(p) <=> RepayingTheorems!Approvable(p)
  BY <1>2 DEF Repaying!TermsValid, RepayingTheorems!TermsValid, Repaying!Approvable,
      RepayingTheorems!Approvable
<1>15. Repaying!Policy!Init <=> RepayingTheorems!Policy!Init
  BY DEF Repaying!Policy!Init, RepayingTheorems!Policy!Init, Repaying!Policy!IdleClerk,
      RepayingTheorems!Policy!IdleClerk
<1>16. Repaying!Policy!Next <=> RepayingTheorems!Policy!Next
  BY DEF Repaying!Policy!Next, RepayingTheorems!Policy!Next, Repaying!Policy!CreateReads,
      RepayingTheorems!Policy!CreateReads, Repaying!Policy!CreateChecks,
      RepayingTheorems!Policy!CreateChecks, Repaying!Policy!CreateCommits,
      RepayingTheorems!Policy!CreateCommits, Repaying!Policy!DecideReads,
      RepayingTheorems!Policy!DecideReads, Repaying!Policy!DecideCommits,
      RepayingTheorems!Policy!DecideCommits, Repaying!Policy!ClerkDies,
      RepayingTheorems!Policy!ClerkDies, Repaying!Policy!IdleClerk,
      RepayingTheorems!Policy!IdleClerk, Repaying!Policy!Held, RepayingTheorems!Policy!Held,
      Repaying!Policy!MayDecide, RepayingTheorems!Policy!MayDecide, Repaying!Policy!Pending,
      RepayingTheorems!Policy!Pending, Repaying!Policy!PackageUnlocked,
      RepayingTheorems!Policy!PackageUnlocked
<1>17. Repaying!Init <=> RepayingTheorems!Init
  BY <1>15, <1>3, <1>2 DEF Repaying!Init, RepayingTheorems!Init
<1>18. /\ \A d, a, p : Repaying!ProposeReads(d, a, p) <=> RepayingTheorems!ProposeReads(d, a, p)
       /\ \A d : Repaying!ProposeCommits(d) <=> RepayingTheorems!ProposeCommits(d)
  BY <1>2, <1>3, <1>13, <1>14 DEF Repaying!ProposeReads, RepayingTheorems!ProposeReads,
      Repaying!ProposeCommits, RepayingTheorems!ProposeCommits, Repaying!policyVars,
      RepayingTheorems!policyVars
<1>19. /\ \A d, a, p, w :
             Repaying!DecideOpens(d, a, p, w) <=> RepayingTheorems!DecideOpens(d, a, p, w)
       /\ \A d : Repaying!DecideReads(d) <=> RepayingTheorems!DecideReads(d)
       /\ \A d : Repaying!DecideCommits(d) <=> RepayingTheorems!DecideCommits(d)
  BY <1>2, <1>3, <1>13, <1>14 DEF Repaying!DecideOpens, RepayingTheorems!DecideOpens,
      Repaying!MayDecide, RepayingTheorems!MayDecide, Repaying!DecideReads,
      RepayingTheorems!DecideReads, Repaying!DecideCommits, RepayingTheorems!DecideCommits,
      Repaying!policyVars, RepayingTheorems!policyVars
<1>20. /\ \A d, e : Repaying!PostOpens(d, e) <=> RepayingTheorems!PostOpens(d, e)
       /\ \A d : Repaying!PostReads(d) <=> RepayingTheorems!PostReads(d)
       /\ \A d : Repaying!DeskDies(d) <=> RepayingTheorems!DeskDies(d)
  BY <1>3, <1>11, <1>13, <1>10, <1>8, <1>9 DEF Repaying!PostOpens, RepayingTheorems!PostOpens,
      Repaying!PostReads, RepayingTheorems!PostReads, Repaying!DeskDies,
      RepayingTheorems!DeskDies, Repaying!policyVars, RepayingTheorems!policyVars
<1>21. \A d : Repaying!SyncCase(d) <=> RepayingTheorems!SyncCase(d)
  BY <1>12, <1>13 DEF Repaying!SyncCase, RepayingTheorems!SyncCase, Repaying!CaseSynced,
      RepayingTheorems!CaseSynced
<1>22. \A d : Repaying!PostCommits(d) <=> RepayingTheorems!PostCommits(d)
  BY <1>3, <1>12, <1>21 DEF Repaying!PostCommits, RepayingTheorems!PostCommits,
      Repaying!PlanSynced, RepayingTheorems!PlanSynced, Repaying!policyVars,
      RepayingTheorems!policyVars
<1>23. /\ Repaying!Protect <=> RepayingTheorems!Protect
       /\ Repaying!Release <=> RepayingTheorems!Release
       /\ Repaying!PolicyChanges <=> RepayingTheorems!PolicyChanges
  BY <1>13, <1>16 DEF Repaying!Protect, RepayingTheorems!Protect, Repaying!Release,
      RepayingTheorems!Release, Repaying!PolicyChanges, RepayingTheorems!PolicyChanges,
      Repaying!PolicyDecider, RepayingTheorems!PolicyDecider, Repaying!policyVars,
      RepayingTheorems!policyVars
<1>24. Repaying!Next <=> RepayingTheorems!Next
  BY <1>2, <1>18, <1>19, <1>20, <1>22, <1>23 DEF Repaying!Next, RepayingTheorems!Next
<1>25. /\ Repaying!Policy!PolicyAssumption <=> RepayingTheorems!Policy!PolicyAssumption
       /\ Repaying!Policy!NoneIsNoRow <=> RepayingTheorems!Policy!NoneIsNoRow
  BY DEF Repaying!Policy!PolicyAssumption, RepayingTheorems!Policy!PolicyAssumption,
      Repaying!Policy!IsFiniteSet, RepayingTheorems!Policy!IsFiniteSet,
      Repaying!Policy!NoneIsNoRow, RepayingTheorems!Policy!NoneIsNoRow,
      Repaying!Policy!Proposal, RepayingTheorems!Policy!Proposal, Repaying!Policy!Versions,
      RepayingTheorems!Policy!Versions, Repaying!Policy!Cardinality,
      RepayingTheorems!Policy!Cardinality
<1>26. /\ Repaying!PlanAssumption <=> RepayingTheorems!PlanAssumption
       /\ Repaying!NoneIsNoRecord <=> RepayingTheorems!NoneIsNoRecord
  BY <1>3 DEF Repaying!PlanAssumption, RepayingTheorems!PlanAssumption, Repaying!NoneIsNoRecord,
      RepayingTheorems!NoneIsNoRecord, Repaying!Plan, RepayingTheorems!Plan, Repaying!Share,
      RepayingTheorems!Share, Repaying!Case, RepayingTheorems!Case, Repaying!Policy!Versions,
      RepayingTheorems!Policy!Versions, Repaying!Policy!Cardinality,
      RepayingTheorems!Policy!Cardinality
<1>27. /\ Repaying!PaidIsAllocated <=> RepayingTheorems!PaidIsAllocated
       /\ Repaying!NetShareCovered <=> RepayingTheorems!NetShareCovered
       /\ Repaying!CompletedWhenPaid <=> RepayingTheorems!CompletedWhenPaid
  BY <1>1, <1>2, <1>3, <1>4, <1>5, <1>6, <1>12 DEF Repaying!PaidIsAllocated,
      RepayingTheorems!PaidIsAllocated, Repaying!Allotted, RepayingTheorems!Allotted,
      Repaying!NetShareCovered, RepayingTheorems!NetShareCovered, Repaying!CompletedWhenPaid,
      RepayingTheorems!CompletedWhenPaid
<1>28. /\ Repaying!OnePlanPerCase <=> RepayingTheorems!OnePlanPerCase
       /\ Repaying!SettledMeansPaid <=> RepayingTheorems!SettledMeansPaid
  BY <1>2 DEF Repaying!OnePlanPerCase, RepayingTheorems!OnePlanPerCase,
      Repaying!SettledMeansPaid, RepayingTheorems!SettledMeansPaid
<1>29. /\ Repaying!Review!Init <=> RepayingTheorems!Review!Init
       /\ [Repaying!Review!Next]_(Repaying!Review!vars)
          <=> [RepayingTheorems!Review!Next]_(RepayingTheorems!Review!vars)
  BY DEF Repaying!Stage, RepayingTheorems!Stage, Repaying!InForce, RepayingTheorems!InForce,
      Repaying!Live, RepayingTheorems!Live, Repaying!WithStatus, RepayingTheorems!WithStatus,
      Repaying!Review!Init, RepayingTheorems!Review!Init, Repaying!Review!Next,
      RepayingTheorems!Review!Next, Repaying!Review!Propose, RepayingTheorems!Review!Propose,
      Repaying!Review!Return, RepayingTheorems!Review!Return, Repaying!Review!Approve,
      RepayingTheorems!Review!Approve, Repaying!Review!vars, RepayingTheorems!Review!vars
<1> QED
  BY <1>16, <1>17, <1>24, <1>25, <1>26, <1>27, <1>28, <1>29

LEMMA SameChanging ==
    /\ Changing!Init <=> ChangingTheorems!Policy!Init
    /\ Changing!Next <=> ChangingTheorems!Policy!Next
    /\ Changing!PolicyAssumption <=> ChangingTheorems!Policy!PolicyAssumption
    /\ Changing!NoneIsNoRow <=> ChangingTheorems!Policy!NoneIsNoRow
    /\ Changing!OneApprovalPerVersion <=> ChangingTheorems!Policy!OneApprovalPerVersion
    /\ Changing!Review!Init <=> ChangingTheorems!Policy!Review!Init
    /\ [Changing!Review!Next]_(Changing!Review!vars)
          <=> [ChangingTheorems!Policy!Review!Next]_(ChangingTheorems!Policy!Review!vars)
<1>1. Changing!Init <=> ChangingTheorems!Policy!Init
  BY DEF Changing!Init, ChangingTheorems!Policy!Init, Changing!IdleClerk,
      ChangingTheorems!Policy!IdleClerk
<1>2. Changing!Next <=> ChangingTheorems!Policy!Next
  BY DEF Changing!Next, ChangingTheorems!Policy!Next, Changing!CreateReads,
      ChangingTheorems!Policy!CreateReads, Changing!CreateChecks,
      ChangingTheorems!Policy!CreateChecks, Changing!CreateCommits,
      ChangingTheorems!Policy!CreateCommits, Changing!DecideReads,
      ChangingTheorems!Policy!DecideReads, Changing!DecideCommits,
      ChangingTheorems!Policy!DecideCommits, Changing!ClerkDies,
      ChangingTheorems!Policy!ClerkDies, Changing!IdleClerk, ChangingTheorems!Policy!IdleClerk,
      Changing!Held, ChangingTheorems!Policy!Held, Changing!MayDecide,
      ChangingTheorems!Policy!MayDecide, Changing!Pending, ChangingTheorems!Policy!Pending,
      Changing!PackageUnlocked, ChangingTheorems!Policy!PackageUnlocked
<1>3. /\ Changing!PolicyAssumption <=> ChangingTheorems!Policy!PolicyAssumption
      /\ Changing!NoneIsNoRow <=> ChangingTheorems!Policy!NoneIsNoRow
  BY DEF Changing!PolicyAssumption, ChangingTheorems!Policy!PolicyAssumption,
      Changing!IsFiniteSet, ChangingTheorems!Policy!IsFiniteSet, Changing!NoneIsNoRow,
      ChangingTheorems!Policy!NoneIsNoRow, Changing!Proposal, ChangingTheorems!Policy!Proposal,
      Changing!Versions, ChangingTheorems!Policy!Versions, Changing!Cardinality,
      ChangingTheorems!Policy!Cardinality
<1>4. Changing!OneApprovalPerVersion <=> ChangingTheorems!Policy!OneApprovalPerVersion
  BY DEF Changing!OneApprovalPerVersion, ChangingTheorems!Policy!OneApprovalPerVersion,
      Changing!Approved, ChangingTheorems!Policy!Approved, Changing!Cardinality,
      ChangingTheorems!Policy!Cardinality
<1>5. /\ Changing!Review!Init <=> ChangingTheorems!Policy!Review!Init
      /\ [Changing!Review!Next]_(Changing!Review!vars)
          <=> [ChangingTheorems!Policy!Review!Next]_(ChangingTheorems!Policy!Review!vars)
  BY DEF Changing!Stage, ChangingTheorems!Policy!Stage, Changing!Pending,
      ChangingTheorems!Policy!Pending, Changing!Approved, ChangingTheorems!Policy!Approved,
      Changing!Review!Init, ChangingTheorems!Policy!Review!Init, Changing!Review!Next,
      ChangingTheorems!Policy!Review!Next, Changing!Review!Propose,
      ChangingTheorems!Policy!Review!Propose, Changing!Review!Return,
      ChangingTheorems!Policy!Review!Return, Changing!Review!Approve,
      ChangingTheorems!Policy!Review!Approve, Changing!Review!vars,
      ChangingTheorems!Policy!Review!vars
<1> QED
  BY <1>1, <1>2, <1>3, <1>4, <1>5

-----------------------------------------------------------------------------
(* Each part from its beginning *)

\* The parts have no variable in common: each runs as if it were alone.
LEMMA Parts == CasesSpec => Spec /\ RepayingTheorems!Spec /\ ChangingTheorems!Policy!Spec
<1>1. CasesInit => Init /\ RepayingTheorems!Init /\ ChangingTheorems!Policy!Init
  BY SameRepaying, SameChanging DEF CasesInit
<1>2. [CasesNext]_<<vars, planVars, policyVars, part>>
        => /\ [Next]_vars
           /\ [RepayingTheorems!Next]_(RepayingTheorems!vars)
           /\ [ChangingTheorems!Policy!Next]_(ChangingTheorems!Policy!vars)
  BY SameRepaying, SameChanging
     DEF CasesNext, vars, planVars, policyVars, RepayingTheorems!vars,
         ChangingTheorems!Policy!vars
<1> QED
  BY <1>1, <1>2, PTL
     DEF CasesSpec, Spec, RepayingTheorems!Spec, ChangingTheorems!Policy!Spec

LEMMA GivenHolds ==
    /\ RepayingTheorems!Given
    /\ ChangingTheorems!Policy!PolicyAssumption /\ ChangingTheorems!Policy!NoneIsNoRow
BY InstancesAssumption, SameRepaying, SameChanging DEF RepayingTheorems!Given

\* However requests on plans, bookings and incidents interleave, what the plans of the case show
\* as paid is what payments left on them, and a plan is completed exactly while it is paid.
THEOREM PaymentsStayAllocated == CasesSpec => []MoneyIsAllocated
<1>1. RepayingTheorems!Spec =>
          [](/\ RepayingTheorems!PaidIsAllocated
             /\ RepayingTheorems!NetShareCovered
             /\ RepayingTheorems!CompletedWhenPaid)
  BY GivenHolds, RepayingTheorems!PaidIsWhatPaymentsLeft, PTL
<1>2. RepayingTheorems!PaidIsAllocated /\ RepayingTheorems!NetShareCovered
          /\ RepayingTheorems!CompletedWhenPaid => MoneyIsAllocated
  BY SameRepaying DEF MoneyIsAllocated
<1> QED
  BY <1>1, <1>2, Parts, PTL

\* The case has one plan at most, and is settled by it alone.
THEOREM SettledByItsPlan == CasesSpec => []PlanSettlesCase
<1>1. RepayingTheorems!Spec =>
          [](RepayingTheorems!OnePlanPerCase /\ RepayingTheorems!SettledMeansPaid)
  BY GivenHolds, RepayingTheorems!OnePlanSettles
<1>2. RepayingTheorems!OnePlanPerCase /\ RepayingTheorems!SettledMeansPaid => PlanSettlesCase
  BY SameRepaying DEF PlanSettlesCase
<1> QED
  BY <1>1, <1>2, Parts, PTL

\* No plan takes effect on the case while it is protected, nor under another policy than the one
\* it was proposed for.
THEOREM NoPlanStartsProtected == CasesSpec => NothingActivatesProtected
<1>1. RepayingTheorems!Spec => RepayingTheorems!NothingActivatesProtected
  BY GivenHolds, RepayingTheorems!NothingStartsProtected
<1>2. RepayingTheorems!NothingActivatesProtected => NothingActivatesProtected
  BY DEF RepayingTheorems!NothingActivatesProtected, NothingActivatesProtected,
         Repaying!NothingActivatesProtected, RepayingTheorems!vars, Repaying!vars
<1> QED
  BY <1>1, <1>2, Parts, PTL

\* Every version of the policy after the first is the work of exactly one approved proposal.
THEOREM EachVersionIsOneApproval == CasesSpec => []OneApprovalPerVersion
<1>1. ChangingTheorems!Policy!Spec => []ChangingTheorems!Policy!OneApprovalPerVersion
  BY GivenHolds, ChangingTheorems!EachVersionApprovedOnce
<1>2. ChangingTheorems!Policy!OneApprovalPerVersion => OneApprovalPerVersion
  BY SameChanging DEF OneApprovalPerVersion
<1> QED
  BY <1>1, <1>2, Parts, PTL

\* Plans and changes of the policy implement MakerChecker: nothing takes effect unless one person
\* proposed it and another approved it.
THEOREM DecisionsTakeTwo == CasesSpec => DecisionsAreReviewed
<1>1. RepayingTheorems!Spec => RepayingTheorems!PlansAreReviewed
  BY GivenHolds, RepayingTheorems!PlansTakeTwo
<1>2. ChangingTheorems!Policy!Spec => ChangingTheorems!Policy!PolicyIsReviewed
  BY GivenHolds, ChangingTheorems!PolicyTakesTwo
<1>3. /\ RepayingTheorems!Review!Init => Repaying!Review!Init
      /\ [RepayingTheorems!Review!Next]_(RepayingTheorems!Review!vars)
            => [Repaying!Review!Next]_(Repaying!Review!vars)
  BY SameRepaying
<1>4. /\ ChangingTheorems!Policy!Review!Init => Changing!Review!Init
      /\ [ChangingTheorems!Policy!Review!Next]_(ChangingTheorems!Policy!Review!vars)
            => [Changing!Review!Next]_(Changing!Review!vars)
  BY SameChanging
<1>5. RepayingTheorems!PlansAreReviewed => Repaying!PlansAreReviewed
  BY <1>3, PTL DEF RepayingTheorems!PlansAreReviewed, Repaying!PlansAreReviewed,
       RepayingTheorems!Review!Spec, Repaying!Review!Spec
<1>6. ChangingTheorems!Policy!PolicyIsReviewed => Changing!PolicyIsReviewed
  BY <1>4, PTL DEF ChangingTheorems!Policy!PolicyIsReviewed, Changing!PolicyIsReviewed,
       ChangingTheorems!Policy!Review!Spec, Changing!Review!Spec
<1> QED
  BY <1>1, <1>2, <1>5, <1>6, Parts, PTL DEF DecisionsAreReviewed

\* What is proved of CaseProtection holds of the cases beside the plans and the policy.
THEOREM CasesAreProtected ==
    CasesSpec => [](BlockedIffProtected /\ StopContactIsForever) /\ ReleaseIsReviewed
BY Parts, BlockedWhileProtected, HoldsAreForever, ReleaseTakesTwo, PTL
=============================================================================
