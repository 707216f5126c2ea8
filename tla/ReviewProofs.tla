---------------------------- MODULE ReviewProofs ----------------------------
(***************************************************************************)
(* What others rely on after a second look, for any number of people, rows *)
(* and requests under way: the members and the stage of a tenant, imported *)
(* files, accepted evidence and its histories, and tested voices.          *)
(***************************************************************************)
EXTENDS MCProposals, MCVerdicts, Sequences, TLAPS

-----------------------------------------------------------------------------
(* Members and stages: the inductive invariant *)

Tables ==
    /\ memberships \in [Users -> Membership \cup {None}]
    /\ proposals \in [MemberProposals -> MemberProposal \cup {None}]
    /\ lifecycle \in Lifecycle \cup {None}
    /\ stageProposals \in [StageProposals -> StageProposal \cup {None}]
    /\ clerks = [c \in Clerks |-> clerks[c]]

\* What a proposal of a stage was made from.
Follows(row) ==
    /\ row \in StageProposal
    /\ row.target \in TRANSITIONS(row.current.stage)
    /\ row.current.version <= Current.version

\* Requests that insert a proposal.
Proposing(c) ==
    /\ At(c, "propose") => clerks[c].p \in MemberProposals /\ clerks[c].row \in MemberProposal
    /\ At(c, "propose_stage") => clerks[c].p \in StageProposals /\ Follows(clerks[c].row)

\* The row of the member, if there was one, is as the proposal expects it.
DecidesMember(c) ==
    At(c, "decide") =>
        /\ clerks[c].p \in Pending(proposals, MemberProposals)
        /\ clerks[c].decision \in {"approved", "rejected"}
        /\ clerks[c].insert \in BOOLEAN
        /\ IF clerks[c].insert
           THEN proposals[clerks[c].p].expected = None
           ELSE /\ proposals[clerks[c].p].expected # None
                /\ proposals[clerks[c].p].expected = memberships[proposals[clerks[c].p].target]

\* The stage is as the proposal expects it, or another decision made from there has been
\* written since.
DecidesStage(c) ==
    At(c, "decide_stage") =>
        /\ clerks[c].p \in Pending(stageProposals, StageProposals)
        /\ clerks[c].decision \in {"approved", "rejected"}
        /\ clerks[c].version = stageProposals[clerks[c].p].current.version
        /\ \/ Current = stageProposals[clerks[c].p].current
           \/ Current.version = clerks[c].version + 1

\* While a stage is decided nobody proposes from a later one.
NothingLater ==
    \A c \in Clerks : At(c, "decide_stage") =>
        /\ \A p \in Pending(stageProposals, StageProposals) :
               stageProposals[p].current.version <= clerks[c].version
        /\ \A d \in Clerks : At(d, "propose_stage") =>
               clerks[d].row.current.version <= clerks[c].version

\* A proposal is in one hand.
ProposalsAlone ==
    \A c \in Clerks, d \in Clerks :
        c # d /\ clerks[c] # None /\ clerks[d] # None => clerks[c].p # clerks[d].p

\* The row of a member is in one hand, unless it is not there yet.
MembersAlone ==
    \A c \in Clerks, d \in Clerks :
        /\ c # d /\ At(c, "decide") /\ At(d, "decide")
        /\ proposals[clerks[c].p].target = proposals[clerks[d].p].target
        => clerks[c].insert

TenantInv ==
    /\ Tables
    /\ \A p \in StageProposals : stageProposals[p] # None => Follows(stageProposals[p])
    /\ \A c \in Clerks : Proposing(c) /\ DecidesMember(c) /\ DecidesStage(c)
    /\ NothingLater /\ ProposalsAlone /\ MembersAlone

-----------------------------------------------------------------------------
(* Members and stages: every step keeps it *)

USE DEF At, Goes

LEMMA TenantBegins == Init => TenantInv
<1> SUFFICES ASSUME Init PROVE TenantInv
  OBVIOUS
<1>1. Tables
  BY DEF Init, Tables, Membership, Administrator
<1>2. \A c \in Clerks : clerks[c] = None
  BY DEF Init
<1>3. \A p \in StageProposals : stageProposals[p] = None
  BY DEF Init
<1> QED
  BY <1>1, <1>2, <1>3 DEF TenantInv, Proposing, DecidesMember, DecidesStage, NothingLater,
      ProposalsAlone, MembersAlone

\* A request that only reads: what it has read must be so, and its proposal free.
LEMMA ReadsKeep ==
    ASSUME TenantInv, NEW c \in Clerks, NEW k, UNCHANGED <<memberVars, stageVars>>,
           clerks[c] = None, clerks' = [clerks EXCEPT ![c] = k], ProposalFree(k.p),
           Proposing(c)', DecidesMember(c)', DecidesStage(c)',
           k.op = "propose_stage" => Pending(stageProposals, StageProposals) = {},
           k.op = "decide_stage" => k.version = Current.version,
           k.op = "decide" =>
               /\ k.insert <=> memberships[proposals[k.p].target] = None
               /\ MemberFree(proposals[k.p].target)
    PROVE  TenantInv'
<1>1. Tables' /\ Current' = Current
  BY DEF TenantInv, Tables, memberVars, stageVars, Current
<1>2. clerks'[c] = k /\ \A d \in Clerks : d # c => clerks'[d] = clerks[d]
  BY DEF TenantInv, Tables
<1>3. \A row : Follows(row) <=> Follows(row)'
  BY <1>1 DEF Follows
<1>4. \A p \in StageProposals : (stageProposals[p] # None => Follows(stageProposals[p]))'
  BY <1>3 DEF TenantInv, stageVars
<1>5. ASSUME NEW d \in Clerks PROVE (Proposing(d) /\ DecidesMember(d) /\ DecidesStage(d))'
  <2>1. CASE d = c
    BY <2>1
  <2>2. CASE d # c
    BY <2>2, <1>1, <1>2, <1>3 DEF TenantInv, Proposing, DecidesMember, DecidesStage, Pending,
        memberVars, stageVars
  <2> QED
    BY <2>1, <2>2
<1>6. NothingLater'
  <2> SUFFICES ASSUME NEW d \in Clerks, At(d, "decide_stage")'
               PROVE  /\ \A p \in Pending(stageProposals, StageProposals) :
                             stageProposals[p].current.version <= clerks'[d].version
                      /\ \A e \in Clerks : At(e, "propose_stage")' =>
                             clerks'[e].row.current.version <= clerks'[d].version
    BY DEF NothingLater, stageVars, Pending
  <2>1. CASE d = c
    <3>1. clerks'[d].version = Current.version
      BY <2>1, <1>2
    <3>2. \A p \in Pending(stageProposals, StageProposals) : Follows(stageProposals[p])
      BY DEF TenantInv, Pending
    <3>3. ASSUME NEW e \in Clerks, At(e, "propose_stage")' PROVE Follows(clerks'[e].row)
      BY <1>2, <2>1, <3>3 DEF TenantInv, Proposing
    <3> QED
      BY <3>1, <3>2, <3>3 DEF Follows
  <2>2. CASE d # c
    <3>1. At(d, "decide_stage") /\ clerks'[d] = clerks[d]
      BY <2>2, <1>2
    <3>2. clerks[d].p \in Pending(stageProposals, StageProposals)
      BY <3>1 DEF TenantInv, DecidesStage
    <3>3. ~ At(c, "propose_stage")'
      BY <1>2, <3>2
    <3> QED
      BY <3>1, <3>3, <1>2 DEF TenantInv, NothingLater
  <2> QED
    BY <2>1, <2>2
<1>7. ProposalsAlone'
  BY <1>2 DEF TenantInv, ProposalsAlone, ProposalFree, Busy
<1>8. MembersAlone'
  <2> SUFFICES ASSUME NEW d \in Clerks, NEW e \in Clerks, d # e, At(d, "decide")',
                      At(e, "decide")',
                      proposals[clerks'[d].p].target = proposals[clerks'[e].p].target
               PROVE  clerks'[d].insert
    BY DEF MembersAlone, memberVars
  <2>1. CASE d # c /\ e # c
    BY <2>1, <1>2 DEF TenantInv, MembersAlone
  <2>2. CASE d = c
    <3>1. e \in Busy /\ At(e, "decide") /\ clerks[e] = clerks'[e]
      BY <2>2, <1>2 DEF Busy
    <3>2. memberships[proposals[k.p].target] = None
      BY <3>1, <2>2, <1>2 DEF MemberFree
    <3> QED
      BY <3>2, <2>2, <1>2
  <2>3. CASE e = c
    <3>1. d \in Busy /\ At(d, "decide") /\ clerks[d] = clerks'[d]
      BY <2>3, <1>2 DEF Busy
    <3>2. memberships[proposals[clerks[d].p].target] = None
      BY <3>1, <2>3, <1>2 DEF MemberFree
    <3>3. DecidesMember(d)
      BY DEF TenantInv
    <3> QED
      BY <3>1, <3>2, <3>3 DEF DecidesMember
  <2> QED
    BY <2>1, <2>2, <2>3
<1> QED
  BY <1>1, <1>4, <1>5, <1>6, <1>7, <1>8 DEF TenantInv

LEMMA ProposesMember ==
    ASSUME ProposalsAssumption, TenantInv, NEW c \in Clerks, NEW a \in Users, NEW u \in Users,
           NEW requested \in Requests, NEW p \in MemberProposals, ProposeMember(c, a, u, requested, p)
    PROVE  TenantInv'
<1>1. PICK row : row = [target |-> u, requested |-> requested, expected |-> memberships[u],
                        status |-> "pending_review", by |-> a]
  OBVIOUS
<1>2. row \in MemberProposal
  BY <1>1 DEF MemberProposal, TenantInv, Tables
<1>3. PICK k : k = [op |-> "propose", p |-> p, row |-> row]
  OBVIOUS
<1>4. clerks' = [clerks EXCEPT ![c] = k] /\ clerks'[c] = k
  BY <1>1, <1>3 DEF ProposeMember, TenantInv, Tables
<1>5. Proposing(c)' /\ DecidesMember(c)' /\ DecidesStage(c)'
  BY <1>2, <1>3, <1>4 DEF Proposing, DecidesMember, DecidesStage
<1>6. /\ UNCHANGED <<memberVars, stageVars>> /\ clerks[c] = None /\ ProposalFree(k.p)
      /\ k.op = "propose"
  BY <1>3 DEF ProposeMember
<1> QED
  BY <1>4, <1>5, <1>6, ReadsKeep

LEMMA DecidesOnMember ==
    ASSUME TenantInv, NEW c \in Clerks, NEW a \in Users, NEW p \in MemberProposals,
           NEW d \in {"approved", "rejected"}, DecideMember(c, a, p, d)
    PROVE  TenantInv'
<1>1. PICK new \in BOOLEAN : new = (memberships[proposals[p].target] = None)
  OBVIOUS
<1>2. PICK k : k = [op |-> "decide", p |-> p, decision |-> d, insert |-> new]
  OBVIOUS
<1>3. clerks' = [clerks EXCEPT ![c] = k] /\ clerks'[c] = k
  BY <1>1, <1>2 DEF DecideMember, TenantInv, Tables
<1>4. Proposing(c)' /\ DecidesStage(c)'
  BY <1>2, <1>3 DEF Proposing, DecidesStage
<1>5. /\ UNCHANGED <<memberVars, stageVars>> /\ clerks[c] = None /\ ProposalFree(k.p)
      /\ k.op = "decide"
      /\ k.p = p /\ k.insert = new
  BY <1>2 DEF DecideMember
<1>6. /\ p \in Pending(proposals, MemberProposals)
      /\ memberships[proposals[p].target] = proposals[p].expected
      /\ MemberFree(proposals[p].target)
  BY DEF DecideMember
<1>7. DecidesMember(c)'
  <2>1. p \in Pending(proposals, MemberProposals)'
    BY <1>5, <1>6 DEF Pending, memberVars
  <2>2. proposals' = proposals /\ memberships' = memberships
    BY <1>5 DEF memberVars
  <2>3. clerks'[c].p = p /\ clerks'[c].decision = d /\ clerks'[c].insert = new
    BY <1>2, <1>3
  <2>4. CASE new
    BY <2>1, <2>2, <2>3, <2>4, <1>1, <1>6 DEF DecidesMember
  <2>5. CASE ~ new
    BY <2>1, <2>2, <2>3, <2>5, <1>1, <1>6 DEF DecidesMember
  <2> QED
    BY <2>4, <2>5
<1>8. k.insert <=> memberships[proposals[k.p].target] = None
  BY <1>1, <1>5
<1> QED
  BY <1>3, <1>4, <1>5, <1>6, <1>7, <1>8, ReadsKeep

LEMMA ProposesStage ==
    ASSUME TenantInv, NEW c \in Clerks, NEW a \in Users, NEW stage \in Stages,
           NEW p \in StageProposals, ProposeStage(c, a, stage, p)
    PROVE  TenantInv'
<1>1. PICK row : row = [current |-> Current, target |-> stage, by |-> a,
                        status |-> "pending_review"]
  OBVIOUS
<1>2. Current \in Lifecycle
  BY DEF Current, Lifecycle, TenantInv, Tables
<1>3. row \in StageProposal
  BY <1>1, <1>2 DEF StageProposal
<1>4. Follows(row)' /\ Current' = Current
  BY <1>1, <1>2, <1>3 DEF Follows, ProposeStage, Current, stageVars, Lifecycle
<1>5. PICK k : k = [op |-> "propose_stage", p |-> p, row |-> row]
  OBVIOUS
<1>6. clerks' = [clerks EXCEPT ![c] = k] /\ clerks'[c] = k
  BY <1>1, <1>5 DEF ProposeStage, TenantInv, Tables
<1>7. Proposing(c)' /\ DecidesMember(c)' /\ DecidesStage(c)'
  BY <1>4, <1>5, <1>6 DEF Proposing, DecidesMember, DecidesStage
<1>8. /\ UNCHANGED <<memberVars, stageVars>> /\ clerks[c] = None /\ ProposalFree(k.p)
      /\ k.op = "propose_stage"
      /\ Pending(stageProposals, StageProposals) = {}
  BY <1>5 DEF ProposeStage
<1> QED
  BY <1>6, <1>7, <1>8, ReadsKeep

LEMMA DecidesOnStage ==
    ASSUME TenantInv, NEW c \in Clerks, NEW a \in Users, NEW p \in StageProposals,
           NEW d \in {"approved", "rejected"}, DecideStage(c, a, p, d)
    PROVE  TenantInv'
<1>1. PICK k : k = [op |-> "decide_stage", p |-> p, decision |-> d,
                    insert |-> lifecycle = None, plan |-> plan, version |-> Current.version]
  OBVIOUS
<1>2. clerks' = [clerks EXCEPT ![c] = k] /\ clerks'[c] = k
  BY <1>1 DEF DecideStage, TenantInv, Tables
<1>3. Proposing(c)' /\ DecidesMember(c)'
  BY <1>1, <1>2 DEF Proposing, DecidesMember
<1>4. Current' = Current /\ stageProposals' = stageProposals
  BY DEF DecideStage, Current, stageVars
<1>5. DecidesStage(c)'
  BY <1>1, <1>2, <1>4 DEF DecidesStage, DecideStage, Pending, StillCurrent
<1>6. /\ UNCHANGED <<memberVars, stageVars>> /\ clerks[c] = None /\ ProposalFree(k.p)
      /\ k.op = "decide_stage"
      /\ k.version = Current.version
  BY <1>1 DEF DecideStage
<1> QED
  BY <1>2, <1>3, <1>5, <1>6, ReadsKeep

-----------------------------------------------------------------------------
(* Members and stages: commits *)

\* A request that ends leaves the others with what they have.
LEMMA OthersGoOn ==
    ASSUME TenantInv, NEW c \in Clerks, Goes(c, None)
    PROVE  /\ clerks' = [d \in Clerks |-> clerks'[d]]
           /\ clerks'[c] = None
           /\ \A d \in Clerks : clerks'[d] # None => d # c /\ clerks'[d] = clerks[d]
           /\ ProposalsAlone'
BY DEF TenantInv, Tables, ProposalsAlone

LEMMA MemberProposed ==
    ASSUME TenantInv, NEW c \in Clerks, ProposeMemberCommits(c)
    PROVE  TenantInv'
<1>1. /\ clerks' = [d \in Clerks |-> clerks'[d]]
      /\ \A d \in Clerks : clerks'[d] # None => d # c /\ clerks'[d] = clerks[d]
      /\ ProposalsAlone'
  BY OthersGoOn DEF ProposeMemberCommits
<1>2. clerks[c].p \in MemberProposals /\ clerks[c].row \in MemberProposal
  BY DEF ProposeMemberCommits, TenantInv, Proposing
<1>3. UNCHANGED <<memberships, lifecycle, stageProposals>> /\ Current' = Current
  BY DEF ProposeMemberCommits, stageVars, Current
<1>4. Tables'
  BY <1>1, <1>2, <1>3 DEF ProposeMemberCommits, TenantInv, Tables
<1>5. \A row : Follows(row) <=> Follows(row)'
  BY <1>3 DEF Follows
<1>6. ASSUME NEW d \in Clerks, clerks'[d] # None, clerks[d].p \in MemberProposals
      PROVE  proposals'[clerks[d].p] = proposals[clerks[d].p]
  BY <1>1, <1>6 DEF ProposeMemberCommits, TenantInv, ProposalsAlone, Tables
<1>7. ASSUME NEW d \in Clerks PROVE (Proposing(d) /\ DecidesMember(d) /\ DecidesStage(d))'
  <2>1. (Proposing(d) /\ DecidesStage(d))'
    BY <1>1, <1>3, <1>5 DEF TenantInv, Proposing, DecidesStage, Pending
  <2>2. DecidesMember(d)'
    BY <1>1, <1>3, <1>6 DEF TenantInv, DecidesMember, Pending
  <2> QED
    BY <2>1, <2>2
<1>8. NothingLater'
  BY <1>1, <1>3 DEF TenantInv, NothingLater, Pending
<1>9. MembersAlone'
  BY <1>1, <1>6 DEF TenantInv, MembersAlone, DecidesMember, Pending
<1> QED
  BY <1>1, <1>3, <1>4, <1>5, <1>7, <1>8, <1>9 DEF TenantInv

\* What a decision on a member writes.
LEMMA WritesMember ==
    ASSUME TenantInv, NEW c \in Clerks, DecideMemberCommits(c)
    PROVE  \/ UNCHANGED memberVars
           \/ /\ UNCHANGED memberships
              /\ proposals' = [proposals EXCEPT ![clerks[c].p].status = "rejected"]
           \/ LET row == proposals[clerks[c].p] IN
              /\ row.expected = memberships[row.target]
              /\ memberships' = [memberships EXCEPT ![row.target] = row.requested]
              /\ proposals' = [proposals EXCEPT ![clerks[c].p].status = "approved"]
<1>1. DecidesMember(c) /\ At(c, "decide")
  BY DEF TenantInv, DecideMemberCommits
<1>2. CASE clerks[c].decision = "rejected"
  BY <1>2, <1>1 DEF DecideMemberCommits
<1>3. CASE clerks[c].decision = "approved" /\ clerks[c].insert
  BY <1>3, <1>1 DEF DecideMemberCommits, DecidesMember
<1>4. CASE clerks[c].decision = "approved" /\ ~ clerks[c].insert
  BY <1>4, <1>1 DEF DecideMemberCommits, DecidesMember
<1> QED
  BY <1>1, <1>2, <1>3, <1>4 DEF DecidesMember

LEMMA MemberDecided ==
    ASSUME ProposalsAssumption, TenantInv, NEW c \in Clerks, DecideMemberCommits(c)
    PROVE  TenantInv'
<1>1. /\ clerks' = [d \in Clerks |-> clerks'[d]]
      /\ \A d \in Clerks : clerks'[d] # None => d # c /\ clerks'[d] = clerks[d]
      /\ ProposalsAlone'
  BY OthersGoOn DEF DecideMemberCommits
<1>2. UNCHANGED <<lifecycle, stageProposals>> /\ Current' = Current
  BY DEF DecideMemberCommits, stageVars, Current
<1>3. PICK p \in MemberProposals : p = clerks[c].p
  BY DEF TenantInv, DecidesMember, DecideMemberCommits, Pending
<1>4. At(c, "decide") /\ proposals[p] # None /\ proposals[p] \in MemberProposal
  BY <1>3 DEF TenantInv, Tables, DecidesMember, DecideMemberCommits, Pending
<1>5. /\ Tables'
      /\ proposals'[p].target = proposals[p].target
      /\ \A q \in MemberProposals : q # p => proposals'[q] = proposals[q]
      /\ \A u \in Users : u # proposals[p].target => memberships'[u] = memberships[u]
  <2>1. proposals[p].target \in Users /\ proposals[p].requested \in Membership
    BY <1>4 DEF MemberProposal, ProposalsAssumption, RowsAssumption
  <2>2. \A st \in {"rejected", "approved"} :
            /\ [proposals[p] EXCEPT !.status = st] \in MemberProposal
            /\ [proposals[p] EXCEPT !.status = st].target = proposals[p].target
    BY <1>4 DEF MemberProposal
  <2>3. CASE UNCHANGED memberVars
    BY <2>3, <1>1, <1>2 DEF TenantInv, Tables, memberVars
  <2>4. CASE /\ UNCHANGED memberships
             /\ proposals' = [proposals EXCEPT ![p].status = "rejected"]
    BY <2>2, <2>4, <1>1, <1>2 DEF TenantInv, Tables
  <2>5. CASE /\ memberships' = [memberships EXCEPT ![proposals[p].target] = proposals[p].requested]
             /\ proposals' = [proposals EXCEPT ![p].status = "approved"]
    BY <2>1, <2>2, <2>5, <1>1, <1>2 DEF TenantInv, Tables
  <2> QED
    BY <2>3, <2>4, <2>5, <1>3, WritesMember
<1>6. \A row : Follows(row) <=> Follows(row)'
  BY <1>2 DEF Follows
<1>7. ASSUME NEW d \in Clerks, At(d, "decide")'
      PROVE  /\ d # c /\ At(d, "decide") /\ clerks'[d] = clerks[d]
             /\ clerks[d].p \in MemberProposals /\ clerks[d].p # p
             /\ proposals'[clerks[d].p] = proposals[clerks[d].p]
  <2>1. d # c /\ At(d, "decide") /\ clerks'[d] = clerks[d]
    BY <1>1, <1>7
  <2>2. clerks[d].p \in MemberProposals /\ clerks[d].p # p
    BY <2>1, <1>3, <1>4 DEF TenantInv, ProposalsAlone, DecidesMember, Pending
  <2> QED
    BY <2>1, <2>2, <1>5
<1>8. ASSUME NEW d \in Clerks PROVE (Proposing(d) /\ DecidesMember(d) /\ DecidesStage(d))'
  <2>1. (Proposing(d) /\ DecidesStage(d))'
    BY <1>1, <1>2, <1>6 DEF TenantInv, Proposing, DecidesStage, Pending
  <2>2. ASSUME At(d, "decide")' PROVE DecidesMember(d)'
    <3>1. DecidesMember(d)
      BY DEF TenantInv
    <3>2. clerks[d].insert \/ proposals[clerks[d].p].target # proposals[p].target
      BY <2>2, <1>3, <1>4, <1>7 DEF TenantInv, MembersAlone
    <3>3. proposals[clerks[d].p].target \in Users
      BY <3>1, <2>2, <1>7 DEF DecidesMember, Pending, TenantInv, Tables, MemberProposal
    <3>4. CASE clerks[d].insert
      BY <3>1, <3>4, <2>2, <1>7 DEF DecidesMember, Pending
    <3>5. CASE ~ clerks[d].insert
      <4>1. memberships'[proposals[clerks[d].p].target] = memberships[proposals[clerks[d].p].target]
        BY <3>2, <3>3, <3>5, <1>5
      <4> QED
        BY <4>1, <3>1, <3>5, <2>2, <1>7 DEF DecidesMember, Pending
    <3> QED
      BY <3>4, <3>5
  <2> QED
    BY <2>1, <2>2 DEF DecidesMember
<1>9. NothingLater'
  BY <1>1, <1>2 DEF TenantInv, NothingLater, Pending
<1>10. MembersAlone'
  BY <1>7 DEF TenantInv, MembersAlone
<1> QED
  BY <1>1, <1>2, <1>5, <1>6, <1>8, <1>9, <1>10 DEF TenantInv

LEMMA StageProposed ==
    ASSUME TenantInv, NEW c \in Clerks, ProposeStageCommits(c)
    PROVE  TenantInv'
<1>1. /\ clerks' = [d \in Clerks |-> clerks'[d]]
      /\ \A d \in Clerks : clerks'[d] # None => d # c /\ clerks'[d] = clerks[d]
      /\ ProposalsAlone'
  BY OthersGoOn DEF ProposeStageCommits
<1>2. At(c, "propose_stage") /\ clerks[c].p \in StageProposals /\ Follows(clerks[c].row)
  BY DEF ProposeStageCommits, TenantInv, Proposing
<1>3. UNCHANGED <<memberships, proposals, lifecycle>> /\ Current' = Current
  BY DEF ProposeStageCommits, memberVars, Current
<1>4. Tables'
  BY <1>1, <1>2, <1>3 DEF ProposeStageCommits, TenantInv, Tables, Follows
<1>5. \A row : Follows(row) <=> Follows(row)'
  BY <1>3 DEF Follows
<1>6. /\ stageProposals'[clerks[c].p] = clerks[c].row
      /\ \A p \in StageProposals : p # clerks[c].p => stageProposals'[p] = stageProposals[p]
  BY <1>2 DEF ProposeStageCommits, TenantInv, Tables
<1>7. \A p \in StageProposals : (stageProposals[p] # None => Follows(stageProposals[p]))'
  BY <1>2, <1>5, <1>6 DEF TenantInv
<1>8. ASSUME NEW d \in Clerks, clerks'[d] # None, clerks[d].p \in StageProposals
      PROVE  stageProposals'[clerks[d].p] = stageProposals[clerks[d].p]
  BY <1>1, <1>2, <1>6, <1>8 DEF TenantInv, ProposalsAlone
<1>9. ASSUME NEW d \in Clerks PROVE (Proposing(d) /\ DecidesMember(d) /\ DecidesStage(d))'
  <2>1. (Proposing(d) /\ DecidesMember(d))'
    BY <1>1, <1>3, <1>5 DEF TenantInv, Proposing, DecidesMember, Pending
  <2>2. DecidesStage(d)'
    BY <1>1, <1>3, <1>8 DEF TenantInv, DecidesStage, Pending
  <2> QED
    BY <2>1, <2>2
<1>10. NothingLater'
  BY <1>1, <1>2, <1>6 DEF TenantInv, NothingLater, Pending
<1>11. MembersAlone'
  BY <1>1, <1>3 DEF TenantInv, MembersAlone
<1> QED
  BY <1>3, <1>4, <1>1, <1>7, <1>9, <1>10, <1>11 DEF TenantInv

\* What a decision on the stage writes: the version after the one it read.
LEMMA WritesStage ==
    ASSUME ProposalsAssumption, TenantInv, NEW c \in Clerks, DecideStageCommits(c)
    PROVE  /\ \/ stageProposals' = stageProposals
              \/ stageProposals' =
                    [stageProposals EXCEPT ![clerks[c].p].status = clerks[c].decision]
           /\ \/ lifecycle' = lifecycle
              \/ /\ lifecycle' = [stage |-> stageProposals[clerks[c].p].target,
                                  version |-> clerks[c].version + 1]
                 /\ lifecycle' \in Lifecycle
                 /\ lifecycle' # None
<1>1. /\ At(c, "decide_stage") /\ clerks[c].p \in StageProposals
      /\ stageProposals[clerks[c].p] # None
      /\ clerks[c].decision \in {"approved", "rejected"}
      /\ clerks[c].version = stageProposals[clerks[c].p].current.version
  BY DEF DecideStageCommits, TenantInv, DecidesStage, Pending
<1>2. Follows(stageProposals[clerks[c].p])
  BY <1>1 DEF TenantInv
<1>3. PICK k \in Nat, st \in {"trial", "active", "grace", "suspended", "closed"} :
        k = clerks[c].version /\ st = stageProposals[clerks[c].p].target
  BY <1>1, <1>2 DEF Follows, StageProposal, Lifecycle, ProposalsAssumption, GovernanceAssumption
<1>4. [stage |-> st, version |-> k + 1] \in Lifecycle
  BY <1>3 DEF Lifecycle
<1>5. [stage |-> st, version |-> k + 1] # None
  BY <1>4 DEF ProposalsAssumption, RowsAssumption
<1> QED
  BY <1>1, <1>3, <1>4, <1>5 DEF DecideStageCommits, stageVars

LEMMA StageDecided ==
    ASSUME ProposalsAssumption, TenantInv, NEW c \in Clerks, DecideStageCommits(c)
    PROVE  TenantInv'
<1>1. /\ clerks' = [d \in Clerks |-> clerks'[d]]
      /\ \A d \in Clerks : clerks'[d] # None => d # c /\ clerks'[d] = clerks[d]
      /\ ProposalsAlone'
  BY OthersGoOn DEF DecideStageCommits
<1>2. UNCHANGED <<memberships, proposals>>
  BY DEF DecideStageCommits, memberVars
<1>3. PICK p \in StageProposals : p = clerks[c].p
  BY DEF TenantInv, DecidesStage, DecideStageCommits, Pending
<1>4. /\ At(c, "decide_stage") /\ p \in Pending(stageProposals, StageProposals)
      /\ stageProposals[p] \in StageProposal
      /\ clerks[c].version = stageProposals[p].current.version
      /\ clerks[c].decision \in {"approved", "rejected"}
  BY <1>3 DEF DecideStageCommits, TenantInv, DecidesStage, Pending, Tables
<1>5. PICK n \in Nat : n = clerks[c].version
  BY <1>4 DEF StageProposal, Lifecycle
<1>6. Current.version \in {n, n + 1} /\ Current \in Lifecycle
  <2>1. Current \in Lifecycle
    BY DEF TenantInv, Tables, Current, Lifecycle
  <2> QED
    BY <2>1, <1>4, <1>5 DEF TenantInv, DecidesStage
<1>7. Current' = Current \/ Current'.version = n + 1
  <2>1. CASE lifecycle' = lifecycle
    BY <2>1 DEF Current
  <2>2. CASE lifecycle' # lifecycle
    <3>1. lifecycle' # None /\ lifecycle'.version = n + 1
      <4>1. /\ lifecycle' # None
            /\ lifecycle' = [stage |-> stageProposals[clerks[c].p].target,
                             version |-> clerks[c].version + 1]
        BY <2>2, WritesStage
      <4> QED
        BY <4>1, <1>5
    <3>2. Current' = lifecycle'
      BY <3>1 DEF Current
    <3> QED
      BY <3>1, <3>2
  <2> QED
    BY <2>1, <2>2
<1>8. \A q \in StageProposals :
        /\ stageProposals'[q] # None =>
             /\ stageProposals[q] # None
             /\ stageProposals'[q] \in StageProposal
             /\ stageProposals'[q].current = stageProposals[q].current
             /\ stageProposals'[q].target = stageProposals[q].target
        /\ q # p => stageProposals'[q] = stageProposals[q]
  <2>1. PICK row : row = [stageProposals[p] EXCEPT !.status = clerks[c].decision]
    OBVIOUS
  <2>2. /\ row \in StageProposal /\ row.current = stageProposals[p].current
        /\ row.target = stageProposals[p].target
    BY <2>1, <1>4 DEF StageProposal
  <2>3. \/ stageProposals' = stageProposals
        \/ stageProposals' = [stageProposals EXCEPT ![p] = row]
    BY <2>1, <1>3, WritesStage
  <2>4. stageProposals[p] # None
    BY <1>4 DEF Pending
  <2> QED
    BY <2>2, <2>3, <2>4 DEF TenantInv, Tables
<1>9. Tables'
  <2>1. lifecycle' \in Lifecycle \cup {None}
    BY WritesStage DEF TenantInv, Tables
  <2>2. stageProposals' \in [StageProposals -> StageProposal \cup {None}]
    <3>1. DOMAIN stageProposals' = StageProposals
          /\ stageProposals' = [q \in StageProposals |-> stageProposals'[q]]
      BY WritesStage DEF TenantInv, Tables
    <3> QED
      BY <3>1, <1>8
  <2> QED
    BY <2>1, <2>2, <1>1, <1>2 DEF TenantInv, Tables
<1>10. \A row : Follows(row) => Follows(row)'
  <2> SUFFICES ASSUME NEW row, Follows(row) PROVE Follows(row)'
    OBVIOUS
  <2>1. Current'.version >= Current.version /\ Current'.version \in Nat
    BY <1>6, <1>7 DEF Lifecycle
  <2>2. row.current.version \in Nat
    BY DEF Follows, StageProposal, Lifecycle
  <2>3. Current.version \in Nat
    BY <1>6
  <2> QED
    BY <2>1, <2>2, <2>3 DEF Follows
<1>11. \A q \in StageProposals : (stageProposals[q] # None => Follows(stageProposals[q]))'
  <2> SUFFICES ASSUME NEW q \in StageProposals, stageProposals'[q] # None
               PROVE  Follows(stageProposals[q])'
    OBVIOUS
  <2>1. Follows(stageProposals[q])
    BY <1>8 DEF TenantInv
  <2>2. Follows(stageProposals[q]) => /\ stageProposals[q].target \in TRANSITIONS(stageProposals[q].current.stage)
                                      /\ stageProposals[q].current.version <= Current'.version
    BY <1>10 DEF Follows
  <2> QED
    BY <2>1, <2>2, <1>8 DEF Follows
<1>12. \A d \in Clerks : At(d, "decide_stage")' =>
          /\ d # c /\ At(d, "decide_stage") /\ clerks'[d] = clerks[d]
          /\ clerks[d].p \in Pending(stageProposals, StageProposals)
          /\ clerks[d].p # p
          /\ stageProposals'[clerks[d].p] = stageProposals[clerks[d].p]
  <2> SUFFICES ASSUME NEW d \in Clerks, At(d, "decide_stage")'
               PROVE  /\ d # c /\ At(d, "decide_stage") /\ clerks'[d] = clerks[d]
                      /\ clerks[d].p \in Pending(stageProposals, StageProposals)
                      /\ clerks[d].p # p
                      /\ stageProposals'[clerks[d].p] = stageProposals[clerks[d].p]
    OBVIOUS
  <2>1. d # c /\ At(d, "decide_stage") /\ clerks'[d] = clerks[d]
    BY <1>1
  <2>2. clerks[d].p \in Pending(stageProposals, StageProposals)
    BY <2>1 DEF TenantInv, DecidesStage
  <2>3. clerks[d].p # p
    BY <2>1, <1>3, <1>4 DEF TenantInv, ProposalsAlone
  <2> QED
    BY <2>1, <2>2, <2>3, <1>8 DEF Pending
<1>13. ASSUME NEW d \in Clerks PROVE (Proposing(d) /\ DecidesMember(d) /\ DecidesStage(d))'
  <2>1. Proposing(d)'
    BY <1>1, <1>10 DEF TenantInv, Proposing
  <2>2. DecidesMember(d)'
    BY <1>1, <1>2 DEF TenantInv, DecidesMember, Pending
  <2>3. ASSUME At(d, "decide_stage")' PROVE DecidesStage(d)'
    <3>1. DecidesStage(d)
      BY DEF TenantInv
    <3>2. /\ clerks[d].version <= n /\ n <= clerks[d].version
          /\ clerks[d].version \in Nat
      <4>1. Follows(stageProposals[clerks[d].p])
        BY <2>3, <1>12 DEF TenantInv, Pending
      <4>2. clerks[d].version = stageProposals[clerks[d].p].current.version
        BY <2>3, <3>1, <1>12 DEF DecidesStage
      <4>3. clerks[d].version \in Nat
        BY <4>1, <4>2 DEF Follows, StageProposal, Lifecycle
      <4>4. clerks[d].version <= n
        BY <4>2, <2>3, <1>4, <1>5, <1>12 DEF TenantInv, NothingLater
      <4>5. n <= clerks[d].version
        BY <2>3, <1>4, <1>5, <1>12 DEF TenantInv, NothingLater
      <4> QED
        BY <4>3, <4>4, <4>5
    <3>3. clerks[d].version = n
      BY <3>2, <1>5
    <3>4. clerks[d].p \in Pending(stageProposals, StageProposals)'
      BY <2>3, <1>12 DEF Pending
    <3> QED
      BY <2>3, <3>1, <3>3, <3>4, <1>7, <1>12 DEF DecidesStage
  <2> QED
    BY <2>1, <2>2, <2>3 DEF DecidesStage
<1>14. NothingLater'
  <2> SUFFICES ASSUME NEW d \in Clerks, At(d, "decide_stage")'
               PROVE  /\ \A q \in Pending(stageProposals, StageProposals)' :
                             stageProposals'[q].current.version <= clerks'[d].version
                      /\ \A e \in Clerks : At(e, "propose_stage")' =>
                             clerks'[e].row.current.version <= clerks'[d].version
    BY DEF NothingLater
  <2>1. At(d, "decide_stage") /\ clerks'[d] = clerks[d]
    BY <1>12
  <2>2. ASSUME NEW q \in Pending(stageProposals, StageProposals)'
        PROVE  stageProposals'[q].current.version <= clerks[d].version
    <3>1. q \in StageProposals /\ stageProposals'[q] # None
      BY <2>2 DEF Pending
    <3>2. CASE q = p
      BY <2>1, <3>1, <3>2, <1>4, <1>8 DEF TenantInv, NothingLater
    <3>3. CASE q # p
      BY <2>1, <2>2, <3>1, <3>3, <1>8 DEF TenantInv, NothingLater, Pending
    <3> QED
      BY <3>2, <3>3
  <2>3. ASSUME NEW e \in Clerks, At(e, "propose_stage")'
        PROVE  clerks'[e].row.current.version <= clerks[d].version
    BY <2>1, <2>3, <1>1 DEF TenantInv, NothingLater
  <2> QED
    BY <2>1, <2>2, <2>3
<1>15. MembersAlone'
  BY <1>1, <1>2 DEF TenantInv, MembersAlone
<1> QED
  BY <1>1, <1>9, <1>11, <1>13, <1>14, <1>15 DEF TenantInv

LEMMA TenantNext ==
    ASSUME ProposalsAssumption, TenantInv, [Next]_vars
    PROVE  TenantInv'
<1>1. CASE UNCHANGED vars
  BY <1>1 DEF vars, TenantInv, Tables, Follows, Current, Proposing, DecidesMember, DecidesStage,
      NothingLater, ProposalsAlone, MembersAlone, Pending
<1>2. ASSUME NEW a \in Users, UpdateSubscription(a) \/ Provision PROVE TenantInv'
  BY <1>2 DEF UpdateSubscription, Provision, memberVars, TenantInv, Tables, Follows, Current,
      Proposing, DecidesMember, DecidesStage, NothingLater, ProposalsAlone, MembersAlone, Pending
<1>3. CASE Provision
  BY <1>3 DEF Provision, memberVars, TenantInv, Tables, Follows, Current, Proposing, DecidesMember,
      DecidesStage, NothingLater, ProposalsAlone, MembersAlone, Pending
<1> QED
  BY <1>1, <1>2, <1>3, ProposesMember, DecidesOnMember, ProposesStage, DecidesOnStage,
      MemberProposed, MemberDecided, StageProposed, StageDecided DEF Next

-----------------------------------------------------------------------------
(* Members and stages: what the steps may do *)

\* The step of ChangesAreReviewed.
ReviewedChange ==
    \A u \in Users : memberships'[u] # memberships[u] =>
        \E p \in Pending(proposals, MemberProposals) :
            /\ proposals'[p].status = "approved"
            /\ proposals[p].target = u
            /\ proposals[p].expected = memberships[u]
            /\ proposals[p].requested = memberships'[u]

LEMMA ChangeIsReviewed ==
    ASSUME TenantInv, NEW c \in Clerks, DecideMemberCommits(c)
    PROVE  ReviewedChange
<1> SUFFICES ASSUME NEW u \in Users, memberships'[u] # memberships[u]
             PROVE  \E p \in Pending(proposals, MemberProposals) :
                        /\ proposals'[p].status = "approved"
                        /\ proposals[p].target = u
                        /\ proposals[p].expected = memberships[u]
                        /\ proposals[p].requested = memberships'[u]
  BY DEF ReviewedChange
<1>1. clerks[c].p \in Pending(proposals, MemberProposals)
  BY DEF DecideMemberCommits, TenantInv, DecidesMember
<1>2. PICK p \in Pending(proposals, MemberProposals) : p = clerks[c].p
  BY <1>1
<1>3. p \in MemberProposals /\ proposals[p] \in MemberProposal
  BY DEF Pending, TenantInv, Tables
<1>4. /\ proposals[p].expected = memberships[proposals[p].target]
      /\ memberships' = [memberships EXCEPT ![proposals[p].target] = proposals[p].requested]
      /\ proposals' = [proposals EXCEPT ![p].status = "approved"]
  BY <1>2, WritesMember DEF memberVars
<1>5. proposals[p].target = u /\ memberships'[u] = proposals[p].requested
  BY <1>3, <1>4 DEF TenantInv, Tables, MemberProposal
<1>6. proposals'[p].status = "approved"
  BY <1>3, <1>4 DEF TenantInv, Tables, MemberProposal
<1> QED
  BY <1>4, <1>5, <1>6

\* The step of ClosedStaysClosed.
StaysClosed ==
    lifecycle # None /\ lifecycle.stage = "closed" =>
        \/ lifecycle' = lifecycle
        \/ \E c \in Clerks : At(c, "decide_stage") /\ clerks[c].version < lifecycle.version

LEMMA ClosedIsKept ==
    ASSUME ProposalsAssumption, TenantInv, NEW c \in Clerks, DecideStageCommits(c)
    PROVE  StaysClosed
<1> SUFFICES ASSUME lifecycle # None, lifecycle.stage = "closed"
             PROVE  clerks[c].version < lifecycle.version
  BY DEF StaysClosed, DecideStageCommits
<1>1. Current = lifecycle /\ lifecycle \in Lifecycle
  BY DEF Current, TenantInv, Tables
<1>2. PICK p \in StageProposals :
        /\ p = clerks[c].p /\ stageProposals[p] # None
        /\ clerks[c].version = stageProposals[p].current.version
        /\ Current = stageProposals[p].current \/ Current.version = clerks[c].version + 1
  BY DEF DecideStageCommits, TenantInv, DecidesStage, Pending
<1>3. Follows(stageProposals[p])
  BY <1>2 DEF TenantInv
<1>4. stageProposals[p].current.stage # "closed"
  BY <1>3 DEF Follows, TRANSITIONS
<1>5. clerks[c].version \in Nat
  BY <1>2, <1>3 DEF Follows, StageProposal, Lifecycle
<1> QED
  BY <1>1, <1>2, <1>4, <1>5 DEF Lifecycle

LEMMA TenantSteps ==
    ASSUME ProposalsAssumption, TenantInv, [Next]_vars
    PROVE  [ReviewedChange]_vars /\ [StaysClosed]_vars
<1>1. ASSUME NEW c \in Clerks, DecideMemberCommits(c) PROVE ReviewedChange /\ StaysClosed
  BY <1>1, ChangeIsReviewed DEF DecideMemberCommits, stageVars, StaysClosed
<1>2. ASSUME NEW c \in Clerks, DecideStageCommits(c) PROVE ReviewedChange /\ StaysClosed
  BY <1>2, ClosedIsKept DEF DecideStageCommits, memberVars, ReviewedChange
<1>3. ASSUME NEW c \in Clerks, ProposeMemberCommits(c) \/ ProposeStageCommits(c)
      PROVE  ReviewedChange /\ StaysClosed
  BY <1>3 DEF ProposeMemberCommits, ProposeStageCommits, memberVars, stageVars, ReviewedChange,
      StaysClosed
<1>4. ASSUME NEW a \in Users, UpdateSubscription(a) \/ Provision
      PROVE  ReviewedChange /\ StaysClosed
  BY <1>4 DEF UpdateSubscription, Provision, memberVars, ReviewedChange, StaysClosed
<1>5. CASE Provision
  BY <1>5 DEF Provision, memberVars, ReviewedChange, StaysClosed
<1>6. ASSUME NEW c \in Clerks, NEW a \in Users, NEW p \in MemberProposals,
             \/ \E u \in Users, requested \in Requests : ProposeMember(c, a, u, requested, p)
             \/ \E d \in {"approved", "rejected"} : DecideMember(c, a, p, d)
      PROVE  ReviewedChange /\ StaysClosed
  BY <1>6 DEF ProposeMember, DecideMember, memberVars, stageVars, ReviewedChange, StaysClosed
<1>7. ASSUME NEW c \in Clerks, NEW a \in Users, NEW p \in StageProposals,
             \/ \E stage \in Stages : ProposeStage(c, a, stage, p)
             \/ \E d \in {"approved", "rejected"} : DecideStage(c, a, p, d)
      PROVE  ReviewedChange /\ StaysClosed
  BY <1>7 DEF ProposeStage, DecideStage, memberVars, stageVars, ReviewedChange, StaysClosed
<1> QED
  BY <1>1, <1>2, <1>3, <1>4, <1>5, <1>6, <1>7 DEF Next

LEMMA TenantPart ==
    /\ ProposalsInit => Init
    /\ [ProposalsNext]_<<vars, importVars, part>> => [Next]_vars
BY DEF ProposalsInit, ProposalsNext, importVars

LEMMA TenantInvariance == ProposalsSpec => []TenantInv
<1>1. ProposalsInit => TenantInv
  BY TenantPart, TenantBegins
<1>2. TenantInv /\ [ProposalsNext]_<<vars, importVars, part>> => TenantInv'
  BY TenantPart, TenantNext, ProposalsAssumption
<1> QED
  BY <1>1, <1>2, PTL DEF ProposalsSpec

\* Members change exactly as an approved proposal says, from exactly what its proposer saw,
\* and a closed tenant stays closed but for a decision read before it was closed.
THEOREM TenantsChangeAsReviewed == ProposalsSpec => TenantsAreReviewed
<1>1. TenantInv /\ [ProposalsNext]_<<vars, importVars, part>>
        => [ReviewedChange]_vars /\ [StaysClosed]_vars
  BY TenantPart, TenantSteps, ProposalsAssumption
<1> QED
  BY <1>1, TenantInvariance, PTL DEF ProposalsSpec, TenantsAreReviewed, ChangesAreReviewed,
      ClosedStaysClosed, ReviewedChange, StaysClosed

-----------------------------------------------------------------------------
(* Imports: the inductive invariant *)

Doing(q, op) == imports[q] # None /\ imports[q].op = op

ImportTables ==
    /\ batches \in [Keys -> Imports!Batch \cup {None}]
    /\ packages = [p \in Imports!PackageIds |-> packages[p]]
    /\ rules = [r \in Imports!RuleIds |-> rules[r]]
    /\ cases = [c \in Imports!CaseIds |-> cases[c]]
    /\ imports = [q \in Clerks |-> imports[q]]

\* Rows that may be committed do not contradict each other.
Coherent(batch) ==
    batch.status # "blocked" =>
        \A r \in batch.rows, s \in batch.rows : r # s => ~ Imports!Contradict(r, s)

\* What a preview is about to insert.
Previewing(q) ==
    Doing(q, "preview") =>
        /\ imports[q].key \in Keys
        /\ imports[q].batch \in Imports!Batch /\ Coherent(imports[q].batch)
        /\ imports[q].batch.status # "committed"

\* What a commit has checked is so until it writes.
Committing(q) ==
    Doing(q, "commit") =>
        /\ imports[q].key \in Keys /\ batches[imports[q].key] # None
        /\ batches[imports[q].key].status = "ready"
        /\ imports[q].by \in Importers \ {batches[imports[q].key].created_by}
        /\ \A r \in batches[imports[q].key].rows :
               cases[r.case] = None /\ Imports!TitleAgrees(r) /\ Imports!RuleAgrees(r)

\* Commits take turns.
CommitsAlone ==
    \A q \in Clerks, r \in Clerks : Doing(q, "commit") /\ Doing(r, "commit") => q = r

\* A case is of a committed batch, as a row of it says.
CasesAreRows ==
    \A c \in Imports!CaseIds : cases[c] # None =>
        /\ cases[c].batch \in Keys /\ batches[cases[c].batch] # None
        /\ batches[cases[c].batch].status = "committed"
        /\ \E r \in batches[cases[c].batch].rows :
              /\ r.case = c
              /\ cases[c].package = r.package /\ packages[r.package] = r.title
              /\ cases[c].rule = r.rule /\ rules[r.rule] = Imports!Rule(r)

\* A committed batch is there as a whole.
BatchesAreCases ==
    \A k \in Keys : batches[k] # None /\ batches[k].status = "committed" =>
        /\ batches[k].committed_by \in Importers \ {batches[k].created_by}
        /\ \A r \in batches[k].rows : cases[r.case] # None /\ cases[r.case].batch = k

ImportsInv ==
    /\ ImportTables
    /\ \A k \in Keys : batches[k] # None => Coherent(batches[k])
    /\ \A q \in Clerks : Previewing(q) /\ Committing(q)
    /\ CommitsAlone /\ CasesAreRows /\ BatchesAreCases

-----------------------------------------------------------------------------
(* Imports: every step keeps it *)

USE DEF Doing, Imports!Goes

LEMMA ImportsBegin == Imports!Init => ImportsInv
<1> SUFFICES ASSUME Imports!Init PROVE ImportsInv
  OBVIOUS
<1>1. /\ \A k \in Keys : batches[k] = None
      /\ \A q \in Clerks : imports[q] = None
      /\ \A c \in Imports!CaseIds : cases[c] = None
      /\ ImportTables
  BY DEF Imports!Init, ImportTables
<1> QED
  BY <1>1 DEF ImportsInv, Previewing, Committing, CommitsAlone, CasesAreRows, BatchesAreCases

\* Nothing but what one request has read changes.
LEMMA ImportReads ==
    ASSUME ImportsInv, NEW q \in Clerks, NEW k, imports' = [imports EXCEPT ![q] = k],
           UNCHANGED <<batches, packages, rules, cases>>,
           (Previewing(q) /\ Committing(q))',
           Doing(q, "commit")' => \A r \in Clerks : r # q => ~ Doing(r, "commit")
    PROVE  ImportsInv'
<1>1. imports'[q] = k /\ \A r \in Clerks : r # q => imports'[r] = imports[r]
  BY DEF ImportsInv, ImportTables
<1>2. ImportTables'
  BY DEF ImportsInv, ImportTables
<1>3. ASSUME NEW r \in Clerks PROVE (Previewing(r) /\ Committing(r))'
  BY <1>1 DEF ImportsInv, Previewing, Committing, Imports!TitleAgrees, Imports!RuleAgrees
<1>4. CommitsAlone'
  BY <1>1 DEF ImportsInv, CommitsAlone
<1>5. CasesAreRows' /\ BatchesAreCases'
  BY DEF ImportsInv, CasesAreRows, BatchesAreCases
<1> QED
  BY <1>2, <1>3, <1>4, <1>5 DEF ImportsInv

LEMMA ReadsPreview ==
    ASSUME ImportsInv, NEW q \in Clerks, NEW u \in Importers, NEW k \in Keys,
           NEW file \in Files, Imports!PreviewReads(q, u, k, file)
    PROVE  ImportsInv'
<1>1. PICK good, status :
        /\ good \subseteq file /\ status \in {"blocked", "ready"}
        /\ status = "ready" => Imports!Faulty(file) = {}
        /\ imports' = [imports EXCEPT ![q] =
              [op |-> "preview", key |-> k,
               batch |-> [rows |-> good, file |-> file, created_by |-> u,
                          committed_by |-> None, status |-> status]]]
  <2> DEFINE new == {r \in file : cases[r.case] = None}
             good == {r \in new : Imports!TitleAgrees(r) /\ Imports!RuleAgrees(r)}
             status == IF Imports!Faulty(file) # {} \/ new # good \/ good = {}
                       THEN "blocked" ELSE "ready"
  <2>1. /\ good \subseteq file /\ status \in {"blocked", "ready"}
        /\ status = "ready" => Imports!Faulty(file) = {}
    OBVIOUS
  <2>2. imports' = [imports EXCEPT ![q] =
              [op |-> "preview", key |-> k,
               batch |-> [rows |-> good, file |-> file, created_by |-> u,
                          committed_by |-> None, status |-> status]]]
    BY DEF Imports!PreviewReads
  <2> HIDE DEF good, status
  <2> QED
    BY <2>1, <2>2
<1>2. PICK batch : batch = [rows |-> good, file |-> file, created_by |-> u,
                            committed_by |-> None, status |-> status]
  OBVIOUS
<1>3. PICK rec : rec = [op |-> "preview", key |-> k, batch |-> batch]
  OBVIOUS
<1>4. imports' = [imports EXCEPT ![q] = rec] /\ imports'[q] = rec
  BY <1>1, <1>2, <1>3 DEF ImportsInv, ImportTables
<1>5. batch \in Imports!Batch
  BY <1>1, <1>2 DEF Imports!Batch, Imports!Rows
<1>6. Coherent(batch)
  BY <1>1, <1>2 DEF Coherent, Imports!Faulty
<1>7. (Previewing(q) /\ Committing(q))' /\ ~ Doing(q, "commit")'
  BY <1>1, <1>2, <1>3, <1>4, <1>5, <1>6 DEF Previewing, Committing
<1> QED
  BY <1>4, <1>7, ImportReads DEF Imports!PreviewReads, Imports!tenantVars

LEMMA ReadsCommit ==
    ASSUME ImportsInv, NEW q \in Clerks, NEW u \in Importers, NEW k \in Keys,
           Imports!CommitReads(q, u, k)
    PROVE  ImportsInv'
<1>1. PICK rec : rec = [op |-> "commit", key |-> k, by |-> u]
  OBVIOUS
<1>2. imports' = [imports EXCEPT ![q] = rec] /\ imports'[q] = rec
  BY <1>1 DEF Imports!CommitReads, ImportsInv, ImportTables
<1>3. UNCHANGED <<batches, packages, rules, cases>>
  BY DEF Imports!CommitReads, Imports!tenantVars
<1>4. Previewing(q)' /\ Committing(q)'
  BY <1>1, <1>2, <1>3 DEF Imports!CommitReads, Previewing, Committing, Imports!TitleAgrees,
      Imports!RuleAgrees
<1>5. \A r \in Clerks : ~ Doing(r, "commit")
  BY DEF Imports!CommitReads, Imports!ImportsFree, Imports!Busy
<1> QED
  BY <1>2, <1>3, <1>4, <1>5, ImportReads

LEMMA InsertsPreview ==
    ASSUME ImportsInv, NEW q \in Clerks, Imports!PreviewInserts(q)
    PROVE  ImportsInv'
<1>1. UNCHANGED <<packages, rules, cases>> /\ imports' = [imports EXCEPT ![q] = None]
  BY DEF Imports!PreviewInserts, Imports!tenantVars
<1>2. \A r \in Clerks : imports'[r] # None => imports'[r] = imports[r]
  BY <1>1 DEF ImportsInv, ImportTables
<1>3. PICK k \in Keys, batch \in Imports!Batch :
        /\ k = imports[q].key /\ batch = imports[q].batch
        /\ Coherent(batch) /\ batch.status # "committed"
  BY DEF ImportsInv, Previewing, Imports!PreviewInserts
<1>4. CASE batches[k] # None
  BY <1>1, <1>2, <1>3, <1>4, ImportReads DEF Imports!PreviewInserts, Previewing, Committing,
      ImportsInv, ImportTables
<1>5. CASE batches[k] = None
  <2>1. batches' = [batches EXCEPT ![k] = batch]
    BY <1>3, <1>5 DEF Imports!PreviewInserts
  <2>2. /\ batches'[k] = batch
        /\ \A j \in Keys : batches[j] # None => batches'[j] = batches[j]
        /\ \A j \in Keys : j # k => batches'[j] = batches[j]
    BY <2>1, <1>5 DEF ImportsInv, ImportTables
  <2>3. ImportTables'
    BY <2>1, <1>1, <1>3 DEF ImportsInv, ImportTables
  <2>4. \A j \in Keys : batches'[j] # None => Coherent(batches'[j])
    BY <2>2, <1>3 DEF ImportsInv
  <2>5. ASSUME NEW r \in Clerks PROVE Previewing(r)' /\ Committing(r)'
    BY <1>1, <1>2, <2>2 DEF ImportsInv, Previewing, Committing, Imports!TitleAgrees,
        Imports!RuleAgrees
  <2>6. CommitsAlone'
    BY <1>2 DEF ImportsInv, CommitsAlone
  <2>7. CasesAreRows'
    BY <1>1, <2>2 DEF ImportsInv, CasesAreRows
  <2>8. BatchesAreCases'
    BY <1>1, <1>3, <2>2 DEF ImportsInv, BatchesAreCases
  <2>9. (\A j \in Keys : batches[j] # None => Coherent(batches[j]))'
    BY <2>4 DEF Coherent
  <2> QED
    BY <2>3, <2>5, <2>6, <2>7, <2>8, <2>9 DEF ImportsInv
<1> QED
  BY <1>4, <1>5

\* What a commit writes, name by name: one row speaks for all that bear a name.
LEMMA CommitSays ==
    ASSUME ImportsInv, NEW q \in Clerks, Imports!CommitWrites(q)
    PROVE  LET rows == batches[imports[q].key].rows IN
           /\ \A p \in Imports!PackageIds :
                \/ packages'[p] = packages[p] /\ \A r \in rows : r.package # p
                \/ \E r \in rows : r.package = p /\ packages'[p] = r.title
           /\ \A p \in Imports!RuleIds :
                \/ rules'[p] = rules[p] /\ (rules[p] # None \/ \A r \in rows : r.rule # p)
                \/ rules[p] = None /\ \E r \in rows : r.rule = p /\ rules'[p] = Imports!Rule(r)
           /\ \A c \in Imports!CaseIds :
                \/ cases'[c] = cases[c] /\ \A r \in rows : r.case # c
                \/ \E r \in rows : r.case = c /\ cases'[c] = Imports!Case(r, imports[q].key)
<1> DEFINE rows == batches[imports[q].key].rows
<1>1. \A S : S # {} => Imports!Any(S) \in S
  BY DEF Imports!Any
<1>2. ASSUME NEW p \in Imports!PackageIds
      PROVE  \/ packages'[p] = packages[p] /\ \A r \in rows : r.package # p
             \/ \E r \in rows : r.package = p /\ packages'[p] = r.title
  <2> DEFINE named == {r \in rows : r.package = p}
  <2>1. packages'[p] = IF named = {} THEN packages[p] ELSE Imports!Any(named).title
    BY DEF Imports!CommitWrites
  <2>2. named # {} => Imports!Any(named) \in named
    BY <1>1
  <2> QED
    BY <2>1, <2>2
<1>3. ASSUME NEW p \in Imports!RuleIds
      PROVE  \/ rules'[p] = rules[p] /\ (rules[p] # None \/ \A r \in rows : r.rule # p)
             \/ rules[p] = None /\ \E r \in rows : r.rule = p /\ rules'[p] = Imports!Rule(r)
  <2> DEFINE named == {r \in rows : r.rule = p}
  <2>1. rules'[p] = IF named = {} \/ rules[p] # None THEN rules[p]
                    ELSE Imports!Rule(Imports!Any(named))
    BY DEF Imports!CommitWrites
  <2>2. named # {} => Imports!Any(named) \in named
    BY <1>1
  <2> QED
    BY <2>1, <2>2
<1>4. ASSUME NEW c \in Imports!CaseIds
      PROVE  \/ cases'[c] = cases[c] /\ \A r \in rows : r.case # c
             \/ \E r \in rows : r.case = c /\ cases'[c] = Imports!Case(r, imports[q].key)
  <2> DEFINE named == {r \in rows : r.case = c}
  <2>1. cases'[c] = IF named = {} THEN cases[c]
                    ELSE Imports!Case(Imports!Any(named), imports[q].key)
    BY DEF Imports!CommitWrites
  <2>2. named # {} => Imports!Any(named) \in named
    BY <1>1
  <2> QED
    BY <2>1, <2>2
<1> QED
  BY <1>2, <1>3, <1>4

\* Every row that was committed, now or before, is there as it was reviewed.
LEMMA RowsStand ==
    ASSUME ProposalsAssumption, ImportsInv, NEW q \in Clerks, Imports!CommitWrites(q),
           NEW r \in Imports!Rows,
           \/ r \in batches[imports[q].key].rows
           \/ packages[r.package] = r.title /\ rules[r.rule] = Imports!Rule(r)
    PROVE  packages'[r.package] = r.title /\ rules'[r.rule] = Imports!Rule(r)
<1> DEFINE rows == batches[imports[q].key].rows
<1>1. /\ imports[q].key \in Keys
      /\ \A s \in rows : cases[s.case] = None /\ Imports!TitleAgrees(s) /\ Imports!RuleAgrees(s)
      /\ rows \subseteq Imports!Rows
      /\ \A s \in rows, t \in rows : s # t => ~ Imports!Contradict(s, t)
  BY DEF ImportsInv, Committing, Imports!CommitWrites, Coherent, ImportTables, Imports!Batch
<1>2. r.package \in Imports!PackageIds /\ r.rule \in Imports!RuleIds
  BY DEF Imports!PackageIds, Imports!RuleIds
<1>3. r.title # None /\ Imports!Rule(r) # None
  BY <1>1 DEF ProposalsAssumption, Imports!NoneIsNoRow
<1>4. /\ \/ packages'[r.package] = packages[r.package] /\ \A s \in rows : s.package # r.package
         \/ \E s \in rows : s.package = r.package /\ packages'[r.package] = s.title
      /\ \/ /\ rules'[r.rule] = rules[r.rule]
            /\ rules[r.rule] # None \/ \A s \in rows : s.rule # r.rule
         \/ /\ rules[r.rule] = None
            /\ \E s \in rows : s.rule = r.rule /\ rules'[r.rule] = Imports!Rule(s)
  BY <1>2, CommitSays
<1> HIDE DEF rows
<1>5. packages'[r.package] = r.title
  <2>1. CASE r \in rows
    BY <2>1, <1>1, <1>4 DEF Imports!Contradict
  <2>2. CASE packages[r.package] = r.title
    BY <2>2, <1>1, <1>3, <1>4 DEF Imports!TitleAgrees
  <2> QED
    BY <2>1, <2>2 DEF rows
<1>6. rules'[r.rule] = Imports!Rule(r)
  <2>1. CASE r \in rows
    <3>1. rules[r.rule] # None => rules[r.rule] = Imports!Rule(r)
      BY <2>1, <1>1 DEF Imports!RuleAgrees
    <3>2. \A s \in rows : s.rule = r.rule => Imports!Rule(s) = Imports!Rule(r)
      BY <2>1, <1>1 DEF Imports!Contradict
    <3> QED
      BY <2>1, <3>1, <3>2, <1>4
  <2>2. CASE rules[r.rule] = Imports!Rule(r)
    BY <2>2, <1>3, <1>4
  <2> QED
    BY <2>1, <2>2 DEF rows
<1> QED
  BY <1>5, <1>6

LEMMA WritesCommit ==
    ASSUME ProposalsAssumption, ImportsInv, NEW q \in Clerks, Imports!CommitWrites(q)
    PROVE  ImportsInv'
<1>1. PICK k \in Keys : k = imports[q].key
  BY DEF ImportsInv, Committing, Imports!CommitWrites
<1>2. PICK rows : rows = batches[k].rows
  OBVIOUS
<1>3. /\ batches[k] # None /\ batches[k] \in Imports!Batch /\ Coherent(batches[k])
      /\ batches[k].status = "ready"
      /\ imports[q].by \in Importers \ {batches[k].created_by}
      /\ rows \subseteq Imports!Rows
      /\ \A r \in rows : cases[r.case] = None
  BY <1>1, <1>2 DEF ImportsInv, Committing, Imports!CommitWrites, ImportTables, Imports!Batch
<1>4. PICK done : done = [[batches[k] EXCEPT !.status = "committed"] EXCEPT !.committed_by = imports[q].by]
  OBVIOUS
<1>5. /\ done \in Imports!Batch /\ done.rows = rows /\ done.created_by = batches[k].created_by
      /\ done.status = "committed" /\ done.committed_by = imports[q].by
  BY <1>2, <1>3, <1>4 DEF Imports!Batch
<1>6. done # None
  BY <1>5 DEF ProposalsAssumption, Imports!NoneIsNoRow
<1>7. batches' = [batches EXCEPT ![k] = done]
  BY <1>1, <1>4 DEF Imports!CommitWrites, ImportsInv, ImportTables
<1>8. batches'[k] = done /\ \A j \in Keys : j # k => batches'[j] = batches[j]
  BY <1>7 DEF ImportsInv, ImportTables
<1>9. \A r \in Clerks : imports'[r] # None => r # q /\ imports'[r] = imports[r]
  BY DEF Imports!CommitWrites, ImportsInv, ImportTables
<1>10. ImportTables'
  <2>1. batches' \in [Keys -> Imports!Batch \cup {None}]
    BY <1>5, <1>7 DEF ImportsInv, ImportTables
  <2> QED
    BY <2>1 DEF Imports!CommitWrites, ImportsInv, ImportTables
<1>11. (\A j \in Keys : batches[j] # None => Coherent(batches[j]))'
  BY <1>2, <1>3, <1>5, <1>8 DEF ImportsInv, Coherent
<1>12. \A r \in Clerks : ~ Doing(r, "commit")'
  BY <1>9 DEF ImportsInv, CommitsAlone, Imports!CommitWrites
<1>13. ASSUME NEW r \in Clerks PROVE (Previewing(r) /\ Committing(r))'
  BY <1>9, <1>12 DEF ImportsInv, Previewing, Committing
<1>14. CommitsAlone'
  BY <1>12 DEF CommitsAlone
<1>15. \A c \in Imports!CaseIds :
          \/ cases'[c] = cases[c] /\ \A r \in rows : r.case # c
          \/ \E r \in rows : r.case = c /\ cases'[c] = Imports!Case(r, k)
  BY CommitSays, <1>1, <1>2
<1>16. \A r \in Imports!Rows : Imports!Case(r, k) # None
  BY DEF ProposalsAssumption, Imports!NoneIsNoRow
<1>17. CasesAreRows'
  <2> SUFFICES ASSUME NEW c \in Imports!CaseIds, cases'[c] # None
               PROVE  /\ cases'[c].batch \in Keys /\ batches'[cases'[c].batch] # None
                      /\ batches'[cases'[c].batch].status = "committed"
                      /\ \E r \in batches'[cases'[c].batch].rows :
                            /\ r.case = c
                            /\ cases'[c].package = r.package /\ packages'[r.package] = r.title
                            /\ cases'[c].rule = r.rule /\ rules'[r.rule] = Imports!Rule(r)
    BY DEF CasesAreRows
  <2>1. CASE \E r \in rows : r.case = c /\ cases'[c] = Imports!Case(r, k)
    <3>1. PICK r \in rows : r.case = c /\ cases'[c] = Imports!Case(r, k)
      BY <2>1
    <3>2. packages'[r.package] = r.title /\ rules'[r.rule] = Imports!Rule(r)
      BY <1>1, <1>2, <1>3, <3>1, RowsStand
    <3>3. cases'[c].package = r.package /\ cases'[c].rule = r.rule /\ cases'[c].batch = k
      BY <3>1 DEF Imports!Case
    <3> QED
      BY <3>1, <3>2, <3>3, <1>5, <1>6, <1>8
  <2>2. CASE cases'[c] = cases[c]
    <3>1. PICK j \in Keys : j = cases[c].batch /\ batches[j] # None
                            /\ batches[j].status = "committed"
      BY <2>2 DEF ImportsInv, CasesAreRows
    <3>2. PICK r \in batches[j].rows :
              /\ r.case = c
              /\ cases[c].package = r.package /\ packages[r.package] = r.title
              /\ cases[c].rule = r.rule /\ rules[r.rule] = Imports!Rule(r)
      BY <2>2, <3>1 DEF ImportsInv, CasesAreRows
    <3>3. j # k /\ r \in Imports!Rows
      BY <1>3, <3>1, <3>2 DEF ImportsInv, ImportTables, Imports!Batch
    <3>4. packages'[r.package] = r.title /\ rules'[r.rule] = Imports!Rule(r)
      BY <3>2, <3>3, RowsStand
    <3> QED
      BY <2>2, <3>1, <3>2, <3>3, <3>4, <1>8
  <2> QED
    BY <2>1, <2>2, <1>15
<1>18. BatchesAreCases'
  <2> SUFFICES ASSUME NEW j \in Keys, batches'[j] # None, batches'[j].status = "committed"
               PROVE  /\ batches'[j].committed_by \in Importers \ {batches'[j].created_by}
                      /\ \A r \in batches'[j].rows :
                            cases'[r.case] # None /\ cases'[r.case].batch = j
    BY DEF BatchesAreCases
  <2>1. CASE j = k
    <3>1. ASSUME NEW r \in rows PROVE cases'[r.case] # None /\ cases'[r.case].batch = k
      <4>1. r.case \in Imports!CaseIds
        BY <1>3 DEF Imports!CaseIds
      <4>2. PICK s \in rows : cases'[r.case] = Imports!Case(s, k)
        BY <4>1, <1>15
      <4> QED
        BY <4>2, <1>3, <1>16 DEF Imports!Case
    <3> QED
      BY <2>1, <3>1, <1>3, <1>5, <1>8
  <2>2. CASE j # k
    <3>1. batches[j] # None /\ batches[j].status = "committed" /\ batches'[j] = batches[j]
      BY <2>2, <1>8
    <3>2. ASSUME NEW r \in batches[j].rows PROVE cases'[r.case] = cases[r.case]
      <4>1. r.case \in Imports!CaseIds
        BY <3>1 DEF ImportsInv, ImportTables, Imports!Batch, Imports!CaseIds
      <4>2. cases[r.case] # None
        BY <3>1 DEF ImportsInv, BatchesAreCases
      <4> QED
        BY <4>1, <4>2, <1>3, <1>15
    <3> QED
      BY <3>1, <3>2 DEF ImportsInv, BatchesAreCases
  <2> QED
    BY <2>1, <2>2
<1> QED
  BY <1>10, <1>11, <1>13, <1>14, <1>17, <1>18 DEF ImportsInv

LEMMA ImportsNext ==
    ASSUME ProposalsAssumption, ImportsInv, [Imports!Next]_(Imports!vars)
    PROVE  ImportsInv'
<1>1. CASE UNCHANGED <<batches, packages, rules, cases, imports>>
  <2>1. ImportTables' /\ (\A k \in Keys : batches[k] # None => Coherent(batches[k]))'
    BY <1>1 DEF ImportsInv, ImportTables, Coherent
  <2>2. ASSUME NEW q \in Clerks PROVE (Previewing(q) /\ Committing(q))'
    BY <1>1 DEF ImportsInv, Previewing, Committing, Imports!TitleAgrees, Imports!RuleAgrees
  <2>3. CommitsAlone' /\ CasesAreRows' /\ BatchesAreCases'
    BY <1>1 DEF ImportsInv, CommitsAlone, CasesAreRows, BatchesAreCases
  <2> QED
    BY <2>1, <2>2, <2>3 DEF ImportsInv
<1> QED
  BY <1>1, ReadsPreview, ReadsCommit, InsertsPreview, WritesCommit
  DEF Imports!Next, Imports!vars, Imports!DayPasses, Imports!tenantVars

LEMMA ImportsPart ==
    /\ ProposalsInit => Imports!Init
    /\ [ProposalsNext]_<<vars, importVars, part>> => [Imports!Next]_(Imports!vars)
BY DEF ProposalsInit, ProposalsNext, importVars, Imports!vars

\* Each case stands as a row of the batch a second person reviewed, under the title and the
\* commission of that row, and a committed batch is there as a whole.
THEOREM ImportsAreReviewed == ProposalsSpec => []ImportedAsReviewed
<1>1. ProposalsInit => ImportsInv
  BY ImportsPart, ImportsBegin
<1>2. ImportsInv /\ [ProposalsNext]_<<vars, importVars, part>> => ImportsInv'
  BY ImportsPart, ImportsNext, ProposalsAssumption
<1>3. ImportsInv => ImportedAsReviewed
  <2> SUFFICES ASSUME ImportsInv PROVE Imports!ImportedAsReviewed
    BY DEF ImportedAsReviewed
  <2>1. CasesAreRows /\ BatchesAreCases
    BY DEF ImportsInv
  <2>2. ASSUME NEW k \in Keys, batches[k] # None, batches[k].status # "committed",
               NEW c \in Imports!CaseIds
        PROVE  cases[c] = None \/ cases[c].batch # k
    BY <2>1, <2>2 DEF CasesAreRows
  <2> QED
    BY <2>1, <2>2 DEF CasesAreRows, BatchesAreCases, Imports!ImportedAsReviewed
<1> QED
  BY <1>1, <1>2, <1>3, PTL DEF ProposalsSpec

-----------------------------------------------------------------------------
(* Histories: lemmas on what an append makes of them *)

\* The tables, as far as the argument needs them.
HistoryTables(M, max, S, R) ==
    /\ S \in [M -> [latest : M, version : 1 .. max] \cup {Null}]
    /\ R \in [M -> [root : M, parent : M, version : 2 .. max] \cup {Null}]
    /\ \A m \in M : R[m] # Null => S[R[m].root] # Null

Of(M, R, root, v) ==
    IF v = 1 THEN {root} ELSE {m \in M : R[m] # Null /\ R[m].root = root /\ R[m].version = v}

\* One history: a material for every version, each made from the one before.
Chain(M, S, R, root) ==
    /\ \A v \in 2 .. S[root].version :
          \E m \in Of(M, R, root, v) :
              Of(M, R, root, v) = {m} /\ R[m].parent \in Of(M, R, root, v - 1)
    /\ \A m \in M : m \in Of(M, R, root, S[root].version) <=> m = S[root].latest
    /\ \A m \in M : R[m] # Null /\ R[m].root = root => R[m].version <= S[root].version

Chains(M, S, R) == \A root \in M : S[root] # Null => Chain(M, S, R, root)

\* An append that passes the questions of the UPDATE and of the unique keys.
Extends(M, max, S, R, a) ==
    /\ a.root \in M /\ a.new \in M /\ a.latest \in M /\ a.version \in 1 .. (max - 1)
    /\ a.new # a.root /\ R[a.new] = Null
    /\ IF S[a.root] = Null THEN a.latest = a.root /\ a.version = 1
       ELSE S[a.root].latest = a.latest /\ S[a.root].version = a.version

Replaces(S, R, a, T, Q) ==
    /\ T = [S EXCEPT ![a.root] = [latest |-> a.new, version |-> a.version + 1]]
    /\ Q = [R EXCEPT ![a.new] =
               [root |-> a.root, parent |-> a.latest, version |-> a.version + 1]]

LEMMA AppendsKeepChains ==
    ASSUME NEW M, NEW max \in Nat, NEW S, NEW R, NEW a, NEW T, NEW Q,
           Null \notin [latest : M, version : 1 .. max],
           Null \notin [root : M, parent : M, version : 2 .. max],
           HistoryTables(M, max, S, R), Chains(M, S, R), Extends(M, max, S, R, a),
           Replaces(S, R, a, T, Q)
    PROVE  HistoryTables(M, max, T, Q) /\ Chains(M, T, Q)
<1> DEFINE v == a.version + 1
           row == [root |-> a.root, parent |-> a.latest, version |-> v]
           top == [latest |-> a.new, version |-> v]
<1>1. v \in 2 .. max /\ v - 1 = a.version /\ a.version \in Nat /\ a.version < v
  BY DEF Extends
<1>2. row \in [root : M, parent : M, version : 2 .. max] /\ row # Null
  BY <1>1 DEF Extends
<1>3. top \in [latest : M, version : 1 .. max] /\ top # Null
  BY <1>1 DEF Extends
<1>4. /\ Q[a.new] = row /\ \A m \in M \ {a.new} : Q[m] = R[m]
      /\ T[a.root] = top /\ \A m \in M \ {a.root} : T[m] = S[m]
  BY DEF HistoryTables, Extends, Replaces
<1>5. row.root = a.root /\ row.parent = a.latest /\ row.version = v
      /\ top.latest = a.new /\ top.version = v
  OBVIOUS
<1> HIDE DEF row, top, v
<1>6. HistoryTables(M, max, T, Q)
  <2>1. T \in [M -> [latest : M, version : 1 .. max] \cup {Null}]
    BY <1>3 DEF HistoryTables, Replaces, top, v
  <2>2. Q \in [M -> [root : M, parent : M, version : 2 .. max] \cup {Null}]
    BY <1>2 DEF HistoryTables, Replaces, row, v
  <2>3. \A m \in M : Q[m] # Null => T[Q[m].root] # Null
    <3>1. \A m \in M : R[m] # Null => R[m].root \in M /\ S[R[m].root] # Null
      BY DEF HistoryTables
    <3>2. \A m \in M : S[m] # Null => T[m] # Null
      BY <1>3, <1>4
    <3>3. T[a.root] # Null
      BY <1>3, <1>4
    <3> QED
      BY <3>1, <3>2, <3>3, <1>4, <1>5
  <2> QED
    BY <2>1, <2>2, <2>3 DEF HistoryTables
<1>7. ASSUME NEW root \in M, T[root] # Null, root # a.root PROVE Chain(M, T, Q, root)
  <2>1. T[root] = S[root] /\ S[root] # Null
    BY <1>4, <1>7
  <2>2. \A m \in M : Q[m] # Null /\ Q[m].root = root <=> R[m] # Null /\ R[m].root = root
    BY <1>4, <1>5, <1>7 DEF Extends
  <2>3. \A m \in M : R[m] # Null => Q[m] = R[m]
    BY <1>4 DEF Extends
  <2>4. \A w : Of(M, Q, root, w) = Of(M, R, root, w)
    BY <2>2, <2>3 DEF Of
  <2>5. Chain(M, S, R, root)
    BY <2>1 DEF Chains
  <2>6. \A w \in 2 .. S[root].version : \A m \in Of(M, R, root, w) : Q[m] = R[m]
    BY <2>3 DEF Of
  <2> QED
    <3>1. \A w \in 2 .. T[root].version :
             \E m \in Of(M, Q, root, w) :
                Of(M, Q, root, w) = {m} /\ Q[m].parent \in Of(M, Q, root, w - 1)
      <4> TAKE w \in 2 .. T[root].version
      <4>1. PICK m \in Of(M, R, root, w) :
                Of(M, R, root, w) = {m} /\ R[m].parent \in Of(M, R, root, w - 1)
        BY <2>1, <2>5 DEF Chain
      <4>2. Q[m] = R[m]
        BY <4>1, <2>1, <2>6
      <4> QED
        BY <4>1, <4>2, <2>4
    <3>2. \A m \in M : m \in Of(M, Q, root, T[root].version) <=> m = T[root].latest
      BY <2>1, <2>4, <2>5 DEF Chain
    <3>3. \A m \in M : Q[m] # Null /\ Q[m].root = root => Q[m].version <= T[root].version
      BY <2>1, <2>2, <2>3, <2>5 DEF Chain
    <3> QED
      BY <3>1, <3>2, <3>3 DEF Chain
<1>8. Chain(M, T, Q, a.root)
  <2>1. /\ \A m \in M : R[m] # Null /\ R[m].root = a.root => R[m].version <= a.version
        /\ \A m \in M : R[m] # Null => R[m].version \in Nat
    BY DEF HistoryTables, Extends, Chains, Chain
  <2>2. \A m \in M : Q[m] # Null /\ Q[m].root = a.root =>
            m = a.new \/ (R[m] # Null /\ R[m].root = a.root /\ Q[m] = R[m])
    BY <1>4
  <2>3. \A w \in 1 .. a.version : Of(M, Q, a.root, w) = Of(M, R, a.root, w)
    <3> SUFFICES ASSUME NEW w \in 1 .. a.version, NEW m \in M
                 PROVE  (Q[m] # Null /\ Q[m].root = a.root /\ Q[m].version = w)
                          <=> (R[m] # Null /\ R[m].root = a.root /\ R[m].version = w)
      BY DEF Of
    <3>1. m = a.new => R[m] = Null /\ Q[m].version # w
      BY <1>1, <1>4, <1>5 DEF Extends
    <3>2. m # a.new => Q[m] = R[m]
      BY <1>4
    <3>3. m = a.new => Q[m] = row
      BY <1>4
    <3> QED
      BY <3>1, <3>2, <3>3
  <2>4. Of(M, Q, a.root, v) = {a.new}
    <3>1. v # 1
      BY <1>1
    <3>2. ASSUME NEW m \in M
          PROVE  Q[m] # Null /\ Q[m].root = a.root /\ Q[m].version = v <=> m = a.new
      <4>1. m # a.new /\ Q[m] # Null /\ Q[m].root = a.root => Q[m].version # v
        BY <1>1, <2>1, <2>2
      <4> QED
        BY <4>1, <1>2, <1>4, <1>5
    <3> QED
      BY <3>1, <3>2 DEF Of, Extends
  <2>5. a.latest \in Of(M, R, a.root, a.version)
    <3>1. CASE S[a.root] = Null
      BY <3>1 DEF Extends, Of
    <3>2. CASE S[a.root] # Null
      <4>1. Chain(M, S, R, a.root)
        BY <3>2 DEF Chains, Extends
      <4>2. S[a.root].version = a.version /\ S[a.root].latest = a.latest /\ a.latest \in M
        BY <3>2 DEF Extends
      <4> QED
        BY <4>1, <4>2 DEF Chain
    <3> QED
      BY <3>1, <3>2
  <2>6. ASSUME NEW w \in 2 .. v
        PROVE  \E m \in Of(M, Q, a.root, w) :
                  Of(M, Q, a.root, w) = {m} /\ Q[m].parent \in Of(M, Q, a.root, w - 1)
    <3>1. CASE w = v
      <4>1. a.latest \in Of(M, Q, a.root, w - 1)
        <5>1. w - 1 = a.version /\ a.version \in 1 .. a.version
          BY <3>1, <1>1 DEF Extends
        <5> QED
          BY <5>1, <2>3, <2>5
      <4>2. Of(M, Q, a.root, w) = {a.new} /\ Q[a.new].parent = a.latest
        BY <3>1, <1>4, <1>5, <2>4
      <4> QED
        BY <4>1, <4>2
    <3>2. CASE w # v
      <4>1. w \in 2 .. a.version /\ w - 1 \in 1 .. a.version /\ w \in 1 .. a.version
        BY <3>2, <1>1
      <4>2. S[a.root] # Null /\ S[a.root].version = a.version
        BY <4>1 DEF Extends
      <4>3. PICK m \in Of(M, R, a.root, w) :
                Of(M, R, a.root, w) = {m} /\ R[m].parent \in Of(M, R, a.root, w - 1)
        BY <4>1, <4>2 DEF Chains, Chain, Extends
      <4>4. Q[m] = R[m]
        BY <4>1, <4>3, <1>4 DEF Of, Extends
      <4>5. Of(M, Q, a.root, w) = Of(M, R, a.root, w)
            /\ Of(M, Q, a.root, w - 1) = Of(M, R, a.root, w - 1)
        BY <4>1, <2>3
      <4> QED
        BY <4>3, <4>4, <4>5
    <3> QED
      BY <3>1, <3>2
  <2>7. \A m \in M : Q[m] # Null /\ Q[m].root = a.root => Q[m].version <= v
    BY <2>1, <2>2, <1>1, <1>4, <1>5
  <2> QED
    BY <2>4, <2>6, <2>7, <1>4, <1>5 DEF Chain
<1> QED
  BY <1>6, <1>7, <1>8 DEF Chains

-----------------------------------------------------------------------------
(* Histories: the inductive invariant *)

\* What a request that appends has read.
Intended(M, max) ==
    {a \in [root : M, latest : M, version : 1 .. max, new : M] : a.version < max /\ a.new # a.root}

Histories(M, max, Q, S, R, A) ==
    HistoryTables(M, max, S, R) /\ Chains(M, S, R) /\ A \in [Q -> Intended(M, max) \cup {Null}]

\* What a step does to the tables and to the requests that append.
Appended(M, max, Q, S, R, A, T, P, B) ==
    \/ T = S /\ P = R /\ B = A
    \/ /\ T = S /\ P = R
       /\ \E q \in Q, a \in Intended(M, max) \cup {Null} : B = [A EXCEPT ![q] = a]
    \/ \E q \in Q :
          /\ A[q] \in Intended(M, max)
          /\ Extends(M, max, S, R, A[q])
          /\ Replaces(S, R, A[q], T, P)
          /\ B = [A EXCEPT ![q] = Null]

LEMMA AppendsKeepHistories ==
    ASSUME NEW M, NEW max \in Nat, NEW Q, NEW S, NEW R, NEW A, NEW T, NEW P, NEW B,
           Null \notin [latest : M, version : 1 .. max],
           Null \notin [root : M, parent : M, version : 2 .. max],
           Histories(M, max, Q, S, R, A), Appended(M, max, Q, S, R, A, T, P, B)
    PROVE  Histories(M, max, Q, T, P, B)
<1>1. CASE T = S /\ P = R /\ B = A
  BY <1>1 DEF Histories
<1>2. CASE /\ T = S /\ P = R
           /\ \E q \in Q, a \in Intended(M, max) \cup {Null} : B = [A EXCEPT ![q] = a]
  BY <1>2 DEF Histories
<1>3. ASSUME NEW q \in Q,
             A[q] \in Intended(M, max), Extends(M, max, S, R, A[q]),
             Replaces(S, R, A[q], T, P), B = [A EXCEPT ![q] = Null]
      PROVE  Histories(M, max, Q, T, P, B)
  <2>2. HistoryTables(M, max, T, P) /\ Chains(M, T, P)
    BY <1>3, AppendsKeepChains DEF Histories
  <2>3. B \in [Q -> Intended(M, max) \cup {Null}]
    BY <1>3 DEF Histories
  <2> QED
    BY <2>2, <2>3 DEF Histories
<1> QED
  BY <1>1, <1>2, <1>3 DEF Appended

VersionsInv == Histories(Contents, MaxHistory, Appenders, histories, replacements, appending)

LEMMA VersionsBegin ==
    ASSUME VerdictsAssumption, Versions!VersionsInit PROVE VersionsInv
BY DEF VersionsInv, Histories, HistoryTables, Chains, Versions!VersionsInit

LEMMA VersionsNext ==
    ASSUME VerdictsAssumption, VersionsInv,
           [Versions!VersionsNext]_(Versions!versionVars)
    PROVE  VersionsInv'
<1>0. /\ MaxHistory \in Nat
      /\ Null \notin [latest : Contents, version : 1 .. MaxHistory]
      /\ Null \notin [root : Contents, parent : Contents, version : 2 .. MaxHistory]
  BY DEF VerdictsAssumption, Versions!VersionsAssumption, Versions!NoneIsNoVersion,
         Versions!Series, Versions!Revision
<1> DEFINE Step == Appended(Contents, MaxHistory, Appenders, histories, replacements, appending,
                            histories', replacements', appending')
<1>1. ASSUME NEW r \in Appenders, NEW m \in Contents, NEW new \in Contents,
             Versions!AppendReads(r, m, new)
      PROVE  Step
  <2>1. PICK root : root = Versions!Root(m)
    OBVIOUS
  <2>2. root \in Contents
    BY <2>1 DEF Versions!Root, VersionsInv, Histories, HistoryTables
  <2>3. PICK head : head = Versions!Head(root)
    OBVIOUS
  <2>4. head \in [latest : Contents, version : 1 .. MaxHistory]
    BY <1>0, <2>2, <2>3 DEF Versions!Head, VersionsInv, Histories, HistoryTables,
       VerdictsAssumption, Versions!VersionsAssumption
  <2>5. PICK a : a = [root |-> root, latest |-> m, version |-> head.version, new |-> new]
    OBVIOUS
  <2>6. a \in Intended(Contents, MaxHistory)
    BY <1>1, <2>1, <2>2, <2>3, <2>4, <2>5 DEF Versions!AppendReads, Intended
  <2>7. /\ appending' = [appending EXCEPT ![r] = a]
        /\ histories' = histories /\ replacements' = replacements
    BY <1>1, <2>1, <2>3, <2>5 DEF Versions!AppendReads
  <2> QED
    BY <2>6, <2>7 DEF Appended
<1>2. ASSUME NEW r \in Appenders, Versions!AppendCommits(r) PROVE Step
  <2>1. PICK a : a = appending[r]
    OBVIOUS
  <2>2. a \in Intended(Contents, MaxHistory) /\ appending' = [appending EXCEPT ![r] = Null]
    BY <1>2, <2>1 DEF Versions!AppendCommits, VersionsInv, Histories
  <2>3. CASE Versions!Appends(a)
    <3>1. Extends(Contents, MaxHistory, histories, replacements, a)
      <4>1. /\ a.root \in Contents /\ a.new \in Contents /\ a.latest \in Contents
            /\ a.version \in 1 .. (MaxHistory - 1) /\ a.new # a.root
        BY <1>0, <2>2 DEF Intended
      <4>2. replacements[a.new] = Null /\ Versions!Head(a.root) = [latest |-> a.latest, version |-> a.version]
        BY <2>3 DEF Versions!Appends
      <4>3. IF histories[a.root] = Null THEN a.latest = a.root /\ a.version = 1
            ELSE histories[a.root].latest = a.latest /\ histories[a.root].version = a.version
        BY <4>2 DEF Versions!Head
      <4> QED
        BY <4>1, <4>2, <4>3 DEF Extends
    <3>2. Replaces(histories, replacements, a, histories', replacements')
      BY <1>2, <2>1, <2>3 DEF Versions!AppendCommits, Versions!Advanced, Replaces
    <3> QED
      BY <2>1, <2>2, <3>1, <3>2 DEF Appended
  <2>4. CASE ~ Versions!Appends(a)
    BY <1>2, <2>1, <2>2, <2>4 DEF Versions!AppendCommits, Appended
  <2> QED
    BY <2>3, <2>4
<1>3. ASSUME NEW m \in Contents, Versions!Store(m) PROVE Step
  BY <1>3 DEF Versions!Store, Appended
<1>4. ASSUME UNCHANGED <<contents, histories, replacements, appending>> PROVE Step
  BY <1>4 DEF Appended
<1> HIDE DEF Step
<1>5. Step
  BY <1>1, <1>2, <1>3, <1>4 DEF Versions!VersionsNext, Versions!versionVars
<1> USE DEF Step
<1> QED
  BY <1>0, <1>5, AppendsKeepHistories DEF VersionsInv
HistoriesInv == Histories(Materials, MaxVersions, Replacers, series, revisions, appends)

LEMMA HistoriesBegin ==
    ASSUME VerdictsAssumption, Evidence!VersionsInit PROVE HistoriesInv
BY DEF HistoriesInv, Histories, HistoryTables, Chains, Evidence!VersionsInit

LEMMA HistoriesNext ==
    ASSUME VerdictsAssumption, HistoriesInv,
           [Evidence!VersionsNext]_(Evidence!versionVars)
    PROVE  HistoriesInv'
<1>0. /\ MaxVersions \in Nat
      /\ Null \notin [latest : Materials, version : 1 .. MaxVersions]
      /\ Null \notin [root : Materials, parent : Materials, version : 2 .. MaxVersions]
  BY DEF VerdictsAssumption, Evidence!VersionsAssumption, Evidence!NoneIsNoRow, Evidence!NoneIsNoVersion,
         Evidence!Series, Evidence!Revision
<1> DEFINE Step == Appended(Materials, MaxVersions, Replacers, series, revisions, appends,
                            series', revisions', appends')
<1>1. ASSUME NEW r \in Replacers, NEW m \in Materials, NEW new \in Materials,
             Evidence!AppendReads(r, m, new)
      PROVE  Step
  <2>1. PICK root : root = Evidence!Root(m)
    OBVIOUS
  <2>2. root \in Materials
    BY <2>1 DEF Evidence!Root, HistoriesInv, Histories, HistoryTables
  <2>3. PICK head : head = Evidence!Head(root)
    OBVIOUS
  <2>4. head \in [latest : Materials, version : 1 .. MaxVersions]
    BY <1>0, <2>2, <2>3 DEF Evidence!Head, HistoriesInv, Histories, HistoryTables,
       VerdictsAssumption, Evidence!VersionsAssumption
  <2>5. PICK a : a = [root |-> root, latest |-> m, version |-> head.version, new |-> new]
    OBVIOUS
  <2>6. a \in Intended(Materials, MaxVersions)
    BY <1>1, <2>1, <2>2, <2>3, <2>4, <2>5 DEF Evidence!AppendReads, Intended
  <2>7. /\ appends' = [appends EXCEPT ![r] = a]
        /\ series' = series /\ revisions' = revisions
    BY <1>1, <2>1, <2>3, <2>5 DEF Evidence!AppendReads
  <2> QED
    BY <2>6, <2>7 DEF Appended
<1>2. ASSUME NEW r \in Replacers, Evidence!AppendCommits(r) PROVE Step
  <2>1. PICK a : a = appends[r]
    OBVIOUS
  <2>2. a \in Intended(Materials, MaxVersions) /\ appends' = [appends EXCEPT ![r] = Null]
    BY <1>2, <2>1 DEF Evidence!AppendCommits, HistoriesInv, Histories
  <2>3. CASE Evidence!Appends(a)
    <3>1. Extends(Materials, MaxVersions, series, revisions, a)
      <4>1. /\ a.root \in Materials /\ a.new \in Materials /\ a.latest \in Materials
            /\ a.version \in 1 .. (MaxVersions - 1) /\ a.new # a.root
        BY <1>0, <2>2 DEF Intended
      <4>2. revisions[a.new] = Null /\ Evidence!Head(a.root) = [latest |-> a.latest, version |-> a.version]
        BY <2>3 DEF Evidence!Appends
      <4>3. IF series[a.root] = Null THEN a.latest = a.root /\ a.version = 1
            ELSE series[a.root].latest = a.latest /\ series[a.root].version = a.version
        BY <4>2 DEF Evidence!Head
      <4> QED
        BY <4>1, <4>2, <4>3 DEF Extends
    <3>2. Replaces(series, revisions, a, series', revisions')
      BY <1>2, <2>1, <2>3 DEF Evidence!AppendCommits, Evidence!Advanced, Replaces
    <3> QED
      BY <2>1, <2>2, <3>1, <3>2 DEF Appended
  <2>4. CASE ~ Evidence!Appends(a)
    BY <1>2, <2>1, <2>2, <2>4 DEF Evidence!AppendCommits, Appended
  <2> QED
    BY <2>3, <2>4
<1>3. ASSUME NEW m \in Materials, Evidence!Store(m) PROVE Step
  BY <1>3 DEF Evidence!Store, Appended
<1>4. ASSUME UNCHANGED <<stored, series, revisions, appends>> PROVE Step
  BY <1>4 DEF Appended
<1> HIDE DEF Step
<1>5. Step
  BY <1>1, <1>2, <1>3, <1>4 DEF Evidence!VersionsNext, Evidence!versionVars
<1> USE DEF Step
<1> QED
  BY <1>0, <1>5, AppendsKeepHistories DEF HistoriesInv

-----------------------------------------------------------------------------
(* Evidence: the inductive invariant *)

EvidenceTables(L, A) ==
    /\ L \in [Linked -> Evidence!Link \cup {Null}]
    /\ A \in [Acceptances -> Evidence!Acceptance \cup {Null}]

Seen == [digest : Evidence!Digests, version : Nat,
         effective : {"stale", "pending_review", "approved", "rejected"}]

\* An association was approved by somebody who had no part in it.
Reviewed(m, row) == row.status = "approved" => row.reviewer \notin {row.by, Creator[m], Null}

\* What was seen when an acceptance was proposed passes all checks.
Supports(m, seen) ==
    /\ seen.effective = "approved"
    /\ seen.digest.state.head.latest = m
    /\ <<m, seen.digest.facts>> \in Matched

\* As long as the association has the version that was seen it is by the same person.
Apart(row, who, L) ==
    /\ who \notin {row.by, Creator[row.link], Null}
    /\ row.seen.version = L[row.link].version => who # L[row.link].by

\* An acceptance is of an association, seen at a version it had, and was accepted by
\* somebody who had no part in either.
Rests(row, L) ==
    /\ L[row.link] # Null /\ row.seen.version <= L[row.link].version
    /\ row.status = "accepted" => Supports(row.link, row.seen) /\ Apart(row, row.reviewer, L)

\* What a request has read, and what it may write of it.
Knows(k, L, A) ==
    /\ k.by \in Actors
    /\ k.op \in {"latest", "propose_link", "decide_link", "propose", "decide"}
    /\ k.op \in {"latest", "propose_link", "decide_link", "propose"} => k.m \in Linked
    /\ k.op = "propose_link" => k.digest \in Evidence!Digests
    /\ k.op = "decide_link" => L[k.m] # Null /\ k.by \notin {L[k.m].by, Creator[k.m]}
    /\ k.op \in {"propose", "decide"} => k.x \in Acceptances
    /\ k.op = "propose" =>
          k.seen \in Seen /\ L[k.m] # Null /\ k.seen.version <= L[k.m].version
    /\ k.op = "decide" =>
          /\ A[k.x] # Null /\ Apart(A[k.x], k.by, L)
          /\ k.ready => Supports(A[k.x].link, A[k.x].seen)

\* An association is decided by one at a time.
Deciding(k, m) == k # Null /\ k.op = "decide_link" /\ k.m = m

Evidences(L, A, D) ==
    /\ EvidenceTables(L, A)
    /\ \A m \in Linked : L[m] # Null => Reviewed(m, L[m])
    /\ \A x \in Acceptances : A[x] # Null => Rests(A[x], L)
    /\ D = [c \in Deciders |-> D[c]]
    /\ \A c \in Deciders : D[c] # Null => Knows(D[c], L, A)
    /\ \A m \in Linked, c, d \in Deciders : Deciding(D[c], m) /\ Deciding(D[d], m) => c = d

EvidenceInv == HistoriesInv /\ facts \in Facts /\ Evidences(links, acceptances, deciding)

\* A request reads, or ends.
LEMMA ReadsKeepEvidence ==
    ASSUME NEW L, NEW A, NEW D, NEW c \in Deciders, NEW k,
           Evidences(L, A, D),
           k # Null => Knows(k, L, A),
           \A m \in Linked : Deciding(k, m) => \A d \in Deciders : ~ Deciding(D[d], m)
    PROVE  Evidences(L, A, [D EXCEPT ![c] = k])
<1> DEFINE E == [D EXCEPT ![c] = k]
<1>1. E[c] = k /\ \A d \in Deciders : d # c => E[d] = D[d]
  BY DEF Evidences
<1>2. E = [d \in Deciders |-> E[d]]
  BY DEF Evidences
<1> HIDE DEF E
<1>3. \A d \in Deciders : E[d] # Null => Knows(E[d], L, A)
  BY <1>1 DEF Evidences
<1>4. \A m \in Linked, d, e \in Deciders : Deciding(E[d], m) /\ Deciding(E[e], m) => d = e
  BY <1>1 DEF Evidences
<1>5. Evidences(L, A, E)
  BY <1>2, <1>3, <1>4 DEF Evidences
<1> QED
  BY <1>5 DEF E

\* An association is written; its version grows.
LEMMA WritesKeepEvidence ==
    ASSUME NEW L, NEW A, NEW D, NEW c \in Deciders, NEW m \in Linked, NEW row \in Evidence!Link,
           row # Null, Reviewed(m, row), Evidences(L, A, D),
           L[m] # Null => row.version > L[m].version,
           \A d \in Deciders : Deciding(D[d], m) => d = c
    PROVE  Evidences([L EXCEPT ![m] = row], A, [D EXCEPT ![c] = Null])
<1> DEFINE E == [D EXCEPT ![c] = Null]
           K == [L EXCEPT ![m] = row]
<1>1. E[c] = Null /\ \A d \in Deciders : d # c => E[d] = D[d]
  BY DEF Evidences
<1>2. E = [d \in Deciders |-> E[d]]
  BY DEF Evidences
<1>3. K[m] = row /\ \A n \in Linked : n # m => K[n] = L[n]
  BY DEF Evidences, EvidenceTables
<1>4. EvidenceTables(K, A)
  BY DEF Evidences, EvidenceTables
<1> HIDE DEF E, K
<1>5. row.version \in Nat /\ (L[m] # Null => L[m].version \in Nat)
  BY DEF Evidences, EvidenceTables, Evidence!Link
<1>6. ASSUME NEW x \in Acceptances, A[x] # Null
      PROVE  A[x].link \in Linked /\ A[x].seen.version \in Nat
  BY <1>6 DEF Evidences, EvidenceTables, Evidence!Acceptance
<1>7. ASSUME NEW x \in Acceptances, A[x] # Null, NEW who, Apart(A[x], who, L)
      PROVE  Apart(A[x], who, K)
  <2>1. Rests(A[x], L)
    BY <1>7 DEF Evidences
  <2>2. CASE A[x].link = m
    BY <1>3, <1>5, <1>6, <1>7, <2>1, <2>2 DEF Apart, Rests
  <2>3. CASE A[x].link # m
    BY <1>3, <1>6, <1>7, <2>3 DEF Apart
  <2> QED
    BY <2>2, <2>3
<1>8. \A n \in Linked : K[n] # Null => Reviewed(n, K[n])
  BY <1>3 DEF Evidences
<1>9. ASSUME NEW x \in Acceptances, A[x] # Null PROVE Rests(A[x], K)
  <2>1. Rests(A[x], L)
    BY <1>9 DEF Evidences
  <2>2. K[A[x].link] # Null /\ A[x].seen.version <= K[A[x].link].version
    BY <1>3, <1>5, <1>6, <1>9, <2>1 DEF Rests
  <2>3. A[x].status = "accepted" => Supports(A[x].link, A[x].seen) /\ Apart(A[x], A[x].reviewer, K)
    BY <1>7, <1>9, <2>1 DEF Rests
  <2> QED
    BY <2>2, <2>3 DEF Rests
<1>10. ASSUME NEW d \in Deciders, E[d] # Null PROVE Knows(E[d], K, A)
  <2>1. d # c /\ E[d] = D[d]
    BY <1>1, <1>10
  <2>2. PICK k : k = D[d]
    OBVIOUS
  <2>3. Knows(k, L, A) /\ ~ Deciding(k, m)
    BY <1>10, <2>1, <2>2 DEF Evidences
  <2>4. k.op = "decide_link" => K[k.m] # Null /\ k.by \notin {K[k.m].by, Creator[k.m]}
    BY <1>3, <1>10, <2>1, <2>2, <2>3 DEF Knows, Deciding
  <2>5. k.op = "propose" => K[k.m] # Null /\ k.seen.version <= K[k.m].version
    BY <1>3, <1>5, <2>3 DEF Knows, Seen
  <2>6. k.op = "decide" => A[k.x] # Null /\ Apart(A[k.x], k.by, K)
    BY <1>7, <2>3 DEF Knows
  <2>7. Knows(k, K, A)
    BY <2>3, <2>4, <2>5, <2>6 DEF Knows
  <2> QED
    BY <2>1, <2>2, <2>7
<1>11. \A n \in Linked, d, e \in Deciders : Deciding(E[d], n) /\ Deciding(E[e], n) => d = e
  BY <1>1 DEF Evidences, Deciding
<1>12. Evidences(K, A, E)
  BY <1>2, <1>4, <1>8, <1>9, <1>10, <1>11 DEF Evidences
<1> QED
  BY <1>12 DEF E, K

\* An acceptance is written; what it is of stays.
LEMMA AcceptsKeepEvidence ==
    ASSUME NEW L, NEW A, NEW D, NEW x \in Acceptances, NEW row \in Evidence!Acceptance,
           row # Null, Rests(row, L), Evidences(L, A, D),
           A[x] # Null => row.link = A[x].link /\ row.seen = A[x].seen /\ row.by = A[x].by
    PROVE  Evidences(L, [A EXCEPT ![x] = row], D)
<1> DEFINE B == [A EXCEPT ![x] = row]
<1>1. B[x] = row /\ \A y \in Acceptances : y # x => B[y] = A[y]
  BY DEF Evidences, EvidenceTables
<1>2. EvidenceTables(L, B)
  BY DEF Evidences, EvidenceTables
<1> HIDE DEF B
<1>3. \A y \in Acceptances : B[y] # Null => Rests(B[y], L)
  BY <1>1 DEF Evidences
<1>4. ASSUME NEW k, Knows(k, L, A) PROVE Knows(k, L, B)
  <2>1. CASE k.op = "decide"
    <3>1. k.x \in Acceptances /\ A[k.x] # Null /\ B[k.x] # Null
      BY <1>1, <1>4, <2>1 DEF Knows
    <3>2. B[k.x].link = A[k.x].link /\ B[k.x].seen = A[k.x].seen /\ B[k.x].by = A[k.x].by
      BY <1>1, <3>1
    <3>3. /\ Apart(B[k.x], k.by, L)
          /\ k.ready => Supports(B[k.x].link, B[k.x].seen)
      BY <1>4, <2>1, <3>2 DEF Knows, Apart
    <3> QED
      BY <1>4, <2>1, <3>1, <3>3 DEF Knows
  <2>2. CASE k.op # "decide"
    BY <1>4, <2>2 DEF Knows
  <2> QED
    BY <2>1, <2>2
<1>5. \A c \in Deciders : D[c] # Null => Knows(D[c], L, B)
  BY <1>4 DEF Evidences
<1>6. Evidences(L, B, D)
  BY <1>2, <1>3, <1>5 DEF Evidences
<1> QED
  BY <1>6 DEF B

LEMMA SnapshotsAreSeen ==
    ASSUME VerdictsAssumption, EvidenceInv, NEW m \in Linked
    PROVE  /\ Evidence!Digest(m) \in Evidence!Digests
           /\ Evidence!Digest(m).state.head = Evidence!Head(Evidence!Root(m))
           /\ Evidence!Digest(m).facts = facts
           /\ links[m] # Null =>
                 /\ Evidence!Snapshot(m) \in Seen
                 /\ Evidence!Snapshot(m).version = links[m].version
                 /\ Evidence!Snapshot(m).effective = Evidence!EffectiveLink(m)
                 /\ Evidence!Snapshot(m).digest = Evidence!Digest(m)
                 /\ links[m] \in Evidence!Link
<1>0. /\ MaxVersions \in Nat \ {0} /\ m \in Materials
      /\ HistoryTables(Materials, MaxVersions, series, revisions)
  BY DEF VerdictsAssumption, Evidence!VersionsAssumption, Evidence!EvidenceAssumption,
     EvidenceInv, HistoriesInv, Histories
<1>1. PICK root : root = Evidence!Root(m)
  OBVIOUS
<1>2. root \in Materials
  BY <1>0, <1>1 DEF Evidence!Root, HistoryTables
<1>3. PICK head : head = Evidence!Head(root)
  OBVIOUS
<1>4. head \in Evidence!Series
  BY <1>0, <1>2, <1>3 DEF Evidence!Head, HistoryTables, Evidence!Series
<1>5. PICK version : version = IF revisions[m] = Null THEN 1 ELSE revisions[m].version
  OBVIOUS
<1>6. version \in 1 .. MaxVersions
  BY <1>0, <1>5 DEF HistoryTables
<1>7. Evidence!VersionState(m) = [root |-> root, version |-> version, head |-> head]
  BY <1>1, <1>3, <1>5 DEF Evidence!VersionState
<1>8. Evidence!Digest(m) = [state |-> [root |-> root, version |-> version, head |-> head],
                            facts |-> facts]
  BY <1>7 DEF Evidence!Digest
<1>9. facts \in Facts
  BY DEF EvidenceInv
<1>10. Evidence!Digest(m) \in Evidence!Digests
  BY <1>2, <1>4, <1>6, <1>8, <1>9 DEF Evidence!Digests
<1>11. Evidence!Digest(m).state.head = Evidence!Head(Evidence!Root(m)) /\ Evidence!Digest(m).facts = facts
  BY <1>1, <1>3, <1>8
<1>12. ASSUME links[m] # Null
       PROVE  /\ Evidence!Snapshot(m) \in Seen
              /\ Evidence!Snapshot(m).version = links[m].version
              /\ Evidence!Snapshot(m).effective = Evidence!EffectiveLink(m)
              /\ Evidence!Snapshot(m).digest = Evidence!Digest(m)
              /\ links[m] \in Evidence!Link
  <2>1. links[m] \in Evidence!Link
    BY <1>12 DEF EvidenceInv, Evidences, EvidenceTables
  <2>2. /\ links[m].version \in Nat
        /\ links[m].status \in {"pending_review", "approved", "rejected"}
    BY <2>1 DEF Evidence!Link
  <2>3. Evidence!EffectiveLink(m) \in {"stale", "pending_review", "approved", "rejected"}
    BY <2>2 DEF Evidence!EffectiveLink
  <2> QED
    BY <1>10, <2>1, <2>2, <2>3 DEF Evidence!Snapshot, Seen
<1> QED
  BY <1>10, <1>11, <1>12

\* The checks pass now if, and only if, what is seen now passes them.
LEMMA ChecksAreSupport ==
    ASSUME VerdictsAssumption, EvidenceInv, NEW m \in Linked, links[m] # Null
    PROVE  Evidence!Checks(m) <=> Supports(m, Evidence!Snapshot(m))
BY SnapshotsAreSeen DEF Evidence!Checks, Supports, Evidence!IsLatest

LEMMA EvidenceBegins ==
    ASSUME VerdictsAssumption, Evidence!Init PROVE EvidenceInv
<1>1. HistoriesInv
  BY HistoriesBegin DEF Evidence!Init
<1>2. Evidences(links, acceptances, deciding)
  BY DEF Evidence!Init, Evidence!EvidenceInit, Evidences, EvidenceTables, Deciding
<1> QED
  BY <1>1, <1>2 DEF EvidenceInv, Evidence!Init, Evidence!EvidenceInit

LEMMA ClerksRead ==
    ASSUME VerdictsAssumption, EvidenceInv, NEW c \in Deciders,
           \/ Evidence!LinkSnapshot(c)
           \/ \E a \in Actors, m \in Linked :
                 \/ Evidence!ProposeLink(c, a, m) \/ Evidence!DecideLink(c, a, m)
                 \/ \E x \in Acceptances : Evidence!ProposeAcceptance(c, a, m, x)
           \/ \E a \in Actors, x \in Acceptances : Evidence!DecideAcceptance(c, a, x)
    PROVE  Evidences(links, acceptances, deciding')
<1>0. Evidences(links, acceptances, deciding)
  BY DEF EvidenceInv
<1>1. CASE Evidence!LinkSnapshot(c)
  <2>1. PICK m \in Linked, a \in Actors : m = deciding[c].m /\ a = deciding[c].by
    BY <1>0, <1>1 DEF Evidence!LinkSnapshot, Evidence!At, Evidences, Knows
  <2>2. PICK k : k = [op |-> "propose_link", by |-> a, m |-> m, digest |-> Evidence!Digest(m)]
    OBVIOUS
  <2>3. k.op = "propose_link" /\ k.by = a /\ k.m = m /\ k.digest = Evidence!Digest(m)
    BY <2>2
  <2>4. Knows(k, links, acceptances) /\ \A n : ~ Deciding(k, n)
    BY <2>3, SnapshotsAreSeen DEF Knows, Deciding
  <2>5. deciding' = [deciding EXCEPT ![c] = k]
    BY <1>1, <2>1, <2>2 DEF Evidence!LinkSnapshot, Evidence!Goes
  <2> QED
    BY <1>0, <2>4, <2>5, ReadsKeepEvidence
<1>2. ASSUME NEW a \in Actors, NEW m \in Linked, Evidence!ProposeLink(c, a, m)
      PROVE  Evidences(links, acceptances, deciding')
  <2>1. PICK k : k = [op |-> "latest", by |-> a, m |-> m]
    OBVIOUS
  <2>2. Knows(k, links, acceptances) /\ \A n : ~ Deciding(k, n)
    BY <2>1 DEF Knows, Deciding
  <2>3. deciding' = [deciding EXCEPT ![c] = k]
    BY <1>2, <2>1 DEF Evidence!ProposeLink, Evidence!Goes
  <2> QED
    BY <1>0, <2>2, <2>3, ReadsKeepEvidence
<1>3. ASSUME NEW a \in Actors, NEW m \in Linked, Evidence!DecideLink(c, a, m)
      PROVE  Evidences(links, acceptances, deciding')
  <2>1. PICK k : k = [op |-> "decide_link", by |-> a, m |-> m]
    OBVIOUS
  <2>2. k.op = "decide_link" /\ k.by = a /\ k.m = m
    BY <2>1
  <2>3. Knows(k, links, acceptances)
    BY <1>3, <2>2 DEF Knows, Evidence!DecideLink
  <2>4. \A n \in Linked : Deciding(k, n) => \A d \in Deciders : ~ Deciding(deciding[d], n)
    BY <1>3, <2>2 DEF Evidence!DecideLink, Evidence!LinkFree, Evidence!At, Deciding
  <2>5. deciding' = [deciding EXCEPT ![c] = k]
    BY <1>3, <2>1 DEF Evidence!DecideLink, Evidence!Goes
  <2> QED
    BY <1>0, <2>3, <2>4, <2>5, ReadsKeepEvidence
<1>4. ASSUME NEW a \in Actors, NEW m \in Linked, NEW x \in Acceptances,
             Evidence!ProposeAcceptance(c, a, m, x)
      PROVE  Evidences(links, acceptances, deciding')
  <2>1. links[m] # Null
    BY <1>4 DEF Evidence!ProposeAcceptance
  <2>2. PICK seen : seen = Evidence!Snapshot(m)
    OBVIOUS
  <2>3. seen \in Seen /\ seen.version = links[m].version /\ links[m].version \in Nat
    BY <2>1, <2>2, SnapshotsAreSeen DEF Evidence!Link
  <2>4. PICK k : k = [op |-> "propose", by |-> a, m |-> m, x |-> x, seen |-> seen]
    OBVIOUS
  <2>5. k.op = "propose" /\ k.by = a /\ k.m = m /\ k.x = x /\ k.seen = seen
    BY <2>4
  <2>6. Knows(k, links, acceptances) /\ \A n : ~ Deciding(k, n)
    BY <2>1, <2>3, <2>5 DEF Knows, Deciding
  <2>7. deciding' = [deciding EXCEPT ![c] = k]
    BY <1>4, <2>2, <2>4 DEF Evidence!ProposeAcceptance, Evidence!Goes
  <2> QED
    BY <1>0, <2>6, <2>7, ReadsKeepEvidence
<1>5. ASSUME NEW a \in Actors, NEW x \in Acceptances, Evidence!DecideAcceptance(c, a, x)
      PROVE  Evidences(links, acceptances, deciding')
  <2>1. acceptances[x] # Null /\ acceptances[x] \in Evidence!Acceptance
    BY <1>0, <1>5 DEF Evidence!DecideAcceptance, Evidences, EvidenceTables
  <2>2. PICK m \in Linked : m = acceptances[x].link
    BY <2>1 DEF Evidence!Acceptance
  <2>3. links[m] # Null
    BY <1>0, <2>1, <2>2 DEF Evidences, Rests
  <2>4. acceptances[x].seen = Evidence!Snapshot(m)
    BY <1>5, <2>2 DEF Evidence!DecideAcceptance
  <2>5. PICK ready : ready = Evidence!Checks(m)
    OBVIOUS
  <2>6. PICK k : k = [op |-> "decide", by |-> a, x |-> x, ready |-> ready]
    OBVIOUS
  <2>7. k.op = "decide" /\ k.by = a /\ k.x = x /\ k.ready = ready
    BY <2>6
  <2>8. Apart(acceptances[x], a, links)
    <3>1. a \notin {acceptances[x].by, links[m].by, Creator[m]}
      BY <1>5, <2>2 DEF Evidence!DecideAcceptance, Evidence!Independent
    <3>2. a # Null
      BY DEF VerdictsAssumption, Evidence!EvidenceAssumption
    <3> QED
      BY <2>2, <3>1, <3>2 DEF Apart
  <2>9. ready => Supports(m, acceptances[x].seen)
    BY <2>3, <2>4, <2>5, ChecksAreSupport
  <2>10. Knows(k, links, acceptances) /\ \A n : ~ Deciding(k, n)
    BY <2>1, <2>2, <2>7, <2>8, <2>9 DEF Knows, Deciding
  <2>11. deciding' = [deciding EXCEPT ![c] = k]
    BY <1>5, <2>2, <2>5, <2>6 DEF Evidence!DecideAcceptance, Evidence!Goes
  <2> QED
    BY <1>0, <2>10, <2>11, ReadsKeepEvidence
<1> QED
  BY <1>1, <1>2, <1>3, <1>4, <1>5

LEMMA LinksProposed ==
    ASSUME VerdictsAssumption, EvidenceInv, NEW c \in Deciders, Evidence!ProposeLinkCommits(c)
    PROVE  Evidences(links', acceptances', deciding')
<1>0. Evidences(links, acceptances, deciding)
  BY DEF EvidenceInv
<1>1. PICK m \in Linked : m = deciding[c].m
  BY <1>0 DEF Evidence!ProposeLinkCommits, Evidence!At, Evidences, Knows
<1>2. PICK a \in Actors, digest \in Evidence!Digests :
          a = deciding[c].by /\ digest = deciding[c].digest
  BY <1>0 DEF Evidence!ProposeLinkCommits, Evidence!At, Evidences, Knows
<1>3. \A d \in Deciders : ~ Deciding(deciding[d], m)
  BY <1>1 DEF Evidence!ProposeLinkCommits, Evidence!LinkFree, Evidence!At, Deciding
<1>4. acceptances' = acceptances /\ deciding' = [deciding EXCEPT ![c] = Null]
  BY DEF Evidence!ProposeLinkCommits, Evidence!Goes
<1>5. ASSUME NEW version \in Nat, NEW row,
             row = [digest |-> digest, status |-> "pending_review", version |-> version,
                    by |-> a, reviewer |-> Null],
             links' = [links EXCEPT ![m] = row],
             links[m] # Null => version > links[m].version
      PROVE  Evidences(links', acceptances', deciding')
  <2>1. row \in Evidence!Link /\ Reviewed(m, row) /\ row.version = version
    BY <1>5 DEF Evidence!Link, Reviewed
  <2>2. row # Null
    BY <2>1 DEF VerdictsAssumption, Evidence!NoneIsNoRow
  <2>3. Evidences([links EXCEPT ![m] = row], acceptances, [deciding EXCEPT ![c] = Null])
    BY <1>0, <1>3, <1>5, <2>1, <2>2, WritesKeepEvidence
  <2> QED
    BY <1>4, <1>5, <2>3
<1>6. CASE links[m] = Null
  <2>1. links' = [links EXCEPT ![m] =
            [digest |-> digest, status |-> "pending_review", version |-> 1, by |-> a,
             reviewer |-> Null]]
    BY <1>1, <1>2, <1>6 DEF Evidence!ProposeLinkCommits
  <2> QED
    BY <1>5, <1>6, <2>1
<1>7. CASE links[m] # Null
  <2>1. PICK version \in Nat : version = links[m].version
    BY <1>0, <1>7 DEF Evidences, EvidenceTables, Evidence!Link
  <2>2. CASE links' = links
    <3>1. Evidences(links, acceptances, [deciding EXCEPT ![c] = Null])
      BY <1>0, ReadsKeepEvidence DEF Deciding
    <3> QED
      BY <1>4, <2>2, <3>1
  <2>3. CASE links' = [links EXCEPT ![m] =
            [digest |-> digest, status |-> "pending_review", version |-> version + 1,
             by |-> a, reviewer |-> Null]]
    <3>1. PICK next \in Nat : next = version + 1
      OBVIOUS
    <3>2. links[m] # Null => next > links[m].version
      BY <2>1, <3>1
    <3> QED
      BY <1>5, <2>3, <3>1, <3>2
  <2>4. \/ links' = links
        \/ links' = [links EXCEPT ![m] =
            [digest |-> digest, status |-> "pending_review", version |-> version + 1,
             by |-> a, reviewer |-> Null]]
    BY <1>1, <1>2, <1>7, <2>1 DEF Evidence!ProposeLinkCommits
  <2> QED
    BY <2>2, <2>3, <2>4
<1> QED
  BY <1>6, <1>7

LEMMA LinksDecided ==
    ASSUME VerdictsAssumption, EvidenceInv, NEW c \in Deciders,
           NEW decision \in {"approved", "rejected"}, Evidence!DecideLinkCommits(c, decision)
    PROVE  Evidences(links', acceptances', deciding')
<1>0. Evidences(links, acceptances, deciding)
  BY DEF EvidenceInv
<1>1. PICK m \in Linked, a \in Actors : m = deciding[c].m /\ a = deciding[c].by
  BY <1>0 DEF Evidence!DecideLinkCommits, Evidence!At, Evidences, Knows
<1>2. /\ links[m] # Null /\ a \notin {links[m].by, Creator[m], Null}
      /\ \A d \in Deciders : Deciding(deciding[d], m) => d = c
  <2>1. Deciding(deciding[c], m) /\ Knows(deciding[c], links, acceptances)
    BY <1>0, <1>1 DEF Evidence!DecideLinkCommits, Evidence!At, Deciding, Evidences
  <2>2. a # Null
    BY DEF VerdictsAssumption, Evidence!EvidenceAssumption
  <2> QED
    BY <1>0, <1>1, <2>1, <2>2 DEF Knows, Deciding, Evidences
<1>3. PICK old \in Evidence!Link : old = links[m]
  BY <1>0, <1>2 DEF Evidences, EvidenceTables
<1>4. old.version \in Nat /\ old.digest \in Evidence!Digests /\ old.by \in Actors
  BY DEF Evidence!Link
<1>5. PICK row : row = [digest |-> old.digest, status |-> decision, version |-> old.version + 1,
                        by |-> old.by, reviewer |-> a]
  OBVIOUS
<1>6. row \in Evidence!Link /\ row.version = old.version + 1 /\ Reviewed(m, row)
  BY <1>2, <1>3, <1>4, <1>5 DEF Evidence!Link, Reviewed
<1>7. row # Null
  BY <1>6 DEF VerdictsAssumption, Evidence!NoneIsNoRow
<1>8. /\ links' = [links EXCEPT ![m] = row]
      /\ acceptances' = acceptances /\ deciding' = [deciding EXCEPT ![c] = Null]
  BY <1>0, <1>1, <1>3, <1>5
  DEF Evidence!DecideLinkCommits, Evidence!Goes, Evidences, EvidenceTables
<1>9. links[m] # Null => row.version > links[m].version
  BY <1>3, <1>4, <1>6
<1> QED
  BY <1>0, <1>2, <1>6, <1>7, <1>8, <1>9, WritesKeepEvidence

LEMMA AcceptancesProposed ==
    ASSUME VerdictsAssumption, EvidenceInv, NEW c \in Deciders,
           Evidence!ProposeAcceptanceCommits(c)
    PROVE  Evidences(links', acceptances', deciding')
<1>0. Evidences(links, acceptances, deciding)
  BY DEF EvidenceInv
<1>1. Knows(deciding[c], links, acceptances) /\ deciding[c].op = "propose"
  BY <1>0 DEF Evidence!ProposeAcceptanceCommits, Evidence!At, Evidences
<1>2. PICK m \in Linked, a \in Actors, x \in Acceptances, seen \in Seen :
          /\ m = deciding[c].m /\ a = deciding[c].by
          /\ x = deciding[c].x /\ seen = deciding[c].seen
  BY <1>1 DEF Knows
<1>3. links[m] # Null /\ seen.version <= links[m].version
  BY <1>1, <1>2 DEF Knows
<1>4. links' = links /\ deciding' = [deciding EXCEPT ![c] = Null]
  BY DEF Evidence!ProposeAcceptanceCommits, Evidence!Goes
<1>5. Evidences(links, acceptances, deciding')
  BY <1>0, <1>4, ReadsKeepEvidence DEF Deciding
<1>6. CASE acceptances[x] # Null
  BY <1>2, <1>4, <1>5, <1>6 DEF Evidence!ProposeAcceptanceCommits
<1>7. CASE acceptances[x] = Null
  <2>1. PICK row : row = [link |-> m, seen |-> seen, status |-> "pending_review", by |-> a,
                          reviewer |-> Null, expired |-> FALSE]
    OBVIOUS
  <2>2. row \in Evidence!Acceptance
    BY <2>1 DEF Evidence!Acceptance, Seen
  <2>3. Rests(row, links)
    BY <1>3, <2>1 DEF Rests
  <2>4. row # Null
    BY <2>2 DEF VerdictsAssumption, Evidence!NoneIsNoRow
  <2>5. acceptances' = [acceptances EXCEPT ![x] = row]
    BY <1>2, <1>7, <2>1 DEF Evidence!ProposeAcceptanceCommits
  <2> QED
    BY <1>4, <1>5, <1>7, <2>2, <2>3, <2>4, <2>5, AcceptsKeepEvidence
<1> QED
  BY <1>6, <1>7

LEMMA AcceptancesDecided ==
    ASSUME VerdictsAssumption, EvidenceInv, NEW c \in Deciders,
           NEW decision \in {"accepted", "rejected"},
           Evidence!DecideAcceptanceCommits(c, decision)
    PROVE  Evidences(links', acceptances', deciding')
<1>0. Evidences(links, acceptances, deciding)
  BY DEF EvidenceInv
<1>1. Knows(deciding[c], links, acceptances) /\ deciding[c].op = "decide"
  BY <1>0 DEF Evidence!DecideAcceptanceCommits, Evidence!At, Evidences
<1>2. PICK x \in Acceptances, a \in Actors : x = deciding[c].x /\ a = deciding[c].by
  BY <1>1 DEF Knows
<1>3. /\ acceptances[x] # Null /\ Apart(acceptances[x], a, links)
      /\ decision = "accepted" => Supports(acceptances[x].link, acceptances[x].seen)
  BY <1>1, <1>2 DEF Knows, Evidence!DecideAcceptanceCommits
<1>4. PICK old \in Evidence!Acceptance : old = acceptances[x]
  BY <1>0, <1>3 DEF Evidences, EvidenceTables
<1>5. PICK row : row = [[old EXCEPT !.status = decision] EXCEPT !.reviewer = a]
  OBVIOUS
<1>6. /\ row \in Evidence!Acceptance
      /\ row.link = old.link /\ row.seen = old.seen /\ row.by = old.by
      /\ row.status = decision /\ row.reviewer = a
  BY <1>5 DEF Evidence!Acceptance
<1>7. Apart(row, a, links)
  BY <1>3, <1>4, <1>6 DEF Apart
<1>8. Rests(row, links)
  BY <1>0, <1>3, <1>4, <1>6, <1>7 DEF Rests, Evidences
<1>9. row # Null
  BY <1>6 DEF VerdictsAssumption, Evidence!NoneIsNoRow
<1>10. /\ acceptances' = [acceptances EXCEPT ![x] = row]
       /\ links' = links /\ deciding' = [deciding EXCEPT ![c] = Null]
  BY <1>2, <1>4, <1>5 DEF Evidence!DecideAcceptanceCommits, Evidence!Goes
<1>11. Evidences(links, acceptances, deciding')
  BY <1>0, <1>10, ReadsKeepEvidence DEF Deciding
<1>12. Evidences(links, [acceptances EXCEPT ![x] = row], deciding')
  BY <1>4, <1>6, <1>8, <1>9, <1>11, AcceptsKeepEvidence
<1> QED
  BY <1>10, <1>12

LEMMA AcceptancesExpire ==
    ASSUME VerdictsAssumption, EvidenceInv, NEW x \in Acceptances, Evidence!Expire(x)
    PROVE  Evidences(links', acceptances', deciding')
<1>0. Evidences(links, acceptances, deciding)
  BY DEF EvidenceInv
<1>1. PICK old \in Evidence!Acceptance : old = acceptances[x] /\ old # Null
  BY <1>0 DEF Evidence!Expire, Evidences, EvidenceTables
<1>2. PICK row : row = [old EXCEPT !.expired = TRUE]
  OBVIOUS
<1>3. /\ row \in Evidence!Acceptance
      /\ row.link = old.link /\ row.seen = old.seen /\ row.by = old.by
      /\ row.status = old.status /\ row.reviewer = old.reviewer
  BY <1>2 DEF Evidence!Acceptance
<1>4. Rests(row, links)
  BY <1>0, <1>1, <1>3 DEF Rests, Apart, Evidences
<1>5. row # Null
  BY <1>3 DEF VerdictsAssumption, Evidence!NoneIsNoRow
<1>6. /\ acceptances' = [acceptances EXCEPT ![x] = row]
      /\ links' = links /\ deciding' = deciding
  BY <1>1, <1>2 DEF Evidence!Expire
<1>7. Evidences(links, [acceptances EXCEPT ![x] = row], deciding)
  BY <1>0, <1>1, <1>3, <1>4, <1>5, AcceptsKeepEvidence
<1> QED
  BY <1>6, <1>7

LEMMA EvidenceNext ==
    ASSUME VerdictsAssumption, EvidenceInv, [Evidence!Next]_(Evidence!vars)
    PROVE  EvidenceInv'
<1>0. HistoriesInv /\ facts \in Facts /\ Evidences(links, acceptances, deciding)
  BY DEF EvidenceInv
<1> DEFINE Same == UNCHANGED <<stored, series, revisions, appends>>
           Kept == Evidences(links', acceptances', deciding') /\ facts' \in Facts /\ Same
<1>1. ASSUME NEW c \in Deciders,
             \/ Evidence!LinkSnapshot(c)
             \/ \E a \in Actors, m \in Linked :
                   \/ Evidence!ProposeLink(c, a, m) \/ Evidence!DecideLink(c, a, m)
                   \/ \E x \in Acceptances : Evidence!ProposeAcceptance(c, a, m, x)
             \/ \E a \in Actors, x \in Acceptances : Evidence!DecideAcceptance(c, a, x)
      PROVE  Kept
  <2>1. Evidences(links, acceptances, deciding')
    BY <1>1, ClerksRead
  <2>2. UNCHANGED <<facts, links, acceptances>> /\ Same
    BY <1>1 DEF Evidence!LinkSnapshot, Evidence!ProposeLink, Evidence!DecideLink,
       Evidence!ProposeAcceptance, Evidence!DecideAcceptance, Evidence!versionVars
  <2> QED
    BY <1>0, <2>1, <2>2
<1>2. ASSUME NEW c \in Deciders, Evidence!ProposeLinkCommits(c) PROVE Kept
  BY <1>0, <1>2, LinksProposed DEF Evidence!ProposeLinkCommits, Evidence!versionVars
<1>3. ASSUME NEW c \in Deciders, Evidence!ProposeAcceptanceCommits(c) PROVE Kept
  BY <1>0, <1>3, AcceptancesProposed DEF Evidence!ProposeAcceptanceCommits, Evidence!versionVars
<1>4. ASSUME NEW c \in Deciders, NEW d \in {"approved", "rejected"},
             Evidence!DecideLinkCommits(c, d)
      PROVE  Kept
  BY <1>0, <1>4, LinksDecided DEF Evidence!DecideLinkCommits, Evidence!versionVars
<1>5. ASSUME NEW c \in Deciders, NEW d \in {"accepted", "rejected"},
             Evidence!DecideAcceptanceCommits(c, d)
      PROVE  Kept
  BY <1>0, <1>5, AcceptancesDecided DEF Evidence!DecideAcceptanceCommits, Evidence!versionVars
<1>6. ASSUME NEW f \in Facts, Evidence!FactsChange(f) PROVE Kept
  BY <1>0, <1>6 DEF Evidence!FactsChange, Evidence!versionVars
<1>7. ASSUME NEW x \in Acceptances, Evidence!Expire(x) PROVE Kept
  BY <1>0, <1>7, AcceptancesExpire DEF Evidence!Expire, Evidence!versionVars
<1>8. ASSUME UNCHANGED <<facts, links, acceptances, deciding>>
      PROVE  Evidences(links', acceptances', deciding') /\ facts' \in Facts
  BY <1>0, <1>8
<1> HIDE DEF Kept
<1>9. CASE Evidence!EvidenceNext
  <2>1. Kept
    BY <1>1, <1>2, <1>3, <1>4, <1>5, <1>6, <1>7, <1>9 DEF Evidence!EvidenceNext
  <2>2. HistoriesInv'
    BY <1>0, <2>1 DEF Kept, HistoriesInv
  <2> QED
    BY <2>1, <2>2 DEF Kept, EvidenceInv
<1>10. CASE Evidence!VersionsNext /\ UNCHANGED <<facts, links, acceptances, deciding, changes>>
  BY <1>0, <1>8, <1>10, HistoriesNext DEF EvidenceInv
<1>11. CASE UNCHANGED <<stored, series, revisions, appends, facts, links, acceptances, deciding, changes>>
  BY <1>0, <1>8, <1>11 DEF EvidenceInv, HistoriesInv
<1> QED
  BY <1>9, <1>10, <1>11
  DEF Evidence!Next, Evidence!vars, Evidence!evidenceVars, Evidence!versionVars

LEMMA VerdictsParts ==
    /\ VerdictsInit => Evidence!Init /\ Versions!VersionsInit /\ Voices!Init
    /\ [VerdictsNext]_<<evidenceVars, historyVars, voiceVars, subject>> =>
          /\ [Evidence!Next]_(Evidence!vars)
          /\ [Versions!VersionsNext]_(Versions!versionVars)
          /\ [Voices!Next]_(Voices!vars)
BY DEF VerdictsInit, VerdictsNext, evidenceVars, historyVars, voiceVars, Evidence!vars,
   Evidence!versionVars, Evidence!evidenceVars, Versions!versionVars, Voices!vars

LEMMA EvidenceStands ==
    ASSUME VerdictsAssumption, EvidenceInv PROVE Evidence!AcceptanceStands
<1>0. Evidences(links, acceptances, deciding)
  BY DEF EvidenceInv
<1> SUFFICES ASSUME NEW x \in Acceptances, acceptances[x] # Null,
                    Evidence!EffectiveAcceptance(x) = "accepted"
             PROVE  LET m == acceptances[x].link IN
                    /\ Evidence!Checks(m)
                    /\ links[m].reviewer \notin {links[m].by, Creator[m], Null}
                    /\ acceptances[x].reviewer \notin
                           {acceptances[x].by, links[m].by, Creator[m], Null}
  BY DEF Evidence!AcceptanceStands
<1>1. PICK m \in Linked : m = acceptances[x].link
  BY <1>0 DEF Evidences, EvidenceTables, Evidence!Acceptance
<1>2. acceptances[x].status = "accepted" /\ acceptances[x].seen = Evidence!Snapshot(m)
  BY <1>1 DEF Evidence!EffectiveAcceptance
<1>3. /\ links[m] # Null /\ Supports(m, Evidence!Snapshot(m))
      /\ Apart(acceptances[x], acceptances[x].reviewer, links)
  BY <1>0, <1>1, <1>2 DEF Evidences, Rests
<1>4. Evidence!Checks(m)
  BY <1>3, ChecksAreSupport
<1>5. acceptances[x].reviewer \notin {acceptances[x].by, links[m].by, Creator[m], Null}
  BY <1>1, <1>2, <1>3, SnapshotsAreSeen DEF Apart
<1>6. links[m].status = "approved"
  BY <1>4 DEF Evidence!Checks, Evidence!EffectiveLink
<1>7. links[m].reviewer \notin {links[m].by, Creator[m], Null}
  BY <1>0, <1>3, <1>6 DEF Evidences, Reviewed
<1> QED
  BY <1>1, <1>4, <1>5, <1>7

\* What is shown as accepted rests on evidence that passes all checks now and on reviewers
\* who had no part in it, and no history of materials forks, whoever proposes, decides,
\* replaces and changes what at the same time.
THEOREM AcceptancesStand == VerdictsSpec => []AcceptanceIsOfHistory
<1>1. VerdictsInit => EvidenceInv /\ VersionsInv
  BY VerdictsParts, EvidenceBegins, VersionsBegin, VerdictsAssumption
<1>2. EvidenceInv /\ VersionsInv /\ [VerdictsNext]_<<evidenceVars, historyVars, voiceVars, subject>>
      => (EvidenceInv /\ VersionsInv)'
  BY VerdictsParts, EvidenceNext, VersionsNext, VerdictsAssumption
<1>3. EvidenceInv /\ VersionsInv => AcceptanceIsOfHistory
  <2> SUFFICES ASSUME EvidenceInv, VersionsInv PROVE AcceptanceIsOfHistory
    OBVIOUS
  <2>1. Evidence!AcceptanceStands
    BY EvidenceStands, VerdictsAssumption
  <2>2. Evidence!HistoriesAreChains
    BY DEF EvidenceInv, HistoriesInv, Histories, Chains, Chain, Of, Evidence!HistoriesAreChains
  <2>3. Versions!HistoriesAreChains
    BY DEF VersionsInv, Histories, Chains, Chain, Of, Versions!HistoriesAreChains
  <2> QED
    BY <2>1, <2>2, <2>3 DEF AcceptanceIsOfHistory
<1> QED
  BY <1>1, <1>2, <1>3, PTL DEF VerdictsSpec

-----------------------------------------------------------------------------
(* Voices: the inductive invariant *)

Configurations == (Nat \X Nat) \cup {Null}

Connections == [status : {"none", "checking", "prepared", "unavailable"},
                request : Nat \cup {Null}, configuration : Configurations]

VoiceRows == [version : Nat, connection : Connections, enabled : Nat \cup {Null},
              enabled_by : VoiceAdmins \cup Operators \cup {Null}, active : Nat \cup {Null}]

VoiceReports == [combination : Combinations, version : Nat,
                 status : {"running", "passed", "failed", "stale", "blocked"},
                 expired : BOOLEAN, configuration : Configurations]

VoiceRuns == [actor : VoiceAdmins \cup Operators, revoke : BOOLEAN, reserved : Seq(Nat), at : Nat,
              phase : {"reserved", "probing", "refused", "raised"},
              expected : Configurations, since : Nat]

VoiceChecks == [request : Nat, combination : Combinations, version : Nat,
                actor : VoiceAdmins \cup Operators, since : Nat]

VoiceTables ==
    /\ combinations \in [Combinations -> VoiceRows]
    /\ reports \in Seq(VoiceReports)
    /\ runs \subseteq VoiceRuns /\ checks \subseteq VoiceChecks
    /\ revision \in Nat /\ asked \in Nat
    /\ choice # Null => choice.combination \in Combinations

\* The test a combination is held by is its own and is running.
Holds(c, row, R) ==
    row.active # Null =>
        /\ row.active \in 1 .. Len(R)
        /\ R[row.active].combination = c /\ R[row.active].version = row.version
        /\ R[row.active].status = "running"

\* A test in its time holds its combination.
Exclusive(c, row, R) ==
    \A r \in 1 .. Len(R) :
        R[r].combination = c /\ R[r].status = "running" /\ ~ R[r].expired =>
            row.active = r /\ R[r].version = row.version /\ row.connection.status # "checking"

\* A combination is enabled on a test it passed, and what was tested after that runs, or
\* passed with the same models, or with others that the connection names now.
Enabled(c, row, R) ==
    row.enabled # Null =>
        /\ row.enabled \in 1 .. Len(R)
        /\ R[row.enabled].combination = c /\ R[row.enabled].version = row.version
        /\ R[row.enabled].status = "passed"
        /\ \A r \in 1 .. Len(R) :
              r > row.enabled /\ R[r].combination = c /\ R[r].version = row.version =>
                 \/ R[r].status = "running" /\ row.active = r
                 \/ /\ R[r].status = "passed"
                    /\ \/ R[r].configuration = R[row.enabled].configuration
                       \/ /\ row.active = Null
                          /\ row.connection.configuration # R[row.enabled].configuration

Sound(c, row, R) == Holds(c, row, R) /\ Exclusive(c, row, R) /\ Enabled(c, row, R)

\* A run has its reports to itself, and those it has not come to are running.
Reserves(run, R) ==
    /\ run.at \in 1 .. Len(run.reserved)
    /\ \A i \in 1 .. Len(run.reserved) :
          /\ run.reserved[i] \in 1 .. Len(R)
          /\ run.phase # "raised" /\ i >= run.at => R[run.reserved[i]].status = "running"

Disjoint(runs_) ==
    \A p, q \in runs_ : \A i \in 1 .. Len(p.reserved), j \in 1 .. Len(q.reserved) :
        p.reserved[i] = q.reserved[j] => p = q /\ i = j

VoicesInv ==
    /\ VoiceTables
    /\ \A c \in Combinations : Sound(c, combinations[c], reports)
    /\ \A run \in runs : Reserves(run, reports)
    /\ Disjoint(runs)

\* A combination whose reports stay.
LEMMA OthersStaySound ==
    ASSUME NEW R, NEW T, NEW c, NEW row, Sound(c, row, R),
           \A r \in 1 .. Len(R) : R[r].combination = c => r \in 1 .. Len(T) /\ T[r] = R[r],
           \A r \in 1 .. Len(T) : T[r].combination = c => r \in 1 .. Len(R) /\ T[r] = R[r]
    PROVE  Sound(c, row, T)
BY DEF Sound, Holds, Exclusive, Enabled

\* A combination that is given up while no test of it is in its time.
LEMMA IdleIsSound ==
    ASSUME NEW R, NEW c, NEW row, row.active = Null, row.enabled = Null,
           \A r \in 1 .. Len(R) :
              ~ (R[r].combination = c /\ R[r].status = "running" /\ ~ R[r].expired)
    PROVE  Sound(c, row, R)
BY DEF Sound, Holds, Exclusive, Enabled

LEMMA VoicesBegin ==
    ASSUME VerdictsAssumption, Voices!Init PROVE VoicesInv
<1>1. VoiceTables
  BY DEF Voices!Init, Voices!NoConnection, VoiceTables, VoiceRows, Connections, Configurations
<1>2. ASSUME NEW c \in Combinations PROVE Sound(c, combinations[c], reports)
  <2>1. /\ combinations[c].active = Null /\ combinations[c].enabled = Null
        /\ Len(reports) = 0
    BY DEF Voices!Init
  <2> QED
    BY <2>1, IdleIsSound
<1>3. runs = {}
  BY DEF Voices!Init
<1> QED
  BY <1>1, <1>2, <1>3 DEF VoicesInv, Disjoint

\* One combination is written, and no report.
LEMMA RowsKeepVoices ==
    ASSUME VoicesInv, NEW c \in Combinations, NEW row \in VoiceRows,
           Sound(c, row, reports),
           combinations' = [combinations EXCEPT ![c] = row], UNCHANGED <<reports, runs>>,
           checks' \subseteq VoiceChecks, revision' \in Nat, asked' \in Nat, choice' = choice
    PROVE  VoicesInv'
<1>1. VoiceTables'
  BY DEF VoicesInv, VoiceTables
<1>2. ASSUME NEW b \in Combinations PROVE Sound(b, combinations'[b], reports')
  BY DEF VoicesInv, VoiceTables
<1>3. (\A b \in Combinations : Sound(b, combinations[b], reports))'
  BY <1>2
<1>4. (\A run \in runs : Reserves(run, reports))' /\ Disjoint(runs)'
  BY DEF VoicesInv
<1> QED
  BY <1>1, <1>3, <1>4 DEF VoicesInv

LEMMA CombinationsSaved ==
    ASSUME VerdictsAssumption, VoicesInv, NEW c \in Combinations, NEW actor,
           Voices!Save(c, actor)
    PROVE  VoicesInv'
<1>1. PICK old \in VoiceRows : old = combinations[c]
  BY DEF VoicesInv, VoiceTables
<1>2. PICK row : row = [version |-> old.version + 1, connection |-> Voices!NoConnection,
                        enabled |-> Null, enabled_by |-> Null, active |-> Null]
  OBVIOUS
<1>3. row \in VoiceRows /\ row.active = Null /\ row.enabled = Null
  <2>1. Voices!NoConnection \in Connections
    BY DEF Connections, Configurations, Voices!NoConnection
  <2>2. old.version + 1 \in Nat
    BY DEF VoiceRows
  <2> QED
    BY <1>2, <2>1, <2>2 DEF VoiceRows
<1>4. Sound(c, old, reports) /\ (old.active # Null => reports[old.active].expired)
  BY <1>1 DEF VoicesInv, Voices!Save, Voices!Occupied
<1>5. \A r \in 1 .. Len(reports) :
         ~ (reports[r].combination = c /\ reports[r].status = "running" /\ ~ reports[r].expired)
  BY <1>4 DEF Sound, Exclusive, VerdictsAssumption, Voices!CombinationsAssumption
<1>6. Sound(c, row, reports)
  BY <1>3, <1>5, IdleIsSound
<1>7. combinations' = [combinations EXCEPT ![c] = row]
  BY <1>1, <1>2 DEF Voices!Save
<1>8. /\ checks' \subseteq VoiceChecks /\ revision' \in Nat /\ asked' \in Nat
      /\ UNCHANGED <<reports, runs>> /\ choice' = choice
  BY DEF Voices!Save, VoicesInv, VoiceTables
<1> QED
  BY <1>3, <1>6, <1>7, <1>8, RowsKeepVoices

LEMMA ConnectionsStart ==
    ASSUME VerdictsAssumption, VoicesInv, NEW c \in Combinations,
           NEW actor \in VoiceAdmins \cup Operators, Voices!ConnectionStarts(c, actor)
    PROVE  VoicesInv'
<1>1. PICK old \in VoiceRows : old = combinations[c]
  BY DEF VoicesInv, VoiceTables
<1>2. PICK row : row = [old EXCEPT !.active = Null, !.enabled = Null, !.enabled_by = Null,
                                   !.connection = [status |-> "checking", request |-> asked + 1,
                                                   configuration |-> Null]]
  OBVIOUS
<1>3. asked \in Nat /\ revision \in Nat
  BY DEF VoicesInv, VoiceTables
<1>4. row \in VoiceRows /\ row.active = Null /\ row.enabled = Null
  <2>1. [status |-> "checking", request |-> asked + 1, configuration |-> Null] \in Connections
    BY <1>3 DEF Connections, Configurations
  <2> QED
    BY <1>2, <2>1 DEF VoiceRows
<1>5. Sound(c, old, reports) /\ ~ Voices!ActiveReport(old)
  BY <1>1 DEF VoicesInv, Voices!ConnectionStarts
<1>6. \A r \in 1 .. Len(reports) :
         ~ (reports[r].combination = c /\ reports[r].status = "running" /\ ~ reports[r].expired)
  BY <1>5 DEF Sound, Exclusive, Voices!ActiveReport, Voices!Running, VerdictsAssumption,
     Voices!CombinationsAssumption
<1>7. Sound(c, row, reports)
  BY <1>4, <1>6, IdleIsSound
<1>8. combinations' = [combinations EXCEPT ![c] = row]
  BY <1>1, <1>2 DEF Voices!ConnectionStarts
<1>9. checks' \subseteq VoiceChecks /\ asked' \in Nat
  BY <1>1, <1>3 DEF Voices!ConnectionStarts, VoiceChecks, VoiceRows, VoicesInv, VoiceTables
<1> QED
  BY <1>3, <1>4, <1>7, <1>8, <1>9, RowsKeepVoices DEF Voices!ConnectionStarts

LEMMA ConnectionsEnd ==
    ASSUME VerdictsAssumption, VoicesInv, NEW check \in checks, Voices!ConnectionEnds(check)
    PROVE  VoicesInv'
<1>1. PICK c \in Combinations : c = check.combination
  BY DEF VoicesInv, VoiceTables, VoiceChecks
<1>2. PICK old \in VoiceRows : old = combinations[c]
  BY DEF VoicesInv, VoiceTables
<1>3. /\ checks' \subseteq VoiceChecks /\ revision \in Nat /\ asked \in Nat
      /\ check.version \in Nat /\ check.since \in Nat
      /\ Sound(c, old, reports)
  BY <1>2 DEF Voices!ConnectionEnds, VoicesInv, VoiceTables, VoiceChecks
<1>4. UNCHANGED <<reports, runs, revision, choice, asked>>
  BY DEF Voices!ConnectionEnds
<1>5. CASE combinations' = combinations
  <2>1. combinations' = [combinations EXCEPT ![c] = old]
    BY <1>2, <1>5 DEF VoicesInv, VoiceTables
  <2> QED
    BY <1>3, <1>4, <2>1, RowsKeepVoices
<1>6. ASSUME NEW answer \in Voices!Answers(check.version, check.since), old.active = Null,
             combinations' = [combinations EXCEPT ![c] =
                 [old EXCEPT !.enabled = Null, !.enabled_by = Null, !.connection = answer]]
      PROVE  VoicesInv'
  <2>1. answer \in Connections
    BY <1>3 DEF Voices!Answers, Connections, Configurations
  <2>2. PICK row : row = [old EXCEPT !.enabled = Null, !.enabled_by = Null, !.connection = answer]
    OBVIOUS
  <2>3. row \in VoiceRows /\ row.active = Null /\ row.enabled = Null
    BY <1>6, <2>1, <2>2 DEF VoiceRows
  <2>4. \A r \in 1 .. Len(reports) :
           ~ (reports[r].combination = c /\ reports[r].status = "running" /\ ~ reports[r].expired)
    BY <1>3, <1>6 DEF Sound, Exclusive, VerdictsAssumption, Voices!CombinationsAssumption
  <2>5. Sound(c, row, reports)
    BY <2>3, <2>4, IdleIsSound
  <2> QED
    BY <1>3, <1>4, <1>6, <2>2, <2>3, <2>5, RowsKeepVoices
<1> QED
  BY <1>1, <1>2, <1>5, <1>6 DEF Voices!ConnectionEnds

LEMMA CombinationsEnabled ==
    ASSUME VerdictsAssumption, VoicesInv, NEW c \in Combinations,
           NEW actor \in VoiceAdmins \cup Operators, Voices!Enable(c, actor)
    PROVE  VoicesInv'
<1>1. PICK old \in VoiceRows : old = combinations[c]
  BY DEF VoicesInv, VoiceTables
<1>2. PICK e \in Voices!Latest(c) :
          /\ reports[e].status = "passed"
          /\ combinations' = [combinations EXCEPT ![c] =
                 [old EXCEPT !.enabled = e, !.enabled_by = actor]]
  BY <1>1 DEF Voices!Enable
<1>3. /\ e \in 1 .. Len(reports) /\ Len(reports) \in Nat
      /\ reports[e].combination = c /\ reports[e].version = old.version
      /\ \A r \in 1 .. Len(reports) :
            reports[r].combination = c /\ reports[r].version = old.version => r <= e
  BY <1>1, <1>2 DEF Voices!Latest, VoicesInv, VoiceTables
<1>4. PICK row : row = [old EXCEPT !.enabled = e, !.enabled_by = actor]
  OBVIOUS
<1>5. /\ row \in VoiceRows /\ row.active = old.active /\ row.version = old.version
      /\ row.connection = old.connection /\ row.enabled = e
  <2>1. e \in Nat
    BY <1>3
  <2> QED
    BY <1>4, <2>1 DEF VoiceRows
<1>6. Sound(c, old, reports)
  BY <1>1 DEF VoicesInv
<1>7. Holds(c, row, reports) /\ Exclusive(c, row, reports)
  BY <1>5, <1>6 DEF Sound, Holds, Exclusive
<1>8. Enabled(c, row, reports)
  BY <1>2, <1>3, <1>5 DEF Enabled
<1>9. /\ checks' \subseteq VoiceChecks /\ revision' \in Nat /\ asked' \in Nat
      /\ UNCHANGED <<reports, runs>> /\ choice' = choice
  BY DEF Voices!Enable, VoicesInv, VoiceTables
<1>10. Sound(c, row, reports)
  BY <1>7, <1>8 DEF Sound
<1> QED
  BY <1>2, <1>4, <1>5, <1>9, <1>10, RowsKeepVoices

LEMMA JoinsSequences ==
    ASSUME NEW S, NEW s \in Seq(S), NEW t \in Seq(S)
    PROVE  /\ s \o t \in Seq(S) /\ Len(s \o t) = Len(s) + Len(t)
           /\ \A r \in 1 .. Len(s) : (s \o t)[r] = s[r]
           /\ \A i \in 1 .. Len(t) : (s \o t)[Len(s) + i] = t[i]
OBVIOUS

LEMMA TestsReserved ==
    ASSUME VerdictsAssumption, VoicesInv, NEW actor \in VoiceAdmins \cup Operators,
           NEW members \in Seq(Combinations), NEW revoke \in BOOLEAN,
           Len(members) > 0, Voices!Reserve(actor, members, revoke),
           \A i, j \in 1 .. Len(members) : members[i] = members[j] => i = j,
           ~ revoke => \A i \in 1 .. Len(members) : Voices!Fresh(combinations[members[i]])
    PROVE  VoicesInv'
<1> DEFINE n == Len(members)
           N == Len(reports)
           new == [i \in 1 .. n |->
                     [combination |-> members[i], version |-> combinations[members[i]].version,
                      status |-> "running", expired |-> FALSE, configuration |-> Null]]
           Place(c) == CHOOSE i \in 1 .. n : members[i] = c
<1>0. VoiceTables
  BY DEF VoicesInv
<1>1. n \in Nat /\ N \in Nat /\ \A i \in 1 .. n : members[i] \in Combinations
  BY <1>0 DEF VoiceTables
<1>2. new \in Seq(VoiceReports) /\ Len(new) = n
  <2>1. ASSUME NEW i \in 1 .. n
        PROVE  [combination |-> members[i], version |-> combinations[members[i]].version,
                status |-> "running", expired |-> FALSE, configuration |-> Null] \in VoiceReports
    BY <1>0, <1>1 DEF VoiceTables, VoiceRows, VoiceReports, Configurations
  <2> QED
    BY <1>1, <2>1
<1>3. reports' = reports \o new
  BY DEF Voices!Reserve
<1>4. \A i \in 1 .. n :
         /\ new[i].combination = members[i] /\ new[i].status = "running"
         /\ new[i].version = combinations[members[i]].version
  OBVIOUS
<1>5. \A c : (\E i \in 1 .. n : members[i] = c) => Place(c) \in 1 .. n /\ members[Place(c)] = c
  OBVIOUS
<1>6. \A c \in Combinations :
         combinations'[c] =
           IF \A i \in 1 .. n : members[i] # c THEN combinations[c]
           ELSE [combinations[c] EXCEPT !.active = N + Place(c),
                                        !.enabled = IF revoke THEN Null ELSE @,
                                        !.enabled_by = IF revoke THEN Null ELSE @]
  BY DEF Voices!Reserve
<1>7. /\ runs' = runs \cup {[actor |-> actor, revoke |-> revoke,
                             reserved |-> [i \in 1 .. n |-> N + i], at |-> 1,
                             phase |-> "reserved", expected |-> Null, since |-> 0]}
      /\ \A i \in 1 .. n : Voices!Reservable(combinations[members[i]])
      /\ combinations' = [c \in Combinations |-> combinations'[c]]
      /\ UNCHANGED <<checks, revision, choice, asked>>
  BY DEF Voices!Reserve
<1> HIDE DEF new, Place
<1>8. /\ reports' \in Seq(VoiceReports) /\ Len(reports') = N + n
      /\ \A r \in 1 .. N : reports'[r] = reports[r]
      /\ \A i \in 1 .. n : reports'[N + i] = new[i]
  <2>1. reports \in Seq(VoiceReports)
    BY <1>0 DEF VoiceTables
  <2>2. PICK s \in Seq(VoiceReports), t \in Seq(VoiceReports) : s = reports /\ t = new
    BY <1>2, <2>1
  <2>3. /\ s \o t \in Seq(VoiceReports) /\ Len(s \o t) = Len(s) + Len(t)
        /\ \A r \in 1 .. Len(s) : (s \o t)[r] = s[r]
        /\ \A i \in 1 .. Len(t) : (s \o t)[Len(s) + i] = t[i]
    BY JoinsSequences
  <2> HIDE DEF n
  <2> QED
    BY <1>2, <1>3, <2>2, <2>3
<1> HIDE DEF n, N
<1>9. ASSUME NEW r \in 1 .. Len(reports'), r \notin 1 .. N
      PROVE  r - N \in 1 .. n /\ reports'[r] = new[r - N] /\ r = N + (r - N)
  BY <1>1, <1>8, <1>9
<1>10. \A r \in 1 .. N : r \in 1 .. Len(reports')
  BY <1>1, <1>8
<1>11. ASSUME NEW c \in Combinations, \A i \in 1 .. n : members[i] # c
       PROVE  combinations'[c] \in VoiceRows /\ Sound(c, combinations'[c], reports')
  <2>1. combinations'[c] = combinations[c] /\ Sound(c, combinations[c], reports)
    BY <1>6, <1>11 DEF VoicesInv
  <2>2. \A r \in 1 .. Len(reports') :
           reports'[r].combination = c => r \in 1 .. N /\ reports'[r] = reports[r]
    BY <1>4, <1>8, <1>9, <1>11
  <2>3. Sound(c, combinations[c], reports')
    BY <1>8, <1>10, <2>1, <2>2, OthersStaySound DEF N
  <2> QED
    BY <1>0, <2>1, <2>3 DEF VoiceTables
<1>12. ASSUME NEW c \in Combinations, NEW i \in 1 .. n, members[i] = c
       PROVE  combinations'[c] \in VoiceRows /\ Sound(c, combinations'[c], reports')
  <2>1. PICK old \in VoiceRows : old = combinations[c] /\ Sound(c, old, reports)
    BY <1>0 DEF VoiceTables, VoicesInv
  <2>2. Place(c) = i
    BY <1>5, <1>12 DEF n
  <2>3. PICK row : row = [old EXCEPT !.active = N + i, !.enabled = IF revoke THEN Null ELSE @,
                                     !.enabled_by = IF revoke THEN Null ELSE @]
    OBVIOUS
  <2>4. combinations'[c] = row
    BY <1>6, <1>12, <2>1, <2>2, <2>3
  <2>5. N + i \in Nat /\ N + i \in 1 .. Len(reports') /\ N + i \notin 1 .. N /\ N + i # Null
    BY <1>1, <1>8 DEF VerdictsAssumption, Voices!CombinationsAssumption
  <2>6. /\ row \in VoiceRows /\ row.active = N + i /\ row.version = old.version
        /\ row.connection = old.connection
        /\ row.enabled = IF revoke THEN Null ELSE old.enabled
    BY <2>3, <2>5 DEF VoiceRows
  <2>7. /\ reports'[N + i].combination = c /\ reports'[N + i].version = row.version
        /\ reports'[N + i].status = "running"
    BY <1>4, <1>8, <1>12, <2>1, <2>6
  <2>8. /\ old.connection.status # "checking"
        /\ old.active # Null => reports[old.active].expired
    BY <1>7, <1>12, <2>1 DEF Voices!Reservable, Voices!Occupied
  <2>9. \A r \in 1 .. Len(reports') :
           reports'[r].combination = c /\ r \notin 1 .. N => r = N + i
    BY <1>1, <1>4, <1>9, <1>12 DEF n
  <2>10. Holds(c, row, reports')
    BY <2>5, <2>6, <2>7 DEF Holds
  <2>11. \A r \in 1 .. N :
            ~ (reports[r].combination = c /\ reports[r].status = "running" /\ ~ reports[r].expired)
    BY <1>1, <2>1, <2>8 DEF Sound, Exclusive, N, VerdictsAssumption, Voices!CombinationsAssumption
  <2>12. Exclusive(c, row, reports')
    BY <1>8, <2>6, <2>7, <2>8, <2>9, <2>11 DEF Exclusive
  <2>13. Enabled(c, row, reports')
    <3> SUFFICES ASSUME ~ revoke, old.enabled # Null PROVE Enabled(c, row, reports')
      BY <2>6 DEF Enabled
    <3>1. PICK e \in 1 .. N : e = old.enabled
      BY <2>1 DEF Sound, Enabled, N
    <3>2. /\ reports[e].combination = c /\ reports[e].version = old.version
          /\ reports[e].status = "passed"
      BY <2>1, <3>1 DEF Sound, Enabled
    <3>3. Voices!Fresh(old)
      BY <1>12, <2>1 DEF n
    <3>4. ASSUME NEW r \in 1 .. N, r > e, reports[r].combination = c,
                 reports[r].version = old.version
          PROVE  /\ reports[r].status = "passed"
                 /\ reports[r].configuration = reports[e].configuration
      <4>1. ~ (reports[r].status = "running" /\ old.active = r)
        <5>1. r # Null
          BY <1>1 DEF VerdictsAssumption, Voices!CombinationsAssumption
        <5> QED
          BY <2>8, <3>3, <5>1 DEF Voices!Fresh, Voices!Running
      <4>2. old.connection.configuration = reports[e].configuration
        BY <3>1, <3>3 DEF Voices!Fresh
      <4> QED
        BY <2>1, <3>1, <3>4, <4>1, <4>2 DEF Sound, Enabled, N
    <3>5. row.enabled = e /\ e \in 1 .. Len(reports') /\ reports'[e] = reports[e]
      BY <1>8, <1>10, <2>6, <3>1
    <3>6. ASSUME NEW r \in 1 .. Len(reports'), r > e, reports'[r].combination = c,
                 reports'[r].version = row.version
          PROVE  \/ reports'[r].status = "running" /\ row.active = r
                 \/ /\ reports'[r].status = "passed"
                    /\ reports'[r].configuration = reports'[e].configuration
      <4>1. CASE r \in 1 .. N
        BY <1>8, <2>6, <3>4, <3>5, <3>6, <4>1
      <4>2. CASE r \notin 1 .. N
        BY <2>6, <2>7, <2>9, <3>6, <4>2
      <4> QED
        BY <4>1, <4>2
    <3> QED
      BY <2>6, <3>2, <3>5, <3>6 DEF Enabled
  <2> QED
    BY <2>4, <2>6, <2>10, <2>12, <2>13 DEF Sound
<1>13. \A c \in Combinations : combinations'[c] \in VoiceRows /\ Sound(c, combinations'[c], reports')
  BY <1>11, <1>12
<1>14. PICK run : run = [actor |-> actor, revoke |-> revoke,
                         reserved |-> [i \in 1 .. n |-> N + i], at |-> 1,
                         phase |-> "reserved", expected |-> Null, since |-> 0]
  OBVIOUS
<1>15. /\ run \in VoiceRuns /\ run.at = 1 /\ Len(run.reserved) = n
       /\ \A i \in 1 .. n : run.reserved[i] = N + i
  <2>1. [i \in 1 .. n |-> N + i] \in Seq(Nat) /\ Len([i \in 1 .. n |-> N + i]) = n
    BY <1>1
  <2> QED
    BY <1>14, <2>1 DEF VoiceRuns, Configurations
<1>16. runs' = runs \cup {run}
  BY <1>7, <1>14
<1>17. VoiceTables'
  <2>1. combinations' \in [Combinations -> VoiceRows]
    BY <1>7, <1>13
  <2>2. runs' \subseteq VoiceRuns
    BY <1>0, <1>15, <1>16 DEF VoiceTables
  <2> QED
    BY <1>0, <1>7, <1>8, <2>1, <2>2 DEF VoiceTables
<1>18. \A p \in runs : /\ Reserves(p, reports')
                       /\ \A i \in 1 .. Len(p.reserved) : p.reserved[i] \in 1 .. N
  BY <1>8, <1>10 DEF VoicesInv, Reserves, N
<1>19. Reserves(run, reports')
  <2>1. n > 0
    BY DEF n
  <2>2. ASSUME NEW i \in 1 .. n
        PROVE  /\ run.reserved[i] \in 1 .. Len(reports')
               /\ reports'[run.reserved[i]].status = "running"
    <3>1. run.reserved[i] = N + i /\ N + i \in 1 .. Len(reports')
      BY <1>1, <1>8, <1>15
    <3>2. reports'[N + i].status = "running"
      BY <1>4, <1>8
    <3> QED
      BY <3>1, <3>2
  <2> QED
    BY <1>1, <1>15, <2>1, <2>2 DEF Reserves
<1>20. Disjoint(runs')
  <2>1. \A i, j \in 1 .. n : run.reserved[i] = run.reserved[j] => i = j
    BY <1>1, <1>15
  <2>2. \A i \in 1 .. n : run.reserved[i] \notin 1 .. N
    BY <1>1, <1>15
  <2>3. Disjoint(runs)
    BY DEF VoicesInv
  <2> QED
    BY <1>15, <1>16, <1>18, <2>1, <2>2, <2>3 DEF Disjoint
<1> QED
  BY <1>13, <1>16, <1>17, <1>18, <1>19, <1>20 DEF VoicesInv, Disjoint

\* A run that goes on keeps its reports to itself.
LEMMA RunsStayDisjoint ==
    ASSUME NEW P, NEW run \in P, NEW next, next.reserved = run.reserved, Disjoint(P)
    PROVE  Disjoint((P \ {run}) \cup {next}) /\ Disjoint(P \ {run})
BY DEF Disjoint

\* Only what goes on beside the tables changes.
LEMMA TablesKeepVoices ==
    ASSUME VoicesInv, UNCHANGED <<combinations, reports>>,
           runs' \subseteq VoiceRuns, checks' \subseteq VoiceChecks, revision' \in Nat, asked' \in Nat,
           choice' # Null => choice'.combination \in Combinations,
           \A run \in runs' : Reserves(run, reports), Disjoint(runs')
    PROVE  VoicesInv'
BY DEF VoicesInv, VoiceTables

LEMMA RunsRecheck ==
    ASSUME VerdictsAssumption, VoicesInv, NEW run \in runs, Voices!Recheck(run)
    PROVE  VoicesInv'
<1>1. /\ run \in VoiceRuns /\ Reserves(run, reports) /\ revision \in Nat
      /\ run.phase = "reserved" /\ UNCHANGED <<combinations, reports, checks, revision, choice, asked>>
  BY DEF VoicesInv, VoiceTables, Voices!Recheck, Voices!rows
<1>2. Voices!Row(run).connection.configuration \in Configurations
  <2>1. PICK r \in 1 .. Len(reports) : r = Voices!Report(run)
    BY <1>1 DEF Reserves, Voices!Report
  <2>2. PICK c \in Combinations : c = reports[r].combination
    <3>1. reports \in Seq(VoiceReports)
      BY DEF VoicesInv, VoiceTables
    <3>2. reports[r] \in VoiceReports
      BY <2>1, <3>1
    <3> QED
      BY <3>2 DEF VoiceReports
  <2>3. Voices!Row(run) = combinations[c]
    BY <2>1, <2>2 DEF Voices!Row
  <2> QED
    BY <2>3 DEF VoicesInv, VoiceTables, VoiceRows, Connections
<1>3. ASSUME NEW next, NEW phase \in {"refused", "probing"},
             next = [run EXCEPT !.phase = phase,
                                !.expected = Voices!Row(run).connection.configuration,
                                !.since = revision]
      PROVE  next \in VoiceRuns /\ next.reserved = run.reserved /\ Reserves(next, reports)
  <2>1. /\ next \in VoiceRuns /\ next.reserved = run.reserved /\ next.at = run.at
    BY <1>1, <1>2, <1>3 DEF VoiceRuns
  <2> QED
    BY <1>1, <2>1 DEF Reserves
<1>4. ASSUME NEW next, next = [run EXCEPT !.phase = "raised"]
      PROVE  next \in VoiceRuns /\ next.reserved = run.reserved /\ Reserves(next, reports)
  <2>1. /\ next \in VoiceRuns /\ next.reserved = run.reserved /\ next.at = run.at
        /\ next.phase = "raised"
    BY <1>1, <1>4 DEF VoiceRuns
  <2> QED
    BY <1>1, <2>1 DEF Reserves
<1>5. PICK next : /\ runs' = (runs \ {run}) \cup {next}
                  /\ next \in VoiceRuns /\ next.reserved = run.reserved /\ Reserves(next, reports)
  BY <1>3, <1>4 DEF Voices!Recheck, Voices!Goes
<1>6. Disjoint(runs') /\ (\A p \in runs' : Reserves(p, reports)) /\ runs' \subseteq VoiceRuns
  BY <1>5, RunsStayDisjoint DEF VoicesInv, VoiceTables
<1> QED
  BY <1>1, <1>6, TablesKeepVoices DEF VoicesInv, VoiceTables

\* A combination whose running test ends.
LEMMA VerdictsAreSound ==
    ASSUME NEW R \in Seq(VoiceReports), NEW c \in Combinations, NEW row \in VoiceRows,
           NEW r \in 1 .. Len(R), NEW report \in VoiceReports, NEW T, NEW next,
           Null \notin Nat, Sound(c, row, R),
           R[r].combination = c, R[r].status = "running",
           report.combination = c, report.version = R[r].version, report.status # "running",
           T = [R EXCEPT ![r] = report],
           \/ row.active # r /\ next = row
           \/ row.active = r /\ next.active = Null /\ next.enabled = Null
           \/ /\ row.active = r /\ report.status = "passed"
              /\ next.active = Null /\ next.enabled = row.enabled /\ next.version = row.version
              /\ next.connection.configuration = report.configuration
    PROVE  Sound(c, next, T)
<1>1. /\ Len(T) = Len(R) /\ Len(R) \in Nat /\ T[r] = report
      /\ \A s \in 1 .. Len(R) : s # r => T[s] = R[s]
  OBVIOUS
<1>2. CASE row.active # r /\ next = row
  <2>1. Holds(c, row, T) /\ Exclusive(c, row, T)
    BY <1>1, <1>2 DEF Sound, Holds, Exclusive
  <2>2. Enabled(c, row, T)
    <3> SUFFICES ASSUME row.enabled # Null PROVE Enabled(c, row, T)
      BY DEF Enabled
    <3>1. PICK e \in 1 .. Len(R) : e = row.enabled
      BY DEF Sound, Enabled
    <3>2. R[e].status = "passed" /\ e # r /\ T[e] = R[e]
      BY <1>1, <3>1 DEF Sound, Enabled
    <3>3. ~ (r > e /\ R[r].version = row.version)
      BY <1>2, <3>1 DEF Sound, Enabled
    <3> QED
      BY <1>1, <3>1, <3>2, <3>3 DEF Sound, Enabled
  <2> QED
    BY <1>2, <2>1, <2>2 DEF Sound
<1>3. ASSUME row.active = r
      PROVE  \A s \in 1 .. Len(T) :
                ~ (T[s].combination = c /\ T[s].status = "running" /\ ~ T[s].expired)
  BY <1>1, <1>3 DEF Sound, Exclusive
<1>4. CASE row.active = r /\ next.active = Null /\ next.enabled = Null
  BY <1>3, <1>4, IdleIsSound
<1>5. CASE /\ row.active = r /\ report.status = "passed"
           /\ next.active = Null /\ next.enabled = row.enabled /\ next.version = row.version
           /\ next.connection.configuration = report.configuration
  <2>1. Holds(c, next, T) /\ Exclusive(c, next, T)
    BY <1>3, <1>5 DEF Holds, Exclusive
  <2>2. Enabled(c, next, T)
    <3> SUFFICES ASSUME row.enabled # Null PROVE Enabled(c, next, T)
      BY <1>5 DEF Enabled
    <3>1. PICK e \in 1 .. Len(R) : e = row.enabled
      BY DEF Sound, Enabled
    <3>2. /\ R[e].combination = c /\ R[e].version = row.version
          /\ R[e].status = "passed" /\ e # r /\ T[e] = R[e]
      BY <1>1, <3>1 DEF Sound, Enabled
    <3>3. ASSUME NEW s \in 1 .. Len(T), s > e, T[s].combination = c, T[s].version = row.version
          PROVE  /\ T[s].status = "passed"
                 /\ \/ T[s].configuration = T[e].configuration
                    \/ next.connection.configuration # T[e].configuration
      <4>1. CASE s = r
        BY <1>1, <1>5, <4>1
      <4>2. CASE s # r
        <5>1. T[s] = R[s] /\ row.active # s /\ row.active # Null
          BY <1>1, <1>5, <4>2
        <5> QED
          BY <1>1, <3>1, <3>2, <3>3, <5>1 DEF Sound, Enabled
      <4> QED
        BY <4>1, <4>2
    <3> QED
      BY <1>1, <1>5, <3>1, <3>2, <3>3 DEF Enabled
  <2> QED
    BY <2>1, <2>2 DEF Sound
<1> QED
  BY <1>2, <1>4, <1>5

LEMMA RunsFinish ==
    ASSUME VerdictsAssumption, VoicesInv, NEW run \in runs, Voices!Finish(run)
    PROVE  VoicesInv'
<1>0. VoiceTables /\ Null \notin Nat
  BY DEF VoicesInv, VerdictsAssumption, Voices!CombinationsAssumption
<1>1. /\ run \in VoiceRuns /\ Reserves(run, reports) /\ revision \in Nat
      /\ run.phase \in {"probing", "refused"}
      /\ UNCHANGED <<checks, revision, choice, asked>>
      /\ reports \in Seq(VoiceReports)
  BY <1>0 DEF VoicesInv, VoiceTables, Voices!Finish
<1>2. run.at \in Nat /\ Len(run.reserved) \in Nat /\ run.since \in Nat
  BY <1>1 DEF VoiceRuns
<1>3. PICK r \in 1 .. Len(reports) :
          r = run.reserved[run.at] /\ r = Voices!Report(run) /\ reports[r].status = "running"
  BY <1>1, <1>2 DEF Reserves, Voices!Report
<1>4. PICK c \in Combinations : c = reports[r].combination /\ reports[r].version \in Nat
  <2>1. reports[r] \in VoiceReports
    BY <1>1
  <2> QED
    BY <2>1 DEF VoiceReports
<1>5. PICK row \in VoiceRows : row = combinations[c] /\ row = Voices!Row(run)
  BY <1>0, <1>3, <1>4 DEF VoiceTables, Voices!Row
<1>6. Sound(c, row, reports)
  BY <1>5 DEF VoicesInv
<1>7. CASE runs' = (runs \ {run}) \cup {[run EXCEPT !.phase = "raised"]}
           /\ UNCHANGED <<combinations, reports>>
  <2>1. PICK next : next = [run EXCEPT !.phase = "raised"]
    OBVIOUS
  <2>2. /\ next \in VoiceRuns /\ next.reserved = run.reserved /\ next.at = run.at
        /\ next.phase = "raised"
    BY <1>1, <2>1 DEF VoiceRuns
  <2>3. Reserves(next, reports)
    BY <1>1, <2>2 DEF Reserves
  <2>4. Disjoint(runs') /\ (\A p \in runs' : Reserves(p, reports)) /\ runs' \subseteq VoiceRuns
    BY <1>7, <2>1, <2>2, <2>3, RunsStayDisjoint DEF VoicesInv, VoiceTables
  <2> QED
    BY <1>0, <1>1, <1>7, <2>4, TablesKeepVoices DEF VoiceTables
<1>8. ASSUME NEW configuration \in Voices!Measured(run), NEW status,
             status = Voices!Verdict(run, configuration),
             reports' = [reports EXCEPT ![r] =
                [@ EXCEPT !.status = status, !.expired = FALSE,
                          !.configuration = IF status = "passed" THEN configuration ELSE Null]],
             combinations' = [combinations EXCEPT ![c] =
                IF row.active # r THEN row
                ELSE [row EXCEPT
                        !.active = Null,
                        !.connection = [status |-> IF status = "passed" THEN "prepared"
                                                   ELSE "unavailable",
                                        request |-> Null,
                                        configuration |-> IF status = "passed" THEN configuration
                                                          ELSE Null],
                        !.enabled = IF status = "passed" THEN row.enabled ELSE Null,
                        !.enabled_by = IF status = "passed" THEN row.enabled_by ELSE Null]],
             IF run.at = Len(run.reserved) THEN runs' = runs \ {run}
             ELSE runs' = (runs \ {run}) \cup
                    {[run EXCEPT !.at = @ + 1, !.phase = "reserved", !.expected = Null, !.since = 0]}
      PROVE  VoicesInv'
  <2>1. configuration \in Configurations
    <3>1. configuration # Null =>
              \E s \in run.since .. revision : configuration = <<reports[r].version, s>>
      BY <1>3 DEF Voices!Measured
    <3>2. \A s \in run.since .. revision : s \in Nat
      BY <1>1, <1>2
    <3> QED
      BY <1>4, <3>1, <3>2 DEF Configurations
  <2>2. /\ status \in {"stale", "blocked", "failed", "passed"}
        /\ row.active = r /\ reports[r].version = row.version => status # "stale"
        /\ row.active # r => status = "stale"
    <3>1. status =
             IF row.version # reports[r].version \/ row.active # r THEN "stale"
             ELSE IF ~ run.revoke /\ ~ Voices!Fresh(row) THEN "blocked"
             ELSE IF configuration = Null THEN "failed"
             ELSE "passed"
      BY <1>3, <1>5, <1>8 DEF Voices!Verdict
    <3> QED
      BY <3>1
  <2>3. PICK measured \in Configurations :
            measured = IF status = "passed" THEN configuration ELSE Null
    BY <2>1 DEF Configurations
  <2>4. PICK old \in VoiceReports : old = reports[r]
    BY <1>1
  <2>5. PICK report : report = [old EXCEPT !.status = status, !.expired = FALSE,
                                           !.configuration = measured]
    OBVIOUS
  <2>6. /\ report \in VoiceReports /\ report.combination = c
        /\ report.version = reports[r].version /\ report.status = status
        /\ report.configuration = measured
    BY <1>4, <2>2, <2>4, <2>5 DEF VoiceReports
  <2>7. reports' = [reports EXCEPT ![r] = report]
    BY <1>8, <2>3, <2>4, <2>5
  <2>8. PICK connection : connection =
            [status |-> IF status = "passed" THEN "prepared" ELSE "unavailable",
             request |-> Null, configuration |-> measured]
    OBVIOUS
  <2>9. connection \in Connections /\ connection.configuration = measured
    BY <2>3, <2>8 DEF Connections
  <2>10. PICK given : given = [row EXCEPT
                        !.active = Null, !.connection = connection,
                        !.enabled = IF status = "passed" THEN row.enabled ELSE Null,
                        !.enabled_by = IF status = "passed" THEN row.enabled_by ELSE Null]
    OBVIOUS
  <2>11. /\ given \in VoiceRows /\ given.active = Null /\ given.connection = connection
         /\ given.enabled = IF status = "passed" THEN row.enabled ELSE Null
         /\ given.version = row.version
    BY <2>9, <2>10 DEF VoiceRows
  <2>12. PICK next : next = IF row.active # r THEN row ELSE given
    OBVIOUS
  <2>13. next \in VoiceRows /\ combinations' = [combinations EXCEPT ![c] = next]
    BY <1>8, <2>3, <2>8, <2>10, <2>11, <2>12
  <2>14. Sound(c, next, reports')
    BY <1>0, <1>1, <1>3, <1>4, <1>6, <2>2, <2>6, <2>7, <2>9, <2>11, <2>12, VerdictsAreSound
  <2>15. /\ Len(reports') = Len(reports) /\ reports' \in Seq(VoiceReports)
         /\ reports'[r] = report
         /\ \A s \in 1 .. Len(reports) : s # r => reports'[s] = reports[s]
    BY <1>1, <2>6, <2>7
  <2>16. ASSUME NEW b \in Combinations PROVE Sound(b, combinations'[b], reports')
    <3>1. CASE b = c
      BY <1>0, <2>13, <2>14, <3>1 DEF VoiceTables
    <3>2. CASE b # c
      <4>1. combinations'[b] = combinations[b] /\ Sound(b, combinations[b], reports)
        BY <1>0, <2>13, <3>2 DEF VoiceTables, VoicesInv
      <4> QED
        BY <1>4, <2>6, <2>15, <3>2, <4>1, OthersStaySound
    <3> QED
      BY <3>1, <3>2
  <2>17. ASSUME NEW p \in runs, p # run PROVE Reserves(p, reports')
    <3>1. Reserves(p, reports)
      BY DEF VoicesInv
    <3>2. run.at \in 1 .. Len(run.reserved)
      BY <1>1 DEF Reserves
    <3>3. \A i \in 1 .. Len(p.reserved) : p.reserved[i] # r
      BY <1>3, <2>17, <3>2 DEF VoicesInv, Disjoint
    <3> QED
      BY <2>15, <3>1, <3>3 DEF Reserves
  <2>18. CASE runs' = runs \ {run}
    BY <1>0, <1>1, <2>13, <2>15, <2>16, <2>17, <2>18, RunsStayDisjoint DEF VoicesInv, VoiceTables
  <2>19. CASE /\ run.at # Len(run.reserved)
              /\ runs' = (runs \ {run}) \cup
                    {[run EXCEPT !.at = @ + 1, !.phase = "reserved", !.expected = Null, !.since = 0]}
    <3>1. PICK after : after = [run EXCEPT !.at = @ + 1, !.phase = "reserved", !.expected = Null,
                                           !.since = 0]
      OBVIOUS
    <3>2. /\ after \in VoiceRuns /\ after.reserved = run.reserved /\ after.at = run.at + 1
          /\ after.phase = "reserved"
      <4>1. run.at + 1 \in Nat /\ Null \in Configurations
        BY <1>2 DEF Configurations
      <4> QED
        BY <1>1, <3>1, <4>1 DEF VoiceRuns
    <3>3. Reserves(after, reports')
      <4>1. after.at \in 1 .. Len(after.reserved)
        BY <1>1, <1>2, <2>19, <3>2 DEF Reserves
      <4>2. ASSUME NEW i \in 1 .. Len(run.reserved)
            PROVE  /\ run.reserved[i] \in 1 .. Len(reports')
                   /\ i >= run.at + 1 => reports'[run.reserved[i]].status = "running"
        <5>1. i >= run.at + 1 => run.reserved[i] # r
          <6>1. run.at \in 1 .. Len(run.reserved)
            BY <1>1 DEF Reserves
          <6>2. run.reserved[i] = r => i = run.at
            BY <1>3, <6>1 DEF VoicesInv, Disjoint
          <6> QED
            BY <1>2, <6>2
        <5> QED
          BY <1>1, <1>2, <2>15, <5>1 DEF Reserves
      <4> QED
        BY <3>2, <4>1, <4>2 DEF Reserves
    <3>4. runs' = (runs \ {run}) \cup {after}
      BY <2>19, <3>1
    <3>5. Disjoint(runs')
      BY <3>2, <3>4, RunsStayDisjoint DEF VoicesInv
    <3> QED
      BY <1>0, <1>1, <2>13, <2>15, <2>16, <2>17, <3>2, <3>3, <3>4, <3>5 DEF VoicesInv, VoiceTables
  <2> QED
    BY <1>8, <2>18, <2>19
<1>9. \/ runs' = (runs \ {run}) \cup {[run EXCEPT !.phase = "raised"]}
         /\ UNCHANGED <<combinations, reports>>
      \/ \E configuration \in Voices!Measured(run) :
           LET status == Voices!Verdict(run, configuration) IN
           /\ reports' = [reports EXCEPT ![r] =
                [@ EXCEPT !.status = status, !.expired = FALSE,
                          !.configuration = IF status = "passed" THEN configuration ELSE Null]]
           /\ combinations' = [combinations EXCEPT ![c] =
                IF row.active # r THEN row
                ELSE [row EXCEPT
                        !.active = Null,
                        !.connection = [status |-> IF status = "passed" THEN "prepared"
                                                   ELSE "unavailable",
                                        request |-> Null,
                                        configuration |-> IF status = "passed" THEN configuration
                                                          ELSE Null],
                        !.enabled = IF status = "passed" THEN row.enabled ELSE Null,
                        !.enabled_by = IF status = "passed" THEN row.enabled_by ELSE Null]]
           /\ IF run.at = Len(run.reserved) THEN runs' = runs \ {run}
              ELSE runs' = (runs \ {run}) \cup
                 {[run EXCEPT !.at = @ + 1, !.phase = "reserved", !.expected = Null, !.since = 0]}
  BY <1>3, <1>4, <1>5 DEF Voices!Finish, Voices!Goes, Voices!rows
<1> QED
  BY <1>7, <1>8, <1>9

LEMMA RunsAbandon ==
    ASSUME VerdictsAssumption, VoicesInv, NEW run \in runs, Voices!Abandon(run)
    PROVE  VoicesInv'
<1>0. /\ VoiceTables /\ reports \in Seq(VoiceReports) /\ Len(reports) \in Nat
      /\ UNCHANGED <<checks, revision, choice, asked>> /\ runs' = runs \ {run}
  <2>1. VoiceTables /\ reports \in Seq(VoiceReports)
    BY DEF VoicesInv, VoiceTables
  <2>2. UNCHANGED <<checks, revision, choice, asked>> /\ runs' = runs \ {run}
    BY DEF Voices!Abandon
  <2> QED
    BY <2>1, <2>2
<1>1. PICK mine : mine = {run.reserved[i] : i \in 1 .. Len(run.reserved)}
  OBVIOUS
<1>2. reports' = [r \in 1 .. Len(reports) |->
          IF r \in mine /\ reports[r].status = "running"
          THEN [reports[r] EXCEPT !.status = "blocked"] ELSE reports[r]]
  BY <1>1 DEF Voices!Abandon, Voices!Running
<1>3. \A r \in 1 .. Len(reports) :
          reports[r] \in VoiceReports /\ [reports[r] EXCEPT !.status = "blocked"] \in VoiceReports
  <2> SUFFICES ASSUME NEW r \in 1 .. Len(reports)
               PROVE  reports[r] \in VoiceReports /\ [reports[r] EXCEPT !.status = "blocked"] \in VoiceReports
    OBVIOUS
  <2>1. reports[r] \in VoiceReports
    BY <1>0
  <2> QED
    BY <2>1 DEF VoiceReports
<1>4. reports' \in Seq(VoiceReports) /\ Len(reports') = Len(reports)
  BY <1>0, <1>2, <1>3
<1>5. ASSUME NEW r \in 1 .. Len(reports)
      PROVE  /\ reports'[r].combination = reports[r].combination
             /\ reports'[r].version = reports[r].version
             /\ reports'[r].status = "running" => r \notin mine
             /\ r \notin mine \/ reports[r].status # "running" => reports'[r] = reports[r]
  BY <1>2, <1>3 DEF VoiceReports
<1>6. ASSUME NEW c \in Combinations, combinations[c].active \in mine
      PROVE  combinations'[c] \in VoiceRows /\ Sound(c, combinations'[c], reports')
  <2>1. PICK old \in VoiceRows : old = combinations[c] /\ Sound(c, old, reports)
    BY <1>0 DEF VoiceTables, VoicesInv
  <2>2. PICK row : row = [old EXCEPT !.active = Null, !.enabled = Null, !.enabled_by = Null]
    OBVIOUS
  <2>3. row \in VoiceRows /\ row.active = Null /\ row.enabled = Null
    BY <2>2 DEF VoiceRows
  <2>4. combinations'[c] = row
    BY <1>1, <1>6, <2>1, <2>2 DEF Voices!Abandon
  <2>5. \A r \in 1 .. Len(reports') :
           ~ (reports'[r].combination = c /\ reports'[r].status = "running" /\ ~ reports'[r].expired)
    BY <1>4, <1>5, <1>6, <2>1 DEF Sound, Exclusive
  <2> QED
    BY <2>3, <2>4, <2>5, IdleIsSound
<1>7. ASSUME NEW c \in Combinations, combinations[c].active \notin mine
      PROVE  combinations'[c] \in VoiceRows /\ Sound(c, combinations'[c], reports')
  <2>1. PICK row \in VoiceRows : row = combinations[c] /\ Sound(c, row, reports)
    BY <1>0 DEF VoiceTables, VoicesInv
  <2>2. combinations'[c] = row
    BY <1>1, <1>7, <2>1 DEF Voices!Abandon
  <2>3. Holds(c, row, reports')
    BY <1>4, <1>5, <1>7, <2>1 DEF Sound, Holds
  <2>4. Exclusive(c, row, reports')
    BY <1>4, <1>5, <2>1 DEF Sound, Exclusive
  <2>5. Enabled(c, row, reports')
    <3> SUFFICES ASSUME row.enabled # Null PROVE Enabled(c, row, reports')
      BY DEF Enabled
    <3>1. PICK e \in 1 .. Len(reports) : e = row.enabled
      BY <2>1 DEF Sound, Enabled
    <3>2. reports[e].status = "passed" /\ reports'[e] = reports[e]
      BY <1>5, <2>1, <3>1 DEF Sound, Enabled
    <3>3. ASSUME NEW r \in 1 .. Len(reports), r > e, reports[r].combination = c,
                 reports[r].version = row.version
          PROVE  reports'[r] = reports[r]
      BY <1>5, <1>7, <2>1, <3>1, <3>3 DEF Sound, Enabled
    <3> QED
      BY <1>4, <1>5, <2>1, <3>1, <3>2, <3>3 DEF Sound, Enabled
  <2> QED
    BY <2>1, <2>2, <2>3, <2>4, <2>5 DEF Sound
<1>8. combinations' \in [Combinations -> VoiceRows]
  <2>1. combinations' = [c \in Combinations |-> combinations'[c]]
    BY DEF Voices!Abandon
  <2> QED
    BY <1>6, <1>7, <2>1
<1>9. (\A c \in Combinations : Sound(c, combinations[c], reports))'
  BY <1>6, <1>7
<1>10. ASSUME NEW p \in runs, p # run PROVE Reserves(p, reports')
  <2>1. \A i \in 1 .. Len(p.reserved) : p.reserved[i] \notin mine
    BY <1>1, <1>10 DEF VoicesInv, Disjoint
  <2>2. Reserves(p, reports)
    BY DEF VoicesInv
  <2> QED
    BY <1>4, <1>5, <2>1, <2>2 DEF Reserves
<1>11. Disjoint(runs')
  BY <1>0, RunsStayDisjoint DEF VoicesInv
<1> QED
  BY <1>0, <1>4, <1>8, <1>9, <1>10, <1>11 DEF VoicesInv, VoiceTables

LEMMA ReportsExpire ==
    ASSUME VerdictsAssumption, VoicesInv, NEW r \in 1 .. Len(reports), Voices!Expires(r)
    PROVE  VoicesInv'
<1>0. /\ VoiceTables /\ reports \in Seq(VoiceReports) /\ Len(reports) \in Nat
      /\ UNCHANGED <<combinations, runs, checks, revision, choice, asked>>
  BY DEF VoicesInv, VoiceTables, Voices!Expires
<1>1. PICK old \in VoiceReports : old = reports[r]
  BY <1>0
<1>2. PICK report : report = [old EXCEPT !.expired = TRUE]
  OBVIOUS
<1>3. /\ report \in VoiceReports /\ report.expired
      /\ report.combination = old.combination /\ report.version = old.version
      /\ report.status = old.status /\ report.configuration = old.configuration
  BY <1>2 DEF VoiceReports
<1>4. reports' = [reports EXCEPT ![r] = report]
  BY <1>0, <1>1, <1>2 DEF Voices!Expires
<1>5. reports' \in Seq(VoiceReports) /\ Len(reports') = Len(reports)
  BY <1>0, <1>3, <1>4
<1>6. \A s \in 1 .. Len(reports) :
         /\ reports'[s].combination = reports[s].combination
         /\ reports'[s].version = reports[s].version
         /\ reports'[s].status = reports[s].status
         /\ reports'[s].configuration = reports[s].configuration
         /\ ~ reports'[s].expired => ~ reports[s].expired
  BY <1>0, <1>1, <1>3, <1>4
<1>7. ASSUME NEW c \in Combinations PROVE Sound(c, combinations'[c], reports')
  <2>1. PICK row : row = combinations[c] /\ Sound(c, row, reports)
    BY DEF VoicesInv
  <2>2. Holds(c, row, reports') /\ Exclusive(c, row, reports')
    BY <1>5, <1>6, <2>1 DEF Sound, Holds, Exclusive
  <2>3. Enabled(c, row, reports')
    BY <1>5, <1>6, <2>1 DEF Sound, Enabled
  <2> QED
    BY <1>0, <2>1, <2>2, <2>3 DEF Sound
<1>8. (\A run \in runs : Reserves(run, reports))'
  BY <1>0, <1>5, <1>6 DEF VoicesInv, Reserves
<1> QED
  BY <1>0, <1>5, <1>7, <1>8 DEF VoicesInv, VoiceTables

LEMMA TestsBegin ==
    ASSUME VerdictsAssumption, VoicesInv, Voices!Compare \/ Voices!ActivityTest
    PROVE  VoicesInv'
<1>1. CASE Voices!Compare
  <2>1. PICK actor \in VoiceAdmins, n \in 1 .. Voices!Cardinality(Combinations) :
          \E members \in [1 .. n -> Combinations] :
             /\ \A i, j \in 1 .. n : members[i] = members[j] => i = j
             /\ Voices!Reserve(actor, members, TRUE)
    BY <1>1 DEF Voices!Compare
  <2>2. n \in Nat /\ n > 0
    BY <2>1
  <2>3. PICK members \in [1 .. n -> Combinations] :
             /\ \A i, j \in 1 .. n : members[i] = members[j] => i = j
             /\ Voices!Reserve(actor, members, TRUE)
    BY <2>1
  <2>4. members \in Seq(Combinations) /\ Len(members) = n
    BY <2>2
  <2> QED
    BY <2>2, <2>3, <2>4, TestsReserved
<1>2. CASE Voices!ActivityTest
  <2>1. PICK actor \in VoiceAdmins \cup Operators :
          Voices!Current /\ Voices!Reserve(actor, <<choice.combination>>, FALSE)
    BY <1>2 DEF Voices!ActivityTest
  <2>2. PICK c \in Combinations : c = choice.combination /\ Voices!Fresh(combinations[c])
    BY <2>1 DEF Voices!Current, VoicesInv, VoiceTables
  <2>3. PICK members : members = <<c>>
    OBVIOUS
  <2>4. members \in Seq(Combinations) /\ Len(members) = 1 /\ members[1] = c
    BY <2>3
  <2>5. PICK revoke \in BOOLEAN : ~ revoke /\ Voices!Reserve(actor, members, revoke)
    BY <2>1, <2>2, <2>3
  <2>6. \A i \in 1 .. Len(members) : i = 1
    BY <2>4
  <2>7. \A i \in 1 .. Len(members) : Voices!Fresh(combinations[members[i]])
    BY <2>2, <2>4, <2>6
  <2>8. Len(members) > 0
        /\ \A i, j \in 1 .. Len(members) : members[i] = members[j] => i = j
    BY <2>4, <2>6
  <2> QED
    BY <2>4, <2>5, <2>7, <2>8, TestsReserved
<1> QED
  BY <1>1, <1>2

LEMMA VoicesNext ==
    ASSUME VerdictsAssumption, VoicesInv, [Voices!Next]_(Voices!vars)
    PROVE  VoicesInv'
<1>1. CASE \E c \in Combinations, actor \in VoiceAdmins \cup Operators : Voices!Bind(c, actor)
  BY <1>1, TablesKeepVoices DEF Voices!Bind, Voices!rows, VoicesInv, VoiceTables
<1>2. CASE Voices!ModelsChange
  BY <1>2, TablesKeepVoices DEF Voices!ModelsChange, Voices!rows, VoicesInv, VoiceTables
<1>3. CASE \E actor \in VoiceAdmins \cup Operators : Voices!MembershipChanges(actor)
  BY <1>3, TablesKeepVoices DEF Voices!MembershipChanges, Voices!rows, VoicesInv, VoiceTables
<1>4. CASE \E run \in runs : Voices!RunCrashes(run)
  BY <1>4, TablesKeepVoices, RunsStayDisjoint
  DEF Voices!RunCrashes, Voices!rows, VoicesInv, VoiceTables
<1>5. CASE \E check \in checks : Voices!CheckCrashes(check)
  BY <1>5, TablesKeepVoices DEF Voices!CheckCrashes, Voices!rows, VoicesInv, VoiceTables
<1>6. CASE UNCHANGED <<combinations, reports, runs, checks, revision, revoked, choice, asked>>
  BY <1>6, TablesKeepVoices DEF VoicesInv, VoiceTables
<1> QED
  BY <1>1, <1>2, <1>3, <1>4, <1>5, <1>6, CombinationsSaved, ConnectionsStart, ConnectionsEnd,
     CombinationsEnabled, TestsBegin, RunsRecheck, RunsFinish, RunsAbandon, ReportsExpire
  DEF Voices!Next, Voices!vars

LEMMA VerdictsStand ==
    ASSUME VerdictsAssumption, VoicesInv
    PROVE  Voices!NoVerdictAgainst /\ Voices!TestsAreExclusive
<1>1. ASSUME NEW c \in Combinations, Voices!Fresh(combinations[c]),
             NEW r \in (combinations[c].enabled + 1) .. Len(reports),
             reports[r].combination = c, reports[r].version = combinations[c].version
      PROVE  \/ reports[r].status = "running" /\ combinations[c].active = r
             \/ /\ reports[r].status = "passed"
                /\ reports[r].configuration = reports[combinations[c].enabled].configuration
  <2>1. PICK row : row = combinations[c] /\ Sound(c, row, reports)
    BY DEF VoicesInv
  <2>2. PICK e \in 1 .. Len(reports) : e = row.enabled
    BY <1>1, <2>1 DEF Sound, Enabled, Voices!Fresh
  <2>3. row.enabled # Null /\ row.connection.configuration = reports[e].configuration
    BY <1>1, <2>1, <2>2 DEF Voices!Fresh
  <2>4. r \in 1 .. Len(reports) /\ r > e
    BY <1>1, <2>1, <2>2 DEF VoicesInv, VoiceTables
  <2> QED
    BY <1>1, <2>1, <2>2, <2>3, <2>4 DEF Sound, Enabled
<1>2. ASSUME NEW r \in 1 .. Len(reports), reports[r].status = "running", ~ reports[r].expired
      PROVE  LET row == combinations[reports[r].combination] IN
             /\ row.active = r /\ row.version = reports[r].version
             /\ row.connection.status # "checking"
  <2>1. reports[r] \in VoiceReports
    BY DEF VoicesInv, VoiceTables
  <2>2. PICK c \in Combinations : c = reports[r].combination
    BY <2>1 DEF VoiceReports
  <2> QED
    BY <1>2, <2>2 DEF VoicesInv, Sound, Exclusive
<1> QED
  BY <1>1, <1>2 DEF Voices!NoVerdictAgainst, Voices!TestsAreExclusive, Voices!Running

\* A combination that may be used has no later verdict against it, and a test in its time
\* owns its combination, whatever is saved, checked, enabled, tested and changed on the host
\* while the host is asked.
THEOREM VerdictsAreHeld == VerdictsSpec => []VerdictsHold
<1>1. VerdictsInit => VoicesInv
  BY VerdictsParts, VoicesBegin, VerdictsAssumption
<1>2. VoicesInv /\ [VerdictsNext]_<<evidenceVars, historyVars, voiceVars, subject>> => VoicesInv'
  BY VerdictsParts, VoicesNext, VerdictsAssumption
<1>3. VoicesInv => VerdictsHold
  BY VerdictsStand, VerdictsAssumption DEF VerdictsHold
<1> QED
  BY <1>1, <1>2, <1>3, PTL DEF VerdictsSpec

=============================================================================
