-------------------------- MODULE GovernanceProofs --------------------------
(***************************************************************************)
(* Proofs about the governance contract and the credit oracle's weights:   *)
(* what holds from uninitialised contracts on (Spec), and what holds from  *)
(* the end of the deployment sequence on (DeployedSpec).  The total of     *)
(* the registered weights and the tallies of the proposals are sums over   *)
(* all voters; the laws they need are in SumTheorems.                      *)
(***************************************************************************)
EXTENDS Governance, SumTheorems, TLAPS

\* The weights set by initialize are valid.
LEMMA DefaultTyped == DefaultWeights \in ScoringWeights /\ IsValid(DefaultWeights)
  BY DEF DefaultWeights, ScoringWeights, IsValid, MIN_COMPONENT_WEIGHT

\* Both initial states are well typed.
LEMMA InitTyped == Init \/ DeployedInit => TypeOK
<1>0. 1 \in 1..MAX_U32
  BY OracleAssumption
<1>1. ASSUME Init PROVE OracleTypeOK
  BY <1>0, <1>1 DEF Init, OracleInit, OracleTypeOK, Address
<1>2. ASSUME DeployedInit PROVE OracleTypeOK
  BY <1>0, <1>2, DefaultTyped DEF DeployedInit, OracleTypeOK, Address
<1>3. ASSUME Init PROVE GovTypeOK
  BY <1>3, GovernanceAssumption, OracleAssumption DEF Init, GovInit, GovTypeOK, ProposalId
<1>4. ASSUME DeployedInit PROVE GovTypeOK
  BY <1>4, GovernanceAssumption, OracleAssumption DEF DeployedInit, GovTypeOK, ProposalId
<1>5. QED
  BY <1>1, <1>2, <1>3, <1>4 DEF TypeOK

\* An operation of the oracle keeps the oracle's types.
LEMMA OracleStepTyped ==
  ASSUME OracleTypeOK,
         \/ OracleNext
         \/ OracleAcceptAdmin(Gov)
         \/ \E w \in ScoringWeights : ProposeWeights(Gov, w)
  PROVE  OracleTypeOK'
<1>1. ASSUME NEW a \in Account, OracleInitialize(a) PROVE OracleTypeOK'
  BY <1>1, DefaultTyped DEF OracleInitialize, OracleTypeOK, Address
<1>2. ASSUME NEW a \in Address, OracleAcceptAdmin(a) PROVE OracleTypeOK'
  BY <1>2 DEF OracleAcceptAdmin, OracleTypeOK, Address, oracleWeights
<1>3. ASSUME NEW a, NEW w \in ScoringWeights, ProposeWeights(a, w) PROVE OracleTypeOK'
  <2>1. ledger + TIMELOCK_LEDGERS \in Nat
    BY OracleAssumption DEF OracleTypeOK
  <2>2. QED
    BY <1>3, <2>1 DEF ProposeWeights, OracleTypeOK, oracleRole
<1>4. ASSUME NEW a \in Address, OracleProposeNewAdmin(a) PROVE OracleTypeOK'
  BY <1>4 DEF OracleProposeNewAdmin, OracleTypeOK, oracleWeights
<1>5. ASSUME NEW b \in BOOLEAN, OracleSetPaused(b) PROVE OracleTypeOK'
  BY <1>5 DEF OracleSetPaused, OracleTypeOK, oracleWeights, oracleRole
<1>6. ASSUME OracleApplyWeights PROVE OracleTypeOK'
  BY <1>6 DEF OracleApplyWeights, OracleTypeOK, oracleRole
<1>7. ASSUME Tick PROVE OracleTypeOK'
  BY <1>7, OracleAssumption DEF Tick, OracleTypeOK, oracleVars, oracleRole, oracleWeights
<1>8. QED
  BY <1>1, <1>2, <1>3, <1>4, <1>5, <1>6, <1>7, OracleAssumption
    DEF OracleNext, Address

\* A step that leaves the oracle alone keeps its types.
LEMMA OracleUnchangedTyped == OracleTypeOK /\ UNCHANGED <<oracleVars, ledger>> => OracleTypeOK'
  BY DEF OracleTypeOK, oracleVars, oracleRole, oracleWeights

\* A step that leaves governance alone keeps its types.
LEMMA GovUnchangedTyped == GovTypeOK /\ UNCHANGED govVars => GovTypeOK'
  BY DEF GovTypeOK, govVars, govSettings, govVoters, govProposals

\* A proposal with other votes or marks is still a proposal.
LEMMA ProposalTyped ==
  ASSUME NEW q \in Proposal, NEW n \in Nat, NEW m \in Nat, NEW b \in BOOLEAN
  PROVE  /\ [q EXCEPT !.votesFor = n, !.votesAgainst = m] \in Proposal
         /\ [q EXCEPT !.executed = b] \in Proposal
         /\ [q EXCEPT !.cancelled = b] \in Proposal
  BY DEF Proposal

\* No storage entry of the two contracts ever holds a value outside its type.
LEMMA StepTyped == TypeOK /\ [Next]_vars => TypeOK'
<1> SUFFICES ASSUME TypeOK, [Next]_vars PROVE TypeOK'
  OBVIOUS
<1> USE DEF TypeOK
<1>1. CASE OracleNext /\ UNCHANGED govVars
  BY <1>1, OracleStepTyped, GovUnchangedTyped
<1>2. CASE ApplyWeights
  BY <1>2, OracleStepTyped, GovUnchangedTyped DEF ApplyWeights, OracleNext
<1>3. CASE AcceptOracleAdmin
  BY <1>3, OracleStepTyped, GovUnchangedTyped DEF AcceptOracleAdmin
<1>4. CASE SettingsNext
  <2>1. ASSUME NEW a \in Account, NEW q \in Quorums, GovInitialize(a, q) PROVE TypeOK'
    BY <2>1, OracleUnchangedTyped, GovernanceAssumption
      DEF GovInitialize, GovTypeOK, govVoters
  <2>2. ASSUME NEW q \in Quorums, SetQuorum(q) PROVE TypeOK'
    BY <2>2, OracleUnchangedTyped, GovernanceAssumption
      DEF SetQuorum, GovTypeOK, govVoters, govProposals
  <2>3. ASSUME NEW c \in Percents, SetQuorumPercent(c) PROVE TypeOK'
    BY <2>3, OracleUnchangedTyped DEF SetQuorumPercent, GovTypeOK, govVoters, govProposals
  <2>4. ASSUME NEW v \in Voter, NEW n \in Nat, SetWeight(v, n) PROVE TypeOK'
    <3>1. totalRegisteredWeight - voterWeight[v] + n \in Int
      BY DEF GovTypeOK
    <3>2. QED
      BY <2>4, <3>1, OracleUnchangedTyped DEF SetWeight, GovTypeOK, govSettings, govProposals
  <2>5. QED
    BY <1>4, <2>1, <2>2, <2>3, <2>4, GovernanceAssumption
      DEF SettingsNext, RegisterVoter, UpdateVoterWeight, DeregisterVoter
<1>5. CASE ProposalNext
  <2>1. ASSUME NEW a \in Account, NEW w \in WeightInputs, NEW n \in Periods, NEW d \in Delays,
               CreateProposal(a, w, n, d)
        PROVE  TypeOK'
    <3>1. SnapshotQuorum \in Int
      <4>1. totalRegisteredWeight * quorumPercent \in Int
        BY DEF GovTypeOK
      <4>2. (totalRegisteredWeight * quorumPercent) \div 100 \in Int
        BY <4>1
      <4>3. QED
        BY <4>2 DEF GovTypeOK, SnapshotQuorum
    <3>2. ledger + n \in Nat /\ d \in Nat /\ w \in ScoringWeights
      BY OracleAssumption, GovernanceAssumption DEF OracleTypeOK
    <3>3. [proposer |-> a, weights |-> w, votesFor |-> 0, votesAgainst |-> 0,
           expiry |-> ledger + n, delay |-> d, quorum |-> SnapshotQuorum,
           executed |-> FALSE, cancelled |-> FALSE] \in Proposal
      BY <3>1, <3>2 DEF Proposal
    <3>4. proposals' \in [ProposalId -> Proposal \cup {None}]
      BY <2>1, <3>3 DEF CreateProposal, GovTypeOK
    <3>5. nextProposalId' \in 1..(MaxProposals + 1)
      BY <2>1, GovernanceAssumption DEF CreateProposal, GovTypeOK, ProposalId
    <3>6. QED
      BY <2>1, <3>4, <3>5, OracleUnchangedTyped DEF CreateProposal, GovTypeOK, govSettings, govVoters
  <2>2. ASSUME NEW id \in ProposalId, NEW v \in Voter, NEW b \in BOOLEAN, NEW n \in VoteSteps,
               Vote(v, id, b, n)
        PROVE  TypeOK'
    <3> DEFINE q == proposals[id]
               f == IF b THEN q.votesFor + n ELSE q.votesFor
               g == IF b THEN q.votesAgainst ELSE q.votesAgainst + n
    <3>1. q \in Proposal
      BY <2>2 DEF Vote, MayVote, Open, Exists, GovTypeOK
    <3>2. n \in Nat /\ f \in Nat /\ g \in Nat
      BY <3>1, GovernanceAssumption DEF Proposal
    <3>3. proposals' = [proposals EXCEPT ![id] = [q EXCEPT !.votesFor = f, !.votesAgainst = g]]
      BY <2>2, <3>1 DEF Vote, GovTypeOK, Proposal
    <3>4. [q EXCEPT !.votesFor = f, !.votesAgainst = g] \in Proposal
      BY <3>1, <3>2 DEF Proposal
    <3>5. proposals' \in [ProposalId -> Proposal \cup {None}]
      BY <3>3, <3>4 DEF GovTypeOK
    <3>6. voteWeightUsed' \in [ProposalId -> [Voter -> Nat]]
      BY <2>2, <3>2 DEF Vote, GovTypeOK
    <3>7. QED
      BY <2>2, <3>5, <3>6, OracleUnchangedTyped DEF Vote, GovTypeOK, govSettings, govVoters
  <2>3. ASSUME NEW id \in ProposalId, Execute(id) PROVE TypeOK'
    <3>1. proposals[id] \in Proposal
      BY <2>3 DEF Execute, MayExecute, Open, Exists, GovTypeOK
    <3>2. proposals[id].weights \in ScoringWeights
      BY <3>1 DEF Proposal
    <3>3. OracleTypeOK'
      BY <2>3, <3>2, OracleStepTyped DEF Execute
    <3>4. [proposals[id] EXCEPT !.executed = TRUE] \in Proposal
      BY <3>1, ProposalTyped
    <3>5. proposals' \in [ProposalId -> Proposal \cup {None}]
      BY <2>3, <3>4 DEF Execute, GovTypeOK
    <3>6. QED
      BY <2>3, <3>3, <3>5 DEF Execute, GovTypeOK, govSettings, govVoters
  <2>4. ASSUME NEW id \in ProposalId, NEW vs \in SUBSET Voter, CleanupProposalVotes(id, vs)
        PROVE  TypeOK'
    BY <2>4, OracleUnchangedTyped DEF CleanupProposalVotes, GovTypeOK, govSettings, govVoters
  <2>5. ASSUME NEW id \in ProposalId, NEW a \in Account, CancelProposal(a, id) PROVE TypeOK'
    <3>1. [proposals[id] EXCEPT !.cancelled = TRUE] \in Proposal
      BY <2>5, ProposalTyped DEF CancelProposal, Open, Exists, GovTypeOK
    <3>2. proposals' \in [ProposalId -> Proposal \cup {None}]
      BY <2>5, <3>1 DEF CancelProposal, GovTypeOK
    <3>3. QED
      BY <2>5, <3>2, OracleUnchangedTyped DEF CancelProposal, GovTypeOK, govSettings, govVoters
  <2>6. QED
    BY <1>5, <2>1, <2>2, <2>3, <2>4, <2>5 DEF ProposalNext
<1>6. CASE UNCHANGED vars
  BY <1>6, OracleUnchangedTyped, GovUnchangedTyped DEF vars
<1>7. QED
  BY <1>1, <1>2, <1>3, <1>4, <1>5, <1>6 DEF Next

\* Every storage entry of the two contracts keeps its type in every execution
\* (DataKey of both contracts).
THEOREM TypeCorrect == Spec => []TypeOK
  BY InitTyped, StepTyped, PTL DEF Spec

-----------------------------------------------------------------------------
(* From deployment on: what the oracle's own entries satisfy.              *)

\* How a step may touch the oracle: by one of its own operations, by the
\* execution of a proposal or by accept_oracle_admin.
LEMMA OracleSteps ==
  ASSUME [Next]_vars
  PROVE  \/ OracleNext
         \/ OracleAcceptAdmin(Gov)
         \/ \E id \in ProposalId : Execute(id)
         \/ UNCHANGED <<oracleVars, ledger>>
<1>1. CASE OracleNext \/ ApplyWeights \/ AcceptOracleAdmin
  BY <1>1 DEF ApplyWeights, AcceptOracleAdmin, OracleNext
<1>2. CASE SettingsNext
  BY <1>2 DEF SettingsNext, GovInitialize, SetQuorum, SetQuorumPercent, RegisterVoter,
              UpdateVoterWeight, DeregisterVoter, SetWeight
<1>3. CASE ProposalNext
  BY <1>3 DEF ProposalNext, CreateProposal, Vote, CleanupProposalVotes, CancelProposal
<1>4. CASE UNCHANGED vars
  BY <1>4 DEF vars
<1>5. QED
  BY <1>1, <1>2, <1>3, <1>4 DEF Next

\* Weights and their effective ledger are written and removed together.
LEMMA PendingStep == TypeOK /\ PendingPaired /\ [Next]_vars => PendingPaired'
<1> SUFFICES ASSUME TypeOK, PendingPaired, [Next]_vars PROVE PendingPaired'
  OBVIOUS
<1> USE DEF PendingPaired
<1>0. /\ ledger \in Nat /\ TIMELOCK_LEDGERS \in Nat
      /\ pendingEffective # None => pendingEffective \in Nat
  BY OracleAssumption DEF TypeOK, OracleTypeOK
<1>1. ASSUME NEW a, NEW w \in ScoringWeights, ProposeWeights(a, w) PROVE PendingPaired'
  <2>1. w # None /\ IsValid(w)
    BY <1>1, OracleAssumption DEF ProposeWeights
  <2>2. pendingEffective' # None
    BY <1>0, <1>1, OracleAssumption DEF ProposeWeights
  <2>3. ledger' = ledger /\ pendingEffective' <= ledger' + TIMELOCK_LEDGERS
    BY <1>0, <1>1 DEF ProposeWeights
  <2>4. QED
    BY <1>1, <2>1, <2>2, <2>3 DEF ProposeWeights
<1>2. CASE OracleNext
  <2>1. ASSUME Tick PROVE PendingPaired'
    BY <1>0, <2>1 DEF Tick, oracleVars, oracleWeights
  <2>2. ASSUME OracleApplyWeights PROVE PendingPaired'
    BY <2>2 DEF OracleApplyWeights
  <2>3. QED
    BY <1>1, <1>2, <2>1, <2>2, OracleAssumption
      DEF OracleNext, OracleInitialize, OracleAcceptAdmin, OracleProposeNewAdmin,
          OracleSetPaused, oracleWeights
<1>3. CASE OracleAcceptAdmin(Gov)
  BY <1>3 DEF OracleAcceptAdmin, oracleWeights
<1>4. ASSUME NEW id \in ProposalId, Execute(id) PROVE PendingPaired'
  <2>1. proposals[id].weights \in ScoringWeights
    BY <1>4 DEF Execute, MayExecute, Open, Exists, TypeOK, GovTypeOK, Proposal
  <2>2. QED
    BY <1>1, <1>4, <2>1 DEF Execute
<1>5. CASE UNCHANGED <<oracleVars, ledger>>
  BY <1>5 DEF oracleVars, oracleWeights
<1>6. QED
  BY <1>2, <1>3, <1>4, <1>5, OracleSteps

\* propose_weights, apply_weights: get_pending_weights never finds weights
\* without an effective ledger, and what waits is valid and waits no longer
\* than the timelock, whoever proposed it and whatever was proposed before.
THEOREM PendingIsPaired == Spec => []PendingPaired
<1>1. Init => PendingPaired
  BY DEF Init, OracleInit, PendingPaired
<1>2. QED
  BY <1>1, TypeCorrect, PendingStep, PTL DEF Spec

\* accept_admin: get_governance names the governance contract exactly while it
\* is the admin, through any sequence of proposed and accepted transfers.
THEOREM GovernanceIdCorrect == Spec => []GovernanceIdTracksAdmin
<1>1. Init => GovernanceIdTracksAdmin
  BY OracleAssumption DEF Init, OracleInit, GovernanceIdTracksAdmin
<1>2. GovernanceIdTracksAdmin /\ [Next]_vars => GovernanceIdTracksAdmin'
  <2> SUFFICES ASSUME GovernanceIdTracksAdmin, [Next]_vars PROVE GovernanceIdTracksAdmin'
    OBVIOUS
  <2> USE DEF GovernanceIdTracksAdmin
  <2>1. CASE OracleNext
    <3>1. ASSUME NEW a \in Account, OracleInitialize(a) PROVE GovernanceIdTracksAdmin'
      BY <3>1, OracleAssumption DEF OracleInitialize
    <3>2. ASSUME NEW a \in Account, OracleAcceptAdmin(a) PROVE GovernanceIdTracksAdmin'
      BY <3>2, OracleAssumption DEF OracleAcceptAdmin
    <3>3. QED
      BY <2>1, <3>1, <3>2
        DEF OracleNext, ProposeWeights, OracleProposeNewAdmin, OracleSetPaused,
            OracleApplyWeights, Tick, oracleVars, oracleRole
  <2>2. CASE OracleAcceptAdmin(Gov)
    BY <2>2 DEF OracleAcceptAdmin
  <2>3. ASSUME NEW id \in ProposalId, Execute(id) PROVE GovernanceIdTracksAdmin'
    BY <2>3 DEF Execute, ProposeWeights, oracleRole
  <2>4. CASE UNCHANGED <<oracleVars, ledger>>
    BY <2>4 DEF oracleVars, oracleRole
  <2>5. QED
    BY <2>1, <2>2, <2>3, <2>4, OracleSteps
<1>3. QED
  BY <1>1, <1>2, PTL DEF Spec

\* accept_admin leaves no transfer pending and governance starts none, which
\* is why an account cannot take the role back.
NoPendingTransfer == oracleAdmin = Gov => oraclePendingAdmin = None

\* Under governance no transfer of the admin role is started.
LEMMA PendingTransferStep == NoPendingTransfer /\ [Next]_vars => NoPendingTransfer'
<1> SUFFICES ASSUME NoPendingTransfer, [Next]_vars PROVE NoPendingTransfer'
  OBVIOUS
<1> USE DEF NoPendingTransfer
<1>1. CASE OracleNext
  BY <1>1, OracleAssumption
    DEF OracleNext, OracleInitialize, OracleAcceptAdmin, ProposeWeights, OracleProposeNewAdmin,
        OracleSetPaused, OracleApplyWeights, Tick, oracleVars, oracleRole
<1>2. CASE OracleAcceptAdmin(Gov)
  BY <1>2 DEF OracleAcceptAdmin
<1>3. ASSUME NEW id \in ProposalId, Execute(id) PROVE NoPendingTransfer'
  BY <1>3 DEF Execute, ProposeWeights, oracleRole
<1>4. CASE UNCHANGED <<oracleVars, ledger>>
  BY <1>4 DEF oracleVars, oracleRole
<1>5. QED
  BY <1>1, <1>2, <1>3, <1>4, OracleSteps

\* accept_admin, pause, propose_weights: once governance is the oracle's admin
\* nobody takes the role back, nobody pauses or resumes the oracle, and
\* weights are queued only by the execution of an open proposal.
THEOREM HandoverHolds == Spec => HandoverIrrevocable
<1> DEFINE Kept == oracleAdmin = Gov =>
             /\ oracleAdmin' = Gov
             /\ oraclePaused' = oraclePaused
             /\ pendingWeights' \notin {None, pendingWeights} =>
                  \E id \in ProposalId :
                    Open(id) /\ proposals'[id] # None /\ proposals'[id].executed
<1>1. TypeOK /\ NoPendingTransfer /\ [Next]_vars => Kept
  <2> SUFFICES ASSUME TypeOK, NoPendingTransfer, [Next]_vars, oracleAdmin = Gov PROVE Kept
    OBVIOUS
  <2>1. CASE OracleNext
    <3>1. Gov \notin Account /\ Gov # None /\ None \notin Account
      BY OracleAssumption
    <3>2. /\ \A a \in Account : ~OracleInitialize(a)
          /\ \A a \in Account : ~OracleAcceptAdmin(a)
          /\ \A a \in Account, w \in WeightInputs : ~ProposeWeights(a, w)
          /\ \A a \in Address : ~OracleProposeNewAdmin(a)
          /\ \A b \in BOOLEAN : ~OracleSetPaused(b)
      BY <3>1 DEF OracleInitialize, OracleAcceptAdmin, ProposeWeights,
                  OracleProposeNewAdmin, OracleSetPaused, NoPendingTransfer
    <3>3. QED
      BY <2>1, <3>2
        DEF OracleNext, OracleApplyWeights, Tick, oracleVars, oracleRole, oracleWeights
  <2>2. CASE OracleAcceptAdmin(Gov)
    BY <2>2 DEF OracleAcceptAdmin, oracleWeights
  <2>3. ASSUME NEW id \in ProposalId, Execute(id) PROVE Kept
    <3>1. Open(id) /\ proposals[id] \in Proposal
      BY <2>3 DEF Execute, MayExecute, Open, Exists, TypeOK, GovTypeOK
    <3>2. [proposals[id] EXCEPT !.executed = TRUE] \in Proposal
      BY <3>1, ProposalTyped
    <3>3. proposals'[id] # None /\ proposals'[id].executed
      BY <2>3, <3>1, <3>2, GovernanceAssumption DEF Execute, TypeOK, GovTypeOK, Proposal
    <3>4. QED
      BY <2>3, <3>1, <3>3 DEF Execute, ProposeWeights, oracleRole
  <2>4. CASE UNCHANGED <<oracleVars, ledger>>
    BY <2>4 DEF oracleVars, oracleRole, oracleWeights
  <2>5. QED
    BY <2>1, <2>2, <2>3, <2>4, OracleSteps
<1>2. Init => NoPendingTransfer
  BY DEF Init, OracleInit, NoPendingTransfer
<1>3. QED
  BY <1>1, <1>2, PendingTransferStep, TypeCorrect, PTL DEF Spec, HandoverIrrevocable

-----------------------------------------------------------------------------
(* From the end of the deployment sequence on: proposals and the weights.  *)

\* Governance is in charge, and the ids from NextProposalId on are unused.
Deployed ==
  /\ oracleAdmin = Gov
  /\ govAdmin # None
  /\ \A id \in ProposalId : id >= nextProposalId => proposals[id] = None

\* What a step may make of an existing proposal.
Evolution(id) ==
  \/ proposals'[id] = proposals[id]
  \/ /\ Open(id) /\ ledger <= proposals[id].expiry
     /\ \E f, g \in Nat :
          proposals'[id] = [proposals[id] EXCEPT !.votesFor = f, !.votesAgainst = g]
  \/ /\ MayExecute(id)
     /\ proposals'[id] = [proposals[id] EXCEPT !.executed = TRUE]
  \/ /\ Open(id)
     /\ proposals'[id] = [proposals[id] EXCEPT !.cancelled = TRUE]

\* Under a fresh id, what a step may put: nothing, or an unexecuted proposal.
Birth(id) == proposals'[id] # None => ~proposals'[id].executed

\* What any step makes of a proposal: an existing one evolves as stated, an
\* unused id stays unused or becomes a fresh proposal.
LEMMA ProposalSteps ==
  ASSUME TypeOK, Deployed, [Next]_vars, NEW id \in ProposalId
  PROVE  IF Exists(id) THEN Evolution(id) ELSE Birth(id)
<1> USE DEF TypeOK, GovTypeOK, Exists, Evolution, Birth
<1>1. CASE proposals' = proposals
  BY <1>1
<1>2. ASSUME NEW a \in Account, NEW w \in WeightInputs, NEW n \in Periods, NEW d \in Delays,
             CreateProposal(a, w, n, d)
      PROVE  IF Exists(id) THEN Evolution(id) ELSE Birth(id)
  <2>1. CASE id = nextProposalId
    <3>1. ~Exists(id)
      BY <2>1 DEF Deployed
    <3>2. ~proposals'[id].executed
      BY <1>2, <2>1 DEF CreateProposal
    <3>3. QED
      BY <3>1, <3>2
  <2>2. CASE id # nextProposalId
    BY <1>2, <2>2 DEF CreateProposal
  <2>3. QED
    BY <2>1, <2>2
<1>3. ASSUME NEW k \in ProposalId, NEW v \in Voter, NEW b \in BOOLEAN, NEW n \in VoteSteps,
             Vote(v, k, b, n)
      PROVE  IF Exists(id) THEN Evolution(id) ELSE Birth(id)
  <2> DEFINE q == proposals[k]
             f == IF b THEN q.votesFor + n ELSE q.votesFor
             g == IF b THEN q.votesAgainst ELSE q.votesAgainst + n
  <2>1. Open(k) /\ q \in Proposal /\ ledger <= q.expiry
    BY <1>3 DEF Vote, MayVote, Open
  <2>2. f \in Nat /\ g \in Nat
    BY <2>1, GovernanceAssumption DEF Proposal
  <2>3. proposals' = [proposals EXCEPT ![k] = [q EXCEPT !.votesFor = f, !.votesAgainst = g]]
    BY <1>3, <2>1 DEF Vote, Proposal
  <2>4. CASE id = k
    <3>1. proposals'[id] = [q EXCEPT !.votesFor = f, !.votesAgainst = g]
      BY <2>3, <2>4
    <3> HIDE DEF f, g
    <3>2. QED
      BY <2>1, <2>2, <2>4, <3>1 DEF Open
  <2>5. CASE id # k
    BY <2>3, <2>5
  <2>6. QED
    BY <2>4, <2>5
<1>4. ASSUME NEW k \in ProposalId, Execute(k)
      PROVE  IF Exists(id) THEN Evolution(id) ELSE Birth(id)
  BY <1>4 DEF Execute, MayExecute, Open
<1>5. ASSUME NEW k \in ProposalId, NEW a \in Account, CancelProposal(a, k)
      PROVE  IF Exists(id) THEN Evolution(id) ELSE Birth(id)
  BY <1>5 DEF CancelProposal, Open
<1>6. ASSUME NEW k \in ProposalId, NEW vs \in SUBSET Voter, CleanupProposalVotes(k, vs)
      PROVE  proposals' = proposals
  BY <1>6 DEF CleanupProposalVotes
<1>7. CASE ProposalNext
  BY <1>1, <1>2, <1>3, <1>4, <1>5, <1>6, <1>7 DEF ProposalNext
<1>8. CASE SettingsNext
  <2>1. proposals' = proposals
    BY <1>8 DEF SettingsNext, GovInitialize, SetQuorum, SetQuorumPercent, RegisterVoter,
                UpdateVoterWeight, DeregisterVoter, SetWeight, govProposals
  <2>2. QED
    BY <1>1, <2>1
<1>9. CASE UNCHANGED govVars
  BY <1>1, <1>9 DEF govVars, govProposals
<1>10. QED
  BY <1>7, <1>8, <1>9 DEF Next, ApplyWeights, AcceptOracleAdmin, vars

\* initialize cannot restart the numbering once the contract is deployed.
LEMMA DeployedStep ==
  TypeOK /\ NoPendingTransfer /\ Deployed /\ [Next]_vars => Deployed'
<1> SUFFICES ASSUME TypeOK, NoPendingTransfer, Deployed, [Next]_vars PROVE Deployed'
  OBVIOUS
<1>1. oracleAdmin' = Gov
  <2>1. CASE OracleNext
    BY <2>1, OracleAssumption
      DEF OracleNext, OracleInitialize, OracleAcceptAdmin, ProposeWeights, OracleProposeNewAdmin,
          OracleSetPaused, OracleApplyWeights, Tick, oracleVars, oracleRole,
          NoPendingTransfer, Deployed
  <2>2. CASE OracleAcceptAdmin(Gov)
    BY <2>2 DEF OracleAcceptAdmin
  <2>3. ASSUME NEW id \in ProposalId, Execute(id) PROVE oracleAdmin' = Gov
    BY <2>3 DEF Execute, ProposeWeights, oracleRole, Deployed
  <2>4. CASE UNCHANGED <<oracleVars, ledger>>
    BY <2>4 DEF oracleVars, oracleRole, Deployed
  <2>5. QED
    BY <2>1, <2>2, <2>3, <2>4, OracleSteps
<1>2. CASE ProposalNext
  <2>1. govAdmin' = govAdmin
    BY <1>2 DEF ProposalNext, CreateProposal, Vote, Execute, CleanupProposalVotes,
                CancelProposal, govSettings
  <2>2. ASSUME NEW a \in Account, NEW w \in WeightInputs, NEW n \in Periods, NEW d \in Delays,
               CreateProposal(a, w, n, d)
        PROVE  Deployed'
    <3>1. nextProposalId \in Int /\ nextProposalId' = nextProposalId + 1
      BY <2>2 DEF CreateProposal, TypeOK, GovTypeOK
    <3>2. ASSUME NEW id \in ProposalId, id >= nextProposalId' PROVE proposals'[id] = None
      <4>1. id \in Int
        BY DEF ProposalId
      <4>2. id > nextProposalId
        BY <3>1, <3>2, <4>1
      <4>3. proposals[id] = None
        BY <3>1, <4>1, <4>2 DEF Deployed
      <4>4. QED
        BY <2>2, <3>1, <4>1, <4>2, <4>3 DEF CreateProposal, TypeOK, GovTypeOK
    <3>3. QED
      BY <1>1, <2>1, <3>2 DEF Deployed
  <2>3. ASSUME nextProposalId' = nextProposalId,
               \E k \in ProposalId : /\ Exists(k)
                                     /\ \A id \in ProposalId \ {k} : proposals'[id] = proposals[id]
        PROVE  Deployed'
    BY <1>1, <2>1, <2>3 DEF Deployed, Exists
  <2>4. ASSUME NEW k \in ProposalId,
               \/ \E v \in Voter, b \in BOOLEAN, n \in VoteSteps : Vote(v, k, b, n)
               \/ Execute(k)
               \/ \E vs \in SUBSET Voter : CleanupProposalVotes(k, vs)
               \/ \E a \in Account : CancelProposal(a, k)
        PROVE  Deployed'
    <3>1. nextProposalId' = nextProposalId /\ Exists(k)
      BY <2>4 DEF Vote, MayVote, Execute, MayExecute, CleanupProposalVotes, CancelProposal, Open
    <3>2. \A id \in ProposalId \ {k} : proposals'[id] = proposals[id]
      BY <2>4 DEF Vote, Execute, CleanupProposalVotes, CancelProposal, TypeOK, GovTypeOK
    <3>3. QED
      BY <2>3, <3>1, <3>2
  <2>5. QED
    BY <1>2, <2>2, <2>4 DEF ProposalNext
<1>3. CASE SettingsNext
  <2>1. UNCHANGED <<govAdmin, govProposals>>
    BY <1>3 DEF SettingsNext, GovInitialize, SetQuorum, SetQuorumPercent, RegisterVoter,
                UpdateVoterWeight, DeregisterVoter, SetWeight, govSettings, Deployed
  <2>2. QED
    BY <1>1, <2>1 DEF Deployed, govProposals
<1>4. CASE UNCHANGED govVars
  BY <1>1, <1>4 DEF Deployed, govVars, govSettings, govProposals
<1>5. QED
  BY <1>2, <1>3, <1>4 DEF Next, ApplyWeights, AcceptOracleAdmin, vars

\* The context of every step after deployment.
THEOREM StaysDeployed == DeployedSpec => [](TypeOK /\ NoPendingTransfer /\ Deployed)
<1>1. DeployedInit => TypeOK /\ NoPendingTransfer /\ Deployed
  <2>1. DeployedInit => TypeOK
    BY InitTyped
  <2>2. DeployedInit => NoPendingTransfer /\ Deployed
    BY OracleAssumption DEF DeployedInit, NoPendingTransfer, Deployed
  <2>3. QED
    BY <2>1, <2>2
<1>2. QED
  BY <1>1, StepTyped, PendingTransferStep, DeployedStep, PTL DEF DeployedSpec

\* Time does not run backwards.
LEMMA LedgerGrows == TypeOK /\ [Next]_vars => ledger' \in Nat /\ ledger' >= ledger
<1> SUFFICES ASSUME TypeOK, [Next]_vars PROVE ledger' \in Nat /\ ledger' >= ledger
  OBVIOUS
<1>1. ledger \in Nat
  BY DEF TypeOK, OracleTypeOK
<1>2. CASE Tick
  BY <1>1, <1>2 DEF Tick
<1>3. CASE OracleNext /\ ~Tick
  BY <1>1, <1>3 DEF OracleNext, OracleInitialize, OracleAcceptAdmin, ProposeWeights,
                    OracleProposeNewAdmin, OracleSetPaused, OracleApplyWeights
<1>4. ASSUME \/ OracleAcceptAdmin(Gov)
             \/ \E id \in ProposalId : Execute(id)
             \/ UNCHANGED <<oracleVars, ledger>>
      PROVE  ledger' = ledger
  BY <1>4 DEF OracleAcceptAdmin, Execute, ProposeWeights
<1>5. QED
  BY <1>1, <1>2, <1>3, <1>4, OracleSteps

\* Execution checks the votes, the quorum and both waiting periods, and an
\* executed proposal changes no more.
LEMMA ExecutedWonStep ==
  TypeOK /\ Deployed /\ ExecutedWon /\ [Next]_vars => ExecutedWon'
<1> SUFFICES ASSUME TypeOK, Deployed, ExecutedWon, [Next]_vars,
                    NEW id \in ProposalId, proposals'[id] # None, proposals'[id].executed
             PROVE  /\ ~proposals'[id].cancelled
                    /\ Won(proposals'[id])
                    /\ ledger' > proposals'[id].expiry + proposals'[id].delay
  BY DEF ExecutedWon, Exists, Won, Tally
<1> DEFINE q == proposals[id]
<1>1. Exists(id) /\ Evolution(id) /\ q \in Proposal
  BY ProposalSteps DEF Birth, Exists, TypeOK, GovTypeOK
<1>2. /\ ledger \in Nat /\ ledger <= MAX_U32 /\ MAX_U32 \in Nat
      /\ ledger' \in Nat /\ ledger' >= ledger
      /\ q.expiry + q.delay \in Nat
  BY <1>1, LedgerGrows, OracleAssumption DEF TypeOK, OracleTypeOK, Proposal
<1>3. CASE proposals'[id] = q
  BY <1>1, <1>2, <1>3 DEF ExecutedWon
<1>4. ASSUME Open(id), NEW f \in Nat, NEW g \in Nat,
             proposals'[id] = [q EXCEPT !.votesFor = f, !.votesAgainst = g]
      PROVE  FALSE
  BY <1>1, <1>4 DEF Open, Proposal
<1>5. CASE MayExecute(id) /\ proposals'[id] = [q EXCEPT !.executed = TRUE]
  <2>1. ledger > q.expiry + q.delay
    BY <1>2, <1>5 DEF MayExecute, ExecutableAt
  <2>2. QED
    BY <1>1, <1>2, <1>5, <2>1 DEF MayExecute, Open, Won, Tally, Proposal
<1>6. ASSUME Open(id), proposals'[id] = [q EXCEPT !.cancelled = TRUE]
      PROVE  FALSE
  BY <1>1, <1>6 DEF Open, Proposal
<1>7. QED
  BY <1>1, <1>3, <1>4, <1>5, <1>6 DEF Evolution

\* execute: no proposal is ever executed that was cancelled, lost the vote,
\* missed the quorum it was created with, or whose delay had not passed.
THEOREM ExecutedHaveWon == DeployedSpec => []ExecutedWon
<1>1. DeployedInit => ExecutedWon
  BY DEF DeployedInit, ExecutedWon, Exists
<1>2. QED
  BY <1>1, StaysDeployed, ExecutedWonStep, PTL DEF DeployedSpec

\* vote, execute, cancel_proposal: terms never change, a tally is final when
\* the voting period ends, and executed and cancelled proposals stay as they
\* are.
THEOREM ProposalsDoSettle == DeployedSpec => ProposalsSettle
<1> DEFINE Settle == \A id \in ProposalId :
             Exists(id) =>
               /\ proposals'[id] # None
               /\ Terms(proposals'[id]) = Terms(proposals[id])
               /\ Settled(id) => proposals'[id] = proposals[id]
               /\ ledger > proposals[id].expiry =>
                    Tally(proposals'[id]) = Tally(proposals[id])
<1>1. TypeOK /\ Deployed /\ [Next]_vars => Settle
  <2> SUFFICES ASSUME TypeOK, Deployed, [Next]_vars, NEW id \in ProposalId, Exists(id)
               PROVE  /\ proposals'[id] # None
                      /\ Terms(proposals'[id]) = Terms(proposals[id])
                      /\ Settled(id) => proposals'[id] = proposals[id]
                      /\ ledger > proposals[id].expiry =>
                           Tally(proposals'[id]) = Tally(proposals[id])
    OBVIOUS
  <2> DEFINE q == proposals[id]
  <2>1. Evolution(id) /\ q \in Proposal
    BY ProposalSteps DEF Exists, TypeOK, GovTypeOK
  <2>2. proposals'[id] # None
    <3>1. /\ [q EXCEPT !.executed = TRUE] \in Proposal
          /\ [q EXCEPT !.cancelled = TRUE] \in Proposal
          /\ \A f, g \in Nat : [q EXCEPT !.votesFor = f, !.votesAgainst = g] \in Proposal
      BY <2>1, ProposalTyped
    <3>2. proposals'[id] \in Proposal
      BY <2>1, <3>1 DEF Evolution
    <3>3. QED
      BY <3>2, GovernanceAssumption
  <2>3. Terms(proposals'[id]) = Terms(q)
    BY <2>1 DEF Evolution, Terms, Proposal
  <2>4. Settled(id) => proposals'[id] = q
    BY <2>1 DEF Evolution, Settled, MayExecute, Open
  <2>5. ledger > q.expiry => Tally(proposals'[id]) = Tally(q)
    <3>1. ledger \in Nat /\ q.expiry \in Nat
      BY <2>1 DEF TypeOK, OracleTypeOK, Proposal
    <3>2. ASSUME ledger > q.expiry
          PROVE  \/ proposals'[id] = q
                 \/ proposals'[id] = [q EXCEPT !.executed = TRUE]
                 \/ proposals'[id] = [q EXCEPT !.cancelled = TRUE]
      <4>1. ~(ledger <= q.expiry)
        BY <3>1, <3>2
      <4>2. QED
        BY <2>1, <4>1, Zenon DEF Evolution
    <3>3. QED
      BY <2>1, <3>2 DEF Tally, Proposal
  <2>6. QED
    BY <2>2, <2>3, <2>4, <2>5
<1>2. QED
  BY <1>1, StaysDeployed, PTL DEF DeployedSpec, ProposalsSettle

\* Weights w are those of an executed proposal.
Mandated(w) ==
  \E id \in ProposalId :
    Exists(id) /\ proposals[id].executed /\ proposals[id].weights = w

\* A mandate is never lost, because an executed proposal never changes.
LEMMA MandateStays ==
  ASSUME TypeOK, Deployed, [Next]_vars, NEW w, Mandated(w)
  PROVE  Mandated(w)'
<1>1. PICK id \in ProposalId :
        Exists(id) /\ proposals[id].executed /\ proposals[id].weights = w
  BY DEF Mandated
<1>2. proposals'[id] = proposals[id]
  BY <1>1, ProposalSteps DEF Evolution, MayExecute, Open
<1>3. QED
  BY <1>1, <1>2 DEF Mandated, Exists

\* execute and apply_weights: after the handover no weights are in force, or
\* queued, that no executed proposal asked for.
THEOREM WeightsAreGoverned == DeployedSpec => []GovernedWeights
<1>1. DeployedInit => GovernedWeights
  BY DEF DeployedInit, GovernedWeights
<1>2. TypeOK /\ NoPendingTransfer /\ Deployed /\ GovernedWeights /\ [Next]_vars => GovernedWeights'
  <2> SUFFICES ASSUME TypeOK, NoPendingTransfer, Deployed, GovernedWeights, [Next]_vars
               PROVE  /\ config' = DefaultWeights \/ Mandated(config)'
                      /\ pendingWeights' # None => Mandated(pendingWeights)'
    BY DEF GovernedWeights, Mandated, Exists
  <2>1. /\ config = DefaultWeights \/ Mandated(config)
        /\ pendingWeights # None => Mandated(pendingWeights)
    BY DEF GovernedWeights, Mandated
  <2>2. CASE /\ config' \in {config, pendingWeights}
             /\ config' = pendingWeights => pendingWeights # None \/ config' = config
             /\ pendingWeights' \in {None, pendingWeights}
    <3>1. /\ Mandated(config) => \E id \in ProposalId :
               proposals'[id] # None /\ proposals'[id].executed /\ proposals'[id].weights = config
          /\ Mandated(pendingWeights) => \E id \in ProposalId :
               proposals'[id] # None /\ proposals'[id].executed
                 /\ proposals'[id].weights = pendingWeights
      BY MandateStays DEF Mandated, Exists
    <3>2. QED
      BY <2>1, <2>2, <3>1 DEF Mandated, Exists
  <2>3. ASSUME NEW id \in ProposalId, Execute(id)
        PROVE  /\ config' = DefaultWeights \/ Mandated(config)'
               /\ pendingWeights' # None => Mandated(pendingWeights)'
    <3>1. proposals[id] \in Proposal
      BY <2>3 DEF Execute, MayExecute, Open, Exists, TypeOK, GovTypeOK
    <3>2. /\ proposals'[id] = [proposals[id] EXCEPT !.executed = TRUE]
          /\ pendingWeights' = proposals[id].weights
          /\ config' = config
      BY <2>3 DEF Execute, ProposeWeights, TypeOK, GovTypeOK
    <3>3. proposals'[id] # None /\ proposals'[id].executed
            /\ proposals'[id].weights = pendingWeights'
      <4>1. proposals'[id] \in Proposal
        BY <3>1, <3>2, ProposalTyped
      <4>2. QED
        BY <3>1, <3>2, <4>1, GovernanceAssumption DEF Proposal
    <3>4. Mandated(pendingWeights)'
      BY <3>3 DEF Mandated, Exists
    <3>5. Mandated(config) => \E k \in ProposalId :
               proposals'[k] # None /\ proposals'[k].executed /\ proposals'[k].weights = config
      BY MandateStays DEF Mandated, Exists
    <3>6. QED
      BY <2>1, <3>2, <3>4, <3>5 DEF Mandated, Exists
  <2>4. CASE OracleNext
    <3>1. Gov \notin Account /\ Gov # None /\ None \notin Account
      BY OracleAssumption
    <3>2. /\ \A a \in Account : ~OracleInitialize(a)
          /\ \A a \in Account, w \in WeightInputs : ~ProposeWeights(a, w)
      BY <3>1 DEF OracleInitialize, ProposeWeights, Deployed
    <3>3. QED
      BY <2>2, <2>4, <3>2
        DEF OracleNext, OracleAcceptAdmin, OracleProposeNewAdmin, OracleSetPaused,
            OracleApplyWeights, Tick, oracleVars, oracleWeights
  <2>5. CASE OracleAcceptAdmin(Gov)
    BY <2>2, <2>5 DEF OracleAcceptAdmin, oracleWeights
  <2>6. CASE UNCHANGED <<oracleVars, ledger>>
    BY <2>2, <2>6 DEF oracleVars, oracleWeights
  <2>7. QED
    BY <2>3, <2>4, <2>5, <2>6, OracleSteps
<1>3. QED
  BY <1>1, <1>2, StaysDeployed, PTL DEF DeployedSpec

-----------------------------------------------------------------------------
(* The two sums.                                                           *)

\* Changing one voter's entry changes the sum over the voters by the
\* difference.
LEMMA SumOverUpdate ==
  ASSUME NEW f \in [Voter -> Nat], NEW v \in Voter, NEW n \in Nat,
         NEW g, g = [f EXCEPT ![v] = n]
  PROVE  SumOver(f) \in Int /\ SumOver(g) = SumOver(f) - f[v] + n
<1>1. /\ IsFiniteSet(Voter) /\ f \in [Voter -> Int] /\ g \in [Voter -> Int]
      /\ g[v] = n /\ \A x \in Voter \ {v} : f[x] = g[x]
  BY GovernanceAssumption
<1>2. SumFunctionOnSet(f, Voter) \in Int
  BY <1>1, SumInt
<1>3. ASSUME NEW h \in [Voter -> Int], \A x \in Voter \ {v} : f[x] = h[x]
      PROVE  SumFunctionOnSet(h, Voter) = SumFunctionOnSet(f, Voter) - f[v] + h[v]
  BY <1>1, <1>3, SumChange
<1>4. QED
  BY <1>1, <1>2, <1>3 DEF SumOver

\* Without weights there is no total.
LEMMA SumOverZero ==
  ASSUME NEW f, \A v \in Voter : f[v] = 0
  PROVE  SumOver(f) = 0
  BY GovernanceAssumption, SumZero DEF SumOver

\* Only the three voter operations touch the registered weights.
LEMMA VoterSteps ==
  ASSUME [Next]_vars
  PROVE  \/ UNCHANGED govVoters
         \/ \E v \in Voter, n \in Nat : SetWeight(v, n)
<1>1. CASE SettingsNext
  <2>1. 0 \in Nat /\ WeightSteps \subseteq Nat
    BY GovernanceAssumption
  <2>2. QED
    BY <1>1, <2>1 DEF SettingsNext, GovInitialize, SetQuorum, SetQuorumPercent, RegisterVoter,
                      UpdateVoterWeight, DeregisterVoter
<1>2. CASE ProposalNext
  BY <1>2 DEF ProposalNext, CreateProposal, Vote, Execute, CleanupProposalVotes, CancelProposal
<1>3. CASE UNCHANGED govVars
  BY <1>3 DEF govVars
<1>4. QED
  BY <1>1, <1>2, <1>3 DEF Next, ApplyWeights, AcceptOracleAdmin, vars

\* The total changes by what one voter's weight changes by.
LEMMA TotalStep == TypeOK /\ TotalWeightExact /\ [Next]_vars => TotalWeightExact'
<1> SUFFICES ASSUME TypeOK, TotalWeightExact, [Next]_vars PROVE TotalWeightExact'
  OBVIOUS
<1>1. CASE UNCHANGED govVoters
  BY <1>1 DEF TotalWeightExact, SumOver, govVoters
<1>2. ASSUME NEW v \in Voter, NEW n \in Nat, SetWeight(v, n) PROVE TotalWeightExact'
  <2>1. /\ voterWeight' = [voterWeight EXCEPT ![v] = n]
        /\ totalRegisteredWeight' = totalRegisteredWeight - voterWeight[v] + n
    BY <1>2 DEF SetWeight
  <2>2. voterWeight \in [Voter -> Nat]
    BY DEF TypeOK, GovTypeOK
  <2>3. SumOver(voterWeight') = SumOver(voterWeight) - voterWeight[v] + n
    BY <2>1, <2>2, SumOverUpdate
  <2>4. QED
    BY <2>1, <2>3 DEF TotalWeightExact, SumOver
<1>3. QED
  BY <1>1, <1>2, VoterSteps

\* register_voter, update_voter_weight, deregister_voter: from deployment on,
\* the total that percentage quorums are taken of is the sum of the registered
\* weights, with any number of voters and weights of any size.
THEOREM TotalWeightIsExact == Spec => []TotalWeightExact
<1>1. Init => TotalWeightExact
  BY SumOverZero DEF Init, GovInit, TotalWeightExact
<1>2. QED
  BY <1>1, TypeCorrect, TotalStep, PTL DEF Spec

\* TallyMatchesUsed is not inductive: a new proposal starts without votes, so
\* nobody may have been charged for its id before.
UnusedUncharged ==
  \A id \in ProposalId : ~Exists(id) => \A v \in Voter : voteWeightUsed[id][v] = 0

TallyInv == TallyMatchesUsed /\ UnusedUncharged

\* What TallyInv says of one proposal.
Charged(id) ==
  IF Exists(id)
  THEN ~proposals[id].executed => Tally(proposals[id]) = SumOver(voteWeightUsed[id])
  ELSE \A v \in Voter : voteWeightUsed[id][v] = 0

\* A proposal whose tally and charges a step leaves alone stays charged.
LEMMA ChargedUnchanged ==
  ASSUME NEW id \in ProposalId, Charged(id),
         proposals'[id] = proposals[id], voteWeightUsed'[id] = voteWeightUsed[id]
  PROVE  Charged(id)'
  BY DEF Charged, Exists, SumOver

\* vote: the tally and the charge of the voter grow by the same weight.
LEMMA VoteKeepsCharged ==
  ASSUME TypeOK, NEW id \in ProposalId, Charged(id),
         NEW v \in Voter, NEW b \in BOOLEAN, NEW n \in VoteSteps, Vote(v, id, b, n)
  PROVE  Charged(id)'
<1> DEFINE q == proposals[id]
           f == IF b THEN q.votesFor + n ELSE q.votesFor
           g == IF b THEN q.votesAgainst ELSE q.votesAgainst + n
           used == voteWeightUsed[id]
<1>1. Open(id) /\ q \in Proposal /\ used \in [Voter -> Nat] /\ n \in Nat
  BY GovernanceAssumption DEF Vote, MayVote, Open, Exists, TypeOK, GovTypeOK
<1>2. q.votesFor \in Nat /\ q.votesAgainst \in Nat
  BY <1>1 DEF Proposal
<1>3. proposals' = [proposals EXCEPT ![id] = [q EXCEPT !.votesFor = f, !.votesAgainst = g]]
  BY <1>1 DEF Vote, TypeOK, GovTypeOK, Proposal
<1>4. /\ proposals'[id] = [q EXCEPT !.votesFor = f, !.votesAgainst = g]
      /\ proposals'[id].votesFor = f /\ proposals'[id].votesAgainst = g
  BY <1>1, <1>3 DEF Proposal, TypeOK, GovTypeOK
<1>5. Tally(proposals'[id]) = Tally(q) + n
  <2>1. f + g = q.votesFor + q.votesAgainst + n
    BY <1>1, <1>2
  <2> HIDE DEF f, g
  <2>2. QED
    BY <1>4, <2>1 DEF Tally
<1>6. voteWeightUsed'[id] = [used EXCEPT ![v] = used[v] + n]
  BY <1>1 DEF Vote, TypeOK, GovTypeOK
<1>7. SumOver(voteWeightUsed'[id]) = SumOver(used) + n
  <2>1. used[v] \in Nat /\ used[v] + n \in Nat
    BY <1>1
  <2>2. SumOver(used) \in Int /\ SumOver(voteWeightUsed'[id]) = SumOver(used) - used[v] + (used[v] + n)
    BY <1>1, <1>6, <2>1, SumOverUpdate
  <2>3. QED
    BY <1>1, <2>1, <2>2
<1>8. Tally(q) = SumOver(used)
  BY <1>1 DEF Charged, Open
<1>9. proposals'[id] \in Proposal
  <2>1. f \in Nat /\ g \in Nat
    BY <1>1, <1>2
  <2>2. QED
    BY <1>1, <1>4, <2>1 DEF Proposal
<1>10. Exists(id)'
  BY <1>9, GovernanceAssumption DEF Exists
<1>11. Tally(proposals'[id]) = SumOver(voteWeightUsed'[id])
  BY <1>5, <1>7, <1>8
<1>12. QED
  BY <1>10, <1>11 DEF Charged, SumOver

\* A vote adds the same weight to the tally and to the voter's charge; charges
\* are erased only of executed proposals, of which nothing is said.
LEMMA TallyStep == TypeOK /\ Deployed /\ TallyInv /\ [Next]_vars => TallyInv'
<1> SUFFICES ASSUME TypeOK, Deployed, TallyInv, [Next]_vars,
                    NEW id \in ProposalId, Charged(id)
             PROVE  Charged(id)'
  BY DEF TallyInv, TallyMatchesUsed, UnusedUncharged, Charged, SumOver
<1> USE DEF TypeOK, GovTypeOK
<1>1. ASSUME proposals' = proposals, voteWeightUsed' = voteWeightUsed PROVE Charged(id)'
  BY <1>1, ChargedUnchanged
<1>2. ASSUME NEW a \in Account, NEW w \in WeightInputs, NEW n \in Periods, NEW d \in Delays,
             CreateProposal(a, w, n, d)
      PROVE  Charged(id)'
  <2>1. CASE id = nextProposalId
    <3>1. \A v \in Voter : voteWeightUsed'[id][v] = 0
      <4>1. ~Exists(id)
        BY <2>1 DEF Deployed, Exists
      <4>2. QED
        BY <1>2, <4>1 DEF CreateProposal, Charged
    <3>2. SumOver(voteWeightUsed'[id]) = 0
      BY <3>1, SumOverZero
    <3>3. proposals'[id].votesFor = 0 /\ proposals'[id].votesAgainst = 0
      BY <1>2, <2>1 DEF CreateProposal
    <3>4. Tally(proposals'[id]) = 0
      BY <3>3 DEF Tally
    <3>5. QED
      BY <3>1, <3>2, <3>4 DEF Charged, SumOver
  <2>2. CASE id # nextProposalId
    BY <1>2, <2>2, ChargedUnchanged DEF CreateProposal
  <2>3. QED
    BY <2>1, <2>2
<1>3. ASSUME NEW k \in ProposalId, k # id,
             \/ \E v \in Voter, b \in BOOLEAN, n \in VoteSteps : Vote(v, k, b, n)
             \/ Execute(k)
             \/ \E vs \in SUBSET Voter : CleanupProposalVotes(k, vs)
             \/ \E a \in Account : CancelProposal(a, k)
      PROVE  Charged(id)'
  <2>1. proposals'[id] = proposals[id] /\ voteWeightUsed'[id] = voteWeightUsed[id]
    BY <1>3 DEF Vote, Execute, CleanupProposalVotes, CancelProposal
  <2>2. QED
    BY <2>1, ChargedUnchanged
<1>4. ASSUME Execute(id) PROVE Charged(id)'
  <2>1. proposals[id] \in Proposal /\ proposals'[id] = [proposals[id] EXCEPT !.executed = TRUE]
    BY <1>4 DEF Execute, MayExecute, Open, Exists
  <2>2. proposals'[id] \in Proposal /\ proposals'[id].executed
    BY <2>1 DEF Proposal
  <2>3. QED
    BY <2>2, GovernanceAssumption DEF Charged, Exists
<1>5. ASSUME NEW vs \in SUBSET Voter, CleanupProposalVotes(id, vs) PROVE Charged(id)'
  BY <1>5 DEF CleanupProposalVotes, Charged, Exists
<1>6. ASSUME NEW a \in Account, CancelProposal(a, id) PROVE Charged(id)'
  <2>1. /\ proposals[id] \in Proposal /\ Open(id)
        /\ proposals'[id] = [proposals[id] EXCEPT !.cancelled = TRUE]
        /\ voteWeightUsed' = voteWeightUsed
    BY <1>6 DEF CancelProposal, Open, Exists
  <2>2. /\ proposals'[id] \in Proposal
        /\ proposals'[id].votesFor = proposals[id].votesFor
        /\ proposals'[id].votesAgainst = proposals[id].votesAgainst
    BY <2>1 DEF Proposal
  <2>3. QED
    BY <2>1, <2>2, GovernanceAssumption DEF Charged, Exists, Open, Tally, SumOver
<1>7. CASE ProposalNext
  BY <1>2, <1>3, <1>4, <1>5, <1>6, <1>7, VoteKeepsCharged DEF ProposalNext
<1>8. CASE SettingsNext
  <2>1. proposals' = proposals /\ voteWeightUsed' = voteWeightUsed
    BY <1>8 DEF SettingsNext, GovInitialize, SetQuorum, SetQuorumPercent, RegisterVoter,
                UpdateVoterWeight, DeregisterVoter, SetWeight, govProposals
  <2>2. QED
    BY <1>1, <2>1
<1>9. CASE UNCHANGED govVars
  BY <1>1, <1>9 DEF govVars, govProposals
<1>10. QED
  BY <1>7, <1>8, <1>9 DEF Next, ApplyWeights, AcceptOracleAdmin, vars

\* vote, cancel_proposal, execute, cleanup_proposal_votes: after deployment,
\* what is counted on a proposal that is not executed is the sum of what its
\* voters are charged for, so no weight is counted twice, with any number of
\* voters, partial votes and proposals.
THEOREM TallyIsCharged == DeployedSpec => []TallyMatchesUsed
<1>1. DeployedInit => TallyInv
  BY DEF DeployedInit, TallyInv, TallyMatchesUsed, UnusedUncharged, Exists
<1>2. TallyInv => TallyMatchesUsed
  BY DEF TallyInv
<1>3. QED
  BY <1>1, <1>2, StaysDeployed, TallyStep, PTL DEF DeployedSpec

=============================================================================
