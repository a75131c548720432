----------------------------- MODULE Governance -----------------------------
(***************************************************************************)
(* contracts/governance: voters and their weights, proposals of new        *)
(* scoring weights, partial votes, execution behind a delay, cancellation. *)
(*                                                                         *)
(* Execution calls propose_weights of the credit oracle, so the two        *)
(* contracts are composed here: this module extends OracleWeights and its  *)
(* Next contains the oracle's own operations as well.                      *)
(***************************************************************************)
EXTENDS OracleWeights, FiniteSets, Functions

CONSTANTS
  Voter,          \* addresses that may be given voting weight
  WeightSteps,    \* bound: the voter weights the admin sets, 0 and up
  VoteSteps,      \* bound: the weights a vote is cast with
  Quorums,        \* bound: arguments of initialize and set_quorum
  Percents,       \* bound: arguments of set_quorum_percent
  Periods,        \* bound: voting periods a proposer asks for
  Delays,         \* bound: execution delays a proposer asks for
  MaxProposals    \* bound: proposals

ProposalId == 1..MaxProposals

Proposal == [proposer : Account, weights : ScoringWeights,
             votesFor : Nat, votesAgainst : Nat,
             expiry : Nat, delay : Nat, quorum : Int,
             executed : BOOLEAN, cancelled : BOOLEAN]

ASSUME GovernanceAssumption ==
  /\ IsFiniteSet(Voter)
  /\ WeightSteps \subseteq Nat /\ VoteSteps \subseteq Nat
  /\ Quorums \subseteq Nat /\ Percents \subseteq Nat
  /\ Periods \subseteq Nat /\ Delays \subseteq Nat
  /\ MaxProposals \in Nat
  /\ None \notin Proposal

VARIABLES
  govAdmin,              \* Admin; present exactly when CreditOracle is
  nextProposalId,        \* NextProposalId, 1 when absent
  quorumRequired,        \* QuorumRequired, 0 when absent
  quorumPercent,         \* QuorumPercent, 0 when absent
  totalRegisteredWeight, \* TotalRegisteredWeight
  voterWeight,           \* VoterWeight(voter), 0 when absent
  proposals,             \* Proposal(id), and Proposer(id) as a field of it
  voteWeightUsed         \* VoteWeightUsed(id, voter), 0 when absent

govSettings == <<govAdmin, quorumRequired, quorumPercent>>
govVoters == <<totalRegisteredWeight, voterWeight>>
govProposals == <<nextProposalId, proposals, voteWeightUsed>>
govVars == <<govSettings, govVoters, govProposals>>
vars == <<oracleVars, ledger, govVars>>

GovTypeOK ==
  /\ govAdmin \in Account \cup {None}
  /\ nextProposalId \in 1..(MaxProposals + 1)
  /\ quorumRequired \in Nat
  /\ quorumPercent \in 0..100
  /\ totalRegisteredWeight \in Int
  /\ voterWeight \in [Voter -> Nat]
  /\ proposals \in [ProposalId -> Proposal \cup {None}]
  /\ voteWeightUsed \in [ProposalId -> [Voter -> Nat]]

GovInit ==
  /\ govAdmin = None /\ quorumRequired = 0 /\ quorumPercent = 0
  /\ totalRegisteredWeight = 0 /\ voterWeight = [v \in Voter |-> 0]
  /\ nextProposalId = 1
  /\ proposals = [p \in ProposalId |-> None]
  /\ voteWeightUsed = [p \in ProposalId |-> [v \in Voter |-> 0]]

-----------------------------------------------------------------------------
(* Settings and voters, all but initialize by the admin.                   *)

\* initialize also sets NextProposalId.
GovInitialize(admin, quorum) ==
  /\ govAdmin = None
  /\ quorum > 0
  /\ govAdmin' = admin
  /\ nextProposalId' = 1
  /\ quorumRequired' = quorum
  /\ UNCHANGED <<quorumPercent, govVoters, proposals, voteWeightUsed,
                 oracleVars, ledger>>

\* set_quorum, which also ends a percentage quorum.
SetQuorum(quorum) ==
  /\ quorum > 0
  /\ govAdmin # None
  /\ quorum <= totalRegisteredWeight
  /\ quorumRequired' = quorum
  /\ quorumPercent' = 0
  /\ UNCHANGED <<govAdmin, govVoters, govProposals, oracleVars, ledger>>

\* Mutant: any percentage is accepted.
SetQuorumPercent_Unchecked(percent) ==
  /\ govAdmin # None
  /\ quorumPercent' = percent
  /\ UNCHANGED <<govAdmin, quorumRequired, govVoters, govProposals,
                 oracleVars, ledger>>

\* set_quorum_percent
SetQuorumPercent(percent) ==
  /\ percent \in 1..100
  /\ govAdmin # None
  /\ quorumPercent' = percent
  /\ UNCHANGED <<govAdmin, quorumRequired, govVoters, govProposals,
                 oracleVars, ledger>>

\* Mutant: the new weight is added without taking off the old one.
SetWeight_Added(v, weight) ==
  /\ govAdmin # None
  /\ voterWeight' = [voterWeight EXCEPT ![v] = weight]
  /\ totalRegisteredWeight' = totalRegisteredWeight + weight
  /\ UNCHANGED <<govSettings, govProposals, oracleVars, ledger>>

\* What the three voter operations have in common: the weight is replaced and
\* the total adjusted by the difference.
SetWeight(v, weight) ==
  /\ govAdmin # None
  /\ voterWeight' = [voterWeight EXCEPT ![v] = weight]
  /\ totalRegisteredWeight' = totalRegisteredWeight - voterWeight[v] + weight
  /\ UNCHANGED <<govSettings, govProposals, oracleVars, ledger>>

\* register_voter, an upsert
RegisterVoter(v, weight) == weight > 0 /\ SetWeight(v, weight)

\* update_voter_weight, for which the voter need not be registered; 0 removes
\* the entry.
UpdateVoterWeight(v, weight) == weight >= 0 /\ SetWeight(v, weight)

\* deregister_voter
DeregisterVoter(v) == SetWeight(v, 0)

-----------------------------------------------------------------------------
(* Proposals.                                                              *)

\* The quorum a proposal is created with: the division rounds down.
SnapshotQuorum ==
  IF quorumPercent # 0
  THEN (totalRegisteredWeight * quorumPercent) \div 100
  ELSE quorumRequired

\* create_proposal: anyone may call it, initialised or not.
CreateProposal(proposer, w, period, delay) ==
  LET id == nextProposalId IN
  /\ IsValid(w)
  /\ period # 0
  /\ ledger + period <= MAX_U32
  /\ id \in ProposalId
  /\ proposals' = [proposals EXCEPT ![id] =
       [proposer |-> proposer, weights |-> w, votesFor |-> 0, votesAgainst |-> 0,
        expiry |-> ledger + period, delay |-> delay, quorum |-> SnapshotQuorum,
        executed |-> FALSE, cancelled |-> FALSE]]
  /\ nextProposalId' = id + 1
  /\ UNCHANGED <<govSettings, govVoters, voteWeightUsed, oracleVars, ledger>>

Exists(id) == proposals[id] # None

\* Neither executed nor cancelled.
Open(id) == Exists(id) /\ ~proposals[id].executed /\ ~proposals[id].cancelled

\* Executed or cancelled.
Settled(id) == Exists(id) /\ (proposals[id].executed \/ proposals[id].cancelled)

Tally(q) == q.votesFor + q.votesAgainst

\* get_available_vote_weight; vote computes the same difference.
AvailableVoteWeight(id, v) == voterWeight[v] - voteWeightUsed[id][v]

\* Mutant: every vote may use the whole weight.
MayVote_Again(v, id, weight) ==
  /\ voterWeight[v] # 0
  /\ weight \in 1..voterWeight[v]
  /\ Open(id)
  /\ ledger <= proposals[id].expiry

\* The checks of vote.
MayVote(v, id, weight) ==
  /\ voterWeight[v] # 0
  /\ weight > 0
  /\ weight <= AvailableVoteWeight(id, v)
  /\ Open(id)
  /\ ledger <= proposals[id].expiry

\* vote
Vote(v, id, inFavour, weight) ==
  /\ MayVote(v, id, weight)
  /\ proposals' = [proposals EXCEPT
       ![id].votesFor = IF inFavour THEN @ + weight ELSE @,
       ![id].votesAgainst = IF inFavour THEN @ ELSE @ + weight]
  /\ voteWeightUsed' = [voteWeightUsed EXCEPT ![id][v] = @ + weight]
  /\ UNCHANGED <<nextProposalId, govSettings, govVoters, oracleVars, ledger>>

\* expiry_ledger.saturating_add(execution_delay_ledgers)
ExecutableAt(q) == IF q.expiry + q.delay > MAX_U32 THEN MAX_U32 ELSE q.expiry + q.delay

Won(q) == q.votesFor > q.votesAgainst /\ Tally(q) >= q.quorum

\* Mutant: a cancelled proposal can still be executed.
MayExecute_Cancelled(id) ==
  /\ Exists(id) /\ ~proposals[id].executed
  /\ ledger > proposals[id].expiry
  /\ ledger > ExecutableAt(proposals[id])
  /\ Won(proposals[id])

\* Mutant: the quorum counts for nothing.
MayExecute_NoQuorum(id) ==
  /\ Open(id)
  /\ ledger > proposals[id].expiry
  /\ ledger > ExecutableAt(proposals[id])
  /\ proposals[id].votesFor > proposals[id].votesAgainst

\* Mutant: the quorum must be exceeded.
MayExecute_StrictQuorum(id) ==
  /\ Open(id)
  /\ ledger > proposals[id].expiry
  /\ ledger > ExecutableAt(proposals[id])
  /\ Won(proposals[id]) /\ Tally(proposals[id]) > proposals[id].quorum

\* The checks of execute, in which a rejected proposal is an error.
MayExecute(id) ==
  /\ Open(id)
  /\ ledger > proposals[id].expiry
  /\ ledger > ExecutableAt(proposals[id])
  /\ Won(proposals[id])

\* execute, which anyone may call: the weights are queued in the oracle, which
\* must have this contract as its admin.
Execute(id) ==
  /\ MayExecute(id)
  /\ govAdmin # None
  /\ ProposeWeights(Gov, proposals[id].weights)
  /\ proposals' = [proposals EXCEPT ![id].executed = TRUE]
  /\ UNCHANGED <<nextProposalId, voteWeightUsed, govSettings, govVoters>>

\* Mutant: the votes of any proposal are cleaned up.
CleanupProposalVotes_Open(id, voters) ==
  /\ govAdmin # None
  /\ Exists(id)
  /\ voteWeightUsed' = [voteWeightUsed EXCEPT ![id] =
       [v \in Voter |-> IF v \in voters THEN 0 ELSE @[v]]]
  /\ UNCHANGED <<nextProposalId, proposals, govSettings, govVoters, oracleVars, ledger>>

\* cleanup_proposal_votes; a no-op unless the proposal was executed.
CleanupProposalVotes(id, voters) ==
  /\ govAdmin # None
  /\ Exists(id) /\ proposals[id].executed
  /\ voteWeightUsed' = [voteWeightUsed EXCEPT ![id] =
       [v \in Voter |-> IF v \in voters THEN 0 ELSE @[v]]]
  /\ UNCHANGED <<nextProposalId, proposals, govSettings, govVoters, oracleVars, ledger>>

\* cancel_proposal, by the admin or the proposer; an error before initialize.
CancelProposal(canceller, id) ==
  /\ Open(id)
  /\ govAdmin # None
  /\ canceller \in {govAdmin, proposals[id].proposer}
  /\ proposals' = [proposals EXCEPT ![id].cancelled = TRUE]
  /\ UNCHANGED <<nextProposalId, voteWeightUsed, govSettings, govVoters,
                 oracleVars, ledger>>

-----------------------------------------------------------------------------
(* The calls relayed to the credit oracle.                                 *)

\* apply_weights
ApplyWeights == govAdmin # None /\ OracleApplyWeights /\ UNCHANGED govVars

\* accept_oracle_admin, signed by the governance admin.
AcceptOracleAdmin ==
  govAdmin # None /\ OracleAcceptAdmin(Gov) /\ UNCHANGED govVars

-----------------------------------------------------------------------------
(* The two contracts together.                                             *)

\* Both contracts deployed and neither initialised.
Init == OracleInit /\ GovInit

\* The end of step 6 of the deployment sequence in docs/governance.md: both
\* initialised and the oracle handed over to governance.
DeployedInit ==
  /\ oracleAdmin = Gov /\ oraclePendingAdmin = None /\ governanceId = Gov
  /\ oraclePaused = FALSE
  /\ config = DefaultWeights /\ pendingWeights = None /\ pendingEffective = None
  /\ ledger = 1
  /\ govAdmin \in Account
  /\ quorumRequired \in Quorums \ {0} /\ quorumPercent = 0
  /\ totalRegisteredWeight = 0 /\ voterWeight = [v \in Voter |-> 0]
  /\ nextProposalId = 1
  /\ proposals = [p \in ProposalId |-> None]
  /\ voteWeightUsed = [p \in ProposalId |-> [v \in Voter |-> 0]]

OracleNext ==
  \/ \E a \in Account : \/ OracleInitialize(a)
                        \/ OracleAcceptAdmin(a)
                        \/ \E w \in WeightInputs : ProposeWeights(a, w)
  \/ \E a \in Address : OracleProposeNewAdmin(a)
  \/ \E b \in BOOLEAN : OracleSetPaused(b)
  \/ OracleApplyWeights
  \/ Tick

SettingsNext ==
  \/ \E a \in Account, q \in Quorums : GovInitialize(a, q)
  \/ \E q \in Quorums : SetQuorum(q)
  \/ \E c \in Percents : SetQuorumPercent(c)
  \/ \E v \in Voter : \/ DeregisterVoter(v)
                      \/ \E n \in WeightSteps : \/ RegisterVoter(v, n)
                                                \/ UpdateVoterWeight(v, n)

ProposalNext ==
  \/ \E a \in Account, w \in WeightInputs, n \in Periods, d \in Delays :
       CreateProposal(a, w, n, d)
  \/ \E id \in ProposalId :
       \/ \E v \in Voter, b \in BOOLEAN, n \in VoteSteps : Vote(v, id, b, n)
       \/ Execute(id)
       \/ \E vs \in SUBSET Voter : CleanupProposalVotes(id, vs)
       \/ \E a \in Account : CancelProposal(a, id)

Next ==
  \/ OracleNext /\ UNCHANGED govVars
  \/ SettingsNext
  \/ ProposalNext
  \/ ApplyWeights
  \/ AcceptOracleAdmin

Spec == Init /\ [][Next]_vars

DeployedSpec == DeployedInit /\ [][Next]_vars

\* Time passes, and whoever is interested in a proposal makes the two calls
\* that need no permission.  Nobody is obliged to do anything else.
Fairness ==
  /\ WF_vars(Tick /\ UNCHANGED govVars)
  /\ WF_vars(ApplyWeights)
  /\ \A id \in ProposalId : WF_vars(Execute(id))

FairSpec == DeployedSpec /\ Fairness

-----------------------------------------------------------------------------
(* Properties.                                                             *)

\* Every storage entry of the two contracts holds a value of its type.
TypeOK == OracleTypeOK /\ GovTypeOK

SumOver(f) == SumFunctionOnSet(f, Voter)

\* register_voter, update_voter_weight, deregister_voter: the total that
\* quorums are a percentage of is the sum of the registered weights, through
\* any sequence of registrations, updates and removals.
TotalWeightExact == totalRegisteredWeight = SumOver(voterWeight)

\* vote and cleanup_proposal_votes: what is counted on a proposal that is not
\* executed is what its voters are charged for, although their weights may be
\* changed or removed in the meantime; so no weight is ever counted twice.
TallyMatchesUsed ==
  \A id \in ProposalId :
    Exists(id) /\ ~proposals[id].executed =>
      Tally(proposals[id]) = SumOver(voteWeightUsed[id])

\* execute: an executed proposal was never cancelled, and at its tally, which
\* is still there, it has won, met the quorum it was created with, and both
\* its gates have passed.
ExecutedWon ==
  \A id \in ProposalId :
    Exists(id) /\ proposals[id].executed =>
      /\ ~proposals[id].cancelled
      /\ Won(proposals[id])
      /\ ledger > proposals[id].expiry + proposals[id].delay

\* The terms of a proposal: everything but the tally and the two marks.
Terms(q) == <<q.proposer, q.weights, q.expiry, q.delay, q.quorum>>

\* create_proposal, vote, execute, cancel_proposal: a proposal's terms never
\* change, its tally changes only while it is open and its voting period runs,
\* and an executed or cancelled proposal is never touched again.
ProposalsSettle ==
  [][\A id \in ProposalId :
       Exists(id) =>
         /\ proposals'[id] # None
         /\ Terms(proposals'[id]) = Terms(proposals[id])
         /\ Settled(id) => proposals'[id] = proposals[id]
         /\ ledger > proposals[id].expiry =>
              Tally(proposals'[id]) = Tally(proposals[id])]_vars

\* execute and apply_weights after the handover: the weights in force are the
\* initial ones or those of a proposal that was executed, and so are the ones
\* that wait for the timelock.  No other path leads to the oracle's weights.
GovernedWeights ==
  /\ config = DefaultWeights \/ \E id \in ProposalId :
       Exists(id) /\ proposals[id].executed /\ proposals[id].weights = config
  /\ pendingWeights # None => \E id \in ProposalId :
       Exists(id) /\ proposals[id].executed /\ proposals[id].weights = pendingWeights

\* get_pending_weights expects an effective ledger wherever there are pending
\* weights; the two entries come and go together, the weights are valid, and
\* they wait no longer than the timelock.
PendingPaired ==
  /\ pendingWeights = None <=> pendingEffective = None
  /\ pendingWeights # None =>
       /\ IsValid(pendingWeights)
       /\ pendingEffective <= ledger + TIMELOCK_LEDGERS

\* accept_admin: get_governance names the governance contract exactly while it
\* holds the admin role, whoever was proposed and accepted before.
GovernanceIdTracksAdmin == governanceId = Gov <=> oracleAdmin = Gov

\* Once governance holds the admin role it keeps it, the pause stays as it is,
\* and only the execution of a proposal queues weights.
HandoverIrrevocable ==
  [][oracleAdmin = Gov =>
       /\ oracleAdmin' = Gov
       /\ oraclePaused' = oraclePaused
       /\ pendingWeights' \notin {None, pendingWeights} =>
            \E id \in ProposalId :
              Open(id) /\ proposals'[id] # None /\ proposals'[id].executed]_vars

\* The proposal has won and will be executable within the bounds of the model.
WillPass(id) ==
  /\ Open(id)
  /\ ledger > proposals[id].expiry
  /\ Won(proposals[id])
  /\ ExecutableAt(proposals[id]) < MaxLedger

\* execute and apply_weights, called by anyone: a proposal that has won is
\* executed unless it is cancelled first, whatever else the admin, the voters
\* and other proposals do.
PassedExecuted ==
  \A id \in ProposalId :
    WillPass(id) ~> Settled(id)

\* apply_weights: queued weights come into force or are replaced by those of
\* a later proposal.  (Ones queued again too close to the last ledger of the
\* model do not become due in it.)
QueuedWeightsResolve ==
  \A w \in WeightInputs :
    pendingWeights = w ~> (pendingWeights # w \/ pendingEffective > MaxLedger)

=============================================================================
