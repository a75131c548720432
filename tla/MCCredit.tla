------------------------------ MODULE MCCredit ------------------------------
(***************************************************************************)
(* Instances of CreditOracle for TLC.                                      *)
(***************************************************************************)
EXTENDS CreditOracle, TLC

CONSTANT s1

\* Weights that are valid, and weights that add up to more than 100.
SomeWeights == {<<10, 45, 45>>, <<250, 10, 10>>}
NoWeights == {}

\* Statistics beyond the caps, which are worth 100, and below zero.
AllStats == {[volume |-> -3, counterparties |-> 0], [volume |-> 1000, counterparties |-> 500]}

\* A credential loses 80% of its points per ledger; a floor above 100%.
SteepDecay == {[enabled |-> TRUE, perDay |-> 400, min |-> 0],
               [enabled |-> TRUE, perDay |-> 400, min |-> 10001]}
NoDecay == {}

\* A fresh deployment, and one where a subject has a repayment in the old layout.
FreshRepayments == [s \in Subject |-> None]
OldRepayments == [s \in Subject |-> IF s = s1 THEN [layout |-> 1, onTime |-> 0,
                                                    total |-> 1, repaid |-> 0] ELSE None]

\* Bound: the subject of the old record has repayments only; the other has
\* entries or a count, no score yet, and disputes only while it has nothing else.
Fed(s) == txStats[s] # None \/ vcCount[s] # 0 \/ vcList[s] # {}
Disputed(s) == \E k \in InputKey : dispute[s][k] # None
OneFed ==
  /\ ~Fed(s1) /\ ~Disputed(s1)
  /\ \A s \in Subject : score[s] = None /\ (vcCount[s] = 0 \/ vcList[s] = {})
  /\ \A s \in Subject : Disputed(s) => ~Fed(s) /\ oracleStats.repayments = 0

\* Bound: with two oracles or a registry in use, one registry at a time and one
\* credential, under the settings of a new deployment.
Used(o) == registry[o] # None \/ \E s \in Subject : lastStateChange[o][s] # 0
FewSettings ==
  \/ \E o \in IdOracle :
       /\ registry[o] = None
       /\ \A p \in IdOracle \ {o} : ~Used(p) /\ identityOracleId # p
  \/ /\ computeCooldown <= 1 /\ ~recency.enabled /\ \A t \in CredType : vcWeight[t] = 100
     /\ Cardinality({o \in IdOracle : registry[o] # None}) <= 1
     /\ Cardinality(UNION {issued[o][s] : o \in IdOracle, s \in Subject}) <= 1

\* Credentials, identity oracles and registries start alike.
Symmetry == Permutations(Hash) \cup Permutations(IdOracle) \cup Permutations(Registry)

=============================================================================
