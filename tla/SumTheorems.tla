---------------------------- MODULE SumTheorems ----------------------------
(***************************************************************************)
(* Laws of SumFunctionOnSet, the sum of an integer function over a finite  *)
(* set, which the models use for the registered voting weights, for the    *)
(* votes charged and for the points of a subject's credentials.            *)
(*                                                                         *)
(* The sum is a recursive function on the subsets of the set.  That it has *)
(* the value its definition promises, and every law below, is shown with a *)
(* smallest counterexample: the strict subset ordering of a finite set is  *)
(* well founded.                                                           *)
(***************************************************************************)
EXTENDS Integers, FiniteSets, Functions, Folds, FiniteSetTheorems, WellFoundedInduction, TLAPS

\* The element that is taken from a set first.
Pick(s) == CHOOSE x \in s : TRUE

\* g maps every subset of T to its sum.
IsTable(f, T, g) ==
  g = [s \in SUBSET T |-> IF s = {} THEN 0 ELSE f[Pick(s)] + g[s \ {Pick(s)}]]

Table(f, T) == CHOOSE g : IsTable(f, T, g)

\* The sum is the last entry of the table.
LEMMA SumIsEntry ==
  ASSUME NEW f, NEW S
  PROVE  SumFunctionOnSet(f, S) = Table(f, S)[S]
  BY DEF SumFunctionOnSet, FoldFunctionOnSet, MapThenFoldSet, Table, IsTable, Pick

\* Among sets of subsets of a finite set, one that is not empty has a
\* smallest member.
LEMMA Smallest ==
  ASSUME NEW S, IsFiniteSet(S), NEW B \in SUBSET SUBSET S, B # {}
  PROVE  \E s \in B : \A t \in B : t \subseteq s => t = s
<1>1. IsWellFoundedOn(StrictSubsetOrdering(S), SUBSET S)
  BY FS_StrictSubsetOrderingWellFounded, FS_FiniteSubsetsOfFinite
<1>2. PICK s \in B : \A t \in B : ~(<<t, s>> \in StrictSubsetOrdering(S))
  BY <1>1, WFMin
<1>3. ASSUME NEW t \in B, t \subseteq s PROVE t = s
  BY <1>2, <1>3 DEF StrictSubsetOrdering
<1>4. QED
  BY <1>2, <1>3

\* The element taken is one of the set, so what is left is a smaller set.
LEMMA PickIn ==
  ASSUME NEW s, s # {}
  PROVE  Pick(s) \in s /\ s \ {Pick(s)} \subseteq s /\ s \ {Pick(s)} # s
  BY DEF Pick

\* Two tables agree wherever both are defined.
LEMMA TablesAgree ==
  ASSUME NEW S, IsFiniteSet(S), NEW f, NEW T \in SUBSET S, NEW R \in SUBSET S,
         NEW g, NEW h, IsTable(f, T, g), IsTable(f, R, h)
  PROVE  \A s \in SUBSET (T \cap R) : g[s] = h[s]
<1> DEFINE B == {s \in SUBSET (T \cap R) : g[s] # h[s]}
<1> SUFFICES ASSUME B # {} PROVE FALSE
  OBVIOUS
<1>0. B \in SUBSET SUBSET S
  OBVIOUS
<1> HIDE DEF B
<1>1. PICK s \in B : \A t \in B : t \subseteq s => t = s
  BY <1>0, Smallest
<1> USE DEF B
<1>2. g[s] = IF s = {} THEN 0 ELSE f[Pick(s)] + g[s \ {Pick(s)}]
  BY DEF IsTable
<1>3. h[s] = IF s = {} THEN 0 ELSE f[Pick(s)] + h[s \ {Pick(s)}]
  BY DEF IsTable
<1>4. s # {}
  BY <1>2, <1>3
<1>5. g[s \ {Pick(s)}] = h[s \ {Pick(s)}]
  BY <1>1, <1>4, PickIn
<1>6. QED
  BY <1>2, <1>3, <1>5

\* Every finite set has a table.
LEMMA TableExists ==
  ASSUME NEW S, IsFiniteSet(S), NEW f
  PROVE  IsTable(f, S, Table(f, S))
<1> DEFINE Has(T) == \E g : IsTable(f, T, g)
           B == {T \in SUBSET S : ~Has(T)}
<1>1. SUFFICES Has(S)
  BY DEF Table
<1>2. SUFFICES ASSUME B # {} PROVE FALSE
  OBVIOUS
<1> B \in SUBSET SUBSET S
  OBVIOUS
<1> HIDE DEF B
<1>3. PICK T \in B : \A U \in B : U \subseteq T => U = T
  BY <1>2, Smallest
<1> USE DEF B
<1>4. ASSUME NEW U \in SUBSET T, U # T PROVE IsTable(f, U, Table(f, U))
  <2>1. Has(U)
    BY <1>3, <1>4
  <2>2. QED
    BY <2>1 DEF Table
<1> DEFINE g == [s \in SUBSET T |->
                   IF s = {} THEN 0
                   ELSE f[Pick(s)] + Table(f, s \ {Pick(s)})[s \ {Pick(s)}]]
<1>5. ASSUME NEW s \in SUBSET T, s # {}
      PROVE  g[s \ {Pick(s)}] = Table(f, s \ {Pick(s)})[s \ {Pick(s)}]
  <2> DEFINE u == s \ {Pick(s)}
  <2>1. u \in SUBSET T /\ u # T /\ u \in SUBSET S
    BY <1>5, PickIn
  <2>2. IsTable(f, u, Table(f, u))
    BY <2>1, <1>4
  <2>3. Table(f, u)[u] = IF u = {} THEN 0
                         ELSE f[Pick(u)] + Table(f, u)[u \ {Pick(u)}]
    BY <2>2 DEF IsTable
  <2>4. CASE u = {}
    BY <2>1, <2>3, <2>4
  <2>5. CASE u # {}
    <3> DEFINE w == u \ {Pick(u)}
    <3>1. w \in SUBSET u /\ w \in SUBSET T /\ w # T /\ w \in SUBSET S
      BY <2>1, <2>5, PickIn
    <3>2. IsTable(f, w, Table(f, w))
      BY <3>1, <1>4
    <3>3. w \in SUBSET (u \cap w)
      BY <3>1
    <3> HIDE DEF w, u
    <3>4. Table(f, u)[w] = Table(f, w)[w]
      BY <2>1, <2>2, <3>1, <3>2, <3>3, TablesAgree
    <3> USE DEF w
    <3>5. g[u] = f[Pick(u)] + Table(f, w)[w]
      BY <2>1, <2>5
    <3>6. QED
      BY <2>3, <2>5, <3>4, <3>5 DEF u
  <2>6. QED
    BY <2>4, <2>5
<1>6. IsTable(f, T, g)
  BY <1>5 DEF IsTable
<1>7. QED
  BY <1>3, <1>6

\* What the sum over a finite set is: 0 for the empty set, and otherwise one
\* element's value and the sum of the rest.
LEMMA SumUnfolds ==
  ASSUME NEW S, IsFiniteSet(S), NEW f
  PROVE  SumFunctionOnSet(f, S) =
           IF S = {} THEN 0 ELSE f[Pick(S)] + SumFunctionOnSet(f, S \ {Pick(S)})
<1>0. IsTable(f, S, Table(f, S))
  BY TableExists
<1>1. Table(f, S)[S] = IF S = {} THEN 0 ELSE f[Pick(S)] + Table(f, S)[S \ {Pick(S)}]
  BY <1>0 DEF IsTable
<1>2. CASE S # {}
  <2> DEFINE u == S \ {Pick(S)}
  <2>1. IsFiniteSet(u) /\ u \in SUBSET S
    BY FS_Subset
  <2>2. IsTable(f, u, Table(f, u)) /\ IsTable(f, S, Table(f, S))
    BY <2>1, TableExists
  <2>3. u \in SUBSET (S \cap u)
    BY <2>1
  <2> HIDE DEF u
  <2>4. Table(f, S)[u] = Table(f, u)[u]
    BY <2>1, <2>2, <2>3, TablesAgree
  <2>5. QED
    BY <1>1, <1>2, <2>4, SumIsEntry DEF u
<1>3. QED
  BY <1>1, <1>2, SumIsEntry

-----------------------------------------------------------------------------
(* The laws.                                                               *)

\* A sum of integers is an integer.
LEMMA SumInt ==
  ASSUME NEW S, IsFiniteSet(S), NEW f, \A x \in S : f[x] \in Int
  PROVE  SumFunctionOnSet(f, S) \in Int
<1> DEFINE B == {s \in SUBSET S : SumFunctionOnSet(f, s) \notin Int}
<1>1. SUFFICES ASSUME B # {} PROVE FALSE
  OBVIOUS
<1>2. B \in SUBSET SUBSET S
  OBVIOUS
<1> HIDE DEF B
<1>3. PICK s \in B : \A t \in B : t \subseteq s => t = s
  BY <1>1, <1>2, Smallest
<1>4. s \in SUBSET S /\ IsFiniteSet(s)
  BY <1>2, FS_Subset
<1>5. SumFunctionOnSet(f, s) =
        IF s = {} THEN 0 ELSE f[Pick(s)] + SumFunctionOnSet(f, s \ {Pick(s)})
  BY <1>4, SumUnfolds
<1>6. CASE s # {}
  <2>1. Pick(s) \in S /\ s \ {Pick(s)} \in SUBSET S /\ s \ {Pick(s)} \notin B
    BY <1>3, <1>4, <1>6, PickIn
  <2>2. SumFunctionOnSet(f, s \ {Pick(s)}) \in Int
    BY <2>1 DEF B
  <2>3. QED
    BY <1>5, <1>6, <2>1, <2>2 DEF B
<1>7. QED
  BY <1>5, <1>6 DEF B

\* Of two functions, the one that is nowhere larger has no larger sum.
LEMMA SumMonotone ==
  ASSUME NEW S, IsFiniteSet(S), NEW f, NEW g,
         \A x \in S : f[x] \in Int /\ g[x] \in Int /\ f[x] <= g[x]
  PROVE  SumFunctionOnSet(f, S) <= SumFunctionOnSet(g, S)
<1> DEFINE F(s) == SumFunctionOnSet(f, s)
           G(s) == SumFunctionOnSet(g, s)
           B == {s \in SUBSET S : ~(F(s) <= G(s))}
<1>1. SUFFICES ASSUME B # {} PROVE FALSE
  OBVIOUS
<1>2. B \in SUBSET SUBSET S
  OBVIOUS
<1> HIDE DEF B
<1>3. PICK s \in B : \A t \in B : t \subseteq s => t = s
  BY <1>1, <1>2, Smallest
<1>4. s \in SUBSET S /\ IsFiniteSet(s)
  BY <1>2, FS_Subset
<1>5. /\ F(s) = IF s = {} THEN 0 ELSE f[Pick(s)] + F(s \ {Pick(s)})
      /\ G(s) = IF s = {} THEN 0 ELSE g[Pick(s)] + G(s \ {Pick(s)})
  BY <1>4, SumUnfolds
<1>6. CASE s # {}
  <2> DEFINE u == s \ {Pick(s)}
  <2>1. Pick(s) \in S /\ u \in SUBSET S /\ u \notin B /\ IsFiniteSet(u)
    BY <1>3, <1>4, <1>6, PickIn, FS_Subset
  <2>2. F(u) \in Int /\ G(u) \in Int
    BY <2>1, SumInt
  <2>3. F(u) <= G(u)
    BY <2>1 DEF B
  <2>4. /\ f[Pick(s)] \in Int /\ g[Pick(s)] \in Int /\ f[Pick(s)] <= g[Pick(s)]
        /\ F(s) = f[Pick(s)] + F(u) /\ G(s) = g[Pick(s)] + G(u)
    BY <1>5, <1>6, <2>1
  <2> HIDE DEF F, G, u
  <2>5. F(s) <= G(s)
    BY <2>2, <2>3, <2>4
  <2>6. QED
    BY <2>5 DEF B
<1>7. CASE s = {}
  <2>1. F(s) = 0 /\ G(s) = 0
    BY <1>5, <1>7
  <2> HIDE DEF F, G
  <2>2. QED
    BY <2>1 DEF B
<1>8. QED
  BY <1>6, <1>7

\* The sum looks at the values on the set, and at nothing else.
LEMMA SumCongruent ==
  ASSUME NEW S, IsFiniteSet(S), NEW f, NEW g, \A x \in S : f[x] = g[x]
  PROVE  SumFunctionOnSet(f, S) = SumFunctionOnSet(g, S)
<1> DEFINE F(s) == SumFunctionOnSet(f, s)
           G(s) == SumFunctionOnSet(g, s)
           B == {s \in SUBSET S : F(s) # G(s)}
<1>1. SUFFICES ASSUME B # {} PROVE FALSE
  OBVIOUS
<1>2. B \in SUBSET SUBSET S
  OBVIOUS
<1> HIDE DEF B
<1>3. PICK s \in B : \A t \in B : t \subseteq s => t = s
  BY <1>1, <1>2, Smallest
<1>4. s \in SUBSET S /\ IsFiniteSet(s)
  BY <1>2, FS_Subset
<1>5. /\ F(s) = IF s = {} THEN 0 ELSE f[Pick(s)] + F(s \ {Pick(s)})
      /\ G(s) = IF s = {} THEN 0 ELSE g[Pick(s)] + G(s \ {Pick(s)})
  BY <1>4, SumUnfolds
<1>6. CASE s # {}
  <2>1. Pick(s) \in S /\ s \ {Pick(s)} \in SUBSET S /\ s \ {Pick(s)} \notin B
    BY <1>3, <1>4, <1>6, PickIn
  <2>2. F(s \ {Pick(s)}) = G(s \ {Pick(s)})
    BY <2>1 DEF B
  <2> HIDE DEF F, G
  <2>3. F(s) = G(s)
    BY <1>5, <1>6, <2>1, <2>2
  <2>4. QED
    BY <2>3 DEF B
<1>7. CASE s = {}
  <2> HIDE DEF F, G
  <2>1. QED
    BY <1>5, <1>7 DEF B
<1>8. QED
  BY <1>6, <1>7

\* The order of the elements does not matter: any of them can be taken first.
LEMMA SumRemove ==
  ASSUME NEW S, IsFiniteSet(S), NEW f, \A x \in S : f[x] \in Int, NEW v \in S
  PROVE  SumFunctionOnSet(f, S) = f[v] + SumFunctionOnSet(f, S \ {v})
<1> DEFINE F(s) == SumFunctionOnSet(f, s)
           B == {s \in SUBSET S : \E x \in s : F(s) # f[x] + F(s \ {x})}
<1>1. SUFFICES ASSUME B # {} PROVE FALSE
  OBVIOUS
<1>2. B \in SUBSET SUBSET S
  OBVIOUS
<1> HIDE DEF B
<1>3. PICK s \in B : \A t \in B : t \subseteq s => t = s
  BY <1>1, <1>2, Smallest
<1>4. PICK x \in s : F(s) # f[x] + F(s \ {x})
  BY DEF B
<1>5. s \in SUBSET S /\ IsFiniteSet(s)
  BY <1>2, FS_Subset
<1> DEFINE p == Pick(s)
           u == s \ {p}
<1>6. p \in s /\ u \in SUBSET S /\ u \notin B /\ F(s) = f[p] + F(u)
  BY <1>3, <1>5, PickIn, SumUnfolds
<1>7. CASE p # x
  <2> DEFINE r == s \ {x}
             w == u \ {x}
  <2>1. /\ x \in u /\ w \in SUBSET S /\ r \in SUBSET S /\ p \in r
        /\ r \ {p} = w /\ r \subseteq s /\ r # s
    BY <1>4, <1>5, <1>6, <1>7
  <2>2. r \notin B
    BY <1>3, <2>1
  <2>3. F(u) = f[x] + F(w)
    BY <1>6, <2>1 DEF B
  <2>4. F(r) = f[p] + F(w)
    BY <2>1, <2>2 DEF B
  <2>5. F(w) \in Int /\ f[x] \in Int /\ f[p] \in Int
    BY <1>5, <1>6, <2>1, FS_Subset, SumInt
  <2>6. f[p] + (f[x] + F(w)) = f[x] + (f[p] + F(w))
    BY <2>5
  <2>7. QED
    BY <1>4, <1>6, <2>3, <2>4, <2>6
<1>8. QED
  BY <1>4, <1>6, <1>7

\* Changing one value changes the sum by the difference.
LEMMA SumChange ==
  ASSUME NEW S, IsFiniteSet(S), NEW v \in S,
         NEW f \in [S -> Int], NEW g \in [S -> Int], \A x \in S \ {v} : f[x] = g[x]
  PROVE  SumFunctionOnSet(g, S) = SumFunctionOnSet(f, S) - f[v] + g[v]
<1> DEFINE F == SumFunctionOnSet(f, S \ {v})
           G == SumFunctionOnSet(g, S \ {v})
<1>1. IsFiniteSet(S \ {v})
  BY FS_Subset
<1>2. F = G
  BY <1>1, SumCongruent
<1>3. SumFunctionOnSet(f, S) = f[v] + F /\ SumFunctionOnSet(g, S) = g[v] + G
  BY SumRemove
<1>4. F \in Int /\ f[v] \in Int /\ g[v] \in Int
  BY <1>1, SumInt
<1> HIDE DEF F, G
<1>5. QED
  BY <1>2, <1>3, <1>4

\* Where every value is 0, so is the sum.
LEMMA SumZero ==
  ASSUME NEW S, IsFiniteSet(S), NEW f, \A x \in S : f[x] = 0
  PROVE  SumFunctionOnSet(f, S) = 0
<1> DEFINE F(s) == SumFunctionOnSet(f, s)
           B == {s \in SUBSET S : F(s) # 0}
<1>1. SUFFICES ASSUME B # {} PROVE FALSE
  OBVIOUS
<1>2. B \in SUBSET SUBSET S
  OBVIOUS
<1> HIDE DEF B
<1>3. PICK s \in B : \A t \in B : t \subseteq s => t = s
  BY <1>1, <1>2, Smallest
<1>4. s \in SUBSET S /\ IsFiniteSet(s)
  BY <1>2, FS_Subset
<1>5. F(s) = IF s = {} THEN 0 ELSE f[Pick(s)] + F(s \ {Pick(s)})
  BY <1>4, SumUnfolds
<1>6. CASE s # {}
  <2>1. Pick(s) \in S /\ s \ {Pick(s)} \in SUBSET S /\ s \ {Pick(s)} \notin B
    BY <1>3, <1>4, <1>6, PickIn
  <2>2. F(s \ {Pick(s)}) = 0
    BY <2>1 DEF B
  <2> HIDE DEF F
  <2>3. QED
    BY <1>5, <1>6, <2>1, <2>2 DEF B
<1>7. QED
  BY <1>5, <1>6 DEF B

\* A sum of naturals is a natural.
LEMMA SumNat ==
  ASSUME NEW S, IsFiniteSet(S), NEW f, \A x \in S : f[x] \in Nat
  PROVE  SumFunctionOnSet(f, S) \in Nat
<1> DEFINE z == [x \in S |-> 0]
<1>1. SumFunctionOnSet(z, S) = 0
  BY SumZero
<1>2. \A x \in S : z[x] \in Int /\ f[x] \in Int /\ z[x] <= f[x]
  OBVIOUS
<1> HIDE DEF z
<1>3. SumFunctionOnSet(z, S) <= SumFunctionOnSet(f, S)
  BY <1>2, SumMonotone
<1>4. SumFunctionOnSet(f, S) \in Int
  BY SumInt
<1>5. QED
  BY <1>1, <1>3, <1>4
=============================================================================
