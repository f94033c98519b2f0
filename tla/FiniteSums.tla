----------------------------- MODULE FiniteSums -----------------------------
(***************************************************************************)
(* Sums of the values of a function over a finite set, as the community    *)
(* modules define them (SumFunctionOnSet, a fold that picks the elements   *)
(* in an unspecified order): the sum exists, is a number, and is the value *)
(* of any one element more than the sum of the others.                     *)
(*                                                                         *)
(* The library's induction theorems quantify over an operator.  Each       *)
(* induction here is over a set instead: a subset of S where the claim     *)
(* fails would have a least one (WFMin), and it holds there.               *)
(***************************************************************************)
EXTENDS Integers, FiniteSetsExt, FiniteSetTheorems, TLAPS

Pick(s) == CHOOSE x \in s : TRUE

\* g is the table of the sums of f over the subsets of S.
Sums(g, f, S) ==
  g = [s \in SUBSET S |-> IF s = {} THEN 0 ELSE f[Pick(s)] + g[s \ {Pick(s)}]]

\* What is picked from a set is in it.
LEMMA Picked ==
  ASSUME NEW s, s # {}
  PROVE  Pick(s) \in s
  BY DEF Pick

\* Among subsets of a finite set one is least for inclusion.
LEMMA LeastSubset ==
  ASSUME NEW S, IsFiniteSet(S), NEW Bad \in SUBSET (SUBSET S), Bad # {}
  PROVE  \E s \in Bad : \A t \in Bad : ~(t \subseteq s /\ t # s)
  <1>1. IsWellFoundedOn(StrictSubsetOrdering(S), SUBSET S)
    BY FS_StrictSubsetOrderingWellFounded, FS_FiniteSubsetsOfFinite
  <1>2. PICK s \in Bad : \A t \in Bad : ~(<<t, s>> \in StrictSubsetOrdering(S))
    BY <1>1, WFMin, Zenon
  <1> QED BY <1>2 DEF StrictSubsetOrdering

\* One entry of a table of sums.
LEMMA SumsEntry ==
  ASSUME NEW g, NEW f, NEW S, Sums(g, f, S), NEW s \in SUBSET S
  PROVE  g[s] = IF s = {} THEN 0 ELSE f[Pick(s)] + g[s \ {Pick(s)}]
  <1>1. [r \in SUBSET S |-> IF r = {} THEN 0 ELSE f[Pick(r)] + g[r \ {Pick(r)}]][s]
          = IF s = {} THEN 0 ELSE f[Pick(s)] + g[s \ {Pick(s)}]
    OBVIOUS
  <1> QED BY <1>1 DEF Sums

\* Tables of functions that agree agree where both are defined.
LEMMA SumsAgree ==
  ASSUME NEW S, IsFiniteSet(S), NEW T, NEW g, NEW h, NEW f, NEW k,
         Sums(g, f, S), Sums(h, k, T), \A x \in S \cap T : f[x] = k[x],
         NEW s \in SUBSET (S \cap T)
  PROVE  g[s] = h[s]
  <1> DEFINE Bad == {r \in SUBSET (S \cap T) : g[r] # h[r]}
  <1>1. SUFFICES ASSUME Bad # {} PROVE FALSE
    OBVIOUS
  <1>2. Bad \in SUBSET (SUBSET S)
    OBVIOUS
  <1>3. PICK r \in Bad : \A t \in Bad : ~(t \subseteq r /\ t # r)
    <2> HIDE DEF Bad
    <2> QED BY <1>1, <1>2, LeastSubset
  <1>4. r \in SUBSET S /\ r \in SUBSET T /\ g[r] # h[r]
    OBVIOUS
  <1> HIDE DEF Bad
  <1>5. g[r] = IF r = {} THEN 0 ELSE f[Pick(r)] + g[r \ {Pick(r)}]
    BY <1>4, SumsEntry
  <1>10. h[r] = IF r = {} THEN 0 ELSE k[Pick(r)] + h[r \ {Pick(r)}]
    BY <1>4, SumsEntry
  <1>6. r # {}
    BY <1>4, <1>5, <1>10
  <1>7. Pick(r) \in r
    BY <1>6, Picked
  <1>8. g[r \ {Pick(r)}] = h[r \ {Pick(r)}]
    BY <1>3, <1>4, <1>7 DEF Bad
  <1>9. f[Pick(r)] = k[Pick(r)]
    BY <1>4, <1>7
  <1> QED BY <1>4, <1>5, <1>6, <1>8, <1>9, <1>10

\* Every finite set has a table: a least subset without one would have the
\* table assembled from those of its smaller subsets.
LEMMA SumsExist ==
  ASSUME NEW S, IsFiniteSet(S), NEW f
  PROVE  \E g : Sums(g, f, S)
  <1> DEFINE Bad == {T \in SUBSET S : ~ \E g : Sums(g, f, T)}
  <1>1. SUFFICES ASSUME Bad # {} PROVE FALSE
    OBVIOUS
  <1>2. PICK T \in Bad : \A U \in Bad : ~(U \subseteq T /\ U # T)
    <2>1. Bad \in SUBSET (SUBSET S)
      OBVIOUS
    <2> HIDE DEF Bad
    <2> QED BY <1>1, <2>1, LeastSubset
  <1>3. T \in SUBSET S /\ ~ \E g : Sums(g, f, T)
    OBVIOUS
  <1> DEFINE Table(U) == CHOOSE g : Sums(g, f, U)
  <1>4. \A U \in SUBSET T : U # T => Sums(Table(U), f, U)
    <2> SUFFICES ASSUME NEW U \in SUBSET T, U # T PROVE Sums(Table(U), f, U)
      OBVIOUS
    <2>1. U \notin Bad
      BY <1>2
    <2>2. U \in SUBSET S
      BY <1>3
    <2>3. \E g : Sums(g, f, U)
      BY <2>1, <2>2
    <2> HIDE DEF Sums
    <2> QED BY <2>3
  <1> HIDE DEF Bad, Table
  <1> DEFINE Less(s) == s \ {Pick(s)}
             Whole == [s \in SUBSET T |->
                         IF s = {} THEN 0 ELSE f[Pick(s)] + Table(Less(s))[Less(s)]]
  <1>5. \A s \in SUBSET T : s # {} => Less(s) \in SUBSET T /\ Less(s) # T /\ Less(s) \subseteq s
    BY Picked
  <1>6. \A s \in SUBSET T : s # T => Table(s)[s] = Whole[s]
    <2> SUFFICES ASSUME NEW s \in SUBSET T, s # T PROVE Table(s)[s] = Whole[s]
      OBVIOUS
    <2>1. Sums(Table(s), f, s)
      BY <1>4
    <2>2. Table(s)[s] = IF s = {} THEN 0 ELSE f[Pick(s)] + Table(s)[Less(s)]
      BY <2>1, SumsEntry
    <2>3. CASE s = {}
      BY <2>2, <2>3
    <2>4. CASE s # {}
      <3>1. Less(s) \in SUBSET T /\ Less(s) # T /\ Less(s) \subseteq s
        BY <1>5, <2>4
      <3>2. Sums(Table(Less(s)), f, Less(s))
        BY <1>4, <3>1
      <3>3. IsFiniteSet(Less(s))
        BY <1>3, <3>1, FS_Subset
      <3>4. Less(s) \in SUBSET (Less(s) \cap s)
        BY <3>1
      <3> HIDE DEF Less
      <3>5. Table(Less(s))[Less(s)] = Table(s)[Less(s)]
        BY <2>1, <3>2, <3>3, <3>4, SumsAgree
      <3> QED BY <2>2, <2>4, <3>5
    <2> QED BY <2>3, <2>4
  <1>7. Whole = [s \in SUBSET T |-> IF s = {} THEN 0 ELSE f[Pick(s)] + Whole[s \ {Pick(s)}]]
    <2>1. \A s \in SUBSET T : s # {} => Table(Less(s))[Less(s)] = Whole[Less(s)]
      BY <1>5, <1>6
    <2> QED BY <2>1
  <1>8. Sums(Whole, f, T)
    BY <1>7 DEF Sums
  <1> QED BY <1>3, <1>8

\* The sum of a finite set is its entry in a table.
LEMMA SumIsEntry ==
  ASSUME NEW S, IsFiniteSet(S), NEW f
  PROVE  \E g : Sums(g, f, S) /\ SumFunctionOnSet(f, S) = g[S]
  <1>1. \E g : Sums(g, f, S)
    BY SumsExist
  <1> QED BY <1>1 DEF SumFunctionOnSet, FoldFunctionOnSet, MapThenFoldSet, Sums, Pick

\* Nothing sums to zero.
LEMMA SumEmpty ==
  ASSUME NEW f
  PROVE  SumFunctionOnSet(f, {}) = 0
  <1>1. PICK g : Sums(g, f, {}) /\ SumFunctionOnSet(f, {}) = g[{}]
    BY SumIsEntry, FS_EmptySet
  <1>2. g[{}] = 0
    BY <1>1, SumsEntry
  <1> QED BY <1>1, <1>2

\* Functions that agree on a set have the same sum over it.
LEMMA SumSame ==
  ASSUME NEW S, IsFiniteSet(S), NEW f, NEW k, \A x \in S : f[x] = k[x]
  PROVE  SumFunctionOnSet(f, S) = SumFunctionOnSet(k, S)
  <1>1. PICK g : Sums(g, f, S) /\ SumFunctionOnSet(f, S) = g[S]
    BY SumIsEntry
  <1>2. PICK h : Sums(h, k, S) /\ SumFunctionOnSet(k, S) = h[S]
    BY SumIsEntry
  <1>3. S \in SUBSET (S \cap S) /\ \A x \in S \cap S : f[x] = k[x]
    OBVIOUS
  <1>4. g[S] = h[S]
    BY <1>1, <1>2, <1>3, SumsAgree
  <1> QED BY <1>1, <1>2, <1>4

\* Every entry of a table of integers is an integer, of naturals a natural.
LEMMA SumsTyped ==
  ASSUME NEW S, IsFiniteSet(S), NEW f, NEW g, Sums(g, f, S),
         NEW N, N = Nat \/ N = Int, \A x \in S : f[x] \in N
  PROVE  \A s \in SUBSET S : g[s] \in N
  <1> DEFINE Bad == {r \in SUBSET S : g[r] \notin N}
  <1>1. SUFFICES ASSUME Bad # {} PROVE FALSE
    OBVIOUS
  <1>2. Bad \in SUBSET (SUBSET S)
    OBVIOUS
  <1> HIDE DEF Bad
  <1>3. PICK r \in Bad : \A t \in Bad : ~(t \subseteq r /\ t # r)
    BY <1>1, <1>2, LeastSubset
  <1>4. r \in SUBSET S /\ g[r] \notin N
    BY DEF Bad
  <1>5. g[r] = IF r = {} THEN 0 ELSE f[Pick(r)] + g[r \ {Pick(r)}]
    BY <1>4, SumsEntry
  <1>6. r # {}
    BY <1>4, <1>5
  <1>7. Pick(r) \in r
    BY <1>6, Picked
  <1>8. g[r \ {Pick(r)}] \in N
    BY <1>3, <1>4, <1>7 DEF Bad
  <1>9. f[Pick(r)] \in N
    BY <1>4, <1>7
  <1> QED BY <1>4, <1>5, <1>6, <1>8, <1>9

\* The sum of naturals is a natural, of integers an integer.
LEMMA SumTyped ==
  ASSUME NEW S, IsFiniteSet(S), NEW f, NEW N, N = Nat \/ N = Int, \A x \in S : f[x] \in N
  PROVE  SumFunctionOnSet(f, S) \in N
  <1>1. PICK g : Sums(g, f, S) /\ SumFunctionOnSet(f, S) = g[S]
    BY SumIsEntry
  <1>2. S \in SUBSET S
    OBVIOUS
  <1> QED BY <1>1, <1>2, SumsTyped

\* Whichever element is taken out, its value is what the sum loses: a least
\* subset for which it is not is not the one that picks it, and taking out
\* the picked one as well leaves smaller subsets.
LEMMA SumsRemove ==
  ASSUME NEW S, IsFiniteSet(S), NEW f, NEW g, Sums(g, f, S),
         \A x \in S : f[x] \in Int
  PROVE  \A s \in SUBSET S : \A x \in s : g[s] = f[x] + g[s \ {x}]
  <1> DEFINE Bad == {r \in SUBSET S : \E x \in r : g[r] # f[x] + g[r \ {x}]}
  <1>1. SUFFICES ASSUME Bad # {} PROVE FALSE
    OBVIOUS
  <1>2. Bad \in SUBSET (SUBSET S)
    OBVIOUS
  <1> HIDE DEF Bad
  <1>3. PICK r \in Bad : \A t \in Bad : ~(t \subseteq r /\ t # r)
    BY <1>1, <1>2, LeastSubset
  <1>4. r \in SUBSET S
    BY DEF Bad
  <1>5. PICK x \in r : g[r] # f[x] + g[r \ {x}]
    BY DEF Bad
  <1> DEFINE p == Pick(r)
             both == r \ {x, p}
  <1>6. p \in r /\ g[r] = f[p] + g[r \ {p}]
    BY <1>4, <1>5, SumsEntry, Picked
  <1>7. x # p
    BY <1>5, <1>6
  <1>smaller. \A t \in SUBSET r : t # r => \A y \in t : g[t] = f[y] + g[t \ {y}]
    BY <1>3, <1>4 DEF Bad
  <1> HIDE DEF p
  <1>8. g[r \ {p}] = f[x] + g[both]
    <2>1. x \in r \ {p} /\ r \ {p} # r /\ (r \ {p}) \ {x} = both
      BY <1>5, <1>6, <1>7
    <2> QED BY <1>smaller, <2>1
  <1>9. g[r \ {x}] = f[p] + g[both]
    <2>1. p \in r \ {x} /\ r \ {x} # r /\ (r \ {x}) \ {p} = both
      BY <1>5, <1>6, <1>7
    <2> QED BY <1>smaller, <2>1
  <1>10. f[x] \in Int /\ f[p] \in Int /\ g[both] \in Int
    BY <1>4, <1>5, <1>6, SumsTyped
  <1> HIDE DEF both
  <1> QED BY <1>5, <1>6, <1>8, <1>9, <1>10

\* An element taken out takes its value with it.
LEMMA SumRemove ==
  ASSUME NEW S, IsFiniteSet(S), NEW f, NEW x \in S, \A y \in S : f[y] \in Int
  PROVE  SumFunctionOnSet(f, S) = f[x] + SumFunctionOnSet(f, S \ {x})
  <1>1. PICK g : Sums(g, f, S) /\ SumFunctionOnSet(f, S) = g[S]
    BY SumIsEntry
  <1>2. IsFiniteSet(S \ {x})
    BY FS_RemoveElement
  <1>3. PICK h : Sums(h, f, S \ {x}) /\ SumFunctionOnSet(f, S \ {x}) = h[S \ {x}]
    BY <1>2, SumIsEntry
  <1>4. S \ {x} \in SUBSET ((S \ {x}) \cap S)
    OBVIOUS
  <1>5. h[S \ {x}] = g[S \ {x}]
    BY <1>1, <1>2, <1>3, <1>4, SumsAgree
  <1>6. g[S] = f[x] + g[S \ {x}]
    <2>1. S \in SUBSET S
      OBVIOUS
    <2> QED BY <1>1, <2>1, SumsRemove
  <1> QED BY <1>1, <1>3, <1>5, <1>6

\* An element that joins brings its value.
LEMMA SumAdd ==
  ASSUME NEW S, IsFiniteSet(S), NEW f, NEW x, x \notin S,
         \A y \in S \cup {x} : f[y] \in Int
  PROVE  SumFunctionOnSet(f, S \cup {x}) = f[x] + SumFunctionOnSet(f, S)
  <1>1. IsFiniteSet(S \cup {x})
    BY FS_AddElement
  <1>2. (S \cup {x}) \ {x} = S
    OBVIOUS
  <1> QED BY <1>1, <1>2, SumRemove

\* A sum of naturals is at least every one of them.
LEMMA SumBounds ==
  ASSUME NEW S, IsFiniteSet(S), NEW f, \A y \in S : f[y] \in Nat, NEW x \in S
  PROVE  f[x] <= SumFunctionOnSet(f, S)
  <1>1. SumFunctionOnSet(f, S) = f[x] + SumFunctionOnSet(f, S \ {x})
    BY SumRemove
  <1>2. IsFiniteSet(S \ {x})
    BY FS_RemoveElement
  <1>3. SumFunctionOnSet(f, S \ {x}) \in Nat
    BY <1>2, SumTyped
  <1> QED BY <1>1, <1>3
=============================================================================
