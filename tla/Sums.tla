-------------------------------- MODULE Sums --------------------------------
(***************************************************************************)
(* Sums over finite sets, as the SQL aggregates SUM(...) of the balance    *)
(* queries and the totals over wallet coins take them: the fold            *)
(* SumFunctionOnSet of module Functions.  The fold is defined by recursion *)
(* over the subsets of its index set; the lemmas avoid an induction over a *)
(* predicate by counting instead: f summed over S is the number of pairs   *)
(* <<x, i>> with x in S and i in 1 .. f[x].                                *)
(***************************************************************************)
EXTENDS FiniteSetTheorems, TLAPS

\* The pairs that are counted.
Cells(f, S) == UNION {{x} \X (1 .. f[x]) : x \in S}

\* h is the function the fold of f over S is taken from.
IsFold(f, S, h) ==
  h = [s \in SUBSET S |->
         IF s = {} THEN 0
                   ELSE f[CHOOSE x \in s : TRUE] + h[s \ {CHOOSE x \in s : TRUE}]]

-----------------------------------------------------------------------------
(* Counting the pairs.                                                     *)

LEMMA CellsFinite ==
  ASSUME NEW S, IsFiniteSet(S), NEW f, \A x \in S : f[x] \in Nat
  PROVE  IsFiniteSet(Cells(f, S)) /\ Cardinality(Cells(f, S)) \in Nat
<1> DEFINE b  == [x \in S |-> {x} \X (1 .. f[x])]
           BB == {{x} \X (1 .. f[x]) : x \in S}
<1>1. b \in Surjection(S, BB)
  BY DEF Surjection
<1>2. IsFiniteSet(BB)
  <2> HIDE DEF b, BB
  <2> QED BY <1>1, FS_Surjection
<1>3. \A x \in S : IsFiniteSet({x} \X (1 .. f[x]))
  <2> TAKE x \in S
  <2>1. IsFiniteSet(1 .. f[x])
    BY FS_Interval
  <2>2. IsFiniteSet({x})
    BY FS_Singleton
  <2> QED BY <2>1, <2>2, FS_Product
<1>4. \A T \in BB : IsFiniteSet(T)
  BY <1>3
<1>5. IsFiniteSet(UNION BB)
  <2> HIDE DEF BB
  <2> QED BY <1>2, <1>4, FS_UNION
<1>6. Cells(f, S) = UNION BB
  BY DEF Cells
<1> QED BY <1>5, <1>6, FS_CardinalityType

LEMMA CellsUnion ==
  ASSUME NEW S, IsFiniteSet(S), NEW T, IsFiniteSet(T), S \cap T = {},
         NEW f, \A x \in S \cup T : f[x] \in Nat
  PROVE  Cardinality(Cells(f, S \cup T)) = Cardinality(Cells(f, S)) + Cardinality(Cells(f, T))
<1> DEFINE A == Cells(f, S)
           B == Cells(f, T)
<1>1. Cells(f, S \cup T) = A \cup B /\ A \cap B = {}
  BY DEF Cells
<1>2. IsFiniteSet(A) /\ Cardinality(A) \in Nat
  BY CellsFinite
<1>3. IsFiniteSet(B) /\ Cardinality(B) \in Nat
  BY CellsFinite
<1> HIDE DEF A, B
<1>4. Cardinality(A \cup B) = Cardinality(A) + Cardinality(B) - Cardinality({})
  BY <1>1, <1>2, <1>3, FS_Union
<1>5. Cardinality({}) = 0
  BY FS_EmptySet
<1>6. Cardinality(A \cup B) = Cardinality(A) + Cardinality(B)
  BY <1>2, <1>3, <1>4, <1>5, SMT
<1> QED BY <1>1, <1>6 DEF A, B

LEMMA CellsSingleton ==
  ASSUME NEW f, NEW x, f[x] \in Nat
  PROVE  Cardinality(Cells(f, {x})) = f[x]
<1> DEFINE A == {x} \X (1 .. f[x])
<1>1. IsFiniteSet(1 .. f[x]) /\ Cardinality(1 .. f[x]) = f[x]
  BY FS_Interval
<1>2. IsFiniteSet({x}) /\ Cardinality({x}) = 1
  BY FS_Singleton
<1>3. Cardinality(A) = Cardinality({x}) * Cardinality(1 .. f[x])
  BY <1>1, <1>2, FS_Product
<1>4. Cells(f, {x}) = A
  BY DEF Cells
<1> HIDE DEF A
<1> QED BY <1>1, <1>2, <1>3, <1>4

-----------------------------------------------------------------------------
(* The fold is the count.                                                  *)

LEMMA SumFold ==
  ASSUME NEW S, NEW f
  PROVE  SumFunctionOnSet(f, S) = (CHOOSE h : IsFold(f, S, h))[S]
BY DEF SumFunctionOnSet, FoldFunctionOnSet, MapThenFoldSet, IsFold

LEMMA FoldUnique ==
  ASSUME NEW S, IsFiniteSet(S), NEW f, NEW g, NEW h, IsFold(f, S, g), IsFold(f, S, h)
  PROVE  g[S] = h[S]
<1> DEFINE T == {s \in SUBSET S : g[s] # h[s]}
<1>1. IsWellFoundedOn(StrictSubsetOrdering(S), SUBSET S)
  BY FS_StrictSubsetOrderingWellFounded, FS_FiniteSubsetsOfFinite
<1>2. SUFFICES ASSUME T # {} PROVE FALSE
  OBVIOUS
<1>3. PICK s \in T : \A t \in T : <<t, s>> \notin StrictSubsetOrdering(S)
  BY <1>1, <1>2, WFMin, T \subseteq SUBSET S
<1>4. s \in SUBSET S /\ g[s] # h[s]
  BY <1>3
<1>5. s # {}
  BY <1>4 DEF IsFold
<1> DEFINE x == CHOOSE x \in s : TRUE
           t == s \ {x}
<1>6. x \in s
  BY <1>5
<1>7. t \in SUBSET S /\ <<t, s>> \in StrictSubsetOrdering(S)
  BY <1>4, <1>6 DEF StrictSubsetOrdering
<1>8. g[t] = h[t]
  BY <1>3, <1>7
<1>9. g[s] = f[x] + g[t] /\ h[s] = f[x] + h[t]
  BY <1>4, <1>5 DEF IsFold
<1> QED BY <1>4, <1>8, <1>9

\* A function that solves the recursion of the fold is the fold.
LEMMA SumIsFold ==
  ASSUME NEW S, IsFiniteSet(S), NEW f, NEW h, IsFold(f, S, h)
  PROVE  SumFunctionOnSet(f, S) = h[S]
<1>1. IsFold(f, S, CHOOSE k : IsFold(f, S, k))
  OBVIOUS
<1> QED BY <1>1, SumFold, FoldUnique

LEMMA CountIsFold ==
  ASSUME NEW S, IsFiniteSet(S), NEW f, \A x \in S : f[x] \in Nat
  PROVE  IsFold(f, S, [s \in SUBSET S |-> Cardinality(Cells(f, s))])
<1> DEFINE g    == [s \in SUBSET S |-> Cardinality(Cells(f, s))]
           c(s) == CHOOSE x \in s : TRUE
<1>1. \A s \in SUBSET S : g[s] = IF s = {} THEN 0 ELSE f[c(s)] + g[s \ {c(s)}]
  <2> SUFFICES ASSUME NEW s \in SUBSET S
               PROVE  g[s] = IF s = {} THEN 0 ELSE f[c(s)] + g[s \ {c(s)}]
    OBVIOUS
  <2>1. CASE s = {}
    BY <2>1, FS_EmptySet DEF Cells
  <2>2. CASE s # {}
    <3> DEFINE x == c(s)
    <3>1. x \in s
      BY <2>2
    <3> HIDE DEF x
    <3>2. IsFiniteSet(s \ {x}) /\ IsFiniteSet({x})
      BY FS_Subset, FS_Singleton
    <3>3. s = {x} \cup (s \ {x}) /\ {x} \cap (s \ {x}) = {}
      BY <3>1
    <3>4. Cardinality(Cells(f, s)) = Cardinality(Cells(f, {x})) + Cardinality(Cells(f, s \ {x}))
      BY <3>2, <3>3, CellsUnion
    <3>5. g[s] = f[x] + g[s \ {x}]
      BY <3>1, <3>4, CellsSingleton
    <3> QED BY <2>2, <3>5 DEF x
  <2> QED BY <2>1, <2>2
<1> HIDE DEF g
<1>2. g = [s \in SUBSET S |-> g[s]]
  BY DEF g
<1>3. IsFold(f, S, g)
  BY <1>1, <1>2 DEF IsFold
<1> QED BY <1>3 DEF g

LEMMA SumIsCount ==
  ASSUME NEW S, IsFiniteSet(S), NEW f, \A x \in S : f[x] \in Nat
  PROVE  SumFunctionOnSet(f, S) = Cardinality(Cells(f, S))
<1> DEFINE g == [s \in SUBSET S |-> Cardinality(Cells(f, s))]
<1>1. IsFold(f, S, g)
  BY CountIsFold
<1>2. g[S] = Cardinality(Cells(f, S))
  OBVIOUS
<1> HIDE DEF g
<1> QED BY <1>1, <1>2, SumIsFold

-----------------------------------------------------------------------------
(* What the proofs about balances and coins cite.                          *)

LEMMA SumNat ==
  ASSUME NEW S, IsFiniteSet(S), NEW f, \A x \in S : f[x] \in Nat
  PROVE  SumFunctionOnSet(f, S) \in Nat
BY SumIsCount, CellsFinite

LEMMA SumEmpty ==
  ASSUME NEW f
  PROVE  SumFunctionOnSet(f, {}) = 0
<1>1. Cells(f, {}) = {}
  BY DEF Cells
<1> QED BY <1>1, SumIsCount, FS_EmptySet

LEMMA SumSingleton ==
  ASSUME NEW f, NEW x, f[x] \in Nat
  PROVE  SumFunctionOnSet(f, {x}) = f[x]
BY SumIsCount, CellsSingleton, FS_Singleton

LEMMA SumUnion ==
  ASSUME NEW S, IsFiniteSet(S), NEW T, IsFiniteSet(T), S \cap T = {},
         NEW f, \A x \in S \cup T : f[x] \in Nat
  PROVE  SumFunctionOnSet(f, S \cup T) = SumFunctionOnSet(f, S) + SumFunctionOnSet(f, T)
<1>1. IsFiniteSet(S \cup T)
  BY FS_Union
<1> QED BY <1>1, SumIsCount, CellsUnion

LEMMA SumAdd ==
  ASSUME NEW S, IsFiniteSet(S), NEW f, NEW x, x \notin S,
         \A y \in S \cup {x} : f[y] \in Nat
  PROVE  SumFunctionOnSet(f, S \cup {x}) = SumFunctionOnSet(f, S) + f[x]
<1>1. IsFiniteSet({x}) /\ S \cap {x} = {}
  BY FS_Singleton
<1> QED BY <1>1, SumUnion, SumSingleton

LEMMA SumRemove ==
  ASSUME NEW S, IsFiniteSet(S), NEW f, NEW x \in S, \A y \in S : f[y] \in Nat
  PROVE  SumFunctionOnSet(f, S) = SumFunctionOnSet(f, S \ {x}) + f[x]
<1>1. IsFiniteSet(S \ {x}) /\ x \notin S \ {x} /\ S = (S \ {x}) \cup {x}
  BY FS_Subset
<1>2. SumFunctionOnSet(f, (S \ {x}) \cup {x}) = SumFunctionOnSet(f, S \ {x}) + f[x]
  BY <1>1, SumAdd
<1> QED BY <1>1, <1>2

LEMMA SumSubset ==
  ASSUME NEW S, IsFiniteSet(S), NEW T \in SUBSET S, NEW f, \A x \in S : f[x] \in Nat
  PROVE  /\ IsFiniteSet(T)
         /\ SumFunctionOnSet(f, T) \in Nat
         /\ SumFunctionOnSet(f, T) <= SumFunctionOnSet(f, S)
<1>1. IsFiniteSet(T) /\ IsFiniteSet(S \ T)
  BY FS_Subset
<1>2. S = T \cup (S \ T) /\ T \cap (S \ T) = {}
  OBVIOUS
<1>3. SumFunctionOnSet(f, S) = SumFunctionOnSet(f, T) + SumFunctionOnSet(f, S \ T)
  BY <1>1, <1>2, SumUnion
<1>4. SumFunctionOnSet(f, T) \in Nat /\ SumFunctionOnSet(f, S \ T) \in Nat
  BY <1>1, SumNat
<1> QED BY <1>1, <1>3, <1>4

LEMMA SumSame ==
  ASSUME NEW S, IsFiniteSet(S), NEW f, NEW g, \A x \in S : f[x] \in Nat /\ g[x] = f[x]
  PROVE  SumFunctionOnSet(g, S) = SumFunctionOnSet(f, S)
<1>1. Cells(g, S) = Cells(f, S)
  BY DEF Cells
<1>2. SumFunctionOnSet(g, S) = Cardinality(Cells(g, S))
  BY SumIsCount
<1> QED BY <1>1, <1>2, SumIsCount

\* One term of a sum changes.
LEMMA SumChange ==
  ASSUME NEW S, IsFiniteSet(S), NEW f, NEW g, NEW x \in S,
         \A y \in S : f[y] \in Nat /\ g[y] \in Nat,
         \A y \in S \ {x} : g[y] = f[y]
  PROVE  SumFunctionOnSet(g, S) + f[x] = SumFunctionOnSet(f, S) + g[x]
<1> DEFINE T == S \ {x}
<1>1. IsFiniteSet(T)
  BY FS_Subset
<1>2. \A y \in T : f[y] \in Nat /\ g[y] = f[y]
  OBVIOUS
<1>3. SumFunctionOnSet(f, S) = SumFunctionOnSet(f, T) + f[x]
  BY SumRemove
<1>4. SumFunctionOnSet(g, S) = SumFunctionOnSet(g, T) + g[x]
  BY SumRemove
<1> HIDE DEF T
<1>5. SumFunctionOnSet(g, T) = SumFunctionOnSet(f, T)
  BY <1>1, <1>2, SumSame
<1>6. SumFunctionOnSet(f, T) \in Nat
  BY <1>1, <1>2, SumNat
<1> QED BY <1>3, <1>4, <1>5, <1>6

\* A sum of nothing but zeros.
LEMMA SumZero ==
  ASSUME NEW S, IsFiniteSet(S), NEW f, \A x \in S : f[x] = 0
  PROVE  SumFunctionOnSet(f, S) = 0
<1>1. \A x \in S : f[x] \in Nat /\ 1 .. f[x] = {}
  OBVIOUS
<1>2. Cells(f, S) = {}
  BY <1>1 DEF Cells
<1> QED BY <1>1, <1>2, SumIsCount, FS_EmptySet

-----------------------------------------------------------------------------
(* Groups and differences, as GROUP BY takes them and a balance.           *)

\* A difference, which need not be a natural number, is summed term by term.
LEMMA SumMinus ==
  ASSUME NEW S, IsFiniteSet(S), NEW f, NEW g, NEW h,
         \A x \in S : f[x] \in Nat /\ g[x] \in Nat /\ h[x] = f[x] - g[x]
  PROVE  SumFunctionOnSet(h, S) = SumFunctionOnSet(f, S) - SumFunctionOnSet(g, S)
<1> DEFINE k    == [s \in SUBSET S |-> SumFunctionOnSet(f, s) - SumFunctionOnSet(g, s)]
           c(s) == CHOOSE x \in s : TRUE
<1>1. \A s \in SUBSET S : k[s] = IF s = {} THEN 0 ELSE h[c(s)] + k[s \ {c(s)}]
  <2> SUFFICES ASSUME NEW s \in SUBSET S
               PROVE  k[s] = IF s = {} THEN 0 ELSE h[c(s)] + k[s \ {c(s)}]
    OBVIOUS
  <2>1. CASE s = {}
    BY <2>1, SumEmpty
  <2>2. CASE s # {}
    <3> DEFINE x == c(s)
               t == s \ {x}
    <3>1. x \in s
      BY <2>2
    <3> HIDE DEF x
    <3>2. IsFiniteSet(s) /\ IsFiniteSet(t)
      BY FS_Subset
    <3>3. /\ SumFunctionOnSet(f, s) = SumFunctionOnSet(f, t) + f[x]
          /\ SumFunctionOnSet(g, s) = SumFunctionOnSet(g, t) + g[x]
      BY <3>1, <3>2, SumRemove
    <3>4. SumFunctionOnSet(f, t) \in Nat /\ SumFunctionOnSet(g, t) \in Nat
      BY <3>2, SumNat
    <3>5. f[x] \in Nat /\ g[x] \in Nat /\ h[x] = f[x] - g[x]
      BY <3>1
    <3>6. /\ k[s] = SumFunctionOnSet(f, s) - SumFunctionOnSet(g, s)
          /\ k[t] = SumFunctionOnSet(f, t) - SumFunctionOnSet(g, t)
      OBVIOUS
    <3> HIDE DEF k, t
    <3>7. k[s] = h[x] + k[t]
      BY <3>3, <3>4, <3>5, <3>6
    <3> QED BY <2>2, <3>7 DEF x, t
  <2> QED BY <2>1, <2>2
<1>2. k[S] = SumFunctionOnSet(f, S) - SumFunctionOnSet(g, S) /\ k = [s \in SUBSET S |-> k[s]]
  OBVIOUS
<1> HIDE DEF k
<1>3. IsFold(h, S, k)
  BY <1>1, <1>2 DEF IsFold
<1> QED BY <1>2, <1>3, SumIsFold

\* The keys of a finite set are finitely many.
LEMMA ImageFinite ==
  ASSUME NEW S, IsFiniteSet(S), NEW key
  PROVE  IsFiniteSet({key[x] : x \in S})
<1> DEFINE f == [x \in S |-> key[x]]
           T == {key[x] : x \in S}
<1>1. f \in Surjection(S, T)
  BY DEF Surjection
<1> HIDE DEF f, T
<1>. QED  BY <1>1, FS_Surjection DEF T

\* The members of S in the group d.
Group(S, key, d) == {x \in S : key[x] = d}

\* A sum over groups is that of what the groups hold: h gives the sum of f over
\* each group.
LEMMA SumGroups ==
  ASSUME NEW S, IsFiniteSet(S), NEW D, IsFiniteSet(D), NEW f, NEW key, NEW h,
         \A x \in S : f[x] \in Nat /\ key[x] \in D,
         \A d \in D : h[d] = SumFunctionOnSet(f, Group(S, key, d))
  PROVE  SumFunctionOnSet(h, D) = SumFunctionOnSet(f, S)
<1> DEFINE in(E) == {x \in S : key[x] \in E}
           k     == [E \in SUBSET D |-> SumFunctionOnSet(f, in(E))]
           c(E)  == CHOOSE d \in E : TRUE
<1>1. \A E \in SUBSET D : k[E] = IF E = {} THEN 0 ELSE h[c(E)] + k[E \ {c(E)}]
  <2> SUFFICES ASSUME NEW E \in SUBSET D
               PROVE  k[E] = IF E = {} THEN 0 ELSE h[c(E)] + k[E \ {c(E)}]
    OBVIOUS
  <2>1. CASE E = {}
    <3>1. in(E) = {}
      BY <2>1
    <3> QED BY <2>1, <3>1, SumEmpty
  <2>2. CASE E # {}
    <3> DEFINE d == c(E)
               F == E \ {d}
    <3>1. d \in E
      BY <2>2
    <3> HIDE DEF d
    <3>2. /\ in(E) = in(F) \cup Group(S, key, d) /\ in(F) \cap Group(S, key, d) = {}
          /\ in(F) \in SUBSET S /\ Group(S, key, d) \in SUBSET S
      BY <3>1 DEF Group
    <3>3. /\ k[E] = SumFunctionOnSet(f, in(E)) /\ k[F] = SumFunctionOnSet(f, in(F))
          /\ h[d] = SumFunctionOnSet(f, Group(S, key, d))
      BY <3>1
    <3> HIDE DEF k, F, in
    <3>4. IsFiniteSet(in(F)) /\ IsFiniteSet(Group(S, key, d))
      BY <3>2, FS_Subset
    <3>5. \A x \in in(F) \cup Group(S, key, d) : f[x] \in Nat
      BY <3>2
    <3>6. SumFunctionOnSet(f, in(F) \cup Group(S, key, d))
            = SumFunctionOnSet(f, in(F)) + SumFunctionOnSet(f, Group(S, key, d))
      BY <3>2, <3>4, <3>5, SumUnion
    <3>7. SumFunctionOnSet(f, in(F)) \in Nat /\ SumFunctionOnSet(f, Group(S, key, d)) \in Nat
      BY <3>4, <3>5, SumNat
    <3>8. k[E] = h[d] + k[F]
      BY <3>2, <3>3, <3>6, <3>7
    <3> QED BY <2>2, <3>8 DEF d, F
  <2> QED BY <2>1, <2>2
<1>2. k[D] = SumFunctionOnSet(f, S) /\ k = [E \in SUBSET D |-> k[E]]
  <2>1. in(D) = S
    OBVIOUS
  <2> QED BY <2>1
<1> HIDE DEF k
<1>3. IsFold(h, D, k)
  BY <1>1, <1>2 DEF IsFold
<1> QED BY <1>2, <1>3, SumIsFold

\* So is a sum of counts.
LEMMA CountGroups ==
  ASSUME NEW S, IsFiniteSet(S), NEW D, IsFiniteSet(D), NEW key, NEW h,
         \A x \in S : key[x] \in D,
         \A d \in D : h[d] = Cardinality(Group(S, key, d))
  PROVE  SumFunctionOnSet(h, D) = Cardinality(S)
<1> DEFINE in(E) == {x \in S : key[x] \in E}
           k     == [E \in SUBSET D |-> Cardinality(in(E))]
           c(E)  == CHOOSE d \in E : TRUE
<1>1. \A E \in SUBSET D : k[E] = IF E = {} THEN 0 ELSE h[c(E)] + k[E \ {c(E)}]
  <2> SUFFICES ASSUME NEW E \in SUBSET D
               PROVE  k[E] = IF E = {} THEN 0 ELSE h[c(E)] + k[E \ {c(E)}]
    OBVIOUS
  <2>1. CASE E = {}
    <3>1. in(E) = {}
      BY <2>1
    <3> QED BY <2>1, <3>1, FS_EmptySet
  <2>2. CASE E # {}
    <3> DEFINE d == c(E)
               F == E \ {d}
    <3>1. d \in E
      BY <2>2
    <3> HIDE DEF d
    <3>2. /\ in(E) = in(F) \cup Group(S, key, d) /\ in(F) \cap Group(S, key, d) = {}
          /\ in(F) \in SUBSET S /\ Group(S, key, d) \in SUBSET S
      BY <3>1 DEF Group
    <3>3. /\ k[E] = Cardinality(in(E)) /\ k[F] = Cardinality(in(F))
          /\ h[d] = Cardinality(Group(S, key, d))
      BY <3>1
    <3> HIDE DEF k, F, in
    <3>4. IsFiniteSet(in(F)) /\ IsFiniteSet(Group(S, key, d))
      BY <3>2, FS_Subset
    <3>5. Cardinality(in(F)) \in Nat /\ Cardinality(Group(S, key, d)) \in Nat /\ Cardinality({}) = 0
      BY <3>4, FS_CardinalityType, FS_EmptySet
    <3>6. Cardinality(in(F) \cup Group(S, key, d))
            = Cardinality(in(F)) + Cardinality(Group(S, key, d)) - Cardinality({})
      BY <3>2, <3>4, FS_Union
    <3>7. k[E] = h[d] + k[F]
      BY <3>2, <3>3, <3>5, <3>6
    <3> QED BY <2>2, <3>7 DEF d, F
  <2> QED BY <2>1, <2>2
<1>2. k[D] = Cardinality(S) /\ k = [E \in SUBSET D |-> k[E]]
  <2>1. in(D) = S
    OBVIOUS
  <2> QED BY <2>1
<1> HIDE DEF k
<1>3. IsFold(h, D, k)
  BY <1>1, <1>2 DEF IsFold
<1> QED BY <1>2, <1>3, SumIsFold

=============================================================================
