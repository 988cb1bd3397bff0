----------------------------- MODULE FiniteSums -----------------------------
(* Sums over finite sets, as MapThenSumSet of the community modules folds    *)
(* them, and what the proofs about amounts and counters need to know of them.*)
EXTENDS FiniteSetsExt, FiniteSetTheorems, WellFoundedInduction, TLAPS

\* g is the table of the sums of f over the subsets of S: the equation by
\* which MapThenFoldSet defines its fold.
IsSumTable(g, f, S) ==
    g = [s \in SUBSET S |->
            IF s = {} THEN 0
            ELSE f[CHOOSE x \in s : TRUE] + g[s \ {CHOOSE x \in s : TRUE}]]

\* The sum of f[x] for the x of S.
Total(f, S) == (CHOOSE g : IsSumTable(g, f, S))[S]

\* The table restricted to the subsets of a subset is its table.
LEMMA TableOfSubset ==
  ASSUME NEW S, NEW T \in SUBSET S, NEW f, NEW g, IsSumTable(g, f, S)
  PROVE  IsSumTable([s \in SUBSET T |-> g[s]], f, T)
<1> DEFINE h == [s \in SUBSET T |-> g[s]]
<1>1. ASSUME NEW s \in SUBSET T
      PROVE  h[s] = IF s = {} THEN 0
                    ELSE f[CHOOSE x \in s : TRUE] + h[s \ {CHOOSE x \in s : TRUE}]
  BY DEF IsSumTable
<1> HIDE DEF h
<1>2. h = [s \in SUBSET T |-> h[s]]
  BY DEF h
<1> QED BY <1>1, <1>2 DEF IsSumTable, h

\* Induction over finite sets: a non-empty collection of subsets of a finite
\* set has a member none of whose proper subsets is in it.
LEMMA SmallestSubset ==
  ASSUME NEW S, IsFiniteSet(S), NEW Bad \in SUBSET SUBSET S, Bad # {}
  PROVE  \E s \in Bad : \A t \in Bad : t \subseteq s => t = s
<1>1. Bad \subseteq FiniteSubsetsOf(S)
  BY FS_FiniteSubsetsOfFinite
<1>2. PICK s \in Bad : \A t \in Bad : <<t, s>> \notin StrictSubsetOrdering(S)
  BY <1>1, FS_StrictSubsetOrderingWellFounded, WFMin
<1> QED BY <1>2 DEF StrictSubsetOrdering

\* A finite set has at most one table.
LEMMA TableUnique ==
  ASSUME NEW S, IsFiniteSet(S), NEW f, NEW g, NEW h, IsSumTable(g, f, S), IsSumTable(h, f, S)
  PROVE  g = h
<1> DEFINE Bad == {s \in SUBSET S : g[s] # h[s]}
<1>1. SUFFICES Bad = {}
  BY DEF IsSumTable
<1>2. SUFFICES ASSUME Bad # {} PROVE FALSE
  OBVIOUS
<1>3. PICK s \in Bad : \A t \in Bad : t \subseteq s => t = s
  <2>1. Bad \in SUBSET SUBSET S
    OBVIOUS
  <2> HIDE DEF Bad
  <2> QED BY <1>2, <2>1, SmallestSubset
<1>4. CASE s = {}
  BY <1>3, <1>4 DEF IsSumTable
<1>5. CASE s # {}
  <2> DEFINE x == CHOOSE x \in s : TRUE
  <2>1. x \in s
    BY <1>5
  <2> HIDE DEF x
  <2>2. s \ {x} \in SUBSET S /\ s \ {x} # s
    BY <1>3, <2>1
  <2>3. g[s \ {x}] = h[s \ {x}]
    BY <1>3, <2>2
  <2>4. g[s] = f[x] + g[s \ {x}] /\ h[s] = f[x] + h[s \ {x}]
    BY <1>3, <1>5 DEF x, IsSumTable
  <2> QED BY <1>3, <2>3, <2>4
<1> QED BY <1>4, <1>5

\* What a table of S says of the sums over the subsets of S.
LEMMA TableIsTotal ==
  ASSUME NEW S, IsFiniteSet(S), NEW f, NEW g, IsSumTable(g, f, S)
  PROVE  \A s \in SUBSET S : g[s] = Total(f, s)
<1> SUFFICES ASSUME NEW s \in SUBSET S PROVE g[s] = Total(f, s)
  OBVIOUS
<1> DEFINE h == [t \in SUBSET s |-> g[t]]
<1>1. IsSumTable(h, f, s) /\ h[s] = g[s]
  BY TableOfSubset
<1>2. IsFiniteSet(s)
  BY FS_Subset
<1>3. (CHOOSE k : IsSumTable(k, f, s)) = h
  BY <1>1, <1>2, TableUnique
<1> QED BY <1>1, <1>3 DEF Total

\* Every finite set has a table.
LEMMA TableExists ==
  ASSUME NEW S, IsFiniteSet(S), NEW f
  PROVE  \E g : IsSumTable(g, f, S)
<1> DEFINE Bad == {s \in SUBSET S : ~\E g : IsSumTable(g, f, s)}
<1>1. SUFFICES ASSUME Bad # {} PROVE FALSE
  OBVIOUS
<1>2. PICK T \in Bad : \A t \in Bad : t \subseteq T => t = T
  <2>1. Bad \in SUBSET SUBSET S
    OBVIOUS
  <2> HIDE DEF Bad
  <2> QED BY <1>1, <2>1, SmallestSubset
<1> DEFINE Pick(s) == CHOOSE x \in s : TRUE
           g == [s \in SUBSET T |-> IF s = {} THEN 0
                                    ELSE f[Pick(s)] + Total(f, s \ {Pick(s)})]
<1>3. ASSUME NEW s \in SUBSET T, s # T PROVE g[s] = Total(f, s)
  <2>1. PICK h : IsSumTable(h, f, s)
    BY <1>2, <1>3
  <2>2. IsFiniteSet(s)
    BY <1>2, FS_Subset
  <2>3. \A t \in SUBSET s : h[t] = Total(f, t)
    BY <2>1, <2>2, TableIsTotal
  <2>4. h[s] = IF s = {} THEN 0 ELSE f[Pick(s)] + h[s \ {Pick(s)}]
    BY <2>1 DEF IsSumTable
  <2> QED BY <2>3, <2>4
<1>4. ASSUME NEW s \in SUBSET T, s # {} PROVE s \ {Pick(s)} \in SUBSET T /\ s \ {Pick(s)} # T
  <2>1. Pick(s) \in s
    BY <1>4
  <2> QED BY <2>1
<1>5. ASSUME NEW s \in SUBSET T
      PROVE  g[s] = IF s = {} THEN 0 ELSE f[Pick(s)] + g[s \ {Pick(s)}]
  <2>1. CASE s = {}
    BY <2>1
  <2>2. CASE s # {}
    <3>1. g[s] = f[Pick(s)] + Total(f, s \ {Pick(s)})
      BY <2>2
    <3>2. g[s \ {Pick(s)}] = Total(f, s \ {Pick(s)})
      BY <1>3, <1>4, <2>2
    <3> QED BY <2>2, <3>1, <3>2
  <2> QED BY <2>1, <2>2
<1>6. g = [s \in SUBSET T |-> g[s]]
  OBVIOUS
<1> HIDE DEF g
<1>7. IsSumTable(g, f, T)
  BY <1>5, <1>6 DEF IsSumTable
<1> QED BY <1>2, <1>7

-----------------------------------------------------------------------------
(* The laws of sums.                                                        *)

LEMMA TotalStep ==
  ASSUME NEW S, IsFiniteSet(S), NEW f
  PROVE  Total(f, S) = IF S = {} THEN 0
                       ELSE f[CHOOSE x \in S : TRUE] + Total(f, S \ {CHOOSE x \in S : TRUE})
<1>1. PICK g : IsSumTable(g, f, S)
  BY TableExists
<1>2. \A s \in SUBSET S : g[s] = Total(f, s)
  BY <1>1, TableIsTotal
<1>3. g[S] = IF S = {} THEN 0
             ELSE f[CHOOSE x \in S : TRUE] + g[S \ {CHOOSE x \in S : TRUE}]
  BY <1>1 DEF IsSumTable
<1> QED BY <1>2, <1>3

LEMMA TotalEmpty == \A f : Total(f, {}) = 0
  BY TotalStep, FS_EmptySet

\* Sums of integers are integers, and any element may be taken out first.
LEMMA TotalRemove ==
  ASSUME NEW S, IsFiniteSet(S), NEW f, \A x \in S : f[x] \in Int
  PROVE  /\ Total(f, S) \in Int
         /\ \A y \in S : Total(f, S) = f[y] + Total(f, S \ {y})
<1> DEFINE Good(s) == /\ Total(f, s) \in Int
                      /\ \A y \in s : Total(f, s) = f[y] + Total(f, s \ {y})
           Bad == {s \in SUBSET S : ~Good(s)}
<1>1. SUFFICES ASSUME Bad # {} PROVE FALSE
  OBVIOUS
<1>2. PICK s \in Bad : \A t \in Bad : t \subseteq s => t = s
  <2>1. Bad \in SUBSET SUBSET S
    OBVIOUS
  <2> HIDE DEF Bad
  <2> QED BY <1>1, <2>1, SmallestSubset
<1>3. s \in SUBSET S /\ ~Good(s) /\ \A t \in SUBSET s : t # s => Good(t)
  BY <1>2
<1> HIDE DEF Bad
<1>4. IsFiniteSet(s)
  BY <1>3, FS_Subset
<1>5. CASE s = {}
  BY <1>3, <1>5, TotalEmpty
<1>6. CASE s # {}
  <2>1. PICK x \in s : Total(f, s) = f[x] + Total(f, s \ {x})
    BY <1>4, <1>6, TotalStep
  <2>2. Good(s \ {x}) /\ f[x] \in Int
    BY <1>3, <2>1
  <2>3. ASSUME NEW y \in s PROVE Total(f, s) = f[y] + Total(f, s \ {y})
    <3>1. CASE y = x
      BY <2>1, <3>1
    <3>2. CASE y # x
      <4>1. Total(f, s \ {x}) = f[y] + Total(f, (s \ {x}) \ {y})
        BY <2>2, <3>2
      <4>2. Good(s \ {y}) /\ f[y] \in Int
        BY <1>3
      <4>3. Total(f, s \ {y}) = f[x] + Total(f, (s \ {y}) \ {x})
        BY <2>1, <3>2, <4>2
      <4>4. (s \ {y}) \ {x} = (s \ {x}) \ {y}
        OBVIOUS
      <4>5. Total(f, (s \ {x}) \ {y}) \in Int
        BY <1>3, <2>1
      <4>6. Total(f, s) = f[x] + (f[y] + Total(f, (s \ {x}) \ {y}))
        BY <2>1, <4>1
      <4>7. f[y] + Total(f, s \ {y}) = f[y] + (f[x] + Total(f, (s \ {x}) \ {y}))
        BY <4>3, <4>4
      <4>8. f[x] \in Int /\ f[y] \in Int
        BY <2>2, <4>2
      <4> HIDE DEF Good
      <4> QED BY <4>5, <4>6, <4>7, <4>8
    <3> QED BY <3>1, <3>2
  <2>4. Total(f, s) \in Int
    BY <2>1, <2>2
  <2> QED BY <1>3, <2>3, <2>4
<1> QED BY <1>5, <1>6

LEMMA TotalAdd ==
  ASSUME NEW S, IsFiniteSet(S), NEW y, y \notin S, NEW f, \A x \in S \cup {y} : f[x] \in Int
  PROVE  Total(f, S \cup {y}) = f[y] + Total(f, S)
<1>1. IsFiniteSet(S \cup {y}) /\ (S \cup {y}) \ {y} = S
  BY FS_AddElement
<1> QED BY <1>1, TotalRemove

\* A sum is no less than another of fewer, or smaller, numbers.
LEMMA TotalOrder ==
  ASSUME NEW S, IsFiniteSet(S), NEW T \in SUBSET S, NEW f, NEW g,
         \A x \in S : g[x] \in Int,
         \A x \in T : f[x] \in Int /\ f[x] <= g[x],
         \A x \in S \ T : g[x] >= 0
  PROVE  Total(f, T) <= Total(g, S)
<1> DEFINE Good(s) == Total(f, s \cap T) <= Total(g, s)
           Bad == {s \in SUBSET S : ~Good(s)}
<1>1. SUFFICES ASSUME Bad # {} PROVE FALSE
  <2>1. S \cap T = T
    OBVIOUS
  <2>2. Bad = {} => Good(S)
    OBVIOUS
  <2> QED BY <1>1, <2>1, <2>2
<1>2. PICK s \in Bad : \A t \in Bad : t \subseteq s => t = s
  <2>1. Bad \in SUBSET SUBSET S
    OBVIOUS
  <2> HIDE DEF Bad
  <2> QED BY <1>1, <2>1, SmallestSubset
<1>3. s \in SUBSET S /\ ~Good(s) /\ \A t \in SUBSET s : t # s => Good(t)
  BY <1>2
<1> HIDE DEF Bad
<1>4. IsFiniteSet(s) /\ IsFiniteSet(s \cap T)
  BY <1>3, FS_Subset
<1>5. CASE s = {}
  <2>1. s \cap T = {}
    BY <1>5
  <2> QED BY <1>3, <1>5, <2>1, TotalEmpty
<1>6. CASE s # {}
  <2>1. PICK x \in s : TRUE
    BY <1>6
  <2> DEFINE r == s \ {x}
  <2>2. Good(r)
    BY <1>3
  <2>3. Total(g, s) = g[x] + Total(g, r) /\ g[x] \in Int
    BY <1>3, <1>4, TotalRemove
  <2>4. IsFiniteSet(r) /\ IsFiniteSet(r \cap T)
    BY <1>3, FS_Subset
  <2>5. Total(g, r) \in Int /\ Total(f, r \cap T) \in Int
    BY <1>3, <2>4, TotalRemove
  <2>6. CASE x \in T
    <3>1. r \cap T = (s \cap T) \ {x}
      OBVIOUS
    <3>2. Total(f, s \cap T) = f[x] + Total(f, r \cap T)
      BY <1>4, <2>6, <3>1, TotalRemove
    <3>3. f[x] \in Int /\ f[x] <= g[x]
      BY <2>6
    <3>4. Total(f, r \cap T) <= Total(g, r)
      BY <2>2
    <3>5. ~(Total(f, s \cap T) <= Total(g, s))
      BY <1>3
    <3> HIDE DEF Good, r
    <3> QED BY <2>3, <2>5, <3>2, <3>3, <3>4, <3>5
  <2>7. CASE x \notin T
    <3>1. r \cap T = s \cap T
      BY <2>7
    <3>2. g[x] >= 0
      BY <1>3, <2>7
    <3>3. Total(f, s \cap T) <= Total(g, r)
      BY <2>2, <3>1
    <3>4. ~(Total(f, s \cap T) <= Total(g, s)) /\ Total(f, s \cap T) \in Int
      BY <1>3, <2>5, <3>1
    <3> HIDE DEF Good, r
    <3> QED BY <2>3, <2>5, <3>2, <3>3, <3>4
  <2> QED BY <2>6, <2>7
<1> QED BY <1>5, <1>6

\* A sum of zeros is zero.
LEMMA TotalZero ==
  ASSUME NEW S, IsFiniteSet(S), NEW f, \A x \in S : f[x] = 0
  PROVE  Total(f, S) = 0
<1> DEFINE Bad == {s \in SUBSET S : Total(f, s) # 0}
<1>1. SUFFICES ASSUME Bad # {} PROVE FALSE
  OBVIOUS
<1>2. PICK s \in Bad : \A t \in Bad : t \subseteq s => t = s
  <2>1. Bad \in SUBSET SUBSET S
    OBVIOUS
  <2> HIDE DEF Bad
  <2> QED BY <1>1, <2>1, SmallestSubset
<1>3. s # {} /\ IsFiniteSet(s)
  BY <1>2, TotalEmpty, FS_Subset
<1>4. PICK x \in s : TRUE
  BY <1>3
<1>5. Total(f, s) = f[x] + Total(f, s \ {x})
  BY <1>2, <1>3, TotalRemove
<1>6. f[x] = 0 /\ Total(f, s \ {x}) = 0
  BY <1>2
<1> QED BY <1>2, <1>5, <1>6

\* Only what is summed matters.
LEMMA TotalSame ==
  ASSUME NEW S, IsFiniteSet(S), NEW f, NEW g, \A x \in S : f[x] \in Int /\ f[x] = g[x]
  PROVE  Total(f, S) = Total(g, S)
<1>1. Total(f, S) <= Total(g, S) /\ Total(g, S) <= Total(f, S)
  BY TotalOrder
<1>2. Total(f, S) \in Int /\ Total(g, S) \in Int
  BY TotalRemove
<1> QED BY <1>1, <1>2

\* Summed over the names of the elements instead of the elements.
LEMMA TotalRenamed ==
  ASSUME NEW S, IsFiniteSet(S), NEW f, NEW g, NEW name,
         \A x \in S : f[x] \in Int /\ f[x] = g[name[x]],
         \A x, y \in S : name[x] = name[y] => x = y
  PROVE  /\ IsFiniteSet({name[x] : x \in S})
         /\ Total(f, S) = Total(g, {name[x] : x \in S})
<1> DEFINE Named(s) == {name[x] : x \in s}
           Good(s) == IsFiniteSet(Named(s)) /\ Total(f, s) = Total(g, Named(s))
           Bad == {s \in SUBSET S : ~Good(s)}
<1>1. SUFFICES ASSUME Bad # {} PROVE FALSE
  <2>1. Bad = {} => Good(S)
    OBVIOUS
  <2> QED BY <1>1, <2>1
<1>2. PICK s \in Bad : \A t \in Bad : t \subseteq s => t = s
  <2>1. Bad \in SUBSET SUBSET S
    OBVIOUS
  <2> HIDE DEF Bad
  <2> QED BY <1>1, <2>1, SmallestSubset
<1>3. s \in SUBSET S /\ ~Good(s) /\ \A t \in SUBSET s : t # s => Good(t)
  BY <1>2
<1> HIDE DEF Bad
<1>4. IsFiniteSet(s)
  BY <1>3, FS_Subset
<1>5. CASE s = {}
  <2>1. Named(s) = {}
    BY <1>5
  <2> QED BY <1>3, <1>5, <2>1, TotalEmpty, FS_EmptySet
<1>6. CASE s # {}
  <2>1. PICK x \in s : TRUE
    BY <1>6
  <2> DEFINE r == s \ {x}
  <2>2. IsFiniteSet(Named(r)) /\ Total(f, r) = Total(g, Named(r))
    BY <1>3
  <2>3. Total(f, s) = f[x] + Total(f, r)
    <3>1. \A z \in s : f[z] \in Int
      BY <1>3
    <3> QED BY <1>4, <3>1, TotalRemove
  <2>4. Named(s) = Named(r) \cup {name[x]} /\ name[x] \notin Named(r)
    BY <1>3
  <2>5. \A z \in Named(r) \cup {name[x]} : g[z] \in Int
    BY <1>3
  <2>6. f[x] = g[name[x]]
    BY <1>3
  <2> DEFINE R == Named(r)
             y == name[x]
  <2>7. IsFiniteSet(R) /\ y \notin R /\ \A z \in R \cup {y} : g[z] \in Int
    BY <2>2, <2>4, <2>5
  <2>8. Named(s) = R \cup {y}
    BY <2>4
  <2> HIDE DEF Named, R, y
  <2>9. Total(g, R \cup {y}) = g[y] + Total(g, R) /\ IsFiniteSet(R \cup {y})
    BY <2>7, TotalAdd, FS_AddElement
  <2>10. Total(f, s) = Total(g, Named(s))
    BY <2>2, <2>3, <2>6, <2>8, <2>9 DEF R, y
  <2> QED BY <1>3, <2>8, <2>9, <2>10
<1> QED BY <1>5, <1>6

\* The sum over two sets that share nothing is the sum of the sums.
LEMMA TotalUnion ==
  ASSUME NEW S, IsFiniteSet(S), NEW T, IsFiniteSet(T), S \cap T = {},
         NEW f, \A x \in S \cup T : f[x] \in Int
  PROVE  Total(f, S \cup T) = Total(f, S) + Total(f, T)
<1> DEFINE Good(s) == Total(f, s \cup T) = Total(f, s) + Total(f, T)
           Bad == {s \in SUBSET S : ~Good(s)}
<1>1. SUFFICES ASSUME Bad # {} PROVE FALSE
  <2>1. Bad = {} => Good(S)
    OBVIOUS
  <2> QED BY <1>1, <2>1
<1>2. PICK s \in Bad : \A t \in Bad : t \subseteq s => t = s
  <2>1. Bad \in SUBSET SUBSET S
    OBVIOUS
  <2> HIDE DEF Bad
  <2> QED BY <1>1, <2>1, SmallestSubset
<1>3. s \in SUBSET S /\ ~Good(s) /\ \A t \in SUBSET s : t # s => Good(t)
  BY <1>2
<1> HIDE DEF Bad
<1>4. IsFiniteSet(s) /\ IsFiniteSet(s \cup T)
  BY <1>3, FS_Subset, FS_Union
<1>5. Total(f, T) \in Int
  BY TotalRemove
<1>6. CASE s = {}
  <2>1. s \cup T = T
    BY <1>6
  <2> QED BY <1>3, <1>5, <1>6, <2>1, TotalEmpty
<1>7. CASE s # {}
  <2>1. PICK x \in s : TRUE
    BY <1>7
  <2> DEFINE r == s \ {x}
  <2>2. (s \cup T) \ {x} = r \cup T
    BY <1>3
  <2>3. Total(f, s \cup T) = f[x] + Total(f, r \cup T) /\ f[x] \in Int
    BY <1>3, <1>4, <2>2, TotalRemove
  <2>4. Total(f, s) = f[x] + Total(f, r)
    BY <1>3, <1>4, TotalRemove
  <2>5. Total(f, r) \in Int
    <3>1. IsFiniteSet(r) /\ \A y \in r : f[y] \in Int
      BY <1>3, <1>4, FS_Subset
    <3> QED BY <3>1, TotalRemove
  <2>6. Total(f, r \cup T) = Total(f, r) + Total(f, T)
    BY <1>3
  <2>7. ~(Total(f, s \cup T) = Total(f, s) + Total(f, T))
    BY <1>3
  <2> HIDE DEF Good, r
  <2> QED BY <1>5, <2>3, <2>4, <2>5, <2>6, <2>7
<1> QED BY <1>6, <1>7
=============================================================================
