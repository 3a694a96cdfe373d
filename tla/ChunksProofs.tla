---------------------------- MODULE ChunksProofs ----------------------------
(***************************************************************************)
(* Theorems about Chunks, for every value of its constants: the chunks of  *)
(* a report merge into what one query would have returned, whatever the    *)
(* store's books do in between.                                            *)
(***************************************************************************)
EXTENDS Chunks, FiniteSetTheorems, SequenceTheorems, WellFoundedInduction, TLAPS

-----------------------------------------------------------------------------
(* Induction over sizes and over finite sets, with sets in the place of the *)
(* predicates of the library's theorems.                                    *)

\* A set of naturals that is not empty has a least element.
LEMMA LeastNumber ==
    ASSUME NEW S \in SUBSET Nat, S # {}
    PROVE  \E k \in S : \A other \in S : k <= other
<1>1. PICK k \in S : \A other \in S : ~ (<<other, k>> \in OpToRel(<, Nat))
  BY NatLessThanWellFounded, WFMin
<1>2. ASSUME NEW other \in S PROVE k <= other
  <2>1. k \in Nat /\ other \in Nat
    OBVIOUS
  <2>2. other < k => <<other, k>> \in OpToRel(<, Nat)
    BY <2>1, Zenon DEF OpToRel
  <2>3. ~ (other < k)
    BY <1>1, <2>2, Zenon
  <2>4. QED
    BY <2>1, <2>3
<1>3. QED
  BY <1>2

\* What holds of 0 and passes on from n to n + 1 holds of every number.
LEMMA NumberInduction ==
    ASSUME NEW G, 0 \in G, \A n \in Nat : n \in G => n + 1 \in G
    PROVE  Nat \subseteq G
<1> SUFFICES ASSUME Nat \ G # {} PROVE FALSE
  OBVIOUS
<1>1. PICK k \in Nat \ G : \A other \in Nat \ G : k <= other
  BY LeastNumber
<1>2. k # 0 /\ k - 1 \in Nat
  BY <1>1
<1>3. k - 1 \in G
  BY <1>1, <1>2
<1>4. (k - 1) + 1 \in G
  BY <1>2, <1>3
<1>5. QED
  BY <1>1, <1>4

\* What holds of the empty set, and of a set if it holds of each of its subsets
\* that lack one element, holds of every finite set.
LEMMA SubsetInduction ==
    ASSUME NEW U, IsFiniteSet(U), NEW G, {} \in G,
           \A S \in SUBSET U : S # {} /\ (\A x \in S : S \ {x} \in G) => S \in G
    PROVE  SUBSET U \subseteq G
<1> DEFINE sizes == {Cardinality(S) : S \in (SUBSET U) \ G}
<1>1. \A S \in SUBSET U : IsFiniteSet(S) /\ Cardinality(S) \in Nat
  BY FS_Subset, FS_CardinalityType
<1> SUFFICES ASSUME sizes # {} PROVE FALSE
  OBVIOUS
<1>2. sizes \in SUBSET Nat
  BY <1>1
<1>3. PICK size \in sizes : \A other \in sizes : size <= other
  BY <1>2, LeastNumber
<1>4. PICK S \in (SUBSET U) \ G : size = Cardinality(S)
  BY <1>3
<1>5. ASSUME NEW x \in S PROVE S \ {x} \in G
  <2>1. S \ {x} \in SUBSET U /\ Cardinality(S \ {x}) = Cardinality(S) - 1
    BY <1>1, FS_RemoveElement
  <2>2. ~ (size <= Cardinality(S \ {x}))
    BY <1>1, <1>4, <2>1
  <2>3. QED
    BY <1>3, <2>1, <2>2
<1>6. QED
  BY <1>4, <1>5

-----------------------------------------------------------------------------
(* Sums: what MapThenSumSet comes to.                                      *)

Some(S) == CHOOSE x \in S : TRUE

\* The recursive function that MapThenSumSet builds, for the values f.
IsTally(h, f, U) ==
    h = [S \in SUBSET U |-> IF S = {} THEN 0 ELSE f[Some(S)] + h[S \ {Some(S)}]]

Total(f, S) == (CHOOSE h : IsTally(h, f, S))[S]

\* Some(S) is an element of a set that has one.
LEMMA SomeIn == ASSUME NEW S, S # {} PROVE Some(S) \in S
BY DEF Some

\* The recursion of a sum over a finite set has a solution.
LEMMA TallyExists ==
    ASSUME NEW U, IsFiniteSet(U), NEW f PROVE \E h : IsTally(h, f, U)
<1> DEFINE Sub == SUBSET U
           F(h, S) == IF S = {} THEN 0 ELSE f[Some(S)] + h[S \ {Some(S)}]
           upTo(n) == \E h : \A S \in Sub : Cardinality(S) <= n => h[S] = F(h, S)
           G == {n \in Nat : upTo(n)}
<1>1. \A S \in Sub : Cardinality(S) \in Nat /\ (Cardinality(S) = 0 <=> S = {})
  BY FS_Subset, FS_CardinalityType, FS_EmptySet
<1>2. \A S \in Sub : S # {} =>
         S \ {Some(S)} \in Sub /\ Cardinality(S \ {Some(S)}) = Cardinality(S) - 1
  BY SomeIn, FS_Subset, FS_RemoveElement
<1>3. 0 \in G
  <2> DEFINE h == [S \in Sub |-> 0]
  <2>1. \A S \in Sub : Cardinality(S) <= 0 => h[S] = F(h, S)
    BY <1>1
  <2>2. QED
    BY <2>1
<1>4. ASSUME NEW n \in Nat, n \in G PROVE n + 1 \in G
  <2>1. PICK h : \A S \in Sub : Cardinality(S) <= n => h[S] = F(h, S)
    BY <1>4
  <2> DEFINE k == [S \in Sub |-> IF Cardinality(S) <= n THEN h[S] ELSE F(h, S)]
  <2>2. ASSUME NEW S \in Sub, Cardinality(S) <= n + 1 PROVE k[S] = F(k, S)
    <3>1. k[S] = F(h, S)
      BY <2>1
    <3>2. CASE S = {}
      BY <3>1, <3>2
    <3>3. CASE S # {}
      <4>1. S \ {Some(S)} \in Sub /\ Cardinality(S \ {Some(S)}) <= n
        BY <1>1, <1>2, <2>2, <3>3
      <4>2. k[S \ {Some(S)}] = h[S \ {Some(S)}]
        BY <4>1
      <4>3. QED
        BY <3>1, <3>3, <4>2
    <3>4. QED
      BY <3>2, <3>3
  <2> HIDE DEF k, F
  <2>3. upTo(n + 1)
    BY <2>2
  <2>4. QED
    BY <2>3
<1>5. Cardinality(U) \in G
  <2> HIDE DEF G
  <2>1. Nat \subseteq G
    BY <1>3, <1>4, NumberInduction
  <2>2. QED
    BY <1>1, <2>1
<1>6. PICK h : \A S \in Sub : Cardinality(S) <= Cardinality(U) => h[S] = F(h, S)
  BY <1>5
<1>7. \A S \in Sub : h[S] = F(h, S)
  BY <1>6, FS_Subset
<1> DEFINE k == [S \in Sub |-> h[S]]
<1>8. ASSUME NEW S \in Sub PROVE k[S] = F(k, S)
  BY <1>2, <1>7
<1>9. k = [S \in Sub |-> F(k, S)]
  BY <1>8
<1>10. QED
  BY <1>9 DEF IsTally

\* It has one solution: two tallies agree on the sets on which the values do.
LEMMA TallyUnique ==
    ASSUME NEW U, IsFiniteSet(U), NEW V, NEW f, NEW g, NEW h, NEW k,
           IsTally(h, f, U), IsTally(k, g, V), U \subseteq V, \A x \in U : f[x] = g[x]
    PROVE  h[U] = k[U]
<1> DEFINE G == {S \in SUBSET U : h[S] = k[S]}
<1>1. \A S \in SUBSET U :
         /\ h[S] = IF S = {} THEN 0 ELSE f[Some(S)] + h[S \ {Some(S)}]
         /\ k[S] = IF S = {} THEN 0 ELSE g[Some(S)] + k[S \ {Some(S)}]
  BY DEF IsTally
<1>2. {} \in G
  BY <1>1
<1>3. ASSUME NEW S \in SUBSET U, S # {}, \A x \in S : S \ {x} \in G PROVE S \in G
  <2>1. Some(S) \in S
    BY <1>3, SomeIn
  <2>2. h[S \ {Some(S)}] = k[S \ {Some(S)}] /\ f[Some(S)] = g[Some(S)]
    BY <1>3, <2>1
  <2>3. QED
    BY <1>1, <1>3, <2>2
<1>4. SUBSET U \subseteq G
  <2> HIDE DEF G
  <2>1. QED
    BY <1>2, <1>3, SubsetInduction
<1>5. QED
  BY <1>4

\* A sum over a subset is that of any tally that covers it.
LEMMA TotalIs ==
    ASSUME NEW U, IsFiniteSet(U), NEW f, NEW h, IsTally(h, f, U), NEW S \in SUBSET U
    PROVE  Total(f, S) = h[S]
<1>1. IsFiniteSet(S)
  BY FS_Subset
<1>2. IsTally(CHOOSE k : IsTally(k, f, S), f, S)
  BY <1>1, TallyExists
<1>3. (CHOOSE k : IsTally(k, f, S))[S] = h[S]
  BY <1>1, <1>2, TallyUnique
<1>4. QED
  BY <1>3 DEF Total

\* The recursion of a sum.
LEMMA TotalStep ==
    ASSUME NEW S, IsFiniteSet(S), NEW f
    PROVE  Total(f, S) = IF S = {} THEN 0 ELSE f[Some(S)] + Total(f, S \ {Some(S)})
<1>1. PICK h : IsTally(h, f, S)
  BY TallyExists
<1>2. Total(f, S) = h[S]
  BY <1>1, TotalIs
<1>3. S \ {Some(S)} \in SUBSET S
  OBVIOUS
<1>4. Total(f, S \ {Some(S)}) = h[S \ {Some(S)}]
  BY <1>1, <1>3, TotalIs
<1>5. h[S] = IF S = {} THEN 0 ELSE f[Some(S)] + h[S \ {Some(S)}]
  BY <1>1 DEF IsTally
<1>6. QED
  BY <1>2, <1>4, <1>5

\* The sum depends on the values over the set only.
LEMMA TotalSame ==
    ASSUME NEW S, IsFiniteSet(S), NEW f, NEW g, \A x \in S : f[x] = g[x]
    PROVE  Total(f, S) = Total(g, S)
<1>1. PICK h : IsTally(h, f, S)
  BY TallyExists
<1>2. PICK k : IsTally(k, g, S)
  BY TallyExists
<1>3. h[S] = k[S]
  BY <1>1, <1>2, TallyUnique
<1>4. QED
  BY <1>1, <1>2, <1>3, TotalIs

\* A sum of integers is an integer.
LEMMA TotalInt ==
    ASSUME NEW S, IsFiniteSet(S), NEW f, \A x \in S : f[x] \in Int
    PROVE  Total(f, S) \in Int
<1> DEFINE G == {T \in SUBSET S : Total(f, T) \in Int}
<1>1. \A T \in SUBSET S : IsFiniteSet(T)
  BY FS_Subset
<1>2. {} \in G
  <2>1. Total(f, {}) = 0
    BY TotalStep, FS_EmptySet
  <2>2. QED
    BY <2>1
<1>3. ASSUME NEW T \in SUBSET S, T # {}, \A x \in T : T \ {x} \in G PROVE T \in G
  <2>1. Some(T) \in T
    BY <1>3, SomeIn
  <2>2. Total(f, T) = f[Some(T)] + Total(f, T \ {Some(T)})
    BY <1>1, <1>3, TotalStep
  <2>3. Total(f, T \ {Some(T)}) \in Int /\ f[Some(T)] \in Int
    BY <1>3, <2>1
  <2>4. QED
    BY <2>2, <2>3
<1>4. SUBSET S \subseteq G
  <2> HIDE DEF G
  <2>1. QED
    BY <1>2, <1>3, SubsetInduction
<1>5. QED
  BY <1>4

\* Any element may be the one that is added last.
LEMMA TotalRemove ==
    ASSUME NEW U, IsFiniteSet(U), NEW f, \A x \in U : f[x] \in Int, NEW x \in U
    PROVE  Total(f, U) = f[x] + Total(f, U \ {x})
<1> DEFINE G == {T \in SUBSET U : \A y \in T : Total(f, T) = f[y] + Total(f, T \ {y})}
<1>1. \A T \in SUBSET U : IsFiniteSet(T) /\ Total(f, T) \in Int
  BY FS_Subset, TotalInt
<1>2. {} \in G
  OBVIOUS
<1>3. ASSUME NEW T \in SUBSET U, T # {}, \A y \in T : T \ {y} \in G PROVE T \in G
  <2> SUFFICES ASSUME NEW y \in T PROVE Total(f, T) = f[y] + Total(f, T \ {y})
    OBVIOUS
  <2>1. PICK z : z = Some(T)
    OBVIOUS
  <2>2. z \in T /\ Total(f, T) = f[z] + Total(f, T \ {z})
    BY <1>1, <1>3, <2>1, SomeIn, TotalStep
  <2>3. CASE y = z
    BY <2>2, <2>3
  <2>4. CASE y # z
    <3>1. y \in T \ {z} /\ z \in T \ {y} /\ T \ {y} \in G /\ T \ {z} \in G
      BY <1>3, <2>2, <2>4
    <3>2. Total(f, T \ {z}) = f[y] + Total(f, (T \ {z}) \ {y})
      BY <3>1
    <3>3. Total(f, T \ {y}) = f[z] + Total(f, (T \ {y}) \ {z})
      BY <3>1
    <3>4. (T \ {z}) \ {y} = (T \ {y}) \ {z}
      OBVIOUS
    <3>5. PICK rest : rest = Total(f, (T \ {y}) \ {z})
      OBVIOUS
    <3>6. rest \in Int /\ f[y] \in Int /\ f[z] \in Int
      BY <1>1, <2>2, <3>5
    <3>7. Total(f, T) = f[z] + (f[y] + rest) /\ Total(f, T \ {y}) = f[z] + rest
      BY <2>2, <3>2, <3>3, <3>4, <3>5
    <3>8. QED
      BY <3>6, <3>7
  <2>5. QED
    BY <2>3, <2>4
<1>4. SUBSET U \subseteq G
  <2> HIDE DEF G
  <2>1. QED
    BY <1>2, <1>3, SubsetInduction
<1>5. QED
  BY <1>4

\* The sum over two sets that have nothing in common.
LEMMA TotalUnion ==
    ASSUME NEW A, NEW B, IsFiniteSet(A), IsFiniteSet(B), A \cap B = {},
           NEW f, \A x \in A \cup B : f[x] \in Int
    PROVE  Total(f, A \cup B) = Total(f, A) + Total(f, B)
<1> DEFINE G == {T \in SUBSET B : Total(f, A \cup T) = Total(f, A) + Total(f, T)}
<1>1. \A T \in SUBSET B : IsFiniteSet(T) /\ IsFiniteSet(A \cup T)
  BY FS_Subset, FS_Union
<1>2. \A T \in SUBSET B : Total(f, T) \in Int /\ Total(f, A \cup T) \in Int
  BY <1>1, TotalInt
<1>3. Total(f, A) \in Int
  BY TotalInt
<1>4. {} \in G
  <2>1. A \cup {} = A /\ Total(f, {}) = 0
    BY <1>1, TotalStep
  <2>2. QED
    BY <1>3, <2>1
<1>5. ASSUME NEW T \in SUBSET B, T # {}, \A x \in T : T \ {x} \in G PROVE T \in G
  <2>1. PICK x \in T : TRUE
    BY <1>5
  <2>2. (A \cup T) \ {x} = A \cup (T \ {x}) /\ x \in A \cup T
    OBVIOUS
  <2>3. Total(f, T) = f[x] + Total(f, T \ {x})
    BY <1>1, TotalRemove
  <2>4. Total(f, A \cup T) = f[x] + Total(f, A \cup (T \ {x}))
    <3>1. \A y \in A \cup T : f[y] \in Int
      OBVIOUS
    <3>2. Total(f, A \cup T) = f[x] + Total(f, (A \cup T) \ {x})
      BY <1>1, <2>2, <3>1, TotalRemove
    <3>3. QED
      BY <2>2, <3>2
  <2>5. Total(f, A \cup (T \ {x})) = Total(f, A) + Total(f, T \ {x})
    BY <1>5
  <2>6. f[x] \in Int /\ Total(f, T \ {x}) \in Int
    BY <1>2
  <2>7. QED
    BY <1>3, <2>3, <2>4, <2>5, <2>6
<1>6. SUBSET B \subseteq G
  <2> HIDE DEF G
  <2>1. QED
    BY <1>4, <1>5, SubsetInduction
<1>7. QED
  BY <1>6

\* The total of a query (SumOf) is the sum of its rows' amounts.
LEMMA SumOfIs ==
    ASSUME NEW pairs, IsFiniteSet(pairs), NEW f, \A p \in pairs : f[p] = p.figures.amount
    PROVE  SumOf(pairs) = Total(f, pairs)
<1> DEFINE Solves(h) == h = [S \in SUBSET pairs |-> IF S = {} THEN 0
                               ELSE Some(S).figures.amount + h[S \ {Some(S)}]]
<1>1. \A S \in SUBSET pairs : S # {} => f[Some(S)] = Some(S).figures.amount
  BY SomeIn
<1>2. ASSUME NEW h PROVE IsTally(h, f, pairs) <=> Solves(h)
  <2>1. [S \in SUBSET pairs |-> IF S = {} THEN 0 ELSE f[Some(S)] + h[S \ {Some(S)}]]
        = [S \in SUBSET pairs |-> IF S = {} THEN 0 ELSE Some(S).figures.amount + h[S \ {Some(S)}]]
    BY <1>1
  <2>2. QED
    BY <2>1 DEF IsTally
<1>3. SumOf(pairs) = (CHOOSE h : Solves(h))[pairs]
  BY DEF SumOf, MapThenSumSet, MapThenFoldSet, Some
<1>4. \E h : Solves(h)
  <2> HIDE DEF Solves
  <2>1. QED
    BY <1>2, TallyExists
<1>5. Solves(CHOOSE h : Solves(h))
  <2> HIDE DEF Solves
  <2>1. QED
    BY <1>4
<1>6. IsTally(CHOOSE h : Solves(h), f, pairs)
  <2> HIDE DEF Solves
  <2>1. QED
    BY <1>2, <1>5
<1>7. QED
  BY <1>3, <1>6, TotalIs

\* The merged count and total (MergeChunkedSteps).
CountOf(chunks) == MapThenSumSet(LAMBDA i : chunks[i].count, DOMAIN chunks)
TotalOf(chunks) == MapThenSumSet(LAMBDA i : chunks[i].total, DOMAIN chunks)

\* What Merge returns, in its parts.
LEMMA MergeIs ==
    ASSUME NEW chunks
    PROVE  /\ Merge(chunks).count = CountOf(chunks) /\ Merge(chunks).total = TotalOf(chunks)
           /\ Merge(chunks).rows = LET all == UNION {chunks[i].rows : i \in DOMAIN chunks}
                                   IN  IF projection = "SUMMARY" THEN Selected(all) ELSE all
BY DEF Merge, CountOf, TotalOf

\* The merged count (MergeChunkedSteps) is the sum of the chunks' counts.
LEMMA MergedCountIs ==
    ASSUME NEW chunks, IsFiniteSet(DOMAIN chunks),
           NEW f, \A i \in DOMAIN chunks : f[i] = chunks[i].count
    PROVE  CountOf(chunks) = Total(f, DOMAIN chunks)
<1> DEFINE I == DOMAIN chunks
           Solves(h) == h = [S \in SUBSET I |-> IF S = {} THEN 0
                               ELSE chunks[Some(S)].count + h[S \ {Some(S)}]]
<1>1. \A S \in SUBSET I : S # {} => f[Some(S)] = chunks[Some(S)].count
  BY SomeIn
<1>2. ASSUME NEW h PROVE IsTally(h, f, I) <=> Solves(h)
  <2>1. [S \in SUBSET I |-> IF S = {} THEN 0 ELSE f[Some(S)] + h[S \ {Some(S)}]]
        = [S \in SUBSET I |-> IF S = {} THEN 0 ELSE chunks[Some(S)].count + h[S \ {Some(S)}]]
    BY <1>1
  <2>2. QED
    BY <2>1 DEF IsTally
<1>3. CountOf(chunks) = (CHOOSE h : Solves(h))[I]
  BY DEF CountOf, MapThenSumSet, MapThenFoldSet, Some
<1>4. \E h : Solves(h)
  <2> HIDE DEF Solves
  <2>1. QED
    BY <1>2, TallyExists
<1>5. Solves(CHOOSE h : Solves(h))
  <2> HIDE DEF Solves
  <2>1. QED
    BY <1>4
<1>6. IsTally(CHOOSE h : Solves(h), f, I)
  <2> HIDE DEF Solves
  <2>1. QED
    BY <1>2, <1>5
<1>7. QED
  BY <1>3, <1>6, TotalIs

\* The merged total is the sum of the chunks' totals.
LEMMA MergedTotalIs ==
    ASSUME NEW chunks, IsFiniteSet(DOMAIN chunks),
           NEW f, \A i \in DOMAIN chunks : f[i] = chunks[i].total
    PROVE  TotalOf(chunks) = Total(f, DOMAIN chunks)
<1> DEFINE I == DOMAIN chunks
           Solves(h) == h = [S \in SUBSET I |-> IF S = {} THEN 0
                               ELSE chunks[Some(S)].total + h[S \ {Some(S)}]]
<1>1. \A S \in SUBSET I : S # {} => f[Some(S)] = chunks[Some(S)].total
  BY SomeIn
<1>2. ASSUME NEW h PROVE IsTally(h, f, I) <=> Solves(h)
  <2>1. [S \in SUBSET I |-> IF S = {} THEN 0 ELSE f[Some(S)] + h[S \ {Some(S)}]]
        = [S \in SUBSET I |-> IF S = {} THEN 0 ELSE chunks[Some(S)].total + h[S \ {Some(S)}]]
    BY <1>1
  <2>2. QED
    BY <2>1 DEF IsTally
<1>3. TotalOf(chunks) = (CHOOSE h : Solves(h))[I]
  BY DEF TotalOf, MapThenSumSet, MapThenFoldSet, Some
<1>4. \E h : Solves(h)
  <2> HIDE DEF Solves
  <2>1. QED
    BY <1>2, TallyExists
<1>5. Solves(CHOOSE h : Solves(h))
  <2> HIDE DEF Solves
  <2>1. QED
    BY <1>4
<1>6. IsTally(CHOOSE h : Solves(h), f, I)
  <2> HIDE DEF Solves
  <2>1. QED
    BY <1>2, <1>5
<1>7. QED
  BY <1>3, <1>6, TotalIs

-----------------------------------------------------------------------------
(* Merging.                                                                *)

\* A unit with its figures, and what the query over a chunk returns.
Pair == [unit : Unit, figures : Figures]
Partial == [count : Nat, total : Int, rows : SUBSET Pair]

\* What one query over these units and figures returns.
Reading(pairs) ==
    [count |-> Cardinality(pairs), total |-> SumOf(pairs),
     rows  |-> IF projection = "SUMMARY" THEN Selected(pairs) ELSE pairs]

\* Amounts are integers.
LEMMA AmountsAreIntegers == \A p \in Pair : p.figures.amount \in Int
BY ChunkConstants DEF Pair

\* The total of two sets of rows that have nothing in common.
LEMMA SumOfUnion ==
    ASSUME NEW A, NEW B, A \subseteq Pair, B \subseteq Pair, IsFiniteSet(A), IsFiniteSet(B),
           A \cap B = {}
    PROVE  SumOf(A \cup B) = SumOf(A) + SumOf(B)
<1> DEFINE f == [p \in A \cup B |-> p.figures.amount]
<1>1. \A p \in A \cup B : f[p] = p.figures.amount /\ f[p] \in Int
  BY AmountsAreIntegers
<1>2. IsFiniteSet(A \cup B)
  BY FS_Union
<1> HIDE DEF f
<1>3. Total(f, A \cup B) = Total(f, A) + Total(f, B)
  BY <1>1, TotalUnion
<1>4. SumOf(A) = Total(f, A) /\ SumOf(B) = Total(f, B) /\ SumOf(A \cup B) = Total(f, A \cup B)
  BY <1>1, <1>2, SumOfIs
<1>5. QED
  BY <1>3, <1>4

LEMMA SumOfInt == ASSUME NEW A, A \subseteq Pair, IsFiniteSet(A) PROVE SumOf(A) \in Int
<1> DEFINE f == [p \in A |-> p.figures.amount]
<1>1. \A p \in A : f[p] = p.figures.amount /\ f[p] \in Int
  BY AmountsAreIntegers
<1> HIDE DEF f
<1>2. QED
  BY <1>1, SumOfIs, TotalInt

\* Nothing merged.
LEMMA MergeEmpty ==
    CountOf(<<>>) = 0 /\ TotalOf(<<>>) = 0 /\ SumOf({}) = 0
<1>1. IsFiniteSet({}) /\ DOMAIN <<>> = {}
  BY FS_EmptySet
<1>2. PICK f : f = [i \in {} |-> 0]
  OBVIOUS
<1>3. Total(f, {}) = 0
  BY <1>1, TotalStep
<1>4. SumOf({}) = Total(f, {})
  BY <1>1, SumOfIs
<1>5. CountOf(<<>>) = Total(f, {}) /\ TotalOf(<<>>) = Total(f, {})
  BY <1>1, MergedCountIs, MergedTotalIs
<1>6. QED
  BY <1>3, <1>4, <1>5

\* One chunk more adds its count and its total.
LEMMA MergeAppend ==
    ASSUME NEW chunks \in Seq(Partial), NEW c \in Partial
    PROVE  /\ CountOf(Append(chunks, c)) = CountOf(chunks) + c.count
           /\ TotalOf(Append(chunks, c)) = TotalOf(chunks) + c.total
<1> DEFINE n == Len(chunks)
           more == Append(chunks, c)
<1>1. n \in Nat /\ DOMAIN chunks = 1 .. n /\ DOMAIN more = 1 .. (n + 1) /\ more \in Seq(Partial)
  OBVIOUS
<1>2. more[n + 1] = c /\ \A i \in 1 .. n : more[i] = chunks[i]
  OBVIOUS
<1>3. \A i \in 1 .. (n + 1) : more[i].count \in Int /\ more[i].total \in Int
  <2>1. \A i \in 1 .. (n + 1) : more[i] \in Partial
    BY <1>1
  <2> HIDE DEF more
  <2>2. QED
    BY <2>1 DEF Partial
<1> DEFINE old == 1 .. n
           all == 1 .. (n + 1)
<1>4. IsFiniteSet(old) /\ IsFiniteSet(all)
  <2> HIDE DEF n
  <2>1. n + 1 \in Int /\ 1 \in Int
    BY <1>1
  <2>2. QED
    BY <1>1, <2>1, FS_Interval
<1>5. DOMAIN chunks = old /\ DOMAIN more = all /\ n + 1 \in all /\ all \ {n + 1} = old /\ old \subseteq all
  BY <1>1
<1>6. PICK f : f = [i \in all |-> more[i].count]
  OBVIOUS
<1>7. PICK g : g = [i \in all |-> more[i].total]
  OBVIOUS
<1>8. /\ \A i \in all : f[i] = more[i].count /\ f[i] \in Int
      /\ \A i \in all : g[i] = more[i].total /\ g[i] \in Int
      /\ \A i \in old : f[i] = chunks[i].count /\ g[i] = chunks[i].total
      /\ f[n + 1] = c.count /\ g[n + 1] = c.total
  BY <1>2, <1>3, <1>5, <1>6, <1>7
<1> HIDE DEF n, more, old, all
<1>9. Total(f, all) = f[n + 1] + Total(f, old) /\ Total(g, all) = g[n + 1] + Total(g, old)
  <2>1. PICK last \in all : last = n + 1 /\ old = all \ {last}
    BY <1>5
  <2>2. Total(f, all) = f[last] + Total(f, all \ {last})
    BY <1>4, <1>8, TotalRemove
  <2>3. Total(g, all) = g[last] + Total(g, all \ {last})
    BY <1>4, <1>8, TotalRemove
  <2>4. QED
    BY <2>1, <2>2, <2>3
<1>10. CountOf(more) = Total(f, all) /\ CountOf(chunks) = Total(f, old)
  BY <1>4, <1>5, <1>8, MergedCountIs
<1>11. TotalOf(more) = Total(g, all) /\ TotalOf(chunks) = Total(g, old)
  BY <1>4, <1>5, <1>8, MergedTotalIs
<1>12. Total(f, old) \in Int /\ Total(g, old) \in Int
  <2>1. \A i \in old : f[i] \in Int /\ g[i] \in Int
    BY <1>5, <1>8
  <2>2. QED
    BY <1>4, <2>1, TotalInt
<1>13. c.count \in Int /\ c.total \in Int
  BY DEF Partial
<1>14. CountOf(more) = CountOf(chunks) + c.count
  BY <1>8, <1>9, <1>10, <1>12, <1>13
<1>15. TotalOf(more) = TotalOf(chunks) + c.total
  BY <1>8, <1>9, <1>11, <1>12, <1>13
<1>16. QED
  BY <1>14, <1>15 DEF more

-----------------------------------------------------------------------------
(* Ranking: the top rows of the chunks are enough to rank the whole.       *)

\* The rows of S that rank before p.
Ahead(ranking, S, p) == {q \in S : Before(ranking, q, p)}

\* compareRank orders rows strictly: no row before itself, and transitively.
LEMMA BeforeIsStrict ==
    ASSUME NEW ranking
    PROVE  /\ \A p \in Pair : ~ Before(ranking, p, p)
           /\ \A p, q, r \in Pair :
                 Before(ranking, p, q) /\ Before(ranking, q, r) => Before(ranking, p, r)
<1>1. \A p \in Pair : p.unit \in Int /\ Rank(ranking, p.figures) \in Int
  <2>1. ASSUME NEW p \in Pair PROVE p.unit \in Int /\ Rank(ranking, p.figures) \in Int
    <3>1. p.unit \in Nat /\ p.figures.amount \in Int /\ p.figures.turnover \in Nat
      BY ChunkConstants DEF Pair
    <3>2. QED
      BY <3>1 DEF Rank
  <2>2. QED
    BY <2>1
<1>2. QED
  BY <1>1 DEF Before

\* Among rows there is one that no other is before.
LEMMA FirstExists ==
    ASSUME NEW ranking, NEW S, S \subseteq Pair, IsFiniteSet(S), S # {}
    PROVE  \E p \in S : \A q \in S : ~ Before(ranking, q, p)
<1>1. \A p \in S : /\ Ahead(ranking, S, p) \in SUBSET S
                   /\ IsFiniteSet(Ahead(ranking, S, p))
                   /\ Cardinality(Ahead(ranking, S, p)) \in Nat
  <2>1. \A p \in S : Ahead(ranking, S, p) \in SUBSET S
    BY DEF Ahead
  <2>2. QED
    BY <2>1, FS_Subset, FS_CardinalityType
<1> DEFINE places == {Cardinality(Ahead(ranking, S, p)) : p \in S}
<1>2. places \in SUBSET Nat /\ places # {}
  BY <1>1
<1>3. PICK place \in places : \A other \in places : place <= other
  BY <1>2, LeastNumber
<1>4. PICK p \in S : place = Cardinality(Ahead(ranking, S, p))
  BY <1>3
<1>5. ASSUME NEW q \in S, Before(ranking, q, p) PROVE FALSE
  <2>1. Ahead(ranking, S, q) \in SUBSET Ahead(ranking, S, p)
    BY <1>5, BeforeIsStrict DEF Ahead
  <2>2. q \in Ahead(ranking, S, p) /\ q \notin Ahead(ranking, S, q)
    BY <1>5, BeforeIsStrict DEF Ahead
  <2>3. /\ Cardinality(Ahead(ranking, S, q)) <= Cardinality(Ahead(ranking, S, p))
        /\ Cardinality(Ahead(ranking, S, q)) # Cardinality(Ahead(ranking, S, p))
    BY <1>1, <2>1, <2>2, FS_Subset
  <2>4. Cardinality(Ahead(ranking, S, p)) <= Cardinality(Ahead(ranking, S, q))
    BY <1>3, <1>4
  <2>5. QED
    BY <1>1, <2>3, <2>4
<1>6. QED
  BY <1>5

\* Selected in terms of Ahead.
LEMMA SelectedIs ==
    ASSUME NEW S
    PROVE  Selected(S) = {p \in S : \E ranking \in Rankings :
                             Cardinality(Ahead(ranking, S, p)) < TopN}
BY DEF Selected, Ahead

\* The rows that chunks keep suffice to tell whether a row is among the first
\* TopN.  Otherwise the first row before p that its chunk dropped would have
\* TopN rows before it in its chunk; those were all kept, and they are before p.
LEMMA KeptRowsCount ==
    ASSUME NEW ranking \in Rankings, NEW all, all \subseteq Pair, IsFiniteSet(all),
           NEW merged \in SUBSET all,
           \A p \in all \ merged : \E S \in SUBSET all : p \in S /\ Selected(S) \subseteq merged
                                                         /\ p \notin Selected(S),
           NEW p \in all, Cardinality(Ahead(ranking, merged, p)) < TopN
    PROVE  Cardinality(Ahead(ranking, all, p)) < TopN
<1>1. TopN \in Nat
  BY ChunkConstants
<1>2. \A S \in SUBSET all, q \in all :
         /\ Ahead(ranking, S, q) \in SUBSET S
         /\ IsFiniteSet(Ahead(ranking, S, q)) /\ Cardinality(Ahead(ranking, S, q)) \in Nat
  <2>1. \A S \in SUBSET all, q \in all : Ahead(ranking, S, q) \in SUBSET all
    BY DEF Ahead
  <2>2. \A S \in SUBSET all, q \in all : Ahead(ranking, S, q) \in SUBSET S
    BY DEF Ahead
  <2>3. QED
    BY <2>1, <2>2, FS_Subset, FS_CardinalityType
<1> DEFINE dropped == Ahead(ranking, all, p) \ merged
<1>3. CASE dropped = {}
  <2>1. Ahead(ranking, all, p) = Ahead(ranking, merged, p)
    BY <1>3 DEF Ahead
  <2>2. QED
    BY <2>1
<1>4. CASE dropped # {}
  <2>1. dropped \subseteq all /\ dropped \subseteq Pair
    BY DEF Ahead
  <2>2. IsFiniteSet(dropped)
    BY <2>1, FS_Subset
  <2>3. PICK q \in dropped : \A r \in dropped : ~ Before(ranking, r, q)
    <3> HIDE DEF dropped
    <3>1. QED
      BY <1>4, <2>1, <2>2, FirstExists
  <2>4. q \in all /\ q \notin merged /\ Before(ranking, q, p)
    BY <2>3 DEF Ahead
  <2>5. PICK S \in SUBSET all : q \in S /\ Selected(S) \subseteq merged /\ q \notin Selected(S)
    BY <2>4
  <2>6. ~ (Cardinality(Ahead(ranking, S, q)) < TopN)
    BY <2>5, SelectedIs
  <2>7. Ahead(ranking, S, q) \in SUBSET Ahead(ranking, merged, p)
    <3>1. ASSUME NEW r \in Ahead(ranking, S, q) PROVE r \in merged /\ Before(ranking, r, p)
      <4>1. r \in S /\ r \in all /\ Before(ranking, r, q)
        BY DEF Ahead
      <4>2. Before(ranking, r, p)
        BY <2>4, <4>1, BeforeIsStrict
      <4>3. r \in merged
        BY <2>3, <4>1, <4>2 DEF Ahead
      <4>4. QED
        BY <4>2, <4>3
    <3>2. QED
      BY <3>1 DEF Ahead
  <2>8. Cardinality(Ahead(ranking, S, q)) <= Cardinality(Ahead(ranking, merged, p))
    BY <1>2, <2>7, FS_Subset
  <2>9. QED
    BY <1>1, <1>2, <2>4, <2>6, <2>8
<1>5. QED
  BY <1>3, <1>4

\* MergeChunkedSteps: the first rows of the whole are those of the chunks' first
\* rows, whatever the chunks are and however many rankings select them.
THEOREM FirstOfTheFirst ==
    ASSUME NEW I, NEW rowsOf, \A i \in I : rowsOf[i] \subseteq Pair,
           IsFiniteSet(UNION {rowsOf[i] : i \in I})
    PROVE  Selected(UNION {Selected(rowsOf[i]) : i \in I}) = Selected(UNION {rowsOf[i] : i \in I})
<1> DEFINE all == UNION {rowsOf[i] : i \in I}
           merged == UNION {Selected(rowsOf[i]) : i \in I}
<1>1. all \subseteq Pair /\ \A i \in I : rowsOf[i] \in SUBSET all
  OBVIOUS
<1>2. \A i \in I : Selected(rowsOf[i]) \subseteq rowsOf[i] /\ Selected(rowsOf[i]) \subseteq merged
  BY SelectedIs
<1>3. merged \in SUBSET all
  BY <1>2
<1>4. \A p \in all \ merged : \E S \in SUBSET all : p \in S /\ Selected(S) \subseteq merged
                                                      /\ p \notin Selected(S)
  BY <1>1, <1>2
<1>5. \A p \in all : \E i \in I : p \in rowsOf[i]
  OBVIOUS
<1>6. \A i \in I : Selected(rowsOf[i]) \subseteq merged
  BY <1>2
<1>7. IsFiniteSet(all)
  OBVIOUS
<1> HIDE DEF all, merged
<1>8. TopN \in Nat
  BY ChunkConstants
<1>9. ASSUME NEW ranking \in Rankings, NEW p \in all, NEW S \in SUBSET all
      PROVE  /\ Cardinality(Ahead(ranking, S, p)) \in Nat
             /\ Cardinality(Ahead(ranking, all, p)) \in Nat
             /\ Cardinality(Ahead(ranking, S, p)) <= Cardinality(Ahead(ranking, all, p))
  <2>1. Ahead(ranking, all, p) \in SUBSET all /\ Ahead(ranking, S, p) \in SUBSET Ahead(ranking, all, p)
    BY DEF Ahead
  <2>2. IsFiniteSet(Ahead(ranking, all, p))
    BY <1>7, <2>1, FS_Subset
  <2>3. IsFiniteSet(Ahead(ranking, S, p))
    BY <2>1, <2>2, FS_Subset
  <2>4. QED
    BY <2>1, <2>2, <2>3, FS_Subset, FS_CardinalityType
<1>10. ASSUME NEW p \in all, NEW ranking \in Rankings
       PROVE  /\ Cardinality(Ahead(ranking, merged, p)) < TopN
                    <=> Cardinality(Ahead(ranking, all, p)) < TopN
              /\ Cardinality(Ahead(ranking, all, p)) < TopN => p \in merged
  <2>1. Cardinality(Ahead(ranking, merged, p)) < TopN => Cardinality(Ahead(ranking, all, p)) < TopN
    BY <1>1, <1>3, <1>4, <1>7, KeptRowsCount
  <2>2. Cardinality(Ahead(ranking, all, p)) < TopN => Cardinality(Ahead(ranking, merged, p)) < TopN
    BY <1>3, <1>8, <1>9
  <2>3. ASSUME Cardinality(Ahead(ranking, all, p)) < TopN PROVE p \in merged
    <3>1. PICK i \in I : p \in rowsOf[i]
      BY <1>5
    <3>2. Cardinality(Ahead(ranking, rowsOf[i], p)) < TopN
      BY <1>1, <1>8, <1>9, <2>3
    <3>3. p \in Selected(rowsOf[i])
      BY <3>1, <3>2, SelectedIs
    <3>4. QED
      BY <1>6, <3>3
  <2>4. QED
    BY <2>1, <2>2, <2>3
<1>11. Selected(merged) = Selected(all)
  BY <1>3, <1>10, SelectedIs
<1>12. QED
  BY <1>11 DEF all, merged

-----------------------------------------------------------------------------
(* Cutting.                                                                *)

\* What the boundaries of a manifest are: chunks of some units each, at most
\* ChunkSize of them, and no unit in two chunks.
Boundaries(chunks) ==
    /\ chunks \in Seq(Seq(Unit))
    /\ \A i \in DOMAIN chunks : chunks[i] # <<>> /\ Len(chunks[i]) <= ChunkSize
    /\ \A i, j \in DOMAIN chunks : i # j => ToSet(chunks[i]) \cap ToSet(chunks[j]) = {}

\* Multiples of a size that are in order.
LEMMA Multiples ==
    ASSUME NEW size \in Nat, NEW i \in Int, NEW j \in Int, i <= j
    PROVE  i * size \in Int /\ j * size \in Int /\ i * size <= j * size
<1>1. PICK d \in Nat : j = i + d
  <2>1. j - i \in Nat /\ j = i + (j - i)
    OBVIOUS
  <2>2. QED
    BY <2>1
<1>2. d * size \in Nat
  OBVIOUS
<1>3. j * size = i * size + d * size
  BY <1>1
<1>4. QED
  BY <1>2, <1>3

\* The number of chunks: enough for n units, and none too many.
LEMMA ChunkCount ==
    ASSUME NEW size \in Nat \ {0}, NEW n \in Nat
    PROVE  /\ (n + size - 1) \div size \in Nat
           /\ ((n + size - 1) \div size) * size <= n + size - 1
<1>1. PICK total \in Nat : total = n + size - 1
  OBVIOUS
<1>2. total \div size \in Nat /\ (total \div size) * size <= total
  BY SMT
<1>3. QED
  BY <1>1, <1>2

\* The chunks that are cut from sorted keys are a partition of them.
LEMMA CutIsPartition ==
    ASSUME NEW S \in SUBSET Unit, NEW n \in Nat, NEW keys \in [1 .. n -> S],
           \A i, j \in DOMAIN keys : i < j => keys[i] < keys[j]
    PROVE  Boundaries(Cut(keys))
<1> DEFINE q == (n + ChunkSize - 1) \div ChunkSize
           first(i) == (i - 1) * ChunkSize + 1
           last(i) == IF i * ChunkSize > n THEN n ELSE i * ChunkSize
           chunk(i) == SubSeq(keys, first(i), last(i))
<1>1. ChunkSize \in Nat \ {0} /\ Unit \subseteq Nat
  BY ChunkConstants
<1>2. keys \in Seq(Unit) /\ Len(keys) = n /\ DOMAIN keys = 1 .. n
  OBVIOUS
<1>3. q \in Nat /\ q * ChunkSize <= n + ChunkSize - 1
  BY <1>1, ChunkCount
<1>4. Cut(keys) = [i \in 1 .. q |-> chunk(i)]
  BY <1>2 DEF Cut
<1> HIDE DEF q
<1>5. ASSUME NEW i \in 1 .. q
      PROVE  /\ first(i) \in Int /\ last(i) \in Int
             /\ 1 <= first(i) /\ first(i) <= last(i) /\ last(i) <= n
             /\ last(i) - first(i) + 1 <= ChunkSize /\ last(i) <= i * ChunkSize
  <2>1. PICK high \in Int : high = i * ChunkSize
    BY <1>1
  <2>2. (i - 1) * ChunkSize = high - ChunkSize
    BY <1>1, <2>1
  <2>3. high <= q * ChunkSize /\ q * ChunkSize \in Int
    BY <1>1, <1>3, <2>1, Multiples
  <2>4. ChunkSize <= high
    <3>1. 1 * ChunkSize <= i * ChunkSize
      BY <1>1, <1>3, Multiples
    <3>2. QED
      BY <1>1, <2>1, <3>1
  <2>5. QED
    BY <1>1, <1>3, <2>1, <2>2, <2>3, <2>4
<1>6. ASSUME NEW i \in 1 .. q
      PROVE  /\ chunk(i) \in Seq(Unit) /\ Len(chunk(i)) = last(i) - first(i) + 1
             /\ chunk(i) # <<>> /\ Len(chunk(i)) <= ChunkSize
             /\ ToSet(chunk(i)) \subseteq {keys[k] : k \in first(i) .. last(i)}
  <2>1. PICK a \in Int, b \in Int : a = first(i) /\ b = last(i)
    BY <1>5
  <2>2. /\ 1 <= a /\ a <= b /\ b <= n /\ b - a + 1 <= ChunkSize /\ chunk(i) = SubSeq(keys, a, b)
    BY <1>5, <2>1
  <2> HIDE DEF chunk, first, last
  <2>3. \A k \in a .. b : keys[k] \in Unit
    BY <1>2, <2>2
  <2>4. /\ chunk(i) \in Seq(Unit)
        /\ Len(chunk(i)) = b - a + 1
        /\ \A k \in 1 .. b - a + 1 : chunk(i)[k] = keys[a + k - 1]
    BY <2>2, <2>3, SubSeqProperties
  <2>5. \A k \in 1 .. b - a + 1 : a + k - 1 \in a .. b
    OBVIOUS
  <2>6. DOMAIN chunk(i) = 1 .. b - a + 1
    BY <2>4
  <2>7. ToSet(chunk(i)) \subseteq {keys[k] : k \in a .. b}
    BY <2>4, <2>5, <2>6 DEF ToSet
  <2>8. chunk(i) # <<>> /\ Len(chunk(i)) <= ChunkSize
    BY <2>2, <2>4
  <2>9. QED
    BY <2>1, <2>4, <2>7, <2>8
<1>7. ASSUME NEW i \in 1 .. q, NEW j \in 1 .. q, i < j
      PROVE  ToSet(chunk(i)) \cap ToSet(chunk(j)) = {}
  <2>1. last(i) < first(j)
    <3>1. i * ChunkSize <= (j - 1) * ChunkSize /\ (j - 1) * ChunkSize \in Int /\ i * ChunkSize \in Int
      BY <1>1, <1>3, <1>7, Multiples
    <3>2. QED
      BY <1>5, <3>1
  <2>2. PICK a \in Int, b \in Int : a = first(i) /\ b = last(i)
    BY <1>5
  <2>3. PICK c \in Int, d \in Int : c = first(j) /\ d = last(j)
    BY <1>5
  <2>4. 1 <= a /\ b < c /\ d <= n
    BY <1>5, <2>1, <2>2, <2>3
  <2>5. ToSet(chunk(i)) \subseteq {keys[k] : k \in a .. b} /\ ToSet(chunk(j)) \subseteq {keys[k] : k \in c .. d}
    BY <1>6, <2>2, <2>3
  <2> HIDE DEF chunk, first, last
  <2>6. ASSUME NEW k \in a .. b, NEW m \in c .. d PROVE keys[k] # keys[m]
    <3>1. k \in 1 .. n /\ m \in 1 .. n /\ k < m
      BY <2>4
    <3>2. keys[k] \in Nat /\ keys[m] \in Nat
      BY <1>1, <3>1
    <3>3. keys[k] < keys[m]
      BY <1>2, <3>1
    <3>4. QED
      BY <3>2, <3>3
  <2>7. QED
    BY <2>5, <2>6
<1> HIDE DEF chunk
<1>8. Cut(keys) \in Seq(Seq(Unit)) /\ DOMAIN Cut(keys) = 1 .. q
      /\ \A i \in 1 .. q : Cut(keys)[i] = chunk(i)
  BY <1>3, <1>4, <1>6
<1>9. ASSUME NEW i \in 1 .. q, NEW j \in 1 .. q, i # j
      PROVE  ToSet(chunk(i)) \cap ToSet(chunk(j)) = {}
  <2>1. i < j \/ j < i
    BY <1>3, <1>9
  <2>2. QED
    BY <1>7, <2>1
<1>10. QED
  BY <1>6, <1>8, <1>9 DEF Boundaries

-----------------------------------------------------------------------------
(* The inductive invariant.                                                *)

\* The figures that were read, those of them that belong to a chunk, and how
\* many chunks are behind the worker.
SeenPairs == {[unit |-> u, figures |-> seen[u]] : u \in DOMAIN seen}
SeenIn(i) == {[unit |-> u, figures |-> seen[u]] : u \in DOMAIN seen \cap ToSet(manifest[i])}
Finished  == IF step \in {"COMPARISON", "STORE"} THEN Len(current) - 1 ELSE Len(current)

Row == [units : Seq(Unit), status : {"QUEUED", "RUNNING", "SUCCEEDED", "FAILED"}]

\* The worker walks along the manifest.
WorkerTrue ==
    /\ current \in Seq(Partial) /\ Len(current) <= Len(manifest)
    /\ step = "CURRENT" => Len(current) < Len(manifest)
    /\ step \in {"COMPARISON", "STORE"} => current # <<>>
    /\ step \in {"MANIFEST", "PREPARE"} => current = <<>>

\* What it holds of each chunk is one reading of it, and the counts and totals
\* so far are those of everything read so far.
ReadingTrue ==
    /\ DOMAIN seen \subseteq Unit /\ \A u \in DOMAIN seen : seen[u] \in Figures
    /\ \A u \in DOMAIN seen : \E i \in DOMAIN current : u \in ToSet(manifest[i])
    /\ \A i \in DOMAIN current : current[i] = Reading(SeenIn(i))
    /\ CountOf(current) = Cardinality(SeenPairs) /\ TotalOf(current) = SumOf(SeenPairs)

\* Without a warning every chunk behind it has been compared.
ComparedTrue ==
    step \notin {"IDLE", "CURRENT_FAILED", "COMPARISON_FAILED"} /\ ~warning =>
        \A i \in 1 .. (IF step = "COMPARISON" THEN Len(current) - 1 ELSE Len(current)) :
            ToSet(manifest[i]) \subseteq compared

\* The checkpoints are those of its manifest and say how far it is.
ProgressTrue ==
    /\ rows \in Seq(Row)
    /\ rows # <<>> =>
          /\ progress.total = Len(rows)
          /\ progress.completed = Cardinality({i \in DOMAIN rows : rows[i].status = "SUCCEEDED"})
    /\ lease /\ step \in {"START", "CURRENT", "COMPARISON", "STORE"} =>
          /\ Len(rows) = Len(manifest)
          /\ progress = [completed |-> Finished, total |-> Len(manifest)]
          /\ \A i \in DOMAIN rows : rows[i].status = "SUCCEEDED" <=> i <= Finished

\* A result ends the run, and is what it should be.
ResultTrue ==
    /\ lease => status = "RUNNING"
    /\ result # None => /\ status = "SUCCEEDED" /\ step = "IDLE"
                        /\ progress.completed = progress.total
    /\ MergedIsOneReading /\ ComparisonIsWhole

ChunkInv ==
    /\ TypeOK
    /\ Boundaries(manifest)
    /\ WorkerTrue
    /\ ReadingTrue
    /\ ComparedTrue
    /\ ProgressTrue
    /\ ResultTrue

-----------------------------------------------------------------------------
(* The steps.                                                              *)

\* The rows that some units and their figures come to.
LEMMA RowsOfUnits ==
    ASSUME NEW D \in SUBSET Unit, NEW g, \A u \in D : g[u] \in Figures
    PROVE  LET pairs == {[unit |-> u, figures |-> g[u]] : u \in D} IN
           pairs \subseteq Pair /\ IsFiniteSet(pairs)
<1> DEFINE pairs == {[unit |-> u, figures |-> g[u]] : u \in D}
           row == [u \in D |-> [unit |-> u, figures |-> g[u]]]
<1>1. pairs \subseteq Pair
  BY DEF Pair
<1>2. IsFiniteSet(D)
  BY ChunkConstants, FS_Subset
<1>3. row \in Surjection(D, pairs)
  BY DEF Surjection
<1>4. IsFiniteSet(pairs)
  BY <1>2, <1>3, FS_Surjection
<1>5. QED
  BY <1>1, <1>4

\* A reading is of the form in which the worker keeps it.
LEMMA ReadingTyped ==
    ASSUME NEW pairs, pairs \subseteq Pair, IsFiniteSet(pairs)
    PROVE  Reading(pairs) \in Partial
<1>1. Cardinality(pairs) \in Nat /\ SumOf(pairs) \in Int
  BY FS_CardinalityType, SumOfInt
<1>2. Selected(pairs) \subseteq pairs
  BY SelectedIs
<1>3. PICK kept : kept = IF projection = "SUMMARY" THEN Selected(pairs) ELSE pairs
  OBVIOUS
<1>4. kept \in SUBSET Pair
  BY <1>2, <1>3
<1>5. [count |-> Cardinality(pairs), total |-> SumOf(pairs), rows |-> kept] \in Partial
  BY <1>1, <1>4 DEF Partial
<1>6. QED
  BY <1>3, <1>5 DEF Reading

\* Checkpoints that are done up to one of them.
LEMMA DoneCount ==
    ASSUME NEW chunks \in Seq(Row), NEW k \in 0 .. Len(chunks),
           \A i \in DOMAIN chunks : chunks[i].status = "SUCCEEDED" <=> i <= k
    PROVE  Cardinality({i \in DOMAIN chunks : chunks[i].status = "SUCCEEDED"}) = k
<1>1. {i \in DOMAIN chunks : chunks[i].status = "SUCCEEDED"} = 1 .. k
  OBVIOUS
<1>2. Cardinality(1 .. k) = k
  BY FS_Interval
<1>3. QED
  BY <1>1, <1>2

\* The parts of the invariant are about these variables.
LEMMA ReadingFrame ==
    ASSUME ReadingTrue, UNCHANGED <<manifest, current, seen, projection>> PROVE ReadingTrue'
BY DEF ReadingTrue, Reading, SeenIn, SeenPairs

\* An attempt begins with an empty memory.
LEMMA EmptyMemory ==
    ASSUME current' = <<>>, seen' = <<>>
    PROVE  ReadingTrue' /\ current' \in Seq(Partial) /\ Len(current') = 0 /\ Len(current') \in Nat
<1>1. DOMAIN seen' = {} /\ DOMAIN current' = {}
  OBVIOUS
<1>2. Cardinality({}) = 0
  BY FS_EmptySet
<1>3. SeenPairs' = {}
  BY <1>1 DEF SeenPairs
<1>4. CountOf(current)' = 0 /\ TotalOf(current)' = 0 /\ SumOf({}) = 0
  BY MergeEmpty
<1>5. QED
  BY <1>1, <1>2, <1>3, <1>4 DEF ReadingTrue

\* Claim of a queued run.
LEMMA BeginKeeps == ASSUME ChunkInv, Begin PROVE ChunkInv'
<1>1. /\ status = "QUEUED" /\ status' = "RUNNING" /\ step' = "MANIFEST"
      /\ manifest' = <<>> /\ current' = <<>> /\ seen' = <<>> /\ compared' = {} /\ warning' = FALSE
      /\ UNCHANGED <<books, changes, projection, rows, progress, result>>
  BY DEF Begin
<1>2. result = None
  BY <1>1 DEF ChunkInv, ResultTrue
<1>3. ReadingTrue' /\ current' \in Seq(Partial) /\ Len(current') = 0
  BY <1>1, EmptyMemory
<1>4. Len(manifest') = 0 /\ DOMAIN manifest' = {} /\ DOMAIN seen' = {}
  BY <1>1
<1>5. TypeOK'
  <2>1. attempt' \in 0 .. MaxAttempts /\ lease' \in BOOLEAN
    BY ChunkConstants DEF Begin, ChunkInv, TypeOK
  <2>2. compared' \subseteq Unit /\ warning' \in BOOLEAN
    BY <1>1
  <2>3. QED
    BY <1>1, <1>3, <1>4, <2>1, <2>2 DEF ChunkInv, TypeOK
<1>6. Boundaries(manifest)'
  BY <1>1, <1>4 DEF Boundaries
<1>7. WorkerTrue'
  BY <1>1, <1>3, <1>4 DEF WorkerTrue
<1>8. ComparedTrue'
  BY <1>1, <1>3 DEF ComparedTrue
<1>9. ProgressTrue'
  BY <1>1 DEF ChunkInv, ProgressTrue
<1>10. ResultTrue'
  BY <1>1, <1>2 DEF ResultTrue, MergedIsOneReading, ComparisonIsWhole
<1>11. QED
  BY <1>3, <1>5, <1>6, <1>7, <1>8, <1>9, <1>10 DEF ChunkInv

\* The manifest is a partition of the units of the moment.
LEMMA ManifestKeeps == ASSUME ChunkInv, QueryManifest PROVE ChunkInv'
<1>1. /\ step = "MANIFEST" /\ step' = "PREPARE"
      /\ UNCHANGED <<books, changes, projection, tables, current, compared, warning, seen>>
  BY DEF QueryManifest
<1>2. current = <<>> /\ result = None /\ DOMAIN seen = {}
  <2>1. current = <<>> /\ result = None
    BY <1>1 DEF ChunkInv, WorkerTrue, ResultTrue
  <2>2. DOMAIN current = {}
    BY <2>1
  <2>3. QED
    BY <2>1, <2>2 DEF ChunkInv, ReadingTrue
<1>3. Boundaries(manifest)'
  <2>1. PICK keys \in [1 .. Cardinality(Present) -> Present] :
           /\ \A i, j \in DOMAIN keys : i < j => keys[i] < keys[j]
           /\ manifest' = Cut(keys)
    BY DEF QueryManifest
  <2>2. Present \in SUBSET Unit
    BY DEF Present
  <2>3. Cardinality(Present) \in Nat
    BY <2>2, ChunkConstants, FS_Subset, FS_CardinalityType
  <2>4. Boundaries(Cut(keys))
    BY <2>1, <2>2, <2>3, CutIsPartition
  <2>5. QED
    BY <2>1, <2>4 DEF Boundaries
<1>4. Len(manifest') \in Nat
  BY <1>3 DEF Boundaries
<1>5. WorkerTrue' /\ TypeOK'
  <2>1. Len(current') = 0
    BY <1>1, <1>2
  <2>2. WorkerTrue'
    BY <1>1, <1>2, <1>4, <2>1 DEF ChunkInv, WorkerTrue
  <2>3. TypeOK'
    BY <1>1, <1>4, <2>1 DEF ChunkInv, TypeOK, tables
  <2>4. QED
    BY <2>2, <2>3
<1>6. ReadingTrue'
  <2>1. DOMAIN current' = {} /\ DOMAIN seen' = {} /\ SeenPairs' = SeenPairs
    BY <1>1, <1>2 DEF SeenPairs
  <2>2. QED
    BY <1>1, <2>1 DEF ChunkInv, ReadingTrue
<1>7. ComparedTrue'
  BY <1>1, <1>2 DEF ComparedTrue
<1>8. ProgressTrue'
  BY <1>1 DEF ChunkInv, ProgressTrue, tables
<1>9. ResultTrue'
  BY <1>1, <1>2 DEF ChunkInv, ResultTrue, MergedIsOneReading, ComparisonIsWhole, tables
<1>10. QED
  BY <1>3, <1>5, <1>6, <1>7, <1>8, <1>9 DEF ChunkInv

\* PrepareChunks replaces the checkpoints of an earlier attempt.
LEMMA PrepareKeeps == ASSUME ChunkInv, PrepareChunks PROVE ChunkInv'
<1>1. /\ step = "PREPARE" /\ lease /\ step' = "START"
      /\ progress' = [completed |-> 0, total |-> Len(manifest)]
      /\ rows' = [i \in DOMAIN manifest |-> [units |-> manifest[i], status |-> "QUEUED"]]
      /\ UNCHANGED <<books, changes, projection, status, attempt, lease, result,
                     manifest, current, compared, warning, seen>>
  BY DEF PrepareChunks, ResetProgress
<1>2. current = <<>> /\ Len(current) = 0 /\ result = None
  BY <1>1 DEF ChunkInv, WorkerTrue, ResultTrue
<1>3. /\ manifest \in Seq(Seq(Unit)) /\ Len(manifest) \in Nat /\ DOMAIN manifest = 1 .. Len(manifest)
      /\ \A i \in DOMAIN manifest :
            manifest[i] \in Seq(Unit) /\ manifest[i] # <<>> /\ Len(manifest[i]) <= ChunkSize
  BY DEF ChunkInv, Boundaries
<1>4. /\ rows' \in Seq(Row) /\ Len(rows') = Len(manifest) /\ DOMAIN rows' = DOMAIN manifest
      /\ \A i \in DOMAIN manifest : rows'[i] = [units |-> manifest[i], status |-> "QUEUED"]
  <2>1. \A i \in DOMAIN manifest : [units |-> manifest[i], status |-> "QUEUED"] \in Row
    BY <1>3 DEF Row
  <2>2. QED
    BY <1>1, <1>3, <2>1
<1>5. TypeOK'
  <2>1. \A i \in DOMAIN rows' :
           /\ rows'[i].units # <<>> /\ Len(rows'[i].units) <= ChunkSize
           /\ rows'[i].status \in {"QUEUED", "RUNNING", "SUCCEEDED", "FAILED"}
    BY <1>3, <1>4
  <2>2. progress' \in [completed : Nat, total : Nat]
    BY <1>1, <1>3
  <2>3. QED
    BY <1>1, <2>1, <2>2 DEF ChunkInv, TypeOK
<1>6. Boundaries(manifest)'
  BY <1>1 DEF ChunkInv, Boundaries
<1>7. WorkerTrue'
  BY <1>1 DEF ChunkInv, WorkerTrue
<1>8. ReadingTrue'
  BY <1>1, ReadingFrame DEF ChunkInv
<1>9. ComparedTrue'
  BY <1>1, <1>2 DEF ComparedTrue
<1>10. ProgressTrue'
  <2>1. Finished' = 0
    BY <1>1, <1>2 DEF Finished
  <2>2. \A i \in DOMAIN rows' : rows'[i].status = "SUCCEEDED" <=> i <= 0
    BY <1>3, <1>4
  <2>3. Cardinality({i \in DOMAIN rows' : rows'[i].status = "SUCCEEDED"}) = 0
    <3>1. 0 \in 0 .. Len(rows')
      BY <1>3, <1>4
    <3>2. QED
      BY <1>4, <2>2, <3>1, DoneCount
  <2>4. progress'.total = Len(manifest) /\ progress'.completed = 0
    BY <1>1
  <2>5. QED
    BY <1>1, <1>4, <2>1, <2>2, <2>3, <2>4 DEF ProgressTrue
<1>11. ResultTrue'
  BY <1>1, <1>2 DEF ChunkInv, ResultTrue, MergedIsOneReading, ComparisonIsWhole
<1>12. QED
  BY <1>5, <1>6, <1>7, <1>8, <1>9, <1>10, <1>11 DEF ChunkInv

\* The next checkpoint is marked as under way.
LEMMA StartKeeps == ASSUME ChunkInv, StartChunk PROVE ChunkInv'
<1>1. /\ step = "START" /\ lease /\ step' = "CURRENT" /\ At <= Len(manifest)
      /\ rows[At].status = "QUEUED" /\ rows' = [rows EXCEPT ![At].status = "RUNNING"]
      /\ UNCHANGED <<books, changes, projection, status, attempt, lease, progress, result,
                     manifest, current, compared, warning, seen>>
  BY DEF StartChunk
<1>2. result = None
  BY <1>1 DEF ChunkInv, ResultTrue
<1>3. Len(current) \in Nat /\ Len(manifest) \in Nat
  BY DEF ChunkInv, WorkerTrue, Boundaries
<1>4. At = Len(current) + 1 /\ Finished = Len(current) /\ Finished' = Len(current)
  BY <1>1 DEF At, Finished
<1>5. /\ rows \in Seq(Row) /\ Len(rows) = Len(manifest) /\ DOMAIN rows = 1 .. Len(rows)
      /\ progress = [completed |-> Finished, total |-> Len(manifest)]
      /\ \A i \in DOMAIN rows : rows[i].status = "SUCCEEDED" <=> i <= Finished
  BY <1>1 DEF ChunkInv, ProgressTrue
<1>6. At \in DOMAIN rows
  BY <1>1, <1>3, <1>4, <1>5
<1>7. \A i \in DOMAIN rows : rows[i] \in Row
  BY <1>5
<1> DEFINE row == [rows[At] EXCEPT !.status = "RUNNING"]
<1>8. row \in Row /\ row.units = rows[At].units /\ row.status = "RUNNING"
  BY <1>6, <1>7 DEF Row
<1>9. rows' = [rows EXCEPT ![At] = row]
  BY <1>1
<1> HIDE DEF row, At
<1>10. /\ rows' \in Seq(Row) /\ DOMAIN rows' = DOMAIN rows /\ Len(rows') = Len(rows)
       /\ \A i \in DOMAIN rows : rows'[i] = IF i = At THEN row ELSE rows[i]
  BY <1>5, <1>6, <1>8, <1>9
<1>11. TypeOK'
  <2>1. \A i \in DOMAIN rows' :
           /\ rows'[i].units # <<>> /\ Len(rows'[i].units) <= ChunkSize
           /\ rows'[i].status \in {"QUEUED", "RUNNING", "SUCCEEDED", "FAILED"}
    BY <1>6, <1>8, <1>10 DEF ChunkInv, TypeOK
  <2>2. QED
    BY <1>1, <2>1 DEF ChunkInv, TypeOK
<1>12. Boundaries(manifest)'
  BY <1>1 DEF ChunkInv, Boundaries
<1>13. WorkerTrue'
  BY <1>1, <1>3, <1>4 DEF ChunkInv, WorkerTrue
<1>14. ReadingTrue'
  BY <1>1, ReadingFrame DEF ChunkInv
<1>15. ComparedTrue'
  BY <1>1 DEF ChunkInv, ComparedTrue
<1>16. ProgressTrue'
  <2>1. \A i \in DOMAIN rows' : rows'[i].status = "SUCCEEDED" <=> i <= Finished'
    BY <1>1, <1>4, <1>5, <1>8, <1>10
  <2>2. {i \in DOMAIN rows' : rows'[i].status = "SUCCEEDED"}
        = {i \in DOMAIN rows : rows[i].status = "SUCCEEDED"}
    BY <1>4, <1>5, <1>10, <2>1
  <2>3. rows # <<>> => progress.completed = Cardinality({i \in DOMAIN rows : rows[i].status = "SUCCEEDED"})
    BY DEF ChunkInv, ProgressTrue
  <2>4. rows # <<>> /\ progress.total = Len(rows)
    BY <1>5, <1>6
  <2>5. progress' = [completed |-> Finished', total |-> Len(manifest')] /\ Len(rows') = Len(manifest')
    BY <1>1, <1>4, <1>5, <1>10
  <2>6. progress'.total = Len(rows')
        /\ progress'.completed = Cardinality({i \in DOMAIN rows' : rows'[i].status = "SUCCEEDED"})
    BY <1>1, <1>10, <2>2, <2>3, <2>4
  <2>7. QED
    BY <1>10, <2>1, <2>5, <2>6 DEF ProgressTrue
<1>17. ResultTrue'
  BY <1>1, <1>2 DEF ChunkInv, ResultTrue, MergedIsOneReading, ComparisonIsWhole
<1>18. QED
  BY <1>11, <1>12, <1>13, <1>14, <1>15, <1>16, <1>17 DEF ChunkInv

\* What the query over the next chunk does to what was read: its units are new,
\* so that the readings behind the worker stay what they were.
LEMMA CurrentStep ==
    ASSUME ChunkInv, QueryCurrent
    PROVE  \E at, units, pairs :
              /\ at = At /\ units = ToSet(manifest[at]) /\ pairs \subseteq Pair /\ IsFiniteSet(pairs)
              /\ current' = Append(current, Reading(pairs))
              /\ \A i \in DOMAIN current : SeenIn(i)' = SeenIn(i)
              /\ SeenIn(at)' = pairs
              /\ SeenPairs' = SeenPairs \cup pairs /\ SeenPairs \cap pairs = {}
              /\ SeenPairs \subseteq Pair /\ IsFiniteSet(SeenPairs)
              /\ DOMAIN seen' \subseteq DOMAIN seen \cup units /\ DOMAIN seen' \subseteq Unit
              /\ \A u \in DOMAIN seen' : seen'[u] \in Figures
<1> PICK at : at = At
  OBVIOUS
<1> DEFINE units == ToSet(manifest[at])
           new == units \cap Present
           pairs == {[unit |-> u, figures |-> books[u]] : u \in new}
<1>1. /\ step = "CURRENT" /\ current' = Append(current, Query(units))
      /\ seen' = [u \in DOMAIN seen \cup new |-> IF u \in new THEN books[u] ELSE seen[u]]
      /\ UNCHANGED <<books, projection, manifest>>
  BY DEF QueryCurrent
<1>2. /\ Len(current) \in Nat /\ DOMAIN current = 1 .. Len(current)
      /\ Len(manifest) \in Nat /\ DOMAIN manifest = 1 .. Len(manifest)
      /\ Len(current) < Len(manifest)
  BY <1>1 DEF ChunkInv, WorkerTrue, Boundaries
<1>3. at \in DOMAIN manifest /\ \A i \in DOMAIN current : i \in DOMAIN manifest /\ i # at
  BY <1>2 DEF At
<1>4. \A i \in DOMAIN current : ToSet(manifest[i]) \cap units = {}
  BY <1>3 DEF ChunkInv, Boundaries
<1>5. /\ DOMAIN seen \subseteq Unit /\ \A u \in DOMAIN seen : seen[u] \in Figures
      /\ \A u \in DOMAIN seen : \E i \in DOMAIN current : u \in ToSet(manifest[i])
  BY DEF ChunkInv, ReadingTrue
<1>6. DOMAIN seen \cap units = {}
  BY <1>4, <1>5
<1>7. new \subseteq Unit /\ \A u \in new : books[u] \in Figures
  BY DEF Present, ChunkInv, TypeOK
<1>8. manifest' = manifest
  BY <1>1
<1>9. Query(units) = Reading(pairs)
  BY DEF Query, Reading
<1> HIDE DEF units, new
<1>10. new \subseteq units
  BY DEF new
<1>11. pairs \subseteq Pair /\ IsFiniteSet(pairs)
  BY <1>7, RowsOfUnits
<1>12. SeenPairs \subseteq Pair /\ IsFiniteSet(SeenPairs)
  BY <1>5, RowsOfUnits DEF SeenPairs
<1>13. /\ DOMAIN seen' = DOMAIN seen \cup new
       /\ \A u \in DOMAIN seen : seen'[u] = seen[u]
       /\ \A u \in new : seen'[u] = books[u]
  BY <1>1, <1>6, <1>10
<1>14. \A u \in DOMAIN seen' : seen'[u] \in Figures /\ u \in Unit
  BY <1>5, <1>7, <1>13
<1>15. ASSUME NEW i \in DOMAIN current PROVE SeenIn(i)' = SeenIn(i)
  <2>1. DOMAIN seen' \cap ToSet(manifest[i]) = DOMAIN seen \cap ToSet(manifest[i])
    BY <1>4, <1>10, <1>13
  <2>2. SeenIn(i)' = {[unit |-> u, figures |-> seen'[u]] : u \in DOMAIN seen' \cap ToSet(manifest[i])}
    BY <1>8 DEF SeenIn
  <2>3. QED
    BY <1>13, <2>1, <2>2 DEF SeenIn
<1>16. SeenIn(at)' = pairs
  <2>1. DOMAIN seen' \cap ToSet(manifest[at]) = new
    BY <1>6, <1>10, <1>13 DEF units
  <2>2. QED
    BY <1>8, <1>13, <2>1 DEF SeenIn
<1>17. SeenPairs' = SeenPairs \cup pairs
  BY <1>13 DEF SeenPairs
<1>18. SeenPairs \cap pairs = {}
  <2>1. \A p \in SeenPairs : p.unit \in DOMAIN seen
    BY DEF SeenPairs
  <2>2. \A p \in pairs : p.unit \in new
    OBVIOUS
  <2>3. QED
    BY <1>6, <1>10, <2>1, <2>2
<1>19. DOMAIN seen' \subseteq DOMAIN seen \cup units
  BY <1>10, <1>13
<1> HIDE DEF pairs
<1>20. QED
  BY <1>1, <1>9, <1>11, <1>12, <1>14, <1>15, <1>16, <1>17, <1>18, <1>19 DEF units

\* The query over the chunk that is under way.
LEMMA CurrentKeeps == ASSUME ChunkInv, QueryCurrent PROVE ChunkInv'
<1>1. /\ step = "CURRENT" /\ step' = "COMPARISON"
      /\ UNCHANGED <<books, changes, projection, tables, manifest, compared, warning>>
  BY DEF QueryCurrent
<1>2. /\ Len(current) \in Nat /\ current \in Seq(Partial) /\ DOMAIN current = 1 .. Len(current)
      /\ Len(manifest) \in Nat /\ Len(current) < Len(manifest)
  BY <1>1 DEF ChunkInv, WorkerTrue, Boundaries
<1>3. result = None
  BY <1>1 DEF ChunkInv, ResultTrue
<1>4. PICK at, units, pairs :
         /\ at = At /\ units = ToSet(manifest[at]) /\ pairs \subseteq Pair /\ IsFiniteSet(pairs)
         /\ current' = Append(current, Reading(pairs))
         /\ \A i \in DOMAIN current : SeenIn(i)' = SeenIn(i)
         /\ SeenIn(at)' = pairs
         /\ SeenPairs' = SeenPairs \cup pairs /\ SeenPairs \cap pairs = {}
         /\ SeenPairs \subseteq Pair /\ IsFiniteSet(SeenPairs)
         /\ DOMAIN seen' \subseteq DOMAIN seen \cup units /\ DOMAIN seen' \subseteq Unit
         /\ \A u \in DOMAIN seen' : seen'[u] \in Figures
  BY CurrentStep
<1>5. PICK c : c = Reading(pairs)
  OBVIOUS
<1>6. c \in Partial /\ c.count = Cardinality(pairs) /\ c.total = SumOf(pairs) /\ c = Reading(pairs)'
  BY <1>1, <1>4, <1>5, ReadingTyped DEF Reading
<1>7. /\ current' \in Seq(Partial) /\ Len(current') = Len(current) + 1
      /\ DOMAIN current' = DOMAIN current \cup {at} /\ current'[at] = c
      /\ \A i \in DOMAIN current : current'[i] = current[i]
      /\ at = Len(current) + 1
  BY <1>2, <1>4, <1>5, <1>6 DEF At
<1>8. TypeOK'
  <2>1. Len(current') <= Len(manifest')
    BY <1>1, <1>2, <1>7
  <2>2. QED
    BY <1>1, <1>4, <2>1 DEF ChunkInv, TypeOK, tables
<1>9. Boundaries(manifest)'
  BY <1>1 DEF ChunkInv, Boundaries
<1>10. WorkerTrue'
  <2>1. current' # <<>>
    BY <1>2, <1>7
  <2>2. Len(current') <= Len(manifest')
    BY <1>1, <1>2, <1>7
  <2>3. QED
    BY <1>1, <1>7, <2>1, <2>2 DEF WorkerTrue
<1>11. ReadingTrue'
  <2>1. \A u \in DOMAIN seen' : \E i \in DOMAIN current' : u \in ToSet(manifest'[i])
    BY <1>1, <1>4, <1>7 DEF ChunkInv, ReadingTrue
  <2>2. ASSUME NEW i \in DOMAIN current' PROVE current'[i] = Reading(SeenIn(i))'
    <3>1. CASE i = at
      BY <1>4, <1>6, <1>7, <3>1 DEF Reading
    <3>2. CASE i \in DOMAIN current
      <4>1. current'[i] = Reading(SeenIn(i))
        BY <1>7, <3>2 DEF ChunkInv, ReadingTrue
      <4>2. SeenIn(i)' = SeenIn(i) /\ projection' = projection
        BY <1>1, <1>4, <3>2
      <4>3. QED
        BY <4>1, <4>2 DEF Reading
    <3>3. QED
      BY <1>7, <3>1, <3>2
  <2>3. CountOf(current') = CountOf(current) + c.count /\ TotalOf(current') = TotalOf(current) + c.total
    BY <1>2, <1>4, <1>5, <1>6, MergeAppend
  <2>4. CountOf(current) = Cardinality(SeenPairs) /\ TotalOf(current) = SumOf(SeenPairs)
    BY DEF ChunkInv, ReadingTrue
  <2>5. Cardinality(SeenPairs \cup pairs) = Cardinality(SeenPairs) + Cardinality(pairs)
    <3>1. Cardinality(SeenPairs \cap pairs) = 0
      BY <1>4, FS_EmptySet
    <3>2. Cardinality(SeenPairs) \in Nat /\ Cardinality(pairs) \in Nat
      BY <1>4, FS_CardinalityType
    <3>3. Cardinality(SeenPairs \cup pairs)
          = Cardinality(SeenPairs) + Cardinality(pairs) - Cardinality(SeenPairs \cap pairs)
      BY <1>4, FS_Union
    <3>4. QED
      BY <3>1, <3>2, <3>3
  <2>6. SumOf(SeenPairs \cup pairs) = SumOf(SeenPairs) + SumOf(pairs)
    BY <1>4, SumOfUnion
  <2>7. CountOf(current') = Cardinality(SeenPairs') /\ TotalOf(current') = SumOf(SeenPairs')
    BY <1>4, <1>6, <2>3, <2>4, <2>5, <2>6
  <2>8. QED
    BY <1>4, <2>1, <2>2, <2>7 DEF ReadingTrue
<1>12. ComparedTrue'
  <2>1. Len(current') - 1 = Len(current)
    BY <1>2, <1>7
  <2>2. QED
    BY <1>1, <2>1 DEF ChunkInv, ComparedTrue
<1>13. ProgressTrue'
  <2>1. Finished' = Finished
    BY <1>1, <1>2, <1>7 DEF Finished
  <2>2. QED
    BY <1>1, <2>1 DEF ChunkInv, ProgressTrue, tables
<1>14. ResultTrue'
  BY <1>1, <1>3 DEF ChunkInv, ResultTrue, MergedIsOneReading, ComparisonIsWhole, tables
<1>15. QED
  BY <1>8, <1>9, <1>10, <1>11, <1>12, <1>13, <1>14 DEF ChunkInv

\* The comparison of the chunk, or a warning.
LEMMA ComparisonKeeps == ASSUME ChunkInv, QueryComparison PROVE ChunkInv'
<1>1. /\ step = "COMPARISON" /\ step' = "STORE"
      /\ UNCHANGED <<books, changes, projection, tables, manifest, current, seen>>
      /\ \/ warning' = warning /\ compared' = compared \cup ToSet(manifest[Len(current)])
         \/ warning' = TRUE /\ compared' = compared
  BY DEF QueryComparison, Warn, ChunkInv, TypeOK
<1>2. /\ Len(current) \in Nat /\ Len(current) >= 1 /\ Len(current) <= Len(manifest)
      /\ Len(manifest) \in Nat /\ DOMAIN manifest = 1 .. Len(manifest)
  BY <1>1 DEF ChunkInv, WorkerTrue, Boundaries
<1>3. result = None
  BY <1>1 DEF ChunkInv, ResultTrue
<1>4. TypeOK'
  <2>1. Len(current) \in DOMAIN manifest
    BY <1>2
  <2>2. manifest[Len(current)] \in Seq(Unit)
    BY <2>1 DEF ChunkInv, Boundaries
  <2>3. ToSet(manifest[Len(current)]) \subseteq Unit
    BY <2>2 DEF ToSet
  <2>4. compared' \subseteq Unit /\ warning' \in BOOLEAN
    BY <1>1, <2>3 DEF ChunkInv, TypeOK
  <2>5. QED
    BY <1>1, <2>4 DEF ChunkInv, TypeOK, tables
<1>5. Boundaries(manifest)'
  BY <1>1 DEF ChunkInv, Boundaries
<1>6. WorkerTrue'
  BY <1>1 DEF ChunkInv, WorkerTrue
<1>7. ReadingTrue'
  BY <1>1, ReadingFrame DEF ChunkInv
<1>8. ComparedTrue'
  <2>1. ASSUME ~warning', NEW i \in 1 .. Len(current) PROVE ToSet(manifest[i]) \subseteq compared'
    <3>1. ~warning /\ compared' = compared \cup ToSet(manifest[Len(current)])
      BY <1>1, <2>1
    <3>2. CASE i = Len(current)
      BY <3>1, <3>2
    <3>3. CASE i # Len(current)
      <4>1. i \in 1 .. (Len(current) - 1)
        BY <1>2, <3>3
      <4>2. ToSet(manifest[i]) \subseteq compared
        BY <1>1, <3>1, <4>1 DEF ChunkInv, ComparedTrue
      <4>3. QED
        BY <3>1, <4>2
    <3>4. QED
      BY <3>2, <3>3
  <2>2. QED
    BY <1>1, <2>1 DEF ComparedTrue
<1>9. ProgressTrue'
  <2>1. Finished' = Finished
    BY <1>1 DEF Finished
  <2>2. QED
    BY <1>1, <2>1 DEF ChunkInv, ProgressTrue, tables
<1>10. ResultTrue'
  BY <1>1, <1>3 DEF ChunkInv, ResultTrue, MergedIsOneReading, ComparisonIsWhole, tables
<1>11. QED
  BY <1>4, <1>5, <1>6, <1>7, <1>8, <1>9, <1>10 DEF ChunkInv

\* CompleteChunk counts the chunk and marks its checkpoint in one transaction.
LEMMA StoreKeeps == ASSUME ChunkInv, CompleteChunk PROVE ChunkInv'
<1> PICK at : at = Len(current)
  OBVIOUS
<1>1. /\ step = "STORE" /\ lease /\ step' = "START"
      /\ rows[at].status = "RUNNING" /\ rows' = [rows EXCEPT ![at].status = "SUCCEEDED"]
      /\ progress' = [progress EXCEPT !.completed = @ + 1]
      /\ UNCHANGED <<books, changes, projection, status, attempt, lease, result,
                     manifest, current, compared, warning, seen>>
  BY DEF CompleteChunk
<1>2. result = None
  BY <1>1 DEF ChunkInv, ResultTrue
<1>3. at \in Nat /\ at >= 1 /\ at <= Len(manifest) /\ Len(manifest) \in Nat
  BY <1>1 DEF ChunkInv, WorkerTrue, Boundaries
<1>4. Finished = at - 1 /\ Finished' = at
  BY <1>1 DEF Finished
<1>5. /\ rows \in Seq(Row) /\ Len(rows) = Len(manifest) /\ DOMAIN rows = 1 .. Len(rows)
      /\ progress = [completed |-> Finished, total |-> Len(manifest)]
      /\ \A i \in DOMAIN rows : rows[i].status = "SUCCEEDED" <=> i <= Finished
  BY <1>1 DEF ChunkInv, ProgressTrue
<1>6. at \in DOMAIN rows /\ \A i \in DOMAIN rows : rows[i] \in Row
  BY <1>3, <1>5
<1> DEFINE row == [rows[at] EXCEPT !.status = "SUCCEEDED"]
<1>7. row \in Row /\ row.units = rows[at].units /\ row.status = "SUCCEEDED"
  BY <1>6 DEF Row
<1>8. rows' = [rows EXCEPT ![at] = row]
  BY <1>1
<1> HIDE DEF row
<1>9. /\ rows' \in Seq(Row) /\ DOMAIN rows' = DOMAIN rows /\ Len(rows') = Len(rows)
      /\ \A i \in DOMAIN rows : rows'[i] = IF i = at THEN row ELSE rows[i]
  BY <1>5, <1>6, <1>7, <1>8
<1>10. progress' = [completed |-> at, total |-> Len(manifest)]
  BY <1>1, <1>3, <1>4, <1>5
<1>11. TypeOK'
  <2>1. \A i \in DOMAIN rows' :
           /\ rows'[i].units # <<>> /\ Len(rows'[i].units) <= ChunkSize
           /\ rows'[i].status \in {"QUEUED", "RUNNING", "SUCCEEDED", "FAILED"}
    BY <1>6, <1>7, <1>9 DEF ChunkInv, TypeOK
  <2>2. progress' \in [completed : Nat, total : Nat]
    BY <1>3, <1>10
  <2>3. QED
    BY <1>1, <2>1, <2>2 DEF ChunkInv, TypeOK
<1>12. Boundaries(manifest)'
  BY <1>1 DEF ChunkInv, Boundaries
<1>13. WorkerTrue'
  BY <1>1 DEF ChunkInv, WorkerTrue
<1>14. ReadingTrue'
  BY <1>1, ReadingFrame DEF ChunkInv
<1>15. ComparedTrue'
  BY <1>1 DEF ChunkInv, ComparedTrue
<1>16. ProgressTrue'
  <2>1. \A i \in DOMAIN rows' : rows'[i].status = "SUCCEEDED" <=> i <= at
    BY <1>3, <1>4, <1>5, <1>7, <1>9
  <2>2. Cardinality({i \in DOMAIN rows' : rows'[i].status = "SUCCEEDED"}) = at
    <3>1. at \in 0 .. Len(rows')
      BY <1>3, <1>5, <1>9
    <3>2. QED
      BY <1>9, <2>1, <3>1, DoneCount
  <2>3. progress'.total = Len(rows') /\ progress'.completed = at
    BY <1>5, <1>9, <1>10
  <2>4. QED
    BY <1>1, <1>4, <1>5, <1>9, <1>10, <2>1, <2>2, <2>3 DEF ProgressTrue
<1>17. ResultTrue'
  BY <1>1, <1>2 DEF ChunkInv, ResultTrue, MergedIsOneReading, ComparisonIsWhole
<1>18. QED
  BY <1>11, <1>12, <1>13, <1>14, <1>15, <1>16, <1>17 DEF ChunkInv

\* The merge of readings that cover everything that was read is one reading.
LEMMA MergeIsReading ==
    ASSUME ChunkInv
    PROVE  /\ Merge(current).count = Cardinality(SeenPairs)
           /\ Merge(current).total = SumOf(SeenPairs)
           /\ Merge(current).rows = IF projection = "SUMMARY" THEN Selected(SeenPairs) ELSE SeenPairs
<1>1. /\ DOMAIN seen \subseteq Unit /\ \A u \in DOMAIN seen : seen[u] \in Figures
      /\ \A u \in DOMAIN seen : \E i \in DOMAIN current : u \in ToSet(manifest[i])
      /\ \A i \in DOMAIN current : current[i] = Reading(SeenIn(i))
      /\ CountOf(current) = Cardinality(SeenPairs) /\ TotalOf(current) = SumOf(SeenPairs)
  BY DEF ChunkInv, ReadingTrue
<1> DEFINE I == DOMAIN current
           rowsOf == [i \in I |-> SeenIn(i)]
<1>2. SeenPairs \subseteq Pair /\ IsFiniteSet(SeenPairs)
  BY <1>1, RowsOfUnits DEF SeenPairs
<1>3. UNION {rowsOf[i] : i \in I} = SeenPairs
  <2>1. ASSUME NEW i \in I PROVE rowsOf[i] \subseteq SeenPairs
    BY DEF SeenIn, SeenPairs
  <2>2. ASSUME NEW u \in DOMAIN seen PROVE \E i \in I : [unit |-> u, figures |-> seen[u]] \in rowsOf[i]
    <3>1. PICK i \in I : u \in ToSet(manifest[i])
      BY <1>1
    <3>2. [unit |-> u, figures |-> seen[u]] \in rowsOf[i]
      BY <3>1 DEF SeenIn
    <3>3. QED
      BY <3>2
  <2>3. SeenPairs \subseteq UNION {rowsOf[i] : i \in I}
    BY <2>2 DEF SeenPairs
  <2>4. QED
    BY <2>1, <2>3
<1>4. \A i \in I : current[i].rows = IF projection = "SUMMARY" THEN Selected(rowsOf[i]) ELSE rowsOf[i]
  BY <1>1 DEF Reading
<1>5. \A i \in I : rowsOf[i] \subseteq Pair
  BY <1>2, <1>3
<1> HIDE DEF rowsOf
<1>6. Merge(current).rows = IF projection = "SUMMARY" THEN Selected(SeenPairs) ELSE SeenPairs
  <2> DEFINE all == UNION {current[i].rows : i \in I}
  <2>1. Merge(current).rows = IF projection = "SUMMARY" THEN Selected(all) ELSE all
    BY MergeIs
  <2>2. CASE projection = "SUMMARY"
    <3>1. all = UNION {Selected(rowsOf[i]) : i \in I}
      BY <1>4, <2>2
    <3>2. IsFiniteSet(UNION {rowsOf[i] : i \in I})
      BY <1>2, <1>3
    <3>3. Selected(UNION {Selected(rowsOf[i]) : i \in I}) = Selected(UNION {rowsOf[i] : i \in I})
      <4> HIDE DEF I
      <4>1. QED
        BY <1>5, <3>2, FirstOfTheFirst
    <3>4. QED
      BY <1>3, <2>1, <2>2, <3>1, <3>3
  <2>3. CASE projection # "SUMMARY"
    <3>1. all = SeenPairs
      BY <1>3, <1>4, <2>3
    <3>2. QED
      BY <2>1, <2>3, <3>1
  <2>4. QED
    BY <2>2, <2>3
<1>7. QED
  BY <1>1, <1>6, MergeIs

\* Complete stores the merge after the last chunk.
LEMMA CompleteKeeps == ASSUME ChunkInv, Complete PROVE ChunkInv'
<1>1. /\ step = "START" /\ lease /\ At > Len(manifest) /\ step' = "IDLE"
      /\ result' = [merged |-> Merge(current), comparison |-> Comparison]
      /\ status' = "SUCCEEDED" /\ lease' = FALSE /\ rows' = <<>>
      /\ UNCHANGED <<books, changes, projection, attempt, progress,
                     manifest, current, compared, warning, seen>>
  BY DEF Complete
<1>2. Len(current) \in Nat /\ Len(current) = Len(manifest) /\ DOMAIN current = 1 .. Len(current)
  BY <1>1 DEF At, ChunkInv, WorkerTrue, Boundaries
<1>3. DOMAIN rows' = {} /\ rows' \in Seq(Row)
  BY <1>1
<1>4. TypeOK'
  BY <1>1, <1>3 DEF ChunkInv, TypeOK
<1>5. Boundaries(manifest)'
  BY <1>1 DEF ChunkInv, Boundaries
<1>6. WorkerTrue'
  BY <1>1 DEF ChunkInv, WorkerTrue
<1>7. ReadingTrue'
  BY <1>1, ReadingFrame DEF ChunkInv
<1>8. ComparedTrue'
  BY <1>1 DEF ComparedTrue
<1>9. ProgressTrue'
  BY <1>1, <1>3 DEF ProgressTrue
<1>10. MergedIsOneReading'
  <2>1. /\ result'.merged.count = Cardinality(SeenPairs) /\ result'.merged.total = SumOf(SeenPairs)
        /\ result'.merged.rows = IF projection = "SUMMARY" THEN Selected(SeenPairs) ELSE SeenPairs
    BY <1>1, MergeIsReading
  <2>2. QED
    BY <1>1, <2>1 DEF MergedIsOneReading, SeenPairs
<1>11. ComparisonIsWhole'
  <2>1. ASSUME Comparison # None PROVE Comparison = compared /\ DOMAIN seen \subseteq compared
    <3>1. ~warning /\ Comparison = compared
      BY <2>1 DEF Comparison, ChunkInv, TypeOK
    <3>2. \A i \in DOMAIN current : ToSet(manifest[i]) \subseteq compared
      BY <1>1, <1>2, <3>1 DEF ChunkInv, ComparedTrue
    <3>3. \A u \in DOMAIN seen : \E i \in DOMAIN current : u \in ToSet(manifest[i])
      BY DEF ChunkInv, ReadingTrue
    <3>4. QED
      BY <3>1, <3>2, <3>3
  <2>2. result'.comparison = Comparison
    BY <1>1
  <2>3. QED
    BY <1>1, <2>1, <2>2 DEF ComparisonIsWhole
<1>12. progress'.completed = progress'.total
  <2>1. progress = [completed |-> Finished, total |-> Len(manifest)] /\ Finished = Len(current)
    BY <1>1 DEF ChunkInv, ProgressTrue, Finished
  <2>2. QED
    BY <1>1, <1>2, <2>1
<1>13. ResultTrue'
  BY <1>1, <1>10, <1>11, <1>12 DEF ResultTrue
<1>14. QED
  BY <1>4, <1>5, <1>6, <1>7, <1>8, <1>9, <1>13 DEF ChunkInv

\* A failure leaves what was completed, and a lapsed lease everything.
LEMMA FailureKeeps == ASSUME ChunkInv, FailChunk \/ Failure \/ Lapse PROVE ChunkInv'
<1>1. /\ lease
      /\ \/ /\ lease' = FALSE /\ status' \in {"QUEUED", "FAILED"}
            /\ step' = step \/ step' = "IDLE"
         \/ UNCHANGED <<lease, status>> /\ step' \in {"CURRENT_FAILED", "COMPARISON_FAILED"}
      /\ UNCHANGED <<books, changes, projection, attempt, progress, result,
                     manifest, current, compared, warning, seen>>
  BY DEF FailChunk, Failure, Lapse, memory
<1>2. result = None
  BY <1>1 DEF ChunkInv, ResultTrue
<1>3. rows \in Seq(Row) /\ DOMAIN rows = 1 .. Len(rows) /\ Len(rows) \in Nat
      /\ \A i \in DOMAIN rows : rows[i] \in Row
  BY DEF ChunkInv, ProgressTrue
<1>4. /\ rows' \in Seq(Row) /\ DOMAIN rows' = DOMAIN rows /\ Len(rows') = Len(rows)
      /\ \A i \in DOMAIN rows : /\ rows'[i].units = rows[i].units
                                /\ rows'[i].status \in {"QUEUED", "RUNNING", "SUCCEEDED", "FAILED"}
                                /\ rows'[i].status = "SUCCEEDED" <=> rows[i].status = "SUCCEEDED"
  <2>1. CASE rows' = rows
    BY <1>3, <2>1 DEF Row
  <2>2. CASE FailChunk
    <3> DEFINE j == IF step = "CURRENT" THEN At ELSE Len(current)
    <3> HIDE DEF j
    <3>0. rows[j].status = "RUNNING" /\ rows' = [rows EXCEPT ![j].status = "FAILED"]
      BY <2>2 DEF FailChunk, j
    <3>1. ASSUME NEW r \in Row, r.status = "RUNNING"
          PROVE  LET s == [r EXCEPT !.status = "FAILED"] IN
                 s \in Row /\ s.units = r.units /\ s.status = "FAILED"
      BY <3>1 DEF Row
    <3>2. \A i \in DOMAIN rows : /\ rows'[i] \in Row /\ rows'[i].units = rows[i].units
                                 /\ rows'[i].status = "SUCCEEDED" <=> rows[i].status = "SUCCEEDED"
      BY <1>3, <3>0, <3>1
    <3>3. rows' \in Seq(Row) /\ DOMAIN rows' = DOMAIN rows /\ Len(rows') = Len(rows)
      <4>1. DOMAIN rows' = 1 .. Len(rows) /\ rows' = [i \in 1 .. Len(rows) |-> rows'[i]]
        BY <1>3, <3>0
      <4>2. QED
        BY <1>3, <3>2, <4>1
    <3>4. QED
      BY <3>2, <3>3 DEF Row
  <2>3. QED
    BY <2>1, <2>2 DEF Failure, Lapse
<1>5. TypeOK'
  <2>1. \A i \in DOMAIN rows' :
           /\ rows'[i].units # <<>> /\ Len(rows'[i].units) <= ChunkSize
           /\ rows'[i].status \in {"QUEUED", "RUNNING", "SUCCEEDED", "FAILED"}
    BY <1>4 DEF ChunkInv, TypeOK
  <2>2. QED
    BY <1>1, <2>1 DEF ChunkInv, TypeOK
<1>6. Boundaries(manifest)'
  BY <1>1 DEF ChunkInv, Boundaries
<1>7. WorkerTrue'
  BY <1>1 DEF ChunkInv, WorkerTrue
<1>8. ReadingTrue'
  BY <1>1, ReadingFrame DEF ChunkInv
<1>9. ComparedTrue'
  BY <1>1 DEF ChunkInv, ComparedTrue
<1>10. ProgressTrue'
  <2>1. {i \in DOMAIN rows' : rows'[i].status = "SUCCEEDED"}
        = {i \in DOMAIN rows : rows[i].status = "SUCCEEDED"}
    BY <1>4
  <2>2. rows' # <<>> => rows # <<>>
    BY <1>3, <1>4
  <2>3. QED
    BY <1>1, <1>4, <2>1, <2>2 DEF ChunkInv, ProgressTrue
<1>11. ResultTrue'
  <2>1. lease' => status' = "RUNNING"
    <3>1. CASE FailChunk
      BY <3>1 DEF FailChunk, ChunkInv, ResultTrue
    <3>2. CASE Failure \/ Lapse
      BY <3>2 DEF Failure, Lapse
    <3>3. QED
      BY <3>1, <3>2
  <2>2. QED
    BY <1>1, <1>2, <2>1 DEF ResultTrue, MergedIsOneReading, ComparisonIsWhole
<1>12. QED
  BY <1>5, <1>6, <1>7, <1>8, <1>9, <1>10, <1>11 DEF ChunkInv

\* The books are not part of what was read.
LEMMA BooksKeep == ASSUME ChunkInv, ChangeBooks PROVE ChunkInv'
<1>1. UNCHANGED <<projection, tables, memory>>
  BY DEF ChangeBooks
<1>2. TypeOK'
  <2>1. books' \in [Unit -> Figures \cup {None}] /\ changes' \in Nat
    BY DEF ChangeBooks, ChunkInv, TypeOK
  <2>2. QED
    BY <1>1, <2>1 DEF ChunkInv, TypeOK, tables, memory
<1>3. Boundaries(manifest)' /\ WorkerTrue' /\ ComparedTrue'
  BY <1>1 DEF ChunkInv, Boundaries, WorkerTrue, ComparedTrue, memory
<1>4. ReadingTrue'
  BY <1>1, ReadingFrame DEF ChunkInv, memory
<1>5. ProgressTrue'
  BY <1>1 DEF ChunkInv, ProgressTrue, Finished, tables, memory
<1>6. ResultTrue'
  BY <1>1 DEF ChunkInv, ResultTrue, MergedIsOneReading, ComparisonIsWhole, tables, memory
<1>7. QED
  BY <1>2, <1>3, <1>4, <1>5, <1>6 DEF ChunkInv

\* ChunkInv is an invariant of the worker, its failures and the store's books.
THEOREM ChunkInvariance == Spec => []ChunkInv
<1>1. Init => ChunkInv
  <2> SUFFICES ASSUME Init PROVE ChunkInv
    OBVIOUS
  <2>1. /\ current = <<>> /\ seen = <<>> /\ manifest = <<>> /\ rows = <<>> /\ result = None
        /\ step = "IDLE" /\ lease = FALSE
    BY DEF Init
  <2>2. DOMAIN seen = {} /\ DOMAIN current = {} /\ DOMAIN manifest = {} /\ DOMAIN rows = {}
        /\ Len(current) = 0 /\ Len(manifest) = 0
        /\ rows \in Seq(Row) /\ current \in Seq(Partial) /\ manifest \in Seq(Seq(Unit))
    BY <2>1
  <2>3. TypeOK
    <3>1. attempt \in 0 .. MaxAttempts /\ progress \in [completed : Nat, total : Nat]
      BY ChunkConstants DEF Init, NoProgress
    <3>2. /\ books \in [Unit -> Figures \cup {None}] /\ changes \in Nat /\ projection \in Projections
          /\ status = "QUEUED" /\ compared = {} /\ warning = FALSE
      BY DEF Init
    <3>3. lease \in BOOLEAN /\ warning \in BOOLEAN /\ Len(current) <= Len(manifest)
      <4>1. lease \in BOOLEAN /\ warning \in BOOLEAN
        BY <2>1, <3>2
      <4>2. Len(current) = 0 /\ Len(manifest) = 0
        BY <2>2
      <4>3. QED
        BY <4>1, <4>2
    <3>4. /\ \A i \in DOMAIN rows :
                /\ rows[i].units # <<>> /\ Len(rows[i].units) <= ChunkSize
                /\ rows[i].status \in {"QUEUED", "RUNNING", "SUCCEEDED", "FAILED"}
          /\ compared \subseteq Unit /\ DOMAIN seen \subseteq Unit
      BY <2>2, <3>2
    <3>5. QED
      BY <2>1, <3>1, <3>2, <3>3, <3>4, Zenon DEF TypeOK
  <2>4. Boundaries(manifest) /\ WorkerTrue
    BY <2>1, <2>2 DEF Boundaries, WorkerTrue
  <2>5. ReadingTrue
    <3>1. SeenPairs = {} /\ Cardinality({}) = 0
      BY <2>2, FS_EmptySet DEF SeenPairs
    <3>2. CountOf(current) = 0 /\ TotalOf(current) = 0 /\ SumOf({}) = 0
      BY <2>1, MergeEmpty
    <3>3. QED
      BY <2>2, <3>1, <3>2 DEF ReadingTrue
  <2>6. ComparedTrue /\ ProgressTrue /\ ResultTrue
    BY <2>1, <2>2 DEF ComparedTrue, ProgressTrue, ResultTrue, MergedIsOneReading, ComparisonIsWhole
  <2>7. QED
    BY <2>3, <2>4, <2>5, <2>6 DEF ChunkInv
<1>2. ChunkInv /\ [Next]_vars => ChunkInv'
  <2> SUFFICES ASSUME ChunkInv, [Next]_vars PROVE ChunkInv'
    OBVIOUS
  <2>1. CASE Begin \/ QueryManifest \/ PrepareChunks \/ StartChunk
    BY <2>1, BeginKeeps, ManifestKeeps, PrepareKeeps, StartKeeps
  <2>2. CASE QueryCurrent \/ QueryComparison
    BY <2>2, CurrentKeeps, ComparisonKeeps
  <2>3. CASE CompleteChunk \/ Complete
    BY <2>3, StoreKeeps, CompleteKeeps
  <2>4. CASE FailChunk \/ Failure \/ Lapse \/ ChangeBooks
    BY <2>4, FailureKeeps, BooksKeep
  <2>5. CASE UNCHANGED vars
    <3>1. UNCHANGED <<books, changes, projection, tables, memory>>
      BY <2>5 DEF vars
    <3>2. TypeOK' /\ Boundaries(manifest)' /\ WorkerTrue' /\ ComparedTrue'
      BY <3>1 DEF ChunkInv, TypeOK, Boundaries, WorkerTrue, ComparedTrue, tables, memory
    <3>3. ReadingTrue'
      BY <3>1, ReadingFrame DEF ChunkInv, memory
    <3>4. ProgressTrue' /\ ResultTrue'
      BY <3>1 DEF ChunkInv, ProgressTrue, Finished, ResultTrue, MergedIsOneReading,
                  ComparisonIsWhole, tables, memory
    <3>5. QED
      BY <3>2, <3>3, <3>4 DEF ChunkInv
  <2>6. QED
    BY <2>1, <2>2, <2>3, <2>4, <2>5 DEF Next
<1>3. QED
  BY <1>1, <1>2, PTL DEF Spec

-----------------------------------------------------------------------------
(* What is stored and shown.                                               *)

\* The checkpoints, the counters and the worker's memory stay in their ranges
\* through every attempt, failure and lapse.
THEOREM ChunkTypeCorrect == Spec => []TypeOK
<1>1. ChunkInv => TypeOK
  BY DEF ChunkInv
<1>2. QED
  BY <1>1, ChunkInvariance, PTL

\* The stored figures are those of one query over what was read, for every size
\* of chunk, number of top rows, ranking and course of the books
\* (MergeChunkedSteps).
THEOREM MergeIsOneReading == Spec => []MergedIsOneReading
<1>1. ChunkInv => MergedIsOneReading
  BY DEF ChunkInv, ResultTrue
<1>2. QED
  BY <1>1, ChunkInvariance, PTL

\* A comparison is stored for all units of the figures or for none.
THEOREM ComparisonIsComplete == Spec => []ComparisonIsWhole
<1>1. ChunkInv => ComparisonIsWhole
  BY DEF ChunkInv, ResultTrue
<1>2. QED
  BY <1>1, ChunkInvariance, PTL

\* The progress that is shown counts the checkpoints on record, which a retry
\* replaces together with it, and it is full when a result is stored
\* (PrepareChunks, CompleteChunk).
THEOREM ProgressIsExact == Spec => []ProgressIsTrue
<1>1. ChunkInv => ProgressIsTrue
  BY DEF ChunkInv, ProgressTrue, ResultTrue, ProgressIsTrue
<1>2. QED
  BY <1>1, ChunkInvariance, PTL
=============================================================================
