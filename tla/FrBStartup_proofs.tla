-------------------------- MODULE FrBStartup_proofs --------------------------
(***************************************************************************)
(* Proofs about FrBStartup, for any classes, any tree of them, any fields  *)
(* and any bound on the stack: the state keeps its shape, the shared       *)
(* fields are initialised in the order of the text, and an initialiser     *)
(* sees what comes before it and nothing else; the initialisation of a     *)
(* well ordered program leaves no field without a value, and only classes  *)
(* that make instances of themselves use the stack up.                     *)
(***************************************************************************)
EXTENDS FrBStartup, WellFoundedInduction, FiniteSetTheorems, SequenceTheorems, TLAPS

-----------------------------------------------------------------------------
(* Facts about sets of natural numbers and about sequences.  The induction *)
(* theorems of the library take a predicate as a parameter, which no       *)
(* prover here can instantiate; the same facts about sets follow from the  *)
(* least element of a set.                                                 *)

(* Every set of natural numbers that is not empty has a least element. *)
LEMMA LeastElement ==
  ASSUME NEW S, S \subseteq Nat, S # {}
  PROVE  \E m \in S : \A n \in S : m <= n
<1> DEFINE less == {p \in Nat \X Nat : p[1] < p[2]}
<1>1. IsWellFoundedOn(less, Nat)
  BY NatLessThanWellFounded DEF OpToRel
<1>2. \A m, n \in Nat : <<n, m>> \notin less => m <= n
  OBVIOUS
<1> HIDE DEF less
<1>3. \E m \in S : \A n \in S : <<n, m>> \notin less
  BY <1>1, WFMin
<1>4. QED
  BY <1>2, <1>3

(* Induction: a set with 0 and the successor of each member has them all. *)
LEMMA SetInduction ==
  ASSUME NEW S, 0 \in S, \A n \in Nat : n \in S => n + 1 \in S
  PROVE  \A n \in Nat : n \in S
<1> DEFINE missing == {n \in Nat : n \notin S}
<1> SUFFICES ASSUME missing # {} PROVE FALSE
  OBVIOUS
<1>1. PICK m \in missing : \A n \in missing : m <= n
  BY LeastElement
<1>2. m - 1 \in Nat /\ m - 1 \notin missing
  BY <1>1
<1>3. QED
  BY <1>1, <1>2
-----------------------------------------------------------------------------
(* Three sequences in a row are the same in whichever order they are joined. *)
Associative(S) == \A s, t, u \in Seq(S) : (s \o t) \o u = s \o (t \o u)

LEMMA ThreeInARow ==
  ASSUME NEW S
  PROVE  Associative(S)
BY ConcatAssociative DEF Associative

(* What Head and Tail make of a sequence, element by element. *)
LEMMA HeadAndTail ==
  ASSUME NEW S, NEW s \in Seq(S), s # <<>>
  PROVE  /\ Head(s) \in S /\ Head(s) = s[1]
         /\ Tail(s) \in Seq(S)
         /\ Len(s) \in Nat \ {0} /\ Len(Tail(s)) = Len(s) - 1
         /\ \A k \in 1 .. Len(Tail(s)) : Tail(s)[k] = s[k + 1]
<1>1. Len(s) \in Nat \ {0}
  BY EmptySeq, LenProperties
<1>2. Head(s) \in S /\ Tail(s) \in Seq(S) /\ Len(Tail(s)) = Len(s) - 1
  BY HeadTailProperties
<1>3. \A k \in 1 .. Len(Tail(s)) : Tail(s)[k] = s[k + 1]
  BY HeadTailProperties
<1>4. QED
  BY <1>1, <1>2, <1>3

(* What comes before a sequence, element by element. *)
LEMMA PushIs ==
  ASSUME NEW S, NEW s \in Seq(S), NEW a \in S
  PROVE  /\ <<a>> \o s \in Seq(S) /\ Len(<<a>> \o s) = Len(s) + 1 /\ Len(s) \in Nat
         /\ (<<a>> \o s)[1] = a /\ \A k \in 1 .. Len(s) : (<<a>> \o s)[k + 1] = s[k]
<1>1. <<a>> \in Seq(S) /\ Len(<<a>>) = 1 /\ <<a>>[1] = a
  OBVIOUS
<1>2. /\ <<a>> \o s \in Seq(S) /\ Len(<<a>> \o s) = 1 + Len(s) /\ Len(s) \in Nat
      /\ \A k \in 1 .. 1 + Len(s) : (<<a>> \o s)[k] = IF k <= 1 THEN <<a>>[k] ELSE s[k - 1]
  BY ONLY <1>1, s \in Seq(S), ConcatProperties, LenProperties
<1> DEFINE t == <<a>> \o s
<1> HIDE DEF t
<1>3. /\ t \in Seq(S) /\ Len(t) = Len(s) + 1
      /\ t[1] = a /\ \A k \in 1 .. Len(s) : t[k + 1] = s[k]
  BY <1>1, <1>2 DEF t
<1>4. QED
  BY <1>2, <1>3 DEF t

-----------------------------------------------------------------------------
(* A finite set that is ranked has its members in the order of their ranks. *)
Increasing(s, rank) == \A i, j \in DOMAIN s : i < j => rank[s[i]] < rank[s[j]]

LEMMA OrderExists ==
  ASSUME NEW S, IsFiniteSet(S), NEW rank \in [S -> Nat],
         \A x, y \in S : rank[x] = rank[y] => x = y
  PROVE  \E s \in [1 .. Cardinality(S) -> S] : Increasing(s, rank)
<1> DEFINE Ordered(T) == \E s \in [1 .. Cardinality(T) -> T] : Increasing(s, rank)
           Good       == {n \in Nat : \A T \in SUBSET S : Cardinality(T) = n => Ordered(T)}
<1>1. 0 \in Good
  <2>1. ASSUME NEW T \in SUBSET S, Cardinality(T) = 0 PROVE Ordered(T)
    <3>1. T = {}
      BY <2>1, FS_Subset, FS_EmptySet
    <3>2. <<>> \in [1 .. 0 -> T] /\ DOMAIN <<>> = {}
      BY <3>1
    <3>3. QED
      BY <2>1, <3>2 DEF Increasing
  <2>2. QED
    BY <2>1
<1>2. ASSUME NEW n \in Nat, n \in Good PROVE n + 1 \in Good
  <2>1. ASSUME NEW T \in SUBSET S, Cardinality(T) = n + 1 PROVE Ordered(T)
    <3>1. T # {} /\ IsFiniteSet(T)
      BY <2>1, FS_Subset, FS_EmptySet
    <3>2. PICK m \in T : \A x \in T : rank[m] <= rank[x]
      <4> DEFINE ranks == {rank[x] : x \in T}
      <4>1. ranks \subseteq Nat /\ ranks # {}
        BY <3>1
      <4>2. \E r \in ranks : \A q \in ranks : r <= q
        BY <4>1, LeastElement
      <4>3. QED
        BY <4>2
    <3>3. Cardinality(T \ {m}) = n
      <4>1. Cardinality(T \ {m}) = Cardinality(T) - 1
        BY ONLY <3>1, m \in T, FS_RemoveElement
      <4>2. QED
        BY <2>1, <4>1
    <3>4. PICK s \in [1 .. n -> T \ {m}] : Increasing(s, rank)
      BY <1>2, <3>3
    <3> DEFINE t == [i \in 1 .. n + 1 |-> IF i = 1 THEN m ELSE s[i - 1]]
    <3>5. t \in [1 .. n + 1 -> T]
      OBVIOUS
    <3>6. ASSUME NEW i \in 1 .. n + 1, NEW j \in 1 .. n + 1, i < j PROVE rank[t[i]] < rank[t[j]]
      <4>1. j - 1 \in 1 .. n /\ t[j] = s[j - 1] /\ s[j - 1] \in T \ {m}
        BY <3>6
      <4>2. CASE i = 1
        <5>1. rank[m] <= rank[t[j]] /\ rank[m] # rank[t[j]]
          BY <3>2, <4>1
        <5>2. rank[m] \in Nat /\ rank[t[j]] \in Nat /\ t[i] = m
          BY <4>1, <4>2
        <5>3. QED
          BY <5>1, <5>2
      <4>3. CASE i # 1
        <5>1. i - 1 \in 1 .. n /\ t[i] = s[i - 1] /\ i - 1 < j - 1
          BY <3>6, <4>3
        <5>2. QED
          BY <3>4, <4>1, <5>1 DEF Increasing
      <4>4. QED
        BY <4>2, <4>3
    <3>7. QED
      BY <2>1, <3>5, <3>6 DEF Increasing
  <2>2. QED
    BY <2>1
<1>3. \A n \in Nat : n \in Good
  <2> HIDE DEF Good
  <2>1. QED
    BY <1>1, <1>2, SetInduction
<1>4. Cardinality(S) \in Nat
  BY FS_CardinalityType
<1>5. QED
  BY <1>3, <1>4

(* Sorted is that order: every member is in it, once. *)
LEMMA SortedIs ==
  ASSUME NEW S, IsFiniteSet(S), NEW rank \in [S -> Nat],
         \A x, y \in S : rank[x] = rank[y] => x = y
  PROVE  /\ Sorted(S, rank) \in Seq(S)
         /\ Len(Sorted(S, rank)) = Cardinality(S)
         /\ Increasing(Sorted(S, rank), rank)
         /\ \A x \in S : \E i \in 1 .. Len(Sorted(S, rank)) : Sorted(S, rank)[i] = x
         /\ \A i, j \in 1 .. Len(Sorted(S, rank)) : Sorted(S, rank)[i] = Sorted(S, rank)[j] => i = j
<1> DEFINE s == Sorted(S, rank)
           n == Cardinality(S)
<1>1. n \in Nat
  BY FS_CardinalityType
<1>2. s \in [1 .. n -> S] /\ Increasing(s, rank)
  BY OrderExists DEF Sorted, Increasing
<1> HIDE DEF s
<1>3. s \in Seq(S) /\ Len(s) = n
  BY <1>1, <1>2
<1>4. ASSUME NEW i \in 1 .. n, NEW j \in 1 .. n, s[i] = s[j] PROVE i = j
  <2>1. rank[s[i]] \in Nat
    BY <1>2
  <2>2. ~(i < j) /\ ~(j < i)
    BY <1>2, <1>4, <2>1 DEF Increasing
  <2>3. QED
    BY <2>2, <1>1
<1>5. s \in Injection(1 .. n, S)
  BY <1>2, <1>4 DEF Injection, IsInjective
<1>6. s \in Surjection(1 .. n, S)
  <2>1. Cardinality(1 .. n) = n
    BY <1>1, FS_Interval
  <2>2. QED
    BY <1>5, <2>1, FS_Injection
<1>7. QED
  BY <1>2, <1>3, <1>4, <1>6 DEF s, Surjection
-----------------------------------------------------------------------------
(* FlattenSeq joins sequences one after the other.                         *)
FlatUpTo(f, ss, n) == \A i \in 1 .. n : f[i] = IF i = 1 THEN ss[1] ELSE f[i - 1] \o ss[i]

IsFlat(f, ss) == FlatUpTo(f, ss, Len(ss))

LEMMA FlatExists ==
  ASSUME NEW S, NEW ss \in Seq(Seq(S))
  PROVE  \E f \in [1 .. Len(ss) -> Seq(S)] : IsFlat(f, ss)
<1> DEFINE Good == {n \in Nat : n <= Len(ss) => \E f \in [1 .. n -> Seq(S)] : FlatUpTo(f, ss, n)}
<1>1. 0 \in Good
  <2>1. <<>> \in [1 .. 0 -> Seq(S)] /\ FlatUpTo(<<>>, ss, 0)
    BY DEF FlatUpTo
  <2>2. QED
    BY <2>1
<1>2. ASSUME NEW n \in Nat, n \in Good PROVE n + 1 \in Good
  <2>1. ASSUME n + 1 <= Len(ss) 
        PROVE  \E f \in [1 .. n + 1 -> Seq(S)] : FlatUpTo(f, ss, n + 1)
    <3>0. n <= Len(ss)
      BY <2>1, LenProperties
    <3>1. PICK f \in [1 .. n -> Seq(S)] : FlatUpTo(f, ss, n)
      BY <1>2, <3>0
    <3> DEFINE last == IF n = 0 THEN ss[1] ELSE f[n] \o ss[n + 1]
               g    == [i \in 1 .. n + 1 |-> IF i = n + 1 THEN last ELSE f[i]]
    <3>2. ss[n + 1] \in Seq(S) /\ ss[1] \in Seq(S)
      BY <2>1, ElementOfSeq, LenProperties
    <3>3. last \in Seq(S)
      <4>1. CASE n = 0
        BY <3>2, <4>1
      <4>2. CASE n # 0
        BY <3>2, <4>2, ConcatProperties
      <4>3. QED
        BY <4>1, <4>2
    <3>4. g \in [1 .. n + 1 -> Seq(S)]
      BY <3>1, <3>3
    <3>5. ASSUME NEW i \in 1 .. n + 1 PROVE g[i] = IF i = 1 THEN ss[1] ELSE g[i - 1] \o ss[i]
      <4>1. CASE i = n + 1
        <5>1. i # 1 => i - 1 \in 1 .. n /\ g[i - 1] = f[n]
          BY <4>1
        <5>2. QED
          BY <4>1, <5>1
      <4>2. CASE i # n + 1
        <5>1. i \in 1 .. n /\ g[i] = f[i] /\ (i # 1 => i - 1 \in 1 .. n /\ g[i - 1] = f[i - 1])
          BY <4>2
        <5>2. QED
          BY <3>1, <5>1 DEF FlatUpTo
      <4>3. QED
        BY <4>1, <4>2
    <3>6. QED
      BY <3>4, <3>5 DEF FlatUpTo
  <2>2. QED
    BY <2>1
<1>3. \A n \in Nat : n \in Good
  <2> HIDE DEF Good
  <2>1. QED
    BY <1>1, <1>2, SetInduction
<1>4. Len(ss) \in Nat
  BY LenProperties
<1>5. \E f \in [1 .. Len(ss) -> Seq(S)] : FlatUpTo(f, ss, Len(ss))
  <2>1. Len(ss) \in Good /\ Len(ss) <= Len(ss)
    BY <1>3, <1>4
  <2>2. QED
    BY <2>1
<1>6. QED
  BY <1>5 DEF IsFlat, FlatUpTo

LEMMA FlatUnique ==
  ASSUME NEW ss, Len(ss) \in Nat, NEW f, NEW g, IsFlat(f, ss), IsFlat(g, ss)
  PROVE  \A i \in 1 .. Len(ss) : f[i] = g[i]
<1> DEFINE Good == {n \in Nat : n + 1 <= Len(ss) => f[n + 1] = g[n + 1]}
<1>1. 0 \in Good
  BY DEF IsFlat, FlatUpTo
<1>2. ASSUME NEW n \in Nat, n \in Good PROVE n + 1 \in Good
  <2>1. ASSUME n + 1 + 1 <= Len(ss) PROVE f[n + 1 + 1] = g[n + 1 + 1]
    <3>1. n + 1 + 1 \in 1 .. Len(ss) /\ n + 1 + 1 # 1 /\ n + 1 + 1 - 1 = n + 1
      BY <2>1
    <3>2. f[n + 1] = g[n + 1]
      BY <1>2, <2>1
    <3>3. QED
      BY <3>1, <3>2 DEF IsFlat, FlatUpTo
  <2>2. QED
    BY <2>1
<1>3. \A n \in Nat : n \in Good
  <2> HIDE DEF Good
  <2>1. QED
    BY <1>1, <1>2, SetInduction
<1>4. ASSUME NEW i \in 1 .. Len(ss) PROVE f[i] = g[i]
  <2>1. i - 1 \in Nat /\ i - 1 + 1 = i
    OBVIOUS
  <2>2. i - 1 \in Good
    BY <1>3, <2>1
  <2>3. QED
    BY <2>1, <2>2
<1>5. QED
  BY <1>4

LEMMA FlattenIs ==
  ASSUME NEW S, NEW ss \in Seq(Seq(S)), ss # <<>>,
         NEW f \in [1 .. Len(ss) -> Seq(S)], IsFlat(f, ss)
  PROVE  FlattenSeq(ss) = f[Len(ss)]
<1> DEFINE n       == Len(ss)
           flatten == CHOOSE g : g = [i \in 1 .. n |-> IF i = 1 THEN ss[i] ELSE g[i - 1] \o ss[i]]
<1>1. n \in Nat \ {0}
  BY EmptySeq
<1>2. f = [i \in 1 .. n |-> IF i = 1 THEN ss[i] ELSE f[i - 1] \o ss[i]]
  BY DEF IsFlat, FlatUpTo
<1>3. flatten = [i \in 1 .. n |-> IF i = 1 THEN ss[i] ELSE flatten[i - 1] \o ss[i]]
  BY <1>2
<1> HIDE DEF flatten
<1>4. IsFlat(flatten, ss)
  BY <1>3 DEF IsFlat, FlatUpTo
<1>5. flatten[n] = f[n]
  BY <1>1, <1>4, FlatUnique
<1>6. FlattenSeq(ss) = flatten[n]
  BY <1>1 DEF FlattenSeq, flatten
<1>7. QED
  BY <1>5, <1>6

LEMMA FlattenType ==
  ASSUME NEW S, NEW ss \in Seq(Seq(S))
  PROVE  FlattenSeq(ss) \in Seq(S)
<1>1. CASE ss = <<>>
  <2>1. FlattenSeq(ss) = <<>>
    BY <1>1 DEF FlattenSeq
  <2>2. QED
    BY <2>1
<1>2. CASE ss # <<>>
  <2>1. PICK f \in [1 .. Len(ss) -> Seq(S)] : IsFlat(f, ss)
    BY FlatExists
  <2>2. Len(ss) \in 1 .. Len(ss)
    BY <1>2, EmptySeq
  <2>3. f[Len(ss)] \in Seq(S)
    BY <2>1, <2>2
  <2>4. FlattenSeq(ss) = f[Len(ss)]
    BY ONLY <1>2, <2>1, ss \in Seq(Seq(S)), FlattenIs
  <2>5. QED
    BY <2>3, <2>4
<1>3. QED
  BY <1>1, <1>2

LEMMA FlattenCons ==
  ASSUME NEW S, NEW s \in Seq(S), NEW ss \in Seq(Seq(S))
  PROVE  FlattenSeq(<<s>> \o ss) = s \o FlattenSeq(ss)
<1> DEFINE all == <<s>> \o ss
           n   == Len(ss)
<1>1. /\ n \in Nat /\ all \in Seq(Seq(S)) /\ Len(all) = n + 1 /\ all # <<>>
      /\ all[1] = s /\ \A i \in 1 .. n : all[i + 1] = ss[i] /\ ss[i] \in Seq(S)
  <2>1. <<s>> \in Seq(Seq(S)) /\ Len(<<s>>) = 1 /\ <<s>>[1] = s
    OBVIOUS
  <2>2. /\ all \in Seq(Seq(S)) /\ Len(all) = 1 + n /\ n \in Nat
        /\ \A i \in 1 .. 1 + n : all[i] = IF i <= 1 THEN <<s>>[i] ELSE ss[i - 1]
    BY ONLY <2>1, ss \in Seq(Seq(S)), ConcatProperties, LenProperties
  <2> HIDE DEF all
  <2>3. QED
    BY <2>1, <2>2, ElementOfSeq
<1>2. CASE ss = <<>>
  <2>1. FlattenSeq(ss) = <<>>
    BY <1>2 DEF FlattenSeq
  <2>2. s \o <<>> = s
    BY ConcatEmptySeq
  <2> DEFINE f == [i \in 1 .. Len(all) |-> s]
  <2>3. f \in [1 .. Len(all) -> Seq(S)] /\ IsFlat(f, all) /\ n = 0
    BY <1>1, <1>2 DEF IsFlat, FlatUpTo
  <2> HIDE DEF f, all
  <2>4. FlattenSeq(all) = f[Len(all)]
    BY <1>1, <2>3, FlattenIs
  <2>5. QED
    BY <1>1, <2>1, <2>2, <2>3, <2>4 DEF f, all
<1>3. CASE ss # <<>>
  <2>1. PICK f \in [1 .. n -> Seq(S)] : IsFlat(f, ss)
    BY FlatExists
  <2>2. n >= 1
    BY <1>3, EmptySeq
  <2> DEFINE g == [i \in 1 .. n + 1 |-> IF i = 1 THEN s ELSE s \o f[i - 1]]
  <2> HIDE DEF all, n
  <2>0. g[1] = s /\ \A j \in 1 .. n : g[j + 1] = s \o f[j] /\ f[j] \in Seq(S) /\ s \o f[j] \in Seq(S)
    <3>1. \A j \in 1 .. n : f[j] \in Seq(S)
      BY <2>1
    <3>2. \A j \in 1 .. n : s \o f[j] \in Seq(S)
      BY <3>1, ConcatProperties
    <3>3. \A j \in 1 .. n : j + 1 \in 1 .. n + 1 /\ j + 1 # 1 /\ (j + 1) - 1 = j
      BY <1>1
    <3>4. 1 \in 1 .. n + 1 /\ g[1] = s
      BY <1>1
    <3>5. ASSUME NEW j \in 1 .. n PROVE g[j + 1] = s \o f[j]
      BY <3>3
    <3>6. QED
      BY <3>1, <3>2, <3>4, <3>5
  <2>3. g \in [1 .. Len(all) -> Seq(S)]
    <3>1. ASSUME NEW i \in 1 .. n + 1 PROVE (IF i = 1 THEN s ELSE s \o f[i - 1]) \in Seq(S)
      <4>1. CASE i = 1
        BY <4>1
      <4>2. CASE i # 1
        <5>1. i - 1 \in 1 .. n
          BY <1>1, <4>2
        <5>2. QED
          BY <2>0, <4>2, <5>1
      <4>3. QED
        BY <4>1, <4>2
    <3>2. QED
      BY <1>1, <3>1
  <2> HIDE DEF g
  <2>4. ASSUME NEW i \in 1 .. n + 1 PROVE g[i] = IF i = 1 THEN all[1] ELSE g[i - 1] \o all[i]
    <3>1. CASE i = 1
      BY <1>1, <2>0, <3>1
    <3>2. CASE i # 1
      <4>1. PICK j \in 1 .. n : i = j + 1
        BY <1>1, <3>2
      <4>0. i - 1 = j
        BY <1>1, <4>1
      <4>2. all[i] = ss[j] /\ ss[j] \in Seq(S) /\ g[i] = s \o f[j] /\ i - 1 = j
        BY ONLY <1>1, <2>0, <4>0, <4>1
      <4>3. f[j] = IF j = 1 THEN ss[1] ELSE f[j - 1] \o ss[j]
        BY <2>1 DEF IsFlat, FlatUpTo, n
      <4>4. CASE j = 1
        BY <2>0, <3>2, <4>2, <4>3, <4>4
      <4>5. CASE j # 1
        <5>1. PICK k \in 1 .. n : j = k + 1
          BY <1>1, <4>5
        <5>2. g[j] = s \o f[k] /\ f[k] \in Seq(S) /\ j - 1 = k
          BY <2>0, <5>1
        <5>3. (s \o f[k]) \o ss[j] = s \o (f[k] \o ss[j])
          <6>1. ss[j] \in Seq(S) /\ f[k] \in Seq(S) /\ s \in Seq(S)
            BY <4>2, <5>2
          <6>2. Associative(S)
            BY ThreeInARow
          <6>3. QED
            BY ONLY <6>1, <6>2, Zenon DEF Associative
        <5>4. QED
          BY <3>2, <4>2, <4>3, <4>5, <5>2, <5>3
      <4>6. QED
        BY <4>4, <4>5
    <3>3. QED
      BY <3>1, <3>2
  <2>5. IsFlat(g, all)
    BY <1>1, <2>4 DEF IsFlat, FlatUpTo
  <2>6. FlattenSeq(all) = g[n + 1] /\ FlattenSeq(ss) = f[n]
    BY <1>1, <1>3, <2>1, <2>3, <2>5, FlattenIs DEF n
  <2>7. g[n + 1] = s \o f[n]
    BY <1>1, <2>0, <2>2
  <2>8. QED
    BY <2>6, <2>7 DEF all
<1>4. QED
  BY <1>2, <1>3
-----------------------------------------------------------------------------
(* The program: its fields are named once in each class.                   *)
ProgramSound ==
  /\ shape \in Shapes
  /\ declared \in [Class -> Seq(Fields)]
  /\ \A c \in Class : \A i, j \in DOMAIN declared[c] : declared[c][i].name = declared[c][j].name => i = j

LEMMA ProgramInit == Init => ProgramSound
<1> SUFFICES ASSUME Init PROVE ProgramSound
  OBVIOUS
<1>1. <<>> \in Seq(Fields) /\ DOMAIN <<>> = {}
  OBVIOUS
<1>2. declared = [c \in Class |-> <<>>] /\ shape \in Shapes
  BY DEF Init
<1>3. \A c \in Class : declared[c] = <<>>
  BY <1>2
<1>4. QED
  BY <1>1, <1>2, <1>3 DEF ProgramSound

LEMMA ProgramNext == ProgramSound /\ [Next]_vars => ProgramSound'
<1> SUFFICES ASSUME ProgramSound, [Next]_vars PROVE ProgramSound'
  OBVIOUS
<1>1. CASE AddField
  <2>1. PICK c \in Class, f \in Fields :
          /\ \A i \in DOMAIN declared[c] : declared[c][i].name # f.name
          /\ declared' = [declared EXCEPT ![c] = Append(@, f)]
    BY <1>1 DEF AddField
  <2>2. declared[c] \in Seq(Fields)
    BY DEF ProgramSound
  <2> DEFINE n    == Len(declared[c])
             more == Append(declared[c], f)
  <2>3. /\ n \in Nat /\ DOMAIN declared[c] = 1 .. n
        /\ more \in Seq(Fields) /\ DOMAIN more = 1 .. n + 1
        /\ more[n + 1] = f /\ \A i \in 1 .. n : more[i] = declared[c][i]
    BY <2>2, AppendProperties, LenProperties
  <2> HIDE DEF more, n
  <2>4. declared' = [declared EXCEPT ![c] = more]
    BY <2>1 DEF more
  <2>5. declared' \in [Class -> Seq(Fields)] /\ declared'[c] = more
        /\ \A d \in Class : d # c => declared'[d] = declared[d]
    BY <2>3, <2>4 DEF ProgramSound
  <2>6. \A i, j \in 1 .. n + 1 : more[i].name = more[j].name => i = j
    <3>1. \A i \in 1 .. n : more[i].name # more[n + 1].name
      BY <2>1, <2>3
    <3>2. \A i, j \in 1 .. n : more[i].name = more[j].name => i = j
      BY <2>3 DEF ProgramSound
    <3>3. \A i \in 1 .. n + 1 : i \in 1 .. n \/ i = n + 1
      BY <2>3
    <3>4. QED
      BY <3>1, <3>2, <3>3
  <2>7. ASSUME NEW d \in Class
        PROVE  \A i, j \in DOMAIN declared'[d] : declared'[d][i].name = declared'[d][j].name => i = j
    <3>1. CASE d = c
      BY <2>3, <2>5, <2>6, <3>1
    <3>2. CASE d # c
      BY <2>5, <3>2 DEF ProgramSound
    <3>3. QED
      BY <3>1, <3>2
  <2>8. shape' \in Shapes
    BY <1>1 DEF AddField, ProgramSound
  <2>9. QED
    BY <2>5, <2>7, <2>8 DEF ProgramSound
<1>2. CASE ~AddField
  <2>1. UNCHANGED program
    BY <1>2 DEF Next, vars, program, ReadOptions, Resolve, Stop, SharedInit, AddClass, LeaveList,
         LeaveShared, Return, InitPlain, ReadShared, ReadOwn, InitDefault, InitNew, CreateInstance,
         Construct, CallMain
  <2>2. QED
    BY <2>1 DEF program, ProgramSound
<1>3. QED
  BY <1>1, <1>2

LEMMA NamesFinite ==
  ASSUME NEW c, NEW shrd
  PROVE  NamesOf(c, shrd) \subseteq Field /\ IsFiniteSet(NamesOf(c, shrd))
<1>1. NamesOf(c, shrd) \subseteq Field
  BY DEF NamesOf
<1>2. QED
  BY <1>1, FS_Subset, StartupAssumption

LEMMA DeclaredIs ==
  ASSUME ProgramSound, NEW c \in Class, NEW shrd, NEW f \in NamesOf(c, shrd)
  PROVE  /\ Declared(c, f) \in 1 .. Len(declared[c])
         /\ declared[c][Declared(c, f)].name = f
         /\ declared[c][Declared(c, f)].shared = shrd
         /\ InitOf(c, f) \in Inits
<1> DEFINE d == declared[c]
<1>1. d \in Seq(Fields) /\ DOMAIN d = 1 .. Len(d)
  BY LenProperties DEF ProgramSound
<1>2. PICK i \in DOMAIN d : d[i].name = f /\ d[i].shared = shrd
  BY DEF NamesOf
<1>3. Declared(c, f) \in DOMAIN d /\ d[Declared(c, f)].name = f
  BY <1>2 DEF Declared
<1>4. Declared(c, f) = i
  BY <1>2, <1>3 DEF ProgramSound
<1>5. d[i] \in Fields
  BY <1>1, <1>2, ElementOfSeq
<1>6. QED
  BY <1>1, <1>2, <1>3, <1>4, <1>5 DEF InitOf, Fields

LEMMA ByNameIs ==
  ASSUME NEW S, S \subseteq Field
  PROVE  /\ ByName(S) \in Seq(S)
         /\ Len(ByName(S)) = Cardinality(S)
         /\ \A x \in S : \E i \in 1 .. Len(ByName(S)) : ByName(S)[i] = x
         /\ \A i, j \in 1 .. Len(ByName(S)) : ByName(S)[i] = ByName(S)[j] => i = j
<1> DEFINE rank == [f \in S |-> f]
<1>1. IsFiniteSet(S) /\ rank \in [S -> Nat] /\ \A x, y \in S : rank[x] = rank[y] => x = y
  BY FS_Subset, StartupAssumption
<1>2. ByName(S) = Sorted(S, rank)
  BY DEF ByName
<1> HIDE DEF rank
<1>3. QED
  BY <1>1, <1>2, SortedIs
-----------------------------------------------------------------------------
(* Only a program whose names are resolved is started.                     *)
Resolved ==
  \A c \in Class \ shape.templates, f \in Field :
    f \in NamesOf(c, TRUE) \cup NamesOf(c, FALSE) => Resolves(c, f)

Started ==
  /\ phase = "exec" \/ phase = "called" \/ calls # <<>> => Resolved
  /\ phase \in {"options", "parse"} => calls = <<>>

Initialising == SharedInit \/ AddClass \/ LeaveList \/ LeaveShared \/ InitPlain \/ ReadShared
                  \/ ReadOwn \/ InitDefault \/ InitNew \/ Construct

LEMMA InitialisingIs ==
  Initialising => /\ phase = "exec" /\ calls # <<>>
                  /\ phase' \in {"exec", "overflow", "crashed", "failed"}
                  /\ UNCHANGED <<status, program>>
<1> SUFFICES ASSUME Initialising
             PROVE  /\ phase = "exec" /\ calls # <<>>
                    /\ phase' \in {"exec", "overflow", "crashed", "failed"}
                    /\ UNCHANGED <<status, program>>
  OBVIOUS
<1>1. phase = "exec" /\ calls # <<>>
  BY DEF Initialising, SharedInit, AddClass, LeaveList, LeaveShared, InitPlain, ReadShared, ReadOwn,
     InitDefault, InitNew, Construct, In, InField
<1>2. UNCHANGED <<status, program>>
  BY DEF Initialising, SharedInit, AddClass, LeaveList, LeaveShared, Return, InitPlain, ReadShared, ReadOwn,
     InitDefault, InitNew, CreateInstance, Construct, program
<1>3. phase' \in {"exec", "overflow", "crashed", "failed"}
  BY <1>1 DEF Initialising, SharedInit, AddClass, LeaveList, LeaveShared, Return, InitPlain, ReadShared, ReadOwn,
     InitDefault, InitNew, CreateInstance, Construct, Push
<1>4. QED
  BY <1>1, <1>2, <1>3

LEMMA NextIs == Next <=> ReadOptions \/ AddField \/ Resolve \/ Initialising \/ CallMain
BY DEF Next, Initialising

LEMMA StartedInit == Init => Started
BY DEF Init, Started

LEMMA ResolvedStays == UNCHANGED program => Resolved' = Resolved
BY DEF program, Resolved, Resolves, NamesOf, InitOf, Declared

LEMMA StartedNext == Started /\ [Next]_vars => Started'
<1> SUFFICES ASSUME Started, [Next]_vars PROVE Started'
  OBVIOUS
<1>1. UNCHANGED program => Resolved' = Resolved
  BY ResolvedStays
<1>2. CASE ReadOptions
  BY <1>2 DEF ReadOptions, Stop, work, Started
<1>3. CASE AddField
  BY <1>3 DEF AddField, work, Started
<1>4. CASE Resolve
  <2>1. UNCHANGED program /\ phase = "parse" /\ calls = <<>>
    BY <1>4 DEF Resolve, Stop, Started
  <2>2. phase' = "exec" => Resolved
    BY <1>4 DEF Resolve, Stop, Resolved
  <2>3. phase' \in {"stopped", "exec", "failed"} /\ (phase' # "exec" => calls' = <<>>)
    BY <1>4, <2>1 DEF Resolve, Stop, work
  <2>4. QED
    BY <1>1, <2>1, <2>2, <2>3 DEF Started
<1>5. CASE Initialising
  BY <1>1, <1>5, InitialisingIs DEF Started
<1>6. CASE CallMain
  BY <1>1, <1>6 DEF CallMain, Stop, work, Started
<1>7. CASE UNCHANGED vars
  BY <1>1, <1>7 DEF vars, work, Started
<1>8. QED
  BY <1>2, <1>3, <1>4, <1>5, <1>6, <1>7, NextIs

(* The end is the end. *)
LEMMA EndedStays == phase \in Ended /\ [Next]_vars => UNCHANGED vars
<1> SUFFICES ASSUME phase \in Ended, Next PROVE FALSE
  OBVIOUS
<1>1. phase \notin {"options", "parse", "exec"}
  BY DEF Ended
<1>2. QED
  BY <1>1, NextIs, InitialisingIs DEF ReadOptions, AddField, Resolve, CallMain
-----------------------------------------------------------------------------
(* The tree of classes: every class has one place, below its container.    *)
Places == Class \cup {Root}

Parent(c) == CHOOSE d \in Places : c \in ToSet(shape.tree[d])

Falls(height) ==
  /\ height \in [Places -> 0 .. Cardinality(Class)]
  /\ \A c \in Places : \A i \in DOMAIN shape.tree[c] : height[shape.tree[c][i]] < height[c]

LEMMA TreeIs ==
  ASSUME shape \in Shapes
  PROVE  /\ shape.tree \in [Places -> Seq(Class)]
         /\ \A c, d \in Places : \A i \in DOMAIN shape.tree[c], j \in DOMAIN shape.tree[d] :
              shape.tree[c][i] = shape.tree[d][j] => c = d /\ i = j
         /\ \E height : Falls(height)
         /\ Cardinality(Class) \in Nat
<1>1. IsTree(shape.tree)
  BY StartupAssumption
<1>2. Cardinality(Class) \in Nat
  BY StartupAssumption, FS_CardinalityType
<1>3. QED
  BY <1>1, <1>2 DEF IsTree, Places, Falls

LEMMA ParentIs ==
  ASSUME shape \in Shapes, NEW c \in Class
  PROVE  /\ Parent(c) \in Places /\ c \in ToSet(shape.tree[Parent(c)])
         /\ \A height : Falls(height) => height[c] < height[Parent(c)]
<1>1. \E d \in Places : c \in ToSet(shape.tree[d])
  BY StartupAssumption DEF IsTree, Places
<1>2. Parent(c) \in Places /\ c \in ToSet(shape.tree[Parent(c)])
  BY <1>1 DEF Parent
<1>3. QED
  BY <1>2 DEF Falls, ToSet

LEMMA ParentOf ==
  ASSUME shape \in Shapes, NEW d \in Places, NEW i \in DOMAIN shape.tree[d]
  PROVE  shape.tree[d][i] \in Class /\ Parent(shape.tree[d][i]) = d
<1> DEFINE c == shape.tree[d][i]
<1>1. c \in Class
  BY TreeIs, ElementOfSeq, LenProperties
<1>2. Parent(c) \in Places /\ \E j \in DOMAIN shape.tree[Parent(c)] : shape.tree[Parent(c)][j] = c
  BY <1>1, ParentIs DEF ToSet
<1>3. QED
  BY <1>1, <1>2, TreeIs

(* There is a way to every class from the root, since a container is higher *)
(* in the tree.                                                            *)
WayStep(f, c) == IF c = Root THEN <<>> ELSE Append(f[Parent(c)], c)

LEMMA WayExists ==
  ASSUME shape \in Shapes
  PROVE  \E f \in [Places -> Seq(Class)] : \A c \in Places : f[c] = WayStep(f, c)
<1> DEFINE n == Cardinality(Class)
<1>1. n \in Nat
  BY TreeIs
<1>2. PICK height \in [Places -> 0 .. n] :
        \A c \in Class : Parent(c) \in Places /\ height[c] < height[Parent(c)]
  BY TreeIs, ParentIs DEF Falls
<1> DEFINE Upper(m) == {c \in Places : n - height[c] < m}
<1> HIDE DEF n
<1>3. ASSUME NEW m \in Nat, NEW c \in Upper(m + 1), c # Root PROVE Parent(c) \in Upper(m)
  <2>1. c \in Class /\ Parent(c) \in Places /\ height[c] < height[Parent(c)]
    BY <1>2, <1>3 DEF Places
  <2>2. height[c] \in 0 .. n /\ height[Parent(c)] \in 0 .. n /\ n - height[c] < m + 1
    BY <1>2, <1>3, <2>1
  <2>3. n - height[Parent(c)] < m
    BY <1>1, <2>1, <2>2
  <2>4. QED
    BY <2>1, <2>3
<1>4. \A c \in Places : c \in Upper(n + 1)
  <2>1. \A c \in Places : height[c] \in 0 .. n
    BY <1>2
  <2>2. QED
    BY <1>1, <2>1
<1>5. Upper(0) = {}
  <2>1. \A c \in Places : height[c] \in 0 .. n
    BY <1>2
  <2>2. QED
    BY <1>1, <2>1
<1> HIDE DEF Upper
<1>6. ASSUME NEW f \in [Places -> Seq(Class)], NEW c \in Places PROVE WayStep(f, c) \in Seq(Class)
  <2>1. CASE c = Root
    BY <2>1 DEF WayStep
  <2>2. CASE c # Root
    <3>1. c \in Class /\ f[Parent(c)] \in Seq(Class)
      BY <1>2, <2>2 DEF Places
    <3>2. QED
      BY <2>2, <3>1, AppendProperties DEF WayStep
  <2>3. QED
    BY <2>1, <2>2
(* A function that follows the definition down to any depth. *)
<1> DEFINE Good == {m \in Nat : \E f \in [Places -> Seq(Class)] : \A c \in Upper(m) : f[c] = WayStep(f, c)}
<1>7. 0 \in Good
  <2>1. [c \in Places |-> <<>>] \in [Places -> Seq(Class)]
    OBVIOUS
  <2>2. QED
    BY <1>5, <2>1
<1>8. ASSUME NEW m \in Nat, m \in Good PROVE m + 1 \in Good
  <2>1. PICK f \in [Places -> Seq(Class)] : \A c \in Upper(m) : f[c] = WayStep(f, c)
    BY <1>8
  <2> DEFINE g == [c \in Places |-> WayStep(f, c)]
  <2>2. g \in [Places -> Seq(Class)]
    BY <1>6
  <2>3. ASSUME NEW c \in Upper(m + 1) PROVE g[c] = WayStep(g, c)
    <3>1. c \in Places
      BY DEF Upper
    <3>2. CASE c = Root
      BY <3>1, <3>2 DEF WayStep
    <3>3. CASE c # Root
      <4>1. Parent(c) \in Upper(m) /\ Parent(c) \in Places
        BY <1>3, <3>3 DEF Upper
      <4>2. g[Parent(c)] = f[Parent(c)]
        BY <2>1, <4>1
      <4>3. QED
        BY <3>1, <4>2 DEF WayStep
    <3>4. QED
      BY <3>2, <3>3
  <2> HIDE DEF g
  <2>4. \E h \in [Places -> Seq(Class)] : \A c \in Upper(m + 1) : h[c] = WayStep(h, c)
    BY <2>2, <2>3
  <2>5. QED
    BY <2>4
<1>9. \A m \in Nat : m \in Good
  <2> HIDE DEF Good
  <2>1. QED
    BY <1>7, <1>8, SetInduction
<1>10. QED
  <2>1. n + 1 \in Good
    BY <1>1, <1>9
  <2>2. QED
    BY <1>4, <2>1

(* Induction over the tree, from the root and from the leaves.             *)
LEMMA FromTheRoot ==
  ASSUME shape \in Shapes, NEW Good, Root \in Good, \A c \in Class : Parent(c) \in Good => c \in Good
  PROVE  \A c \in Places : c \in Good
<1> DEFINE n       == Cardinality(Class)
           missing == {c \in Places : c \notin Good}
<1>1. PICK height : Falls(height)
  BY TreeIs
<1>2. n \in Nat
  BY TreeIs
<1>3. height \in [Places -> 0 .. n]
  BY <1>1 DEF Falls
<1> DEFINE depths == {n - height[c] : c \in missing}
<1> HIDE DEF n
<1> SUFFICES ASSUME missing # {} PROVE FALSE
  OBVIOUS
<1>4. depths \subseteq Nat /\ depths # {}
  BY <1>2, <1>3
<1>5. PICK m \in depths : \A k \in depths : m <= k
  BY <1>4, LeastElement
<1>6. PICK c \in missing : m = n - height[c]
  BY <1>5
<1>7. c \in Class
  BY <1>6 DEF Places
<1>8. Parent(c) \in Places /\ height[c] < height[Parent(c)]
  BY <1>1, <1>7, ParentIs
<1>9. Parent(c) \in missing
  BY <1>6, <1>7, <1>8
<1>10. m <= n - height[Parent(c)]
  BY <1>5, <1>9
<1>11. height[c] \in 0 .. n /\ height[Parent(c)] \in 0 .. n
  BY <1>3, <1>6, <1>8
<1>12. QED
  BY <1>2, <1>6, <1>8, <1>10, <1>11

LEMMA FromTheLeaves ==
  ASSUME shape \in Shapes, NEW Good,
         \A c \in Places : (\A i \in DOMAIN shape.tree[c] : shape.tree[c][i] \in Good) => c \in Good
  PROVE  \A c \in Places : c \in Good
<1> DEFINE missing == {c \in Places : c \notin Good}
<1>1. PICK height : Falls(height)
  BY TreeIs
<1> DEFINE heights == {height[c] : c \in missing}
<1> SUFFICES ASSUME missing # {} PROVE FALSE
  OBVIOUS
<1>2. heights \subseteq Nat /\ heights # {}
  BY <1>1 DEF Falls
<1>3. PICK m \in heights : \A k \in heights : m <= k
  BY <1>2, LeastElement
<1>4. PICK c \in missing : m = height[c]
  BY <1>3
<1>5. ASSUME NEW i \in DOMAIN shape.tree[c] PROVE shape.tree[c][i] \in Good
  <2> DEFINE d == shape.tree[c][i]
  <2>1. d \in Places /\ height[d] < height[c]
    BY <1>1, <1>4, <1>5, ParentOf DEF Falls, Places
  <2>2. d \in missing => height[c] <= height[d]
    BY <1>3, <1>4
  <2>3. height[d] \in Nat /\ height[c] \in Nat
    BY <1>1, <1>4, <2>1 DEF Falls
  <2>4. QED
    BY <2>1, <2>2, <2>3
<1>6. QED
  BY <1>4, <1>5

LEMMA WayIs ==
  ASSUME shape \in Shapes, NEW f, \A c \in Places : f[c] = WayStep(f, c)
  PROVE  \A c \in Places : f[c] \in Seq(Class)
<1> DEFINE Good == {c \in Places : f[c] \in Seq(Class)}
<1>1. Root \in Good
  <2>1. Root \in Places /\ f[Root] = <<>> /\ <<>> \in Seq(Class)
    BY DEF WayStep, Places
  <2>2. QED
    BY <2>1
<1>2. ASSUME NEW c \in Class, Parent(c) \in Good PROVE c \in Good
  <2>1. f[c] = Append(f[Parent(c)], c)
    BY StartupAssumption DEF WayStep, Places
  <2>2. QED
    BY <1>2, <2>1, AppendProperties DEF Places
<1> HIDE DEF Good
<1>3. \A c \in Places : c \in Good
  BY <1>1, <1>2, FromTheRoot
<1>4. QED
  BY <1>3 DEF Good
-----------------------------------------------------------------------------
(* The shared fields of the classes below a class come before its own.     *)
Pairs == Class \X Field

OwnPairs(c) ==
  IF c \in shape.templates \cup {Root} THEN <<>>
  ELSE LET names == ByName(NamesOf(c, TRUE)) IN [i \in DOMAIN names |-> <<c, names[i]>>]

InnerPairs(f, list) == FlattenSeq([i \in DOMAIN list |-> f[list[i]]])

PairsStep(f, c) == InnerPairs(f, shape.tree[c]) \o OwnPairs(c)

LEMMA OwnType ==
  ASSUME NEW c \in Places
  PROVE  OwnPairs(c) \in Seq(Pairs)
<1>1. CASE c \in shape.templates \cup {Root}
  BY <1>1 DEF OwnPairs
<1>2. CASE c \notin shape.templates \cup {Root}
  <2> DEFINE names == ByName(NamesOf(c, TRUE))
             own   == [i \in DOMAIN names |-> <<c, names[i]>>]
  <2>1. c \in Class
    BY <1>2 DEF Places
  <2>2. NamesOf(c, TRUE) \subseteq Field
    BY DEF NamesOf
  <2>3. names \in Seq(Field)
    BY <2>2, ByNameIs, SeqMonotonic
  <2> HIDE DEF names
  <2>4. DOMAIN names = 1 .. Len(names) /\ Len(names) \in Nat /\ \A i \in DOMAIN names : names[i] \in Field
    BY <2>3, LenProperties, ElementOfSeq
  <2>5. own \in [1 .. Len(names) -> Pairs]
    BY <2>1, <2>4 DEF Pairs
  <2>6. own \in Seq(Pairs)
    BY <2>4, <2>5, SeqDef
  <2>7. QED
    BY <1>2, <2>6 DEF OwnPairs, names
<1>3. QED
  BY <1>1, <1>2

LEMMA InnerType ==
  ASSUME NEW S, NEW f, NEW list \in Seq(S), \A i \in DOMAIN list : f[list[i]] \in Seq(Pairs)
  PROVE  /\ [i \in DOMAIN list |-> f[list[i]]] \in Seq(Seq(Pairs))
         /\ InnerPairs(f, list) \in Seq(Pairs)
<1> DEFINE ss == [i \in DOMAIN list |-> f[list[i]]]
<1>1. Len(list) \in Nat /\ DOMAIN list = 1 .. Len(list)
  BY LenProperties
<1>2. ss \in [1 .. Len(list) -> Seq(Pairs)]
  BY <1>1
<1>3. ss \in Seq(Seq(Pairs))
  BY <1>1, <1>2, SeqDef
<1> HIDE DEF ss
<1>4. FlattenSeq(ss) \in Seq(Pairs)
  BY <1>3, FlattenType
<1>5. QED
  BY <1>3, <1>4 DEF ss, InnerPairs

LEMMA InnerEmpty ==
  ASSUME NEW f
  PROVE  InnerPairs(f, <<>>) = <<>>
<1>1. [i \in DOMAIN <<>> |-> f[<<>>[i]]] = <<>>
  OBVIOUS
<1>2. FlattenSeq(<<>>) = <<>>
  BY DEF FlattenSeq
<1>3. QED
  BY <1>1, <1>2 DEF InnerPairs

LEMMA InnerCons ==
  ASSUME NEW S, NEW f, NEW list \in Seq(S), list # <<>>, \A i \in DOMAIN list : f[list[i]] \in Seq(Pairs)
  PROVE  /\ InnerPairs(f, Tail(list)) \in Seq(Pairs)
         /\ InnerPairs(f, list) = f[Head(list)] \o InnerPairs(f, Tail(list))
<1> DEFINE rest == Tail(list)
           ss   == [i \in DOMAIN rest |-> f[rest[i]]]
           all  == [i \in DOMAIN list |-> f[list[i]]]
           one  == f[Head(list)]
<1>1. /\ Head(list) = list[1] /\ rest \in Seq(S)
      /\ Len(list) \in Nat \ {0} /\ Len(rest) = Len(list) - 1
      /\ \A k \in 1 .. Len(rest) : rest[k] = list[k + 1]
  BY HeadAndTail
<1>2. DOMAIN list = 1 .. Len(list) /\ DOMAIN rest = 1 .. Len(rest)
  BY <1>1, LenProperties
<1> HIDE DEF rest
<1>3. \A k \in DOMAIN rest : f[rest[k]] \in Seq(Pairs)
  <2>1. \A k \in 1 .. Len(rest) : k + 1 \in DOMAIN list
    BY <1>1, <1>2
  <2>2. QED
    BY <1>1, <1>2, <2>1
<1>4. ss \in Seq(Seq(Pairs)) /\ InnerPairs(f, rest) \in Seq(Pairs)
  BY <1>1, <1>3, InnerType
<1>5. all \in Seq(Seq(Pairs))
  BY InnerType
<1>6. one \in Seq(Pairs)
  BY <1>1, <1>2
<1>7. all = <<one>> \o ss
  <2>1. Len(ss) = Len(rest) /\ Len(all) = Len(list)
    BY <1>1, <1>2
  <2>2. \A k \in 1 .. Len(rest) : ss[k] = all[k + 1]
    BY <1>1, <1>2
  <2>3. all[1] = one
    BY <1>1, <1>2
  <2> HIDE DEF ss, all, one
  <2>4. /\ <<one>> \o ss \in Seq(Seq(Pairs)) /\ Len(<<one>> \o ss) = Len(rest) + 1
        /\ (<<one>> \o ss)[1] = one /\ \A k \in 1 .. Len(rest) : (<<one>> \o ss)[k + 1] = ss[k]
    BY <1>1, <1>4, <1>6, <2>1
  <2>5. ASSUME NEW j \in 1 .. Len(list) PROVE all[j] = (<<one>> \o ss)[j]
    <3>1. CASE j = 1
      BY <2>3, <2>4, <3>1
    <3>2. CASE j # 1
      <4>1. PICK k \in 1 .. Len(rest) : j = k + 1
        BY <1>1, <3>2
      <4>2. QED
        BY <2>2, <2>4, <4>1
    <3>3. QED
      BY <3>1, <3>2
  <2>6. Len(<<one>> \o ss) = Len(all)
    BY <1>1, <2>1, <2>4
  <2>7. QED
    BY <1>5, <2>1, <2>4, <2>5, <2>6, SeqEqual
<1> HIDE DEF ss, all, one
<1>8. FlattenSeq(all) = one \o FlattenSeq(ss)
  BY <1>4, <1>6, <1>7, FlattenCons
<1>9. QED
  BY <1>4, <1>8 DEF InnerPairs, ss, all, one, rest

LEMMA PairsStepType ==
  ASSUME shape \in Shapes, NEW f, NEW c \in Places,
         \A i \in DOMAIN shape.tree[c] : f[shape.tree[c][i]] \in Seq(Pairs)
  PROVE  PairsStep(f, c) \in Seq(Pairs)
<1>1. shape.tree[c] \in Seq(Class)
  BY TreeIs
<1>2. InnerPairs(f, shape.tree[c]) \in Seq(Pairs)
  BY <1>1, InnerType
<1>3. OwnPairs(c) \in Seq(Pairs)
  BY OwnType
<1>4. QED
  BY <1>2, <1>3, ConcatProperties DEF PairsStep

(* The recursion of SharedOfTree ends, since an inner class is lower in the *)
(* tree.                                                                    *)
LEMMA PairsExist ==
  ASSUME shape \in Shapes
  PROVE  \E f \in [Places -> Seq(Pairs)] : \A c \in Places : f[c] = PairsStep(f, c)
<1>1. PICK height : Falls(height)
  BY TreeIs
<1> DEFINE n        == Cardinality(Class)
           Lower(m) == {c \in Places : height[c] < m}
<1>2. n \in Nat /\ height \in [Places -> 0 .. n]
  BY <1>1, TreeIs DEF Falls
<1> HIDE DEF n
<1>3. ASSUME NEW m \in Nat, NEW c \in Lower(m + 1), NEW i \in DOMAIN shape.tree[c]
      PROVE  shape.tree[c][i] \in Lower(m) /\ shape.tree[c][i] \in Places
  <2> DEFINE d == shape.tree[c][i]
  <2>1. d \in Places /\ height[d] < height[c]
    BY <1>1, <1>3, ParentOf DEF Falls, Places
  <2>2. height[d] \in 0 .. n /\ height[c] \in 0 .. n /\ height[c] < m + 1
    BY <1>2, <1>3, <2>1
  <2>3. height[d] < m
    BY <1>2, <2>1, <2>2
  <2>4. QED
    BY <2>1, <2>3
<1>4. Lower(0) = {} /\ \A c \in Places : c \in Lower(n + 1)
  <2>1. \A c \in Places : height[c] \in 0 .. n
    BY <1>2
  <2>2. QED
    BY <1>2, <2>1
<1>5. \A m : Lower(m) \subseteq Places
  OBVIOUS
<1> HIDE DEF Lower
<1>6. ASSUME NEW f \in [Places -> Seq(Pairs)], NEW c \in Places PROVE PairsStep(f, c) \in Seq(Pairs)
  <2>1. \A i \in DOMAIN shape.tree[c] : shape.tree[c][i] \in Places
    BY <1>6, ParentOf DEF Places
  <2>2. QED
    BY <2>1, PairsStepType
<1> DEFINE Good == {m \in Nat : \E f \in [Places -> Seq(Pairs)] : \A c \in Lower(m) : f[c] = PairsStep(f, c)}
<1>7. 0 \in Good
  <2>1. [c \in Places |-> <<>>] \in [Places -> Seq(Pairs)]
    OBVIOUS
  <2>2. QED
    BY <1>4, <2>1
<1>8. ASSUME NEW m \in Nat, m \in Good PROVE m + 1 \in Good
  <2>1. PICK f \in [Places -> Seq(Pairs)] : \A c \in Lower(m) : f[c] = PairsStep(f, c)
    BY <1>8
  <2> DEFINE g == [c \in Places |-> PairsStep(f, c)]
  <2>2. g \in [Places -> Seq(Pairs)]
    BY <1>6
  <2>3. ASSUME NEW c \in Lower(m + 1) PROVE g[c] = PairsStep(g, c)
    <3> DEFINE list == shape.tree[c]
    <3>1. c \in Places /\ g[c] = PairsStep(f, c)
      BY <1>5
    <3>2. \A i \in DOMAIN list : g[list[i]] = f[list[i]]
      BY <1>3, <2>1
    <3> HIDE DEF g, list
    <3>3. [i \in DOMAIN list |-> g[list[i]]] = [i \in DOMAIN list |-> f[list[i]]]
      BY <3>2
    <3>4. InnerPairs(g, list) = InnerPairs(f, list)
      BY <3>3 DEF InnerPairs
    <3>5. QED
      BY <3>1, <3>4 DEF PairsStep, list
  <2> HIDE DEF g
  <2>4. QED
    BY <2>2, <2>3
<1>9. \A m \in Nat : m \in Good
  <2> HIDE DEF Good
  <2>1. QED
    BY <1>7, <1>8, SetInduction
<1>10. n + 1 \in Good
  BY <1>2, <1>9
<1>11. QED
  BY <1>4, <1>10

LEMMA SharedOfTreeIs ==
  ASSUME shape \in Shapes
  PROVE  \A c \in Places : SharedOfTree[c] = PairsStep(SharedOfTree, c) /\ SharedOfTree[c] \in Seq(Pairs)
<1>1. PICK f \in [Places -> Seq(Pairs)] : \A c \in Places : f[c] = PairsStep(f, c)
  BY PairsExist
<1>2. f = [c \in Class \cup {Root} |->
             FlattenSeq([i \in DOMAIN shape.tree[c] |-> f[shape.tree[c][i]]])
               \o (IF c \in shape.templates \cup {Root} THEN <<>>
                   ELSE LET names == ByName(NamesOf(c, TRUE)) IN [i \in DOMAIN names |-> <<c, names[i]>>])]
  BY <1>1 DEF PairsStep, InnerPairs, OwnPairs, Places
<1>3. SharedOfTree = [c \in Class \cup {Root} |->
             FlattenSeq([i \in DOMAIN shape.tree[c] |-> SharedOfTree[shape.tree[c][i]]])
               \o (IF c \in shape.templates \cup {Root} THEN <<>>
                   ELSE LET names == ByName(NamesOf(c, TRUE)) IN [i \in DOMAIN names |-> <<c, names[i]>>])]
  BY <1>2 DEF SharedOfTree
<1>4. \A c \in Places : SharedOfTree[c] = PairsStep(SharedOfTree, c)
  BY <1>3 DEF PairsStep, InnerPairs, OwnPairs, Places
<1> DEFINE Good == {c \in Places : SharedOfTree[c] \in Seq(Pairs)}
<1>5. ASSUME NEW c \in Places, \A i \in DOMAIN shape.tree[c] : shape.tree[c][i] \in Good PROVE c \in Good
  BY <1>4, <1>5, PairsStepType
<1>6. \A c \in Places : c \in Good
  <2> HIDE DEF Good
  <2>1. QED
    BY <1>5, FromTheLeaves
<1>7. QED
  BY <1>4, <1>6
-----------------------------------------------------------------------------
(* No field comes twice in the order of the initialisation.                *)
Distinct(s) == \A i, j \in DOMAIN s : s[i] = s[j] => i = j

Apart(s, t) == \A x \in ToSet(s) : x \notin ToSet(t)

LEMMA ConcatDistinct ==
  ASSUME NEW S, NEW s \in Seq(S), NEW t \in Seq(S)
  PROVE  /\ \A x : x \in ToSet(s \o t) <=> x \in ToSet(s) \/ x \in ToSet(t)
         /\ Distinct(s) /\ Distinct(t) /\ Apart(s, t) => Distinct(s \o t)
<1> DEFINE m == Len(s)
           n == Len(t)
           u == s \o t
<1>1. /\ m \in Nat /\ n \in Nat /\ DOMAIN s = 1 .. m /\ DOMAIN t = 1 .. n /\ DOMAIN u = 1 .. m + n
      /\ \A i \in 1 .. m : u[i] = s[i]
      /\ \A i \in 1 .. n : u[m + i] = t[i]
  <2>1. m \in Nat /\ n \in Nat /\ DOMAIN s = 1 .. m /\ DOMAIN t = 1 .. n
    BY LenProperties
  <2>2. u \in Seq(S) /\ Len(u) = m + n
    BY ConcatProperties
  <2>3. DOMAIN u = 1 .. m + n
    BY <2>2, LenProperties
  <2>4. \A i \in 1 .. m : u[i] = s[i]
    BY <2>1
  <2>5. \A i \in 1 .. n : u[m + i] = t[i]
    BY <2>1
  <2>6. QED
    BY <2>1, <2>3, <2>4, <2>5
<1> HIDE DEF u, m, n
<1>2. ASSUME NEW i \in DOMAIN u PROVE i \in DOMAIN s \/ \E j \in DOMAIN t : i = m + j
  <2>1. i \in 1 .. m \/ i - m \in 1 .. n
    BY <1>1, <1>2
  <2>2. QED
    BY <1>1, <2>1
<1>3. \A i \in DOMAIN s : i \in DOMAIN u /\ u[i] = s[i]
  BY <1>1
<1>4. \A j \in DOMAIN t : m + j \in DOMAIN u /\ u[m + j] = t[j]
  BY <1>1
<1>5. \A x : x \in ToSet(u) <=> x \in ToSet(s) \/ x \in ToSet(t)
  BY <1>2, <1>3, <1>4 DEF ToSet
<1>6. ASSUME Distinct(s), Distinct(t), Apart(s, t), NEW i \in DOMAIN u, NEW j \in DOMAIN u, u[i] = u[j]
      PROVE  i = j
  <2>1. \A k \in DOMAIN s : \A l \in DOMAIN t : s[k] # t[l]
    BY <1>6 DEF Apart, ToSet
  <2>2. CASE i \in DOMAIN s
    <3>1. j \in DOMAIN s
      BY <1>2, <1>3, <1>4, <1>6, <2>1, <2>2
    <3>2. QED
      BY <1>3, <1>6, <2>2, <3>1 DEF Distinct
  <2>3. CASE i \notin DOMAIN s
    <3>1. PICK k \in DOMAIN t : i = m + k
      BY <1>2, <2>3
    <3>2. PICK l \in DOMAIN t : j = m + l
      BY <1>2, <1>3, <1>4, <1>6, <2>1, <3>1
    <3>3. k = l
      BY <1>4, <1>6, <3>1, <3>2 DEF Distinct
    <3>4. QED
      BY <3>1, <3>2, <3>3
  <2>4. QED
    BY <2>2, <2>3
<1>7. QED
  BY <1>5, <1>6 DEF Distinct, u

LEMMA OwnIs ==
  ASSUME NEW c \in Places
  PROVE  /\ Distinct(OwnPairs(c))
         /\ \A x \in ToSet(OwnPairs(c)) : x[1] = c /\ c # Root
<1>1. CASE c \in shape.templates \cup {Root}
  <2>1. OwnPairs(c) = <<>> /\ DOMAIN <<>> = {}
    BY <1>1 DEF OwnPairs
  <2>2. QED
    BY <2>1 DEF Distinct, ToSet
<1>2. CASE c \notin shape.templates \cup {Root}
  <2> DEFINE names == ByName(NamesOf(c, TRUE))
             own   == [i \in DOMAIN names |-> <<c, names[i]>>]
  <2>1. NamesOf(c, TRUE) \subseteq Field
    BY DEF NamesOf
  <2>2. names \in Seq(NamesOf(c, TRUE)) /\ \A i, j \in 1 .. Len(names) : names[i] = names[j] => i = j
    BY <2>1, ByNameIs
  <2> HIDE DEF names
  <2>3. DOMAIN names = 1 .. Len(names)
    BY <2>2, LenProperties
  <2>4. Distinct(own)
    BY <2>2, <2>3 DEF Distinct
  <2>5. \A x \in ToSet(own) : x[1] = c
    BY DEF ToSet
  <2>6. OwnPairs(c) = own
    BY <1>2 DEF OwnPairs, names
  <2>7. QED
    BY <1>2, <2>4, <2>5, <2>6
<1>3. QED
  BY <1>1, <1>2

(* The parts of a list are apart and each is distinct: so is their whole. *)
Parted(g, list) ==
  /\ \A i \in DOMAIN list : g[list[i]] \in Seq(Pairs) /\ Distinct(g[list[i]])
  /\ \A i, j \in DOMAIN list : i # j => Apart(g[list[i]], g[list[j]])

Joined(g, list) ==
  /\ InnerPairs(g, list) \in Seq(Pairs)
  /\ Distinct(InnerPairs(g, list))
  /\ \A x \in ToSet(InnerPairs(g, list)) : \E i \in DOMAIN list : x \in ToSet(g[list[i]])

LEMMA PartedStep ==
  ASSUME NEW g, NEW list \in Seq(Class), list # <<>>, Parted(g, list),
         Parted(g, Tail(list)) => Joined(g, Tail(list))
  PROVE  Joined(g, list)
<1> DEFINE rest == Tail(list)
           one  == g[Head(list)]
           all  == InnerPairs(g, list)
           more == InnerPairs(g, rest)
<1>1. /\ Head(list) = list[1] /\ rest \in Seq(Class)
      /\ Len(list) \in Nat \ {0} /\ Len(rest) = Len(list) - 1
      /\ \A k \in 1 .. Len(rest) : rest[k] = list[k + 1]
  BY HeadAndTail
<1>2. DOMAIN list = 1 .. Len(list) /\ DOMAIN rest = 1 .. Len(rest)
  BY <1>1, LenProperties
<1>3. more \in Seq(Pairs) /\ all = one \o more
  BY InnerCons DEF Parted
<1> HIDE DEF rest, all, more
<1>4. \A k \in DOMAIN rest : k + 1 \in DOMAIN list /\ rest[k] = list[k + 1] /\ k + 1 # 1 /\ k \in Nat
  BY <1>1, <1>2
<1>5. 1 \in DOMAIN list
  BY <1>1, <1>2
<1>6. Parted(g, rest)
  <2>1. \A i, j \in DOMAIN rest : i # j => i + 1 # j + 1
    BY <1>4
  <2>2. QED
    BY <1>4, <2>1 DEF Parted
<1>7. Joined(g, rest)
  BY <1>6 DEF rest
<1>8. one \in Seq(Pairs) /\ Distinct(one)
  BY <1>1, <1>5 DEF Parted
<1>9. Distinct(more) /\ \A x \in ToSet(more) : \E k \in DOMAIN rest : x \in ToSet(g[rest[k]])
  BY <1>7 DEF Joined, more
<1>10. Apart(one, more)
  <2>1. \A k \in DOMAIN rest : Apart(one, g[rest[k]])
    BY <1>1, <1>4, <1>5 DEF Parted
  <2>2. QED
    BY <1>9, <2>1 DEF Apart
<1> HIDE DEF one
<1>11. /\ \A x : x \in ToSet(all) <=> x \in ToSet(one) \/ x \in ToSet(more)
       /\ Distinct(all)
  BY <1>3, <1>8, <1>9, <1>10, ConcatDistinct
<1>12. all \in Seq(Pairs)
  BY <1>3, <1>8, ConcatProperties
<1>13. ASSUME NEW x \in ToSet(all) PROVE \E i \in DOMAIN list : x \in ToSet(g[list[i]])
  <2>1. CASE x \in ToSet(one)
    BY <1>1, <1>5, <2>1 DEF one
  <2>2. CASE x \in ToSet(more)
    <3>1. PICK k \in DOMAIN rest : x \in ToSet(g[rest[k]])
      BY <1>9, <2>2
    <3>2. QED
      BY <1>1, <1>4, <3>1
  <2>3. QED
    BY <1>11, <1>13, <2>1, <2>2
<1>14. QED
  BY <1>11, <1>12, <1>13 DEF Joined, all

LEMMA PartedWhole ==
  ASSUME NEW g, NEW list \in Seq(Class), Parted(g, list)
  PROVE  Joined(g, list)
<1> DEFINE Good == {n \in Nat : \A l \in Seq(Class) : Len(l) = n /\ Parted(g, l) => Joined(g, l)}
<1>1. 0 \in Good
  <2>1. ASSUME NEW l \in Seq(Class), Len(l) = 0 PROVE Joined(g, l)
    <3>1. l = <<>>
      BY <2>1, EmptySeq
    <3>2. InnerPairs(g, l) = <<>> /\ DOMAIN <<>> = {} /\ <<>> \in Seq(Pairs)
      BY <3>1, InnerEmpty
    <3>3. QED
      BY <3>2 DEF Joined, Distinct, ToSet
  <2>2. QED
    BY <2>1
<1>2. ASSUME NEW n \in Nat, n \in Good PROVE n + 1 \in Good
  <2>1. ASSUME NEW l \in Seq(Class), Len(l) = n + 1, Parted(g, l) PROVE Joined(g, l)
    <3>1. l # <<>>
      BY <2>1, EmptySeq
    <3>2. Tail(l) \in Seq(Class) /\ Len(Tail(l)) = n
      BY <2>1, <3>1, HeadAndTail
    <3>3. Parted(g, Tail(l)) => Joined(g, Tail(l))
      BY <1>2, <3>2
    <3>4. QED
      BY <2>1, <3>1, <3>3, PartedStep
  <2>2. QED
    BY <2>1
<1>3. \A n \in Nat : n \in Good
  <2> HIDE DEF Good
  <2>1. QED
    BY <1>1, <1>2, SetInduction
<1>4. Len(list) \in Good
  BY <1>3, LenProperties
<1>5. QED
  BY <1>4

Extends(p, q) == Len(q) <= Len(p) /\ \A k \in 1 .. Len(q) : p[k] = q[k]

(* Below a class are only classes on whose way it is.                      *)
Tidy(f, c) ==
  /\ Distinct(SharedOfTree[c])
  /\ \A x \in ToSet(SharedOfTree[c]) : x[1] \in Class /\ Extends(f[x[1]], f[c])

LEMMA TidyStep ==
  ASSUME shape \in Shapes, NEW f \in [Places -> Seq(Class)], \A c \in Places : f[c] = WayStep(f, c),
         NEW c \in Places, \A i \in DOMAIN shape.tree[c] : Tidy(f, shape.tree[c][i])
  PROVE  Tidy(f, c)
<1> DEFINE g    == SharedOfTree
           list == shape.tree[c]
           n    == Len(f[c])
           own  == OwnPairs(c)
           in   == InnerPairs(g, list)
<1>1. list \in Seq(Class)
  BY TreeIs
<1>2. ASSUME NEW i \in DOMAIN list
      PROVE  /\ list[i] \in Class /\ list[i] \in Places /\ Parent(list[i]) = c
             /\ g[list[i]] \in Seq(Pairs)
             /\ Len(f[list[i]]) = n + 1 /\ f[list[i]][n + 1] = list[i]
             /\ \A k \in 1 .. n : f[list[i]][k] = f[c][k]
  <2>1. list[i] \in Class /\ list[i] \in Places /\ Parent(list[i]) = c /\ list[i] # Root
    BY <1>2, ParentOf, StartupAssumption DEF Places
  <2>2. g[list[i]] \in Seq(Pairs)
    BY <2>1, SharedOfTreeIs
  <2>3. f[list[i]] = Append(f[c], list[i])
    BY <2>1 DEF WayStep
  <2>4. f[c] \in Seq(Class)
    OBVIOUS
  <2>5. Len(Append(f[c], list[i])) = n + 1 /\ Append(f[c], list[i])[n + 1] = list[i]
        /\ \A k \in 1 .. n : Append(f[c], list[i])[k] = f[c][k]
    BY <2>1, <2>4, AppendProperties
  <2>6. QED
    BY <2>1, <2>2, <2>3, <2>5
<1>3. n \in Nat
  BY LenProperties
<1>4. g[c] = in \o own /\ own \in Seq(Pairs)
  BY SharedOfTreeIs, OwnType DEF PairsStep
<1> HIDE DEF g, n
<1>5. ASSUME NEW i \in DOMAIN list, NEW x \in ToSet(g[list[i]])
      PROVE  /\ x[1] \in Class /\ Extends(f[x[1]], f[c])
             /\ n + 1 <= Len(f[x[1]]) /\ f[x[1]][n + 1] = list[i]
  <2>1. x[1] \in Class /\ Extends(f[x[1]], f[list[i]])
    BY <1>5 DEF Tidy, g
  <2>2. f[x[1]] \in Seq(Class) /\ Len(f[x[1]]) \in Nat
    BY <2>1, LenProperties DEF Places
  <2>3. n + 1 <= Len(f[x[1]]) /\ \A k \in 1 .. n + 1 : f[x[1]][k] = f[list[i]][k]
    BY <1>2, <2>1 DEF Extends
  <2>4. \A k \in 1 .. n : f[x[1]][k] = f[c][k]
    BY <1>2, <1>3, <2>3
  <2>5. n <= Len(f[x[1]]) /\ n + 1 \in 1 .. n + 1
    BY <1>3, <2>2, <2>3
  <2>6. QED
    BY <1>2, <2>1, <2>3, <2>4, <2>5 DEF Extends, n
<1>6. Parted(g, list)
  <2>1. \A i \in DOMAIN list : g[list[i]] \in Seq(Pairs) /\ Distinct(g[list[i]])
    BY <1>2 DEF Tidy, g
  <2>2. ASSUME NEW i \in DOMAIN list, NEW j \in DOMAIN list, i # j PROVE Apart(g[list[i]], g[list[j]])
    <3>1. list[i] # list[j]
      BY <2>2, TreeIs
    <3>2. QED
      BY <1>5, <3>1 DEF Apart
  <2>3. QED
    BY <2>1, <2>2 DEF Parted
<1>7. in \in Seq(Pairs) /\ Distinct(in) /\ \A x \in ToSet(in) : \E i \in DOMAIN list : x \in ToSet(g[list[i]])
  BY <1>1, <1>6, PartedWhole DEF Joined
<1>8. Distinct(own) /\ \A x \in ToSet(own) : x[1] = c /\ c \in Class
  BY OwnIs DEF Places
<1> HIDE DEF in, own
<1>9. \A x \in ToSet(in) : x[1] \in Class /\ Extends(f[x[1]], f[c]) /\ n + 1 <= Len(f[x[1]])
  BY <1>5, <1>7
<1>10. Apart(in, own)
  <2>1. ~(n + 1 <= n)
    BY <1>3
  <2>2. QED
    BY <1>8, <1>9, <2>1 DEF Apart, n
<1>11. /\ \A x : x \in ToSet(g[c]) <=> x \in ToSet(in) \/ x \in ToSet(own)
       /\ Distinct(g[c])
  BY <1>4, <1>7, <1>8, <1>10, ConcatDistinct
<1>12. Extends(f[c], f[c])
  BY <1>3 DEF Extends, n
<1>13. QED
  BY <1>8, <1>9, <1>11, <1>12 DEF Tidy, g

LEMMA OrderIs ==
  ASSUME shape \in Shapes
  PROVE  Order \in Seq(Pairs) /\ Distinct(Order)
<1>1. PICK f \in [Places -> Seq(Class)] : \A c \in Places : f[c] = WayStep(f, c)
  BY WayExists
<1> DEFINE Good == {c \in Places : Tidy(f, c)}
<1>2. ASSUME NEW c \in Places, \A i \in DOMAIN shape.tree[c] : shape.tree[c][i] \in Good PROVE c \in Good
  BY <1>1, <1>2, TidyStep
<1>3. \A c \in Places : c \in Good
  <2> HIDE DEF Good
  <2>1. QED
    BY <1>2, FromTheLeaves
<1>4. Root \in Places
  BY DEF Places
<1>5. QED
  BY <1>3, <1>4, SharedOfTreeIs DEF Order, Tidy
-----------------------------------------------------------------------------
(* A call has fields of a class left; the next one is the first of them.  *)
Shorter(a) == [a EXCEPT !.left = Tail(@)]

LEMMA LeftIs ==
  ASSUME NEW S, S \subseteq Field, NEW left \in Seq(S), left # <<>>
  PROVE  Head(left) \in S /\ Tail(left) \in Seq(S) /\ Tail(left) \in Seq(Field)
<1>1. Head(left) \in S /\ Tail(left) \in Seq(S)
  BY HeadTailProperties
<1>2. Tail(left) \in Seq(Field)
  BY <1>1, SeqMonotonic
<1>3. QED
  BY <1>1, <1>2

-----------------------------------------------------------------------------
(* Every shared field of a class has a place of its own, and every other   *)
(* field too: the places are counted apart.                                *)
LEMMA IndexOnto ==
  ASSUME ProgramSound, NEW c \in Class, NEW shrd
  PROVE  /\ Cardinality(NamesOf(c, shrd)) \in Nat
         /\ Cardinality(NamesOf(c, shrd)) <= Len(declared[c])
         /\ {Index(c, f) : f \in NamesOf(c, shrd)} = 0 .. Cardinality(NamesOf(c, shrd)) - 1
<1> DEFINE d     == declared[c]
           n     == Len(d)
           S     == NamesOf(c, shrd)
           K     == Cardinality(S)
           Same  == {i \in 1 .. n : d[i].shared = shrd}
           Up(m) == {i \in 1 .. m - 1 : d[i].shared = shrd}
           at    == [f \in S |-> Declared(c, f)]
<1>1. /\ n \in Nat /\ DOMAIN d = 1 .. n
      /\ \A i, j \in 1 .. n : d[i].name = d[j].name => i = j
      /\ \A i \in 1 .. n : d[i].name \in Field
  <2>1. d \in Seq(Fields)
    BY DEF ProgramSound
  <2>2. n \in Nat /\ DOMAIN d = 1 .. n /\ \A i \in 1 .. n : d[i] \in Fields
    BY <2>1, LenProperties, ElementOfSeq
  <2>3. \A i, j \in DOMAIN d : d[i].name = d[j].name => i = j
    BY DEF ProgramSound
  <2>4. QED
    BY <2>2, <2>3 DEF Fields
<1>2. \A f \in S : Declared(c, f) \in 1 .. n /\ d[Declared(c, f)].name = f /\ d[Declared(c, f)].shared = shrd
  BY DeclaredIs
<1>3. S = {f \in Field : \E i \in DOMAIN d : d[i].name = f /\ d[i].shared = shrd}
  BY DEF NamesOf
<1>4. IsFiniteSet(S) /\ K \in Nat
  BY NamesFinite, FS_CardinalityType
<1>5. \A f \in S : Index(c, f) = Cardinality(Up(Declared(c, f)))
  BY <1>2 DEF Index
<1> HIDE DEF d, n, S
<1>6. at \in Bijection(S, Same)
  <2>1. at \in [S -> Same]
    BY <1>2
  <2>2. \A f, g \in S : at[f] = at[g] => f = g
    BY <1>2
  <2>3. ASSUME NEW i \in Same PROVE \E f \in S : at[f] = i
    <3>1. d[i].name \in S
      BY <1>1, <1>3, <2>3
    <3>2. at[d[i].name] = i
      BY <1>1, <1>2, <3>1
    <3>3. QED
      BY <3>1, <3>2
  <2> HIDE DEF at
  <2>4. QED
    BY <2>1, <2>2, <2>3 DEF Bijection, Injection, Surjection, IsInjective
<1>7. IsFiniteSet(Same) /\ Cardinality(Same) = K
  BY <1>4, <1>6, FS_Bijection DEF ExistsBijection
<1>8. IsFiniteSet(1 .. n) /\ Cardinality(1 .. n) = n
  BY <1>1, FS_Interval
<1>9. K <= n
  BY <1>7, <1>8, FS_Subset
<1>10. ASSUME NEW i \in Same, NEW j \in Same \cup {n + 1}, i < j
       PROVE  /\ IsFiniteSet(Up(j)) /\ Up(i) \subseteq Up(j) /\ i \in Up(j) /\ i \notin Up(i)
              /\ Cardinality(Up(i)) \in Nat /\ Cardinality(Up(j)) \in Nat
              /\ Cardinality(Up(i)) < Cardinality(Up(j))
  <2>1. Up(i) \subseteq Up(j) /\ i \in Up(j) /\ i \notin Up(i) /\ Up(j) \subseteq Same
    BY <1>1, <1>10
  <2> HIDE DEF Up
  <2>2. IsFiniteSet(Up(j)) /\ IsFiniteSet(Up(i))
    BY <1>7, <2>1, FS_Subset
  <2>3. Cardinality(Up(i)) <= Cardinality(Up(j)) /\ Cardinality(Up(i)) # Cardinality(Up(j))
    BY <2>1, <2>2, FS_Subset
  <2>4. QED
    BY <2>1, <2>2, <2>3, FS_CardinalityType
<1>11. Up(n + 1) = Same
  BY <1>1
<1> DEFINE index == [f \in S |-> Cardinality(Up(at[f]))]
<1>12. index \in [S -> 0 .. K - 1]
  <2>1. ASSUME NEW f \in S PROVE Cardinality(Up(at[f])) \in 0 .. K - 1
    <3>1. at[f] \in Same /\ at[f] < n + 1
      BY <1>1, <1>2
    <3> HIDE DEF at, Up, Same
    <3>2. Cardinality(Up(at[f])) \in Nat /\ Cardinality(Up(at[f])) < K
      BY <1>7, <1>10, <1>11, <3>1
    <3>3. QED
      BY <1>4, <3>2
  <2>2. QED
    BY <2>1
<1>13. ASSUME NEW f \in S, NEW g \in S, index[f] = index[g] PROVE f = g
  <2>1. at[f] \in Same /\ at[g] \in Same
    BY <1>2
  <2>2. at[f] \in Nat /\ at[g] \in Nat
    BY <1>1, <2>1
  <2>3. Cardinality(Up(at[f])) = Cardinality(Up(at[g]))
    BY <1>13
  <2> HIDE DEF Up, Same, index
  <2>4. ~(at[f] < at[g]) /\ ~(at[g] < at[f])
    BY <1>10, <2>1, <2>3
  <2>5. at[f] = at[g]
    BY <2>2, <2>4
  <2>6. QED
    BY <1>2, <2>5
<1>14. {index[f] : f \in S} = 0 .. K - 1
  <2>1. index \in Injection(S, 0 .. K - 1)
    BY <1>12, <1>13 DEF Injection, IsInjective
  <2>2. IsFiniteSet(0 .. K - 1) /\ Cardinality(0 .. K - 1) = K
    BY <1>4, FS_Interval
  <2> HIDE DEF index, K
  <2>3. index \in Surjection(S, 0 .. K - 1)
    BY <1>4, <2>1, <2>2, FS_Injection DEF K
  <2>4. QED
    BY <2>3 DEF Surjection
<1>15. {Index(c, f) : f \in S} = {index[f] : f \in S}
  BY <1>2, <1>5
<1>16. QED
  BY <1>4, <1>9, <1>14, <1>15 DEF S, n, d

-----------------------------------------------------------------------------
(* The calls under way: lists of classes, the shared fields of a class and *)
(* the fields of an instance.                                              *)
ListCalls == [of : {"classes"}, left : Seq(Class)]

SharedCalls(known) ==
  {a \in [of : {"shared"}, class : Class, left : Seq(Field), ready : BOOLEAN] :
     /\ a.left \in Seq(NamesOf(a.class, TRUE))
     /\ a.ready => a.class \in known /\ a.class \notin shape.templates
     /\ ~a.ready => a.left = ByName(NamesOf(a.class, TRUE))}

InstanceCalls(objs) ==
  {a \in [of : {"instance"}, class : Class, me : Nat, left : Seq(Field), args : BOOLEAN] :
     /\ a.left \in Seq(NamesOf(a.class, FALSE)) /\ a.class \notin shape.templates
     /\ a.me \in DOMAIN objs /\ objs[a.me].class = a.class}

CallSet(known, objs) == ListCalls \cup SharedCalls(known) \cup InstanceCalls(objs)

(* An instance is made for a field; the shared fields of a class wait for  *)
(* its inner classes, and are in a list of classes.                        *)
Rests(a, b) ==
  /\ a.of = "instance" => b.of # "classes" /\ b.left # <<>> /\ (b.of = "shared" => b.ready)
  /\ a.of = "shared"   => b.of = "classes"
  /\ a.of = "classes"  => b.of # "instance" /\ (b.of = "shared" => ~b.ready)

Fits(a, s) == IF s = <<>> THEN a.of = "classes" ELSE Rests(a, Head(s))

Nested(s) == \A k \in 1 .. Len(s) : IF k = Len(s) THEN s[k].of = "classes" ELSE Rests(s[k], s[k + 1])

LEMMA NestedPush ==
  ASSUME NEW S, NEW s \in Seq(S), NEW a \in S, Nested(s), Fits(a, s)
  PROVE  /\ <<a>> \o s \in Seq(S) /\ Nested(<<a>> \o s)
         /\ <<a>> \o s # <<>> /\ Head(<<a>> \o s) = a /\ Tail(<<a>> \o s) = s
<1> DEFINE t == <<a>> \o s
<1>1. /\ t \in Seq(S) /\ Len(t) = Len(s) + 1 /\ Len(s) \in Nat
      /\ t[1] = a /\ \A k \in 1 .. Len(s) : t[k + 1] = s[k]
  BY PushIs
<1> HIDE DEF t
<1>2. ASSUME NEW k \in 1 .. Len(t)
      PROVE  IF k = Len(t) THEN t[k].of = "classes" ELSE Rests(t[k], t[k + 1])
  <2>1. CASE s = <<>>
    <3>1. k = 1 /\ Len(t) = 1
      BY <1>1, <1>2, <2>1
    <3>2. QED
      BY <1>1, <2>1, <3>1 DEF Fits
  <2>2. CASE s # <<>>
    <3>1. Len(s) > 0 /\ Head(s) = s[1]
      BY <1>1, <2>2, HeadAndTail
    <3>2. CASE k = 1
      <4>1. k # Len(t) /\ t[k] = a /\ t[k + 1] = s[1]
        BY <1>1, <3>1, <3>2
      <4>2. QED
        BY <2>2, <3>1, <4>1 DEF Fits
    <3>3. CASE k # 1
      <4>1. PICK j \in 1 .. Len(s) : k = j + 1
        BY <1>1, <1>2, <3>3
      <4>2. t[k] = s[j] /\ (k = Len(t) <=> j = Len(s)) /\ (j # Len(s) => t[k + 1] = s[j + 1])
        BY <1>1, <4>1
      <4>3. QED
        BY <4>2 DEF Nested
    <3>4. QED
      BY <3>2, <3>3
  <2>3. QED
    BY <2>1, <2>2
<1>3. t # <<>> /\ Head(t) = a
  BY <1>1, HeadAndTail
<1>4. Tail(t) = s
  <2>1. Tail(t) \in Seq(S) /\ Len(Tail(t)) = Len(s) /\ \A k \in 1 .. Len(s) : Tail(t)[k] = s[k]
    BY <1>1, <1>3, HeadAndTail
  <2>2. QED
    BY <2>1, SeqEqual
<1>5. QED
  BY <1>1, <1>2, <1>3, <1>4 DEF Nested, t

LEMMA NestedPop ==
  ASSUME NEW S, NEW s \in Seq(S), s # <<>>, Nested(s)
  PROVE  Head(s) \in S /\ Tail(s) \in Seq(S) /\ Nested(Tail(s)) /\ Fits(Head(s), Tail(s))
<1> DEFINE t == Tail(s)
<1>1. /\ Head(s) \in S /\ Head(s) = s[1] /\ t \in Seq(S)
      /\ Len(s) \in Nat \ {0} /\ Len(t) = Len(s) - 1 /\ \A k \in 1 .. Len(t) : t[k] = s[k + 1]
  BY HeadAndTail
<1> HIDE DEF t
<1>2. ASSUME NEW k \in 1 .. Len(t)
      PROVE  IF k = Len(t) THEN t[k].of = "classes" ELSE Rests(t[k], t[k + 1])
  <2>1. k + 1 \in 1 .. Len(s) /\ (k = Len(t) <=> k + 1 = Len(s)) /\ t[k] = s[k + 1]
    BY <1>1, <1>2
  <2>2. k # Len(t) => k + 1 \in 1 .. Len(t) /\ t[k + 1] = s[(k + 1) + 1]
    BY <1>1, <1>2
  <2>3. QED
    BY <2>1, <2>2 DEF Nested
<1>3. Fits(s[1], t)
  <2>1. CASE t = <<>>
    <3>1. Len(s) = 1
      BY <1>1, <2>1
    <3>2. QED
      BY <2>1, <3>1 DEF Fits, Nested
  <2>2. CASE t # <<>>
    <3>1. Head(t) = s[2] /\ 1 \in 1 .. Len(s) /\ 1 # Len(s)
      BY <1>1, <2>2, HeadAndTail, EmptySeq
    <3>2. Rests(s[1], s[1 + 1])
      BY <3>1 DEF Nested
    <3>3. QED
      BY <2>2, <3>1, <3>2 DEF Fits
  <2>3. QED
    BY <2>1, <2>2
<1>4. QED
  BY <1>1, <1>2, <1>3 DEF Nested, t

LEMMA CallKinds ==
  ASSUME NEW known, NEW objs, NEW a \in CallSet(known, objs)
  PROVE  /\ a.of \in {"classes", "shared", "instance"}
         /\ a.of = "classes" <=> a \in ListCalls
         /\ a.of = "shared" <=> a \in SharedCalls(known)
         /\ a.of = "instance" <=> a \in InstanceCalls(objs)
<1>1. a \in ListCalls => a.of = "classes"
  BY DEF ListCalls
<1>2. a \in SharedCalls(known) => a.of = "shared"
  BY DEF SharedCalls
<1>3. a \in InstanceCalls(objs) => a.of = "instance"
  BY DEF InstanceCalls
<1>4. QED
  BY <1>1, <1>2, <1>3 DEF CallSet

(* More classes and instances do not change what is under way.             *)
More(objs, objs2) == \A o \in DOMAIN objs : o \in DOMAIN objs2 /\ objs2[o].class = objs[o].class

LEMMA CallsStay ==
  ASSUME NEW known, NEW objs, NEW known2, NEW objs2, known \subseteq known2, More(objs, objs2)
  PROVE  CallSet(known, objs) \subseteq CallSet(known2, objs2)
<1>1. SharedCalls(known) \subseteq SharedCalls(known2)
  BY DEF SharedCalls
<1>2. InstanceCalls(objs) \subseteq InstanceCalls(objs2)
  BY DEF InstanceCalls, More
<1>3. QED
  BY <1>1, <1>2 DEF CallSet

LEMMA CallShorter ==
  ASSUME NEW known, NEW objs, NEW a \in CallSet(known, objs), a.left # <<>>, a.of = "shared" => a.ready
  PROVE  Shorter(a) \in CallSet(known, objs) /\ Shorter(a).of = a.of
<1>1. CASE a \in ListCalls
  <2>1. Tail(a.left) \in Seq(Class)
    BY <1>1, HeadAndTail DEF ListCalls
  <2>2. Shorter(a) \in ListCalls /\ Shorter(a).of = a.of
    BY <1>1, <2>1 DEF ListCalls, Shorter
  <2>3. QED
    BY <2>2 DEF CallSet
<1>2. CASE a \in SharedCalls(known)
  <2>1. a.left \in Seq(NamesOf(a.class, TRUE)) /\ NamesOf(a.class, TRUE) \subseteq Field
    BY <1>2, NamesFinite DEF SharedCalls
  <2>2. Tail(a.left) \in Seq(NamesOf(a.class, TRUE)) /\ Tail(a.left) \in Seq(Field)
    BY <2>1, LeftIs
  <2>3. a \in [of : {"shared"}, class : Class, left : Seq(Field), ready : BOOLEAN] /\ a.of = "shared"
    BY <1>2 DEF SharedCalls
  <2> DEFINE b == Shorter(a)
  <2>4. b \in [of : {"shared"}, class : Class, left : Seq(Field), ready : BOOLEAN]
    BY <2>2, <2>3 DEF Shorter
  <2>5. b.of = a.of /\ b.class = a.class /\ b.left = Tail(a.left) /\ b.ready = a.ready
    BY <2>3 DEF Shorter
  <2>6. a.ready /\ a.class \in known /\ a.class \notin shape.templates
    BY <1>2, <2>3 DEF SharedCalls
  <2> HIDE DEF b
  <2>7. b \in SharedCalls(known)
    BY <2>2, <2>4, <2>5, <2>6 DEF SharedCalls
  <2>8. QED
    BY <2>5, <2>7 DEF CallSet, b
<1>3. CASE a \in InstanceCalls(objs)
  <2>1. a.left \in Seq(NamesOf(a.class, FALSE)) /\ NamesOf(a.class, FALSE) \subseteq Field
    BY <1>3, NamesFinite DEF InstanceCalls
  <2>2. Tail(a.left) \in Seq(NamesOf(a.class, FALSE)) /\ Tail(a.left) \in Seq(Field)
    BY <2>1, LeftIs
  <2>3. a \in [of : {"instance"}, class : Class, me : Nat, left : Seq(Field), args : BOOLEAN]
    BY <1>3 DEF InstanceCalls
  <2> DEFINE b == Shorter(a)
  <2>4. b \in [of : {"instance"}, class : Class, me : Nat, left : Seq(Field), args : BOOLEAN]
    BY <2>2, <2>3 DEF Shorter
  <2>5. b.of = a.of /\ b.class = a.class /\ b.left = Tail(a.left) /\ b.me = a.me
    BY <2>3 DEF Shorter
  <2> HIDE DEF b
  <2>6. b \in InstanceCalls(objs)
    BY <1>3, <2>2, <2>4, <2>5 DEF InstanceCalls
  <2>7. QED
    BY <2>5, <2>6 DEF CallSet, b
<1>4. QED
  BY <1>1, <1>2, <1>3 DEF CallSet

-----------------------------------------------------------------------------
(* The values: an array for the shared fields of each class, and one in    *)
(* each instance, of instances that are made or no instances.              *)
Arrays == UNION {[0 .. k - 1 -> Int] : k \in Nat}

MemSound(mem, n) ==
  \A c \in DOMAIN mem : c \in Class /\ mem[c] \in [0 .. Cardinality(NamesOf(c, TRUE)) - 1 -> Garbage .. n]

MadeSo(objs, n) ==
  /\ objs \in Seq([class : Class, fields : Arrays])
  /\ \A o \in DOMAIN objs : objs[o].fields \in [0 .. Len(declared[objs[o].class]) - 1 -> Garbage .. n]

DataSound(cs, mem, objs) ==
  /\ cs \in Seq(CallSet(DOMAIN mem, objs)) /\ Nested(cs)
  /\ MemSound(mem, Len(objs)) /\ MadeSo(objs, Len(objs))

MemWith(mem, c, i, v) == [mem EXCEPT ![c][i] = v]
MadeWith(objs, o, i, v) == [objs EXCEPT ![o].fields[i] = v]

LEMMA MemWritten ==
  ASSUME NEW mem, NEW n, MemSound(mem, n), NEW c \in DOMAIN mem, NEW i, NEW v \in Garbage .. n
  PROVE  MemSound(MemWith(mem, c, i, v), n) /\ DOMAIN MemWith(mem, c, i, v) = DOMAIN mem
<1> DEFINE mem2 == MemWith(mem, c, i, v)
<1>1. DOMAIN mem2 = DOMAIN mem
  BY DEF MemWith
<1>2. \A d \in DOMAIN mem : d # c => mem2[d] = mem[d]
  BY DEF MemWith
<1>3. mem2[c] = [mem[c] EXCEPT ![i] = v]
  BY DEF MemWith
<1>4. mem2[c] \in [0 .. Cardinality(NamesOf(c, TRUE)) - 1 -> Garbage .. n]
  BY <1>3 DEF MemSound
<1> HIDE DEF mem2
<1>5. MemSound(mem2, n)
  BY <1>1, <1>2, <1>4 DEF MemSound
<1>6. QED
  BY <1>1, <1>5 DEF mem2

LEMMA ArraysAre ==
  ASSUME ProgramSound, NEW c \in Class, NEW n \in Nat,
         NEW a \in [0 .. Len(declared[c]) - 1 -> Garbage .. n]
  PROVE  a \in Arrays
<1>1. declared[c] \in Seq(Fields)
  BY DEF ProgramSound
<1>2. Len(declared[c]) \in Nat
  BY <1>1, LenProperties
<1>3. Garbage .. n \subseteq Int
  BY DEF Garbage
<1>4. a \in [0 .. Len(declared[c]) - 1 -> Int]
  BY <1>3
<1>5. QED
  BY <1>2, <1>4 DEF Arrays

LEMMA MadeWritten ==
  ASSUME ProgramSound, NEW objs, NEW n \in Nat, MadeSo(objs, n), NEW o \in DOMAIN objs, NEW i,
         NEW v \in Garbage .. n
  PROVE  /\ MadeSo(MadeWith(objs, o, i, v), n) /\ Len(MadeWith(objs, o, i, v)) = Len(objs)
         /\ More(objs, MadeWith(objs, o, i, v))
<1> DEFINE R == [class : Class, fields : Arrays]
           x == [objs[o] EXCEPT !.fields[i] = v]
           objs2 == MadeWith(objs, o, i, v)
<1>1. objs \in Seq(R) /\ DOMAIN objs = 1 .. Len(objs) /\ Len(objs) \in Nat
  BY LenProperties DEF MadeSo
<1>2. objs[o] \in R
  BY <1>1, ElementOfSeq
<1>3. x.class = objs[o].class /\ x.fields = [objs[o].fields EXCEPT ![i] = v]
  BY <1>2
<1>4. x.fields \in [0 .. Len(declared[objs[o].class]) - 1 -> Garbage .. n]
  <2>1. objs[o].fields \in [0 .. Len(declared[objs[o].class]) - 1 -> Garbage .. n]
    BY DEF MadeSo
  <2>2. QED
    BY ONLY <1>3, <2>1, v \in Garbage .. n
<1>5. objs[o].class \in Class
  BY <1>2
<1>6. x.fields \in Arrays
  BY <1>4, <1>5, ArraysAre
<1>7. x \in R
  BY <1>2, <1>6
<1>8. objs2 = [objs EXCEPT ![o] = x]
  BY DEF MadeWith
<1> HIDE DEF x, objs2, R
<1>9. objs2 \in Seq(R) /\ Len(objs2) = Len(objs) /\ DOMAIN objs2 = DOMAIN objs
      /\ objs2[o] = x /\ \A p \in DOMAIN objs : p # o => objs2[p] = objs[p]
  BY <1>1, <1>7, <1>8
<1>10. \A p \in DOMAIN objs2 : objs2[p].fields \in [0 .. Len(declared[objs2[p].class]) - 1 -> Garbage .. n]
  BY <1>3, <1>4, <1>9 DEF MadeSo
<1>11. More(objs, objs2)
  BY <1>3, <1>9 DEF More
<1>12. QED
  BY <1>9, <1>10, <1>11 DEF MadeSo, objs2, R

LEMMA MemMore ==
  ASSUME NEW mem, NEW n \in Nat, MemSound(mem, n)
  PROVE  MemSound(mem, n + 1)
<1>1. Garbage .. n \subseteq Garbage .. n + 1
  BY DEF Garbage
<1>2. QED
  BY <1>1 DEF MemSound

(* One instance more.                                                      *)
NoValues(c) == [i \in 0 .. Len(declared[c]) - 1 |-> Garbage]

LEMMA MadeAppend ==
  ASSUME ProgramSound, NEW objs, MadeSo(objs, Len(objs)), NEW c \in Class,
         NEW objs2, objs2 = Append(objs, [class |-> c, fields |-> NoValues(c)])
  PROVE  /\ Len(objs) \in Nat /\ Len(objs2) = Len(objs) + 1 /\ MadeSo(objs2, Len(objs2)) /\ More(objs, objs2)
         /\ Len(objs2) \in DOMAIN objs2 /\ objs2[Len(objs2)].class = c
<1> DEFINE R == [class : Class, fields : Arrays]
           a == NoValues(c)
           x == [class |-> c, fields |-> a]
           n == Len(objs)
<1>1. objs \in Seq(R) /\ DOMAIN objs = 1 .. n /\ n \in Nat
  BY LenProperties DEF MadeSo
<1>2. Garbage \in Garbage .. n + 1 /\ Garbage .. n \subseteq Garbage .. n + 1
  BY <1>1 DEF Garbage
<1>3. a \in [0 .. Len(declared[c]) - 1 -> Garbage .. n + 1]
  BY <1>2 DEF NoValues
<1> HIDE DEF a
<1>4. a \in Arrays
  BY <1>1, <1>3, ArraysAre
<1>5. x \in R /\ x.class = c /\ x.fields = a
  BY <1>4
<1>6. objs2 = Append(objs, x)
  BY DEF a
<1> HIDE DEF x, R, n
<1>7. objs2 \in Seq(R) /\ Len(objs2) = n + 1 /\ objs2[n + 1] = x /\ \A o \in 1 .. n : objs2[o] = objs[o]
  BY <1>1, <1>5, <1>6, AppendProperties DEF n
<1>8. DOMAIN objs2 = 1 .. n + 1
  BY <1>7, LenProperties
<1>9. ASSUME NEW o \in DOMAIN objs2
      PROVE  objs2[o].fields \in [0 .. Len(declared[objs2[o].class]) - 1 -> Garbage .. n + 1]
  <2>1. CASE o = n + 1
    BY <1>3, <1>5, <1>7, <2>1
  <2>2. CASE o # n + 1
    <3>1. o \in 1 .. n /\ objs2[o] = objs[o]
      BY <1>1, <1>7, <1>8, <2>2
    <3>2. objs[o].fields \in [0 .. Len(declared[objs[o].class]) - 1 -> Garbage .. n]
      BY <1>1, <3>1 DEF MadeSo, n
    <3>3. QED
      BY <1>2, <3>1, <3>2
  <2>3. QED
    BY <2>1, <2>2
<1>10. More(objs, objs2)
  BY <1>1, <1>7, <1>8 DEF More
<1>11. n + 1 \in DOMAIN objs2
  BY <1>1, <1>8
<1>12. QED
  BY <1>1, <1>5, <1>7, <1>9, <1>10, <1>11 DEF MadeSo, R, n

-----------------------------------------------------------------------------
(* The steps of the initialisation keep the calls and the values sound.    *)
Ongoing == ProgramSound /\ DataSound(calls, sharedMem, objects) /\ Resolved
Kept    == DataSound(calls', sharedMem', objects')

CallsNow == CallSet(DOMAIN sharedMem, objects)

LEMMA CallIs ==
  ASSUME Ongoing, calls # <<>>
  PROVE  Call \in CallsNow /\ Rest \in Seq(CallsNow) /\ Nested(Rest) /\ Fits(Call, Rest)
<1>1. calls \in Seq(CallsNow) /\ Nested(calls)
  BY DEF Ongoing, DataSound, CallsNow
<1>2. QED
  BY <1>1, NestedPop DEF Call, Rest

LEMMA TopIs ==
  ASSUME NEW s \in Seq(CallsNow), Nested(s), NEW a \in CallsNow, Fits(a, s),
         NEW b \in CallsNow, b.of = a.of
  PROVE  <<b>> \o s \in Seq(CallsNow) /\ Nested(<<b>> \o s)
<1>1. Fits(b, s)
  BY DEF Fits, Rests
<1>2. QED
  BY <1>1, NestedPush

LEMMA OnlyCalls ==
  ASSUME Ongoing, calls' \in Seq(CallsNow), Nested(calls'), UNCHANGED <<sharedMem, objects>>
  PROVE  Kept
BY DEF Ongoing, Kept, DataSound, CallsNow

LEMMA StoreStep ==
  ASSUME Ongoing, NEW under \in Seq(CallsNow), Nested(under), under # <<>>,
         Head(under).of # "classes", Head(under).left # <<>>, Head(under).of = "shared" => Head(under).ready,
         NEW v \in Garbage .. Len(objects), Store(v, under)
  PROVE  Kept
<1> DEFINE c == Head(under)
           b == Shorter(c)
           i == Index(c.class, Head(c.left))
<1>1. c \in CallsNow /\ Tail(under) \in Seq(CallsNow) /\ Nested(Tail(under)) /\ Fits(c, Tail(under))
  BY NestedPop
<1>2. b \in CallsNow /\ b.of = c.of
  BY <1>1, CallShorter DEF CallsNow
<1>3. calls' = <<b>> \o Tail(under)
  BY DEF Store, Shorter
<1>4. calls' \in Seq(CallsNow) /\ Nested(calls')
  BY <1>1, <1>2, <1>3, TopIs
<1>5. MemSound(sharedMem, Len(objects)) /\ MadeSo(objects, Len(objects)) /\ Len(objects) \in Nat
  BY LenProperties DEF Ongoing, DataSound, MadeSo
<1>6. CASE c.of = "shared"
  <2>1. c \in SharedCalls(DOMAIN sharedMem)
    BY <1>1, <1>6, CallKinds DEF CallsNow
  <2>2. c.class \in DOMAIN sharedMem
    BY <2>1, <1>6 DEF SharedCalls
  <2>3. sharedMem' = MemWith(sharedMem, c.class, i, v) /\ objects' = objects
    BY <1>6 DEF Store, MemWith
  <2>4. MemSound(sharedMem', Len(objects)) /\ DOMAIN sharedMem' = DOMAIN sharedMem
    BY <1>5, <2>2, <2>3, MemWritten
  <2>5. QED
    BY <1>4, <1>5, <2>3, <2>4 DEF Kept, DataSound, CallsNow
<1>7. CASE c.of # "shared"
  <2>1. c \in InstanceCalls(objects)
    BY <1>1, <1>7, CallKinds DEF CallsNow
  <2>2. c.me \in DOMAIN objects
    BY <2>1 DEF InstanceCalls
  <2>3. objects' = MadeWith(objects, c.me, i, v) /\ sharedMem' = sharedMem
    BY <1>7 DEF Store, MadeWith
  <2>4. MadeSo(objects', Len(objects)) /\ Len(objects') = Len(objects) /\ More(objects, objects')
    BY <1>5, <2>2, <2>3, MadeWritten DEF Ongoing
  <2>5. CallsNow \subseteq CallSet(DOMAIN sharedMem, objects')
    BY <2>4, CallsStay DEF CallsNow
  <2>6. calls' \in Seq(CallSet(DOMAIN sharedMem, objects'))
    BY <1>4, <2>5, SeqMonotonic
  <2>7. QED
    BY <1>4, <1>5, <2>3, <2>4, <2>6 DEF Kept, DataSound
<1>8. QED
  BY <1>6, <1>7

(* A field of a call is a field of its class, which is no template.        *)
LEMMA FieldOf ==
  ASSUME Ongoing, InField
  PROVE  /\ Call.class \in Class \ shape.templates
         /\ AtHead \in Field /\ AtHead \in NamesOf(Call.class, Call.of = "shared")
         /\ Source \in Inits /\ Resolves(Call.class, AtHead)
         /\ Call.of \in {"shared", "instance"} /\ Call.left # <<>>
         /\ Call.of = "shared" => Call \in SharedCalls(DOMAIN sharedMem) /\ Call.ready
         /\ Call.of = "instance" => Call \in InstanceCalls(objects)
<1>1. calls # <<>> /\ Call.of # "classes" /\ Call.left # <<>> /\ (Call.of = "shared" => Call.ready)
  BY DEF InField
<1>2. Call \in CallsNow
  BY <1>1, CallIs
<1>3. /\ Call.of \in {"shared", "instance"}
      /\ Call.of = "shared" => Call \in SharedCalls(DOMAIN sharedMem)
      /\ Call.of = "instance" => Call \in InstanceCalls(objects)
  BY <1>1, <1>2, CallKinds DEF CallsNow
<1>4. Call.class \in Class \ shape.templates /\ AtHead \in NamesOf(Call.class, Call.of = "shared")
  <2>1. CASE Call.of = "shared"
    <3>1. /\ Call.class \in Class /\ Call.class \notin shape.templates
          /\ Call.left \in Seq(NamesOf(Call.class, TRUE))
      BY <1>1, <1>3, <2>1 DEF SharedCalls
    <3>2. NamesOf(Call.class, TRUE) \subseteq Field
      BY NamesFinite
    <3>3. AtHead \in NamesOf(Call.class, TRUE)
      BY <1>1, <3>1, <3>2, LeftIs DEF AtHead
    <3>4. (Call.of = "shared") = TRUE
      BY <2>1
    <3>5. QED
      BY <3>1, <3>3, <3>4
  <2>2. CASE Call.of = "instance"
    <3>1. /\ Call.class \in Class /\ Call.class \notin shape.templates
          /\ Call.left \in Seq(NamesOf(Call.class, FALSE))
      BY <1>1, <1>3, <2>2 DEF InstanceCalls
    <3>2. NamesOf(Call.class, FALSE) \subseteq Field
      BY NamesFinite
    <3>3. AtHead \in NamesOf(Call.class, FALSE)
      BY <1>1, <3>1, <3>2, LeftIs DEF AtHead
    <3>4. (Call.of = "shared") = FALSE
      BY <2>2
    <3>5. QED
      BY <3>1, <3>3, <3>4
  <2>3. QED
    BY <1>3, <2>1, <2>2
<1>5. AtHead \in Field /\ Source \in Inits
  BY <1>4, NamesFinite, DeclaredIs DEF Ongoing, Source
<1>6. AtHead \in NamesOf(Call.class, TRUE) \cup NamesOf(Call.class, FALSE)
  BY <1>3, <1>4
<1>7. Resolves(Call.class, AtHead)
  BY <1>4, <1>5, <1>6 DEF Ongoing, Resolved
<1>8. QED
  BY <1>1, <1>3, <1>4, <1>5, <1>7

LEMMA StoreTop ==
  ASSUME Ongoing, InField, NEW v \in Garbage .. Len(objects), Store(v, calls)
  PROVE  Kept
<1>1. calls \in Seq(CallsNow) /\ Nested(calls) /\ calls # <<>>
  BY DEF Ongoing, DataSound, CallsNow, InField
<1>2. Head(calls).of # "classes" /\ Head(calls).left # <<>> /\ (Head(calls).of = "shared" => Head(calls).ready)
  BY DEF InField, Call
<1>3. QED
  BY <1>1, <1>2, StoreStep

LEMMA ObjectsCount ==
  ASSUME Ongoing
  PROVE  /\ Len(objects) \in Nat /\ DOMAIN objects = 1 .. Len(objects)
         /\ Val \in Garbage .. Len(objects) /\ Null \in Garbage .. Len(objects)
         /\ \A o \in DOMAIN objects : o \in Garbage .. Len(objects)
<1>1. Len(objects) \in Nat /\ DOMAIN objects = 1 .. Len(objects)
  BY LenProperties DEF Ongoing, DataSound, MadeSo
<1>2. QED
  BY <1>1 DEF Val, Null, Garbage

LEMMA InitPlainStep ==
  ASSUME Ongoing, InitPlain
  PROVE  Kept
<1>1. InField /\ (Store(Val, calls) \/ Store(Null, calls))
  BY DEF InitPlain
<1>2. QED
  BY <1>1, ObjectsCount, StoreTop

LEMMA ReadSharedStep ==
  ASSUME Ongoing, ReadShared
  PROVE  Kept
<1> DEFINE c == Source.class
           f == Source.field
           v == sharedMem[c][Index(c, f)]
<1>1. InField /\ Source.kind = "shared"
  BY DEF ReadShared
<1>2. /\ c \in DOMAIN sharedMem => Store(v, calls)
      /\ c \notin DOMAIN sharedMem => UNCHANGED <<calls, sharedMem, objects>>
  BY DEF ReadShared
<1>3. CASE c \in DOMAIN sharedMem
  <2>1. f \in NamesOf(c, TRUE)
    BY <1>1, FieldOf DEF Resolves, Source
  <2>2. c \in Class /\ sharedMem[c] \in [0 .. Cardinality(NamesOf(c, TRUE)) - 1 -> Garbage .. Len(objects)]
    BY <1>3 DEF Ongoing, DataSound, MemSound
  <2>3. \A s : {Index(c, g) : g \in NamesOf(c, s)} = 0 .. Cardinality(NamesOf(c, s)) - 1
    BY ONLY ProgramSound, <2>2, IndexOnto, Ongoing DEF Ongoing
  <2>4. Index(c, f) \in 0 .. Cardinality(NamesOf(c, TRUE)) - 1
    BY <2>1, <2>3
  <2>5. v \in Garbage .. Len(objects)
    BY <2>2, <2>4
  <2>6. QED
    BY <1>1, <1>2, <1>3, <2>5, StoreTop
<1>4. CASE c \notin DOMAIN sharedMem
  BY <1>2, <1>4 DEF Ongoing, Kept
<1>5. QED
  BY <1>3, <1>4

(* A shared field has no Me: only an instance reads its own fields.        *)
LEMMA OwnReader ==
  ASSUME Ongoing, InField, Source.kind = "own"
  PROVE  Call \in InstanceCalls(objects) /\ Call.of = "instance" /\ Source.field \in NamesOf(Call.class, FALSE)
<1>1. {AtHead, Source.field} \subseteq NamesOf(Call.class, FALSE)
  BY FieldOf DEF Resolves, Source
<1>2. Call.of # "shared"
  <2> SUFFICES ASSUME Call.of = "shared" PROVE FALSE
    OBVIOUS
  <2>1. AtHead \in NamesOf(Call.class, TRUE) /\ Call.class \in Class
    <3>1. (Call.of = "shared") = TRUE
      OBVIOUS
    <3>2. QED
      BY <3>1, FieldOf
  <2>2. \A s : AtHead \in NamesOf(Call.class, s) => declared[Call.class][Declared(Call.class, AtHead)].shared = s
    BY ONLY <2>1, Ongoing, DeclaredIs DEF Ongoing
  <2>3. QED
    BY <1>1, <2>1, <2>2
<1>3. QED
  BY <1>1, <1>2, FieldOf

LEMMA ReadOwnStep ==
  ASSUME Ongoing, ReadOwn
  PROVE  Kept
<1> DEFINE c == Call.class
           f == Source.field
           v == objects[Call.me].fields[Index(c, f)]
<1>1. InField /\ Source.kind = "own" /\ Store(v, calls)
  BY DEF ReadOwn
<1>2. Call \in InstanceCalls(objects) /\ f \in NamesOf(c, FALSE)
  BY <1>1, OwnReader
<1>3. Call.me \in DOMAIN objects /\ objects[Call.me].class = c /\ c \in Class
  BY <1>2 DEF InstanceCalls
<1>4. objects[Call.me].fields \in [0 .. Len(declared[c]) - 1 -> Garbage .. Len(objects)]
  BY <1>3 DEF Ongoing, DataSound, MadeSo
<1>5. \A s : /\ {Index(c, g) : g \in NamesOf(c, s)} = 0 .. Cardinality(NamesOf(c, s)) - 1
             /\ Cardinality(NamesOf(c, s)) \in Nat /\ Cardinality(NamesOf(c, s)) <= Len(declared[c])
  BY ONLY <1>3, IndexOnto, Ongoing DEF Ongoing
<1>6. Index(c, f) \in 0 .. Cardinality(NamesOf(c, FALSE)) - 1
  BY <1>2, <1>5
<1>7. Len(declared[c]) \in Nat
  BY <1>3, LenProperties DEF Ongoing, ProgramSound
<1>8. Index(c, f) \in 0 .. Len(declared[c]) - 1
  <2>1. Cardinality(NamesOf(c, FALSE)) \in Nat /\ Cardinality(NamesOf(c, FALSE)) <= Len(declared[c])
    BY <1>5
  <2>2. \A i : \A k, m \in Nat : k <= m /\ i \in 0 .. k - 1 => i \in 0 .. m - 1
    OBVIOUS
  <2>3. QED
    BY ONLY <1>6, <1>7, <2>1, <2>2
<1>9. v \in Garbage .. Len(objects)
  BY <1>4, <1>8
<1>10. QED
  BY <1>1, <1>9, StoreTop

LEMMA CreateStep ==
  ASSUME Ongoing, InField, NEW c \in Class, c \notin shape.templates, NEW args \in BOOLEAN,
         CreateInstance(c, args)
  PROVE  Kept
<1> DEFINE n == Len(objects)
           a == Instance(c, n + 1, args)
<1>1. /\ n \in Nat /\ Len(objects') = n + 1 /\ MadeSo(objects', Len(objects')) /\ More(objects, objects')
      /\ Len(objects') \in DOMAIN objects' /\ objects'[Len(objects')].class = c
  <2>1. objects' = Append(objects, [class |-> c, fields |-> NoValues(c)])
    BY DEF CreateInstance, NoValues
  <2>2. ProgramSound /\ MadeSo(objects, Len(objects))
    BY DEF Ongoing, DataSound
  <2>3. QED
    BY ONLY <2>1, <2>2, c \in Class, MadeAppend
<1>2. (calls' = <<a>> \o calls \/ calls' = calls) /\ sharedMem' = sharedMem
  BY DEF CreateInstance, Push
<1>3. MemSound(sharedMem', Len(objects'))
  BY <1>1, <1>2, MemMore DEF Ongoing, DataSound
<1> DEFINE C == CallSet(DOMAIN sharedMem, objects')
<1>4. calls \in Seq(C) /\ Nested(calls)
  <2>1. calls \in Seq(CallsNow) /\ Nested(calls)
    BY DEF Ongoing, DataSound, CallsNow
  <2>2. CallsNow \subseteq C
    BY <1>1, CallsStay DEF CallsNow
  <2>3. QED
    BY <2>1, <2>2, SeqMonotonic
<1>5. a \in C /\ a.of = "instance"
  <2> DEFINE left == ByName(NamesOf(c, FALSE))
  <2>1. NamesOf(c, FALSE) \subseteq Field
    BY DEF NamesOf
  <2>2. left \in Seq(NamesOf(c, FALSE)) /\ left \in Seq(Field)
    BY <2>1, ByNameIs, SeqMonotonic
  <2>3. a = [of |-> "instance", class |-> c, me |-> n + 1, left |-> left, args |-> args]
    BY DEF Instance
  <2> HIDE DEF left, a
  <2>4. a \in [of : {"instance"}, class : Class, me : Nat, left : Seq(Field), args : BOOLEAN]
    BY <1>1, <2>2, <2>3
  <2>5. a.class = c /\ a.me = n + 1 /\ a.left = left /\ a.of = "instance"
    BY <2>3
  <2> HIDE DEF n
  <2>6. a \in InstanceCalls(objects')
    BY <1>1, <2>2, <2>4, <2>5 DEF InstanceCalls
  <2>7. QED
    BY <2>5, <2>6 DEF CallSet
<1> HIDE DEF a, C
<1>6. Fits(a, calls)
  BY <1>5, FieldOf DEF Fits, Rests, InField, Call
<1>7. calls' \in Seq(C) /\ Nested(calls')
  <2>1. <<a>> \o calls \in Seq(C) /\ Nested(<<a>> \o calls)
    BY <1>4, <1>5, <1>6, NestedPush
  <2>2. QED
    BY <1>2, <1>4, <2>1
<1>8. QED
  BY <1>1, <1>2, <1>3, <1>7 DEF Kept, DataSound, C

LEMMA InitDefaultStep ==
  ASSUME Ongoing, InitDefault
  PROVE  Kept
<1>1. InField /\ Source.kind = "default" /\ CreateInstance(Source.class, FALSE)
  BY DEF InitDefault
<1>2. Source.class \in Class /\ Source.class \notin shape.templates
  BY <1>1, FieldOf DEF Resolves, Source, Inits
<1>3. QED
  BY <1>1, <1>2, CreateStep

LEMMA InitNewStep ==
  ASSUME Ongoing, InitNew
  PROVE  Kept
<1>1. InField /\ Source.kind = "new" /\ CreateInstance(Source.class, TRUE)
  BY DEF InitNew
<1>2. Source.class \in Class /\ Source.class \notin shape.templates
  BY <1>1, FieldOf DEF Resolves, Source, Inits
<1>3. QED
  BY <1>1, <1>2, CreateStep

LEMMA ConstructStep ==
  ASSUME Ongoing, Construct
  PROVE  Kept
<1>1. calls # <<>> /\ Call.of = "instance"
  BY DEF Construct, In
<1>2. Call \in CallsNow /\ Rest \in Seq(CallsNow) /\ Nested(Rest) /\ Fits(Call, Rest)
  BY <1>1, CallIs
<1>3. Call \in InstanceCalls(objects)
  BY <1>1, <1>2, CallKinds DEF CallsNow
<1>4. Call.me \in Garbage .. Len(objects)
  BY <1>3, ObjectsCount DEF InstanceCalls
<1>5. /\ Rest # <<>> /\ Head(Rest).of # "classes" /\ Head(Rest).left # <<>>
      /\ Head(Rest).of = "shared" => Head(Rest).ready
  BY <1>1, <1>2 DEF Fits, Rests
<1>6. Store(Call.me, Rest) \/ UNCHANGED <<calls, sharedMem, objects>>
  BY DEF Construct
<1>7. CASE Store(Call.me, Rest)
  BY <1>2, <1>4, <1>5, <1>7, StoreStep
<1>8. CASE UNCHANGED <<calls, sharedMem, objects>>
  BY <1>8 DEF Ongoing, Kept
<1>9. QED
  BY <1>6, <1>7, <1>8

(* Two calls before others are pushed one after the other.                 *)
LEMMA TwoCalls ==
  ASSUME NEW S, NEW s \in Seq(S), NEW a \in S, NEW b \in S
  PROVE  <<a, b>> \o s = <<a>> \o (<<b>> \o s)
<1>1. <<a>> \in Seq(S) /\ <<b>> \in Seq(S) /\ <<a, b>> = <<a>> \o <<b>>
  <2>1. <<a>> \in Seq(S) /\ <<b>> \in Seq(S) /\ <<a, b>> \in Seq(S)
    OBVIOUS
  <2>2. Len(<<a, b>>) = 2 /\ <<a, b>>[1] = a /\ <<a, b>>[2] = b /\ Len(<<b>>) = 1 /\ <<b>>[1] = b
    OBVIOUS
  <2> DEFINE t == <<b>>
             u == <<a, b>>
  <2> HIDE DEF t, u
  <2>3. /\ <<a>> \o t \in Seq(S) /\ Len(<<a>> \o t) = Len(t) + 1
        /\ (<<a>> \o t)[1] = a /\ \A k \in 1 .. Len(t) : (<<a>> \o t)[k + 1] = t[k]
    BY <2>1, PushIs DEF t
  <2>4. u \in Seq(S) /\ Len(u) = 2 /\ u[1] = a /\ u[2] = b /\ Len(t) = 1 /\ t[1] = b
    BY <2>1, <2>2 DEF t, u
  <2>5. \A k \in 1 .. Len(u) : u[k] = (<<a>> \o t)[k]
    <3>1. (<<a>> \o t)[1 + 1] = b
      BY <2>3, <2>4
    <3>2. \A k \in 1 .. 2 : k = 1 \/ k = 2
      OBVIOUS
    <3>3. QED
      BY <2>3, <2>4, <3>1, <3>2
  <2>6. u = <<a>> \o t
    BY <2>3, <2>4, <2>5, SeqEqual
  <2>7. QED
    BY <2>1, <2>6 DEF t, u
<1>2. Associative(S)
  BY ThreeInARow
<1>3. (<<a>> \o <<b>>) \o s = <<a>> \o (<<b>> \o s)
  BY ONLY <1>1, <1>2, s \in Seq(S), Zenon DEF Associative
<1>4. QED
  BY <1>1, <1>3

LEMMA SharedOfIs ==
  ASSUME NEW c \in Class, NEW known, NEW objs
  PROVE  SharedOf(c) \in CallSet(known, objs) /\ SharedOf(c).of = "shared" /\ ~SharedOf(c).ready
<1> DEFINE left == ByName(NamesOf(c, TRUE))
           a    == SharedOf(c)
<1>1. NamesOf(c, TRUE) \subseteq Field
  BY DEF NamesOf
<1>2. left \in Seq(NamesOf(c, TRUE)) /\ left \in Seq(Field)
  BY <1>1, ByNameIs, SeqMonotonic
<1>3. a = [of |-> "shared", class |-> c, left |-> left, ready |-> FALSE]
  BY DEF SharedOf
<1> HIDE DEF left, a
<1>4. a \in [of : {"shared"}, class : Class, left : Seq(Field), ready : BOOLEAN]
  BY <1>2, <1>3
<1>5. a.of = "shared" /\ a.class = c /\ a.left = left /\ ~a.ready
  BY <1>3
<1>6. a \in SharedCalls(known)
  BY <1>2, <1>4, <1>5 DEF SharedCalls, left
<1>7. QED
  BY <1>5, <1>6 DEF CallSet, a

LEMMA SharedInitStep ==
  ASSUME Ongoing, SharedInit
  PROVE  Kept
<1> DEFINE b     == Shorter(Call)
           more  == <<b>> \o Rest
           inner == Classes(shape.tree[AtHead])
           under == IF NamesOf(AtHead, TRUE) = {} THEN <<Advance>> \o Rest ELSE <<SharedOf(AtHead), Advance>> \o Rest
<1>1. calls # <<>> /\ Call.of = "classes" /\ Call.left # <<>>
  BY DEF SharedInit, In
<1>2. Call \in CallsNow /\ Rest \in Seq(CallsNow) /\ Nested(Rest) /\ Fits(Call, Rest)
  BY <1>1, CallIs
<1>3. b \in CallsNow /\ b.of = "classes" /\ b = Advance
  BY <1>1, <1>2, CallShorter DEF CallsNow, Advance, Shorter
<1>4. AtHead \in Class
  <2>1. Call.left \in Seq(Class)
    BY <1>1, <1>2, CallKinds DEF CallsNow, ListCalls
  <2>2. QED
    BY <1>1, <2>1, HeadAndTail DEF AtHead
<1>5. more \in Seq(CallsNow) /\ Nested(more) /\ more # <<>> /\ Head(more) = b
  <2>1. Fits(b, Rest)
    BY <1>1, <1>2, <1>3 DEF Fits, Rests
  <2>2. QED
    BY <1>2, <1>3, <2>1, NestedPush
<1>6. under \in Seq(CallsNow) /\ Nested(under) /\ under # <<>>
      /\ (Head(under).of = "classes" \/ (Head(under).of = "shared" /\ ~Head(under).ready))
  <2>1. CASE NamesOf(AtHead, TRUE) = {}
    BY <1>3, <1>5, <2>1
  <2>2. CASE NamesOf(AtHead, TRUE) # {}
    <3> DEFINE a == SharedOf(AtHead)
    <3>1. a \in CallsNow /\ a.of = "shared" /\ ~a.ready
      BY <1>4, SharedOfIs DEF CallsNow
    <3> HIDE DEF a, more, b
    <3>2. Fits(a, more)
      BY <1>3, <1>5, <3>1 DEF Fits, Rests
    <3>3. <<a>> \o more \in Seq(CallsNow) /\ Nested(<<a>> \o more) /\ <<a>> \o more # <<>> /\ Head(<<a>> \o more) = a
      BY <1>5, <3>1, <3>2, NestedPush
    <3>4. <<a, b>> \o Rest = <<a>> \o more
      BY <1>2, <1>3, <3>1, TwoCalls DEF more
    <3>5. under = <<a>> \o more
      BY <1>3, <2>2, <3>4 DEF a
    <3> HIDE DEF under
    <3>6. QED
      BY <3>1, <3>3, <3>5
  <2>3. QED
    BY <2>1, <2>2
<1>7. inner \in CallsNow /\ inner.of = "classes"
  <2>1. shape.tree[AtHead] \in Seq(Class)
    BY <1>4, TreeIs DEF Ongoing, ProgramSound, Places
  <2>2. inner \in ListCalls /\ inner.of = "classes"
    BY <2>1 DEF Classes, ListCalls
  <2>3. QED
    BY <2>2 DEF CallsNow, CallSet
<1>8. (calls' = <<inner>> \o under \/ calls' = calls) /\ UNCHANGED <<sharedMem, objects>>
  BY DEF SharedInit, Push
<1> HIDE DEF inner, under
<1>9. Fits(inner, under)
  BY <1>6, <1>7 DEF Fits, Rests
<1>10. <<inner>> \o under \in Seq(CallsNow) /\ Nested(<<inner>> \o under)
  BY <1>6, <1>7, <1>9, NestedPush
<1>11. calls \in Seq(CallsNow) /\ Nested(calls)
  BY DEF Ongoing, DataSound, CallsNow
<1>12. QED
  BY <1>8, <1>10, <1>11, OnlyCalls

LEMMA ReturnStep ==
  ASSUME Ongoing, calls # <<>>, calls' = Rest, UNCHANGED <<sharedMem, objects>>
  PROVE  Kept
BY CallIs, OnlyCalls

LEMMA AddClassStep ==
  ASSUME Ongoing, AddClass
  PROVE  Kept
<1> DEFINE c == Call.class
           b == [Call EXCEPT !.ready = TRUE]
           K == Cardinality(NamesOf(c, TRUE))
<1>1. calls # <<>> /\ Call.of = "shared" /\ ~Call.ready /\ objects' = objects
  BY DEF AddClass, In
<1>2. Call \in CallsNow /\ Rest \in Seq(CallsNow) /\ Nested(Rest) /\ Fits(Call, Rest)
  BY <1>1, CallIs
<1>3. CASE c \in shape.templates
  BY <1>1, <1>3, ReturnStep DEF AddClass
<1>4. CASE c \notin shape.templates
  <2>1. /\ calls' = <<b>> \o Rest
        /\ sharedMem' = [d \in DOMAIN sharedMem \cup {c} |->
             IF d = c THEN [i \in 0 .. Len(Call.left) - 1 |-> Garbage] ELSE sharedMem[d]]
    BY <1>4 DEF AddClass
  <2>2. Call \in SharedCalls(DOMAIN sharedMem)
    BY <1>1, <1>2, CallKinds DEF CallsNow
  <2>3. /\ Call \in [of : {"shared"}, class : Class, left : Seq(Field), ready : BOOLEAN]
        /\ Call.left \in Seq(NamesOf(c, TRUE)) /\ Call.left = ByName(NamesOf(c, TRUE)) /\ c \in Class
    BY <1>1, <2>2 DEF SharedCalls
  <2>4. Len(Call.left) = K
    <3>1. NamesOf(c, TRUE) \subseteq Field
      BY DEF NamesOf
    <3>2. QED
      BY <2>3, <3>1, ByNameIs
  <2>5. DOMAIN sharedMem' = DOMAIN sharedMem \cup {c}
    BY <2>1
  <2>6. sharedMem'[c] = [i \in 0 .. K - 1 |-> Garbage]
    BY <2>1, <2>4
  <2>7. \A d \in DOMAIN sharedMem : d # c => sharedMem'[d] = sharedMem[d]
    BY <2>1
  <2>8. sharedMem'[c] \in [0 .. K - 1 -> Garbage .. Len(objects)]
    <3>1. Garbage \in Garbage .. Len(objects)
      BY ObjectsCount DEF Garbage
    <3>2. QED
      BY <2>6, <3>1
  <2>9. MemSound(sharedMem', Len(objects))
    BY <2>3, <2>5, <2>7, <2>8 DEF Ongoing, DataSound, MemSound
  <2> DEFINE C == CallSet(DOMAIN sharedMem', objects)
  <2>10. CallsNow \subseteq C
    BY <2>5, CallsStay DEF CallsNow, More
  <2>11. b \in C /\ b.of = "shared"
    <3>1. b \in [of : {"shared"}, class : Class, left : Seq(Field), ready : BOOLEAN]
      BY <2>3
    <3>2. b.class = c /\ b.left = Call.left /\ b.ready /\ b.of = "shared"
      BY <1>1, <2>3
    <3> HIDE DEF b
    <3>3. b \in SharedCalls(DOMAIN sharedMem')
      BY <1>4, <2>3, <2>5, <3>1, <3>2 DEF SharedCalls
    <3>4. QED
      BY <3>2, <3>3 DEF CallSet
  <2> HIDE DEF b, C
  <2>12. Rest \in Seq(C)
    BY <1>2, <2>10, SeqMonotonic
  <2>13. Fits(b, Rest)
    BY <1>1, <1>2, <2>11 DEF Fits, Rests
  <2>14. calls' \in Seq(C) /\ Nested(calls')
    BY <1>2, <2>1, <2>11, <2>12, <2>13, NestedPush
  <2>15. QED
    BY <1>1, <2>9, <2>14 DEF Ongoing, Kept, DataSound, C
<1>5. QED
  BY <1>3, <1>4

LEMMA InitialisingStep ==
  ASSUME Ongoing, Initialising
  PROVE  Kept
<1>1. LeaveList \/ LeaveShared => Kept
  BY InitialisingIs, ReturnStep DEF LeaveList, LeaveShared, Return, Initialising
<1>2. QED
  BY <1>1, SharedInitStep, AddClassStep, InitPlainStep, ReadSharedStep, ReadOwnStep, InitDefaultStep,
     InitNewStep, ConstructStep DEF Initialising
-----------------------------------------------------------------------------
(* What is under way is sound as long as the interpreter runs, and before  *)
(* the initialisation there is nothing.                                    *)
Blank == calls = <<>> /\ sharedMem = <<>> /\ objects = <<>> /\ inits = <<>> /\ reads = {}

StartSound ==
  /\ phase \in {"options", "parse", "exec"} \cup Ended /\ status \in 0 .. 3
  /\ phase \in {"options", "parse"} => Blank
  /\ DataSound(calls, sharedMem, objects)

LEMMA BlankSound == Blank => DataSound(calls, sharedMem, objects)
<1> SUFFICES ASSUME Blank PROVE DataSound(calls, sharedMem, objects)
  OBVIOUS
<1>1. calls \in Seq(CallSet(DOMAIN sharedMem, objects)) /\ Nested(calls)
  BY DEF Blank, Nested
<1>2. MemSound(sharedMem, Len(objects))
  BY DEF Blank, MemSound
<1>3. MadeSo(objects, Len(objects))
  BY DEF Blank, MadeSo
<1>4. QED
  BY <1>1, <1>2, <1>3 DEF DataSound

(* The same program: what was kept is sound in the next state. *)
LEMMA KeptIs == UNCHANGED program /\ Kept => DataSound(calls, sharedMem, objects)'
<1> SUFFICES ASSUME UNCHANGED program, Kept PROVE DataSound(calls, sharedMem, objects)'
  OBVIOUS
<1>1. declared' = declared /\ shape' = shape
  BY DEF program
<1>2. \A c : \A s : NamesOf(c, s)' = NamesOf(c, s)
  BY <1>1 DEF NamesOf
<1>3. SharedCalls(DOMAIN sharedMem)' = SharedCalls(DOMAIN sharedMem')
  BY <1>1, <1>2 DEF SharedCalls
<1>4. InstanceCalls(objects)' = InstanceCalls(objects')
  BY <1>1, <1>2 DEF InstanceCalls
<1>5. CallSet(DOMAIN sharedMem, objects)' = CallSet(DOMAIN sharedMem', objects')
  BY <1>3, <1>4 DEF CallSet
<1>6. MemSound(sharedMem, Len(objects))' <=> MemSound(sharedMem', Len(objects'))
  BY <1>2 DEF MemSound
<1>7. MadeSo(objects, Len(objects))' <=> MadeSo(objects', Len(objects'))
  BY <1>1 DEF MadeSo
<1>8. QED
  BY <1>5, <1>6, <1>7 DEF Kept, DataSound

LEMMA StartSoundInit == Init => StartSound
<1> SUFFICES ASSUME Init PROVE StartSound
  OBVIOUS
<1>1. Blank
  BY DEF Init, Blank
<1>2. QED
  BY <1>1, BlankSound DEF Init, StartSound

LEMMA StartSoundNext == ProgramSound /\ Started /\ StartSound /\ [Next]_vars => StartSound'
<1> SUFFICES ASSUME ProgramSound, Started, StartSound, [Next]_vars PROVE StartSound'
  OBVIOUS
<1>1. UNCHANGED <<program, work>> => DataSound(calls, sharedMem, objects)' /\ (Blank => Blank')
  <2>1. UNCHANGED <<program, work>> => Kept
    BY DEF work, Kept, StartSound
  <2>2. QED
    BY <2>1, KeptIs DEF work, Blank
<1>2. CASE ReadOptions
  BY <1>1, <1>2 DEF ReadOptions, Stop, StartSound, Ended
<1>3. CASE AddField
  <2>1. Blank' /\ phase = "parse" /\ UNCHANGED <<phase, status>>
    BY <1>3 DEF AddField, StartSound, Blank, work
  <2>2. DataSound(calls, sharedMem, objects)'
    BY <2>1, BlankSound, PTL
  <2>3. QED
    BY <2>1, <2>2 DEF StartSound
<1>4. CASE Resolve
  <2>1. phase = "parse" /\ Blank
    BY <1>4 DEF Resolve, StartSound
  <2>2. CASE UNCHANGED <<program, work>>
    <3>1. phase' \in {"stopped", "failed", "exec"} /\ status' \in {status, 0, 2}
      BY <1>4 DEF Resolve, Stop
    <3>2. DataSound(calls, sharedMem, objects)'
      BY <1>1, <2>2
    <3>3. QED
      BY <3>1, <3>2 DEF StartSound, Ended
  <2>3. CASE ~UNCHANGED <<program, work>>
    <3>1. /\ phase' = "exec" /\ calls' = <<Classes(shape.tree[Root])>>
          /\ UNCHANGED <<status, program, sharedMem, objects, inits, reads>>
      BY <1>4, <2>3 DEF Resolve, Stop
    <3>2. shape.tree[Root] \in Seq(Class)
      BY TreeIs DEF ProgramSound, Places
    <3> DEFINE a == Classes(shape.tree[Root])
    <3>3. a \in ListCalls /\ a.of = "classes"
      BY <3>2 DEF Classes, ListCalls
    <3> DEFINE C == CallSet(DOMAIN sharedMem, objects)
    <3>4. a \in C
      BY <3>3 DEF CallSet
    <3> HIDE DEF a, C
    <3>5. <<a>> \in Seq(C) /\ Nested(<<a>>)
      BY <3>3, <3>4 DEF Nested
    <3>6. Kept
      BY <3>1, <3>5 DEF StartSound, DataSound, Kept, a, C
    <3>7. QED
      BY <3>1, <3>6, KeptIs DEF StartSound
  <2>4. QED
    BY <2>2, <2>3
<1>5. CASE Initialising
  <2>1. /\ phase = "exec" /\ calls # <<>> /\ phase' \in {"exec", "overflow", "crashed", "failed"}
        /\ UNCHANGED <<status, program>>
    BY <1>5, InitialisingIs
  <2>2. Ongoing
    BY <2>1 DEF Ongoing, Started, StartSound
  <2>3. Kept
    BY <1>5, <2>2, InitialisingStep
  <2>4. DataSound(calls, sharedMem, objects)'
    BY <2>1, <2>3, KeptIs
  <2>5. QED
    BY <2>1, <2>4 DEF StartSound, Ended
<1>6. CASE CallMain
  BY <1>1, <1>6 DEF CallMain, Stop, StartSound, Ended
<1>7. CASE UNCHANGED vars
  BY <1>1, <1>7 DEF vars, StartSound
<1>8. QED
  BY <1>2, <1>3, <1>4, <1>5, <1>6, <1>7, NextIs

(* The state of the interpreter while it starts.                           *)
StartInv == ProgramSound /\ Started /\ StartSound

LEMMA StartInvInit == Init => StartInv
BY ProgramInit, StartedInit, StartSoundInit DEF StartInv

LEMMA StartInvNext == StartInv /\ [Next]_vars => StartInv'
BY ProgramNext, StartedNext, StartSoundNext DEF StartInv

LEMMA StartInvType == StartInv => TypeOK
<1> SUFFICES ASSUME StartInv PROVE TypeOK
  OBVIOUS
<1>1. phase \in {"options", "parse", "exec"} \cup Ended /\ status \in 0 .. 3
  BY DEF StartInv, StartSound
<1>2. MemSound(sharedMem, Len(objects)) /\ MadeSo(objects, Len(objects))
  BY DEF StartInv, StartSound, DataSound
<1>3. ASSUME NEW c \in DOMAIN sharedMem
      PROVE  /\ DOMAIN sharedMem[c] = {Index(c, f) : f \in NamesOf(c, TRUE)}
             /\ \A i \in DOMAIN sharedMem[c] : sharedMem[c][i] \in Value
  <2>1. c \in Class /\ sharedMem[c] \in [0 .. Cardinality(NamesOf(c, TRUE)) - 1 -> Value]
    BY <1>2 DEF MemSound, Value
  <2>2. \A s : {Index(c, f) : f \in NamesOf(c, s)} = 0 .. Cardinality(NamesOf(c, s)) - 1
    BY ONLY <2>1, StartInv, IndexOnto DEF StartInv
  <2>3. QED
    BY <2>1, <2>2
<1>4. ASSUME NEW o \in DOMAIN objects
      PROVE  LET c == objects[o].class
             IN  /\ {Index(c, f) : f \in NamesOf(c, FALSE)} = 0 .. Cardinality(NamesOf(c, FALSE)) - 1
                 /\ \A i \in DOMAIN objects[o].fields : objects[o].fields[i] \in Value
  <2> DEFINE c == objects[o].class
  <2>1. objects \in Seq([class : Class, fields : Arrays]) /\ o \in 1 .. Len(objects)
    BY <1>2, LenProperties DEF MadeSo
  <2>2. c \in Class
    <3>1. objects[o] \in [class : Class, fields : Arrays]
      BY <2>1, ElementOfSeq
    <3>2. QED
      BY <3>1
  <2>3. objects[o].fields \in [0 .. Len(declared[c]) - 1 -> Value]
    BY <1>2 DEF MadeSo, Value
  <2> HIDE DEF c
  <2>4. \A s : {Index(c, f) : f \in NamesOf(c, s)} = 0 .. Cardinality(NamesOf(c, s)) - 1
    BY ONLY <2>2, StartInv, IndexOnto DEF StartInv
  <2>5. QED
    BY <2>3, <2>4 DEF c
<1>5. QED
  BY <1>1, <1>3, <1>4 DEF TypeOK

(* While the interpreter starts a program, a class has as many places as   *)
(* it has shared fields, every field has a place of its own in the array   *)
(* addField gave it, and what is in it is a value (TypeOK).                *)
THEOREM StartHasItsShape == Spec => []TypeOK
<1>1. Spec => []StartInv
  BY StartInvInit, StartInvNext, PTL DEF Spec
<1>2. QED
  BY <1>1, StartInvType, PTL
-----------------------------------------------------------------------------
(* What the calls under way still have to initialise.                      *)
AnyCalls ==
  ListCalls \cup [of : {"shared"}, class : Class, left : Seq(Field), ready : BOOLEAN]
            \cup [of : {"instance"}, class : Class, me : Nat, left : Seq(Field), args : BOOLEAN]

PairsOf(c, left) == [i \in DOMAIN left |-> <<c, left[i]>>]

Todo(a) ==
  CASE a.of = "classes" -> InnerPairs(SharedOfTree, a.left)
    [] a.of = "shared" /\ a.class \notin shape.templates -> PairsOf(a.class, a.left)
    [] OTHER -> <<>>

TodoOf == [a \in AnyCalls |-> Todo(a)]

Remains(cs) == InnerPairs(TodoOf, cs)

LEMMA AnyCall ==
  ASSUME NEW known, NEW objs
  PROVE  CallSet(known, objs) \subseteq AnyCalls
BY DEF CallSet, AnyCalls, SharedCalls, InstanceCalls

LEMMA PairsOfIs ==
  ASSUME NEW c \in Class, NEW left \in Seq(Field)
  PROVE  /\ PairsOf(c, left) \in Seq(Pairs) /\ PairsOf(c, <<>>) = <<>>
         /\ left # <<>> => PairsOf(c, left) = << <<c, Head(left)>> >> \o PairsOf(c, Tail(left))
<1>1. ASSUME NEW s \in Seq(Field)
      PROVE  PairsOf(c, s) \in Seq(Pairs) /\ Len(PairsOf(c, s)) = Len(s) /\ \A i \in 1 .. Len(s) : PairsOf(c, s)[i] = <<c, s[i]>>
  <2>1. DOMAIN s = 1 .. Len(s) /\ Len(s) \in Nat /\ \A i \in DOMAIN s : s[i] \in Field
    BY LenProperties, ElementOfSeq
  <2>2. PairsOf(c, s) \in [1 .. Len(s) -> Pairs]
    BY <2>1 DEF PairsOf, Pairs
  <2>3. PairsOf(c, s) \in Seq(Pairs) /\ Len(PairsOf(c, s)) = Len(s)
    BY <2>1, <2>2, SeqDef, LenProperties
  <2>4. QED
    BY <2>1, <2>3 DEF PairsOf
<1>2. PairsOf(c, <<>>) = <<>>
  BY DEF PairsOf
<1>3. ASSUME left # <<>> PROVE PairsOf(c, left) = << <<c, Head(left)>> >> \o PairsOf(c, Tail(left))
  <2> DEFINE rest == Tail(left)
             all  == PairsOf(c, left)
             more == PairsOf(c, rest)
             one  == <<c, Head(left)>>
  <2>1. /\ Head(left) \in Field /\ Head(left) = left[1] /\ rest \in Seq(Field)
        /\ Len(left) \in Nat \ {0} /\ Len(rest) = Len(left) - 1
        /\ \A k \in 1 .. Len(rest) : rest[k] = left[k + 1]
    BY <1>3, HeadAndTail
  <2> HIDE DEF rest
  <2>2. /\ all \in Seq(Pairs) /\ Len(all) = Len(left) /\ \A i \in 1 .. Len(left) : all[i] = <<c, left[i]>>
        /\ more \in Seq(Pairs) /\ Len(more) = Len(rest) /\ \A i \in 1 .. Len(rest) : more[i] = <<c, rest[i]>>
    BY <1>1, <2>1
  <2>3. one \in Pairs /\ one = <<c, left[1]>>
    BY <2>1 DEF Pairs
  <2> HIDE DEF all, more, one
  <2>4. /\ <<one>> \o more \in Seq(Pairs) /\ Len(<<one>> \o more) = Len(more) + 1
        /\ (<<one>> \o more)[1] = one /\ \A k \in 1 .. Len(more) : (<<one>> \o more)[k + 1] = more[k]
    BY <2>2, <2>3, PushIs
  <2>5. ASSUME NEW j \in 1 .. Len(left) PROVE all[j] = (<<one>> \o more)[j]
    <3>1. CASE j = 1
      BY <2>1, <2>2, <2>3, <2>4, <3>1
    <3>2. CASE j # 1
      <4>1. PICK k \in 1 .. Len(rest) : j = k + 1
        BY <2>1, <3>2
      <4>2. all[j] = <<c, rest[k]>> /\ more[k] = <<c, rest[k]>>
        BY <2>1, <2>2, <4>1
      <4>3. QED
        BY <2>2, <2>4, <4>1, <4>2
    <3>3. QED
      BY <3>1, <3>2
  <2>6. Len(<<one>> \o more) = Len(all)
    BY <2>1, <2>2, <2>4
  <2>7. QED
    BY <2>2, <2>4, <2>5, <2>6, SeqEqual DEF all, more, one, rest
<1>4. QED
  BY <1>1, <1>2, <1>3

LEMMA OwnPairsIs ==
  ASSUME NEW c \in Class
  PROVE  /\ c \notin shape.templates => OwnPairs(c) = PairsOf(c, ByName(NamesOf(c, TRUE)))
         /\ c \in shape.templates => OwnPairs(c) = <<>>
         /\ NamesOf(c, TRUE) = {} => OwnPairs(c) = <<>>
<1>1. c # Root
  BY StartupAssumption
<1>2. c \notin shape.templates => OwnPairs(c) = PairsOf(c, ByName(NamesOf(c, TRUE)))
  BY <1>1 DEF OwnPairs, PairsOf
<1>3. c \in shape.templates => OwnPairs(c) = <<>>
  BY DEF OwnPairs
<1>4. ASSUME NamesOf(c, TRUE) = {} PROVE ByName(NamesOf(c, TRUE)) = <<>>
  <2>1. ByName({}) \in Seq({}) /\ Len(ByName({})) = Cardinality({})
    BY ByNameIs
  <2>2. Cardinality({}) = 0
    BY FS_EmptySet
  <2>3. QED
    BY <1>4, <2>1, <2>2, EmptySeq
<1>5. \A s : s = <<>> => PairsOf(c, s) = <<>>
  BY DEF PairsOf
<1>6. QED
  BY <1>2, <1>3, <1>4, <1>5

LEMMA TreePairs ==
  ASSUME shape \in Shapes, NEW list \in Seq(Class)
  PROVE  /\ InnerPairs(SharedOfTree, list) \in Seq(Pairs)
         /\ list # <<>> => InnerPairs(SharedOfTree, list)
                             = SharedOfTree[Head(list)] \o InnerPairs(SharedOfTree, Tail(list))
<1>1. \A i \in DOMAIN list : SharedOfTree[list[i]] \in Seq(Pairs)
  <2>1. \A i \in DOMAIN list : list[i] \in Places
    BY LenProperties, ElementOfSeq DEF Places
  <2>2. QED
    BY <2>1, SharedOfTreeIs
<1>2. QED
  BY <1>1, InnerType, InnerCons

LEMMA TodoIs ==
  ASSUME shape \in Shapes, NEW a \in AnyCalls
  PROVE  Todo(a) \in Seq(Pairs) /\ TodoOf[a] = Todo(a)
<1>1. CASE a \in ListCalls
  <2>1. a.of = "classes" /\ a.left \in Seq(Class)
    BY <1>1 DEF ListCalls
  <2>2. InnerPairs(SharedOfTree, a.left) \in Seq(Pairs)
    BY <2>1, TreePairs
  <2>3. QED
    BY <2>1, <2>2 DEF Todo, TodoOf
<1>2. CASE a \in [of : {"shared"}, class : Class, left : Seq(Field), ready : BOOLEAN]
  <2>1. a.of = "shared" /\ a.class \in Class /\ a.left \in Seq(Field)
    BY <1>2
  <2>2. PairsOf(a.class, a.left) \in Seq(Pairs)
    BY <2>1, PairsOfIs
  <2>3. QED
    BY <2>1, <2>2 DEF Todo, TodoOf
<1>3. CASE a \in [of : {"instance"}, class : Class, me : Nat, left : Seq(Field), args : BOOLEAN]
  BY <1>3 DEF Todo, TodoOf
<1>4. QED
  BY <1>1, <1>2, <1>3 DEF AnyCalls

LEMMA RemainsIs ==
  ASSUME shape \in Shapes, NEW cs \in Seq(AnyCalls)
  PROVE  /\ Remains(cs) \in Seq(Pairs)
         /\ cs # <<>> => /\ Remains(Tail(cs)) \in Seq(Pairs)
                         /\ Remains(cs) = Todo(Head(cs)) \o Remains(Tail(cs))
<1>1. \A i \in DOMAIN cs : cs[i] \in AnyCalls
  BY LenProperties, ElementOfSeq
<1>2. \A i \in DOMAIN cs : TodoOf[cs[i]] \in Seq(Pairs)
  BY <1>1, TodoIs
<1>3. Remains(cs) \in Seq(Pairs)
  BY <1>2, InnerType DEF Remains
<1>4. ASSUME cs # <<>>
      PROVE  /\ Remains(Tail(cs)) \in Seq(Pairs)
             /\ Remains(cs) = Todo(Head(cs)) \o Remains(Tail(cs))
  <2>1. Head(cs) \in AnyCalls
    BY <1>4, HeadAndTail
  <2>2. TodoOf[Head(cs)] = Todo(Head(cs))
    BY <2>1, TodoIs
  <2>3. QED
    BY <1>2, <1>4, <2>2, InnerCons DEF Remains
<1>5. QED
  BY <1>3, <1>4

LEMMA RemainsPush ==
  ASSUME shape \in Shapes, NEW cs \in Seq(AnyCalls), NEW a \in AnyCalls
  PROVE  Remains(<<a>> \o cs) = Todo(a) \o Remains(cs) /\ <<a>> \o cs \in Seq(AnyCalls)
<1> DEFINE t == <<a>> \o cs
<1>1. /\ t \in Seq(AnyCalls) /\ Len(t) = Len(cs) + 1 /\ Len(cs) \in Nat
      /\ t[1] = a /\ \A k \in 1 .. Len(cs) : t[k + 1] = cs[k]
  BY PushIs
<1> HIDE DEF t
<1>2. t # <<>>
  BY <1>1, EmptySeq
<1>3. /\ Head(t) = t[1] /\ Tail(t) \in Seq(AnyCalls) /\ Len(Tail(t)) = Len(t) - 1
      /\ \A k \in 1 .. Len(Tail(t)) : Tail(t)[k] = t[k + 1]
  BY <1>1, <1>2, HeadAndTail
<1>4. Tail(t) = cs
  BY <1>1, <1>3, SeqEqual
<1>5. QED
  BY <1>1, <1>2, <1>3, <1>4, RemainsIs DEF t

(* The fields initialised so far and those that remain are the whole order. *)
InTurn  == inits \in Seq(Pairs) /\ inits \o Remains(calls) = Order
Follows == inits' \in Seq(Pairs) /\ inits' \o Remains(calls') = Order

LEMMA CallsRemain ==
  ASSUME Ongoing, NEW s \in Seq(CallsNow), s # <<>>
  PROVE  /\ s \in Seq(AnyCalls) /\ Head(s) \in CallsNow /\ Head(s) \in AnyCalls /\ Tail(s) \in Seq(AnyCalls)
         /\ Todo(Head(s)) \in Seq(Pairs) /\ Remains(Tail(s)) \in Seq(Pairs)
         /\ Remains(s) = Todo(Head(s)) \o Remains(Tail(s))
<1>1. CallsNow \subseteq AnyCalls
  BY AnyCall DEF CallsNow
<1>2. s \in Seq(AnyCalls)
  BY <1>1, SeqMonotonic
<1>3. Head(s) \in CallsNow /\ Tail(s) \in Seq(CallsNow)
  BY HeadAndTail
<1>4. Head(s) \in AnyCalls /\ Tail(s) \in Seq(AnyCalls)
  BY <1>1, <1>3, SeqMonotonic
<1>5. shape \in Shapes
  BY DEF Ongoing, ProgramSound
<1>6. QED
  BY <1>2, <1>3, <1>4, <1>5, RemainsIs, TodoIs

LEMMA SameTurn ==
  ASSUME InTurn, inits' = inits, calls' = calls \/ Remains(calls') = Remains(calls)
  PROVE  Follows
BY DEF InTurn, Follows

LEMMA StoreTurn ==
  ASSUME Ongoing, InTurn, NEW under \in Seq(CallsNow), under # <<>>, Remains(under) = Remains(calls),
         Head(under).of # "classes", Head(under).left # <<>>, Head(under).of = "shared" => Head(under).ready,
         NEW v, Store(v, under)
  PROVE  Follows
<1> DEFINE c == Head(under)
           b == Shorter(c)
           R == Remains(Tail(under))
           p == <<c.class, Head(c.left)>>
<1>1. /\ c \in CallsNow /\ c \in AnyCalls /\ Tail(under) \in Seq(AnyCalls)
      /\ Todo(c) \in Seq(Pairs) /\ R \in Seq(Pairs) /\ Remains(under) = Todo(c) \o R
  BY CallsRemain
<1>2. b \in CallsNow /\ b.of = c.of
  BY <1>1, CallShorter DEF CallsNow
<1>3. calls' = <<b>> \o Tail(under)
  BY DEF Store, Shorter
<1>4. shape \in Shapes
  BY DEF Ongoing, ProgramSound
<1>5. b \in AnyCalls
  BY <1>2, AnyCall DEF CallsNow
<1>6. Remains(calls') = Todo(b) \o R /\ Todo(b) \in Seq(Pairs)
  <2> HIDE DEF b
  <2>1. QED
    BY <1>1, <1>3, <1>4, <1>5, RemainsPush, TodoIs
<1>7. CASE c.of = "shared"
  <2>1. c \in SharedCalls(DOMAIN sharedMem)
    BY <1>1, <1>7, CallKinds DEF CallsNow
  <2>2. c \in [of : {"shared"}, class : Class, left : Seq(Field), ready : BOOLEAN] /\ c.class \notin shape.templates
    BY <1>7, <2>1 DEF SharedCalls
  <2>3. c.class \in Class /\ c.left \in Seq(Field) /\ b.class = c.class /\ b.left = Tail(c.left) /\ b.of = "shared"
    BY <2>2 DEF Shorter
  <2> DEFINE Q == PairsOf(c.class, Tail(c.left))
  <2>4. Todo(b) = Q
    BY <2>2, <2>3 DEF Todo
  <2>5. Todo(c) = <<p>> \o Q
    <3>1. Todo(c) = PairsOf(c.class, c.left)
      BY <1>7, <2>2 DEF Todo
    <3>2. QED
      BY <2>3, <3>1, PairsOfIs
  <2>6. p \in Pairs
    BY <2>3, HeadAndTail DEF Pairs
  <2>7. inits' = Append(inits, p)
    BY <1>7 DEF Store
  <2>8. inits \in Seq(Pairs) /\ inits \o Remains(calls) = Order
    BY DEF InTurn
  <2> HIDE DEF b, c, Q, R, p
  <2>9. inits' = inits \o <<p>> /\ inits' \in Seq(Pairs)
    BY <2>6, <2>7, <2>8, AppendIsConcat, AppendProperties
  <2>10. <<p>> \in Seq(Pairs) /\ Q \in Seq(Pairs) /\ R \in Seq(Pairs)
    BY <1>1, <1>6, <2>4, <2>6
  <2>11. Q \o R \in Seq(Pairs)
    BY <2>10, ConcatProperties
  <2>12. Associative(Pairs)
    BY ThreeInARow
  <2>13. (<<p>> \o Q) \o R = <<p>> \o (Q \o R)
    BY ONLY <2>10, <2>12, Zenon DEF Associative
  <2>14. (inits \o <<p>>) \o (Q \o R) = inits \o (<<p>> \o (Q \o R))
    <3>1. inits \in Seq(Pairs) /\ <<p>> \in Seq(Pairs)
      BY <2>8, <2>10
    <3>2. QED
      BY ONLY <2>11, <2>12, <3>1, Zenon DEF Associative
  <2>15. inits' \o Remains(calls') = inits \o ((<<p>> \o Q) \o R)
    BY ONLY <1>6, <2>4, <2>9, <2>13, <2>14
  <2>16. inits \o ((<<p>> \o Q) \o R) = Order
    BY ONLY <1>1, <2>5, <2>8, Remains(under) = Remains(calls)
  <2>17. QED
    BY <2>9, <2>15, <2>16 DEF Follows
<1>8. CASE c.of # "shared"
  <2>1. Todo(b) = <<>> /\ Todo(c) = <<>>
    BY <1>2, <1>8 DEF Todo
  <2>2. Remains(calls') = Remains(calls)
    BY <1>1, <1>6, <2>1
  <2>3. inits' = inits
    BY <1>8 DEF Store
  <2>4. QED
    BY <2>2, <2>3, SameTurn
<1>9. QED
  BY <1>7, <1>8

LEMMA StoreTopTurn ==
  ASSUME Ongoing, InTurn, InField, NEW v, Store(v, calls)
  PROVE  Follows
<1>1. calls \in Seq(CallsNow) /\ calls # <<>>
  BY DEF Ongoing, DataSound, CallsNow, InField
<1>2. Head(calls).of # "classes" /\ Head(calls).left # <<>> /\ (Head(calls).of = "shared" => Head(calls).ready)
  BY DEF InField, Call
<1>3. QED
  BY <1>1, <1>2, StoreTurn

LEMMA CallRemains ==
  ASSUME Ongoing, calls # <<>>
  PROVE  /\ Call \in CallsNow /\ Call \in AnyCalls /\ Rest \in Seq(AnyCalls)
         /\ Todo(Call) \in Seq(Pairs) /\ Remains(Rest) \in Seq(Pairs)
         /\ Remains(calls) = Todo(Call) \o Remains(Rest)
         /\ shape \in Shapes
<1>1. calls \in Seq(CallsNow)
  BY DEF Ongoing, DataSound, CallsNow
<1>2. shape \in Shapes
  BY DEF Ongoing, ProgramSound
<1>3. QED
  BY <1>1, <1>2, CallsRemain DEF Call, Rest

LEMMA SharedInitTurn ==
  ASSUME Ongoing, InTurn, SharedInit
  PROVE  Follows
<1> DEFINE c     == AtHead
           b     == Shorter(Call)
           R     == Remains(Rest)
           inner == Classes(shape.tree[c])
           I     == InnerPairs(SharedOfTree, shape.tree[c])
           T     == InnerPairs(SharedOfTree, Tail(Call.left))
           under == IF NamesOf(c, TRUE) = {} THEN <<Advance>> \o Rest ELSE <<SharedOf(c), Advance>> \o Rest
<1>1. calls # <<>> /\ Call.of = "classes" /\ Call.left # <<>> /\ inits' = inits
  BY DEF SharedInit, In
<1>2. /\ Call \in CallsNow /\ Rest \in Seq(AnyCalls)
      /\ R \in Seq(Pairs) /\ Remains(calls) = Todo(Call) \o R /\ shape \in Shapes
  BY <1>1, CallRemains
<1>3. b \in AnyCalls /\ b.of = "classes" /\ b = Advance
  <2>1. b \in CallsNow /\ b.of = "classes"
    BY <1>1, <1>2, CallShorter DEF CallsNow
  <2>2. QED
    BY <2>1, AnyCall DEF CallsNow, Advance, Shorter
<1>4. Call \in ListCalls /\ Call.left \in Seq(Class) /\ c \in Class
  <2>1. Call \in ListCalls
    BY <1>1, <1>2, CallKinds DEF CallsNow
  <2>2. Call.left \in Seq(Class)
    BY <2>1 DEF ListCalls
  <2>3. QED
    BY <1>1, <2>1, <2>2, HeadAndTail DEF AtHead
<1>5. Tail(Call.left) \in Seq(Class)
  BY <1>1, <1>4, HeadAndTail
<1>6. Todo(Call) = SharedOfTree[c] \o T /\ T \in Seq(Pairs)
  BY <1>1, <1>2, <1>4, <1>5, TreePairs DEF Todo, AtHead
<1>7. SharedOfTree[c] = I \o OwnPairs(c) /\ I \in Seq(Pairs) /\ OwnPairs(c) \in Seq(Pairs) /\ shape.tree[c] \in Seq(Class)
  <2>1. c \in Places
    BY <1>4 DEF Places
  <2>2. shape.tree[c] \in Seq(Class)
    BY <1>2, <2>1, TreeIs
  <2>3. QED
    BY <1>2, <2>1, <2>2, SharedOfTreeIs, OwnType, TreePairs DEF PairsStep
<1>8. Todo(b) = T
  <2>1. b.left = Tail(Call.left) /\ b.of = "classes"
    BY <1>3, <1>4 DEF Shorter, ListCalls
  <2>2. QED
    BY <2>1 DEF Todo
<1>9. inner \in AnyCalls /\ Todo(inner) = I
  <2>1. inner \in ListCalls /\ inner.of = "classes" /\ inner.left = shape.tree[c]
    BY <1>7 DEF Classes, ListCalls
  <2>2. QED
    BY <2>1 DEF Todo, AnyCalls
<1>10. <<b>> \o Rest \in Seq(AnyCalls) /\ Remains(<<b>> \o Rest) = T \o R
  <2> HIDE DEF b
  <2>1. QED
    BY <1>2, <1>3, <1>8, RemainsPush
<1>11. under \in Seq(AnyCalls) /\ Remains(under) = OwnPairs(c) \o (T \o R)
  <2>0. T \o R \in Seq(Pairs)
    BY <1>2, <1>6, ConcatProperties
  <2>1. CASE NamesOf(c, TRUE) = {}
    <3>1. OwnPairs(c) = <<>> /\ under = <<b>> \o Rest
      BY <1>3, <1>4, <2>1, OwnPairsIs
    <3>2. <<>> \o (T \o R) = T \o R
      BY <2>0, ConcatEmptySeq
    <3> HIDE DEF under, T, R, b
    <3>3. QED
      BY <1>10, <3>1, <3>2
  <2>2. CASE NamesOf(c, TRUE) # {}
    <3> DEFINE a == SharedOf(c)
    <3>1. a \in AnyCalls
      BY <1>4, SharedOfIs, AnyCall
    <3>2. Todo(a) = OwnPairs(c)
      <4>1. a.of = "shared" /\ a.class = c /\ a.left = ByName(NamesOf(c, TRUE))
        BY DEF SharedOf
      <4>2. QED
        BY <1>4, <4>1, OwnPairsIs DEF Todo
    <3> HIDE DEF a, b
    <3>3. <<a>> \o (<<b>> \o Rest) \in Seq(AnyCalls)
          /\ Remains(<<a>> \o (<<b>> \o Rest)) = Todo(a) \o Remains(<<b>> \o Rest)
      BY <1>2, <1>10, <3>1, RemainsPush
    <3>4. <<a, b>> \o Rest = <<a>> \o (<<b>> \o Rest)
      BY <1>2, <1>3, <3>1, TwoCalls
    <3>5. under = <<a>> \o (<<b>> \o Rest)
      BY <1>3, <2>2, <3>4 DEF a
    <3> HIDE DEF under, T, R
    <3>6. QED
      BY <1>10, <3>2, <3>3, <3>5
  <2>3. QED
    BY <2>1, <2>2
<1>12. calls' = <<inner>> \o under \/ calls' = calls
  BY DEF SharedInit, Push
<1> HIDE DEF inner, under, I, T, R, b
<1>13. Remains(<<inner>> \o under) = I \o (OwnPairs(c) \o (T \o R))
  BY <1>2, <1>9, <1>11, RemainsPush
<1>14. I \o (OwnPairs(c) \o (T \o R)) = ((I \o OwnPairs(c)) \o T) \o R
  <2> DEFINE O == OwnPairs(c)
  <2>1. I \in Seq(Pairs) /\ O \in Seq(Pairs)
    BY <1>7
  <2>2. T \in Seq(Pairs) /\ R \in Seq(Pairs)
    BY <1>2, <1>6
  <2> HIDE DEF O
  <2>3. I \o O \in Seq(Pairs)
    BY <2>1, ConcatProperties
  <2>4. T \o R \in Seq(Pairs)
    BY <2>2, ConcatProperties
  <2>5. Associative(Pairs)
    BY ThreeInARow
  <2>6. (I \o O) \o (T \o R) = I \o (O \o (T \o R))
    BY ONLY <2>1, <2>4, <2>5, Zenon DEF Associative
  <2>7. ((I \o O) \o T) \o R = (I \o O) \o (T \o R)
    BY ONLY <2>2, <2>3, <2>5, Zenon DEF Associative
  <2>8. QED
    BY ONLY <2>6, <2>7 DEF O
<1>15. Remains(<<inner>> \o under) = Remains(calls)
  BY ONLY <1>2, <1>6, <1>7, <1>13, <1>14
<1>16. QED
  BY <1>1, <1>12, <1>15, SameTurn

LEMMA ReturnTurn ==
  ASSUME Ongoing, InTurn, calls # <<>>, Todo(Call) = <<>>, calls' = Rest, inits' = inits
  PROVE  Follows
<1>1. Remains(calls') = Remains(calls)
  BY CallRemains, ConcatEmptySeq
<1>2. QED
  BY <1>1, SameTurn

LEMMA LeaveTurn ==
  ASSUME Ongoing, InTurn, LeaveList \/ LeaveShared
  PROVE  Follows
<1>1. calls # <<>> /\ calls' = Rest /\ inits' = inits /\ Call.left = <<>>
  BY DEF LeaveList, LeaveShared, Return, In
<1>2. Todo(Call) = <<>>
  <2>1. \A s : InnerPairs(SharedOfTree, s) = <<>> \/ s # <<>>
    BY InnerEmpty
  <2>2. \A c, s : PairsOf(c, s) = <<>> \/ s # <<>>
    BY DEF PairsOf
  <2>3. QED
    BY <1>1, <2>1, <2>2 DEF Todo
<1>3. QED
  BY <1>1, <1>2, ReturnTurn

LEMMA AddClassTurn ==
  ASSUME Ongoing, InTurn, AddClass
  PROVE  Follows
<1> DEFINE b == [Call EXCEPT !.ready = TRUE]
<1>1. calls # <<>> /\ Call.of = "shared" /\ inits' = inits
  BY DEF AddClass, In
<1>2. /\ Call \in CallsNow /\ Rest \in Seq(AnyCalls) /\ shape \in Shapes
      /\ Remains(calls) = Todo(Call) \o Remains(Rest)
  BY <1>1, CallRemains
<1>3. CASE Call.class \in shape.templates
  <2>1. Todo(Call) = <<>>
    BY <1>1, <1>3 DEF Todo
  <2>2. calls' = Rest
    BY <1>3 DEF AddClass
  <2>3. QED
    BY <1>1, <2>1, <2>2, ReturnTurn
<1>4. CASE Call.class \notin shape.templates
  <2>1. calls' = <<b>> \o Rest
    BY <1>4 DEF AddClass
  <2>2. Call \in [of : {"shared"}, class : Class, left : Seq(Field), ready : BOOLEAN]
    BY <1>1, <1>2, CallKinds DEF CallsNow, SharedCalls
  <2>3. b \in [of : {"shared"}, class : Class, left : Seq(Field), ready : BOOLEAN]
    BY <2>2
  <2>4. b.of = "shared" /\ b.class = Call.class /\ b.left = Call.left
    BY <2>2
  <2> HIDE DEF b
  <2>5. b \in AnyCalls /\ Todo(b) = Todo(Call)
    BY <1>1, <2>3, <2>4 DEF AnyCalls, Todo
  <2>6. Remains(calls') = Remains(calls)
    BY <1>2, <2>1, <2>5, RemainsPush
  <2>7. QED
    BY <1>1, <2>6, SameTurn
<1>5. QED
  BY <1>3, <1>4

LEMMA CreateTurn ==
  ASSUME Ongoing, InTurn, NEW c \in Class, NEW args \in BOOLEAN, CreateInstance(c, args)
  PROVE  Follows
<1> DEFINE a == Instance(c, Len(objects) + 1, args)
<1>1. (calls' = <<a>> \o calls \/ calls' = calls) /\ inits' = inits
  BY DEF CreateInstance, Push
<1>2. a \in AnyCalls /\ Todo(a) = <<>>
  <2> DEFINE left == ByName(NamesOf(c, FALSE))
  <2>1. NamesOf(c, FALSE) \subseteq Field
    BY DEF NamesOf
  <2>2. left \in Seq(Field)
    BY <2>1, ByNameIs, SeqMonotonic
  <2>3. a = [of |-> "instance", class |-> c, me |-> Len(objects) + 1, left |-> left, args |-> args]
    BY DEF Instance
  <2>4. Len(objects) + 1 \in Nat
    BY ObjectsCount
  <2> HIDE DEF left, a
  <2>5. a \in [of : {"instance"}, class : Class, me : Nat, left : Seq(Field), args : BOOLEAN] /\ a.of = "instance"
    BY <2>2, <2>3, <2>4
  <2>6. QED
    BY <2>5 DEF AnyCalls, Todo
<1>3. shape \in Shapes /\ calls \in Seq(AnyCalls)
  <2>1. calls \in Seq(CallsNow) /\ CallsNow \subseteq AnyCalls
    BY AnyCall DEF Ongoing, DataSound, CallsNow
  <2>2. QED
    BY <2>1, SeqMonotonic DEF Ongoing, ProgramSound
<1> HIDE DEF a
<1>4. Remains(<<a>> \o calls) = Todo(a) \o Remains(calls) /\ Remains(calls) \in Seq(Pairs)
  BY <1>2, <1>3, RemainsPush, RemainsIs
<1>5. Remains(<<a>> \o calls) = Remains(calls)
  BY <1>2, <1>4, ConcatEmptySeq
<1>6. QED
  BY <1>1, <1>5, SameTurn

LEMMA ConstructTurn ==
  ASSUME Ongoing, InTurn, Construct
  PROVE  Follows
<1>1. calls # <<>> /\ Call.of = "instance"
  BY DEF Construct, In
<1>2. Call \in CallsNow /\ Rest \in Seq(CallsNow) /\ Fits(Call, Rest)
  BY <1>1, CallIs
<1>3. /\ Rest # <<>> /\ Head(Rest).of # "classes" /\ Head(Rest).left # <<>>
      /\ Head(Rest).of = "shared" => Head(Rest).ready
  BY <1>1, <1>2 DEF Fits, Rests
<1>4. Remains(Rest) = Remains(calls)
  <2>1. Todo(Call) = <<>>
    BY <1>1 DEF Todo
  <2>2. QED
    BY <1>1, <2>1, CallRemains, ConcatEmptySeq
<1>5. Store(Call.me, Rest) \/ UNCHANGED <<calls, inits>>
  BY DEF Construct
<1>6. QED
  BY <1>2, <1>3, <1>4, <1>5, StoreTurn, SameTurn

LEMMA InitialisingTurn ==
  ASSUME Ongoing, InTurn, Initialising
  PROVE  Follows
<1>1. CASE InitPlain \/ ReadOwn
  <2>1. InField /\ \E v : Store(v, calls)
    BY <1>1 DEF InitPlain, ReadOwn
  <2>2. QED
    BY <2>1, StoreTopTurn
<1>2. CASE ReadShared
  <2>1. InField /\ ((\E v : Store(v, calls)) \/ UNCHANGED <<calls, inits>>)
    BY <1>2 DEF ReadShared
  <2>2. QED
    BY <2>1, StoreTopTurn, SameTurn
<1>3. CASE InitDefault \/ InitNew
  <2>1. InField /\ Source.kind \in {"default", "new"} /\ \E args \in BOOLEAN : CreateInstance(Source.class, args)
    BY <1>3 DEF InitDefault, InitNew
  <2>2. Source.class \in Class
    BY <2>1, FieldOf DEF Inits
  <2>3. QED
    BY <2>1, <2>2, CreateTurn
<1>4. QED
  BY <1>1, <1>2, <1>3, SharedInitTurn, LeaveTurn, AddClassTurn, ConstructTurn DEF Initialising

(* The same program: the order is the same. *)
LEMMA SameTree == UNCHANGED program => SharedOfTree' = SharedOfTree /\ Order' = Order
<1> SUFFICES ASSUME UNCHANGED program PROVE SharedOfTree' = SharedOfTree
  BY DEF Order
<1>1. declared' = declared /\ shape' = shape
  BY DEF program
<1>2. \A c : \A s : NamesOf(c, s)' = NamesOf(c, s)
  BY <1>1 DEF NamesOf
<1>3. QED
  BY ONLY <1>1, <1>2, ZenonT(30) DEF SharedOfTree

LEMMA FollowsIs == UNCHANGED program /\ Follows => InTurn'
<1> SUFFICES ASSUME UNCHANGED program, Follows PROVE InTurn'
  OBVIOUS
<1>1. SharedOfTree' = SharedOfTree /\ Order' = Order /\ shape' = shape
  BY SameTree DEF program
<1>2. \A a : Todo(a)' = Todo(a)
  BY <1>1 DEF Todo, InnerPairs
<1>3. TodoOf' = TodoOf
  BY <1>2 DEF TodoOf
<1>4. Remains(calls)' = Remains(calls')
  BY <1>3 DEF Remains, InnerPairs
<1>5. QED
  BY <1>1, <1>4 DEF Follows, InTurn

(* Once the initialisation began, the order is kept. *)
InOrder ==
  /\ inits \in Seq(Pairs)
  /\ phase \in {"exec", "called"} \/ calls # <<>> \/ inits # <<>> => inits \o Remains(calls) = Order
  /\ phase = "called" => calls = <<>>

LEMMA InOrderInit == Init => InOrder
BY DEF Init, InOrder

LEMMA InOrderNext == StartInv /\ InOrder /\ [Next]_vars => InOrder'
<1> SUFFICES ASSUME StartInv, InOrder, [Next]_vars PROVE InOrder'
  OBVIOUS
<1>1. UNCHANGED <<program, work>> /\ InTurn => InTurn'
  BY SameTurn, FollowsIs DEF work
<1>2. CASE ReadOptions \/ AddField
  <2>1. phase \in {"options", "parse"} /\ phase' \notin {"exec", "called"} /\ UNCHANGED <<calls, inits>>
    BY <1>2 DEF ReadOptions, AddField, Stop, work
  <2>2. calls = <<>> /\ inits = <<>>
    BY <2>1 DEF StartInv, StartSound, Blank
  <2>3. QED
    BY <2>1, <2>2 DEF InOrder
<1>3. CASE Resolve
  <2>1. phase = "parse" /\ calls = <<>> /\ inits = <<>> /\ inits' = inits
    <3>1. phase = "parse" /\ inits' = inits
      BY <1>3 DEF Resolve, Stop, work
    <3>2. QED
      BY <3>1 DEF StartInv, StartSound, Blank
  <2>2. CASE calls' = calls
    <3>1. phase' \in {"stopped", "failed"}
      BY <1>3, <2>1, <2>2 DEF Resolve, Stop
    <3>2. QED
      BY <2>1, <2>2, <3>1 DEF InOrder
  <2>3. CASE calls' # calls
    <3> DEFINE list == shape.tree[Root]
               a    == Classes(list)
    <3>1. calls' = <<a>> /\ phase' = "exec" /\ UNCHANGED program
      BY <1>3, <2>3 DEF Resolve, Stop, work
    <3>2. shape \in Shapes /\ Root \in Places /\ list \in Seq(Class)
      BY TreeIs DEF StartInv, ProgramSound, Places
    <3>3. a \in AnyCalls /\ Todo(a) = InnerPairs(SharedOfTree, list)
      <4>1. a \in ListCalls /\ a.of = "classes" /\ a.left = list
        BY <3>2 DEF Classes, ListCalls
      <4>2. QED
        BY <4>1 DEF Todo, AnyCalls
    <3>4. Order = InnerPairs(SharedOfTree, list)
      <4>1. OwnPairs(Root) = <<>>
        BY DEF OwnPairs
      <4>2. SharedOfTree[Root] = InnerPairs(SharedOfTree, list) \o <<>>
        BY <3>2, <4>1, SharedOfTreeIs DEF PairsStep
      <4>3. InnerPairs(SharedOfTree, list) \in Seq(Pairs)
        BY <3>2, TreePairs
      <4>4. QED
        BY <4>2, <4>3, ConcatEmptySeq DEF Order
    <3>5. Remains(<<a>>) = Todo(a)
      <4> HIDE DEF a
      <4>1. <<a>> \in Seq(AnyCalls) /\ <<a>> # <<>> /\ Head(<<a>>) = a /\ Tail(<<a>>) = <<>>
        BY <3>3
      <4>2. Remains(<<a>>) = Todo(a) \o Remains(<<>>) /\ Todo(a) \in Seq(Pairs)
        BY <3>2, <3>3, <4>1, RemainsIs, TodoIs
      <4>3. Remains(<<>>) = <<>>
        BY InnerEmpty DEF Remains
      <4>4. QED
        BY <4>2, <4>3, ConcatEmptySeq
    <3>6. Order \in Seq(Pairs)
      BY <3>2, OrderIs
    <3> HIDE DEF a, list
    <3>7. inits' \o Remains(calls') = Order /\ inits' \in Seq(Pairs)
      <4>1. <<>> \o Order = Order
        BY <3>6, ConcatEmptySeq
      <4>2. QED
        BY <2>1, <3>1, <3>3, <3>4, <3>5, <4>1
    <3>8. InTurn'
      BY <3>1, <3>7, FollowsIs DEF Follows
    <3>9. QED
      BY <3>1, <3>8 DEF InOrder, InTurn
  <2>4. QED
    BY <2>2, <2>3
<1>4. CASE Initialising
  <2>1. phase = "exec" /\ phase' # "called" /\ UNCHANGED program
    BY <1>4, InitialisingIs
  <2>2. InTurn /\ Ongoing
    BY <2>1 DEF InOrder, InTurn, StartInv, StartSound, Started, Ongoing
  <2>3. InTurn'
    BY <1>4, <2>1, <2>2, InitialisingTurn, FollowsIs
  <2>4. QED
    BY <2>1, <2>3 DEF InOrder, InTurn
<1>5. CASE CallMain
  <2>1. phase = "exec" /\ calls = <<>> /\ UNCHANGED <<program, work>>
    BY <1>5 DEF CallMain, Stop
  <2>2. InTurn
    BY <2>1 DEF InOrder, InTurn
  <2>3. InTurn' /\ calls' = <<>>
    BY <1>1, <2>1, <2>2 DEF work
  <2>4. QED
    BY <2>3 DEF InOrder, InTurn
<1>6. CASE UNCHANGED vars
  <2>1. InTurn => InTurn'
    BY <1>1, <1>6 DEF vars
  <2>2. QED
    BY <1>6, <2>1 DEF InOrder, InTurn, vars, work
<1>7. QED
  BY <1>2, <1>3, <1>4, <1>5, <1>6, NextIs

LEMMA PrefixIs ==
  ASSUME NEW S, NEW s \in Seq(S), NEW t \in Seq(S)
  PROVE  /\ IsPrefix(s, s \o t)
         /\ Len(s) \in Nat /\ Len(t) \in Nat /\ Len(s \o t) = Len(s) + Len(t)
         /\ \A i \in 1 .. Len(s) : (s \o t)[i] = s[i]
         /\ \A i \in 1 .. Len(t) : (s \o t)[Len(s) + i] = t[i]
<1> DEFINE u == s \o t
           m == Len(s)
<1>1. m \in Nat /\ Len(t) \in Nat /\ u \in Seq(S) /\ Len(u) = m + Len(t)
  BY LenProperties, ConcatProperties
<1>2. \A i \in 1 .. m : u[i] = s[i]
  BY <1>1
<1>3. \A i \in 1 .. Len(t) : u[m + i] = t[i]
  BY <1>1
<1> HIDE DEF u
<1>4. SubSeq(s, 1, m) = SubSeq(u, 1, m)
  <2>1. \A i \in 1 .. m : s[i] \in S /\ u[i] \in S
    BY <1>1, <1>2, ElementOfSeq
  <2>2. \A v : (\A i \in 1 .. m : v[i] \in S) =>
                 /\ SubSeq(v, 1, m) \in Seq(S) /\ Len(SubSeq(v, 1, m)) = (IF 1 <= m THEN m ELSE 0)
                 /\ \A i \in 1 .. m : SubSeq(v, 1, m)[i] = v[i]
    <3> SUFFICES ASSUME NEW v, \A i \in 1 .. m : v[i] \in S
                 PROVE  /\ SubSeq(v, 1, m) \in Seq(S) /\ Len(SubSeq(v, 1, m)) = (IF 1 <= m THEN m ELSE 0)
                        /\ \A i \in 1 .. m : SubSeq(v, 1, m)[i] = v[i]
      OBVIOUS
    <3>1. m \in Int /\ 1 \in Int
      BY <1>1
    <3>2. /\ SubSeq(v, 1, m) \in Seq(S)
          /\ Len(SubSeq(v, 1, m)) = (IF 1 <= m THEN m - 1 + 1 ELSE 0)
          /\ \A i \in 1 .. m - 1 + 1 : SubSeq(v, 1, m)[i] = v[1 + i - 1]
      BY <3>1, SubSeqProperties
    <3>3. m - 1 + 1 = m /\ \A i \in 1 .. m : 1 + i - 1 = i
      BY <1>1
    <3>4. QED
      BY <3>2, <3>3
  <2> DEFINE a == SubSeq(s, 1, m)
             b == SubSeq(u, 1, m)
  <2>3. /\ a \in Seq(S) /\ b \in Seq(S) /\ Len(a) = Len(b) /\ (Len(a) = m \/ Len(a) = 0)
        /\ \A i \in 1 .. m : a[i] = s[i] /\ b[i] = u[i]
    BY <1>1, <2>1, <2>2
  <2> HIDE DEF a, b
  <2>4. \A i \in 1 .. Len(a) : a[i] = b[i]
    BY <1>1, <1>2, <2>3
  <2>5. QED
    BY <2>3, <2>4, SeqEqual DEF a, b
<1>5. IsPrefix(s, u)
  BY <1>1, <1>4 DEF IsPrefix
<1>6. QED
  BY <1>1, <1>2, <1>3, <1>5 DEF u

(* Every shared field of a class that is no template is initialised once,  *)
(* inner classes first, then by the name of the class and by the name of   *)
(* the field, whatever instances the initialisers create on the way; and   *)
(* all of them are before the main function is called (sharedInit).        *)
LEMMA InOrderIs == StartInv /\ InOrder => InitsInOrder
<1> SUFFICES ASSUME StartInv, InOrder PROVE InitsInOrder
  OBVIOUS
<1>1. calls \in Seq(AnyCalls) /\ shape \in Shapes
  <2>1. calls \in Seq(CallSet(DOMAIN sharedMem, objects)) /\ shape \in Shapes
    BY DEF StartInv, StartSound, DataSound, ProgramSound
  <2>2. QED
    BY <2>1, AnyCall, SeqMonotonic
<1>2. Remains(calls) \in Seq(Pairs) /\ inits \in Seq(Pairs)
  BY <1>1, RemainsIs DEF InOrder
<1>3. inits # <<>> => IsPrefix(inits, Order)
  BY <1>2, PrefixIs DEF InOrder
<1>4. phase = "called" => inits = Order
  <2>1. Remains(<<>>) = <<>>
    BY InnerEmpty DEF Remains
  <2>2. inits \o <<>> = inits
    BY <1>2, ConcatEmptySeq
  <2>3. QED
    BY <2>1, <2>2 DEF InOrder
<1>5. QED
  BY <1>3, <1>4 DEF InitsInOrder
-----------------------------------------------------------------------------
(* The field being initialised is the one in turn.  Below an instance, as  *)
(* far down as the shared field it is made for, all calls are at a field.  *)
InitsField(a) == a.of # "classes" /\ a.left # <<>> /\ (a.of = "shared" => a.ready)

LEMMA SharedBelow ==
  ASSUME NEW known, NEW objs, NEW s \in Seq(CallSet(known, objs)), Nested(s), s # <<>>, InitsField(s[1])
  PROVE  \E k \in 1 .. Len(s) : /\ s[k].of = "shared" /\ InitsField(s[k])
                                /\ \A j \in 1 .. Len(s) : j < k => s[j].of = "instance"
<1> DEFINE n       == Len(s)
           None(m) == \A j \in 1 .. m : s[j].of # "shared"
           Good    == {m \in Nat : m < n /\ None(m) => /\ InitsField(s[m + 1])
                                                       /\ \A j \in 1 .. m : s[j].of = "instance"}
<1>1. n \in Nat \ {0} /\ \A k \in 1 .. n : s[k] \in CallSet(known, objs)
  BY EmptySeq, LenProperties, ElementOfSeq
<1>2. \A k \in 1 .. n : s[k].of \in {"classes", "shared", "instance"}
  BY <1>1, CallKinds
<1>3. 0 \in Good
  OBVIOUS
<1>4. ASSUME NEW m \in Nat, m \in Good PROVE m + 1 \in Good
  <2> SUFFICES ASSUME m + 1 < n, None(m + 1)
               PROVE  InitsField(s[(m + 1) + 1]) /\ \A j \in 1 .. m + 1 : s[j].of = "instance"
    BY <1>4
  <2>1. m < n /\ None(m) /\ m + 1 \in 1 .. n /\ m + 1 # n /\ m + 1 \in 1 .. m + 1
    BY <1>1
  <2>2. InitsField(s[m + 1]) /\ \A j \in 1 .. m : s[j].of = "instance"
    BY <1>4, <2>1
  <2>3. s[m + 1].of = "instance"
    BY <1>2, <2>1, <2>2 DEF InitsField
  <2>4. Rests(s[m + 1], s[(m + 1) + 1])
    BY <2>1 DEF Nested
  <2>5. InitsField(s[(m + 1) + 1])
    BY <2>3, <2>4 DEF Rests, InitsField
  <2>6. \A j \in 1 .. m + 1 : j \in 1 .. m \/ j = m + 1
    BY <1>1
  <2>7. QED
    BY <2>2, <2>3, <2>5, <2>6
<1>5. \A m \in Nat : m \in Good
  <2> HIDE DEF Good
  <2>1. QED
    BY <1>3, <1>4, SetInduction
<1> DEFINE at == {k \in 1 .. n : s[k].of = "shared"}
<1>6. at # {}
  <2> SUFFICES ASSUME at = {} PROVE FALSE
    OBVIOUS
  <2>1. n - 1 \in Nat /\ n - 1 < n /\ (n - 1) + 1 = n /\ n \in 1 .. n
    BY <1>1
  <2>2. None(n - 1)
    BY <1>1
  <2>3. InitsField(s[n])
    <3>1. n - 1 \in Good
      BY <1>5, <2>1
    <3>2. QED
      BY <2>1, <2>2, <3>1
  <2>4. s[n].of = "classes"
    BY <2>1 DEF Nested
  <2>5. QED
    BY <2>3, <2>4 DEF InitsField
<1>7. PICK k \in at : \A i \in at : k <= i
  <2>1. at \subseteq Nat
    OBVIOUS
  <2>2. QED
    BY <1>6, <2>1, LeastElement
<1>8. k - 1 \in Nat /\ k - 1 < n /\ (k - 1) + 1 = k /\ k \in 1 .. n /\ s[k].of = "shared"
  BY <1>1, <1>7
<1>9. None(k - 1)
  <2>1. \A j \in 1 .. k - 1 : j \in 1 .. n /\ ~(k <= j)
    BY <1>1, <1>8
  <2>2. QED
    BY <1>7, <2>1
<1>10. InitsField(s[k]) /\ \A j \in 1 .. k - 1 : s[j].of = "instance"
  <2>1. k - 1 \in Good
    BY <1>5, <1>8
  <2>2. QED
    BY <1>8, <1>9, <2>1
<1>11. \A j \in 1 .. n : j < k => j \in 1 .. k - 1
  BY <1>1, <1>8
<1>12. QED
  BY <1>8, <1>10, <1>11

(* What calls before it have nothing to initialise does not matter. *)
SkipsTo(f, list, k) ==
  /\ \A i \in DOMAIN list : f[list[i]] \in Seq(Pairs)
  /\ k \in 1 .. Len(list) /\ \A j \in 1 .. Len(list) : j < k => f[list[j]] = <<>>

StartsWith(s, t) == \E r \in Seq(Pairs) : s = t \o r

LEMMA InnerSkips ==
  ASSUME NEW S, NEW f, NEW list \in Seq(S), NEW k \in Nat, SkipsTo(f, list, k)
  PROVE  StartsWith(InnerPairs(f, list), f[list[k]])
<1> USE DEF SkipsTo
<1> DEFINE Fine(t, m) == /\ \A i \in DOMAIN t : f[t[i]] \in Seq(Pairs)
                         /\ m \in 1 .. Len(t) /\ \A j \in 1 .. Len(t) : j < m => f[t[j]] = <<>>
           Found(m) == \A t \in Seq(S) : Fine(t, m) => \E r \in Seq(Pairs) : InnerPairs(f, t) = f[t[m]] \o r
           Good == {m \in Nat : Found(m + 1)}
<1>1. ASSUME NEW t \in Seq(S), NEW m, Fine(t, m)
      PROVE  /\ t # <<>> /\ Head(t) = t[1] /\ Tail(t) \in Seq(S) /\ Len(t) \in Nat \ {0} /\ Len(Tail(t)) = Len(t) - 1
             /\ \A i \in 1 .. Len(Tail(t)) : Tail(t)[i] = t[i + 1]
             /\ InnerPairs(f, Tail(t)) \in Seq(Pairs)
             /\ InnerPairs(f, t) = f[t[1]] \o InnerPairs(f, Tail(t))
  <2>1. t # <<>>
    BY <1>1
  <2>2. /\ Head(t) = t[1] /\ Tail(t) \in Seq(S) /\ Len(t) \in Nat \ {0} /\ Len(Tail(t)) = Len(t) - 1
        /\ \A i \in 1 .. Len(Tail(t)) : Tail(t)[i] = t[i + 1]
    BY <2>1, HeadAndTail
  <2>3. InnerPairs(f, Tail(t)) \in Seq(Pairs) /\ InnerPairs(f, t) = f[Head(t)] \o InnerPairs(f, Tail(t))
    BY <1>1, <2>1, InnerCons
  <2>4. QED
    BY <2>1, <2>2, <2>3
<1>2. 0 \in Good
  <2>1. ASSUME NEW t \in Seq(S), Fine(t, 1) PROVE \E r \in Seq(Pairs) : InnerPairs(f, t) = f[t[1]] \o r
    BY <1>1, <2>1
  <2>2. Found(1)
    BY <2>1
  <2> HIDE DEF Found
  <2>3. QED
    BY <2>2
<1>3. ASSUME NEW m \in Nat, m \in Good PROVE m + 1 \in Good
  <2>1. ASSUME NEW t \in Seq(S), Fine(t, (m + 1) + 1)
        PROVE  \E r \in Seq(Pairs) : InnerPairs(f, t) = f[t[(m + 1) + 1]] \o r
    <3> DEFINE u == Tail(t)
    <3>1. /\ u \in Seq(S) /\ Len(t) \in Nat \ {0} /\ Len(u) = Len(t) - 1
          /\ \A i \in 1 .. Len(u) : u[i] = t[i + 1]
          /\ InnerPairs(f, u) \in Seq(Pairs) /\ InnerPairs(f, t) = f[t[1]] \o InnerPairs(f, u)
      BY <1>1, <2>1
    <3> HIDE DEF u
    <3>2. f[t[1]] = <<>>
      <4>1. 1 \in 1 .. Len(t) /\ 1 < (m + 1) + 1
        BY <3>1
      <4>2. QED
        BY <2>1, <4>1
    <3>3. Fine(u, m + 1) /\ u[m + 1] = t[(m + 1) + 1]
      <4>1. DOMAIN u = 1 .. Len(u) /\ DOMAIN t = 1 .. Len(t)
        BY <3>1, LenProperties
      <4>2. m + 1 \in 1 .. Len(u)
        BY <2>1, <3>1
      <4>3. \A i \in 1 .. Len(u) : i + 1 \in 1 .. Len(t) /\ u[i] = t[i + 1] /\ (i < m + 1 => i + 1 < (m + 1) + 1)
        BY <3>1
      <4>4. \A i \in DOMAIN u : f[u[i]] \in Seq(Pairs)
        BY <2>1, <4>1, <4>3
      <4>5. \A j \in 1 .. Len(u) : j < m + 1 => f[u[j]] = <<>>
        BY <2>1, <4>3
      <4>6. QED
        BY <4>2, <4>3, <4>4, <4>5
    <3>4. PICK r \in Seq(Pairs) : InnerPairs(f, u) = f[u[m + 1]] \o r
      BY <1>3, <3>1, <3>3
    <3>5. InnerPairs(f, t) = InnerPairs(f, u)
      BY <3>1, <3>2, ConcatEmptySeq
    <3>6. QED
      BY <3>3, <3>4, <3>5
  <2>2. Found((m + 1) + 1)
    BY <2>1
  <2> HIDE DEF Found
  <2>3. QED
    BY <2>2
<1>4. \A m \in Nat : m \in Good
  <2> HIDE DEF Good
  <2>1. QED
    BY <1>2, <1>3, SetInduction
<1>5. k - 1 \in Good /\ (k - 1) + 1 = k
  <2>1. k - 1 \in Nat /\ (k - 1) + 1 = k
    BY LenProperties
  <2>2. QED
    BY <1>4, <2>1
<1>6. QED
  BY <1>5 DEF StartsWith

LEMMA AtSharedAt ==
  ASSUME Ongoing, InField
  PROVE  \E k \in 1 .. Len(calls) :
           /\ calls[k].of = "shared" /\ InitsField(calls[k])
           /\ \A j \in 1 .. Len(calls) : j < k => calls[j].of = "instance"
           /\ AtShared = <<calls[k].class, Head(calls[k].left)>>
<1>1. calls \in Seq(CallsNow) /\ Nested(calls) /\ calls # <<>>
  BY DEF Ongoing, DataSound, CallsNow, InField
<1>2. InitsField(calls[1])
  <2>1. Head(calls) = calls[1]
    BY <1>1, HeadAndTail
  <2>2. QED
    BY <2>1 DEF InField, InitsField, Call
<1>3. PICK k \in 1 .. Len(calls) :
        /\ calls[k].of = "shared" /\ InitsField(calls[k])
        /\ \A j \in 1 .. Len(calls) : j < k => calls[j].of = "instance"
  BY <1>1, <1>2, SharedBelow DEF CallsNow
<1> DEFINE I == {i \in 1 .. Len(calls) : calls[i].of = "shared"}
<1>4. k \in I /\ \A i \in I : k <= i
  BY <1>1, <1>3, LenProperties
<1>5. Min(I) = k
  <2>1. \A i \in I : (\A j \in I : i <= j) => i = k
    BY <1>4
  <2> HIDE DEF I
  <2>2. QED
    BY <1>4, <2>1 DEF Min
<1>6. SelectInSubSeq(calls, 1, Len(calls), LAMBDA x : x.of = "shared") = Min(I)
  BY <1>4 DEF SelectInSubSeq
<1>7. QED
  BY <1>3, <1>5, <1>6 DEF AtShared

LEMMA AtSharedIs ==
  ASSUME Ongoing, InField
  PROVE  \E r \in Seq(Pairs) : Remains(calls) = <<AtShared>> \o r /\ AtShared \in Pairs
<1>1. calls \in Seq(CallsNow) /\ Nested(calls) /\ calls # <<>> /\ shape \in Shapes
  BY DEF Ongoing, DataSound, ProgramSound, CallsNow, InField
<1>2. PICK k \in 1 .. Len(calls) :
        /\ calls[k].of = "shared" /\ InitsField(calls[k])
        /\ \A j \in 1 .. Len(calls) : j < k => calls[j].of = "instance"
        /\ AtShared = <<calls[k].class, Head(calls[k].left)>>
  BY AtSharedAt
<1> DEFINE a == calls[k]
           p == <<a.class, Head(a.left)>>
<1>3. /\ a.of = "shared" /\ InitsField(a)
      /\ \A j \in 1 .. Len(calls) : j < k => calls[j].of = "instance"
  BY <1>2
<1>4. AtShared = p
  BY <1>2
<1>5. \A i \in 1 .. Len(calls) : calls[i] \in CallsNow /\ calls[i] \in AnyCalls
  BY <1>1, ElementOfSeq, AnyCall DEF CallsNow
<1>6. /\ a \in [of : {"shared"}, class : Class, left : Seq(Field), ready : BOOLEAN]
      /\ a.class \notin shape.templates /\ a.left # <<>>
  BY <1>3, <1>5, CallKinds DEF CallsNow, SharedCalls, InitsField
<1> DEFINE Q == PairsOf(a.class, Tail(a.left))
<1>7. TodoOf[a] = <<p>> \o Q /\ p \in Pairs /\ Q \in Seq(Pairs)
  <2>1. a.class \in Class /\ a.left \in Seq(Field)
    BY <1>6
  <2>2. Tail(a.left) \in Seq(Field) /\ Head(a.left) \in Field
    BY <1>6, <2>1, HeadAndTail
  <2>3. TodoOf[a] = Todo(a)
    BY <1>1, <1>5, TodoIs
  <2>4. Todo(a) = PairsOf(a.class, a.left)
    BY <1>3, <1>6 DEF Todo
  <2>5. PairsOf(a.class, a.left) = <<p>> \o Q /\ Q \in Seq(Pairs)
    BY <1>6, <2>1, <2>2, PairsOfIs
  <2>6. QED
    BY <2>1, <2>2, <2>3, <2>4, <2>5 DEF Pairs
<1>8. \A i \in 1 .. Len(calls) : TodoOf[calls[i]] \in Seq(Pairs)
  BY <1>1, <1>5, TodoIs
<1>9. \A j \in 1 .. Len(calls) : j < k => TodoOf[calls[j]] = <<>>
  <2>1. ASSUME NEW j \in 1 .. Len(calls), j < k PROVE TodoOf[calls[j]] = <<>>
    <3>1. Todo(calls[j]) = <<>>
      BY <1>3, <2>1 DEF Todo
    <3>2. QED
      BY <1>1, <1>5, <3>1, TodoIs
  <2>2. QED
    BY <2>1
<1> HIDE DEF a, Q, p
<1>10. PICK r \in Seq(Pairs) : InnerPairs(TodoOf, calls) = TodoOf[calls[k]] \o r
  <2>1. DOMAIN calls = 1 .. Len(calls)
    BY <1>1, LenProperties
  <2>2. \A i \in DOMAIN calls : TodoOf[calls[i]] \in Seq(Pairs)
    BY <1>8, <2>1
  <2>3. k \in 1 .. Len(calls)
    BY <1>3
  <2>4. calls \in Seq(CallsNow) /\ k \in Nat
    BY <1>1, LenProperties
  <2>5. SkipsTo(TodoOf, calls, k)
    BY <1>9, <2>2, <2>3 DEF SkipsTo
  <2>6. StartsWith(InnerPairs(TodoOf, calls), TodoOf[calls[k]])
    BY ONLY <2>4, <2>5, InnerSkips
  <2>7. QED
    BY <2>6 DEF StartsWith
<1>11. Remains(calls) = (<<p>> \o Q) \o r
  BY <1>7, <1>10 DEF Remains, a
<1>12. (<<p>> \o Q) \o r = <<p>> \o (Q \o r) /\ Q \o r \in Seq(Pairs)
  <2>1. <<p>> \in Seq(Pairs) /\ Q \o r \in Seq(Pairs)
    BY <1>7, ConcatProperties
  <2>2. Associative(Pairs)
    BY ThreeInARow
  <2>3. (<<p>> \o Q) \o r = <<p>> \o (Q \o r)
    BY ONLY <1>7, <2>1, <2>2, r \in Seq(Pairs), Zenon DEF Associative
  <2>4. QED
    BY <2>1, <2>3
<1>13. QED
  BY <1>4, <1>7, <1>11, <1>12

(* What is initialised already is what comes before the field in turn.     *)
LEMMA ReadKnown ==
  ASSUME Ongoing, InTurn, InField, NEW p
  PROVE  p \in ToSet(inits) <=> Before(p, AtShared)
<1>1. PICK r \in Seq(Pairs) : Remains(calls) = <<AtShared>> \o r /\ AtShared \in Pairs
  BY AtSharedIs
<1> DEFINE at == AtShared
           t  == <<at>> \o r
           n  == Len(inits)
<1>2. inits \in Seq(Pairs)
  BY DEF InTurn
<1>3. t \in Seq(Pairs)
  BY <1>1, PushIs
<1>4. Len(t) = Len(r) + 1 /\ Len(r) \in Nat /\ t[1] = at
  BY <1>1, PushIs
<1>5. Order = inits \o t
  BY <1>1 DEF InTurn
<1> HIDE DEF t, at
<1>6. /\ n \in Nat /\ Len(t) \in Nat /\ Len(Order) = n + Len(t)
      /\ \A i \in 1 .. n : Order[i] = inits[i]
      /\ \A i \in 1 .. Len(t) : Order[n + i] = t[i]
  <2>1. /\ Len(inits) \in Nat /\ Len(t) \in Nat /\ Len(inits \o t) = Len(inits) + Len(t)
        /\ \A i \in 1 .. Len(inits) : (inits \o t)[i] = inits[i]
        /\ \A i \in 1 .. Len(t) : (inits \o t)[Len(inits) + i] = t[i]
    BY ONLY <1>2, <1>3, PrefixIs
  <2>2. QED
    BY ONLY <1>5, <2>1 DEF n
<1>7. Order \in Seq(Pairs) /\ Distinct(Order)
  BY OrderIs DEF Ongoing, ProgramSound
<1>8. DOMAIN Order = 1 .. Len(Order) /\ DOMAIN inits = 1 .. n
  BY <1>2, <1>7, LenProperties
<1>9. n + 1 \in DOMAIN Order /\ Order[n + 1] = at
  BY <1>4, <1>6, <1>8
<1>10. \A i \in 1 .. n : i \in DOMAIN Order /\ i < n + 1
  BY <1>4, <1>6, <1>8
<1>11. \A i \in DOMAIN Order : i < n + 1 => i \in 1 .. n
  BY <1>6, <1>8
<1>12. \A j \in DOMAIN Order : Order[j] = at => j = n + 1
  BY <1>7, <1>9 DEF Distinct
<1>13. p \in ToSet(inits) => Before(p, at)
  <2> SUFFICES ASSUME p \in ToSet(inits) PROVE \E i, j \in DOMAIN Order : Order[i] = p /\ Order[j] = at /\ i < j
    BY DEF Before
  <2>1. PICK i \in 1 .. n : inits[i] = p
    BY <1>8 DEF ToSet
  <2>2. Order[i] = p /\ i \in DOMAIN Order /\ i < n + 1
    BY <1>6, <1>10, <2>1
  <2>3. QED
    BY <1>9, <2>2
<1>14. Before(p, at) => p \in ToSet(inits)
  <2> SUFFICES ASSUME Before(p, at) PROVE p \in ToSet(inits)
    OBVIOUS
  <2>1. PICK i \in DOMAIN Order : \E j \in DOMAIN Order : Order[i] = p /\ Order[j] = at /\ i < j
    BY DEF Before
  <2>2. i \in 1 .. n /\ Order[i] = p
    BY <1>11, <1>12, <2>1
  <2>3. inits[i] = p
    BY <1>6, <2>2
  <2>4. QED
    BY <1>8, <2>2, <2>3 DEF ToSet
<1>15. QED
  BY <1>13, <1>14 DEF at

LEMMA EarlyReadsNext == StartInv /\ InOrder /\ EarlyReads /\ [Next]_vars => EarlyReads'
<1> SUFFICES ASSUME StartInv, InOrder, EarlyReads, [Next]_vars PROVE EarlyReads'
  OBVIOUS
<1>1. CASE phase \in {"options", "parse"}
  <2>1. reads = {}
    BY <1>1 DEF StartInv, StartSound, Blank
  <2>2. reads' = reads
    BY <1>1, NextIs, InitialisingIs DEF ReadOptions, AddField, Resolve, Stop, CallMain, vars, work
  <2>3. QED
    BY <2>1, <2>2 DEF EarlyReads
<1>2. CASE phase \notin {"options", "parse"}
  <2>1. UNCHANGED program
    BY <1>2, NextIs, InitialisingIs DEF ReadOptions, AddField, Resolve, CallMain, Stop, vars
  <2>2. \A a, b : Before(a, b)' <=> Before(a, b)
    <3>1. Order' = Order
      BY <2>1, SameTree
    <3>2. QED
      BY <3>1 DEF Before
  <2>3. CASE reads' = reads
    BY <2>2, <2>3 DEF EarlyReads
  <2>4. CASE reads' # reads
    <3>1. ReadShared
      BY <1>2, <2>4, NextIs
         DEF ReadOptions, AddField, Resolve, Stop, CallMain, vars, work, Initialising, SharedInit, AddClass, LeaveList,
             LeaveShared, Return, InitPlain, ReadOwn, InitDefault, InitNew, CreateInstance, Construct
    <3> DEFINE of == <<Source.class, Source.field>>
               new == [at |-> AtShared, of |-> of, set |-> of \in ToSet(inits)]
    <3>2. InField /\ phase = "exec" /\ reads' = reads \cup {new}
      BY <3>1 DEF ReadShared, InField
    <3>3. Ongoing /\ InTurn
      BY <3>2 DEF StartInv, StartSound, Started, Ongoing, InOrder, InTurn
    <3>4. new.set <=> Before(new.of, new.at)
      BY <3>2, <3>3, ReadKnown
    <3> HIDE DEF new
    <3>5. \A r \in reads' : r.set <=> Before(r.of, r.at)
      BY <3>2, <3>4 DEF EarlyReads
    <3>6. QED
      BY <2>2, <3>5 DEF EarlyReads
  <2>5. QED
    BY <2>3, <2>4
<1>3. QED
  BY <1>1, <1>2

(* The order of the initialisation is the one the author of a program can  *)
(* read from its text.  Every shared field of a class that is no template  *)
(* is initialised once, inner classes first, then by the name of the class *)
(* and by the name of the field, whatever instances the initialisers make  *)
(* on the way, and all of them before the main function is called; and an  *)
(* initialiser, or an instance made for it however deep, sees the value of *)
(* a shared field exactly when that field comes before (sharedInit).       *)
THEOREM OrderIsAsWritten == Spec => []InitsAsWritten
<1>1. Init => StartInv /\ InOrder /\ EarlyReads
  BY StartInvInit, InOrderInit DEF Init, EarlyReads
<1>2. StartInv /\ InOrder /\ EarlyReads /\ [Next]_vars => (StartInv /\ InOrder /\ EarlyReads)'
  BY StartInvNext, InOrderNext, EarlyReadsNext
<1>3. StartInv /\ InOrder /\ EarlyReads => InitsAsWritten
  BY InOrderIs DEF InitsAsWritten
<1>4. QED
  BY <1>1, <1>2, <1>3, PTL DEF Spec

-----------------------------------------------------------------------------
(* What the initialisation of a class can lead to: the least set that      *)
(* holds what it makes, and what each of them makes.                       *)
MoreOf(T) == T \cup UNION {Makes(c) : c \in T}

Grows(w, S) ==
  /\ w[0] = S
  /\ \A n \in 1 .. Cardinality(Class) : w[n] = MoreOf(w[n - 1])

LEMMA ClosureIs ==
  ASSUME NEW S
  PROVE  \E w : Grows(w, S) /\ Closure(S) = w[Cardinality(Class)]
<1> DEFINE K == Cardinality(Class)
           Upto(w, m) == \A n \in 0 .. m : w[n] = IF n = 0 THEN S ELSE MoreOf(w[n - 1])
           Good == {m \in Nat : \E w : Upto(w, m)}
<1>1. K \in Nat
  BY StartupAssumption, FS_CardinalityType
<1>2. 0 \in Good
  <2>1. Upto([n \in {0} |-> S], 0)
    OBVIOUS
  <2>2. QED
    BY <2>1
<1>3. ASSUME NEW m \in Nat, m \in Good PROVE m + 1 \in Good
  <2>1. PICK w : Upto(w, m)
    BY <1>3
  <2> DEFINE v == [n \in 0 .. m + 1 |-> IF n = m + 1 THEN MoreOf(w[m]) ELSE w[n]]
  <2>2. ASSUME NEW n \in 0 .. m + 1 PROVE v[n] = IF n = 0 THEN S ELSE MoreOf(v[n - 1])
    <3>1. CASE n = m + 1
      <4>1. v[n] = MoreOf(w[m]) /\ n # 0 /\ n - 1 = m /\ v[m] = w[m]
        BY <3>1
      <4>2. QED
        BY <4>1
    <3>2. CASE n # m + 1
      <4>1. n \in 0 .. m /\ v[n] = w[n] /\ (n # 0 => n - 1 \in 0 .. m + 1 /\ n - 1 # m + 1)
        BY <3>2
      <4>2. n # 0 => v[n - 1] = w[n - 1]
        BY <4>1
      <4>3. QED
        BY <2>1, <4>1, <4>2
    <3>3. QED
      BY <3>1, <3>2
  <2> HIDE DEF v
  <2>3. QED
    BY <2>2
<1>4. \A m \in Nat : m \in Good
  <2> HIDE DEF Good
  <2>1. QED
    BY <1>2, <1>3, SetInduction
<1>5. PICK w : Upto(w, K)
  BY <1>1, <1>4
<1> DEFINE v == [n \in 0 .. K |-> w[n]]
<1>6. v = [n \in 0 .. K |-> IF n = 0 THEN S ELSE MoreOf(v[n - 1])]
  <2>1. ASSUME NEW n \in 0 .. K PROVE v[n] = IF n = 0 THEN S ELSE MoreOf(v[n - 1])
    <3>1. n # 0 => n - 1 \in 0 .. K
      BY <1>1
    <3>2. QED
      BY <1>5, <3>1
  <2>2. QED
    BY <2>1
<1> DEFINE u == CHOOSE u : u = [n \in 0 .. K |-> IF n = 0 THEN S ELSE u[n - 1] \cup UNION {Makes(c) : c \in u[n - 1]}]
<1>7. u = [n \in 0 .. K |-> IF n = 0 THEN S ELSE u[n - 1] \cup UNION {Makes(c) : c \in u[n - 1]}]
  <2>1. v = [n \in 0 .. K |-> IF n = 0 THEN S ELSE v[n - 1] \cup UNION {Makes(c) : c \in v[n - 1]}]
    BY <1>6 DEF MoreOf
  <2> HIDE DEF v
  <2>2. QED
    BY <2>1
<1>8. Closure(S) = u[K]
  BY DEF Closure
<1> HIDE DEF u
<1>9. ASSUME NEW n \in 0 .. K PROVE u[n] = IF n = 0 THEN S ELSE MoreOf(u[n - 1])
  BY <1>7 DEF MoreOf
<1>10. Grows(u, S)
  <2>1. u[0] = S
    BY <1>1, <1>9
  <2>2. ASSUME NEW n \in 1 .. K PROVE u[n] = MoreOf(u[n - 1])
    <3>1. n \in 0 .. K /\ n # 0
      BY <1>1
    <3>2. QED
      BY <1>9, <3>1
  <2>3. QED
    BY <2>1, <2>2 DEF Grows
<1>11. QED
  BY <1>8, <1>10

LEMMA CreatesType ==
  ASSUME ProgramSound, NEW c \in Class, NEW shrd, NEW f \in NamesOf(c, shrd)
  PROVE  Creates(c, f) \subseteq Class
<1>1. InitOf(c, f) \in Inits
  BY DeclaredIs
<1>2. QED
  BY <1>1 DEF Creates, Inits

LEMMA MakesType ==
  ASSUME ProgramSound, NEW c \in Class
  PROVE  /\ Makes(c) \subseteq Class
         /\ \A f \in NamesOf(c, FALSE) : Creates(c, f) \subseteq Makes(c)
<1>1. \A s : \A f \in NamesOf(c, s) : Creates(c, f) \subseteq Class
  BY CreatesType
<1>2. QED
  BY <1>1 DEF Makes

LEMMA ClosureClosed ==
  ASSUME ProgramSound, NEW S, S \subseteq Class
  PROVE  /\ S \subseteq Closure(S) /\ Closure(S) \subseteq Class
         /\ \A c \in Closure(S) : Makes(c) \subseteq Closure(S)
<1> DEFINE K == Cardinality(Class)
<1>1. IsFiniteSet(Class) /\ K \in Nat
  BY StartupAssumption, FS_CardinalityType
<1>2. PICK w : Grows(w, S) /\ Closure(S) = w[K]
  BY ClosureIs
<1> DEFINE Fine(n) == /\ S \subseteq w[n] /\ w[n] \subseteq Class
                      /\ MoreOf(w[n]) = w[n] \/ n <= Cardinality(w[n])
           Good == {n \in Nat : n <= K => Fine(n)}
<1>3. \A T \in SUBSET Class : MoreOf(T) \subseteq Class /\ T \subseteq MoreOf(T)
  BY MakesType DEF MoreOf
<1>4. \A T \in SUBSET Class : IsFiniteSet(T) /\ Cardinality(T) \in Nat
  BY <1>1, FS_Subset, FS_CardinalityType
<1>5. 0 \in Good
  BY <1>2, <1>4 DEF Grows
<1>6. ASSUME NEW n \in Nat, n \in Good, n + 1 <= K PROVE Fine(n + 1)
  <2>1. n + 1 \in 1 .. K /\ n <= K
    BY <1>1, <1>6
  <2>2. (n + 1) - 1 = n
    OBVIOUS
  <2>3. w[n + 1] = MoreOf(w[n])
    BY <1>2, <2>1, <2>2 DEF Grows
  <2>4. Fine(n)
    BY <1>6, <2>1
  <2>5. w[n] \subseteq w[n + 1] /\ w[n + 1] \subseteq Class
    BY <1>3, <2>3, <2>4
  <2>6. CASE MoreOf(w[n]) = w[n]
    BY <2>3, <2>4, <2>5, <2>6
  <2>7. CASE MoreOf(w[n]) # w[n]
    <3>1. Cardinality(w[n]) <= Cardinality(w[n + 1]) /\ Cardinality(w[n]) # Cardinality(w[n + 1])
      BY <1>4, <2>3, <2>5, <2>7, FS_Subset
    <3>2. Cardinality(w[n]) \in Nat /\ Cardinality(w[n + 1]) \in Nat /\ n <= Cardinality(w[n])
      BY <1>4, <2>4, <2>5, <2>7
    <3>3. n + 1 <= Cardinality(w[n + 1])
      BY <3>1, <3>2
    <3>4. QED
      BY <2>4, <2>5, <3>3
  <2>8. QED
    BY <2>6, <2>7
<1>7. \A n \in Nat : n \in Good
  <2>1. \A n \in Nat : n \in Good => n + 1 \in Good
    BY <1>6
  <2> HIDE DEF Good
  <2>2. QED
    BY <1>5, <2>1, SetInduction
<1>8. Fine(K)
  BY <1>1, <1>7
<1>9. MoreOf(w[K]) = w[K]
  <2>1. CASE K <= Cardinality(w[K])
    <3>1. w[K] = Class
      BY <1>1, <1>4, <1>8, <2>1, FS_Subset
    <3>2. QED
      BY <1>3, <3>1
  <2>2. QED
    BY <1>8, <2>1
<1>10. QED
  BY <1>2, <1>8, <1>9 DEF MoreOf

LEMMA ClosureLeast ==
  ASSUME NEW S, NEW X, S \subseteq X, \A c \in X : Makes(c) \subseteq X
  PROVE  Closure(S) \subseteq X
<1> DEFINE K == Cardinality(Class)
<1>1. K \in Nat
  BY StartupAssumption, FS_CardinalityType
<1>2. PICK w : Grows(w, S) /\ Closure(S) = w[K]
  BY ClosureIs
<1> DEFINE Good == {n \in Nat : n <= K => w[n] \subseteq X}
<1>3. 0 \in Good
  BY <1>2 DEF Grows
<1>4. ASSUME NEW n \in Nat, n \in Good, n + 1 <= K PROVE w[n + 1] \subseteq X
  <2>1. n + 1 \in 1 .. K /\ n <= K /\ (n + 1) - 1 = n
    BY <1>1, <1>4
  <2>2. w[n + 1] = MoreOf(w[n])
    BY <1>2, <2>1 DEF Grows
  <2>3. w[n] \subseteq X
    BY <1>4, <2>1
  <2>4. QED
    BY <2>2, <2>3 DEF MoreOf
<1>5. \A n \in Nat : n \in Good
  <2>1. \A n \in Nat : n \in Good => n + 1 \in Good
    BY <1>4
  <2> HIDE DEF Good
  <2>2. QED
    BY <1>3, <2>1, SetInduction
<1>6. QED
  BY <1>1, <1>2, <1>5

-----------------------------------------------------------------------------
(* Instances are made one for the other, and later ones stand above: each  *)
(* for the field the activation below it is at, which waits for it as the  *)
(* fields after it do.                                                     *)
WaitsAt(a, o, f) == a.of = "instance" /\ a.me = o /\ \E i \in 1 .. Len(a.left) : a.left[i] = f
Waits(o, f, s)   == \E k \in 1 .. Len(s) : WaitsAt(s[k], o, f)

Ascends(left) == \A i, j \in 1 .. Len(left) : i < j => left[i] < left[j]
MadeFor(a, b) == a.class \in Creates(b.class, Head(b.left))

Tops(a, t) ==
  a.of = "instance" => /\ Ascends(a.left) /\ t # <<>> /\ MadeFor(a, Head(t))
                       /\ \A j \in 1 .. Len(t) : t[j].of = "instance" => t[j].me < a.me

Tower(s) ==
  \A k \in 1 .. Len(s) : s[k].of = "instance" =>
    /\ Ascends(s[k].left) /\ k # Len(s) /\ MadeFor(s[k], s[k + 1])
    /\ \A j \in 1 .. Len(s) : k < j /\ s[j].of = "instance" => s[j].me < s[k].me

LEMMA WaitsPop ==
  ASSUME NEW S, NEW s \in Seq(S), s # <<>>, NEW o, NEW f
  PROVE  Waits(o, f, s) <=> WaitsAt(Head(s), o, f) \/ Waits(o, f, Tail(s))
<1> DEFINE t == Tail(s)
<1>1. /\ Head(s) = s[1] /\ t \in Seq(S) /\ Len(s) \in Nat \ {0} /\ Len(t) = Len(s) - 1
      /\ \A k \in 1 .. Len(t) : t[k] = s[k + 1]
  BY HeadAndTail
<1> HIDE DEF t
<1>2. ASSUME NEW k \in 1 .. Len(s), WaitsAt(s[k], o, f) PROVE WaitsAt(s[1], o, f) \/ Waits(o, f, t)
  <2>1. CASE k = 1
    BY <1>2, <2>1
  <2>2. CASE k # 1
    <3>1. PICK j \in 1 .. Len(t) : k = j + 1
      BY <1>1, <2>2
    <3>2. QED
      BY <1>1, <1>2, <3>1 DEF Waits
  <2>3. QED
    BY <2>1, <2>2
<1>3. ASSUME NEW k \in 1 .. Len(t), WaitsAt(t[k], o, f) PROVE Waits(o, f, s)
  <2>1. k + 1 \in 1 .. Len(s)
    BY <1>1
  <2>2. QED
    BY <1>1, <1>3, <2>1 DEF Waits
<1>4. WaitsAt(s[1], o, f) => Waits(o, f, s)
  <2>1. 1 \in 1 .. Len(s)
    BY <1>1
  <2>2. QED
    BY <2>1 DEF Waits
<1>5. QED
  BY <1>1, <1>2, <1>3, <1>4 DEF Waits, t

LEMMA PushHeadTail ==
  ASSUME NEW S, NEW s \in Seq(S), NEW a \in S
  PROVE  <<a>> \o s \in Seq(S) /\ <<a>> \o s # <<>> /\ Head(<<a>> \o s) = a /\ Tail(<<a>> \o s) = s
<1> DEFINE t == <<a>> \o s
<1>1. /\ t \in Seq(S) /\ Len(t) = Len(s) + 1 /\ Len(s) \in Nat
      /\ t[1] = a /\ \A k \in 1 .. Len(s) : t[k + 1] = s[k]
  BY PushIs
<1> HIDE DEF t
<1>2. t # <<>>
  BY <1>1
<1>3. /\ Head(t) = t[1] /\ Tail(t) \in Seq(S) /\ Len(Tail(t)) = Len(t) - 1
      /\ \A k \in 1 .. Len(Tail(t)) : Tail(t)[k] = t[k + 1]
  BY <1>1, <1>2, HeadAndTail
<1>4. Len(Tail(t)) = Len(s) /\ \A k \in 1 .. Len(s) : Tail(t)[k] = s[k]
  BY <1>1, <1>3
<1>5. Tail(t) = s
  BY <1>3, <1>4, SeqEqual
<1>6. QED
  BY <1>1, <1>2, <1>3, <1>5 DEF t

LEMMA WaitsPush ==
  ASSUME NEW S, NEW s \in Seq(S), NEW a \in S, NEW o, NEW f
  PROVE  Waits(o, f, <<a>> \o s) <=> WaitsAt(a, o, f) \/ Waits(o, f, s)
<1> DEFINE t == <<a>> \o s
<1>1. t \in Seq(S) /\ t # <<>> /\ Head(t) = a /\ Tail(t) = s
  BY PushHeadTail
<1> HIDE DEF t
<1>2. Waits(o, f, t) <=> WaitsAt(Head(t), o, f) \/ Waits(o, f, Tail(t))
  BY <1>1, WaitsPop
<1>3. QED
  BY <1>1, <1>2 DEF t

LEMMA TowerPop ==
  ASSUME NEW S, NEW s \in Seq(S), s # <<>>, Tower(s)
  PROVE  Tops(Head(s), Tail(s)) /\ Tower(Tail(s))
<1> DEFINE t == Tail(s)
<1>1. /\ Head(s) = s[1] /\ t \in Seq(S) /\ Len(s) \in Nat \ {0} /\ Len(t) = Len(s) - 1
      /\ \A k \in 1 .. Len(t) : t[k] = s[k + 1]
  BY HeadAndTail
<1> HIDE DEF t
<1>2. \A k \in 1 .. Len(t) : k + 1 \in 1 .. Len(s) /\ 1 < k + 1
  BY <1>1
<1>3. ASSUME s[1].of = "instance"
      PROVE  /\ Ascends(s[1].left) /\ t # <<>> /\ MadeFor(s[1], Head(t))
             /\ \A j \in 1 .. Len(t) : t[j].of = "instance" => t[j].me < s[1].me
  <2>1. 1 \in 1 .. Len(s)
    BY <1>1
  <2>2. /\ Ascends(s[1].left) /\ 1 # Len(s) /\ MadeFor(s[1], s[1 + 1])
        /\ \A j \in 1 .. Len(s) : 1 < j /\ s[j].of = "instance" => s[j].me < s[1].me
    BY <1>3, <2>1 DEF Tower
  <2>3. t # <<>> /\ 1 \in 1 .. Len(t)
    BY <1>1, <2>2, EmptySeq
  <2>4. Head(t) = s[1 + 1]
    BY <1>1, <2>3, HeadAndTail
  <2>5. QED
    BY <1>1, <1>2, <2>2, <2>3, <2>4
<1>4. ASSUME NEW k \in 1 .. Len(t), t[k].of = "instance"
      PROVE  /\ Ascends(t[k].left) /\ k # Len(t) /\ MadeFor(t[k], t[k + 1])
             /\ \A j \in 1 .. Len(t) : k < j /\ t[j].of = "instance" => t[j].me < t[k].me
  <2> DEFINE m == k + 1
  <2>1. m \in 1 .. Len(s) /\ s[m] = t[k] /\ (m # Len(s) => k # Len(t) /\ k + 1 \in 1 .. Len(t))
    BY <1>1, <1>2
  <2>2. /\ Ascends(s[m].left) /\ m # Len(s) /\ MadeFor(s[m], s[m + 1])
        /\ \A j \in 1 .. Len(s) : m < j /\ s[j].of = "instance" => s[j].me < s[m].me
    BY <1>4, <2>1 DEF Tower
  <2>3. t[k + 1] = s[m + 1]
    BY <1>1, <2>1, <2>2
  <2>4. \A j \in 1 .. Len(t) : k < j => j + 1 \in 1 .. Len(s) /\ m < j + 1 /\ s[j + 1] = t[j]
    BY <1>1
  <2> HIDE DEF m
  <2>5. QED
    BY <2>1, <2>2, <2>3, <2>4
<1>5. QED
  BY <1>1, <1>3, <1>4 DEF Tower, Tops, t

LEMMA TowerPush ==
  ASSUME NEW S, NEW s \in Seq(S), NEW a \in S, Tower(s), Tops(a, s)
  PROVE  Tower(<<a>> \o s)
<1> DEFINE t == <<a>> \o s
<1>1. /\ t \in Seq(S) /\ Len(t) = Len(s) + 1 /\ Len(s) \in Nat
      /\ t[1] = a /\ \A k \in 1 .. Len(s) : t[k + 1] = s[k]
  BY PushIs
<1> HIDE DEF t
<1>2. ASSUME t[1].of = "instance"
      PROVE  /\ Ascends(t[1].left) /\ 1 # Len(t) /\ MadeFor(t[1], t[1 + 1])
             /\ \A j \in 1 .. Len(t) : 1 < j /\ t[j].of = "instance" => t[j].me < t[1].me
  <2>1. /\ Ascends(a.left) /\ s # <<>> /\ MadeFor(a, Head(s))
        /\ \A j \in 1 .. Len(s) : s[j].of = "instance" => s[j].me < a.me
    BY <1>1, <1>2 DEF Tops
  <2>2. Len(s) # 0 /\ Head(s) = s[1]
    BY <1>1, <2>1, HeadAndTail
  <2>3. t[1 + 1] = s[1]
    BY <1>1, <2>2
  <2>4. ASSUME NEW j \in 1 .. Len(t), 1 < j, t[j].of = "instance" PROVE t[j].me < t[1].me
    <3>1. PICK i \in 1 .. Len(s) : j = i + 1
      BY <1>1, <2>4
    <3>2. QED
      BY <1>1, <2>1, <2>4, <3>1
  <2>5. QED
    BY <1>1, <2>1, <2>2, <2>3, <2>4
<1>3. ASSUME NEW k \in 1 .. Len(t), k # 1, t[k].of = "instance"
      PROVE  /\ Ascends(t[k].left) /\ k # Len(t) /\ MadeFor(t[k], t[k + 1])
             /\ \A j \in 1 .. Len(t) : k < j /\ t[j].of = "instance" => t[j].me < t[k].me
  <2>a. Len(t) = Len(s) + 1 /\ Len(s) \in Nat
    BY <1>1
  <2>b. k \in 1 .. Len(t) /\ k # 1
    BY <1>3
  <2>1. PICK m \in 1 .. Len(s) : k = m + 1
    <3>1. k - 1 \in 1 .. Len(s) /\ k = (k - 1) + 1
      BY ONLY <2>a, <2>b
    <3>2. QED
      BY <3>1
  <2>2. t[k] = s[m]
    BY <1>1, <2>1
  <2>3. /\ Ascends(s[m].left) /\ m # Len(s) /\ MadeFor(s[m], s[m + 1])
        /\ \A j \in 1 .. Len(s) : m < j /\ s[j].of = "instance" => s[j].me < s[m].me
    BY <1>3, <2>2 DEF Tower
  <2>4. k # Len(t) /\ t[k + 1] = s[m + 1]
    BY <1>1, <2>1, <2>3
  <2>5. ASSUME NEW j \in 1 .. Len(t), k < j, t[j].of = "instance" PROVE t[j].me < t[k].me
    <3>1. PICK i \in 1 .. Len(s) : j = i + 1 /\ m < i
      BY <1>1, <2>1, <2>5
    <3>2. QED
      BY <1>1, <2>2, <2>3, <2>5, <3>1
  <2>6. QED
    BY <2>2, <2>3, <2>4, <2>5
<1>4. QED
  BY <1>2, <1>3 DEF Tower, t

LEMMA ByNameAscends ==
  ASSUME NEW S, S \subseteq Field
  PROVE  Ascends(ByName(S))
<1> DEFINE rank == [f \in S |-> f]
           s    == Sorted(S, rank)
<1>1. IsFiniteSet(S) /\ S \subseteq Nat
  BY StartupAssumption, FS_Subset
<1>2. rank \in [S -> Nat] /\ \A x, y \in S : rank[x] = rank[y] => x = y
  BY <1>1
<1>3. s \in Seq(S) /\ Increasing(s, rank)
  <2> HIDE DEF rank
  <2>1. QED
    BY <1>1, <1>2, SortedIs
<1> HIDE DEF s
<1>4. DOMAIN s = 1 .. Len(s) /\ \A i \in DOMAIN s : s[i] \in S
  BY <1>3, LenProperties, ElementOfSeq
<1>5. QED
  BY <1>3, <1>4 DEF Increasing, Ascends, ByName, s

LEMMA AscendsTail ==
  ASSUME NEW S, NEW left \in Seq(S), left # <<>>, Ascends(left)
  PROVE  Ascends(Tail(left)) /\ \A i \in 1 .. Len(Tail(left)) : Head(left) < Tail(left)[i]
<1> DEFINE t == Tail(left)
<1>1. /\ Head(left) = left[1] /\ Len(left) \in Nat \ {0} /\ Len(t) = Len(left) - 1
      /\ \A k \in 1 .. Len(t) : t[k] = left[k + 1]
  BY HeadAndTail
<1> HIDE DEF t
<1>2. \A i \in 1 .. Len(t) : i + 1 \in 1 .. Len(left) /\ 1 \in 1 .. Len(left) /\ 1 < i + 1
  BY <1>1
<1>3. \A i, j \in 1 .. Len(t) : i < j => i + 1 < j + 1
  BY <1>1
<1>4. QED
  BY <1>1, <1>2, <1>3 DEF Ascends, t

(* The call on top goes on, with one field less to initialise.             *)
LEMMA TowerTop ==
  ASSUME NEW S, NEW s \in Seq(S), s # <<>>, Tower(s), NEW b \in S, b.of = Head(s).of,
         b.of = "instance" => b.class = Head(s).class /\ b.me = Head(s).me /\ Ascends(b.left)
  PROVE  Tower(<<b>> \o Tail(s))
<1>1. Tops(Head(s), Tail(s)) /\ Tower(Tail(s)) /\ Tail(s) \in Seq(S)
  BY TowerPop, HeadAndTail
<1>2. Tops(b, Tail(s))
  BY <1>1 DEF Tops, MadeFor
<1>3. QED
  BY <1>1, <1>2, TowerPush

LEMMA StoreTower ==
  ASSUME Ongoing, NEW under \in Seq(CallsNow), under # <<>>, Tower(under), Head(under).left # <<>>,
         Head(under).of = "shared" => Head(under).ready, NEW v, Store(v, under)
  PROVE  Tower(calls')
<1> DEFINE c == Head(under)
           b == Shorter(c)
<1>1. c \in CallsNow
  BY HeadAndTail
<1>2. b \in CallsNow /\ b.of = c.of
  BY <1>1, CallShorter DEF CallsNow
<1>3. c.of = "instance" => b.class = c.class /\ b.me = c.me /\ Ascends(b.left)
  <2> SUFFICES ASSUME c.of = "instance" PROVE b.class = c.class /\ b.me = c.me /\ Ascends(b.left)
    OBVIOUS
  <2>1. c \in InstanceCalls(objects)
    BY <1>1, CallKinds DEF CallsNow
  <2>2. Ascends(c.left)
    BY TowerPop DEF Tops
  <2>3. c.left \in Seq(Field) /\ b.class = c.class /\ b.me = c.me /\ b.left = Tail(c.left)
    BY <2>1 DEF InstanceCalls, Shorter
  <2>4. QED
    BY <2>2, <2>3, AscendsTail
<1>4. calls' = <<b>> \o Tail(under)
  BY DEF Store, Shorter
<1> HIDE DEF b, c
<1>5. Tower(<<b>> \o Tail(under))
  BY <1>2, <1>3, TowerTop DEF c
<1>6. QED
  BY <1>4, <1>5

(* What the field at hand is initialised with leads to what it creates.    *)
LEMMA CreatesWhat ==
  ASSUME Ongoing, InField, (Source.kind = "default" /\ ~NullByDefault) \/ Source.kind = "new"
  PROVE  Creates(Call.class, AtHead) = {Source.class}
BY DEF Creates, Source, NullByDefault

LEMMA CreateTower ==
  ASSUME Ongoing, InField, Tower(calls), NEW c \in Creates(Call.class, AtHead), NEW args \in BOOLEAN,
         CreateInstance(c, args)
  PROVE  Tower(calls')
<1> DEFINE n == Len(objects)
           a == Instance(c, n + 1, args)
<1>1. calls' = <<a>> \o calls \/ calls' = calls
  BY DEF CreateInstance, Push
<1>2. a.of = "instance" /\ a.class = c /\ a.me = n + 1 /\ a.left = ByName(NamesOf(c, FALSE))
  BY DEF Instance
<1>3. calls \in Seq(CallsNow) /\ calls # <<>> /\ \A j \in 1 .. Len(calls) : calls[j] \in CallsNow
  BY ElementOfSeq DEF Ongoing, DataSound, CallsNow, InField
<1>4. Ascends(a.left)
  <2>1. NamesOf(c, FALSE) \subseteq Field
    BY DEF NamesOf
  <2>2. QED
    BY <1>2, <2>1, ByNameAscends
<1>5. ASSUME NEW j \in 1 .. Len(calls), calls[j].of = "instance" PROVE calls[j].me < a.me
  <2>1. calls[j] \in InstanceCalls(objects)
    BY <1>3, <1>5, CallKinds DEF CallsNow
  <2>2. calls[j].me \in 1 .. n /\ n \in Nat
    BY <2>1, ObjectsCount DEF InstanceCalls
  <2>3. QED
    BY <1>2, <2>2
<1>6. MadeFor(a, Head(calls))
  BY <1>2 DEF MadeFor, Call, AtHead
<1> HIDE DEF a
<1>7. Tops(a, calls)
  BY <1>3, <1>4, <1>5, <1>6 DEF Tops
<1>8. calls \in Seq(CallsNow \cup {a}) /\ a \in CallsNow \cup {a}
  BY <1>3, SeqMonotonic
<1>9. Tower(<<a>> \o calls)
  BY <1>7, <1>8, TowerPush
<1>10. QED
  BY <1>1, <1>9

(* A list of classes goes on with the classes inside the next one, then    *)
(* with its shared fields if it has any.                                   *)
NotInstances == {a \in CallsNow : a.of # "instance"}

LEMMA SharedInitCalls ==
  ASSUME Ongoing, SharedInit
  PROVE  /\ calls \in Seq(CallsNow) /\ calls # <<>> /\ Call.of = "classes" /\ Rest \in Seq(CallsNow)
         /\ UNCHANGED <<sharedMem, objects, inits>>
         /\ \E a, b, c \in NotInstances :
              /\ a = Classes(shape.tree[AtHead]) /\ b = Shorter(Call) /\ c.of = "shared"
              /\ calls' \in {calls, <<a>> \o (<<b>> \o Rest), <<a>> \o (<<c>> \o (<<b>> \o Rest))}
         /\ AtHead \in Class /\ Call.left # <<>>
         /\ phase' = "overflow" => MaxDepth <= Len(Rest) + 2
<1> DEFINE a == Classes(shape.tree[AtHead])
           b == Shorter(Call)
           c == SharedOf(AtHead)
           under == IF NamesOf(AtHead, TRUE) = {} THEN <<Advance>> \o Rest ELSE <<c, Advance>> \o Rest
<1>1. calls # <<>> /\ Call.of = "classes" /\ Call.left # <<>> /\ UNCHANGED <<sharedMem, objects, inits>>
  BY DEF SharedInit, In
<1>2. calls \in Seq(CallsNow) /\ Call \in CallsNow /\ Rest \in Seq(CallsNow)
  BY <1>1, CallIs DEF Ongoing, DataSound, CallsNow
<1>3. b \in NotInstances /\ b = Advance
  BY <1>1, <1>2, CallShorter DEF CallsNow, NotInstances, Advance, Shorter
<1>4. AtHead \in Class
  BY <1>1, <1>2, CallKinds, HeadAndTail DEF CallsNow, ListCalls, AtHead
<1>5. c \in NotInstances /\ c.of = "shared"
  BY <1>4, SharedOfIs DEF CallsNow, NotInstances
<1>6. a \in NotInstances
  <2>1. shape.tree[AtHead] \in Seq(Class)
    BY <1>4, TreeIs DEF Ongoing, ProgramSound, Places
  <2>2. a \in ListCalls /\ a.of = "classes"
    BY <2>1 DEF Classes, ListCalls
  <2>3. QED
    BY <2>2 DEF NotInstances, CallsNow, CallSet
<1>7. /\ calls' = <<a>> \o under \/ calls' = calls
      /\ phase' = "overflow" => ~(Len(under) < MaxDepth)
  BY DEF SharedInit, Push, In
<1>8. under = <<b>> \o Rest \/ under = <<c, b>> \o Rest
  BY <1>3
<1>9. c \in CallsNow /\ b \in CallsNow
  BY <1>3, <1>5 DEF NotInstances
<1> HIDE DEF a, b, c, under
<1>10. <<c, b>> \o Rest = <<c>> \o (<<b>> \o Rest)
  BY <1>2, <1>9, TwoCalls
<1>11. calls' \in {calls, <<a>> \o (<<b>> \o Rest), <<a>> \o (<<c>> \o (<<b>> \o Rest))}
  BY <1>7, <1>8, <1>10
<1>12. Len(under) \in {Len(Rest) + 1, Len(Rest) + 2} /\ Len(Rest) \in Nat /\ MaxDepth \in Nat
  <2>1. Len(<<b>> \o Rest) = Len(Rest) + 1 /\ <<b>> \o Rest \in Seq(CallsNow) /\ Len(Rest) \in Nat
    BY <1>2, <1>9, PushIs
  <2>2. Len(<<c>> \o (<<b>> \o Rest)) = Len(Rest) + 2
    BY <1>9, <2>1, PushIs
  <2>3. QED
    BY <1>8, <1>10, <2>1, <2>2, StartupAssumption
<1>13. phase' = "overflow" => MaxDepth <= Len(Rest) + 2
  BY <1>7, <1>12
<1>14. a = Classes(shape.tree[AtHead]) /\ b = Shorter(Call)
  BY DEF a, b
<1>15. QED
  BY <1>1, <1>2, <1>3, <1>4, <1>5, <1>6, <1>11, <1>13, <1>14

LEMMA NotInstanceTower ==
  ASSUME NEW s \in Seq(CallsNow), Tower(s), NEW a \in NotInstances
  PROVE  <<a>> \o s \in Seq(CallsNow) /\ Tower(<<a>> \o s)
<1>1. a \in CallsNow /\ Tops(a, s)
  BY DEF NotInstances, Tops
<1>2. QED
  BY <1>1, TowerPush, PushIs

LEMMA SharedInitTower ==
  ASSUME Ongoing, Tower(calls), SharedInit
  PROVE  Tower(calls')
<1>1. Rest \in Seq(CallsNow) /\ Tower(Rest)
  BY SharedInitCalls, TowerPop DEF Rest
<1>2. PICK a, b, c \in NotInstances :
        calls' \in {calls, <<a>> \o (<<b>> \o Rest), <<a>> \o (<<c>> \o (<<b>> \o Rest))}
  BY SharedInitCalls
<1> DEFINE more == <<b>> \o Rest
           under == <<c>> \o more
<1>3. more \in Seq(CallsNow) /\ Tower(more)
  BY <1>1, NotInstanceTower
<1> HIDE DEF more
<1>4. under \in Seq(CallsNow) /\ Tower(under)
  BY <1>3, NotInstanceTower
<1> HIDE DEF under
<1>5. Tower(<<a>> \o more) /\ Tower(<<a>> \o under)
  BY <1>3, <1>4, NotInstanceTower
<1>6. calls' \in {calls, <<a>> \o more, <<a>> \o under}
  BY <1>2 DEF more, under
<1>7. QED
  BY <1>5, <1>6

LEMMA ReturnTower ==
  ASSUME Ongoing, Tower(calls), calls # <<>>, calls' = Rest
  PROVE  Tower(calls')
<1>1. calls \in Seq(CallsNow)
  BY DEF Ongoing, DataSound, CallsNow
<1>2. QED
  BY <1>1, TowerPop DEF Rest

LEMMA AddClassCalls ==
  ASSUME Ongoing, AddClass
  PROVE  /\ calls # <<>> /\ Call.of = "shared" /\ Rest \in Seq(CallsNow) /\ UNCHANGED <<objects, inits>>
         /\ \E a : a.of = "shared" /\ calls' \in {Rest, <<a>> \o Rest}
<1> DEFINE b == [Call EXCEPT !.ready = TRUE]
<1>1. calls # <<>> /\ Call.of = "shared" /\ UNCHANGED <<objects, inits>>
  BY DEF AddClass, In
<1>2. Call \in CallsNow /\ Rest \in Seq(CallsNow)
  BY <1>1, CallIs
<1>3. calls' = Rest \/ calls' = <<b>> \o Rest
  BY DEF AddClass
<1>4. b.of = "shared"
  BY <1>1, <1>2, CallKinds DEF CallsNow, SharedCalls
<1> HIDE DEF b
<1>5. QED
  BY <1>1, <1>2, <1>3, <1>4

LEMMA AddClassTower ==
  ASSUME Ongoing, Tower(calls), AddClass
  PROVE  Tower(calls')
<1>1. PICK a : a.of = "shared" /\ calls' \in {Rest, <<a>> \o Rest}
  BY AddClassCalls
<1>2. Tower(Rest)
  BY AddClassCalls, TowerPop DEF Rest, Ongoing, DataSound
<1>3. Rest \in Seq(CallsNow \cup {a}) /\ a \in CallsNow \cup {a} /\ Tops(a, Rest)
  BY <1>1, AddClassCalls, SeqMonotonic DEF Tops
<1>4. Tower(<<a>> \o Rest)
  BY <1>2, <1>3, TowerPush
<1>5. QED
  BY <1>1, <1>2, <1>4

(* An instance that is made has its constructor called, and it is the      *)
(* value of the field it was made for.                                     *)
LEMMA ConstructAt ==
  ASSUME Ongoing, Construct
  PROVE  /\ calls \in Seq(CallsNow) /\ calls # <<>> /\ Call \in InstanceCalls(objects) /\ Call.left = <<>>
         /\ Rest \in Seq(CallsNow) /\ Nested(Rest) /\ Rest # <<>>
         /\ Head(Rest).of # "classes" /\ Head(Rest).left # <<>>
         /\ Head(Rest).of = "shared" => Head(Rest).ready
         /\ Store(Call.me, Rest) \/ UNCHANGED <<calls, sharedMem, objects, inits>>
<1>1. calls # <<>> /\ Call.of = "instance" /\ Call.left = <<>>
  BY DEF Construct, In
<1>2. Call \in CallsNow /\ Rest \in Seq(CallsNow) /\ Nested(Rest) /\ Fits(Call, Rest)
  BY <1>1, CallIs
<1>3. Call \in InstanceCalls(objects)
  BY <1>1, <1>2, CallKinds DEF CallsNow
<1>4. /\ Rest # <<>> /\ Head(Rest).of # "classes" /\ Head(Rest).left # <<>>
      /\ Head(Rest).of = "shared" => Head(Rest).ready
  BY <1>1, <1>2 DEF Fits, Rests
<1>5. Store(Call.me, Rest) \/ UNCHANGED <<calls, sharedMem, objects, inits>>
  BY DEF Construct
<1>6. calls \in Seq(CallsNow)
  BY DEF Ongoing, DataSound, CallsNow
<1>7. QED
  BY <1>1, <1>2, <1>3, <1>4, <1>5, <1>6

LEMMA ConstructTower ==
  ASSUME Ongoing, Tower(calls), Construct
  PROVE  Tower(calls')
<1>1. Tower(Rest)
  BY ConstructAt, TowerPop DEF Rest
<1>2. CASE Store(Call.me, Rest)
  BY <1>1, <1>2, ConstructAt, StoreTower
<1>3. QED
  BY <1>2, ConstructAt

LEMMA StoreTopTower ==
  ASSUME Ongoing, Tower(calls), InField, NEW v, Store(v, calls)
  PROVE  Tower(calls')
<1>1. calls \in Seq(CallsNow) /\ calls # <<>>
  BY DEF Ongoing, DataSound, CallsNow, InField
<1>2. Head(calls).left # <<>> /\ (Head(calls).of = "shared" => Head(calls).ready)
  BY DEF InField, Call
<1>3. QED
  BY <1>1, <1>2, StoreTower

(* What a step of the initialisation does to the calls and the values.     *)
LEMMA StepKinds ==
  ASSUME Ongoing, Initialising
  PROVE  \/ SharedInit \/ AddClass \/ LeaveList \/ LeaveShared \/ Construct
         \/ \E v : InField /\ Store(v, calls)
         \/ InField /\ \E c \in Creates(Call.class, AtHead), args \in BOOLEAN : CreateInstance(c, args)
         \/ InField /\ UNCHANGED <<calls, sharedMem, objects, inits>> /\ ReadShared
<1>1. CASE InitDefault
  BY <1>1, CreatesWhat DEF InitDefault
<1>2. CASE InitNew
  BY <1>2, CreatesWhat DEF InitNew
<1>3. CASE ReadShared
  BY <1>3 DEF ReadShared
<1>4. CASE InitPlain \/ ReadOwn
  BY <1>4 DEF InitPlain, ReadOwn
<1>5. QED
  BY <1>1, <1>2, <1>3, <1>4 DEF Initialising

LEMMA TowerStep ==
  ASSUME Ongoing, Tower(calls), Initialising
  PROVE  Tower(calls')
<1>1. LeaveList \/ LeaveShared => Tower(calls')
  BY InitialisingIs, ReturnTower DEF LeaveList, LeaveShared, Return
<1>2. QED
  BY <1>1, StepKinds, SharedInitTower, AddClassTower, ConstructTower, StoreTopTower, CreateTower

-----------------------------------------------------------------------------
(* Every field of every instance waits to be initialised, or something     *)
(* holds of it that holds from then on.                                    *)
Settled(objs, s, G) ==
  \A o \in DOMAIN objs : \A f \in NamesOf(objs[o].class, FALSE) : Waits(o, f, s) \/ <<o, f>> \in G

LEMMA WaitsHead ==
  ASSUME NEW S, NEW a, a.left \in Seq(S), a.left # <<>>, NEW b, b.of = a.of, b.left = Tail(a.left),
         a.of = "instance" => b.me = a.me, NEW o, NEW f, WaitsAt(a, o, f)
  PROVE  WaitsAt(b, o, f) \/ (a.of = "instance" /\ o = a.me /\ f = Head(a.left))
<1> DEFINE left == a.left
           t    == Tail(left)
<1>1. /\ Head(left) = left[1] /\ Len(left) \in Nat \ {0} /\ Len(t) = Len(left) - 1
      /\ \A k \in 1 .. Len(t) : t[k] = left[k + 1]
  BY HeadAndTail
<1>2. a.of = "instance" /\ a.me = o
  BY DEF WaitsAt
<1>3. PICK i \in 1 .. Len(left) : left[i] = f
  BY DEF WaitsAt
<1>4. CASE i = 1
  BY <1>1, <1>2, <1>3, <1>4
<1>5. CASE i # 1
  <2>1. i - 1 \in 1 .. Len(t) /\ i = (i - 1) + 1
    BY <1>1, <1>3, <1>5
  <2>2. t[i - 1] = f
    BY <1>1, <1>3, <2>1
  <2>3. QED
    BY <1>2, <2>1, <2>2 DEF WaitsAt
<1>6. QED
  BY <1>4, <1>5

LEMMA WaitsStore ==
  ASSUME Ongoing, NEW under \in Seq(CallsNow), under # <<>>, Head(under).left # <<>>,
         Head(under).of = "shared" => Head(under).ready, NEW v, Store(v, under),
         NEW o, NEW f, Waits(o, f, under)
  PROVE  Waits(o, f, calls')
         \/ (Head(under).of = "instance" /\ o = Head(under).me /\ f = Head(Head(under).left))
<1> DEFINE c == Head(under)
           b == Shorter(c)
<1>1. c \in CallsNow /\ Tail(under) \in Seq(CallsNow)
  BY HeadAndTail
<1>2. b \in CallsNow /\ b.of = c.of
  BY <1>1, CallShorter DEF CallsNow
<1>3. calls' = <<b>> \o Tail(under)
  BY DEF Store, Shorter
<1>4. WaitsAt(c, o, f) => WaitsAt(b, o, f) \/ (c.of = "instance" /\ o = c.me /\ f = Head(c.left))
  <2> SUFFICES ASSUME WaitsAt(c, o, f)
               PROVE  WaitsAt(b, o, f) \/ (c.of = "instance" /\ o = c.me /\ f = Head(c.left))
    OBVIOUS
  <2>1. c.of = "instance"
    BY DEF WaitsAt
  <2>2. c \in InstanceCalls(objects)
    BY <1>1, <2>1, CallKinds DEF CallsNow
  <2>3. c.left \in Seq(Field) /\ b.me = c.me /\ b.left = Tail(c.left)
    BY <2>2 DEF InstanceCalls, Shorter
  <2> HIDE DEF b, c
  <2>4. c.left # <<>>
    BY DEF c
  <2>5. QED
    BY <1>2, <2>3, <2>4, WaitsHead
<1> HIDE DEF b, c
<1>5. Waits(o, f, calls') <=> WaitsAt(b, o, f) \/ Waits(o, f, Tail(under))
  BY <1>1, <1>2, <1>3, WaitsPush
<1>6. WaitsAt(c, o, f) \/ Waits(o, f, Tail(under))
  BY WaitsPop DEF c
<1>7. QED
  BY <1>4, <1>5, <1>6 DEF c

LEMMA SettledStore ==
  ASSUME Ongoing, NEW under \in Seq(CallsNow), under # <<>>, Head(under).left # <<>>,
         Head(under).of = "shared" => Head(under).ready, NEW v, Store(v, under),
         NEW G, Settled(objects, under, G), NEW H, G \subseteq H,
         DOMAIN objects' = DOMAIN objects, More(objects, objects'),
         Head(under).of = "instance" => <<Head(under).me, Head(Head(under).left)>> \in H
  PROVE  Settled(objects', calls', H)
<1> SUFFICES ASSUME NEW o \in DOMAIN objects, NEW f \in NamesOf(objects[o].class, FALSE)
             PROVE  Waits(o, f, calls') \/ <<o, f>> \in H
  BY DEF Settled, More
<1>1. Waits(o, f, under) \/ <<o, f>> \in G
  BY DEF Settled
<1>2. QED
  BY <1>1, WaitsStore

LEMMA SettledCreate ==
  ASSUME Ongoing, InField, NEW c \in Class, NEW args \in BOOLEAN, CreateInstance(c, args),
         phase' # "overflow", NEW G, Settled(objects, calls, G), NEW H, G \subseteq H
  PROVE  Settled(objects', calls', H)
<1> DEFINE n == Len(objects)
           a == Instance(c, n + 1, args)
           new == [class |-> c, fields |-> NoValues(c)]
<1>1. calls' = <<a>> \o calls /\ objects' = Append(objects, new)
  BY DEF CreateInstance, Push, NoValues
<1>2. a.of = "instance" /\ a.me = n + 1 /\ a.left = ByName(NamesOf(c, FALSE))
  BY DEF Instance
<1>3. \A o, f : Waits(o, f, calls') <=> WaitsAt(a, o, f) \/ Waits(o, f, calls)
  <2>1. calls \in Seq(CallsNow \cup {a}) /\ a \in CallsNow \cup {a}
    BY SeqMonotonic DEF Ongoing, DataSound, CallsNow
  <2> HIDE DEF a
  <2>2. QED
    BY <1>1, <2>1, WaitsPush
<1>4. n \in Nat /\ DOMAIN objects = 1 .. n /\ objects \in Seq([class : Class, fields : Arrays])
  BY ObjectsCount DEF Ongoing, DataSound, MadeSo
<1>5. /\ DOMAIN objects' = 1 .. n + 1 /\ objects'[n + 1].class = c
      /\ \A o \in 1 .. n : objects'[o] = objects[o]
  <2>1. new \in [class : Class, fields : Arrays] /\ new.class = c
    <3>1. NoValues(c) \in [0 .. Len(declared[c]) - 1 -> Garbage .. 0]
      BY DEF NoValues, Garbage
    <3>2. ProgramSound /\ 0 \in Nat
      BY DEF Ongoing
    <3>3. NoValues(c) \in Arrays
      BY ONLY <3>1, <3>2, c \in Class, ArraysAre
    <3>4. QED
      BY <3>3
  <2> HIDE DEF new
  <2>2. QED
    BY <1>1, <1>4, <2>1, AppendProperties
<1> SUFFICES ASSUME NEW o \in 1 .. n + 1, NEW f \in NamesOf(objects'[o].class, FALSE)
             PROVE  Waits(o, f, calls') \/ <<o, f>> \in H
  BY <1>5 DEF Settled
<1>6. CASE o = n + 1
  <2>1. f \in NamesOf(c, FALSE) /\ NamesOf(c, FALSE) \subseteq Field
    BY <1>5, <1>6 DEF NamesOf
  <2>2. \E i \in 1 .. Len(a.left) : a.left[i] = f
    <3> DEFINE names == NamesOf(c, FALSE)
    <3>1. names \subseteq Field /\ f \in names
      BY <2>1
    <3> HIDE DEF names
    <3>2. \E i \in 1 .. Len(ByName(names)) : ByName(names)[i] = f
      BY <3>1, ByNameIs
    <3>3. QED
      BY <1>2, <3>2 DEF names
  <2>3. WaitsAt(a, o, f)
    BY <1>2, <1>6, <2>2 DEF WaitsAt
  <2>4. QED
    BY <1>3, <2>3
<1>7. CASE o # n + 1
  <2>1. o \in DOMAIN objects /\ objects'[o] = objects[o]
    BY <1>4, <1>5, <1>7
  <2>2. Waits(o, f, calls) \/ <<o, f>> \in G
    BY <2>1 DEF Settled
  <2>3. QED
    BY <1>3, <2>2
<1>8. QED
  BY <1>6, <1>7

LEMMA ConstructWaits ==
  ASSUME Ongoing, Construct, NEW o, NEW f, Waits(o, f, calls)
  PROVE  Waits(o, f, Rest)
<1>1. ~WaitsAt(Call, o, f)
  BY ConstructAt DEF WaitsAt
<1>2. QED
  BY <1>1, ConstructAt, WaitsPop DEF Call, Rest

(* What initialises no instance makes none wait, and none go on.           *)
LEMMA OthersWait ==
  ASSUME Ongoing, SharedInit \/ AddClass \/ LeaveList \/ LeaveShared
  PROVE  /\ \A o, f : Waits(o, f, calls) => Waits(o, f, calls')
         /\ UNCHANGED <<objects, inits>>
<1>1. \A a, o, f : a.of # "instance" => ~WaitsAt(a, o, f)
  BY DEF WaitsAt
<1>2. calls \in Seq(CallsNow)
  BY DEF Ongoing, DataSound, CallsNow
<1>3. ASSUME calls # <<>>, Call.of # "instance" PROVE \A o, f : Waits(o, f, calls) => Waits(o, f, Rest)
  BY <1>1, <1>2, <1>3, WaitsPop DEF Call, Rest
<1>4. CASE SharedInit
  <2>1. Rest \in Seq(CallsNow) /\ UNCHANGED <<objects, inits>> /\ \A o, f : Waits(o, f, calls) => Waits(o, f, Rest)
    BY <1>3, <1>4, SharedInitCalls
  <2>2. PICK a, b, c \in NotInstances :
          calls' \in {calls, <<a>> \o (<<b>> \o Rest), <<a>> \o (<<c>> \o (<<b>> \o Rest))}
    BY <1>4, SharedInitCalls
  <2> DEFINE more == <<b>> \o Rest
             under == <<c>> \o more
  <2>3. a \in CallsNow /\ b \in CallsNow /\ c \in CallsNow
    BY DEF NotInstances
  <2>4. more \in Seq(CallsNow) /\ \A o, f : Waits(o, f, Rest) => Waits(o, f, more)
    BY <2>1, <2>3, WaitsPush, PushIs
  <2> HIDE DEF more
  <2>5. under \in Seq(CallsNow) /\ \A o, f : Waits(o, f, more) => Waits(o, f, under)
    BY <2>3, <2>4, WaitsPush, PushIs
  <2> HIDE DEF under
  <2>6. \A o, f : (Waits(o, f, more) => Waits(o, f, <<a>> \o more)) /\ (Waits(o, f, under) => Waits(o, f, <<a>> \o under))
    BY <2>3, <2>4, <2>5, WaitsPush
  <2>7. calls' \in {calls, <<a>> \o more, <<a>> \o under}
    BY <2>2 DEF more, under
  <2>8. QED
    BY <2>1, <2>4, <2>5, <2>6, <2>7
<1>5. CASE AddClass
  <2>1. PICK a : a.of = "shared" /\ calls' \in {Rest, <<a>> \o Rest}
    BY <1>5, AddClassCalls
  <2>2. UNCHANGED <<objects, inits>> /\ \A o, f : Waits(o, f, calls) => Waits(o, f, Rest)
    BY <1>3, <1>5, AddClassCalls
  <2>3. Rest \in Seq(CallsNow \cup {a}) /\ a \in CallsNow \cup {a}
    BY <1>5, AddClassCalls, SeqMonotonic
  <2>4. \A o, f : Waits(o, f, Rest) => Waits(o, f, <<a>> \o Rest)
    BY <2>3, WaitsPush
  <2>5. QED
    BY <2>1, <2>2, <2>4
<1>6. CASE LeaveList \/ LeaveShared
  <2>1. calls # <<>> /\ Call.of # "instance" /\ calls' = Rest /\ UNCHANGED <<objects, inits>>
    BY <1>6 DEF LeaveList, LeaveShared, In, Return
  <2>2. QED
    BY <1>3, <2>1
<1>7. QED
  BY <1>4, <1>5, <1>6

-----------------------------------------------------------------------------
(* Every field has a value, or is still to be initialised.                 *)
SetFields(objs) ==
  {x \in (DOMAIN objs) \X Field :
     /\ x[2] \in NamesOf(objs[x[1]].class, FALSE)
     /\ objs[x[1]].fields[Index(objs[x[1]].class, x[2])] # Garbage}

SetShared(mem) ==
  {x \in (DOMAIN mem) \X Field : x[2] \in NamesOf(x[1], TRUE) /\ mem[x[1]][Index(x[1], x[2])] # Garbage}

Listed(mem) == \A c \in DOMAIN mem : \A f \in NamesOf(c, TRUE) : <<c, f>> \in ToSet(Order)

AllSet(cs, mem, objs, done) ==
  Settled(objs, cs, SetFields(objs)) /\ ToSet(done) \subseteq SetShared(mem) /\ Listed(mem)

(* The place of a field is a place of its array.                           *)
LEMMA IndexFits ==
  ASSUME ProgramSound, NEW c \in Class
  PROVE  /\ \A f \in NamesOf(c, TRUE) : Index(c, f) \in 0 .. Cardinality(NamesOf(c, TRUE)) - 1
         /\ \A f \in NamesOf(c, FALSE) : Index(c, f) \in 0 .. Len(declared[c]) - 1
<1>1. \A s : /\ {Index(c, g) : g \in NamesOf(c, s)} = 0 .. Cardinality(NamesOf(c, s)) - 1
             /\ Cardinality(NamesOf(c, s)) \in Nat /\ Cardinality(NamesOf(c, s)) <= Len(declared[c])
  BY IndexOnto
<1>2. Len(declared[c]) \in Nat
  BY LenProperties DEF ProgramSound
<1>3. \A s : \A f \in NamesOf(c, s) : Index(c, f) \in 0 .. Cardinality(NamesOf(c, s)) - 1
  BY <1>1
<1>4. ASSUME NEW f \in NamesOf(c, FALSE) PROVE Index(c, f) \in 0 .. Len(declared[c]) - 1
  <2>1. Index(c, f) \in 0 .. Cardinality(NamesOf(c, FALSE)) - 1
    BY <1>3
  <2>2. Cardinality(NamesOf(c, FALSE)) \in Nat /\ Cardinality(NamesOf(c, FALSE)) <= Len(declared[c])
    BY <1>1
  <2>3. \A i : \A k, m \in Nat : k <= m /\ i \in 0 .. k - 1 => i \in 0 .. m - 1
    OBVIOUS
  <2>4. QED
    BY ONLY <1>2, <2>1, <2>2, <2>3
<1>5. QED
  BY <1>3, <1>4

LEMMA SharedWritten ==
  ASSUME Ongoing, NEW c \in DOMAIN sharedMem, NEW f \in NamesOf(c, TRUE), NEW v, v # Garbage,
         sharedMem' = MemWith(sharedMem, c, Index(c, f), v)
  PROVE  SetShared(sharedMem) \subseteq SetShared(sharedMem') /\ <<c, f>> \in SetShared(sharedMem') /\ DOMAIN sharedMem' = DOMAIN sharedMem
<1> DEFINE K == Cardinality(NamesOf(c, TRUE))
           i == Index(c, f)
<1>1. c \in Class /\ sharedMem[c] \in [0 .. K - 1 -> Garbage .. Len(objects)]
  BY DEF Ongoing, DataSound, MemSound
<1>2. i \in 0 .. K - 1
  BY <1>1, IndexFits DEF Ongoing
<1>3. /\ DOMAIN sharedMem' = DOMAIN sharedMem /\ sharedMem'[c] = [sharedMem[c] EXCEPT ![i] = v]
      /\ \A d \in DOMAIN sharedMem : d # c => sharedMem'[d] = sharedMem[d]
  BY DEF MemWith
<1>4. sharedMem'[c][i] = v /\ \A j \in 0 .. K - 1 : j # i => sharedMem'[c][j] = sharedMem[c][j]
  BY <1>1, <1>2, <1>3
<1>5. \A g \in NamesOf(c, TRUE) : Index(c, g) \in 0 .. K - 1
  BY <1>1, IndexFits DEF Ongoing
<1>6. f \in Field
  BY DEF NamesOf
<1>7. <<c, f>> \in SetShared(sharedMem')
  BY <1>3, <1>4, <1>6 DEF SetShared
<1>8. ASSUME NEW x \in SetShared(sharedMem) PROVE x \in SetShared(sharedMem')
  <2>1. x \in (DOMAIN sharedMem) \X Field /\ x[2] \in NamesOf(x[1], TRUE) /\ sharedMem[x[1]][Index(x[1], x[2])] # Garbage
    BY DEF SetShared
  <2>2. sharedMem'[x[1]][Index(x[1], x[2])] # Garbage
    BY <1>3, <1>4, <1>5, <2>1
  <2>3. QED
    BY <1>3, <2>1, <2>2 DEF SetShared
<1>9. QED
  BY <1>3, <1>7, <1>8

LEMMA FieldWritten ==
  ASSUME Ongoing, NEW o \in DOMAIN objects, NEW f \in NamesOf(objects[o].class, FALSE),
         NEW v, v # Garbage,
         objects' = MadeWith(objects, o, Index(objects[o].class, f), v)
  PROVE  /\ SetFields(objects) \subseteq SetFields(objects') /\ <<o, f>> \in SetFields(objects')
         /\ DOMAIN objects' = DOMAIN objects /\ More(objects, objects')
<1> DEFINE c == objects[o].class
           i == Index(c, f)
           L == Len(declared[c])
<1>1. More(objects, objects') /\ DOMAIN objects' = DOMAIN objects
  <2>1. \A d \in DOMAIN objects : objects[d] \in [class : Class, fields : Arrays]
    BY ElementOfSeq, LenProperties DEF Ongoing, DataSound, MadeSo
  <2>2. DOMAIN objects' = DOMAIN objects /\ \A d \in DOMAIN objects : objects'[d].class = objects[d].class
    BY <2>1 DEF MadeWith
  <2>3. QED
    BY <2>2 DEF More
<1>2. objects[o].fields \in [0 .. L - 1 -> Garbage .. Len(objects)] /\ objects[o] \in [class : Class, fields : Arrays]
  BY ElementOfSeq, LenProperties DEF Ongoing, DataSound, MadeSo
<1>3. c \in Class
  BY <1>2
<1>4. i \in 0 .. L - 1
  BY <1>3, IndexFits DEF Ongoing
<1>5. /\ objects'[o].fields = [objects[o].fields EXCEPT ![i] = v]
      /\ \A d \in DOMAIN objects : d # o => objects'[d] = objects[d]
  BY <1>2 DEF MadeWith
<1>6. objects'[o].fields[i] = v /\ \A j \in 0 .. L - 1 : j # i => objects'[o].fields[j] = objects[o].fields[j]
  BY <1>2, <1>4, <1>5
<1>7. \A g \in NamesOf(c, FALSE) : Index(c, g) \in 0 .. L - 1
  BY <1>3, IndexFits DEF Ongoing
<1>8. f \in Field
  BY DEF NamesOf
<1>9. objects'[o].class = c
  BY <1>1 DEF More
<1>10. <<o, f>> \in SetFields(objects')
  BY <1>1, <1>6, <1>8, <1>9 DEF SetFields
<1>11. ASSUME NEW x \in SetFields(objects) PROVE x \in SetFields(objects')
  <2>1. /\ x \in (DOMAIN objects) \X Field /\ x[2] \in NamesOf(objects[x[1]].class, FALSE)
        /\ objects[x[1]].fields[Index(objects[x[1]].class, x[2])] # Garbage
    BY DEF SetFields
  <2>2. objects'[x[1]].class = objects[x[1]].class
    BY <1>1, <2>1 DEF More
  <2>3. objects'[x[1]].fields[Index(objects[x[1]].class, x[2])] # Garbage
    <3>1. CASE x[1] = o
      <4>1. Index(c, x[2]) \in 0 .. L - 1
        BY <1>7, <2>1, <3>1
      <4>2. objects'[o].fields[Index(c, x[2])] # Garbage
        BY <1>6, <2>1, <3>1, <4>1
      <4>3. QED
        BY <3>1, <4>2
    <3>2. CASE x[1] # o
      BY <1>5, <2>1, <3>2
    <3>3. QED
      BY <3>1, <3>2
  <2>4. QED
    BY <1>1, <2>1, <2>2, <2>3 DEF SetFields
<1>12. QED
  BY <1>1, <1>10, <1>11

(* The field a call is at is a field of its class.                         *)
LEMMA AtIsOf ==
  ASSUME NEW known, NEW objs, NEW a \in CallSet(known, objs), InitsField(a)
  PROVE  /\ a.class \in Class /\ a.of \in {"shared", "instance"}
         /\ a.of = "shared" => Head(a.left) \in NamesOf(a.class, TRUE)
         /\ a.of = "instance" => Head(a.left) \in NamesOf(a.class, FALSE)
<1>1. a.left # <<>> /\ (a.of = "shared" \/ a.of = "instance")
  BY CallKinds DEF InitsField
<1>2. CASE a.of = "shared"
  <2>1. a \in SharedCalls(known)
    BY <1>2, CallKinds
  <2>2. a.class \in Class /\ a.left \in Seq(NamesOf(a.class, TRUE))
    BY <2>1 DEF SharedCalls
  <2>3. QED
    BY <1>1, <1>2, <2>2, HeadAndTail
<1>3. CASE a.of = "instance"
  <2>1. a \in InstanceCalls(objs)
    BY <1>3, CallKinds
  <2>2. a.class \in Class /\ a.left \in Seq(NamesOf(a.class, FALSE))
    BY <2>1 DEF InstanceCalls
  <2>3. QED
    BY <1>1, <1>3, <2>2, HeadAndTail
<1>4. QED
  BY <1>1, <1>2, <1>3

(* The instances that are made one for the other, however many, are of     *)
(* classes the first field leads to.                                       *)
LEMMA MadeBelow ==
  ASSUME Ongoing, Tower(calls), NEW k \in 1 .. Len(calls), InitsField(calls[k]),
         \A j \in 1 .. Len(calls) : j < k => calls[j].of = "instance"
  PROVE  /\ Creates(calls[k].class, Head(calls[k].left)) \subseteq Class
         /\ \A j \in 1 .. Len(calls) : j < k =>
              calls[j].class \in Closure(Creates(calls[k].class, Head(calls[k].left)))
<1> DEFINE S == Creates(calls[k].class, Head(calls[k].left))
           Good == {n \in Nat : n + 2 <= k => calls[k - (n + 1)].class \in Closure(S)}
<1>1. /\ \A i \in 1 .. Len(calls) : calls[i] \in CallsNow
      /\ Nested(calls) /\ ProgramSound /\ Len(calls) \in Nat
  BY ElementOfSeq, LenProperties DEF Ongoing, DataSound, CallsNow
<1>2. S \subseteq Class
  <2>1. calls[k] \in CallSet(DOMAIN sharedMem, objects)
    BY <1>1 DEF CallsNow
  <2>2. calls[k].class \in Class /\ \E s : Head(calls[k].left) \in NamesOf(calls[k].class, s)
    BY <2>1, AtIsOf
  <2>3. QED
    BY <1>1, <2>2, CreatesType
<1>3. /\ S \subseteq Closure(S)
      /\ \A c \in Closure(S) : c \in Class /\ Makes(c) \subseteq Closure(S)
  BY <1>1, <1>2, ClosureClosed
<1>4. ASSUME NEW j \in 1 .. Len(calls), j < k
      PROVE  /\ j + 1 \in 1 .. Len(calls) /\ calls[j].class \in Creates(calls[j + 1].class, Head(calls[j + 1].left))
             /\ InitsField(calls[j + 1])
  <2>1. calls[j].of = "instance" /\ j # Len(calls) /\ j + 1 \in 1 .. Len(calls)
    BY <1>1, <1>4
  <2>2. MadeFor(calls[j], calls[j + 1])
    BY <2>1 DEF Tower
  <2>3. Rests(calls[j], calls[j + 1])
    BY <1>1, <2>1 DEF Nested
  <2>4. QED
    BY <2>1, <2>2, <2>3 DEF MadeFor, Rests, InitsField
<1>5. ASSUME NEW j \in 1 .. Len(calls), j + 1 < k, calls[j + 1].class \in Closure(S)
      PROVE  calls[j].class \in Closure(S)
  <2>1. j < k /\ j + 1 \in 1 .. Len(calls)
    BY <1>1, <1>5
  <2>2. InitsField(calls[j + 1]) /\ calls[j + 1].of = "instance"
    BY <1>4, <1>5, <2>1
  <2>3. Head(calls[j + 1].left) \in NamesOf(calls[j + 1].class, FALSE)
    BY <1>1, <2>1, <2>2, AtIsOf DEF CallsNow
  <2>4. Creates(calls[j + 1].class, Head(calls[j + 1].left)) \subseteq Makes(calls[j + 1].class)
    BY <1>1, <1>3, <1>5, <2>3, MakesType
  <2>5. QED
    BY <1>3, <1>4, <1>5, <2>1, <2>4
<1>6. 0 \in Good
  <2>1. ASSUME 2 <= k PROVE calls[k - 1].class \in S
    <3>1. k - 1 \in 1 .. Len(calls) /\ k - 1 < k /\ (k - 1) + 1 = k
      BY <2>1
    <3>2. QED
      BY <1>4, <3>1
  <2>2. QED
    BY <1>3, <2>1
<1>7. \A n \in Nat : n \in Good => n + 1 \in Good
  <2> SUFFICES ASSUME NEW n \in Nat, n \in Good, (n + 1) + 2 <= k
               PROVE  calls[k - ((n + 1) + 1)].class \in Closure(S)
    OBVIOUS
  <2> DEFINE j == k - ((n + 1) + 1)
  <2>1. j \in 1 .. Len(calls) /\ j + 1 < k /\ j + 1 = k - (n + 1) /\ n + 2 <= k
    BY <1>1
  <2>2. calls[j + 1].class \in Closure(S)
    BY <2>1
  <2> HIDE DEF j
  <2>3. calls[j].class \in Closure(S)
    BY <1>5, <2>1, <2>2
  <2>4. QED
    BY <2>3 DEF j
<1>8. ASSUME NEW j \in 1 .. Len(calls), j < k PROVE calls[j].class \in Closure(S)
  <2> DEFINE n == k - (j + 1)
  <2>1. n \in Nat /\ n + 2 <= k /\ k - (n + 1) = j
    BY <1>1, <1>8
  <2> HIDE DEF Good
  <2>2. n \in Good
    BY <1>6, <1>7, <2>1, SetInduction
  <2>3. QED
    BY <2>1, <2>2 DEF Good
<1>9. QED
  BY <1>2, <1>8

LEMMA InitialisedFor ==
  ASSUME Ongoing, InTurn, Tower(calls), InField
  PROVE  /\ \E i \in DOMAIN Order : Order[i] = AtShared
         /\ Call.of = "shared" => AtShared = <<Call.class, AtHead>>
         /\ Call.of = "instance" => Call.class \in Closure(Creates(AtShared[1], AtShared[2]))
<1>1. PICK k \in 1 .. Len(calls) :
        /\ calls[k].of = "shared" /\ InitsField(calls[k])
        /\ \A j \in 1 .. Len(calls) : j < k => calls[j].of = "instance"
        /\ AtShared = <<calls[k].class, Head(calls[k].left)>>
  BY AtSharedAt
<1>2. calls # <<>> /\ calls \in Seq(CallsNow)
  BY DEF InField, Ongoing, DataSound, CallsNow
<1>3. Len(calls) \in Nat \ {0} /\ Call = calls[1]
  BY <1>2, HeadAndTail DEF Call
<1>4. Call.of = "shared" => k = 1
  BY <1>1, <1>3
<1>5. Call.of = "instance" => 1 < k
  BY <1>1, <1>3
<1>6. Call.of = "instance" => Call.class \in Closure(Creates(calls[k].class, Head(calls[k].left)))
  BY <1>1, <1>3, <1>5, MadeBelow
<1>7. \E i \in DOMAIN Order : Order[i] = AtShared
  <2>1. PICK r \in Seq(Pairs) : Remains(calls) = <<AtShared>> \o r /\ AtShared \in Pairs
    BY AtSharedIs
  <2> DEFINE t == <<AtShared>> \o r
  <2>2. t \in Seq(Pairs) /\ Len(t) = Len(r) + 1 /\ Len(r) \in Nat /\ t[1] = AtShared
    BY <2>1, PushIs
  <2>3. inits \in Seq(Pairs) /\ Order = inits \o t
    BY <2>1 DEF InTurn
  <2> HIDE DEF t
  <2>4. Len(inits) \in Nat /\ Len(Order) = Len(inits) + Len(t) /\ \A i \in 1 .. Len(t) : Order[Len(inits) + i] = t[i]
    <3>1. /\ Len(inits) \in Nat /\ Len(inits \o t) = Len(inits) + Len(t)
          /\ \A i \in 1 .. Len(t) : (inits \o t)[Len(inits) + i] = t[i]
      <4>1. inits \in Seq(Pairs)
        BY <2>3
      <4>2. t \in Seq(Pairs)
        BY <2>2
      <4>3. QED
        BY ONLY <4>1, <4>2, PrefixIs
    <3>2. Order = inits \o t
      BY <2>3
    <3>3. QED
      BY ONLY <3>1, <3>2
  <2>5. Len(inits) + 1 \in DOMAIN Order /\ Order[Len(inits) + 1] = t[1]
    <3>1. Order \in Seq(Pairs)
      BY OrderIs DEF Ongoing, ProgramSound
    <3>2. DOMAIN Order = 1 .. Len(Order) /\ 1 \in 1 .. Len(t)
      BY <2>2, <3>1, LenProperties
    <3>3. QED
      BY <2>2, <2>4, <3>2
  <2>6. QED
    BY <2>2, <2>4, <2>5
<1>8. QED
  BY <1>1, <1>3, <1>4, <1>6, <1>7 DEF AtHead

(* A well ordered program reads what has a value.                          *)
LEMMA SharedValue ==
  ASSUME Ongoing, InTurn, Tower(calls), InField, WellOrdered, Source.kind = "shared",
         ToSet(inits) \subseteq SetShared(sharedMem)
  PROVE  /\ Source.class \in DOMAIN sharedMem
         /\ sharedMem[Source.class][Index(Source.class, Source.field)] # Garbage
<1> DEFINE of == <<Source.class, Source.field>>
<1>1. PICK i \in DOMAIN Order : Order[i] = AtShared
  BY InitialisedFor
<1>2. Before(of, Order[i])
  <2>1. CASE Call.of = "shared"
    <3>1. Order[i][1] = Call.class /\ Order[i][2] = AtHead
      BY <1>1, <2>1, InitialisedFor
    <3>2. QED
      BY <3>1 DEF WellOrdered, Source
  <2>2. CASE Call.of = "instance"
    <3>1. Call.class \in Closure(Creates(Order[i][1], Order[i][2]))
      BY <1>1, <2>2, InitialisedFor
    <3>2. AtHead \in NamesOf(Call.class, FALSE) /\ AtHead \in Field
      <4>1. (Call.of = "shared") = FALSE
        BY <2>2
      <4>2. QED
        BY <4>1, FieldOf
    <3>3. QED
      BY <3>1, <3>2 DEF WellOrdered, Source
  <2>3. QED
    BY <2>1, <2>2, FieldOf
<1>3. of \in ToSet(inits)
  BY <1>1, <1>2, ReadKnown
<1>4. QED
  BY <1>3 DEF SetShared

LEMMA OwnValue ==
  ASSUME Ongoing, InTurn, Tower(calls), InField, WellOrdered, Source.kind = "own",
         Settled(objects, calls, SetFields(objects))
  PROVE  objects[Call.me].fields[Index(Call.class, Source.field)] # Garbage
<1> DEFINE f == Source.field
           o == Call.me
<1>1. PICK i \in DOMAIN Order : Order[i] = AtShared
  BY InitialisedFor
<1>2. Call \in InstanceCalls(objects) /\ Call.of = "instance" /\ f \in NamesOf(Call.class, FALSE)
  BY OwnReader
<1>3. o \in DOMAIN objects /\ objects[o].class = Call.class /\ Call.left \in Seq(Field) /\ Call.left # <<>>
  BY <1>2 DEF InstanceCalls, InField
<1>4. f < AtHead
  <2>1. Call.class \in Closure(Creates(Order[i][1], Order[i][2]))
    BY <1>1, <1>2, InitialisedFor
  <2>2. AtHead \in NamesOf(Call.class, FALSE) /\ AtHead \in Field
    <3>1. (Call.of = "shared") = FALSE
      BY <1>2
    <3>2. QED
      BY <3>1, FieldOf
  <2>3. QED
    BY <2>1, <2>2 DEF WellOrdered, Source
<1>5. calls \in Seq(CallsNow) /\ calls # <<>> /\ Rest \in Seq(CallsNow)
  BY CallIs DEF Ongoing, DataSound, CallsNow, InField
<1>6. Tops(Call, Rest)
  BY <1>5, TowerPop DEF Call, Rest
<1>7. ~WaitsAt(Call, o, f)
  <2> SUFFICES ASSUME NEW k \in 1 .. Len(Call.left), Call.left[k] = f PROVE FALSE
    BY DEF WaitsAt
  <2>1. Ascends(Call.left)
    BY <1>2, <1>6 DEF Tops
  <2>2. Len(Call.left) \in Nat \ {0} /\ AtHead = Call.left[1]
    BY <1>3, HeadAndTail DEF AtHead
  <2>3. k = 1 \/ Call.left[1] < Call.left[k]
    BY <2>1, <2>2 DEF Ascends
  <2>4. f \in Nat /\ AtHead \in Nat
    BY <1>2, FieldOf, StartupAssumption DEF NamesOf
  <2>5. QED
    BY <1>4, <2>2, <2>3, <2>4
<1>8. ~Waits(o, f, Rest)
  <2> SUFFICES ASSUME NEW k \in 1 .. Len(Rest), Rest[k].of = "instance", Rest[k].me = o PROVE FALSE
    BY DEF Waits, WaitsAt
  <2>1. Rest[k].me < Call.me
    BY <1>2, <1>6 DEF Tops
  <2>2. o \in Nat
    BY <1>3, ObjectsCount
  <2>3. QED
    BY <2>1, <2>2
<1>9. ~Waits(o, f, calls)
  BY <1>5, <1>7, <1>8, WaitsPop DEF Call, Rest
<1>10. <<o, f>> \in SetFields(objects)
  BY <1>2, <1>3, <1>9 DEF Settled
<1>11. QED
  BY <1>3, <1>10 DEF SetFields

LEMMA StoreAllSet ==
  ASSUME Ongoing, inits \in Seq(Pairs), NEW under \in Seq(CallsNow), under # <<>>,
         Head(under).of # "classes", Head(under).left # <<>>, Head(under).of = "shared" => Head(under).ready,
         AllSet(under, sharedMem, objects, inits),
         NEW v, v # Garbage, Store(v, under)
  PROVE  AllSet(calls', sharedMem', objects', inits')
<1> DEFINE c == Head(under)
           f == Head(c.left)
<1>1. c \in CallsNow /\ InitsField(c) /\ ProgramSound
  BY HeadAndTail DEF InitsField, Ongoing
<1>2. /\ MemSound(sharedMem, Len(objects)) /\ MadeSo(objects, Len(objects)) /\ Len(objects) \in Nat
      /\ Settled(objects, under, SetFields(objects)) /\ ToSet(inits) \subseteq SetShared(sharedMem)
      /\ Listed(sharedMem)
  BY ObjectsCount DEF Ongoing, DataSound, AllSet
<1>3. CASE c.of = "shared"
  <2>1. /\ sharedMem' = MemWith(sharedMem, c.class, Index(c.class, f), v) /\ objects' = objects
        /\ inits' = Append(inits, <<c.class, f>>)
    BY <1>3 DEF Store, MemWith
  <2>2. c \in SharedCalls(DOMAIN sharedMem) /\ f \in NamesOf(c.class, TRUE)
    BY <1>1, <1>3, CallKinds, AtIsOf DEF CallsNow
  <2>3. c.class \in DOMAIN sharedMem /\ c.class \in Class /\ f \in Field
    BY <1>3, <2>2 DEF SharedCalls, NamesOf
  <2>4. /\ SetShared(sharedMem) \subseteq SetShared(sharedMem') /\ <<c.class, f>> \in SetShared(sharedMem')
        /\ DOMAIN sharedMem' = DOMAIN sharedMem
    BY <2>1, <2>2, <2>3, SharedWritten
  <2>5. ToSet(inits') \subseteq ToSet(inits) \cup {<<c.class, f>>}
    <3>1. <<c.class, f>> \in Pairs
      BY <2>3 DEF Pairs
    <3> HIDE DEF c, f
    <3>2. /\ Len(inits) \in Nat /\ DOMAIN inits = 1 .. Len(inits) /\ DOMAIN inits' = 1 .. Len(inits) + 1
          /\ inits'[Len(inits) + 1] = <<c.class, f>> /\ \A i \in 1 .. Len(inits) : inits'[i] = inits[i]
      BY <2>1, <3>1, AppendProperties, LenProperties
    <3>3. \A i \in DOMAIN inits' : i \in DOMAIN inits \/ i = Len(inits) + 1
      BY <3>2
    <3>4. QED
      BY <3>2, <3>3 DEF ToSet
  <2>6. Settled(objects', calls', SetFields(objects'))
    <3>1. DOMAIN objects' = DOMAIN objects /\ More(objects, objects') /\ SetFields(objects) \subseteq SetFields(objects')
      BY <2>1 DEF More
    <3> HIDE DEF c, f
    <3>2. QED
      BY <1>2, <1>3, <3>1, SettledStore DEF c
  <2>7. QED
    BY <1>2, <2>4, <2>5, <2>6 DEF AllSet, Listed
<1>4. CASE c.of # "shared"
  <2>1. c.of = "instance" /\ c \in InstanceCalls(objects) /\ f \in NamesOf(c.class, FALSE)
    BY <1>1, <1>4, CallKinds, AtIsOf DEF CallsNow, InitsField
  <2>2. c.me \in DOMAIN objects /\ objects[c.me].class = c.class
    BY <2>1 DEF InstanceCalls
  <2>3. /\ objects' = MadeWith(objects, c.me, Index(c.class, f), v)
        /\ UNCHANGED <<sharedMem, inits>>
    BY <1>4 DEF Store, MadeWith
  <2>4. /\ SetFields(objects) \subseteq SetFields(objects') /\ <<c.me, f>> \in SetFields(objects')
        /\ DOMAIN objects' = DOMAIN objects /\ More(objects, objects')
    BY <2>1, <2>2, <2>3, FieldWritten
  <2>5. Settled(objects', calls', SetFields(objects'))
    BY <1>2, <2>4, SettledStore
  <2>6. QED
    BY <1>2, <2>3, <2>5 DEF AllSet
<1>5. QED
  BY <1>3, <1>4

(* The array of a class is made before any of its fields is initialised.   *)
LEMMA AddClassAllSet ==
  ASSUME Ongoing, InTurn, AddClass, AllSet(calls, sharedMem, objects, inits)
  PROVE  AllSet(calls', sharedMem', objects', inits')
<1> DEFINE c == Call.class
           names == NamesOf(c, TRUE)
<1>1. calls # <<>> /\ Call.of = "shared" /\ ~Call.ready /\ objects' = objects /\ inits' = inits
  BY DEF AddClass, In
<1>2. Call \in SharedCalls(DOMAIN sharedMem)
  BY <1>1, CallIs, CallKinds DEF CallsNow
<1>3. Settled(objects', calls', SetFields(objects'))
  <2>1. \A o, f : Waits(o, f, calls) => Waits(o, f, calls')
    BY OthersWait
  <2>2. Settled(objects, calls, SetFields(objects))
    BY DEF AllSet
  <2>3. Settled(objects, calls', SetFields(objects))
    BY <2>1, <2>2 DEF Settled
  <2>4. QED
    BY <1>1, <2>3
<1>4. CASE c \in shape.templates
  <2>1. sharedMem' = sharedMem
    BY <1>4 DEF AddClass
  <2>2. QED
    BY <1>1, <1>3, <2>1 DEF AllSet
<1>5. CASE c \notin shape.templates
  <2>1. sharedMem' = [d \in DOMAIN sharedMem \cup {c} |->
          IF d = c THEN [i \in 0 .. Len(Call.left) - 1 |-> Garbage] ELSE sharedMem[d]]
    BY <1>5 DEF AddClass
  <2>2. DOMAIN sharedMem' = DOMAIN sharedMem \cup {c} /\ \A d \in DOMAIN sharedMem : d # c => sharedMem'[d] = sharedMem[d]
    BY <2>1
  <2>3. c \in Class /\ Call.left \in Seq(Field) /\ Call.left = ByName(names)
    BY <1>1, <1>2 DEF SharedCalls
  <2>4. ASSUME NEW f \in names PROVE <<c, f>> \in ToSet(Todo(Call))
    <3>1. names \subseteq Field
      BY DEF NamesOf
    <3> HIDE DEF names
    <3>2. PICK i \in 1 .. Len(ByName(names)) : ByName(names)[i] = f
      BY <2>4, <3>1, ByNameIs
    <3>3. i \in DOMAIN Call.left /\ Call.left[i] = f
      BY <2>3, <3>2, LenProperties
    <3>4. Todo(Call) = PairsOf(c, Call.left)
      BY <1>1, <1>5 DEF Todo
    <3>5. QED
      BY <3>3, <3>4 DEF PairsOf, ToSet
  <2>5. /\ inits \in Seq(Pairs) /\ Todo(Call) \in Seq(Pairs) /\ Remains(Rest) \in Seq(Pairs)
        /\ Order = inits \o (Todo(Call) \o Remains(Rest)) /\ Distinct(Order)
    BY <1>1, CallRemains, OrderIs DEF InTurn
  <2> DEFINE A == inits
             B == Todo(Call)
             C == Remains(Rest)
             T == B \o C
  <2> HIDE DEF B, C
  <2>6. T \in Seq(Pairs) /\ \A x : x \in ToSet(B) => x \in ToSet(T)
    BY <2>5, ConcatDistinct, ConcatProperties DEF B, C
  <2> HIDE DEF T, A
  <2>7. A \in Seq(Pairs) /\ Order = A \o T
    BY <2>5 DEF A, B, C, T
  <2>8. \A x : x \in ToSet(B) => x \in ToSet(Order)
    BY <2>6, <2>7, ConcatDistinct
  <2>9. \A x : x \in ToSet(T) => x \notin ToSet(A)
    <3> SUFFICES ASSUME NEW i \in DOMAIN A, NEW j \in DOMAIN T, A[i] = T[j] PROVE FALSE
      BY DEF ToSet
    <3>1. /\ Len(A) \in Nat /\ Len(T) \in Nat /\ Len(A \o T) = Len(A) + Len(T)
          /\ \A k \in 1 .. Len(A) : (A \o T)[k] = A[k]
          /\ \A k \in 1 .. Len(T) : (A \o T)[Len(A) + k] = T[k]
      BY <2>6, <2>7, PrefixIs
    <3>2. i \in 1 .. Len(A) /\ j \in 1 .. Len(T)
      BY <2>6, <2>7, LenProperties
    <3>3. Order[i] = Order[Len(A) + j]
      BY <2>7, <3>1, <3>2
    <3>4. DOMAIN Order = 1 .. Len(A) + Len(T)
      BY <2>6, <2>7, <3>1, LenProperties, ConcatProperties
    <3>5. i \in DOMAIN Order /\ Len(A) + j \in DOMAIN Order /\ i # Len(A) + j
      BY <3>1, <3>2, <3>4
    <3>6. QED
      BY <2>5, <3>3, <3>5 DEF Distinct
  <2>10. ASSUME NEW x \in ToSet(inits) PROVE x \in SetShared(sharedMem')
    <3>1. x \in (DOMAIN sharedMem) \X Field /\ x[2] \in NamesOf(x[1], TRUE) /\ sharedMem[x[1]][Index(x[1], x[2])] # Garbage
      BY DEF AllSet, SetShared
    <3>2. x[1] # c
      <4> SUFFICES ASSUME x[1] = c PROVE FALSE
        OBVIOUS
      <4>1. x[1] = c
        OBVIOUS
      <4>2. x = <<x[1], x[2]>>
        BY <3>1
      <4>3. x[2] \in NamesOf(x[1], TRUE)
        BY <3>1
      <4>4. x = <<c, x[2]>> /\ x[2] \in names
        BY ONLY <4>1, <4>2, <4>3 DEF names
      <4>5. x \in ToSet(B)
        BY <2>4, <4>4 DEF B
      <4>6. QED
        BY <2>6, <2>9, <2>10, <4>5 DEF A
    <3>3. sharedMem'[x[1]] = sharedMem[x[1]] /\ x[1] \in DOMAIN sharedMem'
      BY <2>2, <3>1, <3>2
    <3>4. QED
      BY <3>1, <3>3 DEF SetShared
  <2>11. Listed(sharedMem')
    <3>1. \A f \in names : <<c, f>> \in ToSet(Order)
      BY <2>4, <2>8 DEF B
    <3>2. QED
      BY <2>2, <3>1 DEF AllSet, Listed
  <2>12. QED
    BY <1>1, <1>3, <2>10, <2>11 DEF AllSet
<1>6. QED
  BY <1>4, <1>5

LEMMA OthersAllSet ==
  ASSUME Ongoing, SharedInit \/ LeaveList \/ LeaveShared, AllSet(calls, sharedMem, objects, inits)
  PROVE  AllSet(calls', sharedMem', objects', inits')
<1>1. UNCHANGED <<sharedMem, objects, inits>>
  BY DEF SharedInit, LeaveList, LeaveShared, Return
<1>2. \A o, f : Waits(o, f, calls) => Waits(o, f, calls')
  BY OthersWait
<1>3. Settled(objects, calls, SetFields(objects))
  BY DEF AllSet
<1>4. Settled(objects, calls', SetFields(objects))
  BY <1>2, <1>3 DEF Settled
<1>5. QED
  BY <1>1, <1>4 DEF AllSet

LEMMA ConstructSettled ==
  ASSUME Ongoing, Construct, NEW G, Settled(objects, calls, G)
  PROVE  Settled(objects, Rest, G)
BY ConstructWaits DEF Settled

LEMMA ConstructAllSet ==
  ASSUME Ongoing, InTurn, Construct, AllSet(calls, sharedMem, objects, inits)
  PROVE  AllSet(calls', sharedMem', objects', inits')
<1>1. AllSet(Rest, sharedMem, objects, inits)
  BY ConstructSettled DEF AllSet
<1>2. CASE Store(Call.me, Rest)
  <2>1. Call.me # Garbage
    BY ConstructAt DEF InstanceCalls, Garbage
  <2>2. QED
    BY <1>1, <1>2, <2>1, ConstructAt, StoreAllSet DEF InTurn
<1>3. CASE UNCHANGED <<calls, sharedMem, objects, inits>>
  BY <1>3
<1>4. QED
  BY <1>2, <1>3, ConstructAt

LEMMA StoreTopAllSet ==
  ASSUME Ongoing, InTurn, InField, AllSet(calls, sharedMem, objects, inits), NEW v, v # Garbage, Store(v, calls)
  PROVE  AllSet(calls', sharedMem', objects', inits')
<1>1. calls \in Seq(CallsNow) /\ calls # <<>>
  BY DEF Ongoing, DataSound, CallsNow, InField
<1>2. Head(calls).of # "classes" /\ Head(calls).left # <<>> /\ (Head(calls).of = "shared" => Head(calls).ready)
  BY DEF InField, Call
<1>3. QED
  BY <1>1, <1>2, StoreAllSet DEF InTurn

LEMMA CreateAllSet ==
  ASSUME Ongoing, InField, AllSet(calls, sharedMem, objects, inits), NEW c \in Creates(Call.class, AtHead),
         NEW args \in BOOLEAN, CreateInstance(c, args), phase' # "overflow"
  PROVE  AllSet(calls', sharedMem', objects', inits')
<1> DEFINE new == [class |-> c, fields |-> NoValues(c)]
<1>1. c \in Class
  <2>1. Source \in Inits
    BY FieldOf
  <2>2. QED
    BY <2>1 DEF Creates, Source, Inits
<1>2. UNCHANGED <<sharedMem, inits>> /\ objects' = Append(objects, new)
  BY DEF CreateInstance, NoValues
<1>3. SetFields(objects) \subseteq SetFields(objects')
  <2>1. \A o \in DOMAIN objects : o \in DOMAIN objects' /\ objects'[o] = objects[o]
    BY <1>2, ObjectsCount
  <2>2. QED
    BY <2>1 DEF SetFields
<1>4. Settled(objects', calls', SetFields(objects'))
  BY <1>1, <1>3, SettledCreate DEF AllSet
<1>5. QED
  BY <1>2, <1>4 DEF AllSet

(* No step of a well ordered program reads what has no value.              *)
LEMMA DefinedStep ==
  ASSUME Ongoing, InTurn, Tower(calls), WellOrdered, AllSet(calls, sharedMem, objects, inits), Initialising
  PROVE  phase' # "crashed" /\ (phase' = "exec" => AllSet(calls', sharedMem', objects', inits'))
<1>1. CASE SharedInit \/ LeaveList \/ LeaveShared
  BY <1>1, OthersAllSet DEF SharedInit, Push, In, LeaveList, LeaveShared, Return
<1>2. CASE AddClass
  BY <1>2, AddClassAllSet DEF AddClass, In
<1>3. CASE InitPlain
  <2>1. InField /\ (Store(Val, calls) \/ Store(Null, calls)) /\ Val # Garbage /\ Null # Garbage
    BY <1>3 DEF InitPlain, Val, Null, Garbage
  <2>2. phase' = phase /\ phase = "exec"
    BY <1>3 DEF InitPlain, InField
  <2>3. QED
    BY <2>1, <2>2, StoreTopAllSet
<1>4. CASE ReadShared
  <2> DEFINE v == sharedMem[Source.class][Index(Source.class, Source.field)]
  <2>1. InField /\ Source.kind = "shared"
    BY <1>4 DEF ReadShared
  <2>2. Source.class \in DOMAIN sharedMem /\ v # Garbage
    BY <2>1, SharedValue DEF AllSet
  <2>3. Store(v, calls) /\ phase' = phase /\ phase = "exec"
    BY <1>4, <2>1, <2>2 DEF ReadShared, InField
  <2> HIDE DEF v
  <2>4. QED
    BY <2>1, <2>2, <2>3, StoreTopAllSet
<1>5. CASE ReadOwn
  <2> DEFINE v == objects[Call.me].fields[Index(Call.class, Source.field)]
  <2>1. InField /\ Source.kind = "own" /\ Store(v, calls) /\ phase' = phase /\ phase = "exec"
    BY <1>5 DEF ReadOwn, InField
  <2>2. v # Garbage
    BY <2>1, OwnValue DEF AllSet
  <2> HIDE DEF v
  <2>3. QED
    BY <2>1, <2>2, StoreTopAllSet
<1>6. CASE InitDefault \/ InitNew
  <2>1. /\ InField /\ phase = "exec" /\ Creates(Call.class, AtHead) = {Source.class}
        /\ \E args \in BOOLEAN : CreateInstance(Source.class, args)
    BY <1>6, CreatesWhat DEF InitDefault, InitNew, InField
  <2>2. phase' \in {"exec", "overflow"}
    BY <2>1 DEF CreateInstance, Push
  <2>3. QED
    BY <2>1, <2>2, CreateAllSet
<1>7. CASE Construct
  <2>1. phase' # "crashed"
    BY <1>7 DEF Construct, In
  <2>2. QED
    BY <1>7, <2>1, ConstructAllSet
<1>8. QED
  BY <1>1, <1>2, <1>3, <1>4, <1>5, <1>6, <1>7 DEF Initialising

(* The same program: its fields, and what it leads to, are the same.       *)
LEMMA SameFields ==
  UNCHANGED program =>
    /\ \A c, f : InitOf(c, f)' = InitOf(c, f)
    /\ \A c, f : Index(c, f)' = Index(c, f)
    /\ \A c, s : NamesOf(c, s)' = NamesOf(c, s)
<1> SUFFICES ASSUME UNCHANGED program
             PROVE  /\ \A c, f : InitOf(c, f)' = InitOf(c, f)
                    /\ \A c, f : Index(c, f)' = Index(c, f)
                    /\ \A c, s : NamesOf(c, s)' = NamesOf(c, s)
  OBVIOUS
<1>1. declared' = declared
  BY DEF program
<1>2. \A c, f : Declared(c, f)' = Declared(c, f)
  BY <1>1 DEF Declared
<1>3. QED
  BY <1>1, <1>2 DEF InitOf, Index, NamesOf

ClosureGrows == \A S : \E w : Grows(w, S) /\ Closure(S) = w[Cardinality(Class)]

LEMMA ClosureGrown == ClosureGrows
BY ClosureIs DEF ClosureGrows

LEMMA ClosureGrownThen == ClosureGrows'
BY ClosureGrown, PTL

LEMMA SameClosure ==
  UNCHANGED program =>
    /\ \A c, f : Creates(c, f)' = Creates(c, f)
    /\ \A c : Makes(c)' = Makes(c)
    /\ \A S : Closure(S)' = Closure(S)
<1> SUFFICES ASSUME UNCHANGED program
             PROVE  /\ \A c, f : Creates(c, f)' = Creates(c, f)
                    /\ \A c : Makes(c)' = Makes(c)
                    /\ \A S : Closure(S)' = Closure(S)
  OBVIOUS
<1>1. \A c, f : Creates(c, f)' = Creates(c, f)
  BY SameFields DEF Creates
<1>2. \A c : Makes(c)' = Makes(c)
  BY <1>1, SameFields DEF Makes
<1>3. ASSUME NEW S PROVE Closure(S)' = Closure(S)
  <2> DEFINE K == Cardinality(Class)
             Good(v, w) == {n \in Nat : n <= K => v[n] = w[n]}
  <2>1. PICK w : Grows(w, S) /\ Closure(S) = w[K]
    BY ClosureIs
  <2>2. PICK v : Grows(v, S)' /\ Closure(S)' = v[K]
    BY ClosureGrownThen DEF ClosureGrows
  <2>3. Grows(v, S)
    BY <1>2, <2>2 DEF Grows, MoreOf
  <2>4. K \in Nat
    BY StartupAssumption, FS_CardinalityType
  <2>5. 0 \in Good(v, w)
    BY <2>1, <2>3 DEF Grows
  <2>6. \A n \in Nat : n \in Good(v, w) => n + 1 \in Good(v, w)
    <3> SUFFICES ASSUME NEW n \in Nat, n \in Good(v, w), n + 1 <= K PROVE v[n + 1] = w[n + 1]
      OBVIOUS
    <3>1. n + 1 \in 1 .. K /\ n <= K /\ (n + 1) - 1 = n
      BY <2>4
    <3>2. v[n + 1] = MoreOf(v[n]) /\ w[n + 1] = MoreOf(w[n])
      BY <2>1, <2>3, <3>1 DEF Grows
    <3>3. QED
      BY <3>1, <3>2
  <2>7. K \in Good(v, w)
    <3> HIDE DEF Good
    <3>1. QED
      BY <2>4, <2>5, <2>6, SetInduction
  <2>8. QED
    BY <2>1, <2>2, <2>4, <2>7
<1>4. QED
  BY <1>1, <1>2, <1>3

LEMMA SameOrder == UNCHANGED program => (WellOrdered' <=> WellOrdered)
<1> SUFFICES ASSUME UNCHANGED program PROVE WellOrdered' <=> WellOrdered
  OBVIOUS
<1>1. Order' = Order /\ \A a, b : Before(a, b)' <=> Before(a, b)
  BY SameTree DEF Before
<1>2. /\ \A c, f : InitOf(c, f)' = InitOf(c, f)
      /\ \A c, s : NamesOf(c, s)' = NamesOf(c, s)
      /\ \A c, f : Creates(c, f)' = Creates(c, f)
      /\ \A S : Closure(S)' = Closure(S)
  BY SameFields, SameClosure
<1>3. QED
  BY ONLY <1>1, <1>2, ZenonT(60) DEF WellOrdered

LEMMA AllSetIs ==
  UNCHANGED program /\ AllSet(calls', sharedMem', objects', inits') => AllSet(calls, sharedMem, objects, inits)'
<1> SUFFICES ASSUME UNCHANGED program, AllSet(calls', sharedMem', objects', inits')
             PROVE  AllSet(calls, sharedMem, objects, inits)'
  OBVIOUS
<1>1. SetFields(objects)' = SetFields(objects')
  BY SameFields DEF SetFields
<1>2. SetShared(sharedMem)' = SetShared(sharedMem')
  BY SameFields DEF SetShared
<1>3. Listed(sharedMem)' <=> Listed(sharedMem')
  BY SameFields, SameTree DEF Listed
<1>4. \A o, f : Waits(o, f, calls)' <=> Waits(o, f, calls')
  BY DEF Waits, WaitsAt
<1>5. Settled(objects, calls, SetFields(objects))' <=> Settled(objects', calls', SetFields(objects'))
  BY <1>1, <1>4, SameFields DEF Settled
<1>6. QED
  BY <1>2, <1>3, <1>5 DEF AllSet

(* A well ordered program has its fields set, as far as it is.             *)
DefinedSoFar ==
  /\ Tower(calls)
  /\ phase \notin {"options", "parse"} /\ WellOrdered =>
       phase # "crashed" /\ (phase \in {"exec", "called"} => AllSet(calls, sharedMem, objects, inits))

LEMMA DefinedInit == Init => DefinedSoFar
BY DEF Init, DefinedSoFar, Tower

LEMMA BlankAllSet ==
  ASSUME sharedMem' = <<>>, objects' = <<>>, inits' = <<>>
  PROVE  AllSet(calls', sharedMem', objects', inits')
BY DEF AllSet, Settled, ToSet, Listed

LEMMA TowerIs == UNCHANGED program /\ Tower(calls') => Tower(calls)'
<1> SUFFICES ASSUME UNCHANGED program, Tower(calls') PROVE Tower(calls)'
  OBVIOUS
<1>1. \A a, b : MadeFor(a, b)' <=> MadeFor(a, b)
  BY SameClosure DEF MadeFor
<1>2. QED
  BY <1>1 DEF Tower, Ascends

LEMMA FlatTower ==
  ASSUME NEW s, Len(s) \in {0, 1}, Len(s) = 1 => s[1].of # "instance"
  PROVE  Tower(s)
BY DEF Tower

LEMMA DefinedNext == StartInv /\ InOrder /\ DefinedSoFar /\ [Next]_vars => DefinedSoFar'
<1> SUFFICES ASSUME StartInv, InOrder, DefinedSoFar, [Next]_vars PROVE DefinedSoFar'
  OBVIOUS
<1>1. ASSUME UNCHANGED program, phase \notin {"options", "parse"}, Tower(calls'),
             WellOrdered => phase' # "crashed"
                              /\ (phase' \in {"exec", "called"} => AllSet(calls', sharedMem', objects', inits'))
      PROVE  DefinedSoFar'
  BY <1>1, TowerIs, SameOrder, AllSetIs DEF DefinedSoFar
<1>2. CASE ReadOptions \/ AddField
  <2>1. phase \in {"options", "parse"} /\ UNCHANGED calls /\ phase' \in {"options", "parse", "stopped"}
    BY <1>2 DEF ReadOptions, AddField, Stop, work
  <2>2. calls' = <<>>
    BY <2>1 DEF StartInv, StartSound, Blank
  <2>3. Tower(calls)'
    BY <2>2 DEF Tower
  <2>4. QED
    BY <2>1, <2>3 DEF DefinedSoFar
<1>3. CASE Resolve
  <2>1. /\ phase = "parse" /\ UNCHANGED <<program, sharedMem, objects, inits>>
        /\ phase' \in {"exec", "stopped", "failed"}
        /\ calls' = calls \/ calls' = <<Classes(shape.tree[Root])>>
    BY <1>3 DEF Resolve, Stop, work
  <2>2. calls = <<>> /\ sharedMem' = <<>> /\ objects' = <<>> /\ inits' = <<>>
    BY <2>1 DEF StartInv, StartSound, Blank
  <2>3. Tower(calls')
    BY <2>1, <2>2, FlatTower DEF Classes
  <2>4. AllSet(calls', sharedMem', objects', inits')
    BY <2>2, BlankAllSet
  <2>5. QED
    BY <2>1, <2>3, <2>4, TowerIs, AllSetIs DEF DefinedSoFar
<1>4. CASE Initialising
  <2>1. phase = "exec" /\ phase' \in {"exec", "overflow", "crashed", "failed"} /\ UNCHANGED program
    BY <1>4, InitialisingIs
  <2>2. InTurn /\ Ongoing
    BY <2>1 DEF InOrder, InTurn, StartInv, StartSound, Started, Ongoing
  <2>3. Tower(calls) /\ (WellOrdered => AllSet(calls, sharedMem, objects, inits))
    BY <2>1 DEF DefinedSoFar
  <2>4. Tower(calls')
    BY <1>4, <2>2, <2>3, TowerStep
  <2>5. WellOrdered => phase' # "crashed" /\ (phase' = "exec" => AllSet(calls', sharedMem', objects', inits'))
    BY <1>4, <2>2, <2>3, DefinedStep
  <2>6. QED
    BY <1>1, <2>1, <2>4, <2>5
<1>5. CASE CallMain
  <2>1. phase = "exec" /\ phase' \in {"called", "failed"} /\ UNCHANGED <<program, work>>
    BY <1>5 DEF CallMain, Stop
  <2>2. Tower(calls) /\ (WellOrdered => AllSet(calls, sharedMem, objects, inits))
    BY <2>1 DEF DefinedSoFar
  <2>3. UNCHANGED <<calls, sharedMem, objects, inits>>
    BY <2>1 DEF work
  <2>4. QED
    BY <1>1, <2>1, <2>2, <2>3
<1>6. CASE UNCHANGED vars
  <2>1. UNCHANGED <<phase, program, calls, sharedMem, objects, inits>>
    BY <1>6 DEF vars, work
  <2>2. CASE phase \in {"options", "parse"}
    <3>1. calls' = <<>>
      BY <2>1, <2>2 DEF StartInv, StartSound, Blank
    <3>2. QED
      BY <2>1, <2>2, <3>1 DEF DefinedSoFar, Tower
  <2>3. CASE phase \notin {"options", "parse"}
    BY <1>1, <2>1, <2>3 DEF DefinedSoFar
  <2>4. QED
    BY <2>2, <2>3
<1>7. QED
  BY <1>2, <1>3, <1>4, <1>5, <1>6, NextIs

(* At the end nothing waits, and every field has its value.                *)
LEMMA DefinedIs == StartInv /\ InOrder /\ DefinedSoFar => OrderedMeansDefined
<1> SUFFICES ASSUME StartInv, InOrder, DefinedSoFar, phase \in {"crashed", "called"}, WellOrdered
             PROVE  /\ phase # "crashed"
                    /\ phase = "called" =>
                         /\ \A c \in DOMAIN sharedMem : Garbage \notin {sharedMem[c][i] : i \in DOMAIN sharedMem[c]}
                         /\ \A o \in DOMAIN objects : \A f \in NamesOf(objects[o].class, FALSE) :
                              objects[o].fields[Index(objects[o].class, f)] # Garbage
  BY DEF OrderedMeansDefined
<1>1. phase = "called" /\ AllSet(calls, sharedMem, objects, inits)
  BY DEF DefinedSoFar
<1>2. calls = <<>> /\ inits = Order
  BY <1>1, InOrderIs DEF InOrder, InitsInOrder
<1>3. ASSUME NEW c \in DOMAIN sharedMem, NEW i \in DOMAIN sharedMem[c] PROVE sharedMem[c][i] # Garbage
  <2>1. PICK f \in NamesOf(c, TRUE) : i = Index(c, f)
    BY <1>3, StartInvType DEF TypeOK
  <2>2. <<c, f>> \in SetShared(sharedMem)
    BY <1>1, <1>2 DEF AllSet, Listed
  <2>3. QED
    BY <2>1, <2>2 DEF SetShared
<1>4. ASSUME NEW o \in DOMAIN objects, NEW f \in NamesOf(objects[o].class, FALSE)
      PROVE  objects[o].fields[Index(objects[o].class, f)] # Garbage
  <2>1. ~Waits(o, f, calls)
    BY <1>2 DEF Waits
  <2>2. <<o, f>> \in SetFields(objects)
    BY <1>1, <2>1 DEF AllSet, Settled
  <2>3. QED
    BY <2>2 DEF SetFields
<1>5. QED
  BY <1>1, <1>3, <1>4

(* The initialisation of a well ordered program reads nothing that has no  *)
(* value.                                                                  *)
THEOREM NothingUnset == Spec => []OrderedMeansDefined
<1>1. Init => StartInv /\ InOrder /\ DefinedSoFar
  BY StartInvInit, InOrderInit, DefinedInit
<1>2. StartInv /\ InOrder /\ DefinedSoFar /\ [Next]_vars => (StartInv /\ InOrder /\ DefinedSoFar)'
  BY StartInvNext, InOrderNext, DefinedNext
<1>3. QED
  BY <1>1, <1>2, DefinedIs, PTL DEF Spec

-----------------------------------------------------------------------------
(* What a field leads to is made, later than its instance.                 *)
MadeLater(objs, o, d) == \E q \in DOMAIN objs : q > o /\ objs[q].class = d

SpawnFields(objs) ==
  {x \in (DOMAIN objs) \X Field : \A d \in Creates(objs[x[1]].class, x[2]) : MadeLater(objs, x[1], d)}

SpawnShared(objs) == {x \in Pairs : \A d \in Creates(x[1], x[2]) : MadeLater(objs, 0, d)}

AllMade(cs, objs, done) == Settled(objs, cs, SpawnFields(objs)) /\ ToSet(done) \subseteq SpawnShared(objs)

LEMMA SpawnMore ==
  ASSUME More(objects, objects')
  PROVE  SpawnFields(objects) \subseteq SpawnFields(objects') /\ SpawnShared(objects) \subseteq SpawnShared(objects')
<1>1. \A o, d : MadeLater(objects, o, d) => MadeLater(objects', o, d)
  BY DEF More, MadeLater
<1>2. ASSUME NEW x \in SpawnFields(objects) PROVE x \in SpawnFields(objects')
  <2>1. x \in (DOMAIN objects) \X Field /\ \A d \in Creates(objects[x[1]].class, x[2]) : MadeLater(objects, x[1], d)
    BY DEF SpawnFields
  <2>2. x[1] \in DOMAIN objects' /\ objects'[x[1]].class = objects[x[1]].class
    BY <2>1 DEF More
  <2>3. QED
    BY <1>1, <2>1, <2>2 DEF SpawnFields
<1>3. QED
  BY <1>1, <1>2 DEF SpawnShared

(* The field the call on top of under is at leads to nothing that is not   *)
(* made.                                                                   *)
Spawned(a) ==
  \A d \in Creates(a.class, Head(a.left)) : MadeLater(objects, IF a.of = "shared" THEN 0 ELSE a.me, d)

LEMMA StoreAllMade ==
  ASSUME Ongoing, inits \in Seq(Pairs), NEW under \in Seq(CallsNow), under # <<>>,
         Head(under).of # "classes", Head(under).left # <<>>, Head(under).of = "shared" => Head(under).ready,
         AllMade(under, objects, inits), Spawned(Head(under)), NEW v, Store(v, under)
  PROVE  AllMade(calls', objects', inits')
<1> DEFINE c == Head(under)
           f == Head(c.left)
<1>1. c \in CallsNow /\ InitsField(c) /\ ProgramSound
  BY HeadAndTail DEF InitsField, Ongoing
<1>2. Settled(objects, under, SpawnFields(objects)) /\ ToSet(inits) \subseteq SpawnShared(objects)
  BY DEF AllMade
<1>3. CASE c.of = "shared"
  <2>1. objects' = objects /\ inits' = Append(inits, <<c.class, f>>)
    BY <1>3 DEF Store
  <2>2. c.class \in Class /\ f \in Field
    BY <1>1, <1>3, AtIsOf DEF CallsNow, NamesOf
  <2>3. <<c.class, f>> \in SpawnShared(objects)
    BY <1>3, <2>2 DEF SpawnShared, Spawned, Pairs
  <2>4. ToSet(inits') \subseteq ToSet(inits) \cup {<<c.class, f>>}
    <3>1. <<c.class, f>> \in Pairs
      BY <2>2 DEF Pairs
    <3> HIDE DEF c, f
    <3>2. /\ Len(inits) \in Nat /\ DOMAIN inits = 1 .. Len(inits) /\ DOMAIN inits' = 1 .. Len(inits) + 1
          /\ inits'[Len(inits) + 1] = <<c.class, f>> /\ \A i \in 1 .. Len(inits) : inits'[i] = inits[i]
      BY <2>1, <3>1, AppendProperties, LenProperties
    <3>3. \A i \in DOMAIN inits' : i \in DOMAIN inits \/ i = Len(inits) + 1
      BY <3>2
    <3>4. QED
      BY <3>2, <3>3 DEF ToSet
  <2>5. Settled(objects', calls', SpawnFields(objects'))
    <3>1. DOMAIN objects' = DOMAIN objects /\ More(objects, objects') /\ SpawnFields(objects) \subseteq SpawnFields(objects')
      BY <2>1 DEF More
    <3> HIDE DEF c, f
    <3>2. QED
      BY <1>2, <1>3, <3>1, SettledStore DEF c
  <2>6. QED
    BY <1>2, <2>1, <2>3, <2>4, <2>5 DEF AllMade
<1>4. CASE c.of # "shared"
  <2>1. c.of = "instance" /\ c \in InstanceCalls(objects) /\ f \in NamesOf(c.class, FALSE)
    BY <1>1, <1>4, CallKinds, AtIsOf DEF CallsNow, InitsField
  <2>2. c.me \in DOMAIN objects /\ objects[c.me].class = c.class /\ f \in Field
    BY <2>1 DEF InstanceCalls, NamesOf
  <2>3. objects' = MadeWith(objects, c.me, Index(c.class, f), v) /\ inits' = inits
    BY <1>4 DEF Store, MadeWith
  <2>4. DOMAIN objects' = DOMAIN objects /\ More(objects, objects')
    <3>1. \A d \in DOMAIN objects : objects[d] \in [class : Class, fields : Arrays]
      BY ElementOfSeq, LenProperties DEF Ongoing, DataSound, MadeSo
    <3>2. DOMAIN objects' = DOMAIN objects /\ \A d \in DOMAIN objects : objects'[d].class = objects[d].class
      BY <2>3, <3>1 DEF MadeWith
    <3>3. QED
      BY <3>2 DEF More
  <2>5. SpawnFields(objects) \subseteq SpawnFields(objects') /\ SpawnShared(objects) \subseteq SpawnShared(objects')
    BY <2>4, SpawnMore
  <2>6. <<c.me, f>> \in SpawnFields(objects)
    BY <2>1, <2>2 DEF SpawnFields, Spawned
  <2>7. Settled(objects', calls', SpawnFields(objects'))
    BY <1>2, <2>4, <2>5, <2>6, SettledStore
  <2>8. QED
    BY <1>2, <2>3, <2>5, <2>7 DEF AllMade
<1>5. QED
  BY <1>3, <1>4

LEMMA OthersAllMade ==
  ASSUME Ongoing, SharedInit \/ AddClass \/ LeaveList \/ LeaveShared, AllMade(calls, objects, inits)
  PROVE  AllMade(calls', objects', inits')
<1>1. UNCHANGED <<objects, inits>> /\ \A o, f : Waits(o, f, calls) => Waits(o, f, calls')
  BY OthersWait
<1>2. Settled(objects, calls, SpawnFields(objects))
  BY DEF AllMade
<1>3. Settled(objects, calls', SpawnFields(objects))
  BY <1>1, <1>2 DEF Settled
<1>4. QED
  BY <1>1, <1>3 DEF AllMade

(* An instance that is made was made later than the one it is made for.    *)
LEMMA ConstructAllMade ==
  ASSUME Ongoing, InTurn, Tower(calls), Construct, AllMade(calls, objects, inits)
  PROVE  AllMade(calls', objects', inits')
<1> DEFINE a == Head(Rest)
<1>1. AllMade(Rest, objects, inits)
  BY ConstructSettled DEF AllMade
<1>2. CASE Store(Call.me, Rest)
  <2>1. /\ Call \in InstanceCalls(objects) /\ Call.of = "instance" /\ Rest \in Seq(CallsNow) /\ Rest # <<>>
        /\ a.of # "classes" /\ a.left # <<>> /\ (a.of = "shared" => a.ready)
    BY ConstructAt DEF InstanceCalls
  <2>2. Tops(Call, Rest)
    BY ConstructAt, TowerPop DEF Call, Rest
  <2>3. Call.class \in Creates(a.class, Head(a.left))
    BY <2>1, <2>2 DEF Tops, MadeFor
  <2>4. \A d \in Creates(a.class, Head(a.left)) : d = Call.class
    BY <2>3 DEF Creates
  <2>5. Call.me \in DOMAIN objects /\ objects[Call.me].class = Call.class /\ Call.me > 0
    BY <2>1, ObjectsCount DEF InstanceCalls
  <2>6. a.of # "shared" => Call.me > a.me
    <3>1. a = Rest[1] /\ 1 \in 1 .. Len(Rest) /\ a \in CallsNow
      BY <2>1, HeadAndTail
    <3>2. a.of # "shared" => a \in InstanceCalls(objects) /\ a.of = "instance"
      BY <2>1, <3>1, CallKinds DEF CallsNow
    <3>3. a.of # "shared" => a.me < Call.me /\ a.me \in Nat /\ Call.me \in Nat
      BY <2>1, <2>2, <3>1, <3>2 DEF Tops, InstanceCalls
    <3>4. QED
      BY <3>3
  <2>7. Spawned(a)
    BY <2>4, <2>5, <2>6 DEF Spawned, MadeLater
  <2>8. QED
    BY <1>1, <1>2, <2>1, <2>7, StoreAllMade DEF InTurn
<1>3. CASE UNCHANGED <<calls, sharedMem, objects, inits>>
  BY <1>3
<1>4. QED
  BY <1>2, <1>3, ConstructAt

LEMMA StoreTopAllMade ==
  ASSUME Ongoing, InTurn, InField, AllMade(calls, objects, inits), Creates(Call.class, AtHead) = {},
         NEW v, Store(v, calls)
  PROVE  AllMade(calls', objects', inits')
<1>1. calls \in Seq(CallsNow) /\ calls # <<>>
  BY DEF Ongoing, DataSound, CallsNow, InField
<1>2. Head(calls).of # "classes" /\ Head(calls).left # <<>> /\ (Head(calls).of = "shared" => Head(calls).ready)
  BY DEF InField, Call
<1>3. Spawned(Head(calls))
  BY DEF Spawned, Call, AtHead
<1>4. QED
  BY <1>1, <1>2, <1>3, StoreAllMade DEF InTurn

LEMMA CreateAllMade ==
  ASSUME Ongoing, InField, AllMade(calls, objects, inits), NEW c \in Class, NEW args \in BOOLEAN,
         CreateInstance(c, args), phase' # "overflow"
  PROVE  AllMade(calls', objects', inits')
<1> DEFINE new == [class |-> c, fields |-> NoValues(c)]
<1>1. inits' = inits /\ objects' = Append(objects, new)
  BY DEF CreateInstance, NoValues
<1>2. More(objects, objects')
  BY <1>1, ObjectsCount DEF More
<1>3. SpawnFields(objects) \subseteq SpawnFields(objects') /\ SpawnShared(objects) \subseteq SpawnShared(objects')
  BY <1>2, SpawnMore
<1>4. Settled(objects', calls', SpawnFields(objects'))
  BY <1>3, SettledCreate DEF AllMade
<1>5. QED
  BY <1>1, <1>3, <1>4 DEF AllMade

LEMMA MadeStep ==
  ASSUME Ongoing, InTurn, Tower(calls), AllMade(calls, objects, inits), Initialising, phase' = "exec"
  PROVE  AllMade(calls', objects', inits')
<1>1. CASE InitPlain \/ ReadShared \/ ReadOwn
  <2>1. InField /\ \E v : Store(v, calls)
    BY <1>1 DEF InitPlain, ReadShared, ReadOwn
  <2>2. Creates(Call.class, AtHead) = {}
    BY <1>1 DEF InitPlain, ReadShared, ReadOwn, Creates, Source, NullByDefault
  <2>3. QED
    BY <2>1, <2>2, StoreTopAllMade
<1>2. CASE InitDefault \/ InitNew
  <2>1. InField /\ (Source.kind = "default" \/ Source.kind = "new") /\ \E args \in BOOLEAN : CreateInstance(Source.class, args)
    BY <1>2 DEF InitDefault, InitNew
  <2>2. Source.class \in Class
    BY <2>1, FieldOf DEF Inits
  <2>3. QED
    BY <2>1, <2>2, CreateAllMade
<1>3. QED
  BY <1>1, <1>2, OthersAllMade, ConstructAllMade DEF Initialising

(* The instances the initialisation came to so far.                        *)
Spawns ==
  phase \in {"exec", "called"} => AllMade(calls, objects, inits)

LEMMA AllMadeIs ==
  UNCHANGED program /\ AllMade(calls', objects', inits') => AllMade(calls, objects, inits)'
<1> SUFFICES ASSUME UNCHANGED program, AllMade(calls', objects', inits') PROVE AllMade(calls, objects, inits)'
  OBVIOUS
<1>1. SpawnFields(objects)' = SpawnFields(objects') /\ SpawnShared(objects)' = SpawnShared(objects')
  BY SameClosure DEF SpawnFields, SpawnShared, MadeLater
<1>2. \A o, f : Waits(o, f, calls)' <=> Waits(o, f, calls')
  BY DEF Waits, WaitsAt
<1>3. Settled(objects, calls, SpawnFields(objects))' <=> Settled(objects', calls', SpawnFields(objects'))
  BY <1>1, <1>2, SameFields DEF Settled
<1>4. QED
  BY <1>1, <1>3 DEF AllMade

LEMMA SpawnsInit == Init => Spawns
BY DEF Init, Spawns

LEMMA SpawnsNext == StartInv /\ InOrder /\ DefinedSoFar /\ Spawns /\ [Next]_vars => Spawns'
<1> SUFFICES ASSUME StartInv, InOrder, DefinedSoFar, Spawns, [Next]_vars, phase' \in {"exec", "called"}
             PROVE  AllMade(calls, objects, inits)'
  BY DEF Spawns
<1>1. CASE ReadOptions \/ AddField
  BY <1>1 DEF ReadOptions, AddField, Stop
<1>2. CASE Resolve
  <2>1. phase = "parse" /\ UNCHANGED <<program, objects, inits>>
    BY <1>2 DEF Resolve, Stop, work
  <2>2. objects' = <<>> /\ inits' = <<>>
    BY <2>1 DEF StartInv, StartSound, Blank
  <2>3. AllMade(calls', objects', inits')
    BY <2>2 DEF AllMade, Settled, ToSet
  <2>4. QED
    BY <2>1, <2>3, AllMadeIs
<1>3. CASE Initialising
  <2>1. phase = "exec" /\ phase' = "exec" /\ UNCHANGED program
    BY <1>3, InitialisingIs
  <2>2. InTurn /\ Ongoing /\ Tower(calls) /\ AllMade(calls, objects, inits)
    BY <2>1 DEF InOrder, InTurn, StartInv, StartSound, Started, Ongoing, DefinedSoFar, Spawns
  <2>3. QED
    BY <1>3, <2>1, <2>2, MadeStep, AllMadeIs
<1>4. CASE CallMain \/ UNCHANGED vars
  <2>1. phase \in {"exec", "called"} /\ UNCHANGED <<program, calls, objects, inits>>
    BY <1>4 DEF CallMain, Stop, work, vars
  <2>2. QED
    BY <2>1, AllMadeIs DEF Spawns
<1>5. QED
  BY <1>1, <1>2, <1>3, <1>4, NextIs

MadeAtStart == Closure(UNION {Creates(Order[i][1], Order[i][2]) : i \in DOMAIN Order})

(* When main is called every instance has its fields, so no class makes    *)
(* itself: the last of its instances would have made a later one.          *)
LEMMA CalledFinite == StartInv /\ InOrder /\ Spawns /\ phase = "called" => \A c \in MadeAtStart : ~Cyclic(c)
<1> SUFFICES ASSUME StartInv, InOrder, Spawns, phase = "called", NEW c \in MadeAtStart, Cyclic(c) PROVE FALSE
  OBVIOUS
<1> DEFINE S == UNION {Creates(Order[i][1], Order[i][2]) : i \in DOMAIN Order}
           After(o) == {objects[q].class : q \in {q \in DOMAIN objects : q > o}}
           rest == {n \in Nat : \E o \in DOMAIN objects : objects[o].class = c /\ n = Len(objects) - o}
<1>1. ProgramSound /\ AllMade(calls, objects, inits) /\ calls = <<>> /\ inits = Order
  BY InOrderIs DEF StartInv, Spawns, InOrder, InitsInOrder
<1>2. Len(objects) \in Nat /\ DOMAIN objects = 1 .. Len(objects)
  BY LenProperties DEF StartInv, StartSound, DataSound, MadeSo
<1>3. ASSUME NEW o \in DOMAIN objects, NEW d \in Makes(objects[o].class) PROVE d \in After(o)
  <2>1. PICK f \in NamesOf(objects[o].class, FALSE) : d \in Creates(objects[o].class, f)
    BY <1>3 DEF Makes
  <2>2. ~Waits(o, f, calls)
    BY <1>1 DEF Waits
  <2>3. <<o, f>> \in SpawnFields(objects)
    BY <1>1, <2>1, <2>2 DEF AllMade, Settled
  <2>4. MadeLater(objects, o, d)
    BY <2>1, <2>3 DEF SpawnFields
  <2>5. QED
    BY <2>4 DEF MadeLater
<1>4. S \subseteq After(0)
  <2> SUFFICES ASSUME NEW i \in DOMAIN Order, NEW d \in Creates(Order[i][1], Order[i][2]) PROVE d \in After(0)
    OBVIOUS
  <2>1. Order[i] \in SpawnShared(objects)
    BY <1>1 DEF AllMade, ToSet
  <2>2. MadeLater(objects, 0, d)
    BY <2>1 DEF SpawnShared
  <2>3. QED
    BY <2>2 DEF MadeLater
<1>5. \A o \in 0 .. Len(objects) : \A d \in After(o) : Makes(d) \subseteq After(o)
  <2> SUFFICES ASSUME NEW o \in 0 .. Len(objects), NEW q \in DOMAIN objects, q > o, NEW d \in Makes(objects[q].class)
               PROVE  d \in After(o)
    OBVIOUS
  <2>1. d \in After(q)
    BY <1>3
  <2>2. \A p \in DOMAIN objects : p > q => p > o
    BY <1>2
  <2>3. QED
    BY <2>1, <2>2
<1> HIDE DEF S
<1>6. MadeAtStart \subseteq After(0)
  <2>1. 0 \in 0 .. Len(objects)
    BY <1>2
  <2> DEFINE X == After(0)
  <2>2. S \subseteq X /\ \A d \in X : Makes(d) \subseteq X
    BY <1>4, <1>5, <2>1
  <2> HIDE DEF X
  <2>3. Closure(S) \subseteq X
    BY <2>2, ClosureLeast
  <2>4. QED
    BY <2>3 DEF MadeAtStart, S, X
<1>7. rest \subseteq Nat /\ rest # {}
  <2>1. PICK o \in DOMAIN objects : objects[o].class = c
    BY <1>6
  <2>2. Len(objects) - o \in rest
    BY <1>2, <2>1
  <2>3. QED
    BY <2>2
<1>8. PICK m \in rest : \A n \in rest : m <= n
  <2> HIDE DEF rest
  <2>1. QED
    BY <1>7, LeastElement
<1>9. PICK o \in DOMAIN objects : objects[o].class = c /\ m = Len(objects) - o
  BY <1>8
<1>10. Closure(Makes(c)) \subseteq After(o)
  <2> DEFINE X == After(o)
  <2>1. Makes(c) \subseteq X /\ \A d \in X : Makes(d) \subseteq X
    <3>1. o \in 0 .. Len(objects)
      BY <1>2
    <3>2. Makes(c) \subseteq After(o)
      BY <1>3, <1>9
    <3> HIDE DEF After
    <3>3. \A d \in After(o) : Makes(d) \subseteq After(o)
      BY ONLY <1>5, <3>1
    <3>4. QED
      BY <3>2, <3>3
  <2> HIDE DEF X
  <2>2. Closure(Makes(c)) \subseteq X
    BY <2>1, ClosureLeast
  <2>3. QED
    BY <2>2 DEF X
<1>11. PICK q \in DOMAIN objects : q > o /\ objects[q].class = c
  BY <1>10 DEF Cyclic
<1>12. Len(objects) - q \in rest /\ ~(m <= Len(objects) - q)
  BY <1>2, <1>9, <1>11
<1>13. QED
  BY <1>8, <1>12

-----------------------------------------------------------------------------
(* Lists of classes and shared fields are only so deep as the tree: what   *)
(* is left of a list at place p, counted from the first call, is lower in  *)
(* the tree the higher p is.                                               *)
Height == CHOOSE h : Falls(h)

DeepAt(a, p) ==
  LET K == Cardinality(Class)
  IN  /\ a.of = "classes" => \A i \in 1 .. Len(a.left) : p + 2 * Height[a.left[i]] <= 2 * K - 1
      /\ a.of = "shared" => p <= 2 * K

Deep(s) == \A k \in 1 .. Len(s) : DeepAt(s[k], Len(s) - k + 1)

LEMMA HeightIs ==
  ASSUME shape \in Shapes
  PROVE  /\ \A c \in Places : Height[c] \in 0 .. Cardinality(Class)
         /\ \A c \in Places : \A i \in DOMAIN shape.tree[c] : Height[shape.tree[c][i]] < Height[c]
         /\ Cardinality(Class) \in Nat
<1>1. Falls(Height)
  BY TreeIs DEF Height
<1>2. QED
  BY <1>1, TreeIs DEF Falls

LEMMA DeepPop ==
  ASSUME NEW S, NEW s \in Seq(S), s # <<>>, Deep(s)
  PROVE  DeepAt(Head(s), Len(s)) /\ Deep(Tail(s)) /\ Len(s) = Len(Tail(s)) + 1 /\ Len(Tail(s)) \in Nat
<1> DEFINE t == Tail(s)
<1>1. /\ Head(s) = s[1] /\ Len(s) \in Nat \ {0} /\ Len(t) = Len(s) - 1
      /\ \A k \in 1 .. Len(t) : t[k] = s[k + 1]
  BY HeadAndTail
<1> HIDE DEF t
<1>2. DeepAt(s[1], Len(s))
  <2>1. 1 \in 1 .. Len(s) /\ Len(s) - 1 + 1 = Len(s)
    BY <1>1
  <2>2. QED
    BY <2>1 DEF Deep
<1>3. ASSUME NEW k \in 1 .. Len(t) PROVE DeepAt(t[k], Len(t) - k + 1)
  <2>1. k + 1 \in 1 .. Len(s) /\ Len(s) - (k + 1) + 1 = Len(t) - k + 1
    BY <1>1
  <2>2. QED
    BY <1>1, <2>1 DEF Deep
<1>4. QED
  BY <1>1, <1>2, <1>3 DEF Deep, t

LEMMA DeepPush ==
  ASSUME NEW S, NEW s \in Seq(S), NEW a \in S, Deep(s), DeepAt(a, Len(s) + 1)
  PROVE  Deep(<<a>> \o s)
<1> DEFINE t == <<a>> \o s
<1>1. /\ Len(t) = Len(s) + 1 /\ Len(s) \in Nat
      /\ t[1] = a /\ \A k \in 1 .. Len(s) : t[k + 1] = s[k]
  BY PushIs
<1> HIDE DEF t
<1>2. ASSUME NEW k \in 1 .. Len(t) PROVE DeepAt(t[k], Len(t) - k + 1)
  <2>1. CASE k = 1
    <3>1. Len(t) - k + 1 = Len(s) + 1
      BY <1>1, <2>1
    <3>2. QED
      BY <1>1, <2>1, <3>1
  <2>2. CASE k # 1
    <3> DEFINE j == k - 1
    <3>1. j \in 1 .. Len(s) /\ k = j + 1 /\ Len(t) - k + 1 = Len(s) - j + 1
      BY <1>1, <2>2
    <3> HIDE DEF j
    <3>2. t[k] = s[j]
      BY <1>1, <3>1
    <3>3. QED
      BY <3>1, <3>2 DEF Deep
  <2>3. QED
    BY <2>1, <2>2
<1>3. QED
  BY <1>2 DEF Deep, t

(* A call of another kind, or of the shared fields at the same place.      *)
LEMMA DeepTop ==
  ASSUME NEW S, NEW s \in Seq(S), s # <<>>, Deep(s), NEW b \in S, b.of = Head(s).of, b.of # "classes"
  PROVE  Deep(<<b>> \o Tail(s))
<1>1. DeepAt(Head(s), Len(s)) /\ Deep(Tail(s)) /\ Len(s) = Len(Tail(s)) + 1 /\ Tail(s) \in Seq(S)
  BY DeepPop, HeadAndTail
<1>2. DeepAt(b, Len(Tail(s)) + 1)
  BY <1>1 DEF DeepAt
<1>3. QED
  BY <1>1, <1>2, DeepPush

LEMMA StoreDeep ==
  ASSUME Ongoing, NEW under \in Seq(CallsNow), under # <<>>, Deep(under), Head(under).left # <<>>,
         Head(under).of # "classes", Head(under).of = "shared" => Head(under).ready, NEW v, Store(v, under)
  PROVE  Deep(calls')
<1> DEFINE b == Shorter(Head(under))
<1>1. Head(under) \in CallsNow
  BY HeadAndTail
<1>2. b \in CallsNow /\ b.of = Head(under).of
  BY <1>1, CallShorter DEF CallsNow
<1>3. calls' = <<b>> \o Tail(under)
  BY DEF Store, Shorter
<1> HIDE DEF b
<1>4. QED
  BY <1>2, <1>3, DeepTop

LEMMA SharedInitDeep ==
  ASSUME Ongoing, Deep(calls), SharedInit
  PROVE  Deep(calls') /\ (phase' = "overflow" => MaxDepth <= 2 * Cardinality(Class) /\ Class # {})
<1> DEFINE K == Cardinality(Class)
           h == Height[AtHead]
           n == Len(Rest)
<1>1. PICK a, b, c \in NotInstances :
        /\ a = Classes(shape.tree[AtHead]) /\ b = Shorter(Call) /\ c.of = "shared"
        /\ calls' \in {calls, <<a>> \o (<<b>> \o Rest), <<a>> \o (<<c>> \o (<<b>> \o Rest))}
  BY SharedInitCalls
<1>2. /\ calls \in Seq(CallsNow) /\ calls # <<>> /\ Call.of = "classes" /\ Rest \in Seq(CallsNow)
      /\ AtHead \in Class /\ Call.left # <<>> /\ (phase' = "overflow" => MaxDepth <= n + 2)
  BY SharedInitCalls
<1>3. Call \in ListCalls /\ shape \in Shapes
  BY <1>2, CallIs, CallKinds DEF CallsNow, Ongoing, ProgramSound
<1>4. DeepAt(Call, n + 1) /\ Deep(Rest) /\ n \in Nat
  BY <1>2, DeepPop DEF Call, Rest
<1>5. \A d \in Places : Height[d] \in Nat
  BY <1>3, HeightIs
<1>6. Call.left \in Seq(Class)
  BY <1>3 DEF ListCalls
<1>7. /\ Len(Call.left) \in Nat \ {0} /\ AtHead = Call.left[1] /\ Len(Tail(Call.left)) = Len(Call.left) - 1
      /\ \A i \in 1 .. Len(Tail(Call.left)) : Tail(Call.left)[i] = Call.left[i + 1]
  BY <1>2, <1>6, HeadAndTail DEF AtHead
<1>8. K \in Nat /\ h \in Nat
  BY <1>2, <1>3, HeightIs DEF Places
<1>9. \A i \in 1 .. Len(Call.left) : (n + 1) + 2 * Height[Call.left[i]] <= 2 * K - 1
  BY <1>2, <1>4 DEF DeepAt
<1>10. (n + 1) + 2 * h <= 2 * K - 1
  BY <1>7, <1>9
<1>11. DeepAt(b, n + 1)
  <2>1. b.of = "classes" /\ b.left = Tail(Call.left)
    BY <1>1, <1>2, <1>3 DEF Shorter, ListCalls
  <2>2. \A i \in 1 .. Len(Tail(Call.left)) : i + 1 \in 1 .. Len(Call.left)
    BY <1>7
  <2>3. QED
    BY <1>7, <1>9, <2>1, <2>2 DEF DeepAt
<1>12. \A i \in DOMAIN shape.tree[AtHead] : Height[shape.tree[AtHead][i]] \in Nat /\ Height[shape.tree[AtHead][i]] < h
  <2>1. shape.tree[AtHead] \in Seq(Class)
    BY <1>2, <1>3, TreeIs DEF Places
  <2>2. \A i \in DOMAIN shape.tree[AtHead] : shape.tree[AtHead][i] \in Places
    BY <2>1 DEF Places
  <2>3. QED
    BY <1>2, <1>3, <2>2, <1>5, HeightIs DEF Places
<1>13. a.of = "classes" /\ a.left = shape.tree[AtHead] /\ DOMAIN a.left = 1 .. Len(a.left)
  <2>1. shape.tree[AtHead] \in Seq(Class)
    BY <1>2, <1>3, TreeIs DEF Places
  <2>2. QED
    BY <1>1, <2>1, LenProperties DEF Classes
<1> HIDE DEF h, n, K
<1>14. \A p \in {n + 2, n + 3} : DeepAt(a, p)
  <2>1. \A x \in Nat : x < h => (n + 2) + 2 * x <= 2 * K - 1 /\ (n + 3) + 2 * x <= 2 * K - 1
    BY <1>4, <1>8, <1>10
  <2>2. QED
    BY <1>12, <1>13, <2>1 DEF DeepAt, K, h
<1>15. DeepAt(c, n + 2)
  <2>1. n + 2 <= 2 * K
    BY <1>4, <1>8, <1>10
  <2>2. QED
    BY <1>1, <2>1 DEF DeepAt, K
<1> DEFINE more == <<b>> \o Rest
           under == <<c>> \o more
<1>16. a \in CallsNow /\ b \in CallsNow /\ c \in CallsNow
  BY DEF NotInstances
<1>17. more \in Seq(CallsNow) /\ Len(more) = n + 1 /\ Deep(more)
  BY <1>2, <1>4, <1>11, <1>16, PushIs, DeepPush DEF n
<1> HIDE DEF more
<1>18. under \in Seq(CallsNow) /\ Len(under) = n + 2 /\ Deep(under)
  <2>1. Len(more) + 1 = n + 2
    BY <1>4, <1>17
  <2>2. QED
    BY <1>15, <1>16, <1>17, <2>1, PushIs, DeepPush
<1> HIDE DEF under
<1>19. Deep(<<a>> \o more) /\ Deep(<<a>> \o under)
  <2>1. Len(more) + 1 = n + 2 /\ Len(under) + 1 = n + 3
    BY <1>4, <1>17, <1>18
  <2>2. DeepAt(a, Len(more) + 1) /\ DeepAt(a, Len(under) + 1)
    BY <1>14, <2>1
  <2>3. QED
    BY <1>16, <1>17, <1>18, <2>2, DeepPush
<1>20. calls' \in {calls, <<a>> \o more, <<a>> \o under}
  BY <1>1 DEF more, under
<1>21. phase' = "overflow" => MaxDepth <= 2 * K
  <2>1. n + 2 <= 2 * K
    BY <1>4, <1>8, <1>10
  <2>2. MaxDepth \in Nat
    BY StartupAssumption
  <2>3. QED
    BY <1>2, <1>4, <1>8, <2>1, <2>2
<1>22. QED
  BY <1>2, <1>19, <1>20, <1>21 DEF K

LEMMA CreateDeep ==
  ASSUME Ongoing, Deep(calls), InField, NEW c, NEW args, CreateInstance(c, args)
  PROVE  Deep(calls')
<1> DEFINE a == Instance(c, Len(objects) + 1, args)
           S == CallsNow \cup {a}
<1>1. calls \in Seq(CallsNow)
  BY DEF Ongoing, DataSound, CallsNow
<1>2. calls \in Seq(S) /\ a \in S
  BY <1>1, SeqMonotonic
<1>3. a.of = "instance" /\ (calls' = <<a>> \o calls \/ calls' = calls)
  BY DEF CreateInstance, Push, Instance
<1> HIDE DEF a, S
<1>4. DeepAt(a, Len(calls) + 1)
  BY <1>3 DEF DeepAt
<1>5. Deep(<<a>> \o calls)
  BY <1>2, <1>4, DeepPush
<1>6. QED
  BY <1>3, <1>5

LEMMA AddClassDeep ==
  ASSUME Ongoing, Deep(calls), AddClass
  PROVE  Deep(calls')
<1>1. PICK a : a.of = "shared" /\ calls' \in {Rest, <<a>> \o Rest}
  BY AddClassCalls
<1>2. calls \in Seq(CallsNow) /\ calls # <<>> /\ Call.of = "shared" /\ Rest \in Seq(CallsNow)
  BY AddClassCalls DEF Ongoing, DataSound, CallsNow
<1>3. DeepAt(Call, Len(calls)) /\ Deep(Rest) /\ Len(calls) = Len(Rest) + 1
  BY <1>2, DeepPop DEF Call, Rest
<1>4. DeepAt(a, Len(Rest) + 1)
  BY <1>1, <1>2, <1>3 DEF DeepAt
<1> DEFINE S == CallsNow \cup {a}
<1>5. Rest \in Seq(S) /\ a \in S
  BY <1>2, SeqMonotonic
<1> HIDE DEF S
<1>6. Deep(<<a>> \o Rest)
  BY <1>3, <1>4, <1>5, DeepPush
<1>7. QED
  BY <1>1, <1>3, <1>6

LEMMA ReturnDeep ==
  ASSUME Ongoing, Deep(calls), calls # <<>>
  PROVE  Deep(Rest)
<1>1. calls \in Seq(CallsNow)
  BY DEF Ongoing, DataSound, CallsNow
<1>2. QED
  BY <1>1, DeepPop DEF Rest

LEMMA ConstructDeep ==
  ASSUME Ongoing, Deep(calls), Construct
  PROVE  Deep(calls')
<1>1. Deep(Rest)
  BY ConstructAt, ReturnDeep
<1>2. CASE Store(Call.me, Rest)
  BY <1>1, <1>2, ConstructAt, StoreDeep
<1>3. QED
  BY <1>2, ConstructAt

LEMMA StoreTopDeep ==
  ASSUME Ongoing, Deep(calls), InField, NEW v, Store(v, calls)
  PROVE  Deep(calls')
<1>1. calls \in Seq(CallsNow) /\ calls # <<>>
  BY DEF Ongoing, DataSound, CallsNow, InField
<1>2. Head(calls).left # <<>> /\ Head(calls).of # "classes" /\ (Head(calls).of = "shared" => Head(calls).ready)
  BY DEF InField, Call
<1>3. QED
  BY <1>1, <1>2, StoreDeep

LEMMA DeepStep ==
  ASSUME Ongoing, Deep(calls), Initialising
  PROVE  Deep(calls')
<1>1. LeaveList \/ LeaveShared => Deep(calls')
  BY InitialisingIs, ReturnDeep DEF LeaveList, LeaveShared, Return
<1>2. InField /\ ReadShared /\ UNCHANGED calls => Deep(calls')
  OBVIOUS
<1>3. QED
  BY <1>1, <1>2, StepKinds, SharedInitDeep, AddClassDeep, ConstructDeep, StoreTopDeep, CreateDeep

LEMMA DeepIs == UNCHANGED program /\ Deep(calls') => Deep(calls)'
<1> SUFFICES ASSUME UNCHANGED program, Deep(calls') PROVE Deep(calls)'
  OBVIOUS
<1>1. \A h : Falls(h)' <=> Falls(h)
  BY DEF program, Falls
<1>2. Height' = Height
  BY <1>1 DEF Height
<1>3. \A a, p : DeepAt(a, p)' <=> DeepAt(a, p)
  BY <1>2 DEF DeepAt
<1>4. QED
  BY <1>3 DEF Deep

(* The classes inside the root are lower than it.                          *)
LEMMA FirstDeep ==
  ASSUME ProgramSound
  PROVE  Deep(<<Classes(shape.tree[Root])>>)
<1> DEFINE K == Cardinality(Class)
           list == shape.tree[Root]
<1>1. /\ \A c \in Places : Height[c] \in 0 .. K
      /\ \A i \in DOMAIN list : Height[list[i]] < Height[Root]
      /\ K \in Nat /\ Root \in Places
  BY HeightIs DEF ProgramSound, Places
<1>2. list \in Seq(Class)
  BY <1>1, TreeIs DEF ProgramSound
<1>3. \A i \in DOMAIN list : list[i] \in Places
  BY <1>2 DEF Places
<1>4. DOMAIN list = 1 .. Len(list)
  BY <1>2, LenProperties
<1> HIDE DEF K, list
<1>5. ASSUME NEW i \in 1 .. Len(list) PROVE 1 + 2 * Height[list[i]] <= 2 * K - 1
  <2>1. Height[list[i]] \in 0 .. K /\ Height[Root] \in 0 .. K /\ Height[list[i]] < Height[Root]
    BY <1>1, <1>3, <1>4
  <2>2. \A x, y \in 0 .. K : x < y => 1 + 2 * x <= 2 * K - 1
    BY <1>1
  <2>3. QED
    BY ONLY <2>1, <2>2
<1>6. DeepAt(Classes(list), 1)
  BY <1>5 DEF DeepAt, Classes, K
<1> DEFINE a == Classes(list)
           s == <<a>>
<1>7. Len(s) = 1 /\ s[1] = a /\ \A k \in 1 .. 1 : k = 1 /\ 1 - k + 1 = 1
  OBVIOUS
<1> HIDE DEF a, s
<1>8. DeepAt(a, 1)
  BY <1>6 DEF a
<1>9. Deep(s)
  BY <1>7, <1>8 DEF Deep
<1>10. QED
  BY <1>9 DEF s, a, list

LEMMA ClosureMonotone ==
  ASSUME NEW S, NEW T, S \subseteq T
  PROVE  Closure(S) \subseteq Closure(T)
<1> DEFINE K == Cardinality(Class)
<1>1. K \in Nat
  BY StartupAssumption, FS_CardinalityType
<1>2. PICK v : Grows(v, S) /\ Closure(S) = v[K]
  BY ClosureIs
<1>3. PICK w : Grows(w, T) /\ Closure(T) = w[K]
  BY ClosureIs
<1> DEFINE Good == {n \in Nat : n <= K => v[n] \subseteq w[n]}
<1>4. 0 \in Good
  BY <1>2, <1>3 DEF Grows
<1>5. ASSUME NEW n \in Nat, n \in Good, n + 1 <= K PROVE v[n + 1] \subseteq w[n + 1]
  <2>1. n + 1 \in 1 .. K /\ n <= K /\ (n + 1) - 1 = n
    BY <1>1, <1>5
  <2>2. v[n + 1] = MoreOf(v[n]) /\ w[n + 1] = MoreOf(w[n])
    BY <1>2, <1>3, <2>1 DEF Grows
  <2>3. v[n] \subseteq w[n]
    BY <1>5, <2>1
  <2>4. QED
    BY <2>2, <2>3 DEF MoreOf
<1>6. \A n \in Nat : n \in Good
  <2>1. ASSUME NEW n \in Nat, n \in Good PROVE n + 1 \in Good
    <3>1. n + 1 \in Nat /\ (n + 1 <= K => v[n + 1] \subseteq w[n + 1])
      BY <1>5, <2>1
    <3>2. QED
      BY <3>1
  <2> HIDE DEF Good
  <2>2. QED
    BY <1>4, <2>1, SetInduction
<1>7. QED
  BY <1>1, <1>2, <1>3, <1>6

(* The calls for the instances on top are each at a field.                 *)
LEMMA InstancesAt ==
  ASSUME Ongoing, InField, NEW k \in 1 .. Len(calls),
         \A j \in 1 .. Len(calls) : j < k => calls[j].of = "instance"
  PROVE  \A j \in 1 .. k : InitsField(calls[j])
<1>1. Nested(calls) /\ calls \in Seq(CallsNow) /\ calls # <<>>
  BY DEF Ongoing, DataSound, CallsNow, InField
<1>2. InitsField(calls[1])
  <2>1. Head(calls) = calls[1]
    BY <1>1, HeadAndTail
  <2>2. QED
    BY <2>1 DEF InField, InitsField, Call
<1>3. ASSUME NEW j \in 1 .. k, j # 1 PROVE InitsField(calls[j])
  <2> DEFINE i == j - 1
  <2>1. i \in 1 .. Len(calls) /\ i < k /\ i # Len(calls) /\ j = i + 1
    BY <1>3
  <2> HIDE DEF i
  <2>2. calls[i].of = "instance" /\ Rests(calls[i], calls[j])
    BY <1>1, <2>1 DEF Nested
  <2>3. QED
    BY <2>2 DEF Rests, InitsField
<1>4. QED
  BY <1>2, <1>3

(* Where an instance of the class of another one is above it, the class    *)
(* leads to itself.                                                        *)
LEMMA AboveItself ==
  ASSUME Ongoing, Tower(calls), InField, NEW c \in Creates(Call.class, AtHead),
         NEW y \in 1 .. Len(calls), calls[y].of = "instance",
         \A j \in 1 .. y : InitsField(calls[j]),
         \A j \in 1 .. Len(calls) : j < y => calls[j].of = "instance",
         calls[y].class = c \/ \E x \in 1 .. Len(calls) : x < y /\ calls[x].class = calls[y].class
  PROVE  Cyclic(calls[y].class)
<1> DEFINE d == calls[y].class
           S == Creates(d, Head(calls[y].left))
<1>1. /\ \A i \in 1 .. Len(calls) : calls[i] \in CallSet(DOMAIN sharedMem, objects)
      /\ ProgramSound /\ calls \in Seq(CallsNow) /\ calls # <<>>
  BY ElementOfSeq DEF Ongoing, DataSound, CallsNow, InField
<1>2. \A j \in 1 .. y : j \in 1 .. Len(calls) /\ calls[j].of = "instance"
  BY <1>1, LenProperties
<1>3. ASSUME NEW j \in 1 .. y
      PROVE  calls[j].class \in Class /\ Head(calls[j].left) \in NamesOf(calls[j].class, FALSE)
  <2>1. calls[j] \in CallSet(DOMAIN sharedMem, objects) /\ InitsField(calls[j]) /\ calls[j].of = "instance"
    BY <1>1, <1>2
  <2>2. QED
    BY <2>1, AtIsOf
<1>4. y \in 1 .. y /\ 1 \in 1 .. y /\ Call = calls[1]
  BY <1>1, HeadAndTail DEF Call
<1>5. d \in Class /\ S \subseteq Makes(d) /\ Makes(d) \subseteq Class
  BY <1>1, <1>3, <1>4, MakesType
<1>6. \A j \in 1 .. Len(calls) : j < y => calls[j].class \in Closure(S)
  <2>1. InitsField(calls[y])
    BY <1>4
  <2>2. QED
    BY <2>1, MadeBelow
<1>7. /\ S \subseteq Closure(S)
      /\ \A e \in Closure(S) : Makes(e) \subseteq Closure(S)
  BY <1>1, <1>5, ClosureClosed
<1>8. c \in Closure(S)
  <2>1. CASE y = 1
    <3>1. Creates(Call.class, AtHead) = S
      BY <1>4, <2>1 DEF AtHead
    <3>2. QED
      BY <1>7, <3>1
  <2>2. CASE y # 1
    <3>1. 1 \in 1 .. Len(calls) /\ 1 < y
      BY <1>2, <1>4, <2>2
    <3>2. Call.class \in Closure(S)
      BY <1>4, <1>6, <3>1
    <3>3. Call.class \in Class /\ AtHead \in NamesOf(Call.class, FALSE)
      BY <1>3, <1>4 DEF AtHead
    <3>4. Creates(Call.class, AtHead) \subseteq Makes(Call.class)
      BY <1>1, <3>3, MakesType
    <3>5. QED
      BY <1>7, <3>2, <3>4
  <2>3. QED
    BY <2>1, <2>2
<1>9. d \in Closure(S)
  BY <1>6, <1>8
<1>10. Closure(S) \subseteq Closure(Makes(d))
  BY <1>5, ClosureMonotone
<1>11. QED
  BY <1>9, <1>10 DEF Cyclic

LEMMA CreateOverflow ==
  ASSUME Ongoing, InTurn, Tower(calls), Deep(calls), InField, NEW c \in Creates(Call.class, AtHead),
         NEW args, CreateInstance(c, args), phase' = "overflow", MaxDepth >= 3 * Cardinality(Class)
  PROVE  \E d \in MadeAtStart : Cyclic(d)
<1> DEFINE K == Cardinality(Class)
           n == Len(calls)
<1>1. K \in Nat /\ IsFiniteSet(Class) /\ MaxDepth \in Nat
  BY StartupAssumption, FS_CardinalityType
<1>2. n \in Nat /\ calls \in Seq(CallsNow) /\ calls # <<>> /\ ProgramSound
  BY LenProperties DEF Ongoing, DataSound, CallsNow, InField
<1>3. ~(n < MaxDepth)
  BY DEF CreateInstance, Push, InField
<1>4. PICK k \in 1 .. Len(calls) :
        /\ calls[k].of = "shared" /\ InitsField(calls[k])
        /\ \A j \in 1 .. Len(calls) : j < k => calls[j].of = "instance"
        /\ AtShared = <<calls[k].class, Head(calls[k].left)>>
  BY AtSharedAt
<1>5. n - k + 1 <= 2 * K
  <2>1. DeepAt(calls[k], n - k + 1)
    BY DEF Deep
  <2>2. QED
    BY <1>4, <2>1 DEF DeepAt
<1>6. K < k
  <2>1. n >= 3 * K
    BY <1>1, <1>2, <1>3
  <2>2. QED
    BY <1>1, <1>2, <1>5, <2>1
<1>7. \A j \in 1 .. k : InitsField(calls[j])
  BY <1>4, InstancesAt
<1>8. /\ Creates(calls[k].class, Head(calls[k].left)) \subseteq Class
      /\ \A j \in 1 .. Len(calls) : j < k =>
           calls[j].class \in Closure(Creates(calls[k].class, Head(calls[k].left)))
  BY <1>4, MadeBelow
<1>9. Closure(Creates(calls[k].class, Head(calls[k].left))) \subseteq Class
  BY <1>2, <1>8, ClosureClosed
<1>10. c \in Class
  <2>1. Call = calls[1] /\ 1 \in 1 .. k /\ 1 \in 1 .. Len(calls)
    BY <1>2, HeadAndTail DEF Call
  <2>2. Call \in CallSet(DOMAIN sharedMem, objects) /\ InitsField(Call)
    BY <1>2, <1>7, <2>1, ElementOfSeq DEF CallsNow
  <2>3. Call.class \in Class /\ \E s : AtHead \in NamesOf(Call.class, s)
    BY <2>2, AtIsOf DEF AtHead
  <2>4. QED
    BY <1>2, <2>3, CreatesType
<1> HIDE DEF K
<1>11. \A j \in 1 .. K : j \in 1 .. Len(calls) /\ j < k
  BY <1>1, <1>2, <1>6
<1> DEFINE of == [i \in 0 .. K |-> IF i = 0 THEN c ELSE calls[i].class]
<1>12. of \in [0 .. K -> Class]
  <2>1. \A i \in 0 .. K : i # 0 => i \in 1 .. K
    BY <1>1
  <2>2. \A i \in 1 .. K : calls[i].class \in Class
    BY <1>8, <1>9, <1>11
  <2>3. QED
    BY <1>10, <2>1, <2>2
<1>13. \A i \in 0 .. K : of[i] = IF i = 0 THEN c ELSE calls[i].class
  OBVIOUS
<1> HIDE DEF of
<1>14. IsFiniteSet(0 .. K) /\ Cardinality(0 .. K) = K + 1
  <2>1. 0 \in Int /\ K \in Int /\ ~(0 > K) /\ K - 0 + 1 = K + 1
    BY <1>1
  <2>2. QED
    BY ONLY <2>1, FS_Interval
<1>15. PICK x, y \in 0 .. K : x < y /\ of[x] = of[y]
  <2>1. PICK x, y \in 0 .. K : x # y /\ of[x] = of[y]
    <3>1. Cardinality(Class) < Cardinality(0 .. K)
      BY <1>1, <1>14 DEF K
    <3>2. QED
      BY <1>1, <1>12, <1>14, <3>1, FS_PigeonHole
  <2>2. CASE x < y
    BY <2>1, <2>2
  <2>3. CASE ~(x < y)
    <3>1. y < x
      BY <1>1, <2>1, <2>3
    <3>2. QED
      BY <2>1, <3>1
  <2>4. QED
    BY <2>2, <2>3
<1>16. y \in 1 .. K /\ y \in 1 .. Len(calls) /\ y < k /\ (x = 0 \/ (x \in 1 .. K /\ x \in 1 .. Len(calls)))
  <2>1. y \in 1 .. K /\ (x = 0 \/ x \in 1 .. K)
    BY <1>1, <1>15
  <2>2. y \in 1 .. Len(calls) /\ y < k
    BY ONLY <1>11, <2>1
  <2>3. x \in 1 .. K => x \in 1 .. Len(calls)
    BY ONLY <1>11
  <2>4. QED
    BY <2>1, <2>2, <2>3
<1>17. of[y] = calls[y].class /\ (x = 0 => of[x] = c) /\ (x \in 1 .. K => of[x] = calls[x].class)
  BY <1>13, <1>15, <1>16
<1>18. Cyclic(calls[y].class)
  <2>1. calls[y].of = "instance" /\ \A j \in 1 .. Len(calls) : j < y => calls[j].of = "instance"
    BY <1>4, <1>16
  <2>2. \A j \in 1 .. y : InitsField(calls[j])
    BY <1>7, <1>16
  <2>3. calls[y].class = c \/ \E z \in 1 .. Len(calls) : z < y /\ calls[z].class = calls[y].class
    BY <1>15, <1>16, <1>17
  <2>4. QED
    BY <1>16, <2>1, <2>2, <2>3, AboveItself
<1>19. calls[y].class \in MadeAtStart
  <2> DEFINE S == UNION {Creates(Order[i][1], Order[i][2]) : i \in DOMAIN Order}
             U == Creates(AtShared[1], AtShared[2])
  <2>1. U \subseteq S
    BY InitialisedFor
  <2>2. U = Creates(calls[k].class, Head(calls[k].left))
    BY <1>4
  <2>3. calls[y].class \in Closure(U)
    BY <1>8, <1>16, <2>2
  <2> HIDE DEF S, U
  <2>4. Closure(U) \subseteq Closure(S)
    BY <2>1, ClosureMonotone
  <2>5. QED
    BY <2>3, <2>4 DEF MadeAtStart, S
<1>20. QED
  BY <1>18, <1>19

(* How deep the calls are, and why they became too deep.  A list of the    *)
(* classes and the shared fields of one stand for every class on the way,  *)
(* and an instance of each class is no cycle yet.                          *)
DeepEnough == MaxDepth >= 3 * Cardinality(Class)

Endless ==
  /\ phase = "exec" => Deep(calls)
  /\ DeepEnough /\ phase = "overflow" => \E c \in MadeAtStart : Cyclic(c)

LEMMA MadeAtStartIs ==
  UNCHANGED program => /\ MadeAtStart' = MadeAtStart
                       /\ \A c : Cyclic(c)' <=> Cyclic(c)
<1> SUFFICES ASSUME UNCHANGED program
             PROVE  MadeAtStart' = MadeAtStart /\ \A c : Cyclic(c)' <=> Cyclic(c)
  OBVIOUS
<1> DEFINE S == UNION {Creates(Order[i][1], Order[i][2]) : i \in DOMAIN Order}
<1>1. S' = S
  BY SameTree, SameClosure
<1>2. Closure(S)' = Closure(S)
  <2>1. \A T : Closure(T)' = Closure(T)
    BY SameClosure
  <2> HIDE DEF S
  <2>2. QED
    BY <1>1, <2>1
<1>3. \A c : Closure(Makes(c))' = Closure(Makes(c))
  BY SameClosure
<1>4. QED
  BY <1>2, <1>3 DEF MadeAtStart, Cyclic

LEMMA EndlessInit == Init => Endless
BY DEF Init, Endless

LEMMA OverflowStep ==
  ASSUME Ongoing, InTurn, Tower(calls), Deep(calls), DeepEnough, Initialising, phase' = "overflow"
  PROVE  \E c \in MadeAtStart : Cyclic(c)
<1>1. Cardinality(Class) \in Nat /\ MaxDepth \in Nat /\ (Class # {} => Cardinality(Class) # 0)
  BY StartupAssumption, FS_CardinalityType, FS_EmptySet
<1>2. CASE SharedInit
  BY <1>1, <1>2, SharedInitDeep DEF DeepEnough
<1>3. CASE InitDefault \/ InitNew
  <2>1. InField /\ \E c \in Creates(Call.class, AtHead), args \in BOOLEAN : CreateInstance(c, args)
    BY <1>3, CreatesWhat DEF InitDefault, InitNew
  <2>2. QED
    BY <2>1, CreateOverflow DEF DeepEnough
<1>4. phase = "exec"
  BY InitialisingIs
<1>5. CASE AddClass \/ LeaveList \/ LeaveShared \/ InitPlain \/ ReadShared \/ ReadOwn \/ Construct
  BY <1>4, <1>5 DEF AddClass, LeaveList, LeaveShared, Return, InitPlain, ReadShared, ReadOwn, Construct
<1>6. QED
  BY <1>2, <1>3, <1>5 DEF Initialising

LEMMA EndlessNext == StartInv /\ InOrder /\ DefinedSoFar /\ Endless /\ [Next]_vars => Endless'
<1> SUFFICES ASSUME StartInv, InOrder, DefinedSoFar, Endless, [Next]_vars PROVE Endless'
  OBVIOUS
<1>1. CASE ReadOptions \/ AddField
  BY <1>1 DEF ReadOptions, AddField, Stop, Endless
<1>2. CASE Resolve
  <2>1. /\ phase = "parse" /\ UNCHANGED program /\ phase' \in {"exec", "stopped", "failed"}
        /\ phase' = "exec" => calls' = <<Classes(shape.tree[Root])>>
    BY <1>2 DEF Resolve, Stop
  <2>2. phase' = "exec" => Deep(calls')
    BY <2>1, FirstDeep DEF StartInv
  <2>3. QED
    BY <2>1, <2>2, DeepIs DEF Endless
<1>3. CASE Initialising
  <2>1. phase = "exec" /\ phase' \in {"exec", "overflow", "crashed", "failed"} /\ UNCHANGED program
    BY <1>3, InitialisingIs
  <2>2. InTurn /\ Ongoing /\ Tower(calls) /\ Deep(calls)
    BY <2>1 DEF InOrder, InTurn, StartInv, StartSound, Started, Ongoing, DefinedSoFar, Endless
  <2>3. Deep(calls)'
    BY <1>3, <2>1, <2>2, DeepStep, DeepIs
  <2>4. DeepEnough /\ phase' = "overflow" => \E c \in MadeAtStart : Cyclic(c)
    BY <1>3, <2>2, OverflowStep
  <2>5. QED
    BY <2>1, <2>3, <2>4, MadeAtStartIs DEF Endless, DeepEnough
<1>4. CASE CallMain
  BY <1>4 DEF CallMain, Stop, Endless
<1>5. CASE UNCHANGED vars
  <2>1. UNCHANGED <<phase, program, calls>>
    BY <1>5 DEF vars, work
  <2>2. QED
    BY <2>1, DeepIs, MadeAtStartIs DEF Endless, DeepEnough
<1>6. QED
  BY <1>1, <1>2, <1>3, <1>4, <1>5, NextIs

(* All that is known of the start.                                         *)
BegunInv == StartInv /\ InOrder /\ DefinedSoFar /\ Spawns /\ Endless

LEMMA BegunInit == Init => BegunInv
BY StartInvInit, InOrderInit, DefinedInit, SpawnsInit, EndlessInit DEF BegunInv

LEMMA BegunNext == BegunInv /\ [Next]_vars => BegunInv'
BY StartInvNext, InOrderNext, DefinedNext, SpawnsNext, EndlessNext DEF BegunInv

LEMMA BegunIs == BegunInv => (DeepEnough => StartsWhenOrdered)
<1> SUFFICES ASSUME BegunInv, DeepEnough PROVE StartsWhenOrdered
  OBVIOUS
<1>1. OrderedMeansDefined
  BY DefinedIs DEF BegunInv
<1>2. phase = "overflow" => \E c \in MadeAtStart : Cyclic(c)
  BY DEF BegunInv, Endless
<1>3. phase = "called" => \A c \in MadeAtStart : ~Cyclic(c)
  BY CalledFinite DEF BegunInv
<1>4. EndlessOnlyIfCyclic
  BY <1>2, <1>3 DEF EndlessOnlyIfCyclic, MadeAtStart
<1>5. QED
  BY <1>1, <1>4 DEF StartsWhenOrdered

(* The interpreter comes to main with all values, unless a class makes     *)
(* instances of itself or an initialiser reads what comes later.  The      *)
(* stack need not hold more than what the tree of classes and an instance  *)
(* of each class take (EndlessOnlyIfCyclic, OrderedMeansDefined).          *)
THEOREM StartKeepsPromise == ASSUME DeepEnough PROVE Spec => []StartsWhenOrdered
<1>1. BegunInv => StartsWhenOrdered
  BY BegunIs
<1>2. QED
  BY <1>1, BegunInit, BegunNext, PTL DEF Spec
-----------------------------------------------------------------------------
(* Each shared field has a place of its own.                               *)
LEMMA IndexRises ==
  ASSUME ProgramSound, NEW c \in Class, NEW shrd, NEW f \in NamesOf(c, shrd), NEW g \in NamesOf(c, shrd),
         Declared(c, f) < Declared(c, g)
  PROVE  Index(c, f) < Index(c, g)
<1> DEFINE d     == declared[c]
           a     == Declared(c, f)
           b     == Declared(c, g)
           Up(m) == {i \in 1 .. m - 1 : d[i].shared = shrd}
<1>1. a \in 1 .. Len(d) /\ b \in 1 .. Len(d) /\ d[a].shared = shrd /\ d[b].shared = shrd /\ Len(d) \in Nat
  BY DeclaredIs, LenProperties DEF ProgramSound
<1>2. Index(c, f) = Cardinality(Up(a)) /\ Index(c, g) = Cardinality(Up(b))
  BY <1>1 DEF Index
<1>3. IsFiniteSet(Up(b)) /\ Up(a) \subseteq Up(b) /\ a \in Up(b) /\ a \notin Up(a)
  <2>1. IsFiniteSet(1 .. b - 1)
    <3>1. 1 \in Int /\ b - 1 \in Int
      BY <1>1
    <3>2. QED
      BY ONLY <3>1, FS_Interval
  <2>2. IsFiniteSet(Up(b))
    BY <2>1, FS_Subset
  <2>3. QED
    BY <1>1, <2>2
<1> HIDE DEF Up
<1>4. Cardinality(Up(a)) \in Nat /\ Cardinality(Up(b)) \in Nat /\ Cardinality(Up(a)) <= Cardinality(Up(b))
      /\ (Cardinality(Up(a)) = Cardinality(Up(b)) => Up(a) = Up(b))
  BY <1>3, FS_Subset, FS_CardinalityType
<1>5. QED
  BY <1>2, <1>3, <1>4

LEMMA IndexApart ==
  ASSUME ProgramSound, NEW c \in Class, NEW shrd
  PROVE  \A f, g \in NamesOf(c, shrd) : Index(c, f) = Index(c, g) => f = g
<1> SUFFICES ASSUME NEW f \in NamesOf(c, shrd), NEW g \in NamesOf(c, shrd), f # g
             PROVE  Index(c, f) # Index(c, g)
  OBVIOUS
<1>1. /\ Declared(c, f) \in 1 .. Len(declared[c]) /\ Declared(c, g) \in 1 .. Len(declared[c])
      /\ declared[c][Declared(c, f)].name = f /\ declared[c][Declared(c, g)].name = g
      /\ Len(declared[c]) \in Nat
  BY DeclaredIs, LenProperties DEF ProgramSound
<1>2. Declared(c, f) < Declared(c, g) \/ Declared(c, g) < Declared(c, f)
  BY <1>1
<1>3. \A h : h \in NamesOf(c, shrd) => Index(c, h) \in Int
  BY IndexOnto
<1>4. QED
  BY <1>2, <1>3, IndexRises

(* A value goes into the place of one field and no other.                  *)
LEMMA SharedStored ==
  ASSUME Ongoing, NEW c \in DOMAIN sharedMem, NEW f \in NamesOf(c, TRUE), NEW v,
         sharedMem' = MemWith(sharedMem, c, Index(c, f), v)
  PROVE  /\ DOMAIN sharedMem' = DOMAIN sharedMem /\ sharedMem'[c][Index(c, f)] = v
         /\ \A d \in DOMAIN sharedMem : \A g \in NamesOf(d, TRUE) :
              <<d, g>> # <<c, f>> => sharedMem'[d][Index(d, g)] = sharedMem[d][Index(d, g)]
<1> DEFINE K == Cardinality(NamesOf(c, TRUE))
           i == Index(c, f)
<1>1. c \in Class /\ sharedMem[c] \in [0 .. K - 1 -> Garbage .. Len(objects)]
  BY DEF Ongoing, DataSound, MemSound
<1>2. \A g \in NamesOf(c, TRUE) : Index(c, g) \in 0 .. K - 1
  BY <1>1, IndexFits DEF Ongoing
<1>3. /\ DOMAIN sharedMem' = DOMAIN sharedMem /\ sharedMem'[c] = [sharedMem[c] EXCEPT ![i] = v]
      /\ \A d \in DOMAIN sharedMem : d # c => sharedMem'[d] = sharedMem[d]
  BY DEF MemWith
<1>4. sharedMem'[c][i] = v /\ \A j \in 0 .. K - 1 : j # i => sharedMem'[c][j] = sharedMem[c][j]
  BY <1>1, <1>2, <1>3
<1>5. \A g \in NamesOf(c, TRUE) : g # f => Index(c, g) # i
  BY <1>1, IndexApart DEF Ongoing
<1>6. ASSUME NEW g \in NamesOf(c, TRUE), g # f PROVE sharedMem'[c][Index(c, g)] = sharedMem[c][Index(c, g)]
  BY <1>2, <1>4, <1>5, <1>6
<1>7. ASSUME NEW d \in DOMAIN sharedMem, NEW g \in NamesOf(d, TRUE), <<d, g>> # <<c, f>>
      PROVE  sharedMem'[d][Index(d, g)] = sharedMem[d][Index(d, g)]
  <2>1. CASE d = c
    <3>1. g # f
      BY <1>7, <2>1
    <3>2. g \in NamesOf(c, TRUE)
      BY <2>1
    <3>3. sharedMem'[c][Index(c, g)] = sharedMem[c][Index(c, g)]
      BY <1>6, <3>1, <3>2
    <3>4. QED
      BY <2>1, <3>3
  <2>2. CASE d # c
    BY <1>3, <2>2
  <2>3. QED
    BY <2>1, <2>2
<1>8. QED
  BY <1>3, <1>4, <1>7

(* The order has every shared field of a class that is no template.        *)
LEMMA InnerHas ==
  ASSUME NEW f, \A c \in Class : f[c] \in Seq(Pairs)
  PROVE  \A list \in Seq(Class) : \A i \in DOMAIN list : ToSet(f[list[i]]) \subseteq ToSet(InnerPairs(f, list))
<1> DEFINE Has(list) == \A i \in DOMAIN list : ToSet(f[list[i]]) \subseteq ToSet(InnerPairs(f, list))
           Good == {n \in Nat : \A list \in Seq(Class) : Len(list) = n => Has(list)}
<1>1. 0 \in Good
  <2>1. \A list \in Seq(Class) : Len(list) = 0 => DOMAIN list = {}
    BY LenProperties
  <2>2. \A list \in Seq(Class) : Len(list) = 0 => Has(list)
    BY <2>1
  <2> HIDE DEF Has
  <2>3. QED
    BY <2>2
<1>2. ASSUME NEW n \in Nat, n \in Good PROVE n + 1 \in Good
  <2> SUFFICES ASSUME NEW list \in Seq(Class), Len(list) = n + 1, NEW i \in DOMAIN list
               PROVE  ToSet(f[list[i]]) \subseteq ToSet(InnerPairs(f, list))
    OBVIOUS
  <2> DEFINE u == Tail(list)
  <2>1. /\ list # <<>> /\ Head(list) = list[1] /\ u \in Seq(Class) /\ Len(u) = n
        /\ \A k \in 1 .. Len(u) : u[k] = list[k + 1]
        /\ DOMAIN list = 1 .. n + 1 /\ DOMAIN u = 1 .. n
    BY HeadAndTail, LenProperties, EmptySeq
  <2>2. \A k \in DOMAIN list : f[list[k]] \in Seq(Pairs)
    BY ElementOfSeq, LenProperties
  <2>3. \A k \in DOMAIN u : f[u[k]] \in Seq(Pairs)
    BY <2>1, ElementOfSeq, LenProperties
  <2>4. InnerPairs(f, list) = f[list[1]] \o InnerPairs(f, u) /\ InnerPairs(f, u) \in Seq(Pairs)
    BY <2>1, <2>2, InnerCons
  <2>5. Has(u)
    BY <1>2, <2>1
  <2> HIDE DEF u
  <2>6. f[list[1]] \in Seq(Pairs)
    BY <2>1, <2>2
  <2>7. \A x : x \in ToSet(InnerPairs(f, list)) <=> x \in ToSet(f[list[1]]) \/ x \in ToSet(InnerPairs(f, u))
    BY ONLY <2>4, <2>6, ConcatDistinct
  <2>8. CASE i = 1
    BY <2>7, <2>8
  <2>9. CASE i # 1
    <3>1. i - 1 \in DOMAIN u /\ u[i - 1] = list[i]
      BY <2>1, <2>9
    <3>2. ToSet(f[u[i - 1]]) \subseteq ToSet(InnerPairs(f, u))
      BY <2>5, <3>1
    <3>3. QED
      BY <2>7, <3>1, <3>2
  <2>10. QED
    BY <2>8, <2>9
<1>3. \A n \in Nat : n \in Good
  <2> HIDE DEF Good
  <2>1. QED
    BY <1>1, <1>2, SetInduction
<1>4. QED
  BY <1>3, LenProperties

LEMMA OrderHasAll ==
  ASSUME shape \in Shapes, NEW c \in Class, c \notin shape.templates, NEW f \in NamesOf(c, TRUE)
  PROVE  <<c, f>> \in ToSet(Order)
<1> DEFINE Good == {d \in Places : ToSet(SharedOfTree[d]) \subseteq ToSet(Order)}
<1>1. \A d \in Places : SharedOfTree[d] = PairsStep(SharedOfTree, d) /\ SharedOfTree[d] \in Seq(Pairs)
  BY SharedOfTreeIs
<1>2. ASSUME NEW d \in Places
      PROVE  /\ InnerPairs(SharedOfTree, shape.tree[d]) \in Seq(Pairs) /\ OwnPairs(d) \in Seq(Pairs)
             /\ \A x : x \in ToSet(SharedOfTree[d]) <=>
                         x \in ToSet(InnerPairs(SharedOfTree, shape.tree[d])) \/ x \in ToSet(OwnPairs(d))
  <2>1. InnerPairs(SharedOfTree, shape.tree[d]) \in Seq(Pairs)
    BY TreeIs, TreePairs
  <2>2. OwnPairs(d) \in Seq(Pairs)
    BY OwnType
  <2>3. SharedOfTree[d] = InnerPairs(SharedOfTree, shape.tree[d]) \o OwnPairs(d)
    BY <1>1 DEF PairsStep
  <2>4. QED
    BY ONLY <2>1, <2>2, <2>3, ConcatDistinct
<1>3. Root \in Good
  BY DEF Places, Order
<1>4. ASSUME NEW d \in Class, Parent(d) \in Good PROVE d \in Good
  <2>1. Parent(d) \in Places /\ d \in ToSet(shape.tree[Parent(d)]) /\ d \in Places
    BY <1>4, ParentIs DEF Places
  <2>2. shape.tree[Parent(d)] \in Seq(Class)
    BY <2>1, TreeIs
  <2>3. \A e \in Class : SharedOfTree[e] \in Seq(Pairs)
    BY <1>1 DEF Places
  <2>4. ToSet(SharedOfTree[d]) \subseteq ToSet(InnerPairs(SharedOfTree, shape.tree[Parent(d)]))
    <3>1. PICK i \in DOMAIN shape.tree[Parent(d)] : shape.tree[Parent(d)][i] = d
      BY <2>1 DEF ToSet
    <3> DEFINE list == shape.tree[Parent(d)]
    <3>2. ToSet(SharedOfTree[list[i]]) \subseteq ToSet(InnerPairs(SharedOfTree, list))
      BY <2>2, <2>3, InnerHas
    <3>3. QED
      BY <3>1, <3>2
  <2>5. QED
    BY <1>2, <1>4, <2>1, <2>4
<1>5. c \in Good
  <2> HIDE DEF Good
  <2>1. \A d \in Places : d \in Good
    BY <1>3, <1>4, FromTheRoot
  <2>2. QED
    BY <2>1 DEF Places
<1>6. <<c, f>> \in ToSet(OwnPairs(c))
  <2> DEFINE names == NamesOf(c, TRUE)
  <2>1. names \subseteq Field
    BY DEF NamesOf
  <2>2. OwnPairs(c) = PairsOf(c, ByName(names))
    BY OwnPairsIs
  <2>3. f \in names
    OBVIOUS
  <2> HIDE DEF names
  <2>4. PICK i \in 1 .. Len(ByName(names)) : ByName(names)[i] = f
    BY <2>1, <2>3, ByNameIs
  <2>5. i \in DOMAIN ByName(names)
    BY <2>1, ByNameIs, LenProperties
  <2>6. QED
    BY <2>2, <2>4, <2>5 DEF PairsOf, ToSet
<1>7. QED
  BY <1>2, <1>5, <1>6 DEF Places

-----------------------------------------------------------------------------
(* What a shared field that is initialised holds, by its initialiser: a    *)
(* value, an instance, or what the shared field it names holds, unless     *)
(* that had no value yet.  The others hold nothing.                        *)
Fills(init, v, mem, objs, done) ==
  /\ init.kind = "value"  => v = Val
  /\ init.kind = "new"    => v \in DOMAIN objs /\ objs[v].class = init.class
  /\ init.kind = "shared" => v = Garbage \/ ( /\ <<init.class, init.field>> \in done
                                              /\ v = mem[init.class][Index(init.class, init.field)])

Filled(mem, objs, done) ==
  /\ \A x \in done : /\ x[1] \in DOMAIN mem /\ x[2] \in NamesOf(x[1], TRUE)
                     /\ Fills(InitOf(x[1], x[2]), mem[x[1]][Index(x[1], x[2])], mem, objs, done)
  /\ \A c \in DOMAIN mem : \A f \in NamesOf(c, TRUE) : <<c, f>> \notin done => mem[c][Index(c, f)] = Garbage

(* The field that is next was not initialised before.                      *)
LEMMA NextIsNew ==
  ASSUME Ongoing, inits \in Seq(Pairs), NEW under \in Seq(CallsNow), under # <<>>, inits \o Remains(under) = Order,
         Head(under).of = "shared", Head(under).left # <<>>, Head(under).ready
  PROVE  <<Head(under).class, Head(Head(under).left)>> \in Pairs
         /\ <<Head(under).class, Head(Head(under).left)>> \notin ToSet(inits)
<1> DEFINE c == Head(under)
           R == Remains(Tail(under))
           p == <<c.class, Head(c.left)>>
           Q == PairsOf(c.class, Tail(c.left))
<1>1. /\ c \in CallsNow /\ Todo(c) \in Seq(Pairs) /\ R \in Seq(Pairs) /\ Remains(under) = Todo(c) \o R
  BY CallsRemain
<1>2. c \in SharedCalls(DOMAIN sharedMem)
  BY <1>1, CallKinds DEF CallsNow
<1>3. c.class \in Class /\ c.left \in Seq(Field) /\ c.class \notin shape.templates
  BY <1>2 DEF SharedCalls
<1>4. Todo(c) = <<p>> \o Q /\ p \in Pairs
  <2>1. Todo(c) = PairsOf(c.class, c.left)
    BY <1>3 DEF Todo
  <2>2. QED
    BY <1>3, <2>1, PairsOfIs, HeadAndTail DEF Pairs
<1>5. Q \in Seq(Pairs)
  BY <1>3, PairsOfIs, HeadAndTail
<1>6. Order \in Seq(Pairs) /\ Distinct(Order)
  BY OrderIs DEF Ongoing, ProgramSound
<1> DEFINE T == Remains(under)
<1>7. p \in ToSet(T) /\ T \in Seq(Pairs)
  <2> HIDE DEF p, Q, R, c
  <2>1. T = (<<p>> \o Q) \o R /\ <<p>> \in Seq(Pairs)
    BY <1>1, <1>4
  <2>2. <<p>> \o Q \in Seq(Pairs)
    BY <1>5, <2>1, ConcatProperties
  <2>3. p \in ToSet(<<p>>)
    BY DEF ToSet
  <2>4. p \in ToSet(<<p>> \o Q)
    BY <1>5, <2>1, <2>3, ConcatDistinct
  <2>5. QED
    BY <1>1, <2>1, <2>2, <2>4, ConcatDistinct, ConcatProperties
<1>8. Order = inits \o T
  OBVIOUS
<1> HIDE DEF p, Q, R, c, T
<1>9. p \notin ToSet(inits)
  <2> SUFFICES ASSUME NEW i \in DOMAIN inits, NEW j \in DOMAIN T, inits[i] = T[j] PROVE FALSE
    BY <1>7 DEF ToSet
  <2>1. /\ Len(inits) \in Nat /\ Len(T) \in Nat /\ Len(inits \o T) = Len(inits) + Len(T)
        /\ \A k \in 1 .. Len(inits) : (inits \o T)[k] = inits[k]
        /\ \A k \in 1 .. Len(T) : (inits \o T)[Len(inits) + k] = T[k]
    BY <1>7, PrefixIs
  <2>2. i \in 1 .. Len(inits) /\ j \in 1 .. Len(T) /\ DOMAIN Order = 1 .. Len(Order)
    BY <1>6, <1>7, LenProperties
  <2>3. Order[i] = Order[Len(inits) + j]
    BY <1>8, <2>1, <2>2
  <2>4. i \in DOMAIN Order /\ Len(inits) + j \in DOMAIN Order /\ i # Len(inits) + j
    BY <1>8, <2>1, <2>2
  <2>5. QED
    BY <1>6, <2>3, <2>4 DEF Distinct
<1>10. QED
  BY <1>4, <1>9 DEF p, c

LEMMA InitsMore ==
  ASSUME inits \in Seq(Pairs), NEW p \in Pairs
  PROVE  ToSet(Append(inits, p)) = ToSet(inits) \cup {p}
<1> DEFINE t == Append(inits, p)
<1>1. /\ Len(inits) \in Nat /\ DOMAIN inits = 1 .. Len(inits) /\ DOMAIN t = 1 .. Len(inits) + 1
      /\ t[Len(inits) + 1] = p /\ \A i \in 1 .. Len(inits) : t[i] = inits[i]
  BY AppendProperties, LenProperties
<1> HIDE DEF t
<1>2. \A i \in DOMAIN t : i \in DOMAIN inits \/ i = Len(inits) + 1
  BY <1>1
<1>3. ToSet(t) \subseteq ToSet(inits) \cup {p}
  BY <1>1, <1>2 DEF ToSet
<1>4. ToSet(inits) \cup {p} \subseteq ToSet(t)
  BY <1>1 DEF ToSet
<1>5. QED
  BY <1>3, <1>4 DEF t

(* What is filled stays so when more is, and when instances are made.      *)
LEMMA FilledMore ==
  ASSUME Ongoing, Filled(sharedMem, objects, ToSet(inits)), More(objects, objects'), UNCHANGED <<sharedMem, inits>>
  PROVE  Filled(sharedMem', objects', ToSet(inits'))
<1>1. \A init, v, mem, done : Fills(init, v, mem, objects, done) => Fills(init, v, mem, objects', done)
  BY DEF Fills, More
<1>2. QED
  BY <1>1 DEF Filled

LEMMA StoreFilled ==
  ASSUME Ongoing, inits \in Seq(Pairs), NEW under \in Seq(CallsNow), under # <<>>, inits \o Remains(under) = Order,
         Head(under).of # "classes", Head(under).left # <<>>, Head(under).of = "shared" => Head(under).ready,
         Filled(sharedMem, objects, ToSet(inits)),
         NEW v, Store(v, under),
         Head(under).of = "shared" =>
           Fills(InitOf(Head(under).class, Head(Head(under).left)), v, sharedMem, objects, ToSet(inits))
  PROVE  Filled(sharedMem', objects', ToSet(inits'))
<1> DEFINE c == Head(under)
           f == Head(c.left)
<1>1. c \in CallsNow /\ InitsField(c) /\ ProgramSound
  BY HeadAndTail DEF InitsField, Ongoing
<1>2. CASE c.of = "shared"
  <2> DEFINE d == c.class
  <2>1. /\ sharedMem' = MemWith(sharedMem, d, Index(d, f), v) /\ objects' = objects
        /\ inits' = Append(inits, <<d, f>>)
    BY <1>2 DEF Store, MemWith
  <2>2. c \in SharedCalls(DOMAIN sharedMem) /\ f \in NamesOf(d, TRUE)
    BY <1>1, <1>2, CallKinds, AtIsOf DEF CallsNow
  <2>3. d \in DOMAIN sharedMem
    BY <1>2, <2>2 DEF SharedCalls
  <2>4. <<d, f>> \in Pairs /\ <<d, f>> \notin ToSet(inits)
    BY <1>2, NextIsNew
  <2>5. Fills(InitOf(d, f), v, sharedMem, objects, ToSet(inits))
    BY <1>2
  <2> HIDE DEF c, f, d
  <2>6. ToSet(inits') = ToSet(inits) \cup {<<d, f>>}
    BY <2>1, <2>4, InitsMore
  <2>7. /\ DOMAIN sharedMem' = DOMAIN sharedMem /\ sharedMem'[d][Index(d, f)] = v
        /\ \A e \in DOMAIN sharedMem : \A g \in NamesOf(e, TRUE) :
             <<e, g>> # <<d, f>> => sharedMem'[e][Index(e, g)] = sharedMem[e][Index(e, g)]
    BY <2>1, <2>2, <2>3, SharedStored
  <2>8. \A x \in ToSet(inits) : /\ x[1] \in DOMAIN sharedMem /\ x[2] \in NamesOf(x[1], TRUE) /\ x = <<x[1], x[2]>>
                                /\ sharedMem'[x[1]][Index(x[1], x[2])] = sharedMem[x[1]][Index(x[1], x[2])]
    <3> SUFFICES ASSUME NEW x \in ToSet(inits)
                 PROVE  /\ x[1] \in DOMAIN sharedMem /\ x[2] \in NamesOf(x[1], TRUE) /\ x = <<x[1], x[2]>>
                        /\ sharedMem'[x[1]][Index(x[1], x[2])] = sharedMem[x[1]][Index(x[1], x[2])]
      OBVIOUS
    <3>1. x[1] \in DOMAIN sharedMem /\ x[2] \in NamesOf(x[1], TRUE)
      BY DEF Filled
    <3>2. x \in Pairs
      BY ElementOfSeq, LenProperties DEF ToSet
    <3>3. x = <<x[1], x[2]>>
      BY <3>2 DEF Pairs
    <3>4. <<x[1], x[2]>> # <<d, f>>
      BY <2>4, <3>3
    <3>5. QED
      BY <2>7, <3>1, <3>3, <3>4
  <2>9. ASSUME NEW init, NEW w, Fills(init, w, sharedMem, objects, ToSet(inits))
        PROVE  Fills(init, w, sharedMem', objects', ToSet(inits'))
    <3>1. <<init.class, init.field>> \in ToSet(inits) =>
             sharedMem'[init.class][Index(init.class, init.field)] = sharedMem[init.class][Index(init.class, init.field)]
      <4>1. \A a, b : <<a, b>> \in ToSet(inits) => sharedMem'[a][Index(a, b)] = sharedMem[a][Index(a, b)]
        BY <2>8
      <4>2. QED
        BY <4>1
    <3>2. QED
      BY <2>1, <2>6, <2>9, <3>1 DEF Fills
  <2>10. ASSUME NEW x \in ToSet(inits')
         PROVE  /\ x[1] \in DOMAIN sharedMem' /\ x[2] \in NamesOf(x[1], TRUE)
                /\ Fills(InitOf(x[1], x[2]), sharedMem'[x[1]][Index(x[1], x[2])], sharedMem', objects', ToSet(inits'))
    <3>1. CASE x \in ToSet(inits)
      <4>1. Fills(InitOf(x[1], x[2]), sharedMem[x[1]][Index(x[1], x[2])], sharedMem, objects, ToSet(inits))
        BY <3>1 DEF Filled
      <4>2. Fills(InitOf(x[1], x[2]), sharedMem[x[1]][Index(x[1], x[2])], sharedMem', objects', ToSet(inits'))
        BY <2>9, <4>1
      <4>3. QED
        BY <2>7, <2>8, <3>1, <4>2
    <3>2. CASE x = <<d, f>>
      <4>1. Fills(InitOf(d, f), v, sharedMem', objects', ToSet(inits'))
        BY <2>5, <2>9
      <4>2. QED
        BY <2>2, <2>3, <2>7, <3>2, <4>1
    <3>3. QED
      BY <2>6, <3>1, <3>2
  <2>11. ASSUME NEW e \in DOMAIN sharedMem', NEW g \in NamesOf(e, TRUE), <<e, g>> \notin ToSet(inits')
         PROVE  sharedMem'[e][Index(e, g)] = Garbage
    <3>1. e \in DOMAIN sharedMem /\ <<e, g>> # <<d, f>> /\ <<e, g>> \notin ToSet(inits)
      BY <2>6, <2>7, <2>11
    <3>2. sharedMem[e][Index(e, g)] = Garbage
      BY <3>1 DEF Filled
    <3>3. QED
      BY <2>7, <3>1, <3>2
  <2>12. QED
    BY <2>10, <2>11 DEF Filled
<1>3. CASE c.of # "shared"
  <2>1. c.of = "instance" /\ c \in InstanceCalls(objects) /\ f \in NamesOf(c.class, FALSE)
    BY <1>1, <1>3, CallKinds, AtIsOf DEF CallsNow, InitsField
  <2>2. objects' = MadeWith(objects, c.me, Index(c.class, f), v) /\ UNCHANGED <<sharedMem, inits>>
    BY <1>3 DEF Store, MadeWith
  <2>3. More(objects, objects')
    <3>1. \A o \in DOMAIN objects : objects[o] \in [class : Class, fields : Arrays]
      BY ElementOfSeq, LenProperties DEF Ongoing, DataSound, MadeSo
    <3>2. DOMAIN objects' = DOMAIN objects /\ \A o \in DOMAIN objects : objects'[o].class = objects[o].class
      BY <2>2, <3>1 DEF MadeWith
    <3>3. QED
      BY <3>2 DEF More
  <2>4. QED
    BY <2>2, <2>3, FilledMore
<1>4. QED
  BY <1>2, <1>3

(* No field of a class is initialised before its array is made.            *)
LEMMA ClassIsNew ==
  ASSUME Ongoing, InTurn, AddClass, Call.class \notin shape.templates
  PROVE  \A f \in NamesOf(Call.class, TRUE) : <<Call.class, f>> \notin ToSet(inits)
<1> DEFINE c == Call.class
           names == NamesOf(c, TRUE)
<1>1. calls # <<>> /\ Call.of = "shared" /\ ~Call.ready
  BY DEF AddClass, In
<1>2. Call \in SharedCalls(DOMAIN sharedMem)
  BY <1>1, CallIs, CallKinds DEF CallsNow
<1>3. c \in Class /\ Call.left \in Seq(Field) /\ Call.left = ByName(names)
  BY <1>1, <1>2 DEF SharedCalls
<1>4. ASSUME NEW f \in names PROVE <<c, f>> \in ToSet(Todo(Call))
  <2>1. names \subseteq Field
    BY DEF NamesOf
  <2> HIDE DEF names
  <2>2. PICK i \in 1 .. Len(ByName(names)) : ByName(names)[i] = f
    BY <1>4, <2>1, ByNameIs
  <2>3. i \in DOMAIN Call.left /\ Call.left[i] = f
    BY <1>3, <2>2, LenProperties
  <2>4. Todo(Call) = PairsOf(c, Call.left)
    BY <1>1 DEF Todo
  <2>5. QED
    BY <2>3, <2>4 DEF PairsOf, ToSet
<1>5. /\ inits \in Seq(Pairs) /\ Todo(Call) \in Seq(Pairs) /\ Remains(Rest) \in Seq(Pairs)
      /\ Order = inits \o (Todo(Call) \o Remains(Rest)) /\ Distinct(Order)
  BY <1>1, CallRemains, OrderIs DEF InTurn
<1> DEFINE A == inits
           B == Todo(Call)
           T == B \o Remains(Rest)
<1> HIDE DEF B
<1>6. T \in Seq(Pairs) /\ \A x : x \in ToSet(B) => x \in ToSet(T)
  BY <1>5, ConcatDistinct, ConcatProperties DEF B
<1>7. A \in Seq(Pairs) /\ Order = A \o T
  BY <1>5 DEF B
<1> HIDE DEF T, A
<1>8. ASSUME NEW i \in DOMAIN A, NEW j \in DOMAIN T, A[i] = T[j] PROVE FALSE
  <2>1. /\ Len(A) \in Nat /\ Len(T) \in Nat /\ Len(A \o T) = Len(A) + Len(T)
        /\ \A k \in 1 .. Len(A) : (A \o T)[k] = A[k]
        /\ \A k \in 1 .. Len(T) : (A \o T)[Len(A) + k] = T[k]
    BY <1>6, <1>7, PrefixIs
  <2>2. i \in 1 .. Len(A) /\ j \in 1 .. Len(T)
    BY <1>6, <1>7, <1>8, LenProperties
  <2>3. Order[i] = Order[Len(A) + j]
    BY <1>7, <1>8, <2>1, <2>2
  <2>4. DOMAIN Order = 1 .. Len(A) + Len(T)
    BY <1>6, <1>7, <2>1, LenProperties, ConcatProperties
  <2>5. i \in DOMAIN Order /\ Len(A) + j \in DOMAIN Order /\ i # Len(A) + j
    BY <2>1, <2>2, <2>4
  <2>6. QED
    BY <1>5, <2>3, <2>5 DEF Distinct
<1>9. QED
  BY <1>4, <1>6, <1>8 DEF ToSet, A, B

LEMMA AddClassFilled ==
  ASSUME Ongoing, InTurn, AddClass, Filled(sharedMem, objects, ToSet(inits))
  PROVE  Filled(sharedMem', objects', ToSet(inits'))
<1> DEFINE c == Call.class
           done == ToSet(inits)
<1>1. calls # <<>> /\ Call.of = "shared" /\ ~Call.ready /\ objects' = objects /\ inits' = inits
  BY DEF AddClass, In
<1>2. CASE c \in shape.templates
  BY <1>1, <1>2 DEF AddClass
<1>3. CASE c \notin shape.templates
  <2>1. Call \in SharedCalls(DOMAIN sharedMem)
    BY <1>1, CallIs, CallKinds DEF CallsNow
  <2>2. c \in Class /\ Call.left = ByName(NamesOf(c, TRUE))
    BY <1>1, <2>1 DEF SharedCalls
  <2>3. \A f \in NamesOf(c, TRUE) : Index(c, f) \in 0 .. Len(Call.left) - 1
    <3>1. Len(ByName(NamesOf(c, TRUE))) = Cardinality(NamesOf(c, TRUE))
      BY NamesFinite, ByNameIs
    <3>2. QED
      BY <2>2, <3>1, IndexFits DEF Ongoing
  <2>4. sharedMem' = [d \in DOMAIN sharedMem \cup {c} |->
          IF d = c THEN [i \in 0 .. Len(Call.left) - 1 |-> Garbage] ELSE sharedMem[d]]
    BY <1>3 DEF AddClass
  <2>5. \A f \in NamesOf(c, TRUE) : <<c, f>> \notin done
    BY <1>3, ClassIsNew
  <2>6. /\ DOMAIN sharedMem' = DOMAIN sharedMem \cup {c} /\ \A f \in NamesOf(c, TRUE) : sharedMem'[c][Index(c, f)] = Garbage
        /\ \A d \in DOMAIN sharedMem : d # c => sharedMem'[d] = sharedMem[d]
    BY <2>3, <2>4
  <2> HIDE DEF c, done
  <2>7. \A a, b : <<a, b>> \in done => a # c /\ a \in DOMAIN sharedMem /\ b \in NamesOf(a, TRUE)
    <3> SUFFICES ASSUME NEW a, NEW b, <<a, b>> \in done
                 PROVE  a # c /\ a \in DOMAIN sharedMem /\ b \in NamesOf(a, TRUE)
      OBVIOUS
    <3>1. a \in DOMAIN sharedMem /\ b \in NamesOf(a, TRUE)
      BY DEF Filled, done
    <3>2. a = c => b \in NamesOf(c, TRUE) /\ <<c, b>> \in done
      BY <3>1
    <3>3. QED
      BY <2>5, <3>1, <3>2
  <2>8. \A x \in done : x = <<x[1], x[2]>>
    BY ElementOfSeq, LenProperties DEF InTurn, Pairs, ToSet, done
  <2>9. ASSUME NEW init, NEW v, Fills(init, v, sharedMem, objects, done)
        PROVE  Fills(init, v, sharedMem', objects', done)
    BY <1>1, <2>6, <2>7, <2>9 DEF Fills
  <2>10. ASSUME NEW x \in done
         PROVE  /\ x[1] \in DOMAIN sharedMem' /\ x[2] \in NamesOf(x[1], TRUE)
                /\ Fills(InitOf(x[1], x[2]), sharedMem'[x[1]][Index(x[1], x[2])], sharedMem', objects', done)
    <3>1. Fills(InitOf(x[1], x[2]), sharedMem[x[1]][Index(x[1], x[2])], sharedMem, objects, done)
      BY DEF Filled, done
    <3>2. x[1] # c /\ x[1] \in DOMAIN sharedMem /\ x[2] \in NamesOf(x[1], TRUE)
      BY <2>7, <2>8
    <3>3. sharedMem'[x[1]] = sharedMem[x[1]] /\ x[1] \in DOMAIN sharedMem'
      BY <2>6, <3>2
    <3>4. QED
      BY <2>9, <3>1, <3>2, <3>3
  <2>11. ASSUME NEW d \in DOMAIN sharedMem', NEW f \in NamesOf(d, TRUE), <<d, f>> \notin done
         PROVE  sharedMem'[d][Index(d, f)] = Garbage
    <3>1. CASE d = c
      BY <2>6, <3>1
    <3>2. CASE d # c
      <4>1. d \in DOMAIN sharedMem /\ sharedMem'[d] = sharedMem[d]
        BY <2>6, <3>2
      <4>2. QED
        BY <2>11, <4>1 DEF Filled, done
    <3>3. QED
      BY <3>1, <3>2
  <2>12. QED
    BY <1>1, <2>10, <2>11 DEF Filled, done
<1>4. QED
  BY <1>2, <1>3

LEMMA StoreTopFilled ==
  ASSUME Ongoing, InTurn, InField, Filled(sharedMem, objects, ToSet(inits)), NEW v, Store(v, calls),
         Fills(Source, v, sharedMem, objects, ToSet(inits))
  PROVE  Filled(sharedMem', objects', ToSet(inits'))
<1>1. calls \in Seq(CallsNow) /\ calls # <<>>
  BY DEF Ongoing, DataSound, CallsNow, InField
<1>2. Head(calls).of # "classes" /\ Head(calls).left # <<>> /\ (Head(calls).of = "shared" => Head(calls).ready)
  BY DEF InField, Call
<1>3. Fills(InitOf(Head(calls).class, Head(Head(calls).left)), v, sharedMem, objects, ToSet(inits))
  BY DEF Source, Call, AtHead
<1>4. QED
  BY <1>1, <1>2, <1>3, StoreFilled DEF InTurn

(* An instance is of the class its field is to have one of.                *)
LEMMA ConstructFilled ==
  ASSUME Ongoing, InTurn, Tower(calls), Construct, Filled(sharedMem, objects, ToSet(inits))
  PROVE  Filled(sharedMem', objects', ToSet(inits'))
<1> DEFINE a == Head(Rest)
           init == InitOf(a.class, Head(a.left))
<1>1. CASE Store(Call.me, Rest)
  <2>1. /\ Call \in InstanceCalls(objects) /\ Call.of = "instance" /\ Rest \in Seq(CallsNow) /\ Rest # <<>>
        /\ a.of # "classes" /\ a.left # <<>> /\ (a.of = "shared" => a.ready)
    BY ConstructAt DEF InstanceCalls
  <2>2. Tops(Call, Rest)
    BY ConstructAt, TowerPop DEF Call, Rest
  <2>3. Call.class \in Creates(a.class, Head(a.left))
    BY <2>1, <2>2 DEF Tops, MadeFor
  <2>4. (init.kind = "new" \/ init.kind = "default") /\ Call.class = init.class
    BY <2>3 DEF Creates
  <2>5. Call.me \in DOMAIN objects /\ objects[Call.me].class = Call.class
    BY <2>1 DEF InstanceCalls
  <2>6. Fills(init, Call.me, sharedMem, objects, ToSet(inits))
    BY <2>4, <2>5 DEF Fills
  <2>7. inits \in Seq(Pairs) /\ inits \o Remains(Rest) = Order
    <3>1. Todo(Call) = <<>>
      BY <2>1 DEF Todo
    <3>2. calls # <<>>
      BY ConstructAt
    <3>3. Remains(Rest) = Remains(calls)
      BY <3>1, <3>2, CallRemains, ConcatEmptySeq
    <3>4. QED
      BY <3>3 DEF InTurn
  <2> HIDE DEF init
  <2>8. Fills(InitOf(a.class, Head(a.left)), Call.me, sharedMem, objects, ToSet(inits))
    BY <2>6 DEF init
  <2>9. QED
    BY <1>1, <2>1, <2>7, <2>8, StoreFilled
<1>2. CASE UNCHANGED <<calls, sharedMem, objects, inits>>
  BY <1>2
<1>3. QED
  BY <1>1, <1>2, ConstructAt

LEMMA FilledStep ==
  ASSUME Ongoing, InTurn, Tower(calls), Initialising, phase' = "exec", Filled(sharedMem, objects, ToSet(inits))
  PROVE  Filled(sharedMem', objects', ToSet(inits'))
<1>1. CASE SharedInit \/ LeaveList \/ LeaveShared
  BY <1>1 DEF SharedInit, LeaveList, LeaveShared, Return
<1>2. CASE AddClass
  BY <1>2, AddClassFilled
<1>3. CASE InitPlain
  <2>1. ASSUME NEW v, InField, Store(v, calls), (Source.kind = "value" /\ v = Val) \/ Source.kind = "default"
        PROVE  Filled(sharedMem', objects', ToSet(inits'))
    <3>1. Fills(Source, v, sharedMem, objects, ToSet(inits))
      BY <2>1 DEF Fills
    <3>2. QED
      BY <2>1, <3>1, StoreTopFilled
  <2>2. NullByDefault => Source.kind = "default"
    BY DEF NullByDefault
  <2>3. QED
    BY <1>3, <2>1, <2>2 DEF InitPlain
<1>4. CASE ReadShared
  <2> DEFINE v == sharedMem[Source.class][Index(Source.class, Source.field)]
  <2>1. InField /\ Source.kind = "shared" /\ (Store(v, calls) \/ phase' = "crashed")
    BY <1>4 DEF ReadShared
  <2>2. Store(v, calls) /\ Source.class \in DOMAIN sharedMem
    BY <1>4, <2>1 DEF ReadShared
  <2>3. Source.field \in NamesOf(Source.class, TRUE)
    BY <2>1, FieldOf DEF Resolves, Source
  <2>4. Fills(Source, v, sharedMem, objects, ToSet(inits))
    BY <2>1, <2>2, <2>3 DEF Fills, Filled
  <2> HIDE DEF v
  <2>5. QED
    BY <2>1, <2>2, <2>4, StoreTopFilled
<1>5. CASE ReadOwn
  <2> DEFINE v == objects[Call.me].fields[Index(Call.class, Source.field)]
  <2>1. InField /\ Source.kind = "own" /\ Store(v, calls)
    BY <1>5 DEF ReadOwn
  <2>2. Fills(Source, v, sharedMem, objects, ToSet(inits))
    BY <2>1 DEF Fills
  <2> HIDE DEF v
  <2>3. QED
    BY <2>1, <2>2, StoreTopFilled
<1>6. CASE InitDefault \/ InitNew
  <2>1. UNCHANGED <<sharedMem, inits>> /\ \E new : objects' = Append(objects, new)
    BY <1>6 DEF InitDefault, InitNew, CreateInstance
  <2>2. More(objects, objects')
    BY <2>1, ObjectsCount DEF More
  <2>3. QED
    BY <2>1, <2>2, FilledMore
<1>7. CASE Construct
  BY <1>7, ConstructFilled
<1>8. QED
  BY <1>1, <1>2, <1>3, <1>4, <1>5, <1>6, <1>7 DEF Initialising

FilledSoFar == phase \in {"exec", "called"} => Filled(sharedMem, objects, ToSet(inits))

LEMMA FilledIs ==
  UNCHANGED program /\ Filled(sharedMem', objects', ToSet(inits')) => Filled(sharedMem, objects, ToSet(inits))'
<1> SUFFICES ASSUME UNCHANGED program, Filled(sharedMem', objects', ToSet(inits'))
             PROVE  Filled(sharedMem, objects, ToSet(inits))'
  OBVIOUS
<1>1. \A init, v : Fills(init, v, sharedMem, objects, ToSet(inits))' <=> Fills(init, v, sharedMem', objects', ToSet(inits'))
  BY SameFields DEF Fills
<1>2. QED
  BY <1>1, SameFields DEF Filled

LEMMA FilledInit == Init => FilledSoFar
BY DEF Init, FilledSoFar

LEMMA FilledNext == StartInv /\ InOrder /\ DefinedSoFar /\ FilledSoFar /\ [Next]_vars => FilledSoFar'
<1> SUFFICES ASSUME StartInv, InOrder, DefinedSoFar, FilledSoFar, [Next]_vars, phase' \in {"exec", "called"}
             PROVE  Filled(sharedMem, objects, ToSet(inits))'
  BY DEF FilledSoFar
<1>1. CASE ReadOptions \/ AddField
  BY <1>1 DEF ReadOptions, AddField, Stop
<1>2. CASE Resolve
  <2>1. phase = "parse" /\ UNCHANGED <<program, sharedMem, objects, inits>>
    BY <1>2 DEF Resolve, Stop, work
  <2>2. sharedMem' = <<>> /\ objects' = <<>> /\ inits' = <<>>
    BY <2>1 DEF StartInv, StartSound, Blank
  <2>3. ToSet(inits') = {} /\ DOMAIN sharedMem' = {}
    BY <2>2 DEF ToSet
  <2>4. Filled(sharedMem', objects', ToSet(inits'))
    BY <2>3 DEF Filled
  <2>5. QED
    BY <2>1, <2>4, FilledIs
<1>3. CASE Initialising
  <2>1. phase = "exec" /\ phase' = "exec" /\ UNCHANGED program
    BY <1>3, InitialisingIs
  <2>2. InTurn /\ Ongoing /\ Tower(calls) /\ Filled(sharedMem, objects, ToSet(inits))
    BY <2>1 DEF InOrder, InTurn, StartInv, StartSound, Started, Ongoing, DefinedSoFar, FilledSoFar
  <2>3. QED
    BY <1>3, <2>1, <2>2, FilledStep, FilledIs
<1>4. CASE CallMain \/ UNCHANGED vars
  <2>1. phase \in {"exec", "called"} /\ UNCHANGED <<program, sharedMem, objects, inits>>
    BY <1>4 DEF CallMain, Stop, work, vars
  <2>2. QED
    BY <2>1, FilledIs DEF FilledSoFar
<1>5. QED
  BY <1>1, <1>2, <1>3, <1>4, NextIs

(* When main is called every shared field holds what its initialiser says. *)
LEMMA FilledAtMain ==
  ASSUME StartInv, InOrder, FilledSoFar, phase = "called", shape.templates = {},
         NEW c \in Class, NEW f \in NamesOf(c, TRUE)
  PROVE  LET init  == InitOf(c, f)
             there == sharedMem[c][Index(c, f)]
         IN  /\ init.kind = "value" => there = Val
             /\ init.kind = "new"   => there \in DOMAIN objects /\ objects[there].class = init.class
             /\ init.kind = "shared" /\ there # Garbage => there = sharedMem[init.class][Index(init.class, init.field)]
<1>1. inits = Order /\ shape \in Shapes
  BY InOrderIs DEF InitsInOrder, StartInv, ProgramSound
<1>2. <<c, f>> \in ToSet(inits)
  BY <1>1, OrderHasAll
<1>3. Fills(InitOf(c, f), sharedMem[c][Index(c, f)], sharedMem, objects, ToSet(inits))
  BY <1>2 DEF FilledSoFar, Filled
<1>4. QED
  BY <1>3 DEF Fills
=============================================================================
