---------------------------- MODULE FrBNames_proofs ----------------------------
(***************************************************************************)
(* Proofs about the names of a program, whatever its classes are: what a   *)
(* name denotes, and which of the functions with one name a call takes.    *)
(***************************************************************************)
EXTENDS FrBNames, WellFoundedInduction, FiniteSetTheorems, SequenceTheorems, TLAPS

(* Every set of natural numbers that is not empty has a least element. *)
LEMMA LeastElement ==
  ASSUME NEW S, S \subseteq Nat, S # {}
  PROVE  \E m \in S : \A n \in S : m <= n
<1> DEFINE less == {p \in Nat \X Nat : p[1] < p[2]}
<1>1. IsWellFoundedOn(less, Nat)
  BY NatLessThanWellFounded DEF OpToRel
<1>2. \A m, n \in Nat : <<n, m>> \notin less => m <= n
  OBVIOUS
<1> HIDE DEF less
<1>3. \E m \in S : \A n \in S : <<n, m>> \notin less
  BY <1>1, WFMin
<1>4. QED
  BY <1>2, <1>3

(* Induction: a set with 0 and the successor of each member has them all. *)
LEMMA SetInduction ==
  ASSUME NEW S, 0 \in S, \A n \in Nat : n \in S => n + 1 \in S
  PROVE  \A n \in Nat : n \in S
<1> DEFINE missing == {n \in Nat : n \notin S}
<1> SUFFICES ASSUME missing # {} PROVE FALSE
  OBVIOUS
<1>1. PICK m \in missing : \A n \in missing : m <= n
  BY LeastElement
<1>2. m - 1 \in Nat /\ m - 1 \notin missing
  BY <1>1
<1>3. QED
  BY <1>1, <1>2
-----------------------------------------------------------------------------
(* The least and the greatest element of a set, when they are known.       *)
LEMMA LeastIs ==
  ASSUME NEW S, S \subseteq Nat, NEW k \in S, \A i \in S : k <= i
  PROVE  Min(S) = k
<1>1. Min(S) \in S /\ \A i \in S : Min(S) <= i
  BY DEF Min
<1>2. Min(S) \in Nat /\ k \in Nat
  BY <1>1
<1>3. QED
  BY <1>1, <1>2

LEMMA GreatestIs ==
  ASSUME NEW S, S \subseteq Nat, NEW k \in S, \A i \in S : i <= k
  PROVE  Max(S) = k
<1>1. Max(S) \in S /\ \A i \in S : Max(S) >= i
  BY DEF Max
<1>2. Max(S) \in Nat /\ k \in Nat
  BY <1>1
<1>3. QED
  BY <1>1, <1>2

(* The loop of findOverload: what it has found before each function.       *)
Better(best, deg, i) == IF best[i - 1][1] # Match /\ deg[i] >= best[i - 1][1] THEN <<deg[i], i>> ELSE best[i - 1]

Upto(best, deg, m) == \A i \in 0 .. m : best[i] = IF i = 0 THEN <<NoMatch, 0>> ELSE Better(best, deg, i)

Searches(best, deg, n) == best = [i \in 0 .. n |-> IF i = 0 THEN <<NoMatch, 0>> ELSE Better(best, deg, i)]

LEMMA SearchExists ==
  ASSUME NEW n \in Nat, NEW deg
  PROVE  \E best : Searches(best, deg, n)
<1> DEFINE Good == {m \in Nat : \E w : Upto(w, deg, m)}
<1>1. 0 \in Good
  <2>1. Upto([i \in {0} |-> <<NoMatch, 0>>], deg, 0)
    BY DEF Upto
  <2>2. QED
    BY <2>1
<1>2. ASSUME NEW m \in Nat, m \in Good PROVE m + 1 \in Good
  <2>1. PICK w : Upto(w, deg, m)
    BY <1>2
  <2> DEFINE v == [i \in 0 .. m + 1 |-> IF i = m + 1 THEN Better(w, deg, m + 1) ELSE w[i]]
  <2>2. \A i \in 0 .. m : v[i] = w[i]
    OBVIOUS
  <2>3. v[m + 1] = Better(w, deg, m + 1)
    OBVIOUS
  <2> HIDE DEF v
  <2>4. ASSUME NEW i \in 0 .. m + 1 PROVE v[i] = IF i = 0 THEN <<NoMatch, 0>> ELSE Better(v, deg, i)
    <3>1. CASE i = m + 1
      <4>1. i # 0 /\ i - 1 \in 0 .. m
        BY <3>1
      <4>2. v[i] = Better(w, deg, i) /\ v[i - 1] = w[i - 1]
        BY <2>2, <2>3, <3>1, <4>1
      <4>3. QED
        BY <4>1, <4>2 DEF Better
    <3>2. CASE i # m + 1
      <4>1. i \in 0 .. m /\ (i # 0 => i - 1 \in 0 .. m)
        BY <3>2
      <4>2. v[i] = w[i] /\ (i # 0 => v[i - 1] = w[i - 1])
        BY <2>2, <4>1
      <4>3. QED
        BY <2>1, <4>1, <4>2 DEF Upto, Better
    <3>3. QED
      BY <3>1, <3>2
  <2>5. QED
    BY <2>4 DEF Upto
<1>3. n \in Good
  <2> HIDE DEF Good
  <2>1. QED
    BY <1>1, <1>2, SetInduction
<1>4. PICK w : Upto(w, deg, n)
  BY <1>3
<1> DEFINE v == [i \in 0 .. n |-> w[i]]
           u == [i \in 0 .. n |-> IF i = 0 THEN <<NoMatch, 0>> ELSE Better(v, deg, i)]
<1>5. ASSUME NEW i \in 0 .. n PROVE v[i] = u[i]
  <2>1. i # 0 => i - 1 \in 0 .. n
    OBVIOUS
  <2>2. v[i] = w[i] /\ (i # 0 => v[i - 1] = w[i - 1])
    BY <2>1
  <2>3. QED
    BY <1>4, <2>1, <2>2 DEF Upto, Better
<1>6. v = u
  BY <1>5
<1>7. QED
  BY <1>6 DEF Searches

(* What is found among the first k: nothing fits, or the one taken fits    *)
(* best and is the last of those, or the first that fits exactly.          *)
FoundAmong(b, deg, k) ==
  /\ b[1] \in NoMatch .. Match
  /\ b[1] = NoMatch => \A j \in 1 .. k : deg[j] = NoMatch
  /\ b[1] # NoMatch => b[2] \in 1 .. k /\ deg[b[2]] = b[1] /\ \A j \in 1 .. k : deg[j] <= b[1]
  /\ b[1] = Match => \A j \in 1 .. k : j < b[2] => deg[j] # Match
  /\ b[1] \notin {NoMatch, Match} => \A j \in 1 .. k : j > b[2] => deg[j] # b[1]

LEMMA SearchFinds ==
  ASSUME NEW n \in Nat, NEW deg \in [1 .. n -> NoMatch .. Match], NEW best, Searches(best, deg, n)
  PROVE  FoundAmong(best[n], deg, n)
<1> DEFINE Good == {k \in Nat : k <= n => FoundAmong(best[k], deg, k)}
<1>1. 0 \in Good
  BY DEF Searches, FoundAmong, NoMatch, Match
<1>2. ASSUME NEW k \in Nat, k \in Good PROVE k + 1 \in Good
  <2> SUFFICES ASSUME k + 1 <= n PROVE FoundAmong(best[k + 1], deg, k + 1)
    OBVIOUS
  <2> DEFINE b == best[k]
             c == best[k + 1]
             d == deg[k + 1]
  <2>1. FoundAmong(b, deg, k)
    BY <1>2
  <2>2. c = IF b[1] # Match /\ d >= b[1] THEN <<d, k + 1>> ELSE b
    <3>1. k + 1 \in 0 .. n /\ k + 1 # 0 /\ (k + 1) - 1 = k
      OBVIOUS
    <3>2. best[k + 1] = Better(best, deg, k + 1)
      BY <3>1 DEF Searches
    <3>3. QED
      BY <3>1, <3>2 DEF Better
  <2>3. d \in NoMatch .. Match /\ \A j \in 1 .. k : deg[j] \in NoMatch .. Match
    BY DEF NoMatch, Match
  <2>4. \A j \in 1 .. k + 1 : j \in 1 .. k \/ j = k + 1
    OBVIOUS
  <2> HIDE DEF b, c
  <2>5. CASE b[1] # Match /\ d >= b[1]
    <3>1. c[1] = d /\ c[2] = k + 1
      BY <2>2, <2>5
    <3>2. \A j \in 1 .. k : deg[j] <= b[1]
      BY <2>1, <2>3 DEF FoundAmong, NoMatch, Match
    <3>3. QED
      BY <2>1, <2>3, <2>4, <2>5, <3>1, <3>2 DEF FoundAmong, NoMatch, Match, c
  <2>6. CASE ~(b[1] # Match /\ d >= b[1])
    <3>1. c = b
      BY <2>2, <2>6
    <3>2. d <= b[1] /\ b[1] # NoMatch
      BY <2>1, <2>3, <2>6 DEF FoundAmong, NoMatch, Match
    <3>3. d # b[1] \/ b[1] = Match
      BY <2>1, <2>3, <2>6 DEF FoundAmong, NoMatch, Match
    <3>4. b[2] < k + 1
      BY <2>1, <3>2 DEF FoundAmong
    <3>5. FoundAmong(b, deg, k + 1)
      BY <2>1, <2>3, <2>4, <3>2, <3>3, <3>4 DEF FoundAmong, NoMatch, Match
    <3>6. QED
      BY <3>1, <3>5 DEF c
  <2>7. QED
    BY <2>5, <2>6
<1>3. \A k \in Nat : k \in Good
  <2> HIDE DEF Good
  <2>1. QED
    BY <1>1, <1>2, SetInduction
<1>4. QED
  BY <1>3

LEMMA DegreeIs ==
  ASSUME NEW fn, NEW args
  PROVE  Degree(fn, args) \in NoMatch .. Match
BY DEF Degree, NoMatch, WithConv, WithParamArray, WithOpt, Match

(* A call takes an overload that fits best, of the exact ones the first    *)
(* and of the others the last, among functions of any number with any      *)
(* parameters (findOverload): the search stops at the first exact match    *)
(* and else goes on past its equals.                                       *)
THEOREM OverloadTaken ==
  ASSUME NEW S, NEW fns \in Seq(S), NEW args
  PROVE  TakesBest(fns, args)
<1> DEFINE n   == Len(fns)
           deg == [i \in DOMAIN fns |-> Degree(fns[i], args)]
           loop == CHOOSE best : best = [i \in 0 .. Len(fns) |->
                     IF i = 0 THEN <<NoMatch, 0>>
                     ELSE LET d == Degree(fns[i], args)
                          IN  IF best[i - 1][1] # Match /\ d >= best[i - 1][1] THEN <<d, i>> ELSE best[i - 1]]
           found == loop[n]
<1>1. n \in Nat /\ DOMAIN fns = 1 .. n
  BY LenProperties
<1>2. deg \in [1 .. n -> NoMatch .. Match] /\ \A i \in 1 .. n : deg[i] = Degree(fns[i], args)
  BY <1>1, DegreeIs
<1>3. Searches(loop, deg, n)
  <2>1. PICK w : Searches(w, deg, n)
    BY <1>1, SearchExists
  <2>2. ASSUME NEW best
        PROVE  Searches(best, deg, n) <=>
               best = [i \in 0 .. Len(fns) |->
                     IF i = 0 THEN <<NoMatch, 0>>
                     ELSE LET d == Degree(fns[i], args)
                          IN  IF best[i - 1][1] # Match /\ d >= best[i - 1][1] THEN <<d, i>> ELSE best[i - 1]]
    <3>1. \A i \in 0 .. n : i # 0 => deg[i] = Degree(fns[i], args)
      BY <1>1
    <3>2. QED
      BY ONLY <1>1, <3>1 DEF Searches, Better
  <2>3. \E best : best = [i \in 0 .. Len(fns) |->
                     IF i = 0 THEN <<NoMatch, 0>>
                     ELSE LET d == Degree(fns[i], args)
                          IN  IF best[i - 1][1] # Match /\ d >= best[i - 1][1] THEN <<d, i>> ELSE best[i - 1]]
    BY <2>1, <2>2
  <2>4. QED
    BY <2>2, <2>3
<1>4. FindOverload(fns, args) = IF found[1] = NoMatch THEN NoFunction ELSE fns[found[2]]
  BY DEF FindOverload
<1>5. FoundAmong(found, deg, n)
  BY <1>1, <1>2, <1>3, SearchFinds
<1> HIDE DEF found, n
<1> DEFINE best == {i \in DOMAIN fns : deg[i] # NoMatch /\ \A j \in DOMAIN fns : deg[j] <= deg[i]}
           first == {i \in best : deg[i] = Match}
           chosen == FindOverload(fns, args)
<1> DEFINE Three == /\ best = {} => ~IsFunction(chosen)
                    /\ first # {} => chosen = fns[Min(first)]
                    /\ best # {} /\ first = {} => chosen = fns[Max(best)]
<1>6. Three => TakesBest(fns, args)
  BY DEF TakesBest
<1> HIDE DEF deg
<1>7. CASE found[1] = NoMatch
  <2>1. best = {} /\ chosen = NoFunction
    BY <1>1, <1>4, <1>5, <1>7 DEF FoundAmong
  <2>2. QED
    BY <1>6, <2>1 DEF IsFunction, NoFunction
<1>8. CASE found[1] # NoMatch
  <2> DEFINE k == found[2]
  <2>1. /\ k \in 1 .. n /\ deg[k] = found[1] /\ \A j \in 1 .. n : deg[j] <= deg[k]
        /\ chosen = fns[k]
    BY <1>4, <1>5, <1>8 DEF FoundAmong
  <2>2. k \in best
    BY <1>1, <1>8, <2>1
  <2>3. \A i \in best : i \in 1 .. n /\ deg[i] = deg[k]
    BY <1>1, <1>2, <2>1 DEF NoMatch, Match
  <2>4. CASE deg[k] = Match
    <3>1. k \in first /\ \A i \in first : k <= i
      BY <1>1, <1>5, <2>1, <2>2, <2>3, <2>4 DEF FoundAmong
    <3>2. Min(first) = k
      <4> HIDE DEF first, best, k
      <4>1. first \subseteq Nat /\ k \in first /\ \A i \in first : k <= i
        BY <1>1, <2>3, <3>1 DEF first, best
      <4>2. QED
        BY ONLY <4>1, LeastIs
    <3>3. QED
      BY <1>6, <2>1, <2>2, <3>1, <3>2
  <2>5. CASE deg[k] # Match
    <3>1. first = {} /\ \A i \in best : i <= k
      BY <1>1, <1>5, <1>8, <2>1, <2>2, <2>3, <2>5 DEF FoundAmong
    <3>2. Max(best) = k
      <4> HIDE DEF best, k
      <4>1. best \subseteq Nat /\ k \in best /\ \A i \in best : i <= k
        BY <1>1, <2>2, <2>3, <3>1 DEF best
      <4>2. QED
        BY ONLY <4>1, GreatestIs
    <3>3. QED
      BY <1>6, <2>1, <2>2, <3>1, <3>2
  <2>6. QED
    BY <2>4, <2>5
<1>9. QED
  BY <1>7, <1>8
-----------------------------------------------------------------------------
(* The classes of a program, which stay. *)
ClassesSound == ProgramGiven /\ WorldSound(world)

Sorted(fns) ==
  fns \in Seq(Functions) /\ \A i, j \in DOMAIN fns : i < j => fns[i].name <= fns[j].name

(* In the order of the names, those below a name come first. *)
LEMMA BelowIs ==
  ASSUME NEW fns, Sorted(fns), NEW name \in Int
  PROVE  \E k \in 0 .. Len(fns) :
           /\ Cardinality({i \in DOMAIN fns : fns[i].name < name}) = k
           /\ \A i \in 1 .. Len(fns) : fns[i].name < name <=> i <= k
<1> DEFINE n == Len(fns)
           Low == {i \in DOMAIN fns : fns[i].name < name}
           High == {i \in 1 .. n : ~(fns[i].name < name)} \cup {n + 1}
<1>1. n \in Nat /\ DOMAIN fns = 1 .. n /\ \A i \in 1 .. n : fns[i].name \in Int
  <2>1. n \in Nat /\ DOMAIN fns = 1 .. n /\ \A i \in 1 .. n : fns[i] \in Functions
    BY LenProperties, ElementOfSeq DEF Sorted
  <2>2. QED
    BY <2>1 DEF Functions
<1> HIDE DEF n
<1>2. PICK m \in High : \A i \in High : m <= i
  <2>1. High \subseteq Nat /\ High # {}
    BY <1>1
  <2>2. QED
    BY <2>1, LeastElement
<1>3. m \in 1 .. n + 1
  BY <1>1, <1>2
<1>4. ASSUME NEW i \in 1 .. n PROVE fns[i].name < name <=> i <= m - 1
  <2>1. CASE i < m
    BY <1>1, <1>2, <1>3, <2>1
  <2>2. CASE i = m
    BY <1>1, <1>2, <1>3, <2>2
  <2>3. CASE i > m
    <3>1. m \in 1 .. n /\ ~(fns[m].name < name)
      BY <1>1, <1>2, <1>3, <2>3
    <3>2. fns[m].name <= fns[i].name
      BY <1>1, <2>3, <3>1 DEF Sorted
    <3>3. QED
      BY <1>1, <1>3, <2>3, <3>1, <3>2
  <2>4. QED
    BY <1>1, <1>3, <2>1, <2>2, <2>3
<1>5. Low = 1 .. m - 1
  BY <1>1, <1>3, <1>4
<1>6. Cardinality(1 .. m - 1) = m - 1
  BY <1>1, <1>3, FS_Interval
<1>7. m - 1 \in 0 .. n
  BY <1>1, <1>3
<1>8. QED
  BY <1>4, <1>5, <1>6, <1>7 DEF n

(* The range of a name: from its first function to the one after its last. *)
InRange(fns, name, first, next) ==
  /\ first \in 1 .. next /\ next \in 1 .. Len(fns) + 1
  /\ \A i \in 1 .. Len(fns) : /\ fns[i].name < name <=> i < first
                              /\ fns[i].name <= name <=> i < next

LEMMA RangeIs ==
  ASSUME NEW c, Sorted(classes[c].functions), NEW name \in Int
  PROVE  \E first, next : /\ FindFunctions(c, name) = <<first, next>>
                          /\ InRange(classes[c].functions, name, first, next)
<1> DEFINE fns == classes[c].functions
<1>1. Len(fns) \in Nat /\ \A i \in 1 .. Len(fns) : fns[i].name \in Int
  <2>1. Len(fns) \in Nat /\ \A i \in 1 .. Len(fns) : fns[i] \in Functions
    BY LenProperties, ElementOfSeq DEF Sorted
  <2>2. QED
    BY <2>1 DEF Functions
<1>2. PICK k \in 0 .. Len(fns) :
        /\ Cardinality({i \in DOMAIN fns : fns[i].name < name}) = k
        /\ \A i \in 1 .. Len(fns) : fns[i].name < name <=> i <= k
  BY BelowIs
<1>3. PICK l \in 0 .. Len(fns) :
        /\ Cardinality({i \in DOMAIN fns : fns[i].name < name + 1}) = l
        /\ \A i \in 1 .. Len(fns) : fns[i].name < name + 1 <=> i <= l
  <2> DEFINE then == name + 1
  <2>1. then \in Int
    OBVIOUS
  <2> HIDE DEF then
  <2>2. \E l \in 0 .. Len(fns) :
          /\ Cardinality({i \in DOMAIN fns : fns[i].name < then}) = l
          /\ \A i \in 1 .. Len(fns) : fns[i].name < then <=> i <= l
    BY <2>1, BelowIs
  <2>3. QED
    BY <2>2 DEF then
<1>4. FindFunctions(c, name) = <<1 + k, 1 + l>>
  BY <1>2, <1>3 DEF FindFunctions
<1> HIDE DEF fns
<1>5. k <= l
  <2> SUFFICES ASSUME k > l PROVE FALSE
    BY <1>1
  <2>1. k \in 1 .. Len(fns)
    BY <1>1
  <2>2. fns[k].name < name /\ ~(fns[k].name < name + 1)
    BY <1>1, <1>2, <1>3, <2>1
  <2>3. QED
    BY <1>1, <2>1, <2>2
<1>6. InRange(fns, name, 1 + k, 1 + l)
  <2>1. 1 + k \in 1 .. 1 + l /\ 1 + l \in 1 .. Len(fns) + 1
    BY <1>1, <1>5
  <2>2. ASSUME NEW i \in 1 .. Len(fns)
        PROVE  (fns[i].name < name <=> i < 1 + k) /\ (fns[i].name <= name <=> i < 1 + l)
    BY <1>1, <1>2, <1>3
  <2>3. QED
    BY <2>1, <2>2 DEF InRange
<1>7. QED
  BY <1>4, <1>6 DEF fns

(* What a name denotes when it can only be that of a function. *)
LEMMA FunctionNamedIs ==
  ASSUME NEW c, Sorted(classes[c].functions), NEW name \in Int, NEW context, world.stray \in BOOLEAN
  PROVE  LET fns   == classes[c].functions
             named == {i \in DOMAIN fns : fns[i].name = name}
             n     == FunctionNamed(c, name, context)
         IN  /\ Cardinality(named) = 1 => n.kind = "function" /\ n.of.name = name
             /\ Cardinality(named) > 1 => IsRefused(n)
             /\ named = {} /\ ~IsRefused(n) => world.stray /\ \A g \in ToSet(fns) : name < g.name
<1> DEFINE fns   == classes[c].functions
           named == {i \in DOMAIN fns : fns[i].name = name}
           n     == FunctionNamed(c, name, context)
<1>1. PICK first, next : FindFunctions(c, name) = <<first, next>> /\ InRange(fns, name, first, next)
  BY RangeIs
<1>2. Len(fns) \in Nat /\ DOMAIN fns = 1 .. Len(fns) /\ \A i \in 1 .. Len(fns) : fns[i].name \in Int
  <2>1. Len(fns) \in Nat /\ DOMAIN fns = 1 .. Len(fns) /\ \A i \in 1 .. Len(fns) : fns[i] \in Functions
    BY LenProperties, ElementOfSeq DEF Sorted
  <2>2. QED
    BY <2>1 DEF Functions
<1>3. n = CASE first > Len(fns) -> Refused("ClassNotFound")
            [] first <= Len(fns) /\ next = 1 /\ world.stray -> FunctionEvaluator(fns[1], context)
            [] next - 1 = first -> FunctionEvaluator(fns[first], context)
            [] OTHER -> Refused("FunctionAmbiguity")
  BY <1>1 DEF FunctionNamed
<1>4. \A why : IsRefused(Refused(why))
  BY DEF Refused, Node, IsRefused
<1>5. \A f : LET e == FunctionEvaluator(f, context) IN e.kind = "function" /\ e.of = f /\ ~IsRefused(e)
  BY DEF FunctionEvaluator, Node, IsRefused
<1>6. first \in 1 .. next /\ next \in 1 .. Len(fns) + 1
  BY <1>1 DEF InRange
<1> HIDE DEF n, fns
<1>7. named = first .. next - 1
  BY <1>1, <1>2, <1>6 DEF InRange
<1> HIDE DEF named
<1>8. Cardinality(named) = next - first
  <2>1. first \in Int /\ next \in Int /\ next - 1 \in Int /\ first <= next
    BY <1>2, <1>6
  <2>2. Cardinality(first .. next - 1) = IF first > next - 1 THEN 0 ELSE (next - 1) - first + 1
    BY <2>1, FS_Interval
  <2>3. QED
    BY ONLY <1>7, <2>1, <2>2
<1>9. CASE next - first = 1
  <2>1. n = FunctionEvaluator(fns[first], context)
    BY <1>2, <1>3, <1>6, <1>9
  <2>2. first \in named /\ first \in 1 .. Len(fns) /\ fns[first].name = name
    BY <1>1, <1>2, <1>6, <1>7, <1>9 DEF named
  <2>3. QED
    BY <1>5, <1>8, <1>9, <2>1, <2>2 DEF n, fns, named
<1>10. CASE next - first > 1
  <2>1. first <= Len(fns) /\ next # 1 /\ next - 1 # first
    BY <1>2, <1>6, <1>10
  <2>2. IsRefused(n)
    BY <1>3, <1>4, <2>1
  <2>3. first \in named
    BY <1>2, <1>6, <1>7, <1>10
  <2>4. QED
    BY <1>8, <1>10, <2>2, <2>3 DEF n, fns, named
<1>11. CASE next = first
  <2>1. Cardinality(named) = 0 /\ next - 1 # first
    BY <1>2, <1>6, <1>8, <1>11
  <2>2. ~IsRefused(n) => next = 1 /\ world.stray
    BY <1>3, <1>4, <2>1
  <2>3. next = 1 => \A i \in 1 .. Len(fns) : name < fns[i].name
    BY <1>1, <1>2 DEF InRange
  <2>4. next = 1 => \A g \in ToSet(fns) : name < g.name
    BY <1>2, <2>3 DEF ToSet
  <2>5. QED
    BY <2>1, <2>2, <2>4 DEF n, fns, named
<1>12. QED
  BY <1>2, <1>6, <1>9, <1>10, <1>11

(* A name that is a field or a class. *)
LEMMA FoundIs ==
  ASSUME NEW c, NEW name, NEW context, context.real = c, context.instance \in BOOLEAN,
         HasField(c, name) \/ ClassNamed(name, c) # None
  PROVE  LET n == ResolveIn(context, name)
         IN  /\ n.kind \in {"field", "class"} \/ (HasField(c, name) /\ n.of = "InvalidNonShared")
             /\ n.kind = "field" => HasField(c, name) /\ (context.instance \/ n.of.shared)
             /\ IsRefused(n) => ~context.instance
             /\ ~HasField(c, name) => n.of = ClassNamed(name, c)
<1> DEFINE n    == ResolveIn(context, name)
           kept == IF context.instance THEN <<context>> ELSE <<>>
<1>1. CASE HasField(c, name) /\ (context.instance \/ classes[c].fields[name].shared)
  <2>1. n = FieldEvaluator(c, name, kept)
    BY <1>1 DEF ResolveIn
  <2>2. n.kind = "field" /\ n.of.shared = classes[c].fields[name].shared
    BY <2>1 DEF FieldEvaluator, Node
  <2>3. QED
    BY <1>1, <2>2 DEF IsRefused
<1>2. CASE HasField(c, name) /\ ~(context.instance \/ classes[c].fields[name].shared)
  <2>1. n = Refused("InvalidNonShared")
    BY <1>2 DEF ResolveIn
  <2>2. n.kind = "refused" /\ n.of = "InvalidNonShared"
    BY <2>1 DEF Refused, Node
  <2>3. QED
    BY <1>2, <2>2 DEF IsRefused
<1>3. CASE ~HasField(c, name)
  <2>1. n = ClassEvaluator(ClassNamed(name, c), kept)
    BY <1>3 DEF ResolveIn
  <2>2. n.kind = "class" /\ n.of = ClassNamed(name, c)
    BY <2>1 DEF ClassEvaluator, Node
  <2>3. QED
    BY <1>3, <2>2 DEF IsRefused
<1>4. QED
  BY <1>1, <1>2, <1>3

LEMMA NamesAreInt ==
  ASSUME ClassesSound
  PROVE  Names \subseteq Int /\ \A c \in DOMAIN classes : Sorted(classes[c].functions)
<1>1. \A c \in DOMAIN classes : MembersSound(classes, c)
  BY DEF ClassesSound, WorldSound, ProgramGiven
<1>2. \A c \in DOMAIN classes : Sorted(classes[c].functions)
  BY <1>1 DEF MembersSound, Sorted
<1>3. ASSUME NEW c \in DOMAIN classes PROVE {g.name : g \in ToSet(classes[c].functions)} \subseteq Int
  <2>1. \A i \in DOMAIN classes[c].functions : classes[c].functions[i] \in Functions
    BY <1>2, LenProperties, ElementOfSeq DEF Sorted
  <2>2. \A g \in ToSet(classes[c].functions) : g \in Functions
    BY <2>1 DEF ToSet
  <2>3. QED
    BY <2>2 DEF Functions
<1>4. QED
  BY <1>1, <1>2, <1>3 DEF Names, MembersSound

(* The context a class is, as an instance or not. *)
LEMMA ContextIs ==
  ASSUME NEW kind, NEW class, NEW of, NEW i, NEW c
  PROVE  /\ [Node(kind, c, of, <<>>) EXCEPT !.instance = i].real = c
         /\ [Node(kind, c, of, <<>>) EXCEPT !.instance = i].instance = i
         /\ [Node(kind, class, of, <<>>) EXCEPT !.real = c, !.instance = i].real = c
         /\ [Node(kind, class, of, <<>>) EXCEPT !.real = c, !.instance = i].instance = i
BY DEF Node

LEMMA NamesAreMeant ==
  ASSUME ClassesSound
  PROVE  NamesMeanThemselves
<1> SUFFICES ASSUME NEW c \in DOMAIN classes \ {Root}, NEW name \in Names, NEW instance \in BOOLEAN
             PROVE  LET n     == ResolveIn([Node("me", c, "me", <<>>) EXCEPT !.instance = instance], name)
                        named == {i \in DOMAIN classes[c].functions : classes[c].functions[i].name = name}
                        found == HasField(c, name) \/ ClassNamed(name, c) # None
                    IN  IF found
                        THEN /\ n.kind \in {"field", "class"} \/ (HasField(c, name) /\ n.of = "InvalidNonShared")
                             /\ n.kind = "field" => HasField(c, name) /\ (instance \/ n.of.shared)
                             /\ IsRefused(n) => ~instance
                        ELSE /\ Cardinality(named) = 1 => n.kind = "function" /\ n.of.name = name
                             /\ Cardinality(named) > 1 => IsRefused(n)
                             /\ named = {} /\ ~IsRefused(n)
                                  => world.stray /\ \A g \in ToSet(classes[c].functions) : name < g.name
  BY DEF NamesMeanThemselves
<1> DEFINE context == [Node("me", c, "me", <<>>) EXCEPT !.instance = instance]
           kept    == IF context.instance THEN <<context>> ELSE <<>>
<1>1. context.real = c /\ context.instance = instance
  BY ContextIs
<1>2. Sorted(classes[c].functions) /\ name \in Int /\ world.stray \in BOOLEAN
  BY NamesAreInt DEF ClassesSound, WorldSound
<1> HIDE DEF context
<1>3. CASE HasField(c, name) \/ ClassNamed(name, c) # None
  <2> DEFINE n == ResolveIn(context, name)
  <2>1. /\ n.kind \in {"field", "class"} \/ (HasField(c, name) /\ n.of = "InvalidNonShared")
        /\ n.kind = "field" => HasField(c, name) /\ (context.instance \/ n.of.shared)
        /\ IsRefused(n) => ~context.instance
    BY <1>1, <1>3, FoundIs
  <2> HIDE DEF n
  <2>2. QED
    BY <1>1, <1>3, <2>1 DEF n, context
<1>4. CASE ~(HasField(c, name) \/ ClassNamed(name, c) # None)
  <2>1. ResolveIn(context, name) = FunctionNamed(c, name, kept)
    BY <1>1, <1>4 DEF ResolveIn
  <2>2. QED
    BY <1>2, <1>4, <2>1, FunctionNamedIs DEF context
<1>5. QED
  BY <1>3, <1>4

-----------------------------------------------------------------------------
(* Beside the context, then in it, then at the root. *)
LEMMA FirstOfThree ==
  ASSUME NEW a, NEW b, NEW d
  PROVE  FirstOf(<<a, b, d>>) = IF a # None THEN a ELSE IF b # None THEN b ELSE d
<1> DEFINE s  == <<a, b, d>>
           at == {i \in 1 .. Len(s) : s[i] # None}
<1>1. FirstOf(s) = IF at # {} THEN (IF Min(at) = 0 THEN None ELSE s[Min(at)]) ELSE None
  BY DEF FirstOf, SelectInSeq
<1>2. at = {i \in 1 .. 3 : s[i] # None} /\ at \subseteq Nat
  OBVIOUS
<1>3. s[1] = a /\ s[2] = b /\ s[3] = d
  OBVIOUS
<1> HIDE DEF s, at
<1>4. CASE a # None
  <2>1. 1 \in at /\ \A i \in at : 1 <= i
    BY <1>2, <1>3, <1>4
  <2>2. Min(at) = 1
    BY <1>2, <2>1, LeastIs
  <2>3. QED
    BY <1>1, <1>3, <1>4, <2>1, <2>2 DEF s
<1>5. CASE a = None /\ b # None
  <2>1. 2 \in at /\ \A i \in at : 2 <= i
    BY <1>2, <1>3, <1>5
  <2>2. Min(at) = 2
    BY <1>2, <2>1, LeastIs
  <2>3. QED
    BY <1>1, <1>3, <1>5, <2>1, <2>2 DEF s
<1>6. CASE a = None /\ b = None /\ d # None
  <2>1. 3 \in at /\ \A i \in at : 3 <= i
    BY <1>2, <1>3, <1>6
  <2>2. Min(at) = 3
    BY <1>2, <2>1, LeastIs
  <2>3. QED
    BY <1>1, <1>3, <1>6, <2>1, <2>2 DEF s
<1>7. CASE a = None /\ b = None /\ d = None
  <2>1. at = {}
    BY <1>2, <1>3, <1>7
  <2>2. QED
    BY <1>1, <1>7, <2>1 DEF s
<1>8. QED
  BY <1>4, <1>5, <1>6, <1>7

(* The first name of a path is looked up, the second in what was found. *)
LEMMA PathIs ==
  ASSUME NEW a, NEW b, NEW current
  PROVE  /\ ClassOfPath(<<a>>, current) = ClassNamed(a, current)
         /\ ClassOfPath(<<a, b>>, current) = FindClass(b, ClassNamed(a, current))
<1>1. ASSUME NEW path, NEW n \in 1 .. 2, Len(path) = n
      PROVE  \E at : /\ at = [i \in 1 .. Len(path) |-> IF i = 1 THEN ClassNamed(path[1], current)
                                                       ELSE NextClass(path[i], at[i - 1])]
                     /\ ClassOfPath(path, current) = at[n]
  <2> DEFINE v == [i \in 1 .. Len(path) |-> IF i = 1 THEN ClassNamed(path[1], current)
                                            ELSE NextClass(path[i], ClassNamed(path[1], current))]
             u == CHOOSE u : u = [i \in 1 .. Len(path) |-> IF i = 1 THEN ClassNamed(path[1], current)
                                                           ELSE NextClass(path[i], u[i - 1])]
  <2>1. v = [i \in 1 .. Len(path) |-> IF i = 1 THEN ClassNamed(path[1], current) ELSE NextClass(path[i], v[i - 1])]
    <3>1. \A i \in 1 .. Len(path) : i # 1 => i - 1 = 1 /\ 1 \in 1 .. Len(path)
      BY <1>1
    <3>2. QED
      BY <3>1
  <2> HIDE DEF v
  <2>2. u = [i \in 1 .. Len(path) |-> IF i = 1 THEN ClassNamed(path[1], current) ELSE NextClass(path[i], u[i - 1])]
    BY <2>1
  <2>3. ClassOfPath(path, current) = u[n]
    BY <1>1 DEF ClassOfPath
  <2>4. QED
    BY <2>2, <2>3
<1>2. ClassOfPath(<<a>>, current) = ClassNamed(a, current)
  <2> DEFINE path == <<a>>
  <2>1. Len(path) = 1 /\ path[1] = a
    OBVIOUS
  <2> HIDE DEF path
  <2>2. PICK at : /\ at = [i \in 1 .. Len(path) |-> IF i = 1 THEN ClassNamed(path[1], current)
                                                    ELSE NextClass(path[i], at[i - 1])]
                  /\ ClassOfPath(path, current) = at[1]
    BY <1>1, <2>1
  <2>3. at[1] = ClassNamed(a, current)
    BY <2>1, <2>2
  <2>4. QED
    BY <2>2, <2>3 DEF path
<1>3. ClassOfPath(<<a, b>>, current) = FindClass(b, ClassNamed(a, current))
  <2> DEFINE path == <<a, b>>
  <2>1. Len(path) = 2 /\ path[1] = a /\ path[2] = b
    OBVIOUS
  <2> HIDE DEF path
  <2>2. PICK at : /\ at = [i \in 1 .. Len(path) |-> IF i = 1 THEN ClassNamed(path[1], current)
                                                    ELSE NextClass(path[i], at[i - 1])]
                  /\ ClassOfPath(path, current) = at[2]
    BY <1>1, <2>1
  <2>3. at[1] = ClassNamed(a, current)
    BY <2>1, <2>2
  <2>4. at[2] = NextClass(path[2], at[1])
    BY <2>1, <2>2
  <2>5. QED
    BY <2>1, <2>2, <2>3, <2>4 DEF path, NextClass
<1>4. QED
  BY <1>2, <1>3

LEMMA PathsAreMeant == PathsAgree
<1> SUFFICES ASSUME NEW path \in Names \X Names
             PROVE  LET c      == ClassOfPath(<<path[1]>>, Here)
                        inner  == ClassOfPath(path, Here)
                        beside == FindClass(path[2], classes[c].container)
                        n      == ResolveIn([Node("class", "Class", c, <<>>) EXCEPT !.real = c, !.instance = FALSE], path[2])
                    IN  c # None /\ inner # None /\ ~HasField(c, path[2]) => (n.of = inner <=> beside \in {None, inner})
  BY DEF PathsAgree
<1> DEFINE c       == ClassOfPath(<<path[1]>>, Here)
           inner   == ClassOfPath(path, Here)
           beside  == FindClass(path[2], classes[c].container)
           context == [Node("class", "Class", c, <<>>) EXCEPT !.real = c, !.instance = FALSE]
           n       == ResolveIn(context, path[2])
<1> SUFFICES ASSUME c # None, inner # None, ~HasField(c, path[2])
             PROVE  n.of = inner <=> beside \in {None, inner}
  OBVIOUS
<1>1. inner = FindClass(path[2], c)
  <2>1. path = <<path[1], path[2]>>
    OBVIOUS
  <2>2. QED
    BY <2>1, PathIs
<1>2. context.real = c /\ context.instance = FALSE
  BY ContextIs
<1> HIDE DEF c, inner, context, n
<1>3. ClassNamed(path[2], c) = IF beside # None THEN beside ELSE inner
  BY <1>1, FirstOfThree DEF ClassNamed
<1>4. n.of = ClassNamed(path[2], c)
  BY <1>2, <1>3, FoundIs DEF n
<1>5. QED
  BY <1>3, <1>4

LEMMA ClassesStaySound == ProgramStays => []ClassesSound
<1>1. ProgramGiven => ClassesSound
  BY NamesAssumption DEF ProgramGiven, ClassesSound
<1>2. ClassesSound /\ [FALSE]_<<classes, world>> => ClassesSound'
  BY DEF ClassesSound, ProgramGiven, WorldSound, MembersSound
<1>3. QED
  BY <1>1, <1>2, PTL DEF ProgramStays

(* In every program, a name in a context denotes a member of the class     *)
(* that has the name, and is refused only when there is none, or several   *)
(* functions, or a field that needs an instance, or when it is read in a   *)
(* multimap before its first function; a path and an expression of the     *)
(* same names denote the same class, unless one beside the context has the *)
(* name (FrBUnresolvedIdWithContextExpr, getClassFromName).                *)
THEOREM NamesAreFound == ProgramStays => []NamesResolve
<1>1. ClassesSound => NamesResolve
  BY NamesAreMeant, PathsAreMeant DEF NamesResolve
<1>2. QED
  BY <1>1, ClassesStaySound, PTL

(* In every program, a call takes an overload that fits best, whatever the *)
(* class and the arguments.                                                *)
THEOREM OverloadsFit == ProgramStays => []OverloadBest
<1>1. ClassesSound => OverloadBest
  <2> SUFFICES ASSUME ClassesSound, NEW c \in DOMAIN classes, NEW args PROVE TakesBest(classes[c].functions, args)
    BY DEF OverloadBest
  <2>1. classes[c].functions \in Seq(Functions)
    BY NamesAreInt DEF Sorted
  <2>2. QED
    BY <2>1, OverloadTaken
<1>2. QED
  BY <1>1, ClassesStaySound, PTL
==============================================================================
