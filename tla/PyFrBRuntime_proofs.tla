------------------------- MODULE PyFrBRuntime_proofs -------------------------
(***************************************************************************)
(* Proofs about PyFrBRuntime, for any program the interpreter started, any *)
(* methods and any number of references and raises: the slots of events    *)
(* keep their promise, what was initialised has all its values, and the    *)
(* initialisation itself never fails.                                      *)
(***************************************************************************)
EXTENDS PyFrBRuntime, FrBStartup_proofs

-----------------------------------------------------------------------------
(* The bag of a sequence.                                                  *)
Positions(s, x) == {i \in DOMAIN s : s[i] = x}

LEMMA PositionsFinite ==
  ASSUME NEW S, NEW s \in Seq(S), NEW x
  PROVE  IsFiniteSet(Positions(s, x)) /\ Cardinality(Positions(s, x)) \in Nat
<1>1. IsFiniteSet(1 .. Len(s))
  BY LenProperties, FS_Interval
<1>2. Positions(s, x) \subseteq 1 .. Len(s)
  BY LenProperties DEF Positions
<1>3. IsFiniteSet(Positions(s, x))
  BY <1>1, <1>2, FS_Subset
<1>4. QED
  BY <1>3, FS_CardinalityType

LEMMA BagOf ==
  ASSUME NEW S, NEW s \in Seq(S)
  PROVE  /\ DOMAIN ToBag(s) = {s[i] : i \in 1 .. Len(s)}
         /\ ToBag(s) = [x \in DOMAIN ToBag(s) |-> Cardinality(Positions(s, x))]
BY LenProperties DEF ToBag, Positions, Range

LEMMA BagDomain ==
  ASSUME NEW S, NEW s \in Seq(S), NEW y
  PROVE  y \in DOMAIN ToBag(s) <=> Positions(s, y) # {}
<1>1. DOMAIN ToBag(s) = {s[i] : i \in DOMAIN s}
  BY DEF ToBag, Range
<1>2. y \in DOMAIN ToBag(s) <=> \E i \in DOMAIN s : s[i] = y
  BY <1>1
<1>3. QED
  BY <1>2 DEF Positions

LEMMA BagOfAppend ==
  ASSUME NEW S, NEW s \in Seq(S), NEW x \in S
  PROVE  ToBag(Append(s, x)) = BagAdd(ToBag(s), x)
<1> DEFINE t == Append(s, x)
           n == Len(s)
<1>1. /\ n \in Nat /\ DOMAIN s = 1 .. n
      /\ t \in Seq(S) /\ Len(t) = n + 1 /\ DOMAIN t = 1 .. n + 1
      /\ t[n + 1] = x /\ \A i \in 1 .. n : t[i] = s[i]
  BY LenProperties, AppendProperties
<1> HIDE DEF t, n
<1>2. \A y : y # x => Positions(t, y) = Positions(s, y)
  BY <1>1 DEF Positions
<1>3. Positions(t, x) = Positions(s, x) \cup {n + 1} /\ n + 1 \notin Positions(s, x)
  BY <1>1 DEF Positions
<1>4. Cardinality(Positions(t, x)) = Cardinality(Positions(s, x)) + 1
  BY <1>3, PositionsFinite, FS_AddElement
<1>5. DOMAIN ToBag(s) = {s[i] : i \in 1 .. n} /\ DOMAIN ToBag(t) = DOMAIN ToBag(s) \cup {x}
  <2>1. {t[i] : i \in 1 .. n + 1} = {s[i] : i \in 1 .. n} \cup {x}
    BY <1>1
  <2>2. QED
    BY <1>1, <2>1, BagOf DEF n
<1>6. x \notin DOMAIN ToBag(s) => Cardinality(Positions(s, x)) = 0
  <2>1. x \notin DOMAIN ToBag(s) => Positions(s, x) = {}
    BY <1>1, <1>5 DEF Positions
  <2>2. QED
    BY <2>1, FS_EmptySet
<1>7. \A y \in DOMAIN ToBag(s) : ToBag(s)[y] = Cardinality(Positions(s, y))
  BY BagOf
<1>8. ToBag(t) = [y \in DOMAIN ToBag(t) |-> Cardinality(Positions(t, y))]
  BY <1>1, BagOf
<1>9. ToBag(t) = BagAdd(ToBag(s), x)
  <2>1. CASE x \in DOMAIN ToBag(s)
    BY <1>2, <1>4, <1>5, <1>7, <1>8, <2>1 DEF BagAdd
  <2>2. CASE x \notin DOMAIN ToBag(s)
    <3>1. Cardinality(Positions(t, x)) = 1
      BY <1>4, <1>6, <2>2
    <3>2. QED
      BY <1>2, <3>1, <1>5, <1>7, <1>8, <2>2 DEF BagAdd
  <2>3. QED
    BY <2>1, <2>2
<1>10. QED
  BY <1>9 DEF t

LEMMA RemoveAtIs ==
  ASSUME NEW S, NEW s \in Seq(S), NEW k \in 1 .. Len(s)
  PROVE  /\ RemoveAt(s, k) \in Seq(S)
         /\ Len(RemoveAt(s, k)) = Len(s) - 1
         /\ \A i \in 1 .. Len(s) - 1 : RemoveAt(s, k)[i] = IF i < k THEN s[i] ELSE s[i + 1]
<1> DEFINE n == Len(s)
           a == SubSeq(s, 1, k - 1)
           b == SubSeq(s, k + 1, n)
<1>1. n \in Nat /\ k \in 1 .. n /\ \A i \in 1 .. n : s[i] \in S
  BY LenProperties, ElementOfSeq
<1>2. a \in Seq(S) /\ Len(a) = k - 1 /\ \A i \in 1 .. k - 1 : a[i] = s[i]
  BY <1>1
<1>3. b \in Seq(S) /\ Len(b) = n - k /\ \A i \in 1 .. n - k : b[i] = s[i + k]
  BY <1>1
<1>4. RemoveAt(s, k) = a \o b
  BY DEF RemoveAt
<1> HIDE DEF a, b, n
<1>5. /\ a \o b \in Seq(S) /\ Len(a \o b) = n - 1
      /\ \A i \in 1 .. n - 1 : (a \o b)[i] = IF i <= k - 1 THEN a[i] ELSE b[i - (k - 1)]
  <2>1. Len(a) + Len(b) = n - 1
    BY <1>1, <1>2, <1>3
  <2>2. QED
    BY <1>2, <1>3, <2>1, ConcatProperties
<1>6. ASSUME NEW i \in 1 .. n - 1 PROVE (a \o b)[i] = IF i < k THEN s[i] ELSE s[i + 1]
  <2>1. CASE i < k
    BY <1>1, <1>2, <1>5, <2>1
  <2>2. CASE ~(i < k)
    <3>1. i - (k - 1) \in 1 .. n - k /\ (i - (k - 1)) + k = i + 1
      BY <1>1, <2>2
    <3>2. (a \o b)[i] = b[i - (k - 1)]
      BY <1>1, <1>5, <2>2
    <3>3. QED
      BY <1>3, <2>2, <3>1, <3>2
  <2>3. QED
    BY <2>1, <2>2
<1>7. QED
  BY <1>4, <1>5, <1>6 DEF n

LEMMA BagOfRemove ==
  ASSUME NEW S, NEW s \in Seq(S), NEW k \in 1 .. Len(s)
  PROVE  ToBag(RemoveAt(s, k)) = BagRemove(ToBag(s), s[k])
<1> DEFINE n == Len(s)
           r == RemoveAt(s, k)
           x == s[k]
<1>1. /\ n \in Nat /\ k \in 1 .. n /\ DOMAIN s = 1 .. n /\ x \in S
      /\ r \in Seq(S) /\ Len(r) = n - 1 /\ DOMAIN r = 1 .. n - 1
      /\ \A i \in 1 .. n - 1 : r[i] = IF i < k THEN s[i] ELSE s[i + 1]
  BY RemoveAtIs, LenProperties, ElementOfSeq
<1> HIDE DEF r, n
(* The positions of y in r are those in s other than k, moved down. *)
<1>2. ASSUME NEW y PROVE Cardinality(Positions(r, y)) = Cardinality(Positions(s, y) \ {k})
  <2> DEFINE up == [i \in Positions(r, y) |-> IF i < k THEN i ELSE i + 1]
  <2>1. ASSUME NEW i \in Positions(r, y) PROVE up[i] \in Positions(s, y) \ {k}
    <3>1. i \in 1 .. n - 1 /\ y = IF i < k THEN s[i] ELSE s[i + 1]
      BY <1>1 DEF Positions
    <3>2. QED
      BY <1>1, <3>1 DEF Positions
  <2>2. ASSUME NEW i \in Positions(r, y), NEW j \in Positions(r, y), up[i] = up[j] PROVE i = j
    <3>1. i \in 1 .. n - 1 /\ j \in 1 .. n - 1
      BY <1>1 DEF Positions
    <3>2. QED
      BY <1>1, <2>2, <3>1
  <2>3. ASSUME NEW j \in Positions(s, y) \ {k} PROVE \E i \in Positions(r, y) : up[i] = j
    <3>1. j \in 1 .. n /\ j # k /\ s[j] = y
      BY <1>1 DEF Positions
    <3>2. CASE j < k
      <4>1. j \in 1 .. n - 1 /\ r[j] = y
        BY <1>1, <3>1, <3>2
      <4>2. j \in Positions(r, y)
        BY <1>1, <4>1 DEF Positions
      <4>3. QED
        BY <3>2, <4>2
    <3>3. CASE ~(j < k)
      <4>1. j - 1 \in 1 .. n - 1 /\ r[j - 1] = y /\ ~(j - 1 < k) /\ (j - 1) + 1 = j
        BY <1>1, <3>1, <3>3
      <4>2. j - 1 \in Positions(r, y)
        BY <1>1, <4>1 DEF Positions
      <4>3. QED
        BY <4>1, <4>2
    <3>4. QED
      BY <3>2, <3>3
  <2>4. up \in [Positions(r, y) -> Positions(s, y) \ {k}]
    BY <2>1
  <2> HIDE DEF up
  <2>5. up \in Bijection(Positions(r, y), Positions(s, y) \ {k})
    BY <2>2, <2>3, <2>4 DEF Bijection, Injection, Surjection, IsInjective
  <2>6. IsFiniteSet(Positions(r, y))
    BY <1>1, PositionsFinite
  <2>7. QED
    BY <2>5, <2>6, FS_Bijection DEF ExistsBijection
<1>3. \A y : y # x => Positions(s, y) \ {k} = Positions(s, y)
  BY DEF Positions
<1>4. k \in Positions(s, x)
  BY <1>1 DEF Positions
<1>5. Cardinality(Positions(r, x)) = Cardinality(Positions(s, x)) - 1
  BY <1>2, <1>4, PositionsFinite, FS_RemoveElement
<1>6. \A y : y # x => Cardinality(Positions(r, y)) = Cardinality(Positions(s, y))
  BY <1>2, <1>3
<1>7. \A y : y \in DOMAIN ToBag(r) <=> Positions(r, y) # {}
  BY <1>1, BagDomain
<1>8. \A y : y \in DOMAIN ToBag(s) <=> Positions(s, y) # {}
  BY <1>1, BagDomain
<1>9. \A y : /\ Cardinality(Positions(r, y)) \in Nat /\ Cardinality(Positions(s, y)) \in Nat
             /\ Positions(r, y) = {} <=> Cardinality(Positions(r, y)) = 0
             /\ Positions(s, y) = {} <=> Cardinality(Positions(s, y)) = 0
  BY <1>1, PositionsFinite, FS_EmptySet
<1>10. \A y : y # x => (y \in DOMAIN ToBag(r) <=> y \in DOMAIN ToBag(s))
  BY <1>6, <1>7, <1>8, <1>9
<1>11. ToBag(r) = [y \in DOMAIN ToBag(r) |-> Cardinality(Positions(r, y))]
  BY <1>1, BagOf
<1>12. x \in DOMAIN ToBag(s) /\ \A y \in DOMAIN ToBag(s) : ToBag(s)[y] = Cardinality(Positions(s, y))
  BY <1>4, <1>8, BagOf
<1>13. CASE ToBag(s)[x] = 1
  <2>1. Cardinality(Positions(r, x)) = 0
    BY <1>5, <1>9, <1>12, <1>13
  <2>2. DOMAIN ToBag(r) = DOMAIN ToBag(s) \ {x}
    BY <1>7, <1>9, <1>10, <2>1
  <2>3. \A y \in DOMAIN ToBag(r) : Cardinality(Positions(r, y)) = ToBag(s)[y]
    BY <1>6, <1>12, <2>2
  <2>4. QED
    BY <1>11, <1>12, <1>13, <2>2, <2>3 DEF BagRemove, r
<1>14. CASE ToBag(s)[x] # 1
  <2>1. x \in DOMAIN ToBag(r)
    BY <1>4, <1>5, <1>7, <1>9, <1>12, <1>14
  <2>2. DOMAIN ToBag(r) = DOMAIN ToBag(s)
    BY <1>10, <1>12, <2>1
  <2>3. \A y \in DOMAIN ToBag(r) : Cardinality(Positions(r, y)) = IF y = x THEN ToBag(s)[y] - 1 ELSE ToBag(s)[y]
    BY <1>5, <1>6, <1>12, <2>2
  <2>4. QED
    BY <1>11, <1>12, <1>14, <2>2, <2>3 DEF BagRemove, r
<1>15. QED
  BY <1>13, <1>14

(* RemoveFirst takes away one place of e, and nothing when e has none. *)
LEMMA RemoveFirstIs ==
  ASSUME NEW S, NEW s \in Seq(S), NEW e
  PROVE  \/ \E k \in 1 .. Len(s) : s[k] = e /\ RemoveFirst(s, e) = RemoveAt(s, k)
         \/ (\A k \in 1 .. Len(s) : s[k] # e) /\ RemoveFirst(s, e) = s
<1> DEFINE I == {i \in 1 .. Len(s) : s[i] = e}
<1>1. CASE I # {}
  <2>1. I \subseteq Nat
    BY LenProperties
  <2>2. \E m \in I : \A i \in I : m <= i
    BY <1>1, <2>1, LeastElement
  <2>3. Min(I) \in I
    BY <2>2 DEF Min
  <2>4. RemoveFirst(s, e) = RemoveAt(s, Min(I))
    BY <1>1 DEF RemoveFirst, SelectInSeq
  <2>5. QED
    BY <2>3, <2>4
<1>2. CASE I = {}
  BY <1>2 DEF RemoveFirst
<1>3. QED
  BY <1>1, <1>2
-----------------------------------------------------------------------------
(* The classes on the way to a class are classes.                          *)
LEMMA ContainerIs ==
  ASSUME NEW c
  PROVE  Container(c) = Parent(c)
BY DEF Container, Parent, Places

Step(f, c) == IF c = Root THEN <<>> ELSE Append(f[Container(c)], c)

LEMMA PathIs ==
  ASSUME shape \in Shapes
  PROVE  \A c \in Class \cup {Root} : PathTo[c] = Step(PathTo, c) /\ PathTo[c] \in Seq(Class)
<1> DEFINE nodes == Class \cup {Root}
<1>1. \A f, c : Step(f, c) = WayStep(f, c)
  BY ContainerIs DEF Step, WayStep
<1>2. PICK f \in [nodes -> Seq(Class)] : \A c \in nodes : f[c] = Step(f, c)
  BY <1>1, WayExists DEF Places
<1>3. \E p : p = [c \in nodes |-> IF c = Root THEN <<>> ELSE Append(p[Container(c)], c)]
  BY <1>2 DEF Step
<1>4. PathTo = [c \in nodes |-> IF c = Root THEN <<>> ELSE Append(PathTo[Container(c)], c)]
  BY <1>3 DEF PathTo
<1>5. \A c \in nodes : PathTo[c] = Step(PathTo, c)
  BY <1>4 DEF Step
<1>6. \A c \in nodes : PathTo[c] \in Seq(Class)
  <2>1. \A c \in Places : PathTo[c] = WayStep(PathTo, c)
    BY <1>1, <1>5 DEF Places
  <2>2. QED
    BY <2>1, WayIs DEF Places
<1>7. QED
  BY <1>5, <1>6

LEMMA UsesType ==
  ASSUME shape \in Shapes, NEW k \in Class, NEW init \in Inits
  PROVE  Uses(k, init) \in Seq(Class)
<1>1. CASE init.kind = "shared"
  <2>1. init.class \in Class
    BY <1>1 DEF Inits
  <2>2. Touched(k, init.class) \in Seq(Class)
    BY <2>1, PathIs DEF Touched
  <2>3. QED
    BY <1>1, <2>2 DEF Uses
<1>2. CASE init.kind # "shared"
  BY <1>2 DEF Uses
<1>3. QED
  BY <1>1, <1>2

LEMMA NamesIs ==
  ASSUME ProgramSound, NEW c \in Class, NEW shrd
  PROVE  /\ Names(c, shrd) \in Seq(NamesOf(c, shrd))
         /\ \A f \in NamesOf(c, shrd) : \E i \in 1 .. Len(Names(c, shrd)) : Names(c, shrd)[i] = f
<1> DEFINE S    == NamesOf(c, shrd)
           rank == [f \in S |-> Declared(c, f)]
<1>1. IsFiniteSet(S)
  BY NamesFinite
<1>2. \A f \in S : Declared(c, f) \in Nat /\ declared[c][Declared(c, f)].name = f
  BY DeclaredIs
<1>3. rank \in [S -> Nat]
  BY <1>2
<1>4. \A x, y \in S : rank[x] = rank[y] => x = y
  BY <1>2
<1>5. Names(c, shrd) = Sorted(S, rank)
  BY DEF Names
<1> HIDE DEF rank, S
<1>6. /\ Sorted(S, rank) \in Seq(S)
      /\ \A f \in S : \E i \in 1 .. Len(Sorted(S, rank)) : Sorted(S, rank)[i] = f
  BY <1>1, <1>3, <1>4, SortedIs
<1>7. QED
  BY <1>5, <1>6 DEF S
-----------------------------------------------------------------------------
(* The inductive invariant, in parts.  The values of shared fields and the *)
(* instances are fields of their classes; an activation has fields of its  *)
(* class left, and the others have their values.                           *)
FieldValues == UNION {[S -> Int] : S \in SUBSET Field}

ValuesSound(vals) ==
  /\ vals \in [Class -> FieldValues]
  /\ \A c \in Class : DOMAIN vals[c] \subseteq NamesOf(c, TRUE)

MadeSound(objs, known) ==
  /\ objs \in Seq([class : Class, fields : FieldValues, handlers : Seq(known)])
  /\ \A o \in DOMAIN objs : DOMAIN objs[o].fields \subseteq NamesOf(objs[o].class, FALSE)

FireSound ==
  {a \in [of : {"fire"}, inside : BOOLEAN, on : Nat, todo : Seq(Nat), had : Seq(Nat), called : Seq(Nat)] :
     a.called \o a.todo = a.had}

SharedSound(vals) ==
  {a \in [of : {"shared"}, class : Class, left : Seq(Field), waits : Seq(Class)] :
     /\ a.left \in Seq(NamesOf(a.class, TRUE))
     /\ \A f \in NamesOf(a.class, TRUE) : f \in DOMAIN vals[a.class] \/ \E i \in 1 .. Len(a.left) : a.left[i] = f}

InstanceSound(objs) ==
  {a \in [of : {"instance"}, class : Class, me : Nat, left : Seq(Field), waits : Seq(Class)] :
     /\ a.me \in DOMAIN objs /\ objs[a.me].class = a.class
     /\ a.left \in Seq(NamesOf(a.class, FALSE))
     /\ \A f \in NamesOf(a.class, FALSE) :
          f \in DOMAIN objs[a.me].fields \/ \E i \in 1 .. Len(a.left) : a.left[i] = f}

ActSound(vals, objs) == FireSound \cup SharedSound(vals) \cup InstanceSound(objs)

(* Raises and initialisations do not mix, and an instance is made for the  *)
(* field the activation below it is at.                                    *)
Fitted(a, s) ==
  s # <<>> => /\ a.of = "fire" <=> Head(s).of = "fire"
              /\ a.of = "instance" => Head(s).left # <<>>

Linked(s) ==
  \A k \in 1 .. Len(s) - 1 : /\ s[k].of = "fire" <=> s[k + 1].of = "fire"
                             /\ s[k].of = "instance" => s[k + 1].left # <<>>

(* An instance that is not under way has all its fields.                   *)
UnderWay(o, s) == \E k \in 1 .. Len(s) : s[k].of = "instance" /\ s[k].me = o
Whole(objs, s) ==
  \A o \in DOMAIN objs : NamesOf(objs[o].class, FALSE) \subseteq DOMAIN objs[o].fields \/ UnderWay(o, s)

-----------------------------------------------------------------------------
(* Activations are pushed and popped. *)
LEMMA LinkedPush ==
  ASSUME NEW S, NEW s \in Seq(S), NEW a \in S, Linked(s), Fitted(a, s)
  PROVE  Linked(<<a>> \o s)
<1> DEFINE t == <<a>> \o s
<1>1. /\ Len(t) = Len(s) + 1 /\ Len(s) \in Nat
      /\ t[1] = a /\ \A k \in 1 .. Len(s) : t[k + 1] = s[k]
  BY PushIs
<1> HIDE DEF t
<1>2. ASSUME NEW k \in 1 .. Len(t) - 1
      PROVE  /\ t[k].of = "fire" <=> t[k + 1].of = "fire"
             /\ t[k].of = "instance" => t[k + 1].left # <<>>
  <2>1. CASE k = 1
    <3>1. s # <<>> /\ t[k + 1] = Head(s) /\ t[k] = a
      BY <1>1, <2>1, EmptySeq
    <3>2. QED
      BY <3>1 DEF Fitted
  <2>2. CASE k # 1
    <3>1. PICK j \in 1 .. Len(s) - 1 : k = j + 1
      BY <1>1, <2>2
    <3>2. t[k] = s[j] /\ t[k + 1] = s[j + 1]
      BY <1>1, <3>1
    <3>3. QED
      BY <3>1, <3>2 DEF Linked
  <2>3. QED
    BY <2>1, <2>2
<1>3. QED
  BY <1>2 DEF Linked, t

LEMMA LinkedPop ==
  ASSUME NEW S, NEW s \in Seq(S), s # <<>>, Linked(s)
  PROVE  /\ Tail(s) \in Seq(S) /\ Head(s) \in S /\ Linked(Tail(s)) /\ Fitted(Head(s), Tail(s))
         /\ Head(s) = s[1] /\ Len(s) \in Nat \ {0} /\ Len(Tail(s)) = Len(s) - 1
         /\ \A k \in 1 .. Len(s) - 1 : Tail(s)[k] = s[k + 1]
<1> DEFINE t == Tail(s)
<1>1. /\ t \in Seq(S) /\ Head(s) \in S /\ Head(s) = s[1] /\ Len(s) \in Nat \ {0}
      /\ Len(t) = Len(s) - 1 /\ \A k \in 1 .. Len(t) : t[k] = s[k + 1]
  BY HeadAndTail
<1> HIDE DEF t
<1>2. ASSUME NEW k \in 1 .. Len(t) - 1
      PROVE  /\ t[k].of = "fire" <=> t[k + 1].of = "fire"
             /\ t[k].of = "instance" => t[k + 1].left # <<>>
  <2>1. k \in 1 .. Len(t) /\ k + 1 \in 1 .. Len(t) /\ k + 1 \in 1 .. Len(s) - 1
    BY <1>1
  <2>2. t[k] = s[k + 1] /\ t[k + 1] = s[(k + 1) + 1]
    BY <1>1, <2>1
  <2>3. QED
    BY <2>1, <2>2 DEF Linked
<1>3. Fitted(Head(s), t)
  <2>1. t # <<>> => Head(t) = s[2] /\ 1 \in 1 .. Len(s) - 1
    BY <1>1
  <2>2. QED
    BY <1>1, <2>1 DEF Fitted, Linked
<1>4. QED
  BY <1>1, <1>2, <1>3 DEF Linked, t
-----------------------------------------------------------------------------
(* Naming the classes the next field waits for leaves the rest as it is. *)
Awaited(a, b) ==
  /\ b.of = a.of /\ b.class = a.class /\ b.left = a.left
  /\ a.of = "instance" => b.me = a.me

LEMMA AtFieldSound ==
  ASSUME ProgramSound, NEW vals, NEW objs, NEW a \in SharedSound(vals) \cup InstanceSound(objs)
  PROVE  /\ a \in SharedSound(vals) => AtField(a) \in SharedSound(vals)
         /\ a \in InstanceSound(objs) => AtField(a) \in InstanceSound(objs)
         /\ Awaited(a, AtField(a))
<1>1. CASE a.left = <<>>
  BY <1>1 DEF AtField, Awaited
<1>2. CASE a.left # <<>>
  <2> DEFINE w == a.waits \o Uses(a.class, InitOf(a.class, Head(a.left)))
             b == [a EXCEPT !.waits = w]
  <2>1. AtField(a) = b
    BY <1>2 DEF AtField
  <2>2. \E shrd \in BOOLEAN : a.left \in Seq(NamesOf(a.class, shrd))
    BY DEF SharedSound, InstanceSound
  <2>3. a.class \in Class /\ a.waits \in Seq(Class)
    BY DEF SharedSound, InstanceSound
  <2>4. \E shrd \in BOOLEAN : Head(a.left) \in NamesOf(a.class, shrd)
    BY <1>2, <2>2, HeadTailProperties
  <2>5. InitOf(a.class, Head(a.left)) \in Inits
    BY <2>3, <2>4, DeclaredIs
  <2>6. Uses(a.class, InitOf(a.class, Head(a.left))) \in Seq(Class)
    BY <2>3, <2>5, UsesType DEF ProgramSound
  <2>7. w \in Seq(Class)
    BY <2>3, <2>6, ConcatProperties
  <2> HIDE DEF w
  <2>8. a \in SharedSound(vals) => b \in SharedSound(vals) /\ Awaited(a, b)
    BY <2>7 DEF SharedSound, Awaited
  <2>9. a \in InstanceSound(objs) => b \in InstanceSound(objs) /\ Awaited(a, b)
    BY <2>7 DEF InstanceSound, Awaited
  <2>10. QED
    BY <2>1, <2>8, <2>9
<1>3. QED
  BY <1>1, <1>2

LEMMA SharedInitsSound ==
  ASSUME ProgramSound, NEW vals, NEW c \in Class
  PROVE  /\ SharedInits(c) \in SharedSound(vals) /\ SharedInits(c).of = "shared"
<1>1. Names(c, TRUE) \in Seq(NamesOf(c, TRUE))
      /\ \A f \in NamesOf(c, TRUE) : \E i \in 1 .. Len(Names(c, TRUE)) : Names(c, TRUE)[i] = f
  <2>1. \A s : Names(c, s) \in Seq(NamesOf(c, s))
    BY ONLY ProgramSound, c \in Class, NamesIs
  <2>2. \A s : \A f \in NamesOf(c, s) : \E i \in 1 .. Len(Names(c, s)) : Names(c, s)[i] = f
    BY ONLY ProgramSound, c \in Class, NamesIs
  <2>3. QED
    BY <2>1, <2>2
<1>2. Names(c, TRUE) \in Seq(Field)
  BY <1>1, NamesFinite, SeqMonotonic
<1> DEFINE a == [of |-> "shared", class |-> c, left |-> Names(c, TRUE), waits |-> <<>>]
<1>3. a \in SharedSound(vals)
  <2>1. <<>> \in Seq(Class)
    OBVIOUS
  <2>2. /\ a \in [of : {"shared"}, class : Class, left : Seq(Field), waits : Seq(Class)]
        /\ a.class = c /\ a.left = Names(c, TRUE)
    BY <1>2, <2>1
  <2> HIDE DEF a
  <2>3. QED
    BY <1>1, <2>2 DEF SharedSound
<1>4. SharedInits(c) = AtField(a)
  BY DEF SharedInits
<1> HIDE DEF a
<1>5. AtField(a) \in SharedSound(vals)
  BY <1>3, AtFieldSound
<1>6. QED
  BY <1>4, <1>5 DEF SharedSound

LEMMA InstanceInitsSound ==
  ASSUME ProgramSound, NEW objs, NEW c \in Class, NEW o \in Nat, o \in DOMAIN objs, objs[o].class = c
  PROVE  InstanceInits(c, o) \in InstanceSound(objs) /\ InstanceInits(c, o).of = "instance" /\ InstanceInits(c, o).me = o
<1>1. Names(c, FALSE) \in Seq(NamesOf(c, FALSE))
      /\ \A f \in NamesOf(c, FALSE) : \E i \in 1 .. Len(Names(c, FALSE)) : Names(c, FALSE)[i] = f
  <2>1. \A s : Names(c, s) \in Seq(NamesOf(c, s))
    BY ONLY ProgramSound, c \in Class, NamesIs
  <2>2. \A s : \A f \in NamesOf(c, s) : \E i \in 1 .. Len(Names(c, s)) : Names(c, s)[i] = f
    BY ONLY ProgramSound, c \in Class, NamesIs
  <2>3. QED
    BY <2>1, <2>2
<1>2. Names(c, FALSE) \in Seq(Field)
  <2>1. NamesOf(c, FALSE) \subseteq Field
    BY DEF NamesOf
  <2>2. QED
    BY <1>1, <2>1, SeqMonotonic
<1> DEFINE a == [of |-> "instance", class |-> c, me |-> o, left |-> Names(c, FALSE), waits |-> <<c>>]
<1>3. a \in InstanceSound(objs)
  <2>1. <<c>> \in Seq(Class)
    OBVIOUS
  <2>2. /\ a \in [of : {"instance"}, class : Class, me : Nat, left : Seq(Field), waits : Seq(Class)]
        /\ a.class = c /\ a.left = Names(c, FALSE) /\ a.me = o
    BY <1>2, <2>1
  <2> HIDE DEF a
  <2>3. QED
    BY <1>1, <2>2 DEF InstanceSound
<1>4. InstanceInits(c, o) = AtField(a) /\ a.of = "instance" /\ a.me = o
  BY DEF InstanceInits
<1> HIDE DEF a
<1>5. AtField(a) \in InstanceSound(objs) /\ Awaited(a, AtField(a))
  BY <1>3, AtFieldSound
<1>6. QED
  BY <1>4, <1>5 DEF Awaited

-----------------------------------------------------------------------------
(* Fields are only ever added, and the activations stay sound. *)
ValuesGrow(vals, vals2) == \A c \in Class : DOMAIN vals[c] \subseteq DOMAIN vals2[c]
ObjectsGrow(objs, objs2) ==
  \A o \in DOMAIN objs : /\ o \in DOMAIN objs2 /\ objs2[o].class = objs[o].class
                         /\ DOMAIN objs[o].fields \subseteq DOMAIN objs2[o].fields

SameObjects(objs, objs2) ==
  /\ Len(objs2) = Len(objs) /\ DOMAIN objs2 = DOMAIN objs
  /\ \A p \in DOMAIN objs : objs2[p].handlers = objs[p].handlers /\ objs2[p].class = objs[p].class

LEMMA ActsStaySound ==
  ASSUME NEW vals, NEW vals2, NEW objs, NEW objs2, ValuesGrow(vals, vals2), ObjectsGrow(objs, objs2)
  PROVE  /\ SharedSound(vals) \subseteq SharedSound(vals2)
         /\ InstanceSound(objs) \subseteq InstanceSound(objs2)
         /\ ActSound(vals, objs) \subseteq ActSound(vals2, objs2)
<1>1. ASSUME NEW a \in SharedSound(vals) PROVE a \in SharedSound(vals2)
  BY DEF SharedSound, ValuesGrow
<1>2. ASSUME NEW a \in InstanceSound(objs) PROVE a \in InstanceSound(objs2)
  <2>1. a.me \in DOMAIN objs2 /\ objs2[a.me].class = a.class
    BY DEF InstanceSound, ObjectsGrow
  <2>2. DOMAIN objs[a.me].fields \subseteq DOMAIN objs2[a.me].fields
    BY DEF InstanceSound, ObjectsGrow
  <2>3. QED
    BY <2>1, <2>2 DEF InstanceSound
<1>3. QED
  BY <1>1, <1>2 DEF ActSound

LEMMA SettingIs ==
  ASSUME NEW fields \in FieldValues, NEW f \in Field, NEW v \in Int
  PROVE  Setting(fields, f, v) \in FieldValues /\ DOMAIN Setting(fields, f, v) = DOMAIN fields \cup {f}
<1>1. PICK S \in SUBSET Field : fields \in [S -> Int]
  BY DEF FieldValues
<1>2. Setting(fields, f, v) \in [S \cup {f} -> Int]
  BY <1>1 DEF Setting
<1>3. QED
  BY <1>1, <1>2 DEF FieldValues

ValuesWith(vals, c, f, v) == [vals EXCEPT ![c] = Setting(@, f, v)]
ObjectsWith(objs, o, f, v) == [objs EXCEPT ![o].fields = Setting(@, f, v)]

LEMMA ValueSet ==
  ASSUME NEW vals, ValuesSound(vals), NEW c \in Class, NEW f \in NamesOf(c, TRUE), NEW v \in Int,
         NEW vals2, vals2 = ValuesWith(vals, c, f, v)
  PROVE  ValuesSound(vals2) /\ ValuesGrow(vals, vals2) /\ f \in DOMAIN vals2[c]
<1>1. vals[c] \in FieldValues /\ f \in Field
  BY NamesFinite DEF ValuesSound
<1>2. Setting(vals[c], f, v) \in FieldValues /\ DOMAIN Setting(vals[c], f, v) = DOMAIN vals[c] \cup {f}
  BY <1>1, SettingIs
<1>3. /\ vals2 \in [Class -> FieldValues] /\ vals2[c] = Setting(vals[c], f, v)
      /\ \A d \in Class : d # c => vals2[d] = vals[d]
  BY <1>2 DEF ValuesSound, ValuesWith
<1>4. QED
  BY <1>2, <1>3 DEF ValuesSound, ValuesGrow

LEMMA FieldSet ==
  ASSUME NEW objs, NEW known, MadeSound(objs, known), NEW o \in DOMAIN objs,
         NEW f \in NamesOf(objs[o].class, FALSE), NEW v \in Int,
         NEW objs2, objs2 = ObjectsWith(objs, o, f, v)
  PROVE  /\ MadeSound(objs2, known) /\ ObjectsGrow(objs, objs2) /\ f \in DOMAIN objs2[o].fields
         /\ SameObjects(objs, objs2)
<1> DEFINE R == [class : Class, fields : FieldValues, handlers : Seq(known)]
           x == [objs[o] EXCEPT !.fields = Setting(@, f, v)]
<1>1. objs \in Seq(R) /\ DOMAIN objs = 1 .. Len(objs) /\ Len(objs) \in Nat
  BY LenProperties DEF MadeSound
<1>2. objs[o] \in R
  BY <1>1, ElementOfSeq
<1>3. f \in Field
  BY NamesFinite
<1>4. Setting(objs[o].fields, f, v) \in FieldValues
      /\ DOMAIN Setting(objs[o].fields, f, v) = DOMAIN objs[o].fields \cup {f}
  BY <1>2, <1>3, SettingIs
<1>5. /\ x \in R /\ x.class = objs[o].class /\ x.handlers = objs[o].handlers
      /\ x.fields = Setting(objs[o].fields, f, v)
  BY <1>2, <1>4
<1>6. objs2 = [objs EXCEPT ![o] = x]
  BY DEF ObjectsWith
<1> HIDE DEF x, R
<1>7. /\ objs2 \in Seq(R) /\ Len(objs2) = Len(objs) /\ DOMAIN objs2 = DOMAIN objs
      /\ \A p \in DOMAIN objs : objs2[p] = IF p = o THEN x ELSE objs[p]
  BY ONLY <1>1, <1>5, <1>6, o \in DOMAIN objs, ExceptSeq, LenProperties
<1>8. \A p \in DOMAIN objs : /\ objs2[p].class = objs[p].class /\ objs2[p].handlers = objs[p].handlers
                             /\ DOMAIN objs[p].fields \subseteq DOMAIN objs2[p].fields
  BY <1>4, <1>5, <1>7
<1>9. \A p \in DOMAIN objs2 : DOMAIN objs2[p].fields \subseteq NamesOf(objs2[p].class, FALSE)
  <2>1. DOMAIN objs2[o].fields = DOMAIN objs[o].fields \cup {f}
    BY <1>4, <1>5, <1>7
  <2>2. ASSUME NEW p \in DOMAIN objs2 PROVE DOMAIN objs2[p].fields \subseteq NamesOf(objs2[p].class, FALSE)
    <3>1. CASE p = o
      <4>1. DOMAIN objs[o].fields \subseteq NamesOf(objs[o].class, FALSE) /\ objs2[o].class = objs[o].class
        BY <1>8 DEF MadeSound
      <4>2. QED
        BY <2>1, <3>1, <4>1
    <3>2. CASE p # o
      <4>1. objs2[p] = objs[p] /\ p \in DOMAIN objs
        BY <1>7, <3>2
      <4>2. QED
        BY <4>1 DEF MadeSound
    <3>3. QED
      BY <3>1, <3>2
  <2>3. QED
    BY <2>2
<1>10. f \in DOMAIN objs2[o].fields
  BY <1>4, <1>5, <1>7
<1>11. QED
  BY <1>7, <1>8, <1>9, <1>10 DEF MadeSound, ObjectsGrow, SameObjects, R
-----------------------------------------------------------------------------
Promises == [methods : UNION {[S -> Int] : S \in SUBSET (Nat \X Method)}, lost : BOOLEAN]

MethodsOf(handlers, rs) == [i \in DOMAIN handlers |-> rs[handlers[i]]]

PromisesKept(objs, rs, prom) ==
  /\ prom \in Seq(Promises) /\ Len(prom) = Len(objs)
  /\ \A o \in DOMAIN objs : ~prom[o].lost => prom[o].methods = ToBag(MethodsOf(objs[o].handlers, rs))

Initialized(ini, vals) == ini \subseteq Class /\ \A c \in ini : NamesOf(c, TRUE) \subseteq DOMAIN vals[c]

PartsSound(vals, objs, s, ini, rs, prom) ==
  /\ ValuesSound(vals) /\ Initialized(ini, vals)
  /\ rs \in Seq(Nat \X Method)
  /\ MadeSound(objs, DOMAIN rs)
  /\ s \in Seq(ActSound(vals, objs)) /\ Linked(s)
  /\ PromisesKept(objs, rs, prom)

Empty ==
  /\ initialized = {} /\ values = [c \in Class |-> <<>>] /\ stack = <<>> /\ made = <<>>
  /\ refs = <<>> /\ kept = {} /\ promised = <<>>

RuntimeSound ==
  /\ ProgramSound
  /\ state \in {"waits", "runs", "done", "error", "recursion"}
  /\ state = "waits" => Empty
  /\ Started
  /\ state # "waits" => phase \in Ended /\ Resolved /\ shape.templates = {}
  /\ begun \in [Class -> Nat] /\ kept \subseteq DOMAIN refs
  /\ PartsSound(values, made, stack, initialized, refs, promised)
  /\ state # "recursion" => Whole(made, stack)

-----------------------------------------------------------------------------
(* A value goes into the field the activation on top of acts is at.        *)
SameActs(s, t) ==
  /\ Len(t) = Len(s)
  /\ \A k \in 1 .. Len(s) : t[k].of = s[k].of /\ (s[k].of = "instance" => t[k].me = s[k].me)

LEMMA Kinds ==
  ASSUME NEW vals, NEW objs, NEW a \in ActSound(vals, objs)
  PROVE  /\ a.of \in {"fire", "shared", "instance"}
         /\ a.of = "fire" <=> a \in FireSound
         /\ a.of = "shared" <=> a \in SharedSound(vals)
         /\ a.of = "instance" <=> a \in InstanceSound(objs)
<1>1. a \in FireSound => a.of = "fire"
  BY DEF FireSound
<1>2. a \in SharedSound(vals) => a.of = "shared"
  BY DEF SharedSound
<1>3. a \in InstanceSound(objs) => a.of = "instance"
  BY DEF InstanceSound
<1>4. QED
  BY <1>1, <1>2, <1>3 DEF ActSound

(* One field less is left. *)
LEMMA FieldDone ==
  ASSUME NEW S, S \subseteq Field, NEW left \in Seq(S), left # <<>>,
         NEW g, NEW i \in 1 .. Len(left), left[i] = g, g # Head(left)
  PROVE  \E j \in 1 .. Len(Tail(left)) : Tail(left)[j] = g
<1>1. Len(Tail(left)) = Len(left) - 1 /\ \A j \in 1 .. Len(Tail(left)) : Tail(left)[j] = left[j + 1]
  BY HeadTailProperties
<1>2. Len(left) \in Nat /\ Head(left) = left[1]
  BY LenProperties
<1>3. i # 1
  BY <1>2
<1>4. i - 1 \in 1 .. Len(Tail(left)) /\ (i - 1) + 1 = i
  BY <1>1, <1>2, <1>3
<1>5. QED
  BY <1>1, <1>4

LEMMA SharedStep ==
  ASSUME NEW vals, ValuesSound(vals), NEW a \in SharedSound(vals), a.left # <<>>, NEW v \in Int,
         NEW vals2, vals2 = ValuesWith(vals, a.class, Head(a.left), v),
         NEW b, b = Shorter(a)
  PROVE  /\ ValuesSound(vals2) /\ ValuesGrow(vals, vals2)
         /\ b \in SharedSound(vals2) /\ b.of = a.of
<1>1. /\ a \in [of : {"shared"}, class : Class, left : Seq(Field), waits : Seq(Class)]
      /\ a.left \in Seq(NamesOf(a.class, TRUE))
      /\ \A g \in NamesOf(a.class, TRUE) :
           g \in DOMAIN vals[a.class] \/ \E i \in 1 .. Len(a.left) : a.left[i] = g
  BY DEF SharedSound
<1>2. /\ Head(a.left) \in NamesOf(a.class, TRUE) /\ Tail(a.left) \in Seq(NamesOf(a.class, TRUE))
      /\ Tail(a.left) \in Seq(Field)
  <2>1. NamesOf(a.class, TRUE) \subseteq Field
    BY NamesFinite
  <2>2. QED
    BY <1>1, <2>1, LeftIs
<1>3. ValuesSound(vals2) /\ ValuesGrow(vals, vals2) /\ Head(a.left) \in DOMAIN vals2[a.class]
  <2>1. a.class \in Class
    BY <1>1
  <2>2. QED
    BY <1>2, <2>1, ValueSet
<1>4. /\ b \in [of : {"shared"}, class : Class, left : Seq(Field), waits : Seq(Class)]
      /\ b.class = a.class /\ b.left = Tail(a.left) /\ b.of = a.of
  BY <1>1, <1>2 DEF Shorter
<1>5. ASSUME NEW g \in NamesOf(a.class, TRUE), g \notin DOMAIN vals2[a.class]
      PROVE  \E i \in 1 .. Len(Tail(a.left)) : Tail(a.left)[i] = g
  <2>1. g \notin DOMAIN vals[a.class] /\ g # Head(a.left)
    BY <1>1, <1>3, <1>5 DEF ValuesGrow
  <2>2. PICK i \in 1 .. Len(a.left) : a.left[i] = g
    BY <1>1, <2>1
  <2>3. NamesOf(a.class, TRUE) \subseteq Field
    BY NamesFinite
  <2>4. QED
    BY <1>1, <2>1, <2>2, <2>3, FieldDone
<1>6. b \in SharedSound(vals2)
  <2>0. b.class = a.class /\ b.left = Tail(a.left)
    BY <1>4
  <2>1. \A g \in NamesOf(b.class, TRUE) : g \in DOMAIN vals2[b.class] \/ \E i \in 1 .. Len(b.left) : b.left[i] = g
    BY ONLY <1>5, <2>0
  <2>2. b.left \in Seq(NamesOf(b.class, TRUE))
    BY <1>2, <1>4
  <2>3. QED
    BY <1>4, <2>1, <2>2 DEF SharedSound
<1>7. QED
  BY <1>3, <1>4, <1>6

LEMMA InstanceStep ==
  ASSUME NEW objs, NEW known, MadeSound(objs, known), NEW a \in InstanceSound(objs), a.left # <<>>, NEW v \in Int,
         NEW objs2, objs2 = ObjectsWith(objs, a.me, Head(a.left), v),
         NEW b, b = Shorter(a)
  PROVE  /\ MadeSound(objs2, known) /\ ObjectsGrow(objs, objs2)
         /\ SameObjects(objs, objs2)
         /\ b \in InstanceSound(objs2) /\ b.of = a.of /\ b.me = a.me
<1>1. /\ a \in [of : {"instance"}, class : Class, me : Nat, left : Seq(Field), waits : Seq(Class)]
      /\ a.me \in DOMAIN objs /\ objs[a.me].class = a.class
      /\ a.left \in Seq(NamesOf(a.class, FALSE))
      /\ \A g \in NamesOf(a.class, FALSE) :
           g \in DOMAIN objs[a.me].fields \/ \E i \in 1 .. Len(a.left) : a.left[i] = g
  BY DEF InstanceSound
<1>2. /\ Head(a.left) \in NamesOf(a.class, FALSE) /\ Tail(a.left) \in Seq(NamesOf(a.class, FALSE))
      /\ Tail(a.left) \in Seq(Field)
  <2>1. NamesOf(a.class, FALSE) \subseteq Field
    BY NamesFinite
  <2>2. QED
    BY <1>1, <2>1, LeftIs
<1>3. /\ MadeSound(objs2, known) /\ ObjectsGrow(objs, objs2) /\ Head(a.left) \in DOMAIN objs2[a.me].fields
      /\ SameObjects(objs, objs2)
  <2> DEFINE o == a.me
             f == Head(a.left)
  <2>1. o \in DOMAIN objs /\ f \in NamesOf(objs[o].class, FALSE) /\ objs2 = ObjectsWith(objs, o, f, v)
    BY <1>1, <1>2
  <2> HIDE DEF o, f
  <2>2. /\ MadeSound(objs2, known) /\ ObjectsGrow(objs, objs2) /\ f \in DOMAIN objs2[o].fields
        /\ SameObjects(objs, objs2)
    BY ONLY <2>1, MadeSound(objs, known), v \in Int, FieldSet
  <2>3. QED
    BY <2>2 DEF o, f
<1>4. /\ b \in [of : {"instance"}, class : Class, me : Nat, left : Seq(Field), waits : Seq(Class)]
      /\ b.class = a.class /\ b.left = Tail(a.left) /\ b.of = a.of /\ b.me = a.me
  BY <1>1, <1>2 DEF Shorter
<1>5. ASSUME NEW g \in NamesOf(a.class, FALSE), g \notin DOMAIN objs2[a.me].fields
      PROVE  \E i \in 1 .. Len(Tail(a.left)) : Tail(a.left)[i] = g
  <2>1. g \notin DOMAIN objs[a.me].fields /\ g # Head(a.left)
    BY <1>1, <1>3, <1>5 DEF ObjectsGrow
  <2>2. PICK i \in 1 .. Len(a.left) : a.left[i] = g
    BY <1>1, <2>1
  <2>3. NamesOf(a.class, FALSE) \subseteq Field
    BY NamesFinite
  <2>4. QED
    BY <1>1, <2>1, <2>2, <2>3, FieldDone
<1>6. b \in InstanceSound(objs2)
  <2>0. b.class = a.class /\ b.left = Tail(a.left) /\ b.me = a.me
    BY <1>4
  <2>1. \A g \in NamesOf(b.class, FALSE) : g \in DOMAIN objs2[b.me].fields \/ \E i \in 1 .. Len(b.left) : b.left[i] = g
    BY ONLY <1>5, <2>0
  <2>2. b.left \in Seq(NamesOf(b.class, FALSE)) /\ b.me \in DOMAIN objs2 /\ objs2[b.me].class = b.class
    <3>1. a.me \in DOMAIN objs2 /\ objs2[a.me].class = a.class
      BY <1>1, <1>3 DEF SameObjects
    <3>2. QED
      BY ONLY <1>2, <2>0, <3>1
  <2>3. QED
    BY <1>4, <2>1, <2>2 DEF InstanceSound
<1>7. QED
  BY <1>3, <1>4, <1>6

LEMMA AssignSound ==
  ASSUME ProgramSound, ValuesSound(values), MadeSound(made, DOMAIN refs),
         NEW acts \in Seq(ActSound(values, made)), Linked(acts),
         acts # <<>> => Head(acts).of # "fire" /\ Head(acts).left # <<>>,
         NEW v \in Int, Assign(v, acts)
  PROVE  /\ ValuesSound(values') /\ ValuesGrow(values, values')
         /\ MadeSound(made', DOMAIN refs) /\ ObjectsGrow(made, made')
         /\ SameObjects(made, made')
         /\ stack' \in Seq(ActSound(values', made')) /\ Linked(stack') /\ SameActs(acts, stack')
<1>1. CASE acts = <<>>
  <2>1. stack' = <<>> /\ values' = values /\ made' = made
    BY <1>1 DEF Assign
  <2>2. <<>> \in Seq(ActSound(values', made')) /\ Len(<<>>) = 0
    OBVIOUS
  <2>3. QED
    BY <1>1, <2>1, <2>2 DEF ValuesGrow, ObjectsGrow, SameObjects, Linked, SameActs
<1>2. CASE acts # <<>>
  <2> DEFINE a == Head(acts)
             f == Head(a.left)
             b == Shorter(a)
             below == Tail(acts)
  <2>1. /\ a \in ActSound(values, made) /\ a.of # "fire" /\ a.left # <<>>
        /\ below \in Seq(ActSound(values, made)) /\ Linked(below) /\ Fitted(a, below)
        /\ a = acts[1] /\ Len(acts) \in Nat \ {0} /\ Len(below) = Len(acts) - 1
        /\ \A k \in 1 .. Len(acts) - 1 : below[k] = acts[k + 1]
    BY <1>2, LinkedPop
  <2>2. /\ stack' = <<AtField(b)>> \o below
        /\ IF a.of = "shared" THEN values' = ValuesWith(values, a.class, f, v) /\ made' = made
           ELSE made' = ObjectsWith(made, a.me, f, v) /\ values' = values
    BY <1>2 DEF Assign, Shorter, ValuesWith, ObjectsWith
  <2> HIDE DEF a, below
  <2>3. /\ ValuesSound(values') /\ ValuesGrow(values, values')
        /\ MadeSound(made', DOMAIN refs) /\ ObjectsGrow(made, made')
        /\ SameObjects(made, made')
        /\ b \in SharedSound(values') \cup InstanceSound(made')
        /\ b.of = a.of /\ (a.of = "instance" => b.me = a.me)
    <3> HIDE DEF b
    <3>0. b = Shorter(a)
      BY DEF b
    <3>1. CASE a.of = "shared"
      <4>1. a \in SharedSound(values) /\ a.left # <<>>
        BY <2>1, <3>1, Kinds
      <4>2. values' = ValuesWith(values, a.class, Head(a.left), v) /\ made' = made
        BY <2>2, <3>1
      <4>3. /\ ValuesSound(values') /\ ValuesGrow(values, values')
            /\ b \in SharedSound(values') /\ b.of = a.of
        BY <3>0, <4>1, <4>2, SharedStep
      <4>4. QED
        BY <3>1, <4>2, <4>3 DEF ObjectsGrow, SameObjects
    <3>2. CASE a.of # "shared"
      <4>1. a \in InstanceSound(made) /\ a.left # <<>>
        BY <2>1, <3>2, Kinds
      <4>2. made' = ObjectsWith(made, a.me, Head(a.left), v) /\ values' = values
        BY <2>2, <3>2
      <4>3. /\ MadeSound(made', DOMAIN refs) /\ ObjectsGrow(made, made')
            /\ SameObjects(made, made')
            /\ b \in InstanceSound(made') /\ b.of = a.of /\ b.me = a.me
        BY <3>0, <4>1, <4>2, InstanceStep
      <4>4. QED
        BY <3>2, <4>2, <4>3 DEF ValuesGrow
    <3>3. QED
      BY <3>1, <3>2
  <2> HIDE DEF b
  <2>4. /\ AtField(b) \in ActSound(values', made') /\ AtField(b).of = a.of
        /\ a.of = "instance" => AtField(b).me = a.me
    BY <2>3, AtFieldSound DEF Awaited, ActSound
  <2>5. below \in Seq(ActSound(values', made'))
    BY <2>1, <2>3, ActsStaySound, SeqMonotonic
  <2>6. Fitted(AtField(b), below)
    BY <2>1, <2>4 DEF Fitted
  <2>7. stack' \in Seq(ActSound(values', made')) /\ Linked(stack')
    <3>1. <<AtField(b)>> \o below \in Seq(ActSound(values', made')) /\ Linked(<<AtField(b)>> \o below)
      BY <2>1, <2>4, <2>5, <2>6, PushIs, LinkedPush
    <3>2. QED
      BY <2>2, <3>1
  <2>8. SameActs(acts, stack')
    <3>1. /\ Len(stack') = Len(below) + 1 /\ stack'[1] = AtField(b)
          /\ \A k \in 1 .. Len(below) : stack'[k + 1] = below[k]
      BY <2>2, <2>4, <2>5, PushIs
    <3>2. ASSUME NEW k \in 1 .. Len(acts)
          PROVE  stack'[k].of = acts[k].of /\ (acts[k].of = "instance" => stack'[k].me = acts[k].me)
      <4>1. CASE k = 1
        BY <2>1, <2>4, <3>1, <4>1
      <4>2. CASE k # 1
        <5>1. PICK j \in 1 .. Len(below) : k = j + 1
          BY <2>1, <4>2
        <5>2. stack'[k] = below[j] /\ below[j] = acts[k]
          BY <2>1, <3>1, <5>1
        <5>3. QED
          BY <5>2
      <4>3. QED
        BY <4>1, <4>2
    <3>3. QED
      BY <2>1, <3>1, <3>2 DEF SameActs
  <2>9. QED
    BY <2>3, <2>7, <2>8
<1>3. QED
  BY <1>1, <1>2
-----------------------------------------------------------------------------
(* What a push, a pop and a change of the top leave.                       *)
LEMMA SameUnderWay ==
  ASSUME NEW s, NEW t, SameActs(s, t), NEW o, UnderWay(o, s)
  PROVE  UnderWay(o, t)
BY DEF SameActs, UnderWay

LEMMA Pushed ==
  ASSUME NEW S, NEW s \in Seq(S), NEW a \in S, Linked(s), Fitted(a, s)
  PROVE  /\ <<a>> \o s \in Seq(S) /\ Linked(<<a>> \o s)
         /\ \A o : UnderWay(o, s) => UnderWay(o, <<a>> \o s)
         /\ a.of = "instance" => UnderWay(a.me, <<a>> \o s)
<1> DEFINE t == <<a>> \o s
<1>1. /\ t \in Seq(S) /\ Len(t) = Len(s) + 1 /\ Len(s) \in Nat
      /\ t[1] = a /\ \A k \in 1 .. Len(s) : t[k + 1] = s[k]
  BY PushIs
<1>2. Linked(t)
  BY LinkedPush
<1> HIDE DEF t
<1>3. ASSUME NEW o, UnderWay(o, s) PROVE UnderWay(o, t)
  <2>1. PICK k \in 1 .. Len(s) : s[k].of = "instance" /\ s[k].me = o
    BY <1>3 DEF UnderWay
  <2>2. k + 1 \in 1 .. Len(t) /\ t[k + 1] = s[k]
    BY <1>1
  <2>3. QED
    BY <2>1, <2>2 DEF UnderWay
<1>4. a.of = "instance" => UnderWay(a.me, t)
  BY <1>1 DEF UnderWay
<1>5. QED
  BY <1>1, <1>2, <1>3, <1>4 DEF t

LEMMA Popped ==
  ASSUME NEW S, NEW s \in Seq(S), s # <<>>, Linked(s), NEW o, UnderWay(o, s)
  PROVE  UnderWay(o, Tail(s)) \/ (Head(s).of = "instance" /\ Head(s).me = o)
<1>1. /\ Head(s) = s[1] /\ Len(s) \in Nat \ {0} /\ Len(Tail(s)) = Len(s) - 1
      /\ \A k \in 1 .. Len(s) - 1 : Tail(s)[k] = s[k + 1]
  BY LinkedPop
<1>2. PICK k \in 1 .. Len(s) : s[k].of = "instance" /\ s[k].me = o
  BY DEF UnderWay
<1>3. CASE k = 1
  BY <1>1, <1>2, <1>3
<1>4. CASE k # 1
  <2>1. PICK j \in 1 .. Len(s) - 1 : k = j + 1
    BY <1>1, <1>4
  <2>2. j \in 1 .. Len(Tail(s)) /\ Tail(s)[j] = s[k]
    BY <1>1, <2>1
  <2>3. QED
    BY <1>2, <2>2 DEF UnderWay
<1>5. QED
  BY <1>3, <1>4

LEMMA TopChanged ==
  ASSUME NEW S, NEW s \in Seq(S), s # <<>>, Linked(s), NEW a \in S,
         a.of = Head(s).of, a.of = "instance" => a.me = Head(s).me
  PROVE  <<a>> \o Tail(s) \in Seq(S) /\ Linked(<<a>> \o Tail(s)) /\ SameActs(s, <<a>> \o Tail(s))
<1> DEFINE t == <<a>> \o Tail(s)
<1>1. /\ Tail(s) \in Seq(S) /\ Linked(Tail(s)) /\ Fitted(Head(s), Tail(s))
      /\ Head(s) = s[1] /\ Len(s) \in Nat \ {0} /\ Len(Tail(s)) = Len(s) - 1
      /\ \A k \in 1 .. Len(s) - 1 : Tail(s)[k] = s[k + 1]
  BY LinkedPop
<1>2. Fitted(a, Tail(s))
  BY <1>1 DEF Fitted
<1>3. t \in Seq(S) /\ Linked(t)
  BY <1>1, <1>2, Pushed
<1>4. Len(t) = Len(Tail(s)) + 1 /\ t[1] = a /\ \A k \in 1 .. Len(Tail(s)) : t[k + 1] = Tail(s)[k]
  BY <1>1, PushIs
<1> HIDE DEF t
<1>5. ASSUME NEW k \in 1 .. Len(s)
      PROVE  t[k].of = s[k].of /\ (s[k].of = "instance" => t[k].me = s[k].me)
  <2>1. CASE k = 1
    BY <1>1, <1>4, <2>1
  <2>2. CASE k # 1
    <3>1. PICK j \in 1 .. Len(s) - 1 : k = j + 1
      BY <1>1, <2>2
    <3>2. t[k] = s[k]
      BY <1>1, <1>4, <3>1
    <3>3. QED
      BY <3>2
  <2>3. QED
    BY <2>1, <2>2
<1>6. QED
  BY <1>1, <1>3, <1>4, <1>5 DEF SameActs, t

LEMMA WholeStays ==
  ASSUME NEW objs, NEW s, Whole(objs, s), NEW objs2, ObjectsGrow(objs, objs2), SameObjects(objs, objs2),
         NEW t, \A o \in DOMAIN objs : UnderWay(o, s) =>
                  UnderWay(o, t) \/ NamesOf(objs[o].class, FALSE) \subseteq DOMAIN objs[o].fields
  PROVE  Whole(objs2, t)
<1>1. ASSUME NEW o \in DOMAIN objs2
      PROVE  NamesOf(objs2[o].class, FALSE) \subseteq DOMAIN objs2[o].fields \/ UnderWay(o, t)
  <2>1. o \in DOMAIN objs /\ objs2[o].class = objs[o].class
    BY DEF SameObjects
  <2>2. DOMAIN objs[o].fields \subseteq DOMAIN objs2[o].fields
    BY <2>1 DEF ObjectsGrow
  <2>3. NamesOf(objs[o].class, FALSE) \subseteq DOMAIN objs[o].fields \/ UnderWay(o, t)
    BY <2>1 DEF Whole
  <2>4. QED
    BY <2>1, <2>2, <2>3
<1>2. QED
  BY <1>1 DEF Whole

LEMMA PromisesStay ==
  ASSUME NEW objs, NEW rs, NEW prom, PromisesKept(objs, rs, prom), NEW objs2, SameObjects(objs, objs2)
  PROVE  PromisesKept(objs2, rs, prom)
<1>1. ASSUME NEW o \in DOMAIN objs2, ~prom[o].lost
      PROVE  prom[o].methods = ToBag(MethodsOf(objs2[o].handlers, rs))
  <2>1. o \in DOMAIN objs /\ objs2[o].handlers = objs[o].handlers
    BY DEF SameObjects
  <2>2. QED
    BY <1>1, <2>1 DEF PromisesKept
<1>2. prom \in Seq(Promises) /\ Len(prom) = Len(objs2)
  BY DEF PromisesKept, SameObjects
<1>3. QED
  BY <1>1, <1>2 DEF PromisesKept
-----------------------------------------------------------------------------
(* Each step of the executor keeps the parts of the invariant.             *)
Parts == PartsSound(values, made, stack, initialized, refs, promised) /\ Whole(made, stack)

PartsNext ==
  /\ PartsSound(values', made', stack', initialized', refs', promised')
  /\ state' # "recursion" => Whole(made', stack')

LEMMA SharedIs ==
  ASSUME NEW vals, NEW a \in SharedSound(vals)
  PROVE  /\ a.class \in Class /\ a.waits \in Seq(Class) /\ a.left \in Seq(NamesOf(a.class, TRUE))
         /\ a.left = <<>> => NamesOf(a.class, TRUE) \subseteq DOMAIN vals[a.class]
<1>1. a.class \in Class /\ a.waits \in Seq(Class) /\ a.left \in Seq(NamesOf(a.class, TRUE))
  BY DEF SharedSound
<1>2. \A f \in NamesOf(a.class, TRUE) : f \in DOMAIN vals[a.class] \/ \E i \in 1 .. Len(a.left) : a.left[i] = f
  BY DEF SharedSound
<1>3. a.left = <<>> => 1 .. Len(a.left) = {}
  OBVIOUS
<1>4. a.left = <<>> => NamesOf(a.class, TRUE) \subseteq DOMAIN vals[a.class]
  BY ONLY <1>2, <1>3
<1>5. QED
  BY <1>1, <1>4

LEMMA InstanceIs ==
  ASSUME NEW objs, NEW a \in InstanceSound(objs)
  PROVE  /\ a.class \in Class /\ a.waits \in Seq(Class) /\ a.left \in Seq(NamesOf(a.class, FALSE))
         /\ a.me \in DOMAIN objs /\ a.me \in Nat /\ objs[a.me].class = a.class
         /\ a.left = <<>> => NamesOf(a.class, FALSE) \subseteq DOMAIN objs[a.me].fields
<1>1. /\ a.class \in Class /\ a.waits \in Seq(Class) /\ a.left \in Seq(NamesOf(a.class, FALSE))
      /\ a.me \in DOMAIN objs /\ a.me \in Nat /\ objs[a.me].class = a.class
  BY DEF InstanceSound
<1>2. \A f \in NamesOf(a.class, FALSE) :
        f \in DOMAIN objs[a.me].fields \/ \E i \in 1 .. Len(a.left) : a.left[i] = f
  BY DEF InstanceSound
<1>3. a.left = <<>> => 1 .. Len(a.left) = {}
  OBVIOUS
<1>4. a.left = <<>> => NamesOf(a.class, FALSE) \subseteq DOMAIN objs[a.me].fields
  BY ONLY <1>2, <1>3
<1>5. QED
  BY <1>1, <1>4

LEMMA InitializedStays ==
  ASSUME NEW ini, NEW vals, NEW vals2, Initialized(ini, vals), ValuesGrow(vals, vals2)
  PROVE  Initialized(ini, vals2)
BY DEF Initialized, ValuesGrow

LEMMA NothingGrows ==
  ASSUME NEW vals, NEW objs
  PROVE  ValuesGrow(vals, vals) /\ ObjectsGrow(objs, objs) /\ SameObjects(objs, objs)
BY DEF ValuesGrow, ObjectsGrow, SameObjects

(* Only the stack changes. *)
LEMMA StackStep ==
  ASSUME Parts, UNCHANGED <<values, made, initialized, refs, promised>>,
         stack' \in Seq(ActSound(values, made)), Linked(stack'),
         state' # "recursion" => Whole(made, stack')
  PROVE  PartsNext
BY DEF Parts, PartsSound, PartsNext

LEMMA EnterStep ==
  ASSUME Parts, UNCHANGED <<values, made, initialized, refs, promised>>,
         NEW under \in Seq(ActSound(values, made)), Linked(under), SameActs(stack, under),
         NEW a \in ActSound(values, made), Fitted(a, under),
         Enter(a, under)
  PROVE  PartsNext
<1>1. \A o : UnderWay(o, stack) => UnderWay(o, under)
  BY SameUnderWay
<1>2. <<a>> \o under \in Seq(ActSound(values, made)) /\ Linked(<<a>> \o under)
      /\ \A o : UnderWay(o, under) => UnderWay(o, <<a>> \o under)
  BY Pushed
<1>3. Whole(made, <<a>> \o under)
  BY <1>1, <1>2, NothingGrows, WholeStays DEF Parts
<1>4. stack \in Seq(ActSound(values, made)) /\ Linked(stack) /\ Whole(made, stack)
  BY DEF Parts, PartsSound
<1>5. stack' = <<a>> \o under \/ (state' = "recursion" /\ stack' = stack)
  BY DEF Enter
<1>6. QED
  BY <1>2, <1>3, <1>4, <1>5, StackStep

LEMMA EnsureStep ==
  ASSUME ProgramSound, Parts, EnsureInitialized
  PROVE  PartsNext
<1> DEFINE S == ActSound(values, made)
<1>1. stack \in Seq(S) /\ Linked(stack) /\ stack # <<>> /\ Top.of \in {"shared", "instance"} /\ Top.waits # <<>>
  BY DEF Parts, PartsSound, EnsureInitialized, InFields
<1> DEFINE c == Head(Top.waits)
           b == [Top EXCEPT !.waits = Tail(@)]
           under == <<b>> \o Below
<1>2. Top \in S
  BY <1>1, HeadTailProperties DEF Top
<1>3. Top.waits \in Seq(Class)
  <2>1. Top \in SharedSound(values) \/ Top \in InstanceSound(made)
    BY <1>1, <1>2, Kinds
  <2>2. QED
    BY <2>1, SharedIs, InstanceIs
<1>4. c \in Class /\ Tail(Top.waits) \in Seq(Class)
  BY <1>1, <1>3, HeadTailProperties
<1>5. b \in S /\ b.of = Top.of /\ (b.of = "instance" => b.me = Top.me)
  <2>1. CASE Top.of = "shared"
    <3>1. Top \in SharedSound(values)
      BY <1>2, <2>1, Kinds
    <3>2. b \in SharedSound(values) /\ b.of = Top.of
      BY <1>4, <3>1 DEF SharedSound
    <3>3. QED
      BY <2>1, <3>2 DEF ActSound
  <2>2. CASE Top.of = "instance"
    <3>1. Top \in InstanceSound(made)
      BY <1>2, <2>2, Kinds
    <3>2. b \in InstanceSound(made) /\ b.of = Top.of /\ b.me = Top.me
      BY <1>4, <3>1 DEF InstanceSound
    <3>3. QED
      BY <2>2, <3>2 DEF ActSound
  <2>3. QED
    BY <1>1, <2>1, <2>2
<1>6. UNCHANGED <<values, made, initialized, refs, promised>>
  BY DEF EnsureInitialized, events
<1>7. \/ c \in initialized /\ stack' = under
      \/ Enter(SharedInits(c), under)
  BY DEF EnsureInitialized
<1> HIDE DEF b, c, S
<1>8. under \in Seq(S) /\ Linked(under) /\ SameActs(stack, under)
  BY <1>1, <1>5, TopChanged DEF Top, Below
<1>9. Head(under) = b
  BY <1>5, <1>8
<1> HIDE DEF under
<1>10. CASE stack' = under
  <2>1. Whole(made, under)
    BY <1>8, SameUnderWay, NothingGrows, WholeStays DEF Parts
  <2>2. QED
    BY <1>6, <1>8, <1>10, <2>1, StackStep DEF S
<1>11. CASE Enter(SharedInits(c), under)
  <2>1. SharedInits(c) \in S /\ SharedInits(c).of = "shared"
    BY <1>4, SharedInitsSound DEF S, ActSound
  <2>2. Fitted(SharedInits(c), under)
    BY <1>1, <1>5, <1>9, <2>1 DEF Fitted
  <2>3. QED
    BY <1>6, <1>8, <1>11, <2>1, <2>2, EnterStep DEF S
<1>12. QED
  BY <1>7, <1>10, <1>11

LEMMA SharedDoneStep ==
  ASSUME Parts, SharedDone
  PROVE  PartsNext
<1> DEFINE S == ActSound(values, made)
<1>1. stack \in Seq(S) /\ Linked(stack) /\ stack # <<>> /\ Top.of = "shared" /\ Top.left = <<>>
  BY DEF Parts, PartsSound, SharedDone, InFields
<1>2. Top \in S /\ Below \in Seq(S) /\ Linked(Below)
  BY <1>1, LinkedPop DEF Top, Below
<1>3. Top \in SharedSound(values)
  BY <1>1, <1>2, Kinds
<1>4. Top.class \in Class /\ NamesOf(Top.class, TRUE) \subseteq DOMAIN values[Top.class]
  BY <1>1, <1>3, SharedIs
<1>5. Initialized(initialized \cup {Top.class}, values)
  BY <1>4 DEF Parts, PartsSound, Initialized
<1>6. \A o : UnderWay(o, stack) => UnderWay(o, Below)
  BY <1>1, Popped DEF Top, Below
<1>7. Whole(made, Below)
  BY <1>6, NothingGrows, WholeStays DEF Parts
<1>8. /\ UNCHANGED <<values, made, refs, promised>> /\ stack' = Below
      /\ initialized' = initialized \cup {Top.class}
  BY DEF SharedDone, events
<1>9. QED
  BY <1>2, <1>5, <1>7, <1>8 DEF Parts, PartsSound, PartsNext

LEMMA AssignStep ==
  ASSUME ProgramSound, Parts, UNCHANGED <<initialized, refs, promised>>,
         NEW acts \in Seq(ActSound(values, made)), Linked(acts),
         acts # <<>> => Head(acts).of # "fire" /\ Head(acts).left # <<>>,
         \A o \in DOMAIN made : UnderWay(o, stack) =>
           UnderWay(o, acts) \/ NamesOf(made[o].class, FALSE) \subseteq DOMAIN made[o].fields,
         NEW v \in Int, Assign(v, acts)
  PROVE  PartsNext
<1>1. /\ ValuesSound(values') /\ ValuesGrow(values, values')
      /\ MadeSound(made', DOMAIN refs) /\ ObjectsGrow(made, made') /\ SameObjects(made, made')
      /\ stack' \in Seq(ActSound(values', made')) /\ Linked(stack') /\ SameActs(acts, stack')
  BY AssignSound DEF Parts, PartsSound
<1>2. Initialized(initialized, values')
  BY <1>1, InitializedStays DEF Parts, PartsSound
<1>3. Whole(made', stack')
  BY <1>1, SameUnderWay, WholeStays DEF Parts
<1>4. PromisesKept(made', refs, promised)
  BY <1>1, PromisesStay DEF Parts, PartsSound
<1>5. QED
  BY <1>1, <1>2, <1>3, <1>4 DEF Parts, PartsSound, PartsNext

LEMMA InstanceDoneStep ==
  ASSUME ProgramSound, Parts, InstanceDone
  PROVE  PartsNext
<1> DEFINE S == ActSound(values, made)
<1>1. stack \in Seq(S) /\ Linked(stack) /\ stack # <<>> /\ Top.of = "instance" /\ Top.left = <<>>
  BY DEF Parts, PartsSound, InstanceDone, InFields
<1>2. Top \in S /\ Below \in Seq(S) /\ Linked(Below) /\ Fitted(Top, Below)
  BY <1>1, LinkedPop DEF Top, Below
<1>3. Top \in InstanceSound(made)
  BY <1>1, <1>2, Kinds
<1>4. /\ Top.me \in Nat /\ made[Top.me].class = Top.class
      /\ NamesOf(Top.class, FALSE) \subseteq DOMAIN made[Top.me].fields
  BY <1>1, <1>3, InstanceIs
<1>5. Below # <<>> => Head(Below).of # "fire" /\ Head(Below).left # <<>>
  BY <1>1, <1>2 DEF Fitted
<1>6. ASSUME NEW o \in DOMAIN made, UnderWay(o, stack)
      PROVE  UnderWay(o, Below) \/ NamesOf(made[o].class, FALSE) \subseteq DOMAIN made[o].fields
  <2>1. UnderWay(o, Below) \/ Top.me = o
    BY <1>1, <1>6, Popped DEF Top, Below
  <2>2. QED
    BY <1>4, <2>1
<1>7. Assign(Top.me, Below) /\ UNCHANGED <<initialized, refs, promised>>
  BY DEF InstanceDone, events
<1>8. Top.me \in Int
  BY <1>4
<1>9. QED
  BY <1>2, <1>5, <1>6, <1>7, <1>8, AssignStep DEF S

(* An activation of shared fields has no field of Me to read. *)
LEMMA OwnIsInstance ==
  ASSUME ProgramSound, Resolved, shape.templates = {},
         NEW vals, NEW a \in SharedSound(vals), a.left # <<>>
  PROVE  InitOf(a.class, Head(a.left)).kind # "own"
<1>1. a.class \in Class /\ Head(a.left) \in NamesOf(a.class, TRUE)
  BY SharedIs, HeadTailProperties
<1>2. SUFFICES ASSUME InitOf(a.class, Head(a.left)).kind = "own" PROVE FALSE
  OBVIOUS
<1>3. Resolves(a.class, Head(a.left))
  BY <1>1, NamesFinite DEF Resolved
<1>4. Head(a.left) \in NamesOf(a.class, FALSE)
  BY <1>2, <1>3 DEF Resolves
<1>5. declared[a.class][Declared(a.class, Head(a.left))].shared = TRUE
  BY <1>1, DeclaredIs
<1>6. declared[a.class][Declared(a.class, Head(a.left))].shared = FALSE
  BY <1>1, <1>4, DeclaredIs
<1>7. QED
  BY <1>5, <1>6

LEMMA ObjectIs ==
  ASSUME NEW objs, NEW known, MadeSound(objs, known), NEW o \in DOMAIN objs
  PROVE  /\ objs[o] \in [class : Class, fields : FieldValues, handlers : Seq(known)]
         /\ o \in Nat /\ objs[o].class \in Class /\ objs[o].fields \in FieldValues
         /\ objs[o].handlers \in Seq(known)
<1> DEFINE R == [class : Class, fields : FieldValues, handlers : Seq(known)]
<1>1. objs \in Seq(R)
  BY DEF MadeSound
<1> HIDE DEF R
<1>2. DOMAIN objs = 1 .. Len(objs) /\ Len(objs) \in Nat
  BY <1>1, LenProperties
<1>3. objs[o] \in R /\ o \in Nat
  BY <1>1, <1>2, ElementOfSeq
<1>4. QED
  BY <1>3 DEF R

LEMMA AtInitIs ==
  ASSUME ProgramSound, Parts, AtInit
  PROVE  /\ stack \in Seq(ActSound(values, made)) /\ Linked(stack) /\ stack # <<>>
         /\ Top \in SharedSound(values) \/ Top \in InstanceSound(made)
         /\ Top.of # "fire" /\ Top.left # <<>> /\ Top.class \in Class /\ TopInit \in Inits
<1>1. /\ stack \in Seq(ActSound(values, made)) /\ Linked(stack) /\ stack # <<>>
      /\ Top.of \in {"shared", "instance"} /\ Top.left # <<>>
  BY DEF Parts, PartsSound, AtInit, InFields
<1>2. Top \in ActSound(values, made)
  BY <1>1, LinkedPop DEF Top
<1>3. Top \in SharedSound(values) \/ Top \in InstanceSound(made)
  BY <1>1, <1>2, Kinds
<1>4. Top.class \in Class /\ \E shrd \in BOOLEAN : Top.left \in Seq(NamesOf(Top.class, shrd))
  BY <1>3, SharedIs, InstanceIs
<1>5. TopInit \in Inits
  <2>1. \E shrd \in BOOLEAN : Head(Top.left) \in NamesOf(Top.class, shrd)
    BY <1>1, <1>4, HeadTailProperties
  <2>2. QED
    BY <1>4, <2>1, DeclaredIs DEF TopInit
<1>6. QED
  BY <1>1, <1>3, <1>4, <1>5

LEMMA PlainStep ==
  ASSUME ProgramSound, Resolved, shape.templates = {}, Parts, EvaluatePlain
  PROVE  PartsNext
<1>1. AtInit /\ TopInit.kind \in {"value", "default", "own"} /\ Assign(PlainValue, stack)
      /\ UNCHANGED <<initialized, refs, promised>>
  BY DEF EvaluatePlain, events
<1>2. /\ stack \in Seq(ActSound(values, made)) /\ Linked(stack) /\ stack # <<>>
      /\ Top \in SharedSound(values) \/ Top \in InstanceSound(made)
      /\ Top.of # "fire" /\ Top.left # <<>>
  BY <1>1, AtInitIs
<1>3. PlainValue \in Int
  <2>1. CASE TopInit.kind = "value"
    BY <2>1 DEF PlainValue, Val
  <2>2. CASE TopInit.kind = "default"
    BY <2>2 DEF PlainValue, Null
  <2>3. CASE TopInit.kind = "own"
    <3>1. Top \in InstanceSound(made)
      BY <1>2, <2>3, OwnIsInstance DEF TopInit
    <3>2. Top.me \in DOMAIN made
      BY <3>1, InstanceIs
    <3>3. made[Top.me].fields \in FieldValues
      BY <3>2, ObjectIs DEF Parts, PartsSound
    <3>4. TopInit.field \in DOMAIN made[Top.me].fields => made[Top.me].fields[TopInit.field] \in Int
      BY <3>3 DEF FieldValues
    <3>5. PlainValue = IF TopInit.field \in DOMAIN made[Top.me].fields
                       THEN made[Top.me].fields[TopInit.field] ELSE Null
      BY <2>3 DEF PlainValue
    <3>6. QED
      BY <3>4, <3>5 DEF Null
  <2>4. QED
    BY <1>1, <2>1, <2>2, <2>3
<1>4. QED
  BY <1>1, <1>2, <1>3, AssignStep DEF Top

LEMMA SharedValueStep ==
  ASSUME ProgramSound, Parts, EvaluateShared
  PROVE  PartsNext
<1>1. AtInit /\ TopInit.kind = "shared" /\ UNCHANGED <<initialized, refs, promised>>
      /\ \/ /\ TopInit.field \in DOMAIN values[TopInit.class]
            /\ Assign(values[TopInit.class][TopInit.field], stack)
         \/ UNCHANGED <<stack, values, made>>
  BY DEF EvaluateShared, events
<1>2. /\ stack \in Seq(ActSound(values, made)) /\ Linked(stack) /\ stack # <<>>
      /\ Top.of # "fire" /\ Top.left # <<>> /\ TopInit \in Inits
  BY <1>1, AtInitIs
<1>3. CASE TopInit.field \in DOMAIN values[TopInit.class] /\ Assign(values[TopInit.class][TopInit.field], stack)
  <2>1. TopInit.class \in Class
    BY <1>1, <1>2 DEF Inits
  <2>2. values[TopInit.class] \in FieldValues
    BY <2>1 DEF Parts, PartsSound, ValuesSound
  <2>3. values[TopInit.class][TopInit.field] \in Int
    BY <1>3, <2>2 DEF FieldValues
  <2>4. QED
    BY <1>1, <1>2, <1>3, <2>3, AssignStep DEF Top
<1>4. CASE UNCHANGED <<stack, values, made>>
  BY <1>1, <1>4 DEF Parts, PartsNext
<1>5. QED
  BY <1>1, <1>3, <1>4

-----------------------------------------------------------------------------
(* A new instance has an event without handlers, and is under way. *)
LEMMA NoMethods == \A rs : ToBag(MethodsOf(<<>>, rs)) = EmptyBag
<1>1. ASSUME NEW rs PROVE ToBag(MethodsOf(<<>>, rs)) = EmptyBag
  <2> DEFINE s == MethodsOf(<<>>, rs)
  <2>1. DOMAIN s = {}
    BY DEF MethodsOf
  <2> HIDE DEF s
  <2>2. DOMAIN ToBag(s) = {} /\ ToBag(s) = [x \in DOMAIN ToBag(s) |-> 1]
    BY <2>1 DEF ToBag, Range
  <2>3. EmptyBag = [x \in {} |-> 1]
    BY DEF EmptyBag, SetToBag
  <2>4. QED
    BY <2>2, <2>3 DEF s
<1>2. QED
  BY <1>1

LEMMA InstantiateStep ==
  ASSUME ProgramSound, Parts, NEW c \in Class, Instantiate(c),
         stack # <<>> => Top.of # "fire" /\ Top.left # <<>>
  PROVE  PartsNext
<1> DEFINE n   == Len(made)
           new == [class |-> c, fields |-> <<>>, handlers |-> <<>>]
           act == InstanceInits(c, n + 1)
           R   == [class : Class, fields : FieldValues, handlers : Seq(DOMAIN refs)]
           p   == [methods |-> EmptyBag, lost |-> FALSE]
<1>1. /\ made' = Append(made, new) /\ promised' = Append(promised, p)
      /\ Enter(act, stack) /\ UNCHANGED <<initialized, values, refs>>
  BY DEF Instantiate
<1>2. new \in R /\ DOMAIN new.fields = {} /\ new.class = c /\ new.handlers = <<>>
  <2>1. <<>> \in FieldValues /\ DOMAIN <<>> = {}
    <3>1. <<>> \in [{} -> Int]
      OBVIOUS
    <3>2. QED
      BY <3>1 DEF FieldValues
  <2>2. <<>> \in Seq(DOMAIN refs)
    OBVIOUS
  <2>3. QED
    BY <2>1, <2>2
<1>3. made \in Seq(R) /\ n \in Nat /\ DOMAIN made = 1 .. n
  BY LenProperties DEF Parts, PartsSound, MadeSound
<1> HIDE DEF R, new, act
<1>4. /\ made' \in Seq(R) /\ Len(made') = n + 1 /\ DOMAIN made' = 1 .. n + 1
      /\ made'[n + 1] = new /\ \A o \in 1 .. n : made'[o] = made[o]
  BY <1>1, <1>2, <1>3, AppendProperties, LenProperties
<1>5. \A o \in DOMAIN made' : o \in DOMAIN made \/ o = n + 1
  BY <1>3, <1>4
<1>6. MadeSound(made', DOMAIN refs)
  <2>1. \A o \in DOMAIN made' : DOMAIN made'[o].fields \subseteq NamesOf(made'[o].class, FALSE)
    BY <1>2, <1>3, <1>4, <1>5 DEF Parts, PartsSound, MadeSound
  <2>2. QED
    BY <1>4, <2>1 DEF MadeSound, R
<1>7. ObjectsGrow(made, made')
  BY <1>3, <1>4 DEF ObjectsGrow
<1> DEFINE S == ActSound(values, made')
<1>8. stack \in Seq(S) /\ Linked(stack)
  BY <1>7, NothingGrows, ActsStaySound, SeqMonotonic DEF Parts, PartsSound
<1>9. act \in S /\ act.of = "instance" /\ act.me = n + 1
  <2>1. n + 1 \in Nat /\ n + 1 \in DOMAIN made' /\ made'[n + 1].class = c
    BY <1>2, <1>3, <1>4
  <2>2. QED
    BY <2>1, InstanceInitsSound DEF act, ActSound
<1>10. Fitted(act, stack)
  BY <1>9 DEF Fitted, Top
<1> HIDE DEF S
<1>11. /\ <<act>> \o stack \in Seq(S) /\ Linked(<<act>> \o stack)
       /\ \A o : UnderWay(o, stack) => UnderWay(o, <<act>> \o stack)
       /\ UnderWay(n + 1, <<act>> \o stack)
  BY <1>8, <1>9, <1>10, Pushed
<1>12. Whole(made', <<act>> \o stack)
  <2>1. ASSUME NEW o \in DOMAIN made'
        PROVE  NamesOf(made'[o].class, FALSE) \subseteq DOMAIN made'[o].fields \/ UnderWay(o, <<act>> \o stack)
    <3>1. CASE o \in DOMAIN made
      BY <1>3, <1>4, <1>11, <3>1 DEF Parts, Whole
    <3>2. CASE o = n + 1
      BY <1>11, <3>2
    <3>3. QED
      BY <1>5, <3>1, <3>2
  <2>2. QED
    BY <2>1 DEF Whole
<1>13. PromisesKept(made', refs, promised')
  <2>1. promised \in Seq(Promises) /\ Len(promised) = n
    BY DEF Parts, PartsSound, PromisesKept
  <2>2. p \in Promises /\ p.methods = EmptyBag
    <3>1. EmptyBag \in [{} -> Int]
      BY DEF EmptyBag, SetToBag
    <3>2. EmptyBag \in UNION {[T -> Int] : T \in SUBSET (Nat \X Method)}
      BY <3>1
    <3>3. QED
      BY <3>2 DEF Promises
  <2> HIDE DEF p
  <2>3. /\ promised' \in Seq(Promises) /\ Len(promised') = n + 1
        /\ promised'[n + 1] = p /\ \A o \in 1 .. n : promised'[o] = promised[o]
    BY <1>1, <2>1, <2>2, AppendProperties
  <2>4. ASSUME NEW o \in DOMAIN made', ~promised'[o].lost
        PROVE  promised'[o].methods = ToBag(MethodsOf(made'[o].handlers, refs))
    <3>1. CASE o \in DOMAIN made
      <4>1. made'[o] = made[o] /\ promised'[o] = promised[o]
        BY <1>3, <1>4, <2>3, <3>1
      <4>2. QED
        BY <2>4, <3>1, <4>1 DEF Parts, PartsSound, PromisesKept
    <3>2. CASE o = n + 1
      BY <1>2, <1>4, <2>2, <2>3, <3>2, NoMethods
    <3>3. QED
      BY <1>5, <3>1, <3>2
  <2>5. QED
    BY <1>4, <2>3, <2>4 DEF PromisesKept
<1>14. stack' = <<act>> \o stack \/ (state' = "recursion" /\ stack' = stack)
  BY <1>1 DEF Enter, act
<1>15. stack' \in Seq(S) /\ Linked(stack') /\ (state' # "recursion" => Whole(made', stack'))
  BY <1>8, <1>11, <1>12, <1>14
<1>16. QED
  BY <1>1, <1>6, <1>13, <1>15 DEF Parts, PartsSound, PartsNext, S

LEMMA NewStep ==
  ASSUME ProgramSound, Parts, EvaluateNew
  PROVE  PartsNext
<1>1. AtInit /\ TopInit.kind = "new" /\ Instantiate(TopInit.class)
  BY DEF EvaluateNew
<1>2. TopInit.class \in Class
  BY <1>1, AtInitIs DEF Inits
<1>3. QED
  BY <1>1, <1>2, AtInitIs, InstantiateStep

-----------------------------------------------------------------------------
(* Events. *)
LEMMA MethodsIs ==
  ASSUME NEW S, NEW rs \in Seq(S), NEW h \in Seq(DOMAIN rs)
  PROVE  /\ MethodsOf(h, rs) \in Seq(S) /\ Len(MethodsOf(h, rs)) = Len(h)
         /\ \A i \in 1 .. Len(h) : MethodsOf(h, rs)[i] = rs[h[i]]
<1>1. Len(h) \in Nat /\ DOMAIN h = 1 .. Len(h) /\ \A i \in 1 .. Len(h) : h[i] \in DOMAIN rs
  BY LenProperties, ElementOfSeq
<1>2. MethodsOf(h, rs) = [i \in 1 .. Len(h) |-> rs[h[i]]]
  BY <1>1 DEF MethodsOf
<1>3. \A i \in 1 .. Len(h) : rs[h[i]] \in S
  BY <1>1, LenProperties, ElementOfSeq
<1>4. [i \in 1 .. Len(h) |-> rs[h[i]]] \in Seq(S)
  BY <1>1, <1>3
<1>5. QED
  BY <1>1, <1>2, <1>4

LEMMA MethodsOfAppend ==
  ASSUME NEW S, NEW rs \in Seq(S), NEW h \in Seq(DOMAIN rs), NEW r \in DOMAIN rs
  PROVE  MethodsOf(Append(h, r), rs) = Append(MethodsOf(h, rs), rs[r])
<1> DEFINE s == MethodsOf(h, rs)
           h2 == Append(h, r)
           u == MethodsOf(h2, rs)
           v == Append(s, rs[r])
<1>1. rs[r] \in S
  BY LenProperties, ElementOfSeq
<1>2. h2 \in Seq(DOMAIN rs) /\ Len(h2) = Len(h) + 1 /\ Len(h) \in Nat /\ h2[Len(h) + 1] = r
      /\ \A i \in 1 .. Len(h) : h2[i] = h[i]
  BY AppendProperties, LenProperties
<1>3. s \in Seq(S) /\ Len(s) = Len(h) /\ \A i \in 1 .. Len(h) : s[i] = rs[h[i]]
  BY MethodsIs
<1> HIDE DEF h2
<1>4. u \in Seq(S) /\ Len(u) = Len(h2) /\ \A i \in 1 .. Len(h2) : u[i] = rs[h2[i]]
  BY <1>2, MethodsIs
<1> HIDE DEF s, u
<1>5. v \in Seq(S) /\ Len(v) = Len(s) + 1 /\ v[Len(s) + 1] = rs[r] /\ \A i \in 1 .. Len(s) : v[i] = s[i]
  BY <1>1, <1>3, AppendProperties
<1> HIDE DEF v
<1>6. ASSUME NEW i \in 1 .. Len(u) PROVE u[i] = v[i]
  <2>1. CASE i = Len(h) + 1
    BY <1>2, <1>3, <1>4, <1>5, <2>1
  <2>2. CASE i # Len(h) + 1
    <3>1. i \in 1 .. Len(h)
      BY <1>2, <1>4, <2>2
    <3>2. u[i] = rs[h[i]]
      BY <1>2, <1>4, <3>1
    <3>3. v[i] = rs[h[i]]
      BY <1>3, <1>5, <3>1
    <3>4. QED
      BY <3>2, <3>3
  <2>3. QED
    BY <2>1, <2>2
<1>7. Len(u) = Len(v)
  BY <1>2, <1>3, <1>4, <1>5
<1>8. u = v
  BY <1>4, <1>5, <1>6, <1>7, SeqEqual
<1>9. QED
  BY <1>8 DEF u, v, s, h2

LEMMA MethodsOfRemove ==
  ASSUME NEW S, NEW rs \in Seq(S), NEW h \in Seq(DOMAIN rs), NEW k \in 1 .. Len(h)
  PROVE  /\ RemoveAt(h, k) \in Seq(DOMAIN rs)
         /\ MethodsOf(RemoveAt(h, k), rs) = RemoveAt(MethodsOf(h, rs), k)
<1> DEFINE s == MethodsOf(h, rs)
           h2 == RemoveAt(h, k)
           u == MethodsOf(h2, rs)
           v == RemoveAt(s, k)
<1>1. h2 \in Seq(DOMAIN rs) /\ Len(h2) = Len(h) - 1 /\ Len(h) \in Nat
      /\ \A i \in 1 .. Len(h) - 1 : h2[i] = IF i < k THEN h[i] ELSE h[i + 1]
  BY RemoveAtIs, LenProperties
<1>2. s \in Seq(S) /\ Len(s) = Len(h) /\ \A i \in 1 .. Len(h) : s[i] = rs[h[i]]
  BY MethodsIs
<1> HIDE DEF h2
<1>3. u \in Seq(S) /\ Len(u) = Len(h2) /\ \A i \in 1 .. Len(h2) : u[i] = rs[h2[i]]
  BY <1>1, MethodsIs
<1> HIDE DEF s, u
<1>4. v \in Seq(S) /\ Len(v) = Len(s) - 1
      /\ \A i \in 1 .. Len(s) - 1 : v[i] = IF i < k THEN s[i] ELSE s[i + 1]
  BY <1>2, RemoveAtIs
<1> HIDE DEF v
<1>5. ASSUME NEW i \in 1 .. Len(u) PROVE u[i] = v[i]
  <2>1. i \in 1 .. Len(h) - 1 /\ i \in 1 .. Len(h) /\ i + 1 \in 1 .. Len(h)
    BY <1>1, <1>3
  <2>2. u[i] = rs[h2[i]]
    BY <1>3
  <2>3. CASE i < k
    BY <1>1, <1>2, <1>4, <2>1, <2>2, <2>3
  <2>4. CASE ~(i < k)
    <3>1. h2[i] = h[i + 1] /\ v[i] = s[i + 1] /\ s[i + 1] = rs[h[i + 1]]
      BY <1>1, <1>2, <1>4, <2>1, <2>4
    <3>2. QED
      BY <2>2, <3>1
  <2>5. QED
    BY <2>3, <2>4
<1>6. Len(u) = Len(v)
  BY <1>1, <1>2, <1>3, <1>4
<1>7. u = v
  BY <1>3, <1>4, <1>5, <1>6, SeqEqual
<1>8. QED
  BY <1>1, <1>7 DEF u, v, s, h2

(* More references leave the handlers what they are. *)
LEMMA RefsGrow ==
  ASSUME NEW objs, NEW rs, NEW prom, MadeSound(objs, DOMAIN rs), PromisesKept(objs, rs, prom),
         NEW rs2, DOMAIN rs \subseteq DOMAIN rs2, \A r \in DOMAIN rs : rs2[r] = rs[r]
  PROVE  MadeSound(objs, DOMAIN rs2) /\ PromisesKept(objs, rs2, prom)
<1>1. MadeSound(objs, DOMAIN rs2)
  <2> DEFINE R  == [class : Class, fields : FieldValues, handlers : Seq(DOMAIN rs)]
             R2 == [class : Class, fields : FieldValues, handlers : Seq(DOMAIN rs2)]
  <2>1. Seq(DOMAIN rs) \subseteq Seq(DOMAIN rs2)
    BY SeqMonotonic
  <2>2. R \subseteq R2
    BY <2>1
  <2>3. objs \in Seq(R)
    BY DEF MadeSound
  <2> HIDE DEF R, R2
  <2>4. objs \in Seq(R2)
    BY <2>2, <2>3, SeqMonotonic
  <2>5. QED
    BY <2>4 DEF MadeSound, R2
<1>2. ASSUME NEW o \in DOMAIN objs PROVE MethodsOf(objs[o].handlers, rs2) = MethodsOf(objs[o].handlers, rs)
  <2>1. objs[o].handlers \in Seq(DOMAIN rs)
    BY ObjectIs
  <2>2. \A i \in DOMAIN objs[o].handlers : objs[o].handlers[i] \in DOMAIN rs
    BY <2>1, LenProperties, ElementOfSeq
  <2>3. QED
    BY <2>2 DEF MethodsOf
<1>3. QED
  BY <1>1, <1>2 DEF PromisesKept

HandlersWith(objs, o, h) == [objs EXCEPT ![o].handlers = h]

LEMMA HandlersSet ==
  ASSUME NEW objs, NEW known, MadeSound(objs, known), NEW o \in DOMAIN objs, NEW h \in Seq(known)
  PROVE  /\ MadeSound(HandlersWith(objs, o, h), known) /\ ObjectsGrow(objs, HandlersWith(objs, o, h))
         /\ Len(HandlersWith(objs, o, h)) = Len(objs) /\ DOMAIN HandlersWith(objs, o, h) = DOMAIN objs
         /\ HandlersWith(objs, o, h)[o].handlers = h
         /\ \A p \in DOMAIN objs : /\ p # o => HandlersWith(objs, o, h)[p] = objs[p]
                                   /\ HandlersWith(objs, o, h)[p].class = objs[p].class
                                   /\ HandlersWith(objs, o, h)[p].fields = objs[p].fields
<1> DEFINE R == [class : Class, fields : FieldValues, handlers : Seq(known)]
           x == [objs[o] EXCEPT !.handlers = h]
           objs2 == HandlersWith(objs, o, h)
<1>1. objs \in Seq(R) /\ DOMAIN objs = 1 .. Len(objs) /\ Len(objs) \in Nat
  BY LenProperties DEF MadeSound
<1>2. objs[o] \in R
  BY ObjectIs
<1>3. x \in R /\ x.class = objs[o].class /\ x.handlers = h /\ x.fields = objs[o].fields
  BY <1>2
<1>4. objs2 = [objs EXCEPT ![o] = x]
  BY DEF HandlersWith
<1> HIDE DEF x, R, objs2
<1>5. /\ objs2 \in Seq(R) /\ Len(objs2) = Len(objs) /\ DOMAIN objs2 = DOMAIN objs
      /\ \A p \in DOMAIN objs : objs2[p] = IF p = o THEN x ELSE objs[p]
  BY ONLY <1>1, <1>3, <1>4, o \in DOMAIN objs, ExceptSeq, LenProperties
<1>6. \A p \in DOMAIN objs : /\ p # o => objs2[p] = objs[p]
                             /\ objs2[p].class = objs[p].class /\ objs2[p].fields = objs[p].fields
  BY <1>3, <1>5
<1>7. objs2[o].handlers = h
  BY <1>3, <1>5
<1>8. \A p \in DOMAIN objs2 : DOMAIN objs2[p].fields \subseteq NamesOf(objs2[p].class, FALSE)
  BY <1>5, <1>6 DEF MadeSound
<1>9. MadeSound(objs2, known)
  BY <1>5, <1>8 DEF MadeSound, R
<1>10. ObjectsGrow(objs, objs2)
  BY <1>5, <1>6 DEF ObjectsGrow
<1>11. QED
  BY <1>5, <1>6, <1>7, <1>9, <1>10 DEF objs2

(* What one event is made of changes; the promise is kept when it is kept for that event. *)
LEMMA HandlersStep ==
  ASSUME Parts, NEW o \in DOMAIN made, NEW h \in Seq(DOMAIN refs'),
         refs' \in Seq(Nat \X Method), DOMAIN refs \subseteq DOMAIN refs', \A r \in DOMAIN refs : refs'[r] = refs[r],
         made' = HandlersWith(made, o, h), UNCHANGED <<stack, values, initialized>>,
         NEW p \in Promises, promised' = [promised EXCEPT ![o] = p],
         ~p.lost => p.methods = ToBag(MethodsOf(h, refs'))
  PROVE  PartsNext
<1>1. MadeSound(made, DOMAIN refs') /\ PromisesKept(made, refs', promised)
  BY RefsGrow DEF Parts, PartsSound
<1>2. /\ MadeSound(made', DOMAIN refs') /\ ObjectsGrow(made, made')
      /\ Len(made') = Len(made) /\ DOMAIN made' = DOMAIN made
      /\ made'[o].handlers = h
      /\ \A q \in DOMAIN made : /\ q # o => made'[q] = made[q]
                                /\ made'[q].class = made[q].class
                                /\ made'[q].fields = made[q].fields
  BY <1>1, HandlersSet
<1>3. /\ promised' \in Seq(Promises) /\ Len(promised') = Len(made')
      /\ promised'[o] = p /\ \A q \in DOMAIN made : q # o => promised'[q] = promised[q]
  <2>1. promised \in Seq(Promises) /\ Len(promised) = Len(made)
    BY DEF Parts, PartsSound, PromisesKept
  <2>2. DOMAIN made = 1 .. Len(promised)
    BY <2>1, LenProperties DEF Parts, PartsSound, MadeSound
  <2>3. QED
    BY ONLY <1>2, <2>1, <2>2, o \in DOMAIN made, p \in Promises, promised' = [promised EXCEPT ![o] = p], ExceptSeq
<1>4. PromisesKept(made', refs', promised')
  <2>1. ASSUME NEW q \in DOMAIN made', ~promised'[q].lost
        PROVE  promised'[q].methods = ToBag(MethodsOf(made'[q].handlers, refs'))
    <3>1. CASE q = o
      BY <1>2, <1>3, <2>1, <3>1
    <3>2. CASE q # o
      BY <1>1, <1>2, <1>3, <2>1, <3>2 DEF PromisesKept
    <3>3. QED
      BY <3>1, <3>2
  <2>2. QED
    BY <1>3, <2>1 DEF PromisesKept
<1>5. stack' \in Seq(ActSound(values', made')) /\ Linked(stack')
  BY <1>2, NothingGrows, ActsStaySound, SeqMonotonic DEF Parts, PartsSound
<1>6. Whole(made', stack')
  BY <1>2 DEF Parts, Whole
<1>7. QED
  BY <1>2, <1>4, <1>5, <1>6 DEF Parts, PartsSound, PartsNext

LEMMA KeepStep ==
  ASSUME Parts, NEW t \in DOMAIN made, NEW m \in Method, KeepReference(t, m)
  PROVE  PartsNext
<1>1. refs \in Seq(Nat \X Method) /\ <<t, m>> \in Nat \X Method
  BY ObjectIs DEF Parts, PartsSound
<1>2. /\ refs' = Append(refs, <<t, m>>)
      /\ UNCHANGED <<stack, values, made, initialized, promised>>
  BY DEF KeepReference, classesAndObjects
<1>3. /\ refs' \in Seq(Nat \X Method)
      /\ DOMAIN refs \subseteq DOMAIN refs' /\ \A r \in DOMAIN refs : refs'[r] = refs[r]
  BY <1>1, <1>2, AppendProperties, LenProperties
<1>4. MadeSound(made, DOMAIN refs') /\ PromisesKept(made, refs', promised)
  BY <1>3, RefsGrow DEF Parts, PartsSound
<1>5. QED
  BY <1>2, <1>3, <1>4 DEF Parts, PartsSound, PartsNext

BagType == UNION {[S -> Int] : S \in SUBSET (Nat \X Method)}

LEMMA BagTypes ==
  ASSUME NEW B \in BagType, NEW x \in Nat \X Method
  PROVE  BagAdd(B, x) \in BagType /\ BagRemove(B, x) \in BagType
<1>1. PICK S \in SUBSET (Nat \X Method) : B \in [S -> Int]
  BY DEF BagType
<1>2. BagAdd(B, x) \in [S \cup {x} -> Int] /\ S \cup {x} \in SUBSET (Nat \X Method)
  BY <1>1 DEF BagAdd
<1>3. BagRemove(B, x) \in [S -> Int] \/ BagRemove(B, x) \in [S \ {x} -> Int]
  BY <1>1 DEF BagRemove
<1>4. S \ {x} \in SUBSET (Nat \X Method)
  BY <1>1
<1>5. \A T \in SUBSET (Nat \X Method) : \A f \in [T -> Int] : f \in BagType
  BY DEF BagType
<1> HIDE DEF BagType
<1>6. BagAdd(B, x) \in BagType
  BY <1>2, <1>5
<1>7. BagRemove(B, x) \in BagType
  BY <1>1, <1>3, <1>4, <1>5
<1>8. QED
  BY <1>6, <1>7

LEMMA PromiseIs ==
  ASSUME Parts, NEW o \in DOMAIN made
  PROVE  promised[o] \in Promises /\ promised[o].methods \in BagType /\ promised[o].lost \in BOOLEAN
<1>1. promised \in Seq(Promises) /\ Len(promised) = Len(made)
  BY DEF Parts, PartsSound, PromisesKept
<1>2. o \in 1 .. Len(promised)
  BY <1>1, LenProperties DEF Parts, PartsSound, MadeSound
<1>3. promised[o] \in Promises
  BY <1>1, <1>2, ElementOfSeq
<1>4. QED
  BY <1>3 DEF Promises, BagType

(* A reference that is given is to the method it is given for. *)
LEMMA GivenIs ==
  ASSUME Parts, kept \subseteq DOMAIN refs, NEW t \in DOMAIN made, NEW m \in Method, NEW r \in Given(t, m)
  PROVE  /\ refs \in Seq(Nat \X Method) /\ DOMAIN refs = 1 .. Len(refs) /\ Len(refs) \in Nat
         /\ <<t, m>> \in Nat \X Method
         /\ r = Len(refs) + 1 \/ (r \in DOMAIN refs /\ refs[r] = <<t, m>>)
<1>1. refs \in Seq(Nat \X Method)
  BY DEF Parts, PartsSound
<1>2. Len(refs) \in Nat /\ DOMAIN refs = 1 .. Len(refs)
  BY <1>1, LenProperties
<1>3. <<t, m>> \in Nat \X Method
  BY ObjectIs DEF Parts, PartsSound
<1>4. r = Len(refs) + 1 \/ (r \in DOMAIN refs /\ refs[r] = <<t, m>>)
  BY DEF Given, Fresh
<1>5. QED
  BY <1>1, <1>2, <1>3, <1>4

LEMMA RegisterStep ==
  ASSUME Parts, kept \subseteq DOMAIN refs, NEW o \in DOMAIN made, NEW t \in DOMAIN made, NEW m \in Method,
         NEW r \in Given(t, m), RegisterEvent(o, t, m, r)
  PROVE  PartsNext
<1> DEFINE h == made[o].handlers
           x == <<t, m>>
           B == promised[o].methods
           p == [methods |-> BagAdd(B, x), lost |-> promised[o].lost]
<1>1. /\ x \in Nat \X Method /\ refs \in Seq(Nat \X Method)
      /\ DOMAIN refs = 1 .. Len(refs) /\ Len(refs) \in Nat
      /\ r = Len(refs) + 1 \/ (r \in DOMAIN refs /\ refs[r] = x)
  BY GivenIs
<1>2. /\ refs' = IF r = Len(refs) + 1 THEN Append(refs, x) ELSE refs
      /\ made' = HandlersWith(made, o, Append(h, r))
      /\ promised' = [promised EXCEPT ![o].methods = BagAdd(@, x)]
      /\ UNCHANGED <<stack, values, initialized>>
  BY DEF RegisterEvent, Fresh, HandlersWith
<1> HIDE DEF x
<1>3. /\ refs' \in Seq(Nat \X Method) /\ DOMAIN refs \subseteq DOMAIN refs'
      /\ (\A q \in DOMAIN refs : refs'[q] = refs[q]) /\ r \in DOMAIN refs' /\ refs'[r] = x
  <2>1. CASE r = Len(refs) + 1
    BY <1>1, <1>2, <2>1, AppendProperties, LenProperties
  <2>2. CASE r # Len(refs) + 1
    BY <1>1, <1>2, <2>2
  <2>3. QED
    BY <2>1, <2>2
<1>4. MadeSound(made, DOMAIN refs') /\ PromisesKept(made, refs', promised)
  BY <1>3, RefsGrow DEF Parts, PartsSound
<1>5. h \in Seq(DOMAIN refs')
  BY <1>4, ObjectIs
<1>6. ~promised[o].lost => B = ToBag(MethodsOf(h, refs'))
  BY <1>4 DEF PromisesKept
<1> HIDE DEF h
<1>7. Append(h, r) \in Seq(DOMAIN refs')
  BY <1>3, <1>5, AppendProperties
<1>8. promised[o] \in Promises /\ B \in BagType /\ promised[o].lost \in BOOLEAN
  BY PromiseIs
<1>9. p \in Promises /\ p.methods = BagAdd(B, x) /\ p.lost = promised[o].lost
  <2>1. BagAdd(B, x) \in BagType
    BY <1>1, <1>8, BagTypes
  <2>2. QED
    BY <1>8, <2>1 DEF Promises, BagType
<1>10. promised' = [promised EXCEPT ![o] = p]
  <2>1. [promised[o] EXCEPT !.methods = BagAdd(@, x)] = p
    BY <1>8 DEF Promises
  <2>2. QED
    BY <1>2, <2>1
<1>11. BagAdd(ToBag(MethodsOf(h, refs')), x) = ToBag(MethodsOf(Append(h, r), refs'))
  <2>1. MethodsOf(h, refs') \in Seq(Nat \X Method)
    BY ONLY <1>3, <1>5, MethodsIs
  <2>2. MethodsOf(Append(h, r), refs') = Append(MethodsOf(h, refs'), refs'[r])
    BY ONLY <1>3, <1>5, MethodsOfAppend
  <2>3. QED
    BY <1>1, <1>3, <2>1, <2>2, BagOfAppend
<1>12. ~p.lost => p.methods = ToBag(MethodsOf(Append(h, r), refs'))
  BY <1>6, <1>9, <1>11
<1> HIDE DEF p
<1>13. QED
  BY <1>2, <1>3, <1>7, <1>9, <1>10, <1>12, HandlersStep DEF h

LEMMA UnregisterStep ==
  ASSUME Parts, kept \subseteq DOMAIN refs, NEW o \in DOMAIN made, NEW t \in DOMAIN made, NEW m \in Method,
         NEW r \in Given(t, m), UnregisterEvent(o, t, m, r)
  PROVE  PartsNext
<1> DEFINE h == made[o].handlers
           x == <<t, m>>
           B == promised[o].methods
           lost2 == promised[o].lost \/ Missed(o, t, m, r)
           p == [methods |-> BagRemove(B, x), lost |-> lost2]
<1>1. /\ x \in Nat \X Method /\ refs \in Seq(Nat \X Method)
      /\ DOMAIN refs = 1 .. Len(refs) /\ Len(refs) \in Nat
      /\ r = Len(refs) + 1 \/ (r \in DOMAIN refs /\ refs[r] = x)
  BY GivenIs
<1>2. /\ made' = HandlersWith(made, o, RemoveFirst(h, r))
      /\ promised' = [promised EXCEPT ![o].methods = BagRemove(@, x), ![o].lost = @ \/ Missed(o, t, m, r)]
      /\ UNCHANGED <<stack, values, initialized, refs>>
  BY DEF UnregisterEvent, HandlersWith
<1>3. h \in Seq(DOMAIN refs)
  BY ObjectIs DEF Parts, PartsSound
<1>4. ~promised[o].lost => B = ToBag(MethodsOf(h, refs))
  BY DEF Parts, PartsSound, PromisesKept
<1>5. Missed(o, t, m, r) <=> BagIn(x, B) /\ ~Contains(h, r)
  BY DEF Missed
<1>6. promised[o] \in Promises /\ B \in BagType /\ promised[o].lost \in BOOLEAN
  BY PromiseIs
<1>7. lost2 \in BOOLEAN
  OBVIOUS
<1> HIDE DEF x, lost2
<1>8. p \in Promises /\ p.methods = BagRemove(B, x) /\ p.lost = lost2
  <2>1. BagRemove(B, x) \in BagType
    BY <1>1, <1>6, BagTypes
  <2>2. QED
    BY <1>7, <2>1 DEF Promises, BagType
<1>9. promised' = [promised EXCEPT ![o] = p]
  <2>1. ASSUME NEW T, NEW U, NEW q \in [methods : T, lost : U], NEW b, NEW l
        PROVE  [q EXCEPT !.methods = b, !.lost = l] = [methods |-> b, lost |-> l]
    <3> DEFINE q2 == [q EXCEPT !.methods = b]
    <3>1. q2 = [methods |-> b, lost |-> q.lost]
      BY <2>1
    <3>2. [q EXCEPT !.methods = b, !.lost = l] = [q2 EXCEPT !.lost = l]
      OBVIOUS
    <3> HIDE DEF q2
    <3>3. [q2 EXCEPT !.lost = l] = [methods |-> b, lost |-> l]
      BY <3>1
    <3>4. QED
      BY <3>2, <3>3
  <2>2. \E T, U : promised[o] \in [methods : T, lost : U]
    BY <1>6 DEF Promises
  <2>3. [promised[o] EXCEPT !.methods = BagRemove(B, x), !.lost = lost2] = p
    BY <2>1, <2>2
  <2>4. QED
    BY <1>2, <2>3 DEF lost2
<1> HIDE DEF h
<1>10. /\ RemoveFirst(h, r) \in Seq(DOMAIN refs)
       /\ ~p.lost => p.methods = ToBag(MethodsOf(RemoveFirst(h, r), refs))
  <2>1. CASE \E k \in 1 .. Len(h) : h[k] = r /\ RemoveFirst(h, r) = RemoveAt(h, k)
    <3>1. PICK k \in 1 .. Len(h) : h[k] = r /\ RemoveFirst(h, r) = RemoveAt(h, k)
      BY <2>1
    <3>2. r \in DOMAIN refs
      BY <1>3, <3>1, ElementOfSeq
    <3>3. refs[r] = x
      BY <1>1, <3>2
    <3>4. /\ MethodsOf(h, refs) \in Seq(Nat \X Method) /\ Len(MethodsOf(h, refs)) = Len(h)
          /\ MethodsOf(h, refs)[k] = x
      BY <1>1, <1>3, <3>1, <3>3, MethodsIs
    <3>5. /\ RemoveAt(h, k) \in Seq(DOMAIN refs)
          /\ MethodsOf(RemoveAt(h, k), refs) = RemoveAt(MethodsOf(h, refs), k)
      BY <1>1, <1>3, MethodsOfRemove
    <3>6. ToBag(RemoveAt(MethodsOf(h, refs), k)) = BagRemove(ToBag(MethodsOf(h, refs)), x)
      BY <3>4, BagOfRemove
    <3>7. QED
      BY <1>4, <1>8, <3>1, <3>5, <3>6 DEF lost2
  <2>2. CASE (\A k \in 1 .. Len(h) : h[k] # r) /\ RemoveFirst(h, r) = h
    <3>1. ~Contains(h, r)
      BY <2>2 DEF Contains
    <3>2. ~p.lost => ~BagIn(x, B)
      BY <1>5, <1>8, <3>1 DEF lost2
    <3>3. ~BagIn(x, B) => BagRemove(B, x) = B
      BY DEF BagIn, BagToSet, BagRemove
    <3>4. QED
      BY <1>3, <1>4, <1>8, <2>2, <3>2, <3>3 DEF lost2
  <2>3. QED
    BY <1>3, <2>1, <2>2, RemoveFirstIs
<1> HIDE DEF p
<1>11. refs' \in Seq(Nat \X Method) /\ DOMAIN refs \subseteq DOMAIN refs' /\ \A q \in DOMAIN refs : refs'[q] = refs[q]
  BY <1>1, <1>2
<1>12. QED
  BY <1>2, <1>8, <1>9, <1>10, <1>11, HandlersStep DEF h

(* Raises. *)
LEMMA FireStep ==
  ASSUME Parts, ProgramRuns, NEW o \in DOMAIN made, Fire(o)
  PROVE  PartsNext
<1> DEFINE h == made[o].handlers
           a == [of |-> "fire", inside |-> FALSE, on |-> o, todo |-> h, had |-> h, called |-> <<>>]
<1>1. stack \in Seq(ActSound(values, made)) /\ Linked(stack)
  BY DEF Parts, PartsSound
<1>2. h \in Seq(Nat) /\ o \in Nat
  <2>1. h \in Seq(DOMAIN refs) /\ o \in Nat
    BY ObjectIs DEF Parts, PartsSound
  <2>2. DOMAIN refs \subseteq Nat
    BY LenProperties DEF Parts, PartsSound
  <2>3. QED
    BY <2>1, <2>2, SeqMonotonic
<1>3. stack' = <<a>> \o stack /\ UNCHANGED <<values, made, initialized, refs, promised>>
  BY DEF Fire, classesAndObjects, events
<1>4. a \in ActSound(values, made) /\ a.of = "fire"
  <2> HIDE DEF h
  <2>1. <<>> \o h = h /\ <<>> \in Seq(Nat)
    BY <1>2, ConcatEmptySeq
  <2>2. a \in FireSound /\ a.of = "fire"
    BY <1>2, <2>1 DEF FireSound
  <2>3. QED
    BY <2>2 DEF ActSound
<1>5. Fitted(a, stack)
  BY <1>4 DEF ProgramRuns, Fitted, Top
<1> HIDE DEF a
<1>6. stack' \in Seq(ActSound(values, made)) /\ Linked(stack') /\ \A q : UnderWay(q, stack) => UnderWay(q, stack')
  BY <1>1, <1>3, <1>4, <1>5, Pushed
<1>7. Whole(made, stack')
  BY <1>6, NothingGrows, WholeStays DEF Parts
<1>8. QED
  BY <1>3, <1>6, <1>7, StackStep

(* The raise on top is where it is after its change. *)
LEMMA RaiseStep ==
  ASSUME Parts, stack # <<>>, Top.of = "fire", NEW a \in FireSound, stack' = <<a>> \o Below,
         UNCHANGED <<values, made, initialized, refs, promised>>
  PROVE  PartsNext
<1>1. stack \in Seq(ActSound(values, made)) /\ Linked(stack)
  BY DEF Parts, PartsSound
<1>2. a \in ActSound(values, made) /\ a.of = "fire"
  BY DEF ActSound, FireSound
<1>3. stack' \in Seq(ActSound(values, made)) /\ Linked(stack') /\ SameActs(stack, stack')
  BY <1>1, <1>2, TopChanged DEF Top, Below
<1>4. Whole(made, stack')
  <2>1. \A o \in DOMAIN made : UnderWay(o, stack) => UnderWay(o, stack')
    BY <1>3, SameUnderWay
  <2>2. QED
    BY <2>1, NothingGrows, WholeStays DEF Parts
<1>5. QED
  BY <1>3, <1>4, StackStep

LEMMA TopRaise ==
  ASSUME Parts, stack # <<>>, Top.of = "fire"
  PROVE  /\ Top \in FireSound /\ Top.called \o Top.todo = Top.had
         /\ Top.todo \in Seq(Nat) /\ Top.called \in Seq(Nat) /\ Top.had \in Seq(Nat)
<1>1. Top \in ActSound(values, made)
  BY LinkedPop DEF Parts, PartsSound, Top
<1>2. Top \in FireSound
  BY <1>1, Kinds
<1>3. QED
  BY <1>2 DEF FireSound

LEMMA InvokeStep ==
  ASSUME Parts, InvokeHandler
  PROVE  PartsNext
<1> DEFINE todo == Top.todo
           called == Top.called
           x == Head(todo)
           a == [Top EXCEPT !.inside = TRUE, !.todo = Tail(@), !.called = Append(@, Head(Top.todo))]
<1>1. stack # <<>> /\ Top.of = "fire" /\ todo # <<>>
  BY DEF InvokeHandler, InLoop
<1>2. UNCHANGED <<values, made, initialized, refs, promised>> /\ (stack' = <<a>> \o Below \/ stack' = stack)
  BY DEF InvokeHandler, classesAndObjects, events
<1>3. Top \in FireSound /\ called \o todo = Top.had /\ todo \in Seq(Nat) /\ called \in Seq(Nat)
  BY <1>1, TopRaise
<1>4. x \in Nat /\ Tail(todo) \in Seq(Nat) /\ todo = <<x>> \o Tail(todo)
  BY <1>1, <1>3, HeadTailProperties
<1>5. Append(called, x) \in Seq(Nat) /\ Append(called, x) = called \o <<x>>
  <2>1. Append(called, x) \in Seq(Nat)
    BY <1>3, <1>4, AppendProperties
  <2>2. Append(called, x) = called \o <<x>>
    BY <1>3, <1>4, AppendIsConcat
  <2>3. QED
    BY <2>1, <2>2
<1>6. Append(called, x) \o Tail(todo) = Top.had
  <2> DEFINE below == Tail(todo)
  <2>1. <<x>> \in Seq(Nat) /\ below \in Seq(Nat)
    BY <1>4
  <2>2. Associative(Nat)
    BY ThreeInARow
  <2>3. (called \o <<x>>) \o below = called \o (<<x>> \o below)
    BY <1>3, <2>1, <2>2, Zenon DEF Associative
  <2>4. QED
    BY <1>3, <1>4, <1>5, <2>3, Zenon
<1>7. a \in FireSound
  <2>1. /\ a \in [of : {"fire"}, inside : BOOLEAN, on : Nat, todo : Seq(Nat), had : Seq(Nat), called : Seq(Nat)]
        /\ a.called = Append(called, x) /\ a.todo = Tail(todo) /\ a.had = Top.had
    BY <1>3, <1>4, <1>5 DEF FireSound
  <2> HIDE DEF a
  <2>2. QED
    BY <1>6, <2>1 DEF FireSound
<1> HIDE DEF a
<1>8. CASE stack' = <<a>> \o Below
  BY <1>1, <1>2, <1>7, <1>8, RaiseStep
<1>9. CASE stack' = stack
  BY <1>2, <1>9 DEF Parts, PartsNext
<1>10. QED
  BY <1>2, <1>8, <1>9

LEMMA HandlerReturnsStep ==
  ASSUME Parts, HandlerReturns
  PROVE  PartsNext
<1> DEFINE a == [Top EXCEPT !.inside = FALSE]
<1>1. stack # <<>> /\ Top.of = "fire" /\ stack' = <<a>> \o Below
      /\ UNCHANGED <<values, made, initialized, refs, promised>>
  BY DEF HandlerReturns, classesAndObjects, events
<1>2. a \in FireSound
  <2>1. Top \in FireSound
    BY <1>1, TopRaise
  <2>2. /\ a \in [of : {"fire"}, inside : BOOLEAN, on : Nat, todo : Seq(Nat), had : Seq(Nat), called : Seq(Nat)]
        /\ a.called = Top.called /\ a.todo = Top.todo /\ a.had = Top.had
    BY <2>1 DEF FireSound
  <2> HIDE DEF a
  <2>3. QED
    BY <2>1, <2>2 DEF FireSound
<1> HIDE DEF a
<1>3. QED
  BY <1>1, <1>2, RaiseStep

LEMMA FiredStep ==
  ASSUME Parts, Fired
  PROVE  PartsNext
<1>1. stack # <<>> /\ Top.of = "fire" /\ stack' = Below
      /\ UNCHANGED <<values, made, initialized, refs, promised>>
  BY DEF Fired, InLoop, classesAndObjects, events
<1>2. stack \in Seq(ActSound(values, made)) /\ Linked(stack)
  BY DEF Parts, PartsSound
<1>3. Below \in Seq(ActSound(values, made)) /\ Linked(Below)
  BY <1>1, <1>2, LinkedPop DEF Below
<1>4. \A o : UnderWay(o, stack) => UnderWay(o, Below)
  BY <1>1, <1>2, Popped DEF Top, Below
<1>5. Whole(made, Below)
  BY <1>4, NothingGrows, WholeStays DEF Parts
<1>6. QED
  BY <1>1, <1>3, <1>5, StackStep

LEMMA StatementStep ==
  ASSUME Parts, kept \subseteq DOMAIN refs, Statement
  PROVE  PartsNext
<1>1. ProgramRuns /\ WithEvent \subseteq DOMAIN made
  BY DEF Statement, WithEvent
<1>2. PICK o \in WithEvent, t \in WithEvent, m \in Method :
        \/ KeepReference(t, m)
        \/ \E r \in Given(t, m) : RegisterEvent(o, t, m, r) \/ UnregisterEvent(o, t, m, r)
        \/ Fire(o)
  BY DEF Statement
<1>3. o \in DOMAIN made /\ t \in DOMAIN made
  BY <1>1
<1>4. QED
  BY <1>1, <1>2, <1>3, KeepStep, RegisterStep, UnregisterStep, FireStep
-----------------------------------------------------------------------------
(* Every step of the executor, and none. *)
LEMMA MainStep ==
  ASSUME ProgramSound, Parts, NEW c \in Class, MainNew(c)
  PROVE  PartsNext
BY InstantiateStep DEF MainNew

LEMMA NothingStep ==
  ASSUME Parts, UNCHANGED <<values, made, stack, initialized, refs, promised>>
  PROVE  PartsNext
BY DEF Parts, PartsNext

LEMMA RuntimeStep ==
  ASSUME ProgramSound, Resolved, shape.templates = {}, Parts, kept \subseteq DOMAIN refs, RuntimeNext
  PROVE  PartsNext
<1>1. CASE StartRuntime \/ MainEnds
  BY <1>1, NothingStep DEF StartRuntime, MainEnds, classesAndObjects, events
<1>2. CASE \E c \in Class : MainNew(c)
  BY <1>2, MainStep
<1>3. CASE EnsureInitialized
  BY <1>3, EnsureStep
<1>4. CASE SharedDone
  BY <1>4, SharedDoneStep
<1>5. CASE InstanceDone
  BY <1>5, InstanceDoneStep
<1>6. CASE EvaluatePlain
  BY <1>6, PlainStep
<1>7. CASE EvaluateShared
  BY <1>7, SharedValueStep
<1>8. CASE EvaluateNew
  BY <1>8, NewStep
<1>9. CASE Statement
  BY <1>9, StatementStep
<1>10. CASE InvokeHandler
  BY <1>10, InvokeStep
<1>11. CASE HandlerReturns
  BY <1>11, HandlerReturnsStep
<1>12. CASE Fired
  BY <1>12, FiredStep
<1>13. QED
  BY <1>1, <1>2, <1>3, <1>4, <1>5, <1>6, <1>7, <1>8, <1>9, <1>10, <1>11, <1>12 DEF RuntimeNext
-----------------------------------------------------------------------------
(* The invariant does not change with a program that does not.             *)
LEMMA SameNames ==
  ASSUME UNCHANGED vars
  PROVE  \A c, shrd : NamesOf(c, shrd)' = NamesOf(c, shrd)
BY DEF NamesOf, vars, program

LEMMA SameParts ==
  ASSUME UNCHANGED vars, PartsSound(values', made', stack', initialized', refs', promised')
  PROVE  PartsSound(values, made, stack, initialized, refs, promised)'
<1>1. ValuesSound(values)'
  BY SameNames DEF PartsSound, ValuesSound, FieldValues
<1>2. Initialized(initialized, values)'
  BY SameNames DEF PartsSound, Initialized
<1>3. MadeSound(made, DOMAIN refs)'
  BY SameNames DEF PartsSound, MadeSound, FieldValues
<1>4. ActSound(values', made') \subseteq ActSound(values, made)'
  <2>1. FireSound' = FireSound
    BY DEF FireSound
  <2>2. ASSUME NEW a \in SharedSound(values') PROVE a \in SharedSound(values)'
    <3>1. NamesOf(a.class, TRUE)' = NamesOf(a.class, TRUE)
      BY DEF NamesOf, vars, program
    <3>2. /\ a \in [of : {"shared"}, class : Class, left : Seq(Field), waits : Seq(Class)]
          /\ a.left \in Seq(NamesOf(a.class, TRUE))
          /\ \A f \in NamesOf(a.class, TRUE) :
               f \in DOMAIN values'[a.class] \/ \E i \in 1 .. Len(a.left) : a.left[i] = f
      BY <2>2 DEF SharedSound
    <3>3. QED
      BY ONLY <3>1, <3>2 DEF SharedSound
  <2>3. ASSUME NEW a \in InstanceSound(made') PROVE a \in InstanceSound(made)'
    <3>1. NamesOf(a.class, FALSE)' = NamesOf(a.class, FALSE)
      BY DEF NamesOf, vars, program
    <3>2. /\ a \in [of : {"instance"}, class : Class, me : Nat, left : Seq(Field), waits : Seq(Class)]
          /\ a.me \in DOMAIN made' /\ made'[a.me].class = a.class
          /\ a.left \in Seq(NamesOf(a.class, FALSE))
          /\ \A f \in NamesOf(a.class, FALSE) :
               f \in DOMAIN made'[a.me].fields \/ \E i \in 1 .. Len(a.left) : a.left[i] = f
      BY <2>3 DEF InstanceSound
    <3>3. QED
      BY ONLY <3>1, <3>2 DEF InstanceSound
  <2>4. QED
    BY <2>1, <2>2, <2>3 DEF ActSound
<1>5. stack' \in Seq(ActSound(values, made)') /\ Linked(stack)'
  BY <1>4, SeqMonotonic DEF PartsSound, Linked
<1>6. PromisesKept(made, refs, promised)'
  BY DEF PartsSound, PromisesKept, Promises, MethodsOf
<1>7. QED
  BY <1>1, <1>2, <1>3, <1>5, <1>6 DEF PartsSound

LEMMA SameWhole ==
  ASSUME UNCHANGED vars, Whole(made', stack')
  PROVE  Whole(made, stack)'
<1>1. ASSUME NEW o \in DOMAIN made'
      PROVE  (NamesOf(made[o].class, FALSE) \subseteq DOMAIN made[o].fields \/ UnderWay(o, stack))'
  <2>1. NamesOf(made[o].class, FALSE)' = NamesOf(made'[o].class, FALSE)
    BY DEF NamesOf, vars, program
  <2>2. UnderWay(o, stack)' <=> UnderWay(o, stack')
    BY DEF UnderWay
  <2>3. QED
    BY <2>1, <2>2 DEF Whole
<1>2. QED
  BY <1>1 DEF Whole

LEMMA SameResolved ==
  ASSUME UNCHANGED vars, Resolved
  PROVE  Resolved'
BY ResolvedStays DEF vars

LEMMA EmptySound == Empty => Parts
<1> SUFFICES ASSUME Empty PROVE Parts
  OBVIOUS
<1>1. ValuesSound(values) /\ Initialized(initialized, values)
  <2>1. <<>> \in FieldValues /\ DOMAIN <<>> = {}
    <3>1. <<>> \in [{} -> Int]
      OBVIOUS
    <3>2. QED
      BY <3>1 DEF FieldValues
  <2>2. QED
    BY <2>1 DEF Empty, ValuesSound, Initialized
<1>2. DOMAIN made = {} /\ Len(stack) = 0 /\ Len(made) = 0
  BY DEF Empty
<1>3. MadeSound(made, DOMAIN refs) /\ Whole(made, stack)
  BY <1>2 DEF Empty, MadeSound, Whole
<1>4. PromisesKept(made, refs, promised)
  BY <1>2 DEF Empty, PromisesKept
<1>5. refs \in Seq(Nat \X Method) /\ stack \in Seq(ActSound(values, made)) /\ Linked(stack)
  BY <1>2 DEF Empty, Linked
<1>6. QED
  BY <1>1, <1>3, <1>4, <1>5 DEF Parts, PartsSound

LEMMA OthersStep ==
  ASSUME Parts, kept \subseteq DOMAIN refs, begun \in [Class -> Nat], RuntimeNext
  PROVE  begun' \in [Class -> Nat] /\ kept' \subseteq DOMAIN refs'
<1>1. \/ EnsureInitialized
      \/ Statement
      \/ UNCHANGED <<begun, kept, refs>>
  BY DEF RuntimeNext, StartRuntime, MainEnds, MainNew, SharedDone, InstanceDone, EvaluatePlain,
     EvaluateShared, EvaluateNew, Instantiate, InvokeHandler, HandlerReturns, Fired, classesAndObjects, events
<1>2. begun' \in [Class -> Nat]
  <2>1. CASE EnsureInitialized
    <3>1. begun' = begun \/ \E c : begun' = [begun EXCEPT ![c] = @ + 1]
      BY <2>1 DEF EnsureInitialized
    <3>2. QED
      BY <3>1
  <2>2. CASE Statement
    BY <2>2 DEF Statement, KeepReference, RegisterEvent, UnregisterEvent, Fire, classesAndObjects
  <2>3. QED
    BY <1>1, <2>1, <2>2
<1>3. \/ kept' = kept /\ refs' = refs
      \/ kept' = kept /\ \E x : refs' = Append(refs, x)
      \/ kept' = kept \cup {Len(refs) + 1} /\ \E x : refs' = Append(refs, x)
  <2>1. CASE EnsureInitialized
    BY <2>1 DEF EnsureInitialized, events
  <2>2. CASE Statement
    <3>1. PICK o \in WithEvent, t \in WithEvent, m \in Method :
            \/ KeepReference(t, m)
            \/ \E r \in Given(t, m) : RegisterEvent(o, t, m, r) \/ UnregisterEvent(o, t, m, r)
            \/ Fire(o)
      BY <2>2 DEF Statement
    <3>2. CASE KeepReference(t, m)
      BY <3>2 DEF KeepReference, Fresh
    <3>3. CASE \E r \in Given(t, m) : RegisterEvent(o, t, m, r) \/ UnregisterEvent(o, t, m, r)
      <4>1. kept' = kept /\ (refs' = refs \/ refs' = Append(refs, <<t, m>>))
        BY <3>3 DEF RegisterEvent, UnregisterEvent
      <4>2. QED
        BY <4>1
    <3>4. CASE Fire(o)
      BY <3>4 DEF Fire, events
    <3>5. QED
      BY <3>1, <3>2, <3>3, <3>4
  <2>3. QED
    BY <1>1, <2>1, <2>2
<1>4. kept' \subseteq DOMAIN refs'
  <2>1. refs \in Seq(Nat \X Method)
    BY DEF Parts, PartsSound
  <2>2. Len(refs) \in Nat /\ DOMAIN refs = 1 .. Len(refs)
    BY <2>1, LenProperties
  <2>3. ASSUME NEW x PROVE DOMAIN Append(refs, x) = 1 .. Len(refs) + 1
    <3> DEFINE T == (Nat \X Method) \cup {x}
    <3>1. refs \in Seq(T) /\ x \in T
      BY <2>1, SeqMonotonic
    <3> HIDE DEF T
    <3>2. Append(refs, x) \in Seq(T) /\ Len(Append(refs, x)) = Len(refs) + 1
      BY <3>1, AppendProperties
    <3>3. QED
      BY <3>2, LenProperties
  <2>4. QED
    BY <1>3, <2>2, <2>3
<1>5. QED
  BY <1>2, <1>4

(* A step of the executor starts it or finds it running. *)
LEMMA StateStep ==
  ASSUME RuntimeNext
  PROVE  \/ StartRuntime /\ state = "waits" /\ state' = "runs"
         \/ state = "runs" /\ state' \in {"runs", "done", "error", "recursion"}
<1>1. \A a, s : Enter(a, s) => state' = state \/ state' = "recursion"
  BY DEF Enter
<1>2. \A c : Instantiate(c) => state' = state \/ state' = "recursion"
  BY <1>1 DEF Instantiate
<1>3. CASE StartRuntime
  BY <1>3 DEF StartRuntime
<1>4. CASE MainEnds \/ \E c \in Class : MainNew(c)
  BY <1>2, <1>4 DEF MainEnds, MainNew, Running
<1>5. CASE EnsureInitialized
  BY <1>1, <1>5 DEF EnsureInitialized, Running
<1>6. CASE SharedDone \/ InstanceDone \/ EvaluatePlain \/ EvaluateShared
  BY <1>6 DEF SharedDone, InstanceDone, EvaluatePlain, EvaluateShared, AtInit, Running
<1>7. CASE EvaluateNew
  BY <1>2, <1>7 DEF EvaluateNew, AtInit, Running
<1>8. CASE Statement
  BY <1>8 DEF Statement, ProgramRuns, Running, KeepReference, RegisterEvent, UnregisterEvent, Fire
<1>9. CASE InvokeHandler \/ HandlerReturns \/ Fired
  BY <1>9 DEF InvokeHandler, HandlerReturns, Fired, InLoop, Running
<1>10. QED
  BY <1>3, <1>4, <1>5, <1>6, <1>7, <1>8, <1>9 DEF RuntimeNext

LEMMA RuntimeSoundInit == BothInit => RuntimeSound
<1> SUFFICES ASSUME Init, RuntimeInit PROVE RuntimeSound
  BY DEF BothInit
<1>1. ProgramSound /\ Started
  BY ProgramInit, StartedInit
<1>2. Empty /\ state = "waits" /\ begun \in [Class -> Nat] /\ kept \subseteq DOMAIN refs
  BY DEF RuntimeInit, Empty
<1>3. Parts
  BY <1>2, EmptySound
<1>4. QED
  BY <1>1, <1>2, <1>3 DEF RuntimeSound, Parts

LEMMA RuntimeSoundNext == RuntimeSound /\ [BothNext]_<<vars, runtime>> => RuntimeSound'
<1> SUFFICES ASSUME RuntimeSound, [BothNext]_<<vars, runtime>> PROVE RuntimeSound'
  OBVIOUS
<1>1. [Next]_vars
  BY DEF BothNext
<1>2. ProgramSound' /\ Started'
  BY <1>1, ProgramNext, StartedNext DEF RuntimeSound
<1>3. UNCHANGED runtime \/ (RuntimeNext /\ UNCHANGED vars)
  BY DEF BothNext
<1>4. CASE state = "waits" /\ UNCHANGED runtime
  <2>1. Empty' /\ state' = "waits" /\ begun' \in [Class -> Nat] /\ kept' \subseteq DOMAIN refs'
    BY <1>4 DEF RuntimeSound, Empty, runtime, classesAndObjects, events
  <2>2. Parts'
    BY <2>1, EmptySound, PTL
  <2>3. QED
    BY <1>2, <2>1, <2>2 DEF RuntimeSound, Parts
<1>5. CASE state # "waits" /\ UNCHANGED runtime
  <2>1. UNCHANGED vars
    BY <1>1, <1>5, EndedStays DEF RuntimeSound
  <2>2. Resolved' /\ phase' \in Ended /\ shape' = shape
    BY <1>5, <2>1, SameResolved DEF RuntimeSound, vars, program, Ended
  <2>3. UNCHANGED <<state, begun, kept, refs, values, made, stack, initialized, promised>>
    BY <1>5 DEF runtime, classesAndObjects, events
  <2>4. PartsSound(values, made, stack, initialized, refs, promised)'
    BY <2>1, <2>3, SameParts DEF RuntimeSound
  <2>5. state' # "recursion" => Whole(made, stack)'
    <3>1. state' # "recursion" => Whole(made', stack')
      BY <2>3 DEF RuntimeSound
    <3>2. QED
      BY <2>1, <3>1, SameWhole
  <2>6. QED
    BY <1>2, <1>5, <2>2, <2>3, <2>4, <2>5 DEF RuntimeSound
<1>6. CASE RuntimeNext /\ UNCHANGED vars
  <2>1. phase \in Ended /\ Resolved /\ shape.templates = {}
    <3>1. CASE StartRuntime /\ state = "waits"
      BY <3>1 DEF StartRuntime, RuntimeSound, Started
    <3>2. CASE state = "runs"
      BY <3>2 DEF RuntimeSound
    <3>3. QED
      BY <1>6, <3>1, <3>2, StateStep
  <2>2. Parts
    BY <1>6, StateStep DEF RuntimeSound, Parts
  <2>3. PartsNext
    BY <1>6, <2>1, <2>2, RuntimeStep DEF RuntimeSound
  <2>4. /\ begun' \in [Class -> Nat] /\ kept' \subseteq DOMAIN refs'
        /\ state' \in {"runs", "done", "error", "recursion"}
    BY <1>6, <2>2, OthersStep, StateStep DEF RuntimeSound
  <2>5. PartsSound(values, made, stack, initialized, refs, promised)'
    BY <1>6, <2>3, SameParts DEF PartsNext
  <2>6. state' # "recursion" => Whole(made, stack)'
    BY <1>6, <2>3, SameWhole DEF PartsNext
  <2>7. Resolved' /\ phase' \in Ended /\ shape' = shape
    BY <1>6, <2>1, SameResolved DEF vars, program, Ended
  <2>8. QED
    BY <1>2, <2>1, <2>4, <2>5, <2>6, <2>7 DEF RuntimeSound
<1>7. QED
  BY <1>3, <1>4, <1>5, <1>6

-----------------------------------------------------------------------------
(* The invariant holds in every state. *)
LEMMA RuntimeSoundAlways == BothSpec => []RuntimeSound
<1>1. BothInit => RuntimeSound
  BY RuntimeSoundInit
<1>2. RuntimeSound /\ [BothNext]_<<vars, runtime>> => RuntimeSound'
  BY RuntimeSoundNext
<1>3. QED
  BY <1>1, <1>2, PTL DEF BothSpec

(* An event calls what it had when it was raised, each handler as often    *)
(* and in the order it was registered, and has the methods that were       *)
(* registered and not unregistered, unless one was unregistered by a new   *)
(* reference to it: EventSlot.fire goes over a copy of the handlers, and   *)
(* EventSlot.remove compares them as objects.                              *)
THEOREM EventsKeepPromise == BothSpec => []SlotsKeepPromise
<1>1. RuntimeSound => SlotsKeepPromise
  <2> SUFFICES ASSUME RuntimeSound PROVE SlotsKeepPromise
    OBVIOUS
  <2>1. ASSUME InLoop, Top.todo = <<>> PROVE Top.called = Top.had
    <3>1. Parts /\ stack # <<>> /\ Top.of = "fire"
      BY <2>1 DEF RuntimeSound, Parts, InLoop, Running
    <3>2. Top.called \o Top.todo = Top.had /\ Top.called \in Seq(Nat)
      BY <3>1, TopRaise
    <3>3. QED
      BY <2>1, <3>2, ConcatEmptySeq
  <2>2. ASSUME NEW o \in DOMAIN made, ~promised[o].lost
        PROVE  promised[o].methods = ToBag([i \in DOMAIN made[o].handlers |-> refs[made[o].handlers[i]]])
    <3>1. PromisesKept(made, refs, promised)
      BY DEF RuntimeSound, PartsSound
    <3>2. QED
      BY <2>2, <3>1 DEF PromisesKept, MethodsOf
  <2>3. QED
    BY <2>1, <2>2 DEF SlotsKeepPromise
<1>2. QED
  BY <1>1, RuntimeSoundAlways, PTL

(* An instance that main can use has all its fields: instantiate gives it  *)
(* them before the field or the variable it is made for gets it, however   *)
(* deep the instances made for its fields are.                             *)
InstancesComplete ==
  ProgramRuns => \A o \in DOMAIN made : DOMAIN made[o].fields = NamesOf(made[o].class, FALSE)

THEOREM InstancesAreComplete == BothSpec => []InstancesComplete
<1>1. RuntimeSound => InstancesComplete
  <2> SUFFICES ASSUME RuntimeSound, ProgramRuns, NEW o \in DOMAIN made
               PROVE  DOMAIN made[o].fields = NamesOf(made[o].class, FALSE)
    BY DEF InstancesComplete
  <2>1. Whole(made, stack) /\ stack \in Seq(ActSound(values, made)) /\ Linked(stack)
    BY DEF RuntimeSound, PartsSound, ProgramRuns, Running
  <2>2. Len(stack) \in Nat
    BY <2>1, LenProperties
  <2> DEFINE Raises == {k \in Nat : k < Len(stack) => stack[k + 1].of = "fire"}
  <2>3. 0 \in Raises
    <3>1. stack # <<>> => Top = stack[1] /\ Len(stack) # 0
      BY <2>1, HeadTailProperties DEF Top
    <3>2. stack = <<>> => Len(stack) = 0
      OBVIOUS
    <3>3. QED
      BY <2>2, <3>1, <3>2 DEF ProgramRuns
  <2>4. ASSUME NEW k \in Nat, k \in Raises PROVE k + 1 \in Raises
    <3>1. k + 1 < Len(stack) => k + 1 \in 1 .. Len(stack) - 1
      BY <2>2
    <3>2. QED
      BY <2>1, <2>2, <2>4, <3>1 DEF Linked
  <2> HIDE DEF Raises
  <2>5. \A k \in Nat : k \in Raises
    BY <2>3, <2>4, SetInduction
  <2>6. ~UnderWay(o, stack)
    <3>1. ASSUME NEW k \in 1 .. Len(stack) PROVE stack[k].of = "fire"
      <4>1. k - 1 \in Nat /\ k - 1 < Len(stack) /\ (k - 1) + 1 = k
        BY <2>2
      <4>2. QED
        BY <2>5, <4>1 DEF Raises
    <3>2. QED
      BY <3>1 DEF UnderWay
  <2>7. NamesOf(made[o].class, FALSE) \subseteq DOMAIN made[o].fields
    BY <2>1, <2>6 DEF Whole
  <2>8. DOMAIN made[o].fields \subseteq NamesOf(made[o].class, FALSE)
    BY DEF RuntimeSound, PartsSound, MadeSound
  <2>9. QED
    BY <2>7, <2>8
<1>2. QED
  BY <1>1, RuntimeSoundAlways, PTL

(* A step of both is one of the interpreter, or leaves its state alone. *)
LEMMA StartInvAlways == BothSpec => []StartInv
<1>1. BothInit => StartInv
  BY StartInvInit DEF BothInit
<1>2. [BothNext]_<<vars, runtime>> => [Next]_vars
  BY DEF BothNext
<1>3. StartInv /\ [BothNext]_<<vars, runtime>> => StartInv'
  BY <1>2, StartInvNext
<1>4. QED
  BY <1>1, <1>3, PTL DEF BothSpec

(* So what holds of the interpreter alone holds beside PyFrB: its order is *)
(* the one of the text.                                                    *)
THEOREM OrderKept == BothSpec => []StartsAsWritten
<1> DEFINE InvOfStart == StartInv /\ InOrder /\ EarlyReads
<1>1. BothInit => InvOfStart
  BY StartInvInit, InOrderInit DEF BothInit, Init, EarlyReads
<1>2. [BothNext]_<<vars, runtime>> => [Next]_vars
  BY DEF BothNext
<1>3. InvOfStart /\ [BothNext]_<<vars, runtime>> => InvOfStart'
  BY <1>2, StartInvNext, InOrderNext, EarlyReadsNext
<1>4. InvOfStart => StartsAsWritten
  BY InOrderIs DEF StartsAsWritten, InitsAsWritten
<1> HIDE DEF InvOfStart
<1>5. QED
  BY <1>1, <1>3, <1>4, PTL DEF BothSpec

(* As long as the stack has room for an instance of each class, main is    *)
(* reached only when no class leads to itself, the stack is used up only   *)
(* when one does, and the initialisation of a well ordered program reads   *)
(* nothing that has no value.                                              *)
THEOREM StartKept == ASSUME DeepEnough PROVE BothSpec => [](state = "waits" => StartsWhenOrdered)
<1>1. BothInit => BegunInv
  BY BegunInit DEF BothInit
<1>2. [BothNext]_<<vars, runtime>> => [Next]_vars
  BY DEF BothNext
<1>3. BegunInv /\ [BothNext]_<<vars, runtime>> => BegunInv'
  BY <1>2, BegunNext
<1>4. BegunInv => (state = "waits" => StartsWhenOrdered)
  BY BegunIs
<1>5. QED
  BY <1>1, <1>3, <1>4, PTL DEF BothSpec

(* The state of both has its shape (TypesOK): what the interpreter started *)
(* with, and for PyFrB that the values of a class are those of its shared  *)
(* fields, those of an instance are of its other fields, and an event has  *)
(* references that were made.                                              *)
THEOREM BothHaveTheirShape == BothSpec => []TypesOK
<1>1. RuntimeSound /\ StartInv => TypesOK
  <2> SUFFICES ASSUME RuntimeSound, StartInv PROVE TypesOK
    OBVIOUS
  <2>1. TypeOK
    BY StartInvType
  <2>2. \A c \in Class : DOMAIN values[c] \subseteq NamesOf(c, TRUE)
    BY DEF RuntimeSound, PartsSound, ValuesSound
  <2>3. MadeSound(made, DOMAIN refs)
    BY DEF RuntimeSound, PartsSound
  <2>4. ASSUME NEW o \in DOMAIN made
        PROVE  /\ DOMAIN made[o].fields \subseteq NamesOf(made[o].class, FALSE)
               /\ ToSet(made[o].handlers) \subseteq DOMAIN refs
    <3> DEFINE K == DOMAIN refs
    <3>1. made \in Seq([class : Class, fields : FieldValues, handlers : Seq(K)])
      BY <2>3 DEF MadeSound
    <3> HIDE DEF K
    <3>2. made[o] \in [class : Class, fields : FieldValues, handlers : Seq(K)]
      BY <3>1, LenProperties, ElementOfSeq
    <3>3. made[o].handlers \in Seq(K)
      BY <3>2
    <3>4. ToSet(made[o].handlers) \subseteq K
      BY <3>3, LenProperties, ElementOfSeq DEF ToSet
    <3>5. QED
      BY <2>3, <3>4 DEF MadeSound, K
  <2>5. state \in {"waits", "runs", "done", "error", "recursion"}
    BY DEF RuntimeSound
  <2>6. QED
    BY <2>1, <2>2, <2>4, <2>5 DEF TypesOK
<1>2. QED
  BY <1>1, RuntimeSoundAlways, StartInvAlways, PTL

-----------------------------------------------------------------------------
(* The class of an instance, and those that are named for a shared field   *)
(* that is read: where an activation does not wait for them any more, they *)
(* are initialised, or what is above initialises them.                     *)
Wants(a) ==
  (IF a.of = "instance" THEN {a.class} ELSE {})
    \cup (IF a.left = <<>> THEN {} ELSE ToSet(Uses(a.class, InitOf(a.class, Head(a.left)))))

Needs(a, c) == a.of # "fire" /\ c \in Wants(a) /\ \A i \in 1 .. Len(a.waits) : a.waits[i] # c

Initialises(a, c) == a.of = "shared" /\ a.class = c

Ordered(s, ini) ==
  \A k \in 1 .. Len(s) - 1 : \A c : Needs(s[k + 1], c) => c \in ini \/ Initialises(s[k], c)

Ready(s, ini) ==
  /\ Ordered(s, ini)
  /\ s # <<>> => \A c : Needs(Head(s), c) => c \in ini

LEMMA OrderedPush ==
  ASSUME NEW S, NEW s \in Seq(S), NEW a \in S, NEW ini, Ordered(s, ini),
         s # <<>> => \A c : Needs(Head(s), c) => c \in ini \/ Initialises(a, c)
  PROVE  Ordered(<<a>> \o s, ini) /\ Head(<<a>> \o s) = a /\ <<a>> \o s # <<>>
<1> DEFINE t == <<a>> \o s
<1>1. /\ t \in Seq(S) /\ Len(t) = Len(s) + 1 /\ Len(s) \in Nat
      /\ t[1] = a /\ \A k \in 1 .. Len(s) : t[k + 1] = s[k]
  BY PushIs
<1>2. t # <<>>
  BY <1>1
<1>3. Head(t) = a
  BY <1>1, <1>2, HeadTailProperties
<1> HIDE DEF t
<1>4. ASSUME NEW k \in 1 .. Len(t) - 1, NEW c, Needs(t[k + 1], c)
      PROVE  c \in ini \/ Initialises(t[k], c)
  <2>1. k \in 1 .. Len(s) /\ Needs(s[k], c)
    BY <1>1, <1>4
  <2>2. CASE k = 1
    <3>1. s # <<>> /\ Head(s) = s[1]
      BY <1>1, <2>1, HeadTailProperties
    <3>2. QED
      BY <1>1, <2>1, <2>2, <3>1
  <2>3. CASE k # 1
    <3>1. PICK j \in 1 .. Len(s) - 1 : k = j + 1
      BY <1>1, <2>1, <2>3
    <3>2. t[k] = s[j] /\ Needs(s[j + 1], c)
      BY <1>1, <2>1, <3>1
    <3>3. QED
      BY <3>1, <3>2 DEF Ordered
  <2>4. QED
    BY <2>2, <2>3
<1>5. QED
  BY <1>2, <1>3, <1>4 DEF Ordered, t

LEMMA OrderedPop ==
  ASSUME NEW S, NEW s \in Seq(S), s # <<>>, NEW ini, Ordered(s, ini)
  PROVE  /\ Ordered(Tail(s), ini)
         /\ Tail(s) # <<>> => \A c : Needs(Head(Tail(s)), c) => c \in ini \/ Initialises(Head(s), c)
<1>1. /\ Head(s) = s[1] /\ Len(s) \in Nat \ {0} /\ Tail(s) \in Seq(S) /\ Len(Tail(s)) = Len(s) - 1
      /\ \A k \in 1 .. Len(s) - 1 : Tail(s)[k] = s[k + 1]
  BY HeadTailProperties, LenProperties
<1>2. ASSUME NEW k \in 1 .. Len(Tail(s)) - 1, NEW c, Needs(Tail(s)[k + 1], c)
      PROVE  c \in ini \/ Initialises(Tail(s)[k], c)
  <2>1. k + 1 \in 1 .. Len(s) - 1 /\ k \in 1 .. Len(s) - 1
    BY <1>1
  <2>2. Tail(s)[k] = s[k + 1] /\ Tail(s)[k + 1] = s[(k + 1) + 1]
    BY <1>1, <2>1
  <2>3. QED
    BY <1>2, <2>1, <2>2 DEF Ordered
<1>3. ASSUME Tail(s) # <<>>, NEW c, Needs(Head(Tail(s)), c)
      PROVE  c \in ini \/ Initialises(Head(s), c)
  <2>1. Head(Tail(s)) = Tail(s)[1] /\ 1 \in 1 .. Len(s) - 1
    BY <1>1, <1>3, HeadTailProperties
  <2>2. Head(Tail(s)) = s[1 + 1]
    BY <1>1, <2>1
  <2>3. QED
    BY <1>1, <1>3, <2>1, <2>2 DEF Ordered
<1>4. QED
  BY <1>2, <1>3 DEF Ordered

LEMMA OrderedMore ==
  ASSUME NEW s, NEW ini, NEW ini2, ini \subseteq ini2, Ordered(s, ini)
  PROVE  Ordered(s, ini2)
BY DEF Ordered

(* The top changes, but not what it initialises. *)
LEMMA OrderedTop ==
  ASSUME NEW S, NEW s \in Seq(S), s # <<>>, NEW ini, Ordered(s, ini),
         NEW b \in S, \A c : Initialises(Head(s), c) => Initialises(b, c)
  PROVE  Ordered(<<b>> \o Tail(s), ini) /\ Head(<<b>> \o Tail(s)) = b /\ <<b>> \o Tail(s) # <<>>
<1>1. /\ Ordered(Tail(s), ini) /\ Tail(s) \in Seq(S)
      /\ Tail(s) # <<>> => \A c : Needs(Head(Tail(s)), c) => c \in ini \/ Initialises(Head(s), c)
  BY OrderedPop, HeadTailProperties
<1> DEFINE t == Tail(s)
<1>2. t # <<>> => \A c : Needs(Head(t), c) => c \in ini \/ Initialises(b, c)
  BY <1>1
<1>3. t \in Seq(S) /\ Ordered(t, ini)
  BY <1>1
<1> HIDE DEF t
<1>4. Ordered(<<b>> \o t, ini) /\ Head(<<b>> \o t) = b /\ <<b>> \o t # <<>>
  BY ONLY <1>2, <1>3, b \in S, OrderedPush
<1>5. QED
  BY <1>4 DEF t

(* Where it comes to a field, an activation waits for its class. *)
Fielded(a) ==
  /\ a \in [of : {"shared"}, class : Class, left : Seq(Field), waits : Seq(Class)]
        \cup [of : {"instance"}, class : Class, me : Nat, left : Seq(Field), waits : Seq(Class)]
  /\ \E shrd \in BOOLEAN : a.left \in Seq(NamesOf(a.class, shrd))

LEMMA FieldedIs ==
  ASSUME NEW vals, NEW objs, NEW a \in SharedSound(vals) \cup InstanceSound(objs)
  PROVE  Fielded(a)
BY DEF SharedSound, InstanceSound, Fielded

LEMMA ShorterFielded ==
  ASSUME ProgramSound, NEW a, Fielded(a), a.left # <<>>
  PROVE  Fielded(Shorter(a)) /\ Shorter(a).of = a.of /\ Shorter(a).class = a.class
<1>1. PICK shrd \in BOOLEAN : a.left \in Seq(NamesOf(a.class, shrd))
  BY DEF Fielded
<1>2. NamesOf(a.class, shrd) \subseteq Field
  BY NamesFinite
<1>3. Tail(a.left) \in Seq(NamesOf(a.class, shrd)) /\ Tail(a.left) \in Seq(Field)
  BY <1>1, <1>2, LeftIs
<1>4. /\ Shorter(a) \in [of : {"shared"}, class : Class, left : Seq(Field), waits : Seq(Class)]
           \cup [of : {"instance"}, class : Class, me : Nat, left : Seq(Field), waits : Seq(Class)]
      /\ Shorter(a).of = a.of /\ Shorter(a).class = a.class /\ Shorter(a).left = Tail(a.left)
  BY <1>3 DEF Fielded, Shorter
<1>5. QED
  BY <1>3, <1>4 DEF Fielded

(* The classes that are named for a shared field end with its own. *)
LEMMA UsesEnds ==
  ASSUME shape \in Shapes, NEW k \in Class, NEW init \in Inits, init.kind = "shared"
  PROVE  \E i \in 1 .. Len(Uses(k, init)) : Uses(k, init)[i] = init.class
<1> DEFINE c == init.class
<1>1. c \in Class /\ c # Root
  BY StartupAssumption DEF Inits
<1>2. Uses(k, init) = <<c>> \/ Uses(k, init) = PathTo[c]
  BY DEF Uses, Touched
<1> HIDE DEF c
<1>3. CASE Uses(k, init) = <<c>>
  BY <1>3 DEF c
<1>4. CASE Uses(k, init) = PathTo[c]
  <2> DEFINE p == PathTo[Container(c)]
  <2>1. PathTo[c] = Append(p, c)
    BY <1>1, PathIs DEF Step
  <2>2. p \in Seq(Class)
    <3>1. Container(c) \in Class \cup {Root}
      BY <1>1, ContainerIs, ParentIs DEF Places
    <3>2. QED
      BY <3>1, PathIs
  <2> HIDE DEF p
  <2>3. Len(Append(p, c)) = Len(p) + 1 /\ Len(p) \in Nat /\ Append(p, c)[Len(p) + 1] = c
    BY <1>1, <2>2, AppendProperties, LenProperties
  <2>4. QED
    BY <1>4, <2>1, <2>3 DEF c
<1>5. QED
  BY <1>2, <1>3, <1>4

LEMMA AtFieldWaits ==
  ASSUME ProgramSound, NEW a, Fielded(a)
  PROVE  /\ \A c : Needs(AtField(a), c) =>
              a.of = "instance" /\ c = a.class /\ \A i \in 1 .. Len(a.waits) : a.waits[i] # c
         /\ \A c : Initialises(a, c) <=> Initialises(AtField(a), c)
<1>1. CASE a.left = <<>>
  BY <1>1 DEF AtField, Needs, Wants
<1>2. CASE a.left # <<>>
  <2> DEFINE u == Uses(a.class, InitOf(a.class, Head(a.left)))
             w == a.waits \o u
             b == [a EXCEPT !.waits = w]
  <2>1. AtField(a) = b
    BY <1>2 DEF AtField
  <2>2. b.of = a.of /\ b.class = a.class /\ b.left = a.left /\ b.waits = w
    BY DEF Fielded
  <2>3. a.class \in Class /\ a.waits \in Seq(Class) /\ \E shrd \in BOOLEAN : Head(a.left) \in NamesOf(a.class, shrd)
    BY <1>2, HeadTailProperties DEF Fielded
  <2>4. u \in Seq(Class)
    BY <2>3, DeclaredIs, UsesType DEF ProgramSound
  <2> HIDE DEF b
  <2>5. Wants(b) \subseteq ToSet(u) \cup (IF a.of = "instance" THEN {a.class} ELSE {})
    BY <2>2 DEF Wants
  <2> HIDE DEF u
  <2>6. /\ Len(a.waits) \in Nat /\ Len(u) \in Nat /\ DOMAIN u = 1 .. Len(u) /\ Len(w) = Len(a.waits) + Len(u)
        /\ \A i \in 1 .. Len(a.waits) : w[i] = a.waits[i]
        /\ \A i \in 1 .. Len(u) : w[Len(a.waits) + i] = u[i]
    BY <2>3, <2>4, PrefixIs, LenProperties
  <2> HIDE DEF w
  <2>7. ASSUME NEW c, Needs(b, c)
        PROVE  a.of = "instance" /\ c = a.class /\ \A i \in 1 .. Len(a.waits) : a.waits[i] # c
    <3>1. c \in Wants(b) /\ \A i \in 1 .. Len(w) : w[i] # c
      BY <2>2, <2>7 DEF Needs
    <3>2. c \notin ToSet(u)
      <4>1. \A i \in 1 .. Len(u) : Len(a.waits) + i \in 1 .. Len(w)
        BY <2>6
      <4>2. QED
        BY <2>6, <3>1, <4>1 DEF ToSet
    <3>3. \A i \in 1 .. Len(a.waits) : i \in 1 .. Len(w)
      BY <2>6
    <3>4. QED
      BY <2>5, <2>6, <3>1, <3>2, <3>3
  <2>8. QED
    BY <2>1, <2>2, <2>7 DEF Initialises
<1>3. QED
  BY <1>1, <1>2

LEMMA InitsWait ==
  ASSUME ProgramSound, NEW c \in Class, NEW o \in Nat
  PROVE  /\ \A d : ~Needs(SharedInits(c), d) /\ ~Needs(InstanceInits(c, o), d)
         /\ Initialises(SharedInits(c), c)
<1>1. \A shrd : Names(c, shrd) \in Seq(NamesOf(c, shrd)) /\ Names(c, shrd) \in Seq(Field)
  <2>1. \A shrd : Names(c, shrd) \in Seq(NamesOf(c, shrd))
    BY ONLY ProgramSound, c \in Class, NamesIs
  <2>2. \A shrd : NamesOf(c, shrd) \subseteq Field
    BY NamesFinite
  <2>3. QED
    BY <2>1, <2>2, SeqMonotonic
<1> DEFINE a == [of |-> "shared", class |-> c, left |-> Names(c, TRUE), waits |-> <<>>]
           b == [of |-> "instance", class |-> c, me |-> o, left |-> Names(c, FALSE), waits |-> <<c>>]
<1>2. <<>> \in Seq(Class) /\ <<c>> \in Seq(Class)
  OBVIOUS
<1>3. Fielded(a) /\ Initialises(a, c)
  <2>1. /\ a \in [of : {"shared"}, class : Class, left : Seq(Field), waits : Seq(Class)]
        /\ a.left = Names(c, TRUE) /\ a.class = c /\ a.of = "shared"
    BY <1>1, <1>2
  <2> HIDE DEF a
  <2>2. QED
    BY <1>1, <2>1 DEF Fielded, Initialises
<1>4. Fielded(b)
  <2>1. /\ b \in [of : {"instance"}, class : Class, me : Nat, left : Seq(Field), waits : Seq(Class)]
        /\ b.left = Names(c, FALSE) /\ b.class = c
    BY <1>1, <1>2
  <2> HIDE DEF b
  <2>2. QED
    BY <1>1, <2>1 DEF Fielded
<1>7. a.of = "shared" /\ b.class = c /\ Len(b.waits) = 1 /\ b.waits[1] = c
  OBVIOUS
<1>5. SharedInits(c) = AtField(a) /\ InstanceInits(c, o) = AtField(b)
  BY DEF SharedInits, InstanceInits
<1> HIDE DEF a, b
<1>6. QED
  BY <1>3, <1>4, <1>5, <1>7, AtFieldWaits

(* The stack is what it was, with a new activation or without one. *)
LEMMA EnterReady ==
  ASSUME Ready(stack, initialized), NEW S, NEW under \in Seq(S), NEW a \in S, Ordered(under, initialized),
         under # <<>> => \A c : Needs(Head(under), c) => c \in initialized \/ Initialises(a, c),
         \A c : ~Needs(a, c), Enter(a, under)
  PROVE  Ready(stack', initialized) /\ (state' = state \/ state' = "recursion")
<1>1. Ordered(<<a>> \o under, initialized) /\ Head(<<a>> \o under) = a
  BY OrderedPush
<1>2. (stack' = <<a>> \o under /\ state' = state) \/ (stack' = stack /\ state' = "recursion")
  BY DEF Enter
<1>3. QED
  BY <1>1, <1>2 DEF Ready

LEMMA AssignReady ==
  ASSUME ProgramSound, NEW acts \in Seq(ActSound(values, made)), Ordered(acts, initialized),
         acts # <<>> => Head(acts).of # "fire" /\ Head(acts).left # <<>>,
         acts # <<>> => \A c : Needs(Head(acts), c) => c \in initialized,
         NEW v, Assign(v, acts)
  PROVE  Ready(stack', initialized)
<1>1. CASE acts = <<>>
  <2>1. stack' = <<>> /\ Len(stack') = 0
    BY <1>1 DEF Assign
  <2>2. QED
    BY <2>1 DEF Ready, Ordered
<1>2. CASE acts # <<>>
  <2> DEFINE a == Head(acts)
             b == AtField(Shorter(a))
             S == ActSound(values, made) \cup {b}
  <2>1. stack' = <<b>> \o Tail(acts)
    BY <1>2 DEF Assign, Shorter
  <2>2. a \in ActSound(values, made)
    BY <1>2, HeadTailProperties
  <2>3. a \in SharedSound(values) \cup InstanceSound(made)
    BY <1>2, <2>2, Kinds
  <2>4. Fielded(a)
    BY <2>3, FieldedIs
  <2> HIDE DEF a
  <2>5. Fielded(Shorter(a)) /\ Shorter(a).of = a.of /\ Shorter(a).class = a.class
    BY <1>2, <2>4, ShorterFielded DEF a
  <2>6. /\ \A c : Needs(b, c) => c \in initialized
        /\ \A c : Initialises(a, c) => Initialises(b, c)
    <3>1. Shorter(a).waits = a.waits
      BY <2>4 DEF Fielded, Shorter
    <3>2. ASSUME NEW c, Needs(b, c) PROVE Needs(a, c)
      <4>1. Shorter(a).of = "instance" /\ c = Shorter(a).class /\ \A i \in 1 .. Len(Shorter(a).waits) : Shorter(a).waits[i] # c
        BY <2>5, <3>2, AtFieldWaits DEF b
      <4>2. c \in Wants(a)
        BY <2>5, <4>1 DEF Wants
      <4>3. QED
        BY <2>5, <3>1, <4>1, <4>2 DEF Needs
    <3>3. QED
      BY <1>2, <2>5, <3>2, AtFieldWaits DEF Initialises, a
  <2> HIDE DEF b
  <2>7. acts \in Seq(S) /\ b \in S
    BY SeqMonotonic
  <2> HIDE DEF S
  <2>8. Ordered(<<b>> \o Tail(acts), initialized) /\ Head(<<b>> \o Tail(acts)) = b
    BY <1>2, <2>6, <2>7, OrderedTop DEF a
  <2>9. QED
    BY <2>1, <2>6, <2>8 DEF Ready
<1>3. QED
  BY <1>1, <1>2

LEMMA EnsureReady ==
  ASSUME ProgramSound, Parts, Ready(stack, initialized), EnsureInitialized
  PROVE  Ready(stack', initialized') /\ (state' = state \/ state' = "recursion")
<1> DEFINE c == Head(Top.waits)
           b == [Top EXCEPT !.waits = Tail(@)]
           under == <<b>> \o Below
           S == ActSound(values, made) \cup {b} \cup {SharedInits(c)}
<1>1. /\ stack \in Seq(ActSound(values, made)) /\ stack # <<>>
      /\ Top.of \in {"shared", "instance"} /\ Top.waits # <<>>
  BY DEF Parts, PartsSound, EnsureInitialized, InFields
<1>2. Top \in ActSound(values, made)
  BY <1>1, HeadTailProperties DEF Top
<1>3. Top \in SharedSound(values) \cup InstanceSound(made)
  BY <1>1, <1>2, Kinds
<1>4. Top.waits \in Seq(Class) /\ Fielded(Top)
  BY <1>3, FieldedIs, SharedIs, InstanceIs
<1>5. /\ c \in Class /\ Len(Top.waits) \in Nat \ {0} /\ c = Top.waits[1]
      /\ Len(Tail(Top.waits)) = Len(Top.waits) - 1
      /\ \A i \in 1 .. Len(Tail(Top.waits)) : Tail(Top.waits)[i] = Top.waits[i + 1]
  BY <1>1, <1>4, HeadTailProperties, LenProperties
<1>6. b.of = Top.of /\ b.class = Top.class /\ b.left = Top.left /\ b.waits = Tail(Top.waits)
  BY <1>4 DEF Fielded
<1>7. /\ initialized' = initialized
      /\ \/ c \in initialized /\ stack' = under /\ state' = state
         \/ Enter(SharedInits(c), under)
  BY DEF EnsureInitialized
<1> HIDE DEF c, b
<1>8. ASSUME NEW d, Needs(b, d) PROVE d \in initialized \/ d = c
  <2>1. SUFFICES ASSUME d # c PROVE d \in initialized
    OBVIOUS
  <2>2. ASSUME NEW i \in 1 .. Len(Top.waits) PROVE Top.waits[i] # d
    <3>1. CASE i = 1
      BY <1>5, <2>1, <3>1
    <3>2. CASE i # 1
      <4>1. PICK j \in 1 .. Len(Tail(Top.waits)) : i = j + 1
        BY <1>5, <3>2
      <4>2. QED
        BY <1>5, <1>6, <1>8, <4>1 DEF Needs
    <3>3. QED
      BY <3>1, <3>2
  <2>3. Needs(Top, d)
    <3>1. Wants(b) = Wants(Top)
      BY <1>6 DEF Wants
    <3>2. QED
      BY <1>6, <1>8, <2>2, <3>1 DEF Needs
  <2>4. QED
    BY <1>1, <2>3 DEF Ready, Top
<1>9. \A d : Initialises(Top, d) => Initialises(b, d)
  BY <1>6 DEF Initialises
<1>10. stack \in Seq(S) /\ b \in S /\ SharedInits(c) \in S
  BY <1>1, SeqMonotonic
<1> HIDE DEF S
<1>11. Ordered(under, initialized) /\ Head(under) = b
  BY <1>1, <1>9, <1>10, OrderedTop DEF Top, Below, Ready
<1>12. under \in Seq(S)
  <2>1. Tail(stack) \in Seq(S)
    BY <1>1, <1>10, HeadTailProperties
  <2>2. QED
    BY <1>10, <2>1, PushIs DEF Below
<1>13. (\A d : ~Needs(SharedInits(c), d)) /\ Initialises(SharedInits(c), c)
  BY <1>5, InitsWait
<1> HIDE DEF under
<1>14. CASE c \in initialized /\ stack' = under /\ state' = state
  BY <1>7, <1>8, <1>11, <1>14 DEF Ready
<1>15. CASE Enter(SharedInits(c), under)
  <2>1. \A d : Needs(Head(under), d) => d \in initialized \/ Initialises(SharedInits(c), d)
    BY <1>8, <1>11, <1>13
  <2>2. QED
    BY <1>7, <1>10, <1>11, <1>12, <1>13, <1>15, <2>1, EnterReady
<1>16. QED
  BY <1>7, <1>14, <1>15

LEMMA SharedDoneReady ==
  ASSUME Parts, Ready(stack, initialized), SharedDone
  PROVE  Ready(stack', initialized') /\ state' = state
<1>1. /\ stack \in Seq(ActSound(values, made)) /\ stack # <<>>
      /\ initialized' = initialized \cup {Top.class} /\ stack' = Below /\ state' = state
  BY DEF Parts, PartsSound, SharedDone, InFields
<1>2. /\ Ordered(Below, initialized)
      /\ Below # <<>> => \A c : Needs(Head(Below), c) => c \in initialized \/ Initialises(Top, c)
  BY <1>1, OrderedPop DEF Ready, Below, Top
<1>3. Ordered(Below, initialized')
  BY <1>1, <1>2, OrderedMore
<1>4. Below # <<>> => \A c : Needs(Head(Below), c) => c \in initialized'
  BY <1>1, <1>2 DEF Initialises
<1>5. QED
  BY <1>1, <1>3, <1>4 DEF Ready

LEMMA InstanceDoneReady ==
  ASSUME ProgramSound, Parts, Ready(stack, initialized), InstanceDone
  PROVE  Ready(stack', initialized') /\ state' = state
<1>1. /\ stack \in Seq(ActSound(values, made)) /\ Linked(stack) /\ stack # <<>> /\ Top.of = "instance"
      /\ initialized' = initialized /\ state' = state /\ Assign(Top.me, Below)
  BY DEF Parts, PartsSound, InstanceDone, InFields
<1>2. Below \in Seq(ActSound(values, made)) /\ Fitted(Top, Below)
  BY <1>1, LinkedPop DEF Top, Below
<1>3. Ordered(Below, initialized)
  BY <1>1, OrderedPop DEF Ready, Below
<1>4. Below # <<>> => Head(Below).of # "fire" /\ Head(Below).left # <<>>
  BY <1>1, <1>2 DEF Fitted
<1>5. Below # <<>> => \A c : Needs(Head(Below), c) => c \in initialized
  BY <1>1, OrderedPop DEF Ready, Below, Top, Initialises
<1>6. QED
  BY <1>1, <1>2, <1>3, <1>4, <1>5, AssignReady

LEMMA PlainReady ==
  ASSUME ProgramSound, Parts, Ready(stack, initialized), EvaluatePlain
  PROVE  Ready(stack', initialized') /\ state' = state
<1>1. AtInit /\ Assign(PlainValue, stack) /\ initialized' = initialized /\ state' = state
  BY DEF EvaluatePlain
<1>2. stack \in Seq(ActSound(values, made)) /\ Top.of # "fire" /\ Top.left # <<>>
  BY <1>1, AtInitIs
<1>3. QED
  BY <1>1, <1>2, AssignReady DEF Ready, Top

(* The class of a shared field that is read has all its values. *)
LEMMA SharedValueReady ==
  ASSUME ProgramSound, Resolved, shape.templates = {}, Parts, Ready(stack, initialized), EvaluateShared
  PROVE  Ready(stack', initialized') /\ state' = state
<1> DEFINE k == Top.class
           g == Head(Top.left)
           c == TopInit.class
<1>1. AtInit /\ TopInit.kind = "shared" /\ initialized' = initialized /\ Top.waits = <<>>
      /\ IF TopInit.field \in DOMAIN values[c]
         THEN Assign(values[c][TopInit.field], stack) /\ state' = state
         ELSE TRUE
  BY DEF EvaluateShared, AtInit
<1>2. /\ stack \in Seq(ActSound(values, made)) /\ stack # <<>>
      /\ Top \in SharedSound(values) \/ Top \in InstanceSound(made)
      /\ Top.of # "fire" /\ Top.left # <<>> /\ k \in Class /\ TopInit \in Inits
  BY <1>1, AtInitIs
<1>3. c \in initialized
  <2>1. 1 .. Len(Top.waits) = {}
    BY <1>1
  <2>2. c \in ToSet(Uses(k, TopInit))
    <3>1. PICK i \in 1 .. Len(Uses(k, TopInit)) : Uses(k, TopInit)[i] = c
      BY <1>1, <1>2, UsesEnds DEF ProgramSound
    <3>2. Uses(k, TopInit) \in Seq(Class)
      BY <1>2, UsesType DEF ProgramSound
    <3>3. QED
      BY <3>1, <3>2, LenProperties DEF ToSet
  <2>3. Needs(Top, c)
    BY <1>1, <1>2, <2>1, <2>2 DEF Needs, Wants, TopInit
  <2>4. QED
    BY <1>2, <2>3 DEF Ready, Top
<1>4. TopInit.field \in NamesOf(c, TRUE)
  <2>1. \E shrd \in BOOLEAN : g \in NamesOf(k, shrd)
    BY <1>2, SharedIs, InstanceIs, HeadTailProperties
  <2>2. g \in NamesOf(k, TRUE) \/ g \in NamesOf(k, FALSE)
    BY <2>1
  <2>3. Resolves(k, g)
    BY <1>2, <2>2, NamesFinite DEF Resolved
  <2>4. QED
    BY <1>1, <2>3 DEF Resolves, TopInit
<1>5. TopInit.field \in DOMAIN values[c]
  BY <1>3, <1>4 DEF Parts, PartsSound, Initialized
<1> DEFINE v == values[c][TopInit.field]
<1>6. Assign(v, stack) /\ state' = state
  BY <1>1, <1>5
<1> HIDE DEF v
<1>7. QED
  BY <1>1, <1>2, <1>6, AssignReady DEF Ready, Top

LEMMA InstantiateReady ==
  ASSUME ProgramSound, Parts, Ready(stack, initialized), NEW c \in Class, Instantiate(c)
  PROVE  Ready(stack', initialized') /\ (state' = state \/ state' = "recursion")
<1> DEFINE a == InstanceInits(c, Len(made) + 1)
           S == ActSound(values, made) \cup {a}
<1>1. stack \in Seq(ActSound(values, made)) /\ Len(made) + 1 \in Nat
  <2>1. Len(made) \in Nat
    BY LenProperties DEF Parts, PartsSound, MadeSound
  <2>2. QED
    BY <2>1 DEF Parts, PartsSound
<1>2. Enter(a, stack) /\ initialized' = initialized
  BY DEF Instantiate
<1>3. \A d : ~Needs(a, d)
  BY <1>1, InitsWait
<1>4. stack \in Seq(S) /\ a \in S
  BY <1>1, SeqMonotonic
<1> HIDE DEF a, S
<1>5. QED
  BY <1>2, <1>3, <1>4, EnterReady DEF Ready

(* A raise on top needs no class. *)
LEMMA RaiseReady ==
  ASSUME Parts, Ready(stack, initialized), stack # <<>>, Top.of = "fire",
         NEW a, a.of = "fire", stack' = <<a>> \o Below
  PROVE  Ready(stack', initialized)
<1> DEFINE S == ActSound(values, made) \cup {a}
<1>1. stack \in Seq(S) /\ a \in S
  BY SeqMonotonic DEF Parts, PartsSound
<1>2. \A c : ~Initialises(Top, c) /\ ~Needs(a, c)
  BY DEF Initialises, Needs
<1> HIDE DEF S
<1>3. Ordered(<<a>> \o Below, initialized) /\ Head(<<a>> \o Below) = a
  BY <1>1, <1>2, OrderedTop DEF Ready, Top, Below
<1>4. QED
  BY <1>2, <1>3 DEF Ready

LEMMA FireReady ==
  ASSUME Parts, Ready(stack, initialized), NEW o, Fire(o)
  PROVE  Ready(stack', initialized') /\ state' = state
<1> DEFINE a == [of |-> "fire", inside |-> FALSE, on |-> o, todo |-> made[o].handlers,
                 had |-> made[o].handlers, called |-> <<>>]
           S == ActSound(values, made) \cup {a}
<1>1. stack' = <<a>> \o stack /\ state' = state /\ initialized' = initialized
  BY DEF Fire, classesAndObjects
<1>2. \A c : ~Needs(a, c)
  BY DEF Needs
<1>3. stack \in Seq(S) /\ a \in S
  BY SeqMonotonic DEF Parts, PartsSound
<1> HIDE DEF a, S
<1>4. Ordered(<<a>> \o stack, initialized) /\ Head(<<a>> \o stack) = a
  BY <1>3, OrderedPush DEF Ready
<1>5. QED
  BY <1>1, <1>2, <1>4 DEF Ready

LEMMA FiredReady ==
  ASSUME Parts, Ready(stack, initialized), Fired
  PROVE  Ready(stack', initialized') /\ state' = state
<1>1. /\ stack \in Seq(ActSound(values, made)) /\ stack # <<>> /\ Top.of = "fire"
      /\ initialized' = initialized /\ stack' = Below /\ state' = state
  BY DEF Parts, PartsSound, Fired, InLoop, classesAndObjects
<1>2. \A c : ~Initialises(Top, c)
  BY <1>1 DEF Initialises
<1>3. QED
  BY <1>1, <1>2, OrderedPop DEF Ready, Below, Top

(* An event that finds a method which does not take its arguments is where *)
(* the run ends with an error.                                             *)
EventFailed == state = "error" => stack # <<>> /\ Top.of = "fire"

LEMMA ReadyStep ==
  ASSUME ProgramSound, Resolved, shape.templates = {}, Parts, Ready(stack, initialized), RuntimeNext
  PROVE  Ready(stack', initialized') /\ EventFailed'
<1> DEFINE Fine == state' = state \/ state' = "recursion"
<1>0. Fine => EventFailed'
  BY StateStep DEF EventFailed
<1>1. CASE StartRuntime \/ MainEnds
  BY <1>1 DEF StartRuntime, MainEnds, classesAndObjects, EventFailed
<1>2. CASE \E c \in Class : MainNew(c)
  BY <1>0, <1>2, InstantiateReady DEF MainNew
<1>3. CASE EnsureInitialized
  BY <1>0, <1>3, EnsureReady
<1>4. CASE SharedDone
  BY <1>0, <1>4, SharedDoneReady
<1>5. CASE InstanceDone
  BY <1>0, <1>5, InstanceDoneReady
<1>6. CASE EvaluatePlain
  BY <1>0, <1>6, PlainReady
<1>7. CASE EvaluateShared
  BY <1>0, <1>7, SharedValueReady
<1>8. CASE EvaluateNew
  <2>1. TopInit.class \in Class /\ Instantiate(TopInit.class)
    BY <1>8, AtInitIs DEF EvaluateNew, Inits
  <2>2. QED
    BY <1>0, <2>1, InstantiateReady
<1>9. CASE Statement
  <2>1. PICK o \in WithEvent, t \in WithEvent, m \in Method :
          \/ KeepReference(t, m)
          \/ \E r \in Given(t, m) : RegisterEvent(o, t, m, r) \/ UnregisterEvent(o, t, m, r)
          \/ Fire(o)
    BY <1>9 DEF Statement
  <2>2. UNCHANGED <<state, stack, initialized>> \/ Fire(o)
    BY <2>1 DEF KeepReference, RegisterEvent, UnregisterEvent, classesAndObjects
  <2>3. QED
    BY <1>0, <2>2, FireReady
<1>10. CASE InvokeHandler
  <2> DEFINE a == [Top EXCEPT !.inside = TRUE, !.todo = Tail(@), !.called = Append(@, Head(Top.todo))]
  <2>1. /\ stack # <<>> /\ Top.of = "fire" /\ initialized' = initialized
        /\ stack' = stack \/ (Fine /\ stack' = <<a>> \o Below)
    BY <1>10 DEF InvokeHandler, InLoop, classesAndObjects
  <2>2. a.of = "fire"
    BY <2>1, TopRaise DEF FireSound
  <2> HIDE DEF a
  <2>3. QED
    BY <1>0, <2>1, <2>2, RaiseReady DEF EventFailed, Top
<1>11. CASE HandlerReturns
  <2> DEFINE a == [Top EXCEPT !.inside = FALSE]
  <2>1. /\ stack # <<>> /\ Top.of = "fire" /\ initialized' = initialized /\ Fine
        /\ stack' = <<a>> \o Below
    BY <1>11 DEF HandlerReturns, classesAndObjects
  <2>2. a.of = "fire"
    BY <2>1, TopRaise DEF FireSound
  <2> HIDE DEF a
  <2>3. QED
    BY <1>0, <2>1, <2>2, RaiseReady
<1>12. CASE Fired
  BY <1>0, <1>12, FiredReady
<1>13. QED
  BY <1>1, <1>2, <1>3, <1>4, <1>5, <1>6, <1>7, <1>8, <1>9, <1>10, <1>11, <1>12 DEF RuntimeNext

LEMMA SameUses == UNCHANGED program => \A k, init : Uses(k, init)' = Uses(k, init)
<1> SUFFICES ASSUME UNCHANGED program PROVE \A k, init : Uses(k, init)' = Uses(k, init)
  OBVIOUS
<1>1. shape' = shape
  BY DEF program
<1>2. \A c : Container(c)' = Container(c)
  BY <1>1 DEF Container
<1>3. PathTo' = PathTo
  BY ONLY <1>2, ZenonT(30) DEF PathTo
<1>4. QED
  BY <1>2, <1>3 DEF Uses, Touched

LEMMA SameReady ==
  ASSUME UNCHANGED vars, Ready(stack', initialized')
  PROVE  Ready(stack, initialized)'
<1>1. ASSUME NEW a, NEW c PROVE Needs(a, c)' <=> Needs(a, c)
  <2>1. InitOf(a.class, Head(a.left))' = InitOf(a.class, Head(a.left))
    BY DEF InitOf, Declared, vars, program
  <2>2. \A k, init : Uses(k, init)' = Uses(k, init)
    BY SameUses DEF vars
  <2>3. QED
    BY <2>1, <2>2 DEF Needs, Wants
<1>2. QED
  BY <1>1 DEF Ready, Ordered, Initialises

LEMMA EmptyReady == Empty => Ready(stack, initialized)
<1>1. Empty => stack = <<>> /\ Len(stack) = 0
  BY DEF Empty
<1>2. QED
  BY <1>1 DEF Ready, Ordered

(* The invariant that the classes are ready is one relative to the first.  *)
OrderSound == Ready(stack, initialized) /\ EventFailed

LEMMA OrderSoundNext ==
  RuntimeSound /\ OrderSound /\ [BothNext]_<<vars, runtime>> => OrderSound'
<1> SUFFICES ASSUME RuntimeSound, OrderSound, [BothNext]_<<vars, runtime>> PROVE OrderSound'
  OBVIOUS
<1>1. [Next]_vars /\ (UNCHANGED runtime \/ (RuntimeNext /\ UNCHANGED vars))
  BY DEF BothNext
<1>2. CASE state = "waits" /\ UNCHANGED runtime
  <2>1. Empty' /\ state' = "waits"
    BY <1>2 DEF RuntimeSound, Empty, runtime, classesAndObjects, events
  <2>2. Ready(stack, initialized)'
    BY <2>1, EmptyReady, PTL
  <2>3. QED
    BY <2>1, <2>2 DEF OrderSound, EventFailed
<1>3. CASE state # "waits" /\ UNCHANGED runtime
  <2>1. UNCHANGED vars
    BY <1>1, <1>3, EndedStays DEF RuntimeSound
  <2>2. UNCHANGED <<state, stack, initialized>>
    BY <1>3 DEF runtime, classesAndObjects
  <2>3. Ready(stack, initialized)'
    BY <2>1, <2>2, SameReady DEF OrderSound
  <2>4. QED
    BY <2>2, <2>3 DEF OrderSound, EventFailed, Top
<1>4. CASE RuntimeNext /\ UNCHANGED vars
  <2>1. phase \in Ended /\ Resolved /\ shape.templates = {}
    <3>1. CASE StartRuntime /\ state = "waits"
      BY <3>1 DEF StartRuntime, RuntimeSound, Started
    <3>2. CASE state = "runs"
      BY <3>2 DEF RuntimeSound
    <3>3. QED
      BY <1>4, <3>1, <3>2, StateStep
  <2>2. Parts
    BY <1>4, StateStep DEF RuntimeSound, Parts
  <2>3. Ready(stack', initialized') /\ EventFailed'
    BY <1>4, <2>1, <2>2, ReadyStep DEF RuntimeSound, OrderSound
  <2>4. QED
    BY <1>4, <2>3, SameReady DEF OrderSound
<1>5. QED
  BY <1>1, <1>2, <1>3, <1>4

(* What is initialised has all its values, and no initialiser reads a      *)
(* shared field too early, in whatever order the classes come to be used   *)
(* and however their initialisers use one another: _resolve_member finds   *)
(* the member in every program whose names are resolved, so that an error  *)
(* is one of an event whose method does not take its arguments.            *)
THEOREM InitialisationNeverFails == BothSpec => []OnlyEventsFail
<1>1. BothInit => OrderSound
  <2>1. BothInit => Empty /\ state = "waits"
    BY DEF BothInit, RuntimeInit, Empty
  <2>2. QED
    BY <2>1, EmptyReady DEF OrderSound, EventFailed
<1>2. RuntimeSound /\ OrderSound /\ [BothNext]_<<vars, runtime>> => OrderSound'
  BY OrderSoundNext
<1>3. RuntimeSound /\ OrderSound => OnlyEventsFail
  <2> SUFFICES ASSUME RuntimeSound, OrderSound PROVE OnlyEventsFail
    OBVIOUS
  <2>1. ASSUME NEW c \in initialized PROVE DOMAIN values[c] = NamesOf(c, TRUE)
    BY DEF RuntimeSound, PartsSound, Initialized, ValuesSound
  <2>2. QED
    BY <2>1 DEF OnlyEventsFail, OrderSound, EventFailed
<1>4. QED
  BY <1>1, <1>2, <1>3, RuntimeSoundAlways, PTL DEF BothSpec

-----------------------------------------------------------------------------
(* What the initialisation of a class or an instance leads to: the least   *)
(* set that holds what its fields need, and what those need.               *)
LeadsOf(c, f) ==
  LET init == InitOf(c, f)
  IN  CASE init.kind = "shared" -> {"shared"} \X ToSet(Uses(c, init))
        [] init.kind = "new"    -> {"shared", "instance"} \X {init.class}
        [] OTHER                -> {}

FieldsOf(n) == NamesOf(n[2], n[1] = "shared")

LEMMA LeadsIs == \A n : Leads(n) = UNION {LeadsOf(n[2], f) : f \in FieldsOf(n)}
<1>1. ASSUME NEW c, NEW f
      PROVE  LeadsOf(c, f) = LET init == InitOf(c, f)
                             IN  CASE init.kind = "shared" -> {"shared"} \X ToSet(Touched(c, init.class))
                                   [] init.kind = "new"    -> {"shared", "instance"} \X {init.class}
                                   [] OTHER                -> {}
  BY DEF LeadsOf, Uses
<1>2. QED
  BY <1>1 DEF Leads, FieldsOf

LEMMA NodesFinite == IsFiniteSet(Nodes) /\ Cardinality(Nodes) = 2 * Cardinality(Class) /\ Cardinality(Nodes) \in Nat
<1>1. IsFiniteSet(Class) /\ Cardinality(Class) \in Nat
  BY StartupAssumption, FS_CardinalityType
<1>2. IsFiniteSet({"shared"}) /\ Cardinality({"shared"}) = 1
  BY FS_Singleton
<1>3. IsFiniteSet({"shared"} \cup {"instance"}) /\ Cardinality({"shared"} \cup {"instance"}) = 2
  <2>1. "instance" \notin {"shared"}
    OBVIOUS
  <2>2. QED
    BY <1>2, <2>1, FS_AddElement
<1>4. {"shared"} \cup {"instance"} = {"shared", "instance"}
  OBVIOUS
<1>5. IsFiniteSet(Nodes) /\ Cardinality(Nodes) = Cardinality({"shared", "instance"}) * Cardinality(Class)
  BY <1>1, <1>3, <1>4, FS_Product DEF Nodes
<1>6. QED
  BY <1>1, <1>3, <1>4, <1>5

LEMMA LeadsOfType ==
  ASSUME ProgramSound, NEW c \in Class, NEW shrd, NEW f \in NamesOf(c, shrd)
  PROVE  LeadsOf(c, f) \subseteq Nodes
<1> DEFINE init == InitOf(c, f)
<1>1. init \in Inits
  BY DeclaredIs
<1>2. Uses(c, init) \in Seq(Class)
  BY <1>1, UsesType DEF ProgramSound
<1>3. ToSet(Uses(c, init)) \subseteq Class
  BY <1>2, LenProperties, ElementOfSeq DEF ToSet
<1>4. init.kind = "new" => init.class \in Class
  BY <1>1 DEF Inits
<1> HIDE DEF init
<1>5. QED
  BY <1>3, <1>4 DEF LeadsOf, Nodes, init

LEMMA LeadsType ==
  ASSUME ProgramSound, NEW n \in Nodes
  PROVE  Leads(n) \subseteq Nodes
<1>1. n[2] \in Class
  BY DEF Nodes
<1>2. \A s : \A f \in NamesOf(n[2], s) : LeadsOf(n[2], f) \subseteq Nodes
  BY <1>1, LeadsOfType
<1>3. \A f \in FieldsOf(n) : LeadsOf(n[2], f) \subseteq Nodes
  BY <1>2 DEF FieldsOf
<1>4. QED
  BY <1>3, LeadsIs

(* An instance is nowhere named without its class.                         *)
LEMMA LeadsPaired ==
  ASSUME NEW n, NEW c, <<"instance", c>> \in Leads(n)
  PROVE  <<"shared", c>> \in Leads(n)
<1>1. PICK f \in FieldsOf(n) : <<"instance", c>> \in LeadsOf(n[2], f)
  BY LeadsIs
<1>2. <<"shared", c>> \in LeadsOf(n[2], f)
  <2> DEFINE init == InitOf(n[2], f)
  <2> HIDE DEF init
  <2>1. LeadsOf(n[2], f) = CASE init.kind = "shared" -> {"shared"} \X ToSet(Uses(n[2], init))
                             [] init.kind = "new"    -> {"shared", "instance"} \X {init.class}
                             [] OTHER                -> {}
    BY DEF LeadsOf, init
  <2>2. CASE init.kind = "shared"
    BY <1>1, <2>1, <2>2
  <2>3. CASE init.kind = "new"
    BY <1>1, <2>1, <2>3
  <2>4. CASE init.kind # "shared" /\ init.kind # "new"
    BY <1>1, <2>1, <2>4
  <2>5. QED
    BY <2>2, <2>3, <2>4
<1>3. QED
  BY <1>2, LeadsIs

Further(T) == T \cup UNION {Leads(m) : m \in T}

Spreads(w, p) ==
  /\ w[0] = Leads(p)
  /\ \A n \in 1 .. Cardinality(Nodes) : w[n] = Further(w[n - 1])

LEMMA ReachedIs ==
  ASSUME NEW p
  PROVE  \E w : Spreads(w, p) /\ Reached(p) = w[Cardinality(Nodes)]
<1> DEFINE K == Cardinality(Nodes)
           Upto(w, m) == \A n \in 0 .. m : w[n] = IF n = 0 THEN Leads(p) ELSE Further(w[n - 1])
           Good == {m \in Nat : \E w : Upto(w, m)}
<1>1. K \in Nat
  BY NodesFinite
<1>2. 0 \in Good
  <2>1. Upto([n \in {0} |-> Leads(p)], 0)
    OBVIOUS
  <2>2. QED
    BY <2>1
<1>3. ASSUME NEW m \in Nat, m \in Good PROVE m + 1 \in Good
  <2>1. PICK w : Upto(w, m)
    BY <1>3
  <2> DEFINE v == [n \in 0 .. m + 1 |-> IF n = m + 1 THEN Further(w[m]) ELSE w[n]]
  <2>2. ASSUME NEW n \in 0 .. m + 1 PROVE v[n] = IF n = 0 THEN Leads(p) ELSE Further(v[n - 1])
    <3>1. CASE n = m + 1
      <4>1. v[n] = Further(w[m]) /\ n # 0 /\ n - 1 = m /\ v[m] = w[m]
        BY <3>1
      <4>2. QED
        BY <4>1
    <3>2. CASE n # m + 1
      <4>1. n \in 0 .. m /\ v[n] = w[n] /\ (n # 0 => n - 1 \in 0 .. m + 1 /\ n - 1 # m + 1)
        BY <3>2
      <4>2. n # 0 => v[n - 1] = w[n - 1]
        BY <4>1
      <4>3. QED
        BY <2>1, <4>1, <4>2
    <3>3. QED
      BY <3>1, <3>2
  <2> HIDE DEF v
  <2>3. QED
    BY <2>2
<1>4. \A m \in Nat : m \in Good
  <2> HIDE DEF Good
  <2>1. QED
    BY <1>2, <1>3, SetInduction
<1>5. PICK w : Upto(w, K)
  BY <1>1, <1>4
<1> DEFINE v == [n \in 0 .. K |-> w[n]]
<1>6. v = [n \in 0 .. K |-> IF n = 0 THEN Leads(p) ELSE Further(v[n - 1])]
  <2>1. ASSUME NEW n \in 0 .. K PROVE v[n] = IF n = 0 THEN Leads(p) ELSE Further(v[n - 1])
    <3>1. n # 0 => n - 1 \in 0 .. K
      BY <1>1
    <3>2. QED
      BY <1>5, <3>1
  <2>2. QED
    BY <2>1
<1> DEFINE u == CHOOSE u : u = [n \in 0 .. K |-> IF n = 0 THEN Leads(p) ELSE u[n - 1] \cup UNION {Leads(m) : m \in u[n - 1]}]
<1>7. u = [n \in 0 .. K |-> IF n = 0 THEN Leads(p) ELSE u[n - 1] \cup UNION {Leads(m) : m \in u[n - 1]}]
  <2>1. v = [n \in 0 .. K |-> IF n = 0 THEN Leads(p) ELSE v[n - 1] \cup UNION {Leads(m) : m \in v[n - 1]}]
    BY <1>6 DEF Further
  <2> HIDE DEF v
  <2>2. QED
    BY <2>1
<1>8. Reached(p) = u[K]
  BY DEF Reached
<1> HIDE DEF u
<1>9. ASSUME NEW n \in 0 .. K PROVE u[n] = IF n = 0 THEN Leads(p) ELSE Further(u[n - 1])
  BY <1>7 DEF Further
<1>10. Spreads(u, p)
  <2>1. u[0] = Leads(p)
    BY <1>1, <1>9
  <2>2. ASSUME NEW n \in 1 .. K PROVE u[n] = Further(u[n - 1])
    <3>1. n \in 0 .. K /\ n # 0
      BY <1>1
    <3>2. QED
      BY <1>9, <3>1
  <2>3. QED
    BY <2>1, <2>2 DEF Spreads
<1>11. QED
  BY <1>8, <1>10

LEMMA ReachedClosed ==
  ASSUME ProgramSound, NEW p \in Nodes
  PROVE  /\ Leads(p) \subseteq Reached(p) /\ Reached(p) \subseteq Nodes
         /\ \A m \in Reached(p) : Leads(m) \subseteq Reached(p)
<1> DEFINE K == Cardinality(Nodes)
<1>1. IsFiniteSet(Nodes) /\ K \in Nat
  BY NodesFinite
<1>2. PICK w : Spreads(w, p) /\ Reached(p) = w[K]
  BY ReachedIs
<1> DEFINE Fine(n) == /\ Leads(p) \subseteq w[n] /\ w[n] \subseteq Nodes
                      /\ Further(w[n]) = w[n] \/ n <= Cardinality(w[n])
           Good == {n \in Nat : n <= K => Fine(n)}
<1>3. \A T \in SUBSET Nodes : Further(T) \subseteq Nodes /\ T \subseteq Further(T)
  BY LeadsType DEF Further
<1>4. \A T \in SUBSET Nodes : IsFiniteSet(T) /\ Cardinality(T) \in Nat
  BY <1>1, FS_Subset, FS_CardinalityType
<1>5. 0 \in Good
  <2>1. w[0] = Leads(p) /\ Leads(p) \subseteq Nodes
    BY <1>2, LeadsType DEF Spreads
  <2>2. QED
    BY <1>4, <2>1
<1>6. ASSUME NEW n \in Nat, n \in Good, n + 1 <= K PROVE Fine(n + 1)
  <2>1. n + 1 \in 1 .. K /\ n <= K
    BY <1>1, <1>6
  <2>2. (n + 1) - 1 = n
    OBVIOUS
  <2>3. w[n + 1] = Further(w[n])
    BY <1>2, <2>1, <2>2 DEF Spreads
  <2>4. Fine(n)
    BY <1>6, <2>1
  <2>5. w[n] \subseteq w[n + 1] /\ w[n + 1] \subseteq Nodes
    BY <1>3, <2>3, <2>4
  <2>6. CASE Further(w[n]) = w[n]
    BY <2>3, <2>4, <2>5, <2>6
  <2>7. CASE Further(w[n]) # w[n]
    <3>1. Cardinality(w[n]) <= Cardinality(w[n + 1]) /\ Cardinality(w[n]) # Cardinality(w[n + 1])
      BY <1>4, <2>3, <2>5, <2>7, FS_Subset
    <3>2. Cardinality(w[n]) \in Nat /\ Cardinality(w[n + 1]) \in Nat /\ n <= Cardinality(w[n])
      BY <1>4, <2>4, <2>5, <2>7
    <3>3. n + 1 <= Cardinality(w[n + 1])
      BY <3>1, <3>2
    <3>4. QED
      BY <2>4, <2>5, <3>3
  <2>8. QED
    BY <2>6, <2>7
<1>7. \A n \in Nat : n \in Good
  <2>1. \A n \in Nat : n \in Good => n + 1 \in Good
    BY <1>6
  <2> HIDE DEF Good
  <2>2. QED
    BY <1>5, <2>1, SetInduction
<1>8. Fine(K)
  BY <1>1, <1>7
<1>9. Further(w[K]) = w[K]
  <2>1. CASE K <= Cardinality(w[K])
    <3>1. w[K] = Nodes
      BY <1>1, <1>4, <1>8, <2>1, FS_Subset
    <3>2. QED
      BY <1>3, <3>1
  <2>2. QED
    BY <1>8, <2>1
<1>10. QED
  BY <1>2, <1>8, <1>9 DEF Further

LEMMA ReachedLeast ==
  ASSUME NEW p, NEW X, Leads(p) \subseteq X, \A m \in X : Leads(m) \subseteq X
  PROVE  Reached(p) \subseteq X
<1> DEFINE K == Cardinality(Nodes)
<1>1. K \in Nat
  BY NodesFinite
<1>2. PICK w : Spreads(w, p) /\ Reached(p) = w[K]
  BY ReachedIs
<1> DEFINE Good == {n \in Nat : n <= K => w[n] \subseteq X}
<1>3. 0 \in Good
  BY <1>2 DEF Spreads
<1>4. ASSUME NEW n \in Nat, n \in Good, n + 1 <= K PROVE w[n + 1] \subseteq X
  <2>1. n + 1 \in 1 .. K /\ n <= K /\ (n + 1) - 1 = n
    BY <1>1, <1>4
  <2>2. w[n + 1] = Further(w[n])
    BY <1>2, <2>1 DEF Spreads
  <2>3. w[n] \subseteq X
    BY <1>4, <2>1
  <2>4. QED
    BY <2>2, <2>3 DEF Further
<1>5. \A n \in Nat : n \in Good
  <2>1. \A n \in Nat : n \in Good => n + 1 \in Good
    BY <1>4
  <2> HIDE DEF Good
  <2>2. QED
    BY <1>3, <2>1, SetInduction
<1>6. QED
  BY <1>1, <1>2, <1>5

LEMMA ReachedPaired ==
  ASSUME ProgramSound, NEW p \in Nodes, NEW c, <<"instance", c>> \in Reached(p)
  PROVE  <<"shared", c>> \in Reached(p)
<1> DEFINE X == {m \in Reached(p) : m[1] = "instance" => <<"shared", m[2]>> \in Reached(p)}
<1>1. /\ Leads(p) \subseteq Reached(p) /\ Reached(p) \subseteq Nodes
      /\ \A m \in Reached(p) : Leads(m) \subseteq Reached(p)
  BY ReachedClosed
<1>2. \A n : Leads(n) \subseteq Reached(p) => Leads(n) \subseteq X
  <2> SUFFICES ASSUME NEW n, Leads(n) \subseteq Reached(p), NEW m \in Leads(n), m[1] = "instance"
               PROVE  <<"shared", m[2]>> \in Reached(p)
    OBVIOUS
  <2>1. m = <<"instance", m[2]>>
    BY <1>1 DEF Nodes
  <2>2. QED
    BY <2>1, LeadsPaired
<1>3. Leads(p) \subseteq X /\ \A m \in X : Leads(m) \subseteq X
  BY <1>1, <1>2
<1>4. Reached(p) \subseteq X
  <2> HIDE DEF X
  <2>1. QED
    BY <1>3, ReachedLeast
<1>5. QED
  BY <1>4

-----------------------------------------------------------------------------
(* What stands on the stack is needed by what is below it.                 *)
NodeOf(a) == <<a.of, a.class>>

(* What an instance waits for first is its own class. *)
OwnClass(w, b) == b.of = "instance" /\ w = b.class

Waiting(a) ==
  \A i \in 1 .. Len(a.waits) : <<"shared", a.waits[i]>> \in Leads(NodeOf(a)) \/ OwnClass(a.waits[i], a)

(* An instance is for the field of the activation below it. *)
Wanted(a, b) == InitOf(b.class, Head(b.left)).kind = "new" /\ InitOf(b.class, Head(b.left)).class = a.class

Hangs(a, b) ==
  /\ NodeOf(a) \in Leads(NodeOf(b)) \/ (a.of = "shared" /\ OwnClass(a.class, b))
  /\ a.of = "instance" => Wanted(a, b)

Tall(s) ==
  /\ \A k \in 1 .. Len(s) : s[k].of # "fire" => Waiting(s[k])
  /\ \A k \in 1 .. Len(s) - 1 : s[k].of # "fire" => Hangs(s[k], s[k + 1])

LEMMA TallPush ==
  ASSUME NEW S, NEW s \in Seq(S), NEW a \in S, Tall(s),
         a.of # "fire" => Waiting(a) /\ (s # <<>> => Hangs(a, Head(s)))
  PROVE  Tall(<<a>> \o s)
<1> DEFINE t == <<a>> \o s
<1>1. /\ Len(t) = Len(s) + 1 /\ Len(s) \in Nat
      /\ t[1] = a /\ \A k \in 1 .. Len(s) : t[k + 1] = s[k]
  BY PushIs
<1> HIDE DEF t
<1>2. ASSUME NEW k \in 1 .. Len(t), t[k].of # "fire" PROVE Waiting(t[k])
  <2>1. CASE k = 1
    BY <1>1, <1>2, <2>1
  <2>2. CASE k # 1
    <3>1. PICK j \in 1 .. Len(s) : k = j + 1
      BY <1>1, <2>2
    <3>2. QED
      BY <1>1, <1>2, <3>1 DEF Tall
  <2>3. QED
    BY <2>1, <2>2
<1>3. ASSUME NEW k \in 1 .. Len(t) - 1, t[k].of # "fire" PROVE Hangs(t[k], t[k + 1])
  <2>1. CASE k = 1
    <3>1. s # <<>> /\ t[k + 1] = Head(s) /\ t[k] = a
      BY <1>1, <2>1, EmptySeq
    <3>2. QED
      BY <1>3, <3>1
  <2>2. CASE k # 1
    <3>1. PICK j \in 1 .. Len(s) - 1 : k = j + 1
      BY <1>1, <2>2
    <3>2. t[k] = s[j] /\ t[k + 1] = s[j + 1]
      BY <1>1, <3>1
    <3>3. QED
      BY <1>3, <3>1, <3>2 DEF Tall
  <2>3. QED
    BY <2>1, <2>2
<1>4. QED
  BY <1>2, <1>3 DEF Tall, t

LEMMA TallPop ==
  ASSUME NEW S, NEW s \in Seq(S), s # <<>>, Tall(s)
  PROVE  /\ Tall(Tail(s))
         /\ Head(s).of # "fire" => Waiting(Head(s)) /\ (Tail(s) # <<>> => Hangs(Head(s), Head(Tail(s))))
<1> DEFINE t == Tail(s)
<1>1. /\ t \in Seq(S) /\ Head(s) \in S /\ Head(s) = s[1] /\ Len(s) \in Nat \ {0}
      /\ Len(t) = Len(s) - 1 /\ \A k \in 1 .. Len(t) : t[k] = s[k + 1]
  BY HeadAndTail
<1>2. t # <<>> => Head(t) = s[2] /\ 1 \in 1 .. Len(s) - 1
  <2> HIDE DEF t
  <2>1. QED
    BY <1>1, HeadAndTail
<1> HIDE DEF t
<1>3. ASSUME NEW k \in 1 .. Len(t), t[k].of # "fire" PROVE Waiting(t[k])
  <2>1. k + 1 \in 1 .. Len(s) /\ t[k] = s[k + 1]
    BY <1>1
  <2>2. QED
    BY <1>3, <2>1 DEF Tall
<1>4. ASSUME NEW k \in 1 .. Len(t) - 1, t[k].of # "fire" PROVE Hangs(t[k], t[k + 1])
  <2>1. k \in 1 .. Len(t) /\ k + 1 \in 1 .. Len(t) /\ k + 1 \in 1 .. Len(s) - 1
    BY <1>1
  <2>2. t[k] = s[k + 1] /\ t[k + 1] = s[(k + 1) + 1]
    BY <1>1, <2>1
  <2>3. QED
    BY <1>4, <2>1, <2>2 DEF Tall
<1>5. Head(s).of # "fire" => Waiting(Head(s)) /\ (t # <<>> => Hangs(Head(s), Head(t)))
  <2>1. 1 \in 1 .. Len(s) /\ 1 + 1 = 2
    BY <1>1
  <2>2. QED
    BY <1>1, <1>2, <2>1 DEF Tall
<1>6. QED
  BY <1>3, <1>4, <1>5 DEF Tall, t

LEMMA TallTop ==
  ASSUME NEW S, NEW s \in Seq(S), s # <<>>, Tall(s), NEW b \in S, Head(s).of # "fire",
         b.of = Head(s).of, b.class = Head(s).class, Waiting(b)
  PROVE  Tall(<<b>> \o Tail(s))
<1>1. Tall(Tail(s)) /\ (Tail(s) # <<>> => Hangs(Head(s), Head(Tail(s)))) /\ Tail(s) \in Seq(S)
  BY TallPop, HeadTailProperties
<1>2. Tail(s) # <<>> => Hangs(b, Head(Tail(s)))
  BY <1>1 DEF Hangs, NodeOf, Wanted
<1>3. QED
  BY <1>1, <1>2, TallPush

(* What an activation leads to, its own class included.                    *)
Beyond(b) ==
  Reached(NodeOf(b)) \cup (IF b.of = "instance" THEN {<<"shared", b.class>>} \cup Reached(<<"shared", b.class>>) ELSE {})

Placed(s) == \A k \in 1 .. Len(s) : s[k].of \in {"shared", "instance"} /\ s[k].class \in Class

LEMMA BeyondClosed ==
  ASSUME ProgramSound, NEW b, b.of \in {"shared", "instance"}, b.class \in Class
  PROVE  /\ Leads(NodeOf(b)) \subseteq Beyond(b)
         /\ \A m \in Beyond(b) : Leads(m) \subseteq Beyond(b)
         /\ \A c : <<"instance", c>> \in Beyond(b) => <<"shared", c>> \in Beyond(b)
<1> DEFINE p == NodeOf(b)
           q == <<"shared", b.class>>
<1>1. p \in Nodes /\ q \in Nodes
  BY DEF NodeOf, Nodes
<1>2. q[1] = "shared"
  OBVIOUS
<1> HIDE DEF p, q
<1>3. /\ Leads(p) \subseteq Reached(p) /\ \A m \in Reached(p) : Leads(m) \subseteq Reached(p)
      /\ Leads(q) \subseteq Reached(q) /\ \A m \in Reached(q) : Leads(m) \subseteq Reached(q)
  BY <1>1, ReachedClosed
<1>4. /\ \A c : <<"instance", c>> \in Reached(p) => <<"shared", c>> \in Reached(p)
      /\ \A c : <<"instance", c>> \in Reached(q) => <<"shared", c>> \in Reached(q)
  BY <1>1, ReachedPaired
<1>5. Beyond(b) = Reached(p) \cup (IF b.of = "instance" THEN {q} \cup Reached(q) ELSE {})
  BY DEF Beyond, p, q
<1>6. \A c : <<"instance", c>> # q
  BY DEF q
<1>7. QED
  BY <1>3, <1>4, <1>5, <1>6 DEF p

(* Each activation leads to all that stand above it. *)
LEMMA TallLeads ==
  ASSUME ProgramSound, NEW t, Tall(t), Placed(t), Len(t) \in Nat, NEW j \in 1 .. Len(t)
  PROVE  \A i \in 1 .. j - 1 : NodeOf(t[i]) \in Beyond(t[j])
<1> DEFINE B == Beyond(t[j])
           Good == {n \in Nat : 1 <= n /\ n < j => NodeOf(t[j - n]) \in B}
<1>1. /\ Leads(NodeOf(t[j])) \subseteq B
      /\ \A m \in B : Leads(m) \subseteq B
      /\ \A c : <<"instance", c>> \in B => <<"shared", c>> \in B
      /\ \A c : OwnClass(c, t[j]) => <<"shared", c>> \in B
  <2>1. t[j].of \in {"shared", "instance"} /\ t[j].class \in Class
    BY DEF Placed
  <2>2. \A c : OwnClass(c, t[j]) => <<"shared", c>> \in B
    BY DEF OwnClass, Beyond
  <2>3. QED
    BY <2>1, <2>2, BeyondClosed
<1> HIDE DEF B
<1>2. ASSUME NEW i \in 1 .. j - 1, i = j - 1 \/ NodeOf(t[i + 1]) \in B PROVE NodeOf(t[i]) \in B
  <2>1. i \in 1 .. Len(t) - 1 /\ i \in 1 .. Len(t) /\ i + 1 \in 1 .. Len(t)
    OBVIOUS
  <2>2. Hangs(t[i], t[i + 1])
    BY <2>1 DEF Tall, Placed
  <2>3. CASE NodeOf(t[i]) \in Leads(NodeOf(t[i + 1]))
    <3>1. i = j - 1 => t[i + 1] = t[j]
      OBVIOUS
    <3>2. QED
      BY <1>1, <1>2, <2>3, <3>1
  <2>4. CASE t[i].of = "shared" /\ OwnClass(t[i].class, t[i + 1])
    <3>1. i = j - 1 => t[i + 1] = t[j]
      OBVIOUS
    <3>2. NodeOf(t[i]) = <<"shared", t[i].class>> /\ NodeOf(t[i + 1]) = <<"instance", t[i].class>>
      BY <2>4 DEF NodeOf, OwnClass
    <3>3. QED
      BY <1>1, <1>2, <2>4, <3>1, <3>2
  <2>5. QED
    BY <2>2, <2>3, <2>4 DEF Hangs
<1>3. 0 \in Good
  OBVIOUS
<1>4. ASSUME NEW n \in Nat, n \in Good PROVE n + 1 \in Good
  <2> SUFFICES ASSUME n + 1 < j PROVE NodeOf(t[j - (n + 1)]) \in B
    OBVIOUS
  <2>1. j - (n + 1) \in 1 .. j - 1 /\ (j - (n + 1)) + 1 = j - n /\ (j - (n + 1) = j - 1 \/ (1 <= n /\ n < j))
    OBVIOUS
  <2>2. j - (n + 1) = j - 1 \/ NodeOf(t[(j - (n + 1)) + 1]) \in B
    BY <1>4, <2>1
  <2>3. QED
    BY <1>2, <2>1, <2>2
<1>5. \A n \in Nat : n \in Good
  <2> HIDE DEF Good
  <2>1. QED
    BY <1>3, <1>4, SetInduction
<1>6. ASSUME NEW i \in 1 .. j - 1 PROVE NodeOf(t[i]) \in B
  <2>1. j - i \in Nat /\ 1 <= j - i /\ j - i < j /\ j - (j - i) = i
    OBVIOUS
  <2>2. j - i \in Good
    BY <1>5, <2>1
  <2>3. QED
    BY <2>1, <2>2
<1>7. QED
  BY <1>6 DEF B

(* The same above itself is a cycle. *)
LEMMA TallRepeats ==
  ASSUME ProgramSound, NEW t, Tall(t), Placed(t), Len(t) \in Nat,
         NEW j \in 1 .. Len(t), NEW i \in 1 .. j - 1, NodeOf(t[i]) = NodeOf(t[j])
  PROVE  Circular(NodeOf(t[j])) \/ Circular(<<"shared", t[j].class>>)
<1>1. NodeOf(t[j]) \in Beyond(t[j])
  BY TallLeads
<1>2. CASE t[j].of = "shared"
  BY <1>1, <1>2 DEF Beyond, Circular
<1>3. CASE t[j].of = "instance"
  <2> DEFINE c == t[j].class
             p == NodeOf(t[j])
             q == <<"shared", c>>
  <2>1. p = <<"instance", c>> /\ p # q /\ q \in Nodes
    BY <1>3 DEF NodeOf, Nodes, Placed
  <2>2. p \in Reached(p) \/ p \in Reached(q)
    BY <1>1, <1>3, <2>1 DEF Beyond
  <2> HIDE DEF p, q
  <2>3. p \in Reached(q) => q \in Reached(q)
    BY <2>1, ReachedPaired DEF q
  <2>4. QED
    BY <2>2, <2>3 DEF Circular, p, q
<1>4. QED
  BY <1>2, <1>3 DEF Placed

LEMMA SharedRepeats ==
  ASSUME ProgramSound, NEW t, Tall(t), Placed(t), Len(t) \in Nat,
         NEW j \in 1 .. Len(t), NEW i \in 1 .. j - 1, NEW c,
         NodeOf(t[i]) = <<"shared", c>>, NodeOf(t[j]) = <<"shared", c>>
  PROVE  Circular(<<"shared", c>>)
<1>1. t[j].class = c
  BY DEF NodeOf
<1>2. QED
  BY <1>1, TallRepeats

(* More activations than there are classes twice.                          *)
LEMMA TallEnds ==
  ASSUME ProgramSound, NEW t, Tall(t), Placed(t), Len(t) \in Nat, Len(t) > Cardinality(Nodes)
  PROVE  \E n \in Nodes : Circular(n)
<1> DEFINE K == Len(t)
           node == [k \in 1 .. K |-> NodeOf(t[k])]
<1>1. node \in [1 .. K -> Nodes]
  BY DEF Placed, NodeOf, Nodes
<1>2. IsFiniteSet(1 .. K) /\ Cardinality(1 .. K) = K
  <2>1. 1 \in Int /\ K \in Int /\ K \in Nat /\ (~(1 > K) => K - 1 + 1 = K)
    OBVIOUS
  <2>2. 1 > K => K = 0
    OBVIOUS
  <2>3. QED
    BY ONLY <2>1, <2>2, FS_Interval
<1>3. Cardinality(Nodes) < Cardinality(1 .. K)
  BY <1>2, NodesFinite
<1>4. \A k \in 1 .. K : node[k] = NodeOf(t[k])
  OBVIOUS
<1> HIDE DEF node
<1>5. PICK x, y \in 1 .. K : x # y /\ node[x] = node[y]
  BY <1>1, <1>2, <1>3, NodesFinite, FS_PigeonHole
<1>6. PICK i, j \in 1 .. K : i < j /\ NodeOf(t[i]) = NodeOf(t[j])
  <2>1. CASE x < y
    BY <1>4, <1>5, <2>1
  <2>2. CASE ~(x < y)
    <3>1. y < x
      BY <1>5, <2>2
    <3>2. QED
      BY <1>4, <1>5, <3>1
  <2>3. QED
    BY <2>1, <2>2
<1>7. Circular(NodeOf(t[j])) \/ Circular(<<"shared", t[j].class>>)
  <2>1. i \in 1 .. j - 1
    BY <1>6
  <2>2. QED
    BY <1>6, <2>1, TallRepeats
<1>8. NodeOf(t[j]) \in Nodes /\ <<"shared", t[j].class>> \in Nodes
  BY DEF Placed, NodeOf, Nodes
<1>9. QED
  BY <1>7, <1>8

-----------------------------------------------------------------------------
(* What is initialised or made has been gone through, and so has all it    *)
(* leads to: a set of classes and instances that no cycle leads out of.    *)
Acyclic(D) == D \subseteq Nodes /\ \A n \in D : Leads(n) \subseteq D /\ ~Circular(n)

Passed(a, D) ==
  a.of # "fire" => \A f \in NamesOf(a.class, a.of = "shared") :
                     (\E i \in 1 .. Len(a.left) : a.left[i] = f) \/ LeadsOf(a.class, f) \subseteq D
AllPassed(s, D) == \A k \in 1 .. Len(s) : Passed(s[k], D)

Finished(D, ini, objs, s) ==
  /\ Acyclic(D)
  /\ \A c \in ini : <<"shared", c>> \in D
  /\ \A o \in DOMAIN objs : UnderWay(o, s) \/ <<"instance", objs[o].class>> \in D
  /\ AllPassed(s, D)

(* A class whose initialisation began is initialised, or on the stack.     *)
OnStack(c, s) == \E k \in 1 .. Len(s) : Initialises(s[k], c)
HasBegun(s, ini, bg) == \A c \in Class : bg[c] # 0 => c \in ini \/ OnStack(c, s)

Standing(s, ini, bg) == Tall(s) /\ HasBegun(s, ini, bg)

(* What a push adds. *)
LEMMA Onto ==
  ASSUME NEW S, NEW s \in Seq(S), NEW a \in S
  PROVE  /\ \A D : AllPassed(<<a>> \o s, D) <=> Passed(a, D) /\ AllPassed(s, D)
         /\ \A c : OnStack(c, <<a>> \o s) <=> Initialises(a, c) \/ OnStack(c, s)
         /\ \A o : UnderWay(o, <<a>> \o s) <=> (a.of = "instance" /\ a.me = o) \/ UnderWay(o, s)
<1> DEFINE t == <<a>> \o s
<1>1. /\ Len(t) = Len(s) + 1 /\ Len(s) \in Nat
      /\ t[1] = a /\ \A k \in 1 .. Len(s) : t[k + 1] = s[k]
  BY PushIs
<1> HIDE DEF t
<1>2. \A k \in 1 .. Len(t) : k = 1 \/ \E j \in 1 .. Len(s) : k = j + 1
  <2> SUFFICES ASSUME NEW k \in 1 .. Len(t), k # 1 PROVE \E j \in 1 .. Len(s) : k = j + 1
    OBVIOUS
  <2>1. k - 1 \in 1 .. Len(s) /\ k = (k - 1) + 1
    BY <1>1
  <2>2. QED
    BY <2>1
<1>3. 1 \in 1 .. Len(t) /\ \A j \in 1 .. Len(s) : j + 1 \in 1 .. Len(t)
  BY <1>1
<1>4. ASSUME NEW D PROVE AllPassed(t, D) <=> Passed(a, D) /\ AllPassed(s, D)
  BY <1>1, <1>2, <1>3 DEF AllPassed
<1>5. ASSUME NEW c PROVE OnStack(c, t) <=> Initialises(a, c) \/ OnStack(c, s)
  <2>1. OnStack(c, t) => Initialises(a, c) \/ OnStack(c, s)
    BY <1>1, <1>2 DEF OnStack
  <2>2. Initialises(a, c) => OnStack(c, t)
    BY <1>1, <1>3 DEF OnStack
  <2>3. OnStack(c, s) => OnStack(c, t)
    BY <1>1, <1>3 DEF OnStack
  <2>4. QED
    BY <2>1, <2>2, <2>3
<1>6. ASSUME NEW o PROVE UnderWay(o, t) <=> (a.of = "instance" /\ a.me = o) \/ UnderWay(o, s)
  <2>1. UnderWay(o, t) => (a.of = "instance" /\ a.me = o) \/ UnderWay(o, s)
    BY <1>1, <1>2 DEF UnderWay
  <2>2. a.of = "instance" /\ a.me = o => UnderWay(o, t)
    BY <1>1, <1>3 DEF UnderWay
  <2>3. UnderWay(o, s) => UnderWay(o, t)
    BY <1>1, <1>3 DEF UnderWay
  <2>4. QED
    BY <2>1, <2>2, <2>3
<1>7. QED
  BY <1>4, <1>5, <1>6 DEF t

(* The top and what is below it. *)
LEMMA Under ==
  ASSUME NEW S, NEW s \in Seq(S), s # <<>>
  PROVE  /\ Head(s) \in S /\ Tail(s) \in Seq(S)
         /\ \A D : AllPassed(s, D) <=> Passed(Head(s), D) /\ AllPassed(Tail(s), D)
         /\ \A c : OnStack(c, s) <=> Initialises(Head(s), c) \/ OnStack(c, Tail(s))
         /\ \A o : UnderWay(o, s) <=> (Head(s).of = "instance" /\ Head(s).me = o) \/ UnderWay(o, Tail(s))
<1> DEFINE a == Head(s)
           t == Tail(s)
<1>1. /\ t \in Seq(S) /\ a \in S /\ a = s[1] /\ Len(s) \in Nat \ {0}
      /\ Len(t) = Len(s) - 1 /\ \A k \in 1 .. Len(t) : t[k] = s[k + 1]
  BY HeadAndTail
<1> HIDE DEF a, t
<1>2. /\ <<a>> \o t \in Seq(S) /\ Len(<<a>> \o t) = Len(t) + 1
      /\ (<<a>> \o t)[1] = a /\ \A k \in 1 .. Len(t) : (<<a>> \o t)[k + 1] = t[k]
  BY <1>1, PushIs
<1>3. ASSUME NEW k \in 1 .. Len(s) PROVE (<<a>> \o t)[k] = s[k]
  <2>1. CASE k = 1
    BY <1>1, <1>2, <2>1
  <2>2. CASE k # 1
    <3>1. k - 1 \in 1 .. Len(t) /\ (k - 1) + 1 = k
      BY <1>1, <2>2
    <3>2. QED
      BY <1>1, <1>2, <3>1
  <2>3. QED
    BY <2>1, <2>2
<1>4. <<a>> \o t = s
  <2>1. Len(<<a>> \o t) = Len(s)
    BY <1>1, <1>2
  <2>2. QED
    BY <1>2, <1>3, <2>1, SeqEqual
<1>5. /\ \A D : AllPassed(s, D) <=> Passed(a, D) /\ AllPassed(t, D)
      /\ \A c : OnStack(c, s) <=> Initialises(a, c) \/ OnStack(c, t)
      /\ \A o : UnderWay(o, s) <=> (a.of = "instance" /\ a.me = o) \/ UnderWay(o, t)
  <2>1. /\ \A D : AllPassed(<<a>> \o t, D) <=> Passed(a, D) /\ AllPassed(t, D)
        /\ \A c : OnStack(c, <<a>> \o t) <=> Initialises(a, c) \/ OnStack(c, t)
        /\ \A o : UnderWay(o, <<a>> \o t) <=> (a.of = "instance" /\ a.me = o) \/ UnderWay(o, t)
    BY <1>1, Onto
  <2>2. QED
    BY <1>4, <2>1
<1>6. QED
  BY <1>1, <1>5 DEF a, t

(* Initialisations stand on initialisations only. *)
LEMMA LinkedAlike ==
  ASSUME NEW S, NEW s \in Seq(S), Linked(s), s # <<>>
  PROVE  \A k \in 1 .. Len(s) : s[k].of = "fire" <=> Head(s).of = "fire"
<1> DEFINE Good == {n \in Nat : n + 1 \in 1 .. Len(s) => (s[n + 1].of = "fire" <=> Head(s).of = "fire")}
<1>1. Head(s) = s[1] /\ Len(s) \in Nat
  BY HeadAndTail
<1>2. 0 \in Good
  BY <1>1
<1>3. ASSUME NEW n \in Nat, n \in Good PROVE n + 1 \in Good
  <2> SUFFICES ASSUME (n + 1) + 1 \in 1 .. Len(s) PROVE s[(n + 1) + 1].of = "fire" <=> Head(s).of = "fire"
    OBVIOUS
  <2>1. n + 1 \in 1 .. Len(s) - 1 /\ n + 1 \in 1 .. Len(s)
    BY <1>1
  <2>2. QED
    BY <1>3, <2>1 DEF Linked
<1>4. \A n \in Nat : n \in Good
  <2> HIDE DEF Good
  <2>1. QED
    BY <1>2, <1>3, SetInduction
<1>5. ASSUME NEW k \in 1 .. Len(s) PROVE s[k].of = "fire" <=> Head(s).of = "fire"
  <2>1. k - 1 \in Nat /\ (k - 1) + 1 = k
    OBVIOUS
  <2>2. QED
    BY <1>4, <2>1
<1>6. QED
  BY <1>5

(* An activation at a field waits for what the field leads to.             *)
Sited(a) ==
  /\ a \in [of : {"shared"}, class : Class, left : Seq(Field), waits : Seq(Class)]
        \cup [of : {"instance"}, class : Class, me : Nat, left : Seq(Field), waits : Seq(Class)]
  /\ a.left \in Seq(NamesOf(a.class, a.of = "shared"))

LEMMA SitedIs ==
  ASSUME NEW vals, NEW objs, NEW a \in SharedSound(vals) \cup InstanceSound(objs)
  PROVE  Sited(a)
<1>1. ASSUME a \in SharedSound(vals) PROVE Sited(a)
  <2>1. /\ a \in [of : {"shared"}, class : Class, left : Seq(Field), waits : Seq(Class)]
        /\ a.left \in Seq(NamesOf(a.class, TRUE))
    BY <1>1 DEF SharedSound
  <2>2. (a.of = "shared") = TRUE
    BY <2>1
  <2>3. QED
    BY <2>1, <2>2 DEF Sited
<1>2. ASSUME a \in InstanceSound(objs) PROVE Sited(a)
  <2>1. /\ a \in [of : {"instance"}, class : Class, me : Nat, left : Seq(Field), waits : Seq(Class)]
        /\ a.left \in Seq(NamesOf(a.class, FALSE))
    BY <1>2 DEF InstanceSound
  <2>2. (a.of = "shared") = FALSE
    BY <2>1
  <2>3. QED
    BY <2>1, <2>2 DEF Sited
<1>3. QED
  BY <1>1, <1>2

LEMMA SitedShorter ==
  ASSUME ProgramSound, NEW a, Sited(a), a.left # <<>>
  PROVE  /\ Sited(Shorter(a)) /\ Shorter(a).of = a.of /\ Shorter(a).class = a.class
         /\ Shorter(a).waits = a.waits /\ Shorter(a).left = Tail(a.left)
         /\ a.of = "instance" => Shorter(a).me = a.me
<1> DEFINE N == NamesOf(a.class, a.of = "shared")
<1>1. N \subseteq Field
  BY NamesFinite
<1>2. a.left \in Seq(N)
  BY DEF Sited
<1> HIDE DEF N
<1>3. Tail(a.left) \in Seq(N) /\ Tail(a.left) \in Seq(Field)
  BY <1>1, <1>2, LeftIs
<1>4. /\ Shorter(a) \in [of : {"shared"}, class : Class, left : Seq(Field), waits : Seq(Class)]
           \cup [of : {"instance"}, class : Class, me : Nat, left : Seq(Field), waits : Seq(Class)]
      /\ Shorter(a).of = a.of /\ Shorter(a).class = a.class /\ Shorter(a).left = Tail(a.left)
      /\ Shorter(a).waits = a.waits /\ (a.of = "instance" => Shorter(a).me = a.me)
  BY <1>3 DEF Sited, Shorter
<1>5. QED
  BY <1>3, <1>4 DEF Sited, N

(* The field an activation is at is one of its node. *)
LEMMA HeadLeads ==
  ASSUME NEW a, Sited(a), a.left # <<>>
  PROVE  Head(a.left) \in FieldsOf(NodeOf(a)) /\ LeadsOf(a.class, Head(a.left)) \subseteq Leads(NodeOf(a))
<1>1. Head(a.left) \in NamesOf(a.class, a.of = "shared")
  BY HeadTailProperties DEF Sited
<1>2. NodeOf(a)[1] = a.of /\ NodeOf(a)[2] = a.class
  BY DEF NodeOf
<1>3. Head(a.left) \in FieldsOf(NodeOf(a))
  BY <1>1, <1>2 DEF FieldsOf
<1>4. QED
  BY <1>2, <1>3, LeadsIs

LEMMA AtFieldWaiting ==
  ASSUME ProgramSound, NEW a, Sited(a), Waiting(a)
  PROVE  /\ Waiting(AtField(a)) /\ NodeOf(AtField(a)) = NodeOf(a)
         /\ AtField(a).of = a.of /\ AtField(a).class = a.class /\ AtField(a).left = a.left
         /\ a.of = "instance" => AtField(a).me = a.me
<1>1. CASE a.left = <<>>
  BY <1>1 DEF AtField
<1>2. CASE a.left # <<>>
  <2> DEFINE init == InitOf(a.class, Head(a.left))
             u == Uses(a.class, init)
             w == a.waits \o u
             b == [a EXCEPT !.waits = w]
  <2>1. AtField(a) = b
    BY <1>2 DEF AtField
  <2>2. /\ b.of = a.of /\ b.class = a.class /\ b.left = a.left /\ b.waits = w
        /\ a.of = "instance" => b.me = a.me
    BY DEF Sited
  <2>3. a.class \in Class /\ a.waits \in Seq(Class) /\ Head(a.left) \in NamesOf(a.class, a.of = "shared")
    BY <1>2, HeadTailProperties DEF Sited
  <2>4. init \in Inits
    BY <2>3, DeclaredIs
  <2>5. u \in Seq(Class)
    BY <2>3, <2>4, UsesType DEF ProgramSound
  <2>6. \A j \in 1 .. Len(u) : <<"shared", u[j]>> \in Leads(NodeOf(a))
    <3>1. CASE init.kind = "shared"
      <4>1. LeadsOf(a.class, Head(a.left)) = {"shared"} \X ToSet(u)
        BY <3>1 DEF LeadsOf
      <4>2. \A j \in 1 .. Len(u) : u[j] \in ToSet(u)
        BY <2>5, LenProperties DEF ToSet
      <4>3. LeadsOf(a.class, Head(a.left)) \subseteq Leads(NodeOf(a))
        BY <1>2, HeadLeads
      <4> HIDE DEF u
      <4>4. QED
        BY <4>1, <4>2, <4>3
    <3>2. CASE init.kind # "shared"
      <4>1. u = <<>>
        BY <3>2 DEF Uses
      <4>2. 1 .. Len(u) = {}
        BY <4>1
      <4>3. QED
        BY <4>2
    <3>3. QED
      BY <3>1, <3>2
  <2> HIDE DEF init, u, b
  <2>7. /\ Len(a.waits) \in Nat /\ Len(u) \in Nat /\ Len(w) = Len(a.waits) + Len(u)
        /\ \A i \in 1 .. Len(a.waits) : w[i] = a.waits[i]
        /\ \A i \in 1 .. Len(u) : w[Len(a.waits) + i] = u[i]
    BY <2>3, <2>5, PrefixIs, LenProperties
  <2> HIDE DEF w
  <2>8. NodeOf(b) = NodeOf(a)
    BY <2>2 DEF NodeOf
  <2>9. ASSUME NEW i \in 1 .. Len(w) PROVE <<"shared", w[i]>> \in Leads(NodeOf(a)) \/ OwnClass(w[i], a)
    <3>1. CASE i <= Len(a.waits)
      BY <2>7, <3>1 DEF Waiting
    <3>2. CASE ~(i <= Len(a.waits))
      <4>1. i - Len(a.waits) \in 1 .. Len(u) /\ Len(a.waits) + (i - Len(a.waits)) = i
        BY <2>7, <3>2
      <4>2. w[i] = u[i - Len(a.waits)]
        BY <2>7, <4>1
      <4>3. QED
        BY <2>6, <4>1, <4>2
    <3>3. QED
      BY <3>1, <3>2
  <2>10. Waiting(b)
    BY <2>2, <2>8, <2>9 DEF Waiting, OwnClass
  <2>11. QED
    BY <2>1, <2>2, <2>8, <2>10
<1>3. QED
  BY <1>1, <1>2

-----------------------------------------------------------------------------
(* Activations as they begin. *)
LEMMA PassedFull ==
  ASSUME NEW a, NEW N, N = NamesOf(a.class, a.of = "shared"), \A f \in N : \E i \in 1 .. Len(a.left) : a.left[i] = f,
         NEW D
  PROVE  Passed(a, D)
BY DEF Passed

LEMMA InitsBegin ==
  ASSUME ProgramSound, NEW c \in Class, NEW o \in Nat
  PROVE  /\ SharedInits(c).of = "shared" /\ SharedInits(c).class = c
         /\ InstanceInits(c, o).of = "instance" /\ InstanceInits(c, o).class = c /\ InstanceInits(c, o).me = o
         /\ Waiting(SharedInits(c)) /\ Waiting(InstanceInits(c, o))
         /\ \A D : Passed(SharedInits(c), D) /\ Passed(InstanceInits(c, o), D)
<1> DEFINE a == [of |-> "shared", class |-> c, left |-> Names(c, TRUE), waits |-> <<>>]
           b == [of |-> "instance", class |-> c, me |-> o, left |-> Names(c, FALSE), waits |-> <<c>>]
<1>1. /\ \A s : Names(c, s) \in Seq(NamesOf(c, s)) /\ Names(c, s) \in Seq(Field)
      /\ \A s : \A f \in NamesOf(c, s) : \E i \in 1 .. Len(Names(c, s)) : Names(c, s)[i] = f
  <2>1. \A s : Names(c, s) \in Seq(NamesOf(c, s))
    BY ONLY ProgramSound, c \in Class, NamesIs
  <2>2. \A s : \A f \in NamesOf(c, s) : \E i \in 1 .. Len(Names(c, s)) : Names(c, s)[i] = f
    BY ONLY ProgramSound, c \in Class, NamesIs
  <2>3. \A s : NamesOf(c, s) \subseteq Field
    BY NamesFinite
  <2>4. QED
    BY <2>1, <2>2, <2>3, SeqMonotonic
<1>2. <<>> \in Seq(Class) /\ <<c>> \in Seq(Class)
  OBVIOUS
<1>3. /\ a \in [of : {"shared"}, class : Class, left : Seq(Field), waits : Seq(Class)]
      /\ a.left = Names(c, TRUE) /\ a.class = c /\ a.of = "shared" /\ Len(a.waits) = 0
  BY <1>1, <1>2
<1>4. /\ b \in [of : {"instance"}, class : Class, me : Nat, left : Seq(Field), waits : Seq(Class)]
      /\ b.left = Names(c, FALSE) /\ b.class = c /\ b.of = "instance" /\ b.me = o
      /\ Len(b.waits) = 1 /\ b.waits[1] = c
  BY <1>1, <1>2
<1>5. SharedInits(c) = AtField(a) /\ InstanceInits(c, o) = AtField(b)
  BY DEF SharedInits, InstanceInits
<1> HIDE DEF a, b
<1>12. /\ a.left \in Seq(NamesOf(c, TRUE)) /\ b.left \in Seq(NamesOf(c, FALSE))
       /\ \A f \in NamesOf(c, TRUE) : \E i \in 1 .. Len(a.left) : a.left[i] = f
       /\ \A f \in NamesOf(c, FALSE) : \E i \in 1 .. Len(b.left) : b.left[i] = f
  <2>1. /\ Names(c, TRUE) \in Seq(NamesOf(c, TRUE))
        /\ \A f \in NamesOf(c, TRUE) : \E i \in 1 .. Len(Names(c, TRUE)) : Names(c, TRUE)[i] = f
    BY ONLY <1>1
  <2>2. /\ Names(c, FALSE) \in Seq(NamesOf(c, FALSE))
        /\ \A f \in NamesOf(c, FALSE) : \E i \in 1 .. Len(Names(c, FALSE)) : Names(c, FALSE)[i] = f
    BY ONLY <1>1
  <2>3. a.left = Names(c, TRUE) /\ b.left = Names(c, FALSE)
    BY <1>3, <1>4
  <2>4. /\ a.left \in Seq(NamesOf(c, TRUE))
        /\ \A f \in NamesOf(c, TRUE) : \E i \in 1 .. Len(a.left) : a.left[i] = f
    BY ONLY <2>1, <2>3
  <2>5. /\ b.left \in Seq(NamesOf(c, FALSE))
        /\ \A f \in NamesOf(c, FALSE) : \E i \in 1 .. Len(b.left) : b.left[i] = f
    BY ONLY <2>2, <2>3
  <2>6. QED
    BY <2>4, <2>5
<1>6. (a.of = "shared") = TRUE /\ (b.of = "shared") = FALSE
  BY <1>3, <1>4
<1>7. Sited(a) /\ Sited(b)
  <2>1. a.left \in Seq(NamesOf(a.class, TRUE)) /\ b.left \in Seq(NamesOf(b.class, FALSE))
    BY <1>3, <1>4, <1>12
  <2>2. QED
    BY <1>3, <1>4, <1>6, <2>1 DEF Sited
<1>8. Waiting(a) /\ Waiting(b)
  BY <1>3, <1>4 DEF Waiting, OwnClass
<1>9. /\ Waiting(AtField(a)) /\ AtField(a).of = a.of /\ AtField(a).class = a.class /\ AtField(a).left = a.left
      /\ Waiting(AtField(b)) /\ AtField(b).of = b.of /\ AtField(b).class = b.class /\ AtField(b).left = b.left
      /\ AtField(b).me = b.me
  BY <1>4, <1>7, <1>8, AtFieldWaiting
<1>10. ASSUME NEW D PROVE Passed(AtField(a), D) /\ Passed(AtField(b), D)
  <2> DEFINE x == AtField(a)
             y == AtField(b)
  <2>1. /\ x.class = c /\ x.left = a.left /\ (x.of = "shared") = TRUE
        /\ y.class = c /\ y.left = b.left /\ (y.of = "shared") = FALSE
    BY <1>3, <1>4, <1>6, <1>9
  <2> HIDE DEF x, y
  <2> DEFINE N == NamesOf(c, TRUE)
             P == NamesOf(c, FALSE)
  <2>2. \A f \in N : \E i \in 1 .. Len(x.left) : x.left[i] = f
    BY ONLY <1>12, <2>1
  <2>3. \A f \in P : \E i \in 1 .. Len(y.left) : y.left[i] = f
    BY ONLY <1>12, <2>1
  <2>4. N = NamesOf(x.class, x.of = "shared")
    BY ONLY <2>1
  <2>5. P = NamesOf(y.class, y.of = "shared")
    BY ONLY <2>1
  <2> HIDE DEF N, P
  <2>6. Passed(x, D)
    BY ONLY <2>2, <2>4, PassedFull
  <2>7. Passed(y, D)
    BY ONLY <2>3, <2>5, PassedFull
  <2>8. QED
    BY <2>6, <2>7 DEF x, y
<1>11. QED
  BY <1>3, <1>4, <1>5, <1>9, <1>10

(* A push finds room, or the stack has a cycle. *)
LEMMA EnterOnce ==
  ASSUME ProgramSound, state = "runs", NEW S, NEW under \in Seq(S), NEW a \in S, Tall(under), Placed(under),
         a.of \in {"shared", "instance"}, a.class \in Class, Waiting(a), under # <<>> => Hangs(a, Head(under)),
         Enter(a, under)
  PROVE  /\ Tall(<<a>> \o under) /\ Placed(<<a>> \o under) /\ Len(<<a>> \o under) \in Nat
         /\ state' \in {"runs", "recursion"}
         /\ state' = "runs" => stack' = <<a>> \o under
         /\ state' = "recursion" /\ DeepEnough => \E n \in Nodes : Circular(n)
<1> DEFINE t == <<a>> \o under
<1>1. /\ t \in Seq(S) /\ Len(t) = Len(under) + 1 /\ Len(under) \in Nat
      /\ t[1] = a /\ \A k \in 1 .. Len(under) : t[k + 1] = under[k]
  BY PushIs
<1>2. Tall(t)
  BY TallPush
<1>3. /\ state' \in {"runs", "recursion"}
      /\ state' = "runs" => stack' = t
      /\ state' = "recursion" => ~(Len(under) < MaxDepth)
  BY DEF Enter
<1> HIDE DEF t
<1>4. Placed(t)
  <2> SUFFICES ASSUME NEW k \in 1 .. Len(t) PROVE t[k].of \in {"shared", "instance"} /\ t[k].class \in Class
    BY DEF Placed
  <2>1. CASE k = 1
    BY <1>1, <2>1
  <2>2. CASE k # 1
    <3>1. k - 1 \in 1 .. Len(under) /\ (k - 1) + 1 = k
      BY <1>1, <2>2
    <3>2. QED
      BY <1>1, <3>1 DEF Placed
  <2>3. QED
    BY <2>1, <2>2
<1>5. ASSUME state' = "recursion", DeepEnough PROVE \E n \in Nodes : Circular(n)
  <2>1. Len(t) > Cardinality(Nodes)
    <3>1. Cardinality(Class) \in Nat /\ MaxDepth \in Nat
      BY StartupAssumption, FS_CardinalityType
    <3>2. Len(under) >= MaxDepth /\ MaxDepth >= 3 * Cardinality(Class)
      BY <1>1, <1>3, <1>5, <3>1 DEF DeepEnough
    <3>3. QED
      BY <1>1, <3>1, <3>2, NodesFinite
  <2>2. QED
    BY <1>1, <1>2, <1>4, <2>1, TallEnds
<1>6. QED
  BY <1>1, <1>2, <1>3, <1>4, <1>5 DEF t

LEMMA StackPlaced ==
  ASSUME Parts, stack # <<>> => Top.of # "fire"
  PROVE  Placed(stack)
<1>1. stack \in Seq(ActSound(values, made)) /\ Linked(stack)
  BY DEF Parts, PartsSound
<1>2. ASSUME NEW k \in 1 .. Len(stack) PROVE stack[k].of \in {"shared", "instance"} /\ stack[k].class \in Class
  <2>1. stack[k] \in ActSound(values, made) /\ Len(stack) \in Nat
    BY <1>1, LenProperties, ElementOfSeq
  <2>2. stack # <<>>
    BY <2>1
  <2>3. stack[k].of # "fire"
    BY <1>1, <2>2, LinkedAlike DEF Top
  <2>4. stack[k] \in SharedSound(values) \/ stack[k] \in InstanceSound(made)
    BY <2>1, <2>3, Kinds
  <2>5. QED
    BY <2>1, <2>3, <2>4, Kinds, SharedIs, InstanceIs
<1>3. QED
  BY <1>2 DEF Placed

(* A field is done: the activation on top of acts goes to the next one. *)
SameClasses(objs, objs2) == DOMAIN objs2 = DOMAIN objs /\ \A o \in DOMAIN objs : objs2[o].class = objs[o].class

LEMMA ClassKept ==
  ASSUME NEW known, MadeSound(made, known), NEW o, NEW v, made' = [made EXCEPT ![o].fields = v] \/ made' = made
  PROVE  SameClasses(made, made')
<1>1. ASSUME NEW p \in DOMAIN made PROVE [made[p] EXCEPT !.fields = v].class = made[p].class
  <2>1. made[p] \in [class : Class, fields : FieldValues, handlers : Seq(known)]
    BY ObjectIs
  <2>2. QED
    BY <2>1
<1>2. CASE made' = [made EXCEPT ![o].fields = v]
  <2>1. DOMAIN made' = DOMAIN made
    BY <1>2
  <2>2. \A p \in DOMAIN made : made'[p] = IF p = o THEN [made[p] EXCEPT !.fields = v] ELSE made[p]
    BY <1>2
  <2>3. QED
    BY <1>1, <2>1, <2>2 DEF SameClasses
<1>3. QED
  BY <1>2 DEF SameClasses

LEMMA PassedOn ==
  ASSUME ProgramSound, NEW a, Sited(a), a.left # <<>>, NEW b, b.of = a.of, b.class = a.class, b.left = Tail(a.left),
         NEW D, Passed(a, D), LeadsOf(a.class, Head(a.left)) \subseteq D
  PROVE  Passed(b, D)
<1> DEFINE N == NamesOf(a.class, a.of = "shared")
<1>1. N \subseteq Field
  BY NamesFinite
<1>2. a.left \in Seq(N) /\ a.of # "fire"
  BY DEF Sited
<1>3. \A f \in N : (\E i \in 1 .. Len(a.left) : a.left[i] = f) \/ LeadsOf(a.class, f) \subseteq D
  BY <1>2 DEF Passed
<1>4. (b.of = "shared") = (a.of = "shared")
  OBVIOUS
<1>5. N = NamesOf(b.class, b.of = "shared")
  BY <1>4
<1> HIDE DEF N
<1>6. ASSUME NEW f \in N PROVE (\E i \in 1 .. Len(b.left) : b.left[i] = f) \/ LeadsOf(b.class, f) \subseteq D
  <2>1. CASE f = Head(a.left)
    BY <2>1
  <2>2. CASE f # Head(a.left) /\ \E i \in 1 .. Len(a.left) : a.left[i] = f
    BY <1>1, <1>2, <2>2, FieldDone
  <2>3. QED
    BY <1>3, <2>1, <2>2
<1>7. QED
  BY <1>5, <1>6 DEF Passed

LEMMA AssignOnce ==
  ASSUME ProgramSound, Parts, NEW acts \in Seq(ActSound(values, made)), Tall(acts),
         acts # <<>> => Head(acts).of # "fire" /\ Head(acts).left # <<>>,
         NEW v, Assign(v, acts)
  PROVE  /\ Tall(stack') /\ SameClasses(made, made')
         /\ \A c : OnStack(c, stack') <=> OnStack(c, acts)
         /\ \A o : UnderWay(o, stack') <=> UnderWay(o, acts)
         /\ \A D : /\ AllPassed(acts, D)
                   /\ acts # <<>> => LeadsOf(Head(acts).class, Head(Head(acts).left)) \subseteq D
                   => AllPassed(stack', D)
<1>1. CASE acts = <<>>
  <2>1. stack' = acts /\ made' = made
    BY <1>1 DEF Assign
  <2>2. QED
    BY <2>1 DEF SameClasses
<1>2. CASE acts # <<>>
  <2> DEFINE a == Head(acts)
             b == AtField(Shorter(a))
             t == Tail(acts)
             A == ActSound(values, made)
             S == A \cup {b}
  <2>1. stack' = <<b>> \o t
    BY <1>2 DEF Assign, Shorter
  <2>2. SameClasses(made, made')
    <3>1. made' = made \/ made' = [made EXCEPT ![a.me].fields = Setting(made[a.me].fields, Head(a.left), v)]
      BY <1>2 DEF Assign
    <3>2. MadeSound(made, DOMAIN refs)
      BY DEF Parts, PartsSound
    <3>3. QED
      BY <3>1, <3>2, ClassKept
  <2>3. a \in A
    BY <1>2, HeadTailProperties
  <2>4. a \in SharedSound(values) \cup InstanceSound(made)
    BY <1>2, <2>3, Kinds
  <2>5. Sited(a) /\ a.of # "fire" /\ a.left # <<>>
    BY <1>2, <2>4, SitedIs
  <2>6. Waiting(a)
    BY <1>2, TallPop
  <2> HIDE DEF a
  <2>7. /\ Sited(Shorter(a)) /\ Shorter(a).of = a.of /\ Shorter(a).class = a.class
        /\ Shorter(a).waits = a.waits /\ Shorter(a).left = Tail(a.left)
        /\ a.of = "instance" => Shorter(a).me = a.me
    BY <2>5, SitedShorter
  <2>8. Waiting(Shorter(a))
    BY <2>6, <2>7 DEF Waiting, NodeOf, OwnClass
  <2>9. /\ Waiting(b) /\ b.of = a.of /\ b.class = a.class /\ b.left = Tail(a.left)
        /\ a.of = "instance" => b.me = a.me
    BY <2>7, <2>8, AtFieldWaiting
  <2> HIDE DEF b
  <2>10. acts \in Seq(S) /\ b \in S
    BY SeqMonotonic
  <2> HIDE DEF S
  <2>11. Tall(<<b>> \o t)
    BY <1>2, <2>5, <2>9, <2>10, TallTop DEF a
  <2>12. /\ t \in Seq(S)
         /\ \A D : AllPassed(acts, D) <=> Passed(a, D) /\ AllPassed(t, D)
         /\ \A c : OnStack(c, acts) <=> Initialises(a, c) \/ OnStack(c, t)
         /\ \A o : UnderWay(o, acts) <=> (a.of = "instance" /\ a.me = o) \/ UnderWay(o, t)
    BY <1>2, <2>10, Under DEF a
  <2> HIDE DEF t
  <2>13. /\ \A D : AllPassed(<<b>> \o t, D) <=> Passed(b, D) /\ AllPassed(t, D)
         /\ \A c : OnStack(c, <<b>> \o t) <=> Initialises(b, c) \/ OnStack(c, t)
         /\ \A o : UnderWay(o, <<b>> \o t) <=> (b.of = "instance" /\ b.me = o) \/ UnderWay(o, t)
    BY <2>10, <2>12, Onto
  <2>14. \A c : Initialises(b, c) <=> Initialises(a, c)
    BY <2>9 DEF Initialises
  <2>15. ASSUME NEW D, AllPassed(acts, D), LeadsOf(a.class, Head(a.left)) \subseteq D PROVE AllPassed(stack', D)
    <3>1. Passed(a, D)
      BY <2>12, <2>15
    <3>2. Passed(b, D)
      BY <2>5, <2>9, <2>15, <3>1, PassedOn
    <3>3. QED
      BY <2>1, <2>12, <2>13, <2>15, <3>2
  <2>16. \A c : OnStack(c, stack') <=> OnStack(c, acts)
    BY <2>1, <2>12, <2>13, <2>14
  <2>17. \A o : UnderWay(o, stack') <=> UnderWay(o, acts)
    BY <2>1, <2>9, <2>12, <2>13
  <2>18. QED
    BY <1>2, <2>1, <2>2, <2>11, <2>15, <2>16, <2>17 DEF a
<1>3. QED
  BY <1>1, <1>2

-----------------------------------------------------------------------------
(* What has been gone through grows by what leads into it only. *)
LEMMA AcyclicMore ==
  ASSUME ProgramSound, NEW D, Acyclic(D), NEW p \in Nodes, Leads(p) \subseteq D
  PROVE  Acyclic(D \cup {p})
<1>1. CASE p \in D
  <2>1. D \cup {p} = D
    BY <1>1
  <2>2. QED
    BY <2>1
<1>2. CASE p \notin D
  <2>1. \A m \in D : Leads(m) \subseteq D
    BY DEF Acyclic
  <2>2. Reached(p) \subseteq D
    BY <2>1, ReachedLeast
  <2>3. ~Circular(p)
    BY <1>2, <2>2 DEF Circular
  <2>4. QED
    BY <2>3 DEF Acyclic
<1>3. QED
  BY <1>1, <1>2

LEMMA PassedAll ==
  ASSUME NEW a, a.of # "fire", a.left = <<>>, NEW D, Passed(a, D)
  PROVE  Leads(NodeOf(a)) \subseteq D
<1>1. 1 .. Len(a.left) = {}
  OBVIOUS
<1>2. \A f \in NamesOf(a.class, a.of = "shared") : LeadsOf(a.class, f) \subseteq D
  BY <1>1 DEF Passed
<1>3. NodeOf(a)[1] = a.of /\ NodeOf(a)[2] = a.class
  BY DEF NodeOf
<1>4. \A f \in FieldsOf(NodeOf(a)) : LeadsOf(NodeOf(a)[2], f) \subseteq D
  BY <1>2, <1>3 DEF FieldsOf
<1>5. QED
  BY <1>4, LeadsIs

LEMMA PassedMore ==
  ASSUME NEW s, NEW D, AllPassed(s, D), NEW E, D \subseteq E
  PROVE  AllPassed(s, E)
BY DEF AllPassed, Passed

LEMMA FinishedSame ==
  ASSUME NEW D, NEW ini, NEW objs, NEW s, Finished(D, ini, objs, s), NEW objs2, SameClasses(objs, objs2),
         NEW t, AllPassed(t, D), \A o : UnderWay(o, s) => UnderWay(o, t)
  PROVE  Finished(D, ini, objs2, t)
BY DEF Finished, SameClasses

(* Before a step while the program runs, and after it. *)
Going(D) ==
  /\ state = "runs" /\ begun \in [Class -> Nat]
  /\ Ready(stack, initialized) /\ Standing(stack, initialized, begun)
  /\ Finished(D, initialized, made, stack)

OnceNext ==
  /\ \A c \in Class : begun'[c] > 1 => begun[c] > 1 \/ Circular(<<"shared", c>>)
  /\ state' = "recursion" /\ DeepEnough => \E n \in Nodes : Circular(n)
  /\ state' = "runs" => Standing(stack', initialized', begun')
  /\ state' \in {"runs", "done"} => \E E : Finished(E, initialized', made', stack')
  /\ state' = "done" => stack' = <<>>

LEMMA QuietOnce ==
  ASSUME begun' = begun, state' = "runs", Standing(stack', initialized', begun),
         NEW E, Finished(E, initialized', made', stack')
  PROVE  OnceNext
BY DEF OnceNext

(* The value of a field is there. *)
LEMMA AssignSettles ==
  ASSUME ProgramSound, Parts, NEW acts \in Seq(ActSound(values, made)),
         acts # <<>> => Head(acts).of # "fire" /\ Head(acts).left # <<>>,
         NEW v, Assign(v, acts), begun' = begun, state' = "runs",
         Standing(acts, initialized', begun), NEW E, Finished(E, initialized', made, acts),
         acts # <<>> => LeadsOf(Head(acts).class, Head(Head(acts).left)) \subseteq E
  PROVE  OnceNext
<1>1. Tall(acts)
  BY DEF Standing
<1>2. /\ Tall(stack') /\ SameClasses(made, made')
      /\ \A c : OnStack(c, stack') <=> OnStack(c, acts)
      /\ \A o : UnderWay(o, stack') <=> UnderWay(o, acts)
      /\ \A D : /\ AllPassed(acts, D)
                /\ acts # <<>> => LeadsOf(Head(acts).class, Head(Head(acts).left)) \subseteq D
                => AllPassed(stack', D)
  BY <1>1, AssignOnce
<1>3. AllPassed(stack', E)
  BY <1>2 DEF Finished
<1>4. Finished(E, initialized', made', stack')
  BY <1>2, <1>3, FinishedSame
<1>5. Standing(stack', initialized', begun)
  BY <1>2 DEF Standing, HasBegun
<1>6. QED
  BY <1>4, <1>5, QuietOnce

LEMMA InstanceDoneOnce ==
  ASSUME ProgramSound, Parts, NEW D, Going(D), InstanceDone
  PROVE  OnceNext
<1> DEFINE S == ActSound(values, made)
           p == <<"instance", Top.class>>
           E == D \cup {p}
<1>1. /\ stack \in Seq(S) /\ Linked(stack) /\ stack # <<>>
      /\ Top.of = "instance" /\ Top.left = <<>> /\ Top.waits = <<>>
      /\ Assign(Top.me, Below) /\ UNCHANGED <<state, initialized, begun>>
  BY DEF Parts, PartsSound, InstanceDone, InFields
<1>2. Top \in S /\ Below \in Seq(S) /\ Fitted(Top, Below)
  BY <1>1, LinkedPop DEF Top, Below
<1>3. Top \in InstanceSound(made)
  BY <1>1, <1>2, Kinds
<1>4. Top.class \in Class /\ made[Top.me].class = Top.class
  BY <1>3, InstanceIs
<1>5. Below # <<>> => Head(Below).of # "fire" /\ Head(Below).left # <<>>
  BY <1>1, <1>2 DEF Fitted
<1> HIDE DEF S
<1>6. /\ \A F : AllPassed(stack, F) <=> Passed(Top, F) /\ AllPassed(Below, F)
      /\ \A c : OnStack(c, stack) <=> Initialises(Top, c) \/ OnStack(c, Below)
      /\ \A o : UnderWay(o, stack) <=> (Top.of = "instance" /\ Top.me = o) \/ UnderWay(o, Below)
  BY <1>1, Under DEF Top, Below
<1>7. /\ Tall(stack) /\ HasBegun(stack, initialized, begun) /\ Acyclic(D)
      /\ \A c \in initialized : <<"shared", c>> \in D
      /\ \A o \in DOMAIN made : UnderWay(o, stack) \/ <<"instance", made[o].class>> \in D
      /\ Passed(Top, D) /\ AllPassed(Below, D) /\ state = "runs"
  BY <1>6 DEF Going, Standing, Finished
<1>8. Tall(Below) /\ (Below # <<>> => Hangs(Top, Head(Below)))
  BY <1>1, <1>7, TallPop DEF Top, Below
<1>9. p = NodeOf(Top) /\ p \in Nodes
  BY <1>1, <1>4 DEF NodeOf, Nodes
<1>10. Leads(p) \subseteq D
  BY <1>1, <1>7, <1>9, PassedAll
<1>11. Top.class \in initialized
  <2>1. Top.class \in Wants(Top)
    BY <1>1 DEF Wants
  <2>2. 1 .. Len(Top.waits) = {}
    BY <1>1
  <2>3. Needs(Top, Top.class)
    BY <1>1, <2>1, <2>2 DEF Needs
  <2>4. QED
    BY <1>1, <2>3 DEF Going, Ready, Top
<1> HIDE DEF p
<1>12. Acyclic(E) /\ D \subseteq E
  BY <1>7, <1>9, <1>10, AcyclicMore
<1>13. Finished(E, initialized', made, Below)
  <2>1. \A o \in DOMAIN made : UnderWay(o, Below) \/ <<"instance", made[o].class>> \in E
    BY <1>4, <1>6, <1>7 DEF p
  <2>2. AllPassed(Below, E)
    BY <1>7, <1>12, PassedMore
  <2>3. \A c \in initialized' : <<"shared", c>> \in E
    BY <1>1, <1>7
  <2> HIDE DEF E
  <2>4. QED
    BY <1>12, <2>1, <2>2, <2>3 DEF Finished
<1>14. Standing(Below, initialized', begun)
  <2>1. \A c : ~Initialises(Top, c)
    BY <1>1 DEF Initialises
  <2>2. QED
    BY <1>1, <1>6, <1>7, <1>8, <2>1 DEF Standing, HasBegun
<1>15. ASSUME Below # <<>> PROVE LeadsOf(Head(Below).class, Head(Head(Below).left)) \subseteq E
  <2> DEFINE k == Head(Below).class
             g == Head(Head(Below).left)
  <2>1. InitOf(k, g).kind = "new" /\ InitOf(k, g).class = Top.class
    BY <1>1, <1>8, <1>15 DEF Hangs, Wanted
  <2> HIDE DEF k, g
  <2>2. LeadsOf(k, g) = {"shared", "instance"} \X {Top.class}
    BY <2>1 DEF LeadsOf
  <2>3. <<"shared", Top.class>> \in E /\ <<"instance", Top.class>> \in E
    BY <1>7, <1>11 DEF p
  <2>4. LeadsOf(k, g) \subseteq E
    BY <2>2, <2>3
  <2>5. QED
    BY <2>4 DEF k, g
<1> HIDE DEF E
<1>16. QED
  BY <1>1, <1>2, <1>5, <1>7, <1>13, <1>14, <1>15, AssignSettles DEF S

LEMMA SharedDoneOnce ==
  ASSUME ProgramSound, Parts, NEW D, Going(D), SharedDone
  PROVE  OnceNext
<1> DEFINE S == ActSound(values, made)
           p == <<"shared", Top.class>>
           E == D \cup {p}
<1>1. /\ stack \in Seq(S) /\ Linked(stack) /\ stack # <<>>
      /\ Top.of = "shared" /\ Top.left = <<>> /\ stack' = Below
      /\ initialized' = initialized \cup {Top.class} /\ UNCHANGED <<state, made, begun>>
  BY DEF Parts, PartsSound, SharedDone, InFields
<1>2. Top \in S /\ Below \in Seq(S)
  BY <1>1, LinkedPop DEF Top, Below
<1>3. Top.class \in Class
  BY <1>1, <1>2, Kinds, SharedIs
<1> HIDE DEF S
<1>4. /\ \A F : AllPassed(stack, F) <=> Passed(Top, F) /\ AllPassed(Below, F)
      /\ \A c : OnStack(c, stack) <=> Initialises(Top, c) \/ OnStack(c, Below)
      /\ \A o : UnderWay(o, stack) <=> (Top.of = "instance" /\ Top.me = o) \/ UnderWay(o, Below)
  BY <1>1, Under DEF Top, Below
<1>5. /\ Tall(stack) /\ HasBegun(stack, initialized, begun) /\ Acyclic(D)
      /\ \A c \in initialized : <<"shared", c>> \in D
      /\ \A o \in DOMAIN made : UnderWay(o, stack) \/ <<"instance", made[o].class>> \in D
      /\ Passed(Top, D) /\ AllPassed(Below, D) /\ state = "runs"
  BY <1>4 DEF Going, Standing, Finished
<1>6. Tall(Below)
  BY <1>1, <1>5, TallPop DEF Below
<1>7. p = NodeOf(Top) /\ p \in Nodes
  BY <1>1, <1>3 DEF NodeOf, Nodes
<1>8. Leads(p) \subseteq D
  BY <1>1, <1>5, <1>7, PassedAll
<1> HIDE DEF p
<1>9. Acyclic(E) /\ D \subseteq E /\ p \in E
  BY <1>5, <1>7, <1>8, AcyclicMore
<1> HIDE DEF E
<1>10. Finished(E, initialized', made, Below)
  <2>1. \A o \in DOMAIN made : UnderWay(o, Below) \/ <<"instance", made[o].class>> \in E
    BY <1>1, <1>4, <1>5, <1>9
  <2>2. AllPassed(Below, E)
    BY <1>5, <1>9, PassedMore
  <2>3. \A c \in initialized' : <<"shared", c>> \in E
    BY <1>1, <1>5, <1>9 DEF p
  <2>4. QED
    BY <1>9, <2>1, <2>2, <2>3 DEF Finished
<1>11. Standing(Below, initialized', begun)
  <2>1. \A c : Initialises(Top, c) => c \in initialized'
    BY <1>1 DEF Initialises
  <2>2. HasBegun(Below, initialized', begun)
    BY <1>1, <1>4, <1>5, <2>1 DEF HasBegun
  <2>3. QED
    BY <1>6, <2>2 DEF Standing
<1>12. QED
  BY <1>1, <1>5, <1>10, <1>11, QuietOnce

LEMMA PlainOnce ==
  ASSUME ProgramSound, Parts, NEW D, Going(D), EvaluatePlain
  PROVE  OnceNext
<1>1. AtInit /\ TopInit.kind \in {"value", "default", "own"} /\ Assign(PlainValue, stack)
      /\ UNCHANGED <<state, initialized, begun>>
  BY DEF EvaluatePlain
<1>2. /\ stack \in Seq(ActSound(values, made)) /\ stack # <<>>
      /\ Head(stack).of # "fire" /\ Head(stack).left # <<>>
  BY <1>1, AtInitIs DEF Top
<1>3. InitOf(Head(stack).class, Head(Head(stack).left)).kind \in {"value", "default", "own"}
  BY <1>1 DEF TopInit, Top
<1>4. LeadsOf(Head(stack).class, Head(Head(stack).left)) = {}
  BY <1>3 DEF LeadsOf
<1>5. /\ state' = "runs" /\ Standing(stack, initialized', begun)
      /\ Finished(D, initialized', made, stack)
  BY <1>1 DEF Going
<1> DEFINE v == PlainValue
<1>6. Assign(v, stack)
  BY <1>1
<1> HIDE DEF v
<1>7. QED
  BY <1>1, <1>2, <1>4, <1>5, <1>6, AssignSettles

LEMMA SharedValueOnce ==
  ASSUME ProgramSound, Parts, NEW D, Going(D), EvaluateShared
  PROVE  OnceNext
<1> DEFINE v == values[TopInit.class][TopInit.field]
           u == Uses(Top.class, TopInit)
<1>1. /\ AtInit /\ TopInit.kind = "shared" /\ Top.waits = <<>> /\ UNCHANGED <<initialized, begun>>
      /\ (Assign(v, stack) /\ state' = state) \/ state' = "error"
  BY DEF EvaluateShared, AtInit
<1>2. /\ stack \in Seq(ActSound(values, made)) /\ stack # <<>>
      /\ Top.of # "fire" /\ Top.left # <<>>
  BY <1>1, AtInitIs
<1>3. ASSUME NEW c \in ToSet(u) PROVE <<"shared", c>> \in D
  <2>1. 1 .. Len(Top.waits) = {}
    BY <1>1
  <2>2. c \in Wants(Top)
    BY <1>2, <1>3 DEF Wants, TopInit
  <2>3. Needs(Top, c)
    BY <1>2, <2>1, <2>2 DEF Needs
  <2>4. c \in initialized
    BY <1>2, <2>3 DEF Going, Ready, Top
  <2>5. QED
    BY <2>4 DEF Going, Finished
<1>4. LeadsOf(Top.class, Head(Top.left)) = {"shared"} \X ToSet(u)
  <2>1. InitOf(Top.class, Head(Top.left)) = TopInit
    BY DEF TopInit
  <2>2. QED
    BY <1>1, <2>1 DEF LeadsOf
<1> HIDE DEF u, v
<1>5. LeadsOf(Head(stack).class, Head(Head(stack).left)) \subseteq D
  BY <1>3, <1>4 DEF Top
<1>6. CASE state' = "error"
  BY <1>1, <1>6 DEF OnceNext
<1>7. CASE Assign(v, stack) /\ state' = state
  <2>1. /\ state' = "runs" /\ Standing(stack, initialized', begun)
        /\ Finished(D, initialized', made, stack)
    BY <1>1, <1>7 DEF Going
  <2>2. Head(stack).of # "fire" /\ Head(stack).left # <<>>
    BY <1>2 DEF Top
  <2>3. QED
    BY <1>1, <1>2, <1>5, <1>7, <2>1, <2>2, AssignSettles
<1>8. QED
  BY <1>1, <1>6, <1>7

-----------------------------------------------------------------------------
(* A class is initialised a second time only above itself. *)
LEMMA EnsureOnce ==
  ASSUME ProgramSound, Parts, NEW D, Going(D), EnsureInitialized
  PROVE  OnceNext
<1> DEFINE c == Head(Top.waits)
           a == SharedInits(c)
           b == [Top EXCEPT !.waits = Tail(@)]
           under == <<b>> \o Below
           S == ActSound(values, made) \cup {b} \cup {a}
<1>1. /\ stack \in Seq(ActSound(values, made)) /\ stack # <<>>
      /\ Top.of \in {"shared", "instance"} /\ Top.of # "fire" /\ Top.waits # <<>>
      /\ initialized' = initialized /\ made' = made
  BY DEF Parts, PartsSound, EnsureInitialized, InFields
<1>2. Top \in ActSound(values, made)
  BY <1>1, HeadTailProperties DEF Top
<1>3. Top \in SharedSound(values) \cup InstanceSound(made)
  BY <1>1, <1>2, Kinds
<1>4. Top.waits \in Seq(Class) /\ Top.class \in Class /\ Sited(Top)
  BY <1>3, SitedIs, SharedIs, InstanceIs
<1>5. /\ c \in Class /\ Len(Top.waits) \in Nat \ {0} /\ c = Top.waits[1]
      /\ Len(Tail(Top.waits)) = Len(Top.waits) - 1
      /\ \A i \in 1 .. Len(Tail(Top.waits)) : Tail(Top.waits)[i] = Top.waits[i + 1]
  BY <1>1, <1>4, HeadTailProperties, LenProperties
<1>6. /\ b.of = Top.of /\ b.class = Top.class /\ b.left = Top.left /\ b.waits = Tail(Top.waits)
      /\ Top.of = "instance" => b.me = Top.me
  BY <1>4 DEF Sited
<1>7. \/ c \in initialized /\ stack' = under /\ state' = state /\ begun' = begun
      \/ c \notin initialized /\ Enter(a, under) /\ begun' = [begun EXCEPT ![c] = @ + 1]
  BY DEF EnsureInitialized
<1>8. /\ a.of = "shared" /\ a.class = c /\ Waiting(a) /\ \A F : Passed(a, F)
  BY <1>5, InitsBegin
<1> HIDE DEF a, b, c
<1>9. stack \in Seq(S) /\ b \in S /\ a \in S
  BY <1>1, SeqMonotonic
<1> HIDE DEF S
<1>10. /\ Tall(stack) /\ HasBegun(stack, initialized, begun) /\ AllPassed(stack, D)
       /\ Finished(D, initialized, made, stack) /\ state = "runs" /\ begun \in [Class -> Nat]
  BY DEF Going, Standing, Finished
<1>11. Waiting(Top)
  BY <1>1, <1>9, <1>10, TallPop DEF Top
<1>12. NodeOf(b) = NodeOf(Top)
  BY <1>6 DEF NodeOf
<1>13. Waiting(b)
  <2>1. ASSUME NEW i \in 1 .. Len(b.waits) PROVE <<"shared", b.waits[i]>> \in Leads(NodeOf(b)) \/ OwnClass(b.waits[i], b)
    <3>1. i + 1 \in 1 .. Len(Top.waits) /\ b.waits[i] = Top.waits[i + 1]
      BY <1>5, <1>6
    <3>2. QED
      BY <1>6, <1>11, <1>12, <3>1 DEF Waiting, OwnClass
  <2>2. QED
    BY <2>1 DEF Waiting
<1>14. Hangs(a, b)
  <2>1. 1 \in 1 .. Len(Top.waits)
    BY <1>5
  <2>2. <<"shared", c>> \in Leads(NodeOf(b)) \/ OwnClass(c, b)
    BY <1>5, <1>6, <1>11, <1>12, <2>1 DEF Waiting, OwnClass
  <2>3. NodeOf(a) = <<"shared", c>>
    BY <1>8 DEF NodeOf
  <2>4. QED
    BY <1>8, <2>2, <2>3 DEF Hangs
<1>15. /\ Below \in Seq(S)
       /\ \A F : AllPassed(stack, F) <=> Passed(Top, F) /\ AllPassed(Below, F)
       /\ \A d : OnStack(d, stack) <=> Initialises(Top, d) \/ OnStack(d, Below)
       /\ \A o : UnderWay(o, stack) <=> (Top.of = "instance" /\ Top.me = o) \/ UnderWay(o, Below)
  BY <1>1, <1>9, Under DEF Top, Below
<1>16. /\ \A F : AllPassed(under, F) <=> Passed(b, F) /\ AllPassed(Below, F)
       /\ \A d : OnStack(d, under) <=> Initialises(b, d) \/ OnStack(d, Below)
       /\ \A o : UnderWay(o, under) <=> (b.of = "instance" /\ b.me = o) \/ UnderWay(o, Below)
  BY <1>9, <1>15, Onto
<1>17. /\ AllPassed(under, D)
       /\ \A d : OnStack(d, under) <=> OnStack(d, stack)
       /\ \A o : UnderWay(o, under) <=> UnderWay(o, stack)
  <2>1. Passed(b, D)
    <3>1. Passed(Top, D) /\ (b.of = "shared") = (Top.of = "shared")
      BY <1>6, <1>10, <1>15
    <3>2. QED
      BY <1>6, <3>1 DEF Passed
  <2>2. \A d : Initialises(b, d) <=> Initialises(Top, d)
    BY <1>6 DEF Initialises
  <2>3. QED
    BY <1>6, <1>10, <1>15, <1>16, <2>1, <2>2
<1>18. /\ under \in Seq(S) /\ under # <<>> /\ Head(under) = b /\ Len(under) \in Nat
       /\ Len(<<a>> \o under) = Len(under) + 1
       /\ (<<a>> \o under)[1] = a /\ \A k \in 1 .. Len(under) : (<<a>> \o under)[k + 1] = under[k]
  <2>1. /\ under \in Seq(S) /\ Len(under) = Len(Below) + 1 /\ Len(Below) \in Nat /\ under[1] = b
    BY <1>9, <1>15, PushIs
  <2> HIDE DEF under
  <2>2. under # <<>> /\ Head(under) = under[1]
    BY <2>1, HeadAndTail, LenProperties
  <2>3. QED
    BY <1>9, <2>1, <2>2, PushIs
<1>19. Tall(under)
  BY <1>1, <1>6, <1>9, <1>10, <1>13, TallTop DEF Top, Below
<1>20. Placed(under)
  <2>1. Placed(stack)
    BY <1>1, StackPlaced
  <2>2. /\ Len(stack) \in Nat /\ Len(Below) = Len(stack) - 1 /\ Len(under) = Len(Below) + 1 /\ under[1] = b
        /\ \A k \in 1 .. Len(Below) : Below[k] = stack[k + 1] /\ under[k + 1] = Below[k]
    BY <1>1, <1>9, <1>15, HeadAndTail, PushIs DEF Below
  <2> HIDE DEF under
  <2>3. ASSUME NEW k \in 1 .. Len(under) PROVE under[k].of \in {"shared", "instance"} /\ under[k].class \in Class
    <3>1. CASE k = 1
      BY <1>1, <1>4, <1>6, <2>2, <3>1
    <3>2. CASE k # 1
      <4>1. k - 1 \in 1 .. Len(Below) /\ (k - 1) + 1 = k /\ k \in 1 .. Len(stack)
        BY <2>2, <3>2
      <4>2. under[k] = stack[k]
        BY <2>2, <4>1
      <4>3. QED
        BY <2>1, <4>1, <4>2 DEF Placed
    <3>3. QED
      BY <3>1, <3>2
  <2>4. QED
    BY <2>3 DEF Placed
<1> HIDE DEF under
<1>21. CASE c \in initialized /\ stack' = under /\ state' = state /\ begun' = begun
  <2>1. Standing(stack', initialized', begun)
    BY <1>1, <1>10, <1>17, <1>19, <1>21 DEF Standing, HasBegun
  <2>2. Finished(D, initialized', made', stack')
    BY <1>1, <1>10, <1>17, <1>21 DEF Finished
  <2>3. QED
    BY <1>10, <1>21, <2>1, <2>2, QuietOnce
<1>22. CASE c \notin initialized /\ Enter(a, under) /\ begun' = [begun EXCEPT ![c] = @ + 1]
  <2> DEFINE t == <<a>> \o under
  <2>1. /\ Tall(t) /\ Placed(t) /\ Len(t) \in Nat
        /\ state' \in {"runs", "recursion"}
        /\ state' = "runs" => stack' = t
        /\ state' = "recursion" /\ DeepEnough => \E n \in Nodes : Circular(n)
    <3>1. a.of \in {"shared", "instance"} /\ a.class \in Class
      BY <1>5, <1>8
    <3>2. under # <<>> => Hangs(a, Head(under))
      BY <1>14, <1>18
    <3>3. QED
      BY <1>8, <1>9, <1>10, <1>18, <1>19, <1>20, <1>22, <3>1, <3>2, EnterOnce
  <2>2. /\ \A F : AllPassed(t, F) <=> Passed(a, F) /\ AllPassed(under, F)
        /\ \A d : OnStack(d, t) <=> Initialises(a, d) \/ OnStack(d, under)
        /\ \A o : UnderWay(o, t) <=> (a.of = "instance" /\ a.me = o) \/ UnderWay(o, under)
    BY <1>9, <1>18, Onto
  <2>3. /\ Len(t) = Len(under) + 1 /\ t[1] = a
        /\ \A k \in 1 .. Len(under) : t[k + 1] = under[k]
    BY <1>18
  <2> HIDE DEF t
  <2>4. ASSUME begun[c] # 0 PROVE Circular(<<"shared", c>>)
    <3>1. OnStack(c, under)
      BY <1>5, <1>10, <1>17, <1>22, <2>4 DEF HasBegun
    <3>2. PICK k \in 1 .. Len(under) : Initialises(under[k], c)
      BY <3>1 DEF OnStack
    <3>3. k + 1 \in 1 .. Len(t) /\ 1 \in 1 .. (k + 1) - 1 /\ t[k + 1] = under[k]
      BY <1>18, <2>3
    <3>4. NodeOf(t[1]) = <<"shared", c>> /\ NodeOf(t[k + 1]) = <<"shared", c>>
      BY <1>8, <2>3, <3>2, <3>3 DEF NodeOf, Initialises
    <3> DEFINE j == k + 1
    <3>5. j \in 1 .. Len(t) /\ 1 \in 1 .. j - 1 /\ NodeOf(t[j]) = <<"shared", c>>
      BY <3>3, <3>4
    <3> HIDE DEF j
    <3>6. QED
      BY <2>1, <3>4, <3>5, SharedRepeats
  <2>5. /\ \A d \in Class : begun'[d] = IF d = c THEN begun[d] + 1 ELSE begun[d]
        /\ \A d \in Class : begun[d] \in Nat
    BY <1>10, <1>22
  <2>6. \A d \in Class : begun'[d] > 1 => begun[d] > 1 \/ Circular(<<"shared", d>>)
    BY <2>4, <2>5
  <2>7. ASSUME state' = "runs" PROVE Standing(stack', initialized', begun')
    <3>1. stack' = t
      BY <2>1, <2>7
    <3>2. Initialises(a, c)
      BY <1>8 DEF Initialises
    <3>3. ASSUME NEW d \in Class, begun'[d] # 0 PROVE d \in initialized' \/ OnStack(d, stack')
      <4>1. CASE d = c
        BY <2>2, <3>1, <3>2, <4>1
      <4>2. CASE d # c
        BY <1>1, <1>10, <1>17, <2>2, <2>5, <3>1, <3>3, <4>2 DEF HasBegun
      <4>3. QED
        BY <4>1, <4>2
    <3>4. QED
      BY <2>1, <3>1, <3>3 DEF Standing, HasBegun
  <2>8. ASSUME state' = "runs" PROVE Finished(D, initialized', made', stack')
    <3>1. stack' = t
      BY <2>1, <2>8
    <3>2. AllPassed(t, D)
      BY <1>8, <1>17, <2>2
    <3>3. \A o : UnderWay(o, t) <=> UnderWay(o, stack)
      BY <1>8, <1>17, <2>2
    <3>4. QED
      BY <1>1, <1>10, <3>1, <3>2, <3>3 DEF Finished
  <2>9. state' # "done"
    BY <2>1
  <2>10. QED
    BY <2>1, <2>6, <2>7, <2>8, <2>9 DEF OnceNext
<1>23. QED
  BY <1>7, <1>21, <1>22

(* An instance begins for main, or for the field the top is at. *)
LEMMA InstantiateOnce ==
  ASSUME ProgramSound, Parts, NEW D, Going(D), NEW c \in Class, Instantiate(c),
         stack = <<>> \/ (AtInit /\ TopInit.kind = "new" /\ TopInit.class = c)
  PROVE  OnceNext
<1> DEFINE n == Len(made)
           a == InstanceInits(c, n + 1)
           new == [class |-> c, fields |-> <<>>, handlers |-> <<>>]
           R == [class : Class, fields : FieldValues, handlers : Seq(DOMAIN refs)]
           S == ActSound(values, made) \cup {a}
           t == <<a>> \o stack
<1>1. Enter(a, stack) /\ made' = Append(made, new) /\ UNCHANGED <<initialized, begun>>
  BY DEF Instantiate
<1>2. made \in Seq(R) /\ n \in Nat /\ DOMAIN made = 1 .. n /\ stack \in Seq(ActSound(values, made))
  BY LenProperties DEF Parts, PartsSound, MadeSound
<1>3. /\ a.of = "instance" /\ a.class = c /\ a.me = n + 1 /\ Waiting(a) /\ \A F : Passed(a, F)
  <2>1. n + 1 \in Nat
    BY <1>2
  <2>2. QED
    BY <2>1, InitsBegin
<1>4. stack \in Seq(S) /\ a \in S
  BY <1>2, SeqMonotonic
<1> HIDE DEF a, S
<1>5. ASSUME stack # <<>> PROVE Hangs(a, Head(stack)) /\ Top.of # "fire"
  <2>1. AtInit /\ TopInit.kind = "new" /\ TopInit.class = c
    BY <1>5
  <2>2. /\ Top \in SharedSound(values) \/ Top \in InstanceSound(made)
        /\ Top.of # "fire" /\ Top.left # <<>>
    BY <2>1, AtInitIs
  <2>3. Sited(Top)
    BY <2>2, SitedIs
  <2>4. InitOf(Top.class, Head(Top.left)) = TopInit
    BY DEF TopInit
  <2>5. LeadsOf(Top.class, Head(Top.left)) = {"shared", "instance"} \X {c}
    BY <2>1, <2>4 DEF LeadsOf
  <2>6. LeadsOf(Top.class, Head(Top.left)) \subseteq Leads(NodeOf(Top))
    BY <2>2, <2>3, HeadLeads
  <2>7. NodeOf(a) = <<"instance", c>>
    BY <1>3 DEF NodeOf
  <2>8. NodeOf(a) \in Leads(NodeOf(Top))
    BY <2>5, <2>6, <2>7
  <2>9. Wanted(a, Top)
    BY <1>3, <2>1, <2>4 DEF Wanted
  <2>10. QED
    BY <2>2, <2>8, <2>9 DEF Hangs, Top
<1>6. /\ Tall(stack) /\ HasBegun(stack, initialized, begun) /\ AllPassed(stack, D) /\ Acyclic(D)
      /\ \A d \in initialized : <<"shared", d>> \in D
      /\ \A o \in DOMAIN made : UnderWay(o, stack) \/ <<"instance", made[o].class>> \in D
      /\ state = "runs"
  BY DEF Going, Standing, Finished
<1>7. Placed(stack)
  BY <1>5, StackPlaced
<1>8. /\ Tall(t)
      /\ state' \in {"runs", "recursion"}
      /\ state' = "runs" => stack' = t
      /\ state' = "recursion" /\ DeepEnough => \E m \in Nodes : Circular(m)
  <2>1. a.of \in {"shared", "instance"} /\ a.class \in Class
    BY <1>3
  <2>2. stack # <<>> => Hangs(a, Head(stack))
    BY <1>5
  <2>3. QED
    BY <1>1, <1>3, <1>4, <1>6, <1>7, <2>1, <2>2, EnterOnce
<1>9. /\ \A F : AllPassed(t, F) <=> Passed(a, F) /\ AllPassed(stack, F)
      /\ \A d : OnStack(d, t) <=> Initialises(a, d) \/ OnStack(d, stack)
      /\ \A o : UnderWay(o, t) <=> (a.of = "instance" /\ a.me = o) \/ UnderWay(o, stack)
  BY <1>4, Onto
<1> HIDE DEF t
<1>10. DOMAIN made' = 1 .. n + 1 /\ \A o \in 1 .. n : made'[o] = made[o]
  <2>1. <<>> \in FieldValues
    <3>1. <<>> \in [{} -> Int]
      OBVIOUS
    <3>2. QED
      BY <3>1 DEF FieldValues
  <2>2. new \in R
    BY <2>1
  <2> HIDE DEF R, new
  <2>3. QED
    BY <1>1, <1>2, <2>2, AppendProperties, LenProperties
<1>11. ASSUME state' = "runs" PROVE Finished(D, initialized', made', stack')
  <2>1. stack' = t
    BY <1>8, <1>11
  <2>2. ASSUME NEW o \in DOMAIN made' PROVE UnderWay(o, t) \/ <<"instance", made'[o].class>> \in D
    <3>1. CASE o = n + 1
      BY <1>3, <1>9, <3>1
    <3>2. CASE o # n + 1
      <4>1. o \in DOMAIN made /\ made'[o] = made[o]
        BY <1>2, <1>10, <3>2
      <4>2. QED
        BY <1>6, <1>9, <4>1
    <3>3. QED
      BY <3>1, <3>2
  <2>3. AllPassed(t, D)
    BY <1>3, <1>6, <1>9
  <2>4. QED
    BY <1>1, <1>6, <2>1, <2>2, <2>3 DEF Finished
<1>12. ASSUME state' = "runs" PROVE Standing(stack', initialized', begun')
  BY <1>1, <1>6, <1>8, <1>9, <1>12 DEF Standing, HasBegun
<1>13. \A d \in Class : begun'[d] > 1 => begun[d] > 1
  BY <1>1
<1>14. QED
  BY <1>8, <1>11, <1>12, <1>13 DEF OnceNext

-----------------------------------------------------------------------------
(* Events come when no initialisation is under way. *)
AllRaises(s) == \A k \in 1 .. Len(s) : s[k].of = "fire"

LEMMA RaisesOnly ==
  ASSUME NEW S, NEW s \in Seq(S), Linked(s), s # <<>> => Head(s).of = "fire"
  PROVE  AllRaises(s)
<1>1. CASE s = <<>>
  <2>1. 1 .. Len(s) = {}
    BY <1>1
  <2>2. QED
    BY <2>1 DEF AllRaises
<1>2. CASE s # <<>>
  BY <1>2, LinkedAlike DEF AllRaises
<1>3. QED
  BY <1>1, <1>2

LEMMA RaisesOnce ==
  ASSUME NEW D, Going(D), AllRaises(stack), AllRaises(stack'), SameClasses(made, made'),
         initialized' = initialized, begun' = begun, state' \in {"runs", "error"}
  PROVE  OnceNext
<1>1. ASSUME NEW s, AllRaises(s)
      PROVE  Tall(s) /\ AllPassed(s, D) /\ (\A c : ~OnStack(c, s)) /\ (\A o : ~UnderWay(o, s))
  <2>1. \A k \in 1 .. Len(s) : s[k].of = "fire"
    BY <1>1 DEF AllRaises
  <2>2. Tall(s)
    <3>1. ASSUME NEW k \in 1 .. Len(s) - 1 PROVE s[k].of = "fire"
      <4>1. k \in 1 .. Len(s)
        <5>1. 1 .. Len(s) - 1 \subseteq 1 .. Len(s)
          OBVIOUS
        <5>2. QED
          BY <5>1
      <4>2. QED
        BY <2>1, <4>1
    <3>2. QED
      BY <2>1, <3>1 DEF Tall
  <2>3. AllPassed(s, D)
    BY <2>1 DEF AllPassed, Passed
  <2>4. \A c : ~OnStack(c, s)
    BY <2>1 DEF OnStack, Initialises
  <2>5. \A o : ~UnderWay(o, s)
    BY <2>1 DEF UnderWay
  <2>6. QED
    BY <2>2, <2>3, <2>4, <2>5
<1>2. Standing(stack', initialized', begun)
  BY <1>1 DEF Going, Standing, HasBegun
<1>3. Finished(D, initialized', made', stack')
  BY <1>1 DEF Going, Finished, SameClasses
<1>4. CASE state' = "runs"
  BY <1>2, <1>3, <1>4, QuietOnce
<1>5. CASE state' = "error"
  BY <1>5 DEF OnceNext
<1>6. QED
  BY <1>4, <1>5

LEMMA HandlersKeepClass ==
  ASSUME NEW known, MadeSound(made, known), NEW o, NEW h, made' = [made EXCEPT ![o].handlers = h]
  PROVE  SameClasses(made, made')
<1>1. ASSUME NEW p \in DOMAIN made PROVE [made[p] EXCEPT !.handlers = h].class = made[p].class
  <2>1. made[p] \in [class : Class, fields : FieldValues, handlers : Seq(known)]
    BY ObjectIs
  <2>2. QED
    BY <2>1
<1>2. DOMAIN made' = DOMAIN made
  OBVIOUS
<1>3. \A p \in DOMAIN made : made'[p] = IF p = o THEN [made[p] EXCEPT !.handlers = h] ELSE made[p]
  OBVIOUS
<1>4. QED
  BY <1>1, <1>2, <1>3 DEF SameClasses

LEMMA StatementOnce ==
  ASSUME Parts, PartsNext, NEW D, Going(D), Statement
  PROVE  OnceNext
<1>1. PICK o \in WithEvent, t \in WithEvent, m \in Method :
        \/ KeepReference(t, m)
        \/ \E r \in Given(t, m) : RegisterEvent(o, t, m, r) \/ UnregisterEvent(o, t, m, r)
        \/ Fire(o)
  BY DEF Statement
<1>2. stack \in Seq(ActSound(values, made)) /\ MadeSound(made, DOMAIN refs)
  BY DEF Parts, PartsSound
<1>3. AllRaises(stack)
  <2>1. stack # <<>> => Head(stack).of = "fire"
    BY DEF Statement, ProgramRuns, Top
  <2>2. QED
    BY <2>1, RaisesOnly DEF Parts, PartsSound
<1>4. state' = "runs" /\ initialized' = initialized /\ begun' = begun
  BY <1>1 DEF KeepReference, RegisterEvent, UnregisterEvent, Fire, classesAndObjects, Going
<1>5. SameClasses(made, made')
  <2>1. made' = made \/ \E h : made' = [made EXCEPT ![o].handlers = h]
    BY <1>1 DEF KeepReference, RegisterEvent, UnregisterEvent, Fire, classesAndObjects
  <2>2. made' = made => SameClasses(made, made')
    BY DEF SameClasses
  <2>3. QED
    BY <1>2, <2>1, <2>2, HandlersKeepClass
<1>6. AllRaises(stack')
  <2>1. CASE stack' = stack
    BY <1>3, <2>1
  <2>2. CASE Fire(o)
    <3> DEFINE a == [of |-> "fire", inside |-> FALSE, on |-> o, todo |-> made[o].handlers,
                     had |-> made[o].handlers, called |-> <<>>]
               S == ActSound(values, made) \cup {a}
    <3>1. stack' = <<a>> \o stack /\ a.of = "fire"
      BY <2>2 DEF Fire
    <3> HIDE DEF a
    <3>2. stack \in Seq(S) /\ a \in S
      BY <1>2, SeqMonotonic
    <3> HIDE DEF S
    <3>3. <<a>> \o stack \in Seq(S) /\ (<<a>> \o stack)[1] = a /\ Len(<<a>> \o stack) = Len(stack) + 1
      BY <3>2, PushIs
    <3>4. stack' # <<>> => Head(stack').of = "fire"
      BY <3>1, <3>3, HeadAndTail
    <3>5. QED
      BY <3>4, RaisesOnly DEF PartsNext, PartsSound
  <2>3. QED
    BY <1>1, <2>1, <2>2 DEF KeepReference, RegisterEvent, UnregisterEvent
<1>7. QED
  BY <1>3, <1>4, <1>5, <1>6, RaisesOnce

LEMMA RaiseOnce ==
  ASSUME Parts, PartsNext, NEW D, Going(D), InvokeHandler \/ HandlerReturns \/ Fired
  PROVE  OnceNext
<1>1. /\ stack \in Seq(ActSound(values, made)) /\ Linked(stack) /\ stack # <<>> /\ Head(stack).of = "fire"
  BY DEF Parts, PartsSound, InvokeHandler, HandlerReturns, Fired, InLoop, Top
<1>2. AllRaises(stack)
  BY <1>1, RaisesOnly
<1>3. /\ state' \in {"runs", "error"} /\ initialized' = initialized /\ begun' = begun
      /\ SameClasses(made, made')
  BY DEF InvokeHandler, HandlerReturns, Fired, classesAndObjects, Going, SameClasses
<1>4. \/ stack' = stack
      \/ \E a : a.of = "fire" /\ stack' = <<a>> \o Below
      \/ stack' = Below
  <2>1. CASE InvokeHandler
    <3> DEFINE a == [Top EXCEPT !.inside = TRUE, !.todo = Tail(@), !.called = Append(@, Head(Top.todo))]
    <3>1. stack' = stack \/ stack' = <<a>> \o Below
      BY <2>1 DEF InvokeHandler
    <3>2. a.of = "fire"
      BY <1>1, TopRaise DEF FireSound, Top
    <3>3. QED
      BY <3>1, <3>2
  <2>2. CASE HandlerReturns
    <3> DEFINE a == [Top EXCEPT !.inside = FALSE]
    <3>1. stack' = <<a>> \o Below
      BY <2>2 DEF HandlerReturns
    <3>2. a.of = "fire"
      BY <1>1, TopRaise DEF FireSound, Top
    <3>3. QED
      BY <3>1, <3>2
  <2>3. CASE Fired
    BY <2>3 DEF Fired
  <2>4. QED
    BY <2>1, <2>2, <2>3
<1>5. AllRaises(stack')
  <2>1. CASE stack' = stack
    BY <1>2, <2>1
  <2>2. CASE \E a : a.of = "fire" /\ stack' = <<a>> \o Below
    <3>1. PICK a : a.of = "fire" /\ stack' = <<a>> \o Below
      BY <2>2
    <3> DEFINE S == ActSound(values, made) \cup {a}
    <3>2. stack \in Seq(S) /\ a \in S
      BY <1>1, SeqMonotonic
    <3> HIDE DEF S
    <3>3. Below \in Seq(S)
      BY <1>1, <3>2, HeadTailProperties DEF Below
    <3>4. stack' \in Seq(S) /\ stack'[1] = a /\ Len(stack') = Len(Below) + 1
      BY <3>1, <3>2, <3>3, PushIs
    <3>5. stack' # <<>> => Head(stack').of = "fire"
      BY <3>1, <3>4, HeadAndTail
    <3>6. QED
      BY <3>5, RaisesOnly DEF PartsNext, PartsSound
  <2>3. CASE stack' = Below
    <3>1. Len(stack) \in Nat /\ Len(Below) = Len(stack) - 1 /\ \A k \in 1 .. Len(Below) : Below[k] = stack[k + 1]
      BY <1>1, HeadAndTail DEF Below
    <3>2. \A k \in 1 .. Len(Below) : Below[k].of = "fire"
      BY <1>2, <3>1 DEF AllRaises
    <3>3. QED
      BY <2>3, <3>2 DEF AllRaises
  <2>4. QED
    BY <1>4, <2>1, <2>2, <2>3
<1>6. QED
  BY <1>2, <1>3, <1>5, RaisesOnce

LEMMA MainEndsOnce ==
  ASSUME NEW D, Going(D), MainEnds
  PROVE  OnceNext
<1>1. /\ stack = <<>> /\ state' = "done" /\ stack' = stack /\ initialized' = initialized
      /\ made' = made /\ begun' = begun
  BY DEF MainEnds, classesAndObjects
<1>2. Finished(D, initialized', made', stack')
  BY <1>1 DEF Going
<1>3. QED
  BY <1>1, <1>2 DEF OnceNext

LEMMA OnceStep ==
  ASSUME ProgramSound, Parts, PartsNext, NEW D, Going(D), RuntimeNext
  PROVE  OnceNext
<1>1. ~StartRuntime
  BY DEF StartRuntime, Going
<1>2. CASE MainEnds
  BY <1>2, MainEndsOnce
<1>3. CASE \E c \in Class : MainNew(c)
  BY <1>3, InstantiateOnce DEF MainNew
<1>4. CASE EnsureInitialized
  BY <1>4, EnsureOnce
<1>5. CASE SharedDone
  BY <1>5, SharedDoneOnce
<1>6. CASE InstanceDone
  BY <1>6, InstanceDoneOnce
<1>7. CASE EvaluatePlain
  BY <1>7, PlainOnce
<1>8. CASE EvaluateShared
  BY <1>8, SharedValueOnce
<1>9. CASE EvaluateNew
  <2>1. AtInit /\ TopInit.kind = "new" /\ TopInit.class \in Class /\ Instantiate(TopInit.class)
    BY <1>9, AtInitIs DEF EvaluateNew, Inits
  <2>2. QED
    BY <2>1, InstantiateOnce
<1>10. CASE Statement
  BY <1>10, StatementOnce
<1>11. CASE InvokeHandler \/ HandlerReturns \/ Fired
  BY <1>11, RaiseOnce
<1>12. QED
  BY <1>1, <1>2, <1>3, <1>4, <1>5, <1>6, <1>7, <1>8, <1>9, <1>10, <1>11 DEF RuntimeNext

-----------------------------------------------------------------------------
(* What a program leads to does not change. *)
ReachedSpreads == \A p : \E w : Spreads(w, p) /\ Reached(p) = w[Cardinality(Nodes)]

LEMMA ReachedGrown == ReachedSpreads
BY ReachedIs DEF ReachedSpreads

LEMMA ReachedGrownThen == ReachedSpreads'
BY ReachedGrown, PTL

LEMMA SameLeads ==
  UNCHANGED program =>
    /\ \A c, f : LeadsOf(c, f)' = LeadsOf(c, f)
    /\ \A n : Leads(n)' = Leads(n)
<1> SUFFICES ASSUME UNCHANGED program
             PROVE  /\ \A c, f : LeadsOf(c, f)' = LeadsOf(c, f)
                    /\ \A n : Leads(n)' = Leads(n)
  OBVIOUS
<1>1. \A c, f : LeadsOf(c, f)' = LeadsOf(c, f)
  BY SameFields, SameUses DEF LeadsOf
<1>2. /\ \A n : Leads(n) = UNION {LeadsOf(n[2], f) : f \in FieldsOf(n)}
      /\ \A n : Leads(n)' = (UNION {LeadsOf(n[2], f) : f \in FieldsOf(n)})'
  <2> DEFINE Is == \A n : Leads(n) = UNION {LeadsOf(n[2], f) : f \in FieldsOf(n)}
  <2>1. Is
    BY LeadsIs
  <2>2. Is'
    BY <2>1, LeadsIs, PTL
  <2>3. QED
    BY <2>1, <2>2
<1>3. \A n : FieldsOf(n)' = FieldsOf(n)
  BY SameFields DEF FieldsOf
<1>4. QED
  BY <1>1, <1>2, <1>3

LEMMA SameReached ==
  UNCHANGED program => \A p : Reached(p)' = Reached(p) /\ (Circular(p)' <=> Circular(p))
<1> SUFFICES ASSUME UNCHANGED program, NEW p PROVE Reached(p)' = Reached(p) /\ (Circular(p)' <=> Circular(p))
  OBVIOUS
<1> DEFINE K == Cardinality(Nodes)
           Good(v, w) == {n \in Nat : n <= K => v[n] = w[n]}
<1>1. PICK w : Spreads(w, p) /\ Reached(p) = w[K]
  BY ReachedIs
<1>2. PICK v : Spreads(v, p)' /\ Reached(p)' = v[K]
  BY ReachedGrownThen DEF ReachedSpreads, Nodes
<1>3. Spreads(v, p)
  BY <1>2, SameLeads DEF Spreads, Further, Nodes
<1>4. K \in Nat
  BY NodesFinite
<1>5. 0 \in Good(v, w)
  BY <1>1, <1>3 DEF Spreads
<1>6. \A n \in Nat : n \in Good(v, w) => n + 1 \in Good(v, w)
  <2> SUFFICES ASSUME NEW n \in Nat, n \in Good(v, w), n + 1 <= K PROVE v[n + 1] = w[n + 1]
    OBVIOUS
  <2>1. n + 1 \in 1 .. K /\ n <= K /\ (n + 1) - 1 = n
    BY <1>4
  <2>2. v[n + 1] = Further(v[n]) /\ w[n + 1] = Further(w[n])
    BY <1>1, <1>3, <2>1 DEF Spreads
  <2>3. QED
    BY <2>1, <2>2
<1>7. K \in Good(v, w)
  <2> HIDE DEF Good
  <2>1. QED
    BY <1>4, <1>5, <1>6, SetInduction
<1>8. Reached(p)' = Reached(p)
  BY <1>1, <1>2, <1>4, <1>7
<1>9. QED
  BY <1>8 DEF Circular

LEMMA SameStanding ==
  ASSUME UNCHANGED program
  PROVE  /\ Standing(stack', initialized', begun') => Standing(stack, initialized, begun)'
         /\ \A D : Finished(D, initialized', made', stack') => Finished(D, initialized, made, stack)'
<1>1. /\ \A c, f : LeadsOf(c, f)' = LeadsOf(c, f)
      /\ \A n : Leads(n)' = Leads(n)
      /\ \A n : Circular(n)' <=> Circular(n)
      /\ \A c, f : InitOf(c, f)' = InitOf(c, f)
      /\ \A c, s : NamesOf(c, s)' = NamesOf(c, s)
  BY SameLeads, SameReached, SameFields
<1>2. ASSUME Standing(stack', initialized', begun') PROVE Standing(stack, initialized, begun)'
  <2>1. \A a : Waiting(a)' <=> Waiting(a)
    BY <1>1 DEF Waiting, NodeOf, OwnClass
  <2>2. \A a, b : Hangs(a, b)' <=> Hangs(a, b)
    BY <1>1 DEF Hangs, Wanted, NodeOf, OwnClass
  <2>3. Tall(stack)'
    BY <1>2, <2>1, <2>2 DEF Standing, Tall
  <2>4. HasBegun(stack, initialized, begun)'
    BY <1>2 DEF Standing, HasBegun, OnStack, Initialises
  <2>5. QED
    BY <2>3, <2>4 DEF Standing
<1>3. ASSUME NEW D, Finished(D, initialized', made', stack') PROVE Finished(D, initialized, made, stack)'
  <2>1. Acyclic(D)'
    BY <1>1, <1>3 DEF Finished, Acyclic, Nodes
  <2>2. \A a : Passed(a, D)' <=> Passed(a, D)
    BY <1>1 DEF Passed
  <2>3. AllPassed(stack, D)'
    BY <1>3, <2>2 DEF Finished, AllPassed
  <2>4. QED
    BY <1>3, <2>1, <2>3 DEF Finished, UnderWay
<1>4. QED
  BY <1>2, <1>3

(* No class is begun twice but one that leads to itself, the stack is used *)
(* up only by those that do, and what is initialised leads to none.        *)
OnceSound ==
  /\ \A c \in Class : begun[c] > 1 => Circular(<<"shared", c>>)
  /\ state = "recursion" /\ DeepEnough => \E n \in Nodes : Circular(n)
  /\ state = "waits" => begun = [c \in Class |-> 0]
  /\ state = "runs" => Standing(stack, initialized, begun)
  /\ state \in {"runs", "done"} => \E D : Finished(D, initialized, made, stack)
  /\ state = "done" => stack = <<>>

(* Where nothing began. *)
LEMMA EmptyStands ==
  ASSUME Empty, begun = [c \in Class |-> 0]
  PROVE  Standing(stack, initialized, begun) /\ Finished({}, initialized, made, stack)
<1>1. stack = <<>> /\ Len(stack) = 0 /\ initialized = {} /\ DOMAIN made = {}
  BY DEF Empty
<1>2. Standing(stack, initialized, begun)
  BY <1>1 DEF Standing, Tall, HasBegun
<1>3. Finished({}, initialized, made, stack)
  BY <1>1 DEF Finished, Acyclic, AllPassed
<1>4. QED
  BY <1>2, <1>3

LEMMA OnceSoundNext ==
  RuntimeSound /\ OrderSound /\ OnceSound /\ [BothNext]_<<vars, runtime>> => OnceSound'
<1> SUFFICES ASSUME RuntimeSound, OrderSound, OnceSound, [BothNext]_<<vars, runtime>> PROVE OnceSound'
  OBVIOUS
<1>1. [Next]_vars /\ (UNCHANGED runtime \/ (RuntimeNext /\ UNCHANGED vars))
  BY DEF BothNext
<1>2. CASE state = "waits" /\ UNCHANGED runtime
  <2>1. state' = "waits" /\ begun' = begun /\ \A c \in Class : begun'[c] = 0
    BY <1>2 DEF OnceSound, runtime, classesAndObjects
  <2>2. QED
    BY <1>2, <2>1 DEF OnceSound
<1>3. CASE state # "waits" /\ UNCHANGED runtime
  <2>1. UNCHANGED program
    BY <1>1, <1>3, EndedStays DEF RuntimeSound, vars
  <2>2. UNCHANGED <<state, stack, initialized, made, begun>>
    BY <1>3 DEF runtime, classesAndObjects
  <2>3. \A n : Circular(n)' <=> Circular(n)
    BY <2>1, SameReached
  <2>4. state' = "runs" => Standing(stack, initialized, begun)'
    BY <2>1, <2>2, SameStanding DEF OnceSound
  <2>5. state' \in {"runs", "done"} => \E D : Finished(D, initialized, made, stack)'
    BY <2>1, <2>2, SameStanding DEF OnceSound
  <2>6. (state' = "recursion" /\ DeepEnough => \E n \in Nodes : Circular(n)')
    BY <2>2, <2>3 DEF OnceSound
  <2>7. \A c \in Class : begun'[c] > 1 => Circular(<<"shared", c>>)'
    BY <2>2, <2>3 DEF OnceSound
  <2>8. (state' = "done" => stack' = <<>>) /\ state' # "waits"
    BY <1>3, <2>2 DEF OnceSound
  <2>9. QED
    BY <2>4, <2>5, <2>6, <2>7, <2>8 DEF OnceSound, DeepEnough, Nodes
<1>4. CASE RuntimeNext /\ UNCHANGED vars
  <2>1. UNCHANGED program /\ \A n : Circular(n)' <=> Circular(n)
    BY <1>4, SameReached DEF vars
  <2>2. CASE StartRuntime /\ state = "waits" /\ state' = "runs"
    <3>1. UNCHANGED <<stack, initialized, made, begun>> /\ Empty
      BY <2>2 DEF StartRuntime, classesAndObjects, RuntimeSound
    <3>2. Standing(stack, initialized, begun) /\ Finished({}, initialized, made, stack)
      BY <2>2, <3>1, EmptyStands DEF OnceSound
    <3>3. Standing(stack, initialized, begun)' /\ Finished({}, initialized, made, stack)'
      BY <2>1, <3>1, <3>2, SameStanding
    <3>4. \A c \in Class : ~(begun'[c] > 1)
      BY <2>2, <3>1 DEF OnceSound
    <3>5. QED
      BY <2>2, <3>3, <3>4 DEF OnceSound
  <2>3. CASE state = "runs" /\ state' \in {"runs", "done", "error", "recursion"}
    <3>1. phase \in Ended /\ Resolved /\ shape.templates = {} /\ Parts /\ kept \subseteq DOMAIN refs
      BY <2>3 DEF RuntimeSound, Parts
    <3>2. PartsNext
      BY <1>4, <3>1, RuntimeStep DEF RuntimeSound
    <3>3. PICK D : Finished(D, initialized, made, stack)
      BY <2>3 DEF OnceSound
    <3>4. Going(D)
      BY <2>3, <3>3 DEF Going, OnceSound, RuntimeSound, OrderSound
    <3>5. OnceNext
      BY <1>4, <3>1, <3>2, <3>4, OnceStep DEF RuntimeSound
    <3>6. state' = "runs" => Standing(stack, initialized, begun)'
      BY <2>1, <3>5, SameStanding DEF OnceNext
    <3>7. state' \in {"runs", "done"} => \E E : Finished(E, initialized, made, stack)'
      BY <2>1, <3>5, SameStanding DEF OnceNext
    <3>8. \A c \in Class : begun'[c] > 1 => Circular(<<"shared", c>>)'
      BY <2>1, <3>5 DEF OnceNext, OnceSound
    <3>9. state' = "recursion" /\ DeepEnough => \E n \in Nodes : Circular(n)'
      BY <2>1, <3>5 DEF OnceNext
    <3>10. state' = "done" => stack' = <<>>
      BY <3>5 DEF OnceNext
    <3>11. QED
      BY <2>3, <3>6, <3>7, <3>8, <3>9, <3>10 DEF OnceSound, DeepEnough, Nodes
  <2>4. QED
    BY <1>4, <2>2, <2>3, StateStep
<1>5. QED
  BY <1>1, <1>2, <1>3, <1>4

(* As long as the stack has room for three activations of each class, the  *)
(* shared fields of a class are initialised once unless they lead to their *)
(* class again, only such a class uses up the stack (RecursionError), and  *)
(* what main used in a run that ended leads to no such class:              *)
(* ensure_initialized sets shared_initialized at its end, and what it has  *)
(* gone through leads out of itself nowhere.                               *)
THEOREM InitialisedOnce == ASSUME DeepEnough PROVE BothSpec => []InitializedOnce
<1>1. BothInit => OrderSound /\ OnceSound
  <2>1. BothInit => Empty /\ state = "waits" /\ begun = [c \in Class |-> 0]
    BY DEF BothInit, RuntimeInit, Empty
  <2>2. QED
    BY <2>1, EmptyReady DEF OrderSound, EventFailed, OnceSound
<1>2. RuntimeSound /\ OrderSound /\ [BothNext]_<<vars, runtime>> => OrderSound'
  BY OrderSoundNext
<1>3. RuntimeSound /\ OrderSound /\ OnceSound /\ [BothNext]_<<vars, runtime>> => OnceSound'
  BY OnceSoundNext
<1>4. OnlyEventsFail /\ OnceSound => InitializedOnce
  <2> SUFFICES ASSUME OnlyEventsFail, OnceSound PROVE InitializedOnce
    OBVIOUS
  <2>1. ASSUME state = "done"
        PROVE  /\ \A c \in initialized : ~Circular(<<"shared", c>>)
               /\ \A o \in DOMAIN made : ~Circular(<<"instance", made[o].class>>)
    <3>1. PICK D : Finished(D, initialized, made, stack)
      BY <2>1 DEF OnceSound
    <3>2. \A o : ~UnderWay(o, stack)
      <4>1. Len(stack) = 0
        BY <2>1 DEF OnceSound
      <4>2. QED
        BY <4>1 DEF UnderWay
    <3>3. QED
      BY <3>1, <3>2 DEF Finished, Acyclic
  <2>2. QED
    BY <2>1 DEF InitializedOnce, OnceSound
<1>5. QED
  BY <1>1, <1>2, <1>3, <1>4, RuntimeSoundAlways, InitialisationNeverFails, PTL DEF BothSpec
-----------------------------------------------------------------------------
(* What the interpreter came to main with: FilledAtMain. *)
StartFilled ==
  \A c \in Class : \A f \in NamesOf(c, TRUE) :
    LET init  == InitOf(c, f)
        there == sharedMem[c][Index(c, f)]
    IN  /\ init.kind = "value" => there = Val
        /\ init.kind = "new"   => there \in DOMAIN objects /\ objects[there].class = init.class
        /\ init.kind = "shared" /\ there # Garbage => there = sharedMem[init.class][Index(init.class, init.field)]

EveryFieldInitialised ==
  \A c \in Class, f \in Field : f \in NamesOf(c, TRUE) \cup NamesOf(c, FALSE) => InitOf(c, f).kind # "default"

(* Alike, with instances objs. *)
Resembles(v, w, objs) ==
  IF v \in DOMAIN objs THEN w \in DOMAIN objects /\ objs[v].class = objects[w].class ELSE v = w

(* A value that may stand for that of the shared field f of c. *)
Stands(v, c, f, objs) ==
  /\ v \in DOMAIN objs \cup {Val}
  /\ sharedMem[c][Index(c, f)] # Garbage => Resembles(v, sharedMem[c][Index(c, f)], objs)

Agree(vals, objs) == \A c \in Class : \A f \in DOMAIN vals[c] : Stands(vals[c][f], c, f, objs)

(* Instances keep their classes. *)
ClassesStay(objs, objs2) == \A o \in DOMAIN objs : o \in DOMAIN objs2 /\ objs2[o].class = objs[o].class

LEMMA StandsStill ==
  ASSUME NEW objs, NEW objs2, ClassesStay(objs, objs2), Val \notin DOMAIN objs2, NEW v, NEW c, NEW f, Stands(v, c, f, objs)
  PROVE  Stands(v, c, f, objs2)
<1>1. CASE v \in DOMAIN objs
  BY <1>1 DEF Stands, Resembles, ClassesStay
<1>2. CASE v \notin DOMAIN objs
  <2>1. v = Val /\ v \notin DOMAIN objs2
    BY <1>2 DEF Stands
  <2>2. QED
    BY <1>2, <2>1 DEF Stands, Resembles
<1>3. QED
  BY <1>1, <1>2

LEMMA NoInstanceIsVal ==
  ASSUME NEW objs, NEW known, MadeSound(objs, known)
  PROVE  Val \notin DOMAIN objs
BY LenProperties DEF MadeSound, Val

LEMMA AgreeStays ==
  ASSUME Agree(values, made), PartsNext, values' = values, ClassesStay(made, made')
  PROVE  Agree(values', made')
<1>1. Val \notin DOMAIN made'
  BY NoInstanceIsVal DEF PartsNext, PartsSound
<1>2. QED
  BY <1>1, StandsStill DEF Agree

(* The value for a shared field is one that may stand there. *)
LEMMA AssignAgrees ==
  ASSUME ProgramSound, Parts, PartsNext, Agree(values, made), NEW acts \in Seq(ActSound(values, made)),
         acts # <<>> => Head(acts).of # "fire" /\ Head(acts).left # <<>>,
         NEW v, Assign(v, acts),
         acts # <<>> /\ Head(acts).of = "shared" => Stands(v, Head(acts).class, Head(Head(acts).left), made)
  PROVE  Agree(values', made')
<1> DEFINE a == Head(acts)
           c == a.class
           f == Head(a.left)
<1>1. CASE UNCHANGED values
  <2>1. made' = made \/ \E o, w : made' = [made EXCEPT ![o].fields = w]
    BY DEF Assign
  <2>2. SameClasses(made, made')
    <3>1. MadeSound(made, DOMAIN refs)
      BY DEF Parts, PartsSound
    <3>2. QED
      BY <2>1, <3>1, ClassKept
  <2>3. ClassesStay(made, made')
    BY <2>2 DEF SameClasses, ClassesStay
  <2>4. QED
    BY <1>1, <2>3, AgreeStays
<1>2. CASE acts # <<>> /\ a.of = "shared"
  <2>1. values' = ValuesWith(values, c, f, v) /\ made' = made
    BY <1>2 DEF Assign, ValuesWith
  <2>2. Stands(v, c, f, made)
    BY <1>2
  <2>3. values \in [Class -> FieldValues]
    BY DEF Parts, PartsSound, ValuesSound
  <2> HIDE DEF c, f
  <2>4. ASSUME NEW d \in Class, NEW g \in DOMAIN values'[d] PROVE Stands(values'[d][g], d, g, made)
    <3>1. CASE d = c
      <4>1. values'[c] = Setting(values[c], f, v)
        BY <2>1, <2>3, <3>1 DEF ValuesWith
      <4>2. (g = f /\ values'[c][g] = v) \/ (g \in DOMAIN values[c] /\ values'[c][g] = values[c][g])
        BY <2>4, <3>1, <4>1 DEF Setting
      <4>3. QED
        BY <2>2, <3>1, <4>2 DEF Agree
    <3>2. CASE d # c
      <4>1. values'[d] = values[d]
        BY <2>1, <2>3, <3>2 DEF ValuesWith
      <4>2. QED
        BY <2>4, <4>1 DEF Agree
    <3>3. QED
      BY <3>1, <3>2
  <2>5. QED
    BY <2>1, <2>4 DEF Agree
<1>3. CASE acts = <<>> \/ a.of # "shared"
  <2>1. UNCHANGED values
    BY <1>3 DEF Assign
  <2>2. QED
    BY <1>1, <2>1
<1>4. QED
  BY <1>2, <1>3

(* The field an activation of shared fields is at. *)
LEMMA SharedFieldAt ==
  ASSUME NEW a \in ActSound(values, made), a.of = "shared", a.left # <<>>
  PROVE  a.class \in Class /\ Head(a.left) \in NamesOf(a.class, TRUE) /\ Head(a.left) \in Field
<1>1. a \in SharedSound(values)
  BY Kinds
<1>2. a.class \in Class /\ a.left \in Seq(NamesOf(a.class, TRUE))
  BY <1>1, SharedIs
<1>3. Head(a.left) \in NamesOf(a.class, TRUE)
  BY <1>2, HeadAndTail
<1>4. QED
  BY <1>2, <1>3, NamesFinite

LEMMA InstanceDoneAgrees ==
  ASSUME ProgramSound, Parts, PartsNext, StartFilled, Tall(stack), Agree(values, made), InstanceDone
  PROVE  Agree(values', made')
<1> DEFINE S == ActSound(values, made)
<1>1. /\ stack \in Seq(S) /\ Linked(stack) /\ stack # <<>>
      /\ Top.of = "instance" /\ Assign(Top.me, Below)
  BY DEF Parts, PartsSound, InstanceDone, InFields
<1>2. Top \in S /\ Below \in Seq(S) /\ Fitted(Top, Below)
  BY <1>1, LinkedPop DEF Top, Below
<1>3. Top.me \in DOMAIN made /\ made[Top.me].class = Top.class
  BY <1>1, <1>2, Kinds, InstanceIs
<1>4. Below # <<>> => Head(Below).of # "fire" /\ Head(Below).left # <<>>
  BY <1>1, <1>2 DEF Fitted
<1>5. Below # <<>> => Hangs(Top, Head(Below))
  BY <1>1, TallPop DEF Top, Below
<1>6. ASSUME Below # <<>>, Head(Below).of = "shared"
      PROVE  Stands(Top.me, Head(Below).class, Head(Head(Below).left), made)
  <2> DEFINE c == Head(Below).class
             f == Head(Head(Below).left)
  <2>1. Head(Below) \in S
    BY <1>2, <1>6, HeadAndTail
  <2>2. c \in Class /\ f \in NamesOf(c, TRUE)
    BY <1>4, <1>6, <2>1, SharedFieldAt
  <2>3. InitOf(c, f).kind = "new" /\ InitOf(c, f).class = Top.class
    BY <1>1, <1>5, <1>6 DEF Hangs, Wanted
  <2> HIDE DEF c, f
  <2>4. sharedMem[c][Index(c, f)] \in DOMAIN objects /\ objects[sharedMem[c][Index(c, f)]].class = Top.class
    BY <2>2, <2>3 DEF StartFilled
  <2>5. Stands(Top.me, c, f, made)
    BY <1>3, <2>4 DEF Stands, Resembles
  <2>6. QED
    BY <2>5 DEF c, f
<1> DEFINE v == Top.me
<1> HIDE DEF v
<1>7. Assign(v, Below) /\ (Below # <<>> /\ Head(Below).of = "shared" => Stands(v, Head(Below).class, Head(Head(Below).left), made))
  BY <1>1, <1>6 DEF v
<1>8. QED
  BY <1>2, <1>4, <1>7, AssignAgrees DEF S

(* A shared field is not one of the instance. *)
LEMMA OneKind ==
  ASSUME ProgramSound, NEW c \in Class, NEW f \in NamesOf(c, TRUE), f \in NamesOf(c, FALSE)
  PROVE  FALSE
<1>1. \A s : f \in NamesOf(c, s) => declared[c][Declared(c, f)].shared = s
  BY DeclaredIs
<1>2. QED
  BY <1>1

LEMMA PlainAgrees ==
  ASSUME ProgramSound, Resolved, shape.templates = {}, Parts, PartsNext, StartFilled, EveryFieldInitialised,
         Agree(values, made), EvaluatePlain
  PROVE  Agree(values', made')
<1>1. AtInit /\ TopInit.kind \in {"value", "default", "own"} /\ Assign(PlainValue, stack)
  BY DEF EvaluatePlain
<1>2. /\ stack \in Seq(ActSound(values, made)) /\ stack # <<>> /\ Head(stack) \in ActSound(values, made)
      /\ Head(stack).of # "fire" /\ Head(stack).left # <<>>
  BY <1>1, AtInitIs, HeadAndTail DEF Top
<1>3. ASSUME Head(stack).of = "shared" PROVE Stands(PlainValue, Head(stack).class, Head(Head(stack).left), made)
  <2> DEFINE c == Head(stack).class
             f == Head(Head(stack).left)
  <2>1. c \in Class /\ f \in NamesOf(c, TRUE) /\ f \in Field
    BY <1>2, <1>3, SharedFieldAt
  <2>2. TopInit = InitOf(c, f)
    BY DEF TopInit, Top
  <2>3. TopInit.kind # "default"
    BY <2>1, <2>2 DEF EveryFieldInitialised
  <2>4. TopInit.kind # "own"
    <3> SUFFICES ASSUME TopInit.kind = "own" PROVE FALSE
      OBVIOUS
    <3>1. Resolves(c, f)
      BY <2>1 DEF Resolved
    <3>2. f \in NamesOf(c, FALSE)
      BY <2>2, <3>1 DEF Resolves
    <3>3. QED
      BY <2>1, <3>2, OneKind
  <2>5. PlainValue = Val /\ TopInit.kind = "value"
    BY <1>1, <2>3, <2>4 DEF PlainValue
  <2> HIDE DEF c, f
  <2>6. sharedMem[c][Index(c, f)] = Val
    BY <2>1, <2>2, <2>5 DEF StartFilled
  <2>7. Val \notin DOMAIN made
    BY NoInstanceIsVal DEF Parts, PartsSound
  <2>8. Stands(PlainValue, c, f, made)
    BY <2>5, <2>6, <2>7 DEF Stands, Resembles
  <2>9. QED
    BY <2>8 DEF c, f
<1> DEFINE v == PlainValue
<1>4. Assign(v, stack) /\ (Head(stack).of = "shared" => Stands(v, Head(stack).class, Head(Head(stack).left), made))
  BY <1>1, <1>3
<1> HIDE DEF v
<1>5. QED
  BY <1>2, <1>4, AssignAgrees

LEMMA SharedValueAgrees ==
  ASSUME ProgramSound, Parts, PartsNext, StartFilled, Agree(values, made), EvaluateShared
  PROVE  Agree(values', made')
<1> DEFINE init == TopInit
           v == values[init.class][init.field]
<1>1. /\ AtInit /\ init.kind = "shared"
      /\ (Assign(v, stack) /\ init.field \in DOMAIN values[init.class]) \/ UNCHANGED <<values, made>>
  BY DEF EvaluateShared
<1>2. /\ stack \in Seq(ActSound(values, made)) /\ stack # <<>> /\ Head(stack) \in ActSound(values, made)
      /\ Head(stack).of # "fire" /\ Head(stack).left # <<>> /\ init \in Inits
  BY <1>1, AtInitIs, HeadAndTail DEF Top
<1>3. CASE UNCHANGED <<values, made>>
  BY <1>3 DEF Agree
<1>4. CASE Assign(v, stack) /\ init.field \in DOMAIN values[init.class]
  <2>1. init.class \in Class
    BY <1>1, <1>2 DEF Inits
  <2>2. Stands(v, init.class, init.field, made)
    BY <1>4, <2>1 DEF Agree
  <2>3. ASSUME Head(stack).of = "shared" PROVE Stands(v, Head(stack).class, Head(Head(stack).left), made)
    <3> DEFINE c == Head(stack).class
               f == Head(Head(stack).left)
               there == sharedMem[c][Index(c, f)]
    <3>1. c \in Class /\ f \in NamesOf(c, TRUE)
      BY <1>2, <2>3, SharedFieldAt
    <3>2. init = InitOf(c, f)
      BY DEF TopInit, Top
    <3> HIDE DEF c, f, init, v
    <3>3. there # Garbage => there = sharedMem[init.class][Index(init.class, init.field)]
      BY <1>1, <3>1, <3>2 DEF StartFilled
    <3>4. Stands(v, c, f, made)
      BY <2>2, <3>3 DEF Stands
    <3>5. QED
      BY <3>4 DEF c, f
  <2> HIDE DEF v
  <2>4. QED
    BY <1>2, <1>4, <2>3, AssignAgrees
<1>5. QED
  BY <1>1, <1>3, <1>4

LEMMA InstantiateAgrees ==
  ASSUME Parts, PartsNext, Agree(values, made), NEW c, Instantiate(c)
  PROVE  Agree(values', made')
<1>1. values' = values /\ \E new : made' = Append(made, new)
  BY DEF Instantiate
<1>2. DOMAIN made = 1 .. Len(made) /\ Len(made) \in Nat
  BY LenProperties DEF Parts, PartsSound, MadeSound
<1>3. \A new : \A o \in DOMAIN made : o \in DOMAIN Append(made, new) /\ Append(made, new)[o] = made[o]
  BY <1>2
<1>4. ClassesStay(made, made')
  BY <1>1, <1>3 DEF ClassesStay
<1>5. QED
  BY <1>1, <1>4, AgreeStays

LEMMA StatementAgrees ==
  ASSUME Parts, PartsNext, Agree(values, made), Statement
  PROVE  Agree(values', made')
<1>1. PICK o \in WithEvent, t \in WithEvent, m \in Method :
        \/ KeepReference(t, m)
        \/ \E r \in Given(t, m) : RegisterEvent(o, t, m, r) \/ UnregisterEvent(o, t, m, r)
        \/ Fire(o)
  BY DEF Statement
<1>2. values' = values /\ (made' = made \/ \E h : made' = [made EXCEPT ![o].handlers = h])
  BY <1>1 DEF KeepReference, RegisterEvent, UnregisterEvent, Fire, classesAndObjects
<1>3. MadeSound(made, DOMAIN refs)
  BY DEF Parts, PartsSound
<1>4. made' = made => ClassesStay(made, made')
  BY DEF ClassesStay
<1>5. ClassesStay(made, made')
  BY <1>2, <1>3, <1>4, HandlersKeepClass DEF SameClasses, ClassesStay
<1>6. QED
  BY <1>2, <1>5, AgreeStays

LEMMA AgreeStep ==
  ASSUME ProgramSound, Resolved, shape.templates = {}, Parts, PartsNext, StartFilled, EveryFieldInitialised,
         Tall(stack), Agree(values, made), RuntimeNext
  PROVE  Agree(values', made')
<1>1. CASE UNCHANGED <<values, made>>
  BY <1>1 DEF Agree
<1>2. CASE StartRuntime \/ MainEnds \/ EnsureInitialized \/ SharedDone \/ InvokeHandler \/ HandlerReturns \/ Fired
  <2>1. UNCHANGED <<values, made>>
    BY <1>2 DEF StartRuntime, MainEnds, EnsureInitialized, SharedDone, InvokeHandler, HandlerReturns, Fired, classesAndObjects
  <2>2. QED
    BY <1>1, <2>1
<1>3. CASE (\E c \in Class : MainNew(c)) \/ EvaluateNew
  BY <1>3, InstantiateAgrees DEF MainNew, EvaluateNew
<1>4. QED
  BY <1>2, <1>3, InstanceDoneAgrees, PlainAgrees, SharedValueAgrees, StatementAgrees DEF RuntimeNext

-----------------------------------------------------------------------------
(* The values PyFrB set may stand for what the interpreter came to.        *)
AgreeSound == state # "waits" /\ phase = "called" /\ EveryFieldInitialised => Agree(values, made)

LEMMA SameAgree ==
  ASSUME UNCHANGED vars
  PROVE  /\ EveryFieldInitialised' => EveryFieldInitialised
         /\ Agree(values', made') => Agree(values, made)'
<1>1. UNCHANGED <<program, sharedMem, objects>>
  BY DEF vars, work
<1>2. /\ \A c, f : InitOf(c, f)' = InitOf(c, f)
      /\ \A c, f : Index(c, f)' = Index(c, f)
      /\ \A c, s : NamesOf(c, s)' = NamesOf(c, s)
  BY <1>1, SameFields
<1>3. EveryFieldInitialised' => EveryFieldInitialised
  BY <1>2 DEF EveryFieldInitialised
<1>4. \A v, c, f : Stands(v, c, f, made') => Stands(v, c, f, made)'
  BY <1>1, <1>2 DEF Stands, Resembles
<1>5. Agree(values', made') => Agree(values, made)'
  BY <1>4 DEF Agree
<1>6. QED
  BY <1>3, <1>5

(* What PyFrB starts with, and runs on. *)
StartGone == StartInv /\ InOrder /\ DefinedSoFar /\ FilledSoFar

LEMMA StartGoneNext == StartGone /\ [BothNext]_<<vars, runtime>> => StartGone'
<1>1. [BothNext]_<<vars, runtime>> => [Next]_vars
  BY DEF BothNext
<1>2. QED
  BY <1>1, StartInvNext, InOrderNext, DefinedNext, FilledNext DEF StartGone

LEMMA StartFilledAtMain == StartGone /\ phase = "called" /\ shape.templates = {} => StartFilled
BY FilledAtMain DEF StartFilled, StartGone

LEMMA AgreeSoundNext ==
  RuntimeSound /\ OnceSound /\ StartGone /\ AgreeSound /\ [BothNext]_<<vars, runtime>> => AgreeSound'
<1> SUFFICES ASSUME RuntimeSound, OnceSound, StartGone, AgreeSound, [BothNext]_<<vars, runtime>>,
                    state' # "waits", phase' = "called", EveryFieldInitialised'
             PROVE  Agree(values, made)'
  BY DEF AgreeSound
<1>1. [Next]_vars /\ (UNCHANGED runtime \/ (RuntimeNext /\ UNCHANGED vars))
  BY DEF BothNext
<1>2. CASE UNCHANGED runtime
  <2>1. state # "waits" /\ UNCHANGED <<values, made>>
    BY <1>2 DEF runtime, classesAndObjects
  <2>2. UNCHANGED vars
    BY <1>1, <2>1, EndedStays DEF RuntimeSound
  <2>3. phase = "called" /\ EveryFieldInitialised
    BY <2>2, SameAgree DEF vars
  <2>4. Agree(values', made')
    BY <2>1, <2>3 DEF AgreeSound, Agree
  <2>5. QED
    BY <2>2, <2>4, SameAgree
<1>3. CASE RuntimeNext /\ UNCHANGED vars
  <2>1. phase = "called" /\ EveryFieldInitialised
    BY <1>3, SameAgree DEF vars
  <2>2. CASE StartRuntime /\ state = "waits"
    <3>1. values' = [c \in Class |-> <<>>]
      BY <2>2 DEF StartRuntime, classesAndObjects, RuntimeSound, Empty
    <3>2. \A c \in Class : DOMAIN values'[c] = {}
      BY <3>1
    <3>3. Agree(values', made')
      BY <3>2 DEF Agree
    <3>4. QED
      BY <1>3, <3>3, SameAgree
  <2>3. CASE state = "runs"
    <3>1. Resolved /\ shape.templates = {} /\ Parts /\ kept \subseteq DOMAIN refs
      BY <2>3 DEF RuntimeSound, Parts
    <3>2. PartsNext
      BY <1>3, <3>1, RuntimeStep DEF RuntimeSound
    <3>3. Tall(stack)
      BY <2>3 DEF OnceSound, Standing
    <3>4. Agree(values, made)
      BY <2>1, <2>3 DEF AgreeSound
    <3>5. StartFilled
      BY <2>1, <3>1, StartFilledAtMain
    <3>6. Agree(values', made')
      BY <1>3, <2>1, <3>1, <3>2, <3>3, <3>4, <3>5, AgreeStep DEF RuntimeSound
    <3>7. QED
      BY <1>3, <3>6, SameAgree
  <2>4. QED
    BY <1>3, <2>2, <2>3, StateStep
<1>4. QED
  BY <1>1, <1>2, <1>3

(* Where the interpreter came to main with a program every field of which  *)
(* has an initialiser, a run of PyFrB that ends leaves each shared field   *)
(* of the classes it used with the value the interpreter left it with, or  *)
(* one of its own instances of the class of that instance, but for what    *)
(* the interpreter read before it had a value.                             *)
THEOREM ValuesAgree == BothSpec => []ValuesAsLegacy
<1> DEFINE Inv == OrderSound /\ OnceSound /\ StartGone /\ AgreeSound
<1>1. BothInit => Inv
  <2>1. BothInit => Empty /\ state = "waits" /\ begun = [c \in Class |-> 0]
    BY DEF BothInit, RuntimeInit, Empty
  <2>2. BothInit => StartGone
    BY StartInvInit, InOrderInit, DefinedInit, FilledInit DEF BothInit, StartGone
  <2>3. QED
    BY <2>1, <2>2, EmptyReady DEF OrderSound, EventFailed, OnceSound, AgreeSound
<1>2. RuntimeSound /\ Inv /\ [BothNext]_<<vars, runtime>> => Inv'
  BY OrderSoundNext, OnceSoundNext, StartGoneNext, AgreeSoundNext
<1>3. RuntimeSound /\ Inv => ValuesAsLegacy
  <2> SUFFICES ASSUME RuntimeSound, Inv, state = "done", phase = "called", EveryFieldInitialised,
                      NEW c \in initialized, NEW f \in NamesOf(c, TRUE), sharedMem[c][Index(c, f)] # Garbage
               PROVE  Alike(values[c][f], sharedMem[c][Index(c, f)])
    BY DEF ValuesAsLegacy, EveryFieldInitialised
  <2>1. Agree(values, made)
    BY DEF AgreeSound
  <2>2. c \in Class /\ f \in DOMAIN values[c]
    BY DEF RuntimeSound, PartsSound, Initialized
  <2>3. Resembles(values[c][f], sharedMem[c][Index(c, f)], made)
    BY <2>1, <2>2 DEF Agree, Stands
  <2>4. QED
    BY <2>3 DEF Resembles, Alike
<1> HIDE DEF Inv
<1>4. QED
  BY <1>1, <1>2, <1>3, RuntimeSoundAlways, PTL DEF BothSpec

(* As long as the stack has room, PyFrB, which initialises the classes of  *)
(* a program one by one as they are used, comes to what the interpreter    *)
(* comes to, which starts them all before main: each class is initialised  *)
(* once, the values are the same, and what keeps either from it are the    *)
(* classes that lead to themselves and what is read too early.             *)
THEOREM LazyStart == ASSUME DeepEnough PROVE BothSpec => []LazyAsLegacy
<1> DEFINE AtStart == state = "waits" => StartsWhenOrdered
<1>1. BothSpec => []AtStart
  BY StartKept
<1>2. AtStart /\ InitializedOnce /\ ValuesAsLegacy => LazyAsLegacy
  BY DEF LazyAsLegacy
<1> HIDE DEF AtStart
<1>3. QED
  BY <1>1, <1>2, InitialisedOnce, ValuesAgree, PTL
=============================================================================
