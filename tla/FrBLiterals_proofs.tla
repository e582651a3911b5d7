-------------------------- MODULE FrBLiterals_proofs --------------------------
(***************************************************************************)
(* Proofs about FrBLiterals, for all programs on any variables, literals   *)
(* and loops, and machine integers of any width: a literal keeps its       *)
(* value, every object has one owner and is deleted once, and a loop       *)
(* between literals runs over the values its text says.                    *)
(***************************************************************************)
EXTENDS FrBLiterals, SequenceTheorems, TLAPS

(***************************************************************************)
(* The inductive invariant.  Its parts are stated of the heap, the objects *)
(* of the literals and the variables as they are in the middle of a        *)
(* statement, when an operand has been evaluated.                          *)
(***************************************************************************)
Cell == [value : Word, changed : BOOLEAN, managed : BOOLEAN]

Intact(h, f) ==
  /\ h \in [Object -> Cell] /\ f \in [Literal -> Object]
  /\ \A l \in Literal : h[f[l]].changed => h[f[l]].managed
  /\ \A l \in Literal : ~h[f[l]].changed => h[f[l]].value = LitValue[l]
  /\ \A k, l \in Literal : f[k] = f[l] => k = l

Collected(h, v) ==
  /\ v \in [Var -> Object \cup {Null}]
  /\ \A x \in Var : v[x] # Null => h[v[x]].managed

(* What LoopCounts says of one loop. *)
BetweenLiterals(for) == {for.init, for.max} \subseteq Literal /\ for.step \in Literal \cup {NoStep}

Counts(loop, i) ==
  loop.plain /\ BetweenLiterals(loop.for) =>
    /\ i = Wrap(LitValue[loop.for.init] + loop.turns * StepOf(loop.for))
    /\ loop.at = "body" => IF loop.for.up THEN i <= LitValue[loop.for.max]
                                          ELSE i >= LitValue[loop.for.max]

AllCount(ls, h, v) ==
  /\ ls \in Seq(Loops)
  /\ \A k \in DOMAIN ls : v[ls[k].for.var] # Null /\ Counts(ls[k], h[v[ls[k].for.var]].value)

(* At the end: who has deleted what. *)
NotYet == phase \in {"parsed", "running"} => destroyed = {} /\ stray = {} /\ \A o \in Object \cup Truth : deleted[o] = 0

NeverRan == phase \in {"parsed", "refused"} => \A o \in Object : ~heap[o].managed

Gone ==
  phase \in {"refused", "freed"} =>
    /\ \A o \in Object : deleted[o] > 0 <=> \/ phase = "freed" /\ heap[o].managed
                                            \/ \E l \in destroyed \cap Literal : literal[l] = o
    /\ \A b \in Truth : deleted[b] > 0 <=> \/ phase = "freed"
                                           \/ \E l \in destroyed \cap BoolLiteral : BoolValue[l] = b
    /\ \A o \in Object \cup Truth : deleted[o] > 1 => \E l \in stray : Held(l) = o

Asked ==
  /\ phase \in {"refused", "freed"} =>
       \A l \in destroyed \cap Literal : l \in stray <=> heap[literal[l]].managed
  /\ phase = "freed" => destroyed \cap BoolLiteral \subseteq stray
  /\ phase = "refused" => \A k \in destroyed \cap BoolLiteral :
       \E l \in BoolLiteral : \A m \in BoolLiteral :
         m \in destroyed /\ m \notin stray /\ BoolValue[m] = BoolValue[k] <=> m = l

Ending ==
  /\ phase \in {"parsed", "refused", "running", "freed"}
  /\ destroyed \subseteq AnyLiteral /\ stray \subseteq destroyed
  /\ deleted \in [Object \cup Truth -> Nat]
  /\ NotYet /\ NeverRan /\ Gone /\ Asked

(* What statements change. *)
Sound == Intact(heap, literal) /\ Collected(heap, var) /\ AllCount(loops, heap, var)

IInv == Sound /\ Ending
-----------------------------------------------------------------------------
(* Integers that wrap. *)
LEMMA QuotientAndRest ==
  ASSUME NEW a \in Int, NEW n \in Nat \ {0}
  PROVE  a = (n * (a \div n)) + (a % n) /\ a \div n \in Int /\ a % n \in 0 .. n - 1
OBVIOUS

LEMMA RestIsOnly ==
  ASSUME NEW a \in Int, NEW n \in Nat \ {0}, NEW q \in Int, NEW r \in 0 .. n - 1, a = (n * q) + r
  PROVE  a % n = r
OBVIOUS

LEMMA RestOfSum ==
  ASSUME NEW a \in Int, NEW b \in Int, NEW n \in Nat \ {0}
  PROVE  ((a % n) + b) % n = (a + b) % n
<1> DEFINE m == a % n
           p == a \div n
           q == (m + b) \div n
           r == (m + b) % n
<1>1. a = (n * p) + m /\ p \in Int /\ m \in Int
  BY QuotientAndRest
<1> HIDE DEF p, m
<1>2. m + b = (n * q) + r /\ q \in Int /\ r \in 0 .. n - 1
  <2>1. m + b \in Int
    BY <1>1
  <2>2. QED
    BY <2>1, QuotientAndRest
<1> HIDE DEF q, r
<1>3. a + b = (n * (p + q)) + r
  BY <1>1, <1>2
<1>4. (a + b) % n = r
  <2>1. p + q \in Int /\ a + b \in Int
    BY <1>1, <1>2
  <2>2. QED
    BY ONLY <2>1, <1>2, <1>3, n \in Nat \ {0}, RestIsOnly
<1>5. QED
  BY <1>4 DEF r, m

LEMMA Width == MaxInt - MinInt + 1 \in Nat \ {0} /\ MinInt \in Int /\ MaxInt \in Int
BY LiteralsAssumption DEF Word

(* What an operator computes is a machine integer. *)
LEMMA WrapsToWord == ASSUME NEW i \in Int PROVE Wrap(i) \in Word
<1> DEFINE r == (i - MinInt) % (MaxInt - MinInt + 1)
<1>1. r \in 0 .. (MaxInt - MinInt + 1) - 1
  BY Width, QuotientAndRest
<1> HIDE DEF r
<1>2. r + MinInt \in Word
  BY <1>1, Width DEF Word
<1>3. QED
  BY <1>2 DEF Wrap, r

(* A machine integer is left as it is. *)
LEMMA WordStays == ASSUME NEW i \in Word PROVE Wrap(i) = i
<1>1. i - MinInt \in 0 .. (MaxInt - MinInt + 1) - 1 /\ i \in Int
  BY Width DEF Word
<1> DEFINE d == i - MinInt
           n == MaxInt - MinInt + 1
<1>2. d = (n * 0) + d /\ d \in Int
  BY <1>1, Width
<1>3. d % n = d
  BY <1>1, <1>2, Width, RestIsOnly
<1>4. QED
  BY <1>1, <1>3, Width DEF Wrap

(* Wrapping before an addition or after it is the same. *)
LEMMA WrapOfSum == ASSUME NEW a \in Int, NEW b \in Int PROVE Wrap(Wrap(a) + b) = Wrap(a + b)
<1> DEFINE n == MaxInt - MinInt + 1
           d == a - MinInt
           m == d % n
<1>1. n \in Nat \ {0} /\ d \in Int /\ m \in Int
  BY Width, QuotientAndRest
<1>2. (m + b) % n = (d + b) % n
  BY <1>1, RestOfSum
<1>3. (Wrap(a) + b) - MinInt = m + b
  <2>1. Wrap(a) = m + MinInt
    BY DEF Wrap
  <2> HIDE DEF m
  <2>2. QED
    BY <1>1, <2>1, Width
<1>4. (a + b) - MinInt = d + b
  BY Width
<1>5. QED
  BY <1>2, <1>3, <1>4 DEF Wrap

LEMMA OneMoreTurn == ASSUME NEW t \in Int, NEW d \in Int PROVE (t + 1) * d = (t * d) + d
OBVIOUS
-----------------------------------------------------------------------------
(***************************************************************************)
(* What an operand leaves: objects the variables hold are as they were,    *)
(* the object it yields belongs to the collector, and that of a literal    *)
(* has the value of the literal.                                           *)
(***************************************************************************)
Yields(r, x) ==
  /\ Intact(r.heap, r.literal) /\ Collected(r.heap, var)
  /\ r.object \in Object /\ r.heap[r.object].managed
  /\ \A v \in Var : var[v] # Null => r.heap[var[v]].value = heap[var[v]].value
  /\ \A l \in Literal : r.literal[l] \in InUse \cup {r.object}
  /\ x \in Literal => r.heap[r.object].value = LitValue[x]

LEMMA Updated ==
  ASSUME NEW S, NEW T, NEW f \in [S -> T], NEW s \in S, NEW t \in T
  PROVE  /\ [f EXCEPT ![s] = t] \in [S -> T]
         /\ [f EXCEPT ![s] = t][s] = t
         /\ \A u \in S \ {s} : [f EXCEPT ![s] = t][u] = f[u]
OBVIOUS

LEMMA ObjectsInUse ==
  ASSUME Intact(heap, literal), Collected(heap, var)
  PROVE  /\ \A l \in Literal : literal[l] \in InUse /\ literal[l] \in Object
         /\ \A v \in Var : var[v] \in InUse
         /\ Free \subseteq Object
BY DEF Intact, Collected, InUse, Free

(* A literal met again after its object was changed makes another object. *)
LEMMA FreshLiteral ==
  ASSUME Intact(heap, literal), Collected(heap, var), NEW l \in Literal, NEW o \in Free,
         NEW r, r = Result(o, [heap EXCEPT ![o] = [NewObject(LitValue[l]) EXCEPT !.managed = TRUE]],
                           [literal EXCEPT ![l] = o])
  PROVE  Yields(r, l)
<1> DEFINE c == [NewObject(LitValue[l]) EXCEPT !.managed = TRUE]
<1>1. r.object = o /\ r.heap = [heap EXCEPT ![o] = c] /\ r.literal = [literal EXCEPT ![l] = o]
  BY DEF Result
<1>2. c \in Cell /\ c.value = LitValue[l] /\ c.changed = FALSE /\ c.managed = TRUE
  BY LiteralsAssumption DEF Cell, NewObject
<1> HIDE DEF c
<1>3. o \in Object /\ o \notin InUse
  BY DEF Free
<1>4. /\ r.heap \in [Object -> Cell] /\ r.heap[o] = c
      /\ \A p \in Object \ {o} : r.heap[p] = heap[p]
  <2>1. heap \in [Object -> Cell]
    BY DEF Intact
  <2>2. QED
    BY ONLY <2>1, <1>1, <1>2, <1>3, Updated
<1>5. /\ r.literal \in [Literal -> Object] /\ r.literal[l] = o
      /\ \A k \in Literal \ {l} : r.literal[k] = literal[k] /\ literal[k] # o /\ literal[k] \in Object
  <2>1. literal \in [Literal -> Object]
    BY DEF Intact
  <2>2. /\ r.literal \in [Literal -> Object] /\ r.literal[l] = o
        /\ \A k \in Literal \ {l} : r.literal[k] = literal[k]
    BY ONLY <2>1, <1>1, <1>3, l \in Literal, Updated
  <2>3. QED
    BY <2>2, <1>3, ObjectsInUse
<1>6. \A v \in Var : var[v] # Null => var[v] # o /\ var[v] \in Object
  BY <1>3, ObjectsInUse DEF Collected
<1>8. Intact(r.heap, r.literal)
  <2>1. ASSUME NEW k \in Literal \ {l}
        PROVE  r.heap[r.literal[k]] = heap[literal[k]] /\ r.literal[k] = literal[k] /\ r.literal[k] # o
    BY <1>4, <1>5
  <2>2. r.heap[r.literal[l]] = c /\ r.literal[l] = o
    BY <1>4, <1>5
  <2>3. ASSUME NEW k \in Literal, r.heap[r.literal[k]].changed PROVE r.heap[r.literal[k]].managed
    <3>1. \A i \in Literal : heap[literal[i]].changed => heap[literal[i]].managed
      BY DEF Intact
    <3>2. CASE k = l
      BY ONLY <3>2, <2>2, <1>2
    <3>3. CASE k # l
      BY ONLY <3>1, <3>3, <2>1, <2>3, k \in Literal
    <3>4. QED
      BY <3>2, <3>3
  <2>4. ASSUME NEW k \in Literal, ~r.heap[r.literal[k]].changed PROVE r.heap[r.literal[k]].value = LitValue[k]
    <3>1. \A i \in Literal : ~heap[literal[i]].changed => heap[literal[i]].value = LitValue[i]
      BY DEF Intact
    <3>2. CASE k = l
      BY ONLY <3>2, <2>2, <1>2
    <3>3. CASE k # l
      BY ONLY <3>1, <3>3, <2>1, <2>4, k \in Literal
    <3>4. QED
      BY <3>2, <3>3
  <2>5. ASSUME NEW k \in Literal, NEW m \in Literal, r.literal[k] = r.literal[m] PROVE k = m
    <3>1. \A i, j \in Literal : literal[i] = literal[j] => i = j
      BY DEF Intact
    <3>2. QED
      BY ONLY <2>5, <1>5, <3>1, k \in Literal, m \in Literal
  <2>6. QED
    BY <1>4, <1>5, <2>3, <2>4, <2>5 DEF Intact
<1>9. Collected(r.heap, var)
  BY <1>4, <1>6 DEF Collected
<1>10. QED
  BY <1>1, <1>2, <1>3, <1>4, <1>5, <1>6, <1>8, <1>9, ObjectsInUse DEF Yields

(* A literal whose object is as it was hands it out, and to the collector. *)
LEMMA LiteralAgain ==
  ASSUME Intact(heap, literal), Collected(heap, var), NEW l \in Literal, ~heap[literal[l]].changed,
         NEW r, r = Result(literal[l], [heap EXCEPT ![literal[l]].managed = TRUE], literal)
  PROVE  Yields(r, l)
<1> DEFINE o == literal[l]
           c == [heap[o] EXCEPT !.managed = TRUE]
<1>1. r.object = o /\ r.heap = [heap EXCEPT ![o] = c] /\ r.literal = literal
  BY DEF Result
<1>2. o \in Object /\ heap[o] \in Cell /\ heap[o].value = LitValue[l]
  BY DEF Intact
<1>3. c \in Cell /\ c.managed = TRUE /\ c.value = heap[o].value /\ c.changed = heap[o].changed
  BY <1>2 DEF Cell
<1> HIDE DEF c
<1>4. /\ r.heap \in [Object -> Cell]
      /\ \A p \in Object : /\ heap[p].managed => r.heap[p].managed
                           /\ r.heap[p].value = heap[p].value
                           /\ r.heap[p].changed <=> heap[p].changed
      /\ r.heap[o].managed
  BY <1>1, <1>2, <1>3 DEF Intact
<1>5. Intact(r.heap, r.literal)
  <2>1. \A k \in Literal : literal[k] \in Object
    BY DEF Intact
  <2>2. ASSUME NEW k \in Literal, r.heap[literal[k]].changed PROVE r.heap[literal[k]].managed
    BY <2>1, <2>2, <1>4 DEF Intact
  <2>3. ASSUME NEW k \in Literal, ~r.heap[literal[k]].changed PROVE r.heap[literal[k]].value = LitValue[k]
    BY <2>1, <2>3, <1>4 DEF Intact
  <2>4. QED
    <3>1. literal \in [Literal -> Object] /\ \A i, j \in Literal : literal[i] = literal[j] => i = j
      BY DEF Intact
    <3>2. QED
      BY ONLY <2>2, <2>3, <3>1, <1>1, <1>4 DEF Intact
<1>6. Collected(r.heap, var)
  BY <1>4 DEF Collected
<1>7. \A v \in Var : var[v] # Null => r.heap[var[v]].value = heap[var[v]].value
  BY <1>4 DEF Collected
<1>8. QED
  BY <1>1, <1>2, <1>4, <1>5, <1>6, <1>7, ObjectsInUse DEF Yields

LEMMA EvaluationYields ==
  ASSUME Intact(heap, literal), Collected(heap, var), NEW x \in Operand, NEW r \in Evaluations(x)
  PROVE  Yields(r, x)
<1>1. CASE x \in Literal /\ heap[literal[x]].changed
  BY <1>1, FreshLiteral DEF Evaluations, OfLiteral
<1>2. CASE x \in Literal /\ ~heap[literal[x]].changed
  BY <1>2, LiteralAgain DEF Evaluations, OfLiteral
<1>3. CASE x \in Var
  <2>1. x \notin Literal
    BY <1>3, LiteralsAssumption
  <2>2. var[x] # Null /\ r = Result(var[x], heap, literal)
    BY <2>1 DEF Evaluations
  <2>3. r.object = var[x] /\ r.heap = heap /\ r.literal = literal
    BY <2>2 DEF Result
  <2>4. QED
    BY <1>3, <2>1, <2>2, <2>3, ObjectsInUse DEF Yields, Collected
<1>4. QED
  BY <1>1, <1>2, <1>3 DEF Operand
-----------------------------------------------------------------------------
(* The loops under way: what a statement marks, and what it leaves alone. *)
LEMMA Marked ==
  ASSUME NEW x \in Loops, NEW b \in BOOLEAN, NEW y, y = [x EXCEPT !.plain = b]
  PROVE  y \in Loops /\ y.for = x.for /\ y.at = x.at /\ y.turns = x.turns /\ (y.plain <=> b)
BY DEF Loops

(* Loop k as it was, but for its mark. *)
SameLoop(new, old) == new.for = old.for /\ new.at = old.at /\ new.turns = old.turns /\ (new.plain => old.plain)

LEMMA FunctionIsSeq ==
  ASSUME NEW S, NEW ls \in Seq(S), NEW new, DOMAIN new = DOMAIN ls,
         new = [k \in DOMAIN new |-> new[k]], \A k \in DOMAIN ls : new[k] \in S
  PROVE  new \in Seq(S)
<1>1. Len(ls) \in Nat /\ DOMAIN ls = 1 .. Len(ls)
  BY LenProperties
<1>2. new \in [1 .. Len(ls) -> S]
  BY <1>1
<1>3. QED
  BY <1>1, <1>2, SeqDef

LEMMA ReboundLoops ==
  ASSUME NEW ls \in Seq(Loops), NEW v
  PROVE  /\ Rebound(ls, v) \in Seq(Loops) /\ DOMAIN Rebound(ls, v) = DOMAIN ls
         /\ \A k \in DOMAIN ls : /\ SameLoop(Rebound(ls, v)[k], ls[k])
                                 /\ Rebound(ls, v)[k].plain => ls[k].for.var # v
<1> DEFINE new == Rebound(ls, v)
<1>1. DOMAIN new = DOMAIN ls /\ new = [k \in DOMAIN new |-> new[k]]
      /\ \A k \in DOMAIN ls : new[k] = [ls[k] EXCEPT !.plain = (ls[k].plain /\ ls[k].for.var # v)]
  BY DEF Rebound
<1> HIDE DEF new
<1>2. ASSUME NEW k \in DOMAIN ls
      PROVE  new[k] \in Loops /\ SameLoop(new[k], ls[k]) /\ (new[k].plain => ls[k].for.var # v)
  <2>1. ls[k] \in Loops
    BY LenProperties, ElementOfSeq
  <2> DEFINE b == ls[k].plain /\ ls[k].for.var # v
  <2>2. b \in BOOLEAN /\ new[k] = [ls[k] EXCEPT !.plain = b]
    BY <1>1
  <2>3. /\ new[k] \in Loops /\ new[k].for = ls[k].for /\ new[k].at = ls[k].at
        /\ new[k].turns = ls[k].turns /\ (new[k].plain <=> b)
    <3> HIDE DEF b
    <3>1. QED
      BY <2>1, <2>2, Marked
  <2>4. QED
    BY <2>3 DEF SameLoop
<1>3. new \in Seq(Loops)
  BY <1>1, <1>2, FunctionIsSeq
<1>4. QED
  BY <1>1, <1>2, <1>3 DEF new

LEMMA ChangedLoops ==
  ASSUME NEW ls \in Seq(Loops), NEW o
  PROVE  /\ Changed(ls, o) \in Seq(Loops) /\ DOMAIN Changed(ls, o) = DOMAIN ls
         /\ \A k \in DOMAIN ls : /\ SameLoop(Changed(ls, o)[k], ls[k])
                                 /\ Changed(ls, o)[k].plain => var[ls[k].for.var] # o
<1> DEFINE new == Changed(ls, o)
<1>1. DOMAIN new = DOMAIN ls /\ new = [k \in DOMAIN new |-> new[k]]
      /\ \A k \in DOMAIN ls : new[k] = [ls[k] EXCEPT !.plain = (ls[k].plain /\ var[ls[k].for.var] # o)]
  BY DEF Changed
<1> HIDE DEF new
<1>2. ASSUME NEW k \in DOMAIN ls
      PROVE  new[k] \in Loops /\ SameLoop(new[k], ls[k]) /\ (new[k].plain => var[ls[k].for.var] # o)
  <2>1. ls[k] \in Loops
    BY LenProperties, ElementOfSeq
  <2> DEFINE b == ls[k].plain /\ var[ls[k].for.var] # o
  <2>2. b \in BOOLEAN /\ new[k] = [ls[k] EXCEPT !.plain = b]
    BY <1>1
  <2>3. /\ new[k] \in Loops /\ new[k].for = ls[k].for /\ new[k].at = ls[k].at
        /\ new[k].turns = ls[k].turns /\ (new[k].plain <=> b)
    <3> HIDE DEF b
    <3>1. QED
      BY <2>1, <2>2, Marked
  <2>4. QED
    BY <2>3 DEF SameLoop
<1>3. new \in Seq(Loops)
  BY <1>1, <1>2, FunctionIsSeq
<1>4. QED
  BY <1>1, <1>2, <1>3 DEF new

(* A loop that is still plain counts on when its variable has the same value. *)
LEMMA CountsOn ==
  ASSUME NEW new, NEW old, SameLoop(new, old), NEW i, NEW j, Counts(old, i), new.plain => j = i
  PROVE  Counts(new, j)
BY DEF Counts, SameLoop, BetweenLiterals, StepOf

LEMMA LoopsCountOn ==
  ASSUME NEW ls, AllCount(ls, heap, var), NEW new \in Seq(Loops), DOMAIN new = DOMAIN ls, NEW h, NEW v,
         \A x \in Var : var[x] # Null => v[x] # Null,
         \A k \in DOMAIN ls : /\ SameLoop(new[k], ls[k])
                              /\ new[k].plain => h[v[ls[k].for.var]].value = heap[var[ls[k].for.var]].value
  PROVE  AllCount(new, h, v)
<1> SUFFICES ASSUME NEW k \in DOMAIN ls
             PROVE  v[new[k].for.var] # Null /\ Counts(new[k], h[v[new[k].for.var]].value)
  BY DEF AllCount
<1>1. new[k].for = ls[k].for /\ SameLoop(new[k], ls[k])
  BY DEF SameLoop
<1>2. var[ls[k].for.var] # Null /\ Counts(ls[k], heap[var[ls[k].for.var]].value)
  BY DEF AllCount
<1>3. ls[k].for.var \in Var
  <2>1. ls \in Seq(Loops)
    BY DEF AllCount
  <2>2. ls[k] \in Loops
    BY <2>1, LenProperties, ElementOfSeq
  <2>3. QED
    BY <2>2, LiteralsAssumption DEF Loops
<1>4. Counts(new[k], h[v[ls[k].for.var]].value)
  BY <1>1, <1>2, CountsOn
<1>5. QED
  BY <1>1, <1>2, <1>3, <1>4

-----------------------------------------------------------------------------
(* Storing: a new object, and a value in the object of a variable.         *)
(* Put is the heap with the cell c at the address o.                       *)
Put(h, o, c) == [h EXCEPT ![o] = c]

LEMMA ObjectMade ==
  ASSUME NEW r, NEW x, Yields(r, x), Collected(heap, var), NEW o, o \in Free, o # r.object,
         NEW c \in Cell, c.managed = TRUE, NEW h, h = Put(r.heap, o, c)
  PROVE  /\ Intact(h, r.literal) /\ Collected(h, var) /\ o \in Object /\ h[o].managed
         /\ \A v \in Var : var[v] # Null => h[var[v]].value = heap[var[v]].value
<1>1. o \in Object /\ o \notin InUse
  BY DEF Free
<1>2. /\ h \in [Object -> Cell] /\ h[o] = c
      /\ \A p \in Object \ {o} : h[p] = r.heap[p]
  <2>1. r.heap \in [Object -> Cell]
    BY DEF Yields, Intact
  <2>2. QED
    BY ONLY <2>1, <1>1, h = Put(r.heap, o, c), c \in Cell, Updated DEF Put
<1>3. r.literal \in [Literal -> Object] /\ \A l \in Literal : r.literal[l] # o
  BY <1>1 DEF Yields, Intact
<1>4. \A l \in Literal : h[r.literal[l]] = r.heap[r.literal[l]]
  BY <1>2, <1>3
<1>5. \A v \in Var : var[v] # Null => h[var[v]] = r.heap[var[v]]
  <2>1. \A v \in Var : var[v] # o /\ var[v] \in Object \cup {Null}
    BY <1>1 DEF InUse, Collected
  <2>2. QED
    BY <2>1, <1>2
<1>6. Intact(h, r.literal)
  BY <1>2, <1>3, <1>4 DEF Yields, Intact
<1>7. Collected(h, var) /\ \A v \in Var : var[v] # Null => h[var[v]].value = heap[var[v]].value
  BY <1>5 DEF Yields, Collected
<1>8. QED
  BY <1>1, <1>2, <1>6, <1>7

LEMMA ObjectStored ==
  ASSUME NEW h, NEW f, Intact(h, f), NEW o \in Object, h[o].managed, NEW i \in Int
  PROVE  /\ Intact(Stored(h, o, i), f)
         /\ \A p \in Object : h[p].managed => Stored(h, o, i)[p].managed
         /\ \A p \in Object \ {o} : Stored(h, o, i)[p].value = h[p].value
         /\ Stored(h, o, i)[o].value = Wrap(i)
<1> DEFINE c == [h[o] EXCEPT !.value = Wrap(i), !.changed = TRUE]
           g == Stored(h, o, i)
<1>1. h \in [Object -> Cell] /\ h[o] \in Cell
  BY DEF Intact
<1>2. c \in Cell /\ c.value = Wrap(i) /\ c.changed /\ c.managed
  <2>1. Wrap(i) \in Word
    BY WrapsToWord
  <2>2. QED
    BY <2>1, <1>1 DEF Cell
<1>3. g = [h EXCEPT ![o] = c]
  BY <1>1 DEF Stored
<1> HIDE DEF c, g
<1>4. g \in [Object -> Cell] /\ g[o] = c /\ \A p \in Object \ {o} : g[p] = h[p]
  BY ONLY <1>1, <1>2, <1>3, o \in Object, Updated
<1>5. f \in [Literal -> Object]
  BY DEF Intact
<1>6. ASSUME NEW l \in Literal
      PROVE  /\ g[f[l]].changed => g[f[l]].managed
             /\ ~g[f[l]].changed => g[f[l]].value = LitValue[l]
  <2>1. CASE f[l] = o
    BY <2>1, <1>2, <1>4
  <2>2. CASE f[l] # o
    BY <2>2, <1>4, <1>5 DEF Intact
  <2>3. QED
    BY <2>1, <2>2
<1>7. Intact(g, f)
  <2>1. \A k, l \in Literal : f[k] = f[l] => k = l
    BY DEF Intact
  <2>2. QED
    BY ONLY <2>1, <1>4, <1>5, <1>6 DEF Intact
<1>8. \A p \in Object : h[p].managed => g[p].managed
  BY <1>2, <1>4
<1>9. QED
  BY <1>2, <1>4, <1>7, <1>8 DEF g

LEMMA StillCollected ==
  ASSUME NEW h, NEW g, NEW v, Collected(h, v), \A p \in Object : h[p].managed => g[p].managed
  PROVE  Collected(g, v)
BY DEF Collected

(* The heap h in the middle of a statement: the variables have their values. *)
Midway(h, f) ==
  /\ Intact(h, f) /\ Collected(h, var)
  /\ \A v \in Var : var[v] # Null => h[var[v]].value = heap[var[v]].value

LEMMA LoopVariable ==
  ASSUME NEW ls, AllCount(ls, heap, var), NEW k \in DOMAIN ls
  PROVE  ls[k] \in Loops /\ ls[k].for \in Fors /\ ls[k].for.var \in Var /\ var[ls[k].for.var] # Null
<1>1. ls \in Seq(Loops) /\ var[ls[k].for.var] # Null
  BY DEF AllCount
<1>2. ls[k] \in Loops
  BY <1>1, LenProperties, ElementOfSeq
<1>3. QED
  BY <1>1, <1>2, LiteralsAssumption DEF Loops

(* A variable gets another object. *)
LEMMA VariableBound ==
  ASSUME Sound, NEW h, NEW f, Midway(h, f), NEW o \in Object, h[o].managed, NEW v \in Var,
         heap' = h, literal' = f, var' = Put(var, v, o)
  PROVE  /\ Intact(heap', literal') /\ Collected(heap', var')
         /\ AllCount(Rebound(loops, v), heap', var')
         /\ var'[v] = o
<1>1. /\ var' \in [Var -> Object \cup {Null}] /\ var'[v] = o
      /\ \A u \in Var \ {v} : var'[u] = var[u]
  BY DEF Sound, Collected, Put
<1>2. Intact(heap', literal')
  BY DEF Midway
<1>3. Collected(heap', var')
  BY <1>1 DEF Midway, Collected
<1>4. AllCount(Rebound(loops, v), heap', var')
  <2> DEFINE new == Rebound(loops, v)
  <2>1. loops \in Seq(Loops) /\ AllCount(loops, heap, var)
    BY DEF Sound, AllCount
  <2>2. /\ new \in Seq(Loops) /\ DOMAIN new = DOMAIN loops
        /\ \A k \in DOMAIN loops : SameLoop(new[k], loops[k]) /\ (new[k].plain => loops[k].for.var # v)
    BY <2>1, ReboundLoops
  <2> HIDE DEF new
  <2>3. \A u \in Var : var[u] # Null => var'[u] # Null
    BY <1>1, LiteralsAssumption
  <2>4. ASSUME NEW k \in DOMAIN loops, new[k].plain
        PROVE  heap'[var'[loops[k].for.var]].value = heap[var[loops[k].for.var]].value
    <3>1. loops[k].for.var \in Var \ {v} /\ var[loops[k].for.var] # Null
      BY <2>1, <2>2, <2>4, LoopVariable
    <3>2. QED
      BY <3>1, <1>1 DEF Midway
  <2>5. AllCount(new, heap', var')
    BY <2>1, <2>2, <2>3, <2>4, LoopsCountOn
  <2>6. QED
    BY <2>5 DEF new
<1>5. QED
  BY <1>1, <1>2, <1>3, <1>4

(* The object of a variable gets another value. *)
LEMMA ValueStored ==
  ASSUME Sound, NEW h, NEW f, Midway(h, f), NEW v \in Var, var[v] # Null, NEW i \in Int,
         heap' = Stored(h, var[v], i), literal' = f, var' = var,
         NEW ls, AllCount(ls, heap, var)
  PROVE  /\ Intact(heap', literal') /\ Collected(heap', var')
         /\ AllCount(Changed(ls, var[v]), heap', var')
         /\ heap'[var[v]].value = Wrap(i)
<1> DEFINE o == var[v]
<1>1. o \in Object /\ h[o].managed
  BY DEF Midway, Collected
<1>2. /\ Intact(heap', literal')
      /\ \A p \in Object : h[p].managed => heap'[p].managed
      /\ \A p \in Object \ {o} : heap'[p].value = h[p].value
      /\ heap'[o].value = Wrap(i)
  BY <1>1, ObjectStored DEF Midway
<1>3. Collected(heap', var')
  BY <1>2, StillCollected DEF Midway
<1>4. AllCount(Changed(ls, o), heap', var')
  <2> DEFINE new == Changed(ls, o)
  <2>1. ls \in Seq(Loops)
    BY DEF AllCount
  <2>2. /\ new \in Seq(Loops) /\ DOMAIN new = DOMAIN ls
        /\ \A k \in DOMAIN ls : SameLoop(new[k], ls[k]) /\ (new[k].plain => var[ls[k].for.var] # o)
    BY <2>1, ChangedLoops
  <2> HIDE DEF new
  <2>3. ASSUME NEW k \in DOMAIN ls, new[k].plain
        PROVE  heap'[var'[ls[k].for.var]].value = heap[var[ls[k].for.var]].value
    <3>1. ls[k].for.var \in Var /\ var[ls[k].for.var] # Null /\ var[ls[k].for.var] # o
      BY <2>2, <2>3, LoopVariable
    <3>2. var[ls[k].for.var] \in Object \ {o}
      BY <3>1 DEF Midway, Collected
    <3>3. QED
      BY <3>1, <3>2, <1>2 DEF Midway
  <2>4. AllCount(new, heap', var')
    BY <2>2, <2>3, LoopsCountOn
  <2>5. QED
    BY <2>4 DEF new
<1>5. QED
  BY <1>2, <1>3, <1>4

LEMMA AssignSound ==
  ASSUME Sound, NEW v \in Var, NEW x \in Operand, Assign(v, x)
  PROVE  Sound'
<1>1. PICK r \in Evaluations(x) : heap' = r.heap /\ literal' = r.literal /\ var' = Put(var, v, r.object)
  BY DEF Assign, Put
<1>2. Yields(r, x)
  BY EvaluationYields DEF Sound
<1>3. Midway(r.heap, r.literal) /\ r.object \in Object /\ r.heap[r.object].managed
  BY <1>2 DEF Midway, Yields
<1>4. Intact(heap', literal') /\ Collected(heap', var') /\ AllCount(Rebound(loops, v), heap', var')
  BY <1>1, <1>3, VariableBound
<1>5. loops' = Rebound(loops, v)
  BY DEF Assign
<1>6. QED
  BY <1>4, <1>5 DEF Sound, Intact, Collected, AllCount

LEMMA SumSound ==
  ASSUME Sound, NEW v \in Var, NEW x \in Operand, NEW y \in Var, Sum(v, x, y)
  PROVE  Sound'
<1>1. PICK r \in Evaluations(x) : \E o \in Free \ {r.object} :
         /\ heap' = [r.heap EXCEPT ![o] =
                       [NewObject(Wrap(r.heap[r.object].value + r.heap[var[y]].value)) EXCEPT !.managed = TRUE]]
         /\ literal' = r.literal
         /\ var' = [var EXCEPT ![v] = o]
  BY DEF Sum
<1> DEFINE i == r.heap[r.object].value + r.heap[var[y]].value
<1> PICK c : c = [NewObject(Wrap(i)) EXCEPT !.managed = TRUE]
  OBVIOUS
<1>2. Yields(r, x)
  BY EvaluationYields DEF Sound
<1>3. c \in Cell /\ c.managed = TRUE
  <2>1. var[y] \in Object
    BY DEF Sum, Sound, Collected
  <2>2. r.heap[r.object] \in Cell /\ r.heap[var[y]] \in Cell
    BY <2>1, <1>2 DEF Yields, Intact
  <2>3. i \in Int
    BY <2>2, Width DEF Cell, Word
  <2>4. Wrap(i) \in Word
    BY <2>3, WrapsToWord
  <2> HIDE DEF i
  <2>5. QED
    BY <2>4 DEF Cell, NewObject
<1>4. PICK o \in Free \ {r.object} :
         heap' = Put(r.heap, o, c) /\ literal' = r.literal /\ var' = Put(var, v, o)
  BY <1>1 DEF Put
<1> HIDE DEF i
<1>5. Midway(heap', literal') /\ o \in Object /\ heap'[o].managed
  <2>1. Collected(heap, var)
    BY DEF Sound
  <2>2. /\ Intact(heap', r.literal) /\ Collected(heap', var) /\ o \in Object /\ heap'[o].managed
        /\ \A u \in Var : var[u] # Null => heap'[var[u]].value = heap[var[u]].value
    <3>1. o \in Free /\ o # r.object
      OBVIOUS
    <3>2. PICK h : h = heap'
      OBVIOUS
    <3>3. h = Put(r.heap, o, c)
      BY <1>4, <3>2
    <3>4. /\ Intact(h, r.literal) /\ Collected(h, var) /\ o \in Object /\ h[o].managed
          /\ \A u \in Var : var[u] # Null => h[var[u]].value = heap[var[u]].value
      BY ONLY <2>1, <1>2, <1>3, <3>1, <3>3, ObjectMade, Zenon
    <3>5. QED
      BY <3>2, <3>4
  <2>3. QED
    BY <2>2, <1>4 DEF Midway
<1>6. Intact(heap', literal') /\ Collected(heap', var') /\ AllCount(Rebound(loops, v), heap', var')
  BY <1>4, <1>5, VariableBound
<1>7. loops' = Rebound(loops, v)
  BY DEF Sum
<1>8. QED
  BY <1>6, <1>7 DEF Sound, Intact, Collected, AllCount

(* The operators that work in place. *)
LEMMA InPlaceSound ==
  ASSUME Sound, NEW v \in Var, NEW x \in Operand, NEW op \in {"=", "+=", "-="}, InPlace(v, x, op)
  PROVE  Sound'
<1>1. PICK r \in Evaluations(x) :
         LET old == r.heap[var[v]].value
             arg == r.heap[r.object].value
         IN /\ heap' = Stored(r.heap, var[v], CASE op = "="  -> arg
                                                [] op = "+=" -> old + arg
                                                [] op = "-=" -> old - arg)
            /\ literal' = r.literal
  BY DEF InPlace
<1> DEFINE old == r.heap[var[v]].value
           arg == r.heap[r.object].value
           i   == CASE op = "="  -> arg
                    [] op = "+=" -> old + arg
                    [] op = "-=" -> old - arg
<1>2. Yields(r, x)
  BY EvaluationYields DEF Sound
<1>3. Midway(r.heap, r.literal)
  BY <1>2 DEF Midway, Yields
<1>4. i \in Int
  <2>1. var[v] \in Object
    BY DEF InPlace, Sound, Collected
  <2>2. r.heap[r.object] \in Cell /\ r.heap[var[v]] \in Cell
    BY <2>1, <1>2 DEF Yields, Intact
  <2>3. old \in Int /\ arg \in Int
    BY <2>2, Width DEF Cell, Word
  <2> HIDE DEF old, arg
  <2>4. QED
    BY <2>3
<1>5. heap' = Stored(r.heap, var[v], i) /\ literal' = r.literal /\ var' = var /\ var[v] # Null
  BY <1>1 DEF InPlace
<1> HIDE DEF i
<1>6. AllCount(loops, heap, var)
  BY DEF Sound
<1>7. Intact(heap', literal') /\ Collected(heap', var') /\ AllCount(Changed(loops, var[v]), heap', var')
  BY <1>3, <1>4, <1>5, <1>6, ValueStored
<1>8. loops' = Changed(loops, var[v])
  BY DEF InPlace
<1>9. QED
  BY <1>7, <1>8 DEF Sound, Intact, Collected, AllCount

LEMMA HeapMidway == ASSUME Sound PROVE Midway(heap, literal)
BY DEF Sound, Midway

LEMMA IncrementSound ==
  ASSUME Sound, NEW v \in Var, NEW by \in {-1, 1}, Increment(v, by)
  PROVE  Sound'
<1>1. /\ heap' = Stored(heap, var[v], heap[var[v]].value + by) /\ literal' = literal /\ var' = var
      /\ var[v] # Null /\ loops' = Changed(loops, var[v])
  BY DEF Increment
<1> DEFINE i == heap[var[v]].value + by
<1>2. i \in Int
  <2>1. heap[var[v]] \in Cell
    BY <1>1 DEF Sound, Intact, Collected
  <2>2. heap[var[v]].value \in Int
    BY <2>1, Width DEF Cell, Word
  <2>3. QED
    BY <2>2
<1> HIDE DEF i
<1>3. heap' = Stored(heap, var[v], i)
  BY <1>1 DEF i
<1>4. AllCount(loops, heap, var)
  BY DEF Sound
<1>5. Intact(heap', literal') /\ Collected(heap', var') /\ AllCount(Changed(loops, var[v]), heap', var')
  BY <1>1, <1>2, <1>3, <1>4, HeapMidway, ValueStored
<1>6. QED
  BY <1>1, <1>5 DEF Sound, Intact, Collected, AllCount

-----------------------------------------------------------------------------
(* Loops that start, turn and end. *)
LEMMA LoopStarts ==
  ASSUME NEW ls, NEW h, NEW v, AllCount(ls, h, v), NEW l \in Loops,
         v[l.for.var] # Null, Counts(l, h[v[l.for.var]].value)
  PROVE  AllCount(Append(ls, l), h, v)
<1> DEFINE new == Append(ls, l)
<1>1. ls \in Seq(Loops)
  BY DEF AllCount
<1>2. Len(ls) \in Nat /\ DOMAIN ls = 1 .. Len(ls)
  BY <1>1, LenProperties
<1>3. /\ new \in Seq(Loops) /\ Len(new) = Len(ls) + 1
      /\ \A k \in 1 .. Len(ls) : new[k] = ls[k]
      /\ new[Len(ls) + 1] = l
  BY <1>1, AppendProperties
<1>4. DOMAIN new = 1 .. Len(ls) + 1
  BY <1>3, LenProperties
<1> HIDE DEF new
<1>5. ASSUME NEW k \in DOMAIN new
      PROVE  v[new[k].for.var] # Null /\ Counts(new[k], h[v[new[k].for.var]].value)
  <2>1. k \in DOMAIN ls \/ k = Len(ls) + 1
    BY <1>2, <1>4
  <2>2. CASE k \in DOMAIN ls
    BY <2>2, <1>2, <1>3 DEF AllCount
  <2>3. CASE k = Len(ls) + 1
    BY <2>3, <1>3
  <2>4. QED
    BY <2>1, <2>2, <2>3
<1>6. AllCount(new, h, v)
  BY <1>3, <1>5 DEF AllCount
<1>7. QED
  BY <1>6 DEF new

LEMMA LoopEnds ==
  ASSUME NEW ls, ls # <<>>, NEW h, NEW v, AllCount(ls, h, v)
  PROVE  AllCount(SubSeq(ls, 1, Len(ls) - 1), h, v)
<1> DEFINE new == SubSeq(ls, 1, Len(ls) - 1)
<1>1. ls \in Seq(Loops)
  BY DEF AllCount
<1>2. Len(ls) \in Nat \ {0} /\ DOMAIN ls = 1 .. Len(ls) /\ \A k \in 1 .. Len(ls) : ls[k] \in Loops
  BY <1>1, LenProperties, EmptySeq, ElementOfSeq
<1>3. \A k \in 1 .. Len(ls) - 1 : k \in 1 .. Len(ls)
  BY <1>2
<1>4. new \in Seq(Loops) /\ Len(new) = Len(ls) - 1 /\ \A k \in 1 .. Len(ls) - 1 : new[k] = ls[k]
  <2>1. \A k \in 1 .. Len(ls) - 1 : ls[k] \in Loops
    BY <1>2, <1>3
  <2>2. QED
    BY <2>1, <1>2, SubSeqProperties
<1>5. DOMAIN new = 1 .. Len(ls) - 1
  BY <1>4, LenProperties
<1> HIDE DEF new
<1>6. AllCount(new, h, v)
  BY <1>2, <1>3, <1>4, <1>5 DEF AllCount
<1>7. QED
  BY <1>6 DEF new

LEMMA LastTurns ==
  ASSUME NEW ls, ls # <<>>, NEW h, NEW v, AllCount(ls, h, v), NEW l \in Loops, l.for = ls[Len(ls)].for,
         Counts(l, h[v[l.for.var]].value)
  PROVE  AllCount([ls EXCEPT ![Len(ls)] = l], h, v)
<1> DEFINE n   == Len(ls)
           new == [ls EXCEPT ![n] = l]
<1>1. ls \in Seq(Loops)
  BY DEF AllCount
<1>2. n \in Nat \ {0} /\ DOMAIN ls = 1 .. n
  BY <1>1, LenProperties, EmptySeq
<1>3. /\ new \in Seq(Loops) /\ Len(new) = n
      /\ \A j \in 1 .. n : new[j] = IF j = n THEN l ELSE ls[j]
  <2>1. n \in 1 .. n
    BY <1>2
  <2>2. QED
    BY <2>1, <1>1, ExceptSeq
<1>4. DOMAIN new = 1 .. n
  BY <1>3, LenProperties
<1> HIDE DEF new
<1>5. ASSUME NEW k \in 1 .. n
      PROVE  v[new[k].for.var] # Null /\ Counts(new[k], h[v[new[k].for.var]].value)
  <2>1. v[ls[k].for.var] # Null /\ Counts(ls[k], h[v[ls[k].for.var]].value)
    BY <1>2 DEF AllCount
  <2>2. CASE k = n
    BY <2>1, <2>2, <1>3
  <2>3. CASE k # n
    BY <2>1, <2>3, <1>3
  <2>4. QED
    BY <2>2, <2>3
<1>6. AllCount(new, h, v)
  BY <1>3, <1>4, <1>5 DEF AllCount
<1>7. QED
  BY <1>6 DEF new

LEMMA StepsAreIntegers ==
  ASSUME NEW for \in Fors, BetweenLiterals(for)
  PROVE  /\ LitValue[for.init] \in Word /\ LitValue[for.init] \in Int /\ LitValue[for.max] \in Int
         /\ StepOf(for) \in Int
<1>1. for.init \in Literal /\ for.max \in Literal /\ (for.step = NoStep \/ for.step \in Literal)
  BY DEF BetweenLiterals
<1>2. \A l \in Literal : LitValue[l] \in Word /\ LitValue[l] \in Int
  BY LiteralsAssumption, Width DEF Word
<1>3. (IF for.step = NoStep THEN 1 ELSE LitValue[for.step]) \in Int
  BY <1>1, <1>2
<1>4. (IF for.up THEN 1 ELSE -1) \in Int
  OBVIOUS
<1>5. StepOf(for) \in Int
  BY <1>3, <1>4 DEF StepOf
<1>6. QED
  BY <1>1, <1>2, <1>5

LEMMA StartLoopSound ==
  ASSUME Sound, NEW for \in Fors, StartLoop(for)
  PROVE  Sound'
<1> PICK v : v = for.var
  OBVIOUS
<1> DEFINE l == [for |-> for, at |-> "condition", turns |-> 0, plain |-> TRUE]
<1>1. v \in Var /\ for.init \in Operand
  BY LiteralsAssumption DEF Operand
<1>2. PICK r \in Evaluations(for.init) : heap' = r.heap /\ literal' = r.literal /\ var' = Put(var, v, r.object)
  BY DEF StartLoop, Put
<1>3. Yields(r, for.init)
  BY <1>1, EvaluationYields DEF Sound
<1>4. Midway(r.heap, r.literal) /\ r.object \in Object /\ r.heap[r.object].managed
  BY <1>3 DEF Midway, Yields
<1>5. /\ Intact(heap', literal') /\ Collected(heap', var') /\ AllCount(Rebound(loops, v), heap', var')
      /\ var'[v] = r.object
  BY ONLY Sound, <1>1, <1>2, <1>4, VariableBound
<1>6. l \in Loops /\ l.for = for /\ l.turns = 0 /\ l.at = "condition"
  BY LiteralsAssumption DEF Loops
<1> HIDE DEF l
<1>7. Counts(l, heap'[var'[v]].value)
  <2> SUFFICES ASSUME BetweenLiterals(for)
               PROVE  heap'[var'[v]].value = Wrap(LitValue[for.init] + 0 * StepOf(for))
    BY <1>6 DEF Counts
  <2>1. heap'[var'[v]].value = LitValue[for.init]
    BY <1>2, <1>3, <1>5 DEF Yields, BetweenLiterals
  <2>2. LitValue[for.init] \in Word /\ LitValue[for.init] \in Int /\ StepOf(for) \in Int
    BY StepsAreIntegers
  <2>3. LitValue[for.init] + 0 * StepOf(for) = LitValue[for.init]
    BY <2>2
  <2>4. QED
    BY <2>1, <2>2, <2>3, WordStays
<1>8. var'[l.for.var] # Null /\ Counts(l, heap'[var'[l.for.var]].value)
  BY <1>4, <1>5, <1>6, <1>7, LiteralsAssumption
<1>9. AllCount(Append(Rebound(loops, v), l), heap', var')
  BY <1>5, <1>6, <1>8, LoopStarts
<1>10. loops' = Append(Rebound(loops, v), l)
  BY DEF StartLoop, l
<1>11. QED
  BY <1>5, <1>9, <1>10 DEF Sound, Intact, Collected, AllCount

(* The evaluation of an operand leaves the loops as they are. *)
LEMMA LoopsMidway ==
  ASSUME NEW ls, AllCount(ls, heap, var), NEW h, NEW f, Midway(h, f)
  PROVE  AllCount(ls, h, var)
<1>1. ls \in Seq(Loops)
  BY DEF AllCount
<1>2. \A k \in DOMAIN ls : /\ SameLoop(ls[k], ls[k])
                           /\ h[var[ls[k].for.var]].value = heap[var[ls[k].for.var]].value
  BY LoopVariable DEF SameLoop, Midway
<1>3. QED
  BY <1>1, <1>2, LoopsCountOn

LEMMA ConditionSound == ASSUME Sound, Condition PROVE Sound'
<1>1. PICK r \in Evaluations(Loop.for.max) :
         LET i     == r.heap[var[Loop.for.var]].value
             bound == r.heap[r.object].value
         IN /\ loops' = IF IF Loop.for.up THEN i <= bound ELSE i >= bound
                        THEN [loops EXCEPT ![Len(loops)].at = "body"]
                        ELSE Outer
            /\ heap' = r.heap
            /\ literal' = r.literal
  BY DEF Condition
<1> DEFINE i     == r.heap[var[Loop.for.var]].value
           bound == r.heap[r.object].value
           l     == [Loop EXCEPT !.at = "body"]
<1>2. loops # <<>> /\ var' = var /\ AllCount(loops, heap, var)
  BY DEF Condition, Sound
<1>3. Loop \in Loops /\ Loop.for \in Fors /\ Loop.for.var \in Var /\ var[Loop.for.var] # Null
  <2>1. Len(loops) \in DOMAIN loops
    <3>1. loops \in Seq(Loops)
      BY <1>2 DEF AllCount
    <3>2. Len(loops) \in Nat \ {0} /\ DOMAIN loops = 1 .. Len(loops)
      BY <1>2, <3>1, LenProperties, EmptySeq
    <3>3. QED
      BY <3>2
  <2>2. QED
    BY <1>2, <2>1, LoopVariable DEF Loop
<1>4. Loop.for.max \in Operand
  BY <1>3, LiteralsAssumption DEF Operand
<1>5. Yields(r, Loop.for.max)
  BY <1>4, EvaluationYields DEF Sound
<1>6. Midway(r.heap, r.literal)
  BY <1>5 DEF Midway, Yields
<1>7. Intact(heap', literal') /\ Collected(heap', var')
  BY <1>1, <1>2, <1>6 DEF Midway
<1>8. AllCount(loops, heap', var')
  BY <1>1, <1>2, <1>6, LoopsMidway
<1>9. CASE ~(IF Loop.for.up THEN i <= bound ELSE i >= bound)
  <2>1. loops' = SubSeq(loops, 1, Len(loops) - 1)
    BY <1>1, <1>9 DEF Outer
  <2>2. AllCount(loops', heap', var')
    BY <2>1, <1>2, <1>8, LoopEnds
  <2>3. QED
    BY <1>7, <2>2 DEF Sound, Intact, Collected, AllCount
<1>10. CASE IF Loop.for.up THEN i <= bound ELSE i >= bound
  <2>1. loops' = [loops EXCEPT ![Len(loops)] = l]
    BY <1>1, <1>10 DEF Loop
  <2>2. l \in Loops /\ l.for = Loop.for /\ l.at = "body" /\ l.turns = Loop.turns /\ l.plain = Loop.plain
    BY <1>3 DEF Loops
  <2> HIDE DEF l
  <2>3. heap'[var'[Loop.for.var]].value = i
    BY <1>1, <1>2
  <2>4. Counts(Loop, i)
    <3>1. Len(loops) \in DOMAIN loops
      <4>1. loops \in Seq(Loops)
        BY <1>2 DEF AllCount
      <4>2. Len(loops) \in Nat \ {0} /\ DOMAIN loops = 1 .. Len(loops)
        BY <1>2, <4>1, LenProperties, EmptySeq
      <4>3. QED
        BY <4>2
    <3>2. QED
      BY <1>8, <2>3, <3>1 DEF AllCount, Loop
  <2>5. BetweenLiterals(Loop.for) => bound = LitValue[Loop.for.max]
    BY <1>5 DEF BetweenLiterals, Yields
  <2> HIDE DEF i, bound
  <2>6. Counts(l, i)
    BY <1>10, <2>2, <2>4, <2>5 DEF Counts
  <2>7. AllCount([loops EXCEPT ![Len(loops)] = l], heap', var')
    BY <1>2, <1>8, <2>2, <2>3, <2>6, LastTurns DEF Loop
  <2>8. QED
    BY <1>7, <2>1, <2>7 DEF Sound, Intact, Collected, AllCount
<1>11. QED
  BY <1>9, <1>10

(* What the increment of a loop adds: a step, when the loop is between literals. *)
LEMMA StepTaken ==
  ASSUME Sound, NEW for \in Fors, NEW s \in Steps(for)
  PROVE  /\ Midway(s.heap, s.literal) /\ s.by \in Int
         /\ BetweenLiterals(for) => (IF for.up THEN s.by ELSE -s.by) = StepOf(for)
<1>1. CASE for.step = NoStep
  <2>1. s.heap = heap /\ s.literal = literal /\ s.by = 1
    BY <1>1 DEF Steps
  <2>2. (IF for.up THEN s.by ELSE -s.by) = StepOf(for)
    BY <1>1, <2>1 DEF StepOf
  <2>3. QED
    BY <2>1, <2>2, HeapMidway
<1>2. CASE for.step # NoStep
  <2>1. PICK r \in Evaluations(for.step) :
           s.heap = r.heap /\ s.literal = r.literal /\ s.by = r.heap[r.object].value
    BY <1>2 DEF Steps
  <2>2. for.step \in Operand
    BY <1>2, LiteralsAssumption DEF Operand
  <2>3. Yields(r, for.step)
    BY <2>1, <2>2, EvaluationYields DEF Sound
  <2>4. Midway(s.heap, s.literal)
    BY <2>1, <2>3 DEF Midway, Yields
  <2>5. s.by \in Int
    <3>1. r.heap[r.object] \in Cell
      BY <2>3 DEF Yields, Intact
    <3>2. QED
      BY <2>1, <3>1, Width DEF Cell, Word
  <2>6. ASSUME BetweenLiterals(for) PROVE (IF for.up THEN s.by ELSE -s.by) = StepOf(for)
    <3>1. s.by = LitValue[for.step]
      BY <1>2, <2>1, <2>3, <2>6 DEF BetweenLiterals, Yields
    <3>2. StepOf(for) = (IF for.up THEN 1 ELSE -1) * s.by
      BY <1>2, <3>1 DEF StepOf
    <3>3. QED
      BY <2>5, <3>2
  <2>7. QED
    BY <2>4, <2>5, <2>6
<1>3. QED
  BY <1>1, <1>2

LEMMA TurnSound == ASSUME Sound, Turn PROVE Sound'
<1> PICK for : for = Loop.for
  OBVIOUS
<1> PICK o : o = var[for.var]
  OBVIOUS
<1>1. PICK s \in Steps(for) :
         /\ heap' = Stored(s.heap, o, s.heap[o].value + (IF for.up THEN s.by ELSE -s.by))
         /\ literal' = s.literal
         /\ loops' = Append(Changed(Outer, o), [Loop EXCEPT !.at = "condition", !.turns = @ + 1])
  BY DEF Turn
<1> DEFINE l == [Loop EXCEPT !.at = "condition", !.turns = @ + 1]
           d == IF for.up THEN s.by ELSE -s.by
           i == s.heap[o].value + d
<1>2. loops # <<>> /\ var' = var /\ AllCount(loops, heap, var) /\ Loop.turns < MaxTurns
  BY DEF Turn, Sound
<1>3. Len(loops) \in DOMAIN loops
  <2>1. loops \in Seq(Loops)
    BY <1>2 DEF AllCount
  <2>2. Len(loops) \in Nat \ {0} /\ DOMAIN loops = 1 .. Len(loops)
    BY <1>2, <2>1, LenProperties, EmptySeq
  <2>3. QED
    BY <2>2
<1>4. /\ Loop \in Loops /\ for \in Fors /\ for.var \in Var /\ o # Null /\ o \in Object
      /\ Counts(Loop, heap[o].value)
  <2>1. Loop \in Loops /\ for \in Fors /\ for.var \in Var /\ o # Null
    BY <1>2, <1>3, LoopVariable DEF Loop
  <2>2. Counts(Loop, heap[o].value)
    BY <1>2, <1>3 DEF AllCount, Loop
  <2>3. o \in Object
    BY <2>1 DEF Sound, Collected
  <2>4. QED
    BY <2>1, <2>2, <2>3
<1>5. /\ Midway(s.heap, s.literal) /\ s.by \in Int
      /\ BetweenLiterals(for) => d = StepOf(for)
  BY <1>1, <1>4, StepTaken
<1>6. s.heap[o].value = heap[o].value /\ heap[o].value \in Int /\ d \in Int
  <2>1. s.heap[o].value = heap[o].value
    BY <1>4, <1>5 DEF Midway
  <2>2. heap[o] \in Cell
    BY <1>4 DEF Sound, Intact
  <2>3. QED
    BY <1>5, <2>1, <2>2, Width DEF Cell, Word
<1> HIDE DEF d
<1>7. i \in Int /\ i = heap[o].value + d
  BY <1>6
<1>8. heap' = Stored(s.heap, o, i) /\ loops' = Append(Changed(Outer, o), l)
  BY <1>1 DEF d
<1>9. AllCount(Outer, heap, var)
  BY <1>2, LoopEnds DEF Outer
<1> HIDE DEF i
<1>10. /\ Intact(heap', literal') /\ Collected(heap', var') /\ AllCount(Changed(Outer, o), heap', var')
       /\ heap'[o].value = Wrap(i)
  BY <1>1, <1>2, <1>4, <1>5, <1>7, <1>8, <1>9, ValueStored
<1>11. /\ l.for = for /\ l.at = "condition" /\ l.turns = Loop.turns + 1 /\ l.plain = Loop.plain
       /\ l \in Loops /\ Loop.turns \in Int
  <2>1. l.for = for /\ l.at = "condition" /\ l.turns = Loop.turns + 1 /\ l.plain = Loop.plain
    BY <1>4 DEF Loops
  <2>2. Loop.turns \in 0 .. MaxTurns /\ MaxTurns \in Nat
    BY <1>4, LiteralsAssumption DEF Loops
  <2>3. Loop.turns + 1 \in 0 .. MaxTurns
    BY <1>2, <2>2
  <2>4. l \in Loops
    BY <1>4, <2>3 DEF Loops
  <2>5. QED
    BY <2>1, <2>2, <2>4
<1> HIDE DEF l
<1>12. Counts(l, heap'[o].value)
  <2> SUFFICES ASSUME Loop.plain, BetweenLiterals(for)
               PROVE  Wrap(i) = Wrap(LitValue[for.init] + (Loop.turns + 1) * StepOf(for))
    BY <1>10, <1>11 DEF Counts
  <2> DEFINE a == LitValue[for.init]
             p == Loop.turns * StepOf(for)
  <2>1. a \in Int /\ StepOf(for) \in Int
    BY <1>4, StepsAreIntegers
  <2>2. p \in Int /\ (Loop.turns + 1) * StepOf(for) = p + StepOf(for)
    <3>1. \A t, z \in Int : t * z \in Int /\ (t + 1) * z = (t * z) + z
      BY OneMoreTurn
    <3>2. QED
      BY ONLY <1>11, <2>1, <3>1
  <2>3. heap[o].value = Wrap(a + p)
    BY <1>4 DEF Counts
  <2>4. d = StepOf(for)
    BY <1>5
  <2> HIDE DEF a, p
  <2>5. Wrap(Wrap(a + p) + d) = Wrap((a + p) + d)
    BY <2>1, <2>2, <1>6, WrapOfSum
  <2>6. (a + p) + d = a + (p + d)
    BY <2>1, <2>2, <1>6
  <2>7. Wrap(i) = Wrap(a + (p + d))
    BY <1>7, <2>3, <2>5, <2>6
  <2>8. QED
    BY <2>2, <2>4, <2>7 DEF a
<1>13. AllCount(Append(Changed(Outer, o), l), heap', var')
  <2>1. var'[l.for.var] = o
    BY <1>2, <1>11
  <2>2. QED
    BY <2>1, <1>4, <1>10, <1>11, <1>12, LoopStarts
<1>14. QED
  <2>1. AllCount(loops', heap', var')
    BY <1>8, <1>13
  <2>2. QED
    BY <1>10, <2>1 DEF Sound, Intact, Collected, AllCount

LEMMA ReturnSound == ASSUME Sound, Return PROVE Sound'
<1>1. loops' = <<>> /\ heap' = heap /\ literal' = literal /\ var' = var
  BY DEF Return
<1>2. AllCount(<<>>, heap, var)
  <2>1. <<>> \in Seq(Loops) /\ DOMAIN <<>> = {}
    BY EmptySeq
  <2>2. QED
    BY <2>1 DEF AllCount
<1>3. QED
  BY <1>1, <1>2 DEF Sound, Intact, Collected, AllCount

LEMMA StatementSound == ASSUME Sound, Statement PROVE Sound'
<1>1. ASSUME NEW v \in Var, NEW x \in Operand, Assign(v, x) PROVE Sound'
  BY <1>1, AssignSound
<1>2. ASSUME NEW v \in Var, NEW y \in Var, NEW x \in Operand, Sum(v, x, y) PROVE Sound'
  BY <1>2, SumSound
<1>3. ASSUME NEW v \in Var, NEW x \in Operand, NEW op \in {"=", "+=", "-="}, InPlace(v, x, op) PROVE Sound'
  BY <1>3, InPlaceSound
<1>4. ASSUME NEW v \in Var, NEW by \in {-1, 1}, Increment(v, by) PROVE Sound'
  BY <1>4, IncrementSound
<1>5. ASSUME NEW for \in Fors, StartLoop(for) PROVE Sound'
  BY <1>5, StartLoopSound
<1>6. CASE Condition
  BY <1>6, ConditionSound
<1>7. CASE Turn
  BY <1>7, TurnSound
<1>8. CASE Return
  BY <1>8, ReturnSound
<1>9. QED
  BY <1>1, <1>2, <1>3, <1>4, <1>5, <1>6, <1>7, <1>8 DEF Statement

-----------------------------------------------------------------------------
(* The end of main(). *)
LEMMA InitInv == Init => IInv
<1> SUFFICES ASSUME Init PROVE IInv
  OBVIOUS
<1>1. ASSUME NEW o \in Object PROVE heap[o] \in {NewObject(v) : v \in Word}
  BY DEF Init
<1>2. ASSUME NEW o \in Object PROVE heap[o] \in Cell /\ heap[o].changed = FALSE /\ heap[o].managed = FALSE
  <2>1. PICK v \in Word : heap[o] = NewObject(v)
    BY <1>1
  <2>2. NewObject(v) \in Cell /\ NewObject(v).changed = FALSE /\ NewObject(v).managed = FALSE
    BY DEF NewObject, Cell
  <2>3. QED
    BY <2>1, <2>2
<1>3. Intact(heap, literal)
  <2>1. literal \in [Literal -> Object] /\ \A k, l \in Literal : literal[k] = literal[l] => k = l
    BY DEF Init
  <2>2. heap \in [Object -> Cell]
    <3>1. heap \in [Object -> {NewObject(v) : v \in Word}]
      BY DEF Init
    <3>2. QED
      BY <3>1, <1>2
  <2>3. ASSUME NEW l \in Literal
        PROVE  ~heap[literal[l]].changed /\ heap[literal[l]].value = LitValue[l]
    <3>1. heap[literal[l]] = NewObject(LitValue[l])
      BY DEF Init
    <3>2. QED
      BY <3>1 DEF NewObject
  <2>4. QED
    BY <2>1, <2>2, <2>3 DEF Intact
<1>4. Collected(heap, var)
  BY DEF Init, Collected
<1>5. AllCount(loops, heap, var)
  <2>1. <<>> \in Seq(Loops) /\ DOMAIN <<>> = {}
    BY EmptySeq
  <2>2. QED
    BY <2>1 DEF AllCount, Init
<1>6. Ending
  <2>1. deleted \in [Object \cup Truth -> Nat] /\ \A o \in Object \cup Truth : deleted[o] = 0
    BY DEF Init
  <2>2. phase = "parsed" /\ destroyed = {} /\ stray = {}
    BY DEF Init
  <2>3. NeverRan
    BY <1>2 DEF NeverRan
  <2>4. QED
    BY <2>1, <2>2, <2>3 DEF Ending, NotYet, Gone, Asked
<1>7. QED
  BY <1>3, <1>4, <1>5, <1>6 DEF IInv, Sound

LEMMA SameSound == ASSUME Sound, UNCHANGED program PROVE Sound'
BY DEF Sound, program, Intact, Collected, AllCount

LEMMA StartInv == ASSUME IInv, Start PROVE IInv'
<1>1. Sound'
  BY SameSound DEF IInv, Start
<1>2. Ending'
  BY DEF IInv, Ending, NotYet, NeverRan, Gone, Asked, Start
<1>3. QED
  BY <1>1, <1>2 DEF IInv

LEMMA RefuseInv == ASSUME IInv, Refuse PROVE IInv'
<1>1. Sound'
  BY SameSound DEF IInv, Refuse
<1>2. /\ phase = "parsed" /\ phase' = "refused" /\ UNCHANGED <<heap, literal, destroyed, deleted, stray>>
      /\ destroyed = {} /\ stray = {} /\ \A o \in Object \cup Truth : deleted[o] = 0
      /\ \A o \in Object : ~heap[o].managed
      /\ deleted \in [Object \cup Truth -> Nat]
  BY DEF IInv, Ending, NotYet, NeverRan, Refuse, program
<1>3. Gone'
  BY <1>2 DEF Gone
<1>4. Asked'
  BY <1>2 DEF Asked
<1>5. (NotYet /\ NeverRan)'
  BY <1>2 DEF NotYet, NeverRan
<1>6. Ending'
  BY <1>2, <1>3, <1>4, <1>5 DEF Ending
<1>7. QED
  BY <1>1, <1>6 DEF IInv

LEMMA RunInv == ASSUME IInv, Run PROVE IInv'
<1>1. Sound'
  BY StatementSound DEF IInv, Run
<1>2. Ending'
  BY DEF IInv, Ending, NotYet, NeverRan, Gone, Asked, Run, ending
<1>3. QED
  BY <1>1, <1>2 DEF IInv

LEMMA FreeHeapInv == ASSUME IInv, FreeHeap PROVE IInv'
<1>1. Sound'
  BY SameSound DEF IInv, FreeHeap
<1>2. /\ phase = "running" /\ phase' = "freed" /\ UNCHANGED <<heap, literal, destroyed, stray>>
      /\ destroyed = {} /\ stray = {}
      /\ deleted' = [o \in DOMAIN deleted |-> IF o \in Truth \/ heap[o].managed THEN 1 ELSE 0]
      /\ deleted \in [Object \cup Truth -> Nat]
  BY DEF IInv, Ending, NotYet, FreeHeap, program
<1>3. /\ deleted' \in [Object \cup Truth -> Nat]
      /\ \A o \in Object \cup Truth : deleted'[o] = IF o \in Truth \/ heap[o].managed THEN 1 ELSE 0
  BY <1>2
<1>4. \A o \in Object : o \notin Truth
  BY LiteralsAssumption
<1>5. Gone'
  <2>1. \A o \in Object : deleted'[o] > 0 <=> heap[o].managed
    BY <1>3, <1>4
  <2>2. \A b \in Truth : deleted'[b] > 0
    BY <1>3
  <2>3. \A o \in Object \cup Truth : ~(deleted'[o] > 1)
    BY <1>3
  <2>4. QED
    BY <2>1, <2>2, <2>3, <1>2 DEF Gone
<1>6. (Asked /\ NotYet /\ NeverRan)'
  BY <1>2 DEF Asked, NotYet, NeverRan
<1>7. Ending'
  BY <1>2, <1>3, <1>5, <1>6 DEF Ending
<1>8. QED
  BY <1>1, <1>7 DEF IInv

(* A literal that is destroyed deletes its object, or asks about one that is gone. *)
LEMMA FreeLiteralInv == ASSUME IInv, NEW l \in AnyLiteral, FreeLiteral(l) PROVE IInv'
<1> PICK h : h = Held(l)
  OBVIOUS
<1>1. Sound'
  BY SameSound DEF IInv, FreeLiteral
<1>2. /\ UNCHANGED <<heap, literal, phase>> /\ phase \in {"refused", "freed"}
      /\ l \notin destroyed /\ destroyed' = destroyed \cup {l}
      /\ stray \subseteq destroyed /\ destroyed \subseteq AnyLiteral
      /\ deleted \in [Object \cup Truth -> Nat]
  BY DEF IInv, Ending, FreeLiteral, program
<1>3. /\ l \in Literal => l \notin BoolLiteral /\ h = literal[l] /\ h \in Object /\ h \notin Truth
      /\ l \notin Literal => l \in BoolLiteral /\ h = BoolValue[l] /\ h \in Truth /\ h \notin Object
  <2>1. literal \in [Literal -> Object]
    BY DEF IInv, Sound, Intact
  <2>2. QED
    BY <2>1, LiteralsAssumption DEF AnyLiteral, Held
<1>4. /\ deleted' \in [Object \cup Truth -> Nat] /\ deleted'[h] > 0
      /\ \A o \in (Object \cup Truth) \ {h} : deleted'[o] = deleted[o]
      /\ deleted[h] = 0 => deleted'[h] = 1
      /\ h \in Object \cup Truth /\ deleted[h] \in Nat
  <2> PICK again : again = [deleted EXCEPT ![h] = @ + 1]
    OBVIOUS
  <2>1. h \in Object \cup Truth
    BY <1>3
  <2>2. deleted[h] \in Nat
    BY <2>1, <1>2
  <2>3. /\ again \in [Object \cup Truth -> Nat] /\ again[h] = deleted[h] + 1
        /\ \A o \in (Object \cup Truth) \ {h} : again[o] = deleted[o]
    BY <2>1, <2>2, <1>2
  <2>4. IF deleted[h] = 0 THEN deleted' = again ELSE deleted' \in {deleted, again}
    BY DEF FreeLiteral
  <2>5. QED
    BY <1>2, <2>1, <2>2, <2>3, <2>4
<1>5. stray' = IF deleted[h] = 0 THEN stray ELSE stray \cup {l}
  BY DEF FreeLiteral
<1>6. /\ \A o \in Object : deleted[o] > 0 <=> \/ phase = "freed" /\ heap[o].managed
                                              \/ \E k \in destroyed \cap Literal : literal[k] = o
      /\ \A b \in Truth : deleted[b] > 0 <=> \/ phase = "freed"
                                             \/ \E k \in destroyed \cap BoolLiteral : BoolValue[k] = b
      /\ \A o \in Object \cup Truth : deleted[o] > 1 => \E k \in stray : Held(k) = o
  BY <1>2 DEF IInv, Ending, Gone
<1>7. Gone'
  <2>1. ASSUME NEW o \in Object
        PROVE  deleted'[o] > 0 <=> \/ phase = "freed" /\ heap[o].managed
                                   \/ \E k \in destroyed' \cap Literal : literal[k] = o
    <3>1. CASE o = h
      <4>1. l \in Literal /\ literal[l] = o
        BY <3>1, <1>3
      <4>2. QED
        BY <4>1, <3>1, <1>2, <1>4
    <3>2. CASE o # h
      <4>1. deleted'[o] = deleted[o]
        BY <3>2, <1>4
      <4>2. (\E k \in destroyed' \cap Literal : literal[k] = o) <=> (\E k \in destroyed \cap Literal : literal[k] = o)
        BY <3>2, <1>2, <1>3
      <4>3. QED
        BY <4>1, <4>2, <1>6
    <3>3. QED
      BY <3>1, <3>2
  <2>2. ASSUME NEW b \in Truth
        PROVE  deleted'[b] > 0 <=> \/ phase = "freed"
                                   \/ \E k \in destroyed' \cap BoolLiteral : BoolValue[k] = b
    <3>1. CASE b = h
      <4>1. l \in BoolLiteral /\ BoolValue[l] = b
        BY <3>1, <1>3
      <4>2. QED
        BY <4>1, <3>1, <1>2, <1>4
    <3>2. CASE b # h
      <4>1. deleted'[b] = deleted[b]
        BY <3>2, <1>4
      <4>2. (\E k \in destroyed' \cap BoolLiteral : BoolValue[k] = b)
              <=> (\E k \in destroyed \cap BoolLiteral : BoolValue[k] = b)
        BY <3>2, <1>2, <1>3
      <4>3. QED
        BY <4>1, <4>2, <1>6
    <3>3. QED
      BY <3>1, <3>2
  <2>3. ASSUME NEW o \in Object \cup Truth, deleted'[o] > 1 PROVE \E k \in stray' : Held(k) = o
    <3>1. CASE o = h
      <4>1. deleted[h] # 0
        BY <3>1, <2>3, <1>4
      <4>2. l \in stray'
        BY <4>1, <1>5
      <4>3. QED
        BY <4>2, <3>1
    <3>2. CASE o # h
      BY <3>2, <2>3, <1>4, <1>5, <1>6
    <3>3. QED
      BY <3>1, <3>2
  <2>4. \A k : Held(k)' = Held(k)
    BY <1>2 DEF Held
  <2>5. QED
    BY <2>1, <2>2, <2>3, <2>4, <1>2 DEF Gone
<1>8. Asked'
  <2>1. ASSUME NEW k \in destroyed' \cap Literal PROVE k \in stray' <=> heap[literal[k]].managed
    <3>1. CASE k # l
      BY <3>1, <1>2, <1>5 DEF IInv, Ending, Asked
    <3>2. CASE k = l
      <4>1. k \in stray' <=> deleted[h] # 0
        BY <3>2, <1>2, <1>5
      <4>2. h = literal[k] /\ h \in Object
        BY <3>2, <2>1, <1>3
      <4>3. ~ \E m \in destroyed \cap Literal : literal[m] = h
        <5>1. \A m \in Literal : literal[m] = literal[k] => m = k
          BY DEF IInv, Sound, Intact
        <5>2. QED
          BY <5>1, <4>2, <3>2, <1>2
      <4>4. deleted[h] # 0 <=> phase = "freed" /\ heap[h].managed
        BY <4>2, <4>3, <1>4, <1>6
      <4>5. phase = "refused" => ~heap[h].managed
        BY <4>2 DEF IInv, Ending, NeverRan
      <4>6. QED
        BY <4>1, <4>2, <4>4, <4>5, <1>2
    <3>3. QED
      BY <3>1, <3>2
  <2>2. ASSUME phase = "freed" PROVE destroyed' \cap BoolLiteral \subseteq stray'
    <3>1. destroyed \cap BoolLiteral \subseteq stray'
      BY <2>2, <1>5 DEF IInv, Ending, Asked
    <3>2. l \in BoolLiteral => l \in stray'
      BY <2>2, <1>3, <1>4, <1>5, <1>6
    <3>3. QED
      BY <3>1, <3>2, <1>2
  <2>3. ASSUME phase = "refused", NEW k \in destroyed' \cap BoolLiteral
        PROVE  \E f \in BoolLiteral : \A m \in BoolLiteral :
                 m \in destroyed' /\ m \notin stray' /\ BoolValue[m] = BoolValue[k] <=> m = f
    <3>1. \A j \in destroyed \cap BoolLiteral : \E f \in BoolLiteral : \A m \in BoolLiteral :
            m \in destroyed /\ m \notin stray /\ BoolValue[m] = BoolValue[j] <=> m = f
      BY <2>3 DEF IInv, Ending, Asked
    <3>2. l \in BoolLiteral => (deleted[h] > 0 <=> \E j \in destroyed \cap BoolLiteral : BoolValue[j] = h)
      BY <2>3, <1>3, <1>6
    <3>3. CASE l \notin BoolLiteral \/ deleted[h] # 0
      <4>1. PICK j \in destroyed \cap BoolLiteral : BoolValue[j] = BoolValue[k]
        BY <3>2, <3>3, <1>2, <1>3, <1>4
      <4>2. PICK f \in BoolLiteral : \A m \in BoolLiteral :
              m \in destroyed /\ m \notin stray /\ BoolValue[m] = BoolValue[j] <=> m = f
        BY <3>1
      <4>3. \A m \in BoolLiteral : m \in destroyed' /\ m \notin stray' <=> m \in destroyed /\ m \notin stray
        BY <3>3, <1>2, <1>5
      <4>4. QED
        BY <4>1, <4>2, <4>3
    <3>4. CASE l \in BoolLiteral /\ deleted[h] = 0
      <4>1. stray' = stray /\ BoolValue[l] = h /\ \A j \in destroyed \cap BoolLiteral : BoolValue[j] # h
        BY <3>2, <3>4, <1>3, <1>5
      <4>2. CASE k = l
        <5>1. \A m \in BoolLiteral : m \in destroyed' /\ m \notin stray' /\ BoolValue[m] = BoolValue[k] <=> m = l
          BY <4>1, <4>2, <3>4, <1>2
        <5>2. QED
          BY <5>1, <3>4
      <4>3. CASE k # l
        <5>1. k \in destroyed \cap BoolLiteral /\ BoolValue[k] # h
          BY <4>1, <4>3, <1>2
        <5>2. PICK f \in BoolLiteral : \A m \in BoolLiteral :
                m \in destroyed /\ m \notin stray /\ BoolValue[m] = BoolValue[k] <=> m = f
          BY <5>1, <3>1
        <5>3. QED
          BY <5>1, <5>2, <4>1, <1>2
      <4>4. QED
        BY <4>2, <4>3
    <3>5. QED
      BY <3>3, <3>4
  <2>4. QED
    BY <2>1, <2>2, <2>3, <1>2 DEF Asked
<1>9. (NotYet /\ NeverRan)'
  BY <1>2 DEF IInv, Ending, NotYet, NeverRan
<1>10. Ending'
  <2>1. destroyed' \subseteq AnyLiteral /\ stray' \subseteq destroyed'
    BY <1>2, <1>5
  <2>2. phase' \in {"parsed", "refused", "running", "freed"}
    BY <1>2
  <2>3. QED
    BY <2>1, <2>2, <1>4, <1>7, <1>8, <1>9 DEF Ending
<1>11. QED
  BY <1>1, <1>10 DEF IInv

LEMMA NextInv == IInv /\ [Next]_vars => IInv'
<1> SUFFICES ASSUME IInv, [Next]_vars PROVE IInv'
  OBVIOUS
<1>1. CASE Start
  BY <1>1, StartInv
<1>2. CASE Refuse
  BY <1>2, RefuseInv
<1>3. CASE Run
  BY <1>3, RunInv
<1>4. CASE FreeHeap
  BY <1>4, FreeHeapInv
<1>5. ASSUME NEW l \in AnyLiteral, FreeLiteral(l) PROVE IInv'
  BY <1>5, FreeLiteralInv
<1>6. CASE UNCHANGED vars
  <2>1. Sound'
    BY <1>6, SameSound DEF IInv, vars
  <2>2. Ending'
    BY <1>6 DEF IInv, Ending, NotYet, NeverRan, Gone, Asked, Held, vars, program, ending
  <2>3. QED
    BY <2>1, <2>2 DEF IInv
<1>7. QED
  BY <1>1, <1>2, <1>3, <1>4, <1>5, <1>6 DEF Next

-----------------------------------------------------------------------------
(* The invariant of the objects, the loops and the end of main(). *)
THEOREM ObjectsStaySound == Spec => []IInv
<1>1. Init => IInv
  BY InitInv
<1>2. IInv /\ [Next]_vars => IInv'
  BY NextInv
<1>3. QED
  BY <1>1, <1>2, PTL DEF Spec

(* The ranges of the variables: what an operator of FrBInt stores is a machine integer. *)
THEOREM LiteralTypes == Spec => []TypeOK
<1>1. IInv => TypeOK
  <2> SUFFICES ASSUME IInv PROVE TypeOK
    OBVIOUS
  <2>1. \A k \in DOMAIN loops : var[loops[k].for.var] # Null
    BY DEF IInv, Sound, AllCount
  <2>2. heap \in [Object -> [value : Word, changed : BOOLEAN, managed : BOOLEAN]] /\ literal \in [Literal -> Object]
    BY DEF IInv, Sound, Intact, Cell
  <2>3. var \in [Var -> Object \cup {Null}] /\ loops \in Seq(Loops)
    BY DEF IInv, Sound, Collected, AllCount
  <2>4. QED
    BY <2>1, <2>2, <2>3 DEF IInv, Ending, TypeOK
<1>2. QED
  BY <1>1, ObjectsStaySound, PTL

(***************************************************************************)
(* FrBLiteralExpr::eval always yields the value of the literal, each       *)
(* object belongs to the collector or to one literal, and the end of       *)
(* main() deletes each object once, but for those whose literal asks       *)
(* isManaged() of an object that is gone.                                  *)
(***************************************************************************)
THEOREM LiteralsStayIntact == Spec => []LiteralsIntact
<1>1. IInv => LiteralKeepsValue
  BY DEF IInv, Sound, Intact, LiteralKeepsValue
<1>2. IInv => OneOwner
  <2> SUFFICES ASSUME IInv PROVE OneOwner
    OBVIOUS
  <2>1. \A v \in Var : var[v] # Null => heap[var[v]].managed
    BY DEF IInv, Sound, Collected
  <2>2. \A l \in Literal : heap[literal[l]].changed => heap[literal[l]].managed
    BY DEF IInv, Sound, Intact
  <2>3. \A k, l \in Literal : literal[k] = literal[l] => k = l
    BY DEF IInv, Sound, Intact
  <2>4. QED
    BY <2>1, <2>2, <2>3 DEF OneOwner
<1>3. IInv => DeletedOnce
  <2> SUFFICES ASSUME IInv, phase \in {"refused", "freed"}, destroyed = AnyLiteral PROVE DeletedOnce
    BY DEF DeletedOnce
  <2>1. Gone /\ Asked /\ NeverRan /\ stray \subseteq AnyLiteral
    BY DEF IInv, Ending
  <2>2. \A l \in Literal : l \in stray <=> heap[literal[l]].managed
    BY <2>1 DEF Asked, AnyLiteral
  <2>3. stray \cap Literal = {l \in Literal : heap[literal[l]].managed}
    BY <2>2
  <2>4. phase = "freed" => BoolLiteral \subseteq stray
    BY <2>1 DEF Asked, AnyLiteral
  <2>5. ASSUME phase = "refused", NEW k \in BoolLiteral
        PROVE  \E l \in BoolLiteral : {m \in BoolLiteral \ stray : BoolValue[m] = BoolValue[k]} = {l}
    <3>1. PICK l \in BoolLiteral : \A m \in BoolLiteral :
            m \in destroyed /\ m \notin stray /\ BoolValue[m] = BoolValue[k] <=> m = l
      BY <2>1, <2>5 DEF Asked, AnyLiteral
    <3>2. \A m \in BoolLiteral : m \notin stray /\ BoolValue[m] = BoolValue[k] <=> m = l
      BY <3>1 DEF AnyLiteral
    <3>3. {m \in BoolLiteral \ stray : BoolValue[m] = BoolValue[k]} = {l}
      BY <3>2
    <3>4. QED
      BY <3>3
  <2>6. ASSUME NEW o \in InUse \ {Null} PROVE deleted[o] > 0
    <3>1. CASE \E l \in Literal : o = literal[l]
      <4>1. PICK l \in Literal : o = literal[l]
        BY <3>1
      <4>2. o \in Object /\ l \in destroyed
        BY <4>1 DEF IInv, Sound, Intact, AnyLiteral
      <4>3. QED
        BY <4>1, <4>2, <2>1 DEF Gone
    <3>2. CASE \E v \in Var : o = var[v]
      <4>1. o \in Object /\ heap[o].managed
        BY <3>2 DEF IInv, Sound, Collected
      <4>2. phase = "freed"
        BY <4>1, <2>1 DEF NeverRan
      <4>3. QED
        BY <4>1, <4>2, <2>1 DEF Gone
    <3>3. QED
      BY <3>1, <3>2 DEF InUse
  <2>7. \A o \in DOMAIN deleted : deleted[o] > 1 => \E l \in stray : Held(l) = o
    <3>1. DOMAIN deleted = Object \cup Truth
      BY DEF IInv, Ending
    <3>2. QED
      BY <3>1, <2>1 DEF Gone
  <2>8. QED
    BY <2>3, <2>4, <2>5, <2>6, <2>7 DEF DeletedOnce
<1>4. IInv => LiteralsIntact
  BY <1>1, <1>2, <1>3 DEF LiteralsIntact
<1>5. QED
  BY <1>4, ObjectsStaySound, PTL

(***************************************************************************)
(* The n-th turn of FrBForLoopStatement between literals sees the first    *)
(* value plus n steps, modulo the width of an Int, and none is past the    *)
(* bound, as long as no other statement touches its variable's object.     *)
(***************************************************************************)
THEOREM LoopsCountRight == Spec => []LoopCounts
<1>1. IInv => LoopCounts
  <2> SUFFICES ASSUME IInv, NEW k \in DOMAIN loops,
                      loops[k].plain, BetweenLiterals(loops[k].for)
               PROVE  LET for == loops[k].for
                          i   == heap[var[for.var]].value
                      IN /\ i = Wrap(LitValue[for.init] + loops[k].turns * StepOf(for))
                         /\ loops[k].at = "body" =>
                              IF for.up THEN i <= LitValue[for.max] ELSE i >= LitValue[for.max]
    BY DEF LoopCounts, BetweenLiterals
  <2>1. Counts(loops[k], heap[var[loops[k].for.var]].value)
    BY DEF IInv, Sound, AllCount
  <2>2. QED
    BY <2>1 DEF Counts
<1>2. QED
  BY <1>1, ObjectsStaySound, PTL
=============================================================================
