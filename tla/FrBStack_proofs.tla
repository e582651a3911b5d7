-------------------------- MODULE FrBStack_proofs --------------------------
(***************************************************************************)
(* Proofs about the stack, for all functions, whatever their parameters    *)
(* and local variables, every limit and every growth.                      *)
(***************************************************************************)
EXTENDS FrBStack, SequenceTheorems, FiniteSetTheorems, TLAPS

(* The frames lie one above the other, from the bottom of the stack. *)
Stacked ==
  /\ \A k \in DOMAIN calls : calls[k].top >= 0
  /\ \A j, k \in DOMAIN calls : j < k => calls[j].top < Bottom(k)

(***************************************************************************)
(* HeightBounded at the time each activation in progress was entered:      *)
(* what remains true of the activations below when the running one ends.   *)
(***************************************************************************)
InitialisedBy(cs, k) == {i \in 1 .. k : cs[i].fn = Initialiser}

Limited ==
  \A k \in DOMAIN calls : \E j \in 1 .. k :
    calls[k].top <= StackLimit + FrameSize(calls[j]) + Cardinality(InitialisedBy(calls, k))

IInv == TypeOK /\ Balanced /\ InMemory /\ Stacked /\ Limited

-----------------------------------------------------------------------------
LEMMA LengthOf ==
  ASSUME NEW n \in Nat, NEW S, NEW s \in [1 .. n -> S]
  PROVE  s \in Seq(S) /\ Len(s) = n
<1>1. s \in Seq(S)
  BY SeqDef
<1>2. Len(s) \in Nat /\ 1 .. Len(s) = 1 .. n
  BY <1>1, LenProperties
<1>3. QED
  BY <1>1, <1>2

(* The sizes of the parts of a frame. *)
LEMMA Sizes ==
  ASSUME NEW f \in Code
  PROVE  Params(f) \in Nat /\ LocalVarCount(f) \in Nat
BY StackAssumption DEF Code, Params, LocalVarCount

(* check_space makes room for what is pushed and never shrinks the stack. *)
LEMMA SpaceMakesRoom ==
  ASSUME NEW top \in Int, NEW room \in Nat, NEW n \in Nat, top < room
  PROVE  /\ Space(top, room, n) \in Nat
         /\ Space(top, room, n) >= room
         /\ top + n < Space(top, room, n)
BY StackAssumption DEF Space

LEMMA GrownMakesRoom ==
  ASSUME TypeOK, InMemory, NEW n \in Nat, NEW locals \in Nat
  PROVE  /\ Grown(n, locals) \in Nat
         /\ Grown(n, locals) >= size
         /\ ptr + n + 1 + locals < Grown(n, locals)
<1> DEFINE first == Space(ptr, size, n)
           second == Space(ptr + n, first, 1)
<1>1. first \in Nat /\ first >= size /\ ptr + n < first
  BY SpaceMakesRoom DEF TypeOK, InMemory
<1>2. second \in Nat /\ second >= first /\ ptr + n + 1 < second
  BY <1>1, SpaceMakesRoom DEF TypeOK
<1>3. /\ Space(ptr + n + 1, second, locals) \in Nat
      /\ Space(ptr + n + 1, second, locals) >= second
      /\ ptr + n + 1 + locals < Space(ptr + n + 1, second, locals)
  <2>1. ptr + n + 1 \in Int /\ ptr + n + 1 < second /\ second \in Nat
    BY <1>2 DEF TypeOK
  <2> HIDE DEF second
  <2>2. QED
    BY <2>1, SpaceMakesRoom
<1>4. QED
  BY <1>1, <1>2, <1>3 DEF Grown, TypeOK

LEMMA PushedType ==
  ASSUME TypeOK, InMemory, NEW me \in Value, NEW n \in Nat,
         NEW args \in [1 .. n -> Value], NEW locals \in Nat
  PROVE  Pushed(me, args, locals) \in [0 .. Grown(n, locals) - 1 -> Value]
<1>1. Len(args) = n
  BY LengthOf
<1>2. ASSUME NEW a \in 0 .. Grown(n, locals) - 1, ptr < a, a <= ptr + n
      PROVE  args[ptr + n - a + 1] \in Value
  <2>1. ptr + n - a + 1 \in 1 .. n
    BY <1>2, GrownMakesRoom DEF TypeOK
  <2>2. QED
    BY <2>1
<1>3. ASSUME NEW a \in 0 .. Grown(n, locals) - 1 PROVE Cell(a) \in Value
  BY StackAssumption, GrownMakesRoom DEF Cell, TypeOK
<1>4. QED
  BY <1>1, <1>2, <1>3 DEF Pushed

-----------------------------------------------------------------------------
(* What entering a function, or an initialiser, does to the activations. *)
LEMMA Entered ==
  ASSUME IInv, NEW f \in Code, NEW me \in Value, NEW n \in Nat,
         NEW args \in [1 .. n -> Value], Enter(f, me, args)
  PROVE  LET call == [fn |-> f, me |-> me, args |-> args, top |-> ptr + n + 1 + LocalVarCount(f)] IN
         /\ call \in Call
         /\ Len(args) = n
         /\ calls' \in Seq(Call)
         /\ Len(calls') = Len(calls) + 1
         /\ \A k \in DOMAIN calls : calls'[k] = calls[k]
         /\ calls'[Len(calls) + 1] = call
         /\ ptr' = call.top
         /\ DOMAIN calls = 1 .. Len(calls)
         /\ DOMAIN calls' = 1 .. Len(calls) + 1
         /\ Len(calls) \in Nat
<1> DEFINE call == [fn |-> f, me |-> me, args |-> args, top |-> ptr + n + 1 + LocalVarCount(f)]
<1>1. args \in Seq(Value) /\ Len(args) = n
  BY LengthOf
<1>2. call \in Call
  BY <1>1, Sizes DEF Call, IInv, TypeOK
<1>3. calls' = Append(calls, call) /\ ptr' = call.top
  BY <1>1 DEF Enter
<1>4. calls \in Seq(Call) /\ Len(calls) \in Nat /\ DOMAIN calls = 1 .. Len(calls)
  BY LenProperties DEF IInv, TypeOK
<1> HIDE DEF call
<1>5. /\ calls' \in Seq(Call)
      /\ Len(calls') = Len(calls) + 1
      /\ \A k \in 1 .. Len(calls) : calls'[k] = calls[k]
      /\ calls'[Len(calls) + 1] = call
  BY <1>2, <1>3, <1>4
<1>6. DOMAIN calls' = 1 .. Len(calls) + 1
  BY <1>5, LenProperties
<1>7. QED
  BY <1>1, <1>2, <1>3, <1>4, <1>5, <1>6 DEF call

LEMMA CallParts ==
  ASSUME NEW call \in Call
  PROVE  call.fn \in Code /\ call.top \in Int /\ call.args \in Seq(Value) /\ Len(call.args) \in Nat
BY LenProperties DEF Call

(* The running activation is the highest one. *)
LEMMA TopIsRunning ==
  ASSUME IInv
  PROVE  /\ ptr \in Int
         /\ ptr >= -1
         /\ Bottom(Len(calls) + 1) = ptr + 1
         /\ \A k \in DOMAIN calls : calls[k] \in Call /\ calls[k].top \in Int /\ calls[k].top <= ptr
<1>1. /\ Len(calls) \in Nat /\ DOMAIN calls = 1 .. Len(calls)
      /\ \A k \in DOMAIN calls : calls[k] \in Call /\ calls[k].top \in Int
  BY LenProperties, ElementOfSeq, CallParts DEF IInv, TypeOK
<1>2. CASE calls = <<>>
  <2>1. Len(calls) = 0 /\ ptr = -1
    BY <1>2 DEF IInv, Balanced
  <2>2. QED
    BY <1>1, <2>1 DEF Bottom
<1>3. CASE calls # <<>>
  <2>1. Len(calls) >= 1
    BY <1>1, <1>3, EmptySeq DEF IInv, TypeOK
  <2>2. ptr = calls[Len(calls)].top /\ ptr >= 0
    BY <1>1, <1>3, <2>1 DEF IInv, Balanced, Stacked, Running
  <2>3. ASSUME NEW k \in 1 .. Len(calls), k < Len(calls) PROVE calls[k].top < ptr
    <3>1. calls[k].top < Bottom(Len(calls))
      BY <1>1, <2>1, <2>3 DEF IInv, Stacked
    <3>2. Bottom(Len(calls)) \in Int
      <4>1. Len(calls) - 1 \in DOMAIN calls
        BY <1>1, <2>3
      <4>2. QED
        BY <1>1, <4>1 DEF Bottom
    <3>3. calls[Len(calls)].fn \in Code /\ Len(calls[Len(calls)].args) \in Nat
      BY <1>1, <2>1, CallParts
    <3>4. calls[Len(calls)].top >= Bottom(Len(calls))
      BY <1>1, <2>1, <3>2, <3>3, Sizes DEF IInv, Balanced
    <3>5. QED
      BY <1>1, <2>1, <2>2, <3>1, <3>2, <3>4
  <2>4. \A k \in 1 .. Len(calls) : calls[k].top <= ptr
    <3> SUFFICES ASSUME NEW k \in 1 .. Len(calls) PROVE calls[k].top <= ptr
      OBVIOUS
    <3>2. CASE k < Len(calls)
      BY <1>1, <2>2, <2>3, <3>2
    <3>3. CASE k = Len(calls)
      BY <1>1, <2>2, <3>3
    <3>4. k < Len(calls) \/ k = Len(calls)
      <4>1. Len(calls) \in Nat
        BY <1>1
      <4>2. QED
        BY <4>1
    <3>5. QED
      BY <3>2, <3>3, <3>4
  <2>5. QED
    BY <1>1, <2>1, <2>2, <2>4 DEF Bottom, IInv, TypeOK
<1>4. QED
  BY <1>2, <1>3

LEMMA InitialisedFinite ==
  ASSUME NEW cs, NEW k \in Nat
  PROVE  IsFiniteSet(InitialisedBy(cs, k)) /\ Cardinality(InitialisedBy(cs, k)) \in Nat
<1>1. IsFiniteSet(1 .. k)
  BY FS_Interval
<1>2. InitialisedBy(cs, k) \in SUBSET (1 .. k)
  BY DEF InitialisedBy
<1>3. QED
  BY <1>1, <1>2, FS_Subset, FS_CardinalityType

(***************************************************************************)
(* Entering keeps the invariant, if overflow() was tested or what is       *)
(* entered is an initialiser, whose frame is one cell.                     *)
(***************************************************************************)
LEMMA EnterKeeps ==
  ASSUME IInv, NEW f \in Code, NEW me \in Value, NEW n \in Nat,
         NEW args \in [1 .. n -> Value], Enter(f, me, args),
         ~Overflow \/ (f = Initialiser /\ n = 0)
  PROVE  IInv'
<1> DEFINE top  == ptr + n + 1 + LocalVarCount(f)
           call == [fn |-> f, me |-> me, args |-> args, top |-> top]
           last == Len(calls) + 1
<1>1. /\ call \in Call /\ Len(args) = n
      /\ calls' \in Seq(Call) /\ Len(calls') = last
      /\ \A k \in DOMAIN calls : calls'[k] = calls[k]
      /\ calls'[last] = call
      /\ ptr' = top
      /\ DOMAIN calls = 1 .. last - 1
      /\ DOMAIN calls' = 1 .. last
      /\ last \in Nat /\ last >= 1
  BY Entered
<1>2. /\ ptr \in Int /\ ptr >= -1
      /\ Bottom(last) = ptr + 1
      /\ \A k \in DOMAIN calls : calls[k] \in Call /\ calls[k].top \in Int /\ calls[k].top <= ptr
  BY TopIsRunning
<1>3. /\ LocalVarCount(f) \in Nat /\ top \in Int /\ top > ptr
      /\ call.top = top /\ call.fn = f /\ call.args = args
      /\ top = ptr + n + 1 + LocalVarCount(f)
  BY <1>2, Sizes
<1> HIDE DEF last, top, call
<1>4. \A k \in 1 .. last : Bottom(k)' = Bottom(k) /\ Bottom(k) \in Int
  <2> SUFFICES ASSUME NEW k \in 1 .. last PROVE Bottom(k)' = Bottom(k) /\ Bottom(k) \in Int
    OBVIOUS
  <2>2. CASE k = 1
    BY <2>2 DEF Bottom
  <2>3. CASE k # 1
    <3>1. k - 1 \in DOMAIN calls
      BY <1>1, <2>3
    <3>2. calls'[k - 1] = calls[k - 1] /\ calls[k - 1].top \in Int
      BY <1>1, <1>2, <3>1
    <3>3. QED
      BY <2>3, <3>2 DEF Bottom
  <2>4. QED
    BY <2>2, <2>3
<1>5. TypeOK'
  <2>1. size' = Grown(n, LocalVarCount(f)) /\ mem' = Pushed(me, args, LocalVarCount(f)) /\ outcome' = outcome
    BY <1>1 DEF Enter
  <2>2. size' \in Nat /\ mem' \in [0 .. size' - 1 -> Value]
    BY <2>1, <1>3, GrownMakesRoom, PushedType DEF IInv
  <2>3. QED
    BY <1>1, <1>3, <2>1, <2>2 DEF IInv, TypeOK
<1>6. InMemory'
  BY <1>1, <1>3, GrownMakesRoom DEF IInv, InMemory, Enter
<1>7. Balanced'
  <2>1. calls' # <<>> /\ Running' = call
    BY <1>1 DEF Running
  <2>2. \A k \in DOMAIN calls : calls[k].top = Bottom(k) + Len(calls[k].args) + LocalVarCount(calls[k].fn)
    BY DEF IInv, Balanced
  <2>3. top = Bottom(last) + Len(args) + LocalVarCount(f)
    BY <1>1, <1>2, <1>3
  <2>4. \A k \in DOMAIN calls' : calls'[k].top = Bottom(k)' + Len(calls'[k].args) + LocalVarCount(calls'[k].fn)
    <3> SUFFICES ASSUME NEW k \in DOMAIN calls'
                 PROVE  calls'[k].top = Bottom(k)' + Len(calls'[k].args) + LocalVarCount(calls'[k].fn)
      OBVIOUS
    <3>1. Bottom(k)' = Bottom(k)
      BY <1>1, <1>4
    <3>2. CASE k = last
      BY <1>1, <1>3, <2>3, <3>1, <3>2
    <3>3. CASE k \in DOMAIN calls
      BY <1>1, <2>2, <3>1, <3>3
    <3>4. QED
      BY <1>1, <3>2, <3>3
  <2>5. QED
    BY <1>1, <1>3, <2>1, <2>4 DEF Balanced, LocalVarCount
<1>8. Stacked'
  <2>1. \A k \in DOMAIN calls' : calls'[k].top >= 0
    BY <1>1, <1>2, <1>3 DEF IInv, Stacked
  <2>2. ASSUME NEW j \in DOMAIN calls', NEW k \in DOMAIN calls', j < k
        PROVE  calls'[j].top < Bottom(k)'
    <3>1. j \in DOMAIN calls /\ calls'[j] = calls[j] /\ calls[j].top \in Int
      BY <1>1, <1>2, <2>2
    <3>2. CASE k = last
      BY <1>2, <1>4, <1>1, <3>1, <3>2
    <3>3. CASE k \in DOMAIN calls
      BY <1>1, <1>4, <2>2, <3>1, <3>3 DEF IInv, Stacked
    <3>4. QED
      BY <1>1, <3>2, <3>3
  <2>3. QED
    BY <2>1, <2>2 DEF Stacked
<1>9. Limited'
  <2>1. \A k \in 1 .. last - 1 : InitialisedBy(calls', k) = InitialisedBy(calls, k)
    BY <1>1 DEF InitialisedBy
  <2>2. ASSUME NEW k \in DOMAIN calls
        PROVE  \E j \in 1 .. k : calls'[k].top <= StackLimit + FrameSize(calls'[j]) + Cardinality(InitialisedBy(calls', k))
    <3>1. PICK j \in 1 .. k : calls[k].top <= StackLimit + FrameSize(calls[j]) + Cardinality(InitialisedBy(calls, k))
      BY DEF IInv, Limited
    <3>2. calls'[k] = calls[k] /\ calls'[j] = calls[j]
      BY <1>1, <3>1
    <3>3. QED
      BY <1>1, <2>1, <3>1, <3>2
  <2>3. \E j \in 1 .. last : top <= StackLimit + FrameSize(calls'[j]) + Cardinality(InitialisedBy(calls', last))
    <3>0. /\ IsFiniteSet(InitialisedBy(calls, last - 1)) /\ Cardinality(InitialisedBy(calls, last - 1)) \in Nat
          /\ StackLimit \in Nat
      <4>1. last - 1 \in Nat
        BY <1>1
      <4>2. QED
        BY <4>1, InitialisedFinite, StackAssumption
    <3>1. FrameSize(calls'[last]) = n + 1 + LocalVarCount(f)
      BY <1>1, <1>3 DEF FrameSize
    <3>2. InitialisedBy(calls', last) = IF f = Initialiser THEN InitialisedBy(calls, last - 1) \cup {last} ELSE InitialisedBy(calls, last - 1)
      <4>1. \A i \in 1 .. last - 1 : calls'[i] = calls[i]
        BY <1>1
      <4>2. calls'[last].fn = f
        BY <1>1, <1>3
      <4>3. 1 .. last = (1 .. last - 1) \cup {last}
        BY <1>1
      <4>4. CASE f = Initialiser
        BY <4>1, <4>2, <4>3, <4>4 DEF InitialisedBy
      <4>5. CASE f # Initialiser
        BY <4>1, <4>2, <4>3, <4>5 DEF InitialisedBy
      <4>6. QED
        BY <4>4, <4>5
    <3>3. last \notin InitialisedBy(calls, last - 1)
      BY <1>1 DEF InitialisedBy
    <3>4. Cardinality(InitialisedBy(calls', last)) = Cardinality(InitialisedBy(calls, last - 1)) + IF f = Initialiser THEN 1 ELSE 0
      <4>1. Cardinality(InitialisedBy(calls, last - 1) \cup {last}) = Cardinality(InitialisedBy(calls, last - 1)) + 1
        BY <3>0, <3>3, FS_AddElement
      <4>2. QED
        BY <3>0, <3>2, <4>1
    <3>5. CASE ~Overflow
      <4>1. ptr <= StackLimit
        BY <1>2, <3>0, <3>5 DEF Overflow
      <4>2. top <= StackLimit + FrameSize(calls'[last]) + Cardinality(InitialisedBy(calls', last))
        <5>1. top = ptr + n + 1 + LocalVarCount(f) /\ LocalVarCount(f) \in Nat /\ n \in Nat /\ ptr \in Int
          BY <1>2, <1>3 DEF IInv, TypeOK
        <5>2. Cardinality(InitialisedBy(calls', last)) \in Nat
          BY <3>0, <3>4
        <5>3. QED
          BY ONLY <5>1, <5>2, <3>0, <3>1, <4>1
      <4>3. QED
        BY <1>1, <4>2
    <3>6. CASE f = Initialiser /\ n = 0
      <4>1. top = ptr + 1
        BY <1>2, <1>3, <3>6 DEF LocalVarCount
      <4>2. CASE last = 1
        <5>1. ptr = -1
          BY <1>2, <4>2 DEF Bottom
        <5>2. top = 0 /\ FrameSize(calls'[last]) \in Nat /\ Cardinality(InitialisedBy(calls', last)) \in Nat
          <6>1. top = 0
            BY <4>1, <5>1
          <6>2. FrameSize(calls'[last]) \in Nat
            BY <1>3, <3>1, <3>6
          <6>3. Cardinality(InitialisedBy(calls', last)) \in Nat
            BY <3>0, <3>4
          <6>4. QED
            BY <6>1, <6>2, <6>3
        <5>3. top <= StackLimit + FrameSize(calls'[last]) + Cardinality(InitialisedBy(calls', last))
          BY <3>0, <5>2
        <5>4. QED
          BY <1>1, <5>3
      <4>3. CASE last > 1
        <5>1. last - 1 \in DOMAIN calls
          BY <1>1, <4>3
        <5>2. PICK j \in 1 .. last - 1 :
                calls[last - 1].top <= StackLimit + FrameSize(calls[j]) + Cardinality(InitialisedBy(calls, last - 1))
          BY <5>1 DEF IInv, Limited
        <5>3. calls'[j] = calls[j] /\ calls[j] \in Call
          BY <1>1, <1>2, <5>2
        <5>4. FrameSize(calls[j]) \in Nat
          BY <5>3, Sizes, LenProperties DEF FrameSize, Call
        <5>5. calls[last - 1].top = ptr
          BY <1>1, <1>2, <4>3, <5>1 DEF Bottom
        <5>6. top <= StackLimit + FrameSize(calls'[j]) + Cardinality(InitialisedBy(calls', last))
          BY <1>2, <3>0, <3>4, <3>6, <4>1, <5>2, <5>3, <5>4, <5>5
        <5>7. QED
          BY <1>1, <5>2, <5>6
      <4>4. QED
        BY <1>1, <4>2, <4>3
    <3>7. QED
      BY <3>5, <3>6
  <2>4. calls'[last].top = top /\ \A k \in DOMAIN calls' : k = last \/ k \in DOMAIN calls
    BY <1>1, <1>3
  <2>5. ASSUME NEW k \in DOMAIN calls'
        PROVE  \E j \in 1 .. k : calls'[k].top <= StackLimit + FrameSize(calls'[j]) + Cardinality(InitialisedBy(calls', k))
    BY <2>2, <2>3, <2>4
  <2>6. QED
    BY <2>5 DEF Limited, FrameSize
<1>10. QED
  BY <1>5, <1>6, <1>7, <1>8, <1>9 DEF IInv

-----------------------------------------------------------------------------
(* The cells of a frame go with its activation. *)
LEMMA ReturnKeeps ==
  ASSUME IInv, Return
  PROVE  IInv'
<1> DEFINE n == Len(calls) - 1
<1>1. /\ Len(calls) \in Nat /\ DOMAIN calls = 1 .. Len(calls)
      /\ \A k \in DOMAIN calls : calls[k] \in Call /\ calls[k].top \in Int
  BY LenProperties, ElementOfSeq, CallParts DEF IInv, TypeOK
<1>2. calls # <<>> /\ Len(calls) >= 1 /\ n \in Nat
  BY <1>1, EmptySeq DEF IInv, TypeOK, Return
<1>3. /\ calls' \in Seq(Call)
      /\ Len(calls') = n
      /\ DOMAIN calls' = 1 .. n
      /\ \A k \in 1 .. n : calls'[k] = calls[k] /\ k \in DOMAIN calls
  <2>1. calls' = SubSeq(calls, 1, n)
    BY DEF Return
  <2>2. \A k \in 1 .. n : calls[k] \in Call
    BY <1>1, <1>2
  <2>3. calls' \in Seq(Call) /\ Len(calls') = n /\ \A k \in 1 .. n : calls'[k] = calls[k]
    <3> HIDE DEF n
    <3>1. /\ SubSeq(calls, 1, n) \in Seq(Call)
          /\ Len(SubSeq(calls, 1, n)) = IF 1 <= n THEN n - 1 + 1 ELSE 0
          /\ \A i \in 1 .. n - 1 + 1 : SubSeq(calls, 1, n)[i] = calls[1 + i - 1]
      BY <1>2, <2>2, SubSeqProperties
    <3>2. n - 1 + 1 = n /\ \A i \in 1 .. n : 1 + i - 1 = i
      BY <1>2
    <3>3. QED
      BY <1>2, <2>1, <3>1, <3>2
  <2>4. QED
    BY <1>1, <1>2, <2>3, LenProperties
<1>4. ptr' = IF n = 0 THEN -1 ELSE calls[n].top
  <2>1. ptr = Running.top /\ Running \in Call
    BY <1>1, <1>2 DEF IInv, Balanced, Running
  <2>2. Running.top = Bottom(Len(calls)) + Len(Running.args) + LocalVarCount(Running.fn)
    BY <1>1, <1>2 DEF IInv, Balanced, Running
  <2>3. Len(Running.args) \in Nat /\ LocalVarCount(Running.fn) \in Nat
    BY <2>1, CallParts, Sizes
  <2>4. Bottom(Len(calls)) \in Int /\ Bottom(Len(calls)) - 1 = IF n = 0 THEN -1 ELSE calls[n].top
    <3>1. CASE n = 0
      BY <1>1, <3>1 DEF Bottom
    <3>2. CASE n # 0
      <4>1. n \in DOMAIN calls
        BY <1>1, <1>2, <3>2
      <4>2. calls[n].top \in Int
        BY <1>1, <4>1
      <4>3. QED
        BY <1>1, <3>2, <4>2 DEF Bottom
    <3>3. QED
      BY <3>1, <3>2
  <2>5. QED
    BY <2>1, <2>2, <2>3, <2>4 DEF Return
<1> HIDE DEF n
<1>5. \A k \in 1 .. n : Bottom(k)' = Bottom(k)
  <2> SUFFICES ASSUME NEW k \in 1 .. n PROVE Bottom(k)' = Bottom(k)
    OBVIOUS
  <2>1. CASE k = 1
    BY <2>1 DEF Bottom
  <2>2. CASE k # 1
    <3>1. k - 1 \in 1 .. n
      BY <1>2, <2>2
    <3>2. QED
      BY <1>3, <2>2, <3>1 DEF Bottom
  <2>3. QED
    BY <2>1, <2>2
<1>6. TypeOK'
  <2>1. ptr' \in Int
    BY <1>1, <1>2, <1>3, <1>4
  <2>2. QED
    BY <1>3, <2>1 DEF IInv, TypeOK, Return
<1>7. InMemory'
  <2>1. size' = size /\ size \in Nat /\ ptr < size
    BY DEF IInv, TypeOK, InMemory, Return
  <2>2. CASE n = 0
    BY <1>4, <2>1, <2>2 DEF InMemory
  <2>3. CASE n # 0
    <3>1. n \in DOMAIN calls
      BY <1>2, <1>3, <2>3
    <3>2. calls[n].top \in Int /\ calls[n].top <= ptr /\ ptr \in Int
      BY <3>1, TopIsRunning
    <3>3. QED
      BY <1>4, <2>1, <2>3, <3>2 DEF InMemory
  <2>4. QED
    BY <2>2, <2>3
<1>8. Balanced'
  <2>1. ptr' = IF calls' = <<>> THEN -1 ELSE calls'[Len(calls')].top
    <3>1. CASE n = 0
      BY <1>3, <1>4, <3>1, EmptySeq
    <3>2. CASE n # 0
      <4>1. calls' # <<>>
        BY <1>3, <3>2, EmptySeq
      <4>2. n \in 1 .. n
        BY <1>2, <3>2
      <4>3. QED
        BY <1>3, <1>4, <3>2, <4>1, <4>2
    <3>3. QED
      BY <3>1, <3>2
  <2>2. ASSUME NEW k \in 1 .. n
        PROVE  calls'[k].top = Bottom(k)' + Len(calls'[k].args) + LocalVarCount(calls'[k].fn)
    BY <1>3, <1>5 DEF IInv, Balanced
  <2>3. QED
    BY <1>3, <2>1, <2>2 DEF Balanced, Running, LocalVarCount
<1>9. Stacked'
  <2>1. \A k \in 1 .. n : calls'[k].top >= 0
    BY <1>3 DEF IInv, Stacked
  <2>2. ASSUME NEW j \in 1 .. n, NEW k \in 1 .. n, j < k
        PROVE  calls'[j].top < Bottom(k)'
    BY <1>3, <1>5, <2>2 DEF IInv, Stacked
  <2>3. QED
    BY <1>3, <2>1, <2>2 DEF Stacked
<1>10. Limited'
  <2>1. ASSUME NEW k \in 1 .. n
        PROVE  \E j \in 1 .. k : calls'[k].top <= StackLimit + FrameSize(calls'[j]) + Cardinality(InitialisedBy(calls', k))
    <3>1. PICK j \in 1 .. k : calls[k].top <= StackLimit + FrameSize(calls[j]) + Cardinality(InitialisedBy(calls, k))
      BY <1>3 DEF IInv, Limited
    <3>2. \A i \in 1 .. k : i \in 1 .. n
      BY <1>2
    <3>3. InitialisedBy(calls', k) = InitialisedBy(calls, k)
      BY <1>3, <3>2 DEF InitialisedBy
    <3>4. QED
      BY <1>3, <3>1, <3>2, <3>3
  <2>2. QED
    BY <1>3, <2>1 DEF Limited, FrameSize
<1>11. QED
  BY <1>6, <1>7, <1>8, <1>9, <1>10 DEF IInv

(* A step that leaves the activations and the size of the stack alone. *)
LEMMA OthersKeep ==
  ASSUME IInv, UNCHANGED <<size, ptr, calls>>, mem' \in [0 .. size - 1 -> Value],
         outcome' \in {"runs", "thrown", "undefined"}
  PROVE  IInv'
<1>1. TypeOK'
  BY DEF IInv, TypeOK
<1>2. QED
  BY <1>1 DEF IInv, Balanced, InMemory, Stacked, Limited, Bottom, Running, LocalVarCount, FrameSize, InitialisedBy

LEMMA AssignKeeps ==
  ASSUME IInv, NEW v, NEW value \in Value, Assign(v, value)
  PROVE  IInv'
<1>1. mem' \in [0 .. size - 1 -> Value]
  BY DEF IInv, TypeOK, Assign
<1>2. outcome' \in {"runs", "thrown", "undefined"} /\ UNCHANGED <<size, ptr, calls>>
  BY DEF IInv, TypeOK, Assign
<1>3. QED
  BY <1>1, <1>2, OthersKeep

(***************************************************************************)
(* The stack of FrBMemStack is cut into the frames of the calls in         *)
(* progress, within its cells and above the limit by one frame and the     *)
(* objects under initialisation at most: whatever is called, assigned,     *)
(* returned from or thrown.                                                *)
(***************************************************************************)
THEOREM StackConsistent == Spec => []IInv
<1>1. ASSUME Init PROVE IInv
  <2>1. calls = <<>> /\ calls \in Seq(Call) /\ DOMAIN calls = {} /\ ptr = -1 /\ size = ResStep /\ outcome = "runs"
    BY EmptySeq, <1>1 DEF Init
  <2>2. ResStep \in Nat /\ mem \in [0 .. ResStep - 1 -> Value]
    BY StackAssumption, <1>1 DEF Init
  <2>3. QED
    BY <2>1, <2>2 DEF IInv, TypeOK, Balanced, InMemory, Stacked, Limited
<1>2. ASSUME IInv, [Next]_vars PROVE IInv'
  <2>1. ASSUME NEW f \in Function, NEW me \in Value, NEW n \in 0 .. MaxArguments,
               NEW args \in [1 .. n -> Value], Execute(f, me, args)
        PROVE  IInv'
    BY <1>2, <2>1, EnterKeeps DEF Execute, Code
  <2>2. ASSUME NEW me \in Value, InitInstance(me)
        PROVE  IInv'
    <3>1. <<>> \in [1 .. 0 -> Value]
      OBVIOUS
    <3>2. QED
      BY <1>2, <2>2, <3>1, EnterKeeps DEF InitInstance, Code
  <2>3. ASSUME NEW v, NEW value \in Value, Assign(v, value)
        PROVE  IInv'
    BY <1>2, <2>3, AssignKeeps
  <2>4. CASE Return
    BY <1>2, <2>4, ReturnKeeps
  <2>5. CASE Throw
    BY <1>2, <2>5, OthersKeep DEF Throw, IInv, TypeOK
  <2>6. CASE UNCHANGED vars
    BY <1>2, <2>6, OthersKeep DEF vars, IInv, TypeOK
  <2>7. QED
    BY <1>2, <2>1, <2>2, <2>3, <2>4, <2>5, <2>6 DEF Next
<1>3. QED
  BY <1>1, <1>2, PTL DEF Spec

(***************************************************************************)
(* Nothing is left on the stack of the activations that ended, whether by  *)
(* a Return or after their last statement: the top is the running one's.   *)
(***************************************************************************)
THEOREM FramesBalanced == Spec => []Balanced
<1>1. IInv => Balanced
  BY DEF IInv
<1>2. QED
  BY <1>1, StackConsistent, PTL

(***************************************************************************)
(* check_space is called often enough: no push is beyond the cells.        *)
(***************************************************************************)
THEOREM StaysInMemory == Spec => []InMemory
<1>1. IInv => InMemory
  BY DEF IInv
<1>2. QED
  BY <1>1, StackConsistent, PTL

(***************************************************************************)
(* The variables keep their types.                                         *)
(***************************************************************************)
THEOREM StackTypes == Spec => []TypeOK
<1>1. IInv => TypeOK
  BY DEF IInv
<1>2. QED
  BY <1>1, StackConsistent, PTL

(***************************************************************************)
(* The overflow test of execute bounds the stack.                          *)
(***************************************************************************)
THEOREM OverflowBounds == Spec => []HeightBounded
<1>1. ASSUME IInv PROVE HeightBounded
  <2>1. CASE calls # <<>>
    <3>1. Len(calls) \in Nat /\ Len(calls) >= 1 /\ DOMAIN calls = 1 .. Len(calls)
      BY <1>1, <2>1, EmptySeq, LenProperties DEF IInv, TypeOK
    <3>2. InitialisedBy(calls, Len(calls)) = Initialisations
      BY <3>1 DEF InitialisedBy, Initialisations
    <3>3. ptr = calls[Len(calls)].top
      BY <1>1, <2>1 DEF IInv, Balanced, Running
    <3>4. QED
      BY <1>1, <3>1, <3>2, <3>3 DEF IInv, Limited, HeightBounded
  <2>2. QED
    BY <2>1 DEF HeightBounded
<1>2. QED
  BY <1>1, StackConsistent, PTL

(***************************************************************************)
(* The three facts about the frames, together.                             *)
(***************************************************************************)
THEOREM FramesStaySound == Spec => []FramesSound
<1>1. Balanced /\ InMemory /\ HeightBounded => FramesSound
  BY DEF FramesSound
<1>2. QED
  BY <1>1, FramesBalanced, StaysInMemory, OverflowBounds, PTL

-----------------------------------------------------------------------------
(* No parameter may be omitted: then a call has an argument for each. *)
AllArguments == ParamArray = {} /\ \A f \in Function : FirstOptional[f] = -1

Full == \A k \in DOMAIN calls : Len(calls[k].args) = Params(calls[k].fn)

FInv == IInv /\ Full

LEMMA FullStays ==
  ASSUME AllArguments, FInv, [Next]_vars, IInv'
  PROVE  FInv'
<1>1. ASSUME NEW f \in Code, NEW me \in Value, NEW n \in Nat,
             NEW args \in [1 .. n -> Value], Enter(f, me, args), n = Params(f)
      PROVE  Full'
  <2>1. /\ DOMAIN calls = 1 .. Len(calls) /\ DOMAIN calls' = 1 .. Len(calls) + 1 /\ Len(calls) \in Nat
        /\ \A k \in DOMAIN calls : calls'[k] = calls[k]
        /\ calls'[Len(calls) + 1].fn = f /\ calls'[Len(calls) + 1].args = args
        /\ Len(args) = n
    <3> DEFINE call == [fn |-> f, me |-> me, args |-> args, top |-> ptr + n + 1 + LocalVarCount(f)]
    <3>1. /\ DOMAIN calls = 1 .. Len(calls) /\ DOMAIN calls' = 1 .. Len(calls) + 1 /\ Len(calls) \in Nat
          /\ \A k \in DOMAIN calls : calls'[k] = calls[k]
          /\ calls'[Len(calls) + 1] = call
          /\ Len(args) = n
      BY <1>1, Entered DEF FInv
    <3>2. call.fn = f /\ call.args = args
      OBVIOUS
    <3> HIDE DEF call
    <3>3. QED
      BY <3>1, <3>2
  <2>2. ASSUME NEW k \in DOMAIN calls' PROVE Len(calls'[k].args) = Params(calls'[k].fn)
    <3>1. CASE k = Len(calls) + 1
      BY <1>1, <2>1, <3>1
    <3>2. CASE k \in DOMAIN calls
      BY <2>1, <3>2 DEF FInv, Full
    <3>3. QED
      BY <2>1, <3>1, <3>2
  <2>3. QED
    BY <2>2 DEF Full, Params
<1>2. ASSUME NEW f \in Function, NEW me \in Value, NEW n \in 0 .. MaxArguments, Accepts(f, n),
             NEW args \in [1 .. n -> Value], Execute(f, me, args)
      PROVE  Full'
  <2>1. n = Params(f)
    BY <1>2, Sizes, StackAssumption DEF AllArguments, Accepts, Code
  <2>2. QED
    BY <1>1, <1>2, <2>1 DEF Execute, Code
<1>3. ASSUME NEW me \in Value, InitInstance(me)
      PROVE  Full'
  <2>1. <<>> \in [1 .. 0 -> Value] /\ Params(Initialiser) = 0
    BY DEF Params
  <2>2. Enter(Initialiser, me, <<>>) /\ Initialiser \in Code /\ 0 \in Nat
    BY <1>3 DEF InitInstance, Code
  <2>3. QED
    BY <1>1, <2>1, <2>2
<1>4. CASE Return
  <2>1. /\ Len(calls) \in Nat /\ DOMAIN calls = 1 .. Len(calls)
        /\ \A k \in DOMAIN calls : calls[k] \in Call
        /\ Len(calls) >= 1
    BY <1>4, LenProperties, ElementOfSeq, EmptySeq DEF FInv, IInv, TypeOK, Return
  <2>2. calls' = SubSeq(calls, 1, Len(calls) - 1)
    BY <1>4 DEF Return
  <2>3. DOMAIN calls' \subseteq DOMAIN calls /\ \A k \in DOMAIN calls' : calls'[k] = calls[k]
    BY <2>1, <2>2
  <2>4. QED
    BY <2>3 DEF FInv, Full, Params
<1>5. CASE UNCHANGED calls
  BY <1>5 DEF FInv, Full, Params
<1>6. QED
  BY <1>2, <1>3, <1>4, <1>5 DEF FInv, Next, Assign, Throw, vars

(* The distances of the variables of a function are those of its frame, each its own. *)
LEMMA DistanceInFrame ==
  ASSUME NEW f \in Code, NEW v \in Variables(f)
  PROVE  Distance(f, v) \in 0 .. Params(f) + LocalVarCount(f)
BY Sizes DEF Variables, Me, Parameters, Locals, Distance

LEMMA DistanceIsOwn ==
  ASSUME NEW f \in Code, NEW v \in Variables(f), NEW w \in Variables(f), Distance(f, v) = Distance(f, w)
  PROVE  v = w
BY Sizes DEF Variables, Me, Parameters, Locals, Distance

(* The cell of a variable lies in the frame of its activation. *)
LEMMA CellInFrame ==
  ASSUME FInv, NEW k \in DOMAIN calls, NEW v \in Variables(calls[k].fn)
  PROVE  LET a == calls[k].top - Distance(calls[k].fn, v) IN
         /\ a \in Int /\ a >= 0 /\ a < size /\ a <= ptr
         /\ Bottom(k) \in Int /\ Bottom(k) <= a /\ a <= calls[k].top
<1>1. calls[k] \in Call /\ calls[k].top \in Int /\ calls[k].top <= ptr /\ ptr \in Int
  BY TopIsRunning DEF FInv
<1>2. calls[k].fn \in Code /\ Params(calls[k].fn) \in Nat /\ LocalVarCount(calls[k].fn) \in Nat
  BY <1>1, CallParts, Sizes
<1>3. calls[k].top = Bottom(k) + Params(calls[k].fn) + LocalVarCount(calls[k].fn)
  BY DEF FInv, IInv, Balanced, Full
<1>4. Bottom(k) \in Int /\ Bottom(k) >= 0
  <2>1. CASE k = 1
    BY <2>1 DEF Bottom
  <2>2. CASE k # 1
    <3>1. Len(calls) \in Nat /\ DOMAIN calls = 1 .. Len(calls)
      BY LenProperties DEF FInv, IInv, TypeOK
    <3>2. k - 1 \in DOMAIN calls
      BY <2>2, <3>1
    <3>3. calls[k - 1].top \in Int /\ calls[k - 1].top >= 0
      BY <3>2, TopIsRunning DEF FInv, IInv, Stacked
    <3>4. QED
      BY <2>2, <3>3 DEF Bottom
  <2>3. QED
    BY <2>1, <2>2
<1>5. Distance(calls[k].fn, v) \in 0 .. Params(calls[k].fn) + LocalVarCount(calls[k].fn)
  BY <1>2, DistanceInFrame
<1>6. size \in Nat /\ ptr < size
  BY DEF FInv, IInv, TypeOK, InMemory
<1>7. QED
  BY <1>1, <1>2, <1>3, <1>4, <1>5, <1>6

-----------------------------------------------------------------------------
(* The activations the stack stands for, as a sequence: what the cells of m give a call. *)
Seen(m, call) ==
  [fn |-> call.fn, me |-> call.me, args |-> call.args,
   vars |-> [v \in Variables(call.fn) |-> m[call.top - Distance(call.fn, v)]]]

AllSeen(m, cs) == [k \in DOMAIN cs |-> Seen(m, cs[k])]

Acts == [k \in DOMAIN calls |-> ActivationOf(calls[k])]

LEMMA ActsOf ==
  ASSUME NEW m, NEW cs \in Seq(Call)
  PROVE  /\ Len(cs) \in Nat /\ DOMAIN cs = 1 .. Len(cs)
         /\ Len(AllSeen(m, cs)) = Len(cs)
         /\ AllSeen(m, cs) \in Seq({Seen(m, cs[k]) : k \in DOMAIN cs})
         /\ \A k \in 1 .. Len(cs) : AllSeen(m, cs)[k] = Seen(m, cs[k])
<1> DEFINE S    == {Seen(m, cs[k]) : k \in DOMAIN cs}
           acts == AllSeen(m, cs)
<1>1. Len(cs) \in Nat /\ DOMAIN cs = 1 .. Len(cs)
  BY LenProperties
<1>2. acts \in [1 .. Len(cs) -> S]
  BY <1>1 DEF AllSeen
<1>3. \A k \in 1 .. Len(cs) : acts[k] = Seen(m, cs[k])
  BY <1>1 DEF AllSeen
<1> HIDE DEF S, acts
<1>4. acts \in Seq(S) /\ Len(acts) = Len(cs)
  BY <1>1, <1>2, LengthOf
<1>5. QED
  BY <1>1, <1>3, <1>4 DEF acts, S

LEMMA ActsAreSeen ==
  Acts = AllSeen(mem, calls) /\ Acts' = AllSeen(mem', calls')
BY DEF Acts, AllSeen, ActivationOf, VarsOf, Seen, Variables, Me, Parameters, Locals, Distance, Params, LocalVarCount

(* The activations now, and after a step. *)
LEMMA ActsNow ==
  ASSUME calls \in Seq(Call)
  PROVE  /\ Len(Acts) = Len(calls) /\ Acts \in Seq({Seen(mem, calls[k]) : k \in DOMAIN calls})
         /\ \A k \in 1 .. Len(calls) : Acts[k] = Seen(mem, calls[k])
BY ActsOf, ActsAreSeen

LEMMA ActsNext ==
  ASSUME calls' \in Seq(Call)
  PROVE  /\ Len(Acts') = Len(calls') /\ Acts' \in Seq({Seen(mem', calls'[k]) : k \in DOMAIN calls'})
         /\ \A k \in 1 .. Len(calls') : Acts'[k] = Seen(mem', calls'[k])
BY ActsOf, ActsAreSeen

(* An activation is seen alike by two storages that agree on its cells. *)
LEMMA SeenAlike ==
  ASSUME NEW m1, NEW m2, NEW call,
         \A v \in Variables(call.fn) : m1[call.top - Distance(call.fn, v)] = m2[call.top - Distance(call.fn, v)]
  PROVE  Seen(m1, call) = Seen(m2, call)
BY DEF Seen

(* Two sequences that agree at each place are one. *)
LEMMA SameActs ==
  ASSUME NEW S, NEW s \in Seq(S), NEW T, NEW t \in Seq(T), Len(s) = Len(t), \A k \in 1 .. Len(s) : s[k] = t[k]
  PROVE  s = t
<1>1. DOMAIN s = 1 .. Len(s) /\ DOMAIN t = 1 .. Len(t) /\ s = [k \in DOMAIN s |-> s[k]] /\ t = [k \in DOMAIN t |-> t[k]]
  BY LenProperties
<1>2. QED
  BY <1>1

-----------------------------------------------------------------------------
(* A call leaves the activations below alone, and binds what it should. *)
LEMMA EnterIsCall ==
  ASSUME FInv, NEW f \in Code, NEW me \in Value, NEW n \in Nat,
         NEW args \in [1 .. n -> Value], Enter(f, me, args), n = Params(f)
  PROVE  Activations!Call
<1> DEFINE call == [fn |-> f, me |-> me, args |-> args, top |-> ptr + n + 1 + LocalVarCount(f)]
           last == Len(calls) + 1
           L    == LocalVarCount(f)
<1>1. /\ call \in Call /\ Len(args) = n
      /\ calls' \in Seq(Call) /\ Len(calls') = last
      /\ \A k \in DOMAIN calls : calls'[k] = calls[k]
      /\ calls'[last] = call
      /\ DOMAIN calls = 1 .. last - 1
      /\ DOMAIN calls' = 1 .. last
      /\ last \in Nat /\ last >= 1
  BY Entered DEF FInv
<1>2. /\ call.fn = f /\ call.me = me /\ call.args = args /\ call.top = ptr + n + 1 + L
      /\ ptr \in Int /\ L \in Nat /\ ptr >= -1
  BY Sizes, TopIsRunning DEF FInv, IInv, TypeOK
<1>3. mem' = Pushed(me, args, L) /\ size \in Nat /\ Grown(n, L) \in Nat
      /\ Grown(n, L) >= size /\ ptr + n + 1 + L < Grown(n, L)
  BY <1>1, <1>2, GrownMakesRoom DEF FInv, IInv, TypeOK, Enter
<1> HIDE DEF call, last, L
<1>4. \A a \in 0 .. Grown(n, L) - 1 :
        mem'[a] = IF ptr < a /\ a <= ptr + n THEN args[ptr + n - a + 1]
                  ELSE IF a = ptr + n + 1 THEN me ELSE Cell(a)
  BY <1>1, <1>3 DEF Pushed
<1>5. ASSUME NEW k \in DOMAIN calls PROVE Seen(mem', calls'[k]) = Seen(mem, calls[k])
  <2>1. ASSUME NEW v \in Variables(calls[k].fn)
        PROVE  mem'[calls[k].top - Distance(calls[k].fn, v)] = mem[calls[k].top - Distance(calls[k].fn, v)]
    <3> DEFINE a == calls[k].top - Distance(calls[k].fn, v)
    <3>1. a \in Int /\ a >= 0 /\ a < size /\ a <= ptr
      BY CellInFrame
    <3> HIDE DEF a
    <3>2. a \in 0 .. Grown(n, L) - 1 /\ ~(ptr < a) /\ a # ptr + n + 1
      BY <1>2, <1>3, <3>1
    <3>3. mem'[a] = Cell(a) /\ Cell(a) = mem[a]
      BY <1>4, <3>1, <3>2 DEF Cell
    <3>4. QED
      BY <3>3 DEF a
  <2>2. QED
    BY <1>1, <2>1, SeenAlike
<1>6. Activations!Bound(Seen(mem', call))
  <2>1. mem'[call.top - Distance(f, Me)] = me
    <3>1. call.top - Distance(f, Me) = ptr + n + 1
      BY <1>2 DEF Distance, Me, L
    <3>2. ptr + n + 1 \in 0 .. Grown(n, L) - 1 /\ ~(ptr + n + 1 <= ptr + n)
      BY <1>2, <1>3
    <3>3. mem'[ptr + n + 1] = me
      BY <1>4, <3>2
    <3>4. QED
      BY <3>1, <3>3
  <2>2. ASSUME NEW v \in Parameters(f)
        PROVE  mem'[call.top - Distance(f, v)] = args[v[2] + 1] /\ v[2] < Len(args)
    <3>1. v[1] = "param" /\ v[2] \in 0 .. n - 1
      BY DEF Parameters
    <3>2. call.top - Distance(f, v) = ptr + n - v[2]
      BY <1>2, <3>1 DEF Distance, L
    <3>3. /\ ptr + n - v[2] \in 0 .. Grown(n, L) - 1
          /\ ptr < ptr + n - v[2] /\ ptr + n - v[2] <= ptr + n
          /\ ptr + n - (ptr + n - v[2]) + 1 = v[2] + 1
      <4> DEFINE i == v[2]
      <4>1. i \in Int /\ 0 <= i /\ i <= n - 1
        BY <3>1
      <4> HIDE DEF i
      <4>2. /\ ptr + n - i \in 0 .. Grown(n, L) - 1
            /\ ptr < ptr + n - i /\ ptr + n - i <= ptr + n
            /\ ptr + n - (ptr + n - i) + 1 = i + 1
        <5>1. n \in Nat /\ ptr \in Int /\ ptr >= -1 /\ Grown(n, L) \in Nat
          BY <1>2, <1>3
        <5>2. ptr + n + 1 + L < Grown(n, L) /\ L \in Nat
          BY <1>2, <1>3
        <5>3. QED
          BY ONLY <5>1, <5>2, <4>1
      <4>3. QED
        BY <4>2 DEF i
    <3>4. mem'[ptr + n - v[2]] = args[v[2] + 1]
      BY <1>4, <3>3
    <3>5. QED
      BY <1>1, <3>1, <3>2, <3>4
  <2>3. QED
    BY <1>2, <2>1, <2>2 DEF Activations!Bound, Activations!Variables, Activations!Me, Seen, Variables, Me
<1>7. /\ Len(Acts') = Len(Acts) + 1
      /\ Len(Acts) = last - 1
      /\ Acts'[last] = Seen(mem', call)
      /\ \A k \in 1 .. last - 1 : Acts'[k] = Acts[k]
      /\ Acts \in Seq({Seen(mem, calls[k]) : k \in DOMAIN calls})
      /\ Acts' \in Seq({Seen(mem', calls'[k]) : k \in DOMAIN calls'})
  <2>1. calls \in Seq(Call) /\ Len(calls) = last - 1
    BY <1>1 DEF FInv, IInv, TypeOK, last
  <2>2. /\ Len(Acts) = Len(calls) /\ Acts \in Seq({Seen(mem, calls[k]) : k \in DOMAIN calls})
        /\ \A k \in 1 .. Len(calls) : Acts[k] = Seen(mem, calls[k])
    BY <2>1, ActsNow
  <2>3. /\ Len(Acts') = Len(calls') /\ Acts' \in Seq({Seen(mem', calls'[k]) : k \in DOMAIN calls'})
        /\ \A k \in 1 .. Len(calls') : Acts'[k] = Seen(mem', calls'[k])
    BY <1>1, ActsNext
  <2>4. Len(Acts') = last /\ Acts'[last] = Seen(mem', call)
    <3>1. last \in 1 .. Len(calls')
      BY <1>1
    <3>2. QED
      BY <1>1, <2>3, <3>1
  <2>5. \A k \in 1 .. last - 1 : Acts'[k] = Acts[k]
    <3> SUFFICES ASSUME NEW k \in 1 .. last - 1 PROVE Acts'[k] = Acts[k]
      OBVIOUS
    <3>1. k \in DOMAIN calls /\ k \in 1 .. Len(calls) /\ k \in 1 .. Len(calls')
      BY <1>1, <2>1
    <3>2. Acts'[k] = Seen(mem', calls'[k]) /\ Acts[k] = Seen(mem, calls[k])
      BY <2>2, <2>3, <3>1
    <3>3. QED
      BY <1>5, <3>1, <3>2
  <2>6. QED
    BY <1>1, <2>1, <2>2, <2>3, <2>4, <2>5
<1>8. SubSeq(Acts', 1, Len(Acts)) = Acts
  <2>1. \A k \in 1 .. last - 1 : Acts'[k] \in {Seen(mem', calls'[i]) : i \in DOMAIN calls'}
    BY <1>1, <1>7, ElementOfSeq
  <2>2. /\ SubSeq(Acts', 1, last - 1) \in Seq({Seen(mem', calls'[i]) : i \in DOMAIN calls'})
        /\ Len(SubSeq(Acts', 1, last - 1)) = last - 1
        /\ \A k \in 1 .. last - 1 : SubSeq(Acts', 1, last - 1)[k] = Acts'[k]
    BY <1>1, <2>1, SubSeqProperties
  <2>3. QED
    BY <1>7, <2>2, SameActs
<1>9. /\ Len(Acts') = Len(Acts) + 1
      /\ SubSeq(Acts', 1, Len(Acts)) = Acts
      /\ Activations!Bound(Acts'[Len(Acts) + 1])
  <2>1. Acts'[Len(Acts) + 1] = Acts'[last]
    BY <1>1, <1>7
  <2>2. QED
    BY <1>6, <1>7, <1>8, <2>1
<1>10. QED
  BY <1>9 DEF Activations!Call, Acts

Written(activation, v, value) == [activation EXCEPT !.vars[v] = value]

(* Writing one cell changes one variable of one activation, if no other has that cell. *)
LEMMA SeenExcept ==
  ASSUME NEW m1, NEW m2, NEW call, NEW v \in Variables(call.fn),
         \A w \in Variables(call.fn) :
           w # v => m1[call.top - Distance(call.fn, w)] = m2[call.top - Distance(call.fn, w)]
  PROVE  Seen(m2, call) = Written(Seen(m1, call), v, Seen(m2, call).vars[v])
<1> DEFINE V == Variables(call.fn)
           cell(w) == call.top - Distance(call.fn, w)
<1>1. [w \in V |-> m2[cell(w)]] = [[w \in V |-> m1[cell(w)]] EXCEPT ![v] = [w \in V |-> m2[cell(w)]][v]]
  BY Zenon
<1>2. Seen(m1, call).vars = [w \in V |-> m1[cell(w)]] /\ Seen(m2, call).vars = [w \in V |-> m2[cell(w)]]
  BY DEF Seen
<1>3. Seen(m2, call) = [Seen(m1, call) EXCEPT !.vars = Seen(m2, call).vars]
  <2> DEFINE p == [w \in V |-> m1[cell(w)]]
             q == [w \in V |-> m2[cell(w)]]
             r(u) == [fn |-> call.fn, me |-> call.me, args |-> call.args, vars |-> u]
  <2>1. Seen(m1, call) = r(p) /\ Seen(m2, call) = r(q)
    BY DEF Seen
  <2> HIDE DEF p, q
  <2>2. r(q) = [r(p) EXCEPT !.vars = q] /\ r(q).vars = q
    OBVIOUS
  <2>3. QED
    BY <2>1, <2>2
<1> HIDE DEF V, cell
<1>4. QED
  BY <1>1, <1>2, <1>3 DEF Written

LEMMA AssignIsAssign ==
  ASSUME FInv, calls # <<>>, NEW v \in Variables(Running.fn) \ {Me}, NEW value \in Value, Assign(v, value)
  PROVE  Activations!Assign
<1> DEFINE last == Len(calls)
           run  == calls[last]
           a    == ptr - Distance(run.fn, v)
<1>1. /\ calls \in Seq(Call) /\ last \in Nat /\ DOMAIN calls = 1 .. last /\ last >= 1
      /\ last \in DOMAIN calls
  BY LenProperties, EmptySeq DEF FInv, IInv, TypeOK
<1>2. Running = run /\ run.top = ptr /\ v \in Variables(run.fn) /\ v # Me
  BY DEF Running, FInv, IInv, Balanced
<1>3. a \in Int /\ a >= 0 /\ a < size /\ Bottom(last) \in Int /\ Bottom(last) <= a /\ size \in Nat /\ ptr \in Int
  BY <1>1, <1>2, CellInFrame DEF FInv, IInv, TypeOK
<1> HIDE DEF last, run
<1>4. calls' = calls /\ mem' = [mem EXCEPT ![a] = value] /\ mem \in [0 .. size - 1 -> Value]
  BY <1>2, <1>3 DEF Assign, FInv, IInv, TypeOK
<1> HIDE DEF a
<1>5. ASSUME NEW i, i # a PROVE mem'[i] = mem[i]
  BY <1>4, <1>5
<1>6. ASSUME NEW k \in DOMAIN calls, k # last PROVE Seen(mem', calls[k]) = Seen(mem, calls[k])
  <2>1. calls[k].top < Bottom(last)
    <3>1. k < last
      BY <1>1, <1>6
    <3>2. QED
      BY <1>1, <3>1 DEF FInv, IInv, Stacked
  <2>2. calls[k].top \in Int
    BY TopIsRunning DEF FInv
  <2>3. ASSUME NEW w \in Variables(calls[k].fn)
        PROVE  mem'[calls[k].top - Distance(calls[k].fn, w)] = mem[calls[k].top - Distance(calls[k].fn, w)]
    <3> DEFINE b == calls[k].top - Distance(calls[k].fn, w)
    <3>1. b \in Int /\ b <= calls[k].top
      BY CellInFrame
    <3> HIDE DEF b
    <3>2. b # a
      BY <1>3, <2>1, <2>2, <3>1
    <3>3. mem'[b] = mem[b]
      BY <1>5, <3>2
    <3>4. QED
      BY <3>3 DEF b
  <2>4. QED
    BY <2>3, SeenAlike
<1>7. Seen(mem', run) = Written(Seen(mem, run), v, Seen(mem', run).vars[v])
  <2>1. ASSUME NEW w \in Variables(run.fn), w # v
        PROVE  mem[run.top - Distance(run.fn, w)] = mem'[run.top - Distance(run.fn, w)]
    <3>1. run.fn \in Code
      BY <1>1, ElementOfSeq, CallParts DEF run
    <3>2. Distance(run.fn, w) # Distance(run.fn, v)
      BY <1>2, <2>1, <3>1, DistanceIsOwn
    <3>3. Distance(run.fn, w) \in Int /\ Distance(run.fn, v) \in Int
      BY <1>2, <2>1, <3>1, DistanceInFrame, Sizes
    <3>4. run.top - Distance(run.fn, w) # a
      <4> DEFINE d == Distance(run.fn, w)
                 e == Distance(run.fn, v)
      <4>1. d # e /\ d \in Int /\ e \in Int /\ a = ptr - e
        BY <3>2, <3>3 DEF a
      <4> HIDE DEF d, e
      <4>2. ptr - d # a
        BY <1>3, <4>1
      <4>3. QED
        BY <1>2, <4>2 DEF d
    <3>5. QED
      BY <1>5, <3>4
  <2>2. /\ v \in Variables(run.fn)
        /\ \A w \in Variables(run.fn) :
             w # v => mem[run.top - Distance(run.fn, w)] = mem'[run.top - Distance(run.fn, w)]
    BY <1>2, <2>1
  <2>3. QED
    BY <2>2, SeenExcept
<1>8. /\ Len(Acts) = last /\ Len(Acts') = last
      /\ Acts = [k \in 1 .. last |-> Seen(mem, calls[k])]
      /\ Acts' = [k \in 1 .. last |-> Seen(mem', calls[k])]
  <2>1. calls' \in Seq(Call) /\ Len(calls') = last
    BY <1>1, <1>4 DEF last
  <2>2. QED
    BY <1>1, <1>4, <2>1, ActsNow, ActsNext DEF last, Acts
<1>9. Acts' = [Acts EXCEPT ![last] = Acts'[last]]
  BY <1>1, <1>6, <1>8
<1>10. Acts[last] = Seen(mem, run) /\ Acts'[last] = Seen(mem', run) /\ last \in DOMAIN Acts
  BY <1>1, <1>8 DEF run
<1>11. Acts' = [Acts EXCEPT ![last].vars[v] = Acts'[last].vars[v]]
  <2>1. Acts'[last] = Written(Acts[last], v, Acts'[last].vars[v])
    BY <1>7, <1>10
  <2>2. QED
    BY <1>9, <2>1 DEF Written
<1>12. v \in Activations!Variables(Acts[last].fn) \ {Activations!Me}
  BY <1>2, <1>10 DEF Activations!Variables, Activations!Me, Seen, Variables, Me
<1>13. /\ Len(Acts) > 0 /\ Len(Acts') = Len(Acts)
       /\ \E w \in Activations!Variables(Acts[Len(Acts)].fn) \ {Activations!Me} :
            Acts' = [Acts EXCEPT ![Len(Acts)].vars[w] = Acts'[Len(Acts)].vars[w]]
  <2>1. Len(Acts) = last /\ Len(Acts') = last /\ last > 0
    BY <1>1, <1>8
  <2>2. QED
    BY <1>11, <1>12, <2>1
<1>14. QED
  BY <1>13 DEF Activations!Assign, Acts

(* The end of a call leaves the activations below as they are. *)
LEMMA ReturnIsReturn ==
  ASSUME FInv, Return
  PROVE  Activations!Return
<1> DEFINE last == Len(calls)
           S    == {Seen(mem, calls[k]) : k \in DOMAIN calls}
           T    == {Seen(mem, calls'[k]) : k \in DOMAIN calls'}
<1>1. /\ calls \in Seq(Call) /\ last \in Nat /\ DOMAIN calls = 1 .. last /\ last >= 1
      /\ \A k \in 1 .. last : calls[k] \in Call
  BY LenProperties, EmptySeq, ElementOfSeq DEF FInv, IInv, TypeOK, Return
<1>2. calls' = SubSeq(calls, 1, last - 1) /\ mem' = mem
  BY DEF Return
<1>3. /\ calls' \in Seq(Call) /\ Len(calls') = last - 1
      /\ \A k \in 1 .. last - 1 : calls'[k] = calls[k]
  BY <1>1, <1>2
<1> HIDE DEF last, S, T
<1>4. /\ Len(Acts) = last /\ Acts \in Seq(S)
      /\ \A k \in 1 .. last : Acts[k] = Seen(mem, calls[k])
  BY <1>1, ActsNow DEF S, last
<1>5. /\ Len(Acts') = last - 1 /\ Acts' \in Seq(T)
      /\ \A k \in 1 .. last - 1 : Acts'[k] = Seen(mem, calls'[k])
  BY <1>2, <1>3, ActsNext DEF T
<1>6. /\ SubSeq(Acts, 1, last - 1) \in Seq(S) /\ Len(SubSeq(Acts, 1, last - 1)) = last - 1
      /\ \A k \in 1 .. last - 1 : SubSeq(Acts, 1, last - 1)[k] = Acts[k]
  <2>1. \A k \in 1 .. last - 1 : Acts[k] \in S
    BY <1>1, <1>4, ElementOfSeq
  <2>2. QED
    BY <1>1, <2>1, SubSeqProperties
<1>7. Acts' = SubSeq(Acts, 1, Len(Acts) - 1)
  <2>1. \A k \in 1 .. last - 1 : Acts'[k] = SubSeq(Acts, 1, last - 1)[k]
    BY <1>1, <1>3, <1>4, <1>5, <1>6
  <2>2. QED
    BY <1>4, <1>5, <1>6, <2>1, SameActs
<1>8. Acts # <<>>
  BY <1>1, <1>4, EmptySeq
<1>9. QED
  BY <1>7, <1>8 DEF Activations!Return, Acts

(***************************************************************************)
(* When no parameter may be omitted, the distances computed from the       *)
(* declarations and the cells pushed from the calls agree: the stack is    *)
(* the activations of FrBActivations, each with variables of its own that  *)
(* no other call or assignment touches.                                    *)
(***************************************************************************)
THEOREM StackRefinement ==
  ASSUME AllArguments
  PROVE  Spec => ImplementsActivations
<1>1. ASSUME Init PROVE Activations!Init /\ Full
  <2>1. DOMAIN calls = {} /\ calls = <<>>
    BY <1>1 DEF Init
  <2>2. QED
    BY <2>1 DEF Activations!Init, Full
<1>2. ASSUME FInv, [Next]_vars
      PROVE  Activations!Next \/ UNCHANGED [k \in DOMAIN calls |-> ActivationOf(calls[k])]
  <2>1. ASSUME NEW f \in Function, NEW me \in Value, NEW n \in 0 .. MaxArguments, Accepts(f, n),
               NEW args \in [1 .. n -> Value], Execute(f, me, args)
        PROVE  Activations!Call
    <3>1. n = Params(f)
      BY <2>1, Sizes, StackAssumption DEF AllArguments, Accepts, Code
    <3>2. n \in Nat /\ f \in Code /\ Enter(f, me, args)
      BY <2>1 DEF Execute, Code
    <3>3. QED
      BY <1>2, <2>1, <3>1, <3>2, EnterIsCall
  <2>2. ASSUME NEW me \in Value, InitInstance(me)
        PROVE  Activations!Call
    <3>1. <<>> \in [1 .. 0 -> Value] /\ Params(Initialiser) = 0
      BY DEF Params
    <3>2. Enter(Initialiser, me, <<>>) /\ Initialiser \in Code /\ 0 \in Nat
      BY <2>2 DEF InitInstance, Code
    <3>3. QED
      BY <1>2, <3>1, <3>2, EnterIsCall
  <2>3. ASSUME calls # <<>>, NEW v \in Variables(Running.fn) \ {Me}, NEW value \in Value, Assign(v, value)
        PROVE  Activations!Assign
    BY <1>2, <2>3, AssignIsAssign
  <2>4. CASE Return
    BY <1>2, <2>4, ReturnIsReturn DEF Activations!Next
  <2>5. ASSUME UNCHANGED <<mem, calls>>
        PROVE  UNCHANGED [k \in DOMAIN calls |-> ActivationOf(calls[k])]
    <3>1. Acts = AllSeen(mem, calls) /\ Acts' = AllSeen(mem', calls')
      BY ActsAreSeen
    <3>2. Acts' = Acts
      BY <2>5, <3>1
    <3>3. QED
      BY <3>2 DEF Acts
  <2>6. CASE Throw
    BY <2>5, <2>6 DEF Throw
  <2>7. CASE UNCHANGED vars
    BY <2>5, <2>7 DEF vars
  <2>8. QED
    BY <1>2, <2>1, <2>2, <2>3, <2>4, <2>6, <2>7 DEF Next, Activations!Next
<1>3. ASSUME FInv, [Next]_vars, IInv' PROVE FInv'
  BY <1>3, FullStays
<1>4. IInv /\ Full => FInv
  BY DEF FInv
<1>5. QED
  BY <1>1, <1>2, <1>3, <1>4, StackConsistent, PTL DEF Spec, ImplementsActivations, Activations!Spec
=============================================================================
