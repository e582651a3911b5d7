---------------------------- MODULE PyFrBRuntime ----------------------------
(***************************************************************************)
(* The classes, instances and events of the executor of PyFrB              *)
(* (runtime/executor.py), on the program FrBStartup started: the shared    *)
(* fields of a class are initialised when the class is first used, an      *)
(* instance has a slot for its event, and a slot has a list of handlers,   *)
(* which are objects (MethodReference) made anew wherever a method is      *)
(* named.                                                                  *)
(*                                                                         *)
(* Main creates instances and then registers, unregisters and raises.  The *)
(* classes of shape.events have an event that is not shared.               *)
(***************************************************************************)
EXTENDS FrBStartup, Bags
INSTANCE BagsExt

CONSTANTS
  Method,         \* names of methods
  Fitting,        \* those that take the arguments of the events
  MaxReferences,  \* bound on the MethodReferences of a run, and on the handlers of an event
  MaxFires        \* bound on the raises that are open at once

ASSUME RuntimeAssumption ==
  /\ Fitting \subseteq Method
  /\ \A s \in Shapes : s.events \subseteq Class
  /\ {MaxReferences, MaxFires} \subseteq Nat

VARIABLES
  state,        \* "waits" for FrBStartup, "runs", or how the run ended
  initialized,  \* the classes with shared_initialized
  values,       \* shared_values of each class
  made,         \* the instances: class, fields and the handlers of the event
  stack,        \* the activations, the innermost first
  refs,         \* the MethodReferences: the object and the method
  kept,         \* those a variable of main still holds
  begun,        \* how often the initialisation of each class began
  promised      \* for the properties: the methods the event of each instance should call,
                \* and whether one was unregistered and stayed

classesAndObjects == <<initialized, values, made, begun>>
events  == <<refs, kept, promised>>
runtime == <<state, stack, classesAndObjects, events>>

Running == state = "runs"
Top     == Head(stack)
Below   == Tail(stack)

(* The method of an event, or main: any statement may follow. *)
ProgramRuns == Running /\ (stack # <<>> => Top.of = "fire" /\ Top.inside)
InFields    == stack # <<>> /\ Top.of \in {"shared", "instance"}

-----------------------------------------------------------------------------
(* Names of classes. *)

Container(c) == CHOOSE d \in Class \cup {Root} : c \in ToSet(shape.tree[d])

(* The classes on the way from the root to a class. *)
PathTo[c \in Class \cup {Root}] == IF c = Root THEN <<>> ELSE Append(PathTo[Container(c)], c)

(* The classes that evaluating C.f in the class k initialises, if they are *)
(* not: C alone where k or its container knows its name, and else all that *)
(* the text has to name (_resolve_identifier, _resolve_member).            *)
Touched(k, c) ==
  IF c = k \/ (Container(c) = Container(k) /\ Container(c) # Root) THEN <<c>> ELSE PathTo[c]

Uses(k, init) == IF init.kind = "shared" THEN Touched(k, init.class) ELSE <<>>

-----------------------------------------------------------------------------
(* Activations of ensure_initialized and instantiate: the fields left, in  *)
(* the order of the text, and the classes the one it is at waits for.      *)

AtField(a) == IF a.left = <<>> THEN a ELSE [a EXCEPT !.waits = @ \o Uses(a.class, InitOf(a.class, Head(a.left)))]

Names(c, shrd) == Sorted(NamesOf(c, shrd), [f \in NamesOf(c, shrd) |-> Declared(c, f)])

SharedInits(c)    == AtField([of |-> "shared", class |-> c, left |-> Names(c, TRUE), waits |-> <<>>])
InstanceInits(c, o) == AtField([of |-> "instance", class |-> c, me |-> o, left |-> Names(c, FALSE), waits |-> <<c>>])

(* RecursionError at the limit of the stack. *)
Enter(a, under) ==
  IF Len(under) < MaxDepth THEN stack' = <<a>> \o under /\ UNCHANGED state
  ELSE state' = "recursion" /\ UNCHANGED stack

Setting(fields, f, v) == [x \in DOMAIN fields \cup {f} |-> IF x = f THEN v ELSE fields[x]]

(* The value goes into the field the activation on top of acts is at.      *)
Assign(v, acts) ==
  IF acts = <<>> THEN stack' = <<>> /\ UNCHANGED <<values, made>>
  ELSE LET a == Head(acts)
           f == Head(a.left)
       IN  /\ stack' = <<AtField([a EXCEPT !.left = Tail(@)])>> \o Tail(acts)
           /\ IF a.of = "shared" THEN values' = [values EXCEPT ![a.class] = Setting(@, f, v)] /\ UNCHANGED made
              ELSE made' = [made EXCEPT ![a.me].fields = Setting(@, f, v)] /\ UNCHANGED values

(* Without the test of shared_initialized. *)
EnsureInitialized_Always ==
  /\ Running /\ InFields /\ Top.waits # <<>>
  /\ Enter(SharedInits(Head(Top.waits)), <<[Top EXCEPT !.waits = Tail(@)]>> \o Below)
  /\ begun' = [begun EXCEPT ![Head(Top.waits)] = @ + 1]
  /\ UNCHANGED <<initialized, values, made, events>>

(* ensure_initialized sets shared_initialized at its end. *)
EnsureInitialized ==
  /\ Running /\ InFields /\ Top.waits # <<>>
  /\ LET c     == Head(Top.waits)
         under == <<[Top EXCEPT !.waits = Tail(@)]>> \o Below
     IN  IF c \in initialized THEN stack' = under /\ UNCHANGED <<state, begun>>
         ELSE Enter(SharedInits(c), under) /\ begun' = [begun EXCEPT ![c] = @ + 1]
  /\ UNCHANGED <<initialized, values, made, events>>

SharedDone ==
  /\ Running /\ InFields /\ Top.of = "shared" /\ Top.left = <<>>
  /\ initialized' = initialized \cup {Top.class}
  /\ stack' = Below
  /\ UNCHANGED <<state, values, made, begun, events>>

(* instantiate, for main or for the field an activation is at. *)
Instantiate(c) ==
  /\ Enter(InstanceInits(c, Len(made) + 1), stack)
  /\ made' = Append(made, [class |-> c, fields |-> <<>>, handlers |-> <<>>])
  /\ promised' = Append(promised, [methods |-> EmptyBag, lost |-> FALSE])
  /\ UNCHANGED <<initialized, values, begun, refs, kept>>

InstanceDone ==
  /\ Running /\ InFields /\ Top.of = "instance" /\ Top.left = <<>> /\ Top.waits = <<>>
  /\ Assign(Top.me, Below)
  /\ UNCHANGED <<state, initialized, begun, events>>

-----------------------------------------------------------------------------
(* The value of the field an activation is at (ExpressionEvaluator).       *)

AtInit  == Running /\ InFields /\ Top.left # <<>> /\ Top.waits = <<>>
TopInit == InitOf(Top.class, Head(Top.left))

(* A field without initialiser is None when its type is a class; a name    *)
(* that is no field yet is nothing else either, and None.                  *)
PlainValue ==
  CASE TopInit.kind = "value"   -> Val
    [] TopInit.kind = "default" -> Null
    [] TopInit.kind = "own"     -> LET fs == made[Top.me].fields
                                   IN  IF TopInit.field \in DOMAIN fs THEN fs[TopInit.field] ELSE Null

EvaluatePlain ==
  /\ AtInit /\ TopInit.kind \in {"value", "default", "own"}
  /\ Assign(PlainValue, stack)
  /\ UNCHANGED <<state, initialized, begun, events>>

EvaluateShared ==
  /\ AtInit /\ TopInit.kind = "shared"
  /\ IF TopInit.field \in DOMAIN values[TopInit.class]
     THEN Assign(values[TopInit.class][TopInit.field], stack) /\ UNCHANGED state
     ELSE state' = "error" /\ UNCHANGED <<stack, values, made>>
  /\ UNCHANGED <<initialized, begun, events>>

EvaluateNew == AtInit /\ TopInit.kind = "new" /\ Instantiate(TopInit.class)

-----------------------------------------------------------------------------
(* Events.  A method is named by its object and its name; naming it makes  *)
(* a reference, and only what a variable keeps is the same reference the   *)
(* next time.                                                              *)

Fresh       == Len(refs) + 1
Given(t, m) == {Fresh} \cup {r \in kept : refs[r] = <<t, m>>}

KeepReference(t, m) ==
  /\ Fresh <= MaxReferences
  /\ refs' = Append(refs, <<t, m>>)
  /\ kept' = kept \cup {Fresh}
  /\ UNCHANGED <<state, stack, classesAndObjects, promised>>

(* The event o and the reference r to the method m of t. *)
RegisterEvent(o, t, m, r) ==
  /\ r <= MaxReferences /\ Len(made[o].handlers) < MaxReferences
  /\ refs' = IF r = Fresh THEN Append(refs, <<t, m>>) ELSE refs
  /\ made' = [made EXCEPT ![o].handlers = Append(@, r)]
  /\ promised' = [promised EXCEPT ![o].methods = BagAdd(@, <<t, m>>)]
  /\ UNCHANGED <<state, stack, initialized, values, begun, kept>>

UnregisterEvent_All(o, t, m, r) ==
  /\ made' = [made EXCEPT ![o].handlers = SelectSeq(@, LAMBDA x : x # r)]
  /\ promised' = [promised EXCEPT ![o].methods = BagRemove(@, <<t, m>>)]
  /\ UNCHANGED <<state, stack, initialized, values, begun, refs, kept>>

(* Handlers are compared as objects. *)
Missed(o, t, m, r) == BagIn(<<t, m>>, promised[o].methods) /\ ~Contains(made[o].handlers, r)

UnregisterEvent(o, t, m, r) ==
  /\ made' = [made EXCEPT ![o].handlers = RemoveFirst(@, r)]
  /\ promised' = [promised EXCEPT ![o].methods = BagRemove(@, <<t, m>>),
                                  ![o].lost = @ \/ Missed(o, t, m, r)]
  /\ UNCHANGED <<state, stack, initialized, values, begun, refs, kept>>

(* fire goes over a copy of the handlers. *)
Fire(o) ==
  /\ Len(stack) < MaxFires
  /\ stack' = <<[of |-> "fire", inside |-> FALSE, on |-> o, todo |-> made[o].handlers,
                 had |-> made[o].handlers, called |-> <<>>]>> \o stack
  /\ UNCHANGED <<state, classesAndObjects, events>>

InLoop == Running /\ stack # <<>> /\ Top.of = "fire" /\ ~Top.inside

(* A method that does not take the arguments is only found out now. *)
InvokeHandler ==
  /\ InLoop /\ Top.todo # <<>>
  /\ IF refs[Head(Top.todo)][2] \in Fitting
     THEN /\ stack' = <<[Top EXCEPT !.inside = TRUE, !.todo = Tail(@),
                                    !.called = Append(@, Head(Top.todo))]>> \o Below
          /\ UNCHANGED state
     ELSE state' = "error" /\ UNCHANGED stack
  /\ UNCHANGED <<classesAndObjects, events>>

HandlerReturns ==
  /\ Running /\ stack # <<>> /\ Top.of = "fire" /\ Top.inside
  /\ stack' = <<[Top EXCEPT !.inside = FALSE]>> \o Below
  /\ UNCHANGED <<state, classesAndObjects, events>>

Fired ==
  /\ InLoop /\ Top.todo = <<>>
  /\ stack' = Below
  /\ UNCHANGED <<state, classesAndObjects, events>>

-----------------------------------------------------------------------------
RuntimeInit ==
  /\ state = "waits" /\ initialized = {} /\ stack = <<>> /\ made = <<>>
  /\ values = [c \in Class |-> <<>>]
  /\ begun = [c \in Class |-> 0]
  /\ refs = <<>> /\ kept = {} /\ promised = <<>>

(* The programs whose names the interpreter could resolve; templates are   *)
(* not instantiated by PyFrB.                                              *)
StartRuntime ==
  /\ state = "waits" /\ shape.templates = {}
  /\ phase \in Ended /\ (phase = "called" \/ calls # <<>>)
  /\ state' = "runs"
  /\ UNCHANGED <<stack, classesAndObjects, events>>

(* Main makes one instance of each class at most, in any order. *)
MainNew(c) ==
  /\ Running /\ stack = <<>>
  /\ \A o \in DOMAIN made : made[o].class # c
  /\ Instantiate(c)

MainEnds ==
  /\ Running /\ stack = <<>>
  /\ state' = "done"
  /\ UNCHANGED <<stack, classesAndObjects, events>>

WithEvent == {o \in DOMAIN made : made[o].class \in shape.events}

Statement ==
  /\ ProgramRuns
  /\ \E o, t \in WithEvent, m \in Method :
       \/ KeepReference(t, m)
       \/ \E r \in Given(t, m) : RegisterEvent(o, t, m, r) \/ UnregisterEvent(o, t, m, r)
       \/ Fire(o)

RuntimeNext ==
  \/ StartRuntime \/ MainEnds \/ \E c \in Class : MainNew(c)
  \/ EnsureInitialized \/ SharedDone \/ InstanceDone
  \/ EvaluatePlain \/ EvaluateShared \/ EvaluateNew
  \/ Statement \/ InvokeHandler \/ HandlerReturns \/ Fired

BothInit == Init /\ RuntimeInit
BothNext == (Next /\ UNCHANGED runtime) \/ (RuntimeNext /\ UNCHANGED vars)

BothSpec == BothInit /\ [][BothNext]_<<vars, runtime>> /\ WF_<<vars, runtime>>(Next /\ UNCHANGED runtime)

-----------------------------------------------------------------------------
(* Properties. *)

(* The state of both runs has its shape; the executor does not change that *)
(* of the interpreter, from which it starts.                               *)
TypesOK ==
  /\ state = "waits" => TypeOK
  /\ state \in {"waits", "runs", "done", "error", "recursion"}
  /\ \A c \in Class : DOMAIN values[c] \subseteq NamesOf(c, TRUE)
  /\ \A o \in DOMAIN made : /\ DOMAIN made[o].fields \subseteq NamesOf(made[o].class, FALSE)
                            /\ ToSet(made[o].handlers) \subseteq DOMAIN refs

(* The interpreter initialises the shared fields in the order that can be  *)
(* read from the text, each once, and an initialiser sees what comes       *)
(* before it and nothing else.  The executor starts from there.            *)
StartsAsWritten == state = "waits" => InitsAsWritten

(* What the shared fields of a class and the fields of an instance lead to. *)
Nodes == {"shared", "instance"} \X Class
Leads(n) ==
  UNION {LET init == InitOf(n[2], f)
         IN  CASE init.kind = "shared" -> {"shared"} \X ToSet(Touched(n[2], init.class))
               [] init.kind = "new"    -> {"shared", "instance"} \X {init.class}
               [] OTHER                -> {}
         : f \in NamesOf(n[2], n[1] = "shared")}
Reached(n) ==
  LET within[i \in 0 .. Cardinality(Nodes)] ==
        IF i = 0 THEN Leads(n) ELSE within[i - 1] \cup UNION {Leads(m) : m \in within[i - 1]}
  IN  within[Cardinality(Nodes)]
Circular(n) == n \in Reached(n)

(* A class that is initialised has all its values; no initialiser reads a  *)
(* shared field before it has its value, so that only an event can fail.   *)
OnlyEventsFail ==
  /\ \A c \in initialized : DOMAIN values[c] = NamesOf(c, TRUE)
  /\ state = "error" => stack # <<>> /\ Top.of = "fire"

(* The shared fields of a class are initialised once, in the order of the  *)
(* text and before anything sees them, unless they lead to their class     *)
(* again, in a constructor or by its name: then they are started over      *)
(* until the stack is used up, and no such class is ever initialised. For  *)
(* all other programs the run comes to its end, without an error but those *)
(* of events.                                                              *)
InitializedOnce ==
  /\ OnlyEventsFail
  /\ \A c \in Class : begun[c] > 1 => Circular(<<"shared", c>>)
  /\ state = "recursion" => \E n \in Nodes : Circular(n)
  /\ state = "done" => /\ \A c \in initialized : ~Circular(<<"shared", c>>)
                       /\ \A o \in DOMAIN made : ~Circular(<<"instance", made[o].class>>)

(* Where the interpreter started the program and every field has an        *)
(* initialiser, PyFrB gives the shared fields the values the interpreter   *)
(* gave them, but for those it read before they had one.                   *)
Alike(v, w) ==
  IF v \in DOMAIN made THEN w \in DOMAIN objects /\ made[v].class = objects[w].class ELSE v = w

ValuesAsLegacy ==
  state = "done" /\ phase = "called" /\ (\A c \in Class, f \in Field : f \in NamesOf(c, TRUE) \cup NamesOf(c, FALSE)
                                                        => InitOf(c, f).kind # "default") =>
    \A c \in initialized : \A f \in NamesOf(c, TRUE) :
      LET there == sharedMem[c][Index(c, f)]
      IN  there # Garbage => Alike(values[c][f], there)

(* The interpreter comes to main with all values, unless instances lead to *)
(* one another or what comes later is read.  PyFrB initialises the classes *)
(* of a program one by one, as they are used, and comes to the same values.*)
LazyAsLegacy == (state = "waits" => StartsWhenOrdered) /\ InitializedOnce /\ ValuesAsLegacy

(* A raise calls the handlers its event had, each as often as it was       *)
(* registered and in that order, whatever they do to the event; and what   *)
(* an event has is what was registered and not unregistered, as long as    *)
(* nothing was unregistered by a new reference to its method, which is     *)
(* never found (EventSlot.remove).                                         *)
SlotsKeepPromise ==
  /\ InLoop /\ Top.todo = <<>> => Top.called = Top.had
  /\ \A o \in DOMAIN made :
       ~promised[o].lost => promised[o].methods = ToBag([i \in DOMAIN made[o].handlers |-> refs[made[o].handlers[i]]])
=============================================================================
