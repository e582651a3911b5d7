# A verification of FrB

FrB is an object oriented Basic. This directory holds TLA+ models of its C++
interpreter (`src/interpreter/parser`) and of its Python compiler and executor
(`src/pyfrb`), the configurations that check them with TLC, and proofs checked
with TLAPS. Every definition is translated from the
code at the lines `PROJECT.json` gives for it.

    tlc -workers 2 -config MCFrBMemory.cfg MCFrBMemory     # one run
    tlapm FrBMemory_proofs.tla                             # the proofs of one component

## The system

A program is read by a bison/flex front end into a tree of classes, functions,
statements and expressions. `FrBParser::resolveAndCheckTree` gives every name its
meaning and instantiates templates; then `main` initialises the shared fields and
executes one function. There is a single thread. What makes it hard to test is
not concurrency but re-entrance: the code of a program runs in the middle of
loops over the interpreter's own data, and objects are shared by reference.

| Part | State | Operations | Interacts with | What makes it correct |
|---|---|---|---|---|
| Heap: `FrBMemory` | `_data` (blocks with a value and links), `_unavailable`, `_next_available`; `_mem_pos` in each object | `addObject`, `collect`, `addLink`, `delLink`, `~FrBMemory` | every expression that makes an object hands it over (`addGarbagedObject`) | no object in use is overwritten, none is deleted twice, all are deleted in the end |
| Stack: `FrBMemStack` and calls | `_mem`, `_stack_ptr`, C++ activations | `execute`, `initInstance`, accesses by distance, return, exceptions | the syntaxer numbers variables, `resolveAndCheck` turns them into distances | a function sees its own parameters and variables, and only those |
| Events: `FrBExecutionEnvironment` | `_eventPool`, a multimap ordered by event | `registerEvent`, `unregisterEvent`, `raiseEvent` | slots are functions of the program, which may call all three | a raise calls the slots of its event, each once, and ends |
| Templates: `FrBTemplatePool` | entries, instances by name in the resolve environment, the tree | `createInstance`, the loop of `resolveAndCheckTree` | resolving an instance meets further entries | an entry gets the instance of its template and argument; all are resolved |
| Literals, Int, loops | the object of each literal, `changed`, `isManaged` | `eval`, `:=`, operators in place, `For` | objects go to the heap | a literal keeps its value; every object has one owner |
| Names and overloads | imported classes, the tree of classes | `getClassFromName`, `findOverload`, `resolveAndCheck` of unresolved names | templates, classes | a name means one thing, a call takes the best overload, and what was checked when the tree was resolved holds when it is evaluated |
| Exceptions | the kinds, `throw()` specifications | `throw`, the handlers of `main` | every expression | a failure is told as what it is, and only what may fail does |
| Start of a program: `main.cpp` | `FrBSharedMem`, the exit status | `sharedInit`, `initSharedField`, `createInstance`, the handlers of `main` | classes, expressions | shared fields are initialised once, before they are read and before the main function is called |
| Expression trees | `_ref_count` and the pointers of each node | `addRef`, `delete_expr`, `specializeTemplate`, `resolveAndCheck`, the destructors | statements, templates | freed once, copies are independent, each variable gets its distance once |
| Front end: `syntaxer.y` | the stacks of open classes, functions, blocks, Ifs and Withs; `_current_field` | parse actions in the middle of rules | classes, functions, statements | the tree is the text: blocks close where they were opened, operators take the operands their precedence gives them |
| PyFrB: folding, bytecode, executor | AST, instructions, frames | `fold`, `_lower_stmt`, `execute` | CPython runs the result | bytecode and executor agree, and folding changes neither |
| PyFrB: runtime classes | shared values, event slots | `ensure_initialized`, `instantiate`, `fire` | executor | initialised once, handlers can be removed |
| PyFrB: lexer, parser | tokens, a position | the methods of `Parser` | the compiler and the executor use its trees | it ends, with the tree the C++ grammar gives |

`PROJECT.json` lists all the components with their files and, under `hazards`, the
places where each can go wrong.

## Modules

| Module | Models | Checked with | Proved in |
|---|---|---|---|
| `FrBMemory` | the garbage collected heap | `MCFrBMemory` | `FrBMemory_proofs` |
| `FrBHeap` | what a heap promises: links per object, no blocks | `ImplementsHeap` of `FrBMemory` | `HeapRefinement` |
| `FrBEvents` | the event pool and nested raises | `MCFrBEvents` | `FrBEvents_proofs` |
| `FrBStack` | the stack, frames, calls and accesses | `MCFrBStack` | `FrBStack_proofs` |
| `FrBActivations` | what a function relies on: its own variables | `ImplementsActivations` of `FrBStack` | `StackRefinement` |
| `FrBTemplates` | template instantiation and resolution | `MCFrBTemplates` | `FrBTemplates_proofs` |
| `FrBLiterals` | literals, Int objects, `For` loops, the end of `main` | `MCFrBLiterals` | `FrBLiterals_proofs` |
| `FrBStartup` | `main` up to the main function: fields, instances, shared initialisation | `MCFrBStartup` | `FrBStartup_proofs` |
| `PyFrBRuntime` | the same fields in PyFrB, initialised when they are used, and its events; composed with `FrBStartup` | `MCFrBStartup` | `PyFrBRuntime_proofs` |
| `FrBClasses` | the members of classes, lookup, `matchParameters`, `findOverload` | through `FrBNames` | |
| `FrBNames` | what a name denotes: a field, a class or a function | through `FrBTyping` | `FrBNames_proofs` |
| `FrBExceptions` | the kinds of exceptions and the handlers of `main` | through `FrBTyping` | |
| `FrBTyping` | `resolveAndCheck` and `eval` of every expression | `MCFrBTyping` | |
| `FrBNodes` | the nodes of the tree, by their constructors | through `FrBTrees` | |
| `FrBTrees` | the tree as it is parsed, copied, resolved and deleted | `MCFrBTrees` | |
| `PyFrBNodes` | the syntax trees and the values of Python | through `PyFrBMachine` | |
| `PyFrBOptimizer` | `ConstantFolder`, a function on trees | through `PyFrBMachine` | |
| `PyFrBBytecode` | `MethodCompiler` and the module that is written, functions on trees | through `PyFrBMachine` | |
| `PyFrBExecutor` | the Python executor, a function on programs | through `PyFrBMachine` | |
| `FrBInterpreter` | the statements and expressions of the C++ interpreter, a function on programs | through `PyFrBMachine` | |
| `PyFrBMachine` | folding, generating and running the bytecode; composes the five above | `MCPyFrB` | |
| `FrBGrammar` | the precedences and the rules of `syntaxer.y` | through `FrBSyntax` | |
| `FrBSyntax` | the parser of the interpreter, with the programs it may read | through `FrBReadings` | |
| `PyFrBParser` | the recursive descent parser of PyFrB, a function on texts | through `FrBReadings` | |
| `FrBReadings` | the two parsers on one text | `MCFrBReadings` | |

`MC*` modules only define values of constants, symmetries and views. Definitions
with a suffix, like `Swept_StillUsed`, stand before the one they resemble: each is
that definition with a bug, and no specification uses it. They show that a property
can fail.

### Heap: `FrBMemory`, `FrBHeap`

`data`, `size`, `unavailable`, `nextAvailable` are the fields of `FrBMemory`, counted
in blocks; `memPos` is in the objects. `alive` is what C++ has allocated and not
deleted, `faults` the addresses deleted when nothing was there. An object is its
address, and `Allocate` may reuse the address of a deleted one, as `new` does: a
block that kept the address of a deleted object then points to another object.
`AddObject` is the whole handler: the collection when the threshold is reached,
the growth, the store and `findNextAvailable`. `addLink` and `delLink` are public
operations that nothing calls at this commit (their calls in `FrBRefAssignExpr::eval`
are commented out): the model is the heap under every client that keeps to the
asserted preconditions, which includes one that counts references.

`FrBHeap` has only the links of each object. That the blocks implement it says that
growth, reuse and stale values never change the links of an object and never
lose one that still has some.

### Stack: `FrBStack`, `FrBActivations`

`mem`, `size` and `ptr` are those of `FrBMemStack`; `calls` are the C++ activations of
`FrBCodeFunction::execute` and `FrBClass::initInstance`. Statements are any sequence of
assignments, calls, initialisations, a `Return` and exceptions. A variable is reached
by its distance from the top, computed from the declaration (`Distance`); the cells
are pushed from the arguments of the call. `FrBActivations` has no stack: each
activation has its variables. `FrBStack` implements it when calls pass all the
arguments. With optional parameters it does not, see Findings. Only calls whose arguments fit the parameters are
executed: `raiseEvent` and calls through a value of class Function count no arguments, while the pop takes as many as there are.

### Events: `FrBEvents`

`walks` are the activations of `raiseEvent` with their iterators. Between two turns of
the innermost loop the slot it called runs, and may register, unregister and raise.
An iterator to an erased node is undefined behaviour (`UseErased`), after which
nothing is claimed. `since` and `called` are history, for the properties.

### Templates: `FrBTemplates`

A class is the sequence of template expressions in its prototypes and that in its
bodies; the program is chosen in `Init` among all those the constants allow. `agenda`
is the call stack of the resolution: the expressions still to resolve, the current
one first. `templates` is `_templateInstances`, `tree` the instances in the class tree.

### Literals: `FrBLiterals`

`heap` has for each `FrBInt` its value, `changed()` and `isManaged()`; `literal` is the
`_value` of each `FrBLiteralExpr`. The program is any sequence of declarations,
assignments, sums, operators in place and nested `For` loops. Integers wrap, on a
small range. Objects nothing refers to are free to be used again: the heap
deletes them at some time, and nobody can tell. At the end `main` destroys the heap (`FreeHeap`)
and then the tree, or the tree alone when the program is refused (`Refuse`). The classes of the tree
are in the order of their names, so the literals are destroyed in any order (`FreeLiteral`): each asks
its object whether it is managed, and deletes it when it is not. An object the heap took is gone by
then, so the answer is read from freed memory (`stray`). The Bool literals of a program share the two
objects of `FrBBool` (`BoolValue`). `DeletedOnce`
says that a program which was run deletes each object once, and names the two exceptions: a
literal that asks a deleted object, and a refused program with two equal Bool literals.

### The start, twice: `FrBStartup`, `PyFrBRuntime`

`FrBStartup` is `main` from its options to the call of the main function. A program is
written field by field (`AddField`), with initialisers that need nothing, read a shared field, read
a field of Me or create an instance; `calls` holds the activations of `sharedInit`,
`initSharedField` and `createInstance`. `Garbage` is what a cell holds before it is written. The
stack of C++ is bounded by `MaxDepth` ("overflow"); an exception ends the program, and `status` is
0 after any of them, since the handlers of `main` print and fall through to its end.

`PyFrBRuntime` takes over the same program: `values` are the `shared_values` of each class,
`initialized` those with the flag, `stack` the activations of `ensure_initialized` and `instantiate`. Main creates
one instance of each class at most, in any order. The two differ by design: the interpreter goes through the tree of
classes once, in the order of the names; PyFrB follows the uses. The flag is set when all
the initialisers of the class have run, so that one that leads to its own class, by a name or through an
instance, starts them again until Python has no stack left. The interpreter starts such a program when the
field that is read comes before. A field without initialiser is None in PyFrB and an instance in the
interpreter. To reach an inner class by name, PyFrB initialises the classes around it.

An event of PyFrB has a list of `MethodReference`s, which Python compares as objects. A
program that writes the name of the method again, as `04-event.frb` does, passes a new
reference to `UnregisterEvent`, which removes nothing: `Missed`.

### Expressions: `FrBClasses`, `FrBNames`, `FrBExceptions`, `FrBTyping`

`classes` maps each class to what the lookups search: fields, functions in the order of the
multimap, operators, constructors, inner classes. Names are numbers, since the maps are ordered by them.
`FrBNames` is what a name means in a context (`ResolveIn`), in a program that does not change. It stands apart from the
other expressions because no definition in it is recursive, so it can be proved about.
`FrBTyping` takes a function of a program (`world`), resolves one of its expressions and evaluates it, then a
second one in what the first left. `Resolve` gives an expression a class as `resolveAndCheck` does, or refuses
it with an exception; `Eval` gives a value or the exception that stops it. Functions of the program return any value
of their class or Null, and Subs the Void object or, after a bare Return, a null pointer (`answers`). What an exception becomes is in `FrBExceptions`: a `throw()` specification that
does not list it ends the process, and `main` tells it as an error of execution or of resolution.

`ValuesFitTypes` compares the two sides: a variable holds a value of its class. It holds for an
expression that is `Straight`. What goes around the classes is named:

- a call through a value of class Function compares no argument with a parameter and does not count
  them; it fails with an exception its `throw()` does not list when the function needs an instance, and the process ends;
- a Cast compares its value with the class of its own expression, and an assignment
  `(a := b) := c` is checked against `a` and made to `b`;
- a Sub of the program called through a value of class Function gives the Void object or, after a bare Return, no
  object at all, where the operator `()` is declared to give an Object: it may then be wherever an Object may be, and nowhere else (`SubCalled`, `TakenFor`);
- a Sub of the interpreter returns a null pointer, which is no object at all; an operator of the
  program runs with Me = Null; an incompatible class found at run time is told as an error of resolution.

`NamesResolve` and `OverloadBest` say what a name and a call mean: an unknown name that sorts before the first
function of a class may denote that function (the iterator is moved back from the beginning, `stray`), and a class with the name
of one beside its container is found before the one inside it.

### The tree: `FrBNodes`, `FrBTrees`

A node is a record with the nodes it deletes (`kids`), those it points to (`uses`), the count of its
owners and how often its index was moved. The tree is built from the program by the actions of the parser (`Parse`),
a template is copied node by node (`Copy`), main and the instances are resolved and everything is
deleted. `memcpy` copies all that the code does not replace: names, blocks, destructors. The first
misuse ends the run and is kept in `fault`. `FaultsNamed` and `LeaksNamed` say of which programs
it can be, and so that no other is deleted twice or leaks:

- a copied `For` shares the block of the template, and does not resolve two of its variables, so that resolving the instance crashes;
- the destructor of a template and its names are deleted with the template and with each instance inside Main;
- a Return without a value in a template has nothing to copy;
- the expression of a With is resolved by each Current in its block: with two of them a name is resolved twice;
- instances at the root are kept under a name that is not theirs and never deleted, nor are the
  bases of a class.

### One program, three ways: `PyFrBMachine`

A state of `PyFrBMachine` is a program on its way through `compile_file`: `source` as it was
parsed, `program` as it was folded, `routines` as they were generated; then `frames` and `out`
while CPython executes one instruction after the other. The instructions are external to
the repository and modelled from how the generator uses them; everything that
produces them is translated from it. A jump goes to a label, which has a place of its own
in the code. Two cases of the generator are out of the model: names that are called and are
also locals (`PUSH_NULL` follows the callable then), and instances.

`PyFrBExecutor` and `FrBInterpreter` are big-step interpreters of the same trees: a function
from a program to a record with what it printed and how it ended. `FrBInterpreter` has a heap,
because `:=` shares objects and a `For` loop increments its object in place; the literals
of the program keep the objects `FrBLiterals` models. The three sides differ in places, and each
such place is named where it is met: the `departures` of a run. The properties compare the
runs that met none, which says exactly how far the three agree:

| Departure | Where | What differs |
|---|---|---|
| `loop variable` | `executor.py:270` | an assignment to the variable of a loop in its body is lost to the executor |
| `And of numbers` | `optimizer.py:153` | folding yields an operand, the executor a Boolean |
| `method as operand` | `executor.py:436` | the executor calls a method that is an operand |
| `overload` | `bytecodegen.py:467` | of two methods with one name the bytecode has the last |
| `unassigned` | `executor.py:383` | an unknown name is None, a NameError, or refused by the C++ resolution |
| `spelling` | `bytecodegen.py:473` | classes and methods are found in any case by the executor, as they are spelled by the bytecode and the C++ interpreter; variables that differ in their case are one for PyFrB, two in C++ |
| `nothing printed` | `executor.py:555` | None is printed as an empty line by the executor, as None by the bytecode |
| `DownTo with Step` | `frbstat.cpp:538` | the C++ loop subtracts the step, the Python ones add it |
| `moving bound` | `frbstat.cpp:579` | limit and step are evaluated at each turn in C++, once in Python |
| `alias` | `frbstat.cpp:541` | a C++ loop increments an object that other variables hold as well |
| `Mod` | `int.def` | signs of the remainder differ; zero as divisor is undefined in C++ |
| `ill typed` | `frbexpr.cpp:1167` | the C++ resolution refuses what Python only finds when it runs |

### Two parsers, one text: `FrBGrammar`, `FrBSyntax`, `PyFrBParser`, `FrBReadings`

`FrBSyntax` reads a program that is written while it is read. `todo` is what the rules under
way still have to read: where the grammar has a choice (`Choose`) the program takes any
alternative, then its tokens are shifted and its actions run at the place they have in
the rule. A behaviour is a program with its reading, and the states are all the
beginnings of all the programs of a size. The conflicts of the grammar are settled as
bison settles them (`Decision`), from the declared levels: an operator that was read waits in
`values` until `Reduce` sees the token that follows its right operand.

The actions are those of `syntaxer.y`, on the stacks of `frbsyntaxer.h`. A node is known by
the place in the text where its action ran; `content` has for each class, function and
block the nodes that were put in it, which is the tree. An error ends the process: `status`
is then "refused".

`PyFrBParser` gives for the same tokens what `Parser` returns: each operator is a method of
the class, with its result or the exception, or that it loops for ever. The trees have
the same form, so that they can be compared.

All names are one token, as are all types: redeclared names, constructors and the numbering
of variables are outside (`FrBStack` has the last). A member ends its line. Literals, `New`, `Cast` and arrays
are operands like an identifier and are left out.

`SameReading` compares the trees where the two mean to agree, and says where they do not:

- PyFrB has no `With`, `Delete`, `Optional` and `ParamArray`, and no operators named by a word
  (`Supported`);
- an `Else` after an `If` on one line belongs to that `If` in PyFrB; the C++ grammar has no such
  Else, and gives it to the block `If` around (`InlineElse`);
- an expression has two operators that the two order differently (`Alike`): in C++ `Not` takes
  everything down to a comparison, `Is` and `In` bind before arithmetic, `-` and `#` before `.`; in PyFrB `Not` binds first
  and `Is` and `In` are comparisons; `&` is below or above assignments, logic and comparisons; `And`
  equals `Or` or is above it; `Mod` is below `*` or equals it.

## Runs

| Run | Shows | Bounds, and why they are enough |
|---|---|---|
| `heap` | no object in use is overwritten or deleted, positions and counts are exact (`StorageSound`); the final deletion frees all (`NothingLeaks`) and deletes twice only what a free block still names (`FaultsOnlyFromStaleBlocks`); the blocks implement `FrBHeap` | three objects, storage from one block with the smallest growth: every branch of `addObject`, reuse of a block and of an address, a collection inside `addObject`. The proofs remove the bounds |
| `event_walks` | a raise skips no registration that was there and stayed, and calls slots of other events only when they are new (`CallsRightSlots`); it never goes back (`OnlyForward`), and ends (`RaisesEnd`) | two events, one relayed to the other, three registrations, raises open up to four deep, which is never reached: a slot can erase the current node, the next one and the stop, register at both ends, and raise again |
| `event_instance` | finding 1 | two objects, one raise |
| `stack_frames` | frames are balanced, in memory and bounded (`FramesSound`); the stack implements `FrBActivations` | two functions, up to two arguments and two locals, the overflow reached, growth by the smallest step |
| `stack_omitted` | finding 2 | one optional parameter, called with and without |
| `templates` | an entry gets an instance of its own template and argument, and instances waiting to be resolved are unique (`InstancesShared`); all are resolved once and are in the tree at the end (`AllResolved`) | all programs of two templates with one expression per prototype and body, nested uses in the main class; four classes, after which a run stops |
| `literals` | a literal keeps its value, every object has one owner and is deleted once, but for the two cases above (`LiteralsIntact`); a loop between literals runs over the values its text says (`LoopCounts`) | two variables and two literals reach every aliasing, three Bool literals share both objects; loops two deep, two turns; integers from -1 to 1, so that every loop meets the wrap |
| `compile` | folding keeps what a program does and the bytecode does what the executor does (`CompilingKeeps`); its operand stack is empty between statements, its labels are placed once, no method runs off its end (`CodeWellFormed`); the executor does what the C++ interpreter does, and a Function the syntaxer accepts returns on all paths (`LegacyKept`) | main declares a variable and runs any two of about sixty statements, with five functions to call, overloaded or not: every kind of statement and of expression of the five modules, nested loops, Returns in loops, conditions that fold, that do not and that do in part. Values up to 9 in size are followed (`WordLimit`), loops up to 12 turns, 4 calls deep, 12 lines of output; a run that passes a bound is not compared. Ten statements spell a name in another case: variables, which executor and bytecode take alike, and classes and methods, which they do not. A module with a global name that exists nowhere is not loaded, and not compared |
| `syntax` | the stacks of the parser hold what the rules have open, each in the one below (`BlocksMatch`); an expression has its tokens in order and each operator the operands of its precedence (`PrecedenceObeyed`); PyFrB reads the same tree, and its loops end on whole programs, and on a text cut at the end of a line exactly when no `For`, `If` or operator is open (`ReadAlike`) | all programs of four kinds. A field whose value has three operators, one of each level, or two of any: every pair of operators on either side of an operand, with brackets, calls and members. Any three parts of the whole grammar: each rule with each other in it. A Sub with four blocks: Ifs with their branches and Fors in one another |
| `startup` | shared fields are initialised in the order of the text, each once, and an initialiser sees what comes before it and nothing else (`StartsAsWritten`); any start comes to an end (`Ends`); main is reached with all values unless instances lead to one another or something later is read, and PyFrB initialises each class once unless its fields lead back to it, and comes to the same values (`LazyAsLegacy`); an event of PyFrB calls what was registered, until something is unregistered by a new reference (`SlotsKeepPromise`) | all programs of two classes beside each other with up to three fields, of one inside the other and of one template with up to two, every initialiser; calls eight deep, which only endless programs reach; one event with two references and two raises open |
| `typing` | a value at run time has the class that was checked (`ValuesFitTypes`), an expression fails in known ways and is told as what it is (`FailuresKnown`); a name means the member a reader finds (`NamesResolve`) and a call takes the best overload (`OverloadBest`) | four programs, each with the same names for members of different kinds, an inner class that hides one outside, or overloads of every degree; expressions of every kind with small operands, each after one that fills a variable, one of them with what a Function value gives; Functions answer Null or not, Subs the Void object or nothing |
| `trees` | owners are counted, nothing dangles, copies do not reach into the template, and an index is moved once (`TreeSound`); the tree is misused (`FaultsNamed`) and leaks (`LeaksNamed`) only where named | 520 programs: one function for main and one for the template with every kind of node, fields, bases, destructors and inner classes beside; two instances, the second after the first is resolved |

Symmetry is used on sets of interchangeable addresses and instances only, and in no
run with a temporal property that it could hide: `ImplementsHeap` is a step property.
`literals` uses a view that forgets the names of the objects.
Deadlock is not checked where a run may stop: at a bound, after undefined behaviour,
at the end of a program.

**Fairness.** `Ends` of `startup` needs that `main` goes on (`WF` of its next step): it is one thread, and each
of its steps is determined once the program is given. `RaisesEnd` in `event_walks` needs more: `FairSpec` of `FrBEvents` says that the loop of
`raiseEvent` goes on when it can and that slots return. The interpreter is one
thread that is never descheduled; that slots return is the assumption on the
program without which no raise ends. Bounds on registrations and raises keep a slot from
working for ever.

## Proofs

`FrBMemory_proofs` proves, for every set of addresses, every initial size, threshold and
growth the constructor accepts (`MemoryAssumption`):

- `StorageStaysSound` (`StorageSound`) and `HeapTypes` (`TypeOK`), both from
- `HeapConsistent`: `IInv`, which is `TypeOK`, `NextIsFree`, `PosIsBlock`, `UsedIsAlive` and
  `UnavailableExact`. None of the parts is inductive alone: that the next block is free
  needs the exact count (growth is decided by it), the count needs that blocks in use and
  managed objects are in one-to-one correspondence (a collection subtracts one per
  garbage block and frees one per object it deletes), and that needs the next block to be
  free. The proof states the correspondence as a predicate of the storage (`Consistent`),
  shows that a collection keeps it (`SweptConsistent`), that growth leaves room
  (`RoomyEnough`) and that a store in a free block keeps it (`StoreConsistent`); `addObject`
  composes the three.
- `DoubleDeletionIsStale` (`FaultsOnlyFromStaleBlocks`): collections never delete twice;
  only the destructor can, and only through a block that kept the address of an object
  a collection deleted.
- `EverythingFreed` (`NothingLeaks`).
- `HeapRefinement` (`ImplementsHeap`): each action maps to an action of `FrBHeap` or a
  stutter.

`FrBStack_proofs` proves, for all functions with any numbers of parameters and local variables,
every value, limit and growth (`StackAssumption`):

- `FramesStaySound` (`FramesSound`), which joins `FramesBalanced` (`Balanced`), `StaysInMemory` (`InMemory`)
  and `OverflowBounds`; `StackTypes` (`TypeOK`).
- `StackConsistent`: `IInv`, from which the first two and the types follow. To `Balanced` and `InMemory` it adds that the frames lie
  one above the other (`Stacked`): `Balanced` gives the size of each frame, and only `Stacked` that
  no activation, however deep, reaches above the one on top.
- `OverflowBounds` (`HeightBounded`). Not inductive alone: when the running activation ends, the
  bound must hold of the one below without the frame that justified it. `Limited` states the bound
  at the height of each activation in progress, with the frames and the initialisers that were
  there when it was entered (`InitialisedBy`), and a return drops only the last of these facts.
- `StackRefinement` (`ImplementsActivations`), when no parameter may be omitted
  (`AllArguments`; finding 2 is what happens otherwise). Then `Full` joins the invariant: each frame
  has a cell for each parameter. The cell of a variable lies in the frame of its activation
  (`CellInFrame`) and no two variables of a function have the same distance (`DistanceIsOwn`), so
  a push, an assignment or a pop changes the variables of the running activation and no other.

`FrBEvents_proofs` proves, for any number of events, registrations and nested raises
(`EventsAssumption`):

- `RightSlotsCalled` (`CallsRightSlots`), `WalksGoForward` (`OnlyForward`) and `EventTypes` (`TypeOK`), all from
- `WalksStaySound`: `IInv`. Of each activation of `raiseEvent`, however deep, it says where its iterator and its stop
  can be (`Placed`: at a node of the pool, unless a slot that still runs erased it), that the iterator is
  before the stop as long as the stop exists (`BeforeStop`), that the stop is before all the slots other events had when
  the raise began (`StopsInTime`), and `CallsRight`. `CallsRightSlots` is not inductive alone: that no slot of another event
  is called needs the stop, and the stop is only a bound while the iterator has not gone past it.
  Each operation of the pool is proved to keep `Sound` of every activation, the ones below included; the order of
  the nodes is total (`FirstIsFirst`), and a set of numbers has a least element (`LeastElement`).

`FrBTemplates_proofs` proves, for any program, any templates and any limit on classes
(`TemplatesAssumption`):

- `InstancesStayNamed`: `IInv`, that an instance in the environment is there under its own name and unresolved
  but for the current one (`WaitsUnresolved`), and that every class that is not there was resolved and has
  a namesake in the tree (`WaitsOrPlaced`). From it `TemplateTypes` (`TypeOK`) and `OneInstanceWaits` (`OneWaiting`).
- `EntriesShareInstances` (`InstancesShared`) and `InstancesReachTree` (`AllResolved`), when no two templates have the same
  short name (`NamesDiffer`). The hypothesis is the code's: `createInstance` makes its key from the short name of
  the template (`frbtemplatepool.cpp`), so two templates named alike in different classes would share instances.

`FrBLiterals_proofs` proves, for any variables, literals and loops, and integers of any width
(`LiteralsAssumption`):

- `LiteralsStayIntact` (`LiteralsIntact`), `LoopsCountRight` (`LoopCounts`) and `LiteralTypes` (`TypeOK`), from
- `ObjectsStaySound`: `IInv`. `Intact` and `Collected` are stated of a heap, the objects of the literals and the variables as parameters,
  because an operand that is evaluated changes the first two in the middle of a statement: `Yields` says what one evaluation
  leaves, and each statement goes from there. That a loop counts (`Counts`) needs both: its
  bound is a literal that keeps its value, and its variable holds an object no unmarked literal has.
  The value of the n-th turn is a remainder of a sum of n steps; the lemmas about `Wrap` reduce it to one step.
- The end of `main` (`Ending`): who was deleted is exactly what the heap had and what the literals
  destroyed so far had (`Gone`), and who asked too late (`Asked`), after each single `FreeLiteral` in any order.

`FrBStartup_proofs` proves, for any classes in any tree, any fields and initialisers, and any bound on the stack
(`StartupAssumption`):

- `OrderIsAsWritten` (`InitsAsWritten`) and `StartHasItsShape` (`TypeOK`).
- `StartInv` is the shape. `TypeOK` is not inductive: that an activation may store its next field needs storage of the size
  of its class, which was made when the activation began, by `Index` of the fields that are left (`CallSet`), and that the activation below is at
  the field this one is for (`Nested`).
- The order is an equation. `Remains` is what the activations on the stack have still to initialise, innermost first, and
  `InOrder` says that `inits` followed by it is `Order`, in every state: so each step of `sharedInit`, `initSharedField` and
  `evalDefaultValue` is proved to take the first pair of `Remains` to the end of `inits`, or to change neither. `Order` is a recursive function over the
  tree of classes; that it unfolds at a class is an induction over the height of the class (`IsTree`), and that no pair is
  twice in it (`Distinct`) is what makes "exactly when it comes before" of `EarlyReads` follow.
- `NothingUnset` (`OrderedMeansDefined`), from `DefinedSoFar`: every field and every shared field that is not left to an activation has a
  value (`AllSet`). `Tower` says whose turn it is: an instance lies above the activation whose field makes it, is younger than all below it, and its fields
  are left in ascending order, so an initialiser that names an earlier field names one that is set.
- `StartKeepsPromise` (`StartsWhenOrdered`), if `DeepEnough`: the stack holds three calls for each class. The lists of classes and of shared fields are bounded by the
  height of the tree (`Deep`). So a stack that is full has more instances in it than there are classes, two are of the same class, and the
  activations between them are a way from the class to itself: `Closure`, `Cardinality(Class)` rounds of adding what a class makes, is proved
  to be the least closed set (`ClosureClosed`, `ClosureLeast`). In the other direction, a start that came to main made all its instances: each class a finished
  field leads to has an instance that is younger than the one whose field it was (`Spawns`), which a cycle would continue for ever (`CalledFinite`).
  The bound is needed: on a stack that is smaller than the tree any program overflows. The run `startup` has eight calls for two classes.
- `FilledSoFar` is what the theorems about PyFrB start from: each shared field that was initialised by an initialiser of its own holds `Val`, an instance of the class
  its initialiser creates, or what the field it names held when it was read; if that one was initialised by then, the two are equal since.
  A field is stored once (`NextIsNew`) at a place of its own (`IndexApart`), so no later step disturbs the equation.

`PyFrBRuntime_proofs` composes that with the Python executor, for any methods, references and raises:

- `OrderKept` (`StartsAsWritten`) and `StartKept` (`StartsWhenOrdered`, part of `LazyAsLegacy`): a step of both is one of the
  interpreter or leaves its state alone.
- `BothHaveTheirShape` (`TypesOK`), `EventsKeepPromise` (`SlotsKeepPromise`) and `InstancesAreComplete`, from `RuntimeSound`. It says of each activation
  on the stack, however deep, which fields of its class or instance have a value: those that are not left
  (`ActSound`). `Linked` says that an instance is made for the field the activation below it is at, so that returning stores a value there, and `Whole` that an
  instance without all its fields has an activation of its own. For events, `PromisesKept` relates a raise in progress to the handlers when it began; the
  handlers of an event are compared as bags, and taking the first equal one out is proved to take one of its kind and to keep the order.
- `InitialisationNeverFails` (`OnlyEventsFail`, part of `LazyAsLegacy`), from `OrderSound` on top of it: what an activation reads next and does not wait for is
  initialised, or the activation above it initialises it (`Ready`). The two layers are separate because the first does not need the second: it holds of
  programs whose fields lead back to their class, too, which run until the stack is used up.
- `InitialisedOnce` (`InitializedOnce`, part of `LazyAsLegacy`), if `DeepEnough`. `Reached`, `Cardinality(Nodes)` rounds of adding what a class leads to, is
  the least closed set (`ReachedClosed`, `ReachedLeast`). In one direction, `Tall` says that each activation but the lowest is one the
  activation below it leads to. So a class whose initialisation is begun while it is under way lies twice on the stack and
  leads to itself, and so does some class of a full stack. In the other direction, `Finished` keeps a set of classes and instances, all that was gone through to the end: nothing
  in it leads out of it or to itself, since what joins it led only to what was in it before.
  At the end of `main` the stack is empty and all that was initialised or made is in it.
- `ValuesAgree` (`ValuesAsLegacy`) and with it `LazyStart`, all of `LazyAsLegacy`, if `DeepEnough`. The two sides initialise in different orders and make
  different instances, so no step of one is a step of the other. What both obey are the initialisers: `StartFilled` is `FilledSoFar` where the
  interpreter comes to main, `Agree` says that each value PyFrB has set so far may stand for the one there. A field that names another takes over a value that agrees; an
  instance under construction agrees with the field below it because `Tall` says that field asked for its class. The exception,
  `Garbage`, is what the interpreter read before it was set.

`FrBNames_proofs` proves, for every program whose functions lie in the order of their names, whatever its classes
(`NamesAssumption`: what a multimap guarantees, and TLC evaluates for the programs of the run `typing`), and for as long as the
program stays what it is (`ProgramStays`; `Init` of `FrBTyping` gives a program and no action of it changes one):

- `NamesAreFound` (`NamesResolve`). The range `equal_range` gives is where the functions of that name are: counting the
  functions below a name finds the last of them, because they are in order (`BelowIs`, `RangeIs`). So the range has one function
  exactly when one function has the name (`FunctionNamedIs`), and of the empty ranges only the one at the beginning leaves its end,
  moved back, before the first function: the exception the property names.
- `OverloadTaken`, about any sequence of functions and any number of arguments, and from it `OverloadsFit` (`OverloadBest`). The loop of
  `findOverload` is a recursive function, shown to exist and to unfold (`SearchExists`); its invariant (`FoundAmong`) is that of the functions seen
  none fits, or the one taken fits best and is the first that fits exactly, or else the last of its equals.

Induction over the natural numbers is done by sets: the library's theorems take a predicate, which the provers cannot
instantiate, and `SetInduction` derives the same fact of a set from its least element.

Checked by TLC only:

- the values and failures of expressions (`ValuesFitTypes`, `FailuresKnown`), the trees, and the comparisons of the two parsers and of the three ways to run a program: their definitions are
  `RECURSIVE`, and the prover accepts no module that reaches one. What they say is about all trees, by induction over them;
- liveness (`RaisesEnd`, `Ends`), which is out of the prover's reach.

## Findings

1. `registerEvent` is documented to concern one instance, or all when it is given
   `FrBNull`. `raiseEvent` never looks at the instance: a slot registered for one object
   is called when the event of another is raised (`OnlyItsInstance`).
2. `Optional id As Type := init`: the init is never evaluated. A parameter without an
   argument is a cell of the frame below, which the function then reads and writes (`OmittedHasInit`).

Other disagreements met on the way, which no run of its own shows:

- An instance of a template leaves the environment once it is resolved (`frbparser.cpp:109`); the
  same template and argument met later make a second, different class, although `createInstance` asks "Does this template
  instance alreardy exists ?". Two templates that use each other in their bodies are instantiated for ever.
- A comment of `isCompatibleWith` (`frbclass.cpp:367`) says "void (ie sub return) can not be converted or used in
  expression". The operator `()` of class Function is declared to return Object (`function.def:89`), whatever the function
  in the value is. A Sub called through it gives the Void object (`frbfunction.cpp:324`) or, after a bare Return, a null
  pointer (`frbstat.cpp:497`), and `o := f()` stores it; a Cast of the null pointer, or passing it as the instance of a
  call, is undefined. `ValuesFitTypes` and `FailuresKnown` hold with this exception and not without it.
- PyFrB tells the cases of a name apart in places only: a method called in another case runs in the executor
  (`executor.py:148`) and is missing in the generated module, which looks for the attribute as it is spelled (`bytecodegen.py:380`).
- The README of PyFrB says that its compiler runs the regression inputs. `10-for.frb` has
  `For a := 30 DownTo 5 Step 8`, for which the C++ interpreter prints 30, 22, 14, 6: it
  subtracts the step. The generated module adds it (`bytecodegen.py:295`) and never ends.
- The README says that PyFrB lowers "the same AST". `Not a Is b` is `Not (a Is b)` in the
  interpreter, where `Is` is declared above `Not`, and `(Not a) Is b` in PyFrB (`parser.py:446`). The regression input
  `08-linked_list.frb` has `If Not root Is Nothing Then`.
- A relay, an event registered as the slot of another, is part of `04-event.frb`. The executor of PyFrB
  finds no value for the bare name of an event and refuses it.

## Not modelled, and why

- The lexers: flex generates one, and both turn text into the tokens the models start from.
- Formatting, messages, translations, the command lines, the Qt sketch and the drafts: no state
  to check.
- Builtin operators other than those of Int: they compute a value and keep no state. The form of C++
  functions that takes its arguments as an array of addresses is used by no builtin class.
- `addImportedClass` of the resolve environment has no caller.
- In `FrBStartup` an initialiser is one read or one `New`, and constructors are empty: what any code can do is in
  `FrBStack` and `FrBTyping`.
- In `FrBTrees`: types that name a template inside a template, the tree after an error of resolution, and the order
  in which a node releases its parts, which nobody sees.
- In `FrBSyntax`: the copies of names the actions make, one of which is made after the name was freed
  (`syntaxer.y`, `identifier_expr`), and what a `Current` outside a With reads after the error was reported.
- In `PyFrBRuntime`: a field that holds an event, constructors with code, and the method lookup that
  goes on in the class around.

## Plan

In order of importance:

1. Instances in the comparison of the three ways to run a program: `New`, fields and methods of
   objects in `PyFrBExecutor` and `FrBInterpreter`.
2. The other loops and `Select Case` of the interpreter in `FrBInterpreter`.
