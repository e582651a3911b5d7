------------------------------ MODULE FrBExceptions ------------------------------
(***************************************************************************)
(* The exceptions of the interpreter (frbexceptions.h), by their names     *)
(* without FrB and Exception: what each inherits from, what a function     *)
(* with a throw() lets out, and which handler of main() takes it.          *)
(***************************************************************************)
EXTENDS Naturals, Sequences, SequencesExt, FiniteSets, FiniteSetsExt

(* An exception and its bases.  No inheritance is virtual. *)
Kinds ==
  "Exception" :> {} @@ "Execution" :> {"Exception"} @@ "Return" :> {"Execution"} @@ "Resolve" :> {"Exception"}

Executions ==
  [e \in {"InvalidLValue", "Allocation", "StackOverflow", "UndeclaredIdentifier", "NullReference"} |-> {"Execution"}]

(* What is not found, or does not fit, when the tree is resolved or when the program runs. *)
Both ==
  [e \in {"MemberNotFound", "IncompatibleClass"} |-> {"Execution", "Resolve"}]
  @@ [e \in {"FieldNotFound", "FunctionNotFound", "ClassNotFound"} |-> {"MemberNotFound"}]
  @@ [e \in {"FunctionAmbiguity", "DefaultCtorNotFound", "DtorNotFound"} |-> {"FunctionNotFound"}]

Resolves ==
  [e \in {"InvalidNonShared", "MeInShared", "DecWithoutDefaultCtor", "InheritsSealed", "TemplateBadArgCount"} |-> {"Resolve"}]

Bases == Kinds @@ Executions @@ Both @@ Resolves
Exceptions == DOMAIN Bases

(* How many subobjects of each class an exception has. *)
Subobjects[e \in Exceptions] ==
  [b \in Exceptions |-> (IF b = e THEN 1 ELSE 0)
     + MapThenSumSet(LAMBDA direct : Subobjects[direct][b], Bases[e])]

(* A handler takes what has one base of its class: for two it would not know which. *)
Takes(handler, e) == handler = "..." \/ Subobjects[e][handler] = 1

(* What leaves a function that throws e: anything its specification does not list ends the program. *)
Terminated == "terminated"
Leaving(e, spec) == IF \E t \in spec : Takes(t, e) THEN e ELSE Terminated

(* main() has a handler for every kind of exception, and tells which of them it was; it returns 0 for each. *)
Handlers == <<"Resolve", "Execution", "Exception", "...">>
Told(e)  == Handlers[SelectInSeq(Handlers, LAMBDA h : Takes(h, e))]
================================================================================
