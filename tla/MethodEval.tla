----------------------------- MODULE MethodEval ------------------------------
(***************************************************************************)
(* What a method returns, as eval_method_rtype and prepare_call_scope in   *)
(* src/src/analyze.rs find out, with what they leave in the Method objects *)
(* of src/src/model.rs for the next time.  A model that inherits a method  *)
(* shares the object with its ancestor until one of the two writes to it.  *)
(* A request evaluates without an await, so an evaluation is one step; a   *)
(* method's parameter, if it has one, has no default.                      *)
(***************************************************************************)
EXTENDS Naturals, FiniteSets, SequencesExt

CONSTANTS
  Models, Methods, Types,
  ParentOf,  \* the model that each model inherits from, or NoModel
  Declares,  \* what a model's class does to a method: "none", "base", or "super" if it calls it
  FileOf,    \* the file of a model's class
  Versions,  \* a file's contents; all have their methods at the same places
  Returns,   \* of each version and declared method: what it returns, one after the other
  Arguments, \* the types of the arguments of the calls that are asked about
  MaxSteps,  \* bound: requests and saves
  NoModel, NoType

Slots == Models \X Methods
Unset == <<NoModel, NoModel>>
InParent(s) == <<ParentOf[s[1]], s[2]>>
Files == {FileOf[m] : m \in Models}
\* What a return statement has: a type, the method's parameter, or a call with
\* an argument, of some type or none.
Const(t) == [is |-> "const", type |-> t]
Param == [is |-> "param"]
Call(m, g, arg) == [is |-> "call", slot |-> <<m, g>>, arg |-> arg]

VARIABLES
  disk,      \* the version of each file
  ast,       \* the version that ast_cache has, or NoType
  ref,       \* the object each method of a model refers to, Unset while it is not populated
  obj,       \* the objects, each named after one of the methods that refer to it
  begun,     \* the methods whose evaluation was ever begun (for NothingLeftPending)
  reentered, \* an evaluation was begun inside of itself
  steps,
  answer     \* what the last request was told

vars == <<disk, ast, ref, obj, begun, reentered, steps, answer>>

----------------------------------------------------------------------------
(* The objects.                                                            *)

\* `known': the parameters are; they are found out by the first evaluation.
Fresh == [pending |-> FALSE, known |-> FALSE, cache |-> [k \in {} |-> NoType]]
Cloned(o) == [o EXCEPT !.pending = FALSE, !.cache = [k \in {} |-> NoType]]
Shared(st, s) == \E t \in Slots \ {s} : st.ref[t] = st.ref[s]
Unused(st) == CHOOSE o \in Slots : \A s \in Slots : st.ref[s] # o
\* Arc::make_mut: a method that others share gets an object of its own.
MakeMut(st, s) ==
  IF Shared(st, s)
  THEN [st EXCEPT !.obj[Unused(st)] = Cloned(st.obj[st.ref[s]]), !.ref[s] = Unused(st)]
  ELSE st

\* populate_properties, of the methods: the ancestor's are shared, the model's
\* own are new, or are written to the ancestor's as overrides.
Exists(s) == s[1] # NoModel /\ (Declares[s] # "none" \/ \E m \in Models :
               m # s[1] /\ ParentOf[s[1]] = m /\ Declares[<<m, s[2]>>] # "none")
Place(st, s) ==
  LET inherited == ParentOf[s[1]] # NoModel /\ Exists(InParent(s))
      shared == [st EXCEPT !.ref[s] = st.ref[InParent(s)]]
  IN  CASE st.ref[s] # Unset \/ ~Exists(s) -> st
        [] inherited /\ Declares[s] = "none" -> shared
        [] inherited /\ Declares[s] # "none" -> MakeMut(shared, s)
        [] OTHER -> [st EXCEPT !.obj[Unused(st)] = Fresh, !.ref[s] = Unused(st)]
PlaceAll(st, m) == FoldLeft(LAMBDA u, g : Place(u, <<m, g>>), st, SetToSeq(Methods))
RECURSIVE Populate(_, _)
Populate(st, m) == IF m = NoModel THEN st ELSE PlaceAll(Populate(st, ParentOf[m]), m)

\* The class whose body is evaluated: the first place of the method.  An
\* override that calls super() comes behind what it overrides.
RECURSIVE First(_)
First(s) ==
  IF ParentOf[s[1]] # NoModel /\ Exists(InParent(s)) /\ Declares[s] # "base"
  THEN First(InParent(s)) ELSE s
Chain(s) == {s} \cup (IF ParentOf[s[1]] = NoModel THEN {} ELSE {InParent(s)})
InFile(s, f) == \E t \in Chain(s) : Declares[t] # "none" /\ FileOf[t[1]] = f

----------------------------------------------------------------------------
(* Evaluation.                                                             *)

\* prepare_call_scope: arguments count from the second evaluation on.  A key of
\* the cache is the type of the argument.
KeyFor(st, s, arg) == IF st.obj[st.ref[s]].known THEN arg ELSE NoType

\* The end of an evaluation: the object is made the method's own and written to.
\* Mutant: the method is left as it is if no return has a type.
SettleTyped(st, s, key, t) ==
  LET u == MakeMut(st, s)
      o == u.ref[s]
  IN  IF t = NoType THEN st
      ELSE [u EXCEPT !.obj[o].pending = FALSE, !.obj[o].known = TRUE,
                     !.obj[o].cache = [k \in DOMAIN @ \cup {key} |-> IF k = key THEN t ELSE @[k]]]
Settle(st, s, key, t) ==
  LET u == MakeMut(st, s)
      o == u.ref[s]
  IN  [u EXCEPT !.obj[o].pending = FALSE, !.obj[o].known = TRUE,
                !.obj[o].cache =
                  IF t = NoType THEN @
                  ELSE [k \in DOMAIN @ \cup {key} |-> IF k = key THEN t ELSE @[k]]]

\* Mutants: nothing is pending; what was returned for one argument is returned
\* for all.
PendingNever(st, s) == FALSE
Pending(st, s) == st.obj[st.ref[s]].pending
CachedForAny(st, s, key) ==
  LET cache == st.obj[st.ref[s]].cache
  IN  IF DOMAIN cache = {} THEN NoType ELSE cache[CHOOSE k \in DOMAIN cache : TRUE]
Cached(st, s, key) ==
  LET cache == st.obj[st.ref[s]].cache IN IF key \in DOMAIN cache THEN cache[key] ELSE NoType

\* eval_method_rtype of s inside of the evaluations `within'.  An evaluation that
\* is pending has no type; the first return that has one decides.
RECURSIVE Eval(_, _, _, _), FirstTyped(_, _, _, _)
Eval(st0, s, arg, within) ==
  LET p == Populate(st0, s[1])
      key == KeyFor(p, s, arg)
      f == FileOf[First(s)[1]]
      st == [p EXCEPT !.obj[p.ref[s]].pending = TRUE, !.begun = @ \cup {s},
                      !.ast[f] = IF @ = NoType THEN p.disk[f] ELSE @]
      r == FirstTyped(st, Returns[st.ast[f]][First(s)], key, within \cup {s})
  IN  CASE ~Exists(s) \/ Pending(p, s) -> [st |-> p, type |-> NoType]
        [] Exists(s) /\ ~Pending(p, s) /\ Cached(p, s, key) # NoType ->
             [st |-> p, type |-> Cached(p, s, key)]
        [] Exists(s) /\ ~Pending(p, s) /\ Cached(p, s, key) = NoType /\ s \in within ->
             [st |-> [p EXCEPT !.reentered = TRUE], type |-> NoType]
        [] OTHER -> [st |-> Settle(r.st, s, key, r.type), type |-> r.type]
FirstTyped(st, returns, key, within) ==
  IF returns = <<>> THEN [st |-> st, type |-> NoType]
  ELSE LET x == Head(returns)
           r == IF x.is = "call" THEN Eval(st, x.slot, x.arg, within)
                ELSE [st |-> st, type |-> IF x.is = "const" THEN x.type ELSE key]
       IN  IF r.type # NoType THEN r ELSE FirstTyped(r.st, Tail(returns), key, within)

----------------------------------------------------------------------------
(* The requests and the saves.                                             *)

State ==
  [disk |-> disk, ast |-> ast, ref |-> ref, obj |-> obj, begun |-> begun, reentered |-> reentered]
NoAnswer == [slot |-> Unset, arg |-> NoType, type |-> NoType]

Init ==
  /\ disk \in [Files -> Versions] /\ ast = [f \in Files |-> NoType]
  /\ ref = [s \in Slots |-> Unset] /\ obj = [o \in Slots |-> Fresh]
  /\ begun = {} /\ reentered = FALSE /\ steps = 0 /\ answer = NoAnswer

\* Which object has which name makes no difference.
Name(st, o) == CHOOSE s \in Slots : st.ref[s] = o
Becomes(st) ==
  /\ disk' = st.disk /\ ast' = st.ast
  /\ ref' = [s \in Slots |-> IF st.ref[s] = Unset THEN Unset ELSE Name(st, st.ref[s])]
  /\ obj' = [s \in Slots |-> IF ref'[s] = s THEN st.obj[st.ref[s]] ELSE Fresh]
  /\ begun' = st.begun /\ reentered' = st.reentered

Answered(s, arg, r) == Becomes(r.st) /\ answer' = [slot |-> s, arg |-> arg, type |-> r.type]

\* A hover or a completion that asks for a method, or for a call of it.
Ask(s, arg) ==
  /\ ~reentered /\ steps < MaxSteps /\ steps' = steps + 1
  /\ Answered(s, arg, Eval(State, s, arg, {}))

\* A file is saved: populate_properties with the file as its filter, for each
\* model of the file.  It writes to every method of the model and of those it
\* inherits from, and forgets the parameters of what the file says.
RECURSIVE Repopulate(_, _, _)
Repopulate(st, m, f) ==
  LET write(u, g) ==
        IF ~Exists(<<m, g>>) \/ u.ref[<<m, g>>] = Unset THEN u
        ELSE LET w == MakeMut(u, <<m, g>>)
             IN  [w EXCEPT !.obj[w.ref[<<m, g>>]].known = @ /\ ~InFile(<<m, g>>, f)]
      own(u, g) == IF Exists(<<m, g>>) THEN MakeMut(u, <<m, g>>) ELSE u
      gs == SetToSeq(Methods)
      taken == FoldLeft(write, st, gs)
      above == IF ParentOf[m] = NoModel THEN taken ELSE Repopulate(taken, ParentOf[m], f)
  IN  FoldLeft(own, PlaceAll(above, m), gs)
Save(f, v) ==
  /\ disk[f] # v /\ steps < MaxSteps /\ steps' = steps + 1
  /\ Becomes(FoldLeft(LAMBDA st, m : Repopulate(st, m, f), [State EXCEPT !.disk[f] = v],
                      SetToSeq({m \in Models : FileOf[m] = f})))
  /\ answer' = NoAnswer

Next ==
  \/ \E s \in Slots, arg \in Arguments \cup {NoType} : Ask(s, arg)
  \/ \E f \in Files, v \in Versions : Save(f, v)

Spec == Init /\ [][Next]_vars

----------------------------------------------------------------------------
(* Properties.                                                             *)

\* The guard of eval_method_rtype takes back `pending_eval' on every way out, so
\* that the method can be evaluated again; but it looks the method up anew, and
\* finds the clone.  Where nobody shares a method it is never left pending; where
\* somebody does, only after the method was evaluated for that other model.
HeirOf(h, s) == h[2] = s[2] /\ ParentOf[h[1]] = s[1] /\ Declares[h] = "none"
Inherited(s, t) ==
  s # t /\ (HeirOf(s, t) \/ HeirOf(t, s) \/ \E u \in Slots : HeirOf(s, u) /\ HeirOf(t, u))
NothingLeftPending ==
  \A s \in Slots : ref[s] # Unset /\ obj[ref[s]].pending => \E t \in begun : Inherited(s, t)

\* Methods may call each other in a circle, and an evaluation that is begun while
\* it is under way would go on until the stack overflows.  It never is, although
\* objects are cloned and their flags cleared between the two.
NoReentry == ~reentered

\* What a method is said to return is what the version that was first parsed
\* says it returns: whatever was asked before, cached, shared and saved.  Where a
\* call has an argument it may not have been counted.  (A circle depends on where
\* it was entered; with a method left pending anything may be missing.)
Said(s) == Returns[ast[FileOf[First(s)[1]]]][First(s)]
Parsed(s) == Exists(s) /\ ast[FileOf[First(s)[1]]] # NoType
Calls(s) ==
  IF Parsed(s) THEN {Said(s)[i].slot : i \in {j \in DOMAIN Said(s) : Said(s)[j].is = "call"}} ELSE {}
RECURSIVE Reach(_)
Reach(S) == LET T == S \cup UNION {Calls(s) : s \in S} IN IF T = S THEN S ELSE Reach(T)
Acyclic(s) == \A t \in Reach({s}) : t \notin Reach(Calls(t))
RECURSIVE Possible(_, _), AnyOf(_, _)
AnyOf(returns, arg) ==
  IF returns = <<>> THEN {NoType}
  ELSE LET x == Head(returns)
           these == CASE x.is = "const" -> {x.type} [] x.is = "param" -> {arg, NoType}
                      [] x.is = "call" -> Possible(x.slot, x.arg)
       IN  (these \ {NoType}) \cup (IF NoType \in these THEN AnyOf(Tail(returns), arg) ELSE {})
Possible(s, arg) == IF Parsed(s) THEN AnyOf(Said(s), arg) ELSE {NoType}
Apart(s) == \A t \in Reach({s}), u \in begun : ~Inherited(t, u)
AnswersRight ==
  answer # NoAnswer /\ Parsed(answer.slot) /\ Acyclic(answer.slot) /\ Apart(answer.slot)
  => answer.type \in Possible(answer.slot, answer.arg)

=============================================================================
