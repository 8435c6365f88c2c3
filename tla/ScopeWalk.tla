------------------------------ MODULE ScopeWalk ------------------------------
(***************************************************************************)
(* How a method's variables are collected (build_scope, walk_scope and     *)
(* type_of_node in src/src/analyze.rs): the named nodes of its syntax tree *)
(* are visited in preorder, up to an offset.  A node has a kind, a start   *)
(* and an end; a node that binds nothing is of kind "other".               *)
(***************************************************************************)
EXTENDS TypeEval, Integers

----------------------------------------------------------------------------
(* Bags: dictionaries that are written to key by key.                      *)

KeyIn(pairs, k) == {i \in DOMAIN pairs : pairs[i][1] = StringKey(k)}
PutKey(pairs, k, t) ==
  IF KeyIn(pairs, k) = {} THEN Append(pairs, <<StringKey(k), t>>)
  ELSE [pairs EXCEPT ![Min(KeyIn(pairs, k))][2] = t]
HasBag(s, v) == Get(s, v).ty = "bag"

\* d['k'] = value, in whatever scope d is.
SetItem(W, node, s) ==
  IF HasBag(s, node.map)
  THEN GetMut(s, node.map,
              BagOf(PutKey(Get(s, node.map).pairs, node.key, OrValue(TypeOf(W, node.right, s)))))
  ELSE s

\* xs.append(value) and d['k'].append(value): the first one says what is in it.  The
\* query tests a capture that the first form does not have: any method will do.
AppendTyped(node, s, t) ==
  LET vacant == KeyIn(Get(s, node.map).pairs, node.key)
  IN  CASE t = NoType -> s
        [] t # NoType /\ node.key = "" ->
             IF Get(s, node.map) = ListOf(NoType) THEN GetMut(s, node.map, ListOf(t)) ELSE s
        [] t # NoType /\ node.key # "" /\ HasBag(s, node.map) ->
             IF \E i \in vacant : Get(s, node.map).pairs[i][2] = ListOf(NoType)
             THEN GetMut(s, node.map, BagOf([Get(s, node.map).pairs EXCEPT
                    ![Min({i \in vacant : Get(s, node.map).pairs[i][2] = ListOf(NoType)})][2] = ListOf(t)]))
             ELSE s
        [] OTHER -> s
AppendValue(W, node, s) == AppendTyped(node, s, TypeOf(W, node.right, s))

\* d.update(other, k=value, **more): what d had is taken from the scope that has
\* it and, with the rest, put into the innermost.  The first argument is looked
\* at for a dictionary only.
Extended(pairs, t) == IF t.ty = "bag" THEN pairs \o t.pairs ELSE pairs
\* Mutant: what the dictionary had is not put back.
UpdateAnew(W, node, s) ==
  LET first == IF node.args = <<>> THEN NoType ELSE TypeOf(W, Head(node.args).value, s)
  IN  IF HasBag(s, node.map) THEN Insert(s, node.map, BagOf(Extended(<<>>, first))) ELSE s
PutArgument(pairs, i, arg, t) ==
  CASE arg.is = "keyword" /\ i > 1 -> PutKey(pairs, arg.key, OrValue(t))
    [] arg.is = "splat" /\ i > 1 -> Extended(pairs, t)
    [] arg.is = "plain" /\ i = 1 -> Extended(pairs, t)
    [] OTHER -> pairs
UpdateTaken(W, node, s, pairs) ==
  Insert(s, node.map,
         BagOf(FoldLeft(LAMBDA ps, i : PutArgument(ps, i, node.args[i], TypeOf(W, node.args[i].value, s)),
                        pairs, [i \in DOMAIN node.args |-> i])))
Update(W, node, s) ==
  IF HasBag(s, node.map)
  THEN UpdateTaken(W, node, GetMut(s, node.map, BagOf(<<>>)), Get(s, node.map).pairs)
  ELSE s

----------------------------------------------------------------------------
(* build_scope, at one node that starts no later than the offset.          *)

Bind(pattern, t, s) == IF t = NoType THEN s ELSE Destructure(pattern, t, s)
BindName(v, t, s) == IF t = NoType THEN s ELSE Insert(s, v, t)
Assign(W, node, s) == Bind(node.left, TypeOf(W, node.right, s), s)
Comprehension(W, node, s) == Bind(node.left, TypeOfIterable(TypeOf(W, node.right, s)), s)
ForLoop(W, node, s) == Comprehension(W, node, Enter(s, TRUE))
\* The parameter of the lambda of a call of mapped and its like, while the
\* offset is in the call.
MappedCall(W, node, s) == BindName(node.iter, TypeOf(W, node.callee, s), s)
With(W, node, s) == BindName(node.alias, TypeOf(W, node.right, s), s)

Enters(node) == node.n \in {"for", "def"}
Inside(node, offset) == node.start <= offset /\ offset < node.end
Within(node, offset) == node.start <= offset /\ offset <= node.end
BuildScope(W, node, s, offset) ==
  CASE node.n = "assign" -> Assign(W, node, s)
    [] node.n = "setitem" -> SetItem(W, node, s)
    [] node.n = "for" -> ForLoop(W, node, s)
    [] node.n = "def" -> Enter(s, node.method)
    [] node.n = "comprehension" /\ Inside(node, offset) -> Comprehension(W, node, s)
    [] node.n = "mapped" /\ Within(node, offset) -> MappedCall(W, node, s)
    [] node.n = "append" /\ ~Within(node, offset) -> AppendValue(W, node, s)
    [] node.n = "update" /\ ~Within(node, offset) -> Update(W, node, s)
    [] node.n = "with" -> With(W, node, s)
    [] OTHER -> s

\* walk_scope: at most one scope is left at each node.
Walking(s) == [scope |-> s, ends |-> <<>>, done |-> FALSE]
\* Mutant: the end is forgotten, and the scope stays.
LeftOpen(w, node) ==
  IF w.ends # <<>> /\ node.start > Last(w.ends) THEN [w EXCEPT !.ends = Front(@)] ELSE w
Left(w, node) ==
  IF w.ends # <<>> /\ node.start > Last(w.ends)
  THEN [w EXCEPT !.scope = Exit(@), !.ends = Front(@)] ELSE w
Visit(W, w, node, offset) ==
  LET u == Left(w, node)
  IN  IF w.done THEN w
      ELSE IF node.start > offset THEN [u EXCEPT !.done = TRUE]
      ELSE [u EXCEPT !.scope = BuildScope(W, node, @, offset),
                     !.ends = IF Enters(node) THEN Append(@, node.end) ELSE @]
WalkScope(W, nodes, s, offset) ==
  FoldLeft(LAMBDA w, node : Visit(W, w, node, offset), Walking(s), nodes).scope

\* type_of_range: the scope of a method starts with its self, which is also
\* what super() stands for; then the type of an expression that ends at offset.
MethodScope(m, self) == << [vars |-> [x \in {self} |-> Model(m)], super |-> self] >>
TypeOfRange(W, nodes, m, self, x, offset) ==
  TypeOf(W, x, WalkScope(W, nodes, MethodScope(m, self), offset))

\* diagnose_python_scope: the attributes, by their start, that no model of that
\* kind has, found in one walk to the end of the method.
Undiagnosed ==  \* MODEL_BUILTINS and what starts with "_"
  {"env", "id", "ids", "display_name", "mapped", "grouped", "filtered", "read", "_read_group", "_origin"}
Lacks(W, m, a) ==
  /\ a \notin Undiagnosed \cup ModelMethods
  /\ m # "none" /\ a \notin DOMAIN W.fields[m] \cup W.methods[m]
DiagnoseAt(W, w, node, found) ==
  [walk |-> w,
   found |-> IF /\ ~w.done /\ node.n = "attribute"
                /\ Lacks(W, ResolveModel(W, TypeOf(W, node.of, w.scope), w.scope), node.attr)
             THEN found \cup {node.start} ELSE found]
DiagnoseScope(W, nodes, m, self) ==
  FoldLeft(LAMBDA d, node : DiagnoseAt(W, Visit(W, d.walk, node, nodes[1].end), node, d.found),
           [walk |-> Walking(MethodScope(m, self)), found |-> {}], nodes).found

=============================================================================
