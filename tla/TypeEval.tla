------------------------------ MODULE TypeEval ------------------------------
(***************************************************************************)
(* What the Python analysis takes an expression to be, and what it knows   *)
(* of the variables at a place of a method (src/src/analyze.rs,            *)
(* src/src/analyze/scope.rs).  An expression is a record whose `n' is the  *)
(* kind of its syntax node; W, the world, has the models: their fields and *)
(* methods, what these are, and the model of each record.                  *)
(***************************************************************************)
EXTENDS Naturals, SequencesExt

----------------------------------------------------------------------------
(* Types.                                                                  *)

NoType == [ty |-> "none"]
Value == [ty |-> "value"]
Env == [ty |-> "env"]
Super == [ty |-> "super"]
Request == [ty |-> "request"]
RefFn == [ty |-> "ref"]
Model(m) == [ty |-> "model", name |-> m]
Record(x) == [ty |-> "record", name |-> x]
ModelFn(m) == [ty |-> "modelfn", name |-> m]
MethodOf(m, g) == [ty |-> "method", name |-> m, method |-> g]
PyMethod(t, g) == [ty |-> "pymethod", of |-> t, method |-> g]
Builtin(b) == [ty |-> "builtin", name |-> b]
ListOf(t) == [ty |-> "list", of |-> t]       \* of NoType while it is vacant
IterableOf(t) == [ty |-> "iterable", of |-> t]
DictOf(k, v) == [ty |-> "dict", key |-> k, of |-> v]
TupleType(ts) == [ty |-> "tuple", items |-> ts]
BagOf(ps) == [ty |-> "bag", pairs |-> ps]    \* pairs of a key, a string or a type, and a type
StringKey(k) == [string |-> k, type |-> NoType]
TypeKey(t) == [string |-> "", type |-> t]
OrValue(t) == IF t = NoType THEN Value ELSE t
OrElse(t, u) == IF t # NoType THEN t ELSE u
IsDictLike(t) == t.ty \in {"dict", "bag"}

----------------------------------------------------------------------------
(* Scopes: the innermost last; each has its variables and the parameter    *)
(* that super() stands for.                                                *)

EmptyScope == << [vars |-> <<>>, super |-> ""] >>
Has(s, v) == \E i \in DOMAIN s : v \in DOMAIN s[i].vars
FrameOf(s, v) == Max({i \in DOMAIN s : v \in DOMAIN s[i].vars})
Get(s, v) == IF Has(s, v) THEN s[FrameOf(s, v)].vars[v] ELSE NoType
SetVar(f, v, t) == [x \in DOMAIN f \cup {v} |-> IF x = v THEN t ELSE f[x]]
Insert(s, v, t) == [s EXCEPT ![Len(s)].vars = SetVar(@, v, t)]
GetMut(s, v, t) == [s EXCEPT ![FrameOf(s, v)].vars[v] = t]
Enter(s, inherit) ==
  Append(s, [vars |-> <<>>, super |-> IF inherit THEN Last(s).super ELSE ""])
Exit(s) == IF Len(s) > 1 THEN Front(s) ELSE s

\* Scope::iter.  It ends at the first enclosing scope that has no variable.
Iterated(s) ==
  LET empty == {i \in 1..Len(s) - 1 : DOMAIN s[i].vars = {}}
      from == IF empty = {} THEN 1 ELSE Max(empty) + 1
  IN  UNION {DOMAIN s[i].vars : i \in from..Len(s)}

----------------------------------------------------------------------------
(* Attributes.                                                             *)

\* try_resolve_model
RECURSIVE ResolveModel(_, _, _)
ResolveModel(W, t, s) ==
  CASE t.ty = "model" -> IF t.name \in W.models THEN t.name ELSE "none"
    [] t.ty = "record" -> IF t.name \in DOMAIN W.records THEN W.records[t.name] ELSE "none"
    [] t.ty = "super" /\ Has(s, Last(s).super) -> ResolveModel(W, Get(s, Last(s).super), s)
    [] OTHER -> "none"

\* type_of_attribute: a field is what it leads to or what it holds; the names
\* that every model has are looked at last.
OfEveryModel(a) ==
  CASE a = "id" -> Builtin("Id")
    [] a = "ids" -> ListOf(Builtin("Id"))
    [] a = "display_name" -> Builtin("str")
    [] a \in {"create_date", "write_date"} -> Builtin("datetime")
    [] a \in {"create_uid", "write_uid"} -> Model("res.users")
    [] a = "_fields" -> DictOf(Builtin("str"), Model("ir.model.fields"))
    [] a = "env" -> Env
    [] OTHER -> NoType
AttributeOf(W, m, a, otherwise) ==
  CASE m = "none" -> NoType
    [] m # "none" /\ a \in DOMAIN W.fields[m] -> W.fields[m][a]
    [] m # "none" /\ a \notin DOMAIN W.fields[m] /\ a \in W.methods[m] -> MethodOf(m, a)
    [] OTHER -> otherwise
TypeOfAttribute(W, t, a, s) ==
  AttributeOf(W, ResolveModel(W, t, s), a,
              IF t.ty \in {"model", "record"} THEN OfEveryModel(a) ELSE NoType)
BuiltinMethod(m, a) == IF m = "none" THEN NoType ELSE MethodOf(m, a)

ModelMethods == {"browse", "search", "filtered", "sudo"}  \* of the 21 in MODEL_METHODS
TypeOfAttributeOn(W, t, a, s) ==
  CASE a = "env" /\ t.ty \in {"model", "record", "request"} -> Env
    [] a = "website" /\ t = Request -> Model("website")
    [] a = "ref" /\ t = Env -> RefFn
    [] a = "user" /\ t = Env -> Model("res.users")
    [] a \in {"company", "companies"} /\ t = Env -> Model("res.company")
    [] a \in {"mapped", "grouped", "_read_group", "read"} ->
         BuiltinMethod(ResolveModel(W, t, s), a)
    [] a \in {"items", "get"} /\ IsDictLike(t) -> PyMethod(t, a)
    [] a \in ModelMethods ->
         CASE t.ty = "model" -> ModelFn(t.name)
           [] t.ty = "record" /\ t.name \in DOMAIN W.records -> ModelFn(W.records[t.name])
           [] OTHER -> NoType
    [] OTHER -> TypeOfAttribute(W, t, a, s)

\* type_of_iterable
TypeOfIterable(t) ==
  CASE t.ty = "model" -> t [] t.ty \in {"list", "iterable"} -> t.of [] OTHER -> NoType
\* Mutant: records are wrapped, too.
WrapInListAlways(t) == ListOf(t)
WrapInList(t) == IF t.ty = "model" THEN t ELSE ListOf(t)
OfMapped(t) == IF t = NoType THEN NoType ELSE WrapInList(t)
OfGrouped(t, m) == IF t = NoType THEN NoType ELSE DictOf(t, Model(m))

\* resolve_mapped: the model that a path of names leads to, but for its last
\* name; then the type of that.
RECURSIVE PathOwner(_, _, _, _)
PathOwner(W, m, path, s) ==
  CASE Len(path) = 1 -> m
    [] Len(path) > 1 /\ Head(path) \in DOMAIN W.fields[m] /\ W.fields[m][Head(path)].ty = "model" ->
         PathOwner(W, W.fields[m][Head(path)].name, Tail(path), s)
    [] OTHER -> "none"
TypeOfPath(W, m, path, s) ==
  IF PathOwner(W, m, path, s) = "none" THEN NoType
  ELSE TypeOfAttribute(W, Model(PathOwner(W, m, path, s)), Last(path), s)

----------------------------------------------------------------------------
(* Patterns: a name, or a sequence of patterns.                            *)

RECURSIVE Destructure(_, _, _)
Destructure(pattern, t, s) ==
  CASE pattern.n = "name" -> Insert(s, pattern.id, t)
    [] pattern.n = "pattern" /\ t.ty = "tuple" ->
         LET k == IF Len(pattern.items) < Len(t.items) THEN Len(pattern.items) ELSE Len(t.items)
         IN  FoldLeft(LAMBDA u, i : Destructure(pattern.items[i], t.items[i], u), s,
                      [i \in 1..k |-> i])
    [] pattern.n = "pattern" /\ TypeOfIterable(t) # NoType ->
         FoldLeft(LAMBDA u, p : Destructure(p, TypeOfIterable(t), u), s, pattern.items)
    [] OTHER -> s

----------------------------------------------------------------------------
(* Expressions.                                                            *)

\* A subscript: the key is `text', where it is a string, or of type `key'.
PairFor(pairs, text, key) ==
  LET hits == {i \in DOMAIN pairs :
                 IF text # "" THEN pairs[i][1] = StringKey(text)
                 ELSE key # NoType /\ pairs[i][1] = TypeKey(key)}
  IN  IF hits = {} THEN NoType ELSE pairs[Min(hits)][2]
TypeOfSubscript(t, text, key) ==
  CASE t = Env -> Model(IF text # "" THEN text ELSE "unknown")
    [] t.ty \in {"model", "record"} -> t
    [] t.ty = "dict" -> IF key \in {NoType, t.key} THEN t.of ELSE NoType
    [] t.ty = "bag" -> PairFor(t.pairs, text, key)
    [] t.ty = "list" -> t.of
    [] OTHER -> NoType

TextOf(x) == IF x.n = "string" THEN x.text ELSE ""
\* get: by the text of a string, or by the type of what is not one.
GetFrom(pairs, text, key) ==
  LET hits == {i \in DOMAIN pairs :
                 IF pairs[i][1].type = NoType THEN text # "" /\ pairs[i][1].string = text
                 ELSE pairs[i][1].type = key}
  IN  IF hits = {} THEN NoType ELSE pairs[Min(hits)][2]

RECURSIVE TypeOf(_, _, _), TypeOfBuiltinCall(_, _, _), TypeOfMethodCall(_, _, _, _)
TypesOf(W, xs, s) == [i \in DOMAIN xs |-> TypeOf(W, xs[i], s)]
DictOfTypes(k, v) ==
  IF k = NoType /\ v = NoType THEN NoType ELSE DictOf(OrValue(k), OrValue(v))
TypeOfPair(W, x, s) == DictOfTypes(TypeOf(W, x.key, s), TypeOf(W, x.value, s))
IterationScope(of, pattern, s) ==
  IF of = NoType THEN s ELSE Destructure(pattern, of, Enter(s, FALSE))
DictFrom(of) ==
  CASE of = NoType -> NoType
    [] of.ty = "tuple" /\ Len(of.items) = 2 -> DictOf(of.items[1], of.items[2])
    [] OTHER -> DictOf(Value, Value)
Lambda(W, m, f, s) ==
  OrValue(TypeOf(W, f.body, Insert(Enter(s, FALSE), f.param, Model(m))))
TypeOf(W, x, s) ==
  CASE x.n = "string" -> Builtin("str")
    [] x.n = "const" -> Builtin(x.of)      \* int, float, bool, a comparison
    [] x.n = "name" ->
         CASE x.id = "super" -> Super
           [] x.id # "super" /\ Has(s, x.id) -> Get(s, x.id)
           [] x.id = "request" /\ ~Has(s, x.id) -> Request
           [] OTHER -> NoType
    [] x.n = "attr" ->
         LET t == TypeOf(W, x.of, s)
         IN  IF t = NoType THEN NoType ELSE TypeOfAttributeOn(W, t, x.attr, s)
    [] x.n = "subscript" ->
         LET t == TypeOf(W, x.of, s)
         IN  IF t = NoType THEN NoType
             ELSE TypeOfSubscript(t, TextOf(x.key), TypeOf(W, x.key, s))
    [] x.n = "either" ->                   \* binary and boolean operators, a if b else c
         OrElse(TypeOf(W, x.left, s), TypeOf(W, x.right, s))
    [] x.n = "list" ->
         LET ts == SelectSeq(TypesOf(W, x.items, s), LAMBDA t : t # NoType)
         IN  ListOf(IF ts = <<>> THEN NoType ELSE Head(ts))
    [] x.n = "tuple" -> TupleType([i \in DOMAIN x.items |-> OrValue(TypeOf(W, x.items[i], s))])
    [] x.n = "dict" ->
         LET known == SelectSeq(x.pairs, LAMBDA p : TypeOf(W, p[1], s) # NoType)
             key(k) == CASE k.n = "string" -> StringKey(k.text)
                         [] k.n = "const" -> TypeKey(Builtin(k.text))  \* of its text, not its type
                         [] OTHER -> TypeKey(TypeOf(W, k, s))
         IN  BagOf([i \in DOMAIN known |-> <<key(known[i][1]), OrValue(TypeOf(W, known[i][2], s))>>])
    [] x.n = "dictcomp" ->
         TypeOfPair(W, x, IterationScope(TypeOfIterable(TypeOf(W, x.in, s)), x.pattern, s))
    [] x.n = "builtin" -> TypeOfBuiltinCall(W, x, s)
    [] x.n = "call" ->
         LET f == TypeOf(W, x.func, s)
         IN  IF f = NoType THEN NoType ELSE TypeOfMethodCall(W, f, x, s)
    [] OTHER -> NoType

\* Calls of a name: of these and of super only.
TypeOfBuiltinCall(W, x, s) ==
  CASE x.func = "zip" ->
         IterableOf(TupleType([i \in DOMAIN x.args |->
           OrValue(TypeOfIterable(OrValue(TypeOf(W, x.args[i], s))))]))
    [] x.func = "enumerate" ->
         IterableOf(TupleType(<<Builtin("int"),
           IF x.args = <<>> THEN Value ELSE OrValue(TypeOf(W, x.args[1], s))>>))
    [] x.func = "tuple" -> TupleType([i \in DOMAIN x.args |-> OrValue(TypeOf(W, x.args[i], s))])
    [] x.func = "dict" /\ x.args # <<>> ->
         DictFrom(TypeOfIterable(TypeOf(W, x.args[1], s)))
    [] x.func = "defaultdict" /\ x.args # <<>> ->
         DictOf(Value, IF x.args[1].n = "name" /\ x.args[1].id \in {"list", "dict", "float", "int"}
                       THEN Builtin(x.args[1].id)
                       ELSE IF x.args[1].n = "lambda" THEN OrValue(TypeOf(W, x.args[1].body, s))
                       ELSE Value)
    [] x.func = "super" -> Get(s, Last(s).super)
    [] OTHER -> NoType

\* Calls of what is a function of some type.
ReadGroup(W, m, x, s) ==
  ListOf(TupleType([i \in DOMAIN x.fields |->
    IF x.fields[i] = "id:recordset" THEN Model(m)
    ELSE OrValue(TypeOfAttribute(W, Model(m), x.fields[i], s))]))
FieldTypes(W, m, fields, s) ==
  [i \in DOMAIN fields |-> <<StringKey(fields[i]), TypeOfAttribute(W, Model(m), fields[i], s)>>]
Read(W, m, x, s) ==
  ListOf(BagOf(SelectSeq(FieldTypes(W, m, x.fields, s), LAMBDA p : p[2] # NoType)))
TypeOfMethodCall(W, f, x, s) ==
  CASE f = RefFn -> IF x.args # <<>> /\ x.args[1].n = "string" THEN Record(x.args[1].text) ELSE NoType
    [] f.ty = "modelfn" -> Model(f.name)
    [] f.ty = "method" /\ f.method = "mapped" ->
         CASE x.args # <<>> /\ x.args[1].n = "path" ->
                OfMapped(TypeOfPath(W, f.name, x.args[1].names, s))
           [] x.args # <<>> /\ x.args[1].n = "lambda" -> WrapInList(Lambda(W, f.name, x.args[1], s))
           [] OTHER -> NoType
    [] f.ty = "method" /\ f.method = "grouped" ->
         CASE x.args # <<>> /\ x.args[1].n = "path" ->
                OfGrouped(TypeOfPath(W, f.name, x.args[1].names, s),
                          PathOwner(W, f.name, x.args[1].names, s))
           [] x.args # <<>> /\ x.args[1].n = "lambda" ->
                DictOf(Lambda(W, f.name, x.args[1], s), Model(f.name))
           [] OTHER -> NoType
    [] f.ty = "method" /\ f.method = "_read_group" -> ReadGroup(W, f.name, x, s)
    [] f.ty = "method" /\ f.method = "read" -> Read(W, f.name, x, s)
    [] f.ty = "method" /\ f.method \in DOMAIN W.returns -> W.returns[f.method]
    [] f.ty = "pymethod" /\ f.of.ty = "dict" ->
         CASE f.method = "items" -> IterableOf(TupleType(<<f.of.key, f.of.of>>))
           [] f.method = "get" -> f.of.of
           [] OTHER -> NoType
    [] f.ty = "pymethod" /\ f.of.ty = "bag" /\ f.method = "get" /\ x.args # <<>> ->
         GetFrom(f.of.pairs, TextOf(x.args[1]), OrValue(TypeOf(W, x.args[1], s)))
    [] OTHER -> NoType

=============================================================================
