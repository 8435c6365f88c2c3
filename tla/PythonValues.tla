----------------------------- MODULE PythonValues ----------------------------
(***************************************************************************)
(* What the expressions of TypeEval are when Python runs them: the values  *)
(* an expression may have, with a container as the set of what is in it,   *)
(* and which values are of a type.  TypeEval is to be compared with this.  *)
(***************************************************************************)
EXTENDS TypeEval

Prim(b) == [is |-> "prim", of |-> b]
Rec(m) == [is |-> "rec", model |-> m]
Lst(vs) == [is |-> "list", items |-> vs]
Dct(ps) == [is |-> "dict", pairs |-> ps]  \* of keys and values
Tup(vs) == [is |-> "tuple", elems |-> vs]
Environment == [is |-> "env"]

\* What a loop over a value has.
Elements(v) ==
  CASE v.is = "list" -> v.items
    [] v.is = "rec" -> {v}
    [] v.is = "dict" -> {p[1] : p \in v.pairs}
    [] v.is = "tuple" -> {v.elems[i] : i \in DOMAIN v.elems}
    [] OTHER -> {}
At(f, x, v) == [y \in DOMAIN f \cup {x} |-> IF y = x THEN v ELSE f[y]]
\* The key of a pair: a string has its text, anything else what it is.
KeyOf(x, v) == IF x.n \in {"string", "const"} THEN [is |-> "key", of |-> v.of, text |-> x.text] ELSE v
Keyed(d, k) == {p[2] : p \in {q \in d.pairs : q[1] = k \/ (q[1].is # "key" /\ k.is = "key" /\ q[1] = Prim(k.of))}}
Tuples(Ss) ==
  FoldLeft(LAMBDA acc, S : {Append(vs, v) : vs \in acc, v \in S}, {<<>>}, Ss)

\* e has the value of each variable, W the models.  An expression without a value
\* raises an error, and so does what it is a part of.
Unless(missing, values) == IF missing THEN {} ELSE values
FieldValues(W, m, a) ==
  CASE a = "id" -> {Prim("Id")}
    [] a = "ids" -> {Lst({Prim("Id")})}
    [] a \in DOMAIN W.fields[m] ->
         LET t == W.fields[m][a] IN IF t.ty = "model" THEN {Rec(t.name)} ELSE {Prim(t.name)}
    [] OTHER -> {}
RECURSIVE PathValues(_, _, _)
PathValues(W, m, path) ==
  LET vs == FieldValues(W, m, Head(path))
  IN  IF Len(path) = 1 THEN vs
      ELSE UNION {IF v.is = "rec" THEN PathValues(W, v.model, Tail(path)) ELSE {} : v \in vs}
\* mapped gives records as one recordset.
Mapped(v) == IF v.is = "rec" THEN v ELSE Lst({v})

RECURSIVE ValuesOf(_, _, _)
CallOn(W, v, x, e) ==
  LET f == x.func.attr
      lambda(m, g) == ValuesOf(W, g.body, At(e, g.param, Rec(m)))
      per(m) == IF x.args[1].n = "path" THEN PathValues(W, m, x.args[1].names) ELSE lambda(m, x.args[1])
  IN  CASE v.is = "env" /\ f = "ref" -> {Rec(W.records[x.args[1].text])}
        [] v.is = "rec" /\ f \in ModelMethods -> {v}
        [] v.is = "rec" /\ f = "mapped" -> {Mapped(u) : u \in per(v.model)}
        [] v.is = "rec" /\ f = "grouped" -> {Dct({<<u, v>>}) : u \in per(v.model)}
        [] v.is = "rec" /\ f = "_read_group" ->
             {Lst({Tup(vs)}) : vs \in Tuples([i \in DOMAIN x.fields |->
                IF x.fields[i] = "id:recordset" THEN {v} ELSE FieldValues(W, v.model, x.fields[i])])}
        [] v.is = "rec" /\ f = "read" ->
             {Lst({Dct(UNION {{<<[is |-> "key", of |-> "str", text |-> a], u>> : u \in FieldValues(W, v.model, a)}
                              : a \in ToSet(x.fields)})})}
        [] v.is = "dict" /\ f = "items" -> {Lst({Tup(<<p[1], p[2]>>) : p \in v.pairs})}
        [] v.is = "dict" /\ f = "get" ->
             UNION {Keyed(v, KeyOf(x.args[1], k)) : k \in ValuesOf(W, x.args[1], e)}
        [] OTHER -> {}
ValuesOf(W, x, e) ==
  LET of == ValuesOf(W, x.of, e)
      args == [i \in DOMAIN x.args |-> ValuesOf(W, x.args[i], e)]
  IN
  CASE x.n = "string" -> {Prim("str")}
    [] x.n = "const" -> {Prim(x.of)}
    [] x.n = "name" -> IF x.id \in DOMAIN e THEN {e[x.id]} ELSE {}
    [] x.n = "attr" ->
         UNION {CASE v.is = "rec" /\ x.attr = "env" -> {Environment}
                  [] v.is = "rec" /\ x.attr # "env" -> FieldValues(W, v.model, x.attr)
                  [] v.is = "env" /\ x.attr = "user" -> {Rec("res.users")}
                  [] OTHER -> {} : v \in of}
    [] x.n = "subscript" ->
         UNION {CASE v.is = "env" -> IF x.key.n = "string" THEN {Rec(x.key.text)} ELSE {}
                  [] v.is = "dict" -> UNION {Keyed(v, KeyOf(x.key, k)) : k \in ValuesOf(W, x.key, e)}
                  [] v.is \in {"rec", "list", "tuple"} -> IF x.key.n = "const" THEN Elements(v) ELSE {}
                  [] OTHER -> {} : v \in of}
    [] x.n = "either" ->
         LET left == ValuesOf(W, x.left, e)
             right == ValuesOf(W, x.right, e)
         IN  Unless({} \in {left, right}, left \cup right)
    [] x.n = "list" ->
         LET Ss == {ValuesOf(W, x.items[i], e) : i \in DOMAIN x.items}
         IN  Unless({} \in Ss, {Lst(UNION Ss)})
    [] x.n = "tuple" -> {Tup(vs) : vs \in Tuples([i \in DOMAIN x.items |-> ValuesOf(W, x.items[i], e)])}
    [] x.n = "dict" ->
         LET Ss == {{<<KeyOf(x.pairs[i][1], k), v>> : k \in ValuesOf(W, x.pairs[i][1], e),
                                                     v \in ValuesOf(W, x.pairs[i][2], e)}
                    : i \in DOMAIN x.pairs}
         IN  Unless({} \in Ss, {Dct(UNION Ss)})
    [] x.n = "dictcomp" ->
         {Dct(UNION {LET u == At(e, x.pattern.id, i)
                     IN  {<<k, v>> : k \in ValuesOf(W, x.key, u), v \in ValuesOf(W, x.value, u)}
                     : i \in UNION {Elements(v) : v \in ValuesOf(W, x.in, e)}})}
    [] x.n = "call" -> UNION {CallOn(W, v, x, e) : v \in ValuesOf(W, x.func.of, e)}
    [] x.n = "builtin" /\ x.func = "super" -> {e["self"]}
    [] x.n = "builtin" /\ x.func = "zip" ->
         {Lst({Tup(vs) : vs \in Tuples([i \in DOMAIN x.args |-> UNION {Elements(v) : v \in args[i]}])})}
    [] x.n = "builtin" /\ x.func = "enumerate" ->
         {Lst({Tup(<<Prim("int"), i>>) : i \in Elements(v)}) : v \in args[1]}
    [] x.n = "builtin" /\ x.func = "dict" ->
         {Dct({<<i.elems[1], i.elems[2]>> :
                 i \in {j \in Elements(v) : j.is = "tuple" /\ Len(j.elems) = 2}}) : v \in args[1]}
    [] OTHER -> {}

\* Whether a value is of a type; of a container, whether something in it is.
RECURSIVE Conforms(_, _, _)
Conforms(W, v, t) ==
  LET some(vs, u) == vs = {} \/ \E w \in vs : Conforms(W, w, u)
  IN
  CASE t.ty = "value" -> TRUE
    [] t.ty = "builtin" -> CASE v.is = "prim" -> v.of = t.name
                             [] v.is = "key" -> t.name \in {v.of, v.text} [] OTHER -> FALSE
    [] t.ty = "model" -> v = Rec(t.name)
    [] t.ty = "record" -> v = Rec(W.records[t.name])
    [] t.ty = "env" -> v = Environment
    [] t.ty = "list" -> v.is = "list" /\ (t.of = NoType \/ some(v.items, t.of))
    [] t.ty = "iterable" -> v.is = "list" /\ (t.of = NoType \/ some(v.items, t.of))
    [] t.ty = "tuple" -> /\ v.is = "tuple" /\ Len(v.elems) = Len(t.items)
                         /\ \A i \in DOMAIN t.items : Conforms(W, v.elems[i], t.items[i])
    [] t.ty = "dict" -> /\ v.is = "dict" /\ some({p[1] : p \in v.pairs}, t.key)
                        /\ some({p[2] : p \in v.pairs}, t.of)
    [] t.ty = "bag" ->
         v.is = "dict" /\ \A i \in DOMAIN t.pairs :
           LET k == t.pairs[i][1]
           IN  some({p[2] : p \in {q \in v.pairs :
                       IF k.type = NoType THEN q[1].is = "key" /\ q[1].text = k.string
                       ELSE Conforms(W, q[1], k.type)}}, t.pairs[i][2])
    [] OTHER -> FALSE

=============================================================================
