------------------------------ MODULE XmlCursor ------------------------------
(***************************************************************************)
(* What the cursor is on in an XML document (gather_refs in                *)
(* src/src/xml.rs): the tokens of the record around the cursor are read up *)
(* to the end of the tag that has it.  A cursor is in the name or the      *)
(* value of a token, or in the gap behind it; an attribute whose name      *)
(* starts with "t-" may have an expression as its value.                   *)
(***************************************************************************)
EXTENDS XmlReader, TypeEval

Components == {"Dialog"}         \* the tags that start with an upper-case letter
Percented == {"%(act)d"}         \* the names that start with "%("
Expressions == {"t-if", "t-foreach", "t-as", "t-set", "t-value", "t-esc"}
Actions == "ir.actions"          \* for the five of ACTION_MODELS

Kind(k) == [k |-> k, of |-> "", path |-> <<>>]
KindOf(k, of) == [k |-> k, of |-> of, path |-> <<>>]
PropertyOf(path) == [k |-> "property", of |-> "", path |-> path]

NoPair == [lhs |-> <<>>, rhs |-> <<>>]
CursorStart ==
  [tag |-> None, component |-> None, ref |-> 0, kind |-> Kind(None), filter |-> None,
   templates |-> FALSE, view |-> None, arch |-> FALSE, archDepth |-> 0, depth |-> 0,
   expect |-> {}, button |-> None, accesses |-> <<>>,
   scope |-> EmptyScope, foreach |-> NoPair, set |-> NoPair, done |-> FALSE]

Refers(s, i, kind) == [s EXCEPT !.ref = i, !.kind = kind]
RefersOf(s, i, kind, model) == [Refers(s, i, kind) EXCEPT !.filter = model]
RefersToGroups(s, i) == [RefersOf(s, i, Kind("id"), "res.groups") EXCEPT !.view = None]

StartTag(s, t, i, at) ==
  LET u == [s EXCEPT !.expect = @ \ {"model"}, !.depth = @ + 1]
      named == at.token = i /\ at.in = "name"
  IN  CASE t.n \in {"field", "record", "menuitem"} -> [u EXCEPT !.tag = t.n]
        [] t.n = "button" -> [u EXCEPT !.tag = t.n, !.button = None]
        [] t.n = "template" -> [u EXCEPT !.tag = t.n, !.filter = "ir.ui.view"]
        [] t.n = "templates" -> [u EXCEPT !.templates = TRUE]
        [] t.n \in Components /\ s.templates ->
             LET v == [u EXCEPT !.tag = "component", !.component = t.n]
             IN  IF named THEN Refers(v, i, Kind("component")) ELSE v
        [] OTHER -> IF s.arch THEN [u EXCEPT !.tag = None] ELSE u

\* The fields around: an access is left with the element that it was made at.
Access(s, v) ==
  IF s.arch THEN [s EXCEPT !.accesses = Append(@, [field |-> v, depth |-> s.depth])] ELSE s
\* Mutant: with any element.
UnaccessAny(s) ==
  IF s.accesses # <<>> THEN [s EXCEPT !.accesses = Front(@)] ELSE s
Unaccess(s) ==
  IF s.accesses # <<>> /\ Last(s.accesses).depth = s.depth THEN [s EXCEPT !.accesses = Front(@)] ELSE s

FieldAttr(s, t, i, here) ==
  CASE t.n = "name" ->
         CASE here -> Refers(s, i, PropertyOf([k \in DOMAIN s.accesses |-> s.accesses[k].field]))
           [] ~here /\ t.v \in {"model", "res_model"} -> [s EXCEPT !.expect = @ \cup {"model"}]
           [] ~here /\ t.v = "report_name" -> [s EXCEPT !.expect = @ \cup {"template"}]
           [] ~here /\ t.v = "tag" -> [s EXCEPT !.expect = @ \cup {"action"}]
           [] ~here /\ t.v = "arch" -> [s EXCEPT !.arch = TRUE, !.archDepth = s.depth]
           [] OTHER -> Access([s EXCEPT !.kind = KindOf("ref", t.v)], t.v)
    [] t.n = "ref" /\ here -> [s EXCEPT !.ref = i]
    [] t.n = "position" -> Unaccess(s)
    [] t.n = "groups" /\ here -> RefersToGroups(s, i)
    [] t.n = "widget" /\ here /\ s.archDepth > 0 -> Refers(s, i, Kind("widget"))
    [] OTHER -> s
ButtonAttr(s, t, i, here) ==
  CASE t.n = "type" -> [s EXCEPT !.button = t.v]
    [] t.n = "name" /\ here ->
         IF t.v \in Percented \/ s.button = "action" THEN RefersOf(s, i, Kind("id"), Actions)
         ELSE Refers(s, i, Kind("method"))
    [] OTHER -> s
IdAttr(s, i) ==
  LET u == [Refers(s, i, Kind("id")) EXCEPT !.view = None]
  IN  CASE s.tag = "template" -> [u EXCEPT !.filter = "ir.ui.view"]
        [] s.tag = "menuitem" -> [u EXCEPT !.filter = "ir.ui.menu"] [] OTHER -> u
MenuitemAttr(s, t, i) ==
  CASE t.n = "parent" -> RefersOf(s, i, KindOf("ref", "parent_id"), "ir.ui.menu")
    [] t.n = "action" -> RefersOf(s, i, Kind("id"), Actions)
    [] t.n = "groups" -> RefersToGroups(s, i)
    [] OTHER -> s
AnyAttr(s, t, i) ==
  CASE t.n \in {"t-name", "t-inherit", "t-call"} -> Refers(s, i, Kind(t.n))
    [] t.n \in Expressions -> Refers(s, i, Kind("expression"))
    [] t.n = "groups" -> RefersToGroups(s, i)
    [] OTHER -> s

\* AttrPair::accept and insert_in_scope: t-foreach with t-as, t-set with t-value.
Pair(p, t, lhs, rhs) ==
  CASE t.n = lhs -> [p EXCEPT !.lhs = <<t.v>>] [] t.n = rhs -> [p EXCEPT !.rhs = <<t.v>>] [] OTHER -> p
Full(p) == p.lhs # <<>> /\ p.rhs # <<>>
Resolved(m, t) == IF m = "none" THEN t ELSE Model(m)
Iterate(t, iteratee) == IF iteratee THEN OrElse(TypeOfIterable(t), t) ELSE t
InsertTyped(W, s, id, t, iteratee) ==
  Insert(s, id, Iterate(Resolved(ResolveModel(W, t, s), t), iteratee))
InsertInScope(W, s, id, x, iteratee) ==
  InsertTyped(W, s, id, OrValue(TypeOf(W, x, s)), iteratee)
InsertPair(W, s, full, id, x, iteratee) ==
  IF full THEN InsertInScope(W, s, Head(id), Head(x), iteratee) ELSE s
Bookkeeping(W, s, t) ==
  LET f == Pair(s.foreach, t, "t-foreach", "t-as")
      v == Pair(s.set, t, "t-set", "t-value")
  IN  [s EXCEPT !.foreach = IF Full(f) THEN NoPair ELSE f,
                !.set = IF Full(v) THEN NoPair ELSE v,
                !.scope = InsertPair(W, InsertPair(W, @, Full(f), f.rhs, f.lhs, TRUE),
                                     Full(v), v.lhs, v.rhs, FALSE),
                !.templates = @ \/ t.n = "t-name"]

AttrToken(W, s, t, i, at) ==
  LET here == at.token = i /\ at.in = "value"
      named == at.token = i /\ at.in = "name"
  IN  CASE s.tag = "field" -> FieldAttr(s, t, i, here)
        [] s.tag = "button" -> ButtonAttr(s, t, i, here)
        [] s.tag = "template" /\ here /\ t.n \in {"inherit_id", "t-call"} ->
             Refers(s, i, KindOf("ref", "inherit_id"))
        [] s.tag = "record" /\ t.n = "model" ->
             IF here THEN Refers(s, i, Kind("model")) ELSE [s EXCEPT !.filter = t.v]
        [] s.tag \in {"record", "template", "menuitem"} /\ t.n = "id" /\ here -> IdAttr(s, i)
        [] s.tag = "menuitem" /\ t.n # "id" /\ here -> MenuitemAttr(s, t, i)
        [] s.tag = "component" /\ named -> Refers(s, i, KindOf("prop", s.component))
        [] s.tag \notin {"field", "button", "menuitem"} /\ here
             /\ ~(s.tag = "template" /\ t.n \in {"inherit_id", "t-call", "id"})
             /\ ~(s.tag = "record" /\ t.n \in {"model", "id"}) -> AnyAttr(s, t, i)
        [] OTHER -> Bookkeeping(W, s, t)

TextToken(s, i, t, at) ==
  LET here == at.token = i
      taken == [s EXCEPT !.expect = @ \ {CASE "model" \in s.expect -> "model"
                                           [] "template" \in s.expect -> "template" [] OTHER -> "action"}]
  IN  CASE "model" \in s.expect -> IF here THEN Refers(taken, i, Kind("model")) ELSE [taken EXCEPT !.view = t.v]
        [] "model" \notin s.expect /\ "template" \in s.expect ->
             IF here THEN RefersOf(taken, i, KindOf("ref", "inherit_id"), "ir.ui.view") ELSE taken
        [] s.expect = {"action"} -> IF here THEN Refers(taken, i, Kind("action")) ELSE taken
        [] OTHER -> [s EXCEPT !.done = i > at.token]

\* The end of a tag: behind the cursor it is the last token.  In the gaps of a
\* component's tag stands a property that is not there yet.
Closed(s) ==
  [Unaccess([s EXCEPT !.arch = @ /\ s.depth # s.archDepth])
     EXCEPT !.button = IF s.tag = "button" THEN None ELSE @,
            !.tag = IF @ = "button" THEN None ELSE @, !.depth = @ - 1]
InGap(s, i, at) == s.templates /\ at.in = "gap" /\ at.token < i /\ s.tag = "component"
PropInGap(s, t, i, at) ==
  IF t.k # "close" /\ InGap(s, i, at) THEN Refers(s, at.token, KindOf("prop", s.component)) ELSE s
Ended(s) ==
  IF s.ref # 0 THEN [s EXCEPT !.done = TRUE]
  ELSE [s EXCEPT !.tag = IF @ = "component" THEN None ELSE @]
EndToken(s, t, i, at) ==
  LET reset == [s EXCEPT !.foreach = NoPair, !.set = NoPair]
  IN  Ended(PropInGap(IF t.k = "open" THEN reset ELSE Closed(reset), t, i, at))

Gather(W, s, t, i, at) ==
  CASE s.done -> s
    [] ~s.done /\ t.k = "start" -> StartTag(s, t, i, at)
    [] ~s.done /\ t.k = "attr" -> AttrToken(W, s, t, i, at)
    [] ~s.done /\ t.k = "text" -> TextToken(s, i, t, at)
    [] ~s.done /\ IsEnd(t) -> EndToken(s, t, i, at)
    [] OTHER -> [s EXCEPT !.done = TRUE]

\* In an arch the model is that of the view, but for actions.
FilterOf(s) ==
  IF s.arch /\ s.view # None /\ ~(s.kind.k = "id" /\ s.filter = Actions) THEN s.view ELSE s.filter
RefsOf(s) ==
  [ref |-> s.ref, kind |-> IF s.ref = 0 THEN Kind(None) ELSE s.kind,
   filter |-> FilterOf(s), vars |-> Last(s.scope).vars]
GatherRefs(W, tokens, at) ==
  RefsOf(FoldLeft(LAMBDA u, i : Gather(W, u, tokens[i], i, at), CursorStart,
                  [i \in DOMAIN tokens |-> i]))

=============================================================================
