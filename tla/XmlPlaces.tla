------------------------------ MODULE XmlPlaces -------------------------------
(***************************************************************************)
(* What XmlCursor is to find, said of the tree of a document: what each    *)
(* attribute, name and text refers to, of which model, by the element that *)
(* has it and by the elements around.                                      *)
(***************************************************************************)
EXTENDS XmlTree, XmlCursor

\* What is known of the elements around: the fields of the arch, the model of
\* the view and of the record.
Outside == [path |-> <<>>, view |-> None, record |-> None, arch |-> FALSE, template |-> FALSE]

FieldIs(e, v) == e.tag = "field" /\ Own(e, "name") = v
ModelSaid(kids) ==
  LET said == SelectSeq(kids, LAMBDA f : FieldIs(f, "model") /\ f.kids # <<>>)
  IN  IF said = <<>> THEN None ELSE Head(Last(said).kids).v
Inner(e, c, i) ==
  CASE e.tag = "record" -> [c EXCEPT !.record = Own(e, "model"), !.view = ModelSaid(SubSeq(e.kids, 1, i - 1))]
    [] e.tag = "template" -> [c EXCEPT !.template = TRUE, !.record = "ir.ui.view"]
    [] FieldIs(e, "arch") -> [c EXCEPT !.arch = TRUE]
    [] e.tag = "field" /\ c.arch /\ Own(e, "position") = None -> [c EXCEPT !.path = Append(@, Own(e, "name"))]
    [] OTHER -> c
ModelAround(c) == IF c.arch /\ c.view # None THEN c.view ELSE c.record

Meaning(kind, filter) == [kind |-> kind, filter |-> filter]
Meaningless == Meaning(Kind(None), None)
MeaningOf(e, a, c) ==
  CASE e.tag = "field" /\ a = "name" -> Meaning(PropertyOf(c.path), ModelAround(c))
    [] e.tag = "field" /\ a = "ref" -> Meaning(KindOf("ref", Own(e, "name")), ModelAround(c))
    [] e.tag = "field" /\ a = "widget" /\ c.arch -> Meaning(Kind("widget"), None)
    [] e.tag = "button" /\ a = "name" ->
         IF Own(e, a) \in Percented \/ Own(e, "type") = "action" THEN Meaning(Kind("id"), Actions)
         ELSE Meaning(Kind("method"), ModelAround(c))
    [] e.tag = "record" /\ a = "model" -> Meaning(Kind("model"), None)
    [] e.tag = "record" /\ a = "id" -> Meaning(Kind("id"), Own(e, "model"))
    [] e.tag = "template" /\ a = "id" -> Meaning(Kind("id"), "ir.ui.view")
    [] e.tag = "menuitem" /\ a = "id" -> Meaning(Kind("id"), "ir.ui.menu")
    [] e.tag = "menuitem" /\ a = "parent" -> Meaning(KindOf("ref", "parent_id"), "ir.ui.menu")
    [] e.tag = "menuitem" /\ a = "action" -> Meaning(Kind("id"), Actions)
    [] a = "inherit_id" /\ e.tag = "template" -> Meaning(KindOf("ref", "inherit_id"), "ir.ui.view")
    [] a = "t-call" /\ c.template -> Meaning(KindOf("ref", "inherit_id"), "ir.ui.view")
    [] a = "groups" /\ e.tag # "button" -> Meaning(Kind("id"), "res.groups")
    [] a \in {"t-name", "t-inherit"} \/ (a = "t-call" /\ ~c.template) -> Meaning(Kind(a), None)
    [] a \in Expressions -> Meaning(Kind("expression"), None)
    [] OTHER -> Meaningless

Place(token, in, m) == [at |-> [token |-> token, in |-> in], is |-> m]
TextPlace(e, c, token) ==
  Place(token, "value",
        CASE ~c.arch /\ FieldIs(e, "model") -> Meaning(Kind("model"), None)
          [] FieldIs(e, "report_name") -> Meaning(KindOf("ref", "inherit_id"), "ir.ui.view")
          [] FieldIs(e, "tag") -> Meaning(Kind("action"), None)
          [] OTHER -> Meaningless)
RECURSIVE PlacesOf(_, _, _)
PlacesOf(e, at, c) ==
  {Place(at + i, "value", MeaningOf(e, e.attrs[i][1], c)) : i \in DOMAIN e.attrs}
  \cup (IF e.tag \notin Components THEN {}
        ELSE {Place(at, "name", Meaning(Kind("component"), None))}
             \cup {Place(at + i, in, Meaning(KindOf("prop", e.tag), None)) :
                     i \in DOMAIN e.attrs, in \in {"name", "gap"}})
  \cup UNION {LET from == KidAt(e, at, i)
              IN  IF IsText(e.kids[i]) THEN {TextPlace(e, c, from)}
                  ELSE PlacesOf(e.kids[i], from, Inner(e, c, i)) : i \in DOMAIN e.kids}

\* The variables that t-foreach with t-as and t-set with t-value name, in the
\* order of the document: `at' are the tokens, and `end' the last of the tag.
RECURSIVE VariablesOf(_, _)
VariablesOf(e, at) ==
  IF IsText(e) THEN <<>> ELSE
  LET tokensOf(a) == {at + i : i \in {j \in DOMAIN e.attrs : e.attrs[j][1] = a}}
      pair(name, value, loop) ==
        IF tokensOf(name) = {} \/ tokensOf(value) = {} THEN <<>>
        ELSE << [at |-> tokensOf(name) \cup tokensOf(value), start |-> at, name |-> Own(e, name),
                 value |-> Own(e, value), loop |-> loop] >>
  IN  (IF e.tag \in {"field", "button"} THEN <<>>
       ELSE pair("t-as", "t-foreach", TRUE) \o pair("t-set", "t-value", FALSE))
      \o FlattenSeq([i \in DOMAIN e.kids |-> VariablesOf(e.kids[i], KidAt(e, at, i))])
\* Those before the cursor, in whatever element, and of the tag that it is in.
VariablesBefore(W, e, from, cursor) ==
  LET known == SelectSeq(VariablesOf(e, 1), LAMBDA p :
                 p.start >= from /\ p.start < cursor.token /\ cursor.token \notin p.at)
  IN  FoldLeft(LAMBDA s, p : InsertInScope(W, s, p.name, p.value, p.loop), EmptyScope, known)[1].vars

=============================================================================
