------------------------------- MODULE XmlTree -------------------------------
(***************************************************************************)
(* What XmlReader is to find in a document, said of its tree: an element   *)
(* has a tag, attributes, children and may be closed by its own tag; text  *)
(* is an element of tag "#text".  The reader sees the tokens only.         *)
(***************************************************************************)
EXTENDS XmlReader, FiniteSets

Text(v) == [tag |-> "#text", v |-> v]
Element(tag, attrs, kids) == [tag |-> tag, attrs |-> attrs, kids |-> kids, empty |-> FALSE]
EmptyElement(tag, attrs) == [tag |-> tag, attrs |-> attrs, kids |-> <<>>, empty |-> TRUE]
IsText(e) == e.tag = "#text"

RECURSIVE TokensOf(_)
TokensOf(e) ==
  IF IsText(e) THEN << [k |-> "text", n |-> "", v |-> e.v] >>
  ELSE << [k |-> "start", n |-> e.tag, v |-> ""] >>
       \o [i \in DOMAIN e.attrs |-> [k |-> "attr", n |-> e.attrs[i][1], v |-> e.attrs[i][2]]]
       \o (IF e.empty THEN << [k |-> "empty", n |-> "", v |-> ""] >>
           ELSE << [k |-> "open", n |-> "", v |-> ""] >>
                \o FlattenSeq([i \in DOMAIN e.kids |-> TokensOf(e.kids[i])])
                \o << [k |-> "close", n |-> e.tag, v |-> ""] >>)
Size(e) == Len(TokensOf(e))

\* Where the i-th child of an element that starts at `at' starts.
KidAt(e, at, i) ==
  at + 2 + Len(e.attrs) + FoldLeft(LAMBDA n, k : n + Size(k), 0, SubSeq(e.kids, 1, i - 1))
Span(e, at) == <<at, at + Size(e) - 1>>

\* An attribute of an element.
LastValue(attrs) == IF attrs = <<>> THEN None ELSE Last(attrs)[2]
Own(e, a) == LastValue(SelectSeq(e.attrs, LAMBDA p : p[1] = a))

\* The fields of a record in document order; with its nested records' or not.
RECURSIVE FieldsOf(_, _)
FieldsOf(e, nested) ==
  IF IsText(e) THEN <<>>
  ELSE FlattenSeq([i \in DOMAIN e.kids |->
         IF e.kids[i].tag = "record" /\ ~nested THEN <<>>
         ELSE (IF e.kids[i].tag = "field" THEN <<e.kids[i]>> ELSE <<>>)
              \o FieldsOf(e.kids[i], nested)])
LastRef(refs) == IF refs = <<>> THEN None ELSE Own(Last(refs), "ref")
LastText(texts) == IF texts = <<>> THEN None ELSE Head(Last(texts).kids).v
InheritOf(e) ==
  LastRef(SelectSeq(FieldsOf(e, FALSE),
                    LAMBDA f : Own(f, "name") = "inherit_id" /\ Own(f, "ref") # None))
\* The model of a view; a record nested in the record says it too.
ViewOf(e) ==
  LastText(SelectSeq(FieldsOf(e, TRUE), LAMBDA f : Own(f, "name") = "model" /\
                       f.kids # <<>> /\ IsText(Head(f.kids))))

\* A record's id without its module, whichever that is.
IdOf(e) == Unqualified(Own(e, "id"))
RecordOf(e, at) ==
  [is |-> "record", id |-> IdOf(e), model |-> Own(e, "model"),
   inherit |-> InheritOf(e), view |-> ViewOf(e), range |-> Span(e, at)]
MenuitemOf(e, at) ==
  [is |-> "record", id |-> IdOf(e), model |-> "ir.ui.menu", inherit |-> None, view |-> None,
   range |-> <<at, at + 1 + Len(e.attrs)>>]
\* A template in a template, which Odoo does not have, is not among the documents.
TemplateOf(e, at) ==
  [is |-> "record", id |-> IdOf(e), model |-> "ir.ui.view",
   inherit |-> Own(e, "inherit_id"), view |-> None, range |-> Span(e, at)]

\* A template that is not an extension is one of its own, by its t-name; an
\* extension is known by what it extends.  Each says itself what it is.
IsBase(e) == Own(e, "t-inherit-mode") \in {None, "primary"}
TemplateAt(e, at) ==
  [is |-> "template", name |-> Own(e, IF IsBase(e) THEN "t-name" ELSE "t-inherit"),
   base |-> IsBase(e), range |-> Span(e, at)]
TemplatesIn(e, at) ==
  SelectSeq(FlattenSeq([i \in DOMAIN e.kids |->
              IF IsText(e.kids[i]) THEN <<>> ELSE <<TemplateAt(e.kids[i], KidAt(e, at, i))>>]),
            LAMBDA t : t.name # None)
\* The elements that may be templates, each with its range.
HasTemplates(e) == e.tag = "templates" \/ (e.tag = "template" /\ Own(e, "id") = None)
RECURSIVE TemplateElements(_, _)
TemplateElements(e, at) ==
  CASE IsText(e) -> {}
    [] ~IsText(e) /\ HasTemplates(e) ->
         {[element |-> e.kids[i], range |-> Span(e.kids[i], KidAt(e, at, i))] :
            i \in {j \in DOMAIN e.kids : ~IsText(e.kids[j])}}
    [] OTHER ->
         IF e.tag \in {"record", "template"} THEN {}
         ELSE UNION {TemplateElements(e.kids[i], KidAt(e, at, i)) : i \in DOMAIN e.kids}
\* The reader goes by the last word said, of the template or before it: it is right
\* where an extension says its mode last, and where each template that follows an
\* extension says what it is.
ModeWords(e) == SelectSeq(e.attrs, LAMBDA p : p[1] \in {"t-inherit", "t-inherit-mode"})
SaysItsMode(e) == ModeWords(e) # <<>> /\ (IsBase(e) \/ Last(ModeWords(e))[1] = "t-inherit-mode")
RECURSIVE ModesSaid(_)
ModesSaid(e) ==
  IsText(e) \/
  /\ \A i \in DOMAIN e.kids : ModesSaid(e.kids[i])
  /\ HasTemplates(e) =>
       \A i \in DOMAIN e.kids : IsText(e.kids[i]) \/ SaysItsMode(e.kids[i]) \/
         /\ ModeWords(e.kids[i]) = <<>>
         /\ \A j \in 1..i - 1 : IsText(e.kids[j]) \/ IsBase(e.kids[j])

\* All there is to find in an element that starts at `at'.
RECURSIVE EntriesOf(_, _)
EntryOf(e, at) ==
  CASE Own(e, "id") = None -> <<>>
    [] Own(e, "id") # None /\ e.tag = "record" -> <<RecordOf(e, at)>>
    [] Own(e, "id") # None /\ e.tag = "menuitem" -> <<MenuitemOf(e, at)>>
    [] Own(e, "id") # None /\ e.tag = "template" -> <<TemplateOf(e, at)>>
EntriesOf(e, at) ==
  CASE IsText(e) -> <<>>
    [] ~IsText(e) /\ HasTemplates(e) -> TemplatesIn(e, at)
    [] OTHER ->
         (IF e.tag \in {"record", "menuitem", "template"} THEN EntryOf(e, at) ELSE <<>>)
         \o (IF e.tag \in {"record", "template"} THEN <<>>
             ELSE FlattenSeq([i \in DOMAIN e.kids |-> EntriesOf(e.kids[i], KidAt(e, at, i))]))

=============================================================================
