------------------------------ MODULE XmlReader ------------------------------
(***************************************************************************)
(* How an XML file becomes records and templates (src/src/record.rs,       *)
(* src/src/template.rs, add_root_xml in src/src/index.rs, update_xml and   *)
(* record_slice in src/src/xml.rs): a machine that takes one token of the  *)
(* tokenizer at a time.  A token's number stands for its offset.           *)
(***************************************************************************)
EXTENDS Naturals, Integers, SequencesExt

CONSTANT Dotted  \* what is written with a dot: the module and the id on its two sides

\* The tokens: start of a tag, attribute, end of a tag (open or empty), close of
\* an element, text, and the error the tokenizer ends with.
IsEnd(t) == t.k \in {"open", "empty", "close"}
Is(t, k, n) == t.k = k /\ t.n = n
None == "none"

----------------------------------------------------------------------------
(* What the readers keep: `mode' is the reader that has the tokenizer.     *)

Scanning ==
  [mode |-> "scan", start |-> 0, stack |-> 0, in |-> FALSE,
   id |-> None, model |-> None, inherit |-> None, view |-> None,
   wrapper |-> None, root |-> None, nested |-> FALSE, base |-> TRUE,
   tname |-> None, tinherit |-> None,
   out |-> <<>>, failed |-> FALSE, ended |-> FALSE]

Back(s) == [Scanning EXCEPT !.out = s.out, !.failed = s.failed, !.ended = s.ended]
Begin(s, kind, i) ==
  [Back(s) EXCEPT !.mode = kind, !.start = i, !.stack = 1, !.in = TRUE,
                  !.model = CASE kind = "template" -> "ir.ui.view"
                              [] kind = "menuitem" -> "ir.ui.menu" [] OTHER -> None]
BeginGather(s, wrapper) == [Back(s) EXCEPT !.mode = "gather", !.wrapper = wrapper]

\* A record is done.  One without an id is none; a template without one is a
\* container of templates, which are gathered from here on.
Finish(s, i) ==
  IF s.id # None
  THEN Back([s EXCEPT !.out = Append(@, [is |-> "record", id |-> s.id, model |-> s.model,
                                         inherit |-> s.inherit, view |-> s.view,
                                         range |-> <<s.start, i>>])])
  ELSE IF s.mode = "template" THEN BeginGather(s, "template") ELSE Back(s)

\* The attributes of the tag that starts at i, and the text that a `model' field
\* has: both on a clone of the tokenizer.
TagEnd(ts, i) ==
  LET ends == {j \in i + 1..Len(ts) : IsEnd(ts[j]) \/ ts[j].k = "error"}
  IN  IF ends = {} THEN Len(ts) + 1 ELSE Min(ends)
ExtractInheritId(ts, i, stack) ==
  LET at == i + 1..TagEnd(ts, i) - 1
      refs == {j \in at : Is(ts[j], "attr", "ref")}
  IN  IF stack > 1 \/ refs = {} \/ ~\E j \in at : Is(ts[j], "attr", "name") /\ ts[j].v = "inherit_id"
      THEN None ELSE ts[Max(refs)].v
ExtractModelText(ts, i) ==
  LET ends == {j \in i + 1..Len(ts) : ts[j].k \in {"close", "empty", "error"}}
      upto == IF ends = {} THEN Len(ts) ELSE Min(ends)
      texts == {j \in i + 1..upto : ts[j].k = "text" /\
                  \E a \in i + 1..j : Is(ts[a], "attr", "name") /\ ts[a].v = "model"}
  IN  IF texts = {} THEN None ELSE ts[Min(texts)].v

\* The id of a record loses the module it names; a record that is inherited from
\* gets the module of the file if it names none.
Unqualified(v) == IF v \in DOMAIN Dotted THEN Dotted[v][2] ELSE v
Qualified(module, v) == IF v \in DOMAIN Dotted THEN Dotted[v] ELSE <<module, v>>

\* Record::from_reader.
FieldStart(s, ts, i) ==
  LET inherit == ExtractInheritId(ts, i, s.stack)
      view == ExtractModelText(ts, i)
  IN  IF inherit # None THEN [s EXCEPT !.inherit = inherit]
      ELSE IF view # None THEN [s EXCEPT !.view = view] ELSE s
\* Mutant: a record nested in the record ends it.
PoppedAtOnce(s, i) == Finish(s, i)
Popped(s, i) == IF s.stack <= 1 THEN Finish(s, i) ELSE [s EXCEPT !.stack = @ - 1]
RecordStep(s, ts, i) ==
  LET t == ts[i] IN
  CASE Is(t, "attr", "id") /\ s.stack = 1 /\ s.in -> [s EXCEPT !.id = Unqualified(t.v)]
    [] Is(t, "attr", "model") /\ s.stack = 1 /\ s.in -> [s EXCEPT !.model = t.v]
    [] Is(t, "start", "record") -> [s EXCEPT !.in = TRUE, !.stack = @ + 1]
    [] Is(t, "start", "field") -> FieldStart([s EXCEPT !.in = FALSE], ts, i)
    [] t.k = "start" /\ t.n \notin {"record", "field"} -> [s EXCEPT !.in = FALSE]
    [] Is(t, "close", "record") \/ (t.k = "empty" /\ s.in) -> Popped(s, i)
    [] t.k = "error" -> Finish(s, i)
    [] OTHER -> s

\* Record::template.  Unlike a record's, the attributes of a template inside it
\* are read as its own.
TemplateStep(s, ts, i) ==
  LET t == ts[i] IN
  CASE Is(t, "attr", "id") /\ s.in -> [s EXCEPT !.id = Unqualified(t.v)]
    [] Is(t, "attr", "inherit_id") /\ s.in -> [s EXCEPT !.inherit = t.v]
    [] t.k = "open" /\ s.in /\ s.stack = 1 /\ s.id = None -> BeginGather(s, "template")
    [] Is(t, "close", "template") \/ (t.k = "empty" /\ s.in) -> Popped(s, i)
    [] t.k = "start" ->
         [s EXCEPT !.in = t.n = "template", !.stack = IF t.n = "template" THEN @ + 1 ELSE @]
    [] t.k = "error" -> Finish(s, i)
    [] OTHER -> s

\* Record::menuitem ends with its first tag.
MenuitemStep(s, ts, i) ==
  CASE Is(ts[i], "attr", "id") -> [s EXCEPT !.id = Unqualified(ts[i].v)]
    [] IsEnd(ts[i]) \/ ts[i].k = "error" -> Finish(s, i)
    [] OTHER -> s

\* gather_templates.  `base' is not reset between two templates.
Gathered(s, i) ==
  LET name == IF s.base THEN s.tname ELSE s.tinherit
  IN  [s EXCEPT !.tname = None, !.tinherit = None,
                !.out = IF name = None THEN @
                        ELSE Append(@, [is |-> "template", name |-> name, base |-> s.base,
                                        range |-> <<s.start, i>>])]
GatherStart(s, tag, i) ==
  IF s.root = tag THEN [s EXCEPT !.stack = @ + 1, !.nested = TRUE]
  ELSE IF s.stack <= 0 THEN [s EXCEPT !.stack = 1, !.root = tag, !.start = i, !.nested = TRUE]
  ELSE s
GatherEnd(s, t, i) ==
  LET ended == Is(t, "close", s.wrapper) /\ s.root # s.wrapper
      less == IF (t.k = "close" /\ t.n = s.root) \/ (t.k = "empty" /\ s.nested) THEN s.stack - 1
              ELSE IF ended THEN 0 ELSE s.stack
      u == [s EXCEPT !.stack = less, !.nested = FALSE]
      v == IF less <= 0 THEN Gathered([u EXCEPT !.root = None], i) ELSE u
  IN  IF ended THEN Back(v) ELSE v
GatherAttr(s, t) ==
  CASE t.n = "t-name" -> [s EXCEPT !.tname = t.v]
    [] t.n = "t-inherit" -> [s EXCEPT !.tinherit = t.v, !.base = TRUE]
    [] t.n = "t-inherit-mode" -> [s EXCEPT !.base = t.v = "primary"]
    [] OTHER -> s
GatherStep(s, ts, i) ==
  LET t == ts[i] IN
  CASE t.k = "start" -> GatherStart(s, t.n, i)
    [] IsEnd(t) -> GatherEnd(s, t, i)
    [] t.k = "attr" /\ s.stack = 1 -> GatherAttr(s, t)
    [] t.k = "error" -> Back(Gathered(s, i))
    [] OTHER -> s

\* add_root_xml and update_xml: who takes the token.
Dispatch(s, t, i) ==
  IF t.k # "start" THEN s
  ELSE CASE t.n \in {"record", "template", "menuitem"} -> Begin(s, t.n, i)
         [] t.n = "templates" -> BeginGather(s, "templates")
         [] OTHER -> s
ReadToken(s, ts, i) ==
  CASE s.mode = "scan" -> Dispatch(s, ts[i], i)
    [] s.mode = "record" -> RecordStep(s, ts, i)
    [] s.mode = "template" -> TemplateStep(s, ts, i)
    [] s.mode = "menuitem" -> MenuitemStep(s, ts, i)
    [] s.mode = "gather" -> GatherStep(s, ts, i)
\* A record that the file ends in is an error.
AtEnd(s) ==
  [s EXCEPT !.failed = s.mode = "template" \/ (s.mode \in {"record", "menuitem"} /\ s.id # None)]
ReadTokens(ts) ==
  AtEnd(FoldLeft(LAMBDA s, i : ReadToken(s, ts, i), Scanning, [i \in DOMAIN ts |-> i]))

\* add_root_xml gives the error to its caller and with it the whole file;
\* update_xml keeps what it has.
AddRootXml(ts) == IF ReadTokens(ts).failed THEN <<>> ELSE ReadTokens(ts).out
UpdateXml(ts) == ReadTokens(ts).out
RecordRanges(ts) == [i \in DOMAIN UpdateXml(ts) |-> UpdateXml(ts)[i].range]

\* record_slice: a binary search for the range that has the cursor; both its
\* ends do.  Without one the slice is the whole document.
RECURSIVE Bisect(_, _, _, _)
Bisect(ranges, at, low, high) ==
  LET mid == (low + high) \div 2
  IN  IF low > high THEN 0
      ELSE IF at < ranges[mid][1] THEN Bisect(ranges, at, low, mid - 1)
      ELSE IF at > ranges[mid][2] THEN Bisect(ranges, at, mid + 1, high)
      ELSE mid
RecordSlice(ranges, document, at) ==
  LET k == Bisect(ranges, at, 1, Len(ranges))
  IN  IF k = 0 THEN document ELSE ranges[k]

=============================================================================
