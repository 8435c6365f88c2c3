------------------------------- MODULE Readers -------------------------------
(***************************************************************************)
(* What the readers of the code are given, as somebody writes it: an XML   *)
(* document element by element, the module graph module by module, a       *)
(* method statement by statement, an expression inside out.  What they     *)
(* make of it is compared with what it says, after each step.              *)
(***************************************************************************)
EXTENDS XmlPlaces, RecordIndex, ModuleSearch, ScopeWalk, PythonValues

CONSTANTS
  XmlElements, MaxElements,   \* of a document
  Contents, MaxContent,       \* of a view or of templates, by what they are in
  ModuleNames, MaxRoots, MaxModules,
  Statements, MaxStatements,  \* of a method
  Writes, MaxWrites,          \* to a dictionary
  Atoms, MaxDepth,            \* of expressions
  World, Values               \* the models; the values of the variables

Nothing == [n |-> "nothing"]

VARIABLES document, content, roots, method, writes, expression, depth
readers == <<document, content, roots, method, writes, expression, depth>>

ReadersInit ==
  /\ document = <<>> /\ content = [in |-> None, kids |-> <<>>] /\ roots = <<>>
  /\ method = <<>> /\ writes = <<>> /\ expression = Nothing /\ depth = 0

----------------------------------------------------------------------------
(* XML documents.                                                          *)

WriteElement ==
  /\ Len(document) < MaxElements
  /\ \E e \in XmlElements : document' = Append(document, e)
  /\ UNCHANGED <<content, roots, method, writes, expression, depth>>

Odoo == Element("odoo", <<>>, document)

\* What the readers make of the tokens is what the document says: each record,
\* template and menu item with its own attributes, fields and range, whatever is
\* in it, next to it or around it.  Two modules that have the document have each
\* their own records of it; a template is where it was first said, with what
\* extends it.  Of templates this is said where ModesSaid holds.
FirstRecords(entries) ==
  {i \in DOMAIN entries : entries[i].is = "record" /\
     ~\E j \in 1..i - 1 : entries[j].is = "record" /\ entries[j].id = entries[i].id}
NamesOf(entries, S) == {<<m, entries[i].id>> : m \in {"m1", "m2"}, i \in S}
InheritingFrom(entries, records, m, i) ==
  {p \in {"m1", "m2"} \X records :
     entries[p[2]].inherit # None /\ Qualified(p[1], entries[p[2]].inherit) = Qualified(m, entries[i].inherit)}
RecordsIndexed(ix, entries, records) ==
  /\ DOMAIN ix.records = NamesOf(entries, records)
  /\ \A i \in records :
       /\ entries[i].model # None => Named(ix.byModel, entries[i].model)
            = NamesOf(entries, {j \in records : entries[j].model = entries[i].model})
       /\ Named(ix.byPrefix, entries[i].id) = NamesOf(entries, {i})
       /\ entries[i].inherit # None =>
            \A m \in {"m1", "m2"} :
              Named(ix.byInherit, Qualified(m, entries[i].inherit))
                = {<<n, entries[j].id>> : <<n, j>> \in InheritingFrom(entries, records, m, i)}
TemplatesOf(entries) == SelectSeq(entries, LAMBDA e : e.is = "template")
RangesOf(templates, name, base) ==
  FlattenSeq([i \in DOMAIN templates |->
    IF templates[i].name = name /\ templates[i].base = base THEN <<templates[i].range>> ELSE <<>>])
FirstOf(ranges) == IF ranges = <<>> THEN <<>> ELSE <<Head(ranges)>>
TemplatesIndexed(ix, said) ==
  \A name \in {said[i].name : i \in DOMAIN said} :
    /\ ix[name].descendants = RangesOf(said, name, FALSE)
    /\ ix[name].location = FirstOf(RangesOf(said, name, TRUE))
Due(entries) == IF ModesSaid(Odoo) THEN entries ELSE SelectSeq(entries, LAMBDA e : e.is = "record")
ReadAs(tokens, entries) ==
  /\ Due(UpdateXml(tokens)) = Due(entries) /\ Due(AddRootXml(tokens)) = Due(entries)
  /\ RecordsIndexed(AppendRecords(AppendRecords(NoRecords, "m1", entries), "m2", entries), entries,
                    FirstRecords(entries))
  /\ TemplatesIndexed(AppendTemplates(<<>>, entries), TemplatesOf(entries))
RecordsRead == ReadAs(TokensOf(Odoo), EntriesOf(Odoo, 1))

\* Where the document breaks off, which it does while somebody types, all that is
\* complete is still there, with what is incomplete at most one more.  The index
\* is given all of it each time: in the end it has each record, maybe as it was
\* when it was incomplete, and its other indices say what it has of them.
Cut(tokens, c) == Append(SubSeq(tokens, 1, c), [k |-> "error", n |-> "", v |-> ""])
AtMostOneMore(complete, read) == IsPrefix(complete, read) /\ Len(read) <= Len(complete) + 1
WithField(ix, field, v) == {q \in DOMAIN ix.records : ix.records[q][field] = v}
IndexTyped(ix, entries) ==
  /\ \A i \in DOMAIN entries : entries[i].is = "record" => <<"m1", entries[i].id>> \in DOMAIN ix.records
  /\ \A v \in DOMAIN ix.byModel : ix.byModel[v] = WithField(ix, "model", v)
  /\ \A q \in DOMAIN ix.byInherit :
       ix.byInherit[q] = {r \in DOMAIN ix.records : Qualified("m1", ix.records[r].inherit) = q}
TypedAs(reads, entries) ==
  /\ \A c \in DOMAIN reads :
       AtMostOneMore(Due(SelectSeq(entries, LAMBDA e : e.range[2] <= c)), Due(reads[c]))
  /\ IndexTyped(FoldLeft(LAMBDA ix, read : AppendRecords(ix, "m1", read), NoRecords, reads), entries)
Reads(tokens) == [c \in DOMAIN tokens |-> UpdateXml(Cut(tokens, c))]
KeptWhileTyping == TypedAs(Reads(TokensOf(Odoo)), EntriesOf(Odoo, 1))

\* "t-name IFF t-inherit not specified or t-inherit-mode=extension, otherwise
\* t-inherit" (src/src/template.rs:13-14): each template is found by the name that
\* it should have, whatever comes before it.
NameSaid(e) ==
  Own(e, IF Own(e, "t-inherit") = None \/ Own(e, "t-inherit-mode") = "extension"
         THEN "t-name" ELSE "t-inherit")
NameRead(t, name) ==
  \E entry \in ToSet(UpdateXml(TokensOf(Odoo))) :
    entry.is = "template" /\ entry.range = t.range /\ entry.name = name
TemplatesNamed ==
  \A t \in TemplateElements(Odoo, 1) :
    NameSaid(t.element) # None => NameRead(t, NameSaid(t.element))

----------------------------------------------------------------------------
(* Views and templates, and the cursor in them.                            *)

WriteContent ==
  \E where \in DOMAIN Contents :
    /\ content.in \in {None, where} /\ Len(content.kids) < MaxContent
    /\ \E e \in Contents[where] : content' = [in |-> where, kids |-> Append(content.kids, e)]
    /\ UNCHANGED <<document, roots, method, writes, expression, depth>>

\* The content in a document, between two records.
FieldOf(name, kids) == Element("field", << <<"name", name>> >>, kids)
RefField(name) == EmptyElement("field", << <<"name", name>>, <<"ref", "x">> >>)
Record1(id, model, kids) == Element("record", << <<"id", id>>, <<"model", model>> >>, kids)
AroundContent ==
  CASE content.in = "view" ->
         Record1("v", "ir.ui.view", <<FieldOf("model", <<Text("a")>>), FieldOf("arch", content.kids), RefField("group")>>)
    [] content.in = "unnamed" -> Record1("v", "ir.ui.view", <<FieldOf("arch", content.kids), RefField("group")>>)
    [] content.in = "template" -> Element("template", << <<"id", "t">> >>, content.kids)
    [] content.in = "templates" ->
         Element("templates", <<>>, <<Element("t", << <<"t-name", "t">> >>, content.kids)>>)
    [] OTHER -> Text("")
Page ==
  Element("odoo", <<>>, <<Record1("p", "ir.actions", <<FieldOf("tag", <<Text("x")>>), FieldOf("model", <<Text("b")>>)>>),
                          AroundContent, Record1("q", "m", <<RefField("f")>>)>>)

\* Wherever the cursor is, what it is on is found: record_slice finds the record
\* around it, by a binary search that needs the ranges to be in order and apart,
\* and gather_refs, which reads no more than that record, finds what the element
\* that has the cursor refers to, of the model and the fields that the elements
\* around it say, and with the variables of the elements before it, which the code
\* keeps when those have ended.
WhatIsThere(found, p, from) ==
  /\ found.kind = p.is.kind
  /\ found.ref = IF p.is.kind = Kind(None) THEN 0 ELSE p.at.token - from + 1
  /\ found.kind.k \in {"id", "ref", "property", "method"} => found.filter = p.is.filter
  /\ found.kind.k = "expression" => found.vars = VariablesBefore(World, Page, from, p.at)
FoundIn(tokens, slice, p) ==
  WhatIsThere(GatherRefs(World, SubSeq(tokens, slice[1], slice[2]),
                         [p.at EXCEPT !.token = @ - slice[1] + 1]), p, slice[1])
RangesAround(ranges, whole, at) ==
  LET around == {r \in ToSet(ranges) : r[1] <= at /\ at <= r[2]}
  IN  IF around = {} THEN {whole} ELSE around
FoundAt(tokens, ranges, whole, p) ==
  /\ RecordSlice(ranges, whole, p.at.token) \in RangesAround(ranges, whole, p.at.token)
  /\ FoundIn(tokens, RecordSlice(ranges, whole, p.at.token), p)
FoundOn(tokens, ranges) ==
  \A p \in PlacesOf(Page, 1, Outside) : FoundAt(tokens, ranges, <<1, Len(tokens)>>, p)
FoundAnywhere(tokens) == FoundOn(tokens, RecordRanges(tokens))
CursorFound == content.kids # <<>> => FoundAnywhere(TokensOf(Page))

----------------------------------------------------------------------------
(* The module graph.                                                       *)

Declared == UNION {{<<i, m>> : m \in DOMAIN roots[i]} : i \in DOMAIN roots}
AddRoot ==
  /\ Len(roots) < MaxRoots
  /\ roots' = Append(roots, <<>>)
  /\ UNCHANGED <<document, content, method, writes, expression, depth>>
DeclareModule ==
  \E i \in DOMAIN roots, m \in ModuleNames, n \in 0..2 :
    /\ Cardinality(Declared) < MaxModules /\ m \notin DOMAIN roots[i]
    /\ \E deps \in [1..n -> ModuleNames] :
         /\ IsInjective(deps) /\ m \notin ToSet(deps)
         /\ roots' = [roots EXCEPT ![i] = [x \in DOMAIN @ \cup {m} |-> IF x = m THEN deps ELSE @[x]]]
    /\ UNCHANGED <<document, content, method, writes, expression, depth>>

\* What there is to find.  A module of two roots depends, when its dependencies
\* are looked up, on what its first root says, but is a dependent by either.
DependsOn == [m \in ModuleNames |-> ToSet(Listed(roots, m))]
Dependents ==
  [m \in ModuleNames |-> {p[2] : p \in {q \in Declared : m \in ToSet(roots[q[1]][q[2]])}}]
RECURSIVE Reachable(_, _)
Reachable(next, S) ==
  LET T == S \cup UNION {next[m] : m \in S} IN IF T = S THEN S ELSE Reachable(next, T)
OnCircle == {m \in ModuleNames : m \in Reachable(Dependents, Dependents[m])}

\* The searches agree with the graph: the dependencies are those that can be
\* reached, there is a chain exactly to those, from entry to entry; the dependents
\* are those that can be reached backwards, but on a circle of modules the search
\* for them never ends.
ChainRight(chain, m, t, below) ==
  /\ chain = <<>> <=> t \notin below
  /\ chain # <<>> => Head(chain) = m /\ Last(chain) = t
  /\ \A k \in 1..Len(chain) - 1 : chain[k + 1] \in DependsOn[chain[k]]
DependenciesRight(m, below) ==
  /\ TransitiveDependencies(roots, m) = below
  /\ \A t \in ModuleNames : ChainRight(DependencyChain(roots, m, t), m, t, below)
DependentsRight(found, m, above) ==
  /\ found.overflow <=> above \cap OnCircle # {}
  /\ ~found.overflow => found.modules = above \ {m}
SearchesAgree ==
  \A m \in UNION {DOMAIN roots[i] : i \in DOMAIN roots} :
    /\ DependenciesRight(m, Reachable(DependsOn, {m}))
    /\ DependentsRight(DiscoverDependents(roots, m), m, Reachable(Dependents, {m}))

----------------------------------------------------------------------------
(* Methods.  A statement is an assignment of a model, a loop over one (or  *)
(* over something unknown, "none") or the place that is asked about; the   *)
(* nodes are those of the syntax tree that the parser makes of it.         *)

Set(v, m) == [is |-> "set", var |-> v, model |-> m]
Loop(v, m, body) == [is |-> "loop", var |-> v, model |-> m, body |-> body]
Use == [is |-> "use", var |-> "self"]
Variable(v) == [n |-> "name", id |-> v]
EnvOf(m) ==
  [n |-> "subscript", of |-> [n |-> "attr", of |-> Variable("self"), attr |-> "env"],
   key |-> [n |-> "string", text |-> m]]
Of(m) == IF m = "none" THEN Variable("unknown") ELSE EnvOf(m)

Node(n, from, to) == [n |-> n, start |-> from, end |-> to]
Assignment(st, at) ==
  [n |-> "assign", start |-> at, end |-> at + 3, left |-> Variable(st.var), right |-> Of(st.model)]
LoopNode(st, at, end) ==
  [n |-> "for", start |-> at, end |-> end, left |-> Variable(st.var), right |-> Of(st.model)]
RECURSIVE Width(_)
Width(st) ==
  CASE st.is = "set" -> 4 [] st.is = "use" -> 2
    [] st.is = "loop" -> FoldLeft(LAMBDA n, t : n + Width(t), 5, st.body)
\* The nodes of a block that starts at `at'; a block ends with its last statement.
RECURSIVE BlockNodes(_, _)
StatementNodes(st, at) ==
  CASE st.is = "set" -> <<Node("other", at, at + 3), Assignment(st, at),
                          Node("other", at, at + 1), Node("other", at + 2, at + 3)>>
    [] st.is = "use" -> <<Node("other", at, at + 1),
         [n |-> "attribute", start |-> at, end |-> at + 1, of |-> Variable(st.var), attr |-> "extra"]>>
    [] st.is = "loop" ->
         LET end == at + Width(st) - 1
         IN  <<LoopNode(st, at, end), Node("other", at + 1, at + 2), Node("other", at + 3, at + 4),
               Node("other", at + 5, end)>> \o BlockNodes(st.body, at + 5)
BlockNodes(block, at) ==
  IF block = <<>> THEN <<>>
  ELSE StatementNodes(Head(block), at) \o BlockNodes(Tail(block), at + Width(Head(block)))
BlockWidth(block) == FoldLeft(LAMBDA n, t : n + Width(t), 0, block)
MethodNodes(block) ==
  << [n |-> "def", method |-> TRUE, start |-> 1, end |-> 5 + BlockWidth(block) - 1],
     Node("other", 2, 3), Node("other", 3, 4), Node("other", 5, 5 + BlockWidth(block) - 1) >>
  \o BlockNodes(block, 5)

WriteStatement ==
  /\ Len(method) < MaxStatements
  /\ \E st \in Statements : method' = Append(method, st)
  /\ UNCHANGED <<document, content, roots, writes, expression, depth>>

\* The method with a use of a variable, in each block at each end.
RECURSIVE Asked(_, _)
Asked(block, use) ==
  {InsertAt(block, i, use) : i \in 1..Len(block) + 1}
  \cup UNION {IF block[i].is = "loop"
              THEN {[block EXCEPT ![i].body = b] : b \in Asked(block[i].body, use)} ELSE {}
              : i \in DOMAIN block}
\* The end of the identifier that is asked about; nothing but it has two nodes of
\* the same end and start in a row that are no other statement's.
RECURSIVE PlaceIn(_, _)
PlaceIn(block, at) ==
  IF block = <<>> THEN 0
  ELSE LET st == Head(block)
           inner == IF st.is = "loop" THEN PlaceIn(st.body, at + 5) ELSE 0
       IN  IF st.is = "use" THEN at + 1 ELSE IF inner # 0 THEN inner
           ELSE PlaceIn(Tail(block), at + Width(st))

\* What each variable is there: the last assignment of the blocks around it.
Bound(e, v, m) == IF m = "none" THEN e ELSE SetVar(e, v, Model(m))
RECURSIVE VariablesAt(_, _)
VariablesAt(block, e) ==
  IF block = <<>> THEN [found |-> FALSE, vars |-> e]
  ELSE LET st == Head(block)
           inner == IF st.is = "loop" THEN VariablesAt(st.body, Bound(e, st.var, st.model))
                    ELSE [found |-> FALSE]
       IN  CASE st.is = "use" -> [found |-> TRUE, vars |-> e]
             [] st.is = "set" -> VariablesAt(Tail(block), Bound(e, st.var, st.model))
             [] st.is = "loop" -> IF inner.found THEN inner ELSE VariablesAt(Tail(block), e)

\* One scope is left at a node: where more loops end than a statement has nodes
\* before it binds anything, the walk does not catch up.
RECURSIVE LoopsEnded(_), Paced(_)
LoopsEnded(st) == IF st.is = "loop" THEN 1 + LoopsEnded(Last(st.body)) ELSE 0
Paced(block) ==
  /\ \A i \in 2..Len(block) : LoopsEnded(block[i - 1]) <= IF block[i].is = "loop" THEN 1 ELSE 2
  /\ \A i \in DOMAIN block : block[i].is = "loop" => Paced(block[i].body)
\* The walk ends at the first node behind the place that is asked about, but only
\* after it has left the loop which that node is behind of.
RECURSIVE AsksLast(_), Overrun(_)
AsksLast(block) == Last(block).is = "use" \/ (Last(block).is = "loop" /\ AsksLast(Last(block).body))
Overrun(block) ==
  \E i \in DOMAIN block : block[i].is = "loop" /\
    ((AsksLast(block[i].body) /\ i < Len(block)) \/ Overrun(block[i].body))
RECURSIVE Typed(_)
Typed(block) ==
  \A i \in DOMAIN block : block[i].is = "loop" => block[i].model # "none" /\ Typed(block[i].body)

\* A variable is what the last assignment made it, and those of a loop that is
\* over are gone, wherever one asks but in the last statement of a loop.  Those
\* that are offered for completion are the same, unless a loop around has none.
\* An attribute of it is an error where the model that it is there lacks it.
ScopeAt(block) ==
  WalkScope(World, MethodNodes(block), MethodScope("a", "self"), PlaceIn(block, 5))
ThereIn(block) == VariablesAt(block, [x \in {"self"} |-> Model("a")]).vars
ScopeRight(s, there, typed) ==
  LET names == UNION {DOMAIN s[i].vars : i \in DOMAIN s}
  IN  /\ names = DOMAIN there
      /\ \A v \in names : Get(s, v) = there[v]
      /\ typed => Iterated(s) \in {names, names \ {"self"}}
LacksExtra(there, v) == v \in DOMAIN there /\ "extra" \notin DOMAIN World.fields[there[v].name]
BlocksScoped ==
  /\ \A block \in Asked(method, Use) :
       Paced(block) /\ ~Overrun(block) => ScopeRight(ScopeAt(block), ThereIn(block), Typed(block))
  /\ \A v \in {"x", "y"} : \A block \in Asked(method, [Use EXCEPT !.var = v]) :
       Paced(block) =>
         DiagnoseScope(World, MethodNodes(block), "a", "self")
           = IF LacksExtra(ThereIn(block), v) THEN {PlaceIn(block, 5) - 1} ELSE {}

----------------------------------------------------------------------------
(* Dictionaries.                                                           *)

WriteKey ==
  /\ Len(writes) < MaxWrites
  /\ \E w \in Writes : writes' = Append(writes, w)
  /\ UNCHANGED <<document, content, roots, method, expression, depth>>

\* d = {}, then the writes, one after the other.
DictNodes ==
  << [n |-> "assign", start |-> 1, end |-> 2, left |-> Variable("d"),
      right |-> [n |-> "dict", pairs |-> <<>>]] >>
  \o [i \in DOMAIN writes |-> writes[i] @@ [start |-> 3 * i, end |-> 3 * i + 1, map |-> "d"]]
DictScope == WalkScope(World, DictNodes, MethodScope("a", "self"), 3 * Len(writes) + 3)

\* What a write says of a key, by its place in the write; the first argument of
\* update is no keyword for it.
Said(w, k) ==
  IF w.n = "setitem" THEN (IF w.key = k THEN <<w.right>> ELSE <<>>)
  ELSE FlattenSeq([i \in DOMAIN w.args |->
         LET arg == w.args[i]
             pairs == IF arg.is \in {"plain", "splat"} THEN arg.value.pairs ELSE <<>>
             hits == SelectSeq(pairs, LAMBDA p : p[1].text = k)
         IN  IF arg.is = "keyword" THEN (IF arg.key = k /\ i > 1 THEN <<arg.value>> ELSE <<>>)
             ELSE [j \in DOMAIN hits |-> hits[j][2]]])
ByDict(w) == w.n = "update" /\ \E i \in DOMAIN w.args : w.args[i].is # "keyword"

\* A dictionary that is written to has the keys that were written, each of a type
\* it was given: the last, unless another dictionary gave it that.
AllSaid(k) == FlattenSeq([i \in DOMAIN writes |-> Said(writes[i], k)])
TypesSaid(k) == [i \in DOMAIN AllSaid(k) |-> OrValue(TypeOf(World, AllSaid(k)[i], DictScope))]
FoundOfSaid(found, types) ==
  /\ found = NoType <=> types = <<>>
  /\ types # <<>> => found \in ToSet(types)
  /\ types # <<>> /\ (\A i \in DOMAIN writes : ~ByDict(writes[i])) => found = Last(types)
TypeOfDict == TypeOfRange(World, DictNodes, "a", "self", Variable("d"), 3 * Len(writes) + 3)
DictRemembered ==
  \A k \in {"k", "l"} : FoundOfSaid(PairFor(TypeOfDict.pairs, k, NoType), TypesSaid(k))

----------------------------------------------------------------------------
(* Expressions.                                                            *)

CallOf(x, f, args) ==
  [n |-> "call", func |-> [n |-> "attr", of |-> x, attr |-> f], args |-> args, fields |-> <<>>]
CallFields(x, f, fields) ==
  [n |-> "call", func |-> [n |-> "attr", of |-> x, attr |-> f], args |-> <<>>, fields |-> fields]
BuiltinOf(f, args) == [n |-> "builtin", func |-> f, args |-> args]
Path(names) == [n |-> "path", names |-> names]
LambdaOf(v, body) == [n |-> "lambda", param |-> v, body |-> body]
StringOf(t) == [n |-> "string", of |-> "str", text |-> t]
One == [n |-> "const", of |-> "int", text |-> "1"]
AttrOf(x, a) == [n |-> "attr", of |-> x, attr |-> a]
Item(x, key) == [n |-> "subscript", of |-> x, key |-> key]

\* What an expression may be a part of.
Around(x) ==
  {AttrOf(x, a) : a \in {"partner", "age", "id", "ids", "env", "user"}}
  \cup {Item(x, One), Item(x, StringOf("k")), Item(x, StringOf("a"))}
  \cup {CallOf(x, "search", <<>>), CallOf(x, "items", <<>>), CallOf(x, "get", <<StringOf("k")>>),
        CallOf(x, "mapped", <<Path(<<"age">>)>>), CallOf(x, "mapped", <<Path(<<"partner", "partner">>)>>),
        CallOf(x, "mapped", <<LambdaOf("r", AttrOf(Variable("r"), "partner"))>>),
        CallOf(x, "mapped", <<LambdaOf("r", AttrOf(Variable("r"), "ids"))>>),
        CallOf(x, "grouped", <<Path(<<"partner">>)>>),
        CallOf(x, "grouped", <<LambdaOf("r", AttrOf(Variable("r"), "age"))>>),
        CallFields(x, "_read_group", <<"partner", "id:recordset">>), CallFields(x, "read", <<"age">>),
        CallOf(x, "ref", <<StringOf("main")>>)}
  \cup {[n |-> "either", left |-> x, right |-> a] : a \in Atoms}
  \cup {[n |-> "list", items |-> <<a, x>>] : a \in Atoms}
  \cup {[n |-> "tuple", items |-> <<x, a>>] : a \in Atoms}
  \cup {[n |-> "dict", pairs |-> << <<k, x>>, <<StringOf("l"), One>> >>] : k \in {StringOf("k"), One, Variable("self")}}
  \cup {[n |-> "dictcomp", pattern |-> Variable("i"), in |-> x, key |-> Variable("i"), value |-> One],
        BuiltinOf("zip", <<x, Variable("self")>>), BuiltinOf("dict", <<x>>)}
WriteExpression ==
  /\ depth < MaxDepth /\ depth' = depth + 1
  /\ expression' \in IF depth = 0 THEN Atoms ELSE Around(expression)
  /\ UNCHANGED <<document, content, roots, method, writes>>

\* What an expression is said to be, it is: some value that it may have, if it has
\* one, is of that type.
SomeConforms(t, values) ==
  t.ty \notin {"none", "super", "request", "ref", "modelfn", "method", "pymethod"} =>
    values = {} \/ \E v \in values : Conforms(World, v, t)
TypeSound ==
  SomeConforms(TypeOf(World, expression, MethodScope("a", "self")), ValuesOf(World, expression, Values))

=============================================================================
