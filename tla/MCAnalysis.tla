---- MODULE MCAnalysis ----
EXTENDS Readers, Diagnosis, TLC
VARIABLES
  part,   \* of the analysis that is at work; the others stay as they begin
  disk, ast, ref, obj, begun, reentered, steps, answer   \* MethodEval
evaluation == <<disk, ast, ref, obj, begun, reentered, steps, answer>>

\* Two models.
Fields == "a" :> ("partner" :> Model("b") @@ "age" :> Builtin("int") @@ "extra" :> Builtin("str"))
       @@ "b" :> ("partner" :> Model("a") @@ "age" :> Builtin("float"))
       @@ "res.users" :> ("age" :> Builtin("int"))
TheWorld ==
  [models |-> {"a", "b", "res.users"}, fields |-> Fields,
   methods |-> [m \in {"a", "b", "res.users"} |-> {}],
   records |-> "main" :> "b", returns |-> "none" :> NoType]
TheValues == "self" :> Rec("a")
TheAtoms ==
  {Variable("self"), EnvOf("b"), One, StringOf("k"), BuiltinOf("super", <<>>), BuiltinOf("enumerate", <<Variable("self")>>),
   [n |-> "list", items |-> <<>>]}

Assign1 == {Set(v, m) : v \in {"x", "y"}, m \in {"a", "b"}}
Loops1 == {Loop("y", m, <<st>>) : m \in {"a", "none"}, st \in {Set("x", "a"), Set("y", "b")}}
Loops2 == {Loop("x", m, b) : m \in {"b", "none"},
             b \in {<<st>> : st \in Loops1} \cup {<<Set("y", "a"), st>> : st \in Loops1}
                   \cup {<<st, Set("x", "b")>> : st \in Loops1}}
TheStatements == Assign1 \cup Loops1 \cup Loops2
               \cup {Loop("z", "a", <<st>>) : st \in Loops2}

Lit(ps) == [n |-> "dict", pairs |-> ps]
TheWrites ==
  {[n |-> "setitem", key |-> k, right |-> x] : k \in {"k", "l"}, x \in {Variable("self"), One, Variable("unknown")}}
  \cup {[n |-> "update", args |-> args] : args \in
         {<<[is |-> "plain", value |-> Lit(<< <<StringOf("k"), One>>, <<StringOf("l"), StringOf("s")>> >>)]>>,
          <<[is |-> "plain", value |-> Lit(<< <<StringOf("k"), Variable("self")>> >>)],
            [is |-> "keyword", key |-> "k", value |-> One]>>,
          <<[is |-> "keyword", key |-> "k", value |-> One], [is |-> "keyword", key |-> "l", value |-> One]>>,
          <<[is |-> "plain", value |-> Lit(<<>>)],
            [is |-> "splat", value |-> Lit(<< <<StringOf("l"), Variable("self")>> >>)]>>}}

\* XML
F(attrs, kids) == Element("field", attrs, kids)
InheritFrom(r) == EmptyElement("field", << <<"name", "inherit_id">>, <<"ref", r>> >>)
Inherit == InheritFrom("v")
ViewModel == F(<< <<"name", "model">> >>, <<Text("a")>>)
Arch(kids) == F(<< <<"name", "arch">>, <<"type", "xml">> >>, kids)
Nested == Element("record", << <<"id", "n">>, <<"model", "m">> >>, <<Inherit>>)
RecordBodies ==
  { <<>>, <<Inherit>>, <<ViewModel, Inherit>>, <<Arch(<<EmptyElement("div", << <<"id", "d">> >>)>>), ViewModel>>,
    <<Nested, Inherit>>, <<F(<< <<"name", "lines">> >>, <<Nested>>), ViewModel>> }
TheDotted ==
  "base.r" :> <<"base", "r">> @@ "base.w" :> <<"base", "w">> @@ "base.m" :> <<"base", "m">>
  @@ "m2.v" :> <<"m2", "v">>
Records ==
  {Element("record", attrs, b) : attrs \in {<< <<"id", "r">>, <<"model", "ir.ui.view">> >>, << <<"model", "m">> >>},
     b \in RecordBodies}
  \cup {EmptyElement("record", << <<"id", "e">>, <<"model", "m">> >>),
        Element("record", << <<"id", "base.r">>, <<"model", "m">> >>, <<InheritFrom("m2.v")>>)}
T(attrs) == Element("t", attrs, <<Element("t", << <<"t-if", "x">> >>, <<Text("a")>>), EmptyElement("t", <<>>)>>)
Extension == T(<< <<"t-name", "p">>, <<"t-inherit", "q">>, <<"t-inherit-mode", "extension">> >>)
Templates ==
  { <<>>, <<T(<< <<"t-name", "p">> >>)>>,
    <<Extension, T(<< <<"t-name", "s">> >>)>>, <<Extension>>,
    <<T(<< <<"t-name", "s">> >>), Extension, T(<< <<"t-name", "q">>, <<"t-inherit", "s">> >>)>>,
    <<EmptyElement("t", << <<"t-name", "p">> >>),
      T(<< <<"t-inherit-mode", "primary">>, <<"t-inherit", "q">>, <<"t-name", "u">> >>)>> }
TheElements ==
  Records
  \cup {Element("templates", <<>>, b) : b \in Templates}
  \cup {Element("template", attrs, b) : attrs \in {<< <<"id", "v">> >>, << <<"id", "base.w">>, <<"inherit_id", "v">> >>},
          b \in {<<>>, <<Element("div", << <<"id", "d">> >>, <<EmptyElement("t", <<>>)>>)>>}}
  \cup {Element("template", <<>>, b) : b \in Templates \ {<<>>}}
  \cup {EmptyElement("template", << <<"id", "v">> >>), EmptyElement("menuitem", << <<"id", "base.m">> >>),
        Element("menuitem", << <<"id", "m">> >>, <<EmptyElement("menuitem", << <<"id", "k">> >>)>>),
        Element("data", <<>>, <<Element("record", << <<"id", "r">> >>, <<>>)>>), Text("a")}

\* Views and templates
Fd(n) == EmptyElement("field", << <<"name", n>> >>)
Fw(n, a, v) == EmptyElement("field", << <<"name", n>>, <<a, v>> >>)
Sub(n, attrs, kids) == Element("field", << <<"name", n>> >> \o attrs, kids)
Loop1(v, x, kids) == Element("t", << <<"t-foreach", x>>, <<"t-as", v>> >>, kids)
Esc(v) == EmptyElement("t", << <<"t-esc", Variable(v)>> >>)
Button(attrs) == EmptyElement("button", attrs)
ViewElements ==
  {Fd("age"), Fw("partner", "groups", "g"), Fw("age", "widget", "w"), Fw("partner", "ref", "x"), Text("text"),
   Sub("partner", <<>>, <<Element("list", <<>>, <<Fd("age"), Button(<< <<"name", "do">> >>), Fd("partner")>>)>>),
   Sub("partner", <<>>, <<Fd("age"), Sub("partner", <<>>, <<Fd("age")>>), Fw("age", "groups", "g")>>),
   Sub("partner", << <<"position", "after">> >>, <<Fd("age"), Element("group", << <<"groups", "g">> >>, <<>>)>>),
   Button(<< <<"name", "%(act)d">>, <<"type", "action">> >>), Button(<< <<"type", "action">>, <<"name", "x">> >>),
   Button(<< <<"name", "do">>, <<"string", "s">> >>),
   Element("div", << <<"groups", "g">>, <<"class", "c">> >>, <<Esc("d")>>),
   Loop1("d", EnvOf("b"), <<Esc("d"), EmptyElement("t", << <<"t-call", "u">> >>)>>)}
QwebElements ==
  {Loop1("d", EnvOf("b"), <<Esc("d"), Loop1("e", AttrOf(Variable("d"), "partner"), <<Esc("e")>>), Esc("e")>>),
   EmptyElement("t", << <<"t-set", "n">>, <<"t-value", AttrOf(Variable("d"), "age")>> >>),
   EmptyElement("t", << <<"t-value", EnvOf("a")>>, <<"t-set", "d">>, <<"t-if", Variable("n")>> >>),
   EmptyElement("t", << <<"t-if", Variable("n")>>, <<"t-call", "u">> >>), Text("text"),
   Element("div", << <<"groups", "g">> >>, <<Esc("n")>>)}
Dialogs ==
  {Element("Dialog", << <<"title", "x">>, <<"t-if", Variable("n")>> >>, <<Text("text")>>),
   Element("t", <<>>, <<EmptyElement("Dialog", << <<"close", "x">> >>), Esc("n")>>)}
TheContents ==
  "view" :> ViewElements @@ "unnamed" :> ViewElements @@ "template" :> QwebElements
  @@ "templates" :> (QwebElements \cup Dialogs)

\* Methods
TwoModels == {"partner", "user"}
TwoMethods == {"f", "g"}
Parent == "partner" :> "none" @@ "user" :> "partner"
Decl == <<"partner", "f">> :> "base" @@ <<"partner", "g">> :> "base"
     @@ <<"user", "f">> :> "none" @@ <<"user", "g">> :> "super"
In == "partner" :> "base.py" @@ "user" :> "sale.py"
Gives(t) == [is |-> "const", type |-> t]
Given == [is |-> "param"]
Calls(m, g, arg) == [is |-> "call", slot |-> <<m, g>>, arg |-> arg]
\* f calls g with an argument and falls back on another type; h goes in a circle.
First1 == <<"partner", "f">> :> <<Calls("partner", "g", "int"), Gives("str")>>
       @@ <<"partner", "g">> :> <<Given>>
       @@ <<"user", "g">> :> <<Gives("str")>>
Second1 == <<"partner", "f">> :> <<Calls("user", "g", "int"), Gives("int")>>
       @@ <<"partner", "g">> :> <<Calls("partner", "f", "none"), Given>>
       @@ <<"user", "g">> :> <<Gives("str")>>
Rets == "v1" :> First1 @@ "v2" :> Second1
E == INSTANCE MethodEval WITH
  Models <- TwoModels, Methods <- TwoMethods, Types <- {"int", "str"}, Arguments <- {"int"},
  MaxSteps <- 5, ParentOf <- Parent, Declares <- Decl, FileOf <- In, Versions <- {"v1", "v2"},
  Returns <- Rets, NoModel <- "none", NoType <- "none"

\* Diagnostics
TheDocuments ==
  { << <<"import">>, <<"xmlid", "fine">>, <<"model", "xmlid">> >>, << <<"fine", "model">> >> }

\* One part is at work in a behaviour, the others have one first state.
Init ==
  /\ ReadersInit /\ E!Init /\ DiagnosisInit
  /\ part \in {"document", "content", "roots", "method", "writes", "expression", "answers", "diagnostics"}
  /\ part = "answers" \/ disk = [f \in {"base.py", "sale.py"} |-> "v1"]
  /\ part = "diagnostics" \/ (mode = "push" /\ doc = << <<"fine", "model">> >>)
Reading ==
  /\ UNCHANGED <<evaluation, diagnosis>>
  /\ \/ part = "document" /\ WriteElement
     \/ part = "content" /\ WriteContent
     \/ part = "roots" /\ AddRoot
     \/ part = "roots" /\ DeclareModule
     \/ part = "method" /\ WriteStatement
     \/ part = "writes" /\ WriteKey
     \/ part = "expression" /\ WriteExpression
Next ==
  /\ UNCHANGED part
  /\ \/ Reading
     \/ part = "answers" /\ E!Next /\ UNCHANGED <<readers, diagnosis>>
     \/ part = "diagnostics" /\ DiagnosisNext /\ UNCHANGED <<readers, evaluation>>
Spec == Init /\ [][Next]_<<readers, evaluation, diagnosis, part>>

\* What MethodEval states of its part.
NothingLeftPending == E!NothingLeftPending
NoReentry == E!NoReentry
AnswersRight == E!AnswersRight
====
