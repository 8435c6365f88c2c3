----------------------------- MODULE RecordIndex ------------------------------
(***************************************************************************)
(* The records and templates of all files (src/src/index/record.rs,        *)
(* src/src/index/template.rs), and how add_root_xml's and update_xml's are *)
(* added to them.  A record is known by the module of its file and its id. *)
(***************************************************************************)
EXTENDS XmlReader

Named(f, k) == IF k \in DOMAIN f THEN f[k] ELSE {}
Enlist(f, k, x) == [y \in DOMAIN f \cup {k} |-> IF y = k THEN Named(f, k) \cup {x} ELSE f[y]]
NoRecords ==
  [records |-> <<>>, byModel |-> <<>>, byInherit |-> <<>>, viewsByModel |-> <<>>, byPrefix |-> <<>>]

\* RecordIndex::insert: the first record of a name stays.  Mutant: the last.
EnlistRecord(ix, module, r) ==
  LET q == <<module, r.id>>
      a == IF r.model = None THEN ix ELSE [ix EXCEPT !.byModel = Enlist(@, r.model, q)]
      b == IF r.inherit = None THEN a ELSE [a EXCEPT !.byInherit = Enlist(@, Qualified(module, r.inherit), q)]
      c == IF r.view = None \/ r.model # "ir.ui.view" THEN b
           ELSE [b EXCEPT !.viewsByModel = Enlist(@, r.view, q)]
  IN  [c EXCEPT !.byPrefix = Enlist(@, r.id, q),
                !.records = [x \in DOMAIN @ \cup {q} |-> IF x = q THEN r ELSE @[x]]]
InsertRecordAnew(ix, module, r) == EnlistRecord(ix, module, r)
InsertRecord(ix, module, r) ==
  IF <<module, r.id>> \in DOMAIN ix.records THEN ix ELSE EnlistRecord(ix, module, r)
AppendRecords(ix, module, entries) ==
  FoldLeft(LAMBDA i, r : InsertRecord(i, module, r), ix, SelectSeq(entries, LAMBDA e : e.is = "record"))

\* TemplateIndex::append, of a whole file when its root is added.
Template0 == [location |-> <<>>, descendants |-> <<>>]
AppendTemplate(templates, e) ==
  LET t == IF e.name \in DOMAIN templates THEN templates[e.name] ELSE Template0
      u == IF ~e.base THEN [t EXCEPT !.descendants = Append(@, e.range)]
           ELSE [t EXCEPT !.location = IF @ = <<>> THEN <<e.range>> ELSE @]
  IN  [n \in DOMAIN templates \cup {e.name} |-> IF n = e.name THEN u ELSE templates[n]]
AppendTemplates(templates, entries) ==
  FoldLeft(AppendTemplate, templates, SelectSeq(entries, LAMBDA e : e.is = "template"))

=============================================================================
