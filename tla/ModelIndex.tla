----------------------------- MODULE ModelIndex -----------------------------
(***************************************************************************)
(* The index of models (src/src/model.rs, and what src/src/index.rs and    *)
(* src/src/python.rs do to it).  A file is a sequence of classes; a class  *)
(* defines a model or extends one.  The index has the places of the        *)
(* classes of every file that was read, and works out the fields and the   *)
(* methods of a model when somebody first asks for them.  The recursion of *)
(* populate_properties and resolve_related_field is a stack of activations *)
(* here, with one step for each call; nothing else happens meanwhile.      *)
(***************************************************************************)
EXTENDS Naturals, FiniteSets, SequencesExt

CONSTANTS
  Models, Fields, Methods,
  Files,       \* the Python files of the roots
  Classes,     \* what may be written: a name, inherited names, fields, and for each
               \* method whether it calls super()
  Contents,    \* what each file may hold: sequences of classes, the first at the start
  RootOf,      \* the root each file is under
  Hashed,      \* the files in the order a hash map iterates over them
  MaxSaves,    \* bound: documents saved
  MaxRemovals, \* bound: configuration changes, whether they remove a root or not
  Shardings,   \* the shards of the map that the models may be in: there are four, locked
               \* one by one, and each process hashes anew
  NoModel

\* What a class declares of a field.
Declaration ==
  [kind : {"value"}, to : {NoModel}] \cup [kind : {"relational"}, to : Models]
  \cup [kind : {"related"}, to : {path \in Seq(Fields) : path # <<>>}]

ASSUME ModelAssumption ==
  /\ NoModel \notin Models
  /\ Hashed \in Seq(Files) /\ Range(Hashed) = Files
  /\ \A c \in Classes :
       /\ c.name \in Models \cup {NoModel} /\ c.inherits \in Seq(Models)
       /\ DOMAIN c.fields \subseteq Fields /\ \A x \in DOMAIN c.fields : c.fields[x] \in Declaration
       /\ DOMAIN c.methods \subseteq Methods /\ \A g \in DOMAIN c.methods : c.methods[g] \in BOOLEAN
  /\ \A f \in Files : Contents[f] \in Seq(Seq(Classes)) /\ Contents[f] # <<>>
  /\ MaxSaves \in Nat /\ MaxRemovals \in Nat

VARIABLES
  disk,      \* what each file holds, as an index into Contents
  seen,      \* the contents that were ever indexed (for CrashOnlyOnCircle)
  read,      \* the files whose classes were appended since their root was added
  models,    \* the entries
  stack,     \* the activations of populate_properties, the one at work last
  asked,     \* those of resolve_related_field, below them the request
  save,      \* what update_models has yet to read
  unread,    \* the models not worked out when the request came (for QueryComplete)
  overflow,  \* a recursion without end has ended the process
  shard,     \* where each model is in this process
  locked,    \* delete_marked_entries waits for a shard that it has locked itself
  saves, removals

vars == <<disk, seen, read, models, stack, asked, save, unread, overflow, saves, removals, shard, locked>>

\* The elements of s whose numbers are in I.
Kept(s, I) ==
  LET kept[k \in 0..Len(s)] ==
        IF k = 0 THEN <<>> ELSE IF k \in I THEN Append(kept[k - 1], s[k]) ELSE kept[k - 1]
  IN  kept[Len(s)]

----------------------------------------------------------------------------
(* Classes, as index_models finds them.                                    *)

\* A class that names the model it inherits from extends that model, and the
\* others are its further ancestors; so does one without a name.
Inherits(c) == c.inherits # <<>> /\ (c.name = NoModel \/ c.name \in Range(c.inherits))
Primary(c) == IF c.name \in Range(c.inherits) THEN c.name ELSE Head(c.inherits)
ToFront(s, x) ==
  LET i == Min({j \in DOMAIN s : s[j] = x})
  IN  [j \in DOMAIN s |-> IF j = 1 THEN x ELSE IF j = i THEN s[1] ELSE s[j]]
IsModel(c) == c.name # NoModel \/ c.inherits # <<>>
IndexModel(c, at) ==
  IF Inherits(c)
  THEN [is |-> "inherit", name |-> Primary(c), all |-> ToFront(c.inherits, Primary(c)), at |-> at]
  ELSE [is |-> "base", name |-> c.name, all |-> c.inherits, at |-> at]
\* The ancestors that a class gives its model.
Further(item) == IF item.is = "base" THEN item.all ELSE Tail(item.all)

ClassesOf(d, f) == Contents[f][d[f]]
\* The models of a file, in the order of a hash map of syntax nodes: any order.
IndexModels(d, f) ==
  LET cs == ClassesOf(d, f)
      found == {k \in DOMAIN cs : IsModel(cs[k])}
  IN  {[i \in DOMAIN p |-> IndexModel(cs[p[i]], p[i])] : p \in SetToSeqs(found)}

----------------------------------------------------------------------------
(* The entries.  A place is a file and the class's number in it; `base' and *)
(* `descendants' are the places of a model's classes.                      *)

NoPlace == [file |-> NoModel, class |-> 0]
NoField == [kind |-> "none", to |-> NoModel, file |-> NoModel, active |-> FALSE]
Unread == [x \in Fields |-> NoField]
Absent ==
  [present |-> FALSE, base |-> NoPlace, descendants |-> <<>>, ancestors |-> <<>>,
   populated |-> FALSE, fields |-> Unread, methods |-> [g \in Methods |-> <<>>],
   names |-> {}, deleted |-> FALSE]
OrDefault(e) == [e EXCEPT !.present = TRUE]
Place(f, item) == [file |-> f, class |-> item.at]

\* Mutant: a model that an extension was read of has its base already.
AppendBaseOfNew(t, f, replace, item) ==
  LET e == OrDefault(t[item.name])
  IN  [t EXCEPT ![item.name] =
        IF ~t[item.name].present \/ replace
        THEN [e EXCEPT !.base = Place(f, item), !.ancestors = @ \o item.all] ELSE e]
\* append, one item: a base is the first one found, or with `replace' the last.
AppendBase(t, f, replace, item) ==
  LET e == OrDefault(t[item.name])
  IN  [t EXCEPT ![item.name] =
        IF e.base = NoPlace \/ replace
        THEN [e EXCEPT !.base = Place(f, item), !.ancestors = @ \o item.all]
        ELSE e]
\* With `replace', whatever the file had to say of the inherited models goes.
Forgotten(t, f, item) ==
  [m \in Models |->
     IF m \in Range(item.all)
     THEN [t[m] EXCEPT !.descendants = Kept(@, {i \in DOMAIN @ : @[i].file # f})]
     ELSE t[m]]
\* Mutant: the model that is extended is among its own ancestors.
AppendInheritWhole(t, f, replace, item) ==
  LET u == IF replace THEN Forgotten(t, f, item) ELSE t
      e == OrDefault(u[item.name])
  IN  [u EXCEPT ![item.name] =
        [e EXCEPT !.descendants = Append(@, Place(f, item)), !.ancestors = @ \o item.all]]
AppendInherit(t, f, replace, item) ==
  LET u == IF replace THEN Forgotten(t, f, item) ELSE t
      e == OrDefault(u[item.name])
  IN  [u EXCEPT ![item.name] =
        [e EXCEPT !.descendants = Append(@, Place(f, item)), !.ancestors = @ \o Further(item)]]
AppendItem(t, f, replace, item) ==
  IF item.is = "base" THEN AppendBase(t, f, replace, item)
  ELSE AppendInherit(t, f, replace, item)
AppendAll(t, f, replace, items) ==
  LET after[k \in 0..Len(items)] ==
        IF k = 0 THEN t ELSE AppendItem(after[k - 1], f, replace, items[k])
  IN  after[Len(items)]

----------------------------------------------------------------------------
(* Properties: fields and methods.                                         *)

\* Field::merge: what is inherited or read before keeps its place, and its
\* kind once it is relational.
FieldMerge(old, new) ==
  IF old = NoField THEN new
  ELSE [old EXCEPT !.kind = IF old.kind = "relational" THEN @ ELSE new.kind,
                   !.to = IF old.kind = "relational" THEN @ ELSE new.to,
                   !.active = TRUE]

Here(p) == [file |-> p.file, class |-> p.class, active |-> TRUE]
LastOf(locs, f) == {i \in DOMAIN locs : locs[i].file = f}

\* Mutant: an override that is read again goes behind itself.
AddOverrideTwice(locs, p, base) ==
  LET same == LastOf(locs, p.file)
  IN  IF same = {}
      THEN IF base THEN <<Here(p)>> \o locs ELSE Append(locs, Here(p))
      ELSE InsertAt(locs, Max(same) + 1, Here(p))
\* Method::add_override: an override goes behind the last one of its file; one
\* that calls no super() is a new base where its file has none.
AddOverride(locs, p, base) ==
  LET same == LastOf(locs, p.file)
      exact == {i \in same : locs[i].class = p.class}
  IN  IF same = {}
      THEN IF base THEN <<Here(p)>> \o locs ELSE Append(locs, Here(p))
      ELSE IF exact # {} THEN [locs EXCEPT ![Min(exact)] = Here(p)]
      ELSE InsertAt(locs, Max(same) + 1, Here(p))

\* Method::merge: the inherited places of a file take the place of the first
\* run of places the method has in that file.
FirstRun(locs, f) ==
  LET same == LastOf(locs, f)
  IN  {i \in same : \A j \in Min(same)..i : j \in same}
Splice(locs, f, new) ==
  LET run == FirstRun(locs, f)
  IN  IF run = {} THEN locs \o new
      ELSE SubSeq(locs, 1, Min(run) - 1) \o new \o SubSeq(locs, Max(run) + 1, Len(locs))
MergeFile(locs, other, f) ==
  LET new == Kept(other, LastOf(other, f))
  IN  IF new = <<>> THEN locs ELSE Splice(locs, f, [i \in DOMAIN new |-> Here(new[i])])
MethodMerge(locs, other) ==
  LET merged[k \in 0..Len(Hashed)] ==
        IF k = 0 THEN locs ELSE MergeFile(merged[k - 1], other, Hashed[k])
  IN  IF locs = <<>> THEN other ELSE merged[Len(Hashed)]

\* The classes populate_properties reads; a place holds the class that is now
\* there, if any.
Places(e) == (IF e.base = NoPlace THEN <<>> ELSE <<e.base>>) \o e.descendants
ToRead(e, filter) ==
  Kept(Places(e), {i \in DOMAIN Places(e) : filter = {} \/ Places(e)[i].file \in filter})
Nothing == [x \in {} |-> FALSE]
NoClass == [name |-> NoModel, inherits |-> <<>>, fields |-> Nothing, methods |-> Nothing]
ClassAt(d, p) ==
  IF p.class \in DOMAIN ClassesOf(d, p.file) THEN ClassesOf(d, p.file)[p.class] ELSE NoClass

\* A class's field or method, with what there was of it before.
ReadField(d, p, x, old) ==
  LET c == ClassAt(d, p)
  IN  IF x \in DOMAIN c.fields
      THEN FieldMerge(old, [kind |-> c.fields[x].kind, to |-> c.fields[x].to,
                            file |-> p.file, active |-> TRUE])
      ELSE old
ReadMethod(d, p, g, locs) ==
  LET c == ClassAt(d, p)
  IN  IF g \notin DOMAIN c.methods THEN locs
      ELSE IF locs = <<>> THEN <<Here(p)>>
      ELSE AddOverride(locs, p, ~c.methods[g])
OwnField(d, reads, x, start) ==
  LET after[k \in 0..Len(reads)] ==
        IF k = 0 THEN start ELSE ReadField(d, reads[k], x, after[k - 1])
  IN  after[Len(reads)]
OwnMethod(d, reads, g, start) ==
  LET after[k \in 0..Len(reads)] ==
        IF k = 0 THEN start ELSE ReadMethod(d, reads[k], g, after[k - 1])
  IN  after[Len(reads)]

\* Mutant: what was found in those files stays.
SuspendedNone(e, filter) == [fields |-> e.fields, methods |-> e.methods]
\* With a filter, what was found in those files has to be found again.
Suspended(e, filter) ==
  [fields |-> [x \in Fields |->
                 IF e.fields[x].file \in filter THEN [e.fields[x] EXCEPT !.active = FALSE]
                 ELSE e.fields[x]],
   methods |-> [g \in Methods |->
                  [i \in DOMAIN e.methods[g] |->
                     [e.methods[g][i] EXCEPT !.active = @ /\ e.methods[g][i].file \notin filter]]]]
Retained(props, filter) ==
  IF filter = {} THEN props
  ELSE [fields |-> [x \in Fields |->
                      IF props.fields[x].active THEN props.fields[x] ELSE NoField],
        methods |-> [g \in Methods |->
                       Kept(props.methods[g],
                            {i \in DOMAIN props.methods[g] : props.methods[g][i].active})]]
NamesOf(props) ==
  {x \in Fields : props.fields[x] # NoField} \cup {g \in Methods : props.methods[g] # <<>>}

InheritedFrom(props, e) ==
  [fields |-> [x \in Fields |->
                 IF e.fields[x] = NoField THEN props.fields[x]
                 ELSE FieldMerge(props.fields[x], e.fields[x])],
   methods |-> [g \in Methods |->
                  IF e.methods[g] = <<>> THEN props.methods[g]
                  ELSE MethodMerge(props.methods[g], e.methods[g])]]

Own(d, reads, props) ==
  [fields |-> [x \in Fields |-> OwnField(d, reads, x, props.fields[x])],
   methods |-> [g \in Methods |-> OwnMethod(d, reads, g, props.methods[g])]]
NamesIn(c) == DOMAIN c.fields \cup DOMAIN c.methods
OwnNames(d, reads) == UNION {NamesIn(ClassAt(d, reads[i])) : i \in DOMAIN reads}
Store(e, props, names) ==
  [e EXCEPT !.populated = TRUE, !.fields = props.fields, !.methods = props.methods, !.names = names]

----------------------------------------------------------------------------
(* populate_properties: what the model had is taken, then come the ancestors, *)
(* one after the other, then the model's own classes.  Nothing stops the      *)
(* recursion at a model it has begun with.                                    *)

NoSave == [file |-> NoModel, items |-> <<>>]
Filter == IF save = NoSave THEN {} ELSE {save.file}
Idle == stack = <<>> /\ asked = <<>> /\ save = NoSave /\ ~overflow

\* Without a filter, what was worked out stays.
Needs(m) == models[m].present /\ (~models[m].populated \/ Filter # {})
Taken(e) ==
  [e EXCEPT !.populated = FALSE, !.fields = Unread, !.methods = Absent.methods, !.names = {}]
Begin(t, m) ==
  /\ models' = [t EXCEPT ![m] = Taken(@)]
  /\ stack' = Append(stack, [model |-> m, left |-> t[m].ancestors,
                             props |-> Suspended(t[m], Filter), names |-> t[m].names])

\* An ancestor is worked out: the model has what it has.
Absorb(a, e) ==
  IF e.present
  THEN [a EXCEPT !.left = Tail(@), !.props = InheritedFrom(@, e), !.names = @ \cup NamesOf(e)]
  ELSE [a EXCEPT !.left = Tail(@)]

Descend ==
  /\ ~overflow /\ stack # <<>> /\ Last(stack).left # <<>>
  /\ LET a == Head(Last(stack).left)
     IN  /\ Needs(a)
         /\ IF a \in {stack[i].model : i \in DOMAIN stack}
            THEN overflow' = TRUE /\ UNCHANGED <<models, stack>>
            ELSE Begin(models, a) /\ UNCHANGED overflow
  /\ UNCHANGED <<disk, seen, read, asked, save, unread, saves, removals>>
Inherit ==
  /\ ~overflow /\ stack # <<>> /\ Last(stack).left # <<>>
  /\ LET a == Head(Last(stack).left)
     IN  ~Needs(a) /\ stack' = Append(Front(stack), Absorb(Last(stack), models[a]))
  /\ UNCHANGED <<disk, seen, read, models, asked, save, unread, overflow, saves, removals>>

\* The model's own classes; the one that called goes on.
Worked(a) ==
  LET reads == ToRead(models[a.model], Filter)
  IN  Store(models[a.model], Retained(Own(disk, reads, a.props), Filter),
            a.names \cup OwnNames(disk, reads))
Finish ==
  /\ ~overflow /\ stack # <<>> /\ Last(stack).left = <<>>
  /\ LET a == Last(stack)
         below == Front(stack)
     IN  /\ models' = [models EXCEPT ![a.model] = Worked(a)]
         /\ IF below = <<>>
            THEN /\ stack' = <<>> /\ unread' = {}
                 /\ save' = IF save.items = <<>> THEN NoSave ELSE save
            ELSE /\ stack' = Append(Front(below), Absorb(Last(below), Worked(a)))
                 /\ UNCHANGED <<unread, save>>
  /\ UNCHANGED <<disk, seen, read, asked, overflow, saves, removals>>

----------------------------------------------------------------------------
(* resolve_related_field, and resolve_mapped that follows a path: `at' is the *)
(* model it has come to, `left' what is left of the path.  A field on it is   *)
(* related to a path itself, and so on; nothing stops this recursion either.  *)

Answered == asked # <<>> /\ stack = <<>> /\ ~overflow

\* The field's model has to be worked out first.
PopulateAsked ==
  /\ Answered /\ Last(asked).left # <<>> /\ Needs(Last(asked).at)
  /\ Begin(models, Last(asked).at)
  /\ UNCHANGED <<disk, seen, read, asked, save, unread, overflow, saves, removals>>

Arrived(a, to) == [a EXCEPT !.at = to, !.left = Tail(@)]
LookUp ==
  /\ Answered /\ Last(asked).left # <<>> /\ ~Needs(Last(asked).at)
  /\ LET a == Last(asked)
         x == Head(a.left)
         field == models[a.at].fields[x]
     IN  \/ /\ field.kind \in {"none", "value"}
            /\ asked' = <<>> /\ UNCHANGED overflow
         \/ /\ field.kind = "relational"
            /\ asked' = Append(Front(asked), Arrived(a, field.to)) /\ UNCHANGED overflow
         \/ /\ field.kind = "related"
            /\ IF \E i \in DOMAIN asked : asked[i].model = a.at /\ asked[i].field = x
               THEN overflow' = TRUE /\ UNCHANGED asked
               ELSE /\ asked' = Append(asked, [model |-> a.at, field |-> x, at |-> a.at, left |-> field.to])
                    /\ UNCHANGED overflow
  /\ UNCHANGED <<disk, seen, read, models, stack, save, unread, saves, removals>>

\* A related field was followed to its end and becomes relational, unless an heir
\* holds it too.
Settled(e, x, to) ==
  LET field == [e.fields[x] EXCEPT !.kind = "relational", !.to = to]
  IN  [e EXCEPT !.fields = [e.fields EXCEPT ![x] = field]]
Settle ==
  /\ Answered /\ Last(asked).left = <<>>
  /\ LET a == Last(asked)
         below == Front(asked)
     IN  IF below = <<>> THEN asked' = <<>> /\ UNCHANGED models
         ELSE /\ asked' = Append(Front(below), Arrived(Last(below), a.at))
              /\ \/ models' = [models EXCEPT ![a.model] = Settled(@, a.field, a.at)]
                 \/ UNCHANGED models
  /\ UNCHANGED <<disk, seen, read, stack, save, unread, overflow, saves, removals>>

----------------------------------------------------------------------------
(* The operations.                                                         *)

Init ==
  /\ disk \in {d \in [Files -> 1..Max({Len(Contents[f]) : f \in Files})] :
                 \A f \in Files : d[f] \in DOMAIN Contents[f]}
  /\ read = {} /\ seen = {}
  /\ models = [m \in Models |-> Absent]
  /\ stack = <<>> /\ asked = <<>> /\ save = NoSave /\ unread = {}
  /\ overflow = FALSE /\ saves = 0 /\ removals = 0
  /\ shard \in Shardings /\ locked = FALSE

\* load_module has read the file.
Load(f) ==
  /\ Idle /\ f \notin read
  /\ read' = read \cup {f} /\ seen' = seen \cup {<<f, disk[f]>>}
  /\ \E items \in IndexModels(disk, f) : models' = AppendAll(models, f, FALSE, items)
  /\ UNCHANGED <<disk, stack, asked, save, unread, overflow, saves, removals>>

\* did_save of a document, whose module did_open has loaded: update_models.  The
\* file's classes replace what the index has of it,
Save(f, v) ==
  /\ Idle /\ f \in read /\ saves < MaxSaves
  /\ saves' = saves + 1
  /\ disk' = [disk EXCEPT ![f] = v] /\ seen' = seen \cup {<<f, v>>}
  /\ \E items \in IndexModels(disk', f) :
       /\ models' = AppendAll(models, f, TRUE, items)
       /\ save' = IF items = <<>> THEN NoSave ELSE [file |-> f, items |-> items]
  /\ UNCHANGED <<read, stack, asked, unread, overflow, removals>>
\* then for each of them a base's ancestors are appended once more, and the file
\* is read again.
ReadAgain ==
  /\ save # NoSave /\ stack = <<>> /\ ~overflow
  /\ save' = [save EXCEPT !.items = Tail(@)]
  /\ LET item == Head(save.items)
     IN  Begin(IF item.is = "base" THEN [models EXCEPT ![item.name].ancestors = @ \o item.all] ELSE models,
               item.name)
  /\ UNCHANGED <<disk, seen, read, asked, unread, overflow, saves, removals>>

\* A request that wants the fields or methods of a model: populate_properties.
Query(m) ==
  /\ Idle /\ Needs(m)
  /\ unread' = {a \in Models : ~models[a].populated}
  /\ Begin(models, m)
  /\ UNCHANGED <<disk, seen, read, asked, save, overflow, saves, removals>>

\* A request that follows a field to its model: resolve_related_field.
Resolve(m, x) ==
  /\ Idle /\ models[m].present
  /\ asked' = <<[model |-> NoModel, field |-> x, at |-> m, left |-> <<x>>]>>
  /\ UNCHANGED <<disk, seen, read, models, stack, save, unread, overflow, saves, removals>>

\* remove_root marks the models whose base is under the root; then
\* delete_marked_entries drops them, and of those that remain the ancestors that
\* the index does not have: also where no root goes, with what was not loaded yet.
Marked(t, r) ==
  [m \in Models |-> [t[m] EXCEPT !.deleted = @ \/ (t[m].base # NoPlace /\ RootOf[t[m].base.file] = r)]]
Remaining(t) == [m \in Models |-> IF t[m].deleted THEN Absent ELSE t[m]]
Pruned(t, m) ==
  LET as == Kept(t[m].ancestors, {i \in DOMAIN t[m].ancestors : t[t[m].ancestors[i]].present})
  IN  IF Len(as) = Len(t[m].ancestors) THEN t[m]
      ELSE [t[m] EXCEPT !.ancestors = as, !.populated = FALSE, !.fields = Unread,
                        !.methods = Absent.methods]
\* Mutant: only the ancestors are looked at.
DeleteMarkedNone(t) ==
  [m \in Models |->
     [t[m] EXCEPT !.ancestors = Kept(@, {i \in DOMAIN @ : ~t[@[i]].deleted})]]
DeleteMarked(t) == [m \in Models |-> Pruned(Remaining(t), m)]
\* The loop has a model's shard for writing while it looks the ancestors up,
\* in a map whose locks cannot be taken twice.
Locking(t) == {m \in Models : \E a \in Range(t[m].ancestors) : shard[a] = shard[m]}

\* did_change_configuration: a root goes, or none does.
Reconfigure(r) ==
  /\ ~locked /\ Idle /\ removals < MaxRemovals
  /\ removals' = removals + 1
  /\ read' = {f \in read : RootOf[f] # r}
  /\ UNCHANGED <<disk, seen, stack, asked, save, unread, overflow, saves, shard>>
RemoveRoot(r) ==
  /\ Reconfigure(r)
  /\ Locking(Remaining(Marked(models, r))) = {}
  /\ models' = DeleteMarked(Marked(models, r))
  /\ UNCHANGED locked
\* It comes to such a model after some of the others, and nobody else gets at the
\* shard any more: nothing is said of what happens after that.
RemoveRootHangs(r) ==
  LET t == Remaining(Marked(models, r))
  IN  /\ Reconfigure(r)
      /\ Locking(t) # {}
      /\ \E done \in SUBSET (Models \ Locking(t)) :
           models' = [m \in Models |-> IF m \in done THEN Pruned(t, m) ELSE t[m]]
      /\ locked' = TRUE

\* What reads, saves and asks.
Step ==
  \/ \E f \in Files : Load(f)
  \/ \E f \in Files : \E v \in DOMAIN Contents[f] : Save(f, v)
  \/ ReadAgain
  \/ \E m \in Models : Query(m)
  \/ Descend \/ Inherit \/ Finish
  \/ \E m \in Models, x \in Fields : Resolve(m, x)
  \/ PopulateAsked \/ LookUp \/ Settle
Next ==
  \/ ~locked /\ Step /\ UNCHANGED <<shard, locked>>
  \/ \E r \in Range(RootOf) \cup {NoModel} : RemoveRoot(r) \/ RemoveRootHangs(r)

Spec == Init /\ [][Next]_vars

----------------------------------------------------------------------------
(* Properties.                                                             *)

\* The state has its shape; an entry that is not there holds nothing.
PlaceSet == [file : Files, class : Nat \ {0}]
LocationSet == [file : Files, class : Nat \ {0}, active : BOOLEAN]
FieldSet ==
  {NoField}
  \cup [kind : {"value"}, to : {NoModel}, file : Files, active : BOOLEAN]
  \cup [kind : {"relational"}, to : Models, file : Files, active : BOOLEAN]
  \cup [kind : {"related"}, to : {p \in Seq(Fields) : p # <<>>}, file : Files, active : BOOLEAN]
Entry ==
  [present : BOOLEAN, base : PlaceSet \cup {NoPlace}, descendants : Seq(PlaceSet),
   ancestors : Seq(Models), populated : BOOLEAN, fields : [Fields -> FieldSet],
   methods : [Methods -> Seq(LocationSet)], names : SUBSET (Fields \cup Methods), deleted : BOOLEAN]
Properties == [fields : [Fields -> FieldSet], methods : [Methods -> Seq(LocationSet)]]
Activation ==
  [model : Models, left : Seq(Models), props : Properties, names : SUBSET (Fields \cup Methods)]
Request == [model : Models \cup {NoModel}, field : Fields, at : Models, left : Seq(Fields)]
Item == [is : {"base", "inherit"}, name : Models, all : Seq(Models), at : Nat \ {0}]
TypeOK ==
  /\ disk \in [Files -> Nat] /\ \A f \in Files : disk[f] \in DOMAIN Contents[f]
  /\ seen \subseteq Files \X Nat /\ read \subseteq Files /\ unread \subseteq Models
  /\ overflow \in BOOLEAN /\ saves \in 0..MaxSaves /\ removals \in 0..MaxRemovals
  /\ shard \in Shardings /\ locked \in BOOLEAN
  /\ models \in [Models -> Entry] /\ stack \in Seq(Activation) /\ asked \in Seq(Request)
  /\ save \in {NoSave} \cup [file : Files, items : Seq(Item)]
  /\ \A m \in Models : ~models[m].deleted /\ (~models[m].present => models[m] = Absent)

\* A method's places are each a class of its own, so that `go to definition'
\* lists no override twice and the first place is the method's base: whatever
\* add_override and merge put between the places of other files.
PlacesDistinct ==
  \A m \in Models, g \in Methods :
    LET at == [i \in DOMAIN models[m].methods[g] |->
                 <<models[m].methods[g][i].file, models[m].methods[g][i].class>>]
    IN  IsInjective(at)

\* populate_properties and resolve_related_field have no guard against a circle,
\* and the process dies of one.  They meet none unless the files had one: some
\* classes that were indexed inherit in a circle or their related fields do.
ClassesSeen == UNION {Range(Contents[s[1]][s[2]]) : s \in seen}
Circle(edges, S) ==
  \E C \in (SUBSET S) \ {{}} : \A a \in C : \E b \in C : <<a, b>> \in edges
InheritEdges ==
  UNION {{<<IndexModel(c, 1).name, a>> : a \in Range(Further(IndexModel(c, 1)))} :
         c \in {k \in ClassesSeen : IsModel(k)}}
RelatedEdges ==
  UNION {UNION {{<<x, y>> : y \in Range(c.fields[x].to)} :
                x \in {z \in DOMAIN c.fields : c.fields[z].kind = "related"}} : c \in ClassesSeen}
CrashOnlyOnCircle ==
  overflow => Circle(InheritEdges, Models) \/ Circle(RelatedEdges, Fields)

\* What the files that were read declare of a model: the fields of its classes
\* and of those of its ancestors.
ClassesFor(d, fs, m) ==
  UNION {{c \in Range(ClassesOf(d, f)) : IsModel(c) /\ IndexModel(c, 1).name = m} : f \in fs}
AncestorsOf(d, fs, m) ==
  {a \in Models : \A S \in SUBSET Models :
     (m \in S /\ \A b \in S : \A c \in ClassesFor(d, fs, b) :
        Range(Further(IndexModel(c, 1))) \subseteq S) => a \in S}
DeclaredFields(d, fs, m) ==
  UNION {UNION {DOMAIN c.fields : c \in ClassesFor(d, fs, a)} : a \in AncestorsOf(d, fs, m)}
BasesOf(d, fs, m) ==
  UNION {{<<f, k>> : k \in {j \in DOMAIN ClassesOf(d, f) :
                               ClassesOf(d, f)[j].name = m /\ ~Inherits(ClassesOf(d, f)[j])}} : f \in fs}
FieldsOf(e) == {x \in Fields : e.fields[x] # NoField}

\* A model that is asked about first, while none of its ancestors was, no file was
\* saved and the configuration stayed: the index finds exactly the fields its
\* classes and those of its ancestors declare in the files that were read, however they are spread
\* over files and whichever was read first (a model of two bases has none).
QueryComplete ==
  [][Finish /\ stack' = <<>> /\ saves = 0 /\ removals = 0 =>
       LET m == stack[1].model
       IN  (\A a \in AncestorsOf(disk, read, m) :
              a \in unread /\ \A p, q \in BasesOf(disk, read, a) : p = q)
           => FieldsOf(models'[m]) = DeclaredFields(disk, read, m)]_vars

\* After a save, a model that has one class in the file has the fields this
\* class declares, and of those the index places in the file it has none that
\* neither a class of the file nor an ancestor has any more.
SaveReflected ==
  [][save # NoSave /\ save' = NoSave =>
       \A m \in Models :
         Cardinality(ClassesFor(disk, {save.file}, m)) = 1
         => /\ \A c \in ClassesFor(disk, {save.file}, m) : DOMAIN c.fields \subseteq FieldsOf(models'[m])
            /\ \A x \in Fields : models'[m].fields[x].file = save.file =>
                 \/ \E c \in Range(ClassesOf(disk, save.file)) : x \in DOMAIN c.fields
                 \/ \E a \in Range(models'[m].ancestors) : x \in FieldsOf(models'[a])]_vars

\* "Recursively traverses this model's definitions and populates all of its
\* properties" (src/src/model.rs:429): once it has, the model has the fields
\* that its classes in the files that were read declare.
PopulatesAll ==
  \A m \in Models : (models[m].populated /\ saves = 0 /\ removals = 0) =>
    UNION {DOMAIN c.fields : c \in ClassesFor(disk, read, m)} \subseteq FieldsOf(models[m])

=============================================================================
