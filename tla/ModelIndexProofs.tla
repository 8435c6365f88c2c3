-------------------------- MODULE ModelIndexProofs --------------------------
(***************************************************************************)
(* The entries keep their shape, no override is listed twice, and the      *)
(* recursion ends unless classes inherit, or related fields lead, in a     *)
(* circle.                                                                 *)
(***************************************************************************)
EXTENDS ModelIndexLemmas

----------------------------------------------------------------------------
(* The invariant.                                                          *)

\* Files hold one of their contents, which was indexed as it is if the file ever
\* was; the places of entries are of files that were.
IndexedPlaces == {p \in PlaceSet : <<p.file, disk[p.file]>> \in seen}
FilesInv ==
  /\ disk \in [Files -> Nat] /\ \A f \in Files : disk[f] \in DOMAIN Contents[f]
  /\ seen \subseteq Files \X Nat /\ read \subseteq Files /\ unread \subseteq Models
  /\ overflow \in BOOLEAN /\ saves \in 0..MaxSaves /\ removals \in 0..MaxRemovals
  /\ \A s \in seen : s[2] \in DOMAIN Contents[s[1]] /\ <<s[1], disk[s[1]]>> \in seen

\* Ancestors, paths and places are those of classes that were indexed.
TableInv == models \in Tables(IndexedPlaces, InheritEdges, RelatedEdges)

\* Each activation is of a model of its own, which was taken from the table, and
\* was called for the ancestor that the one below it is at.
Activations(E, R) ==
  {a \in [model : Models, left : Seq(Models), props : KnownProperties(R), names : SUBSET (Fields \cup Methods)] :
     a.left \in Ancestry(a.model, E)}
Stacked(st, t, E, R) ==
  /\ st \in Seq(Activations(E, R))
  /\ \A i \in DOMAIN st :
       /\ t[st[i].model].present /\ ~t[st[i].model].populated
       /\ \A j \in DOMAIN st : st[i].model = st[j].model => i = j
       /\ i + 1 \in DOMAIN st => st[i].left # <<>> /\ st[i + 1].model = Head(st[i].left)
StackInv == Stacked(stack, models, InheritEdges, RelatedEdges)

\* Each path is that of the field the one below it has come to.
Followed(rs, t, R) ==
  /\ rs \in Seq(Request)
  /\ \A i \in DOMAIN rs :
       /\ (rs[i].model = NoModel) <=> (i = 1)
       /\ i + 1 \in DOMAIN rs => rs[i].left # <<>> /\ rs[i + 1].field = Head(rs[i].left)
       /\ i # 1 => /\ t[rs[i].model].present /\ t[rs[i].model].populated
                   /\ t[rs[i].model].fields[rs[i].field].kind \in {"related", "relational"}
                   /\ Path(rs[i].field, rs[i].left, R)
AskedInv ==
  /\ Followed(asked, models, RelatedEdges)
  /\ asked # <<>> => save = NoSave

\* What update_models has yet to read has an entry.
Saving(sv, st, t, E) ==
  /\ sv \in {NoSave} \cup [file : Files, items : Seq(Items(E))]
  /\ sv # NoSave /\ st = <<>> => sv.items # <<>>
  /\ \A i \in DOMAIN sv.items : t[sv.items[i].name].present
SaveInv == Saving(save, stack, models, InheritEdges)

\* What no step but a change of the configuration disturbs.
LocksInv == shard \in Shardings /\ locked \in BOOLEAN

IInv == FilesInv /\ TableInv /\ StackInv /\ AskedInv /\ SaveInv /\ CrashOnlyOnCircle

----------------------------------------------------------------------------
(* What a step does to the parts.                                          *)

\* What was known stays known when more is.
LEMMA TablesGrow ==
  ASSUME NEW P, NEW E, NEW R, NEW P2, NEW E2, NEW R2, P \subseteq P2, E \subseteq E2, R \subseteq R2
  PROVE  Tables(P, E, R) \subseteq Tables(P2, E2, R2)
<1>1. ASSUME NEW m PROVE Sound(m, P, E, R) \subseteq Sound(m, P2, E2, R2)
  <2>1. Ancestry(m, E) \subseteq Ancestry(m, E2)
    BY DEF Ancestry
  <2>2. Seq(P) \subseteq Seq(P2)
    BY SeqMonotonic
  <2>3. KnownFields(R) \subseteq KnownFields(R2)
    <3>1. \A x : Known(x, R) \subseteq Known(x, R2)
      BY DEF Known, Path
    <3> QED BY <3>1 DEF KnownFields
  <2>4. Shape(m, P, E, R) \subseteq Shape(m, P2, E2, R2)
    <3> SUFFICES ASSUME NEW e \in Shape(m, P, E, R) PROVE e \in Shape(m, P2, E2, R2)
      OBVIOUS
    <3> QED BY <2>1, <2>2, <2>3 DEF Shape
  <2> QED BY <2>4 DEF Sound
<1>2. ASSUME NEW t \in Tables(P, E, R) PROVE t \in Tables(P2, E2, R2)
  <2>1. t = [m \in Models |-> t[m]] /\ \A m \in Models : t[m] \in Sound(m, P2, E2, R2)
    BY <1>1 DEF Tables
  <2>2. t \in [Models -> UNION {Sound(m, P2, E2, R2) : m \in Models}]
    BY <2>1
  <2> QED BY <2>1, <2>2 DEF Tables
<1> QED BY <1>2

LEMMA TableEntry ==
  ASSUME NEW P, NEW E, NEW R, NEW t \in Tables(P, E, R), NEW m \in Models
  PROVE  /\ t[m] \in Sound(m, P, E, R) /\ t[m].present \in BOOLEAN /\ t[m].populated \in BOOLEAN
         /\ t[m].fields \in KnownFields(R) /\ t[m].methods \in [Methods -> TidyPlaces]
         /\ t[m].ancestors \in Ancestry(m, E) /\ t[m].names \subseteq Fields \cup Methods
BY DEF Tables, Sound, Shape

\* A path is followed as before when the models worked out stay as they are.
LEMMA FollowedStill ==
  ASSUME NEW rs, NEW t, NEW R, Followed(rs, t, R), NEW t2,
         \A m \in Models : t[m].present /\ t[m].populated => t2[m] = t[m]
  PROVE  Followed(rs, t2, R)
<1>1. rs \in Seq(Request) /\ \A i \in DOMAIN rs : rs[i] \in Request
  <2>1. rs \in Seq(Request)
    BY DEF Followed
  <2> QED BY <2>1, ElementOfSeq, LenProperties
<1>2. \A i \in DOMAIN rs : i # 1 => t2[rs[i].model] = t[rs[i].model]
  <2> SUFFICES ASSUME NEW i \in DOMAIN rs, i # 1 PROVE t2[rs[i].model] = t[rs[i].model]
    OBVIOUS
  <2>1. rs[i].model \in Models /\ t[rs[i].model].present /\ t[rs[i].model].populated
    BY <1>1 DEF Followed, Request
  <2> QED BY <2>1
<1> QED BY <1>2 DEF Followed

\* A model that nobody is at work on is taken from the table; it is at work last.
MayBegin(st, t, m) ==
  /\ t[m].present
  /\ \A i \in DOMAIN st : st[i].model # m
  /\ st # <<>> => Last(st).left # <<>> /\ m = Head(Last(st).left)
Begun(t, m, filter) ==
  [model |-> m, left |-> t[m].ancestors, props |-> Suspended(t[m], filter), names |-> t[m].names]
LEMMA Begins ==
  ASSUME NEW P, NEW E, NEW R, NEW t \in Tables(P, E, R), NEW st, Stacked(st, t, E, R),
         NEW m \in Models, MayBegin(st, t, m), NEW filter,
         NEW t2, Becomes(t2, t, m, Taken(t[m]))
  PROVE  /\ t2 \in Tables(P, E, R) /\ Stacked(Append(st, Begun(t, m, filter)), t2, E, R)
         /\ \A n \in Models : /\ n # m => t2[n] = t[n]
                              /\ t[n].present => t2[n].present
<1> DEFINE a == Begun(t, m, filter)
<1>0. /\ t[m].present /\ \A i \in DOMAIN st : st[i].model # m
      /\ st # <<>> => Last(st).left # <<>> /\ m = Head(Last(st).left)
      /\ a = [model |-> m, left |-> t[m].ancestors, props |-> Suspended(t[m], filter), names |-> t[m].names]
      /\ t2 = [t EXCEPT ![m] = Taken(t[m])]
  BY DEF MayBegin, Begun, Becomes
<1> HIDE DEF a
<1>1. t[m] \in Sound(m, P, E, R)
  BY TableEntry
<1>2. /\ Taken(t[m]) \in Sound(m, P, E, R) /\ ~Taken(t[m]).populated /\ Taken(t[m]).present
      /\ Suspended(t[m], filter) \in KnownProperties(R)
      /\ t[m].ancestors \in Ancestry(m, E) /\ t[m].names \subseteq Fields \cup Methods
  BY <1>0, <1>1, TakenSound
<1>3. t2 \in Tables(P, E, R)
  BY <1>0, <1>2, TableWith
<1>4. \A n \in Models : t2[n] = IF n = m THEN Taken(t[m]) ELSE t[n]
  BY <1>0 DEF Tables
<1>5. a \in Activations(E, R) /\ a.model = m
  <2>1. t[m].ancestors \in Seq(Models)
    BY <1>2 DEF Ancestry
  <2> QED BY <1>0, <1>2, <2>1 DEF Activations
<1> DEFINE new == Append(st, a)
<1>6. st \in Seq(Activations(E, R)) /\ Len(st) \in Nat /\ DOMAIN st = 1..Len(st)
  BY DEF Stacked
<1>7. /\ new \in Seq(Activations(E, R)) /\ DOMAIN new = 1..(Len(st) + 1)
      /\ \A i \in 1..Len(st) : new[i] = st[i]
      /\ new[Len(st) + 1] = a
  BY <1>5, <1>6, AppendProperties
<1> HIDE DEF new
<1>8. \A i \in 1..(Len(st) + 1) : i \in DOMAIN st \/ i = Len(st) + 1
  BY <1>6
<1>9. \A i \in DOMAIN st : st[i].model \in Models /\ st[i].model # m /\ new[i] = st[i] /\ i # Len(st) + 1
  <2>1. \A i \in DOMAIN st : st[i] \in Activations(E, R) /\ i # Len(st) + 1
    BY <1>6
  <2> QED BY <1>0, <1>6, <1>7, <2>1 DEF Activations
<1>10. ASSUME NEW i \in DOMAIN new
       PROVE  /\ t2[new[i].model].present /\ ~t2[new[i].model].populated
              /\ \A j \in DOMAIN new : new[i].model = new[j].model => i = j
              /\ i + 1 \in DOMAIN new => new[i].left # <<>> /\ new[i + 1].model = Head(new[i].left)
  <2>1. CASE i = Len(st) + 1
    <3>1. new[i] = a /\ ~(i + 1 \in DOMAIN new)
      BY <1>6, <1>7, <2>1
    <3>2. \A j \in DOMAIN new : new[i].model = new[j].model => i = j
      BY <1>5, <1>7, <1>8, <1>9, <2>1, <3>1
    <3> QED BY <1>2, <1>4, <1>5, <3>1, <3>2
  <2>2. CASE i \in DOMAIN st
    <3>1. new[i] = st[i] /\ st[i].model \in Models /\ st[i].model # m
      BY <1>9, <2>2
    <3>2. t2[new[i].model].present /\ ~t2[new[i].model].populated
      BY <1>4, <2>2, <3>1 DEF Stacked
    <3>3. \A j \in DOMAIN new : new[i].model = new[j].model => i = j
      <4> SUFFICES ASSUME NEW j \in DOMAIN new, new[i].model = new[j].model PROVE i = j
        OBVIOUS
      <4>1. CASE j = Len(st) + 1
        BY <1>5, <1>7, <3>1, <4>1
      <4>2. CASE j \in DOMAIN st
        BY <1>9, <2>2, <3>1, <4>2 DEF Stacked
      <4> QED BY <1>7, <1>8, <4>1, <4>2
    <3>4. i + 1 \in DOMAIN new => new[i].left # <<>> /\ new[i + 1].model = Head(new[i].left)
      <4>1. CASE i = Len(st)
        <5>1. new[i] = Last(st) /\ new[i + 1] = a /\ st # <<>>
          <6>1. DOMAIN <<>> = {}
            OBVIOUS
          <6> QED BY <1>7, <2>2, <3>1, <4>1, <6>1 DEF Last
        <5> QED BY <1>0, <1>5, <5>1
      <4>2. CASE i # Len(st)
        <5>1. i + 1 \in DOMAIN st
          BY <1>6, <2>2, <4>2
        <5>2. new[i + 1] = st[i + 1]
          BY <1>9, <5>1
        <5> QED BY <2>2, <3>1, <5>1, <5>2 DEF Stacked
      <4> QED BY <4>1, <4>2
    <3> QED BY <3>2, <3>3, <3>4
  <2> QED BY <1>7, <1>8, <2>1, <2>2
<1>11. Stacked(new, t2, E, R)
  BY <1>7, <1>10 DEF Stacked
<1> QED BY <1>2, <1>3, <1>4, <1>11 DEF new, a

\* Activations that come back to a model have gone in a circle.
LEMMA StackCircle ==
  ASSUME NEW st, NEW t, NEW E, NEW R, Stacked(st, t, E, R), st # <<>>, Last(st).left # <<>>,
         NEW k \in DOMAIN st, st[k].model = Head(Last(st).left)
  PROVE  Circle(E, Models)
<1> DEFINE n == Len(st)
           C == {st[j].model : j \in k..n}
<1>1. st \in Seq(Activations(E, R))
  BY DEF Stacked
<1>2. n \in Nat \ {0} /\ DOMAIN st = 1..n /\ Last(st) = st[n] /\ n \in DOMAIN st
  BY <1>1, FrontAndLast
<1>3. \A j \in DOMAIN st : st[j].model \in Models /\ st[j].left \in Ancestry(st[j].model, E)
  <2>1. \A j \in DOMAIN st : st[j] \in Activations(E, R)
    BY <1>1
  <2> QED BY <2>1 DEF Activations
<1> HIDE DEF n
<1>4. k..n \subseteq DOMAIN st /\ k \in k..n
  BY <1>2
<1>5. \A j \in k..n : st[j].left # <<>> /\ \E i \in k..n : st[i].model = Head(st[j].left)
  <2> SUFFICES ASSUME NEW j \in k..n
               PROVE  st[j].left # <<>> /\ \E i \in k..n : st[i].model = Head(st[j].left)
    OBVIOUS
  <2>1. CASE j = n
    BY <1>2, <1>4, <2>1
  <2>2. CASE j # n
    <3>1. j \in DOMAIN st /\ j + 1 \in DOMAIN st /\ j + 1 \in k..n
      BY <1>2, <2>2
    <3>2. st[j].left # <<>> /\ st[j + 1].model = Head(st[j].left)
      BY <3>1 DEF Stacked
    <3> QED BY <3>1, <3>2
  <2> QED BY <2>1, <2>2
<1>6. \A j \in k..n : <<st[j].model, Head(st[j].left)>> \in E
  BY <1>3, <1>4, <1>5, AncestryParts
<1>7. C \in (SUBSET Models) \ {{}}
  BY <1>3, <1>4
<1>8. \A a \in C : \E b \in C : <<a, b>> \in E
  BY <1>5, <1>6
<1> HIDE DEF C
<1> QED BY <1>7, <1>8 DEF Circle

\* So have paths that come back to a field.
LEMMA PathCircle ==
  ASSUME NEW rs, NEW t, NEW R, Followed(rs, t, R), rs # <<>>, Last(rs).left # <<>>,
         NEW k \in DOMAIN rs, k # 1, rs[k].field = Head(Last(rs).left)
  PROVE  Circle(R, Fields)
<1> DEFINE n == Len(rs)
           C == {rs[j].field : j \in k..n}
<1>1. rs \in Seq(Request)
  BY DEF Followed
<1>2. n \in Nat \ {0} /\ DOMAIN rs = 1..n /\ Last(rs) = rs[n] /\ n \in DOMAIN rs
  BY <1>1, FrontAndLast
<1>3. \A j \in DOMAIN rs : rs[j].field \in Fields /\ rs[j].left \in Seq(Fields)
  <2>1. \A j \in DOMAIN rs : rs[j] \in Request
    BY <1>1, ElementOfSeq, LenProperties
  <2> QED BY <2>1 DEF Request
<1> HIDE DEF n
<1>4. k..n \subseteq DOMAIN rs /\ k \in k..n /\ \A j \in k..n : j # 1
  BY <1>2
<1>5. \A j \in k..n : rs[j].left # <<>> /\ \E i \in k..n : rs[i].field = Head(rs[j].left)
  <2> SUFFICES ASSUME NEW j \in k..n
               PROVE  rs[j].left # <<>> /\ \E i \in k..n : rs[i].field = Head(rs[j].left)
    OBVIOUS
  <2>1. CASE j = n
    BY <1>2, <1>4, <2>1
  <2>2. CASE j # n
    <3>1. j \in DOMAIN rs /\ j + 1 \in DOMAIN rs /\ j + 1 \in k..n
      BY <1>2, <2>2
    <3>2. rs[j].left # <<>> /\ rs[j + 1].field = Head(rs[j].left)
      BY <3>1 DEF Followed
    <3> QED BY <3>1, <3>2
  <2> QED BY <2>1, <2>2
<1>6. \A j \in k..n : <<rs[j].field, Head(rs[j].left)>> \in R
  <2> SUFFICES ASSUME NEW j \in k..n PROVE <<rs[j].field, Head(rs[j].left)>> \in R
    OBVIOUS
  <2>1. j \in DOMAIN rs /\ j # 1 /\ rs[j].left \in Seq(Fields) /\ rs[j].left # <<>>
    BY <1>3, <1>4, <1>5
  <2>2. Path(rs[j].field, rs[j].left, R)
    BY <2>1 DEF Followed
  <2>3. 1 \in DOMAIN rs[j].left /\ Head(rs[j].left) = rs[j].left[1]
    <3> DEFINE s == rs[j].left
    <3>1. s \in Seq(Fields) /\ s # <<>>
      BY <2>1
    <3> HIDE DEF s
    <3>2. Len(s) \in Nat \ {0} /\ DOMAIN s = 1..Len(s)
      BY <3>1, EmptySeq, LenProperties
    <3>3. 1 \in DOMAIN s /\ Head(s) = s[1]
      BY <3>1, <3>2
    <3> QED BY <3>3 DEF s
  <2> QED BY <2>2, <2>3 DEF Path
<1>7. C \in (SUBSET Fields) \ {{}}
  BY <1>3, <1>4
<1>8. \A a \in C : \E b \in C : <<a, b>> \in R
  BY <1>5, <1>6
<1> HIDE DEF C
<1> QED BY <1>7, <1>8 DEF Circle

\* Until something is indexed or a file changes, there is nothing else to know.
LEMMA SameFiles ==
  ASSUME UNCHANGED <<disk, seen>>
  PROVE  /\ IndexedPlaces' = IndexedPlaces /\ InheritEdges' = InheritEdges
         /\ RelatedEdges' = RelatedEdges
BY DEF IndexedPlaces, InheritEdges, RelatedEdges, ClassesSeen

\* The classes of files that were indexed are in the circles there may be.
LEMMA SeenGive ==
  \A s \in seen :
    Gives(Contents[s[1]][s[2]], InheritEdges) /\ Relates(Contents[s[1]][s[2]], RelatedEdges)
<1> SUFFICES ASSUME NEW s \in seen
             PROVE  Gives(Contents[s[1]][s[2]], InheritEdges) /\ Relates(Contents[s[1]][s[2]], RelatedEdges)
  OBVIOUS
<1>1. \A c \in Range(Contents[s[1]][s[2]]) : c \in ClassesSeen
  BY DEF ClassesSeen
<1>2. Gives(Contents[s[1]][s[2]], InheritEdges)
  BY <1>1 DEF Gives, InheritEdges
<1>3. Relates(Contents[s[1]][s[2]], RelatedEdges)
  <2> SUFFICES ASSUME NEW c \in ClassesSeen, NEW x \in DOMAIN c.fields, c.fields[x].kind = "related",
                      NEW i \in DOMAIN c.fields[x].to
               PROVE  <<x, c.fields[x].to[i]>> \in RelatedEdges
    BY <1>1 DEF Relates, Path
  <2>1. c.fields[x].to[i] \in Range(c.fields[x].to)
    BY DEF Range
  <2> DEFINE D == {{<<z, y>> : y \in Range(c.fields[z].to)} :
                    z \in {z \in DOMAIN c.fields : c.fields[z].kind = "related"}}
  <2>2. <<x, c.fields[x].to[i]>> \in UNION D
    BY <2>1
  <2>3. UNION D \subseteq RelatedEdges
    BY DEF RelatedEdges
  <2> HIDE DEF D
  <2> QED BY <2>2, <2>3
<1> QED BY <1>2, <1>3

----------------------------------------------------------------------------
(* Steps.                                                                  *)

LEMMA InitStep ==
  ASSUME Init
  PROVE  IInv
<1>1. FilesInv
  <2>1. disk = [f \in Files |-> disk[f]] /\ \A f \in Files : disk[f] \in DOMAIN Contents[f]
    BY DEF Init
  <2>2. \A f \in Files : disk[f] \in Nat
    <3>1. \A f \in Files : Contents[f] \in Seq(Seq(Classes))
      BY ModelAssumption
    <3>2. \A f \in Files : DOMAIN Contents[f] = 1..Len(Contents[f]) /\ Len(Contents[f]) \in Nat
      BY <3>1, LenProperties
    <3> QED BY <2>1, <3>2
  <2>3. disk \in [Files -> Nat]
    BY <2>1, <2>2
  <2>4. read = {} /\ seen = {} /\ unread = {} /\ overflow = FALSE
    BY DEF Init
  <2>5. saves \in 0..MaxSaves /\ removals \in 0..MaxRemovals
    <3>1. saves = 0 /\ removals = 0 /\ MaxSaves \in Nat /\ MaxRemovals \in Nat
      BY ModelAssumption DEF Init
    <3> QED BY <3>1
  <2> QED BY <2>1, <2>3, <2>4, <2>5 DEF FilesInv
<1>2. TableInv
  <2>1. \A m \in Models : models[m] \in Sound(m, IndexedPlaces, InheritEdges, RelatedEdges)
    BY AbsentSound DEF Init
  <2>2. models = [m \in Models |-> models[m]]
    BY DEF Init
  <2>3. models \in [Models -> UNION {Sound(m, IndexedPlaces, InheritEdges, RelatedEdges) : m \in Models}]
    BY <2>1, <2>2
  <2> QED BY <2>1, <2>3 DEF TableInv, Tables
<1>3. StackInv /\ AskedInv
  <2>1. \A S : <<>> \in Seq(S) /\ DOMAIN <<>> = {}
    OBVIOUS
  <2>2. stack = <<>> /\ asked = <<>>
    BY DEF Init
  <2> QED BY <2>1, <2>2 DEF StackInv, Stacked, AskedInv, Followed
<1>4. SaveInv
  <2>1. save = NoSave /\ save.items = <<>>
    BY DEF Init, NoSave
  <2>2. DOMAIN <<>> = {}
    OBVIOUS
  <2> QED BY <2>1, <2>2 DEF SaveInv, Saving
<1>5. CrashOnlyOnCircle
  BY DEF Init, CrashOnlyOnCircle
<1> QED BY <1>1, <1>2, <1>3, <1>4, <1>5 DEF IInv

\* Nothing is at work when the table is empty of activations and requests.
LEMMA NothingAtWork ==
  \A t, E, R :
    /\ Stacked(<<>>, t, E, R) /\ Followed(<<>>, t, R) /\ Saving(NoSave, <<>>, t, E)
<1>1. \A S : <<>> \in Seq(S)
  OBVIOUS
<1>2. DOMAIN <<>> = {} /\ NoSave.items = <<>>
  BY DEF NoSave
<1> QED BY <1>1, <1>2 DEF Stacked, Followed, Saving

\* A file that is indexed gives entries of what is known then.
\* What a file holds becomes known when it is indexed.
LEMMA FileKnown ==
  ASSUME FilesInv', TableInv, NEW f \in Files,
         seen' = seen \cup {<<f, disk'[f]>>}, \A g \in Files : g # f => disk'[g] = disk[g],
         NEW items \in IndexModels(disk', f)
  PROVE  /\ models \in Tables(IndexedPlaces', InheritEdges', RelatedEdges')
         /\ FileIn(f, IndexedPlaces') /\ items \in Seq(Items(InheritEdges'))
<1> DEFINE P == IndexedPlaces'
           E == InheritEdges'
           R == RelatedEdges'
<1>1. IndexedPlaces \subseteq P
  <2> SUFFICES ASSUME NEW p \in PlaceSet, <<p.file, disk[p.file]>> \in seen
               PROVE  <<p.file, disk'[p.file]>> \in seen'
    BY DEF IndexedPlaces
  <2>1. p.file \in Files
    BY DEF PlaceSet
  <2> QED BY <2>1
<1>2. InheritEdges \subseteq E /\ RelatedEdges \subseteq R
  <2>1. ClassesSeen \subseteq ClassesSeen'
    BY DEF ClassesSeen
  <2> QED BY <2>1 DEF InheritEdges, RelatedEdges
<1>3. FileIn(f, P)
  BY DEF FileIn, IndexedPlaces
<1>4. Gives(Contents[f][disk'[f]], E)
  <2>1. (\A s \in seen : Gives(Contents[s[1]][s[2]], InheritEdges) /\ Relates(Contents[s[1]][s[2]], RelatedEdges))'
    BY SeenGive, PTL
  <2> DEFINE s == <<f, disk'[f]>>
  <2>2. s \in seen' /\ s[1] = f /\ s[2] = disk'[f]
    OBVIOUS
  <2>3. Gives(Contents[s[1]][s[2]], E)
    BY <2>1, <2>2
  <2> QED BY <2>2, <2>3
<1>5. models \in Tables(IndexedPlaces, InheritEdges, RelatedEdges)
  BY DEF TableInv
<1> HIDE DEF P, E, R
<1>6. models \in Tables(P, E, R)
  BY <1>1, <1>2, <1>5, TablesGrow
<1>7. items \in Seq(Items(E))
  <2>1. disk'[f] \in DOMAIN Contents[f]
    BY DEF FilesInv
  <2> QED BY <1>4, <2>1, ItemsFound
<1> QED BY <1>3, <1>6, <1>7 DEF P, E, R

LEMMA FileIndexed ==
  ASSUME FilesInv', TableInv, NEW f \in Files, NEW replace \in BOOLEAN,
         seen' = seen \cup {<<f, disk'[f]>>}, \A g \in Files : g # f => disk'[g] = disk[g],
         NEW items \in IndexModels(disk', f), models' = AppendAll(models, f, replace, items)
  PROVE  /\ TableInv' /\ items \in Seq(Items(InheritEdges'))
         /\ \A i \in DOMAIN items : models'[items[i].name].present
<1> DEFINE P == IndexedPlaces'
           E == InheritEdges'
           R == RelatedEdges'
<1>1. models \in Tables(P, E, R) /\ FileIn(f, P) /\ items \in Seq(Items(E))
  BY FileKnown
<1> HIDE DEF P, E, R
<1>2. /\ models' \in Tables(P, E, R)
      /\ \A i \in DOMAIN items : models'[items[i].name].present
  BY <1>1, AppendAllSound
<1> QED BY <1>1, <1>2 DEF TableInv, P, E, R

LEMMA LoadStep ==
  ASSUME IInv, NEW f \in Files, Load(f)
  PROVE  IInv'
<1>1. /\ Idle /\ stack' = <<>> /\ asked' = <<>> /\ save' = NoSave /\ ~overflow' /\ disk' = disk
      /\ read' = read \cup {f} /\ seen' = seen \cup {<<f, disk[f]>>}
      /\ unread' = unread /\ overflow' = overflow /\ saves' = saves /\ removals' = removals
  BY DEF Load, Idle
<1>2. FilesInv
  BY DEF IInv
<1>3. FilesInv'
  <2>1. disk[f] \in Nat /\ disk[f] \in DOMAIN Contents[f]
    BY <1>2 DEF FilesInv
  <2>2. \A s \in seen' : s[2] \in DOMAIN Contents[s[1]] /\ <<s[1], disk'[s[1]]>> \in seen'
    <3> SUFFICES ASSUME NEW s \in seen \cup {<<f, disk[f]>>}
                 PROVE  s[2] \in DOMAIN Contents[s[1]] /\ <<s[1], disk[s[1]]>> \in seen \cup {<<f, disk[f]>>}
      BY <1>1
    <3>1. CASE s \in seen
      BY <1>2, <3>1 DEF FilesInv
    <3>2. CASE s = <<f, disk[f]>>
      BY <2>1, <3>2
    <3> QED BY <3>1, <3>2
  <2> QED BY <1>1, <1>2, <2>1, <2>2 DEF FilesInv
<1>4. TableInv'
  <2>1. PICK items \in IndexModels(disk', f) : models' = AppendAll(models, f, FALSE, items)
    BY <1>1 DEF Load
  <2>2. seen' = seen \cup {<<f, disk'[f]>>} /\ \A g \in Files : g # f => disk'[g] = disk[g]
    BY <1>1
  <2>3. TableInv
    BY DEF IInv
  <2> QED BY <1>3, <2>1, <2>2, <2>3, FileIndexed
<1>5. StackInv' /\ AskedInv' /\ SaveInv' /\ CrashOnlyOnCircle'
  BY <1>1, NothingAtWork DEF StackInv, AskedInv, SaveInv, CrashOnlyOnCircle
<1> QED BY <1>3, <1>4, <1>5 DEF IInv

LEMMA SaveStep ==
  ASSUME IInv, NEW f \in Files, NEW v \in DOMAIN Contents[f], Save(f, v)
  PROVE  IInv'
<1>1. /\ Idle /\ stack' = <<>> /\ asked' = <<>> /\ ~overflow' /\ disk' = [disk EXCEPT ![f] = v]
      /\ read' = read /\ seen' = seen \cup {<<f, v>>} /\ saves < MaxSaves /\ saves' = saves + 1
      /\ unread' = unread /\ overflow' = overflow /\ removals' = removals
  BY DEF Save, Idle
<1>2. FilesInv /\ TableInv
  BY DEF IInv
<1>3. v \in Nat
  <2>1. Contents[f] \in Seq(Seq(Classes))
    BY ModelAssumption
  <2>2. DOMAIN Contents[f] = 1..Len(Contents[f]) /\ Len(Contents[f]) \in Nat
    BY <2>1, LenProperties
  <2> QED BY <2>2
<1>4. disk' \in [Files -> Nat] /\ \A g \in Files : disk'[g] = IF g = f THEN v ELSE disk[g]
  BY <1>1, <1>2, <1>3 DEF FilesInv
<1>5. FilesInv'
  <2>1. \A g \in Files : disk'[g] \in DOMAIN Contents[g]
    BY <1>2, <1>4 DEF FilesInv
  <2>2. \A s \in seen' : s[2] \in DOMAIN Contents[s[1]] /\ <<s[1], disk'[s[1]]>> \in seen'
    <3> SUFFICES ASSUME NEW s \in seen \cup {<<f, v>>}
                 PROVE  s[2] \in DOMAIN Contents[s[1]] /\ <<s[1], disk'[s[1]]>> \in seen \cup {<<f, v>>}
      BY <1>1
    <3>1. CASE s \in seen
      <4>1. s[1] \in Files /\ s[2] \in DOMAIN Contents[s[1]] /\ <<s[1], disk[s[1]]>> \in seen
        BY <1>2, <3>1 DEF FilesInv
      <4> QED BY <1>4, <4>1
    <3>2. CASE s = <<f, v>>
      BY <1>4, <3>2
    <3> QED BY <3>1, <3>2
  <2>3. saves' \in 0..MaxSaves
    <3>1. saves \in 0..MaxSaves /\ MaxSaves \in Nat
      BY <1>2, ModelAssumption DEF FilesInv
    <3> QED BY <1>1, <3>1
  <2>4. seen' \subseteq Files \X Nat
    <3>1. seen \subseteq Files \X Nat
      BY <1>2 DEF FilesInv
    <3> QED BY <1>1, <1>3, <3>1
  <2> QED BY <1>1, <1>2, <1>4, <2>1, <2>2, <2>3, <2>4 DEF FilesInv
<1>6. PICK items \in IndexModels(disk', f) :
        /\ models' = AppendAll(models, f, TRUE, items)
        /\ save' = IF items = <<>> THEN NoSave ELSE [file |-> f, items |-> items]
  BY DEF Save
<1>7. /\ TableInv' /\ items \in Seq(Items(InheritEdges'))
      /\ \A i \in DOMAIN items : models'[items[i].name].present
  <2>1. seen' = seen \cup {<<f, disk'[f]>>} /\ \A g \in Files : g # f => disk'[g] = disk[g]
    BY <1>1, <1>4
  <2> QED BY <1>2, <1>5, <1>6, <2>1, FileIndexed
<1>8. SaveInv'
  <2>1. CASE items = <<>>
    BY <1>1, <1>6, <2>1, NothingAtWork DEF SaveInv
  <2>2. CASE items # <<>>
    <3>1. save' = [file |-> f, items |-> items]
      BY <1>6, <2>2
    <3>2. save'.items = items /\ save' \in [file : Files, items : Seq(Items(InheritEdges'))]
      BY <1>7, <3>1
    <3> QED BY <1>7, <2>2, <3>2 DEF SaveInv, Saving
  <2> QED BY <2>1, <2>2
<1>9. StackInv' /\ AskedInv' /\ CrashOnlyOnCircle'
  BY <1>1, NothingAtWork DEF StackInv, AskedInv, CrashOnlyOnCircle
<1> QED BY <1>5, <1>7, <1>8, <1>9 DEF IInv

\* While nothing is indexed and no file changes, what is known stays.
LEMMA FilesKept ==
  ASSUME FilesInv, UNCHANGED <<disk, seen, read, saves, removals>>, overflow' \in BOOLEAN,
         unread' \subseteq Models
  PROVE  /\ FilesInv' /\ IndexedPlaces' = IndexedPlaces /\ InheritEdges' = InheritEdges
         /\ RelatedEdges' = RelatedEdges
BY SameFiles DEF FilesInv

\* A model is begun with: nobody was at work on it, and no path leads through it.
LEMMA BeginStep ==
  ASSUME IInv, UNCHANGED <<disk, seen, read, asked, overflow, saves, removals>>, ~overflow,
         unread' \subseteq Models,
         NEW t \in Tables(IndexedPlaces, InheritEdges, RelatedEdges),
         Stacked(stack, t, InheritEdges, RelatedEdges), Followed(asked, t, RelatedEdges),
         NEW m \in Models, MayBegin(stack, t, m),
         Begin(t, m), asked # <<>> => ~t[m].populated /\ save' = NoSave,
         save' \in {NoSave} \cup [file : Files, items : Seq(Items(InheritEdges))],
         \A i \in DOMAIN save'.items : save'.items[i].name \in Models /\ t[save'.items[i].name].present
  PROVE  IInv'
<1>1. /\ Becomes(models', t, m, Taken(t[m])) /\ stack' = Append(stack, Begun(t, m, Filter))
      /\ t[m].present
  BY DEF Begin, Begun, Becomes, MayBegin
<1>2. /\ FilesInv' /\ IndexedPlaces' = IndexedPlaces /\ InheritEdges' = InheritEdges
      /\ RelatedEdges' = RelatedEdges
  <2>1. FilesInv /\ overflow' \in BOOLEAN
    BY DEF IInv, FilesInv
  <2> QED BY <2>1, FilesKept
<1>3. /\ models' \in Tables(IndexedPlaces, InheritEdges, RelatedEdges)
      /\ Stacked(stack', models', InheritEdges, RelatedEdges)
      /\ \A n \in Models : /\ n # m => models'[n] = t[n]
                           /\ t[n].present => models'[n].present
  <2> DEFINE t2 == models'
  <2>1. Becomes(t2, t, m, Taken(t[m]))
    BY <1>1
  <2> HIDE DEF t2
  <2>2. /\ t2 \in Tables(IndexedPlaces, InheritEdges, RelatedEdges)
        /\ Stacked(Append(stack, Begun(t, m, Filter)), t2, InheritEdges, RelatedEdges)
        /\ \A n \in Models : /\ n # m => t2[n] = t[n]
                             /\ t[n].present => t2[n].present
    BY <2>1, Begins
  <2> QED BY <1>1, <2>2 DEF t2
<1>4. TableInv' /\ StackInv'
  BY <1>2, <1>3 DEF TableInv, StackInv
<1>5. AskedInv'
  <2>1. CASE asked = <<>>
    BY <2>1, NothingAtWork DEF AskedInv
  <2>2. CASE asked # <<>>
    <3>1. \A n \in Models : t[n].present /\ t[n].populated => models'[n] = t[n]
      BY <1>3, <2>2
    <3>2. Followed(asked, models', RelatedEdges)
      BY <3>1, FollowedStill
    <3> QED BY <1>2, <2>2, <3>2 DEF AskedInv
  <2> QED BY <2>1, <2>2
<1>6. SaveInv'
  <2>1. stack' # <<>>
    <3>1. stack \in Seq(Activations(InheritEdges, RelatedEdges))
      BY DEF Stacked
    <3>2. Len(stack') # 0
      BY <1>1, <3>1, AppendProperties, LenProperties
    <3>3. Len(<<>>) = 0
      OBVIOUS
    <3> QED BY <3>2, <3>3
  <2>2. \A i \in DOMAIN save'.items : models'[save'.items[i].name].present
    BY <1>3
  <2> QED BY <1>2, <2>1, <2>2 DEF SaveInv, Saving
<1>7. CrashOnlyOnCircle'
  BY DEF CrashOnlyOnCircle
<1> QED BY <1>2, <1>4, <1>5, <1>6, <1>7 DEF IInv

\* The end of the process changes nothing else.
LEMMA OverflowStep ==
  ASSUME IInv, UNCHANGED <<disk, seen, read, models, stack, asked, save, unread, saves, removals>>,
         overflow' = TRUE, Circle(InheritEdges, Models) \/ Circle(RelatedEdges, Fields)
  PROVE  IInv'
<1>1. FilesInv /\ TableInv /\ StackInv /\ AskedInv /\ SaveInv
  BY DEF IInv
<1>2. /\ FilesInv' /\ IndexedPlaces' = IndexedPlaces /\ InheritEdges' = InheritEdges
      /\ RelatedEdges' = RelatedEdges
  <2>1. unread' \subseteq Models /\ overflow' \in BOOLEAN
    BY <1>1 DEF FilesInv
  <2> QED BY <1>1, <2>1, FilesKept
<1>3. TableInv' /\ StackInv' /\ AskedInv' /\ SaveInv'
  BY <1>1, <1>2 DEF TableInv, StackInv, AskedInv, SaveInv
<1>4. CrashOnlyOnCircle'
  BY <1>2 DEF CrashOnlyOnCircle
<1> QED BY <1>2, <1>3, <1>4 DEF IInv

\* What a model that has to be worked out is like.
LEMMA NeedsIs ==
  ASSUME IInv, NEW m, Needs(m)
  PROVE  models[m].present /\ (asked # <<>> => ~models[m].populated)
<1>1. asked # <<>> => Filter = {}
  BY DEF IInv, AskedInv, Filter
<1> QED BY <1>1 DEF Needs

LEMMA QueryStep ==
  ASSUME IInv, NEW m \in Models, Query(m)
  PROVE  IInv'
<1>1. /\ UNCHANGED <<disk, seen, read, asked, overflow, saves, removals>> /\ save' = save /\ Idle
      /\ unread' \subseteq Models /\ Begin(models, m) /\ Needs(m)
  BY DEF Query
<1>2. stack = <<>> /\ asked = <<>> /\ save = NoSave /\ ~overflow /\ DOMAIN <<>> = {}
      /\ save'.items = <<>>
  BY <1>1 DEF Idle, NoSave
<1>3. models \in Tables(IndexedPlaces, InheritEdges, RelatedEdges)
  BY DEF IInv, TableInv
<1>4. /\ Stacked(stack, models, InheritEdges, RelatedEdges) /\ Followed(asked, models, RelatedEdges)
  BY DEF IInv, StackInv, AskedInv
<1>5. models[m].present
  BY <1>1, NeedsIs
<1>6. /\ MayBegin(stack, models, m)
      /\ \A i \in DOMAIN save'.items : save'.items[i].name \in Models /\ models[save'.items[i].name].present
  BY <1>2, <1>5 DEF MayBegin
<1> QED BY <1>1, <1>2, <1>3, <1>4, <1>6, BeginStep

\* The activation at work.
LEMMA AtWork ==
  ASSUME NEW st, NEW t, NEW E, NEW R, Stacked(st, t, E, R), st # <<>>
  PROVE  /\ Len(st) \in DOMAIN st /\ Last(st) = st[Len(st)] /\ Last(st) \in Activations(E, R)
         /\ Last(st).model \in Models /\ t[Last(st).model].present /\ ~t[Last(st).model].populated
         /\ Last(st).left \in Ancestry(Last(st).model, E)
         /\ Last(st).props \in KnownProperties(R) /\ Last(st).names \subseteq Fields \cup Methods
         /\ Last(st).left # <<>> => /\ Head(Last(st).left) \in Models
                                    /\ Tail(Last(st).left) \in Ancestry(Last(st).model, E)
<1>1. st \in Seq(Activations(E, R))
  BY DEF Stacked
<1>2. Len(st) \in DOMAIN st /\ Last(st) = st[Len(st)]
  BY <1>1, FrontAndLast
<1>3. Last(st) \in Activations(E, R)
  BY <1>1, <1>2
<1>4. t[Last(st).model].present /\ ~t[Last(st).model].populated
  BY <1>2 DEF Stacked
<1>5. /\ Last(st).model \in Models /\ Last(st).left \in Ancestry(Last(st).model, E)
      /\ Last(st).props \in KnownProperties(R) /\ Last(st).names \subseteq Fields \cup Methods
  BY <1>3 DEF Activations
<1>6. Last(st).left # <<>> => /\ Head(Last(st).left) \in Models
                              /\ Tail(Last(st).left) \in Ancestry(Last(st).model, E)
  BY <1>5, AncestryParts
<1> QED BY <1>2, <1>3, <1>4, <1>5, <1>6

\* The one at work has got further.
LEMMA GoesOn ==
  ASSUME NEW st, NEW t, NEW E, NEW R, Stacked(st, t, E, R), st # <<>>,
         NEW a \in Activations(E, R), a.model = Last(st).model
  PROVE  Stacked(Append(Front(st), a), t, E, R) /\ Append(Front(st), a) # <<>>
<1> DEFINE new == Append(Front(st), a)
           n == Len(st)
<1>1. st \in Seq(Activations(E, R))
  BY DEF Stacked
<1>2. /\ Front(st) \in Seq(Activations(E, R)) /\ n \in Nat \ {0} /\ Len(Front(st)) = n - 1
      /\ DOMAIN st = 1..n /\ Last(st) = st[n] /\ \A i \in 1..(n - 1) : Front(st)[i] = st[i]
  BY <1>1, FrontAndLast
<1>3. /\ new \in Seq(Activations(E, R)) /\ Len(new) = n /\ DOMAIN new = 1..n
      /\ new[n] = a /\ \A i \in 1..(n - 1) : new[i] = st[i]
  BY <1>2, AppendProperties
<1> HIDE DEF new, n
<1>4. \A i \in 1..n : new[i].model = st[i].model /\ (i # n => new[i] = st[i])
  BY <1>2, <1>3
<1>5. ASSUME NEW i \in DOMAIN new
      PROVE  /\ t[new[i].model].present /\ ~t[new[i].model].populated
             /\ \A j \in DOMAIN new : new[i].model = new[j].model => i = j
             /\ i + 1 \in DOMAIN new => new[i].left # <<>> /\ new[i + 1].model = Head(new[i].left)
  <2>1. i \in 1..n /\ i \in DOMAIN st
    BY <1>2, <1>3
  <2>2. t[new[i].model].present /\ ~t[new[i].model].populated
    BY <1>4, <2>1 DEF Stacked
  <2>3. \A j \in DOMAIN new : new[i].model = new[j].model => i = j
    BY <1>2, <1>3, <1>4, <2>1 DEF Stacked
  <2>4. i + 1 \in DOMAIN new => new[i].left # <<>> /\ new[i + 1].model = Head(new[i].left)
    <3> SUFFICES ASSUME i + 1 \in DOMAIN new
                 PROVE  new[i].left # <<>> /\ new[i + 1].model = Head(new[i].left)
      OBVIOUS
    <3>1. i # n /\ i + 1 \in 1..n /\ i + 1 \in DOMAIN st
      BY <1>2, <1>3, <2>1
    <3>2. st[i].left # <<>> /\ st[i + 1].model = Head(st[i].left)
      BY <2>1, <3>1 DEF Stacked
    <3> QED BY <1>4, <2>1, <3>1, <3>2
  <2> QED BY <2>2, <2>3, <2>4
<1>6. new # <<>>
  <2>1. Len(<<>>) = 0 /\ n # 0
    BY <1>2
  <2> QED BY <1>3, <2>1
<1> QED BY <1>3, <1>5, <1>6 DEF Stacked, new

\* The one at work is done: those below it are as they were.
LEMMA Ends ==
  ASSUME NEW st, NEW t, NEW E, NEW R, Stacked(st, t, E, R), st # <<>>,
         NEW t2, \A m \in Models : m # Last(st).model => t2[m] = t[m]
  PROVE  Stacked(Front(st), t2, E, R)
<1> DEFINE f == Front(st)
           n == Len(st)
<1>1. st \in Seq(Activations(E, R))
  BY DEF Stacked
<1>2. /\ f \in Seq(Activations(E, R)) /\ n \in Nat \ {0} /\ Len(f) = n - 1
      /\ DOMAIN st = 1..n /\ Last(st) = st[n] /\ \A i \in 1..(n - 1) : f[i] = st[i]
  BY <1>1, FrontAndLast
<1>3. DOMAIN f = 1..(n - 1)
  BY <1>2, LenProperties
<1> HIDE DEF f, n
<1>4. \A i \in DOMAIN f : i \in DOMAIN st /\ i # n /\ n \in DOMAIN st /\ f[i] = st[i]
  BY <1>2, <1>3
<1>5. \A i \in DOMAIN st : st[i].model \in Models
  BY <1>1 DEF Activations
<1>6. ASSUME NEW i \in DOMAIN f
      PROVE  /\ t2[f[i].model].present /\ ~t2[f[i].model].populated
             /\ \A j \in DOMAIN f : f[i].model = f[j].model => i = j
             /\ i + 1 \in DOMAIN f => f[i].left # <<>> /\ f[i + 1].model = Head(f[i].left)
  <2>1. st[i].model # st[n].model
    BY <1>4 DEF Stacked
  <2>2. t2[f[i].model] = t[st[i].model]
    BY <1>2, <1>4, <1>5, <2>1
  <2>3. t2[f[i].model].present /\ ~t2[f[i].model].populated
    BY <1>4, <2>2 DEF Stacked
  <2>4. \A j \in DOMAIN f : f[i].model = f[j].model => i = j
    BY <1>4 DEF Stacked
  <2>5. i + 1 \in DOMAIN f => f[i].left # <<>> /\ f[i + 1].model = Head(f[i].left)
    BY <1>4 DEF Stacked
  <2> QED BY <2>3, <2>4, <2>5
<1> QED BY <1>2, <1>6 DEF Stacked, f

\* It has what an ancestor has, too.
LEMMA AbsorbIs ==
  ASSUME NEW P, NEW E, NEW R, NEW a \in Activations(E, R), a.left # <<>>,
         NEW m, NEW e \in Sound(m, P, E, R)
  PROVE  Absorb(a, e) \in Activations(E, R) /\ Absorb(a, e).model = a.model
<1>1. /\ a.model \in Models /\ a.left \in Ancestry(a.model, E) /\ a.props \in KnownProperties(R)
      /\ a.names \subseteq Fields \cup Methods
      /\ a = [model |-> a.model, left |-> a.left, props |-> a.props, names |-> a.names]
  BY DEF Activations
<1>2. Tail(a.left) \in Ancestry(a.model, E) /\ Tail(a.left) \in Seq(Models)
  <2>1. Tail(a.left) \in Ancestry(a.model, E)
    BY <1>1, AncestryParts
  <2> QED BY <2>1 DEF Ancestry
<1>3. e.fields \in KnownFields(R) /\ e.methods \in [Methods -> TidyPlaces]
  BY DEF Sound, Shape
<1>4. InheritedFrom(a.props, e) \in KnownProperties(R)
  BY <1>1, <1>3, InheritedFromKnown
<1>5. NamesOf(e) \subseteq Fields \cup Methods
  BY DEF NamesOf
<1>6. ASSUME NEW n \in Models, NEW s \in Ancestry(n, E), NEW props \in KnownProperties(R),
             NEW names \in SUBSET (Fields \cup Methods)
      PROVE  [model |-> n, left |-> s, props |-> props, names |-> names] \in Activations(E, R)
  <2>1. s \in Seq(Models)
    BY DEF Ancestry
  <2> QED BY <2>1 DEF Activations
<1>7. CASE e.present
  <2> DEFINE props == InheritedFrom(a.props, e)
             names == a.names \cup NamesOf(e)
  <2>1. names \in SUBSET (Fields \cup Methods)
    BY <1>1, <1>5
  <2>2. Absorb(a, e) = [a EXCEPT !.left = Tail(a.left), !.props = props, !.names = names]
    BY <1>7 DEF Absorb
  <2>3. props \in KnownProperties(R)
    BY <1>4
  <2> HIDE DEF props, names
  <2>4. Absorb(a, e) = [model |-> a.model, left |-> Tail(a.left), props |-> props, names |-> names]
    BY <1>1, <2>2
  <2>5. [model |-> a.model, left |-> Tail(a.left), props |-> props, names |-> names] \in Activations(E, R)
    BY <1>1, <1>2, <1>6, <2>1, <2>3
  <2> QED BY <2>4, <2>5
<1>8. CASE ~e.present
  <2>1. Absorb(a, e) = [model |-> a.model, left |-> Tail(a.left), props |-> a.props, names |-> a.names]
    BY <1>1, <1>8 DEF Absorb
  <2>2. [model |-> a.model, left |-> Tail(a.left), props |-> a.props, names |-> a.names] \in Activations(E, R)
    BY <1>1, <1>2, <1>6
  <2> QED BY <2>1, <2>2
<1> QED BY <1>7, <1>8

LEMMA DescendStep ==
  ASSUME IInv, Descend
  PROVE  IInv'
<1> DEFINE a == Head(Last(stack).left)
<1>1. /\ ~overflow /\ stack # <<>> /\ Last(stack).left # <<>> /\ Needs(a)
      /\ IF a \in {stack[i].model : i \in DOMAIN stack}
         THEN overflow' = TRUE /\ UNCHANGED <<models, stack>>
         ELSE Begin(models, a) /\ UNCHANGED overflow
      /\ UNCHANGED <<disk, seen, read, asked, save, unread, saves, removals>>
  BY DEF Descend
<1>2. /\ models \in Tables(IndexedPlaces, InheritEdges, RelatedEdges)
      /\ Stacked(stack, models, InheritEdges, RelatedEdges)
      /\ Followed(asked, models, RelatedEdges) /\ (asked # <<>> => save = NoSave)
      /\ Saving(save, stack, models, InheritEdges) /\ unread \subseteq Models
  BY DEF IInv, TableInv, StackInv, AskedInv, SaveInv, FilesInv
<1>3. a \in Models
  BY <1>1, <1>2, AtWork
<1>4. models[a].present /\ (asked # <<>> => ~models[a].populated)
  BY <1>1, NeedsIs
<1> HIDE DEF a
<1>5. CASE a \in {stack[i].model : i \in DOMAIN stack}
  <2>1. PICK k \in DOMAIN stack : stack[k].model = a
    BY <1>5
  <2>2. Circle(InheritEdges, Models)
    BY <1>1, <1>2, <2>1, StackCircle DEF a
  <2>3. overflow' = TRUE /\ UNCHANGED <<disk, seen, read, models, stack, asked, save, unread, saves, removals>>
    BY <1>1, <1>5
  <2> QED BY <2>2, <2>3, OverflowStep
<1>6. CASE a \notin {stack[i].model : i \in DOMAIN stack}
  <2>1. Begin(models, a) /\ UNCHANGED overflow
    BY <1>1, <1>6
  <2>2. MayBegin(stack, models, a)
    BY <1>1, <1>4, <1>6 DEF MayBegin, a
  <2>3. /\ save' \in {NoSave} \cup [file : Files, items : Seq(Items(InheritEdges))]
        /\ \A i \in DOMAIN save'.items : save'.items[i].name \in Models /\ models[save'.items[i].name].present
    <3>1. save' = save /\ save \in {NoSave} \cup [file : Files, items : Seq(Items(InheritEdges))]
      BY <1>1, <1>2 DEF Saving
    <3>2. save.items \in Seq(Items(InheritEdges))
      <4>1. NoSave.items = <<>> /\ <<>> \in Seq(Items(InheritEdges))
        BY DEF NoSave
      <4> QED BY <3>1, <4>1
    <3>3. \A i \in DOMAIN save.items : save.items[i].name \in Models
      <4>1. \A i \in DOMAIN save.items : save.items[i] \in Items(InheritEdges)
        BY <3>2, ElementOfSeq, LenProperties
      <4> QED BY <4>1 DEF Items, Item
    <3> QED BY <1>2, <3>1, <3>3 DEF Saving
  <2>4. /\ UNCHANGED <<disk, seen, read, asked, overflow, saves, removals>> /\ unread' \subseteq Models
        /\ (asked # <<>> => ~models[a].populated /\ save' = NoSave)
    BY <1>1, <1>2, <1>4, <2>1
  <2> QED BY <1>1, <1>2, <1>3, <1>4, <2>1, <2>2, <2>3, <2>4, BeginStep
<1> QED BY <1>5, <1>6

LEMMA InheritStep ==
  ASSUME IInv, Inherit
  PROVE  IInv'
<1> DEFINE m == Head(Last(stack).left)
           new == Append(Front(stack), Absorb(Last(stack), models[m]))
<1>1. /\ ~overflow /\ stack # <<>> /\ Last(stack).left # <<>> /\ stack' = new
      /\ UNCHANGED <<disk, seen, read, models, asked, save, unread, overflow, saves, removals>>
  BY DEF Inherit
<1>2. /\ models \in Tables(IndexedPlaces, InheritEdges, RelatedEdges)
      /\ Stacked(stack, models, InheritEdges, RelatedEdges)
      /\ Followed(asked, models, RelatedEdges) /\ (asked # <<>> => save = NoSave)
      /\ Saving(save, stack, models, InheritEdges) /\ unread \subseteq Models
      /\ FilesInv /\ overflow \in BOOLEAN
  BY DEF IInv, TableInv, StackInv, AskedInv, SaveInv, FilesInv
<1>3. m \in Models /\ Last(stack) \in Activations(InheritEdges, RelatedEdges)
  BY <1>1, <1>2, AtWork
<1>4. models[m] \in Sound(m, IndexedPlaces, InheritEdges, RelatedEdges)
  BY <1>2, <1>3, TableEntry
<1>5. /\ Absorb(Last(stack), models[m]) \in Activations(InheritEdges, RelatedEdges)
      /\ Absorb(Last(stack), models[m]).model = Last(stack).model
  BY <1>1, <1>3, <1>4, AbsorbIs
<1>6. Stacked(new, models, InheritEdges, RelatedEdges) /\ new # <<>>
  BY <1>1, <1>2, <1>5, GoesOn
<1> HIDE DEF m, new
<1>7. /\ FilesInv' /\ IndexedPlaces' = IndexedPlaces /\ InheritEdges' = InheritEdges
      /\ RelatedEdges' = RelatedEdges
  BY <1>1, <1>2, FilesKept
<1>8. TableInv' /\ StackInv' /\ AskedInv' /\ CrashOnlyOnCircle'
  BY <1>1, <1>2, <1>6, <1>7 DEF TableInv, StackInv, AskedInv, CrashOnlyOnCircle
<1>9. SaveInv'
  BY <1>1, <1>2, <1>6, <1>7 DEF SaveInv, Saving
<1> QED BY <1>7, <1>8, <1>9 DEF IInv

\* The classes at the known places are of files that were indexed.
LEMMA PlacesLegible ==
  ASSUME FilesInv
  PROVE  Seq(IndexedPlaces) \subseteq Seq(LegiblePlaces(disk, RelatedEdges))
<1>1. ASSUME NEW p \in IndexedPlaces PROVE p \in LegiblePlaces(disk, RelatedEdges)
  <2> DEFINE s == <<p.file, disk[p.file]>>
  <2>1. p \in PlaceSet /\ s \in seen /\ s[1] = p.file /\ s[2] = disk[p.file]
    BY DEF IndexedPlaces
  <2>2. Relates(Contents[s[1]][s[2]], RelatedEdges)
    BY <2>1, SeenGive
  <2>3. Relates(Contents[p.file][disk[p.file]], RelatedEdges)
    BY <2>1, <2>2
  <2>4. disk[p.file] \in DOMAIN Contents[p.file]
    BY <2>1 DEF PlaceSet, FilesInv
  <2> QED BY <2>1, <2>3, <2>4, PlaceLegible
<1> QED BY <1>1, SeqMonotonic

\* What a model is when its activation ends.
LEMMA WorkedIs ==
  ASSUME FilesInv, TableInv,
         NEW a \in Activations(InheritEdges, RelatedEdges), models[a.model].present
  PROVE  /\ Worked(a) \in Sound(a.model, IndexedPlaces, InheritEdges, RelatedEdges)
         /\ Worked(a).present /\ Worked(a).populated
<1> DEFINE m == a.model
           reads == ToRead(models[m], Filter)
           props == Retained(Own(disk, reads, a.props), Filter)
           names == a.names \cup OwnNames(disk, reads)
<1>1. m \in Models /\ a.props \in KnownProperties(RelatedEdges) /\ a.names \subseteq Fields \cup Methods
  BY DEF Activations
<1>2. models[m] \in Sound(m, IndexedPlaces, InheritEdges, RelatedEdges)
  BY <1>1, TableEntry DEF TableInv
<1>3. reads \in Seq(LegiblePlaces(disk, RelatedEdges))
  BY <1>2, ReadPlaces, PlacesLegible
<1>4. Worked(a) = Store(models[m], props, names)
  BY DEF Worked
<1> HIDE DEF reads
<1>5. props \in KnownProperties(RelatedEdges)
  BY <1>1, <1>3, OwnKnown, RetainedKnown
<1>6. names \in SUBSET (Fields \cup Methods)
  BY <1>1, <1>3, OwnNamesKnown
<1> HIDE DEF props, names
<1> QED BY <1>2, <1>4, <1>5, <1>6, StoreSound

LEMMA FinishStep ==
  ASSUME IInv, Finish
  PROVE  IInv'
<1> DEFINE a == Last(stack)
           below == Front(stack)
           new == IF below = <<>> THEN <<>> ELSE Append(Front(below), Absorb(Last(below), Worked(a)))
<1>1. /\ ~overflow /\ stack # <<>> /\ Last(stack).left = <<>> /\ stack' = new
      /\ models' = [models EXCEPT ![a.model] = Worked(a)]
      /\ IF below = <<>>
         THEN unread' = {} /\ save' = IF save.items = <<>> THEN NoSave ELSE save
         ELSE UNCHANGED <<unread, save>>
      /\ UNCHANGED <<disk, seen, read, asked, overflow, saves, removals>>
  BY DEF Finish
<1>2. /\ models \in Tables(IndexedPlaces, InheritEdges, RelatedEdges)
      /\ Stacked(stack, models, InheritEdges, RelatedEdges)
      /\ Followed(asked, models, RelatedEdges) /\ (asked # <<>> => save = NoSave)
      /\ Saving(save, stack, models, InheritEdges) /\ unread \subseteq Models
      /\ FilesInv /\ overflow \in BOOLEAN /\ TableInv
  BY DEF IInv, TableInv, StackInv, AskedInv, SaveInv, FilesInv
<1>3. /\ a \in Activations(InheritEdges, RelatedEdges) /\ a.model \in Models
      /\ models[a.model].present /\ ~models[a.model].populated
  BY <1>1, <1>2, AtWork
<1>4. /\ Worked(a) \in Sound(a.model, IndexedPlaces, InheritEdges, RelatedEdges)
      /\ Worked(a).present /\ Worked(a).populated
  BY <1>2, <1>3, WorkedIs
<1>5. /\ models' \in Tables(IndexedPlaces, InheritEdges, RelatedEdges)
      /\ \A n \in Models : models'[n] = IF n = a.model THEN Worked(a) ELSE models[n]
  <2>1. models' \in Tables(IndexedPlaces, InheritEdges, RelatedEdges)
    BY <1>1, <1>2, <1>3, <1>4, TableWith
  <2> QED BY <1>1, <1>2, <1>3, <2>1 DEF Tables
<1>6. Stacked(below, models', InheritEdges, RelatedEdges)
  <2>1. \A n \in Models : n # Last(stack).model => models'[n] = models[n]
    BY <1>5
  <2> QED BY <1>1, <1>2, <2>1, Ends
<1> HIDE DEF a, below
<1>7. Stacked(new, models', InheritEdges, RelatedEdges) /\ (new = <<>> => below = <<>>)
  <2>1. CASE below = <<>>
    BY <1>6, <2>1
  <2>2. CASE below # <<>>
    <3> DEFINE b == Absorb(Last(below), Worked(a))
    <3>1. /\ Last(below) \in Activations(InheritEdges, RelatedEdges) /\ Last(below).left # <<>>
      <4>1. Last(below) \in Activations(InheritEdges, RelatedEdges)
        BY <1>6, <2>2, AtWork
      <4>2. Last(below).left # <<>>
        <5>1. stack \in Seq(Activations(InheritEdges, RelatedEdges))
          BY <1>2 DEF Stacked
        <5> DEFINE n == Len(stack)
        <5>2. /\ n \in Nat \ {0} /\ DOMAIN stack = 1..n /\ below \in Seq(Activations(InheritEdges, RelatedEdges))
              /\ Len(below) = n - 1 /\ \A i \in 1..(n - 1) : below[i] = stack[i]
          BY <1>1, <5>1, FrontAndLast DEF below
        <5>3. Len(below) \in Nat \ {0} /\ Last(below) = below[Len(below)]
          BY <2>2, <5>2, FrontAndLast
        <5> HIDE DEF n
        <5>4. n - 1 \in DOMAIN stack /\ (n - 1) + 1 \in DOMAIN stack /\ Last(below) = stack[n - 1]
          BY <5>2, <5>3
        <5> QED BY <1>2, <5>4 DEF Stacked
      <4> QED BY <4>1, <4>2
    <3>2. b \in Activations(InheritEdges, RelatedEdges) /\ b.model = Last(below).model
      <4> DEFINE c == Last(below)
                 e == Worked(a)
                 m == a.model
      <4>1. /\ c \in Activations(InheritEdges, RelatedEdges) /\ c.left # <<>>
            /\ e \in Sound(m, IndexedPlaces, InheritEdges, RelatedEdges)
        BY <1>4, <3>1
      <4> HIDE DEF c, e, m, b, new
      <4>2. Absorb(c, e) \in Activations(InheritEdges, RelatedEdges) /\ Absorb(c, e).model = c.model
        BY <4>1, AbsorbIs
      <4> QED BY <4>2 DEF b, c, e
    <3> HIDE DEF b
    <3>3. Stacked(Append(Front(below), b), models', InheritEdges, RelatedEdges) /\ Append(Front(below), b) # <<>>
      BY <1>6, <2>2, <3>2, GoesOn
    <3> QED BY <2>2, <3>3 DEF b
  <2> QED BY <2>1, <2>2
<1>8. new # <<>> => below # <<>>
  OBVIOUS
<1> HIDE DEF new
<1>9. /\ FilesInv' /\ IndexedPlaces' = IndexedPlaces /\ InheritEdges' = InheritEdges
      /\ RelatedEdges' = RelatedEdges
  <2>1. unread' \subseteq Models /\ overflow' \in BOOLEAN
    BY <1>1, <1>2
  <2> QED BY <1>1, <1>2, <2>1, FilesKept
<1>10. TableInv' /\ StackInv' /\ CrashOnlyOnCircle'
  BY <1>1, <1>5, <1>7, <1>9 DEF TableInv, StackInv, CrashOnlyOnCircle
<1>11. AskedInv'
  <2>1. \A n \in Models : models[n].present /\ models[n].populated => models'[n] = models[n]
    BY <1>3, <1>5
  <2>2. Followed(asked, models', RelatedEdges)
    BY <1>2, <2>1, FollowedStill
  <2>3. asked # <<>> => save' = NoSave
    BY <1>1, <1>2
  <2> QED BY <1>1, <1>9, <2>2, <2>3 DEF AskedInv
<1>12. SaveInv'
  <2>1. NoSave.items = <<>> /\ DOMAIN <<>> = {}
    BY DEF NoSave
  <2>2. \A i \in DOMAIN save.items : models'[save.items[i].name].present
    <3>1. save.items \in Seq(Items(InheritEdges))
      <4>1. <<>> \in Seq(Items(InheritEdges))
        OBVIOUS
      <4> QED BY <1>2, <2>1, <4>1 DEF Saving
    <3>2. \A i \in DOMAIN save.items : save.items[i].name \in Models
      <4>1. \A i \in DOMAIN save.items : save.items[i] \in Items(InheritEdges)
        BY <3>1, ElementOfSeq, LenProperties
      <4> QED BY <4>1 DEF Items, Item
    <3> QED BY <1>2, <1>4, <1>5, <3>2 DEF Saving
  <2>3. CASE below = <<>>
    <3>1. CASE save.items = <<>>
      BY <1>1, <1>9, <2>1, <2>3, <3>1 DEF SaveInv, Saving
    <3>2. CASE save.items # <<>>
      BY <1>1, <1>2, <1>9, <2>2, <2>3, <3>2 DEF SaveInv, Saving
    <3> QED BY <3>1, <3>2
  <2>4. CASE below # <<>>
    BY <1>1, <1>2, <1>7, <1>9, <2>2, <2>4 DEF SaveInv, Saving
  <2> QED BY <2>3, <2>4
<1> QED BY <1>9, <1>10, <1>11, <1>12 DEF IInv

\* What is to be read is of models.
LEMMA ItemsLeft ==
  ASSUME NEW E, NEW sv \in {NoSave} \cup [file : Files, items : Seq(Items(E))]
  PROVE  /\ sv.items \in Seq(Items(E)) /\ \A i \in DOMAIN sv.items : sv.items[i].name \in Models
         /\ sv.items # <<>> =>
              /\ Head(sv.items) \in Items(E) /\ 1 \in DOMAIN sv.items /\ Head(sv.items) = sv.items[1]
              /\ Tail(sv.items) \in Seq(Items(E))
              /\ \A i \in DOMAIN Tail(sv.items) :
                   i + 1 \in DOMAIN sv.items /\ Tail(sv.items)[i] = sv.items[i + 1]
<1> DEFINE s == sv.items
<1>1. s \in Seq(Items(E))
  <2>1. NoSave.items = <<>> /\ <<>> \in Seq(Items(E))
    BY DEF NoSave
  <2> QED BY <2>1
<1> HIDE DEF s
<1>2. \A i \in DOMAIN s : s[i].name \in Models
  <2>1. \A i \in DOMAIN s : s[i] \in Items(E)
    BY <1>1, ElementOfSeq, LenProperties
  <2> QED BY <2>1 DEF Items, Item
<1>3. ASSUME s # <<>>
      PROVE  /\ Head(s) \in Items(E) /\ 1 \in DOMAIN s /\ Head(s) = s[1] /\ Tail(s) \in Seq(Items(E))
             /\ \A i \in DOMAIN Tail(s) : i + 1 \in DOMAIN s /\ Tail(s)[i] = s[i + 1]
  <2>1. Len(s) \in Nat \ {0} /\ DOMAIN s = 1..Len(s)
    BY <1>1, <1>3, EmptySeq, LenProperties
  <2>2. /\ Tail(s) \in Seq(Items(E)) /\ Len(Tail(s)) = Len(s) - 1
        /\ \A i \in 1..Len(Tail(s)) : Tail(s)[i] = s[i + 1]
    BY <1>1, <1>3, HeadTailProperties
  <2>3. DOMAIN Tail(s) = 1..(Len(s) - 1)
    BY <2>2, LenProperties
  <2>4. Head(s) = s[1] /\ 1 \in DOMAIN s /\ s[1] \in Items(E)
    BY <1>1, <2>1
  <2> QED BY <2>1, <2>2, <2>3, <2>4
<1> QED BY <1>1, <1>2, <1>3 DEF s

\* An entry whose base is read again has its ancestors once more.
AppendAncestors(t, item) ==
  IF item.is = "base" THEN [t EXCEPT ![item.name].ancestors = @ \o item.all] ELSE t
LEMMA AncestorsAppended ==
  ASSUME NEW P, NEW E, NEW R, NEW t \in Tables(P, E, R), NEW item \in Items(E), t[item.name].present
  PROVE  /\ AppendAncestors(t, item) \in Tables(P, E, R)
         /\ \A m \in Models : t[m].present => AppendAncestors(t, item)[m].present
<1> DEFINE m == item.name
           s == t[m].ancestors \o item.all
           e == [t[m] EXCEPT !.ancestors = s]
           u == AppendAncestors(t, item)
<1>1. m \in Models
  BY DEF Items, Item
<1>2. CASE item.is = "base"
  <2>1. t[m] \in Sound(m, P, E, R) /\ t[m].ancestors \in Ancestry(m, E)
    BY <1>1, TableEntry
  <2>2. item.all \in Ancestry(m, E)
    BY <1>2 DEF Items, Further
  <2>3. s \in Ancestry(m, E)
    BY <2>1, <2>2, AncestryParts
  <2>4. u = [t EXCEPT ![m] = e]
    BY <1>2 DEF AppendAncestors
  <2> HIDE DEF s
  <2>5. e \in Sound(m, P, E, R) /\ e.present
    BY <2>1, <2>3, ChangedSound
  <2> HIDE DEF e, u, m
  <2>6. u \in Tables(P, E, R)
    BY <1>1, <2>4, <2>5, TableWith
  <2>7. \A n \in Models : t[n].present => u[n].present
    BY <1>1, <2>4, <2>5 DEF Tables
  <2> QED BY <2>6, <2>7 DEF u
<1>3. CASE item.is # "base"
  BY <1>3 DEF AppendAncestors
<1> QED BY <1>2, <1>3

LEMMA ReadAgainStep ==
  ASSUME IInv, ReadAgain
  PROVE  IInv'
<1> DEFINE item == Head(save.items)
           t == AppendAncestors(models, item)
<1>1. /\ save # NoSave /\ stack = <<>> /\ ~overflow /\ save' = [save EXCEPT !.items = Tail(@)]
      /\ Begin(t, item.name) /\ UNCHANGED <<disk, seen, read, asked, unread, overflow, saves, removals>>
  BY DEF ReadAgain, AppendAncestors
<1>2. /\ models \in Tables(IndexedPlaces, InheritEdges, RelatedEdges)
      /\ asked = <<>> /\ Saving(save, stack, models, InheritEdges) /\ unread \subseteq Models
  BY <1>1 DEF IInv, TableInv, AskedInv, SaveInv, FilesInv
<1>3. /\ save.items # <<>> /\ save \in {NoSave} \cup [file : Files, items : Seq(Items(InheritEdges))]
      /\ \A i \in DOMAIN save.items : models[save.items[i].name].present
  BY <1>1, <1>2 DEF Saving
<1>4. /\ item \in Items(InheritEdges) /\ models[item.name].present
      /\ Tail(save.items) \in Seq(Items(InheritEdges))
      /\ \A i \in DOMAIN Tail(save.items) :
           i + 1 \in DOMAIN save.items /\ Tail(save.items)[i] = save.items[i + 1]
  BY <1>3, ItemsLeft
<1>5. item.name \in Models
  BY <1>4 DEF Items, Item
<1>6. /\ t \in Tables(IndexedPlaces, InheritEdges, RelatedEdges)
      /\ \A m \in Models : models[m].present => t[m].present
  BY <1>2, <1>4, AncestorsAppended
<1> HIDE DEF t, item
<1>7. MayBegin(stack, t, item.name)
  <2>1. DOMAIN <<>> = {}
    OBVIOUS
  <2> QED BY <1>1, <1>4, <1>5, <1>6, <2>1 DEF MayBegin
<1>8. Stacked(stack, t, InheritEdges, RelatedEdges) /\ Followed(asked, t, RelatedEdges)
  BY <1>1, <1>2, NothingAtWork
<1>9. /\ save' \in {NoSave} \cup [file : Files, items : Seq(Items(InheritEdges))]
      /\ \A i \in DOMAIN save'.items : save'.items[i].name \in Models /\ t[save'.items[i].name].present
  <2>1. save \in [file : Files, items : Seq(Items(InheritEdges))]
    BY <1>1, <1>3
  <2>2. save' = [file |-> save.file, items |-> Tail(save.items)]
    BY <1>1, <2>1
  <2>3. save' \in [file : Files, items : Seq(Items(InheritEdges))] /\ save'.items = Tail(save.items)
    BY <1>4, <2>1, <2>2
  <2>4. \A i \in DOMAIN save.items : save.items[i].name \in Models
    BY <1>3, ItemsLeft
  <2> QED BY <1>3, <1>4, <1>6, <2>3, <2>4
<1>10. /\ UNCHANGED <<disk, seen, read, asked, overflow, saves, removals>> /\ unread' \subseteq Models
       /\ (asked # <<>> => ~t[item.name].populated /\ save' = NoSave) /\ t[item.name].present
  BY <1>1, <1>2, <1>4, <1>5, <1>6
<1> QED BY <1>1, <1>5, <1>6, <1>7, <1>8, <1>9, <1>10, BeginStep

LEMMA RemoveRootStep ==
  ASSUME IInv, NEW r, RemoveRoot(r) \/ RemoveRootHangs(r)
  PROVE  IInv'
<1>1. /\ Idle /\ removals < MaxRemovals /\ removals' = removals + 1 /\ read' = {f \in read : RootOf[f] # r}
      /\ UNCHANGED <<disk, seen, stack, asked, save, unread, overflow, saves>>
  BY DEF RemoveRoot, RemoveRootHangs, Reconfigure
<1>2. FilesInv /\ TableInv
  BY DEF IInv
<1>3. FilesInv'
  <2>1. removals \in 0..MaxRemovals /\ MaxRemovals \in Nat
    BY <1>2, ModelAssumption DEF FilesInv
  <2>2. removals' \in 0..MaxRemovals
    BY <1>1, <2>1
  <2> QED BY <1>1, <1>2, <2>2 DEF FilesInv
<1>4. TableInv'
  <2> DEFINE k == Remaining(Marked(models, r))
             pruned(done) == [m \in Models |-> IF m \in done THEN Pruned(k, m) ELSE k[m]]
  <2>1. \E done : models' = pruned(done)
    <3>1. CASE RemoveRoot(r)
      <4>1. models' = [m \in Models |-> Pruned(k, m)]
        BY <3>1 DEF RemoveRoot, DeleteMarked
      <4> QED BY <4>1
    <3>2. CASE RemoveRootHangs(r)
      BY <3>2 DEF RemoveRootHangs
    <3> QED BY <3>1, <3>2
  <2>2. \A done : pruned(done) \in Tables(IndexedPlaces, InheritEdges, RelatedEdges)
    BY <1>2, DeleteMarkedSound DEF TableInv
  <2>3. models' \in Tables(IndexedPlaces, InheritEdges, RelatedEdges)
    BY <2>1, <2>2
  <2> QED BY <1>1, <2>3, SameFiles DEF TableInv
<1>5. StackInv' /\ AskedInv' /\ SaveInv' /\ CrashOnlyOnCircle'
  BY <1>1, NothingAtWork DEF Idle, StackInv, AskedInv, SaveInv, CrashOnlyOnCircle
<1> QED BY <1>3, <1>4, <1>5 DEF IInv

\* The path that is followed.
LEMMA AtPath ==
  ASSUME NEW rs, NEW t, NEW R, Followed(rs, t, R), rs # <<>>
  PROVE  /\ Len(rs) \in Nat \ {0} /\ Len(rs) \in DOMAIN rs /\ Last(rs) = rs[Len(rs)]
         /\ Last(rs) \in Request
         /\ Last(rs).model \in Models \cup {NoModel} /\ Last(rs).field \in Fields
         /\ Last(rs).at \in Models /\ Last(rs).left \in Seq(Fields)
         /\ Last(rs).left # <<>> =>
              /\ Head(Last(rs).left) \in Fields /\ Tail(Last(rs).left) \in Seq(Fields)
              /\ DOMAIN Tail(Last(rs).left) \subseteq Nat
              /\ \A i \in DOMAIN Tail(Last(rs).left) :
                   i + 1 \in DOMAIN Last(rs).left /\ Tail(Last(rs).left)[i] = Last(rs).left[i + 1]
<1>1. rs \in Seq(Request)
  BY DEF Followed
<1>2. Len(rs) \in Nat \ {0} /\ Len(rs) \in DOMAIN rs /\ Last(rs) = rs[Len(rs)] /\ Last(rs) \in Request
  BY <1>1, FrontAndLast
<1>3. /\ Last(rs).model \in Models \cup {NoModel} /\ Last(rs).field \in Fields
      /\ Last(rs).at \in Models /\ Last(rs).left \in Seq(Fields)
  BY <1>2 DEF Request
<1> DEFINE s == Last(rs).left
<1>4. ASSUME s # <<>>
      PROVE  /\ Head(s) \in Fields /\ Tail(s) \in Seq(Fields) /\ DOMAIN Tail(s) \subseteq Nat
             /\ \A i \in DOMAIN Tail(s) : i + 1 \in DOMAIN s /\ Tail(s)[i] = s[i + 1]
  <2>1. s \in Seq(Fields)
    BY <1>3
  <2> HIDE DEF s
  <2>2. Len(s) \in Nat \ {0} /\ DOMAIN s = 1..Len(s)
    BY <1>4, <2>1, EmptySeq, LenProperties
  <2>3. /\ Tail(s) \in Seq(Fields) /\ Len(Tail(s)) = Len(s) - 1 /\ Head(s) \in Fields
        /\ \A i \in 1..Len(Tail(s)) : Tail(s)[i] = s[i + 1]
    BY <1>4, <2>1, HeadTailProperties
  <2>4. DOMAIN Tail(s) = 1..(Len(s) - 1)
    BY <2>3, LenProperties
  <2> QED BY <2>2, <2>3, <2>4
<1> HIDE DEF s
<1>5. s # <<>> =>
        /\ Head(s) \in Fields /\ Tail(s) \in Seq(Fields) /\ DOMAIN Tail(s) \subseteq Nat
        /\ \A i \in DOMAIN Tail(s) : i + 1 \in DOMAIN s /\ Tail(s)[i] = s[i + 1]
  BY <1>4
<1> QED BY <1>2, <1>3, <1>5 DEF s

\* It is followed a step.
LEMMA PathOn ==
  ASSUME NEW rs, NEW t, NEW R, Followed(rs, t, R), rs # <<>>, Last(rs).left # <<>>, NEW to \in Models
  PROVE  Followed(Append(Front(rs), Arrived(Last(rs), to)), t, R)
<1> DEFINE a == Arrived(Last(rs), to)
           new == Append(Front(rs), a)
           n == Len(rs)
<1>1. rs \in Seq(Request)
  BY DEF Followed
<1>2. /\ Front(rs) \in Seq(Request) /\ n \in Nat \ {0} /\ Len(Front(rs)) = n - 1
      /\ DOMAIN rs = 1..n /\ Last(rs) = rs[n] /\ \A i \in 1..(n - 1) : Front(rs)[i] = rs[i]
  BY <1>1, FrontAndLast
<1>3. /\ a \in Request /\ a.model = Last(rs).model /\ a.field = Last(rs).field
      /\ a.left = Tail(Last(rs).left)
  <2>1. Last(rs) \in Request /\ Tail(Last(rs).left) \in Seq(Fields)
    BY AtPath
  <2>2. Last(rs) = [model |-> Last(rs).model, field |-> Last(rs).field, at |-> Last(rs).at, left |-> Last(rs).left]
    BY <2>1 DEF Request
  <2>3. a = [model |-> Last(rs).model, field |-> Last(rs).field, at |-> to, left |-> Tail(Last(rs).left)]
    <3> DEFINE r == Last(rs)
               s == Tail(r.left)
    <3>1. a = [r EXCEPT !.at = to, !.left = s]
      BY DEF Arrived
    <3>2. r = [model |-> r.model, field |-> r.field, at |-> r.at, left |-> r.left]
      BY <2>2
    <3> HIDE DEF a, r, s
    <3> QED BY <3>1, <3>2 DEF s, r
  <2> QED BY <2>1, <2>3 DEF Request
<1> HIDE DEF a
<1>4. /\ new \in Seq(Request) /\ DOMAIN new = 1..n
      /\ new[n] = a /\ \A i \in 1..(n - 1) : new[i] = rs[i]
  BY <1>2, <1>3, AppendProperties
<1> HIDE DEF new, n
<1>5. \A i \in 1..n : new[i].model = rs[i].model /\ new[i].field = rs[i].field /\ (i # n => new[i] = rs[i])
  BY <1>2, <1>3, <1>4
<1>6. ASSUME NEW i \in DOMAIN new
      PROVE  /\ (new[i].model = NoModel) <=> (i = 1)
             /\ i + 1 \in DOMAIN new => new[i].left # <<>> /\ new[i + 1].field = Head(new[i].left)
             /\ i # 1 => /\ t[new[i].model].present /\ t[new[i].model].populated
                         /\ t[new[i].model].fields[new[i].field].kind \in {"related", "relational"}
                         /\ Path(new[i].field, new[i].left, R)
  <2>1. i \in 1..n /\ i \in DOMAIN rs
    BY <1>2, <1>4
  <2>2. (new[i].model = NoModel) <=> (i = 1)
    BY <1>5, <2>1 DEF Followed
  <2>3. i + 1 \in DOMAIN new => new[i].left # <<>> /\ new[i + 1].field = Head(new[i].left)
    <3> SUFFICES ASSUME i + 1 \in DOMAIN new
                 PROVE  new[i].left # <<>> /\ new[i + 1].field = Head(new[i].left)
      OBVIOUS
    <3>1. i # n /\ i + 1 \in 1..n /\ i + 1 \in DOMAIN rs
      BY <1>2, <1>4, <2>1
    <3>2. rs[i].left # <<>> /\ rs[i + 1].field = Head(rs[i].left)
      BY <2>1, <3>1 DEF Followed
    <3> QED BY <1>5, <2>1, <3>1, <3>2
  <2>4. i # 1 => /\ t[new[i].model].present /\ t[new[i].model].populated
                 /\ t[new[i].model].fields[new[i].field].kind \in {"related", "relational"}
    BY <1>5, <2>1 DEF Followed
  <2>5. i # 1 => Path(new[i].field, new[i].left, R)
    <3> SUFFICES ASSUME i # 1 PROVE Path(new[i].field, new[i].left, R)
      OBVIOUS
    <3>1. Path(rs[i].field, rs[i].left, R)
      BY <2>1 DEF Followed
    <3>2. CASE i # n
      BY <1>5, <2>1, <3>1, <3>2
    <3>3. CASE i = n
      <4>1. /\ new[i].left = Tail(Last(rs).left) /\ rs[i].left = Last(rs).left /\ new[i].field = rs[i].field
        BY <1>2, <1>3, <1>4, <1>5, <2>1, <3>3
      <4>2. \A j \in DOMAIN Tail(Last(rs).left) :
              j + 1 \in DOMAIN Last(rs).left /\ Tail(Last(rs).left)[j] = Last(rs).left[j + 1]
        BY AtPath
      <4> QED BY <3>1, <4>1, <4>2 DEF Path
    <3> QED BY <3>2, <3>3
  <2> QED BY <2>2, <2>3, <2>4, <2>5
<1> QED BY <1>4, <1>6 DEF Followed, new, a

\* It comes to its end.
LEMMA PathEnds ==
  ASSUME NEW rs, NEW t, NEW R, Followed(rs, t, R), rs # <<>>
  PROVE  /\ Followed(Front(rs), t, R)
         /\ Front(rs) # <<>> =>
              /\ Last(Front(rs)).left # <<>> /\ Last(rs).model \in Models
              /\ t[Last(rs).model].present
              /\ t[Last(rs).model].fields[Last(rs).field].kind \in {"related", "relational"}
<1> DEFINE f == Front(rs)
           n == Len(rs)
<1>1. rs \in Seq(Request)
  BY DEF Followed
<1>2. /\ f \in Seq(Request) /\ n \in Nat \ {0} /\ Len(f) = n - 1
      /\ DOMAIN rs = 1..n /\ Last(rs) = rs[n] /\ \A i \in 1..(n - 1) : f[i] = rs[i]
  BY <1>1, FrontAndLast
<1>3. DOMAIN f = 1..(n - 1)
  BY <1>2, LenProperties
<1>4. Last(rs).model \in Models \cup {NoModel}
  BY AtPath
<1> HIDE DEF f, n
<1>5. \A i \in DOMAIN f : i \in DOMAIN rs /\ f[i] = rs[i] /\ (i + 1 \in DOMAIN f => i + 1 \in DOMAIN rs /\ f[i + 1] = rs[i + 1])
  BY <1>2, <1>3
<1>6. Followed(f, t, R)
  <2>1. ASSUME NEW i \in DOMAIN f
        PROVE  /\ (f[i].model = NoModel) <=> (i = 1)
               /\ i + 1 \in DOMAIN f => f[i].left # <<>> /\ f[i + 1].field = Head(f[i].left)
               /\ i # 1 => /\ t[f[i].model].present /\ t[f[i].model].populated
                           /\ t[f[i].model].fields[f[i].field].kind \in {"related", "relational"}
                           /\ Path(f[i].field, f[i].left, R)
    BY <1>5 DEF Followed
  <2> QED BY <1>2, <2>1 DEF Followed
<1>7. ASSUME f # <<>>
      PROVE  /\ Last(f).left # <<>> /\ Last(rs).model \in Models
             /\ t[Last(rs).model].present
             /\ t[Last(rs).model].fields[Last(rs).field].kind \in {"related", "relational"}
  <2>1. Len(f) \in Nat \ {0} /\ Last(f) = f[Len(f)]
    BY <1>2, <1>7, FrontAndLast
  <2>2. /\ n - 1 \in DOMAIN rs /\ (n - 1) + 1 \in DOMAIN rs /\ n \in DOMAIN rs /\ n # 1
        /\ Last(f) = rs[n - 1]
    BY <1>2, <2>1
  <2>3. Last(f).left # <<>>
    BY <2>2 DEF Followed
  <2>4. /\ rs[n].model # NoModel /\ t[rs[n].model].present
        /\ t[rs[n].model].fields[rs[n].field].kind \in {"related", "relational"}
    BY <2>2 DEF Followed
  <2> QED BY <1>2, <1>4, <2>3, <2>4
<1> QED BY <1>6, <1>7 DEF f

\* It leads to a field that is related itself.
LEMMA PathInto ==
  ASSUME NEW rs, NEW t, NEW R, Followed(rs, t, R), rs # <<>>, Last(rs).left # <<>>,
         NEW a \in Request, a.model \in Models, a.field = Head(Last(rs).left),
         t[a.model].present, t[a.model].populated, t[a.model].fields[a.field].kind = "related",
         Path(a.field, a.left, R)
  PROVE  Followed(Append(rs, a), t, R)
<1> DEFINE new == Append(rs, a)
           n == Len(rs)
<1>1. rs \in Seq(Request)
  BY DEF Followed
<1>2. n \in Nat \ {0} /\ DOMAIN rs = 1..n /\ Last(rs) = rs[n]
  BY <1>1, FrontAndLast
<1>3. /\ new \in Seq(Request) /\ DOMAIN new = 1..(n + 1)
      /\ new[n + 1] = a /\ \A i \in 1..n : new[i] = rs[i]
  BY <1>1, <1>2, AppendProperties
<1>4. a.model # NoModel
  BY ModelAssumption
<1> HIDE DEF new, n
<1>5. ASSUME NEW i \in DOMAIN new
      PROVE  /\ (new[i].model = NoModel) <=> (i = 1)
             /\ i + 1 \in DOMAIN new => new[i].left # <<>> /\ new[i + 1].field = Head(new[i].left)
             /\ i # 1 => /\ t[new[i].model].present /\ t[new[i].model].populated
                         /\ t[new[i].model].fields[new[i].field].kind \in {"related", "relational"}
                         /\ Path(new[i].field, new[i].left, R)
  <2>1. CASE i = n + 1
    <3>1. new[i] = a /\ i # 1 /\ i + 1 \notin DOMAIN new
      BY <1>2, <1>3, <2>1
    <3> QED BY <1>4, <3>1
  <2>2. CASE i = n
    <3>1. new[i] = rs[i] /\ i \in DOMAIN rs /\ new[i + 1] = a /\ rs[i] = Last(rs)
      BY <1>2, <1>3, <2>2
    <3>2. new[i].left # <<>> /\ new[i + 1].field = Head(new[i].left)
      BY <3>1
    <3> QED BY <3>1, <3>2 DEF Followed
  <2>3. CASE i # n /\ i # n + 1
    <3>1. new[i] = rs[i] /\ i \in DOMAIN rs /\ new[i + 1] = rs[i + 1] /\ i + 1 \in DOMAIN rs
      BY <1>2, <1>3, <2>3
    <3> QED BY <3>1 DEF Followed
  <2> QED BY <2>1, <2>2, <2>3
<1> QED BY <1>3, <1>5 DEF Followed, new

LEMMA ResolveStep ==
  ASSUME IInv, NEW m \in Models, NEW x \in Fields, Resolve(m, x)
  PROVE  IInv'
<1> DEFINE a == [model |-> NoModel, field |-> x, at |-> m, left |-> <<x>>]
<1>1. /\ Idle /\ asked' = <<a>>
      /\ UNCHANGED <<disk, seen, read, models, stack, save, unread, overflow, saves, removals>>
  BY DEF Resolve
<1>2. FilesInv /\ TableInv /\ StackInv /\ SaveInv /\ unread \subseteq Models /\ overflow \in BOOLEAN
  BY DEF IInv, FilesInv
<1>3. /\ FilesInv' /\ IndexedPlaces' = IndexedPlaces /\ InheritEdges' = InheritEdges
      /\ RelatedEdges' = RelatedEdges
  BY <1>1, <1>2, FilesKept
<1>4. AskedInv'
  <2>1. a \in Request /\ a.model = NoModel
    BY DEF Request
  <2> HIDE DEF a
  <2>2. asked' \in Seq(Request) /\ DOMAIN asked' = {1} /\ asked'[1] = a
    BY <1>1, <2>1
  <2>3. save' = NoSave
    BY <1>1 DEF Idle
  <2> QED BY <2>1, <2>2, <2>3 DEF AskedInv, Followed
<1>5. TableInv' /\ StackInv' /\ SaveInv' /\ CrashOnlyOnCircle'
  BY <1>1, <1>2, <1>3 DEF TableInv, StackInv, SaveInv, CrashOnlyOnCircle, Idle
<1> QED BY <1>3, <1>4, <1>5 DEF IInv

LEMMA PopulateAskedStep ==
  ASSUME IInv, PopulateAsked
  PROVE  IInv'
<1> DEFINE m == Last(asked).at
<1>1. /\ asked # <<>> /\ stack = <<>> /\ ~overflow /\ Needs(m) /\ Begin(models, m)
      /\ UNCHANGED <<disk, seen, read, asked, save, unread, overflow, saves, removals>>
  BY DEF PopulateAsked, Answered
<1>2. /\ models \in Tables(IndexedPlaces, InheritEdges, RelatedEdges)
      /\ Stacked(stack, models, InheritEdges, RelatedEdges)
      /\ Followed(asked, models, RelatedEdges) /\ save = NoSave /\ unread \subseteq Models
  BY <1>1 DEF IInv, TableInv, StackInv, AskedInv, FilesInv
<1>3. m \in Models
  BY <1>1, <1>2, AtPath
<1>4. models[m].present /\ ~models[m].populated
  BY <1>1, NeedsIs
<1> HIDE DEF m
<1>5. MayBegin(stack, models, m)
  <2>1. DOMAIN <<>> = {}
    OBVIOUS
  <2> QED BY <1>1, <1>4, <2>1 DEF MayBegin
<1>6. /\ save' \in {NoSave} \cup [file : Files, items : Seq(Items(InheritEdges))]
      /\ \A i \in DOMAIN save'.items : save'.items[i].name \in Models /\ models[save'.items[i].name].present
  <2>1. NoSave.items = <<>> /\ DOMAIN <<>> = {}
    BY DEF NoSave
  <2> QED BY <1>1, <1>2, <2>1
<1>7. /\ UNCHANGED <<disk, seen, read, asked, overflow, saves, removals>> /\ unread' \subseteq Models
      /\ (asked # <<>> => ~models[m].populated /\ save' = NoSave)
  BY <1>1, <1>2, <1>4
<1> QED BY <1>1, <1>2, <1>3, <1>4, <1>5, <1>6, <1>7, BeginStep

\* Where only the paths change.
LEMMA AskedStep ==
  ASSUME IInv, UNCHANGED <<disk, seen, read, stack, save, unread, overflow, saves, removals>>, ~overflow,
         stack = <<>>, asked # <<>>, models' \in Tables(IndexedPlaces, InheritEdges, RelatedEdges),
         Followed(asked', models', RelatedEdges)
  PROVE  IInv'
<1>1. FilesInv /\ unread \subseteq Models /\ overflow \in BOOLEAN /\ save = NoSave
  BY DEF IInv, FilesInv, AskedInv
<1>2. /\ FilesInv' /\ IndexedPlaces' = IndexedPlaces /\ InheritEdges' = InheritEdges
      /\ RelatedEdges' = RelatedEdges
  BY <1>1, FilesKept
<1>3. TableInv' /\ AskedInv'
  BY <1>1, <1>2 DEF TableInv, AskedInv
<1>4. StackInv' /\ SaveInv' /\ CrashOnlyOnCircle'
  BY <1>1, NothingAtWork DEF StackInv, SaveInv, CrashOnlyOnCircle
<1> QED BY <1>2, <1>3, <1>4 DEF IInv

LEMMA LookUpStep ==
  ASSUME IInv, LookUp
  PROVE  IInv'
<1> DEFINE a == Last(asked)
           x == Head(a.left)
           field == models[a.at].fields[x]
           new == [model |-> a.at, field |-> x, at |-> a.at, left |-> field.to]
<1>1. /\ asked # <<>> /\ stack = <<>> /\ ~overflow /\ a.left # <<>> /\ ~Needs(a.at)
      /\ \/ field.kind \in {"none", "value"} /\ asked' = <<>> /\ UNCHANGED overflow
         \/ /\ field.kind = "relational"
            /\ asked' = Append(Front(asked), Arrived(a, field.to)) /\ UNCHANGED overflow
         \/ /\ field.kind = "related"
            /\ IF \E i \in DOMAIN asked : asked[i].model = a.at /\ asked[i].field = x
               THEN overflow' = TRUE /\ UNCHANGED asked
               ELSE asked' = Append(asked, new) /\ UNCHANGED overflow
      /\ UNCHANGED <<disk, seen, read, models, stack, save, unread, saves, removals>>
  BY DEF LookUp, Answered
<1>2. /\ models \in Tables(IndexedPlaces, InheritEdges, RelatedEdges)
      /\ Followed(asked, models, RelatedEdges)
  BY DEF IInv, TableInv, AskedInv
<1>3. a.at \in Models /\ x \in Fields
  BY <1>1, <1>2, AtPath
<1>4. /\ models[a.at] \in Sound(a.at, IndexedPlaces, InheritEdges, RelatedEdges)
      /\ models[a.at].fields \in KnownFields(RelatedEdges) /\ models[a.at].present \in BOOLEAN
  BY <1>2, <1>3, TableEntry
<1>5. field \in Known(x, RelatedEdges) /\ field \in FieldSet
  BY <1>3, <1>4 DEF KnownFields, Known
<1>6. field.kind \notin {"none", "value"} => models[a.at].present /\ models[a.at].populated
  <2>1. ~models[a.at].present => field.kind = "none"
    <3>1. ~models[a.at].present => models[a.at] = Absent
      BY <1>4 DEF Sound
    <3>2. Absent.fields[x].kind = "none"
      BY <1>3 DEF Absent, Unread, NoField
    <3> QED BY <3>1, <3>2
  <2> QED BY <1>1, <2>1 DEF Needs
<1>7. CASE field.kind \in {"none", "value"}
  <2>1. asked' = <<>> /\ UNCHANGED overflow
    BY <1>1, <1>7
  <2>2. Followed(asked', models', RelatedEdges)
    BY <2>1, NothingAtWork
  <2> QED BY <1>1, <1>2, <2>1, <2>2, AskedStep
<1>8. CASE field.kind = "relational"
  <2>1. asked' = Append(Front(asked), Arrived(a, field.to)) /\ UNCHANGED overflow
    BY <1>1, <1>8
  <2>2. field.to \in Models
    BY <1>5, <1>8 DEF FieldSet, NoField
  <2> DEFINE to == field.to
  <2>3. to \in Models
    BY <2>2
  <2>4. asked' = Append(Front(asked), Arrived(a, to)) /\ models' = models
    BY <1>1, <2>1
  <2> HIDE DEF to
  <2>5. Followed(Append(Front(asked), Arrived(Last(asked), to)), models, RelatedEdges)
    BY <1>1, <1>2, <2>3, PathOn
  <2>6. Followed(asked', models', RelatedEdges)
    BY <2>4, <2>5
  <2> QED BY <1>1, <1>2, <2>1, <2>4, <2>6, AskedStep
<1>9. CASE field.kind = "related"
  <2>1. CASE \E i \in DOMAIN asked : asked[i].model = a.at /\ asked[i].field = x
    <3>1. overflow' = TRUE /\ UNCHANGED asked
      BY <1>1, <1>9, <2>1
    <3>2. PICK i \in DOMAIN asked : asked[i].model = a.at /\ asked[i].field = x
      BY <2>1
    <3>3. i # 1
      <4>1. asked[i].model # NoModel
        BY <1>3, <3>2, ModelAssumption
      <4> QED BY <1>2, <4>1 DEF Followed
    <3>4. Circle(RelatedEdges, Fields)
      BY <1>1, <1>2, <3>2, <3>3, PathCircle
    <3> QED BY <1>1, <3>1, <3>4, OverflowStep
  <2>2. CASE ~\E i \in DOMAIN asked : asked[i].model = a.at /\ asked[i].field = x
    <3>1. asked' = Append(asked, new) /\ UNCHANGED overflow /\ models' = models
      BY <1>1, <1>9, <2>2
    <3>2. field.to \in Seq(Fields) /\ Path(x, field.to, RelatedEdges)
      <4>1. field \in FieldSet /\ field.kind = "related"
        BY <1>5, <1>9
      <4>2. field.to \in Seq(Fields)
        BY <4>1 DEF FieldSet, NoField
      <4> QED BY <1>5, <4>1, <4>2 DEF Known
    <3>3. new \in Request /\ new.model = a.at /\ new.field = x /\ new.left = field.to
      BY <1>3, <3>2 DEF Request
    <3>4. /\ models[new.model].present /\ models[new.model].populated
          /\ models[new.model].fields[new.field].kind = "related" /\ new.model \in Models
          /\ new.field = Head(Last(asked).left) /\ Path(new.field, new.left, RelatedEdges)
      BY <1>3, <1>6, <1>9, <3>2, <3>3
    <3> HIDE DEF new
    <3>5. Followed(Append(asked, new), models, RelatedEdges)
      BY <1>1, <1>2, <3>3, <3>4, PathInto
    <3>6. Followed(asked', models', RelatedEdges)
      BY <3>1, <3>5
    <3> QED BY <1>1, <1>2, <3>1, <3>6, AskedStep
  <2> QED BY <2>1, <2>2
<1> QED BY <1>1, <1>7, <1>8, <1>9

LEMMA SettleStep ==
  ASSUME IInv, Settle
  PROVE  IInv'
<1> DEFINE a == Last(asked)
           below == Front(asked)
           new == Append(Front(below), Arrived(Last(below), a.at))
<1>1. /\ asked # <<>> /\ stack = <<>> /\ ~overflow /\ a.left = <<>>
      /\ IF below = <<>> THEN asked' = <<>> /\ UNCHANGED models
         ELSE /\ asked' = new
              /\ \/ models' = [models EXCEPT ![a.model] = Settled(models[a.model], a.field, a.at)]
                 \/ UNCHANGED models
      /\ UNCHANGED <<disk, seen, read, stack, save, unread, overflow, saves, removals>>
  BY DEF Settle, Answered
<1>2. /\ models \in Tables(IndexedPlaces, InheritEdges, RelatedEdges)
      /\ Followed(asked, models, RelatedEdges)
  BY DEF IInv, TableInv, AskedInv
<1>3. a.at \in Models /\ a.field \in Fields
  BY <1>1, <1>2, AtPath
<1>4. /\ Followed(below, models, RelatedEdges)
      /\ below # <<>> => /\ Last(below).left # <<>> /\ a.model \in Models /\ models[a.model].present
                         /\ models[a.model].fields[a.field].kind \in {"related", "relational"}
  BY <1>1, <1>2, PathEnds
<1>5. CASE below = <<>>
  <2>1. Followed(asked', models', RelatedEdges) /\ models' = models
    BY <1>1, <1>5, NothingAtWork
  <2> QED BY <1>1, <1>2, <2>1, AskedStep
<1>6. CASE below # <<>>
  <2>1. /\ models' \in Tables(IndexedPlaces, InheritEdges, RelatedEdges)
        /\ Followed(below, models', RelatedEdges)
    <3>1. CASE models' = models
      BY <1>2, <1>4, <3>1
    <3>2. CASE models' = [models EXCEPT ![a.model] = Settled(models[a.model], a.field, a.at)]
      <4> DEFINE m == a.model
                 x == a.field
                 u == models'
      <4>1. models[m].fields[x] # NoField
        BY <1>4, <1>6 DEF NoField
      <4>2. Becomes(u, models, m, Settled(models[m], x, a.at))
        BY <3>2 DEF Becomes
      <4>3. m \in Models /\ x \in Fields /\ models[m].present
        BY <1>3, <1>4, <1>6
      <4> HIDE DEF u, m, x
      <4>4. /\ u \in Tables(IndexedPlaces, InheritEdges, RelatedEdges)
            /\ \A n \in Models : u[n].present = models[n].present /\ u[n].populated = models[n].populated
            /\ \A n \in Models : \A y \in Fields : ~(n = m /\ y = x) => u[n].fields[y] = models[n].fields[y]
            /\ u[m].fields[x].kind = "relational"
        BY <1>2, <1>3, <4>1, <4>2, <4>3, SettledSound, ZenonT(30)
      <4>5. Followed(below, u, RelatedEdges)
        <5>1. below \in Seq(Request)
          BY <1>4 DEF Followed
        <5>2. \A i \in DOMAIN below : below[i] \in Request
          BY <5>1, ElementOfSeq, LenProperties
        <5> HIDE DEF below
        <5>3. ASSUME NEW i \in DOMAIN below
              PROVE  /\ (below[i].model = NoModel) <=> (i = 1)
                     /\ i + 1 \in DOMAIN below => below[i].left # <<>> /\ below[i + 1].field = Head(below[i].left)
          BY <1>4 DEF Followed
        <5>4. ASSUME NEW i \in DOMAIN below, i # 1
              PROVE  /\ u[below[i].model].present /\ u[below[i].model].populated
                     /\ u[below[i].model].fields[below[i].field].kind \in {"related", "relational"}
                     /\ Path(below[i].field, below[i].left, RelatedEdges)
          <6>1. below[i].model \in Models /\ below[i].field \in Fields
            BY <5>2, <5>3, <5>4 DEF Request
          <6>2. /\ models[below[i].model].present /\ models[below[i].model].populated
                /\ models[below[i].model].fields[below[i].field].kind \in {"related", "relational"}
                /\ Path(below[i].field, below[i].left, RelatedEdges)
            BY <1>4, <5>4 DEF Followed
          <6> QED BY <4>4, <6>1, <6>2
        <5> QED BY <5>1, <5>3, <5>4 DEF Followed
      <4> QED BY <4>4, <4>5 DEF u
    <3> QED BY <1>1, <1>6, <3>1, <3>2
  <2> HIDE DEF below
  <2>2. Followed(Append(Front(below), Arrived(Last(below), a.at)), models', RelatedEdges)
    BY <1>3, <1>4, <1>6, <2>1, PathOn
  <2>3. Followed(asked', models', RelatedEdges)
    BY <1>1, <1>6, <2>2
  <2> QED BY <1>1, <2>1, <2>3, AskedStep
<1> QED BY <1>5, <1>6

----------------------------------------------------------------------------
(* The theorems.                                                           *)

LEMMA NextStep ==
  ASSUME IInv, [Next]_vars
  PROVE  IInv'
<1>1. CASE UNCHANGED vars
  <2>1. /\ UNCHANGED <<disk, seen, read, models, stack, asked, save, unread, overflow, saves, removals>>
        /\ FilesInv /\ unread \subseteq Models /\ overflow \in BOOLEAN
    BY <1>1 DEF vars, IInv, FilesInv
  <2>2. /\ FilesInv' /\ IndexedPlaces' = IndexedPlaces /\ InheritEdges' = InheritEdges
        /\ RelatedEdges' = RelatedEdges
    BY <2>1, FilesKept
  <2> QED BY <2>1, <2>2 DEF IInv, TableInv, StackInv, AskedInv, SaveInv, CrashOnlyOnCircle
<1>2. ASSUME NEW f \in Files, Load(f) PROVE IInv'
  BY <1>2, LoadStep
<1>3. ASSUME NEW f \in Files, NEW v \in DOMAIN Contents[f], Save(f, v) PROVE IInv'
  BY <1>3, SaveStep
<1>4. ASSUME NEW m \in Models, Query(m) PROVE IInv'
  BY <1>4, QueryStep
<1>5. ASSUME NEW m \in Models, NEW x \in Fields, Resolve(m, x) PROVE IInv'
  BY <1>5, ResolveStep
<1>6. ASSUME NEW r, RemoveRoot(r) \/ RemoveRootHangs(r) PROVE IInv'
  BY <1>6, RemoveRootStep
<1>7. CASE ReadAgain \/ Descend \/ Inherit \/ Finish
  BY <1>7, ReadAgainStep, DescendStep, InheritStep, FinishStep
<1>8. CASE PopulateAsked \/ LookUp \/ Settle
  BY <1>8, PopulateAskedStep, LookUpStep, SettleStep
<1> QED BY <1>1, <1>2, <1>3, <1>4, <1>5, <1>6, <1>7, <1>8 DEF Next, Step

LEMMA LocksStep ==
  ASSUME LocksInv, [Next]_vars
  PROVE  LocksInv'
BY DEF LocksInv, Next, RemoveRoot, RemoveRootHangs, Reconfigure, vars

LEMMA Invariant == Spec => []IInv
<1>1. Init => IInv
  BY InitStep
<1>2. IInv /\ [Next]_vars => IInv'
  BY NextStep
<1> QED BY <1>1, <1>2, PTL DEF Spec

LEMMA LocksInvariant == Spec => []LocksInv
<1>1. Init => LocksInv
  BY DEF Init, LocksInv
<1>2. LocksInv /\ [Next]_vars => LocksInv'
  BY LocksStep
<1> QED BY <1>1, <1>2, PTL DEF Spec

LEMMA IndexShaped ==
  ASSUME IInv, LocksInv
  PROVE  TypeOK
<1> DEFINE P == IndexedPlaces
           E == InheritEdges
           R == RelatedEdges
<1>1. FilesInv /\ models \in Tables(P, E, R) /\ stack \in Seq(Activations(E, R))
      /\ asked \in Seq(Request) /\ save \in {NoSave} \cup [file : Files, items : Seq(Items(E))]
  BY DEF IInv, TableInv, StackInv, Stacked, AskedInv, Followed, SaveInv, Saving
<1>2. P \subseteq PlaceSet
  BY DEF IndexedPlaces
<1> HIDE DEF P, E, R
<1>3. KnownFields(R) \subseteq [Fields -> FieldSet] /\ TidyPlaces \subseteq Seq(LocationSet)
      /\ \A m : Ancestry(m, E) \subseteq Seq(Models)
  BY DEF KnownFields, TidyPlaces, Ancestry
<1>4. \A m \in Models : models[m] \in Entry /\ ~models[m].deleted /\ (~models[m].present => models[m] = Absent)
  <2> SUFFICES ASSUME NEW m \in Models
               PROVE  models[m] \in Entry /\ ~models[m].deleted /\ (~models[m].present => models[m] = Absent)
    OBVIOUS
  <2>1. models[m] \in Sound(m, P, E, R)
    BY <1>1 DEF Tables
  <2>2. Shape(m, P, E, R) \subseteq Entry
    <3>1. Seq(P) \subseteq Seq(PlaceSet)
      BY <1>2, SeqMonotonic
    <3> SUFFICES ASSUME NEW e \in Shape(m, P, E, R) PROVE e \in Entry
      OBVIOUS
    <3>2. e.methods \in [Methods -> Seq(LocationSet)]
      BY <1>3 DEF Shape
    <3> QED BY <1>2, <1>3, <3>1, <3>2 DEF Shape, Entry
  <2> QED BY <2>1, <2>2 DEF Sound
<1>5. models \in [Models -> Entry]
  <2>1. models = [m \in Models |-> models[m]]
    BY <1>1 DEF Tables
  <2> QED BY <1>4, <2>1
<1>6. stack \in Seq(Activation)
  <2>1. Activations(E, R) \subseteq Activation
    <3>1. KnownProperties(R) \subseteq Properties
      <4> SUFFICES ASSUME NEW k \in KnownProperties(R) PROVE k \in Properties
        OBVIOUS
      <4>1. k.methods \in [Methods -> Seq(LocationSet)]
        BY <1>3 DEF KnownProperties
      <4> QED BY <1>3, <4>1 DEF KnownProperties, Properties
    <3> QED BY <3>1 DEF Activations, Activation
  <2> QED BY <1>1, <2>1, SeqMonotonic
<1>7. save \in {NoSave} \cup [file : Files, items : Seq(Item)]
  <2>1. Seq(Items(E)) \subseteq Seq(Item)
    <3>1. Items(E) \subseteq Item
      BY DEF Items
    <3> QED BY <3>1, SeqMonotonic
  <2> QED BY <1>1, <2>1
<1> QED BY <1>1, <1>4, <1>5, <1>6, <1>7 DEF TypeOK, FilesInv, LocksInv

\* The entries, the activations, the paths and what is left to read keep their
\* shape, and an entry that was deleted holds nothing: append, populate_properties,
\* resolve_related_field and delete_marked_entries, in any order.
THEOREM IndexTypes == Spec => []TypeOK
<1>1. IInv /\ LocksInv => TypeOK
  BY IndexShaped
<1> QED BY <1>1, Invariant, LocksInvariant, PTL

\* A method's places are each a class of its own, whatever add_override and merge
\* put between the places of other files, and however often a file is read again.
THEOREM OverridesDistinct == Spec => []PlacesDistinct
<1>1. IInv => PlacesDistinct
  <2> SUFFICES ASSUME IInv, NEW m \in Models, NEW g \in Methods
               PROVE  LET at == [i \in DOMAIN models[m].methods[g] |->
                                   <<models[m].methods[g][i].file, models[m].methods[g][i].class>>]
                      IN  IsInjective(at)
    BY DEF PlacesDistinct
  <2> DEFINE locs == models[m].methods[g]
             at == [i \in DOMAIN locs |-> <<locs[i].file, locs[i].class>>]
  <2>1. locs \in TidyPlaces
    <3>1. models[m].methods \in [Methods -> TidyPlaces]
      BY TableEntry DEF IInv, TableInv
    <3> QED BY <3>1
  <2> HIDE DEF locs
  <2>2. Tidy(locs) /\ Len(locs) \in Nat /\ DOMAIN locs = 1..Len(locs)
    BY <2>1, LenProperties DEF TidyPlaces
  <2>3. ASSUME NEW i \in DOMAIN locs, NEW k \in DOMAIN locs, i < k
        PROVE  <<locs[i].file, locs[i].class>> # <<locs[k].file, locs[k].class>>
    BY <2>2, <2>3 DEF Tidy
  <2>4. ASSUME NEW i \in DOMAIN locs, NEW k \in DOMAIN locs, at[i] = at[k]
        PROVE  i = k
    <3>1. i \in Nat /\ k \in Nat
      BY <2>2
    <3>2. <<locs[i].file, locs[i].class>> = <<locs[k].file, locs[k].class>>
      BY <2>4
    <3> QED BY <2>3, <3>1, <3>2
  <2>5. IsInjective(at)
    BY <2>4 DEF IsInjective
  <2> QED BY <2>5 DEF locs
<1> QED BY <1>1, Invariant, PTL

\* The recursion of populate_properties and of resolve_related_field, which
\* nothing guards, has an end unless some classes that were indexed inherit in a
\* circle or their related fields lead in one.
THEOREM RecursionEnds == Spec => []CrashOnlyOnCircle
<1>1. IInv => CrashOnlyOnCircle
  BY DEF IInv
<1> QED BY <1>1, Invariant, PTL

=============================================================================
