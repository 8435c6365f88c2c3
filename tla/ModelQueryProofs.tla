-------------------------- MODULE ModelQueryProofs --------------------------
(***************************************************************************)
(* While no file was saved and no root removed, a request finds exactly    *)
(* the fields that the classes of a model and of its ancestors declare.    *)
(***************************************************************************)
EXTENDS ModelIndexProofs

----------------------------------------------------------------------------
(* The classes that were read and the entries.                             *)

ItemAt(d, p) == IndexModel(ClassesOf(d, p.file)[p.class], p.class)
Listed(d, fs) ==
  {p \in PlaceSet :
     /\ p.file \in fs /\ p.class \in DOMAIN ClassesOf(d, p.file)
     /\ IsModel(ClassesOf(d, p.file)[p.class])}
ListedOf(d, L, m) == {p \in L : ItemAt(d, p).name = m}
ClassPlaces(e) == Range(e.descendants) \cup ({e.base} \ {NoPlace})
AncestorsAt(d, P) == UNION {Range(Further(ItemAt(d, p))) : p \in P}

\* An entry has the places in L of its model's classes, except for bases after
\* the first, and their ancestors.
FiledEntry(d, L, m, e) ==
  /\ ClassPlaces(e) \subseteq ListedOf(d, L, m)
  /\ e.base # NoPlace => ItemAt(d, e.base).is = "base"
  /\ \A p \in ListedOf(d, L, m) :
       p \in ClassPlaces(e) \/ (e.base # NoPlace /\ ItemAt(d, p).is = "base")
  /\ Range(e.ancestors) = AncestorsAt(d, ClassPlaces(e))
Filed(d, L, t) == \A m \in Models : FiledEntry(d, L, m, t[m])

\* What is known of the models' fields is the same.
SameFields(u, t) ==
  \A m \in Models : u[m].populated = t[m].populated /\ u[m].fields = t[m].fields

\* Only the places and the ancestors of an entry count.
LEMMA FiledSame ==
  ASSUME NEW d, NEW L, NEW m, NEW e, FiledEntry(d, L, m, e),
         NEW u, u.base = e.base, u.descendants = e.descendants, u.ancestors = e.ancestors
  PROVE  FiledEntry(d, L, m, u)
BY DEF FiledEntry, ClassPlaces

\* One more class, of another model, of this model, or a base after the first.
LEMMA FiledMore ==
  ASSUME NEW d, NEW L, NEW m, NEW e, FiledEntry(d, L, m, e), NEW p
  PROVE  /\ ItemAt(d, p).name # m => FiledEntry(d, L \cup {p}, m, e)
         /\ ItemAt(d, p).is = "base" /\ e.base # NoPlace => FiledEntry(d, L \cup {p}, m, e)
         /\ \A u : /\ ItemAt(d, p).name = m /\ ClassPlaces(u) = ClassPlaces(e) \cup {p}
                   /\ u.base = e.base \/ (ItemAt(d, p).is = "base" /\ u.base = p)
                   /\ e.base # NoPlace => u.base # NoPlace
                   /\ Range(u.ancestors) = Range(e.ancestors) \cup Range(Further(ItemAt(d, p)))
                   => FiledEntry(d, L \cup {p}, m, u)
<1>1. /\ ListedOf(d, L, m) \subseteq ListedOf(d, L \cup {p}, m)
      /\ ListedOf(d, L \cup {p}, m) \subseteq ListedOf(d, L, m) \cup {p}
      /\ ItemAt(d, p).name # m => ListedOf(d, L \cup {p}, m) = ListedOf(d, L, m)
      /\ ItemAt(d, p).name = m => p \in ListedOf(d, L \cup {p}, m)
  BY DEF ListedOf
<1>2. \A Q : AncestorsAt(d, Q \cup {p}) = AncestorsAt(d, Q) \cup Range(Further(ItemAt(d, p)))
  BY DEF AncestorsAt
<1> HIDE DEF ListedOf, AncestorsAt, ClassPlaces
<1> QED BY <1>1, <1>2 DEF FiledEntry

\* What appending an element does to the elements of a sequence.
LEMMA Appended ==
  ASSUME NEW S, NEW s \in Seq(S), NEW x \in S
  PROVE  Range(Append(s, x)) = Range(s) \cup {x}
<1> DEFINE y == <<x>>
<1>1. y \in Seq(S) /\ Range(y) = {x}
  <2>1. Range(y) = {x}
    BY DEF Range
  <2> QED BY <2>1
<1>2. Append(s, x) = s \o y
  BY AppendIsConcat
<1> HIDE DEF y
<1>3. Range(s \o y) = Range(s) \cup Range(y)
  BY <1>1, RangeConcatenation
<1> QED BY <1>1, <1>2, <1>3 DEF y

LEMMA NeverEmpty ==
  ASSUME NEW S, NEW s \in Seq(S), NEW x
  PROVE  Append(s, x) # <<>>
<1> DEFINE X == S \cup {x}
<1>1. s \in Seq(X) /\ x \in X
  OBVIOUS
<1> HIDE DEF X
<1> QED BY <1>1, AppendProperties

LEMMA ItemFiled ==
  ASSUME NEW P, NEW E, NEW R, NEW t \in Tables(P, E, R), NEW d, NEW L, Filed(d, L, t),
         NEW f, FileIn(f, P), NEW item \in Items(E), ItemAt(d, Place(f, item)) = item
  PROVE  /\ Filed(d, L \cup {Place(f, item)}, AppendItem(t, f, FALSE, item))
         /\ SameFields(AppendItem(t, f, FALSE, item), t)
<1> DEFINE n == item.name
           p == Place(f, item)
           e == OrDefault(t[n])
           M == L \cup {p}
<1>1. n \in Models /\ item.is \in {"base", "inherit"} /\ Further(item) \in Seq(Models)
  BY DEF Items, Item, Ancestry
<1>2. p \in P /\ p # NoPlace
  <2>1. p \in PlaceSet /\ p.file = f /\ p.class # 0
    BY DEF Place, PlaceSet, FileIn, Items, Item
  <2> QED BY <2>1 DEF FileIn, NoPlace
<1>3. t[n] \in Sound(n, P, E, R) /\ \A m \in Models : FiledEntry(d, L, m, t[m])
  BY <1>1 DEF Tables, Filed
<1>4. /\ e \in Sound(n, P, E, R) /\ e.base = t[n].base /\ e.ancestors = t[n].ancestors
      /\ e.descendants = t[n].descendants /\ e.populated = t[n].populated /\ e.fields = t[n].fields
  <2>1. /\ e.base = t[n].base /\ e.ancestors = t[n].ancestors /\ e.descendants = t[n].descendants
        /\ e.populated = t[n].populated /\ e.fields = t[n].fields
    BY <1>3 DEF OrDefault, Sound, Shape
  <2>2. e \in Sound(n, P, E, R)
    <3>1. t[n] \in Sound(n, P, E, R)
      BY <1>3
    <3> QED BY <3>1, ChangedSound
  <2> QED BY <2>1, <2>2
<1>5. ItemAt(d, p) = item
  OBVIOUS
<1> HIDE DEF e, p, n
<1>6. FiledEntry(d, L, n, e)
  BY <1>1, <1>3, <1>4, FiledSame
<1>7. /\ e.ancestors \in Seq(Models) /\ e.descendants \in Seq(P)
      /\ e = [e EXCEPT !.base = e.base]
  BY <1>4 DEF Sound, Shape, Ancestry
<1>8. Range(e.ancestors \o Further(item)) = Range(e.ancestors) \cup Range(Further(item))
  BY <1>1, <1>7, RangeConcatenation
<1>9. Range(Append(e.descendants, p)) = Range(e.descendants) \cup {p}
  <2> DEFINE s == e.descendants
  <2>1. s \in Seq(P)
    BY <1>7
  <2>2. p \in P
    BY <1>2
  <2> HIDE DEF s
  <2>3. Range(Append(s, p)) = Range(s) \cup {p}
    BY <2>1, <2>2, Appended
  <2> QED BY <2>3 DEF s
<1>10. PICK u : /\ AppendItem(t, f, FALSE, item) = [t EXCEPT ![n] = u]
                /\ u.populated = e.populated /\ u.fields = e.fields
                /\ FiledEntry(d, M, n, u)
  <2>1. CASE item.is = "base" /\ e.base # NoPlace
    <3>1. AppendItem(t, f, FALSE, item) = [t EXCEPT ![n] = e]
      BY <2>1 DEF AppendItem, AppendBase, e, n
    <3>2. FiledEntry(d, M, n, e)
      BY <1>5, <1>6, <2>1, FiledMore
    <3> QED BY <3>1, <3>2
  <2>2. CASE item.is = "base" /\ e.base = NoPlace
    <3> DEFINE u == [e EXCEPT !.base = p, !.ancestors = e.ancestors \o item.all]
    <3>1. AppendItem(t, f, FALSE, item) = [t EXCEPT ![n] = u]
      BY <2>2 DEF AppendItem, AppendBase, e, n, p
    <3>2. /\ u.base = p /\ u.ancestors = e.ancestors \o Further(item) /\ u.descendants = e.descendants
          /\ u.populated = e.populated /\ u.fields = e.fields
      BY <1>4, <2>2 DEF Sound, Shape, Further
    <3> HIDE DEF u
    <3>3. ClassPlaces(u) = ClassPlaces(e) \cup {p}
      BY <1>2, <2>2, <3>2 DEF ClassPlaces
    <3>4. FiledEntry(d, M, n, u)
      <4>1. ItemAt(d, p).name = n
        BY <1>5 DEF n
      <4> QED BY <1>5, <1>6, <1>8, <2>2, <3>2, <3>3, <4>1, FiledMore
    <3> QED BY <3>1, <3>2, <3>4
  <2>3. CASE item.is = "inherit"
    <3> DEFINE u == [e EXCEPT !.descendants = Append(e.descendants, p), !.ancestors = e.ancestors \o Further(item)]
    <3>1. AppendItem(t, f, FALSE, item) = [t EXCEPT ![n] = u]
      BY <2>3 DEF AppendItem, AppendInherit, e, n, p
    <3>2. /\ u.base = e.base /\ u.ancestors = e.ancestors \o Further(item)
          /\ u.descendants = Append(e.descendants, p)
          /\ u.populated = e.populated /\ u.fields = e.fields
      BY <1>4 DEF Sound, Shape
    <3> HIDE DEF u
    <3>3. ClassPlaces(u) = ClassPlaces(e) \cup {p}
      BY <1>9, <3>2 DEF ClassPlaces
    <3>4. FiledEntry(d, M, n, u)
      <4>1. ItemAt(d, p).name = n
        BY <1>5 DEF n
      <4> QED BY <1>5, <1>6, <1>8, <3>2, <3>3, <4>1, FiledMore
    <3> QED BY <3>1, <3>2, <3>4
  <2> QED BY <1>1, <2>1, <2>2, <2>3
<1>11. \A m \in Models : AppendItem(t, f, FALSE, item)[m] = IF m = n THEN u ELSE t[m]
  BY <1>10 DEF Tables
<1>12. \A m \in Models : m # n => FiledEntry(d, M, m, t[m])
  <2>1. ItemAt(d, p).name = n
    BY <1>5 DEF n
  <2> QED BY <1>3, <2>1, FiledMore
<1>13. Filed(d, M, AppendItem(t, f, FALSE, item))
  BY <1>10, <1>11, <1>12 DEF Filed
<1>14. SameFields(AppendItem(t, f, FALSE, item), t)
  BY <1>4, <1>10, <1>11 DEF SameFields
<1> QED BY <1>13, <1>14 DEF p

LEMMA ItemsFiled ==
  ASSUME NEW P, NEW E, NEW R, NEW t \in Tables(P, E, R), NEW d, NEW L, Filed(d, L, t),
         NEW f, FileIn(f, P), NEW items \in Seq(Items(E)),
         \A i \in DOMAIN items : ItemAt(d, Place(f, items[i])) = items[i]
  PROVE  /\ Filed(d, L \cup {Place(f, items[i]) : i \in DOMAIN items}, AppendAll(t, f, FALSE, items))
         /\ SameFields(AppendAll(t, f, FALSE, items), t)
<1> DEFINE n == Len(items)
           M(k) == L \cup {Place(f, items[i]) : i \in 1..k}
<1>1. n \in Nat /\ DOMAIN items = 1..n /\ \A k \in 1..n : items[k] \in Items(E)
  OBVIOUS
<1>2. PICK c : /\ c[0] = t /\ AppendAll(t, f, FALSE, items) = c[n]
               /\ \A k \in 1..n : c[k] = AppendItem(c[k - 1], f, FALSE, items[k])
  <2> DEFINE r == FALSE
  <2>1. r \in BOOLEAN
    OBVIOUS
  <2> HIDE DEF r
  <2>2. \E c : /\ c[0] = t /\ AppendAll(t, f, r, items) = c[Len(items)]
              /\ \A k \in 1..Len(items) : c[k] = AppendItem(c[k - 1], f, r, items[k])
    BY <2>1, AppendAllRuns
  <2> QED BY <2>2 DEF r
<1> DEFINE T == {k \in 0..n : c[k] \in Tables(P, E, R) /\ Filed(d, M(k), c[k]) /\ SameFields(c[k], t)}
<1>3. 0 \in T
  <2>1. 0 \in 0..n /\ M(0) = L
    <3>1. 1..0 = {}
      OBVIOUS
    <3> QED BY <1>1, <3>1
  <2>2. SameFields(t, t)
    BY DEF SameFields
  <2> HIDE DEF M
  <2> QED BY <1>2, <2>1, <2>2
<1>4. ASSUME NEW k \in 1..n, k - 1 \in T PROVE k \in T
  <2> DEFINE u == c[k - 1]
             item == items[k]
             N == M(k - 1)
  <2>1. k \in 0..n /\ item \in Items(E) /\ ItemAt(d, Place(f, item)) = item
    BY <1>1
  <2>2. M(k) = N \cup {Place(f, item)}
    <3>1. 1..k = 1..(k - 1) \cup {k}
      BY <1>1
    <3> QED BY <3>1
  <2>3. u \in Tables(P, E, R) /\ Filed(d, N, u) /\ SameFields(u, t)
    BY <1>4
  <2>4. c[k] = AppendItem(u, f, FALSE, item)
    BY <1>2
  <2>5. AppendItem(u, f, FALSE, item) \in Tables(P, E, R)
    <3>1. FALSE \in BOOLEAN
      OBVIOUS
    <3> HIDE DEF u, item
    <3> QED BY <2>1, <2>3, <3>1, AppendItemSound
  <2>6. /\ Filed(d, N \cup {Place(f, item)}, AppendItem(u, f, FALSE, item))
        /\ SameFields(AppendItem(u, f, FALSE, item), u)
    <3> HIDE DEF u, item, N
    <3> QED BY <2>1, <2>3, ItemFiled
  <2>7. SameFields(c[k], t)
    BY <2>3, <2>4, <2>6 DEF SameFields
  <2> HIDE DEF M, N, u, item
  <2> QED BY <2>1, <2>2, <2>4, <2>5, <2>6, <2>7
<1>5. n \in T
  <2>1. 0..n \subseteq T
    <3> HIDE DEF T, n
    <3> QED BY <1>1, <1>3, <1>4, EveryRound
  <2> HIDE DEF T
  <2> QED BY <1>1, <2>1
<1>6. M(n) = L \cup {Place(f, items[i]) : i \in DOMAIN items}
  BY <1>1
<1> HIDE DEF M, n
<1> QED BY <1>2, <1>5, <1>6

\* index_models finds every class that is a model, once and in any order.
LEMMA FileListed ==
  ASSUME NEW d, NEW f \in Files, d[f] \in DOMAIN Contents[f], NEW items \in IndexModels(d, f)
  PROVE  /\ \A i \in DOMAIN items : ItemAt(d, Place(f, items[i])) = items[i]
         /\ {Place(f, items[i]) : i \in DOMAIN items} = Listed(d, {f})
<1> DEFINE cs == ClassesOf(d, f)
           found == {k \in DOMAIN cs : IsModel(cs[k])}
           n == Cardinality(found)
<1>1. cs \in Seq(Classes) /\ \A k \in DOMAIN cs : k \in Nat \ {0}
  BY ClassesHeld
<1>2. items \in {[i \in DOMAIN p |-> IndexModel(cs[p[i]], p[i])] : p \in SetToSeqs(found)}
  BY DEF IndexModels
<1> HIDE DEF cs
<1>3. IsFiniteSet(found) /\ n \in Nat
  <2>1. IsFiniteSet(1..Len(cs)) /\ found \subseteq 1..Len(cs)
    <3>1. Len(cs) \in Nat /\ DOMAIN cs = 1..Len(cs)
      BY <1>1
    <3> QED BY <3>1, FS_Interval
  <2> HIDE DEF found
  <2> QED BY <2>1, FS_Subset, FS_CardinalityType
<1>4. PICK p \in SetToSeqs(found) : items = [i \in DOMAIN p |-> IndexModel(cs[p[i]], p[i])]
  BY <1>2
<1>5. p \in [1..n -> found] /\ \A i \in 1..n : \A j \in 1..n : i # j => p[i] # p[j]
  BY DEF SetToSeqs
<1>6. \A k \in found : \E i \in 1..n : p[i] = k
  <2> HIDE DEF found, n
  <2>1. p \in Injection(1..n, found)
    BY <1>5 DEF Injection, IsInjective
  <2>2. Cardinality(1..n) = Cardinality(found)
    BY <1>3, FS_Interval DEF n
  <2>3. p \in Surjection(1..n, found)
    BY <1>3, <2>1, <2>2, FS_Injection
  <2> QED BY <2>3 DEF Surjection
<1> HIDE DEF n
<1>7. /\ DOMAIN items = 1..n
      /\ \A i \in 1..n : items[i] = IndexModel(cs[p[i]], p[i]) /\ p[i] \in found
  BY <1>4, <1>5
<1>8. \A i \in 1..n : Place(f, items[i]) = [file |-> f, class |-> p[i]]
  <2>1. \A c, k : IndexModel(c, k).at = k
    BY DEF IndexModel
  <2> QED BY <1>7, <2>1 DEF Place
<1>9. \A i \in 1..n : ItemAt(d, Place(f, items[i])) = items[i]
  BY <1>7, <1>8 DEF ItemAt, cs
<1>10. Listed(d, {f}) = {[file |-> f, class |-> k] : k \in found}
  <2>1. ASSUME NEW q \in Listed(d, {f}) PROVE q \in {[file |-> f, class |-> k] : k \in found}
    <3>1. q \in PlaceSet /\ q.file = f /\ q.class \in found
      BY DEF Listed, cs
    <3>2. q = [file |-> f, class |-> q.class]
      BY <3>1 DEF PlaceSet
    <3> QED BY <3>1, <3>2
  <2>2. ASSUME NEW k \in found PROVE [file |-> f, class |-> k] \in Listed(d, {f})
    <3>1. [file |-> f, class |-> k] \in PlaceSet
      BY <1>1 DEF PlaceSet
    <3> QED BY <3>1 DEF Listed, cs
  <2> QED BY <2>1, <2>2
<1>11. {Place(f, items[i]) : i \in DOMAIN items} = Listed(d, {f})
  <2> HIDE DEF found
  <2> QED BY <1>6, <1>7, <1>8, <1>10
<1> QED BY <1>7, <1>9, <1>11


----------------------------------------------------------------------------
(* What the files declare.                                                 *)

Legal(d, fs) == fs \subseteq Files /\ \A f \in fs : d[f] \in DOMAIN Contents[f]
Parents(d, fs, m) == UNION {Range(Further(IndexModel(c, 1))) : c \in ClassesFor(d, fs, m)}
OwnDeclared(d, fs, m) == UNION {DOMAIN c.fields : c \in ClassesFor(d, fs, m)}
OneBase(d, fs, m) == \A p \in BasesOf(d, fs, m) : \A q \in BasesOf(d, fs, m) : p = q

LEMMA ParentsAreModels ==
  ASSUME NEW d, NEW fs, Legal(d, fs), NEW m
  PROVE  Parents(d, fs, m) \subseteq Models
<1> SUFFICES ASSUME NEW c \in ClassesFor(d, fs, m) PROVE Range(Further(IndexModel(c, 1))) \subseteq Models
  BY DEF Parents
<1>1. PICK f \in fs : c \in Range(ClassesOf(d, f)) /\ IsModel(c)
  BY DEF ClassesFor
<1> DEFINE cs == ClassesOf(d, f)
           E == UNION {{<<IndexModel(k, 1).name, a>> : a \in Range(Further(IndexModel(k, 1)))} : k \in Range(cs)}
<1>2. Gives(cs, E)
  BY DEF Gives
<1>3. c \in Classes /\ c \in Range(cs) /\ 1 \in Nat \ {0}
  <2>1. cs \in Seq(Classes)
    BY ClassesHeld DEF Legal
  <2> HIDE DEF cs
  <2> QED BY <1>1, <2>1, RangeOfSeq DEF cs
<1> HIDE DEF cs, E
<1>4. IndexModel(c, 1) \in Items(E)
  BY <1>1, <1>2, <1>3, ItemFound
<1>5. Further(IndexModel(c, 1)) \in Seq(Models)
  BY <1>4 DEF Items, Ancestry
<1> QED BY <1>5, RangeOfSeq

\* A model's classes are at its places.
LEMMA ClassesAt ==
  ASSUME NEW d, NEW fs, Legal(d, fs), NEW m
  PROVE  /\ ClassesFor(d, fs, m) = {ClassesOf(d, p.file)[p.class] : p \in ListedOf(d, Listed(d, fs), m)}
         /\ Parents(d, fs, m) = AncestorsAt(d, ListedOf(d, Listed(d, fs), m))
<1> DEFINE Q == ListedOf(d, Listed(d, fs), m)
           cl(p) == ClassesOf(d, p.file)[p.class]
<1>1. \A c, k : /\ IndexModel(c, k).name = IndexModel(c, 1).name
                /\ Further(IndexModel(c, k)) = Further(IndexModel(c, 1))
  BY DEF IndexModel, Further
<1>2. ASSUME NEW p \in Q PROVE cl(p) \in ClassesFor(d, fs, m)
  <2>1. /\ p.file \in fs /\ p.class \in DOMAIN ClassesOf(d, p.file) /\ IsModel(cl(p))
        /\ IndexModel(cl(p), p.class).name = m
    BY DEF ListedOf, Listed, ItemAt
  <2>2. cl(p) \in Range(ClassesOf(d, p.file)) /\ IndexModel(cl(p), 1).name = m
    BY <1>1, <2>1 DEF Range
  <2> HIDE DEF cl
  <2> QED BY <2>1, <2>2 DEF ClassesFor
<1>3. ASSUME NEW c \in ClassesFor(d, fs, m) PROVE \E p \in Q : c = cl(p)
  <2>1. PICK f \in fs : c \in Range(ClassesOf(d, f)) /\ IsModel(c) /\ IndexModel(c, 1).name = m
    BY DEF ClassesFor
  <2>2. PICK k \in DOMAIN ClassesOf(d, f) : c = ClassesOf(d, f)[k]
    BY <2>1 DEF Range
  <2>3. k \in Nat \ {0} /\ f \in Files
    BY ClassesHeld DEF Legal
  <2> DEFINE p == [file |-> f, class |-> k]
  <2>4. p \in PlaceSet /\ p.file = f /\ p.class = k /\ cl(p) = c
    BY <2>2, <2>3 DEF PlaceSet
  <2>5. ItemAt(d, p).name = m
    BY <1>1, <2>1, <2>4 DEF ItemAt
  <2> HIDE DEF p
  <2>6. p \in Q
    BY <2>1, <2>2, <2>4, <2>5 DEF ListedOf, Listed
  <2> QED BY <2>4, <2>6
<1>4. ClassesFor(d, fs, m) = {cl(p) : p \in Q}
  <2> HIDE DEF Q, cl
  <2> QED BY <1>2, <1>3
<1>5. \A p \in Q : Range(Further(ItemAt(d, p))) = Range(Further(IndexModel(cl(p), 1)))
  BY <1>1 DEF ItemAt
<1>6. Parents(d, fs, m) = AncestorsAt(d, Q)
  <2> HIDE DEF Q, cl
  <2>1. Parents(d, fs, m) = UNION {Range(Further(IndexModel(cl(p), 1))) : p \in Q}
    BY <1>4 DEF Parents
  <2> QED BY <1>5, <2>1 DEF AncestorsAt
<1> QED BY <1>4, <1>6

\* The entry of a model of one base has all its classes and all its ancestors.
LEMMA EntryWhole ==
  ASSUME NEW d, NEW fs, Legal(d, fs), NEW m \in Models, NEW e,
         FiledEntry(d, Listed(d, fs), m, e), OneBase(d, fs, m)
  PROVE  /\ Range(e.ancestors) = Parents(d, fs, m)
         /\ UNION {DOMAIN ClassAt(d, p).fields : p \in ClassPlaces(e)} = OwnDeclared(d, fs, m)
<1> DEFINE L == Listed(d, fs)
           Q == ListedOf(d, L, m)
<1>1. ASSUME NEW p \in Q, ItemAt(d, p).is = "base" PROVE <<p.file, p.class>> \in BasesOf(d, fs, m)
  <2> DEFINE c == ClassesOf(d, p.file)[p.class]
  <2>1. p.file \in fs /\ p.class \in DOMAIN ClassesOf(d, p.file) /\ ItemAt(d, p).name = m
    BY DEF ListedOf, Listed
  <2>2. ~Inherits(c) /\ c.name = m
    BY <1>1, <2>1 DEF ItemAt, IndexModel
  <2> QED BY <2>1, <2>2 DEF BasesOf
<1>2. ClassPlaces(e) = Q
  <2>1. ClassPlaces(e) \subseteq Q
    BY DEF FiledEntry
  <2>2. ASSUME NEW p \in Q PROVE p \in ClassPlaces(e)
    <3>1. CASE p \in ClassPlaces(e)
      BY <3>1
    <3>2. CASE e.base # NoPlace /\ ItemAt(d, p).is = "base"
      <4>1. e.base \in ClassPlaces(e)
        BY <3>2 DEF ClassPlaces
      <4>2. e.base \in Q /\ ItemAt(d, e.base).is = "base"
        BY <2>1, <3>2, <4>1 DEF FiledEntry
      <4>3. <<p.file, p.class>> = <<e.base.file, e.base.class>>
        BY <1>1, <3>2, <4>2 DEF OneBase
      <4>4. p \in PlaceSet /\ e.base \in PlaceSet
        BY <4>2 DEF ListedOf, Listed
      <4>5. p = e.base
        BY <4>3, <4>4 DEF PlaceSet
      <4> QED BY <4>1, <4>5
    <3> QED BY <3>1, <3>2 DEF FiledEntry
  <2> QED BY <2>1, <2>2
<1>3. Range(e.ancestors) = Parents(d, fs, m)
  BY <1>2, ClassesAt DEF FiledEntry
<1>4. \A p \in Q : ClassAt(d, p) = ClassesOf(d, p.file)[p.class]
  BY DEF ListedOf, Listed, ClassAt
<1>5. OwnDeclared(d, fs, m) = UNION {DOMAIN ClassesOf(d, p.file)[p.class].fields : p \in Q}
  <2>1. ClassesFor(d, fs, m) = {ClassesOf(d, p.file)[p.class] : p \in Q}
    BY ClassesAt
  <2> HIDE DEF Q
  <2> QED BY <2>1 DEF OwnDeclared
<1> HIDE DEF Q
<1> QED BY <1>2, <1>3, <1>4, <1>5

\* Ancestors, from a model to its parents.
LEMMA AncestorsUnfold ==
  ASSUME NEW d, NEW fs, Legal(d, fs), NEW m \in Models
  PROVE  /\ m \in AncestorsOf(d, fs, m)
         /\ \A b \in Parents(d, fs, m) : AncestorsOf(d, fs, b) \subseteq AncestorsOf(d, fs, m)
         /\ AncestorsOf(d, fs, m) \subseteq
              {m} \cup UNION {AncestorsOf(d, fs, b) : b \in Parents(d, fs, m)}
<1> DEFINE A(b) == AncestorsOf(d, fs, b)
           Up(b) == Parents(d, fs, b)
           Closed(S) == \A b \in S : Up(b) \subseteq S
<1>1. \A b : A(b) = {a \in Models : \A S \in SUBSET Models : b \in S /\ Closed(S) => a \in S}
  <2>1. \A b, S : Up(b) \subseteq S <=> \A c \in ClassesFor(d, fs, b) : Range(Further(IndexModel(c, 1))) \subseteq S
    BY DEF Parents
  <2> HIDE DEF Up
  <2> QED BY <2>1 DEF AncestorsOf
<1>2. \A b : Up(b) \subseteq Models
  BY ParentsAreModels
<1> HIDE DEF A, Up
<1>3. \A b \in Models : b \in A(b)
  BY <1>1
<1>4. \A b \in Models : \A c \in A(b) : Up(c) \subseteq A(b)
  BY <1>1, <1>2
<1>5. \A b \in Up(m) : A(b) \subseteq A(m)
  <2> SUFFICES ASSUME NEW b \in Up(m), NEW a \in A(b), NEW S \in SUBSET Models, m \in S, Closed(S) PROVE a \in S
    BY <1>1
  <2>1. b \in S
    OBVIOUS
  <2> QED BY <1>1, <2>1
<1>6. A(m) \subseteq {m} \cup UNION {A(b) : b \in Up(m)}
  <2> DEFINE S == {m} \cup UNION {A(b) : b \in Up(m)}
  <2>1. S \in SUBSET Models
    BY <1>1
  <2>2. \A b \in Up(m) : b \in A(b) /\ A(b) \subseteq S
    BY <1>2, <1>3
  <2>3. ASSUME NEW c \in S PROVE Up(c) \subseteq S
    <3>1. CASE c = m
      BY <2>2, <3>1
    <3>2. CASE \E b \in Up(m) : c \in A(b)
      BY <1>2, <1>4, <2>2, <3>2
    <3> QED BY <3>1, <3>2
  <2>4. m \in S /\ Closed(S)
    BY <2>3
  <2> HIDE DEF S
  <2> QED BY <1>1, <2>1, <2>4 DEF S
<1> QED BY <1>3, <1>5, <1>6 DEF A, Up

LEMMA DeclaredUnfold ==
  ASSUME NEW d, NEW fs, Legal(d, fs), NEW m \in Models
  PROVE  DeclaredFields(d, fs, m) =
           OwnDeclared(d, fs, m) \cup UNION {DeclaredFields(d, fs, b) : b \in Parents(d, fs, m)}
<1>1. \A b : DeclaredFields(d, fs, b) = UNION {OwnDeclared(d, fs, a) : a \in AncestorsOf(d, fs, b)}
  BY DEF DeclaredFields, OwnDeclared
<1> HIDE DEF DeclaredFields, OwnDeclared, AncestorsOf, Parents
<1> QED BY <1>1, AncestorsUnfold


----------------------------------------------------------------------------
(* The fields an entry has.                                                *)

LEMMA MergedFound ==
  ASSUME NEW R, NEW x, NEW old \in Known(x, R), NEW new, new.active = TRUE
  PROVE  FieldMerge(old, new) # NoField
<1>1. NoField.active = FALSE
  BY DEF NoField
<1>2. CASE old = NoField
  BY <1>1, <1>2 DEF FieldMerge
<1>3. CASE old # NoField
  <2>1. old = [kind |-> old.kind, to |-> old.to, file |-> old.file, active |-> old.active]
    BY FieldShape DEF Known
  <2>2. FieldMerge(old, new).active = TRUE
    BY <1>3, <2>1 DEF FieldMerge
  <2> QED BY <1>1, <2>2
<1> QED BY <1>2, <1>3

LEMMA ReadFound ==
  ASSUME NEW R, NEW d, NEW p, NEW x, NEW old \in Known(x, R)
  PROVE  ReadField(d, p, x, old) # NoField <=> old # NoField \/ x \in DOMAIN ClassAt(d, p).fields
<1> DEFINE c == ClassAt(d, p)
           new == [kind |-> c.fields[x].kind, to |-> c.fields[x].to, file |-> p.file, active |-> TRUE]
<1>1. ReadField(d, p, x, old) = IF x \in DOMAIN c.fields THEN FieldMerge(old, new) ELSE old
  BY DEF ReadField
<1>2. new.active = TRUE
  OBVIOUS
<1> HIDE DEF new, c
<1>3. FieldMerge(old, new) # NoField
  BY <1>2, MergedFound
<1> QED BY <1>1, <1>3 DEF c

LEMMA OwnFound ==
  ASSUME NEW R, NEW d, NEW reads \in Seq(LegiblePlaces(d, R)), NEW x, NEW start \in Known(x, R)
  PROVE  OwnField(d, reads, x, start) # NoField
           <=> start # NoField \/ \E p \in Range(reads) : x \in DOMAIN ClassAt(d, p).fields
<1> DEFINE n == Len(reads)
           Has(p) == x \in DOMAIN ClassAt(d, p).fields
<1>1. n \in Nat /\ DOMAIN reads = 1..n /\ \A k \in 1..n : reads[k] \in LegiblePlaces(d, R)
  OBVIOUS
<1>2. PICK c : /\ c[0] = start /\ OwnField(d, reads, x, start) = c[n]
               /\ \A k \in 1..n : c[k] = ReadField(d, reads[k], x, c[k - 1])
  BY OwnFieldRuns
<1> DEFINE T == {k \in 0..n : /\ c[k] \in Known(x, R)
                              /\ c[k] # NoField <=> start # NoField \/ \E i \in 1..k : Has(reads[i])}
<1>3. 0 \in T
  <2>1. 0 \in 0..n /\ 1..0 = {}
    BY <1>1
  <2> HIDE DEF Has
  <2> QED BY <1>2, <2>1
<1>4. ASSUME NEW k \in 1..n, k - 1 \in T PROVE k \in T
  <2>1. c[k - 1] \in Known(x, R) /\ reads[k] \in LegiblePlaces(d, R) /\ k \in 0..n
    BY <1>1, <1>4
  <2>2. c[k] = ReadField(d, reads[k], x, c[k - 1])
    BY <1>2
  <2>3. c[k] \in Known(x, R)
    BY <2>1, <2>2, ReadFieldKnown
  <2>4. c[k] # NoField <=> c[k - 1] # NoField \/ Has(reads[k])
    BY <2>1, <2>2, ReadFound
  <2>5. 1..k = 1..(k - 1) \cup {k}
    BY <1>1
  <2> HIDE DEF Has
  <2> QED BY <1>4, <2>1, <2>3, <2>4, <2>5
<1>5. n \in T
  <2>1. 0..n \subseteq T
    <3> HIDE DEF T, n
    <3> QED BY <1>1, <1>3, <1>4, EveryRound
  <2> HIDE DEF T
  <2> QED BY <1>1, <2>1
<1>6. (\E i \in 1..n : Has(reads[i])) <=> \E p \in Range(reads) : Has(p)
  <2> HIDE DEF Has, n
  <2> QED BY <1>1 DEF Range
<1> HIDE DEF n, Has
<1> QED BY <1>2, <1>5, <1>6 DEF Has

LEMMA OwnFields ==
  ASSUME NEW R, NEW d, NEW reads \in Seq(LegiblePlaces(d, R)), NEW props \in KnownProperties(R)
  PROVE  FieldsOf(Own(d, reads, props)) =
           FieldsOf(props) \cup UNION {DOMAIN ClassAt(d, p).fields : p \in Range(reads)}
<1>1. \A x \in Fields : props.fields[x] \in Known(x, R)
  BY DEF KnownProperties, KnownFields
<1>2. \A x \in Fields : Own(d, reads, props).fields[x] = OwnField(d, reads, x, props.fields[x])
  BY DEF Own
<1>3. \A x \in Fields : Own(d, reads, props).fields[x] # NoField
        <=> props.fields[x] # NoField \/ \E p \in Range(reads) : x \in DOMAIN ClassAt(d, p).fields
  BY <1>1, <1>2, OwnFound
<1>4. \A p \in Range(reads) : DOMAIN ClassAt(d, p).fields \subseteq Fields
  <2>1. Range(reads) \subseteq LegiblePlaces(d, R)
    BY RangeOfSeq
  <2> QED BY <2>1 DEF LegiblePlaces, Legible
<1> HIDE DEF Own, ClassAt
<1> QED BY <1>3, <1>4 DEF FieldsOf

LEMMA InheritedFields ==
  ASSUME NEW R, NEW props \in KnownProperties(R), NEW e, e.fields \in KnownFields(R)
  PROVE  FieldsOf(InheritedFrom(props, e)) = FieldsOf(props) \cup FieldsOf(e)
<1>1. ASSUME NEW x \in Fields
      PROVE  InheritedFrom(props, e).fields[x] # NoField
               <=> props.fields[x] # NoField \/ e.fields[x] # NoField
  <2> DEFINE old == props.fields[x]
             new == e.fields[x]
  <2>1. old \in Known(x, R) /\ new \in Known(x, R)
    BY DEF KnownProperties, KnownFields
  <2>2. InheritedFrom(props, e).fields[x] = IF new = NoField THEN old ELSE FieldMerge(old, new)
    BY DEF InheritedFrom
  <2> HIDE DEF old, new
  <2>3. FieldMerge(old, new) = NoField => old = NoField /\ new = NoField
    <3>1. CASE old = NoField
      BY <3>1 DEF FieldMerge
    <3>2. CASE old # NoField
      <4>1. old = [kind |-> old.kind, to |-> old.to, file |-> old.file, active |-> old.active]
        BY <2>1, FieldShape DEF Known
      <4>2. FieldMerge(old, new).active = TRUE /\ NoField.active = FALSE
        BY <3>2, <4>1 DEF FieldMerge, NoField
      <4> QED BY <4>2
    <3> QED BY <3>1, <3>2
  <2> QED BY <2>2, <2>3 DEF old, new
<1> QED BY <1>1 DEF FieldsOf

\* With no filter every class of the entry is read.
LEMMA ReadsAll ==
  ASSUME NEW m, NEW P, NEW E, NEW R, NEW e \in Sound(m, P, E, R)
  PROVE  Range(ToRead(e, {})) = ClassPlaces(e)
<1> DEFINE s == Places(e)
           b == IF e.base = NoPlace THEN <<>> ELSE <<e.base>>
           I == {i \in DOMAIN s : {} = {} \/ s[i].file \in {}}
           n == Len(s)
<1>1. e.base \in P \cup {NoPlace} /\ e.descendants \in Seq(P)
  BY DEF Sound, Shape
<1>2. b \in Seq(P) /\ Range(b) = {e.base} \ {NoPlace}
  <2>1. CASE e.base = NoPlace
    BY <2>1 DEF Range
  <2>2. CASE e.base # NoPlace
    BY <1>1, <2>2 DEF Range
  <2> QED BY <2>1, <2>2
<1>3. s \in Seq(P) /\ Range(s) = ClassPlaces(e)
  <2>1. s = b \o e.descendants
    BY DEF Places
  <2> HIDE DEF b, s
  <2>2. s \in Seq(P)
    BY <1>1, <1>2, <2>1, ConcatProperties
  <2> QED BY <1>1, <1>2, <2>1, <2>2, RangeConcatenation DEF ClassPlaces
<1>4. ToRead(e, {}) = Kept(s, I) /\ I = DOMAIN s
  BY DEF ToRead
<1> HIDE DEF s, I
<1>5. n \in Nat /\ DOMAIN s = 1..n /\ \A k \in 1..n : s[k] \in P
  BY <1>3
<1>6. PICK c : /\ c[0] = <<>> /\ Kept(s, I) = c[n]
               /\ \A k \in 1..n : c[k] = IF k \in I THEN Append(c[k - 1], s[k]) ELSE c[k - 1]
  BY <1>3, KeptRuns
<1> DEFINE T == {k \in 0..n : c[k] \in Seq(P) /\ Range(c[k]) = {s[i] : i \in 1..k}}
<1>7. 0 \in T
  <2>1. 0 \in 0..n /\ 1..0 = {} /\ <<>> \in Seq(P) /\ Range(<<>>) = {}
    BY <1>5 DEF Range
  <2> QED BY <1>6, <2>1
<1>8. ASSUME NEW k \in 1..n, k - 1 \in T PROVE k \in T
  <2> DEFINE w == c[k - 1]
  <2>1. w \in Seq(P) /\ Range(w) = {s[i] : i \in 1..(k - 1)} /\ s[k] \in P /\ k \in 0..n
    BY <1>5, <1>8
  <2>2. c[k] = Append(w, s[k])
    BY <1>4, <1>5, <1>6
  <2> HIDE DEF w
  <2> DEFINE x == s[k]
  <2>3. x \in P /\ c[k] = Append(w, x)
    BY <2>1, <2>2
  <2> HIDE DEF x
  <2>4. c[k] \in Seq(P) /\ Range(c[k]) = Range(w) \cup {x}
    <3>1. w \in Seq(P)
      BY <2>1
    <3>2. x \in P
      BY <2>3
    <3>3. Append(w, x) \in Seq(P) /\ Range(Append(w, x)) = Range(w) \cup {x}
      BY <3>1, <3>2, Appended, AppendProperties
    <3> QED BY <2>3, <3>3
  <2>5. {s[i] : i \in 1..k} = {s[i] : i \in 1..(k - 1)} \cup {s[k]}
    <3>1. 1..k = 1..(k - 1) \cup {k}
      BY <1>5
    <3> QED BY <3>1
  <2> QED BY <2>1, <2>4, <2>5 DEF x
<1>9. n \in T
  <2>1. 0..n \subseteq T
    <3> HIDE DEF T, n
    <3> QED BY <1>5, <1>7, <1>8, EveryRound
  <2> HIDE DEF T
  <2> QED BY <1>5, <2>1
<1>10. Range(s) = {s[i] : i \in 1..n}
  BY <1>5 DEF Range
<1> HIDE DEF n
<1> QED BY <1>3, <1>4, <1>6, <1>9, <1>10


LEMMA WorkedFields ==
  ASSUME FilesInv, TableInv, Filter = {},
         NEW a \in Activations(InheritEdges, RelatedEdges)
  PROVE  FieldsOf(Worked(a)) =
           FieldsOf(a.props) \cup UNION {DOMAIN ClassAt(disk, p).fields : p \in ClassPlaces(models[a.model])}
<1> DEFINE m == a.model
           reads == ToRead(models[m], {})
           props == Own(disk, reads, a.props)
           names == a.names \cup OwnNames(disk, reads)
<1>1. m \in Models /\ a.props \in KnownProperties(RelatedEdges)
  BY DEF Activations
<1>2. models[m] \in Sound(m, IndexedPlaces, InheritEdges, RelatedEdges)
  BY <1>1, TableEntry DEF TableInv
<1>3. reads \in Seq(LegiblePlaces(disk, RelatedEdges))
  BY <1>2, ReadPlaces, PlacesLegible
<1>4. Range(reads) = ClassPlaces(models[m])
  BY <1>2, ReadsAll
<1>5. Worked(a) = Store(models[m], props, names)
  BY DEF Worked, Retained
<1> HIDE DEF reads
<1>6. FieldsOf(props) = FieldsOf(a.props) \cup UNION {DOMAIN ClassAt(disk, p).fields : p \in Range(reads)}
  BY <1>1, <1>3, OwnFields
<1> HIDE DEF props, names
<1>7. Store(models[m], props, names).fields = props.fields
  BY <1>2 DEF Store, Sound, Shape
<1> QED BY <1>4, <1>5, <1>6, <1>7 DEF FieldsOf

----------------------------------------------------------------------------
(* The invariant.                                                          *)

Fresh == saves = 0 /\ removals = 0

\* The model and its ancestors have one base each and were not asked about.
Certain(d, fs, un, m) ==
  \A a \in AncestorsOf(d, fs, m) : a \in un /\ OneBase(d, fs, a)

\* An activation has the fields of the ancestors it is done with.
Collected(d, fs, a, e) ==
  /\ Range(a.left) \subseteq Range(e.ancestors)
  /\ FieldsOf(a.props) \subseteq UNION {DeclaredFields(d, fs, b) : b \in Range(e.ancestors)}
  /\ \A b \in Range(e.ancestors) :
       b \in Range(a.left) \/ DeclaredFields(d, fs, b) \subseteq FieldsOf(a.props)

Collecting(d, fs, un, t, st) ==
  \A i \in DOMAIN st :
    Certain(d, fs, un, st[i].model) => Collected(d, fs, st[i], t[st[i].model])

Answers(d, fs, un, t, st) ==
  /\ \A m \in Models : ~t[m].populated => t[m].fields = Unread
  /\ \A m \in Models :
       Certain(d, fs, un, m) /\ t[m].populated => FieldsOf(t[m]) = DeclaredFields(d, fs, m)
  /\ Collecting(d, fs, un, t, st)

\* Until a file is saved or a root removed, the entries have what the files that
\* were read hold, and each model worked out since the request came has the
\* fields it should.
FiledInv == Fresh => Filed(disk, Listed(disk, read), models)
QueryInv ==
  Fresh =>
    /\ save = NoSave /\ (stack = <<>> => unread = {})
    /\ Answers(disk, read, unread, models, stack)

----------------------------------------------------------------------------
(* What a step does to the parts.                                          *)

LEMMA FiledKept ==
  ASSUME NEW d, NEW L, NEW t, Filed(d, L, t), NEW u,
         \A m \in Models : /\ u[m].base = t[m].base /\ u[m].descendants = t[m].descendants
                           /\ u[m].ancestors = t[m].ancestors
  PROVE  Filed(d, L, u)
BY FiledSame DEF Filed

\* What is certain of a model is certain of its parents.
LEMMA CertainParents ==
  ASSUME NEW d, NEW fs, Legal(d, fs), NEW un, NEW m \in Models, Certain(d, fs, un, m),
         NEW t, Filed(d, Listed(d, fs), t)
  PROVE  /\ m \in un
         /\ \A b \in Range(t[m].ancestors) : b \in Models /\ Certain(d, fs, un, b)
         /\ DeclaredFields(d, fs, m) =
              (UNION {DOMAIN ClassAt(d, p).fields : p \in ClassPlaces(t[m])})
              \cup UNION {DeclaredFields(d, fs, b) : b \in Range(t[m].ancestors)}
<1>1. m \in un /\ OneBase(d, fs, m)
  BY AncestorsUnfold DEF Certain
<1>2. /\ Range(t[m].ancestors) = Parents(d, fs, m)
      /\ UNION {DOMAIN ClassAt(d, p).fields : p \in ClassPlaces(t[m])} = OwnDeclared(d, fs, m)
  BY <1>1, EntryWhole DEF Filed
<1>3. \A b \in Parents(d, fs, m) : b \in Models /\ AncestorsOf(d, fs, b) \subseteq AncestorsOf(d, fs, m)
  BY AncestorsUnfold, ParentsAreModels
<1>4. \A b \in Parents(d, fs, m) : b \in Models /\ Certain(d, fs, un, b)
  BY <1>3 DEF Certain
<1> QED BY <1>1, <1>2, <1>4, DeclaredUnfold

\* A model without an entry declares nothing.
LEMMA NothingDeclared ==
  ASSUME NEW d, NEW fs, Legal(d, fs), NEW m \in Models, FiledEntry(d, Listed(d, fs), m, Absent)
  PROVE  DeclaredFields(d, fs, m) = {}
<1>1. ClassPlaces(Absent) = {} /\ Absent.base = NoPlace
  BY DEF ClassPlaces, Absent, Range
<1>2. ListedOf(d, Listed(d, fs), m) = {}
  BY <1>1 DEF FiledEntry
<1>3. ClassesFor(d, fs, m) = {}
  BY <1>2, ClassesAt
<1>4. OwnDeclared(d, fs, m) = {} /\ Parents(d, fs, m) = {}
  BY <1>3 DEF OwnDeclared, Parents
<1> QED BY <1>4, DeclaredUnfold

\* A request has begun with a model.
LEMMA BeginAnswers ==
  ASSUME NEW P, NEW E, NEW R, NEW t \in Tables(P, E, R), NEW st, Stacked(st, t, E, R),
         NEW m \in Models, ~t[m].populated, NEW t2, Becomes(t2, t, m, Taken(t[m])),
         NEW d, NEW fs, NEW un, Answers(d, fs, un, t, st)
  PROVE  Answers(d, fs, un, t2, Append(st, Begun(t, m, {})))
<1> DEFINE a == Begun(t, m, {})
           new == Append(st, a)
<1>1. \A n \in Models : t2[n] = IF n = m THEN Taken(t[m]) ELSE t[n]
  BY DEF Becomes, Tables
<1>2. t[m] \in Sound(m, P, E, R) /\ t[m].fields = Unread
  BY TableEntry DEF Answers
<1>3. /\ ~Taken(t[m]).populated /\ Taken(t[m]).fields = Unread
      /\ Taken(t[m]).ancestors = t[m].ancestors
  BY <1>2 DEF Taken, Sound, Shape
<1>4. a.model = m /\ a.left = t[m].ancestors /\ FieldsOf(a.props) = {}
  <2>1. a.props = Suspended(t[m], {}) /\ a.model = m /\ a.left = t[m].ancestors
    BY DEF Begun
  <2>2. \A x \in Fields : Suspended(t[m], {}).fields[x] = NoField
    BY <1>2 DEF Suspended, Unread
  <2> HIDE DEF a
  <2> QED BY <2>1, <2>2 DEF FieldsOf
<1>5. Collected(d, fs, a, t2[m])
  <2>1. t2[m].ancestors = t[m].ancestors
    BY <1>1, <1>3
  <2> HIDE DEF a
  <2> QED BY <1>4, <2>1 DEF Collected
<1> HIDE DEF a
<1>6. /\ st \in Seq(Activations(E, R)) /\ Len(st) \in Nat /\ DOMAIN st = 1..Len(st)
      /\ \A i \in DOMAIN st : st[i] \in Activations(E, R) /\ st[i].model \in Models
  <2>1. st \in Seq(Activations(E, R))
    BY DEF Stacked
  <2>2. \A i \in DOMAIN st : st[i] \in Activations(E, R)
    BY <2>1
  <2> QED BY <2>1, <2>2 DEF Activations
<1>7. DOMAIN new = 1..(Len(st) + 1) /\ new[Len(st) + 1] = a /\ \A i \in 1..Len(st) : new[i] = st[i]
  <2>1. Len(new) = Len(st) + 1 /\ DOMAIN new = 1..Len(new)
    BY <1>6
  <2> QED BY <1>6, <2>1
<1> HIDE DEF new
<1>8. ASSUME NEW i \in DOMAIN new, Certain(d, fs, un, new[i].model)
      PROVE  Collected(d, fs, new[i], t2[new[i].model])
  <2>1. i = Len(st) + 1 \/ i \in 1..Len(st)
    BY <1>6, <1>7
  <2>2. CASE i = Len(st) + 1
    BY <1>4, <1>5, <1>7, <2>2
  <2>3. CASE i \in 1..Len(st)
    <3>1. new[i] = st[i] /\ st[i].model \in Models /\ Collected(d, fs, st[i], t[st[i].model])
      BY <1>6, <1>7, <1>8, <2>3 DEF Answers, Collecting
    <3>2. t2[st[i].model].ancestors = t[st[i].model].ancestors
      BY <1>1, <1>3, <3>1
    <3> QED BY <3>1, <3>2 DEF Collected
  <2> QED BY <2>1, <2>2, <2>3
<1>9. \A n \in Models : ~t2[n].populated => t2[n].fields = Unread
  BY <1>1, <1>3 DEF Answers
<1>10. \A n \in Models : Certain(d, fs, un, n) /\ t2[n].populated => FieldsOf(t2[n]) = DeclaredFields(d, fs, n)
  BY <1>1, <1>3 DEF Answers
<1> QED BY <1>8, <1>9, <1>10 DEF Answers, Collecting, new, a


LEMMA NothingCertain ==
  ASSUME NEW d, NEW fs, Legal(d, fs), NEW m \in Models
  PROVE  ~Certain(d, fs, {}, m)
BY AncestorsUnfold DEF Certain

\* An activation is done with one more ancestor.
LEMMA AbsorbCollects ==
  ASSUME NEW d, NEW fs, NEW E, NEW R, NEW a \in Activations(E, R), a.left # <<>>,
         NEW e, Collected(d, fs, a, e), NEW u, u.fields \in KnownFields(R),
         u.present => FieldsOf(u) = DeclaredFields(d, fs, Head(a.left)),
         ~u.present => DeclaredFields(d, fs, Head(a.left)) = {}
  PROVE  Collected(d, fs, Absorb(a, u), e)
<1> DEFINE s == a.left
           D(b) == DeclaredFields(d, fs, b)
           x == Absorb(a, u)
<1>1. s \in Seq(Models) /\ s # <<>> /\ a.props \in KnownProperties(R)
  BY DEF Activations
<1>2. x.left = Tail(s)
  BY DEF Absorb, Activations
<1>3. FieldsOf(x.props) = FieldsOf(a.props) \cup D(Head(s))
  <2>1. CASE u.present
    <3>1. x.props = InheritedFrom(a.props, u)
      BY <2>1 DEF Absorb, Activations
    <3> HIDE DEF x
    <3> QED BY <1>1, <2>1, <3>1, InheritedFields
  <2>2. CASE ~u.present
    <3>1. x.props = a.props
      BY <2>2 DEF Absorb, Activations
    <3> QED BY <2>2, <3>1
  <2> QED BY <2>1, <2>2
<1>4. Collected(d, fs, a, e)
  OBVIOUS
<1> HIDE DEF s, x, D
<1>5. Head(s) \in Range(s) /\ Range(Tail(s)) \subseteq Range(s) /\ Range(s) \subseteq Range(Tail(s)) \cup {Head(s)}
  <2>1. s = <<Head(s)>> \o Tail(s) /\ <<Head(s)>> \in Seq(Models) /\ Tail(s) \in Seq(Models)
    BY <1>1
  <2>2. Range(s) = Range(<<Head(s)>>) \cup Range(Tail(s))
    <3> DEFINE h == <<Head(s)>>
               r == Tail(s)
    <3>1. h \in Seq(Models) /\ r \in Seq(Models) /\ s = h \o r
      BY <2>1
    <3> HIDE DEF h, r
    <3>2. Range(h \o r) = Range(h) \cup Range(r)
      BY <3>1, RangeConcatenation
    <3> QED BY <3>1, <3>2 DEF h, r
  <2>3. Range(<<Head(s)>>) = {Head(s)}
    BY DEF Range
  <2> QED BY <2>2, <2>3
<1>6. /\ Range(s) \subseteq Range(e.ancestors)
      /\ FieldsOf(a.props) \subseteq UNION {D(b) : b \in Range(e.ancestors)}
      /\ \A b \in Range(e.ancestors) : b \in Range(s) \/ D(b) \subseteq FieldsOf(a.props)
  BY <1>4 DEF Collected, s, D
<1>7. /\ Range(x.left) \subseteq Range(e.ancestors)
      /\ FieldsOf(x.props) \subseteq UNION {D(b) : b \in Range(e.ancestors)}
      /\ \A b \in Range(e.ancestors) : b \in Range(x.left) \/ D(b) \subseteq FieldsOf(x.props)
  BY <1>2, <1>3, <1>5, <1>6
<1> QED BY <1>7 DEF Collected, x, D

\* The activation at work goes on as x, or ends.
LEMMA GoesOnCollecting ==
  ASSUME NEW d, NEW fs, NEW un, NEW E, NEW R, NEW t, NEW st, Stacked(st, t, E, R), st # <<>>,
         Collecting(d, fs, un, t, st), NEW u, \A n \in Models : u[n].ancestors = t[n].ancestors
  PROVE  /\ Collecting(d, fs, un, u, Front(st))
         /\ \A x \in Activations(E, R) :
              (Certain(d, fs, un, x.model) => Collected(d, fs, x, u[x.model]))
              => Collecting(d, fs, un, u, Append(Front(st), x))
<1> DEFINE w == Front(st)
           n == Len(st)
<1>1. st \in Seq(Activations(E, R))
  BY DEF Stacked
<1>2. /\ n \in Nat \ {0} /\ DOMAIN st = 1..n /\ w \in Seq(Activations(E, R))
      /\ Len(w) = n - 1 /\ \A i \in 1..(n - 1) : w[i] = st[i]
  BY <1>1, FrontAndLast
<1> HIDE DEF n, w
<1>3. DOMAIN w = 1..(n - 1)
  BY <1>2
<1>4. ASSUME NEW i \in 1..(n - 1), Certain(d, fs, un, w[i].model)
      PROVE  Collected(d, fs, w[i], u[w[i].model])
  <2>1. i \in DOMAIN st /\ w[i] = st[i]
    BY <1>2
  <2>2. st[i].model \in Models
    <3>1. st[i] \in Activations(E, R)
      BY <1>1, <2>1
    <3> QED BY <3>1 DEF Activations
  <2>3. Collected(d, fs, st[i], t[st[i].model])
    BY <1>4, <2>1 DEF Collecting
  <2> QED BY <2>1, <2>2, <2>3 DEF Collected
<1>5. Collecting(d, fs, un, u, w)
  BY <1>3, <1>4 DEF Collecting
<1>6. ASSUME NEW x \in Activations(E, R), Certain(d, fs, un, x.model) => Collected(d, fs, x, u[x.model])
      PROVE  Collecting(d, fs, un, u, Append(w, x))
  <2> DEFINE new == Append(w, x)
  <2>1. /\ Len(new) = Len(w) + 1 /\ DOMAIN new = 1..(Len(w) + 1) /\ new[Len(w) + 1] = x
        /\ \A i \in 1..Len(w) : new[i] = w[i]
    BY <1>2
  <2>2. DOMAIN new = 1..n /\ new[n] = x /\ \A i \in 1..(n - 1) : new[i] = w[i]
    BY <1>2, <2>1
  <2>3. \A i \in 1..n : i = n \/ i \in 1..(n - 1)
    BY <1>2
  <2> HIDE DEF new
  <2>4. ASSUME NEW i \in DOMAIN new, Certain(d, fs, un, new[i].model)
        PROVE  Collected(d, fs, new[i], u[new[i].model])
    BY <1>4, <1>6, <2>2, <2>3, <2>4
  <2>5. Collecting(d, fs, un, u, new)
    BY <2>4 DEF Collecting
  <2> QED BY <2>5 DEF new
<1> QED BY <1>5, <1>6 DEF w


----------------------------------------------------------------------------
(* The steps.                                                              *)

\* What is known before a step, while nothing was saved or removed.
LEMMA WhileFresh ==
  ASSUME IInv, FiledInv, QueryInv, Fresh
  PROVE  /\ save = NoSave /\ Filter = {} /\ Legal(disk, read)
         /\ Filed(disk, Listed(disk, read), models)
         /\ Answers(disk, read, unread, models, stack)
         /\ stack = <<>> => unread = {}
         /\ models \in Tables(IndexedPlaces, InheritEdges, RelatedEdges)
         /\ Stacked(stack, models, InheritEdges, RelatedEdges)
         /\ \A m : Needs(m) => ~models[m].populated
<1>1. /\ save = NoSave /\ (stack = <<>> => unread = {})
      /\ Answers(disk, read, unread, models, stack)
  BY DEF QueryInv
<1>2. Filter = {}
  BY <1>1 DEF Filter
<1>3. Legal(disk, read)
  BY DEF IInv, FilesInv, Legal
<1>4. /\ models \in Tables(IndexedPlaces, InheritEdges, RelatedEdges)
      /\ Stacked(stack, models, InheritEdges, RelatedEdges)
  BY DEF IInv, TableInv, StackInv
<1>5. \A m : Needs(m) => ~models[m].populated
  BY <1>2 DEF Needs
<1>6. Filed(disk, Listed(disk, read), models)
  BY DEF FiledInv
<1> QED BY <1>1, <1>2, <1>3, <1>4, <1>5, <1>6

\* A step that begins with a model.
LEMMA BeginKeeps ==
  ASSUME IInv, FiledInv, QueryInv, Fresh, UNCHANGED <<disk, read, save, saves, removals>>,
         NEW m \in Models, Needs(m), Begin(models, m),
         \/ unread' = unread
         \/ stack = <<>> /\ unread' = {a \in Models : ~models[a].populated}
  PROVE  FiledInv' /\ QueryInv'
<1>1. /\ save = NoSave /\ Filter = {} /\ Legal(disk, read) /\ ~models[m].populated
      /\ Filed(disk, Listed(disk, read), models)
      /\ Answers(disk, read, unread, models, stack)
      /\ models \in Tables(IndexedPlaces, InheritEdges, RelatedEdges)
      /\ Stacked(stack, models, InheritEdges, RelatedEdges)
  BY WhileFresh
<1>2. /\ Becomes(models', models, m, Taken(models[m]))
      /\ stack' = Append(stack, Begun(models, m, {}))
  BY <1>1 DEF Begin, Becomes, Begun
<1>3. Answers(disk, read, unread', models, stack)
  <2>1. CASE unread' = unread
    BY <1>1, <2>1
  <2>2. CASE stack = <<>> /\ unread' = {a \in Models : ~models[a].populated}
    <3>1. \A a \in Models : models[a].populated => ~Certain(disk, read, unread', a)
      <4>1. \A a \in Models : a \in AncestorsOf(disk, read, a)
        BY <1>1, AncestorsUnfold
      <4> QED BY <2>2, <4>1 DEF Certain
    <3>2. DOMAIN stack = {}
      BY <2>2
    <3> QED BY <1>1, <3>1, <3>2 DEF Answers, Collecting
  <2> QED BY <2>1, <2>2
<1>4. Answers(disk, read, unread', models', stack')
  BY <1>1, <1>2, <1>3, BeginAnswers
<1>5. stack' # <<>>
  <2>1. stack \in Seq(Activations(InheritEdges, RelatedEdges))
    BY <1>1 DEF Stacked
  <2> QED BY <1>2, <2>1
<1>6. Filed(disk, Listed(disk, read), models')
  <2>1. \A n \in Models : models'[n] = IF n = m THEN Taken(models[m]) ELSE models[n]
    BY <1>1, <1>2 DEF Becomes, Tables
  <2>2. models[m] \in Sound(m, IndexedPlaces, InheritEdges, RelatedEdges)
    BY <1>1, TableEntry
  <2>3. /\ Taken(models[m]).base = models[m].base /\ Taken(models[m]).descendants = models[m].descendants
        /\ Taken(models[m]).ancestors = models[m].ancestors
    BY <2>2 DEF Taken, Sound, Shape
  <2>4. \A n \in Models : /\ models'[n].base = models[n].base
                          /\ models'[n].descendants = models[n].descendants
                          /\ models'[n].ancestors = models[n].ancestors
    BY <2>1, <2>3
  <2> QED BY <1>1, <2>4, FiledKept
<1> QED BY <1>1, <1>4, <1>5, <1>6 DEF FiledInv, QueryInv

\* A file is read while nobody asks.
LEMMA LoadKeeps ==
  ASSUME IInv, IInv', FiledInv, QueryInv, Fresh, NEW f \in Files, Load(f)
  PROVE  FiledInv' /\ QueryInv'
<1>1. /\ Idle /\ read' = read \cup {f} /\ seen' = seen \cup {<<f, disk[f]>>}
      /\ UNCHANGED <<disk, stack, asked, save, unread, overflow, saves, removals>>
  BY DEF Load
<1>2. PICK items \in IndexModels(disk, f) : models' = AppendAll(models, f, FALSE, items)
  BY DEF Load
<1>3. /\ save = NoSave /\ stack = <<>> /\ unread = {} /\ Legal(disk, read)
      /\ Filed(disk, Listed(disk, read), models)
      /\ Answers(disk, read, unread, models, stack)
  BY <1>1, WhileFresh DEF Idle
<1>4. disk[f] \in DOMAIN Contents[f] /\ TableInv /\ FilesInv'
  BY DEF IInv, FilesInv
<1> DEFINE P == IndexedPlaces'
           E == InheritEdges'
           R == RelatedEdges'
<1>5. models \in Tables(P, E, R) /\ FileIn(f, P) /\ items \in Seq(Items(E))
  <2>1. seen' = seen \cup {<<f, disk'[f]>>} /\ \A g \in Files : g # f => disk'[g] = disk[g]
    BY <1>1
  <2>2. items \in IndexModels(disk', f)
    BY <1>1
  <2> QED BY <1>4, <2>1, <2>2, FileKnown
<1> HIDE DEF P, E, R
<1>6. /\ \A i \in DOMAIN items : ItemAt(disk, Place(f, items[i])) = items[i]
      /\ {Place(f, items[i]) : i \in DOMAIN items} = Listed(disk, {f})
  BY <1>4, FileListed
<1>7. Filed(disk, Listed(disk, read) \cup Listed(disk, {f}), models') /\ SameFields(models', models)
  BY <1>2, <1>3, <1>5, <1>6, ItemsFiled
<1>8. Listed(disk, read') = Listed(disk, read) \cup Listed(disk, {f})
  BY <1>1 DEF Listed
<1>9. Answers(disk, read', {}, models', <<>>)
  <2>1. Legal(disk, read')
    BY <1>1, <1>3, <1>4 DEF Legal
  <2>2. \A m \in Models : ~Certain(disk, read', {}, m)
    BY <2>1, NothingCertain
  <2>3. DOMAIN <<>> = {}
    OBVIOUS
  <2>4. \A m \in Models : ~models'[m].populated => models'[m].fields = Unread
    BY <1>3, <1>7 DEF SameFields, Answers
  <2> QED BY <2>2, <2>3, <2>4 DEF Answers, Collecting
<1> QED BY <1>1, <1>3, <1>7, <1>8, <1>9 DEF FiledInv, QueryInv


\* An ancestor that needs no work has its fields, or there is nothing of it.
LEMMA AncestorKnown ==
  ASSUME IInv, FiledInv, QueryInv, Fresh, NEW b \in Models, Certain(disk, read, unread, b), ~Needs(b)
  PROVE  /\ models[b].present => FieldsOf(models[b]) = DeclaredFields(disk, read, b)
         /\ ~models[b].present => DeclaredFields(disk, read, b) = {}
<1>1. /\ Legal(disk, read) /\ Filed(disk, Listed(disk, read), models)
      /\ Answers(disk, read, unread, models, stack)
      /\ models \in Tables(IndexedPlaces, InheritEdges, RelatedEdges)
  BY WhileFresh
<1>2. models[b] \in Sound(b, IndexedPlaces, InheritEdges, RelatedEdges)
  BY <1>1, TableEntry
<1>3. CASE models[b].present
  <2>1. models[b].populated
    BY <1>3 DEF Needs
  <2> QED BY <1>1, <1>3, <2>1 DEF Answers
<1>4. CASE ~models[b].present
  <2>1. models[b] = Absent
    BY <1>2, <1>4 DEF Sound
  <2>2. FiledEntry(disk, Listed(disk, read), b, Absent)
    BY <1>1, <2>1 DEF Filed
  <2> QED BY <1>1, <1>4, <2>2, NothingDeclared
<1> QED BY <1>3, <1>4

\* The model an activation is certain of has ancestors that are certain.
LEMMA NextAncestor ==
  ASSUME IInv, FiledInv, QueryInv, Fresh, NEW i \in DOMAIN stack, stack[i].left # <<>>,
         Certain(disk, read, unread, stack[i].model)
  PROVE  /\ Collected(disk, read, stack[i], models[stack[i].model])
         /\ Head(stack[i].left) \in Models /\ Certain(disk, read, unread, Head(stack[i].left))
<1>1. /\ Legal(disk, read) /\ Filed(disk, Listed(disk, read), models)
      /\ Answers(disk, read, unread, models, stack)
      /\ Stacked(stack, models, InheritEdges, RelatedEdges)
  BY WhileFresh
<1> DEFINE a == stack[i]
<1>2. a \in Activations(InheritEdges, RelatedEdges)
  <2>1. stack \in Seq(Activations(InheritEdges, RelatedEdges))
    BY <1>1 DEF Stacked
  <2> QED BY <2>1
<1>3. Collected(disk, read, a, models[a.model])
  BY <1>1 DEF Answers, Collecting
<1> HIDE DEF a
<1>4. a.model \in Models /\ a.left \in Seq(Models) /\ a.left # <<>>
  BY <1>2 DEF Activations, a
<1>5. Head(a.left) \in Range(models[a.model].ancestors)
  <2> DEFINE s == a.left
  <2>1. s \in Seq(Models) /\ s # <<>>
    BY <1>4
  <2> HIDE DEF s
  <2>2. Len(s) \in Nat \ {0} /\ DOMAIN s = 1..Len(s)
    BY <2>1, EmptySeq, LenProperties
  <2>3. 1 \in DOMAIN s /\ Head(s) = s[1]
    BY <2>1, <2>2
  <2>4. Head(s) \in Range(s)
    BY <2>3 DEF Range
  <2> QED BY <1>3, <2>4 DEF Collected, s
<1>6. Certain(disk, read, unread, a.model)
  BY DEF a
<1>7. Head(a.left) \in Models /\ Certain(disk, read, unread, Head(a.left))
  BY <1>1, <1>4, <1>5, <1>6, CertainParents
<1> QED BY <1>3, <1>7 DEF a

LEMMA InheritKeeps ==
  ASSUME IInv, FiledInv, QueryInv, Fresh, Inherit
  PROVE  FiledInv' /\ QueryInv'
<1> DEFINE a == Last(stack)
           b == Head(a.left)
           x == Absorb(a, models[b])
<1>1. /\ stack # <<>> /\ a.left # <<>> /\ ~Needs(b) /\ stack' = Append(Front(stack), x)
      /\ UNCHANGED <<disk, seen, read, models, asked, save, unread, overflow, saves, removals>>
  BY DEF Inherit
<1>2. /\ save = NoSave /\ Filed(disk, Listed(disk, read), models)
      /\ Answers(disk, read, unread, models, stack)
      /\ models \in Tables(IndexedPlaces, InheritEdges, RelatedEdges)
      /\ Stacked(stack, models, InheritEdges, RelatedEdges)
  BY WhileFresh
<1>3. /\ b \in Models /\ a \in Activations(InheritEdges, RelatedEdges)
      /\ Len(stack) \in DOMAIN stack /\ a = stack[Len(stack)]
  BY <1>1, <1>2, AtWork
<1>4. models[b] \in Sound(b, IndexedPlaces, InheritEdges, RelatedEdges) /\ models[b].fields \in KnownFields(RelatedEdges)
  BY <1>2, <1>3, TableEntry
<1>5. x \in Activations(InheritEdges, RelatedEdges) /\ x.model = a.model
  <2> DEFINE u == models[b]
  <2>1. /\ a.left # <<>> /\ a \in Activations(InheritEdges, RelatedEdges)
        /\ u \in Sound(b, IndexedPlaces, InheritEdges, RelatedEdges)
    BY <1>1, <1>3, <1>4
  <2>2. x = Absorb(a, u)
    OBVIOUS
  <2> HIDE DEF a, b, u, x
  <2>3. Absorb(a, u) \in Activations(InheritEdges, RelatedEdges) /\ Absorb(a, u).model = a.model
    BY <2>1, AbsorbIs
  <2> QED BY <2>2, <2>3
<1>6. ASSUME Certain(disk, read, unread, a.model)
      PROVE  Collected(disk, read, x, models[a.model])
  <2>1. Collected(disk, read, a, models[a.model]) /\ Certain(disk, read, unread, b)
    BY <1>1, <1>3, <1>6, NextAncestor
  <2>2. /\ models[b].present => FieldsOf(models[b]) = DeclaredFields(disk, read, b)
        /\ ~models[b].present => DeclaredFields(disk, read, b) = {}
    BY <1>1, <1>3, <2>1, AncestorKnown
  <2> DEFINE u == models[b]
             e == models[a.model]
  <2>3. /\ u.present => FieldsOf(u) = DeclaredFields(disk, read, Head(a.left))
        /\ ~u.present => DeclaredFields(disk, read, Head(a.left)) = {}
        /\ u.fields \in KnownFields(RelatedEdges) /\ Collected(disk, read, a, e)
    BY <1>4, <2>1, <2>2
  <2> HIDE DEF a, u, e
  <2>4. Collected(disk, read, Absorb(a, u), e)
    BY <1>1, <1>3, <2>3, AbsorbCollects
  <2> QED BY <2>4 DEF u, e
<1> HIDE DEF a, x
<1>7. Collecting(disk, read, unread, models, Append(Front(stack), x))
  BY <1>1, <1>2, <1>5, <1>6, GoesOnCollecting DEF Answers
<1>8. Answers(disk, read, unread, models, Append(Front(stack), x))
  BY <1>2, <1>7 DEF Answers
<1>9. stack' # <<>>
  BY <1>1, <1>2, <1>5, GoesOn DEF a
<1> QED BY <1>1, <1>2, <1>8, <1>9 DEF FiledInv, QueryInv

\* A model that is worked out has the fields it should.
LEMMA WorkedRight ==
  ASSUME IInv, FiledInv, QueryInv, Fresh, stack # <<>>, Last(stack).left = <<>>,
         Certain(disk, read, unread, Last(stack).model)
  PROVE  FieldsOf(Worked(Last(stack))) = DeclaredFields(disk, read, Last(stack).model)
<1> DEFINE a == Last(stack)
           m == a.model
<1>1. /\ Filter = {} /\ Legal(disk, read) /\ Filed(disk, Listed(disk, read), models)
      /\ Answers(disk, read, unread, models, stack) /\ FilesInv /\ TableInv
      /\ Stacked(stack, models, InheritEdges, RelatedEdges)
  BY WhileFresh DEF IInv
<1>2. /\ m \in Models /\ a \in Activations(InheritEdges, RelatedEdges)
      /\ Len(stack) \in DOMAIN stack /\ a = stack[Len(stack)]
  BY <1>1, AtWork
<1>3. Collected(disk, read, a, models[m])
  BY <1>1, <1>2 DEF Answers, Collecting
<1>4. a.left = <<>> /\ Certain(disk, read, unread, m)
  OBVIOUS
<1> HIDE DEF a, m
<1>5. FieldsOf(a.props) = UNION {DeclaredFields(disk, read, b) : b \in Range(models[m].ancestors)}
  <2>1. Range(a.left) = {}
    BY <1>4 DEF Range
  <2> QED BY <1>3, <2>1 DEF Collected
<1>6. FieldsOf(Worked(a)) =
        FieldsOf(a.props) \cup UNION {DOMAIN ClassAt(disk, p).fields : p \in ClassPlaces(models[m])}
  BY <1>1, <1>2, WorkedFields DEF m
<1>7. DeclaredFields(disk, read, m) =
        (UNION {DOMAIN ClassAt(disk, p).fields : p \in ClassPlaces(models[m])})
        \cup UNION {DeclaredFields(disk, read, b) : b \in Range(models[m].ancestors)}
  BY <1>1, <1>2, <1>4, CertainParents
<1>8. FieldsOf(Worked(a)) = DeclaredFields(disk, read, m)
  BY <1>5, <1>6, <1>7
<1> QED BY <1>8 DEF a, m


LEMMA FinishKeeps ==
  ASSUME IInv, FiledInv, QueryInv, Fresh, Finish
  PROVE  FiledInv' /\ QueryInv'
<1> DEFINE a == Last(stack)
           m == a.model
           w == Worked(a)
           below == Front(stack)
           b == Last(below)
           x == Absorb(b, w)
<1>1. /\ stack # <<>> /\ a.left = <<>> /\ models' = [models EXCEPT ![m] = w]
      /\ UNCHANGED <<disk, seen, read, asked, overflow, saves, removals>>
      /\ below = <<>> => stack' = <<>> /\ unread' = {} /\ save' = IF save.items = <<>> THEN NoSave ELSE save
      /\ below # <<>> => stack' = Append(Front(below), x) /\ UNCHANGED <<unread, save>>
  BY DEF Finish
<1>2. /\ save = NoSave /\ Filter = {} /\ Legal(disk, read) /\ Filed(disk, Listed(disk, read), models)
      /\ Answers(disk, read, unread, models, stack)
      /\ models \in Tables(IndexedPlaces, InheritEdges, RelatedEdges)
      /\ Stacked(stack, models, InheritEdges, RelatedEdges) /\ FilesInv /\ TableInv
  BY WhileFresh DEF IInv
<1>3. /\ m \in Models /\ a \in Activations(InheritEdges, RelatedEdges)
      /\ Len(stack) \in DOMAIN stack /\ a = stack[Len(stack)] /\ models[m].present
  BY <1>1, <1>2, AtWork
<1>4. /\ w \in Sound(m, IndexedPlaces, InheritEdges, RelatedEdges) /\ w.present /\ w.populated
  BY <1>2, <1>3, WorkedIs
<1>5. Certain(disk, read, unread, m) => FieldsOf(w) = DeclaredFields(disk, read, m)
  BY <1>1, WorkedRight
<1>6. \A n \in Models : models'[n] = IF n = m THEN w ELSE models[n]
  BY <1>1, <1>2 DEF Tables
<1>7. \A n \in Models : /\ models'[n].base = models[n].base
                        /\ models'[n].descendants = models[n].descendants
                        /\ models'[n].ancestors = models[n].ancestors
  <2>1. models[m] \in Sound(m, IndexedPlaces, InheritEdges, RelatedEdges)
    BY <1>2, <1>3, TableEntry
  <2>2. w.base = models[m].base /\ w.descendants = models[m].descendants /\ w.ancestors = models[m].ancestors
    BY <2>1 DEF Worked, Store, Sound, Shape
  <2> HIDE DEF w, m
  <2> QED BY <1>6, <2>2
<1>8. Filed(disk, Listed(disk, read), models')
  BY <1>2, <1>7, FiledKept
<1>9. \A n \in Models : ~models'[n].populated => models'[n].fields = Unread
  BY <1>2, <1>4, <1>6 DEF Answers
<1> HIDE DEF a, w, x
<1>10. CASE below = <<>>
  <2>1. stack' = <<>> /\ unread' = {} /\ save' = NoSave
    BY <1>1, <1>2, <1>10
  <2>2. \A n \in Models : ~Certain(disk, read, {}, n)
    BY <1>2, NothingCertain
  <2>3. DOMAIN <<>> = {}
    OBVIOUS
  <2>4. Answers(disk, read, {}, models', <<>>)
    BY <1>9, <2>2, <2>3 DEF Answers, Collecting
  <2> QED BY <1>1, <1>8, <2>1, <2>4 DEF FiledInv, QueryInv
<1>11. CASE below # <<>>
  <2>1. stack' = Append(Front(below), x) /\ unread' = unread /\ save' = NoSave
    BY <1>1, <1>2, <1>11
  <2> DEFINE n == Len(stack)
  <2>2. /\ b \in Activations(InheritEdges, RelatedEdges) /\ n - 1 \in DOMAIN stack /\ b = stack[n - 1]
        /\ b.left # <<>> /\ m = Head(b.left) /\ Stacked(below, models, InheritEdges, RelatedEdges)
    <3>1. stack \in Seq(Activations(InheritEdges, RelatedEdges))
      BY <1>2 DEF Stacked
    <3>2. /\ n \in Nat \ {0} /\ DOMAIN stack = 1..n /\ below \in Seq(Activations(InheritEdges, RelatedEdges))
          /\ Len(below) = n - 1 /\ \A i \in 1..(n - 1) : below[i] = stack[i]
      BY <1>1, <3>1, FrontAndLast
    <3>3. Stacked(below, models, InheritEdges, RelatedEdges)
      BY <1>1, <1>2, Ends
    <3> HIDE DEF below
    <3>4. Len(below) \in Nat \ {0} /\ b = below[Len(below)] /\ b \in Activations(InheritEdges, RelatedEdges)
      BY <1>11, <3>2, FrontAndLast
    <3> HIDE DEF n, b
    <3>5. n - 1 \in DOMAIN stack /\ (n - 1) + 1 \in DOMAIN stack /\ (n - 1) + 1 = n /\ b = stack[n - 1]
      BY <3>2, <3>4
    <3>6. b.left # <<>> /\ stack[n].model = Head(b.left)
      BY <1>2, <3>5 DEF Stacked
    <3> QED BY <1>3, <3>3, <3>4, <3>5, <3>6 DEF n
  <2> HIDE DEF n, b, below
  <2>3. x \in Activations(InheritEdges, RelatedEdges) /\ x.model = b.model
    <3>1. x = Absorb(b, w)
      BY DEF x
    <3>2. Absorb(b, w) \in Activations(InheritEdges, RelatedEdges) /\ Absorb(b, w).model = b.model
      <4> HIDE DEF m
      <4> QED BY <1>4, <2>2, AbsorbIs
    <3> QED BY <3>1, <3>2
  <2>4. ASSUME Certain(disk, read, unread, b.model)
        PROVE  Collected(disk, read, x, models[b.model])
    <3>1. Collected(disk, read, b, models[b.model]) /\ Certain(disk, read, unread, m)
      BY <2>2, <2>4, NextAncestor
    <3> DEFINE e == models[b.model]
    <3>2. /\ w.present => FieldsOf(w) = DeclaredFields(disk, read, Head(b.left))
          /\ ~w.present => DeclaredFields(disk, read, Head(b.left)) = {}
          /\ w.fields \in KnownFields(RelatedEdges) /\ Collected(disk, read, b, e)
      BY <1>4, <1>5, <2>2, <3>1 DEF Sound, Shape
    <3> HIDE DEF e
    <3>3. Collected(disk, read, Absorb(b, w), e)
      BY <2>2, <3>2, AbsorbCollects
    <3> QED BY <3>3 DEF x, e
  <2>5. Collecting(disk, read, unread, models', Append(Front(below), x))
    <3>1. Collecting(disk, read, unread, models, below)
      <4>1. Collecting(disk, read, unread, models, stack)
        BY <1>2 DEF Answers
      <4>2. Collecting(disk, read, unread, models, Front(stack))
        BY <1>1, <1>2, <4>1, GoesOnCollecting
      <4> QED BY <4>2 DEF below
    <3>2. x.model \in Models /\ models'[x.model].ancestors = models[x.model].ancestors
      BY <1>7, <2>3 DEF Activations
    <3>3. Certain(disk, read, unread, x.model) => Collected(disk, read, x, models'[x.model])
      BY <2>3, <2>4, <3>2 DEF Collected
    <3>4. \A k \in Models : models'[k].ancestors = models[k].ancestors
      BY <1>7
    <3> DEFINE u == models'
    <3>5. /\ \A k \in Models : u[k].ancestors = models[k].ancestors
          /\ Certain(disk, read, unread, x.model) => Collected(disk, read, x, u[x.model])
      BY <3>3, <3>4
    <3> HIDE DEF u
    <3>6. Collecting(disk, read, unread, u, Append(Front(below), x))
      BY <1>11, <2>2, <2>3, <3>1, <3>5, GoesOnCollecting
    <3> QED BY <3>6 DEF u
  <2>6. \A k \in Models :
          Certain(disk, read, unread, k) /\ models'[k].populated => FieldsOf(models'[k]) = DeclaredFields(disk, read, k)
    BY <1>2, <1>5, <1>6 DEF Answers
  <2>7. Answers(disk, read, unread, models', Append(Front(below), x))
    BY <1>9, <2>5, <2>6 DEF Answers
  <2>8. Append(Front(below), x) # <<>>
    BY <1>11, <2>2, <2>3, GoesOn DEF b
  <2> QED BY <1>1, <1>8, <2>1, <2>7, <2>8 DEF FiledInv, QueryInv
<1> QED BY <1>10, <1>11


\* A related field becomes relational; it stays a field.
LEMMA SettleKeeps ==
  ASSUME IInv, FiledInv, QueryInv, Fresh, Settle
  PROVE  FiledInv' /\ QueryInv'
<1> DEFINE a == Last(asked)
           m == a.model
           x == a.field
<1>1. /\ asked # <<>> /\ stack = <<>>
      /\ UNCHANGED <<disk, seen, read, stack, save, unread, overflow, saves, removals>>
      /\ \/ models' = models
         \/ Front(asked) # <<>> /\ models' = [models EXCEPT ![m] = Settled(models[m], x, a.at)]
  BY DEF Settle, Answered
<1>2. /\ save = NoSave /\ unread = {} /\ Legal(disk, read) /\ Filed(disk, Listed(disk, read), models)
      /\ Answers(disk, read, unread, models, stack)
      /\ models \in Tables(IndexedPlaces, InheritEdges, RelatedEdges)
  BY <1>1, WhileFresh
<1>3. Followed(asked, models, RelatedEdges)
  BY DEF IInv, AskedInv
<1>4. /\ \A n \in Models : /\ models'[n].base = models[n].base
                           /\ models'[n].descendants = models[n].descendants
                           /\ models'[n].ancestors = models[n].ancestors
      /\ \A n \in Models : ~models'[n].populated => models'[n].fields = Unread
  <2>1. CASE models' = models
    BY <1>2, <2>1 DEF Answers
  <2>2. CASE Front(asked) # <<>> /\ models' = [models EXCEPT ![m] = Settled(models[m], x, a.at)]
    <3>1. m \in Models /\ models[m].populated
      <4> DEFINE k == Len(asked)
      <4>1. asked \in Seq(Request)
        BY <1>3 DEF Followed
      <4>2. k \in Nat \ {0} /\ k \in DOMAIN asked /\ a = asked[k] /\ a \in Request /\ Len(Front(asked)) = k - 1
        BY <1>1, <4>1, FrontAndLast
      <4>3. k # 1
        <5>1. Front(asked) \in Seq(Request)
          BY <1>1, <4>1, FrontAndLast
        <5> HIDE DEF a, k
        <5>2. Len(Front(asked)) # 0
          BY <2>2, <5>1, EmptySeq
        <5> QED BY <4>2, <5>2
      <4> HIDE DEF a, k
      <4>4. m # NoModel /\ models[m].populated
        BY <1>3, <4>2, <4>3 DEF Followed
      <4> QED BY <4>2, <4>4 DEF Request
    <3>2. models[m] \in Sound(m, IndexedPlaces, InheritEdges, RelatedEdges)
      BY <1>2, <3>1, TableEntry
    <3> DEFINE u == Settled(models[m], x, a.at)
    <3>3. /\ u.base = models[m].base /\ u.descendants = models[m].descendants
          /\ u.ancestors = models[m].ancestors /\ u.populated = models[m].populated
      <4> HIDE DEF m, x, a
      <4> QED BY <3>2 DEF Settled, Sound, Shape
    <3>4. models' = [models EXCEPT ![m] = u]
      BY <2>2
    <3> HIDE DEF u, m
    <3>5. \A n \in Models : models'[n] = IF n = m THEN u ELSE models[n]
      BY <1>2, <3>4 DEF Tables
    <3> QED BY <1>2, <3>1, <3>3, <3>5 DEF Answers
  <2> QED BY <1>1, <2>1, <2>2
<1>5. Filed(disk, Listed(disk, read), models')
  BY <1>2, <1>4, FiledKept
<1>6. Answers(disk, read, {}, models', <<>>)
  <2>1. \A n \in Models : ~Certain(disk, read, {}, n)
    BY <1>2, NothingCertain
  <2>2. DOMAIN <<>> = {}
    OBVIOUS
  <2> QED BY <1>4, <2>1, <2>2 DEF Answers, Collecting
<1> QED BY <1>1, <1>2, <1>5, <1>6 DEF FiledInv, QueryInv

\* Nothing that counts has changed.
LEMMA SameKeeps ==
  ASSUME FiledInv, QueryInv, UNCHANGED <<disk, read, models, stack, save, unread, saves, removals>>
  PROVE  FiledInv' /\ QueryInv'
BY DEF FiledInv, QueryInv, Fresh

LEMMA NextKeeps ==
  ASSUME IInv, IInv', FiledInv, QueryInv, [Next]_vars
  PROVE  FiledInv' /\ QueryInv'
<1>1. SUFFICES ASSUME Fresh' PROVE FiledInv' /\ QueryInv'
  BY DEF FiledInv, QueryInv
<1>2. saves \in Nat /\ removals \in Nat
  BY ModelAssumption DEF IInv, FilesInv
<1>3. ASSUME NEW f \in Files, Load(f) PROVE FiledInv' /\ QueryInv'
  BY <1>1, <1>3, LoadKeeps DEF Fresh, Load
<1>4. ASSUME NEW f \in Files, NEW v \in DOMAIN Contents[f], Save(f, v) PROVE FALSE
  BY <1>1, <1>2, <1>4 DEF Fresh, Save
<1>5. ASSUME ReadAgain PROVE FALSE
  <2>1. Fresh /\ save # NoSave
    BY <1>1, <1>5 DEF Fresh, ReadAgain
  <2> QED BY <2>1, WhileFresh
<1>6. ASSUME NEW m \in Models, Query(m) PROVE FiledInv' /\ QueryInv'
  <2>1. /\ Fresh /\ Needs(m) /\ Begin(models, m) /\ stack = <<>>
        /\ unread' = {a \in Models : ~models[a].populated}
        /\ UNCHANGED <<disk, read, save, saves, removals>>
    BY <1>1, <1>6 DEF Fresh, Query, Idle
  <2> QED BY <2>1, BeginKeeps
<1>7. CASE Descend
  <2> DEFINE a == Head(Last(stack).left)
  <2>1. /\ Fresh /\ stack # <<>> /\ Last(stack).left # <<>> /\ Needs(a)
        /\ UNCHANGED <<disk, read, save, unread, saves, removals>>
        /\ UNCHANGED <<models, stack>> \/ Begin(models, a)
    BY <1>1, <1>7 DEF Fresh, Descend
  <2>2. a \in Models
    <3>1. Stacked(stack, models, InheritEdges, RelatedEdges)
      BY DEF IInv, StackInv
    <3> QED BY <2>1, <3>1, AtWork
  <2> HIDE DEF a
  <2>3. CASE UNCHANGED <<models, stack>>
    BY <2>1, <2>3, SameKeeps
  <2>4. CASE Begin(models, a)
    BY <2>1, <2>2, <2>4, BeginKeeps
  <2> QED BY <2>1, <2>3, <2>4
<1>8. CASE PopulateAsked
  <2> DEFINE a == Last(asked).at
  <2>1. /\ Fresh /\ asked # <<>> /\ Needs(a) /\ Begin(models, a)
        /\ UNCHANGED <<disk, read, save, unread, saves, removals>>
    BY <1>1, <1>8 DEF Fresh, PopulateAsked, Answered
  <2>2. a \in Models
    <3>1. Followed(asked, models, RelatedEdges)
      BY DEF IInv, AskedInv
    <3> QED BY <2>1, <3>1, AtPath
  <2> HIDE DEF a
  <2> QED BY <2>1, <2>2, BeginKeeps
<1>9. CASE Inherit
  BY <1>1, <1>9, InheritKeeps DEF Fresh, Inherit
<1>10. CASE Finish
  BY <1>1, <1>10, FinishKeeps DEF Fresh, Finish
<1>11. CASE Settle
  BY <1>1, <1>11, SettleKeeps DEF Fresh, Settle
<1>12. ASSUME NEW m \in Models, NEW x \in Fields, Resolve(m, x) PROVE FiledInv' /\ QueryInv'
  BY <1>12, SameKeeps DEF Resolve
<1>13. CASE LookUp
  BY <1>13, SameKeeps DEF LookUp
<1>14. ASSUME NEW r, RemoveRoot(r) \/ RemoveRootHangs(r) PROVE FALSE
  BY <1>1, <1>2, <1>14 DEF Fresh, RemoveRoot, RemoveRootHangs, Reconfigure
<1>15. CASE UNCHANGED vars
  BY <1>15, SameKeeps DEF vars
<1> QED BY <1>3, <1>4, <1>5, <1>6, <1>7, <1>8, <1>9, <1>10, <1>11, <1>12, <1>13, <1>14, <1>15 DEF Next, Step

----------------------------------------------------------------------------
(* The theorem.                                                            *)

LEMMA Complete ==
  ASSUME IInv, FiledInv, QueryInv, Finish, stack' = <<>>, Fresh,
         \A a \in AncestorsOf(disk, read, stack[1].model) :
           a \in unread /\ OneBase(disk, read, a)
  PROVE  FieldsOf(models'[stack[1].model]) = DeclaredFields(disk, read, stack[1].model)
<1> DEFINE a == Last(stack)
           below == Front(stack)
<1>1. /\ stack # <<>> /\ a.left = <<>> /\ models' = [models EXCEPT ![a.model] = Worked(a)]
      /\ below # <<>> => stack' = Append(Front(below), Absorb(Last(below), Worked(a)))
  BY DEF Finish
<1>2. /\ models \in Tables(IndexedPlaces, InheritEdges, RelatedEdges)
      /\ Stacked(stack, models, InheritEdges, RelatedEdges)
  BY WhileFresh
<1>3. stack \in Seq(Activations(InheritEdges, RelatedEdges)) /\ a.model \in Models
  BY <1>1, <1>2, AtWork DEF Stacked
<1>4. a = stack[1]
  <2>1. /\ Len(stack) \in Nat \ {0} /\ a = stack[Len(stack)] /\ Len(below) = Len(stack) - 1
        /\ below \in Seq(Activations(InheritEdges, RelatedEdges))
    BY <1>1, <1>3, FrontAndLast
  <2>2. below = <<>>
    <3> SUFFICES ASSUME below # <<>> PROVE FALSE
      OBVIOUS
    <3>1. Front(below) \in Seq(Activations(InheritEdges, RelatedEdges))
      BY <2>1, FrontAndLast
    <3>2. stack' = Append(Front(below), Absorb(Last(below), Worked(a)))
      BY <1>1
    <3> DEFINE s == Front(below)
               x == Absorb(Last(below), Worked(a))
               X == Activations(InheritEdges, RelatedEdges)
    <3> HIDE DEF s, x, X
    <3>3. Append(s, x) # <<>>
      BY <3>1, NeverEmpty DEF s, X
    <3> QED BY <3>2, <3>3 DEF s, x
  <2>3. Len(below) = 0
    BY <2>2
  <2>4. Len(stack) = 1
    <3> DEFINE n == Len(stack)
               k == Len(below)
    <3>1. n \in Nat \ {0} /\ k = n - 1 /\ k = 0
      BY <2>1, <2>3
    <3> HIDE DEF n, k
    <3>2. n = 1
      BY <3>1
    <3> QED BY <3>2 DEF n
  <2>5. a = stack[Len(stack)]
    BY <2>1
  <2> HIDE DEF a
  <2> QED BY <2>4, <2>5, Zenon
<1>5. models'[a.model] = Worked(a)
  BY <1>1, <1>2, <1>3 DEF Tables
<1>6. Certain(disk, read, unread, a.model)
  BY <1>4 DEF Certain
<1>7. FieldsOf(Worked(a)) = DeclaredFields(disk, read, a.model)
  BY <1>1, <1>6, WorkedRight
<1> QED BY <1>4, <1>5, <1>7

\* When a query has ended, the model it asked populate_properties for has the
\* fields that its classes and those of all its ancestors declare in the files
\* that were read, neither more nor fewer, in whatever order files were read and
\* models asked about before, as long as no file was saved, no root removed, and
\* the query found none of these models worked out already or with two bases.
THEOREM QueriesComplete == Spec => QueryComplete
<1>1. Init => FiledInv /\ QueryInv
  <2> SUFFICES ASSUME Init PROVE FiledInv /\ QueryInv
    OBVIOUS
  <2>1. /\ models = [m \in Models |-> Absent] /\ read = {} /\ stack = <<>>
        /\ save = NoSave /\ unread = {}
    BY DEF Init
  <2>2. Listed(disk, read) = {}
    BY <2>1 DEF Listed
  <2>3. FiledInv
    <3>1. /\ ClassPlaces(Absent) = {} /\ Absent.base = NoPlace /\ Range(Absent.ancestors) = {}
      BY DEF ClassPlaces, Absent, Range
    <3>2. \A m : FiledEntry(disk, {}, m, Absent)
      BY <3>1 DEF FiledEntry, ListedOf, AncestorsAt
    <3> QED BY <2>1, <2>2, <3>2 DEF FiledInv, Filed
  <2>4. \A m \in Models : ~Certain(disk, read, {}, m)
    BY <2>1, NothingCertain DEF Legal
  <2>5. QueryInv
    <3>1. Absent.fields = Unread /\ DOMAIN <<>> = {}
      BY DEF Absent
    <3>2. Answers(disk, read, {}, models, <<>>)
      BY <2>1, <2>4, <3>1 DEF Answers, Collecting
    <3> QED BY <2>1, <3>2 DEF QueryInv
  <2> QED BY <2>3, <2>5
<1>2. IInv /\ IInv' /\ FiledInv /\ QueryInv /\ [Next]_vars => FiledInv' /\ QueryInv'
  BY NextKeeps
<1>3. IInv /\ FiledInv /\ QueryInv /\ [Next]_vars =>
        [Finish /\ stack' = <<>> /\ saves = 0 /\ removals = 0 =>
           LET m == stack[1].model
           IN  (\A a \in AncestorsOf(disk, read, m) :
                  a \in unread /\ \A p, q \in BasesOf(disk, read, a) : p = q)
               => FieldsOf(models'[m]) = DeclaredFields(disk, read, m)]_vars
  BY Complete DEF Fresh, OneBase
<1> QED BY <1>1, <1>2, <1>3, Invariant, PTL DEF Spec, QueryComplete

=============================================================================
