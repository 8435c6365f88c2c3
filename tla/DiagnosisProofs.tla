-------------------------- MODULE DiagnosisProofs ---------------------------
(***************************************************************************)
(* What diagnose_python keeps and what it finds again do not overlap, and  *)
(* together they are what there is to find, when the edits since the last  *)
(* diagnosis were inside one statement.                                    *)
(***************************************************************************)
EXTENDS Diagnosis, Loops, FiniteSetTheorems, SequenceTheorems

\* Nothing but an import is kept and found again, whatever the zone: what is
\* found again is in the statement, and what is kept is outside of it.
LEMMA KeptOrFound ==
  ASSUME NEW d, NEW z, NEW c, NEW s \in DOMAIN Retained(d, z, c), s.kind # "import"
  PROVE  s \notin Imports(d) /\ s \notin Rest(d, z)
<1>1. z # NoZone /\ ~InRange(RootOf(d, z), s.at)
  BY DEF Retained
<1> QED BY <1>1 DEF Imports, Rest

LEMMA Pushed ==
  ASSUME NEW c, NEW S, NEW s
  PROVE  /\ DOMAIN Push(c, S) = DOMAIN c \cup S
         /\ s \in DOMAIN c \cup S => 
              Push(c, S)[s] = (IF s \in DOMAIN c THEN c[s] ELSE 0) + (IF s \in S THEN 1 ELSE 0)
BY DEF Push

\* A cache that lists each diagnostic once does so after diagnose_python.
LEMMA DiagnosedOnce ==
  ASSUME NEW d, NEW z, NEW c, \A s \in DOMAIN c : s.kind # "import" => c[s] = 1,
         NEW s \in DOMAIN DiagnosePython(d, z, c), s.kind # "import"
  PROVE  DiagnosePython(d, z, c)[s] = 1
<1> DEFINE kept == Retained(d, z, c)
           found == Push(kept, Imports(d))
<1>1. s \notin Imports(d)
  BY DEF Imports
<1>2. s \in DOMAIN kept => s \notin Rest(d, z) /\ kept[s] = 1
  <2>1. s \in DOMAIN kept => s \in DOMAIN c /\ kept[s] = c[s]
    BY DEF Retained
  <2> QED BY <2>1, KeptOrFound
<1>3. DiagnosePython(d, z, c) = Push(found, Rest(d, z))
  BY DEF DiagnosePython
<1> HIDE DEF kept
<1>4. DOMAIN found = DOMAIN kept \cup Imports(d) /\ (s \in DOMAIN kept => found[s] = kept[s] + 0)
  BY <1>1, Pushed
<1> HIDE DEF found
<1>5. /\ s \in DOMAIN found \cup Rest(d, z)
      /\ DiagnosePython(d, z, c)[s] = (IF s \in DOMAIN found THEN found[s] ELSE 0) + (IF s \in Rest(d, z) THEN 1 ELSE 0)
  <2>1. s \in DOMAIN Push(found, Rest(d, z))
    BY <1>3
  <2>2. s \in DOMAIN found \cup Rest(d, z)
    BY <2>1, Pushed
  <2>3. Push(found, Rest(d, z))[s] = (IF s \in DOMAIN found THEN found[s] ELSE 0) + (IF s \in Rest(d, z) THEN 1 ELSE 0)
    BY <2>2, Pushed
  <2> QED BY <1>3, <2>2, <2>3
<1>6. CASE s \in DOMAIN kept
  BY <1>2, <1>4, <1>5, <1>6
<1>7. CASE s \notin DOMAIN kept
  BY <1>1, <1>4, <1>5, <1>7
<1> QED BY <1>6, <1>7

\* Whatever is edited, in whichever order documents are saved and asked about,
\* no diagnostic but an import's is listed twice.
THEOREM NothingListedTwice == DiagnosisSpec => []OnceEach
<1>1. DiagnosisInit => OnceEach
  <2> SUFFICES ASSUME DiagnosisInit, NEW s \in DOMAIN cache, s.kind # "import"
               PROVE  cache[s] = 1
    BY DEF OnceEach, Shown
  <2>1. DOMAIN <<>> = {}
    OBVIOUS
  <2>2. cache = DiagnosePython(doc, NoZone, <<>>)
    BY <2>1 DEF DiagnosisInit
  <2> QED BY <2>1, <2>2, DiagnosedOnce
<1>2. ASSUME OnceEach, NEW d, NEW z, NEW S, NEW m, Diagnose(d, z, S, m)
      PROVE  OnceEach'
  <2>1. CASE cache' = cache
    BY <1>2, <2>1 DEF OnceEach, Shown
  <2>2. CASE cache' = DiagnosePython(d, z, cache)
    <3>1. \A s \in DOMAIN cache : s.kind # "import" => cache[s] = 1
      BY <1>2 DEF OnceEach, Shown
    <3> QED BY <2>2, <3>1, DiagnosedOnce DEF OnceEach, Shown
  <2> QED BY <1>2, <2>1, <2>2 DEF Diagnose
<1>3. ASSUME OnceEach, [DiagnosisNext]_diagnosis
      PROVE  OnceEach'
  <2>1. CASE cache' = cache
    BY <1>3, <2>1 DEF OnceEach, Shown
  <2>2. CASE \E d, z, S, m : Diagnose(d, z, S, m)
    BY <1>2, <1>3, <2>2
  <2>3. CASE Change
    BY <2>1, <2>2, <2>3 DEF Change
  <2>4. CASE Save \/ Pull
    BY <2>2, <2>4 DEF Save, Pull
  <2>5. CASE UNCHANGED diagnosis
    BY <2>1, <2>5 DEF diagnosis
  <2> QED BY <1>3, <2>3, <2>4, <2>5 DEF DiagnosisNext
<1> QED BY <1>1, <1>3, PTL DEF DiagnosisSpec

Text == Seq(Seq(STRING))

----------------------------------------------------------------------------
(* Where statements are.                                                   *)

\* Each statement starts one place behind the end of the one before it.
LEMMA Starts ==
  ASSUME NEW d \in Text
  PROVE  /\ StartOf(d, 1) = 0
         /\ \A k \in 1..Len(d) : StartOf(d, k + 1) = StartOf(d, k) + Len(d[k]) + 1
         /\ \A k \in 1..(Len(d) + 1) : StartOf(d, k) \in Nat
<1> DEFINE n == Len(d)
           step == [q \in Nat \X (1..n) |-> q[1] + Len(d[q[2]]) + 1]
           Is(f) == f = [k \in 0..n |-> IF k = 0 THEN 0 ELSE f[k - 1] + Len(d[k]) + 1]
<1>1. n \in Nat /\ \A k \in 1..n : d[k] \in Seq(STRING) /\ Len(d[k]) \in Nat
  BY DEF Text
<1>2. \A x \in Nat, k \in 1..n : step[<<x, k>>] = x + Len(d[k]) + 1 /\ step[<<x, k>>] \in Nat
  BY <1>1
<1>3. PICK at \in [0..n -> Nat] : Rounds(at, n, 0, step)
  <2>1. n \in Nat /\ 0 \in Nat /\ \A x \in Nat, k \in 1..n : step[<<x, k>>] \in Nat
    BY <1>1, <1>2
  <2> HIDE DEF step, n
  <2> QED BY <2>1, LoopRuns
<1>4. Is(at)
  <2>1. ASSUME NEW k \in 0..n
        PROVE  at[k] = IF k = 0 THEN 0 ELSE at[k - 1] + Len(d[k]) + 1
    <3>1. k # 0 => k - 1 \in 0..n /\ k \in 1..n
      BY <1>1
    <3>2. k # 0 => at[k - 1] \in Nat
      BY <1>3, <3>1
    <3> HIDE DEF step
    <3> QED BY <1>2, <1>3, <3>1, <3>2 DEF Rounds
  <2> HIDE DEF step
  <2> QED BY <1>3, <2>1
<1> DEFINE c == CHOOSE f : Is(f)
<1>5. Is(c)
  <2> HIDE DEF Is
  <2> QED BY <1>4
<1>6. \A i : StartOf(d, i) = c[i - 1]
  BY DEF StartOf
<1> HIDE DEF c
<1>7. c[0] = 0 /\ \A k \in 1..n : c[k] = c[k - 1] + Len(d[k]) + 1
  <2>1. 0 \in 0..n /\ \A k \in 1..n : k \in 0..n /\ k # 0
    BY <1>1
  <2> QED BY <1>5, <2>1
<1> DEFINE T == {k \in 0..n : c[k] \in Nat}
<1>8. 0..n \subseteq T
  <2>1. 0 \in T
    BY <1>1, <1>7
  <2>2. \A k \in 1..n : k - 1 \in T => k \in T
    BY <1>1, <1>7
  <2> HIDE DEF T
  <2> QED BY <1>1, <2>1, <2>2, EveryRound
<1>9. \A k \in 1..n : StartOf(d, k + 1) = c[k] /\ StartOf(d, k) = c[k - 1]
  <2>1. \A k \in 1..n : (k + 1) - 1 = k
    BY <1>1
  <2> QED BY <1>6, <2>1
<1>10. \A k \in 1..(n + 1) : StartOf(d, k) \in Nat
  <2>1. \A k \in 1..(n + 1) : k - 1 \in 0..n
    BY <1>1
  <2> QED BY <1>6, <1>8, <2>1
<1>11. StartOf(d, 1) = 0
  <2>1. 1 - 1 = 0
    OBVIOUS
  <2> QED BY <1>6, <1>7, <2>1
<1> QED BY <1>7, <1>9, <1>10, <1>11

LEMMA Ends ==
  ASSUME NEW d \in Text, NEW i \in DOMAIN d
  PROVE  /\ i \in Nat /\ 1 <= i /\ i <= Len(d) /\ Len(d) \in Nat /\ d[i] \in Seq(STRING) /\ Len(d[i]) \in Nat
         /\ StartOf(d, i) \in Nat /\ EndOf(d, i) \in Nat
         /\ EndOf(d, i) = StartOf(d, i) + Len(d[i]) /\ StartOf(d, i + 1) = EndOf(d, i) + 1
<1>1. i \in Nat /\ 1 <= i /\ i <= Len(d) /\ Len(d) \in Nat /\ d[i] \in Seq(STRING) /\ Len(d[i]) \in Nat
  BY DEF Text
<1>2. i \in 1..Len(d) /\ i \in 1..(Len(d) + 1)
  BY <1>1
<1>3. StartOf(d, i) \in Nat /\ StartOf(d, i + 1) = StartOf(d, i) + Len(d[i]) + 1
  BY <1>2, Starts
<1>4. EndOf(d, i) = StartOf(d, i) + Len(d[i])
  BY DEF EndOf
<1> QED BY <1>1, <1>3, <1>4

\* A statement ends before those behind it start.
LEMMA Behind ==
  ASSUME NEW d \in Text, NEW i \in DOMAIN d, NEW j \in DOMAIN d, i < j
  PROVE  EndOf(d, i) < StartOf(d, j)
<1> DEFINE T == {k \in 0..Len(d) : i < k => EndOf(d, i) < StartOf(d, k)}
<1>1. Len(d) \in Nat /\ i \in 1..Len(d) /\ j \in 1..Len(d)
  BY Ends
<1>2. 0 \in T
  BY <1>1
<1>3. ASSUME NEW k \in 1..Len(d), k - 1 \in T PROVE k \in T
  <2>1. CASE k <= i
    BY <2>1, <1>1
  <2>2. CASE k = i + 1
    <3>1. EndOf(d, i) \in Nat /\ StartOf(d, i + 1) = EndOf(d, i) + 1
      BY Ends
    <3> QED BY <2>2, <3>1
  <2>3. CASE i < k - 1
    <3>1. EndOf(d, i) < StartOf(d, k - 1) /\ k - 1 \in DOMAIN d /\ (k - 1) + 1 = k
      BY <1>1, <1>3, <2>3
    <3>2. StartOf(d, k - 1) \in Nat /\ Len(d[k - 1]) \in Nat /\ StartOf(d, k) = StartOf(d, k - 1) + Len(d[k - 1]) + 1
          /\ EndOf(d, i) \in Nat
      <4>1. StartOf(d, (k - 1) + 1) = EndOf(d, k - 1) + 1
        BY <3>1, Ends
      <4> QED BY <3>1, <4>1, Ends
    <3> QED BY <3>1, <3>2
  <2> QED BY <1>1, <2>1, <2>2, <2>3
<1>4. 0..Len(d) \subseteq T
  <2> HIDE DEF T
  <2> QED BY <1>1, <1>2, <1>3, EveryRound
<1>5. j \in 0..Len(d)
  BY <1>1
<1> QED BY <1>4, <1>5

\* The offset is at a place of the statement.
InStatement(d, i, offset) == StartOf(d, i) <= offset /\ offset < EndOf(d, i)

\* An offset is in no more than one statement, its end counted.
LEMMA OneStatement ==
  ASSUME NEW d \in Text, NEW i \in DOMAIN d, NEW offset \in Nat,
         StartOf(d, i) <= offset, offset <= EndOf(d, i)
  PROVE  StatementsAt(d, offset) = {i}
<1>1. ASSUME NEW j \in DOMAIN d, StartOf(d, j) <= offset, offset <= EndOf(d, j), j # i
      PROVE  FALSE
  <2>1. CASE i < j
    BY <1>1, <2>1, Behind, Ends
  <2>2. CASE j < i
    BY <1>1, <2>2, Behind, Ends
  <2> QED BY <1>1, <2>1, <2>2, Ends
<1> QED BY <1>1 DEF StatementsAt

\* Nothing is behind the end of the text.
LEMMA InText ==
  ASSUME NEW d \in Text, NEW s \in Sites(d)
  PROVE  \E i \in DOMAIN d : \E k \in DOMAIN d[i] :
            /\ s = [at |-> StartOf(d, i) + k - 1, kind |-> d[i][k]]
            /\ s.at \in Nat /\ InStatement(d, i, s.at) /\ s.at <= TextSize(d) /\ TextSize(d) \in Nat
<1>0. PICK i \in DOMAIN d : s \in {[at |-> StartOf(d, i) + k - 1, kind |-> d[i][k]] : k \in DOMAIN d[i]}
  BY DEF Sites
<1>1. PICK k \in DOMAIN d[i] : s = [at |-> StartOf(d, i) + k - 1, kind |-> d[i][k]]
  BY <1>0
<1>2. k \in Nat /\ 1 <= k /\ k <= Len(d[i]) /\ d # <<>>
  BY Ends DEF Text
<1>3. s.at \in Nat /\ StartOf(d, i) <= s.at /\ s.at < EndOf(d, i)
  BY <1>1, <1>2, Ends
<1>4. TextSize(d) = EndOf(d, Len(d)) /\ Len(d) \in DOMAIN d
  BY <1>2, Ends DEF TextSize
<1>5. EndOf(d, i) <= EndOf(d, Len(d))
  <2>1. CASE i = Len(d)
    BY <2>1, Ends
  <2>2. CASE i < Len(d)
    <3>1. EndOf(d, i) < StartOf(d, Len(d))
      BY <1>4, <2>2, Behind
    <3>2. /\ EndOf(d, i) \in Nat /\ StartOf(d, Len(d)) \in Nat /\ Len(d[Len(d)]) \in Nat
          /\ EndOf(d, Len(d)) = StartOf(d, Len(d)) + Len(d[Len(d)])
      BY <1>4, Ends
    <3> QED BY <3>1, <3>2
  <2> QED BY <1>4, <2>1, <2>2, Ends
<1>6. EndOf(d, i) \in Nat /\ EndOf(d, Len(d)) \in Nat
  BY <1>4, Ends
<1> QED BY <1>1, <1>3, <1>4, <1>5, <1>6 DEF InStatement

\* E has as many places in each statement as d, and other ones only in S.
SameBut(d, e, S) ==
  Len(e) = Len(d) /\ \A k \in DOMAIN d : Len(e[k]) = Len(d[k]) /\ (k \notin S => e[k] = d[k])

LEMMA SameStarts ==
  ASSUME NEW d \in Text, NEW e \in Text, NEW S, SameBut(d, e, S), NEW i \in DOMAIN d
  PROVE  i \in DOMAIN e /\ StartOf(e, i) = StartOf(d, i) /\ EndOf(e, i) = EndOf(d, i)
<1> DEFINE T == {k \in 0..Len(d) : StartOf(e, k + 1) = StartOf(d, k + 1)}
<1>1. Len(d) \in Nat /\ DOMAIN d = 1..Len(d) /\ DOMAIN e = 1..Len(d)
  BY DEF SameBut, Text
<1>2. 0 \in T
  BY <1>1, Starts
<1>3. ASSUME NEW k \in 1..Len(d), k - 1 \in T PROVE k \in T
  <2>1. StartOf(e, k) = StartOf(d, k) /\ Len(e[k]) = Len(d[k])
    <3>1. (k - 1) + 1 = k /\ k \in DOMAIN d
      BY <1>1
    <3> QED BY <1>3, <3>1 DEF SameBut
  <2>2. StartOf(e, k + 1) = StartOf(e, k) + Len(e[k]) + 1 /\ StartOf(d, k + 1) = StartOf(d, k) + Len(d[k]) + 1
    BY <1>1, Starts DEF SameBut
  <2> QED BY <1>1, <2>1, <2>2
<1>4. 0..Len(d) \subseteq T
  <2> HIDE DEF T
  <2> QED BY <1>1, <1>2, <1>3, EveryRound
<1>5. StartOf(e, i) = StartOf(d, i)
  <2>1. i - 1 \in T /\ (i - 1) + 1 = i
    BY <1>1, <1>4
  <2> QED BY <2>1
<1> QED BY <1>1, <1>5 DEF EndOf, SameBut

\* What there is to find outside of S is the same.
LEMMA SameElsewhere ==
  ASSUME NEW d \in Text, NEW e \in Text, NEW S, SameBut(d, e, S), NEW s \in Fresh(d),
         \A i \in S \cap DOMAIN d : ~InStatement(d, i, s.at)
  PROVE  s \in Fresh(e)
<1>1. s \in Sites(d) /\ s.kind # "fine"
  BY DEF Fresh
<1>2. PICK i \in DOMAIN d : \E k \in DOMAIN d[i] :
            s = [at |-> StartOf(d, i) + k - 1, kind |-> d[i][k]] /\ InStatement(d, i, s.at)
  BY <1>1, InText
<1>3. PICK k \in DOMAIN d[i] : s = [at |-> StartOf(d, i) + k - 1, kind |-> d[i][k]]
  BY <1>2
<1>4. i \in DOMAIN e /\ e[i] = d[i] /\ StartOf(e, i) = StartOf(d, i)
  BY <1>2, SameStarts DEF SameBut
<1>5. s \in Sites(e)
  BY <1>3, <1>4 DEF Sites
<1> QED BY <1>1, <1>5 DEF Fresh

----------------------------------------------------------------------------
(* Edits.                                                                  *)

LEMMA ShortenedSequence ==
  ASSUME NEW S, NEW s \in Seq(S), NEW k \in 1..Len(s)
  PROVE  /\ RemoveAt(s, k) \in Seq(S)
         /\ \A x \in S : InsertAt(s, k, x) \in Seq(S)
<1> DEFINE a == SubSeq(s, 1, k - 1)
           b == SubSeq(s, k + 1, Len(s))
           c == SubSeq(s, k, Len(s))
<1>1. a \in Seq(S) /\ b \in Seq(S) /\ c \in Seq(S)
  <2>1. Len(s) \in Nat /\ \A i \in 1..Len(s) : s[i] \in S
    OBVIOUS
  <2> QED BY <2>1, SubSeqProperties
<1>2. \A x \in S : <<x>> \in Seq(S)
  OBVIOUS
<1>3. RemoveAt(s, k) = a \o b
  BY DEF RemoveAt
<1>4. \A x : InsertAt(s, k, x) = a \o <<x>> \o c
  BY DEF InsertAt
<1> HIDE DEF a, b, c
<1>5. a \o b \in Seq(S)
  BY <1>1
<1>6. ASSUME NEW x \in S PROVE a \o <<x>> \o c \in Seq(S)
  BY <1>1, <1>2
<1> QED BY <1>3, <1>4, <1>5, <1>6

\* An edit gives a text; one that moves nothing is inside a statement, and
\* changes no other.
LEMMA Edited ==
  ASSUME NEW d \in Text, NEW e \in EditsOf(d)
  PROVE  /\ e.doc \in Text /\ e.stmt \in DOMAIN d
         /\ ~e.moves => /\ SameBut(d, e.doc, {e.stmt})
                        /\ e.from \in Nat /\ e.to \in Nat /\ e.from < e.to
                        /\ StartOf(d, e.stmt) <= e.from /\ e.to <= EndOf(d, e.stmt)
<1>1. \/ \E p \in Editable(d), kind \in Kinds : e = Put(d, p[1], p[2], kind)
      \/ \E p \in Editable(d), kind \in Kinds : e = PutIn(d, p[1], p[2], kind)
      \/ \E p \in Editable(d) : e = CutOut(d, p[1], p[2])
      \/ \E i \in DOMAIN d : e = Drop(d, i)
  BY DEF EditsOf
<1>2. ASSUME NEW p \in Editable(d)
      PROVE  /\ p[1] \in DOMAIN d /\ p[2] \in DOMAIN d[p[1]]
             /\ p[2] \in Nat /\ 1 <= p[2] /\ p[2] <= Len(d[p[1]])
  <2>1. PICK i \in DOMAIN d : p \in {i} \X DOMAIN d[i]
    BY DEF Editable
  <2>2. p[1] = i /\ p[2] \in DOMAIN d[i]
    BY <2>1
  <2>3. d[i] \in Seq(STRING)
    BY <2>1, Ends
  <2> QED BY <2>2, <2>3
<1>3. \A kind \in Kinds : kind \in STRING
  BY DiagnosisAssumption
<1>4. CASE \E p \in Editable(d), kind \in Kinds : e = Put(d, p[1], p[2], kind)
  <2>1. PICK p \in Editable(d), kind \in Kinds : e = Put(d, p[1], p[2], kind)
    BY <1>4
  <2> DEFINE i == p[1]
             k == p[2]
             st == [d[i] EXCEPT ![k] = kind]
  <2>2. /\ e.doc = [d EXCEPT ![i] = st] /\ e.stmt = i
        /\ e.from = StartOf(d, i) + k - 1 /\ e.to = StartOf(d, i) + k - 1 + 1
    BY <2>1 DEF Edit, PlaceAt, Put, PutIn, CutOut, Drop
  <2>3. d[i] \in Seq(STRING) /\ i \in DOMAIN d /\ k \in DOMAIN d[i]
    BY <1>2, Ends
  <2>4. st \in Seq(STRING) /\ Len(st) = Len(d[i])
    BY <1>3, <2>3
  <2> HIDE DEF st
  <2>5. e.doc \in Text /\ Len(e.doc) = Len(d)
    BY <2>2, <2>3, <2>4 DEF Text
  <2>6. SameBut(d, e.doc, {i})
    <3>1. ASSUME NEW j \in DOMAIN d PROVE Len(e.doc[j]) = Len(d[j]) /\ (j # i => e.doc[j] = d[j])
      <4>1. e.doc[j] = IF j = i THEN st ELSE d[j]
        BY <2>2
      <4> QED BY <2>4, <4>1
    <3> QED BY <2>5, <3>1 DEF SameBut
  <2>7. /\ e.from \in Nat /\ e.to \in Nat /\ e.from < e.to
        /\ StartOf(d, i) <= e.from /\ e.to <= EndOf(d, i)
    <3>1. StartOf(d, i) \in Nat /\ EndOf(d, i) = StartOf(d, i) + Len(d[i])
      BY <2>3, Ends
    <3>2. k \in Nat /\ 1 <= k /\ k <= Len(d[i]) /\ Len(d[i]) \in Nat
      BY <1>2, <2>3
    <3> HIDE DEF i, k
    <3> QED BY <2>2, <3>1, <3>2
  <2> QED BY <2>2, <2>3, <2>5, <2>6, <2>7
<1>5. CASE \E p \in Editable(d), kind \in Kinds : e = PutIn(d, p[1], p[2], kind)
  <2>1. PICK p \in Editable(d), kind \in Kinds : e = PutIn(d, p[1], p[2], kind)
    BY <1>5
  <2> DEFINE st == InsertAt(d[p[1]], p[2], kind)
  <2>2. e.doc = [d EXCEPT ![p[1]] = st] /\ e.stmt = p[1] /\ e.moves
    BY <2>1 DEF Edit, PlaceAt, Put, PutIn, CutOut, Drop
  <2>3. st \in Seq(STRING)
    <3>1. d[p[1]] \in Seq(STRING) /\ p[2] \in 1..Len(d[p[1]])
      BY <1>2, Ends
    <3> QED BY <1>3, <3>1, ShortenedSequence
  <2> HIDE DEF st
  <2> QED BY <1>2, <2>2, <2>3 DEF Text
<1>6. CASE \E p \in Editable(d) : e = CutOut(d, p[1], p[2])
  <2>1. PICK p \in Editable(d) : e = CutOut(d, p[1], p[2])
    BY <1>6
  <2> DEFINE st == RemoveAt(d[p[1]], p[2])
  <2>2. e.doc = [d EXCEPT ![p[1]] = st] /\ e.stmt = p[1] /\ e.moves
    BY <2>1 DEF Edit, PlaceAt, Put, PutIn, CutOut, Drop
  <2>3. st \in Seq(STRING)
    <3>1. d[p[1]] \in Seq(STRING) /\ p[2] \in 1..Len(d[p[1]])
      BY <1>2, Ends
    <3> QED BY <3>1, ShortenedSequence
  <2> HIDE DEF st
  <2> QED BY <1>2, <2>2, <2>3 DEF Text
<1>7. CASE \E i \in DOMAIN d : e = Drop(d, i)
  <2>1. PICK i \in DOMAIN d : e = Drop(d, i)
    BY <1>7
  <2>2. e.doc = RemoveAt(d, i) /\ e.stmt = i /\ e.moves
    BY <2>1 DEF Edit, PlaceAt, Put, PutIn, CutOut, Drop
  <2>3. RemoveAt(d, i) \in Text
    <3>1. i \in 1..Len(d)
      BY Ends
    <3> QED BY <3>1, ShortenedSequence DEF Text
  <2> QED BY <2>2, <2>3
<1> QED BY <1>1, <1>4, <1>5, <1>6, <1>7

\* The texts of a message: the one before it, and the one after each edit.
TextAfter(d, changes, k) == IF k = 0 THEN d ELSE changes[k].doc

\* A message is a sequence of edits, each of the text that the one before it left.
LEMMA MessageEdits ==
  ASSUME NEW d \in Text, NEW n \in Nat, NEW changes \in Messages(d, n)
  PROVE  /\ Len(changes) \in Nat /\ Len(changes) <= n /\ DOMAIN changes = 1..Len(changes)
         /\ changes = <<>> \/ Len(changes) # 0
         /\ \A k \in 1..Len(changes) :
              TextAfter(d, changes, k - 1) \in Text /\ changes[k] \in EditsOf(TextAfter(d, changes, k - 1))
<1> DEFINE Edits == UNION {EditsOf(x) : x \in Text}
           Chained(c) == \A k \in 1..Len(c) :
                           TextAfter(d, c, k - 1) \in Text /\ c[k] \in EditsOf(TextAfter(d, c, k - 1))
           S == SUBSET {c \in Seq(Edits) : Chained(c)}
           longer(X) == X \cup UNION {{Append(c, e) : e \in EditsOf(IF c = <<>> THEN d ELSE Last(c).doc)} : c \in X}
           step == [q \in S \X (1..n) |-> longer(q[1])]
           Is(f) == f = [k \in 0..n |-> IF k = 0 THEN {<<>>} ELSE longer(f[k - 1])]
<1>1. \A X \in S, k \in 1..n : step[<<X, k>>] = longer(X)
  <2> HIDE DEF longer, S
  <2> QED OBVIOUS
<1>2. ASSUME NEW X \in S PROVE longer(X) \in S
  <2>1. ASSUME NEW c \in X, NEW e \in EditsOf(IF c = <<>> THEN d ELSE Last(c).doc)
        PROVE  Append(c, e) \in Seq(Edits) /\ Chained(Append(c, e))
    <3> DEFINE m == Len(c)
               b == Append(c, e)
    <3>1. c \in Seq(Edits) /\ Chained(c) /\ m \in Nat
      <4>1. c \in Seq(Edits) /\ Chained(c)
        <5> HIDE DEF Edits, Chained
        <5> QED BY DEF S
      <4> HIDE DEF Edits, Chained
      <4> QED BY <4>1
    <3>2. (IF c = <<>> THEN d ELSE Last(c).doc) = TextAfter(d, c, m)
      BY <3>1 DEF TextAfter, Last
    <3>3. TextAfter(d, c, m) \in Text
      <4>1. CASE m = 0
        BY <4>1 DEF TextAfter
      <4>2. CASE m # 0
        <5>1. m \in 1..m
          BY <3>1, <4>2
        <5>2. TextAfter(d, c, m - 1) \in Text /\ c[m] \in EditsOf(TextAfter(d, c, m - 1))
          BY <3>1, <5>1
        <5> QED BY <4>2, <5>2, Edited DEF TextAfter
      <4> QED BY <4>1, <4>2
    <3>4. e \in Edits
      BY <3>2, <3>3
    <3> HIDE DEF Edits
    <3>5. b \in Seq(Edits) /\ Len(b) = m + 1 /\ b[m + 1] = e /\ \A k \in 1..m : b[k] = c[k]
      BY <3>1, <3>4
    <3>6. ASSUME NEW k \in 1..(m + 1)
          PROVE  TextAfter(d, b, k - 1) \in Text /\ b[k] \in EditsOf(TextAfter(d, b, k - 1))
      <4>1. TextAfter(d, b, k - 1) = TextAfter(d, c, k - 1)
        BY <3>1, <3>5 DEF TextAfter
      <4>2. CASE k = m + 1
        <5>1. k - 1 = m
          BY <3>1, <4>2
        <5> QED BY <3>2, <3>3, <3>5, <4>1, <4>2, <5>1
      <4>3. CASE k # m + 1
        <5>1. k \in 1..m
          BY <3>1, <4>3
        <5> QED BY <3>1, <3>5, <4>1, <5>1
      <4> QED BY <4>2, <4>3
    <3>7. Chained(b)
      <4> HIDE DEF b
      <4> QED BY <3>5, <3>6
    <3> HIDE DEF Chained
    <3> QED BY <3>5, <3>7
  <2> HIDE DEF Chained, Edits
  <2>2. \A b \in longer(X) : b \in X \/ \E c \in X : b \in {Append(c, e) : e \in EditsOf(IF c = <<>> THEN d ELSE Last(c).doc)}
    OBVIOUS
  <2>3. \A b \in longer(X) : b \in Seq(Edits) /\ Chained(b)
    <3> HIDE DEF longer
    <3> QED BY <2>1, <2>2 DEF S
  <2> HIDE DEF longer
  <2> QED BY <2>3 DEF S
<1>3. {<<>>} \in S
  OBVIOUS
<1> HIDE DEF longer, S
<1>4. PICK at \in [0..n -> S] : Rounds(at, n, {<<>>}, step)
  <2>1. \A X \in S, k \in 1..n : step[<<X, k>>] \in S
    BY <1>1, <1>2
  <2> HIDE DEF step
  <2> QED BY <1>3, <2>1, LoopRuns
<1>5. Is(at)
  <2>1. ASSUME NEW k \in 0..n
        PROVE  at[k] = IF k = 0 THEN {<<>>} ELSE longer(at[k - 1])
    <3>1. k # 0 => k - 1 \in 0..n /\ k \in 1..n
      OBVIOUS
    <3>2. k # 0 => at[k - 1] \in S
      BY <1>4, <3>1
    <3> HIDE DEF step
    <3> QED BY <1>1, <1>4, <3>1, <3>2 DEF Rounds
  <2> HIDE DEF step
  <2> QED BY <1>4, <2>1
<1> DEFINE c == CHOOSE f : Is(f)
<1>6. Is(c)
  <2> HIDE DEF Is
  <2> QED BY <1>5
<1>7. Messages(d, n) = c[n]
  BY DEF Messages, longer
<1> HIDE DEF c
<1> DEFINE T == {k \in 0..n : c[k] \in S /\ \A x \in c[k] : Len(x) <= k}
<1>8. n \in T
  <2>1. 0 \in T
    BY <1>3, <1>6
  <2>2. ASSUME NEW k \in 1..n, k - 1 \in T PROVE k \in T
    <3>1. k \in 0..n /\ k # 0 /\ c[k - 1] \in S
      BY <2>2
    <3>2. c[k] = longer(c[k - 1])
      BY <1>6, <3>1
    <3>3. ASSUME NEW x \in longer(c[k - 1]) PROVE Len(x) <= k
      <4>1. x \in c[k - 1] \/ \E y \in c[k - 1] : x \in {Append(y, e) : e \in EditsOf(IF y = <<>> THEN d ELSE Last(y).doc)}
        BY <3>3 DEF longer
      <4>2. CASE x \in c[k - 1]
        <5>1. Len(x) \in Nat /\ Len(x) <= k - 1
          <6> HIDE DEF Edits, Chained
          <6> QED BY <2>2, <3>1, <4>2 DEF S
        <5> QED BY <5>1
      <4>3. CASE \E y \in c[k - 1] : x \in {Append(y, e) : e \in EditsOf(IF y = <<>> THEN d ELSE Last(y).doc)}
        <5>1. PICK y \in c[k - 1] : \E e : x = Append(y, e)
          BY <4>3
        <5>2. y \in Seq(Edits) /\ Len(y) <= k - 1
          <6> HIDE DEF Edits, Chained
          <6> QED BY <2>2, <3>1 DEF S
        <5>3. Len(y) \in Nat
          <6> HIDE DEF Edits
          <6> QED BY <5>2
        <5>4. Len(x) = Len(y) + 1
          <6> HIDE DEF Edits
          <6> QED BY <5>1, <5>2
        <5> QED BY <5>2, <5>3, <5>4
      <4> QED BY <4>1, <4>2, <4>3
    <3> QED BY <1>2, <3>1, <3>2, <3>3
  <2>3. 0..n \subseteq T
    <3> HIDE DEF T
    <3> QED BY <2>1, <2>2, EveryRound
  <2> QED BY <2>3
<1>9. changes \in Seq(Edits) /\ Chained(changes) /\ Len(changes) <= n
  BY <1>7, <1>8 DEF S
<1> HIDE DEF Edits
<1> QED BY <1>9

\* A message whose edits move nothing changes the statements they are in, and
\* no other; each edit is inside one of them.
LEMMA MessageInPlace ==
  ASSUME NEW d \in Text, NEW n \in Nat, NEW changes \in Messages(d, n), changes # <<>>
  PROVE  /\ Len(changes) \in Nat \ {0} /\ Len(changes) <= n /\ DOMAIN changes = 1..Len(changes)
         /\ Last(changes).doc \in Text
         /\ (\A k \in DOMAIN changes : ~changes[k].moves) =>
              /\ SameBut(d, Last(changes).doc, {changes[i].stmt : i \in DOMAIN changes})
              /\ \A k \in DOMAIN changes :
                   /\ changes[k].stmt \in DOMAIN d
                   /\ changes[k].from \in Nat /\ changes[k].to \in Nat /\ changes[k].from < changes[k].to
                   /\ StartOf(d, changes[k].stmt) <= changes[k].from
                   /\ changes[k].to <= EndOf(d, changes[k].stmt)
<1> DEFINE m == Len(changes)
           at(k) == TextAfter(d, changes, k)
           S == {changes[i].stmt : i \in DOMAIN changes}
<1>1. m \in Nat \ {0} /\ m <= n /\ DOMAIN changes = 1..m
  BY MessageEdits
<1>2. \A k \in 1..m : at(k - 1) \in Text /\ changes[k] \in EditsOf(at(k - 1)) /\ at(k) = changes[k].doc
  BY <1>1, MessageEdits DEF TextAfter
<1>3. Last(changes).doc = at(m) /\ at(m) \in Text
  <2>1. m \in 1..m
    BY <1>1
  <2>2. at(m) = changes[m].doc /\ Last(changes) = changes[m]
    BY <1>2, <2>1 DEF Last
  <2> QED BY <1>2, <2>1, <2>2, Edited
<1>4. ASSUME \A k \in DOMAIN changes : ~changes[k].moves
      PROVE  /\ SameBut(d, at(m), S)
             /\ \A k \in DOMAIN changes :
                   /\ changes[k].stmt \in DOMAIN d
                   /\ changes[k].from \in Nat /\ changes[k].to \in Nat /\ changes[k].from < changes[k].to
                   /\ StartOf(d, changes[k].stmt) <= changes[k].from
                   /\ changes[k].to <= EndOf(d, changes[k].stmt)
  <2> DEFINE T == {k \in 0..m : at(k) \in Text /\ SameBut(d, at(k), S)}
  <2> HIDE DEF S
  <2>1. 0 \in T
    <3>1. at(0) = d
      BY DEF TextAfter
    <3>2. SameBut(d, d, S)
      BY DEF SameBut
    <3> QED BY <1>1, <3>1, <3>2
  <2>2. ASSUME NEW k \in 1..m, k - 1 \in T
        PROVE  /\ k \in T
               /\ changes[k].stmt \in DOMAIN d
               /\ changes[k].from \in Nat /\ changes[k].to \in Nat /\ changes[k].from < changes[k].to
               /\ StartOf(d, changes[k].stmt) <= changes[k].from
               /\ changes[k].to <= EndOf(d, changes[k].stmt)
    <3> DEFINE i == changes[k].stmt
               x == at(k - 1)
    <3>1. x \in Text /\ SameBut(d, x, S) /\ changes[k] \in EditsOf(x) /\ k \in DOMAIN changes
      BY <1>1, <1>2, <2>2
    <3>2. /\ at(k) \in Text /\ i \in DOMAIN x /\ SameBut(x, at(k), {i})
          /\ changes[k].from \in Nat /\ changes[k].to \in Nat /\ changes[k].from < changes[k].to
          /\ StartOf(x, i) <= changes[k].from /\ changes[k].to <= EndOf(x, i)
      <4>1. at(k) = changes[k].doc
        BY <1>2
      <4> HIDE DEF x
      <4> QED BY <1>4, <3>1, <4>1, Edited
    <3>3. i \in S
      BY <3>1 DEF S
    <3> HIDE DEF x, at
    <3>4. DOMAIN x = DOMAIN d
      BY <3>1 DEF SameBut, Text
    <3>5. i \in DOMAIN d /\ StartOf(x, i) = StartOf(d, i) /\ EndOf(x, i) = EndOf(d, i)
      BY <3>1, <3>2, <3>4, SameStarts
    <3>6. SameBut(d, at(k), S)
      BY <3>1, <3>2, <3>3, <3>4 DEF SameBut
    <3>7. k \in 0..m
      BY <1>1
    <3> QED BY <3>2, <3>5, <3>6, <3>7
  <2>3. 0..m \subseteq T
    <3> HIDE DEF T
    <3>1. m \in Nat
      BY <1>1
    <3> HIDE DEF m
    <3> QED BY <2>1, <2>2, <3>1, EveryRound
  <2>4. SameBut(d, at(m), S)
    BY <1>1, <2>3
  <2>5. \A k \in 1..m : k - 1 \in T
    <3> HIDE DEF T
    <3> QED BY <1>1, <2>3
  <2> QED BY <1>1, <2>2, <2>4, <2>5
<1> QED BY <1>1, <1>3, <1>4

\* The zone of edits that are all inside a range is inside that range.
Inner(lo, hi) == {z \in Nat \X Nat : lo <= z[1] /\ z[1] < z[2] /\ z[2] <= hi}
LEMMA DamageInside ==
  ASSUME NEW lo \in Nat, NEW hi \in Nat, NEW changes, Len(changes) \in Nat \ {0},
         \A k \in 1..Len(changes) :
           /\ changes[k].from \in Nat /\ changes[k].to \in Nat /\ changes[k].from < changes[k].to
           /\ lo <= changes[k].from /\ changes[k].to <= hi,
         NEW seed \in {NoZone} \cup Inner(lo, hi)
  PROVE  DamageZone(changes, seed) \in Inner(lo, hi) /\ DamageZone(changes, seed) # NoZone
<1> DEFINE n == Len(changes)
           S == {NullRange} \cup Inner(lo, hi)
           start == IF seed = NoZone THEN NullRange ELSE seed
           wider(z, c) == IF z = NullRange THEN <<c.from, c.to>> ELSE <<Lesser(z[1], c.from), Greater(z[2], c.to)>>
           step == [q \in S \X (1..n) |-> wider(q[1], changes[q[2]])]
           Is(f) == f = [k \in 0..n |-> IF k = 0 THEN start ELSE wider(f[k - 1], changes[k])]
<1>1. \A z \in S, k \in 1..n : step[<<z, k>>] = wider(z, changes[k])
  <2> HIDE DEF wider, S
  <2> QED OBVIOUS
<1>2. ASSUME NEW z \in S, NEW k \in 1..n PROVE wider(z, changes[k]) \in Inner(lo, hi)
  BY DEF Inner, Lesser, Greater, NullRange
<1>3. n \in Nat /\ start \in S
  OBVIOUS
<1> HIDE DEF wider, start
<1>4. PICK at \in [0..n -> S] : Rounds(at, n, start, step)
  <2>1. \A z \in S, k \in 1..n : step[<<z, k>>] \in S
    BY <1>1, <1>2
  <2> HIDE DEF step, n, S
  <2> QED BY <1>3, <2>1, LoopRuns
<1> HIDE DEF S
<1>5. Is(at)
  <2>1. ASSUME NEW k \in 0..n
        PROVE  at[k] = IF k = 0 THEN start ELSE wider(at[k - 1], changes[k])
    <3>1. k # 0 => k - 1 \in 0..n /\ k \in 1..n
      OBVIOUS
    <3>2. k # 0 => at[k - 1] \in S
      BY <1>4, <3>1
    <3> HIDE DEF step
    <3> QED BY <1>1, <1>4, <3>1, <3>2 DEF Rounds
  <2> HIDE DEF step
  <2> QED BY <1>4, <2>1
<1> DEFINE c == CHOOSE f : Is(f)
<1>6. Is(c)
  <2> HIDE DEF Is
  <2> QED BY <1>5
<1>7. DamageZone(changes, seed) = IF c[n][1] < c[n][2] THEN c[n] ELSE NoZone
  BY DEF DamageZone, wider, start
<1> HIDE DEF c
<1> DEFINE T == {k \in 0..n : c[k] \in S /\ (k # 0 => c[k] \in Inner(lo, hi))}
<1>8. n \in T
  <2>1. 0 \in T
    BY <1>3, <1>6
  <2>2. ASSUME NEW k \in 1..n, k - 1 \in T PROVE k \in T
    <3>1. k \in 0..n /\ k # 0 /\ c[k - 1] \in S
      BY <2>2
    <3>2. c[k] = wider(c[k - 1], changes[k])
      BY <1>6, <3>1
    <3> QED BY <1>2, <3>1, <3>2 DEF S
  <2>3. 0..n \subseteq T
    <3> HIDE DEF T, n
    <3> QED BY <1>3, <2>1, <2>2, EveryRound
  <2> QED BY <1>3, <2>3
<1>9. c[n] \in Inner(lo, hi)
  BY <1>8
<1> HIDE DEF T
<1> QED BY <1>7, <1>9 DEF Inner, NoZone

----------------------------------------------------------------------------
(* What the cache has.                                                     *)

\* Outside of the statements of S, the cache has what there is to find.
CacheFollows ==
  \A s \in DOMAIN cache \cup Fresh(doc) :
    (\A i \in touched : ~InStatement(doc, i, s.at)) => (s \in DOMAIN cache <=> s \in Fresh(doc))
\* The zone of edits in one statement is inside that statement.
ZoneInside ==
  \A i \in touched : touched = {i} => zone \in {NoZone} \cup Inner(StartOf(doc, i), EndOf(doc, i))
FollowsInv ==
  /\ doc \in Text /\ edits \in 0..MaxEdits /\ IsFiniteSet(touched)
  /\ current => touched = {} /\ ~moved
  /\ touched = {} => zone = NoZone
  /\ moved \/ (touched \subseteq DOMAIN doc /\ ZoneInside)
  /\ drifted \/ moved \/ CacheFollows

LEMMA DiagnosedPlaces ==
  ASSUME NEW d, NEW z, NEW c
  PROVE  DOMAIN DiagnosePython(d, z, c) = DOMAIN Retained(d, z, c) \cup Imports(d) \cup Rest(d, z)
<1>1. DOMAIN Push(Push(Retained(d, z, c), Imports(d)), Rest(d, z)) = DOMAIN Push(Retained(d, z, c), Imports(d)) \cup Rest(d, z)
  BY Pushed
<1>2. DOMAIN Push(Retained(d, z, c), Imports(d)) = DOMAIN Retained(d, z, c) \cup Imports(d)
  BY Pushed
<1> QED BY <1>1, <1>2 DEF DiagnosePython

\* Without a zone the whole text is looked at.
LEMMA DiagnosedWhole ==
  ASSUME NEW d \in Text, NEW c
  PROVE  DOMAIN DiagnosePython(d, NoZone, c) = Fresh(d)
<1>1. DOMAIN DiagnosePython(d, NoZone, c) = DOMAIN Retained(d, NoZone, c) \cup Imports(d) \cup Rest(d, NoZone)
  BY DiagnosedPlaces
<1>2. DOMAIN Retained(d, NoZone, c) = {}
  BY DEF Retained
<1>3. ASSUME NEW s \in Fresh(d), s \notin Imports(d) PROVE s \in Rest(d, NoZone)
  <2>1. s.at \in Nat /\ TextSize(d) \in Nat /\ s.at <= TextSize(d)
    BY InText DEF Fresh
  <2>2. InRange(RootOf(d, NoZone), s.at)
    BY <2>1 DEF InRange, RootOf, Whole
  <2> QED BY <1>3, <2>2 DEF Rest
<1>4. Imports(d) \subseteq Fresh(d) /\ Rest(d, NoZone) \subseteq Fresh(d)
  BY DEF Imports, Rest
<1> QED BY <1>1, <1>2, <1>3, <1>4

\* With a zone inside a statement, that statement is.
LEMMA DiagnosedStatement ==
  ASSUME NEW d \in Text, NEW c, NEW i \in DOMAIN d, NEW z \in Inner(StartOf(d, i), EndOf(d, i)),
         \A s \in DOMAIN c \cup Fresh(d) :
           ~InStatement(d, i, s.at) => (s \in DOMAIN c <=> s \in Fresh(d))
  PROVE  DOMAIN DiagnosePython(d, z, c) = Fresh(d)
<1>1. DOMAIN DiagnosePython(d, z, c) = DOMAIN Retained(d, z, c) \cup Imports(d) \cup Rest(d, z)
  BY DiagnosedPlaces
<1>2. z # NoZone /\ z[1] \in Nat /\ z[2] \in Nat /\ z[1] < z[2] /\ StartOf(d, i) <= z[2] /\ z[2] <= EndOf(d, i)
  BY Ends DEF Inner, NoZone
<1>3. RootOf(d, z) = <<StartOf(d, i), EndOf(d, i)>>
  <2>1. StatementsAt(d, z[2]) = {i}
    BY <1>2, OneStatement
  <2>2. Min({i}) = i
    BY Ends DEF Min
  <2> QED BY <1>2, <2>1, <2>2 DEF RootOf
<1>4. \A offset : InRange(RootOf(d, z), offset) <=> InStatement(d, i, offset)
  BY <1>3 DEF InRange, InStatement
<1>5. \A s : s \in DOMAIN Retained(d, z, c) <=> s \in DOMAIN c /\ ~InStatement(d, i, s.at)
  BY <1>2, <1>4 DEF Retained
<1>6. \A s \in Fresh(d) : Intersects(z, s.at)
  BY <1>2, InText DEF Fresh, Intersects
<1>7. \A s : s \in Rest(d, z) <=> s \in Fresh(d) /\ s \notin Imports(d) /\ InStatement(d, i, s.at)
  BY <1>4, <1>6 DEF Rest
<1>8. Imports(d) \subseteq Fresh(d)
  BY DEF Imports
<1> QED BY <1>1, <1>5, <1>7, <1>8

\* A diagnosis of what the edits of S have done.
LEMMA DiagnoseFollows ==
  ASSUME doc' \in Text, edits' \in 0..MaxEdits, zone' = NoZone,
         NEW z, NEW S, NEW m, IsFiniteSet(S), Diagnose(doc', z, S, m),
         z = NoZone \/ S # {},
         m \/ S \subseteq DOMAIN doc',
         \A i \in S : ~m /\ S = {i} => z \in {NoZone} \cup Inner(StartOf(doc', i), EndOf(doc', i)),
         drifted \/ m \/ \A s \in DOMAIN cache \cup Fresh(doc') :
            (\A i \in S : ~InStatement(doc', i, s.at)) => (s \in DOMAIN cache <=> s \in Fresh(doc'))
  PROVE  FollowsInv'
<1>1. CASE LostPlace(doc', z, cache)
  <2>1. current' = FALSE /\ drifted' = TRUE /\ touched' = S /\ moved' = m
    BY <1>1 DEF Diagnose
  <2>2. ZoneInside'
    BY DEF ZoneInside
  <2> QED BY <2>1, <2>2 DEF FollowsInv
<1>2. CASE ~LostPlace(doc', z, cache)
  <2>1. /\ cache' = DiagnosePython(doc', z, cache)
        /\ current' = TRUE /\ touched' = {} /\ moved' = FALSE
        /\ drifted' = (z # NoZone /\ (drifted \/ m \/ Cardinality(S) > 1))
    BY <1>2 DEF Diagnose
  <2>2. CASE z = NoZone
    <3>1. DOMAIN cache' = Fresh(doc')
      BY <2>1, <2>2, DiagnosedWhole
    <3> QED BY <2>1, <3>1, FS_EmptySet DEF FollowsInv, CacheFollows, ZoneInside
  <2>3. CASE z # NoZone /\ ~drifted /\ ~m /\ ~(Cardinality(S) > 1)
    <3>1. PICK i \in S : S = {i}
      <4>1. Cardinality(S) \in Nat /\ Cardinality(S) # 0
        BY <2>3, FS_CardinalityType, FS_EmptySet
      <4>2. Cardinality(S) = 1
        BY <2>3, <4>1
      <4> QED BY <4>2, FS_Singleton
    <3>2. i \in DOMAIN doc' /\ z \in Inner(StartOf(doc', i), EndOf(doc', i))
      BY <2>3, <3>1
    <3>3. DOMAIN cache' = Fresh(doc')
      BY <2>1, <2>3, <3>1, <3>2, DiagnosedStatement
    <3> QED BY <2>1, <3>3, FS_EmptySet DEF FollowsInv, CacheFollows, ZoneInside
  <2>4. CASE z # NoZone /\ (drifted \/ m \/ Cardinality(S) > 1)
    <3>1. drifted'
      BY <2>1, <2>4
    <3> QED BY <2>1, <3>1, FS_EmptySet DEF FollowsInv, ZoneInside
  <2> QED BY <2>2, <2>3, <2>4
<1> QED BY <1>1, <1>2

LEMMA ChangeFollows ==
  ASSUME FollowsInv, Change
  PROVE  FollowsInv'
<1>1. PICK changes \in Messages(doc, Lesser(MaxChanges, MaxEdits - edits)) \ {<<>>} : 
        LET d == Last(changes).doc
            S == touched \cup {changes[i].stmt : i \in DOMAIN changes}
            m == moved \/ \E i \in DOMAIN changes : changes[i].moves
            lost == OutOfText(changes, d)
        IN  /\ doc' = d /\ edits' = edits + Len(changes)
            /\ zone' = IF mode = "push" \/ lost THEN NoZone ELSE DamageZone(changes, zone)
            /\ IF mode = "push" /\ ~lost
               THEN Diagnose(d, DamageZone(changes, NoZone), S, m)
               ELSE /\ touched' = S /\ moved' = m /\ current' = FALSE
                    /\ UNCHANGED <<cache, drifted>>
            /\ UNCHANGED mode
  BY DEF Change
<1> DEFINE d == Last(changes).doc
           E == {changes[i].stmt : i \in DOMAIN changes}
           S == touched \cup E
           m == moved \/ \E i \in DOMAIN changes : changes[i].moves
           lost == OutOfText(changes, d)
<1>2. edits \in 0..MaxEdits /\ doc \in Text /\ Lesser(MaxChanges, MaxEdits - edits) \in Nat
      /\ Lesser(MaxChanges, MaxEdits - edits) <= MaxEdits - edits
  BY DiagnosisAssumption DEF FollowsInv, Lesser
<1>3. /\ doc' = d /\ edits' = edits + Len(changes)
      /\ zone' = IF mode = "push" \/ lost THEN NoZone ELSE DamageZone(changes, zone)
      /\ mode = "push" /\ ~lost => Diagnose(doc', DamageZone(changes, NoZone), S, m)
      /\ ~(mode = "push" /\ ~lost) =>
           touched' = S /\ moved' = m /\ current' = FALSE /\ cache' = cache /\ drifted' = drifted
  BY <1>1
<1>4. /\ Len(changes) \in Nat \ {0} /\ DOMAIN changes = 1..Len(changes) /\ doc' \in Text
      /\ edits' \in 0..MaxEdits
      /\ (\A k \in DOMAIN changes : ~changes[k].moves) =>
              /\ SameBut(doc, doc', E)
              /\ \A k \in DOMAIN changes :
                   /\ changes[k].stmt \in DOMAIN doc
                   /\ changes[k].from \in Nat /\ changes[k].to \in Nat /\ changes[k].from < changes[k].to
                   /\ StartOf(doc, changes[k].stmt) <= changes[k].from
                   /\ changes[k].to <= EndOf(doc, changes[k].stmt)
  <2>1. changes \in Messages(doc, Lesser(MaxChanges, MaxEdits - edits)) /\ changes # <<>>
    OBVIOUS
  <2>2. Len(changes) \in Nat \ {0} /\ Len(changes) <= Lesser(MaxChanges, MaxEdits - edits)
    BY <1>2, <2>1, MessageInPlace
  <2>3. edits' \in 0..MaxEdits
    BY <1>2, <1>3, <2>2, DiagnosisAssumption
  <2> QED BY <1>2, <1>3, <2>1, <2>3, MessageInPlace
<1>5. IsFiniteSet(S) /\ S # {}
  <2>1. IsFiniteSet(1..Len(changes))
    BY <1>4, FS_Interval
  <2>2. IsFiniteSet(E)
    <3> DEFINE f == [k \in 1..Len(changes) |-> changes[k].stmt]
    <3>1. f \in Surjection(1..Len(changes), E)
      BY <1>4 DEF Surjection
    <3> HIDE DEF f, E
    <3> QED BY <2>1, <3>1, FS_Surjection
  <2>3. E # {}
    <3>1. changes[1].stmt \in E
      BY <1>4
    <3> QED BY <3>1
  <2> QED BY <2>2, <2>3, FS_Union DEF FollowsInv
<1>6. ASSUME ~m
      PROVE  /\ SameBut(doc, doc', S) /\ S \subseteq DOMAIN doc' /\ DOMAIN doc = DOMAIN doc'
             /\ \A i \in DOMAIN doc : StartOf(doc', i) = StartOf(doc, i) /\ EndOf(doc', i) = EndOf(doc, i)
  <2>1. SameBut(doc, doc', E) /\ E \subseteq DOMAIN doc
    BY <1>4, <1>6
  <2>2. DOMAIN doc' = DOMAIN doc
    BY <1>2, <1>4, <2>1 DEF SameBut, Text
  <2>3. touched \subseteq DOMAIN doc
    BY <1>6 DEF FollowsInv
  <2> HIDE DEF E
  <2>4. SameBut(doc, doc', S)
    BY <2>1 DEF SameBut
  <2>5. \A i \in DOMAIN doc : StartOf(doc', i) = StartOf(doc, i) /\ EndOf(doc', i) = EndOf(doc, i)
    BY <1>2, <1>4, <2>1, SameStarts
  <2> QED BY <2>1, <2>2, <2>3, <2>4, <2>5
<1>7. ASSUME NEW i \in S, ~m, S = {i}, NEW seed \in {NoZone, zone}
      PROVE  DamageZone(changes, seed) \in Inner(StartOf(doc', i), EndOf(doc', i))
  <2>1. i \in DOMAIN doc
    BY <1>6, <1>7
  <2> DEFINE lo == StartOf(doc', i)
             hi == EndOf(doc', i)
  <2>2. lo \in Nat /\ hi \in Nat /\ lo = StartOf(doc, i) /\ hi = EndOf(doc, i)
    BY <1>2, <1>6, <1>7, <2>1, Ends
  <2>3. \A k \in 1..Len(changes) :
           /\ changes[k].from \in Nat /\ changes[k].to \in Nat /\ changes[k].from < changes[k].to
           /\ lo <= changes[k].from /\ changes[k].to <= hi
    <3>1. \A k \in 1..Len(changes) : changes[k].stmt = i
      BY <1>4, <1>7
    <3> HIDE DEF lo, hi
    <3> QED BY <1>4, <1>7, <2>2, <3>1
  <2>4. seed \in {NoZone} \cup Inner(lo, hi)
    <3>1. CASE touched = {}
      BY <1>7, <3>1 DEF FollowsInv
    <3>2. CASE touched = {i}
      BY <1>7, <2>2, <3>2 DEF FollowsInv, ZoneInside
    <3> QED BY <1>7, <3>1, <3>2
  <2> HIDE DEF lo, hi
  <2> QED BY <1>4, <2>2, <2>3, <2>4, DamageInside DEF lo, hi
<1>8. ASSUME ~drifted, ~m, NEW s \in DOMAIN cache \cup Fresh(doc'), \A i \in S : ~InStatement(doc', i, s.at)
      PROVE  s \in DOMAIN cache <=> s \in Fresh(doc')
  <2>1. SameBut(doc, doc', S) /\ SameBut(doc', doc, S) /\ S \subseteq DOMAIN doc /\ S \subseteq DOMAIN doc'
    BY <1>6, <1>8 DEF SameBut
  <2>2. \A i \in S : ~InStatement(doc, i, s.at)
    BY <1>6, <1>8, <2>1 DEF InStatement
  <2>3. s \in Fresh(doc) <=> s \in Fresh(doc')
    <3> HIDE DEF S, d
    <3> QED BY <1>2, <1>4, <1>8, <2>1, <2>2, SameElsewhere
  <2>4. \A i \in touched : ~InStatement(doc, i, s.at)
    BY <2>2
  <2>5. s \in DOMAIN cache \cup Fresh(doc)
    BY <2>3
  <2>6. CacheFollows
    BY <1>8 DEF FollowsInv
  <2> QED BY <2>3, <2>4, <2>5, <2>6 DEF CacheFollows
<1> HIDE DEF S, m, d, lost
<1>9. CASE mode = "push" /\ ~lost
  <2> DEFINE z == DamageZone(changes, NoZone)
  <2>1. Diagnose(doc', z, S, m) /\ zone' = NoZone
    BY <1>3, <1>9
  <2>2. m \/ S \subseteq DOMAIN doc'
    BY <1>6
  <2>3. \A i \in S : ~m /\ S = {i} => z \in {NoZone} \cup Inner(StartOf(doc', i), EndOf(doc', i))
    BY <1>7
  <2>4. drifted \/ m \/ \A s \in DOMAIN cache \cup Fresh(doc') :
            (\A i \in S : ~InStatement(doc', i, s.at)) => (s \in DOMAIN cache <=> s \in Fresh(doc'))
    BY <1>8
  <2> HIDE DEF z
  <2> QED BY <1>4, <1>5, <2>1, <2>2, <2>3, <2>4, DiagnoseFollows
<1>10. CASE ~(mode = "push" /\ ~lost)
  <2>1. touched' = S /\ moved' = m /\ current' = FALSE /\ cache' = cache /\ drifted' = drifted
    BY <1>3, <1>10
  <2>2. zone' \in {NoZone, DamageZone(changes, zone)}
    BY <1>3
  <2>3. m \/ ZoneInside'
    BY <1>7, <2>1, <2>2 DEF ZoneInside
  <2>4. drifted \/ m \/ CacheFollows'
    BY <1>8, <2>1 DEF CacheFollows
  <2> QED BY <1>4, <1>5, <1>6, <2>1, <2>3, <2>4 DEF FollowsInv
<1> QED BY <1>9, <1>10

\* After each diagnosis, of the zone or of everything, the cache has what is to
\* be found in the text, unless edits of several statements, or edits that moved
\* the text behind them, were diagnosed at once.
THEOREM DiagnosticsFollow == DiagnosisSpec => []DiagnosticsCurrent
<1>1. DiagnosisInit => FollowsInv
  <2> SUFFICES ASSUME DiagnosisInit PROVE FollowsInv
    OBVIOUS
  <2>1. /\ doc \in Text /\ edits \in 0..MaxEdits /\ IsFiniteSet(touched)
        /\ touched = {} /\ zone = NoZone /\ moved = FALSE
    BY DiagnosisAssumption, FS_EmptySet DEF DiagnosisInit, Text
  <2>2. drifted \/ CacheFollows
    <3>1. ASSUME ~drifted PROVE cache = DiagnosePython(doc, NoZone, <<>>)
      BY <3>1 DEF DiagnosisInit
    <3>2. ~drifted => DOMAIN cache = Fresh(doc)
      BY <2>1, <3>1, DiagnosedWhole
    <3> QED BY <3>2 DEF CacheFollows
  <2> QED BY <2>1, <2>2 DEF FollowsInv, ZoneInside
<1>2. ASSUME FollowsInv, [DiagnosisNext]_diagnosis
      PROVE  FollowsInv'
  <2>1. CASE Change
    BY <1>2, <2>1, ChangeFollows
  <2>2. CASE Save \/ Pull
    <3>1. Diagnose(doc', zone, touched, moved) /\ zone' = NoZone /\ doc' = doc /\ edits' = edits
      BY <2>2 DEF Save, Pull
    <3>2. /\ doc' \in Text /\ edits' \in 0..MaxEdits /\ IsFiniteSet(touched)
          /\ zone = NoZone \/ touched # {}
          /\ moved \/ touched \subseteq DOMAIN doc'
      BY <1>2, <3>1 DEF FollowsInv
    <3>3. \A i \in touched : ~moved /\ touched = {i} =>
            zone \in {NoZone} \cup Inner(StartOf(doc', i), EndOf(doc', i))
      BY <1>2, <3>1 DEF FollowsInv, ZoneInside
    <3>4. drifted \/ moved \/ \A s \in DOMAIN cache \cup Fresh(doc') :
            (\A i \in touched : ~InStatement(doc', i, s.at)) => (s \in DOMAIN cache <=> s \in Fresh(doc'))
      BY <1>2, <3>1 DEF FollowsInv, CacheFollows
    <3> QED BY <3>1, <3>2, <3>3, <3>4, DiagnoseFollows
  <2>3. CASE UNCHANGED diagnosis
    BY <1>2, <2>3 DEF diagnosis, FollowsInv, ZoneInside, CacheFollows
  <2> QED BY <1>2, <2>1, <2>2, <2>3 DEF DiagnosisNext
<1>3. FollowsInv => DiagnosticsCurrent
  <2> SUFFICES ASSUME FollowsInv, current, ~drifted PROVE Shown(cache) = Fresh(doc)
    BY DEF DiagnosticsCurrent
  <2>1. touched = {} /\ CacheFollows
    BY DEF FollowsInv
  <2> QED BY <2>1 DEF CacheFollows, Shown
<1> QED BY <1>1, <1>2, <1>3, PTL DEF DiagnosisSpec

=============================================================================
