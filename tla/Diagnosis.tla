------------------------------ MODULE Diagnosis ------------------------------
(***************************************************************************)
(* The diagnostics of an open Python document (damage_zone and on_change   *)
(* in src/src/backend.rs, diagnose_python in src/src/python/diagnostics.rs,*)
(* did_save_python, the diagnostic request): they are found for the whole  *)
(* document when it is opened, and again for the statement that an edit    *)
(* was in.  A document is a sequence of statements, which are sequences of *)
(* places; an offset counts places, and one for the end of a statement.    *)
(***************************************************************************)
EXTENDS Naturals, FiniteSets, SequencesExt

CONSTANTS
  Documents,  \* what may be opened
  Kinds,      \* of places: "fine", "xmlid" and "model" with a wrong one, "import"
  Modes,      \* "push", "large": of more than DIAGNOSTICS_LINE_LIMIT lines; "pull"
  MaxEdits,   \* bound: edits of a session
  MaxChanges  \* bound: edits in one did_change

ASSUME DiagnosisAssumption ==
  /\ Documents \subseteq Seq(Seq(STRING)) /\ Kinds \subseteq STRING
  /\ MaxEdits \in Nat /\ MaxChanges \in Nat

NoZone == <<0, 0>>

VARIABLES
  mode, doc,
  cache,    \* diagnostics_cache: how often it has each diagnostic
  zone,     \* damage_zone of a document that is not diagnosed with each change
  edits,
  current,  \* the last handler that ended has diagnosed what it should have
  touched,  \* since the document was last diagnosed: the statements edited,
  moved,    \* and whether an edit moved the text behind it
  drifted   \* a statement was diagnosed when more had changed

diagnosis == <<mode, doc, cache, zone, edits, current, touched, moved, drifted>>

----------------------------------------------------------------------------
(* Text.                                                                   *)

StartOf(d, i) ==
  LET behind[k \in 0..Len(d)] == IF k = 0 THEN 0 ELSE behind[k - 1] + Len(d[k]) + 1
  IN  behind[i - 1]
EndOf(d, i) == StartOf(d, i) + Len(d[i])
TextSize(d) == IF d = <<>> THEN 0 ELSE EndOf(d, Len(d))
Sites(d) == UNION {{[at |-> StartOf(d, i) + k - 1, kind |-> d[i][k]] : k \in DOMAIN d[i]} : i \in DOMAIN d}
\* What there is to find.
Fresh(d) == {s \in Sites(d) : s.kind # "fine"}

\* An edit: the range it replaces, in the text before it; what comes of it; the
\* statement it is in, and whether what follows moves.
Edit(d, from, to, new, i, moves) ==
  [from |-> from, to |-> to, doc |-> new, stmt |-> i, moves |-> moves]
PlaceAt(d, i, k) == StartOf(d, i) + k - 1
Put(d, i, k, kind) ==
  Edit(d, PlaceAt(d, i, k), PlaceAt(d, i, k) + 1, [d EXCEPT ![i][k] = kind], i, FALSE)
PutIn(d, i, k, kind) ==
  Edit(d, PlaceAt(d, i, k), PlaceAt(d, i, k), [d EXCEPT ![i] = InsertAt(@, k, kind)], i, TRUE)
CutOut(d, i, k) ==
  Edit(d, PlaceAt(d, i, k), PlaceAt(d, i, k) + 1, [d EXCEPT ![i] = RemoveAt(@, k)], i, TRUE)
Drop(d, i) ==
  Edit(d, IF i = 1 THEN 0 ELSE EndOf(d, i - 1), EndOf(d, i), RemoveAt(d, i), i, TRUE)
\* The places one may edit.
Editable(d) == {p \in UNION {{i} \X DOMAIN d[i] : i \in DOMAIN d} : d[p[1]] # <<"import">>}
EditsOf(d) ==
  {Put(d, p[1], p[2], kind) : p \in Editable(d), kind \in Kinds}
  \cup {PutIn(d, p[1], p[2], kind) : p \in Editable(d), kind \in Kinds}
  \cup {CutOut(d, p[1], p[2]) : p \in {q \in Editable(d) : Len(d[q[1]]) > 1}}
  \cup (IF Len(d) > 1 THEN {Drop(d, i) : i \in DOMAIN d} ELSE {})

----------------------------------------------------------------------------
(* The zone.                                                               *)

\* damage_zone: the ranges are those of the text before the edits, and are looked
\* up in the text after them, where their end may not exist.
OutOfText(changes, d) == \E i \in DOMAIN changes : changes[i].to > TextSize(d)
Lesser(a, b) == IF a < b THEN a ELSE b
Greater(a, b) == IF a > b THEN a ELSE b
\* From the greatest offset to the least: what widens it is the range.
NullRange == <<1, 0>>
DamageZone(changes, seed) ==
  LET start == IF seed = NoZone THEN NullRange ELSE seed
      wider(z, c) == IF z = NullRange THEN <<c.from, c.to>> ELSE <<Lesser(z[1], c.from), Greater(z[2], c.to)>>
      after[k \in 0..Len(changes)] == IF k = 0 THEN start ELSE wider(after[k - 1], changes[k])
      out == after[Len(changes)]
  IN  IF out[1] < out[2] THEN out ELSE NoZone

\* top_level_stmt at the end of the zone; without one all is looked at.
Whole(d) == <<0, TextSize(d) + 1>>
StatementsAt(d, offset) == {i \in DOMAIN d : StartOf(d, i) <= offset /\ offset <= EndOf(d, i)}
RootOf(d, z) ==
  LET at == StatementsAt(d, z[2])
  IN  IF z = NoZone \/ at = {} THEN Whole(d) ELSE <<StartOf(d, Min(at)), EndOf(d, Min(at))>>
InRange(r, offset) == r[1] <= offset /\ offset < r[2]

\* Mutant: what one expects of the name.
IntersectsBoth(z, offset) == z[2] >= offset /\ z[1] < offset + 1
\* intersects, of the range of a capture: with `or' it is true of any.
Intersects(z, offset) == z[2] >= offset \/ z[1] < offset + 1

----------------------------------------------------------------------------
(* diagnose_python.                                                        *)

Shown(c) == DOMAIN c
Push(c, S) == [s \in DOMAIN c \cup S |-> (IF s \in DOMAIN c THEN c[s] ELSE 0) + (IF s \in S THEN 1 ELSE 0)]
\* Mutant: only what is in the zone itself is dropped.
RetainedByZone(d, z, c) ==
  [s \in {t \in DOMAIN c : z # NoZone /\ ~InRange(z, t.at)} |-> c[s]]
\* A diagnostic is kept outside of the statement.
Retained(d, z, c) ==
  [s \in {t \in DOMAIN c : z # NoZone /\ ~InRange(RootOf(d, z), t.at)} |-> c[s]]
\* The imports of the whole document, then the rest of the statement.
Imports(d) == {s \in Fresh(d) : s.kind = "import"}
Rest(d, z) ==
  {s \in Fresh(d) \ Imports(d) : /\ InRange(RootOf(d, z), s.at)
                                 /\ (s.kind = "xmlid" /\ z # NoZone) => Intersects(z, s.at)}
DiagnosePython(d, z, c) == Push(Push(Retained(d, z, c), Imports(d)), Rest(d, z))

\* A diagnostic behind the end of the text has no offset to compare: a panic.
LostPlace(d, z, c) == z # NoZone /\ \E s \in DOMAIN c : s.at > TextSize(d)

----------------------------------------------------------------------------
(* The handlers.                                                           *)

DiagnosisInit ==
  /\ mode \in Modes /\ doc \in Documents
  /\ cache = IF mode = "pull" THEN <<>> ELSE DiagnosePython(doc, NoZone, <<>>)
  /\ zone = NoZone /\ edits = 0 /\ current = (mode # "pull")
  /\ touched = {} /\ moved = FALSE /\ drifted = (mode = "pull")

\* Diagnose for z, when the edits since the last time touched S.
Diagnose(d, z, S, m) ==
  IF LostPlace(d, z, cache)
  THEN /\ current' = FALSE /\ drifted' = TRUE /\ touched' = S /\ moved' = m
       /\ UNCHANGED cache
  ELSE /\ cache' = DiagnosePython(d, z, cache)
       /\ current' = TRUE /\ touched' = {} /\ moved' = FALSE
       /\ drifted' = (z # NoZone /\ (drifted \/ m \/ Cardinality(S) > 1))

\* did_change, of one or more edits.
Messages(d, n) ==
  LET after(c) == IF c = <<>> THEN d ELSE Last(c).doc
      upTo[k \in 0..n] ==
        IF k = 0 THEN {<<>>}
        ELSE upTo[k - 1] \cup UNION {{Append(c, e) : e \in EditsOf(after(c))} : c \in upTo[k - 1]}
  IN  upTo[n]
Change ==
  \E changes \in Messages(doc, Lesser(MaxChanges, MaxEdits - edits)) \ {<<>>} :
    LET d == Last(changes).doc
        S == touched \cup {changes[i].stmt : i \in DOMAIN changes}
        m == moved \/ \E i \in DOMAIN changes : changes[i].moves
        lost == OutOfText(changes, d)
    IN  /\ doc' = d /\ edits' = edits + Len(changes)
        /\ zone' = IF mode = "push" \/ lost THEN NoZone ELSE DamageZone(changes, zone)
        /\ IF mode = "push" /\ ~lost
           THEN Diagnose(d, DamageZone(changes, NoZone), S, m)
           ELSE /\ touched' = S /\ moved' = m /\ current' = FALSE
                /\ UNCHANGED <<cache, drifted>>
        /\ UNCHANGED mode

\* did_save: nothing is diagnosed where there is no zone.
Save ==
  /\ zone # NoZone
  /\ zone' = NoZone
  /\ Diagnose(doc, zone, touched, moved)
  /\ UNCHANGED <<mode, doc, edits>>

\* The request for the diagnostics, of a client that pulls.
Pull ==
  /\ mode = "pull"
  /\ zone' = NoZone
  /\ Diagnose(doc, zone, touched, moved)
  /\ UNCHANGED <<mode, doc, edits>>

DiagnosisNext == Change \/ Save \/ Pull

DiagnosisSpec == DiagnosisInit /\ [][DiagnosisNext]_diagnosis

----------------------------------------------------------------------------
(* Properties.                                                             *)

\* To diagnose one statement again is as good as to diagnose the document: the
\* diagnostics are those of the text, as long as since the last time all was
\* looked at each diagnosis found edits of one statement that moved nothing.
DiagnosticsCurrent == current /\ ~drifted => Shown(cache) = Fresh(doc)

\* Whatever was edited and lost, no diagnostic is listed twice, but those of
\* imports: they are found in the whole document each time.
OnceEach == \A s \in Shown(cache) : s.kind # "import" => cache[s] = 1

=============================================================================
