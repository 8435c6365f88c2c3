-------------------------- MODULE ModelIndexLemmas --------------------------
(***************************************************************************)
(* What the operators of ModelIndex keep: of the places of a method, of    *)
(* what a class gives its model, and of the entries.                       *)
(***************************************************************************)
EXTENDS ModelIndex, Loops, FiniteSetTheorems, SequenceTheorems

LEMMA MinIs ==
  ASSUME NEW S \in SUBSET Nat, S # {}
  PROVE  Min(S) \in S /\ \A y \in S : Min(S) <= y
BY LeastOf DEF Min

LEMMA MaxIs ==
  ASSUME NEW n \in Nat, NEW S \in SUBSET (0..n), S # {}
  PROVE  Max(S) \in S /\ \A y \in S : Max(S) >= y
<1> DEFINE T == {k \in 0..n : n - k \in S}
<1>1. T \in SUBSET Nat /\ T # {}
  <2>1. PICK y \in S : TRUE
    OBVIOUS
  <2>2. n - y \in 0..n /\ n - (n - y) = y
    BY <2>1
  <2>3. n - y \in T
    BY <2>1, <2>2
  <2>4. T \in SUBSET Nat
    OBVIOUS
  <2> HIDE DEF T
  <2> QED BY <2>3, <2>4
<1>2. PICK k \in T : \A j \in T : k <= j
  <2> HIDE DEF T
  <2> QED BY <1>1, LeastOf
<1>3. n - k \in S
  BY <1>2
<1>4. \A y \in S : n - k >= y
  <2> SUFFICES ASSUME NEW y \in S PROVE n - k >= y
    OBVIOUS
  <2>1. y \in 0..n /\ n - y \in 0..n /\ n - (n - y) = y
    OBVIOUS
  <2>2. n - y \in T
    BY <2>1
  <2>3. k \in 0..n /\ k <= n - y
    BY <1>2, <2>2
  <2> QED BY <2>1, <2>3
<1> QED BY <1>3, <1>4 DEF Max

LEMMA FrontAndLast ==
  ASSUME NEW S, NEW s \in Seq(S), s # <<>>
  PROVE  /\ Len(s) \in Nat \ {0} /\ DOMAIN s = 1..Len(s) /\ Len(s) \in DOMAIN s
         /\ Last(s) \in S /\ Last(s) = s[Len(s)]
         /\ Front(s) \in Seq(S) /\ Len(Front(s)) = Len(s) - 1
         /\ \A i \in 1..(Len(s) - 1) : Front(s)[i] = s[i]
<1>1. Len(s) \in Nat \ {0} /\ DOMAIN s = 1..Len(s)
  BY EmptySeq
<1>2. /\ Front(s) \in Seq(S) /\ Len(Front(s)) = Len(s) - 1
      /\ \A i \in 1..(Len(s) - 1) : Front(s)[i] = s[i]
  <2>1. \A i \in 1..(Len(s) - 1) : s[i] \in S
    BY <1>1
  <2>2. 1 \in Int /\ Len(s) - 1 \in Int
    BY <1>1
  <2>3. /\ SubSeq(s, 1, Len(s) - 1) \in Seq(S)
        /\ Len(SubSeq(s, 1, Len(s) - 1)) = (IF 1 <= Len(s) - 1 THEN (Len(s) - 1) - 1 + 1 ELSE 0)
        /\ \A i \in 1..((Len(s) - 1) - 1 + 1) : SubSeq(s, 1, Len(s) - 1)[i] = s[1 + i - 1]
    BY <2>1, <2>2, SubSeqProperties
  <2>4. \A i \in 1..(Len(s) - 1) : i \in 1..((Len(s) - 1) - 1 + 1) /\ 1 + i - 1 = i
    BY <1>1
  <2>5. Len(Front(s)) = Len(s) - 1
    BY <1>1, <2>3 DEF Front
  <2>6. \A i \in 1..(Len(s) - 1) : Front(s)[i] = s[i]
    <3> HIDE <2>1
    <3> SUFFICES ASSUME NEW i \in 1..(Len(s) - 1) PROVE Front(s)[i] = s[i]
      OBVIOUS
    <3>1. SubSeq(s, 1, Len(s) - 1)[i] = s[1 + i - 1] /\ 1 + i - 1 = i
      BY <2>3, <2>4
    <3> QED BY <3>1 DEF Front
  <2> QED BY <2>3, <2>5, <2>6 DEF Front
<1>3. Last(s) \in S /\ Last(s) = s[Len(s)] /\ Len(s) \in DOMAIN s
  BY <1>1 DEF Last
<1> QED BY <1>1, <1>2, <1>3

----------------------------------------------------------------------------
(* Filters.                                                                *)

\* Kept takes elements of s in their order.
Choice(s, I, w, g) ==
  /\ g \in [DOMAIN w -> DOMAIN s]
  /\ \A j \in DOMAIN w : g[j] \in I /\ w[j] = s[g[j]]
  /\ \A i \in DOMAIN w : \A j \in DOMAIN w : i < j => g[i] < g[j]

LEMMA KeptRuns ==
  ASSUME NEW S, NEW s \in Seq(S), NEW I
  PROVE  \E c : /\ c[0] = <<>> /\ Kept(s, I) = c[Len(s)]
                /\ \A k \in 1..Len(s) : c[k] = IF k \in I THEN Append(c[k - 1], s[k]) ELSE c[k - 1]
<1> DEFINE n == Len(s)
           step == [q \in Seq(S) \X (1..n) |-> IF q[2] \in I THEN Append(q[1], s[q[2]]) ELSE q[1]]
           Is(f) == f = [k \in 0..n |-> IF k = 0 THEN <<>>
                                        ELSE IF k \in I THEN Append(f[k - 1], s[k]) ELSE f[k - 1]]
<1>1. n \in Nat /\ DOMAIN s = 1..n /\ \A k \in 1..n : s[k] \in S
  OBVIOUS
<1>2. \A x \in Seq(S), k \in 1..n :
        step[<<x, k>>] = (IF k \in I THEN Append(x, s[k]) ELSE x) /\ step[<<x, k>>] \in Seq(S)
  BY <1>1
<1>3. PICK at \in [0..n -> Seq(S)] : Rounds(at, n, <<>>, step)
  <2>1. n \in Nat /\ <<>> \in Seq(S) /\ \A x \in Seq(S), k \in 1..n : step[<<x, k>>] \in Seq(S)
    BY <1>1, <1>2
  <2> HIDE DEF step, n
  <2> QED BY <2>1, LoopRuns
<1>4. Is(at)
  <2>1. ASSUME NEW k \in 0..n
        PROVE  at[k] = IF k = 0 THEN <<>> ELSE IF k \in I THEN Append(at[k - 1], s[k]) ELSE at[k - 1]
    <3>1. k # 0 => k - 1 \in 0..n /\ k \in 1..n
      BY <1>1
    <3>2. k # 0 => at[k - 1] \in Seq(S)
      BY <1>3, <3>1
    <3> HIDE DEF step
    <3> QED BY <1>2, <1>3, <3>1, <3>2 DEF Rounds
  <2> HIDE DEF step
  <2> QED BY <1>3, <2>1
<1> DEFINE c == CHOOSE f : Is(f)
<1>5. Is(c)
  <2> HIDE DEF Is
  <2> QED BY <1>4
<1>6. Kept(s, I) = c[n]
  BY DEF Kept
<1> HIDE DEF c
<1>7. c[0] = <<>> /\ \A k \in 1..n : c[k] = IF k \in I THEN Append(c[k - 1], s[k]) ELSE c[k - 1]
  <2>1. 0 \in 0..n /\ \A k \in 1..n : k \in 0..n /\ k # 0
    BY <1>1
  <2> QED BY <1>5, <2>1
<1> HIDE DEF n
<1>8. \E a : /\ a[0] = <<>> /\ Kept(s, I) = a[n]
            /\ \A k \in 1..n : a[k] = IF k \in I THEN Append(a[k - 1], s[k]) ELSE a[k - 1]
  BY <1>6, <1>7
<1> QED BY <1>8 DEF n

LEMMA KeptChoice ==
  ASSUME NEW S, NEW s \in Seq(S), NEW I
  PROVE  /\ Kept(s, I) \in Seq(S)
         /\ \E g : Choice(s, I, Kept(s, I), g)
<1> DEFINE n == Len(s)
<1>1. n \in Nat /\ DOMAIN s = 1..n /\ \A k \in 1..n : s[k] \in S
  OBVIOUS
<1>7. PICK c : /\ c[0] = <<>> /\ Kept(s, I) = c[n]
               /\ \A k \in 1..n : c[k] = IF k \in I THEN Append(c[k - 1], s[k]) ELSE c[k - 1]
  BY KeptRuns
<1> DEFINE Good(k) == c[k] \in Seq(S) /\ \E g \in [DOMAIN c[k] -> 1..k] : Choice(s, I, c[k], g)
           T == {k \in 0..n : Good(k)}
<1>8. Good(0)
  <2>1. c[0] \in Seq(S) /\ DOMAIN c[0] = {}
    BY <1>7
  <2> DEFINE g == [x \in {} |-> 1]
  <2>2. g \in [DOMAIN c[0] -> 1..0] /\ g \in [DOMAIN c[0] -> DOMAIN s]
    BY <2>1
  <2>3. Choice(s, I, c[0], g)
    BY <2>1, <2>2 DEF Choice
  <2> QED BY <2>1, <2>2, <2>3
<1>9. ASSUME NEW k \in 1..n, Good(k - 1) PROVE Good(k)
  <2> DEFINE v == c[k - 1]
  <2>1. v \in Seq(S) /\ Len(v) \in Nat /\ DOMAIN v = 1..Len(v)
    BY <1>9
  <2>2. PICK g \in [DOMAIN v -> 1..(k - 1)] : Choice(s, I, v, g)
    BY <1>9
  <2>3. CASE k \notin I
    <3>1. c[k] = v
      BY <1>7, <2>3
    <3>2. 1..(k - 1) \subseteq 1..k
      BY <1>1
    <3>3. g \in [DOMAIN v -> 1..k]
      BY <3>2
    <3> HIDE DEF v
    <3> QED BY <2>1, <2>2, <3>1, <3>3
  <2>4. CASE k \in I
    <3>1. c[k] = Append(v, s[k])
      BY <1>7, <2>4
    <3> HIDE DEF v
    <3>2. s[k] \in S
      BY <1>1
    <3>3. /\ c[k] \in Seq(S) /\ DOMAIN c[k] = 1..(Len(v) + 1)
          /\ \A i \in 1..Len(v) : c[k][i] = v[i]
          /\ c[k][Len(v) + 1] = s[k]
      BY <2>1, <3>1, <3>2
    <3> DEFINE h == [j \in 1..(Len(v) + 1) |-> IF j = Len(v) + 1 THEN k ELSE g[j]]
    <3>4. \A j \in 1..(Len(v) + 1) : j # Len(v) + 1 => j \in 1..Len(v)
      <4>1. \A l \in Nat : \A j \in 1..(l + 1) : j # l + 1 => j \in 1..l
        OBVIOUS
      <4> QED BY <2>1, <4>1
    <3>5. \A j \in 1..Len(v) : g[j] \in 1..(k - 1)
      BY <2>1, <2>2
    <3>6. 1..(k - 1) \subseteq 1..k /\ k \in 1..k /\ 1..k \subseteq DOMAIN s
      BY <1>1
    <3>7. /\ h[Len(v) + 1] = k
          /\ \A j \in 1..Len(v) : h[j] = g[j]
      BY <2>1
    <3>8. h \in [1..(Len(v) + 1) -> 1..k]
      BY <3>4, <3>5, <3>6
    <3>9. h \in [DOMAIN c[k] -> 1..k] /\ h \in [DOMAIN c[k] -> DOMAIN s]
      BY <3>3, <3>6, <3>8
    <3> HIDE DEF h
    <3>10. \A j \in DOMAIN c[k] : h[j] \in I /\ c[k][j] = s[h[j]]
      <4> SUFFICES ASSUME NEW j \in 1..(Len(v) + 1) PROVE h[j] \in I /\ c[k][j] = s[h[j]]
        BY <3>3
      <4>1. CASE j = Len(v) + 1
        BY <2>4, <3>3, <3>7, <4>1
      <4>2. CASE j \in 1..Len(v)
        <5>1. g[j] \in I /\ v[j] = s[g[j]]
          BY <2>1, <2>2, <4>2 DEF Choice
        <5> QED BY <3>3, <3>7, <4>2, <5>1
      <4> QED BY <3>4, <4>1, <4>2
    <3>11. \A i \in DOMAIN c[k] : \A j \in DOMAIN c[k] : i < j => h[i] < h[j]
      <4> SUFFICES ASSUME NEW i \in 1..(Len(v) + 1), NEW j \in 1..(Len(v) + 1), i < j
                   PROVE  h[i] < h[j]
        BY <3>3
      <4>1. i \in 1..Len(v)
        BY <2>1
      <4>2. h[i] = g[i] /\ g[i] \in 1..(k - 1)
        BY <3>5, <3>7, <4>1
      <4>3. CASE j = Len(v) + 1
        <5>1. h[j] = k
          BY <3>7, <4>3
        <5> QED BY <1>1, <4>2, <5>1
      <4>4. CASE j \in 1..Len(v)
        <5>1. h[j] = g[j] /\ g[i] < g[j]
          BY <2>1, <2>2, <3>7, <4>1, <4>4 DEF Choice
        <5> QED BY <4>2, <5>1
      <4> QED BY <3>4, <4>3, <4>4
    <3>12. Choice(s, I, c[k], h)
      BY <3>9, <3>10, <3>11 DEF Choice
    <3> QED BY <3>3, <3>9, <3>12
  <2> QED BY <2>3, <2>4
<1>10. Good(n)
  <2>1. 0 \in T /\ n \in 0..n
    BY <1>1, <1>8
  <2>2. ASSUME NEW k \in 1..n, k - 1 \in T PROVE k \in T
    <3>1. Good(k - 1) /\ k \in 0..n
      BY <1>1, <2>2
    <3>2. Good(k)
      BY <1>9, <3>1
    <3> HIDE DEF Good
    <3> QED BY <3>1, <3>2
  <2>3. 0..n \subseteq T
    <3> HIDE DEF T, n
    <3> QED BY <1>1, <2>1, <2>2, EveryRound
  <2> HIDE DEF Good
  <2> QED BY <2>1, <2>3
<1> HIDE DEF n
<1> QED BY <1>7, <1>10

----------------------------------------------------------------------------
(* The places of a method.                                                 *)

\* The places of a file are next to each other, each of a class of its own.
Tidy(locs) ==
  \A i \in DOMAIN locs : \A k \in DOMAIN locs :
    i < k /\ locs[i].file = locs[k].file =>
      /\ locs[i].class # locs[k].class
      /\ \A j \in i..k : locs[j].file = locs[i].file

SameClass(a, b) == a.file = b.file /\ a.class = b.class

\* Tidiness is about files and classes only.
LEMMA TidySame ==
  ASSUME NEW s, NEW t, DOMAIN s \subseteq Nat, Tidy(s), DOMAIN t = DOMAIN s,
         \A i \in DOMAIN s : SameClass(t[i], s[i]),
         \A i \in DOMAIN s : \A k \in DOMAIN s : i..k \subseteq DOMAIN s
  PROVE  Tidy(t)
<1> SUFFICES ASSUME NEW i \in DOMAIN t, NEW k \in DOMAIN t, i < k, t[i].file = t[k].file
             PROVE  /\ t[i].class # t[k].class
                    /\ \A j \in i..k : t[j].file = t[i].file
  BY DEF Tidy
<1>1. s[i].file = s[k].file
  BY DEF SameClass
<1>2. s[i].class # s[k].class /\ \A j \in i..k : s[j].file = s[i].file
  BY <1>1 DEF Tidy
<1> QED BY <1>2 DEF SameClass

\* So is a choice of tidy places.
LEMMA TidyKept ==
  ASSUME NEW s \in Seq(LocationSet), Tidy(s), NEW w \in Seq(LocationSet), NEW I, NEW g,
         Choice(s, I, w, g)
  PROVE  Tidy(w)
<1>1. DOMAIN w = 1..Len(w) /\ Len(w) \in Nat /\ DOMAIN s = 1..Len(s) /\ Len(s) \in Nat
  OBVIOUS
<1> SUFFICES ASSUME NEW i \in DOMAIN w, NEW k \in DOMAIN w, i < k, w[i].file = w[k].file
             PROVE  /\ w[i].class # w[k].class
                    /\ \A j \in i..k : w[j].file = w[i].file
  BY DEF Tidy
<1>2. g[i] \in DOMAIN s /\ g[k] \in DOMAIN s /\ g[i] < g[k] /\ w[i] = s[g[i]] /\ w[k] = s[g[k]]
  BY DEF Choice
<1>3. s[g[i]].class # s[g[k]].class /\ \A j \in g[i]..g[k] : s[j].file = s[g[i]].file
  BY <1>2 DEF Tidy
<1>4. ASSUME NEW j \in i..k PROVE w[j].file = w[i].file
  <2>1. j \in DOMAIN w /\ (j = i \/ i < j) /\ (j = k \/ j < k)
    BY <1>1
  <2>2. g[j] \in DOMAIN s /\ w[j] = s[g[j]] /\ (j = i \/ g[i] < g[j]) /\ (j = k \/ g[j] < g[k])
    BY <2>1 DEF Choice
  <2>3. g[j] \in g[i]..g[k]
    BY <1>1, <1>2, <2>2
  <2> QED BY <1>2, <1>3, <2>2, <2>3
<1> QED BY <1>2, <1>3, <1>4

\* The places of file F are in u..v of OUT, the others come from LOCS in their
\* order, and those before the block from before a place of F, those behind it
\* from behind it.
Block(out, locs, f, u, v, from) ==
  /\ from \in [DOMAIN out -> Nat]
  /\ \A i \in DOMAIN out : i \in u..v => out[i].file = f
  /\ \A i \in DOMAIN out : \A k \in DOMAIN out :
       i \in u..v /\ k \in u..v /\ i < k => out[i].class # out[k].class
  /\ \A i \in DOMAIN out : i \notin u..v =>
       from[i] \in DOMAIN locs /\ SameClass(out[i], locs[from[i]]) /\ locs[from[i]].file # f
  /\ \A i \in DOMAIN out : \A k \in DOMAIN out :
       i \notin u..v /\ k \notin u..v /\ i < k => from[i] < from[k]
  /\ \A i \in DOMAIN out : \A k \in DOMAIN out :
       i < u /\ v < k => \E w \in DOMAIN locs : from[i] <= w /\ w <= from[k] /\ locs[w].file = f

LEMMA TidyBlock ==
  ASSUME NEW locs \in Seq(LocationSet), Tidy(locs), NEW out \in Seq(LocationSet), NEW f,
         NEW u \in Nat, NEW v \in Nat, NEW from, Block(out, locs, f, u, v, from)
  PROVE  Tidy(out)
<1> USE DEF Block
<1>1. DOMAIN out = 1..Len(out) /\ Len(out) \in Nat /\ DOMAIN locs = 1..Len(locs) /\ Len(locs) \in Nat
  OBVIOUS
<1> SUFFICES ASSUME NEW i \in DOMAIN out, NEW k \in DOMAIN out, i < k, out[i].file = out[k].file
             PROVE  /\ out[i].class # out[k].class
                    /\ \A j \in i..k : out[j].file = out[i].file
  BY DEF Tidy
<1>2. CASE i \in u..v
  <2>1. k \in u..v
    <3> SUFFICES ASSUME k \notin u..v PROVE FALSE
      OBVIOUS
    <3>1. out[i].file = f
      BY <1>2
    <3>2. out[k].file = locs[from[k]].file /\ locs[from[k]].file # f
      BY DEF SameClass
    <3> QED BY <3>1, <3>2
  <2>2. \A j \in i..k : j \in u..v /\ j \in DOMAIN out
    BY <1>1, <1>2, <2>1
  <2>3. \A j \in i..k : out[j].file = f
    BY <2>2
  <2>4. out[i].class # out[k].class
    BY <1>2, <2>1
  <2> QED BY <1>2, <2>3, <2>4
<1>3. CASE i \notin u..v
  <2>1. from[i] \in DOMAIN locs /\ SameClass(out[i], locs[from[i]]) /\ locs[from[i]].file # f
    BY <1>3
  <2>2. k \notin u..v
    <3> SUFFICES ASSUME k \in u..v PROVE FALSE
      OBVIOUS
    <3>1. out[k].file = f
      OBVIOUS
    <3> QED BY <2>1, <3>1 DEF SameClass
  <2>3. from[k] \in DOMAIN locs /\ SameClass(out[k], locs[from[k]]) /\ from[i] < from[k]
    BY <1>3, <2>2
  <2>4. locs[from[i]].file = locs[from[k]].file
    BY <2>1, <2>3 DEF SameClass
  <2>5. /\ locs[from[i]].class # locs[from[k]].class
        /\ \A j \in from[i]..from[k] : locs[j].file = locs[from[i]].file
    BY <2>1, <2>3, <2>4 DEF Tidy
  <2>6. ASSUME NEW j \in i..k PROVE out[j].file = out[i].file
    <3>1. j \in DOMAIN out /\ (j = i \/ i < j) /\ (j = k \/ j < k)
      BY <1>1
    <3>2. j \notin u..v
      <4> SUFFICES ASSUME j \in u..v PROVE FALSE
        OBVIOUS
      <4>1. i < u /\ v < k
        BY <1>1, <1>3, <2>2
      <4>2. PICK w \in DOMAIN locs : from[i] <= w /\ w <= from[k] /\ locs[w].file = f
        BY <4>1
      <4>3. w \in from[i]..from[k]
        BY <1>1, <2>1, <2>3, <4>2
      <4> QED BY <2>1, <2>5, <4>2, <4>3
    <3>3. from[j] \in DOMAIN locs /\ SameClass(out[j], locs[from[j]])
      BY <3>1, <3>2
    <3>4. (j = i \/ from[i] < from[j]) /\ (j = k \/ from[j] < from[k])
      BY <1>3, <2>2, <3>1, <3>2
    <3>5. from[j] \in from[i]..from[k]
      BY <1>1, <2>1, <2>3, <3>3, <3>4
    <3> QED BY <2>1, <2>5, <3>3, <3>5 DEF SameClass
  <2> QED BY <2>1, <2>3, <2>5, <2>6 DEF SameClass
<1> QED BY <1>2, <1>3

\* OUT has NEW between the first A elements of S and those from number B on.
Spliced(out, s, a, new, b) ==
  /\ Len(out) = a + Len(new) + (Len(s) + 1 - b)
  /\ \A i \in 1..Len(out) :
       out[i] = IF i <= a THEN s[i] ELSE IF i <= a + Len(new) THEN new[i - a]
                ELSE s[i - (a + Len(new)) + (b - 1)]

LEMMA SplicedIs ==
  ASSUME NEW S, NEW s \in Seq(S), NEW new \in Seq(S), NEW a \in 0..Len(s), NEW b \in (a + 1)..(Len(s) + 1)
  PROVE  /\ SubSeq(s, 1, a) \o new \o SubSeq(s, b, Len(s)) \in Seq(S)
         /\ Spliced(SubSeq(s, 1, a) \o new \o SubSeq(s, b, Len(s)), s, a, new, b)
<1> DEFINE x == SubSeq(s, 1, a)
           y == SubSeq(s, b, Len(s))
           n == Len(s)
           l == Len(new)
<1>1. n \in Nat /\ l \in Nat /\ a \in Nat /\ b \in Nat /\ a < b /\ b <= n + 1 /\ a <= n /\ b >= 1
  OBVIOUS
<1>2. \A i \in 1..n : s[i] \in S
  OBVIOUS
<1>3. x \in Seq(S) /\ Len(x) = a /\ \A i \in 1..a : x[i] = s[i]
  <2>1. 1 \in Int /\ a \in Int /\ \A i \in 1..a : s[i] \in S
    BY <1>1, <1>2
  <2>2. /\ x \in Seq(S) /\ Len(x) = (IF 1 <= a THEN a - 1 + 1 ELSE 0)
        /\ \A i \in 1..(a - 1 + 1) : x[i] = s[1 + i - 1]
    BY <2>1, SubSeqProperties
  <2>3. Len(x) = a
    BY <1>1, <2>2
  <2>4. \A i \in 1..a : i \in 1..(a - 1 + 1) /\ 1 + i - 1 = i
    BY <1>1
  <2> HIDE DEF x
  <2>5. \A i \in 1..a : x[i] = s[i]
    BY <2>2, <2>4
  <2> QED BY <2>2, <2>3, <2>5
<1>4. y \in Seq(S) /\ Len(y) = n + 1 - b /\ \A i \in 1..(n + 1 - b) : y[i] = s[b + i - 1]
  <2>1. b \in Int /\ n \in Int /\ \A i \in b..n : s[i] \in S
    BY <1>1, <1>2
  <2>2. /\ y \in Seq(S) /\ Len(y) = (IF b <= n THEN n - b + 1 ELSE 0)
        /\ \A i \in 1..(n - b + 1) : y[i] = s[b + i - 1]
    BY <2>1, SubSeqProperties
  <2>3. n - b + 1 = n + 1 - b /\ (~(b <= n) => n + 1 - b = 0)
    BY <1>1
  <2> HIDE DEF y, n
  <2> QED BY <2>2, <2>3
<1> HIDE DEF x, y
<1>5. /\ x \o new \in Seq(S) /\ Len(x \o new) = a + l
      /\ \A i \in 1..(a + l) : (x \o new)[i] = IF i <= a THEN x[i] ELSE new[i - a]
  BY <1>3, ConcatProperties
<1> DEFINE z == x \o new
<1> HIDE DEF z
<1>6. /\ z \o y \in Seq(S) /\ Len(z \o y) = (a + l) + (n + 1 - b)
      /\ \A i \in 1..((a + l) + (n + 1 - b)) :
           (z \o y)[i] = IF i <= a + l THEN z[i] ELSE y[i - (a + l)]
  <2>1. z \in Seq(S) /\ Len(z) = a + l
    BY <1>5 DEF z
  <2>2. /\ z \o y \in Seq(S) /\ Len(z \o y) = Len(z) + Len(y)
        /\ \A i \in 1..(Len(z) + Len(y)) : (z \o y)[i] = IF i <= Len(z) THEN z[i] ELSE y[i - Len(z)]
    <3>1. z \in Seq(S) /\ y \in Seq(S)
      BY <1>4, <2>1
    <3> QED BY <3>1, ConcatProperties
  <2>3. Len(y) = n + 1 - b
    BY <1>4
  <2> HIDE DEF n, l
  <2> QED BY <2>1, <2>2, <2>3
<1>7. ASSUME NEW i \in 1..((a + l) + (n + 1 - b))
      PROVE  (z \o y)[i] = IF i <= a THEN s[i] ELSE IF i <= a + l THEN new[i - a]
                           ELSE s[i - (a + l) + (b - 1)]
  <2>1. CASE i <= a
    <3>1. i \in 1..a /\ i \in 1..(a + l) /\ i <= a + l
      BY <1>1, <2>1
    <3>2. (z \o y)[i] = z[i]
      BY <1>6, <3>1
    <3>3. z[i] = x[i]
      BY <1>5, <2>1, <3>1 DEF z
    <3> QED BY <1>3, <2>1, <3>1, <3>2, <3>3
  <2>2. CASE ~(i <= a) /\ i <= a + l
    <3>1. i \in 1..(a + l)
      BY <1>1, <2>2
    <3>2. (z \o y)[i] = z[i]
      BY <1>6, <2>2
    <3>3. z[i] = new[i - a]
      BY <1>5, <2>2, <3>1 DEF z
    <3> QED BY <2>2, <3>2, <3>3
  <2>3. CASE ~(i <= a + l)
    <3>1. i - (a + l) \in 1..(n + 1 - b) /\ b + (i - (a + l)) - 1 = i - (a + l) + (b - 1) /\ ~(i <= a)
      BY <1>1, <2>3
    <3>2. (z \o y)[i] = y[i - (a + l)]
      BY <1>6, <2>3
    <3>3. y[i - (a + l)] = s[b + (i - (a + l)) - 1]
      BY <1>4, <3>1
    <3> QED BY <2>3, <3>1, <3>2, <3>3
  <2> QED BY <2>1, <2>2, <2>3
<1>8. z \o y = SubSeq(s, 1, a) \o new \o SubSeq(s, b, Len(s))
  BY DEF x, y, z
<1>9. Spliced(z \o y, s, a, new, b)
  <2>1. Len(z \o y) = a + l + (n + 1 - b)
    BY <1>6
  <2> QED BY <1>6, <1>7, <2>1 DEF Spliced
<1> QED BY <1>6, <1>8, <1>9

\* NEW are places of file F, and those of LOCS outside of A + 1..B - 1 are not.
Replaces(locs, new, f, a, b) ==
  /\ \A i \in DOMAIN new : new[i].file = f
  /\ \A i \in DOMAIN new : \A k \in DOMAIN new : i < k => new[i].class # new[k].class
  /\ \A i \in DOMAIN locs : i <= a \/ b <= i => locs[i].file # f
  /\ \/ a = 0 \/ b = Len(locs) + 1
     \/ \E w \in DOMAIN locs : a <= w /\ w <= b /\ locs[w].file = f

\* Places of a file in the stead of all that were of that file.
LEMMA TidySpliced ==
  ASSUME NEW locs \in Seq(LocationSet), Tidy(locs), NEW new \in Seq(LocationSet), NEW f,
         NEW a \in 0..Len(locs), NEW b \in (a + 1)..(Len(locs) + 1),
         NEW out \in Seq(LocationSet), Spliced(out, locs, a, new, b), Replaces(locs, new, f, a, b)
  PROVE  Tidy(out)
<1> USE DEF Replaces
<1> DEFINE n == Len(locs)
           l == Len(new)
           from == [i \in DOMAIN out |-> IF i <= a THEN i ELSE IF i <= a + l THEN 0
                                         ELSE i - (a + l) + (b - 1)]
<1>1. /\ n \in Nat /\ l \in Nat /\ a \in Nat /\ b \in Nat /\ a < b /\ b <= n + 1 /\ a <= n
      /\ DOMAIN new = 1..l /\ DOMAIN locs = 1..n
  OBVIOUS
<1>2. Len(out) = a + l + (n + 1 - b) /\ Len(out) \in Nat /\ DOMAIN out = 1..Len(out)
  BY DEF Spliced
<1>3. \A i \in DOMAIN out : out[i] = IF i <= a THEN locs[i] ELSE IF i <= a + l THEN new[i - a]
                                     ELSE locs[i - (a + l) + (b - 1)]
  BY <1>2 DEF Spliced
<1>4. \A i \in DOMAIN out : from[i] = IF i <= a THEN i ELSE IF i <= a + l THEN 0
                                      ELSE i - (a + l) + (b - 1)
  OBVIOUS
<1>5. from \in [DOMAIN out -> Nat]
  <2>1. ASSUME NEW i \in 1..Len(out), ~(i <= a + l) PROVE i - (a + l) + (b - 1) \in Nat
    BY <1>1, <1>2, <2>1, SMTT(30)
  <2> QED BY <1>1, <1>2, <2>1, SMTT(30)
<1> HIDE DEF from, n, l
<1>6. \A i \in DOMAIN out : i \in (a + 1)..(a + l) => out[i] = new[i - a] /\ i - a \in DOMAIN new
  <2> SUFFICES ASSUME NEW i \in 1..Len(out), i \in (a + 1)..(a + l)
               PROVE  out[i] = new[i - a] /\ i - a \in DOMAIN new
    BY <1>2
  <2>1. ~(i <= a) /\ i <= a + l /\ i - a \in 1..l
    BY <1>1
  <2> QED BY <1>1, <1>2, <1>3, <2>1
<1>7. ASSUME NEW i \in DOMAIN out, i \notin (a + 1)..(a + l)
      PROVE  /\ from[i] \in DOMAIN locs /\ out[i] = locs[from[i]] /\ (from[i] <= a \/ b <= from[i])
             /\ (i <= a => from[i] = i)
             /\ (~(i <= a) => from[i] = i - (a + l) + (b - 1) /\ ~(i <= a + l) /\ b <= from[i])
  <2>1. i \in 1..Len(out) /\ (i <= a \/ ~(i <= a + l))
    BY <1>1, <1>2, <1>7
  <2>2. CASE i <= a
    BY <1>1, <1>3, <1>4, <2>1, <2>2
  <2>3. CASE ~(i <= a) /\ ~(i <= a + l)
    <3>1. i - (a + l) + (b - 1) \in 1..n /\ b <= i - (a + l) + (b - 1)
      BY <1>1, <1>2, <2>1, <2>3, SMTT(30)
    <3> QED BY <1>1, <1>3, <1>4, <2>3, <3>1
  <2>4. i <= a => i <= a + l
    BY <1>1, <2>1
  <2> QED BY <2>1, <2>2, <2>3
<1>8. \A i \in DOMAIN out : \A k \in DOMAIN out :
        i \notin (a + 1)..(a + l) /\ k \notin (a + 1)..(a + l) /\ i < k => from[i] < from[k]
  <2> SUFFICES ASSUME NEW i \in 1..Len(out), NEW k \in 1..Len(out), i < k,
                      i \notin (a + 1)..(a + l), k \notin (a + 1)..(a + l)
               PROVE  from[i] < from[k]
    BY <1>2
  <2>1. /\ (i <= a => from[i] = i) /\ (~(i <= a) => from[i] = i - (a + l) + (b - 1))
        /\ (k <= a => from[k] = k) /\ (~(k <= a) => from[k] = k - (a + l) + (b - 1) /\ b <= from[k])
    BY <1>2, <1>7
  <2> QED BY <1>1, <1>2, <2>1
<1>9. \A i \in DOMAIN out : \A k \in DOMAIN out :
        i < a + 1 /\ a + l < k =>
          \E w \in DOMAIN locs : from[i] <= w /\ w <= from[k] /\ locs[w].file = f
  <2> SUFFICES ASSUME NEW i \in 1..Len(out), NEW k \in 1..Len(out), i < a + 1, a + l < k
               PROVE  \E w \in DOMAIN locs : from[i] <= w /\ w <= from[k] /\ locs[w].file = f
    BY <1>2
  <2>1. /\ i <= a /\ i \notin (a + 1)..(a + l) /\ k \notin (a + 1)..(a + l) /\ ~(k <= a)
        /\ a # 0 /\ b # n + 1
    BY <1>1, <1>2
  <2>2. from[i] = i /\ b <= from[k] /\ from[k] \in DOMAIN locs
    BY <1>2, <1>7, <2>1
  <2>3. PICK w \in DOMAIN locs : a <= w /\ w <= b /\ locs[w].file = f
    BY <2>1 DEF n
  <2>4. from[i] <= w /\ w <= from[k]
    <3>1. w \in Nat /\ from[k] \in Nat /\ i \in Nat
      BY <1>1, <2>2
    <3> QED BY <1>1, <2>1, <2>2, <2>3, <3>1
  <2> QED BY <2>3, <2>4
<1>10. \A i \in DOMAIN out : i \in (a + 1)..(a + l) => out[i].file = f
  BY <1>6
<1>11. \A i \in DOMAIN out : \A k \in DOMAIN out :
         i \in (a + 1)..(a + l) /\ k \in (a + 1)..(a + l) /\ i < k => out[i].class # out[k].class
  <2> SUFFICES ASSUME NEW i \in DOMAIN out, NEW k \in DOMAIN out, i < k,
                      i \in (a + 1)..(a + l), k \in (a + 1)..(a + l)
               PROVE  out[i].class # out[k].class
    OBVIOUS
  <2>1. i - a < k - a
    BY <1>1
  <2> QED BY <1>6, <2>1
<1>12. \A i \in DOMAIN out : i \notin (a + 1)..(a + l) =>
         from[i] \in DOMAIN locs /\ SameClass(out[i], locs[from[i]]) /\ locs[from[i]].file # f
  BY <1>7 DEF SameClass
<1>13. a + 1 \in Nat /\ a + l \in Nat
  BY <1>1
<1>14. Block(out, locs, f, a + 1, a + l, from)
  BY <1>5, <1>8, <1>9, <1>10, <1>11, <1>12, Zenon DEF Block
<1> QED BY <1>13, <1>14, TidyBlock

\* A place behind the last one of its file.
LEMMA TidyInserted ==
  ASSUME NEW locs \in Seq(LocationSet), Tidy(locs), NEW h \in LocationSet,
         NEW a \in DOMAIN locs, NEW b \in DOMAIN locs, a <= b,
         locs[a].file = h.file, locs[b].file = h.file,
         \A i \in DOMAIN locs : locs[i].file = h.file =>
           a <= i /\ i <= b /\ locs[i].class # h.class,
         NEW out \in Seq(LocationSet), Spliced(out, locs, b, <<h>>, b + 1)
  PROVE  Tidy(out)
<1> DEFINE n == Len(locs)
           from == [i \in DOMAIN out |-> IF i <= b THEN i ELSE i - 1]
<1>1. n \in Nat /\ DOMAIN locs = 1..n /\ Len(<<h>>) = 1 /\ <<h>>[1] = h
  OBVIOUS
<1>2. Len(out) = n + 1 /\ DOMAIN out = 1..(n + 1)
  <2>1. Len(out) = b + 1 + (n + 1 - (b + 1)) /\ DOMAIN out = 1..Len(out)
    BY <1>1 DEF Spliced
  <2> QED BY <1>1, <2>1
<1>3. \A i \in DOMAIN out : out[i] = IF i <= b THEN locs[i] ELSE IF i = b + 1 THEN h ELSE locs[i - 1]
  <2> SUFFICES ASSUME NEW i \in 1..(n + 1)
               PROVE  out[i] = IF i <= b THEN locs[i] ELSE IF i = b + 1 THEN h ELSE locs[i - 1]
    BY <1>2
  <2>1. out[i] = IF i <= b THEN locs[i] ELSE IF i <= b + Len(<<h>>) THEN <<h>>[i - b]
                 ELSE locs[i - (b + Len(<<h>>)) + (b + 1 - 1)]
    BY <1>2, SMTT(30) DEF Spliced
  <2>2. ~(i <= b) /\ i <= b + 1 => i = b + 1 /\ i - b = 1
    BY <1>1
  <2>3. ~(i <= b + 1) => i # b + 1 /\ i - (b + 1) + (b + 1 - 1) = i - 1
    BY <1>1
  <2>4. i = b + 1 => i <= b + 1
    BY <1>1
  <2> QED BY <1>1, <2>1, <2>2, <2>3, <2>4
<1>4. \A i \in DOMAIN out : from[i] = IF i <= b THEN i ELSE i - 1
  OBVIOUS
<1>5. from \in [DOMAIN out -> Nat]
  BY <1>1, <1>2
<1> HIDE DEF from, n
<1>6. \A i \in a..b : i \in DOMAIN locs /\ locs[i].file = h.file
  <2>1. \A i \in a..b : i \in DOMAIN locs
    BY <1>1
  <2>2. a = b \/ a < b
    BY <1>1
  <2>3. \A i \in a..b : locs[i].file = h.file
    <3>1. a = b => a..b = {a}
      BY <1>1
    <3> QED BY <2>2, <3>1 DEF Tidy
  <2> QED BY <2>1, <2>3
<1>7. \A i \in a..(b + 1) : i = b + 1 \/ i \in a..b
  BY <1>1
<1>8. \A i \in DOMAIN out : i \in a..(b + 1) => out[i].file = h.file
  <2>1. \A i \in a..b : i <= b
    BY <1>1
  <2>2. ~(b + 1 <= b)
    BY <1>1
  <2> QED BY <1>3, <1>6, <1>7, <2>1, <2>2
<1>9. \A i \in DOMAIN out : \A k \in DOMAIN out :
        i \in a..(b + 1) /\ k \in a..(b + 1) /\ i < k => out[i].class # out[k].class
  <2> SUFFICES ASSUME NEW i \in DOMAIN out, NEW k \in DOMAIN out, i < k,
                      i \in a..(b + 1), k \in a..(b + 1)
               PROVE  out[i].class # out[k].class
    OBVIOUS
  <2>1. i \in a..b /\ i <= b
    BY <1>1
  <2>2. out[i] = locs[i] /\ locs[i].file = h.file /\ i \in DOMAIN locs
    BY <1>3, <1>6, <2>1
  <2>3. CASE k = b + 1
    <3>1. out[k] = h
      <4>1. ~(k <= b)
        BY <1>1, <2>3
      <4> QED BY <1>3, <2>3, <4>1
    <3> QED BY <2>2, <3>1
  <2>4. CASE k \in a..b
    <3>1. k <= b /\ k \in DOMAIN locs
      BY <1>1, <2>4
    <3>2. out[k] = locs[k] /\ locs[k].file = h.file
      BY <1>3, <1>6, <2>4, <3>1
    <3> QED BY <2>2, <3>1, <3>2 DEF Tidy
  <2> QED BY <1>7, <2>3, <2>4
<1>10. ASSUME NEW i \in DOMAIN out, i \notin a..(b + 1)
       PROVE  /\ from[i] \in DOMAIN locs /\ out[i] = locs[from[i]] /\ locs[from[i]].file # h.file
              /\ (i <= b => from[i] = i) /\ (~(i <= b) => from[i] = i - 1 /\ i > b + 1)
  <2>1. (i <= b => i < a) /\ (~(i <= b) => i > b + 1)
    BY <1>1, <1>2, <1>10
  <2>2. CASE i <= b
    <3>1. from[i] = i /\ out[i] = locs[i] /\ i \in DOMAIN locs /\ ~(a <= i)
      BY <1>1, <1>2, <1>3, <1>4, <2>1, <2>2
    <3> QED BY <2>2, <3>1
  <2>3. CASE ~(i <= b)
    <3>1. from[i] = i - 1 /\ i # b + 1 /\ i - 1 \in DOMAIN locs /\ ~(i - 1 <= b)
      BY <1>1, <1>2, <1>4, <2>1, <2>3
    <3>2. out[i] = locs[i - 1]
      BY <1>3, <2>3, <3>1
    <3> QED BY <2>1, <2>3, <3>1, <3>2
  <2> QED BY <2>2, <2>3
<1>11. \A i \in DOMAIN out : i \notin a..(b + 1) =>
         from[i] \in DOMAIN locs /\ SameClass(out[i], locs[from[i]]) /\ locs[from[i]].file # h.file
  BY <1>10 DEF SameClass
<1>12. \A i \in DOMAIN out : \A k \in DOMAIN out :
         i \notin a..(b + 1) /\ k \notin a..(b + 1) /\ i < k => from[i] < from[k]
  <2> SUFFICES ASSUME NEW i \in 1..(n + 1), NEW k \in 1..(n + 1), i < k,
                      i \notin a..(b + 1), k \notin a..(b + 1)
               PROVE  from[i] < from[k]
    BY <1>2
  <2>1. /\ (i <= b => from[i] = i) /\ (~(i <= b) => from[i] = i - 1)
        /\ (k <= b => from[k] = k) /\ (~(k <= b) => from[k] = k - 1 /\ k > b + 1)
    BY <1>2, <1>10
  <2> QED BY <1>1, <2>1
<1>13. \A i \in DOMAIN out : \A k \in DOMAIN out :
         i < a /\ b + 1 < k =>
           \E w \in DOMAIN locs : from[i] <= w /\ w <= from[k] /\ locs[w].file = h.file
  <2> SUFFICES ASSUME NEW i \in 1..(n + 1), NEW k \in 1..(n + 1), i < a, b + 1 < k
               PROVE  \E w \in DOMAIN locs : from[i] <= w /\ w <= from[k] /\ locs[w].file = h.file
    BY <1>2
  <2>1. i <= b /\ ~(k <= b)
    BY <1>1
  <2>2. from[i] = i /\ from[k] = k - 1
    BY <1>2, <1>4, <2>1
  <2>3. from[i] <= a /\ a <= from[k]
    BY <1>1, <2>2
  <2> QED BY <2>3
<1>14. a \in Nat /\ b + 1 \in Nat
  BY <1>1
<1>15. Block(out, locs, h.file, a, b + 1, from)
  BY <1>5, <1>8, <1>9, <1>11, <1>12, <1>13, Zenon DEF Block
<1> QED BY <1>14, <1>15, TidyBlock

LEMMA AddOverrideKeeps ==
  ASSUME NEW locs \in Seq(LocationSet), Tidy(locs), NEW p \in PlaceSet, NEW base \in BOOLEAN
  PROVE  AddOverride(locs, p, base) \in Seq(LocationSet) /\ Tidy(AddOverride(locs, p, base))
<1> DEFINE n == Len(locs)
           h == Here(p)
           same == LastOf(locs, p.file)
           exact == {i \in same : locs[i].class = p.class}
<1>1. n \in Nat /\ DOMAIN locs = 1..n
  OBVIOUS
<1>2. h \in LocationSet /\ h.file = p.file /\ h.class = p.class
  BY DEF Here, LocationSet, PlaceSet
<1>3. /\ <<h>> \in Seq(LocationSet) /\ Len(<<h>>) = 1 /\ DOMAIN <<h>> = 1..1
      /\ \A i \in DOMAIN <<h>> : <<h>>[i] = h
  BY <1>2
<1>4. \A i \in DOMAIN locs : i \in same <=> locs[i].file = h.file
  BY <1>2 DEF LastOf
<1>5. AddOverride(locs, p, base) =
        IF same = {} THEN IF base THEN <<h>> \o locs ELSE Append(locs, h)
        ELSE IF exact # {} THEN [locs EXCEPT ![Min(exact)] = h]
        ELSE InsertAt(locs, Max(same) + 1, h)
  BY DEF AddOverride
<1>6. same \subseteq DOMAIN locs /\ exact \subseteq same
  BY DEF LastOf
<1> HIDE DEF n, h, same
<1>7. ASSUME same = {}, NEW a \in 0..n, NEW out \in Seq(LocationSet), Spliced(out, locs, a, <<h>>, a + 1),
             a = 0 \/ a = n
      PROVE  Tidy(out)
  <2>1. /\ \A i \in DOMAIN <<h>> : <<h>>[i].file = h.file
        /\ \A i \in DOMAIN <<h>> : \A k \in DOMAIN <<h>> : i < k => <<h>>[i].class # <<h>>[k].class
    BY <1>3
  <2>2. \A i \in DOMAIN locs : i <= a \/ a + 1 <= i => locs[i].file # h.file
    BY <1>4, <1>7
  <2>3. a \in 0..n /\ a + 1 \in (a + 1)..(n + 1) /\ (a = 0 \/ a + 1 = n + 1)
    <3>1. a = 0 \/ a = n
      BY <1>7
    <3> QED BY <1>1, <3>1
  <2>4. Replaces(locs, <<h>>, h.file, a, a + 1)
    BY <2>1, <2>2, <2>3 DEF Replaces, n
  <2>5. a \in 0..Len(locs) /\ a + 1 \in (a + 1)..(Len(locs) + 1)
    BY <2>3 DEF n
  <2> QED BY <1>3, <1>7, <2>4, <2>5, TidySpliced
<1>8. CASE same = {} /\ base
  <2> DEFINE out == <<h>> \o locs
  <2>1. AddOverride(locs, p, base) = out
    BY <1>5, <1>8
  <2>2. /\ out \in Seq(LocationSet) /\ Len(out) = 1 + n
        /\ \A i \in 1..(1 + n) : out[i] = IF i <= 1 THEN <<h>>[i] ELSE locs[i - 1]
    BY <1>3, ConcatProperties DEF n
  <2> HIDE DEF out
  <2>3. Spliced(out, locs, 0, <<h>>, 0 + 1)
    <3>1. Len(out) = 0 + Len(<<h>>) + (Len(locs) + 1 - (0 + 1))
      BY <1>1, <1>3, <2>2 DEF n
    <3>2. ASSUME NEW i \in 1..Len(out)
          PROVE  out[i] = IF i <= 0 THEN locs[i] ELSE IF i <= 0 + Len(<<h>>) THEN <<h>>[i - 0]
                          ELSE locs[i - (0 + Len(<<h>>)) + (0 + 1 - 1)]
      <4>1. i \in 1..(1 + n) /\ ~(i <= 0) /\ i - 0 = i /\ 0 + Len(<<h>>) = 1 /\ i - 1 + (0 + 1 - 1) = i - 1
        BY <1>1, <1>3, <2>2
      <4> QED BY <2>2, <4>1
    <3> QED BY <3>1, <3>2 DEF Spliced
  <2>4. 0 \in 0..n
    BY <1>1
  <2> QED BY <1>7, <1>8, <2>1, <2>2, <2>3, <2>4
<1>9. CASE same = {} /\ ~base
  <2> DEFINE out == Append(locs, h)
  <2>1. AddOverride(locs, p, base) = out
    BY <1>5, <1>9
  <2>2. /\ out \in Seq(LocationSet) /\ Len(out) = n + 1
        /\ \A i \in 1..n : out[i] = locs[i]
        /\ out[n + 1] = h
    BY <1>2, AppendProperties DEF n
  <2> HIDE DEF out
  <2>3. Spliced(out, locs, n, <<h>>, n + 1)
    <3>1. Len(out) = n + Len(<<h>>) + (Len(locs) + 1 - (n + 1))
      BY <1>1, <1>3, <2>2 DEF n
    <3>2. ASSUME NEW i \in 1..Len(out)
          PROVE  out[i] = IF i <= n THEN locs[i] ELSE IF i <= n + Len(<<h>>) THEN <<h>>[i - n]
                          ELSE locs[i - (n + Len(<<h>>)) + ((n + 1) - 1)]
      <4>1. (i \in 1..n /\ i <= n) \/ (i = n + 1 /\ ~(i <= n) /\ i <= n + Len(<<h>>) /\ i - n = 1)
        BY <1>1, <1>3, <2>2
      <4>2. 1 \in DOMAIN <<h>>
        BY <1>3
      <4> QED BY <1>3, <2>2, <4>1, <4>2
    <3> QED BY <3>1, <3>2 DEF Spliced
  <2>4. n \in 0..n
    BY <1>1
  <2> QED BY <1>7, <1>9, <2>1, <2>2, <2>3, <2>4
<1>10. CASE same # {} /\ exact # {}
  <2>1. Min(exact) \in exact
    <3>1. exact \in SUBSET Nat
      BY <1>1, <1>6
    <3> HIDE DEF exact
    <3> QED BY <1>10, <3>1, MinIs
  <2>2. Min(exact) \in DOMAIN locs /\ SameClass(h, locs[Min(exact)])
    <3>1. Min(exact) \in same /\ locs[Min(exact)].class = p.class
      BY <2>1
    <3>2. locs[Min(exact)].file = h.file
      BY <1>4, <1>6, <3>1
    <3> QED BY <1>2, <1>6, <3>1, <3>2 DEF SameClass
  <2> DEFINE out == [locs EXCEPT ![Min(exact)] = h]
  <2>3. AddOverride(locs, p, base) = out
    BY <1>5, <1>10
  <2> HIDE DEF exact
  <2>4. /\ out \in Seq(LocationSet) /\ DOMAIN out = DOMAIN locs
        /\ \A i \in DOMAIN locs : out[i] = IF i = Min(exact) THEN h ELSE locs[i]
    <3>1. Min(exact) \in 1..Len(locs)
      BY <2>2
    <3> QED BY <1>2, <3>1, ExceptSeq
  <2> HIDE DEF out
  <2>5. \A i \in DOMAIN locs : SameClass(out[i], locs[i])
    BY <2>2, <2>4 DEF SameClass
  <2>6. DOMAIN locs \subseteq Nat /\ \A i \in DOMAIN locs : \A k \in DOMAIN locs : i..k \subseteq DOMAIN locs
    BY <1>1
  <2>7. Tidy(out)
    BY <2>4, <2>5, <2>6, TidySame
  <2> QED BY <2>3, <2>4, <2>7
<1>11. CASE same # {} /\ exact = {}
  <2> DEFINE b == Max(same)
             a == Min(same)
             out == InsertAt(locs, b + 1, h)
  <2>1. same \in SUBSET Nat /\ same \in SUBSET (0..n)
    BY <1>1, <1>6
  <2>2. b \in same /\ a \in same /\ \A y \in same : a <= y /\ y <= b
    <3>1. a \in same /\ \A y \in same : a <= y
      BY <1>11, <2>1, MinIs
    <3>2. b \in same /\ \A y \in same : b >= y
      BY <1>1, <1>11, <2>1, MaxIs
    <3>3. \A y \in same : y \in Nat
      BY <2>1
    <3> HIDE DEF a, b
    <3> QED BY <3>1, <3>2, <3>3
  <2>3. AddOverride(locs, p, base) = out
    BY <1>5, <1>11
  <2> HIDE DEF a, b
  <2>4. b \in DOMAIN locs /\ a \in DOMAIN locs /\ a <= b /\ locs[a].file = h.file /\ locs[b].file = h.file
    BY <1>4, <1>6, <2>2
  <2>5. /\ out \in Seq(LocationSet) /\ Spliced(out, locs, b, <<h>>, b + 1)
    <3>1. out = SubSeq(locs, 1, b) \o <<h>> \o SubSeq(locs, b + 1, Len(locs))
      <4>1. out = SubSeq(locs, 1, (b + 1) - 1) \o <<h>> \o SubSeq(locs, b + 1, Len(locs))
        BY DEF InsertAt
      <4>2. (b + 1) - 1 = b
        BY <1>1, <2>4
      <4> HIDE DEF out
      <4> QED BY <4>1, <4>2
    <3>2. b \in 0..Len(locs) /\ b + 1 \in (b + 1)..(Len(locs) + 1)
      BY <1>1, <2>4 DEF n
    <3> QED BY <1>3, <3>1, <3>2, SplicedIs
  <2> HIDE DEF out
  <2>6. \A i \in DOMAIN locs : locs[i].file = h.file => a <= i /\ i <= b /\ locs[i].class # h.class
    BY <1>2, <1>4, <1>11, <2>2
  <2>7. Tidy(out)
    BY <1>2, <2>4, <2>5, <2>6, TidyInserted
  <2> QED BY <2>3, <2>5, <2>7
<1> QED BY <1>8, <1>9, <1>10, <1>11

LEMMA SpliceKeeps ==
  ASSUME NEW locs \in Seq(LocationSet), Tidy(locs), NEW f, NEW new \in Seq(LocationSet),
         \A i \in DOMAIN new : new[i].file = f,
         \A i \in DOMAIN new : \A k \in DOMAIN new : i < k => new[i].class # new[k].class
  PROVE  Splice(locs, f, new) \in Seq(LocationSet) /\ Tidy(Splice(locs, f, new))
<1> DEFINE n == Len(locs)
           same == LastOf(locs, f)
           run == FirstRun(locs, f)
           l == Len(new)
<1>1. n \in Nat /\ DOMAIN locs = 1..n /\ l \in Nat /\ DOMAIN new = 1..l
  OBVIOUS
<1>2. same \subseteq DOMAIN locs /\ \A i \in DOMAIN locs : i \in same <=> locs[i].file = f
  BY DEF LastOf
<1>3. run = {i \in same : \A j \in Min(same)..i : j \in same}
  BY DEF FirstRun
<1>4. Splice(locs, f, new) =
        IF run = {} THEN locs \o new
        ELSE SubSeq(locs, 1, Min(run) - 1) \o new \o SubSeq(locs, Max(run) + 1, Len(locs))
  BY DEF Splice
<1> HIDE DEF n, l, same, run
<1>5. run = same
  <2>1. CASE same = {}
    BY <1>3, <2>1
  <2>2. CASE same # {}
    <3>1. Min(same) \in same /\ \A y \in same : Min(same) <= y
      <4>1. same \in SUBSET Nat
        BY <1>1, <1>2
      <4> QED BY <2>2, <4>1, MinIs
    <3>2. ASSUME NEW i \in same, NEW j \in Min(same)..i PROVE j \in same
      <4> DEFINE a == Min(same)
      <4>1. a \in DOMAIN locs /\ i \in DOMAIN locs /\ a <= i /\ locs[a].file = f /\ locs[i].file = f
        BY <1>2, <3>1
      <4> HIDE DEF a
      <4>2. j \in a..i
        BY <3>2 DEF a
      <4>3. j \in DOMAIN locs /\ (a = i => j = a) /\ (a # i => a < i)
        BY <1>1, <4>1, <4>2
      <4>4. locs[j].file = f
        BY <4>1, <4>2, <4>3 DEF Tidy
      <4> QED BY <1>2, <4>3, <4>4
    <3> QED BY <1>3, <3>2
  <2> QED BY <2>1, <2>2
<1>6. CASE run = {}
  <2> DEFINE out == locs \o new
  <2>1. Splice(locs, f, new) = out
    BY <1>4, <1>6
  <2>2. /\ out \in Seq(LocationSet) /\ Len(out) = n + l
        /\ \A i \in 1..(n + l) : out[i] = IF i <= n THEN locs[i] ELSE new[i - n]
    BY ConcatProperties DEF n, l
  <2> HIDE DEF out
  <2>3. Spliced(out, locs, n, new, n + 1)
    <3>1. Len(out) = n + Len(new) + (Len(locs) + 1 - (n + 1))
      BY <1>1, <2>2 DEF n, l
    <3>2. ASSUME NEW i \in 1..Len(out)
          PROVE  out[i] = IF i <= n THEN locs[i] ELSE IF i <= n + l THEN new[i - n]
                          ELSE locs[i - (n + l) + ((n + 1) - 1)]
      <4>1. i \in 1..(n + l) /\ i <= n + l
        BY <1>1, <2>2
      <4> QED BY <2>2, <4>1
    <3> QED BY <3>1, <3>2 DEF Spliced, l
  <2>4. Replaces(locs, new, f, n, n + 1)
    <3>1. \A i \in DOMAIN locs : locs[i].file # f
      BY <1>2, <1>5, <1>6
    <3> QED BY <3>1 DEF Replaces, n
  <2>5. n \in 0..n /\ n + 1 \in (n + 1)..(n + 1)
    BY <1>1
  <2> QED BY <2>1, <2>2, <2>3, <2>4, <2>5, TidySpliced DEF n
<1>7. CASE run # {}
  <2> DEFINE a == Min(run) - 1
             b == Max(run) + 1
             out == SubSeq(locs, 1, a) \o new \o SubSeq(locs, b, Len(locs))
  <2>1. run \in SUBSET Nat /\ run \in SUBSET (0..n)
    BY <1>1, <1>2, <1>5
  <2>2. Min(run) \in run /\ Max(run) \in run /\ \A y \in run : Min(run) <= y /\ Max(run) >= y
    <3>1. Min(run) \in run /\ \A y \in run : Min(run) <= y
      BY <1>7, <2>1, MinIs
    <3>2. Max(run) \in run /\ \A y \in run : Max(run) >= y
      BY <1>1, <1>7, <2>1, MaxIs
    <3> QED BY <3>1, <3>2
  <2>3. Splice(locs, f, new) = out
    BY <1>4, <1>7
  <2>4. Min(run) \in 1..n /\ Max(run) \in 1..n /\ Min(run) <= Max(run)
    BY <1>1, <1>2, <1>5, <2>2
  <2>5. a \in 0..n /\ b \in (a + 1)..(n + 1) /\ a <= Min(run) /\ Min(run) <= b
    BY <1>1, <2>4
  <2>6. \A i \in DOMAIN locs : i <= a \/ b <= i => locs[i].file # f
    <3> SUFFICES ASSUME NEW i \in 1..n, i <= a \/ b <= i, locs[i].file = f PROVE FALSE
      BY <1>1
    <3>1. i \in run
      BY <1>1, <1>2, <1>5
    <3>2. Min(run) <= i /\ Max(run) >= i
      BY <2>2, <3>1
    <3> QED BY <1>1, <2>4, <3>2
  <2>7. Min(run) \in DOMAIN locs /\ locs[Min(run)].file = f
    BY <1>2, <1>5, <2>2
  <2> HIDE DEF a, b, out
  <2>8. Replaces(locs, new, f, a, b)
    BY <2>5, <2>6, <2>7, Zenon DEF Replaces
  <2>9. out \in Seq(LocationSet) /\ Spliced(out, locs, a, new, b)
    <3>1. a \in 0..Len(locs) /\ b \in (a + 1)..(Len(locs) + 1)
      BY <2>5 DEF n
    <3> QED BY <3>1, SplicedIs DEF out
  <2> QED BY <2>3, <2>5, <2>8, <2>9, TidySpliced DEF n
<1> QED BY <1>6, <1>7

LEMMA MergeFileKeeps ==
  ASSUME NEW locs \in Seq(LocationSet), Tidy(locs), NEW other \in Seq(LocationSet), Tidy(other), NEW f
  PROVE  MergeFile(locs, other, f) \in Seq(LocationSet) /\ Tidy(MergeFile(locs, other, f))
<1> DEFINE w == Kept(other, LastOf(other, f))
           new == [i \in DOMAIN w |-> Here(w[i])]
<1>1. w \in Seq(LocationSet) /\ \E g : Choice(other, LastOf(other, f), w, g)
  BY KeptChoice
<1>2. PICK g : Choice(other, LastOf(other, f), w, g)
  BY <1>1
<1>3. MergeFile(locs, other, f) = IF w = <<>> THEN locs ELSE Splice(locs, f, new)
  BY DEF MergeFile
<1> HIDE DEF w
<1>4. DOMAIN w = 1..Len(w) /\ Len(w) \in Nat /\ \A i \in DOMAIN w : w[i] \in LocationSet
  BY <1>1
<1>5. Tidy(w)
  BY <1>1, <1>2, TidyKept
<1>6. \A i \in DOMAIN w : w[i].file = f
  BY <1>2 DEF Choice, LastOf
<1>7. \A i \in DOMAIN w : \A k \in DOMAIN w : i < k => w[i].class # w[k].class
  BY <1>5, <1>6 DEF Tidy
<1>8. \A i \in DOMAIN w : Here(w[i]) \in LocationSet /\ SameClass(Here(w[i]), w[i])
  BY <1>4 DEF Here, LocationSet, SameClass
<1>9. new \in Seq(LocationSet) /\ DOMAIN new = DOMAIN w /\ \A i \in DOMAIN w : SameClass(new[i], w[i])
  <2>1. new \in [1..Len(w) -> LocationSet]
    BY <1>4, <1>8
  <2> QED BY <1>4, <1>8, <2>1
<1> HIDE DEF new
<1>10. /\ \A i \in DOMAIN new : new[i].file = f
       /\ \A i \in DOMAIN new : \A k \in DOMAIN new : i < k => new[i].class # new[k].class
  BY <1>6, <1>7, <1>9 DEF SameClass
<1> QED BY <1>3, <1>9, <1>10, SpliceKeeps

TidyPlaces == {s \in Seq(LocationSet) : Tidy(s)}

LEMMA MethodMergeKeeps ==
  ASSUME NEW locs \in TidyPlaces, NEW other \in TidyPlaces
  PROVE  MethodMerge(locs, other) \in TidyPlaces
<1> DEFINE n == Len(Hashed)
           step == [q \in TidyPlaces \X (1..n) |-> MergeFile(q[1], other, Hashed[q[2]])]
           Is(f) == f = [k \in 0..n |-> IF k = 0 THEN locs ELSE MergeFile(f[k - 1], other, Hashed[k])]
<1>1. n \in Nat
  BY ModelAssumption
<1>2. \A x \in TidyPlaces, k \in 1..n :
        step[<<x, k>>] = MergeFile(x, other, Hashed[k]) /\ step[<<x, k>>] \in TidyPlaces
  <2>1. \A x \in TidyPlaces, k \in 1..n : MergeFile(x, other, Hashed[k]) \in TidyPlaces
    BY MergeFileKeeps DEF TidyPlaces
  <2> QED BY <2>1
<1>3. PICK at \in [0..n -> TidyPlaces] : Rounds(at, n, locs, step)
  <2>1. n \in Nat /\ locs \in TidyPlaces /\ \A x \in TidyPlaces, k \in 1..n : step[<<x, k>>] \in TidyPlaces
    BY <1>1, <1>2
  <2> HIDE DEF step, n
  <2> QED BY <2>1, LoopRuns
<1>4. Is(at)
  <2>1. ASSUME NEW k \in 0..n
        PROVE  at[k] = IF k = 0 THEN locs ELSE MergeFile(at[k - 1], other, Hashed[k])
    <3>1. k # 0 => k - 1 \in 0..n /\ k \in 1..n
      BY <1>1
    <3>2. k # 0 => at[k - 1] \in TidyPlaces
      BY <1>3, <3>1
    <3> HIDE DEF step
    <3> QED BY <1>2, <1>3, <3>1, <3>2 DEF Rounds
  <2> HIDE DEF step
  <2> QED BY <1>3, <2>1
<1> DEFINE c == CHOOSE f : Is(f)
<1>5. Is(c)
  <2> HIDE DEF Is
  <2> QED BY <1>4
<1>6. MethodMerge(locs, other) = IF locs = <<>> THEN other ELSE c[n]
  BY DEF MethodMerge
<1> HIDE DEF c
<1>7. c[0] = locs /\ \A k \in 1..n : c[k] = MergeFile(c[k - 1], other, Hashed[k])
  <2>1. 0 \in 0..n /\ \A k \in 1..n : k \in 0..n /\ k # 0
    BY <1>1
  <2> QED BY <1>5, <2>1
<1> DEFINE T == {k \in 0..n : c[k] \in TidyPlaces}
<1>8. 0..n \subseteq T
  <2>1. 0 \in T /\ \A k \in 1..n : k - 1 \in T => k \in T
    <3>1. 0 \in 0..n /\ \A k \in 1..n : k \in 0..n
      BY <1>1
    <3> QED BY <1>7, <3>1, MergeFileKeeps DEF TidyPlaces
  <2> HIDE DEF T, n
  <2> QED BY <1>1, <2>1, EveryRound
<1> QED BY <1>1, <1>6, <1>8

----------------------------------------------------------------------------
(* Properties.  R is the paths classes give: the pairs of a field and one  *)
(* on the path it is related to.                                           *)

Path(x, s, R) == \A i \in DOMAIN s : <<x, s[i]>> \in R
Known(x, R) == {v \in FieldSet : v.kind = "related" => Path(x, v.to, R)}
KnownFields(R) == {f \in [Fields -> FieldSet] : \A x \in Fields : f[x] \in Known(x, R)}
KnownProperties(R) == [fields : KnownFields(R), methods : [Methods -> TidyPlaces]]

\* What the place of a class holds.
Legible(d, p, R) ==
  LET c == ClassAt(d, p)
  IN  /\ DOMAIN c.fields \subseteq Fields /\ DOMAIN c.methods \subseteq Methods
      /\ \A x \in DOMAIN c.fields :
           /\ c.fields[x] \in Declaration
           /\ c.fields[x].kind = "related" => Path(x, c.fields[x].to, R)
      /\ \A g \in DOMAIN c.methods : c.methods[g] \in BOOLEAN
LegiblePlaces(d, R) == {p \in PlaceSet : Legible(d, p, R)}

LEMMA FieldShape ==
  /\ NoField \in FieldSet
  /\ \A v \in FieldSet :
       /\ v = [kind |-> v.kind, to |-> v.to, file |-> v.file, active |-> v.active]
       /\ v # NoField => v.file \in Files /\ v.active \in BOOLEAN
       /\ v # NoField => \/ v.kind = "value" /\ v.to = NoModel
                         \/ v.kind = "relational" /\ v.to \in Models
                         \/ v.kind = "related" /\ v.to \in Seq(Fields) /\ v.to # <<>>
  /\ \A f \in Files, a \in BOOLEAN :
       /\ [kind |-> "value", to |-> NoModel, file |-> f, active |-> a] \in FieldSet
       /\ \A m \in Models : [kind |-> "relational", to |-> m, file |-> f, active |-> a] \in FieldSet
       /\ \A s \in Seq(Fields) :
            s # <<>> => [kind |-> "related", to |-> s, file |-> f, active |-> a] \in FieldSet
BY DEF FieldSet, NoField

LEMMA FieldMergeKnown ==
  ASSUME NEW R, NEW x, NEW old \in Known(x, R), NEW new \in Known(x, R), new # NoField
  PROVE  FieldMerge(old, new) \in Known(x, R)
<1> DEFINE v == FieldMerge(old, new)
<1>1. CASE old = NoField
  BY <1>1 DEF FieldMerge
<1>2. CASE old # NoField
  <2>1. v = [kind |-> IF old.kind = "relational" THEN old.kind ELSE new.kind,
             to |-> IF old.kind = "relational" THEN old.to ELSE new.to,
             file |-> old.file, active |-> TRUE]
    <3>1. old = [kind |-> old.kind, to |-> old.to, file |-> old.file, active |-> old.active]
      BY FieldShape DEF Known
    <3> QED BY <1>2, <3>1 DEF FieldMerge
  <2>2. CASE old.kind = "relational"
    <3>1. v = [kind |-> "relational", to |-> old.to, file |-> old.file, active |-> TRUE]
      BY <2>1, <2>2
    <3>2. old.to \in Models /\ old.file \in Files
      BY <1>2, <2>2, FieldShape DEF Known
    <3>3. v.kind # "related"
      BY <3>1
    <3> HIDE DEF v
    <3>4. v \in FieldSet
      BY <3>1, <3>2, FieldShape
    <3> QED BY <3>3, <3>4 DEF Known, v
  <2>3. CASE old.kind # "relational"
    <3>1. v = [kind |-> new.kind, to |-> new.to, file |-> old.file, active |-> TRUE]
      BY <2>1, <2>3
    <3>2. old.file \in Files
      BY <1>2, FieldShape DEF Known
    <3>3. v.kind = new.kind /\ v.to = new.to
      BY <3>1
    <3> HIDE DEF v
    <3>4. v \in FieldSet
      BY <3>1, <3>2, FieldShape DEF Known
    <3> QED BY <3>3, <3>4 DEF Known, v
  <2> QED BY <2>2, <2>3
<1> QED BY <1>1, <1>2

LEMMA ReadFieldKnown ==
  ASSUME NEW R, NEW d, NEW p \in LegiblePlaces(d, R), NEW x, NEW old \in Known(x, R)
  PROVE  ReadField(d, p, x, old) \in Known(x, R)
<1> DEFINE c == ClassAt(d, p)
           v == [kind |-> c.fields[x].kind, to |-> c.fields[x].to, file |-> p.file, active |-> TRUE]
<1>1. CASE x \notin DOMAIN c.fields
  BY <1>1 DEF ReadField
<1>2. CASE x \in DOMAIN c.fields
  <2>1. c.fields[x] \in Declaration /\ (c.fields[x].kind = "related" => Path(x, c.fields[x].to, R))
    BY <1>2 DEF LegiblePlaces, Legible
  <2>2. p.file \in Files
    BY DEF LegiblePlaces, PlaceSet
  <2> HIDE DEF c
  <2>3. \/ c.fields[x].kind = "value" /\ c.fields[x].to = NoModel
        \/ c.fields[x].kind = "relational" /\ c.fields[x].to \in Models
        \/ c.fields[x].kind = "related" /\ c.fields[x].to \in Seq(Fields) /\ c.fields[x].to # <<>>
    BY <2>1 DEF Declaration
  <2>4. v \in FieldSet
    BY <2>2, <2>3, FieldShape
  <2>5. v.kind = c.fields[x].kind /\ v.to = c.fields[x].to
    OBVIOUS
  <2>6. v # NoField
    BY <2>3, <2>5 DEF NoField
  <2>7. v \in Known(x, R)
    BY <2>1, <2>4, <2>5 DEF Known
  <2>8. ReadField(d, p, x, old) = FieldMerge(old, v)
    BY <1>2 DEF ReadField, c
  <2> HIDE DEF v
  <2> QED BY <2>6, <2>7, <2>8, FieldMergeKnown
<1> QED BY <1>1, <1>2

LEMMA ReadMethodTidy ==
  ASSUME NEW R, NEW d, NEW p \in LegiblePlaces(d, R), NEW g, NEW locs \in TidyPlaces
  PROVE  ReadMethod(d, p, g, locs) \in TidyPlaces
<1> DEFINE c == ClassAt(d, p)
<1>1. p \in PlaceSet
  BY DEF LegiblePlaces
<1>2. CASE g \notin DOMAIN c.methods
  BY <1>2 DEF ReadMethod
<1>3. CASE g \in DOMAIN c.methods /\ locs = <<>>
  <2>1. <<Here(p)>> \in Seq(LocationSet) /\ DOMAIN <<Here(p)>> = {1}
    BY <1>1 DEF Here, LocationSet, PlaceSet
  <2>2. Tidy(<<Here(p)>>)
    BY <2>1 DEF Tidy
  <2> QED BY <1>3, <2>1, <2>2 DEF ReadMethod, TidyPlaces
<1>4. CASE g \in DOMAIN c.methods /\ locs # <<>>
  <2>1. (~c.methods[g]) \in BOOLEAN
    OBVIOUS
  <2>2. ReadMethod(d, p, g, locs) = AddOverride(locs, p, ~c.methods[g])
    BY <1>4 DEF ReadMethod
  <2> HIDE DEF c
  <2> QED BY <1>1, <2>1, <2>2, AddOverrideKeeps DEF TidyPlaces
<1> QED BY <1>2, <1>3, <1>4

\* A field is read from one class after the other.
LEMMA OwnFieldRuns ==
  ASSUME NEW R, NEW d, NEW reads \in Seq(LegiblePlaces(d, R)), NEW x, NEW start \in Known(x, R)
  PROVE  \E c : /\ c[0] = start /\ OwnField(d, reads, x, start) = c[Len(reads)]
                /\ \A k \in 1..Len(reads) : c[k] = ReadField(d, reads[k], x, c[k - 1])
<1> DEFINE n == Len(reads)
           S == Known(x, R)
           step == [q \in S \X (1..n) |-> ReadField(d, reads[q[2]], x, q[1])]
           Is(f) == f = [k \in 0..n |-> IF k = 0 THEN start ELSE ReadField(d, reads[k], x, f[k - 1])]
<1>1. n \in Nat /\ \A k \in 1..n : reads[k] \in LegiblePlaces(d, R)
  OBVIOUS
<1>2. \A y \in S, k \in 1..n :
        step[<<y, k>>] = ReadField(d, reads[k], x, y) /\ step[<<y, k>>] \in S
  BY <1>1, ReadFieldKnown
<1> HIDE DEF S
<1>3. PICK at \in [0..n -> S] : Rounds(at, n, start, step)
  <2>1. n \in Nat /\ start \in S /\ \A y \in S, k \in 1..n : step[<<y, k>>] \in S
    BY <1>1, <1>2 DEF S
  <2> HIDE DEF step, n
  <2> QED BY <2>1, LoopRuns
<1>4. Is(at)
  <2>1. ASSUME NEW k \in 0..n
        PROVE  at[k] = IF k = 0 THEN start ELSE ReadField(d, reads[k], x, at[k - 1])
    <3>1. k # 0 => k - 1 \in 0..n /\ k \in 1..n
      BY <1>1
    <3>2. k # 0 => at[k - 1] \in S
      BY <1>3, <3>1
    <3> HIDE DEF step
    <3> QED BY <1>2, <1>3, <3>1, <3>2 DEF Rounds
  <2> HIDE DEF step
  <2> QED BY <1>3, <2>1
<1> DEFINE c == CHOOSE f : Is(f)
<1>5. Is(c)
  <2> HIDE DEF Is
  <2> QED BY <1>4
<1>6. OwnField(d, reads, x, start) = c[n]
  BY DEF OwnField
<1> HIDE DEF c
<1>7. c[0] = start /\ \A k \in 1..n : c[k] = ReadField(d, reads[k], x, c[k - 1])
  <2>1. 0 \in 0..n /\ \A k \in 1..n : k \in 0..n /\ k # 0
    BY <1>1
  <2> QED BY <1>5, <2>1
<1> HIDE DEF n
<1>8. \E a : /\ a[0] = start /\ OwnField(d, reads, x, start) = a[n]
            /\ \A k \in 1..n : a[k] = ReadField(d, reads[k], x, a[k - 1])
  BY <1>6, <1>7
<1> QED BY <1>8 DEF n

LEMMA OwnFieldKnown ==
  ASSUME NEW R, NEW d, NEW reads \in Seq(LegiblePlaces(d, R)), NEW x, NEW start \in Known(x, R)
  PROVE  OwnField(d, reads, x, start) \in Known(x, R)
<1> DEFINE n == Len(reads)
           S == Known(x, R)
<1>1. n \in Nat /\ \A k \in 1..n : reads[k] \in LegiblePlaces(d, R)
  OBVIOUS
<1>6. PICK c : /\ c[0] = start /\ OwnField(d, reads, x, start) = c[n]
               /\ \A k \in 1..n : c[k] = ReadField(d, reads[k], x, c[k - 1])
  BY OwnFieldRuns
<1> HIDE DEF S
<1> DEFINE T == {k \in 0..n : c[k] \in S}
<1>8. 0..n \subseteq T
  <2>1. 0 \in T /\ \A k \in 1..n : k - 1 \in T => k \in T
    <3>1. 0 \in 0..n /\ \A k \in 1..n : k \in 0..n
      BY <1>1
    <3> QED BY <1>1, <1>6, <3>1, ReadFieldKnown DEF S
  <2> HIDE DEF T, n
  <2> QED BY <1>1, <2>1, EveryRound
<1> QED BY <1>1, <1>6, <1>8 DEF S

LEMMA OwnMethodTidy ==
  ASSUME NEW R, NEW d, NEW reads \in Seq(LegiblePlaces(d, R)), NEW g, NEW start \in TidyPlaces
  PROVE  OwnMethod(d, reads, g, start) \in TidyPlaces
<1> DEFINE n == Len(reads)
           step == [q \in TidyPlaces \X (1..n) |-> ReadMethod(d, reads[q[2]], g, q[1])]
           Is(f) == f = [k \in 0..n |-> IF k = 0 THEN start ELSE ReadMethod(d, reads[k], g, f[k - 1])]
<1>1. n \in Nat /\ \A k \in 1..n : reads[k] \in LegiblePlaces(d, R)
  OBVIOUS
<1>2. \A y \in TidyPlaces, k \in 1..n :
        step[<<y, k>>] = ReadMethod(d, reads[k], g, y) /\ step[<<y, k>>] \in TidyPlaces
  BY <1>1, ReadMethodTidy
<1>3. PICK at \in [0..n -> TidyPlaces] : Rounds(at, n, start, step)
  <2>1. n \in Nat /\ start \in TidyPlaces /\ \A y \in TidyPlaces, k \in 1..n : step[<<y, k>>] \in TidyPlaces
    BY <1>1, <1>2
  <2> HIDE DEF step, n
  <2> QED BY <2>1, LoopRuns
<1>4. Is(at)
  <2>1. ASSUME NEW k \in 0..n
        PROVE  at[k] = IF k = 0 THEN start ELSE ReadMethod(d, reads[k], g, at[k - 1])
    <3>1. k # 0 => k - 1 \in 0..n /\ k \in 1..n
      BY <1>1
    <3>2. k # 0 => at[k - 1] \in TidyPlaces
      BY <1>3, <3>1
    <3> HIDE DEF step
    <3> QED BY <1>2, <1>3, <3>1, <3>2 DEF Rounds
  <2> HIDE DEF step
  <2> QED BY <1>3, <2>1
<1> DEFINE c == CHOOSE f : Is(f)
<1>5. Is(c)
  <2> HIDE DEF Is
  <2> QED BY <1>4
<1>6. OwnMethod(d, reads, g, start) = c[n]
  BY DEF OwnMethod
<1> HIDE DEF c
<1>7. c[0] = start /\ \A k \in 1..n : c[k] = ReadMethod(d, reads[k], g, c[k - 1])
  <2>1. 0 \in 0..n /\ \A k \in 1..n : k \in 0..n /\ k # 0
    BY <1>1
  <2> QED BY <1>5, <2>1
<1> DEFINE T == {k \in 0..n : c[k] \in TidyPlaces}
<1>8. 0..n \subseteq T
  <2>1. 0 \in T /\ \A k \in 1..n : k - 1 \in T => k \in T
    <3>1. 0 \in 0..n /\ \A k \in 1..n : k \in 0..n
      BY <1>1
    <3> QED BY <1>1, <1>7, <3>1, ReadMethodTidy
  <2> HIDE DEF T, n
  <2> QED BY <1>1, <2>1, EveryRound
<1> QED BY <1>1, <1>6, <1>8

LEMMA SuspendedKnown ==
  ASSUME NEW R, NEW e, e.fields \in KnownFields(R), e.methods \in [Methods -> TidyPlaces], NEW filter
  PROVE  Suspended(e, filter) \in KnownProperties(R)
<1> DEFINE f == [x \in Fields |->
                   IF e.fields[x].file \in filter THEN [e.fields[x] EXCEPT !.active = FALSE]
                   ELSE e.fields[x]]
           ms == [g \in Methods |->
                    [i \in DOMAIN e.methods[g] |->
                       [e.methods[g][i] EXCEPT !.active = @ /\ e.methods[g][i].file \notin filter]]]
<1>1. f \in KnownFields(R)
  <2>1. ASSUME NEW x \in Fields, NEW v \in Known(x, R)
        PROVE  [v EXCEPT !.active = FALSE] \in Known(x, R)
    <3> DEFINE w == [v EXCEPT !.active = FALSE]
    <3>1. w.kind = v.kind /\ w.to = v.to
      BY FieldShape DEF Known
    <3>2. CASE v = NoField
      <4>1. w = [a \in DOMAIN v |-> IF a = "active" THEN FALSE ELSE v[a]]
        BY Zenon
      <4>2. NoField = [a \in DOMAIN NoField |-> NoField[a]] /\ NoField.active = FALSE
        BY DEF NoField
      <4>3. w = NoField
        <5>1. \A a : (IF a = "active" THEN FALSE ELSE v[a]) = v[a]
          BY <3>2, <4>2
        <5> HIDE DEF w
        <5>2. w = [a \in DOMAIN v |-> v[a]]
          BY <4>1, <5>1
        <5> QED BY <3>2, <4>2, <5>2
      <4> HIDE DEF w
      <4>4. w \in Known(x, R)
        BY <3>2, <4>3
      <4> QED BY <4>4 DEF w
    <3>3. CASE v # NoField
      <4>1. w \in FieldSet
        BY <3>3 DEF FieldSet, Known
      <4> HIDE DEF w
      <4>2. w \in Known(x, R)
        BY <3>1, <4>1 DEF Known
      <4> QED BY <4>2 DEF w
    <3> QED BY <3>2, <3>3
  <2>2. \A x \in Fields : e.fields[x] \in Known(x, R) /\ e.fields[x] \in FieldSet
    BY DEF KnownFields
  <2>3. \A x \in Fields : f[x] \in Known(x, R)
    BY <2>1, <2>2
  <2>4. f = [x \in Fields |-> f[x]]
    OBVIOUS
  <2> HIDE DEF f
  <2>5. \A x \in Fields : f[x] \in FieldSet
    BY <2>3 DEF Known
  <2> QED BY <2>3, <2>4, <2>5 DEF KnownFields
<1>2. ms \in [Methods -> TidyPlaces]
  <2>1. ASSUME NEW g \in Methods PROVE ms[g] \in TidyPlaces
    <3> DEFINE s == e.methods[g]
               t == [i \in DOMAIN s |-> [s[i] EXCEPT !.active = @ /\ s[i].file \notin filter]]
    <3>1. ms[g] = t
      OBVIOUS
    <3>2. s \in Seq(LocationSet) /\ Tidy(s)
      BY DEF TidyPlaces
    <3> HIDE DEF s, ms
    <3>3. DOMAIN s = 1..Len(s) /\ Len(s) \in Nat
      BY <3>2
    <3>4. \A l \in LocationSet, b \in BOOLEAN :
             [l EXCEPT !.active = b] \in LocationSet /\ SameClass([l EXCEPT !.active = b], l)
      BY DEF LocationSet, SameClass
    <3>5. \A i \in DOMAIN s : t[i] \in LocationSet /\ SameClass(t[i], s[i])
      <4> SUFFICES ASSUME NEW i \in DOMAIN s PROVE t[i] \in LocationSet /\ SameClass(t[i], s[i])
        OBVIOUS
      <4> DEFINE b == s[i].active /\ s[i].file \notin filter
      <4>1. t[i] = [s[i] EXCEPT !.active = b]
        OBVIOUS
      <4>2. s[i] \in LocationSet
        BY <3>2
      <4>3. b \in BOOLEAN
        OBVIOUS
      <4> HIDE DEF t, b
      <4> QED BY <3>4, <4>1, <4>2, <4>3
    <3>6. t \in Seq(LocationSet) /\ DOMAIN t = DOMAIN s
      <4>1. t \in [1..Len(s) -> LocationSet]
        BY <3>3, <3>5
      <4> QED BY <3>3, <4>1
    <3> HIDE DEF t
    <3>7. DOMAIN s \subseteq Nat /\ \A i \in DOMAIN s : \A k \in DOMAIN s : i..k \subseteq DOMAIN s
      BY <3>3
    <3>8. Tidy(t)
      BY <3>2, <3>5, <3>6, <3>7, TidySame
    <3> QED BY <3>1, <3>6, <3>8 DEF TidyPlaces
  <2>2. ms = [g \in Methods |-> ms[g]]
    OBVIOUS
  <2> HIDE DEF ms
  <2> QED BY <2>1, <2>2
<1>3. Suspended(e, filter) = [fields |-> f, methods |-> ms]
  BY DEF Suspended
<1> HIDE DEF f, ms
<1> QED BY <1>1, <1>2, <1>3 DEF KnownProperties

LEMMA RetainedKnown ==
  ASSUME NEW R, NEW props \in KnownProperties(R), NEW filter
  PROVE  Retained(props, filter) \in KnownProperties(R)
<1> DEFINE f == [x \in Fields |-> IF props.fields[x].active THEN props.fields[x] ELSE NoField]
           ms == [g \in Methods |->
                    Kept(props.methods[g],
                         {i \in DOMAIN props.methods[g] : props.methods[g][i].active})]
<1>1. props.fields \in KnownFields(R) /\ props.methods \in [Methods -> TidyPlaces]
  BY DEF KnownProperties
<1>2. f \in KnownFields(R)
  <2>1. \A x \in Fields : NoField \in Known(x, R) /\ NoField \in FieldSet
    BY FieldShape DEF Known, NoField
  <2> QED BY <1>1, <2>1 DEF KnownFields
<1>3. ms \in [Methods -> TidyPlaces]
  <2>1. \A s \in TidyPlaces : \A I : Kept(s, I) \in TidyPlaces
    BY KeptChoice, TidyKept DEF TidyPlaces
  <2> QED BY <1>1, <2>1
<1>4. Retained(props, filter) = IF filter = {} THEN props ELSE [fields |-> f, methods |-> ms]
  BY DEF Retained
<1> HIDE DEF f, ms
<1> QED BY <1>2, <1>3, <1>4 DEF KnownProperties

LEMMA InheritedFromKnown ==
  ASSUME NEW R, NEW props \in KnownProperties(R), NEW e, e.fields \in KnownFields(R),
         e.methods \in [Methods -> TidyPlaces]
  PROVE  InheritedFrom(props, e) \in KnownProperties(R)
<1> DEFINE f == [x \in Fields |-> IF e.fields[x] = NoField THEN props.fields[x]
                                  ELSE FieldMerge(props.fields[x], e.fields[x])]
           ms == [g \in Methods |-> IF e.methods[g] = <<>> THEN props.methods[g]
                                    ELSE MethodMerge(props.methods[g], e.methods[g])]
<1>1. props.fields \in KnownFields(R) /\ props.methods \in [Methods -> TidyPlaces]
  BY DEF KnownProperties
<1>2. f \in KnownFields(R)
  <2>1. \A x \in Fields : props.fields[x] \in Known(x, R) /\ e.fields[x] \in Known(x, R)
    BY <1>1 DEF KnownFields
  <2>2. \A x \in Fields : f[x] \in Known(x, R)
    BY <2>1, FieldMergeKnown
  <2>3. f = [x \in Fields |-> f[x]]
    OBVIOUS
  <2> HIDE DEF f
  <2>4. \A x \in Fields : f[x] \in FieldSet
    BY <2>2 DEF Known
  <2> QED BY <2>2, <2>3, <2>4 DEF KnownFields
<1>3. ms \in [Methods -> TidyPlaces]
  <2>1. \A g \in Methods : props.methods[g] \in TidyPlaces /\ e.methods[g] \in TidyPlaces
    BY <1>1
  <2> QED BY <2>1, MethodMergeKeeps
<1>4. InheritedFrom(props, e) = [fields |-> f, methods |-> ms]
  BY DEF InheritedFrom
<1> HIDE DEF f, ms
<1> QED BY <1>2, <1>3, <1>4 DEF KnownProperties

LEMMA OwnKnown ==
  ASSUME NEW R, NEW d, NEW reads \in Seq(LegiblePlaces(d, R)), NEW props \in KnownProperties(R)
  PROVE  Own(d, reads, props) \in KnownProperties(R)
<1> DEFINE f == [x \in Fields |-> OwnField(d, reads, x, props.fields[x])]
           ms == [g \in Methods |-> OwnMethod(d, reads, g, props.methods[g])]
<1>1. props.fields \in KnownFields(R) /\ props.methods \in [Methods -> TidyPlaces]
  BY DEF KnownProperties
<1>2. f \in KnownFields(R)
  <2>1. \A x \in Fields : props.fields[x] \in Known(x, R)
    BY <1>1 DEF KnownFields
  <2>2. \A x \in Fields : f[x] \in Known(x, R)
    BY <2>1, OwnFieldKnown
  <2>3. f = [x \in Fields |-> f[x]]
    OBVIOUS
  <2> HIDE DEF f
  <2>4. \A x \in Fields : f[x] \in FieldSet
    BY <2>2 DEF Known
  <2> QED BY <2>2, <2>3, <2>4 DEF KnownFields
<1>3. ms \in [Methods -> TidyPlaces]
  <2>1. \A g \in Methods : props.methods[g] \in TidyPlaces
    BY <1>1
  <2> QED BY <2>1, OwnMethodTidy
<1>4. Own(d, reads, props) = [fields |-> f, methods |-> ms]
  BY DEF Own
<1> HIDE DEF f, ms
<1> QED BY <1>2, <1>3, <1>4 DEF KnownProperties

LEMMA OwnNamesKnown ==
  ASSUME NEW R, NEW d, NEW reads \in Seq(LegiblePlaces(d, R))
  PROVE  OwnNames(d, reads) \subseteq Fields \cup Methods
<1>1. \A i \in DOMAIN reads : reads[i] \in LegiblePlaces(d, R)
  OBVIOUS
<1>2. \A i \in DOMAIN reads : NamesIn(ClassAt(d, reads[i])) \subseteq Fields \cup Methods
  BY <1>1 DEF LegiblePlaces, Legible, NamesIn
<1> QED BY <1>2 DEF OwnNames

----------------------------------------------------------------------------
(* Entries.  P is the places classes may be at, E what models inherit: the *)
(* pairs of a model and an ancestor that a class gives it.                 *)

Ancestry(m, E) == {s \in Seq(Models) : \A i \in DOMAIN s : <<m, s[i]>> \in E}
Shape(m, P, E, R) ==
  [present : BOOLEAN, base : P \cup {NoPlace}, descendants : Seq(P), ancestors : Ancestry(m, E),
   populated : BOOLEAN, fields : KnownFields(R), methods : [Methods -> TidyPlaces],
   names : SUBSET (Fields \cup Methods), deleted : BOOLEAN]
Sound(m, P, E, R) ==
  {e \in Shape(m, P, E, R) : ~e.deleted /\ (~e.present => e = Absent)}
Tables(P, E, R) ==
  {t \in [Models -> UNION {Sound(m, P, E, R) : m \in Models}] :
     \A m \in Models : t[m] \in Sound(m, P, E, R)}

LEMMA AncestryParts ==
  ASSUME NEW m, NEW E
  PROVE  /\ <<>> \in Ancestry(m, E)
         /\ \A s \in Ancestry(m, E) : \A t \in Ancestry(m, E) : s \o t \in Ancestry(m, E)
         /\ \A s \in Ancestry(m, E) : \A I : Kept(s, I) \in Ancestry(m, E)
         /\ \A s \in Ancestry(m, E) :
              s # <<>> => Tail(s) \in Ancestry(m, E) /\ Head(s) \in Models /\ <<m, Head(s)>> \in E
<1>1. <<>> \in Ancestry(m, E)
  BY DEF Ancestry
<1>2. ASSUME NEW s \in Ancestry(m, E), NEW t \in Ancestry(m, E) PROVE s \o t \in Ancestry(m, E)
  <2>1. s \in Seq(Models) /\ t \in Seq(Models)
    BY DEF Ancestry
  <2>2. /\ s \o t \in Seq(Models) /\ Len(s \o t) = Len(s) + Len(t)
        /\ \A i \in 1..(Len(s) + Len(t)) : (s \o t)[i] = IF i <= Len(s) THEN s[i] ELSE t[i - Len(s)]
    BY <2>1, ConcatProperties
  <2>3. ASSUME NEW i \in 1..(Len(s) + Len(t)) PROVE <<m, (s \o t)[i]>> \in E
    <3>1. i <= Len(s) => i \in DOMAIN s
      BY <2>1
    <3>2. ~(i <= Len(s)) => i - Len(s) \in DOMAIN t
      BY <2>1
    <3> QED BY <2>2, <2>3, <3>1, <3>2 DEF Ancestry
  <2>4. DOMAIN (s \o t) = 1..(Len(s) + Len(t))
    BY <2>2
  <2> QED BY <2>2, <2>3, <2>4 DEF Ancestry
<1>3. ASSUME NEW s \in Ancestry(m, E), NEW I PROVE Kept(s, I) \in Ancestry(m, E)
  <2>1. s \in Seq(Models)
    BY DEF Ancestry
  <2>2. Kept(s, I) \in Seq(Models) /\ \E g : Choice(s, I, Kept(s, I), g)
    BY <2>1, KeptChoice
  <2> QED BY <2>2 DEF Choice, Ancestry
<1>4. ASSUME NEW s \in Ancestry(m, E), s # <<>>
      PROVE  Tail(s) \in Ancestry(m, E) /\ Head(s) \in Models /\ <<m, Head(s)>> \in E
  <2>1. s \in Seq(Models) /\ 1 \in DOMAIN s /\ Head(s) = s[1]
    BY <1>4, EmptySeq DEF Ancestry
  <2>2. /\ Tail(s) \in Seq(Models) /\ Head(s) \in Models /\ Len(Tail(s)) = Len(s) - 1
        /\ \A i \in 1..Len(Tail(s)) : Tail(s)[i] = s[i + 1]
    BY <1>4, <2>1, HeadTailProperties
  <2>3. ASSUME NEW i \in DOMAIN Tail(s) PROVE <<m, Tail(s)[i]>> \in E
    <3>1. i \in 1..Len(Tail(s)) /\ i + 1 \in DOMAIN s
      BY <2>1, <2>2
    <3> QED BY <2>2, <3>1 DEF Ancestry
  <2> QED BY <2>1, <2>2, <2>3 DEF Ancestry
<1> QED BY <1>1, <1>2, <1>3, <1>4

LEMMA AbsentSound ==
  ASSUME NEW m, NEW P, NEW E, NEW R
  PROVE  /\ Absent \in Sound(m, P, E, R) /\ ~Absent.present
         /\ Unread \in KnownFields(R) /\ Absent.methods \in [Methods -> TidyPlaces]
<1>1. Unread \in KnownFields(R)
  <2>1. \A x \in Fields : NoField \in Known(x, R) /\ NoField \in FieldSet
    BY FieldShape DEF Known, NoField
  <2> QED BY <2>1 DEF KnownFields, Unread
<1>2. [g \in Methods |-> <<>>] \in [Methods -> TidyPlaces]
  BY DEF TidyPlaces, Tidy
<1>3. <<>> \in Seq(P) /\ <<>> \in Ancestry(m, E)
  BY DEF Ancestry
<1>4. Absent \in Shape(m, P, E, R)
  BY <1>1, <1>2, <1>3 DEF Absent, Shape
<1> QED BY <1>1, <1>2, <1>4 DEF Absent, Sound

\* What changes of an entry that is there leaves it sound.
LEMMA ChangedSound ==
  ASSUME NEW m, NEW P, NEW E, NEW R, NEW e \in Sound(m, P, E, R)
  PROVE  /\ OrDefault(e) \in Sound(m, P, E, R) /\ OrDefault(e).present
         /\ OrDefault(e).base = e.base /\ OrDefault(e).ancestors = e.ancestors
         /\ OrDefault(e).descendants = e.descendants
         /\ e.present => 
              /\ \A p \in P, s \in Ancestry(m, E) :
                   /\ [e EXCEPT !.base = p, !.ancestors = s] \in Sound(m, P, E, R)
                   /\ [e EXCEPT !.base = p, !.ancestors = s].present
              /\ \A ds \in Seq(P), s \in Ancestry(m, E) :
                   /\ [e EXCEPT !.descendants = ds, !.ancestors = s] \in Sound(m, P, E, R)
                   /\ [e EXCEPT !.descendants = ds, !.ancestors = s].present
              /\ \A s \in Ancestry(m, E) :
                   /\ [e EXCEPT !.ancestors = s] \in Sound(m, P, E, R)
                   /\ [e EXCEPT !.ancestors = s].present
<1>1. e \in Shape(m, P, E, R) /\ ~e.deleted
  BY DEF Sound
<1>2. /\ OrDefault(e) \in Shape(m, P, E, R) /\ OrDefault(e).present /\ ~OrDefault(e).deleted
      /\ OrDefault(e).base = e.base /\ OrDefault(e).ancestors = e.ancestors
      /\ OrDefault(e).descendants = e.descendants
  BY <1>1 DEF OrDefault, Shape
<1>3. ASSUME e.present, NEW p \in P, NEW s \in Ancestry(m, E)
      PROVE  /\ [e EXCEPT !.base = p, !.ancestors = s] \in Shape(m, P, E, R)
             /\ [e EXCEPT !.base = p, !.ancestors = s].present
             /\ ~[e EXCEPT !.base = p, !.ancestors = s].deleted
  BY <1>1, <1>3 DEF Shape
<1>4. ASSUME e.present, NEW ds \in Seq(P), NEW s \in Ancestry(m, E)
      PROVE  /\ [e EXCEPT !.descendants = ds, !.ancestors = s] \in Shape(m, P, E, R)
             /\ [e EXCEPT !.descendants = ds, !.ancestors = s].present
             /\ ~[e EXCEPT !.descendants = ds, !.ancestors = s].deleted
  BY <1>1, <1>4 DEF Shape
<1>5. ASSUME e.present, NEW s \in Ancestry(m, E)
      PROVE  /\ [e EXCEPT !.ancestors = s] \in Shape(m, P, E, R)
             /\ [e EXCEPT !.ancestors = s].present
             /\ ~[e EXCEPT !.ancestors = s].deleted
  BY <1>1, <1>5 DEF Shape
<1> QED BY <1>2, <1>3, <1>4, <1>5 DEF Sound

\* What classes are found to be.
Items(E) ==
  {item \in Item : /\ item.all \in Seq(Models) /\ Further(item) \in Ancestry(item.name, E)
                   /\ item.is = "inherit" => item.all # <<>>}
\* The places of a file are all known.
FileIn(f, P) == f \in Files /\ \A p \in PlaceSet : p.file = f => p \in P

\* A table with an entry in another's stead.
LEMMA TableWith ==
  ASSUME NEW P, NEW E, NEW R, NEW t \in Tables(P, E, R), NEW m \in Models, NEW e \in Sound(m, P, E, R)
  PROVE  [t EXCEPT ![m] = e] \in Tables(P, E, R)
BY DEF Tables

LEMMA AppendItemSound ==
  ASSUME NEW P, NEW E, NEW R, NEW t \in Tables(P, E, R), NEW f, FileIn(f, P),
         NEW replace \in BOOLEAN, NEW item \in Items(E)
  PROVE  /\ AppendItem(t, f, replace, item) \in Tables(P, E, R)
         /\ \A m \in Models : t[m].present => AppendItem(t, f, replace, item)[m].present
         /\ AppendItem(t, f, replace, item)[item.name].present
<1> DEFINE n == item.name
           p == Place(f, item)
<1>1. n \in Models /\ item.is \in {"base", "inherit"} /\ Further(item) \in Ancestry(n, E)
  BY DEF Items, Item
<1>2. p \in P
  <2>1. p \in PlaceSet /\ p.file = f
    BY DEF Place, PlaceSet, FileIn, Items, Item
  <2> QED BY <2>1 DEF FileIn
<1>3. \A m \in Models : t[m] \in Sound(m, P, E, R)
  BY DEF Tables
<1> HIDE DEF p
<1>4. CASE item.is = "base"
  <2> DEFINE e == OrDefault(t[n])
             new == [e EXCEPT !.base = p, !.ancestors = @ \o item.all]
             u == IF e.base = NoPlace \/ replace THEN new ELSE e
  <2>1. AppendItem(t, f, replace, item) = [t EXCEPT ![n] = u]
    BY <1>4 DEF AppendItem, AppendBase, p
  <2>2. e \in Sound(n, P, E, R) /\ e.present
    BY <1>1, <1>3, ChangedSound
  <2> HIDE DEF e
  <2>3. e.ancestors \in Ancestry(n, E) /\ item.all \in Ancestry(n, E)
    BY <1>1, <1>4, <2>2 DEF Sound, Shape, Further
  <2>4. e.ancestors \o item.all \in Ancestry(n, E)
    BY <2>3, AncestryParts
  <2>5. new \in Sound(n, P, E, R) /\ new.present
    <3> DEFINE s == e.ancestors \o item.all
    <3>1. s \in Ancestry(n, E) /\ new = [e EXCEPT !.base = p, !.ancestors = s]
      BY <2>4
    <3> HIDE DEF s, new
    <3> QED BY <1>2, <2>2, <3>1, ChangedSound
  <2> HIDE DEF new
  <2>6. u \in Sound(n, P, E, R) /\ u.present
    BY <2>2, <2>5
  <2> HIDE DEF u
  <2>7. [t EXCEPT ![n] = u] \in Tables(P, E, R)
    BY <1>1, <2>6, TableWith
  <2>8. \A m \in Models : [t EXCEPT ![n] = u][m] = IF m = n THEN u ELSE t[m]
    BY DEF Tables
  <2> QED BY <1>1, <2>1, <2>6, <2>7, <2>8
<1>5. CASE item.is = "inherit"
  <2> DEFINE v == IF replace THEN Forgotten(t, f, item) ELSE t
             e == OrDefault(v[n])
             new == [e EXCEPT !.descendants = Append(@, p), !.ancestors = @ \o Further(item)]
  <2>1. AppendItem(t, f, replace, item) = [v EXCEPT ![n] = new]
    <3>1. AppendItem(t, f, replace, item) = AppendInherit(t, f, replace, item)
      BY <1>5 DEF AppendItem
    <3>2. AppendInherit(t, f, replace, item) = [v EXCEPT ![n] = new]
      BY DEF AppendInherit, p
    <3> QED BY <3>1, <3>2
  <2>2. v \in Tables(P, E, R) /\ \A m \in Models : t[m].present => v[m].present
    <3> DEFINE w(m) == [t[m] EXCEPT !.descendants = Kept(@, {i \in DOMAIN @ : @[i].file # f})]
    <3>1. ASSUME NEW m \in Models
          PROVE  w(m) \in Sound(m, P, E, R) /\ (t[m].present => w(m).present)
      <4>1. t[m] \in Sound(m, P, E, R) /\ t[m].descendants \in Seq(P) /\ t[m].ancestors \in Ancestry(m, E)
        BY <1>3 DEF Sound, Shape
      <4> DEFINE ds == Kept(t[m].descendants, {i \in DOMAIN t[m].descendants : t[m].descendants[i].file # f})
      <4>2. ds \in Seq(P)
        BY <4>1, KeptChoice
      <4>3. w(m) = [t[m] EXCEPT !.descendants = ds]
        OBVIOUS
      <4>4. CASE t[m].present
        <5>1. ds \in Seq(P) /\ t[m].ancestors \in Ancestry(m, E)
          BY <4>1, <4>2
        <5> HIDE DEF ds
        <5>2. [t[m] EXCEPT !.descendants = ds] \in Shape(m, P, E, R)
          BY <4>1, <5>1 DEF Sound, Shape
        <5>3. [t[m] EXCEPT !.descendants = ds].present /\ ~[t[m] EXCEPT !.descendants = ds].deleted
          BY <4>1, <4>4 DEF Sound, Shape
        <5> HIDE DEF w
        <5> QED BY <4>3, <5>2, <5>3 DEF Sound
      <4>5. CASE ~t[m].present
        <5>1. t[m] = Absent
          BY <4>1, <4>5 DEF Sound
        <5>2. t[m].descendants = <<>>
          BY <5>1 DEF Absent
        <5>3. Len(<<>>) = 0 /\ <<>> \in Seq(P)
          OBVIOUS
        <5>4. ds = <<>>
          <6>1. PICK g : Choice(t[m].descendants, {i \in DOMAIN t[m].descendants : t[m].descendants[i].file # f}, ds, g)
            BY <4>1, KeptChoice
          <6> HIDE DEF ds
          <6>2. DOMAIN ds = {}
            <7>1. \A j \in DOMAIN ds : g[j] \in DOMAIN <<>>
              BY <5>2, <6>1 DEF Choice
            <7>2. DOMAIN <<>> = {}
              OBVIOUS
            <7> QED BY <7>1, <7>2, Zenon
          <6> QED BY <4>2, <6>2, EmptySeq
        <5>5. w(m) = t[m]
          <6>1. w(m) = [a \in DOMAIN Absent |-> IF a = "descendants" THEN <<>> ELSE Absent[a]]
            BY <4>3, <5>1, <5>4, Zenon
          <6>2. Absent = [a \in {"present", "base", "descendants", "ancestors", "populated", "fields",
                                 "methods", "names", "deleted"} |-> Absent[a]]
            BY DEF Absent
          <6> HIDE DEF w
          <6> QED BY <5>1, <6>1, <6>2 DEF Absent
        <5> HIDE DEF w
        <5> QED BY <4>1, <4>5, <5>5
      <4> QED BY <4>4, <4>5
    <3>2. Forgotten(t, f, item) = [m \in Models |-> IF m \in Range(item.all) THEN w(m) ELSE t[m]]
      BY DEF Forgotten
    <3> HIDE DEF w
    <3>3. \A m \in Models : Forgotten(t, f, item)[m] \in Sound(m, P, E, R)
      BY <1>3, <3>1, <3>2
    <3>4. \A m \in Models : t[m].present => Forgotten(t, f, item)[m].present
      BY <3>1, <3>2
    <3>5. Forgotten(t, f, item) \in [Models -> UNION {Sound(m, P, E, R) : m \in Models}]
      BY <3>2, <3>3
    <3> QED BY <3>3, <3>4, <3>5 DEF Tables
  <2> HIDE DEF v
  <2>3. e \in Sound(n, P, E, R) /\ e.present
    <3>1. v[n] \in Sound(n, P, E, R)
      BY <1>1, <2>2 DEF Tables
    <3> QED BY <3>1, ChangedSound
  <2> HIDE DEF e
  <2>4. e.ancestors \in Ancestry(n, E) /\ e.descendants \in Seq(P)
    BY <2>3 DEF Sound, Shape
  <2>5. e.ancestors \o Further(item) \in Ancestry(n, E) /\ Append(e.descendants, p) \in Seq(P)
    BY <1>1, <1>2, <2>4, AncestryParts
  <2>6. new \in Sound(n, P, E, R) /\ new.present
    BY <2>3, <2>5, ChangedSound
  <2> HIDE DEF new
  <2>7. [v EXCEPT ![n] = new] \in Tables(P, E, R)
    BY <1>1, <2>2, <2>6, TableWith
  <2>8. \A m \in Models : [v EXCEPT ![n] = new][m] = IF m = n THEN new ELSE v[m]
    BY <2>2 DEF Tables
  <2> QED BY <1>1, <2>1, <2>2, <2>6, <2>7, <2>8
<1> QED BY <1>1, <1>4, <1>5

\* append, one item after the other.
LEMMA AppendAllRuns ==
  ASSUME NEW P, NEW E, NEW R, NEW t \in Tables(P, E, R), NEW f, FileIn(f, P),
         NEW replace \in BOOLEAN, NEW items \in Seq(Items(E))
  PROVE  \E c : /\ c[0] = t /\ AppendAll(t, f, replace, items) = c[Len(items)]
                /\ \A k \in 1..Len(items) : c[k] = AppendItem(c[k - 1], f, replace, items[k])
<1> DEFINE n == Len(items)
           S == Tables(P, E, R)
           step == [q \in S \X (1..n) |-> AppendItem(q[1], f, replace, items[q[2]])]
           Is(a) == a = [k \in 0..n |-> IF k = 0 THEN t ELSE AppendItem(a[k - 1], f, replace, items[k])]
<1>1. n \in Nat /\ \A k \in 1..n : items[k] \in Items(E)
  OBVIOUS
<1>2. \A y \in S, k \in 1..n :
        step[<<y, k>>] = AppendItem(y, f, replace, items[k]) /\ step[<<y, k>>] \in S
  BY <1>1, AppendItemSound
<1> HIDE DEF S
<1>3. PICK at \in [0..n -> S] : Rounds(at, n, t, step)
  <2>1. n \in Nat /\ t \in S /\ \A y \in S, k \in 1..n : step[<<y, k>>] \in S
    BY <1>1, <1>2 DEF S
  <2> HIDE DEF step, n
  <2> QED BY <2>1, LoopRuns
<1>4. Is(at)
  <2>1. ASSUME NEW k \in 0..n
        PROVE  at[k] = IF k = 0 THEN t ELSE AppendItem(at[k - 1], f, replace, items[k])
    <3>1. k # 0 => k - 1 \in 0..n /\ k \in 1..n
      BY <1>1
    <3>2. k # 0 => at[k - 1] \in S
      BY <1>3, <3>1
    <3> HIDE DEF step
    <3> QED BY <1>2, <1>3, <3>1, <3>2 DEF Rounds
  <2> HIDE DEF step
  <2> QED BY <1>3, <2>1
<1> DEFINE c == CHOOSE a : Is(a)
<1>5. Is(c)
  <2> HIDE DEF Is
  <2> QED BY <1>4
<1>6. AppendAll(t, f, replace, items) = c[n]
  BY DEF AppendAll
<1> HIDE DEF c
<1>7. c[0] = t /\ \A k \in 1..n : c[k] = AppendItem(c[k - 1], f, replace, items[k])
  <2>1. 0 \in 0..n /\ \A k \in 1..n : k \in 0..n /\ k # 0
    BY <1>1
  <2> QED BY <1>5, <2>1
<1> HIDE DEF n
<1>8. \E a : /\ a[0] = t /\ AppendAll(t, f, replace, items) = a[n]
            /\ \A k \in 1..n : a[k] = AppendItem(a[k - 1], f, replace, items[k])
  BY <1>6, <1>7
<1> QED BY <1>8 DEF n

LEMMA AppendAllSound ==
  ASSUME NEW P, NEW E, NEW R, NEW t \in Tables(P, E, R), NEW f, FileIn(f, P),
         NEW replace \in BOOLEAN, NEW items \in Seq(Items(E))
  PROVE  /\ AppendAll(t, f, replace, items) \in Tables(P, E, R)
         /\ \A i \in DOMAIN items : AppendAll(t, f, replace, items)[items[i].name].present
<1> DEFINE n == Len(items)
           S == Tables(P, E, R)
<1>1. n \in Nat /\ \A k \in 1..n : items[k] \in Items(E)
  OBVIOUS
<1>6. PICK c : /\ c[0] = t /\ AppendAll(t, f, replace, items) = c[n]
               /\ \A k \in 1..n : c[k] = AppendItem(c[k - 1], f, replace, items[k])
  BY AppendAllRuns
<1> HIDE DEF S
<1> DEFINE T == {k \in 0..n : c[k] \in S /\ \A i \in 1..k : c[k][items[i].name].present}
<1>8. 0..n \subseteq T
  <2>1. 0 \in T
    <3>1. 0 \in 0..n /\ 1..0 = {}
      BY <1>1
    <3> QED BY <1>6, <3>1 DEF S
  <2>2. ASSUME NEW k \in 1..n, k - 1 \in T PROVE k \in T
    <3>1. c[k - 1] \in Tables(P, E, R) /\ items[k] \in Items(E) /\ k \in 0..n
      BY <1>1, <2>2 DEF S
    <3>2. /\ c[k] \in Tables(P, E, R) /\ c[k][items[k].name].present
          /\ \A m \in Models : c[k - 1][m].present => c[k][m].present
      BY <1>6, <3>1, AppendItemSound
    <3>3. ASSUME NEW i \in 1..k PROVE c[k][items[i].name].present
      <4>1. i = k \/ i \in 1..(k - 1)
        BY <1>1
      <4>2. i \in 1..n
        BY <1>1
      <4>3. items[i].name \in Models
        BY <1>1, <4>2 DEF Items, Item
      <4> QED BY <2>2, <3>2, <4>1, <4>3
    <3> QED BY <3>1, <3>2, <3>3 DEF S
  <2> HIDE DEF T, n
  <2> QED BY <1>1, <2>1, <2>2, EveryRound
<1>9. n \in T
  BY <1>1, <1>8
<1>10. DOMAIN items = 1..n
  OBVIOUS
<1> HIDE DEF n
<1> QED BY <1>6, <1>9, <1>10 DEF S

\* What populate_properties takes, and what it puts back.
LEMMA TakenSound ==
  ASSUME NEW m, NEW P, NEW E, NEW R, NEW e \in Sound(m, P, E, R)
  PROVE  /\ Taken(e) \in Sound(m, P, E, R) /\ ~Taken(e).populated /\ (e.present => Taken(e).present)
         /\ \A filter : Suspended(e, filter) \in KnownProperties(R)
         /\ e.ancestors \in Ancestry(m, E) /\ e.names \subseteq Fields \cup Methods
<1>1. e \in Shape(m, P, E, R) /\ ~e.deleted /\ (~e.present => e = Absent)
  BY DEF Sound
<1>2. Unread \in KnownFields(R) /\ Absent.methods \in [Methods -> TidyPlaces]
  BY AbsentSound
<1>3. /\ Taken(e) \in Shape(m, P, E, R) /\ ~Taken(e).deleted /\ ~Taken(e).populated
      /\ Taken(e).present = e.present
  BY <1>1, <1>2 DEF Taken, Shape
<1>4. e = Absent => Taken(e) = Absent
  <2>1. Taken(e) = [a \in DOMAIN e |-> IF a = "populated" THEN FALSE ELSE IF a = "fields" THEN Unread
                                        ELSE IF a = "methods" THEN Absent.methods
                                        ELSE IF a = "names" THEN {} ELSE e[a]]
    BY DEF Taken
  <2>2. Absent = [a \in {"present", "base", "descendants", "ancestors", "populated", "fields",
                         "methods", "names", "deleted"} |-> Absent[a]]
    BY DEF Absent
  <2>3. Absent.populated = FALSE /\ Absent.fields = Unread /\ Absent.names = {}
    BY DEF Absent
  <2> QED BY <2>1, <2>2, <2>3
<1>5. e.fields \in KnownFields(R) /\ e.methods \in [Methods -> TidyPlaces]
  BY <1>1 DEF Shape
<1>6. \A filter : Suspended(e, filter) \in KnownProperties(R)
  BY <1>5, SuspendedKnown
<1>7. e.ancestors \in Ancestry(m, E) /\ e.names \subseteq Fields \cup Methods
  BY <1>1 DEF Shape
<1> QED BY <1>1, <1>3, <1>4, <1>6, <1>7 DEF Sound

LEMMA StoreSound ==
  ASSUME NEW m, NEW P, NEW E, NEW R, NEW e \in Sound(m, P, E, R), e.present,
         NEW props \in KnownProperties(R), NEW names \in SUBSET (Fields \cup Methods)
  PROVE  /\ Store(e, props, names) \in Sound(m, P, E, R)
         /\ Store(e, props, names).present /\ Store(e, props, names).populated
<1>1. e \in Shape(m, P, E, R) /\ ~e.deleted
  BY DEF Sound
<1>2. props.fields \in KnownFields(R) /\ props.methods \in [Methods -> TidyPlaces]
  BY DEF KnownProperties
<1>3. /\ Store(e, props, names) \in Shape(m, P, E, R) /\ ~Store(e, props, names).deleted
      /\ Store(e, props, names).present /\ Store(e, props, names).populated
  BY <1>1, <1>2 DEF Store, Shape
<1> QED BY <1>3 DEF Sound

\* The classes that are read of a model are at its places.
LEMMA ReadPlaces ==
  ASSUME NEW m, NEW P, NEW E, NEW R, NEW e \in Sound(m, P, E, R), NEW filter
  PROVE  ToRead(e, filter) \in Seq(P)
<1>1. e.base \in P \cup {NoPlace} /\ e.descendants \in Seq(P)
  BY DEF Sound, Shape
<1> DEFINE b == IF e.base = NoPlace THEN <<>> ELSE <<e.base>>
<1>2. b \in Seq(P)
  BY <1>1
<1>3. Places(e) \in Seq(P)
  <2>1. Places(e) = b \o e.descendants
    BY DEF Places
  <2> HIDE DEF b
  <2> QED BY <1>1, <1>2, <2>1, ConcatProperties
<1> QED BY <1>3, KeptChoice DEF ToRead

\* A field that was followed to its end.
Becomes(u, t, m, e) == u = [t EXCEPT ![m] = e]
LEMMA SettledSound ==
  ASSUME NEW P, NEW E, NEW R, NEW t \in Tables(P, E, R), NEW m \in Models, NEW x \in Fields,
         NEW to \in Models, t[m].present, t[m].fields[x] # NoField,
         NEW u, Becomes(u, t, m, Settled(t[m], x, to))
  PROVE  /\ u \in Tables(P, E, R)
         /\ \A n \in Models : u[n].present = t[n].present /\ u[n].populated = t[n].populated
         /\ \A n \in Models : \A y \in Fields : ~(n = m /\ y = x) => u[n].fields[y] = t[n].fields[y]
         /\ u[m].fields[x].kind = "relational"
<1> DEFINE e == t[m]
           v == e.fields[x]
           w == [v EXCEPT !.kind = "relational", !.to = to]
           fs == [e.fields EXCEPT ![x] = w]
           new == [e EXCEPT !.fields = fs]
<1>1. e \in Shape(m, P, E, R) /\ ~e.deleted /\ e.present /\ e.fields \in KnownFields(R)
  BY DEF Tables, Sound, Shape
<1>2. v \in FieldSet /\ v # NoField
  BY <1>1 DEF KnownFields
<1>3. w \in FieldSet /\ w.kind = "relational"
  BY <1>2 DEF FieldSet
<1>4. w \in Known(x, R)
  <2> HIDE DEF w
  <2> QED BY <1>3 DEF Known
<1>5. fs \in KnownFields(R) /\ fs[x] = w /\ \A y \in Fields : y # x => fs[y] = e.fields[y]
  <2> HIDE DEF w
  <2> QED BY <1>1, <1>3, <1>4 DEF KnownFields
<1>6. /\ new \in Shape(m, P, E, R) /\ ~new.deleted /\ new.present /\ new.populated = e.populated
      /\ new.fields = fs
  <2> HIDE DEF fs
  <2> QED BY <1>1, <1>5 DEF Shape
<1>7. Becomes(u, t, m, new)
  BY DEF Settled
<1>8. new \in Sound(m, P, E, R)
  <2> HIDE DEF new
  <2> QED BY <1>6 DEF Sound
<1>9. u \in Tables(P, E, R)
  <2> HIDE DEF new
  <2>1. [t EXCEPT ![m] = new] \in Tables(P, E, R)
    BY <1>8, TableWith
  <2> QED BY <1>7, <2>1 DEF Becomes
<1>10. \A n \in Models : u[n] = IF n = m THEN new ELSE t[n]
  BY <1>7 DEF Tables, Becomes
<1> HIDE DEF new
<1> HIDE DEF fs, w
<1>11. ASSUME NEW n \in Models
       PROVE  /\ u[n].present = t[n].present /\ u[n].populated = t[n].populated
              /\ \A y \in Fields : ~(n = m /\ y = x) => u[n].fields[y] = t[n].fields[y]
  <2>1. CASE n = m
    <3>1. u[n] = new
      BY <1>10, <2>1
    <3> QED BY <1>5, <1>6, <2>1, <3>1
  <2>2. CASE n # m
    BY <1>10, <2>2
  <2> QED BY <2>1, <2>2
<1>12. u[m].fields[x].kind = "relational"
  BY <1>3, <1>5, <1>6, <1>10
<1> QED BY <1>9, <1>11, <1>12

\* A root's models go, and with them the ancestors they are: those that are looked
\* at before the map locks itself out, if it does.
LEMMA DeleteMarkedSound ==
  ASSUME NEW P, NEW E, NEW R, NEW t \in Tables(P, E, R), NEW r, NEW done
  PROVE  LET k == Remaining(Marked(t, r))
         IN  [m \in Models |-> IF m \in done THEN Pruned(k, m) ELSE k[m]] \in Tables(P, E, R)
<1> DEFINE u == Marked(t, r)
           kept == Remaining(u)
           as(m) == Kept(kept[m].ancestors,
                         {i \in DOMAIN kept[m].ancestors : kept[kept[m].ancestors[i]].present})
           new(m) == Pruned(kept, m)
           last == [m \in Models |-> IF m \in done THEN new(m) ELSE kept[m]]
<1>0. \A m \in Models :
        /\ kept[m] = IF u[m].deleted THEN Absent ELSE u[m]
        /\ new(m) = IF Len(as(m)) = Len(kept[m].ancestors) THEN kept[m]
                    ELSE [kept[m] EXCEPT !.ancestors = as(m), !.populated = FALSE, !.fields = Unread,
                                         !.methods = Absent.methods]
  BY DEF Remaining, Pruned
<1> HIDE DEF new, kept
<1>1. ASSUME NEW m \in Models PROVE kept[m] \in Sound(m, P, E, R)
  <2>1. t[m] \in Shape(m, P, E, R) /\ ~t[m].deleted /\ (~t[m].present => t[m] = Absent)
    BY DEF Tables, Sound
  <2> DEFINE b == t[m].deleted \/ (t[m].base # NoPlace /\ RootOf[t[m].base.file] = r)
  <2>2. u[m] = [t[m] EXCEPT !.deleted = b]
    BY DEF Marked
  <2>3. b \in BOOLEAN
    <3>1. t[m].deleted \in BOOLEAN
      BY <2>1 DEF Shape
    <3> QED BY <3>1
  <2>4. u[m] \in Shape(m, P, E, R) /\ u[m].deleted = b /\ u[m].present = t[m].present
    <3> HIDE DEF b, u
    <3> QED BY <2>1, <2>2, <2>3 DEF Shape
  <2>5. ~b /\ ~t[m].present => u[m] = Absent
    <3> SUFFICES ASSUME ~b, ~t[m].present PROVE u[m] = Absent
      OBVIOUS
    <3>1. t[m] = Absent
      BY <2>1
    <3>2. b = FALSE
      BY <2>3
    <3> HIDE DEF b
    <3>3. [Absent EXCEPT !.deleted = FALSE] = [a \in DOMAIN Absent |-> IF a = "deleted" THEN FALSE ELSE Absent[a]]
      BY Zenon
    <3>4. Absent = [a \in {"present", "base", "descendants", "ancestors", "populated", "fields",
                           "methods", "names", "deleted"} |-> Absent[a]]
      BY DEF Absent
    <3>5. [Absent EXCEPT !.deleted = FALSE] = Absent
      BY <3>3, <3>4 DEF Absent
    <3> HIDE DEF u
    <3> QED BY <2>2, <3>1, <3>2, <3>5
  <2> HIDE DEF u, b
  <2>6. CASE b
    <3>1. kept[m] = Absent
      BY <1>0, <2>4, <2>6
    <3> QED BY <3>1, AbsentSound
  <2>7. CASE ~b
    <3>1. kept[m] = u[m]
      BY <1>0, <2>4, <2>7
    <3>2. ~u[m].deleted /\ (~u[m].present => u[m] = Absent)
      BY <2>4, <2>5, <2>7
    <3> QED BY <2>4, <3>1, <3>2 DEF Sound
  <2> QED BY <2>6, <2>7
<1> HIDE DEF u
<1>3. ASSUME NEW m \in Models PROVE new(m) \in Sound(m, P, E, R)
  <2>1. kept[m] \in Shape(m, P, E, R) /\ ~kept[m].deleted /\ (~kept[m].present => kept[m] = Absent)
    BY <1>1 DEF Sound
  <2>2. kept[m].ancestors \in Ancestry(m, E) /\ kept[m].ancestors \in Seq(Models)
    BY <2>1 DEF Shape, Ancestry
  <2>3. as(m) \in Ancestry(m, E)
    BY <2>2, AncestryParts
  <2>4. CASE kept[m].present
    <3>1. Unread \in KnownFields(R) /\ Absent.methods \in [Methods -> TidyPlaces]
      BY AbsentSound
    <3> DEFINE s == as(m)
               e == [kept[m] EXCEPT !.ancestors = s, !.populated = FALSE, !.fields = Unread,
                                    !.methods = Absent.methods]
    <3>2. s \in Ancestry(m, E)
      BY <2>3
    <3>3. new(m) = kept[m] \/ new(m) = e
      BY <1>0
    <3> HIDE DEF s
    <3>4. e \in Shape(m, P, E, R) /\ ~e.deleted /\ e.present
      BY <2>1, <2>4, <3>1, <3>2 DEF Shape
    <3> HIDE DEF e
    <3>5. e \in Sound(m, P, E, R)
      BY <3>4 DEF Sound
    <3> QED BY <1>1, <3>3, <3>5
  <2>5. CASE ~kept[m].present
    <3>1. kept[m].ancestors = <<>>
      BY <2>1, <2>5 DEF Absent
    <3>2. as(m) = <<>>
      <4> DEFINE I == {i \in DOMAIN kept[m].ancestors : kept[kept[m].ancestors[i]].present}
      <4>1. Kept(kept[m].ancestors, I) \in Seq(Models) /\ \E g : Choice(kept[m].ancestors, I, Kept(kept[m].ancestors, I), g)
        <5> HIDE DEF I
        <5> QED BY <2>2, KeptChoice
      <4> HIDE DEF I
      <4>2. PICK g : Choice(kept[m].ancestors, I, Kept(kept[m].ancestors, I), g)
        BY <4>1
      <4> DEFINE w == Kept(kept[m].ancestors, I)
      <4>3. w \in Seq(Models) /\ Choice(kept[m].ancestors, I, w, g)
        BY <4>1, <4>2
      <4> HIDE DEF w
      <4>4. DOMAIN w = {}
        <5>1. \A j \in DOMAIN w : g[j] \in DOMAIN <<>>
          BY <3>1, <4>3 DEF Choice
        <5>2. DOMAIN <<>> = {}
          OBVIOUS
        <5> QED BY <5>1, <5>2, Zenon
      <4>5. w = <<>>
        BY <4>3, <4>4, EmptySeq
      <4> QED BY <4>5 DEF w, I
    <3>3. new(m) = kept[m]
      BY <1>0, <3>1, <3>2
    <3> QED BY <1>1, <3>3
  <2> QED BY <2>4, <2>5
<1>4. \A m \in Models : last[m] \in Sound(m, P, E, R)
  BY <1>1, <1>3
<1>5. last \in [Models -> UNION {Sound(m, P, E, R) : m \in Models}]
  BY <1>1, <1>3
<1>6. last \in Tables(P, E, R)
  <2> HIDE DEF last
  <2> QED BY <1>4, <1>5 DEF Tables
<1> QED BY <1>6 DEF new, kept, u

----------------------------------------------------------------------------
(* Classes.                                                                *)

\* What E says of ancestors and R of paths goes for the classes of a file.
Gives(cs, E) ==
  \A c \in Range(cs) : IsModel(c) =>
    \A a \in Range(Further(IndexModel(c, 1))) : <<IndexModel(c, 1).name, a>> \in E
Relates(cs, R) ==
  \A c \in Range(cs) : \A x \in DOMAIN c.fields :
    c.fields[x].kind = "related" => Path(x, c.fields[x].to, R)

LEMMA ToFrontIs ==
  ASSUME NEW s \in Seq(Models), s # <<>>, NEW x \in Models
  PROVE  ToFront(s, x) \in Seq(Models) /\ ToFront(s, x) # <<>>
<1> DEFINE i == Min({j \in DOMAIN s : s[j] = x})
<1>1. Len(s) \in Nat \ {0} /\ DOMAIN s = 1..Len(s) /\ \A j \in 1..Len(s) : s[j] \in Models
  BY EmptySeq
<1>2. ToFront(s, x) = [j \in DOMAIN s |-> IF j = 1 THEN x ELSE IF j = i THEN s[1] ELSE s[j]]
  BY DEF ToFront
<1> HIDE DEF i
<1>3. 1 \in DOMAIN s
  BY <1>1
<1>4. ToFront(s, x) \in [1..Len(s) -> Models]
  BY <1>1, <1>2, <1>3
<1>5. 1 \in DOMAIN ToFront(s, x) /\ Len(s) \in Nat
  BY <1>1, <1>2
<1>6. DOMAIN <<>> = {}
  OBVIOUS
<1>7. ToFront(s, x) # <<>>
  BY <1>5, <1>6
<1> QED BY <1>4, <1>5, <1>7

LEMMA ItemFound ==
  ASSUME NEW cs, NEW E, Gives(cs, E), NEW c \in Classes, c \in Range(cs), IsModel(c),
         NEW k \in Nat \ {0}
  PROVE  IndexModel(c, k) \in Items(E)
<1> DEFINE it == IndexModel(c, k)
<1>1. c.name \in Models \cup {NoModel} /\ c.inherits \in Seq(Models)
  BY ModelAssumption
<1>2. \A a \in Range(Further(IndexModel(c, 1))) : <<IndexModel(c, 1).name, a>> \in E
  BY DEF Gives
<1>3. it.name = IndexModel(c, 1).name /\ Further(it) = Further(IndexModel(c, 1))
  BY DEF IndexModel, Further
<1>4. CASE Inherits(c)
  <2>1. c.inherits # <<>>
    BY <1>4 DEF Inherits
  <2>2. Primary(c) \in Models
    <3>1. Range(c.inherits) \subseteq Models
      BY <1>1, RangeOfSeq
    <3>2. Head(c.inherits) \in Models
      BY <1>1, <2>1, HeadTailProperties
    <3> QED BY <3>1, <3>2 DEF Primary
  <2> DEFINE all == ToFront(c.inherits, Primary(c))
  <2>3. all \in Seq(Models) /\ all # <<>>
    BY <1>1, <2>1, <2>2, ToFrontIs
  <2>4. it = [is |-> "inherit", name |-> Primary(c), all |-> all, at |-> k]
    BY <1>4 DEF IndexModel
  <2> HIDE DEF all
  <2>5. Tail(all) \in Seq(Models) /\ Further(it) = Tail(all)
    BY <2>3, <2>4, HeadTailProperties DEF Further
  <2>6. \A i \in DOMAIN Tail(all) : Tail(all)[i] \in Range(Further(it))
    BY <2>5 DEF Range
  <2>7. Tail(all) \in Ancestry(it.name, E)
    <3>1. \A i \in DOMAIN Tail(all) : <<it.name, Tail(all)[i]>> \in E
      BY <1>2, <1>3, <2>6
    <3> HIDE DEF it
    <3> QED BY <2>5, <3>1 DEF Ancestry
  <2>8. it \in Item /\ it.all = all /\ it.is = "inherit"
    BY <2>2, <2>3, <2>4 DEF Item
  <2> HIDE DEF it
  <2>9. it \in Items(E)
    BY <2>3, <2>5, <2>7, <2>8 DEF Items
  <2> QED BY <2>9 DEF it
<1>5. CASE ~Inherits(c)
  <2>1. c.name \in Models
    BY <1>1, <1>5 DEF Inherits, IsModel
  <2>2. it = [is |-> "base", name |-> c.name, all |-> c.inherits, at |-> k]
    BY <1>5 DEF IndexModel
  <2>3. it \in Item /\ it.all = c.inherits /\ it.is = "base" /\ Further(it) = c.inherits
    BY <1>1, <2>1, <2>2 DEF Item, Further
  <2>4. \A i \in DOMAIN c.inherits : c.inherits[i] \in Range(Further(it))
    BY <1>1, <2>3 DEF Range
  <2>5. \A i \in DOMAIN c.inherits : <<it.name, c.inherits[i]>> \in E
    BY <1>2, <1>3, <2>4
  <2> HIDE DEF it
  <2>6. Further(it) \in Ancestry(it.name, E)
    BY <1>1, <2>3, <2>5 DEF Ancestry
  <2>7. it \in Items(E)
    BY <1>1, <2>3, <2>6 DEF Items
  <2> QED BY <2>7 DEF it
<1> QED BY <1>4, <1>5

\* The classes a file holds.
LEMMA ClassesHeld ==
  ASSUME NEW d, NEW f \in Files, d[f] \in DOMAIN Contents[f]
  PROVE  /\ ClassesOf(d, f) = Contents[f][d[f]] /\ ClassesOf(d, f) \in Seq(Classes)
         /\ \A k \in DOMAIN ClassesOf(d, f) :
              k \in Nat \ {0} /\ ClassesOf(d, f)[k] \in Classes /\ ClassesOf(d, f)[k] \in Range(ClassesOf(d, f))
<1>1. Contents[f] \in Seq(Seq(Classes))
  BY ModelAssumption
<1>2. ClassesOf(d, f) = Contents[f][d[f]]
  BY DEF ClassesOf
<1>3. ClassesOf(d, f) \in Seq(Classes)
  BY <1>1, <1>2
<1> DEFINE cs == ClassesOf(d, f)
<1> HIDE DEF cs
<1>4. \A k \in DOMAIN cs : k \in Nat \ {0} /\ cs[k] \in Classes
  <2>1. cs \in Seq(Classes)
    BY <1>3 DEF cs
  <2> QED BY <2>1
<1>5. \A k \in DOMAIN cs : cs[k] \in Range(cs)
  BY DEF Range
<1> QED BY <1>2, <1>3, <1>4, <1>5 DEF cs

LEMMA ItemsFound ==
  ASSUME NEW d, NEW f \in Files, d[f] \in DOMAIN Contents[f], NEW E,
         Gives(Contents[f][d[f]], E), NEW items \in IndexModels(d, f)
  PROVE  items \in Seq(Items(E))
<1> DEFINE cs == ClassesOf(d, f)
           found == {k \in DOMAIN cs : IsModel(cs[k])}
<1>1. /\ cs = Contents[f][d[f]] /\ cs \in Seq(Classes)
      /\ \A k \in DOMAIN cs : k \in Nat \ {0} /\ cs[k] \in Classes /\ cs[k] \in Range(cs)
  BY ClassesHeld
<1>2. items \in {[i \in DOMAIN p |-> IndexModel(cs[p[i]], p[i])] : p \in SetToSeqs(found)}
  BY DEF IndexModels
<1> HIDE DEF cs
<1>3. Cardinality(found) \in Nat
  <2>1. IsFiniteSet(1..Len(cs)) /\ found \subseteq 1..Len(cs)
    <3>1. Len(cs) \in Nat /\ DOMAIN cs = 1..Len(cs)
      BY <1>1
    <3> QED BY <3>1, FS_Interval
  <2> HIDE DEF found
  <2> QED BY <2>1, FS_Subset, FS_CardinalityType
<1>4. PICK p \in SetToSeqs(found) : items = [i \in DOMAIN p |-> IndexModel(cs[p[i]], p[i])]
  BY <1>2
<1> DEFINE n == Cardinality(found)
<1> HIDE DEF n
<1>5. p \in [1..n -> found] /\ n \in Nat
  BY <1>3 DEF SetToSeqs, n
<1>6. ASSUME NEW i \in 1..n PROVE IndexModel(cs[p[i]], p[i]) \in Items(E)
  <2>1. p[i] \in DOMAIN cs /\ IsModel(cs[p[i]])
    BY <1>5
  <2>2. p[i] \in Nat \ {0} /\ cs[p[i]] \in Classes /\ cs[p[i]] \in Range(cs)
    BY <1>1, <2>1
  <2> QED BY <1>1, <2>1, <2>2, ItemFound
<1>7. items = [i \in 1..n |-> IndexModel(cs[p[i]], p[i])]
  BY <1>4, <1>5
<1>8. items \in [1..n -> Items(E)]
  BY <1>6, <1>7
<1> QED BY <1>5, <1>8

LEMMA PlaceLegible ==
  ASSUME NEW d, NEW R, NEW p \in PlaceSet, d[p.file] \in DOMAIN Contents[p.file],
         Relates(Contents[p.file][d[p.file]], R)
  PROVE  p \in LegiblePlaces(d, R)
<1> DEFINE f == p.file
           cs == ClassesOf(d, f)
           c == ClassAt(d, p)
<1>1. f \in Files
  BY DEF PlaceSet
<1>2. /\ cs = Contents[f][d[f]]
      /\ \A k \in DOMAIN cs : cs[k] \in Classes /\ cs[k] \in Range(cs)
  BY <1>1, ClassesHeld
<1>3. c = IF p.class \in DOMAIN cs THEN cs[p.class] ELSE NoClass
  BY DEF ClassAt
<1> HIDE DEF cs, c
<1>4. /\ DOMAIN c.fields \subseteq Fields /\ DOMAIN c.methods \subseteq Methods
      /\ \A x \in DOMAIN c.fields :
           /\ c.fields[x] \in Declaration
           /\ c.fields[x].kind = "related" => Path(x, c.fields[x].to, R)
      /\ \A g \in DOMAIN c.methods : c.methods[g] \in BOOLEAN
  <2>1. CASE p.class \in DOMAIN cs
    <3>1. c \in Classes /\ c \in Range(cs)
      BY <1>2, <1>3, <2>1
    <3>2. /\ DOMAIN c.fields \subseteq Fields /\ DOMAIN c.methods \subseteq Methods
          /\ \A x \in DOMAIN c.fields : c.fields[x] \in Declaration
          /\ \A g \in DOMAIN c.methods : c.methods[g] \in BOOLEAN
      BY <3>1, ModelAssumption
    <3>3. \A x \in DOMAIN c.fields : c.fields[x].kind = "related" => Path(x, c.fields[x].to, R)
      BY <1>2, <3>1 DEF Relates
    <3> QED BY <3>2, <3>3
  <2>2. CASE p.class \notin DOMAIN cs
    <3>1. c.fields = Nothing /\ c.methods = Nothing
      BY <1>3, <2>2 DEF NoClass
    <3>2. DOMAIN Nothing = {}
      BY DEF Nothing
    <3> QED BY <3>1, <3>2
  <2> QED BY <2>1, <2>2
<1> QED BY <1>4 DEF LegiblePlaces, Legible, c

=============================================================================
