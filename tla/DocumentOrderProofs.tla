------------------------ MODULE DocumentOrderProofs -------------------------
(* Theorems about the order in which messages take effect, for every value *)
(* of the constants with the two slots of main.rs and a client that is not *)
(* asked for progress.                                                     *)
EXTENDS DocumentOrder, LanguageServerProofs

-----------------------------------------------------------------------------
(* Whose turn it is.                                                       *)

\* What GateInv says, unfolded once.
LEMMA GateParts ==
  ASSUME TypeInv, GateInv
  PROVE  /\ TypeOK /\ Stages /\ Queueing /\ RootExclusive /\ RootFromStart /\ SetupHeld
         /\ SlotsBounded /\ GateOpen /\ NoBlockPanic
         /\ 1..admitted \subseteq Ids /\ InFlight \subseteq 1..admitted /\ 1 \in Ids /\ 0 \notin Ids
         /\ \A h \in 1..admitted : h \in Nat /\ h # 0 /\ 1 <= h /\ (h # 1 => 1 < h /\ 1 \in 1..admitted)
BY IdFacts, Bounds, SMTT(30) DEF TypeInv, GateInv, BlockerInv, TypeOK

LEMMA TwoInFlight ==
  ASSUME Concurrency <= 2, TypeInv, GateInv, NEW a \in InFlight, NEW b \in InFlight, NEW c \in InFlight
  PROVE  a = b \/ a = c \/ b = c
<1>1. IsFiniteSet(InFlight) /\ Cardinality(InFlight) <= 2
  BY InFlightFinite, FS_CardinalityType, Bounds, GateParts DEF SlotsBounded
<1> QED BY <1>1, AtMostTwo

\* A handler that waits is in flight.
LEMMA WaitsInFlight ==
  ASSUME TypeInv, GateInv, NEW h \in 1..admitted, Waits(h)
  PROVE  h \in InFlight /\ pc[h] # "queued"
<1>1. Fits(pc[h], Kind(h))
  BY GateParts DEF Stages
<1> QED BY <1>1 DEF Waits, InFlight, Terminal, Fits

\* While h runs no other handler that is older waits.
LEMMA RunnerInTurn ==
  ASSUME TypeInv, GateInv, InTurn, NEW h \in 1..admitted, running = h, NEW a \in 1..admitted, a < h
  PROVE  ~Waits(a)
BY DEF InTurn

\* A step of h, which stays in flight.
LEMMA MoveFacts ==
  ASSUME TypeInv, GateInv, NEW h \in 1..admitted, running = h,
         NEW label \in Labels \ Terminal, pc' = [pc EXCEPT ![h] = label],
         sent' = sent, admitted' = admitted
  PROVE  /\ \A g \in 1..admitted : pc'[g] = IF g = h THEN label ELSE pc[g]
         /\ pc'[1] = IF 1 = h THEN label ELSE pc[1]
         /\ \A g \in 1..admitted : Kind(g)' = Kind(g) /\ Doc(g)' = Doc(g)
         /\ InFlight' = InFlight /\ h \in InFlight /\ h \notin Queued
         /\ \A g \in 1..admitted : g # h =>
              (HoldsRoot(g)' <=> HoldsRoot(g)) /\ (HoldsSetup(g)' <=> HoldsSetup(g)) /\ (Waits(g)' <=> Waits(g))
<1>1. h \in Ids /\ 1..admitted \subseteq Ids /\ 1 \in Ids
  BY GateParts
<1>2. \A g \in Ids : pc'[g] = IF g = h THEN label ELSE pc[g]
  BY DEF TypeInv, TypeOK
<1>3. \A g \in 1..admitted : Kind(g)' = Kind(g) /\ Doc(g)' = Doc(g)
  BY DEF Kind, Doc
<1>4. h \in InFlight /\ h \notin Queued
  BY <1>1, GateParts DEF Queueing, Queued
<1>5. InFlight' = InFlight
  BY <1>1, <1>2, <1>4 DEF InFlight
<1>6. \A g \in 1..admitted : g # h =>
        (HoldsRoot(g)' <=> HoldsRoot(g)) /\ (HoldsSetup(g)' <=> HoldsSetup(g)) /\ (Waits(g)' <=> Waits(g))
  BY <1>1, <1>2, <1>3 DEF HoldsRoot, HoldsSetup, Waits
<1> QED BY <1>1, <1>2, <1>3, <1>4, <1>5, <1>6

LEMMA MoveTurn ==
  ASSUME Concurrency <= 2, TypeInv, GateInv, TurnInv, Starting',
         NEW h \in 1..admitted, running = h,
         NEW label \in Labels \ (Terminal \cup {"queued", "entry", "wdp"}), pc' = [pc EXCEPT ![h] = label],
         running' \in {0, h}, label \in {"roots", "gate", "insert", "opened"} => running' = h,
         sent' = sent, admitted' = admitted, ready' = ready,
         \A g \in Ids : g # h => (g \in notified' <=> g \in notified) /\ arc'[g] = arc[g],
         root' = root \/ HoldsRoot(h)', setup \subseteq setup',
         Waits(h)' => Waits(h), HoldsRoot(h) => HoldsRoot(h)', ~HoldsSetup(h),
         HoldsSetup(h)' => arc'[h] = h /\ h \in setup',
         pc[1] # "dropped" /\ Waiting(h)' => HeldUp(h)' \/ IsNext(h)'
  PROVE  TurnInv'
<1>0. /\ \A g \in 1..admitted : pc'[g] = IF g = h THEN label ELSE pc[g]
      /\ pc'[1] = IF 1 = h THEN label ELSE pc[1]
      /\ \A g \in 1..admitted : Kind(g)' = Kind(g) /\ Doc(g)' = Doc(g)
      /\ InFlight' = InFlight /\ h \in InFlight /\ h \notin Queued
      /\ \A g \in 1..admitted : g # h =>
           (HoldsRoot(g)' <=> HoldsRoot(g)) /\ (HoldsSetup(g)' <=> HoldsSetup(g)) /\ (Waits(g)' <=> Waits(g))
  BY MoveFacts
<1>1. /\ 1..admitted \subseteq Ids /\ InFlight \subseteq 1..admitted /\ 0 \notin Ids /\ h \in Ids
      /\ \A g \in 1..admitted : g \in Nat
  BY GateParts
<1>2. Unsuspended'
  BY <1>0, <1>1 DEF TurnInv, Unsuspended
<1>3. EntryOrder'
  <2>1. \A g \in 1..admitted : pc'[g] = "entry" => pc[g] = "entry" /\ g # h
    BY <1>0
  <2>2. \A i \in DOMAIN ready : ready[i] \in 1..admitted
    BY GateParts, <1>1 DEF Queueing
  <2>3. Queued' = Queued
    BY DEF Queued
  <2> QED BY <2>1, <2>2, <2>3 DEF TurnInv, EntryOrder
<1>4. RootHeld'
  <2>1. h = 1 => pc[1] # "done"
    BY <1>0 DEF InFlight, Terminal
  <2> QED BY <1>0, <1>1, <2>1 DEF TurnInv, RootHeld
<1>5. SetupKept'
  BY <1>0, <1>1 DEF TurnInv, SetupKept
<1>6. ASSUME pc'[1] # "dropped" PROVE WaitersInTurn' /\ InTurn'
  <2>1. WaitersInTurn /\ InTurn /\ pc[1] # "dropped"
    BY <1>0, <1>6 DEF TurnInv, InFlight, Terminal
  <2>2. WaitersInTurn'
    <3> SUFFICES ASSUME NEW a \in 1..admitted, Waiting(a)' PROVE HeldUp(a)' \/ IsNext(a)'
      BY DEF WaitersInTurn
    <3>1. CASE a = h
      BY <2>1, <3>1
    <3>2. CASE a # h
      <4>1. Waiting(a) /\ ~IsNext(a)
        BY <1>0, <1>1, <3>2 DEF Waiting, IsNext
      <4>2. HeldUp(a)
        BY <2>1, <4>1 DEF WaitersInTurn
      <4>3. HeldUp(a)'
        BY <1>0, <1>1, <3>2, <4>2 DEF HeldUp
      <4> QED BY <4>3
    <3> QED BY <3>1, <3>2
  <2>3. InTurn'
    <3> SUFFICES ASSUME NEW a \in 1..admitted, NEW b \in 1..admitted, Waits(a)', a < b
                 PROVE  pc'[b] = "entry" /\ running' # b
      BY DEF InTurn
    <3>1. Waits(a)
      BY <1>0
    <3>2. pc[b] = "entry" /\ running # b
      BY <2>1, <3>1 DEF InTurn
    <3> QED BY <1>0, <1>1, <3>2
  <2> QED BY <2>2, <2>3
<1> QED BY <1>2, <1>3, <1>4, <1>5, <1>6 DEF TurnInv

\* What a handler wakes when it ends is polled next.
LEMMA WokenIsNext ==
  ASSUME TypeInv, GateInv, NEW h \in InFlight, h \notin Queued, running \in {0, h},
         NEW how, Leave(h, how), NEW g \in Woken(h), \A k \in InFlight : k = h \/ k = g
  PROVE  ready' # <<>> /\ Head(ready') = g
<1>1. PICK order \in Orders(Woken(h) \ Queued) : ready' = ready \o order
  BY DEF Leave
<1>2. Woken(h) \subseteq InFlight \ {h} /\ IsFiniteSet(Woken(h) \ Queued)
  BY InFlightFinite DEF Woken, TypeInv
<1>3. order \in Seq(1..admitted) /\ ready \in Seq(1..admitted) /\ Len(order) = Cardinality(Woken(h) \ Queued)
  <2>1. order \in Seq(Woken(h) \ Queued) /\ Len(order) = Cardinality(Woken(h) \ Queued)
    BY <1>2, OrdersAreSequences
  <2> QED BY <1>2, <2>1, SeqMonotonic DEF InFlight, TypeInv, TypeOK
<1>4. CASE ready # <<>>
  <2>1. Len(ready) \in Nat \ {0} /\ DOMAIN ready = 1..Len(ready)
    BY <1>3, <1>4, EmptySeq, LenProperties
  <2>2. ready[1] \in InFlight /\ ready[1] # h
    BY <2>1, GateParts DEF Queueing, Queued
  <2>3. ready' # <<>> /\ Head(ready') = Head(ready)
    BY <1>1, <1>3, <1>4, QueueHead
  <2> QED BY <2>2, <2>3
<1>5. CASE ready = <<>>
  <2>1. Woken(h) \ Queued = {g}
    BY <1>2, <1>5 DEF Queued
  <2>2. order \in [1..1 -> {g}] /\ Len(order) = 1
    BY <1>1, <1>3, <2>1, FS_Singleton DEF Orders
  <2>3. ready' = order
    BY <1>1, <1>3, <1>5, ConcatEmptySeq
  <2>4. order[1] = g
    BY <2>2
  <2>5. order # <<>>
    <3>1. order \in Seq(1..admitted) /\ Len(order) = 1
      BY <1>3, <2>2
    <3>2. order = <<>> => Len(order) = 0
      OBVIOUS
    <3> QED BY <3>1, <3>2
  <2> QED BY <2>3, <2>4, <2>5
<1> QED BY <1>4, <1>5

\* The end of h: what it leaves in the queue, and of the others.
LEMMA LeaveFacts ==
  ASSUME TypeInv, GateInv, NEW h \in InFlight, h \notin Queued, running \in {0, h},
         NEW how \in Terminal, Leave(h, how), sent' = sent, admitted' = admitted
  PROVE  /\ \A g \in 1..admitted : pc'[g] = IF g = h THEN how ELSE pc[g]
         /\ pc'[1] = IF 1 = h THEN how ELSE pc[1]
         /\ \A g \in 1..admitted : Kind(g)' = Kind(g) /\ Doc(g)' = Doc(g)
         /\ InFlight' = InFlight \ {h} /\ running' = 0
         /\ \A g \in 1..admitted : g # h =>
              (HoldsRoot(g)' <=> HoldsRoot(g)) /\ (HoldsSetup(g)' <=> HoldsSetup(g)) /\ (Waits(g)' <=> Waits(g))
         /\ ~Waits(h)'
         /\ \A i \in DOMAIN ready : i \in DOMAIN ready' /\ ready'[i] = ready[i]
         /\ \A i \in DOMAIN ready' : i \in DOMAIN ready \/ pc'[ready'[i]] # "entry"
         /\ ready # <<>> => ready' # <<>> /\ Head(ready') = Head(ready)
<1>1. h \in Ids /\ 1..admitted \subseteq Ids /\ 1 \in Ids /\ h \in 1..admitted /\ InFlight \subseteq Ids
  BY GateParts
<1>2. \A g \in Ids : pc'[g] = IF g = h THEN how ELSE pc[g]
  BY DEF Leave, TypeInv, TypeOK
<1>3. \A g \in 1..admitted : Kind(g)' = Kind(g) /\ Doc(g)' = Doc(g)
  BY DEF Kind, Doc
<1>4. InFlight' = InFlight \ {h}
  BY <1>1, <1>2 DEF InFlight
<1>5. \A g \in 1..admitted : g # h =>
        (HoldsRoot(g)' <=> HoldsRoot(g)) /\ (HoldsSetup(g)' <=> HoldsSetup(g)) /\ (Waits(g)' <=> Waits(g))
  BY <1>1, <1>2, <1>3 DEF HoldsRoot, HoldsSetup, Waits
<1>6. ~Waits(h)'
  BY <1>1, <1>2 DEF Waits, Terminal
<1>7. PICK order \in Orders(Woken(h) \ Queued) : ready' = ready \o order
  BY DEF Leave
<1>8. Woken(h) \subseteq InFlight \ {h} /\ IsFiniteSet(Woken(h) \ Queued)
  BY InFlightFinite DEF Woken, TypeInv
<1>9. order \in Seq(Woken(h) \ Queued) /\ order \in Seq(1..admitted) /\ ready \in Seq(1..admitted)
  BY <1>8, OrdersAreSequences, SeqMonotonic DEF InFlight, TypeInv, TypeOK
<1>10. /\ Len(order) \in Nat /\ Len(ready) \in Nat /\ DOMAIN ready = 1..Len(ready)
       /\ DOMAIN ready' = 1..(Len(ready) + Len(order))
       /\ \A i \in 1..(Len(ready) + Len(order)) :
            ready'[i] = IF i <= Len(ready) THEN ready[i] ELSE order[i - Len(ready)]
  BY <1>7, <1>9, ConcatProperties, LenProperties
<1>11. \A i \in 1..Len(order) : pc'[order[i]] # "entry"
  <2>1. \A i \in 1..Len(order) : order[i] \in Woken(h)
    BY <1>9, ElementOfSeq
  <2> QED BY <1>1, <1>2, <1>8, <2>1 DEF Woken
<1>12. \A i \in DOMAIN ready : i \in DOMAIN ready' /\ ready'[i] = ready[i]
  BY <1>10
<1>13. ASSUME NEW i \in DOMAIN ready' PROVE i \in DOMAIN ready \/ pc'[ready'[i]] # "entry"
  <2>1. i <= Len(ready) \/ i - Len(ready) \in 1..Len(order)
    BY <1>10
  <2> QED BY <1>10, <1>11, <2>1
<1>14. ready # <<>> => ready' # <<>> /\ Head(ready') = Head(ready)
  BY <1>7, <1>9, QueueHead
<1> QED BY <1>1, <1>2, <1>3, <1>4, <1>5, <1>6, <1>12, <1>13, <1>14 DEF Leave

LEMMA LeaveTurn ==
  ASSUME Concurrency <= 2, TypeInv, GateInv, TurnInv, Starting',
         NEW h \in InFlight, h \notin Queued, running \in {0, h},
         NEW how \in Terminal, Leave(h, how), sent' = sent, admitted' = admitted, arc' = arc,
         h = 1 /\ ~HoldsRoot(h) => how = "dropped",
         running = 0 /\ pc[1] # "dropped" => \A a \in 1..admitted : a < h => ~Waits(a)
  PROVE  TurnInv'
<1>0. /\ \A g \in 1..admitted : pc'[g] = IF g = h THEN how ELSE pc[g]
      /\ pc'[1] = IF 1 = h THEN how ELSE pc[1]
      /\ \A g \in 1..admitted : Kind(g)' = Kind(g) /\ Doc(g)' = Doc(g)
      /\ InFlight' = InFlight \ {h} /\ running' = 0
      /\ \A g \in 1..admitted : g # h =>
           (HoldsRoot(g)' <=> HoldsRoot(g)) /\ (HoldsSetup(g)' <=> HoldsSetup(g)) /\ (Waits(g)' <=> Waits(g))
      /\ ~Waits(h)'
      /\ \A i \in DOMAIN ready : i \in DOMAIN ready' /\ ready'[i] = ready[i]
      /\ \A i \in DOMAIN ready' : i \in DOMAIN ready \/ pc'[ready'[i]] # "entry"
      /\ ready # <<>> => ready' # <<>> /\ Head(ready') = Head(ready)
  BY LeaveFacts
<1>1. /\ 1..admitted \subseteq Ids /\ InFlight \subseteq 1..admitted /\ 0 \notin Ids /\ h \in Ids /\ h \in 1..admitted
      /\ \A g \in 1..admitted : g \in Nat
  BY GateParts
<1>2. Unsuspended'
  BY <1>0, <1>1 DEF TurnInv, Unsuspended, Terminal
<1>3. EntryOrder'
  <2>1. Queued \subseteq Queued'
    BY <1>0 DEF Queued
  <2>2. ASSUME NEW g \in 1..admitted, pc'[g] = "entry" PROVE g \in Queued'
    BY <1>0, <1>1, <2>1, <2>2 DEF TurnInv, EntryOrder, Terminal
  <2>3. \A i \in DOMAIN ready : ready[i] \in 1..admitted /\ ready[i] # h
    BY GateParts, <1>1 DEF Queueing, Queued
  <2>4. ASSUME NEW i \in DOMAIN ready', NEW j \in DOMAIN ready', i < j,
               pc'[ready'[i]] = "entry", pc'[ready'[j]] = "entry"
        PROVE  ready'[i] < ready'[j]
    <3>1. i \in DOMAIN ready /\ j \in DOMAIN ready /\ ready'[i] = ready[i] /\ ready'[j] = ready[j]
      BY <1>0, <2>4
    <3> QED BY <1>0, <2>3, <2>4, <3>1 DEF TurnInv, EntryOrder
  <2> QED BY <2>2, <2>4 DEF EntryOrder
<1>4. RootHeld'
  <2>1. root' = (root /\ ~HoldsRoot(h))
    BY DEF Leave
  <2>2. ASSUME root' PROVE pc'[1] \in {"queued", "dropped"} \/ \E g \in InFlight' : HoldsRoot(g)' \/ g = 1
    <3>1. root /\ ~HoldsRoot(h)
      BY <2>1, <2>2
    <3>2. CASE pc[1] \in {"queued", "dropped"}
      <4>1. pc[h] \notin {"queued", "dropped"}
        BY <1>1, GateParts DEF Stages, Fits, InFlight, Terminal
      <4> QED BY <1>0, <3>2, <4>1
    <3>3. CASE \E g \in InFlight : HoldsRoot(g) \/ g = 1
      BY <1>0, <1>1, <3>1, <3>3
    <3> QED BY <3>1, <3>2, <3>3 DEF TurnInv, RootHeld
  <2> QED BY <2>2 DEF RootHeld
<1>5. SetupKept'
  <2>1. setup' = IF HoldsSetup(h) THEN setup \ {arc[h]} ELSE setup
    BY DEF Leave
  <2>2. HoldsSetup(h) => arc[h] = h
    BY DEF TurnInv, SetupKept
  <2> QED BY <1>0, <1>1, <2>1, <2>2 DEF TurnInv, SetupKept
<1>6. ASSUME pc'[1] # "dropped" PROVE WaitersInTurn' /\ InTurn'
  <2>1. WaitersInTurn /\ InTurn /\ pc[1] # "dropped"
    BY <1>0, <1>6 DEF TurnInv, InFlight, Terminal
  <2>2. WaitersInTurn'
    <3> SUFFICES ASSUME NEW a \in 1..admitted, Waiting(a)' PROVE IsNext(a)'
      BY DEF WaitersInTurn
    <3>1. a # h /\ Waiting(a) /\ a \in InFlight
      BY <1>0, <1>1 DEF Waiting, Terminal, InFlight
    <3>2. notified' = (notified \cup Woken(h)) \ {h}
      BY DEF Leave
    <3>3. CASE IsNext(a)
      BY <1>0, <1>1, <3>1, <3>2, <3>3 DEF IsNext
    <3>4. CASE HeldUp(a)
      <4>1. PICK g \in InFlight :
              /\ g < a
              /\ \/ pc[a] = "rootwait" /\ (HoldsRoot(g) \/ g = 1)
                 \/ pc[a] = "docwait" /\ HoldsSetup(g) /\ arc[g] = arc[a]
        BY <3>4 DEF HeldUp
      <4>2. g = h /\ \A k \in InFlight : k = h \/ k = a
        BY <1>1, <3>1, <4>1, TwoInFlight
      <4>3. a \in Woken(h)
        BY <1>0, <1>6, <3>1, <4>1, <4>2 DEF Woken
      <4>4. ready' # <<>> /\ Head(ready') = a
        BY <4>2, <4>3, WokenIsNext
      <4> QED BY <1>0, <1>1, <3>1, <3>2, <4>2, <4>3, <4>4 DEF IsNext
    <3> QED BY <2>1, <3>1, <3>3, <3>4 DEF WaitersInTurn
  <2>3. InTurn'
    <3> SUFFICES ASSUME NEW a \in 1..admitted, NEW b \in 1..admitted, Waits(a)', a < b
                 PROVE  pc'[b] = "entry" /\ running' # b
      BY DEF InTurn
    <3>1. Waits(a) /\ a # h
      BY <1>0
    <3>2. pc[b] = "entry" /\ running # b
      BY <2>1, <3>1 DEF InTurn
    <3>3. b # h
      BY <2>1, <3>1, <3>2
    <3> QED BY <1>0, <1>1, <3>2, <3>3
  <2> QED BY <2>2, <2>3
<1> QED BY <1>2, <1>3, <1>4, <1>5, <1>6 DEF TurnInv

LEMMA SendTurn ==
  ASSUME TypeInv, GateInv, TurnInv,
         NEW k \in {"open", "close"} \cup EditKinds \cup Queries, NEW d \in Docs, Send(k, d)
  PROVE  TurnInv'
<1>1. UNCHANGED <<admitted, pc, running, ready, root, setup, notified, arc, docs>>
  BY DEF Send, locals, gates, store
<1>2. \A g \in 1..admitted : sent'[g] = sent[g]
  BY DocTypes DEF Send, TypeInv, TypeOK
<1>3. InFlight' = InFlight /\ InFlight \subseteq 1..admitted /\ Queued' = Queued
  BY <1>1 DEF InFlight, Queued
<1>4. \A g \in 1..admitted :
        /\ (HoldsRoot(g)' <=> HoldsRoot(g)) /\ (HoldsSetup(g)' <=> HoldsSetup(g))
        /\ (Waits(g)' <=> Waits(g)) /\ Kind(g)' = Kind(g)
  BY <1>1, <1>2 DEF HoldsRoot, HoldsSetup, Waits, Kind
<1>5. Unsuspended' /\ EntryOrder' /\ RootHeld' /\ SetupKept' /\ Starting'
  BY <1>1, <1>3, <1>4 DEF TurnInv, Unsuspended, EntryOrder, RootHeld, SetupKept, Starting, Present
<1>6. WaitersInTurn <=> WaitersInTurn'
  <2>1. \A g \in 1..admitted : (HeldUp(g)' <=> HeldUp(g)) /\ (IsNext(g)' <=> IsNext(g)) /\ (Waiting(g)' <=> Waiting(g))
    BY <1>1, <1>3, <1>4 DEF HeldUp, IsNext, Waiting
  <2> QED BY <1>1, <2>1 DEF WaitersInTurn
<1>7. InTurn <=> InTurn'
  BY <1>1, <1>4 DEF InTurn
<1> QED BY <1>1, <1>5, <1>6, <1>7 DEF TurnInv

LEMMA AdmitTurn ==
  ASSUME TypeInv, GateInv, TurnInv, Admit
  PROVE  TurnInv'
<1>1. UNCHANGED <<sent, running, root, setup, notified, arc, docs>> /\ running = 0
  BY DEF Admit, locals, gates, store
<1>2. PICK new \in Ids : new = admitted + 1
  BY Bounds DEF Admit, TypeInv, TypeOK, Ids
<1>3. /\ admitted' = new /\ new \notin 1..admitted /\ 1..admitted' = 1..admitted \cup {new}
      /\ \A g \in 1..admitted : g < new /\ g \in Nat
      /\ new \in Nat /\ new # 0 /\ (admitted = 0 => new = 1) /\ (admitted # 0 => 1 \in 1..admitted)
  BY <1>2, Bounds, SMTT(30) DEF Admit, TypeInv, TypeOK, Ids
<1>4. \A g \in Ids : pc'[g] = IF g = new THEN "entry" ELSE pc[g]
  BY <1>2 DEF Admit, TypeInv, TypeOK
<1>5. 1..admitted \subseteq Ids /\ 1 \in Ids /\ InFlight \subseteq 1..admitted
  BY GateParts
<1>6. InFlight' = InFlight \cup {new}
  BY <1>3, <1>4, <1>5 DEF InFlight, Terminal
<1>7. \A g \in 1..admitted :
        /\ (HoldsRoot(g)' <=> HoldsRoot(g)) /\ (HoldsSetup(g)' <=> HoldsSetup(g))
        /\ (Waits(g)' <=> Waits(g)) /\ Kind(g)' = Kind(g) /\ pc'[g] = pc[g]
  BY <1>1, <1>3, <1>4, <1>5 DEF HoldsRoot, HoldsSetup, Waits, Kind
<1>8. pc'[new] = "entry" /\ ~HoldsRoot(new)' /\ ~HoldsSetup(new)'
  BY <1>4 DEF HoldsRoot, HoldsSetup
<1>9. /\ Len(ready) \in Nat /\ DOMAIN ready = 1..Len(ready) /\ DOMAIN ready' = 1..(Len(ready) + 1)
      /\ \A i \in 1..Len(ready) : ready'[i] = ready[i] /\ ready[i] \in InFlight
      /\ ready'[Len(ready) + 1] = new
      /\ ready # <<>> => ready' # <<>> /\ Head(ready') = Head(ready)
  <2>1. ready \in Seq(Nat)
    BY <1>3, SeqMonotonic DEF TypeInv, TypeOK
  <2>2. ready' = Append(ready, new)
    BY <1>2 DEF Admit
  <2>3. \A i \in DOMAIN ready : ready[i] \in InFlight
    BY GateParts DEF Queueing
  <2>4. <<new>> \in Seq(Nat) /\ ready' = ready \o <<new>>
    BY <1>3, <2>1, <2>2
  <2>5. ready # <<>> => ready' # <<>> /\ Head(ready') = Head(ready)
    BY <2>1, <2>4, QueueHead
  <2> QED BY <1>3, <2>1, <2>2, <2>3, <2>5
<1>10. pc[1] # "done" => pc'[1] # "done" /\ (admitted # 0 => pc'[1] = pc[1])
  BY <1>3, <1>4, <1>5
<1>11. Unsuspended'
  BY <1>1, <1>3, <1>7, <1>8 DEF TurnInv, Unsuspended
<1>12. EntryOrder'
  <2>1. Queued' = Queued \cup {new}
    <3>1. \A i \in DOMAIN ready' : i \in DOMAIN ready \/ i = Len(ready) + 1
      BY <1>9
    <3>2. Len(ready) + 1 \in DOMAIN ready' /\ DOMAIN ready \subseteq DOMAIN ready'
      BY <1>9
    <3> QED BY <1>9, <3>1, <3>2 DEF Queued
  <2>2. \A h \in 1..admitted' : pc'[h] = "entry" => running' = h \/ h \in Queued'
    BY <1>1, <1>3, <1>7, <2>1 DEF TurnInv, EntryOrder
  <2>3. ASSUME NEW i \in DOMAIN ready', NEW j \in DOMAIN ready', i < j,
               pc'[ready'[i]] = "entry", pc'[ready'[j]] = "entry"
        PROVE  ready'[i] < ready'[j]
    <3>0. i \in 1..Len(ready)
      BY <1>9, <2>3
    <3>1. i \in 1..Len(ready) /\ ready'[i] \in 1..admitted
      BY <1>5, <1>9, <3>0
    <3>2. CASE j = Len(ready) + 1
      BY <1>3, <1>9, <3>1, <3>2
    <3>3. CASE j \in 1..Len(ready)
      <4>1. pc[ready[i]] = "entry" /\ pc[ready[j]] = "entry"
        BY <1>5, <1>7, <1>9, <2>3, <3>1, <3>3
      <4> QED BY <1>9, <2>3, <3>1, <3>3, <4>1 DEF TurnInv, EntryOrder
    <3> QED BY <1>9, <3>2, <3>3
  <2> QED BY <2>2, <2>3 DEF EntryOrder
<1>13. RootHeld'
  <2>1. CASE admitted = 0
    BY <1>3, <1>6, <2>1 DEF RootHeld
  <2>2. CASE admitted # 0
    BY <1>1, <1>3, <1>5, <1>6, <1>7, <2>2 DEF TurnInv, RootHeld
  <2> QED BY <2>1, <2>2
<1>14. SetupKept'
  BY <1>1, <1>5, <1>6, <1>7, <1>8 DEF TurnInv, SetupKept
<1>15. Starting'
  <2>1. ASSUME pc'[1] # "done" PROVE pc[1] # "done"
    <3>1. admitted = 0 => pc[1] = "queued"
      BY <1>5, GateParts DEF Stages, Ids, TypeOK
    <3> QED BY <1>3, <1>7, <2>1, <3>1
  <2>2. \A h \in 1..admitted' : h \in 1..admitted \/ pc'[h] = "entry"
    BY <1>3, <1>8
  <2> QED BY <1>1, <1>3, <1>7, <2>1, <2>2 DEF TurnInv, Starting, Present
<1>16. ASSUME pc'[1] # "dropped" PROVE WaitersInTurn' /\ InTurn'
  <2>1. admitted # 0 => WaitersInTurn /\ InTurn
    BY <1>3, <1>7, <1>16 DEF TurnInv
  <2>2. WaitersInTurn'
    <3> SUFFICES ASSUME NEW a \in 1..admitted', Waiting(a)' PROVE HeldUp(a)' \/ IsNext(a)'
      BY DEF WaitersInTurn
    <3>1. a \in 1..admitted /\ Waiting(a)
      BY <1>3, <1>7, <1>8 DEF Waiting
    <3>2. CASE HeldUp(a)
      BY <1>1, <1>5, <1>6, <1>7, <3>1, <3>2 DEF HeldUp
    <3>3. CASE IsNext(a)
      BY <1>1, <1>3, <1>6, <1>9, <3>1, <3>3 DEF IsNext
    <3>4. admitted # 0
      BY <3>1, Bounds DEF TypeInv, TypeOK
    <3> QED BY <2>1, <3>1, <3>2, <3>3, <3>4 DEF WaitersInTurn
  <2>3. InTurn'
    <3> SUFFICES ASSUME NEW a \in 1..admitted', NEW b \in 1..admitted', Waits(a)', a < b
                 PROVE  pc'[b] = "entry" /\ running' # b
      BY DEF InTurn
    <3>1. a \in 1..admitted
      BY <1>3
    <3>2. admitted # 0
      BY <3>1, Bounds DEF TypeInv, TypeOK
    <3>3. CASE b = new
      BY <1>1, <1>3, <1>8, <3>3
    <3>4. CASE b \in 1..admitted
      BY <1>1, <1>7, <2>1, <3>1, <3>2, <3>4 DEF InTurn
    <3> QED BY <1>3, <3>3, <3>4
  <2> QED BY <2>2, <2>3
<1> QED BY <1>11, <1>12, <1>13, <1>14, <1>15, <1>16 DEF TurnInv

LEMMA PollTurn ==
  ASSUME Concurrency <= 2, TypeInv, GateInv, TurnInv, Poll
  PROVE  TurnInv'
<1>1. /\ UNCHANGED <<sent, admitted, pc, root, setup, notified, arc, docs>>
      /\ running = 0 /\ ready # <<>> /\ running' = Head(ready) /\ ready' = Tail(ready)
  BY DEF Poll, locals, gates, store
<1>2. /\ Len(ready) \in Nat \ {0} /\ DOMAIN ready = 1..Len(ready) /\ DOMAIN ready' = 1..(Len(ready) - 1)
      /\ \A i \in 1..(Len(ready) - 1) : ready'[i] = ready[i + 1]
      /\ Head(ready) = ready[1]
  BY <1>1, EmptySeq, HeadTailProperties, LenProperties DEF TypeInv, TypeOK
<1>3. Head(ready) \in InFlight /\ Head(ready) \in 1..admitted /\ Head(ready) # 0
  <2>1. \A i \in DOMAIN ready : ready[i] \in InFlight
    BY GateParts DEF Queueing
  <2> QED BY <1>2, <2>1, GateParts
<1>4. /\ InFlight' = InFlight /\ InFlight \subseteq 1..admitted
      /\ \A g \in 1..admitted :
           /\ (HoldsRoot(g)' <=> HoldsRoot(g)) /\ (HoldsSetup(g)' <=> HoldsSetup(g))
           /\ (Waits(g)' <=> Waits(g)) /\ Kind(g)' = Kind(g) /\ g \in Nat /\ g # 0
  BY <1>1, GateParts DEF InFlight, HoldsRoot, HoldsSetup, Waits, Kind
<1>5. Unsuspended'
  BY <1>1, <1>4 DEF TurnInv, Unsuspended
<1>6. EntryOrder'
  <2>1. \A g \in Queued : g = Head(ready) \/ g \in Queued'
    <3> SUFFICES ASSUME NEW i \in DOMAIN ready PROVE ready[i] = Head(ready) \/ ready[i] \in Queued'
      BY DEF Queued
    <3>1. i = 1 \/ (i - 1 \in DOMAIN ready' /\ ready'[i - 1] = ready[i])
      BY <1>2
    <3> QED BY <1>2, <3>1 DEF Queued
  <2>2. \A g \in 1..admitted : pc'[g] = "entry" => running' = g \/ g \in Queued'
    BY <1>1, <1>4, <2>1 DEF TurnInv, EntryOrder
  <2>3. ASSUME NEW i \in DOMAIN ready', NEW j \in DOMAIN ready', i < j,
               pc'[ready'[i]] = "entry", pc'[ready'[j]] = "entry"
        PROVE  ready'[i] < ready'[j]
    <3>1. PICK k \in DOMAIN ready : k = i + 1 /\ ready'[i] = ready[k]
      BY <1>2, <2>3
    <3>2. PICK l \in DOMAIN ready : l = j + 1 /\ ready'[j] = ready[l]
      BY <1>2, <2>3
    <3>3. k < l
      BY <1>2, <2>3, <3>1, <3>2
    <3>4. ready[k] < ready[l]
      BY <1>1, <2>3, <3>1, <3>2, <3>3 DEF TurnInv, EntryOrder
    <3> QED BY <3>1, <3>2, <3>4
  <2> QED BY <1>1, <2>2, <2>3 DEF EntryOrder
<1>7. RootHeld' /\ SetupKept' /\ Starting'
  BY <1>1, <1>4 DEF TurnInv, RootHeld, SetupKept, Starting, Present
<1>8. ASSUME pc'[1] # "dropped" PROVE WaitersInTurn' /\ InTurn'
  <2>1. WaitersInTurn /\ InTurn
    BY <1>1, <1>8 DEF TurnInv
  <2>2. WaitersInTurn'
    <3> SUFFICES ASSUME NEW a \in 1..admitted, Waiting(a) PROVE HeldUp(a)' \/ IsNext(a)'
      BY <1>1, <1>4 DEF WaitersInTurn, Waiting
    <3>1. CASE HeldUp(a)
      BY <1>1, <1>4, <3>1 DEF HeldUp
    <3>2. CASE IsNext(a)
      BY <1>1, <1>3, <1>4, <3>2 DEF IsNext
    <3> QED BY <2>1, <3>1, <3>2 DEF WaitersInTurn
  <2>3. InTurn'
    <3> SUFFICES ASSUME NEW a \in 1..admitted, NEW b \in 1..admitted, Waits(a), a < b, Head(ready) = b
                 PROVE  FALSE
      BY <1>1, <1>4, <2>1 DEF InTurn
    <3>1. a \in InFlight /\ b \in InFlight /\ pc[a] # "queued" /\ a # b
      BY <1>3, <1>4, WaitsInFlight
    <3>2. pc[b] = "entry"
      BY <2>1 DEF InTurn
    <3>3. CASE pc[a] = "entry"
      <4>1. PICK i \in DOMAIN ready : ready[i] = a
        BY <1>1, <1>4, <3>3 DEF TurnInv, EntryOrder, Queued
      <4>2. 1 < i /\ 1 \in DOMAIN ready
        BY <1>2, <3>1, <4>1
      <4>3. ready[1] < ready[i]
        BY <1>2, <3>2, <3>3, <4>1, <4>2 DEF TurnInv, EntryOrder
      <4> QED BY <1>2, <1>4, <4>1, <4>3
    <3>4. CASE Waiting(a)
      <4>1. CASE IsNext(a)
        BY <1>1, <3>1, <4>1 DEF IsNext
      <4>2. CASE HeldUp(a)
        <5>1. PICK g \in InFlight : g < a
          BY <4>2 DEF HeldUp
        <5>2. g # a /\ g # b
          BY <1>4, <5>1
        <5> QED BY <3>1, <5>2, TwoInFlight
      <4> QED BY <2>1, <3>4, <4>1, <4>2 DEF WaitersInTurn
    <3>5. CASE pc[a] \in {"gate", "insert", "opened"}
      BY <1>1, <1>4, <3>5 DEF TurnInv, Unsuspended
    <3>6. pc[a] = "docwait" => Waiting(a)
      BY GateParts DEF GateOpen, Waits, Waiting
    <3> QED BY <3>1, <3>3, <3>4, <3>5, <3>6 DEF Waits, Waiting
  <2> QED BY <2>2, <2>3
<1> QED BY <1>5, <1>6, <1>7, <1>8 DEF TurnInv

LEMMA WakeTurn ==
  ASSUME TypeInv, GateInv, TurnInv, NEW h \in 1..admitted, Suspended(h), Wake(h)
  PROVE  TurnInv'
<1>1. /\ UNCHANGED <<sent, admitted, pc, running, root, setup, notified, arc, docs>>
      /\ ready' = Append(ready, h) /\ running = 0
  BY DEF Wake, Suspended, locals, gates, store
<1>2. /\ Len(ready) \in Nat /\ DOMAIN ready = 1..Len(ready) /\ DOMAIN ready' = 1..(Len(ready) + 1)
      /\ \A i \in 1..Len(ready) : ready'[i] = ready[i]
      /\ ready'[Len(ready) + 1] = h
      /\ ready # <<>> => ready' # <<>> /\ Head(ready') = Head(ready)
  <2>1. ready \in Seq(1..admitted) /\ <<h>> \in Seq(1..admitted) /\ ready' = ready \o <<h>>
    BY <1>1 DEF TypeInv, TypeOK
  <2>2. ready # <<>> => ready' # <<>> /\ Head(ready') = Head(ready)
    BY <2>1, QueueHead
  <2> QED BY <1>1, <2>1, <2>2
<1>3. /\ InFlight' = InFlight /\ InFlight \subseteq 1..admitted
      /\ \A g \in 1..admitted :
           /\ (HoldsRoot(g)' <=> HoldsRoot(g)) /\ (HoldsSetup(g)' <=> HoldsSetup(g))
           /\ (Waits(g)' <=> Waits(g)) /\ Kind(g)' = Kind(g) /\ g \in Nat /\ g # 0
  BY <1>1, GateParts DEF InFlight, HoldsRoot, HoldsSetup, Waits, Kind
<1>4. pc[h] # "entry"
  BY <1>1, <1>3 DEF TurnInv, EntryOrder, Suspended
<1>5. EntryOrder'
  <2>1. Queued \subseteq Queued'
    BY <1>2 DEF Queued
  <2>2. ASSUME NEW i \in DOMAIN ready', NEW j \in DOMAIN ready', i < j,
               pc'[ready'[i]] = "entry", pc'[ready'[j]] = "entry"
        PROVE  ready'[i] < ready'[j]
    <3>1. i \in DOMAIN ready /\ j \in DOMAIN ready
      BY <1>1, <1>2, <1>4, <2>2
    <3>2. ready'[i] = ready[i] /\ ready'[j] = ready[j]
      BY <1>2, <3>1
    <3> QED BY <1>1, <2>2, <3>1, <3>2 DEF TurnInv, EntryOrder
  <2> QED BY <1>1, <2>1, <2>2 DEF TurnInv, EntryOrder
<1>6. Unsuspended' /\ RootHeld' /\ SetupKept' /\ Starting'
  BY <1>1, <1>3 DEF TurnInv, Unsuspended, RootHeld, SetupKept, Starting, Present
<1>7. WaitersInTurn => WaitersInTurn'
  <2> SUFFICES ASSUME WaitersInTurn, NEW a \in 1..admitted, Waiting(a) PROVE HeldUp(a)' \/ IsNext(a)'
    BY <1>1, <1>3 DEF WaitersInTurn, Waiting
  <2>1. CASE HeldUp(a)
    BY <1>1, <1>3, <2>1 DEF HeldUp
  <2>2. CASE IsNext(a)
    BY <1>1, <1>2, <1>3, <2>2 DEF IsNext
  <2> QED BY <2>1, <2>2 DEF WaitersInTurn
<1>8. InTurn => InTurn'
  BY <1>1, <1>3 DEF InTurn
<1> QED BY <1>1, <1>5, <1>6, <1>7, <1>8 DEF TurnInv

\* Neither the timeout, which drops the oldest, nor a client that cancels a
\* request can drop a handler while an older one waits.
LEMMA DroppedInTurn ==
  ASSUME TypeInv, GateInv, TurnInv, pc[1] # "dropped", NEW h \in 1..admitted, Timeout(h) \/ Cancel(h),
         NEW a \in 1..admitted, a < h
  PROVE  ~Waits(a)
<1> SUFFICES ASSUME Waits(a) PROVE FALSE
  OBVIOUS
<1>1. a \in InFlight /\ a \in Nat /\ h \in Nat /\ h # 0
  BY WaitsInFlight, GateParts
<1>2. CASE Timeout(h)
  BY <1>1, <1>2 DEF Timeout
<1>3. CASE Cancel(h)
  <2>1. pc[h] = "entry" /\ running = 0 /\ h \notin Queued
    BY <1>3 DEF TurnInv, InTurn, Cancel, Suspended
  <2> QED BY <1>1, <2>1 DEF TurnInv, EntryOrder
<1> QED BY <1>2, <1>3

\* The oldest handler in flight is dropped only when it has had its effect.
LEMMA DroppedAfterEffect ==
  ASSUME TypeInv, GateInv, TurnInv, pc[1] # "dropped", NEW h \in 1..admitted, Timeout(h)
  PROVE  ~Waits(h)
<1> SUFFICES ASSUME Waits(h) PROVE FALSE
  OBVIOUS
<1>1. running = 0 /\ h \in InFlight /\ h \notin Queued /\ (\A g \in InFlight : h <= g) /\ h # 0 /\ h \in Nat
  BY GateParts DEF Timeout, Suspended
<1>2. pc[h] \notin {"queued", "entry", "gate", "insert", "opened"}
  BY <1>1, WaitsInFlight DEF TurnInv, EntryOrder, Unsuspended
<1>3. Waiting(h)
  BY <1>2, GateParts DEF Waits, Waiting, GateOpen
<1>4. CASE HeldUp(h)
  BY <1>1, <1>4, GateParts DEF HeldUp
<1>5. CASE IsNext(h)
  <2>1. Head(ready) = h /\ ready # <<>>
    BY <1>1, <1>5 DEF IsNext
  <2>2. 1 \in DOMAIN ready /\ ready[1] = h
    BY <2>1, EmptySeq, HeadTailProperties, LenProperties DEF TypeInv, TypeOK
  <2> QED BY <1>1, <2>2 DEF Queued
<1> QED BY <1>3, <1>4, <1>5 DEF TurnInv, WaitersInTurn

\* A handler's step, or what the environment does to it, while initialized is not done.
LEMMA StartingStep ==
  ASSUME TypeInv, GateInv, TurnInv, NEW h \in 1..admitted, Handler(h) \/ Environment(h)
  PROVE  Starting'
<1>1. /\ h \in InFlight /\ h \in Ids /\ UNCHANGED <<sent, admitted>>
      /\ \E label : pc' = [pc EXCEPT ![h] = label]
  <2>1. CASE Handler(h)
    BY <2>1, HandlerMoves DEF GateInv
  <2>2. CASE Environment(h)
    <3>1. h \in InFlight /\ UNCHANGED <<sent, admitted>> /\ (Wake(h) \/ Drop(h))
      BY <2>2, EnvironmentMoves
    <3>2. pc = [pc EXCEPT ![h] = pc[h]]
      BY GateParts DEF TypeOK
    <3> QED BY <3>1, <3>2, GateParts DEF Wake, Drop, Leave
  <2> QED BY <2>1, <2>2
<1>2. PICK label : pc' = [pc EXCEPT ![h] = label]
  BY <1>1
<1>3. /\ \A g \in Ids : pc'[g] = IF g = h THEN label ELSE pc[g]
      /\ 1..admitted \subseteq Ids /\ 1 \in Ids /\ Kind(1) = "initialized"
      /\ (Kind(h) = "initialized" <=> h = 1) /\ Fits(pc[h], Kind(h))
  BY <1>2, GateParts, DocTypes DEF TypeOK, Stages
<1>4. \A g \in 1..admitted : Kind(g)' = Kind(g)
  BY <1>1 DEF Kind
<1> SUFFICES ASSUME pc'[1] # "done"
             PROVE  /\ root' /\ \A d \in Docs : ~Present(d)'
                    /\ h = 1 \/ label \in {"entry", "rootwait"} \cup Terminal \/ (Kind(h) = "close" /\ label = "opened")
  <2>1. pc'[1] # "done" => pc[1] # "done"
    BY <1>1, <1>3 DEF InFlight, Terminal
  <2> QED BY <1>1, <1>2, <1>3, <1>4, <2>1 DEF TurnInv, Starting
<1>5. /\ pc[1] # "done" /\ root /\ \A d \in Docs : ~Present(d)
      /\ h = 1 \/ pc[h] \in {"entry", "rootwait"} \/ (Kind(h) = "close" /\ pc[h] = "opened")
  BY <1>1, <1>3 DEF TurnInv, Starting, InFlight, Terminal
<1>6. CASE Environment(h)
  <2>1. CASE Wake(h)
    BY <1>1, <1>2, <1>3, <1>5, <2>1, GateParts DEF Wake, store, gates, Present, TypeOK
  <2>2. CASE Drop(h)
    <3>1. running = 0 /\ h # 0
      BY <1>6, EnvironmentMoves, GateParts
    <3>2. ~HoldsRoot(h)
      BY <1>3, <1>5, <3>1 DEF HoldsRoot, TurnInv, Unsuspended
    <3>3. label = "dropped"
      BY <1>2, <1>3, <2>2, GateParts DEF Drop, Leave, TypeOK
    <3> QED BY <1>5, <2>2, <3>2, <3>3 DEF Drop, Leave, store, Present, Terminal
  <2> QED BY <1>6, <2>1, <2>2, EnvironmentMoves
<1>7. CASE RegisterCapability(h) \/ ForceBlockRoot(h)
  BY <1>3, <1>5, <1>7 DEF RegisterCapability, ForceBlockRoot, store, gates, Present
<1>8. CASE AddRoots(h)
  <2>1. h = 1 /\ label = "done"
    BY <1>1, <1>3, <1>8, GateParts DEF AddRoots, Leave, At, Fits, TypeOK
  <2> QED BY <1>3, <2>1
<1>9. CASE WaitForRoot(h)
  <2>1. label = "rootwait"
    BY <1>1, <1>3, <1>5, <1>9, GateParts DEF WaitForRoot, ParkAt, TypeOK
  <2> QED BY <1>5, <1>9, <2>1 DEF WaitForRoot, store, gates, Present
<1>10. CASE RootWaitPolled(h)
  <2>1. h \notin notified
    BY <1>5, <1>10, GateParts DEF RootWaitPolled, At, GateOpen
  <2>2. label = "rootwait"
    BY <1>1, <1>3, <1>5, <1>10, <2>1, GateParts DEF RootWaitPolled, ParkAt, TypeOK
  <2> QED BY <1>5, <1>10, <2>2 DEF RootWaitPolled, store, Present
<1>11. CASE BlockRoot(h) \/ InsertDocument(h) \/ ChangeOnOpen(h) \/ AnalyseOnOpen(h)
  BY <1>3, <1>5, <1>11 DEF BlockRoot, InsertDocument, ChangeOnOpen, AnalyseOnOpen, At, Fits
<1>12. CASE WaitForDocument(h)
  <2>1. Kind(h) = "close" /\ Doc(h) \in Docs
    BY <1>3, <1>5, <1>12, DocTypes, GateParts DEF WaitForDocument, At, AwaitsDocumentAt, Fits
  <2>2. label = "opened"
    BY <1>1, <1>2, <1>3, <1>5, <1>12, <2>1, GateParts DEF WaitForDocument, StepTo, TypeOK
  <2> QED BY <1>5, <1>12, <2>1, <2>2 DEF WaitForDocument, store, gates, Present
<1>13. CASE DocumentWaitPolled(h) \/ ChangeFull(h) \/ ChangeDelta(h) \/ LoadDependents(h)
  BY <1>3, <1>5, <1>13, GateParts DEF DocumentWaitPolled, ChangeFull, ChangeDelta, LoadDependents, At, Fits, GateOpen
<1>14. CASE Close(h)
  <2>1. Kind(h) = "close" /\ Doc(h) \in Docs /\ ~HoldsRoot(h)
    BY <1>14, DocTypes, GateParts DEF Close, HoldsRoot
  <2>2. label = "done" /\ root'
    BY <1>1, <1>3, <1>5, <1>14, <2>1, GateParts DEF Close, Leave, TypeOK
  <2>3. \A d \in Docs : docs'[d].inst = 0
    BY <1>5, <1>14, <2>1, GateParts DEF Close, Present, TypeOK
  <2> QED BY <2>2, <2>3 DEF Present, Terminal
<1>15. CASE Answer(h)
  <2>1. PICK how \in Terminal : Leave(h, how)
    BY <1>15 DEF Answer, Terminal
  <2>2. ~HoldsRoot(h)
    BY <1>15 DEF Answer, AnswersAt, At, HoldsRoot
  <2>3. label = how /\ root'
    BY <1>1, <1>3, <1>5, <2>1, <2>2, GateParts DEF Leave, TypeOK
  <2> QED BY <1>5, <1>15, <2>1, <2>3 DEF Answer, store, Present
<1> QED BY <1>6, <1>7, <1>8, <1>9, <1>10, <1>11, <1>12, <1>13, <1>14, <1>15 DEF Handler

\* A handler that waits, or stops waiting, holds nothing.
LEMMA WaiterMoves ==
  ASSUME TypeInv, GateInv, NEW h \in 1..admitted, running = h,
         NEW label \in {"rootwait", "gate", "docwait", "opened"}, pc' = [pc EXCEPT ![h] = label],
         sent' = sent, admitted' = admitted
  PROVE  /\ label \in Labels \ (Terminal \cup {"queued", "entry", "wdp"})
         /\ pc'[h] = label /\ InFlight' = InFlight /\ Kind(h)' = Kind(h)
         /\ ~HoldsRoot(h)' /\ ~HoldsSetup(h)'
         /\ \A g \in 1..admitted : g # h =>
              (HoldsRoot(g)' <=> HoldsRoot(g)) /\ (HoldsSetup(g)' <=> HoldsSetup(g))
<1>1. label \in Labels \ Terminal /\ label \in Labels \ (Terminal \cup {"queued", "entry", "wdp"})
  BY DEF Labels, Terminal
<1>2. /\ \A g \in 1..admitted : pc'[g] = IF g = h THEN label ELSE pc[g]
      /\ pc'[1] = IF 1 = h THEN label ELSE pc[1]
      /\ \A g \in 1..admitted : Kind(g)' = Kind(g) /\ Doc(g)' = Doc(g)
      /\ InFlight' = InFlight /\ h \in InFlight /\ h \notin Queued
      /\ \A g \in 1..admitted : g # h =>
           (HoldsRoot(g)' <=> HoldsRoot(g)) /\ (HoldsSetup(g)' <=> HoldsSetup(g)) /\ (Waits(g)' <=> Waits(g))
  BY <1>1, MoveFacts
<1>3. ~HoldsRoot(h)' /\ ~HoldsSetup(h)'
  BY <1>2 DEF HoldsRoot, HoldsSetup
<1> QED BY <1>1, <1>2, <1>3

\* The handlers that move on, and those that come to wait for their turn.
LEMMA WaitTurn ==
  ASSUME Concurrency <= 2, TypeInv, GateInv, TurnInv, NEW h \in 1..admitted,
         WaitForRoot(h) \/ RootWaitPolled(h) \/ WaitForDocument(h) \/ DocumentWaitPolled(h)
  PROVE  TurnInv'
<1>1. running = h /\ h \in InFlight /\ h \notin Queued /\ h \in Ids /\ h # 0 /\ Starting'
  BY HandlerMoves, StartingStep DEF Handler, GateInv
<1>2. h \in Nat /\ Fits(pc[h], Kind(h)) /\ (Kind(h) = "initialized" <=> h = 1) /\ 1 \in 1..admitted /\ pc[1] # "queued"
      /\ \A g \in InFlight : g \in Nat /\ g \in 1..admitted /\ g \in Ids /\ g # 0 /\ (g = 1 <=> Kind(g) = "initialized")
  BY <1>1, GateParts, DocTypes DEF Stages, Fits, InFlight
<1>3. ~HoldsSetup(h) /\ ~HoldsRoot(h)
  BY <1>2, GateParts DEF WaitForRoot, RootWaitPolled, WaitForDocument, DocumentWaitPolled,
     AwaitsDocumentAt, At, HoldsSetup, HoldsRoot, GateOpen, Fits
<1>4. ASSUME pc[1] # "dropped", Waits(h), NEW g \in InFlight, g # h, pc[g] # "entry" PROVE g < h
  BY <1>1, <1>2, <1>4 DEF TurnInv, InTurn
<1>5. CASE WaitForRoot(h)
  <2>1. CASE root
    <3>1. ParkAt(h, "rootwait") /\ UNCHANGED <<sent, admitted, ready, arc, root, setup, notified>>
      BY <1>5, <2>1 DEF WaitForRoot, locals, gates
    <3>2. /\ pc' = [pc EXCEPT ![h] = "rootwait"] /\ running' = 0
      BY <3>1 DEF ParkAt
    <3>3. /\ pc'[h] = "rootwait" /\ InFlight' = InFlight /\ h \notin notified /\ Waits(h) /\ pc[h] = "entry" /\ h # 1
          /\ \A g \in 1..admitted : g # h => (HoldsRoot(g)' <=> HoldsRoot(g))
          /\ ~HoldsRoot(h)' /\ ~HoldsSetup(h)'
      BY <1>1, <1>2, <1>5, <3>1, <3>2, WaiterMoves, GateParts DEF WaitForRoot, At, Waits, Queueing
    <3>4. ASSUME pc[1] # "dropped" PROVE HeldUp(h)'
      <4>1. PICK g \in InFlight : HoldsRoot(g) \/ g = 1
        BY <1>2, <2>1, <3>4 DEF TurnInv, RootHeld
      <4>2. g < h
        BY <1>2, <1>3, <1>4, <3>3, <3>4, <4>1 DEF HoldsRoot
      <4>3. HoldsRoot(g)' \/ g = 1
        BY <1>2, <1>3, <3>3, <4>1
      <4> QED BY <3>1, <3>3, <4>2, <4>3 DEF HeldUp
    <3>5. Waits(h)' => Waits(h)
      BY <3>3
    <3> QED BY <1>1, <1>3, <3>1, <3>2, <3>3, <3>4, <3>5, MoveTurn, WaiterMoves, GateParts DEF TypeOK
  <2>2. CASE ~root
    <3>1. StepTo(h, "gate") /\ UNCHANGED <<sent, admitted, ready, arc, root, setup, notified>>
      BY <1>5, <2>2 DEF WaitForRoot, locals, gates
    <3>2. /\ pc' = [pc EXCEPT ![h] = "gate"] /\ running' = h
      BY <3>1 DEF StepTo
    <3>3. /\ pc'[h] = "gate" /\ Waits(h) /\ ~HoldsRoot(h)' /\ ~HoldsSetup(h)' /\ ~Waiting(h)'
      BY <1>1, <1>5, <3>2, WaiterMoves DEF WaitForRoot, At, Waits, Waiting
    <3> QED BY <1>1, <1>3, <3>1, <3>2, <3>3, MoveTurn, WaiterMoves
  <2> QED BY <2>1, <2>2
<1>6. CASE RootWaitPolled(h)
  <2>1. /\ UNCHANGED <<sent, admitted, ready, arc, root, setup>> /\ notified' = notified \ {h}
        /\ pc[h] = "rootwait" /\ Waits(h) /\ Waiting(h)
    BY <1>6 DEF RootWaitPolled, locals, At, Waits, Waiting
  <2>2. CASE ParkAt(h, "rootwait") /\ h \notin notified
    <3>1. /\ pc' = [pc EXCEPT ![h] = "rootwait"] /\ running' = 0
      BY <2>2 DEF ParkAt
    <3>2. /\ pc'[h] = "rootwait" /\ InFlight' = InFlight
          /\ \A g \in 1..admitted : g # h => (HoldsRoot(g)' <=> HoldsRoot(g))
          /\ ~HoldsRoot(h)' /\ ~HoldsSetup(h)'
      BY <1>1, <2>1, <3>1, WaiterMoves
    <3>3. ASSUME pc[1] # "dropped" PROVE HeldUp(h)'
      <4>1. HeldUp(h)
        BY <2>1, <2>2, <3>3 DEF TurnInv, WaitersInTurn, IsNext
      <4>2. PICK g \in InFlight : g < h /\ (HoldsRoot(g) \/ g = 1)
        BY <2>1, <4>1 DEF HeldUp
      <4>3. HoldsRoot(g)' \/ g = 1
        BY <1>2, <3>2, <4>2
      <4> QED BY <2>1, <3>2, <4>2, <4>3 DEF HeldUp
    <3> QED BY <1>1, <1>3, <2>1, <3>1, <3>2, <3>3, MoveTurn, WaiterMoves
  <2>3. CASE StepTo(h, "gate")
    <3>1. /\ pc' = [pc EXCEPT ![h] = "gate"] /\ running' = h
      BY <2>3 DEF StepTo
    <3>2. /\ pc'[h] = "gate" /\ ~HoldsRoot(h)' /\ ~HoldsSetup(h)' /\ ~Waiting(h)'
      BY <1>1, <2>1, <3>1, WaiterMoves DEF Waiting
    <3> QED BY <1>1, <1>3, <2>1, <3>1, <3>2, MoveTurn, WaiterMoves
  <2> QED BY <1>6, <2>2, <2>3 DEF RootWaitPolled
<1>7. CASE WaitForDocument(h)
  <2>1. UNCHANGED <<sent, admitted, ready, root, setup, notified>> /\ pc[h] \in AwaitsDocumentAt(h)
    BY <1>7 DEF WaitForDocument, gates, At
  <2>2. Kind(h) \notin {"close", "references"} => pc[h] = "gate"
    BY <2>1 DEF AwaitsDocumentAt
  <2>3. CASE ParkAt(h, "docwait") /\ arc' = [arc EXCEPT ![h] = docs[Doc(h)].inst] /\ docs[Doc(h)].inst \in setup
    <3>1. /\ pc' = [pc EXCEPT ![h] = "docwait"] /\ running' = 0
      BY <2>3 DEF ParkAt
    <3>2. /\ pc'[h] = "docwait" /\ InFlight' = InFlight
          /\ \A g \in 1..admitted : g # h => (HoldsSetup(g)' <=> HoldsSetup(g))
          /\ ~HoldsRoot(h)' /\ ~HoldsSetup(h)' /\ Kind(h)' = Kind(h)
      BY <1>1, <2>1, <3>1, WaiterMoves
    <3>3. Kind(h) \in {"close", "references"}
      BY <2>2, <2>3, GateParts, NoHolderNoSetup DEF GateOpen, GateInv
    <3>4. PICK g \in InFlight : HoldsSetup(g) /\ arc[g] = docs[Doc(h)].inst
      BY <2>3, GateParts DEF SetupHeld
    <3>5. /\ arc'[h] = docs[Doc(h)].inst /\ g # h /\ arc'[g] = arc[g] /\ h \notin notified
          /\ \A k \in Ids : k # h => arc'[k] = arc[k]
      BY <1>1, <1>2, <1>3, <2>1, <2>3, <3>3, <3>4, GateParts DEF TypeOK, Queueing, AwaitsDocumentAt
    <3>6. ASSUME pc[1] # "dropped", Waiting(h)' PROVE HeldUp(h)'
      <4>1. Waits(h) /\ pc[g] # "entry"
        BY <2>1, <3>2, <3>3, <3>4, <3>6 DEF Waiting, Waits, AwaitsDocumentAt, HoldsSetup
      <4>2. g < h
        BY <1>4, <3>5, <3>6, <4>1
      <4> QED BY <1>2, <2>1, <3>2, <3>4, <3>5, <4>2 DEF HeldUp
    <3>7. Waits(h)' => Waits(h)
      BY <2>1, <3>2, <3>3 DEF Waits, AwaitsDocumentAt
    <3> QED BY <1>1, <1>3, <2>1, <3>1, <3>2, <3>5, <3>6, <3>7, MoveTurn, WaiterMoves
  <2>4. CASE StepTo(h, "opened") /\ UNCHANGED arc
    <3>1. /\ pc' = [pc EXCEPT ![h] = "opened"] /\ running' = h
      BY <2>4 DEF StepTo
    <3>2. /\ pc'[h] = "opened" /\ ~HoldsRoot(h)' /\ ~HoldsSetup(h)' /\ ~Waiting(h)' /\ Kind(h)' = Kind(h)
      BY <1>1, <2>1, <3>1, WaiterMoves DEF Waiting
    <3>3. Waits(h)' => Waits(h)
      BY <2>1, <2>2, <3>2 DEF Waits, AwaitsDocumentAt
    <3> QED BY <1>1, <1>3, <2>1, <2>4, <3>1, <3>2, <3>3, MoveTurn, WaiterMoves
  <2> QED BY <1>7, <2>3, <2>4 DEF WaitForDocument
<1>8. CASE DocumentWaitPolled(h)
  <2>1. /\ UNCHANGED <<sent, admitted, ready, arc, root, setup>> /\ notified' = notified \ {h}
        /\ pc[h] = "docwait" /\ Kind(h) \in {"close", "references"}
    BY <1>8, GateParts DEF DocumentWaitPolled, locals, At, GateOpen
  <2>2. CASE ParkAt(h, "docwait") /\ h \notin notified
    <3>1. /\ pc' = [pc EXCEPT ![h] = "docwait"] /\ running' = 0
      BY <2>2 DEF ParkAt
    <3>2. /\ pc'[h] = "docwait" /\ InFlight' = InFlight /\ Kind(h)' = Kind(h)
          /\ \A g \in 1..admitted : g # h => (HoldsSetup(g)' <=> HoldsSetup(g))
          /\ ~HoldsRoot(h)' /\ ~HoldsSetup(h)'
      BY <1>1, <2>1, <3>1, WaiterMoves
    <3>3. ASSUME pc[1] # "dropped", Waiting(h)' PROVE HeldUp(h)'
      <4>1. Waiting(h)
        BY <2>1, <3>2, <3>3 DEF Waiting
      <4>2. HeldUp(h)
        BY <2>1, <2>2, <3>3, <4>1 DEF TurnInv, WaitersInTurn, IsNext
      <4>3. PICK g \in InFlight : g < h /\ HoldsSetup(g) /\ arc[g] = arc[h]
        BY <2>1, <4>2 DEF HeldUp
      <4>4. HoldsSetup(g)'
        BY <1>2, <1>3, <3>2, <4>3
      <4> QED BY <2>1, <2>2, <3>2, <4>3, <4>4 DEF HeldUp
    <3>4. Waits(h)' => Waits(h)
      BY <2>1, <3>2 DEF Waits
    <3> QED BY <1>1, <1>3, <2>1, <3>1, <3>2, <3>3, <3>4, MoveTurn, WaiterMoves
  <2>3. CASE StepTo(h, "opened")
    <3>1. /\ pc' = [pc EXCEPT ![h] = "opened"] /\ running' = h
      BY <2>3 DEF StepTo
    <3>2. /\ pc'[h] = "opened" /\ ~HoldsRoot(h)' /\ ~HoldsSetup(h)' /\ ~Waiting(h)' /\ Kind(h)' = Kind(h)
      BY <1>1, <2>1, <3>1, WaiterMoves DEF Waiting
    <3>3. Waits(h)' => Waits(h)
      BY <2>1, <3>2 DEF Waits
    <3> QED BY <1>1, <1>3, <2>1, <3>1, <3>2, <3>3, MoveTurn, WaiterMoves
  <2> QED BY <1>8, <2>2, <2>3 DEF DocumentWaitPolled
<1> QED BY <1>5, <1>6, <1>7, <1>8

\* The handlers that end.
LEMMA EndTurn ==
  ASSUME Concurrency <= 2, TypeInv, GateInv, TurnInv, NEW h \in 1..admitted, Handler(h),
         NEW how \in Terminal, Leave(h, how), arc' = arc
  PROVE  TurnInv'
<1>1. running = h /\ h \in InFlight /\ h \notin Queued /\ h # 0 /\ sent' = sent /\ admitted' = admitted /\ Starting'
  BY HandlerMoves, StartingStep DEF GateInv
<1>2. ASSUME h = 1 PROVE HoldsRoot(h)
  <2>1. Kind(h) = "initialized" /\ Fits(pc[h], Kind(h))
    BY <1>2, GateParts, DocTypes DEF Stages
  <2>2. pc'[h] = how /\ how \notin {"regcap", "roots", "rootwait", "gate", "opened", "docwait", "load", "insert", "addroot"}
    BY GateParts DEF Leave, Terminal, TypeOK
  <2>3. ~RegisterCapability(h) /\ ~ForceBlockRoot(h)
    BY <2>2, GateParts DEF RegisterCapability, ForceBlockRoot, ParkAt, StepTo, TypeOK
  <2>4. AddRoots(h)
    BY <2>1, <2>3, GateParts DEF Handler, WaitForRoot, RootWaitPolled, BlockRoot, InsertDocument, ChangeOnOpen, AnalyseOnOpen,
       WaitForDocument, DocumentWaitPolled, ChangeFull, ChangeDelta, Close, LoadDependents, Answer,
       AnswersAt, AwaitsDocumentAt, At, Fits, GateOpen
  <2> QED BY <2>1, <2>4 DEF AddRoots, At, HoldsRoot
<1> QED BY <1>1, <1>2, LeaveTurn

\* The handlers that go on past root_setup.
LEMMA HolderTurn ==
  ASSUME Concurrency <= 2, ~Progress, TypeInv, GateInv, TurnInv, Opening, NEW h \in 1..admitted, Handler(h),
         NEW label \in {"regcap", "roots", "insert", "addroot", "load"}, pc' = [pc EXCEPT ![h] = label],
         RegisterCapability(h) \/ ForceBlockRoot(h) \/ BlockRoot(h) \/ InsertDocument(h) \/ ChangeOnOpen(h)
           \/ LoadDependents(h)
  PROVE  TurnInv'
<1>1. /\ running = h /\ h \in InFlight /\ h \notin Queued /\ h \in Ids /\ h # 0
      /\ sent' = sent /\ admitted' = admitted /\ Starting'
  BY HandlerMoves, StartingStep DEF GateInv
<1>2. label \in Labels \ Terminal /\ label \in Labels \ (Terminal \cup {"queued", "entry", "wdp"})
  BY DEF Labels, Terminal
<1>3. /\ \A g \in 1..admitted : pc'[g] = IF g = h THEN label ELSE pc[g]
      /\ pc'[1] = IF 1 = h THEN label ELSE pc[1]
      /\ \A g \in 1..admitted : Kind(g)' = Kind(g) /\ Doc(g)' = Doc(g)
      /\ InFlight' = InFlight /\ h \in InFlight /\ h \notin Queued
      /\ \A g \in 1..admitted : g # h =>
           (HoldsRoot(g)' <=> HoldsRoot(g)) /\ (HoldsSetup(g)' <=> HoldsSetup(g)) /\ (Waits(g)' <=> Waits(g))
  BY <1>1, <1>2, MoveFacts
<1>4. pc'[h] = label /\ Kind(h)' = Kind(h) /\ ~Waiting(h)' /\ Fits(pc[h], Kind(h)) /\ (Kind(h) = "initialized" <=> h = 1)
  BY <1>1, <1>3, GateParts, DocTypes DEF Waiting, Stages
<1>5. \A how \in Terminal : ~Leave(h, how)
  BY <1>1, <1>4, GateParts DEF Leave, Terminal, TypeOK
<1>6. CASE RegisterCapability(h) \/ ForceBlockRoot(h)
  <2>1. /\ UNCHANGED <<ready, root, setup, notified, arc>> /\ pc[h] \in {"entry", "regcap"} /\ Kind(h) = "initialized"
        /\ label \in {"regcap", "roots"} /\ running' \in {0, h} /\ (label = "roots" => running' = h)
    BY <1>1, <1>4, <1>6, GateParts DEF RegisterCapability, ForceBlockRoot, locals, gates, At, ParkAt, StepTo, TypeOK
  <2>2. root
    BY <1>4, <2>1, GateParts DEF RootFromStart
  <2>3. ~HoldsRoot(h) /\ ~HoldsSetup(h) /\ ~HoldsSetup(h)' /\ ~Waits(h)'
    BY <1>4, <2>1 DEF HoldsRoot, HoldsSetup, Waits
  <2>4. root' = root \/ HoldsRoot(h)'
    BY <2>1, <2>2
  <2> QED BY <1>1, <1>2, <1>4, <2>1, <2>3, <2>4, MoveTurn
<1>7. CASE BlockRoot(h)
  <2>1. /\ UNCHANGED <<ready, setup, notified, arc>> /\ pc[h] = "gate" /\ Kind(h) = "open"
        /\ root' = TRUE /\ StepTo(h, "insert")
    BY <1>5, <1>7 DEF BlockRoot, locals, At, Terminal
  <2>2. label = "insert" /\ running' = h
    BY <1>1, <1>4, <2>1, GateParts DEF StepTo, TypeOK
  <2>3. ~HoldsRoot(h) /\ ~HoldsSetup(h) /\ ~HoldsSetup(h)' /\ Waits(h) /\ HoldsRoot(h)'
    BY <1>4, <2>1, <2>2 DEF HoldsRoot, HoldsSetup, Waits
  <2> QED BY <1>1, <1>2, <1>4, <2>1, <2>2, <2>3, MoveTurn
<1>8. CASE InsertDocument(h)
  <2>1. /\ UNCHANGED <<ready, root, setup, notified, arc>> /\ pc[h] \in {"wdp", "insert"} /\ Kind(h) = "open"
        /\ (StepTo(h, "addroot") \/ ParkAt(h, "addroot"))
    BY <1>4, <1>8 DEF InsertDocument, locals, gates, At, Await, Fits
  <2>2. label = "addroot" /\ running' \in {0, h}
    BY <1>1, <1>4, <2>1, GateParts DEF StepTo, ParkAt, TypeOK
  <2>3. HoldsRoot(h) /\ ~HoldsSetup(h) /\ ~HoldsSetup(h)' /\ ~Waits(h)' /\ HoldsRoot(h)'
    BY <1>4, <2>1, <2>2 DEF HoldsRoot, HoldsSetup, Waits
  <2>4. root' = root \/ HoldsRoot(h)'
    BY <1>1, <2>1, <2>3, GateParts DEF RootExclusive
  <2> QED BY <1>1, <1>2, <1>4, <2>1, <2>2, <2>3, <2>4, MoveTurn
<1>9. CASE ChangeOnOpen(h)
  <2>1. /\ UNCHANGED <<ready, root, notified>> /\ pc[h] = "addroot" /\ Kind(h) = "open" /\ Present(Doc(h))
        /\ setup' = setup \cup {docs[Doc(h)].inst} /\ arc' = [arc EXCEPT ![h] = docs[Doc(h)].inst]
        /\ (StepTo(h, "load") \/ ParkAt(h, "load"))
    BY <1>4, <1>5, <1>9 DEF ChangeOnOpen, At, Await, Fits, Terminal
  <2>2. label = "load" /\ running' \in {0, h}
    BY <1>1, <1>4, <2>1, GateParts DEF StepTo, ParkAt, TypeOK
  <2>3. HoldsRoot(h) /\ ~HoldsSetup(h) /\ ~Waits(h)' /\ HoldsRoot(h)'
    BY <1>4, <2>1, <2>2 DEF HoldsRoot, HoldsSetup, Waits
  <2>4. root' = root \/ HoldsRoot(h)'
    BY <1>1, <2>1, <2>3, GateParts DEF RootExclusive
  <2>5. docs[Doc(h)].inst = h
    <3>1. OpenText(h)
      BY <2>1 DEF Opening
    <3> QED BY <3>1 DEF OpenText
  <2>6. arc'[h] = h /\ h \in setup' /\ \A g \in Ids : g # h => arc'[g] = arc[g]
    BY <1>1, <2>1, <2>5, GateParts DEF TypeOK
  <2> QED BY <1>1, <1>2, <1>4, <2>1, <2>2, <2>3, <2>4, <2>6, MoveTurn
<1>10. CASE LoadDependents(h)
  <2>1. /\ UNCHANGED <<ready, root, setup, notified, arc>> /\ Kind(h) \in {"completion", "references"}
        /\ (StepTo(h, "load") \/ ParkAt(h, "load"))
    BY <1>10 DEF LoadDependents, locals, gates, Await
  <2>2. label = "load" /\ running' \in {0, h}
    BY <1>1, <1>4, <2>1, GateParts DEF StepTo, ParkAt, TypeOK
  <2>3. ~HoldsRoot(h) /\ ~HoldsSetup(h) /\ ~HoldsSetup(h)' /\ ~Waits(h)' /\ ~HoldsRoot(h)'
    BY <1>4, <2>1, <2>2 DEF HoldsRoot, HoldsSetup, Waits
  <2> QED BY <1>1, <1>2, <1>4, <2>1, <2>2, <2>3, MoveTurn
<1> QED BY <1>6, <1>7, <1>8, <1>9, <1>10

\* What each action does, in the terms of the lemmas above.
LEMMA EndOrHold ==
  ASSUME TypeInv, GateInv, ~Progress, NEW h \in 1..admitted, Handler(h)
  PROVE  \/ WaitForRoot(h) \/ RootWaitPolled(h) \/ WaitForDocument(h) \/ DocumentWaitPolled(h)
         \/ \E how \in Terminal : Leave(h, how) /\ arc' = arc
         \/ /\ \/ RegisterCapability(h) \/ ForceBlockRoot(h) \/ BlockRoot(h) \/ InsertDocument(h) \/ ChangeOnOpen(h)
               \/ LoadDependents(h)
            /\ \E label \in {"regcap", "roots", "insert", "addroot", "load"} : pc' = [pc EXCEPT ![h] = label]
<1>1. CASE RegisterCapability(h) \/ ForceBlockRoot(h) \/ InsertDocument(h) \/ LoadDependents(h)
  BY <1>1 DEF RegisterCapability, ForceBlockRoot, InsertDocument, LoadDependents, Await, ParkAt, StepTo
<1>2. CASE BlockRoot(h)
  BY <1>2 DEF BlockRoot, ParkAt, StepTo, locals, Terminal
<1>3. CASE ChangeOnOpen(h)
  BY <1>3 DEF ChangeOnOpen, Await, ParkAt, StepTo, locals, Terminal
<1>4. CASE AddRoots(h) \/ AnalyseOnOpen(h) \/ ChangeFull(h) \/ ChangeDelta(h) \/ Close(h) \/ Answer(h)
  <2>1. \E how \in Terminal : Leave(h, how)
    BY <1>4 DEF AddRoots, AnalyseOnOpen, ChangeFull, ChangeDelta, Close, Answer, Analyse, Terminal
  <2>2. arc' = arc
    BY <1>4 DEF AddRoots, AnalyseOnOpen, ChangeFull, ChangeDelta, Close, Answer, locals
  <2> QED BY <2>1, <2>2
<1> QED BY <1>1, <1>2, <1>3, <1>4 DEF Handler

LEMMA TurnStep ==
  ASSUME Concurrency <= 2, ~Progress, TypeInv, GateInv, TurnInv, Opening, [Next]_vars
  PROVE  TurnInv'
<1>1. CASE ClientSends
  BY <1>1, SendTurn DEF ClientSends
<1>2. CASE Admit
  BY <1>2, AdmitTurn
<1>3. CASE Poll
  BY <1>3, PollTurn
<1>4. ASSUME NEW h \in 1..admitted, Handler(h) PROVE TurnInv'
  <2>1. CASE \E how \in Terminal : Leave(h, how) /\ arc' = arc
    BY <1>4, <2>1, EndTurn
  <2>2. CASE /\ \/ RegisterCapability(h) \/ ForceBlockRoot(h) \/ BlockRoot(h) \/ InsertDocument(h) \/ ChangeOnOpen(h)
                \/ LoadDependents(h)
             /\ \E label \in {"regcap", "roots", "insert", "addroot", "load"} : pc' = [pc EXCEPT ![h] = label]
    BY <1>4, <2>2, HolderTurn
  <2> QED BY <1>4, <2>1, <2>2, EndOrHold, WaitTurn
<1>5. ASSUME NEW h \in 1..admitted, Environment(h) PROVE TurnInv'
  <2>1. Suspended(h) /\ running = 0 /\ h \in InFlight /\ h \notin Queued /\ UNCHANGED <<sent, admitted>> /\ Starting'
    BY <1>5, EnvironmentMoves, StartingStep DEF Environment, ClientReplies, WorkCompletes, WaitLimitElapses, Timeout, Cancel
  <2>2. CASE Wake(h)
    BY <2>1, <2>2, WakeTurn
  <2>3. CASE Timeout(h) \/ Cancel(h)
    <3>1. Leave(h, "dropped") /\ arc' = arc /\ "dropped" \in Terminal
      BY <2>3 DEF Timeout, Cancel, Drop, locals, Terminal
    <3>2. pc[1] # "dropped" => \A a \in 1..admitted : a < h => ~Waits(a)
      BY <2>3, DroppedInTurn
    <3> QED BY <2>1, <3>1, <3>2, LeaveTurn
  <2> QED BY <1>5, <2>2, <2>3 DEF Environment, ClientReplies, WorkCompletes, WaitLimitElapses
<1>6. CASE UNCHANGED vars
  <2>1. \A g \in 1..admitted : (HoldsRoot(g)' <=> HoldsRoot(g)) /\ (HoldsSetup(g)' <=> HoldsSetup(g))
          /\ (Waits(g)' <=> Waits(g)) /\ Kind(g)' = Kind(g)
    BY <1>6 DEF vars, HoldsRoot, HoldsSetup, Waits, Kind
  <2>2. InFlight' = InFlight /\ InFlight \subseteq 1..admitted
    BY <1>6 DEF vars, InFlight
  <2>3. WaitersInTurn <=> WaitersInTurn'
    BY <1>6 DEF vars, WaitersInTurn, HeldUp, IsNext, Waiting, InFlight, HoldsRoot, HoldsSetup, Kind
  <2> QED BY <1>6, <2>1, <2>2, <2>3 DEF vars, TurnInv, Unsuspended, EntryOrder, RootHeld, SetupKept, Starting, InTurn,
      Queued, Present
<1> QED BY <1>1, <1>2, <1>3, <1>4, <1>5, <1>6 DEF Next

-----------------------------------------------------------------------------
(* The documents.                                                          *)

\* Past root_setup, and once there is a document, initialized is done.
LEMMA Started ==
  ASSUME TypeInv, GateInv, TurnInv
  PROVE  /\ pc[1] = "done" => WaitersInTurn /\ InTurn
         /\ \A h \in 1..admitted :
              Kind(h) # "initialized" /\ pc[h] \in {"gate", "insert", "addroot", "load"} => pc[1] = "done"
         /\ \A h \in 1..admitted : pc[h] = "opened" /\ Kind(h) # "close" /\ Kind(h) # "initialized" => pc[1] = "done"
         /\ \A d \in Docs : Present(d) => pc[1] = "done"
<1>1. pc[1] = "done" => WaitersInTurn /\ InTurn
  BY DEF TurnInv
<1>2. ASSUME pc[1] # "done", NEW h \in 1..admitted, Kind(h) # "initialized"
      PROVE  pc[h] \in {"entry", "rootwait"} \cup Terminal \/ (Kind(h) = "close" /\ pc[h] = "opened")
  <2>1. h # 1
    BY <1>2, GateParts, DocTypes DEF Stages
  <2> QED BY <1>2, <2>1 DEF TurnInv, Starting
<1>3. pc[1] # "done" => \A d \in Docs : ~Present(d)
  BY DEF TurnInv, Starting
<1> QED BY <1>1, <1>2, <1>3 DEF Terminal

\* Which steps make a handler stop waiting.
LEMMA HandlerWaits ==
  ASSUME TypeInv, GateInv, NEW h \in 1..admitted, Handler(h)
  PROVE  /\ \A g \in 1..admitted : g # h => (Waits(g)' <=> Waits(g)) /\ pc'[g] = pc[g]
         /\ Waits(h)' => Waits(h)
         /\ Waits(h) /\ ~Waits(h)' /\ Kind(h) \in DocumentKinds =>
              InsertDocument(h) \/ BlockRoot(h) \/ ChangeFull(h) \/ ChangeDelta(h) \/ Close(h)
<1>1. /\ running = h /\ h \in InFlight /\ h \in Ids /\ sent' = sent /\ admitted' = admitted
      /\ \E label : pc' = [pc EXCEPT ![h] = label]
  BY HandlerMoves DEF GateInv
<1>2. \A g \in 1..admitted : g # h => pc'[g] = pc[g]
  BY <1>1, GateParts DEF TypeOK
<1>3. \A g \in 1..admitted : g # h => (Waits(g)' <=> Waits(g))
  BY <1>1, <1>2 DEF Waits, Kind
<1>4. \A label : pc' = [pc EXCEPT ![h] = label] => pc'[h] = label
  BY <1>1, GateParts DEF TypeOK
<1>5. Kind(h)' = Kind(h) /\ Fits(pc[h], Kind(h))
  BY <1>1, GateParts DEF Kind, Stages
<1>6. CASE \E how \in Terminal : Leave(h, how)
  <2>1. pc'[h] \in Terminal
    BY <1>4, <1>6 DEF Leave
  <2>2. ~Waits(h)'
    BY <2>1 DEF Waits, Terminal
  <2>3. \/ InsertDocument(h) \/ BlockRoot(h) \/ ChangeFull(h) \/ ChangeDelta(h) \/ Close(h)
        \/ Kind(h) \notin DocumentKinds \/ ~Waits(h)
    <3>1. CASE RegisterCapability(h) \/ ForceBlockRoot(h) \/ AddRoots(h)
      BY <1>5, <3>1 DEF RegisterCapability, ForceBlockRoot, AddRoots, At, Fits, DocumentKinds, EditKinds
    <3>2. CASE WaitForRoot(h) \/ RootWaitPolled(h) \/ WaitForDocument(h) \/ DocumentWaitPolled(h) \/ LoadDependents(h)
      BY <1>4, <2>1, <3>2 DEF WaitForRoot, RootWaitPolled, WaitForDocument, DocumentWaitPolled, LoadDependents,
         Await, ParkAt, StepTo, Terminal
    <3>3. CASE ChangeOnOpen(h) \/ AnalyseOnOpen(h)
      BY <3>3 DEF ChangeOnOpen, AnalyseOnOpen, At, Waits
    <3>4. CASE Answer(h)
      BY <3>4 DEF Answer, AnswersAt, At, DocumentKinds, EditKinds
    <3> QED BY <3>1, <3>2, <3>3, <3>4 DEF Handler
  <2> QED BY <1>2, <1>3, <2>2, <2>3
<1>7. CASE RegisterCapability(h) \/ ForceBlockRoot(h)
  <2>1. pc'[h] \in {"regcap", "roots"}
    BY <1>4, <1>7 DEF RegisterCapability, ForceBlockRoot, ParkAt, StepTo
  <2> QED BY <1>2, <1>3, <1>7, <2>1 DEF Waits, RegisterCapability, ForceBlockRoot, DocumentKinds, EditKinds
<1>8. CASE WaitForRoot(h) \/ RootWaitPolled(h)
  <2>1. pc'[h] \in {"rootwait", "gate"} /\ pc[h] \in {"entry", "rootwait"}
    BY <1>4, <1>8 DEF WaitForRoot, RootWaitPolled, ParkAt, StepTo, At
  <2> QED BY <1>2, <1>3, <2>1 DEF Waits
<1>9. CASE WaitForDocument(h) \/ DocumentWaitPolled(h)
  <2>1. pc'[h] \in {"docwait", "opened"} /\ (pc[h] = "docwait" \/ pc[h] \in AwaitsDocumentAt(h))
    BY <1>4, <1>9 DEF WaitForDocument, DocumentWaitPolled, ParkAt, StepTo, At
  <2> QED BY <1>2, <1>3, <1>5, <2>1 DEF Waits, AwaitsDocumentAt, DocumentKinds, EditKinds
<1>10. CASE BlockRoot(h) \/ InsertDocument(h)
  <2>1. Waits(h)' => Waits(h)
    BY <1>4, <1>5, <1>10 DEF BlockRoot, InsertDocument, Waits, ParkAt, StepTo, Await, At, Leave, Fits
  <2> QED BY <1>2, <1>3, <1>10, <2>1
<1>11. CASE (ChangeOnOpen(h) \/ LoadDependents(h)) /\ ~(\E how \in Terminal : Leave(h, how))
  <2>1. pc'[h] = "load"
    BY <1>4, <1>11 DEF ChangeOnOpen, LoadDependents, ParkAt, StepTo, Await, Terminal
  <2>2. Kind(h) \in DocumentKinds => ~Waits(h)
    BY <1>11 DEF ChangeOnOpen, LoadDependents, At, Waits, DocumentKinds, EditKinds
  <2> QED BY <1>2, <1>3, <2>1, <2>2 DEF Waits
<1>12. CASE AddRoots(h) \/ AnalyseOnOpen(h) \/ ChangeFull(h) \/ ChangeDelta(h) \/ Close(h) \/ Answer(h)
  <2>1. \E how \in Terminal : Leave(h, how)
    BY <1>12 DEF AddRoots, AnalyseOnOpen, ChangeFull, ChangeDelta, Close, Answer, Analyse, Terminal
  <2> QED BY <1>6, <2>1
<1> QED BY <1>6, <1>7, <1>8, <1>9, <1>10, <1>11, <1>12 DEF Handler

\* What a step leaves of the messages and of who waits.
LEMMA StepFacts ==
  ASSUME TypeInv, TypeInv', GateInv, [Next]_vars
  PROVE  /\ admitted <= admitted' /\ admitted \in Nat /\ admitted' \in Nat /\ 1..admitted \subseteq 1..admitted'
         /\ Len(sent) <= Len(sent') /\ \A g \in 1..Len(sent) : sent'[g] = sent[g]
         /\ \A g \in 1..admitted : Waits(g)' => Waits(g)
         /\ \A g \in 1..admitted' : g \notin 1..admitted => Waits(g)' /\ pc'[g] = "entry"
<1>0. admitted \in Nat /\ admitted' \in Nat /\ Len(sent) \in Nat /\ admitted <= Len(sent)
  BY Bounds DEF TypeInv, TypeOK
<1>1. CASE ClientSends
  <2>1. PICK k \in {"open", "close"} \cup EditKinds \cup Queries, d \in Docs : Send(k, d)
    BY <1>1 DEF ClientSends
  <2>2. /\ Len(sent') = Len(sent) + 1 /\ \A g \in 1..Len(sent) : sent'[g] = sent[g]
    BY <2>1 DEF Send, TypeInv, TypeOK
  <2>3. pc' = pc /\ admitted' = admitted
    BY <2>1 DEF Send
  <2>4. \A g \in 1..admitted : Waits(g)' <=> Waits(g)
    BY <1>0, <2>2, <2>3 DEF Waits, Kind
  <2> QED BY <1>0, <2>2, <2>3, <2>4
<1>2. CASE Admit
  <2>1. PICK new \in Ids : new = admitted + 1
    BY <1>2, Bounds DEF Admit, TypeInv, TypeOK, Ids
  <2>2. sent' = sent /\ admitted' = new /\ \A g \in Ids : pc'[g] = IF g = new THEN "entry" ELSE pc[g]
    BY <1>2, <2>1 DEF Admit, TypeInv, TypeOK
  <2>3. \A g \in 1..admitted : g # new /\ g \in Ids
    BY <1>0, <2>1, GateParts
  <2>4. \A g \in 1..admitted : Waits(g)' <=> Waits(g)
    BY <2>2, <2>3 DEF Waits, Kind
  <2>5. \A g \in 1..admitted' : g \notin 1..admitted => g = new
    BY <1>0, <2>1, <2>2
  <2>6. Waits(new)' /\ pc'[new] = "entry"
    BY <2>2 DEF Waits
  <2> QED BY <1>0, <2>1, <2>2, <2>4, <2>5, <2>6
<1>3. CASE Poll \/ UNCHANGED vars
  <2>1. UNCHANGED <<sent, admitted, pc>>
    BY <1>3 DEF Poll, vars
  <2> QED BY <1>0, <2>1 DEF Waits, Kind
<1>4. ASSUME NEW h \in 1..admitted, Handler(h) PROVE UNCHANGED <<sent, admitted>> /\ \A g \in 1..admitted : Waits(g)' => Waits(g)
  <2>1. UNCHANGED <<sent, admitted>>
    BY <1>4, HandlerMoves DEF GateInv
  <2>2. \A g \in 1..admitted : g # h => (Waits(g)' <=> Waits(g)) /\ pc'[g] = pc[g]
    BY <1>4, HandlerWaits
  <2>3. Waits(h)' => Waits(h)
    BY <1>4, HandlerWaits
  <2> QED BY <2>1, <2>2, <2>3
<1>5. ASSUME NEW h \in 1..admitted, Environment(h) PROVE UNCHANGED <<sent, admitted>> /\ \A g \in 1..admitted : Waits(g)' => Waits(g)
  <2>1. UNCHANGED <<sent, admitted>> /\ (Wake(h) \/ Drop(h))
    BY <1>5, EnvironmentMoves
  <2>2. \A g \in 1..admitted : pc'[g] = pc[g] \/ pc'[g] = "dropped"
    BY <2>1, GateParts DEF Wake, Drop, Leave, TypeOK
  <2> QED BY <2>1, <2>2 DEF Waits, Kind
<1>6. CASE \E h \in 1..admitted : Handler(h) \/ Environment(h)
  <2>1. UNCHANGED <<sent, admitted>> /\ \A g \in 1..admitted : Waits(g)' => Waits(g)
    BY <1>4, <1>5, <1>6
  <2> QED BY <1>0, <2>1
<1> QED BY <1>1, <1>2, <1>3, <1>6 DEF Next

\* The latest message of a text.
LEMMA LatestFacts ==
  /\ Latest(NoText) = 0
  /\ \A m \in Ids : Latest(WholeText(m)) = m /\ WholeText(m) # NoText
  /\ \A t \in Texts, m \in Ids :
       /\ Latest(WithEdit(t, m)) = m /\ WithEdit(t, m) # NoText /\ WithEdit(t, m).base = t.base
       /\ WithEdit(t, m).edits = Append(t.edits, m)
<1>1. Latest(NoText) = 0
  BY DEF Latest, NoText
<1>2. \A m \in Ids : Latest(WholeText(m)) = m /\ WholeText(m) # NoText
  BY Bounds DEF Latest, WholeText, NoText, Ids
<1>3. ASSUME NEW t \in Texts, NEW m \in Ids
      PROVE  /\ Latest(WithEdit(t, m)) = m /\ WithEdit(t, m) # NoText /\ WithEdit(t, m).base = t.base
             /\ WithEdit(t, m).edits = Append(t.edits, m)
  <2>1. t.edits \in Seq(Ids) /\ t = [base |-> t.base, edits |-> t.edits]
    BY DEF Texts
  <2>2. WithEdit(t, m) = [base |-> t.base, edits |-> Append(t.edits, m)]
    BY <2>1 DEF WithEdit
  <2>3. /\ Append(t.edits, m) \in Seq(Ids) /\ Len(Append(t.edits, m)) = Len(t.edits) + 1 /\ Len(t.edits) \in Nat
        /\ Append(t.edits, m)[Len(t.edits) + 1] = m
    BY <2>1, AppendProperties, LenProperties
  <2>4. Append(t.edits, m) # <<>>
    BY <2>3, EmptySeq
  <2> QED BY <2>2, <2>3, <2>4 DEF Latest, NoText
<1> QED BY <1>1, <1>2, <1>3

\* What Session says, without LET.
LEMMA SessionFacts ==
  ASSUME TypeInv, NEW d \in Docs
  PROVE  Session(d) <=>
           /\ docs[d].inst \in 1..docs[d].text.base /\ sent[docs[d].inst] = [kind |-> "open", doc |-> d]
           /\ Faithful(docs[d].text, d)
           /\ Latest(docs[d].text) \in docs[d].text.base..admitted /\ ~Waits(Latest(docs[d].text))
           /\ \A m \in docs[d].inst..Latest(docs[d].text) : Touches(m, d) => Kind(m) # "close"
           /\ \A m \in 1..admitted : Touches(m, d) /\ Latest(docs[d].text) < m => Waits(m)
BY DEF Session

\* The numbers of a session are messages handled.
LEMMA SessionBounds ==
  ASSUME TypeInv, NEW d \in Docs, Session(d)
  PROVE  /\ docs[d].inst \in 1..admitted /\ docs[d].text.base \in 1..admitted /\ Latest(docs[d].text) \in 1..admitted
         /\ docs[d].inst <= docs[d].text.base /\ docs[d].text.base <= Latest(docs[d].text)
         /\ admitted \in Nat /\ admitted <= Len(sent) /\ Len(sent) \in Nat /\ docs[d].text \in Texts
<1>1. admitted \in Nat /\ admitted <= Len(sent) /\ Len(sent) \in Nat
  BY Bounds DEF TypeInv, TypeOK
<1>2. docs[d].text \in Texts /\ docs[d].text.base \in Nat
  BY Bounds DEF TypeInv, TypeOK, Texts
<1> QED BY <1>1, <1>2 DEF Session

\* The message about an open document whose turn it is follows its text.
LEMMA Follower ==
  ASSUME TypeInv, GateInv, InTurn, NEW d \in Docs, Session(d),
         NEW h \in 1..admitted, running = h, Waits(h), Touches(h, d)
  PROVE  /\ Latest(docs[d].text) < h
         /\ {k \in (Latest(docs[d].text) + 1)..h : Touches(k, d)} = {h}
         /\ \A m \in 1..admitted : h < m => Waits(m)
<1>1. /\ Latest(docs[d].text) \in 1..admitted /\ admitted \in Nat /\ h \in Nat
      /\ ~Waits(Latest(docs[d].text))
      /\ \A m \in 1..admitted : Touches(m, d) /\ Latest(docs[d].text) < m => Waits(m)
  BY SessionBounds DEF Session
<1>2. \A m \in 1..admitted : h < m => Waits(m)
  BY DEF InTurn, Waits
<1>3. Latest(docs[d].text) < h
  BY <1>1, <1>2
<1>4. ASSUME NEW k \in (Latest(docs[d].text) + 1)..h, Touches(k, d) PROVE k = h
  <2>1. k \in 1..admitted /\ Latest(docs[d].text) < k /\ k <= h
    BY <1>1, <1>4
  <2>2. Waits(k)
    BY <1>1, <1>4, <2>1
  <2>3. ~(k < h)
    BY <2>1, <2>2, RunnerInTurn
  <2> QED BY <1>1, <2>1, <2>3
<1>5. h \in (Latest(docs[d].text) + 1)..h
  BY <1>1, <1>3
<1> QED BY <1>2, <1>3, <1>4, <1>5

\* A did_open whose turn it is finds its document absent.
LEMMA OpensAbsent ==
  ASSUME TypeInv, GateInv, TurnInv, LegalClient, Sessions,
         NEW h \in 1..admitted, running = h, Waits(h), Kind(h) = "open"
  PROVE  /\ Doc(h) \in Docs /\ ~Present(Doc(h)) /\ docs[Doc(h)].text = NoText /\ ast[Doc(h)] = NoText
<1>1. Doc(h) \in Docs /\ h \in 1..Len(sent) /\ h \in Nat
  BY DocTypes DEF TypeInv
<1>2. ASSUME Present(Doc(h)) PROVE FALSE
  <2>1. InTurn /\ Session(Doc(h)) /\ Touches(h, Doc(h))
    BY <1>1, <1>2, Started DEF Sessions, Touches, DocumentKinds
  <2>2. Latest(docs[Doc(h)].text) < h /\ {k \in (Latest(docs[Doc(h)].text) + 1)..h : Touches(k, Doc(h))} = {h}
    BY <1>1, <2>1, Follower
  <2> DEFINE inst == docs[Doc(h)].inst
             last == Latest(docs[Doc(h)].text)
  <2>3. /\ inst \in 1..admitted /\ last \in 1..admitted /\ inst <= last /\ admitted <= Len(sent) /\ admitted \in Nat
        /\ sent[inst] = [kind |-> "open", doc |-> Doc(h)] /\ Len(sent) \in Nat
        /\ \A m \in inst..last : Touches(m, Doc(h)) => Kind(m) # "close"
    <3>1. sent[inst] = [kind |-> "open", doc |-> Doc(h)] /\ \A m \in inst..last : Touches(m, Doc(h)) => Kind(m) # "close"
      BY <1>1, <2>1, SessionFacts
    <3> QED BY <1>1, <2>1, <3>1, SessionBounds
  <2> HIDE DEF inst, last
  <2>4. inst \in 1..Len(sent) /\ inst < h
    BY <1>1, <2>2, <2>3 DEF last
  <2>5. PICK c \in inst..(h - 1) : sent[c] = [kind |-> "close", doc |-> Doc(h)]
    BY <1>1, <2>3, <2>4 DEF LegalClient
  <2>6. Touches(c, Doc(h)) /\ Kind(c) = "close" /\ c # h /\ c \in Nat /\ c < h
    BY <1>1, <2>3, <2>5 DEF Touches, Kind, Doc, DocumentKinds
  <2>7. CASE c <= last
    BY <2>3, <2>5, <2>6, <2>7
  <2>8. CASE last < c
    <3>1. c \in (last + 1)..h
      BY <1>1, <2>3, <2>6, <2>8
    <3> QED BY <2>2, <2>6, <3>1 DEF last
  <2> QED BY <2>3, <2>6, <2>7, <2>8
<1> QED BY <1>1, <1>2 DEF Sessions

\* A document that nothing was done to.
LEMMA SessionKept ==
  ASSUME TypeInv, TypeInv', NEW d \in Docs, Session(d), docs'[d] = docs[d],
         Len(sent) <= Len(sent'), \A g \in 1..Len(sent) : sent'[g] = sent[g],
         admitted <= admitted', \A g \in 1..admitted : Waits(g)' => Waits(g),
         \A g \in 1..admitted : Touches(g, d) /\ Waits(g) => Waits(g)',
         \A g \in 1..admitted' : g \notin 1..admitted => Waits(g)'
  PROVE  Session(d)'
<1> DEFINE t == docs[d].text
           inst == docs[d].inst
<1>1. /\ inst \in 1..admitted /\ t.base \in 1..admitted /\ Latest(t) \in 1..admitted
      /\ inst <= t.base /\ t.base <= Latest(t)
      /\ admitted \in Nat /\ admitted <= Len(sent) /\ Len(sent) \in Nat /\ t \in Texts
  BY SessionBounds
<1>2. admitted' \in Nat /\ Len(sent') \in Nat
  BY Bounds DEF TypeInv, TypeOK
<1>3. \A g \in 1..Len(sent) : Touches(g, d)' = Touches(g, d) /\ Kind(g)' = Kind(g) /\ Doc(g)' = Doc(g)
  BY DEF Touches, Kind, Doc
<1>4. /\ inst \in 1..t.base /\ sent[inst] = [kind |-> "open", doc |-> d]
      /\ Faithful(t, d) /\ Latest(t) \in t.base..admitted /\ ~Waits(Latest(t))
      /\ \A m \in inst..Latest(t) : Touches(m, d) => Kind(m) # "close"
      /\ \A m \in 1..admitted : Touches(m, d) /\ Latest(t) < m => Waits(m)
  BY SessionFacts
<1> HIDE DEF t, inst
<1>5. Faithful(t, d)'
  <2>1. t' = t
    BY DEF t
  <2>2. t.edits \in Seq(Ids)
    BY <1>1 DEF Texts
  <2>3. \A i \in DOMAIN t.edits : t.edits[i] \in (t.base + 1)..Latest(t)
    BY <1>4 DEF Faithful
  <2>4. {m \in (t.base + 1)..Latest(t) : Touches(m, d)'} = {m \in (t.base + 1)..Latest(t) : Touches(m, d)}
    BY <1>1, <1>3
  <2>5. \A i \in DOMAIN t.edits : sent'[t.edits[i]].doc = d /\ sent'[t.edits[i]].kind = "delta"
    <3>1. \A i \in DOMAIN t.edits : t.edits[i] \in 1..Len(sent)
      BY <1>1, <2>3
    <3> QED BY <1>4, <3>1 DEF Faithful, Doc, Kind
  <2>6. t.base \in 1..Len(sent') /\ sent'[t.base].doc = d /\ sent'[t.base].kind \in {"open", "full"}
    BY <1>1, <1>2, <1>4 DEF Faithful, Doc, Kind
  <2> QED BY <1>4, <2>1, <2>4, <2>5, <2>6 DEF Faithful, Doc, Kind
<1>6. /\ inst' = inst /\ t' = t /\ sent'[inst] = [kind |-> "open", doc |-> d]
      /\ Latest(t) \in t.base..admitted'
  BY <1>1, <1>2, <1>4 DEF inst, t
<1>7. ~Waits(Latest(t))'
  <2>1. \A g : g = Latest(t) => ~Waits(g)'
    BY <1>1, <1>4
  <2> QED BY <1>6, <2>1
<1>8. \A m \in inst..Latest(t) : Touches(m, d)' => Kind(m)' # "close"
  BY <1>1, <1>3, <1>4
<1>9. \A m \in 1..admitted' : Touches(m, d)' /\ Latest(t) < m => Waits(m)'
  <2> SUFFICES ASSUME NEW m \in 1..admitted', Touches(m, d)', Latest(t) < m PROVE Waits(m)'
    OBVIOUS
  <2>1. CASE m \in 1..admitted
    BY <1>1, <1>3, <1>4, <2>1
  <2>2. CASE m \notin 1..admitted
    BY <2>2
  <2> QED BY <2>1, <2>2
<1> QED BY <1>4, <1>5, <1>6, <1>7, <1>8, <1>9, SessionFacts DEF inst, t, Session

\* A document whose text a message gives whole.
LEMMA SessionReplaced ==
  ASSUME TypeInv, TypeInv', NEW d \in Docs, NEW h \in 1..admitted, NEW i \in 1..h,
         sent' = sent, admitted' = admitted, docs'[d] = [inst |-> i, text |-> WholeText(h)],
         Touches(h, d), Kind(h) \in {"open", "full"}, sent[i] = [kind |-> "open", doc |-> d],
         \A m \in i..h : Touches(m, d) => Kind(m) # "close",
         ~Waits(h)', \A m \in 1..admitted : h < m => Waits(m)'
  PROVE  Session(d)'
<1> DEFINE t == WholeText(h)
<1>1. h \in Nat /\ h \in Ids /\ h \in 1..Len(sent) /\ Latest(t) = h /\ t.base = h /\ t.edits = <<>> /\ admitted \in Nat /\ h <= admitted
  BY DocTypes, LatestFacts, Bounds DEF TypeInv, TypeOK, WholeText
<1>2. docs'[d].inst = i /\ docs'[d].text = t
  OBVIOUS
<1>3. \A m \in 1..Len(sent) : Touches(m, d)' = Touches(m, d) /\ Kind(m)' = Kind(m) /\ Doc(m)' = Doc(m)
  BY DEF Touches, Kind, Doc
<1> HIDE DEF t
<1>4. Faithful(t, d)'
  <2>1. t' = t
    BY DEF t
  <2>2. DOMAIN t.edits = {}
    BY <1>1
  <2>3. {m \in (t.base + 1)..Latest(t) : Touches(m, d)'} = {}
    BY <1>1
  <2>4. t.base \in 1..Len(sent') /\ sent'[t.base].doc = d /\ sent'[t.base].kind \in {"open", "full"}
    BY <1>1 DEF Touches, Doc, Kind
  <2> QED BY <2>1, <2>2, <2>3, <2>4 DEF Faithful, Doc, Kind
<1>5. t' = t
  BY DEF t
<1>6. \A m \in i..h : Touches(m, d)' => Kind(m)' # "close"
  BY <1>1, <1>3
<1> QED BY <1>1, <1>2, <1>4, <1>5, <1>6 DEF Session

\* A document whose text a message edits.
LEMMA SessionEdited ==
  ASSUME TypeInv, TypeInv', GateInv, NEW d \in Docs, NEW h \in 1..admitted, running = h, InTurn, Session(d),
         sent' = sent, admitted' = admitted,
         docs'[d] = [inst |-> docs[d].inst, text |-> WithEdit(docs[d].text, h)],
         Waits(h), Touches(h, d), Kind(h) = "delta",
         ~Waits(h)', \A m \in 1..admitted : h < m => Waits(m)'
  PROVE  Session(d)'
<1> DEFINE t == docs[d].text
           i == docs[d].inst
           n == WithEdit(t, h)
<1>1. h \in Nat /\ h \in Ids /\ h \in 1..Len(sent) /\ admitted \in Nat /\ h <= admitted
  BY DocTypes, Bounds DEF TypeInv, TypeOK
<1>2. /\ i \in 1..admitted /\ t.base \in 1..admitted /\ Latest(t) \in 1..admitted
      /\ i <= t.base /\ t.base <= Latest(t) /\ t \in Texts /\ admitted <= Len(sent) /\ Len(sent) \in Nat
  BY SessionBounds
<1>3. Latest(t) < h /\ {k \in (Latest(t) + 1)..h : Touches(k, d)} = {h}
  BY Follower
<1>4. /\ Latest(n) = h /\ n.base = t.base /\ n.edits = Append(t.edits, h) /\ t.edits \in Seq(Ids)
  BY <1>1, <1>2, LatestFacts DEF Texts
<1>5. /\ sent[i] = [kind |-> "open", doc |-> d] /\ Faithful(t, d)
      /\ \A m \in i..Latest(t) : Touches(m, d) => Kind(m) # "close"
  BY SessionFacts
<1>6. docs'[d].inst = i /\ docs'[d].text = n
  OBVIOUS
<1> HIDE DEF t, i, n
<1>7. \A m \in 1..Len(sent) : Touches(m, d)' = Touches(m, d) /\ Kind(m)' = Kind(m) /\ Doc(m)' = Doc(m)
  BY DEF Touches, Kind, Doc
<1>9. /\ DOMAIN n.edits = 1..(Len(t.edits) + 1) /\ DOMAIN t.edits = 1..Len(t.edits) /\ Len(t.edits) \in Nat
      /\ n.edits[Len(t.edits) + 1] = h /\ \A k \in 1..Len(t.edits) : n.edits[k] = t.edits[k]
  BY <1>1, <1>4, AppendProperties, LenProperties
<1>10. \A k \in 1..Len(t.edits) : t.edits[k] \in (t.base + 1)..Latest(t) /\ sent[t.edits[k]].doc = d /\ sent[t.edits[k]].kind = "delta"
  BY <1>5, <1>9 DEF Faithful, Doc, Kind
<1>11. {m \in (t.base + 1)..h : Touches(m, d)} = {n.edits[k] : k \in DOMAIN n.edits}
  <2>1. {m \in (t.base + 1)..Latest(t) : Touches(m, d)} = {t.edits[k] : k \in DOMAIN t.edits}
    BY <1>5 DEF Faithful
  <2>2. {m \in (t.base + 1)..h : Touches(m, d)} =
          {m \in (t.base + 1)..Latest(t) : Touches(m, d)} \cup {m \in (Latest(t) + 1)..h : Touches(m, d)}
    <3>1. (t.base + 1)..h = ((t.base + 1)..Latest(t)) \cup ((Latest(t) + 1)..h)
      BY <1>1, <1>2, <1>3
    <3> QED BY <3>1
  <2>3. {n.edits[k] : k \in DOMAIN n.edits} = {t.edits[k] : k \in DOMAIN t.edits} \cup {h}
    <3>1. ASSUME NEW k \in DOMAIN n.edits PROVE n.edits[k] \in {t.edits[j] : j \in DOMAIN t.edits} \cup {h}
      <4>1. k = Len(t.edits) + 1 \/ k \in 1..Len(t.edits)
        BY <1>9
      <4> QED BY <1>9, <4>1
    <3>2. h \in {n.edits[k] : k \in DOMAIN n.edits}
      <4>1. Len(t.edits) + 1 \in DOMAIN n.edits
        BY <1>9
      <4> QED BY <1>9, <4>1
    <3>3. ASSUME NEW k \in DOMAIN t.edits PROVE t.edits[k] \in {n.edits[j] : j \in DOMAIN n.edits}
      <4>1. k \in DOMAIN n.edits /\ n.edits[k] = t.edits[k]
        BY <1>9
      <4> QED BY <4>1
    <3> QED BY <3>1, <3>2, <3>3
  <2> QED BY <1>3, <2>1, <2>2, <2>3
<1>12. \A k, l \in DOMAIN n.edits : k < l => n.edits[k] < n.edits[l]
  <2> SUFFICES ASSUME NEW k \in DOMAIN n.edits, NEW l \in DOMAIN n.edits, k < l PROVE n.edits[k] < n.edits[l]
    OBVIOUS
  <2>1. k \in 1..Len(t.edits) /\ n.edits[k] = t.edits[k]
    BY <1>9
  <2>2. CASE l = Len(t.edits) + 1
    <3>1. t.edits[k] <= Latest(t) /\ t.edits[k] \in Nat
      BY <1>2, <1>10, <2>1
    <3> QED BY <1>1, <1>2, <1>3, <1>9, <2>1, <2>2, <3>1
  <2>3. CASE l \in 1..Len(t.edits)
    BY <1>5, <1>9, <2>1, <2>3 DEF Faithful
  <2> QED BY <1>9, <2>2, <2>3
<1>13. Faithful(n, d) /\ \A k \in DOMAIN n.edits : n.edits[k] \in 1..Len(sent)
  <2>1. \A k \in DOMAIN n.edits : n.edits[k] \in 1..Len(sent) /\ Doc(n.edits[k]) = d /\ Kind(n.edits[k]) = "delta"
    <3> SUFFICES ASSUME NEW k \in DOMAIN n.edits
                 PROVE  n.edits[k] \in 1..Len(sent) /\ Doc(n.edits[k]) = d /\ Kind(n.edits[k]) = "delta"
      OBVIOUS
    <3>1. CASE k = Len(t.edits) + 1
      BY <1>1, <1>9, <3>1 DEF Touches
    <3>2. CASE k \in 1..Len(t.edits)
      <4>1. n.edits[k] \in (t.base + 1)..Latest(t) /\ Doc(n.edits[k]) = d /\ Kind(n.edits[k]) = "delta"
        BY <1>9, <1>10, <3>2 DEF Doc, Kind
      <4>2. (t.base + 1)..Latest(t) \subseteq 1..Len(sent)
        BY <1>1, <1>2
      <4> QED BY <4>1, <4>2
    <3> QED BY <1>9, <3>1, <3>2
  <2>2. n.base \in 1..Len(sent) /\ Doc(n.base) = d /\ Kind(n.base) \in {"open", "full"}
    BY <1>4, <1>5 DEF Faithful
  <2>3. {m \in (n.base + 1)..Latest(n) : Touches(m, d)} = {n.edits[k] : k \in DOMAIN n.edits}
    BY <1>4, <1>11
  <2> QED BY <1>12, <2>1, <2>2, <2>3 DEF Faithful
<1>14. \A m \in i..h : Touches(m, d) => Kind(m) # "close"
  <2> SUFFICES ASSUME NEW m \in i..h, Touches(m, d) PROVE Kind(m) # "close"
    OBVIOUS
  <2>1. CASE m <= Latest(t)
    BY <1>1, <1>2, <1>5, <2>1
  <2>2. CASE Latest(t) < m
    <3>1. m \in (Latest(t) + 1)..h
      BY <1>1, <1>2, <2>2
    <3> QED BY <1>3, <3>1
  <2> QED BY <1>1, <1>2, <2>1, <2>2
<1>15. /\ i \in 1..n.base /\ Latest(n) \in n.base..admitted
       /\ \A m \in i..Latest(n) : Touches(m, d) => Kind(m) # "close"
  BY <1>1, <1>2, <1>3, <1>4, <1>14
<1>16. \A x, y : x = n /\ y = i /\ docs'[d].inst = y /\ docs'[d].text = x => Session(d)'
  <2> SUFFICES ASSUME NEW CONSTANT x, NEW CONSTANT y, x = n, y = i, docs'[d].inst = y, docs'[d].text = x PROVE Session(d)'
    OBVIOUS
  <2>1. Faithful(x, d)'
    BY <1>13 DEF Faithful, Touches, Kind, Doc
  <2>2. /\ y \in 1..x.base /\ sent[y] = [kind |-> "open", doc |-> d]
        /\ Latest(x) = h /\ Latest(x) \in x.base..admitted
        /\ \A m \in y..Latest(x) : (Touches(m, d) => Kind(m) # "close")'
    BY <1>4, <1>5, <1>15 DEF Touches, Kind, Doc
  <2> QED BY <2>1, <2>2 DEF Session
<1> QED BY <1>6, <1>16

\* What handlers change: the text only when it is their turn, and did_open
\* finds the text it put there.
LEMMA StoreEffects ==
  ASSUME TypeInv, GateInv, Opening, NEW h \in 1..admitted, Handler(h)
  PROVE  /\ ~InsertDocument(h) /\ ~ChangeFull(h) /\ ~ChangeDelta(h) /\ ~Close(h) => docs' = docs
         /\ ~AnalyseOnOpen(h) /\ ~ChangeFull(h) /\ ~ChangeDelta(h) /\ ~Close(h) => ast' = ast
         /\ ~AddRoots(h) /\ ~ChangeOnOpen(h) => rooted' = rooted
         /\ rooted \subseteq rooted' /\ timeouts' = timeouts
         /\ \A g \in 1..admitted : g # h => rope'[g] = rope[g]
         /\ ~ChangeOnOpen(h) /\ ~Answer(h) => rope' = rope
<1>1. h \in Ids /\ 1..admitted \subseteq Ids
  BY GateParts
<1>2. CASE ChangeOnOpen(h)
  <2>1. Kind(h) = "open" /\ pc[h] = "addroot" /\ Doc(h) \in Docs
    BY <1>2, GateParts, DocTypes DEF ChangeOnOpen, At, Stages, Fits
  <2>2. docs' = docs
    <3>1. CASE ~Present(Doc(h))
      BY <1>2, <3>1 DEF ChangeOnOpen
    <3>2. CASE Present(Doc(h))
      <4>1. docs[Doc(h)] = [inst |-> h, text |-> WholeText(h)]
        BY <2>1, <3>2 DEF Opening, OpenText
      <4>2. [docs[Doc(h)] EXCEPT !.text = WholeText(h)] = docs[Doc(h)]
        BY <4>1
      <4>3. docs' = [docs EXCEPT ![Doc(h)] = [docs[Doc(h)] EXCEPT !.text = WholeText(h)]]
        BY <1>2, <3>2 DEF ChangeOnOpen
      <4> QED BY <2>1, <4>2, <4>3, GateParts DEF TypeOK
    <3> QED BY <3>1, <3>2
  <2>3. \A g \in 1..admitted : g # h => rope'[g] = rope[g]
    BY <1>1, <1>2, GateParts DEF ChangeOnOpen, locals, TypeOK
  <2> QED BY <1>2, <2>1, <2>2, <2>3 DEF ChangeOnOpen
<1>3. CASE Answer(h)
  <2>1. \A g \in 1..admitted : g # h => rope'[g] = rope[g]
    BY <1>1, <1>3, GateParts DEF Answer, TypeOK
  <2> QED BY <1>3, <2>1 DEF Answer, store
<1>4. CASE ~ChangeOnOpen(h) /\ ~Answer(h)
  <2>1. rope' = rope /\ timeouts' = timeouts
    BY <1>4 DEF Handler, RegisterCapability, ForceBlockRoot, AddRoots, WaitForRoot, RootWaitPolled, BlockRoot,
       InsertDocument, AnalyseOnOpen, WaitForDocument, DocumentWaitPolled, ChangeFull, ChangeDelta, Close,
       LoadDependents, locals
  <2>2. /\ ~InsertDocument(h) /\ ~ChangeFull(h) /\ ~ChangeDelta(h) /\ ~Close(h) => docs' = docs
        /\ ~AnalyseOnOpen(h) /\ ~ChangeFull(h) /\ ~ChangeDelta(h) /\ ~Close(h) => ast' = ast
    BY <1>4 DEF Handler, RegisterCapability, ForceBlockRoot, AddRoots, WaitForRoot, RootWaitPolled, BlockRoot,
       InsertDocument, AnalyseOnOpen, WaitForDocument, DocumentWaitPolled, LoadDependents, store
  <2>3. (~AddRoots(h) => rooted' = rooted) /\ rooted \subseteq rooted'
    BY <1>4 DEF Handler, RegisterCapability, ForceBlockRoot, AddRoots, WaitForRoot, RootWaitPolled, BlockRoot,
       InsertDocument, AnalyseOnOpen, WaitForDocument, DocumentWaitPolled, ChangeFull, ChangeDelta, Close,
       LoadDependents, store
  <2> QED BY <1>4, <2>1, <2>2, <2>3
<1> QED BY <1>2, <1>3, <1>4

\* What is left of the document and its tree by those that do change it.
LEMMA InsertEffects ==
  ASSUME TypeInv, GateInv, NEW h \in 1..admitted, InsertDocument(h)
  PROVE  /\ Kind(h) = "open" /\ Doc(h) \in Docs /\ Waits(h)' = FALSE /\ ast' = ast /\ rooted' = rooted
         /\ docs'[Doc(h)] = [inst |-> h, text |-> WholeText(h)]
         /\ \A d \in Docs : d # Doc(h) => docs'[d] = docs[d]
         /\ pc'[h] = "addroot" /\ (Doc(h) \in rooted => running' = h)
<1>1. Kind(h) = "open" /\ Doc(h) \in Docs /\ h \in Ids /\ sent' = sent
  BY DocTypes, GateParts DEF InsertDocument, At, Stages, Fits
<1>2. pc'[h] = "addroot"
  BY <1>1, GateParts DEF InsertDocument, Await, StepTo, ParkAt, TypeOK
<1> QED BY <1>1, <1>2, GateParts DEF InsertDocument, StepTo, Waits, TypeOK

LEMMA EditEffects ==
  ASSUME TypeInv, TypeInv', GateInv, GateInv', NEW h \in 1..admitted, ChangeFull(h) \/ ChangeDelta(h),
         NEW new \in Texts, new = (IF Kind(h) = "full" THEN WholeText(h) ELSE WithEdit(docs[Doc(h)].text, h))
  PROVE  /\ Kind(h) \in EditKinds /\ Doc(h) \in Docs /\ Waits(h) /\ running = h /\ rooted' = rooted
         /\ ~Present(Doc(h)) => docs' = docs /\ ast' = ast /\ Leave(h, "missingPanic")
         /\ Present(Doc(h)) =>
              /\ docs'[Doc(h)] = [inst |-> docs[Doc(h)].inst, text |-> new]
              /\ \A d \in Docs : d # Doc(h) => docs'[d] = docs[d] /\ ast'[d] = ast[d]
              /\ \/ Doc(h) \notin rooted /\ ast' = ast /\ Leave(h, "failed")
                 \/ Doc(h) \in rooted /\ Kind(h) = "delta" /\ (ast[Doc(h)] = NoText \/ Doc(h) \in Encoded)
                      /\ ast' = ast /\ Leave(h, "failed")
                 \/ Doc(h) \in rooted /\ ast'[Doc(h)] = new /\ Leave(h, "done")
         /\ Kind(h) = "full" <=> ChangeFull(h)
<1>1. /\ Kind(h) \in EditKinds /\ Doc(h) \in Docs /\ Waits(h) /\ running = h /\ h \in Ids /\ rooted' = rooted
      /\ (Kind(h) = "full" <=> ChangeFull(h)) /\ (Kind(h) = "delta" <=> ChangeDelta(h))
  BY DocTypes, GateParts DEF ChangeFull, ChangeDelta, At, EditKinds, Waits
<1>2. CASE ~Present(Doc(h))
  BY <1>1, <1>2 DEF ChangeFull, ChangeDelta
<1>3. CASE Present(Doc(h))
  <2>1. docs' = [docs EXCEPT ![Doc(h)] = [docs[Doc(h)] EXCEPT !.text = new]]
    BY <1>1, <1>3 DEF ChangeFull, ChangeDelta
  <2>2. /\ docs'[Doc(h)] = [inst |-> docs[Doc(h)].inst, text |-> new]
        /\ \A d \in Docs : d # Doc(h) => docs'[d] = docs[d]
    <3>1. docs[Doc(h)] = [inst |-> docs[Doc(h)].inst, text |-> docs[Doc(h)].text]
      BY <1>1, GateParts DEF TypeOK
    <3>2. [docs[Doc(h)] EXCEPT !.text = new] = [inst |-> docs[Doc(h)].inst, text |-> new]
      BY <3>1
    <3> QED BY <1>1, <2>1, <3>2, GateParts DEF TypeOK
  <2>3. PICK parses \in BOOLEAN : Analyse(h, parses) /\ (~parses => Kind(h) = "delta" /\ (ast[Doc(h)] = NoText \/ Doc(h) \in Encoded))
    BY <1>1, <1>3 DEF ChangeFull, ChangeDelta
  <2>4. ~Leave(h, "blockPanic")
    <3>1. \A g \in Ids : pc'[g] # "blockPanic"
      BY DEF GateInv, NoBlockPanic
    <3> QED BY <1>1, <3>1, GateParts DEF Leave, TypeOK
  <2>5. /\ \A d \in Docs : d # Doc(h) => ast'[d] = ast[d]
        /\ \/ Doc(h) \notin rooted /\ ast' = ast /\ Leave(h, "failed")
           \/ Doc(h) \in rooted /\ ~parses /\ ast' = ast /\ Leave(h, "failed")
           \/ Doc(h) \in rooted /\ ast'[Doc(h)] = new /\ Leave(h, "done")
    BY <1>1, <2>2, <2>3, <2>4, GateParts DEF Analyse, TypeOK
  <2> QED BY <1>1, <1>3, <2>2, <2>3, <2>5
<1> QED BY <1>2, <1>3

LEMMA CloseEffects ==
  ASSUME TypeInv, GateInv, NEW h \in 1..admitted, Close(h)
  PROVE  /\ Kind(h) = "close" /\ Doc(h) \in Docs /\ Waits(h) /\ running = h /\ rooted' = rooted
         /\ docs'[Doc(h)] = [inst |-> 0, text |-> NoText] /\ ast'[Doc(h)] = NoText
         /\ \A d \in Docs : d # Doc(h) => docs'[d] = docs[d] /\ ast'[d] = ast[d]
BY DocTypes, GateParts DEF Close, At, Waits, TypeOK

\* The handler's own document apart, a step of it leaves the sessions.
LEMMA OthersKept ==
  ASSUME TypeInv, TypeInv', GateInv, Sessions, NEW h \in 1..admitted, Handler(h), NEW d \in Docs, Present(d),
         docs'[d] = docs[d], Touches(h, d) /\ Waits(h) => Waits(h)'
  PROVE  Session(d)'
<1>1. sent' = sent /\ admitted' = admitted
  BY HandlerMoves DEF GateInv
<1>2. \A g \in 1..admitted : g # h => (Waits(g)' <=> Waits(g)) /\ pc'[g] = pc[g]
  BY HandlerWaits
<1>3. Waits(h)' => Waits(h)
  BY HandlerWaits
<1>4. Len(sent) \in Nat /\ admitted \in Nat
  BY Bounds DEF TypeInv, TypeOK
<1>5. Session(d)
  BY DEF Sessions
<1> QED BY <1>1, <1>2, <1>3, <1>4, <1>5, SessionKept

\* The last handler of an edit, or of a did_close, is the one whose turn it was.
LEMMA WaitersKept ==
  ASSUME TypeInv, GateInv, InTurn, NEW h \in 1..admitted, Handler(h), running = h, Waits(h)
  PROVE  \A m \in 1..admitted : h < m => Waits(m)'
<1>1. \A g \in 1..admitted : g # h => (Waits(g)' <=> Waits(g)) /\ pc'[g] = pc[g]
  BY HandlerWaits
<1>2. \A m \in 1..admitted : h < m => Waits(m) /\ m # h
  BY GateParts DEF InTurn, Waits
<1> QED BY <1>1, <1>2

LEMMA SessionsHandler ==
  ASSUME TypeInv, TypeInv', GateInv, GateInv', TurnInv, LegalClient, Sessions, Opening,
         NEW h \in 1..admitted, Handler(h)
  PROVE  Sessions'
<1> SUFFICES ASSUME NEW d \in Docs PROVE IF Present(d)' THEN Session(d)' ELSE docs'[d].text = NoText /\ ast'[d] = NoText
  BY DEF Sessions
<1>1. /\ running = h /\ h \in Ids /\ sent' = sent /\ admitted' = admitted /\ h \in Nat /\ h \in 1..Len(sent)
      /\ Len(sent) \in Nat /\ admitted \in Nat
  <2>1. running = h /\ h \in Ids /\ sent' = sent /\ admitted' = admitted
    BY HandlerMoves DEF GateInv
  <2>2. h \in Nat /\ h \in 1..Len(sent) /\ Len(sent) \in Nat /\ admitted \in Nat
    BY DocTypes, Bounds DEF TypeInv, TypeOK
  <2> QED BY <2>1, <2>2
<1>2. CASE InsertDocument(h)
  <2>1. /\ Kind(h) = "open" /\ Doc(h) \in Docs /\ Waits(h)' = FALSE /\ ast' = ast /\ rooted' = rooted
        /\ docs'[Doc(h)] = [inst |-> h, text |-> WholeText(h)]
        /\ \A e \in Docs : e # Doc(h) => docs'[e] = docs[e]
        /\ pc'[h] = "addroot" /\ (Doc(h) \in rooted => running' = h)
    BY <1>2, InsertEffects
  <2>2. Waits(h) /\ pc[1] = "done" /\ InTurn
    <3>1. pc[h] = "insert"
      BY <1>2, <1>1 DEF InsertDocument, At, TurnInv, Unsuspended
    <3> QED BY <2>1, <3>1, Started DEF Waits
  <2>3. \A m \in 1..admitted : h < m => Waits(m)'
    BY <1>1, <2>2, WaitersKept
  <2>4. CASE d = Doc(h)
    <3>1. Touches(h, d) /\ sent[h] = [kind |-> "open", doc |-> d]
      <4>1. sent[h] \in Messages
        BY <1>1 DEF TypeInv, TypeOK
      <4> QED BY <2>1, <2>4, <4>1 DEF Touches, Kind, Doc, DocumentKinds, Messages
    <3>2. \A m \in h..h : Touches(m, d) => Kind(m) # "close"
      BY <1>1, <2>1
    <3>3. h \in 1..h /\ ~Waits(h)' /\ Kind(h) \in {"open", "full"}
      BY <1>1, <2>1
    <3>4. Session(d)'
      BY <1>1, <2>1, <2>3, <2>4, <3>1, <3>2, <3>3, SessionReplaced
    <3> QED BY <1>1, <2>1, <2>4, <3>4, GateParts DEF Present
  <2>5. CASE d # Doc(h)
    <3>1. ~Touches(h, d) /\ docs'[d] = docs[d]
      BY <2>1, <2>5 DEF Touches
    <3>2. Present(d) => Session(d)'
      BY <3>1, OthersKept
    <3> QED BY <2>1, <3>1, <3>2 DEF Sessions, Present
  <2> QED BY <2>4, <2>5
<1>3. CASE ChangeFull(h) \/ ChangeDelta(h)
  <2> DEFINE new == IF Kind(h) = "full" THEN WholeText(h) ELSE WithEdit(docs[Doc(h)].text, h)
  <2>0. Doc(h) \in Docs /\ Kind(h) \in EditKinds
    BY <1>3, DocTypes DEF ChangeFull, ChangeDelta, TypeInv, EditKinds
  <2>1. new \in Texts
    BY <1>1, <2>0, TextTypes DEF TypeInv, TypeOK
  <2> HIDE DEF new
  <2>2. new = (IF Kind(h) = "full" THEN WholeText(h) ELSE WithEdit(docs[Doc(h)].text, h))
    BY DEF new
  <2>3. /\ Kind(h) \in EditKinds /\ Doc(h) \in Docs /\ Waits(h) /\ running = h /\ rooted' = rooted
        /\ ~Present(Doc(h)) => docs' = docs /\ ast' = ast /\ Leave(h, "missingPanic")
        /\ Present(Doc(h)) =>
             /\ docs'[Doc(h)] = [inst |-> docs[Doc(h)].inst, text |-> new]
             /\ \A e \in Docs : e # Doc(h) => docs'[e] = docs[e] /\ ast'[e] = ast[e]
             /\ \/ Doc(h) \notin rooted /\ ast' = ast /\ Leave(h, "failed")
                \/ Doc(h) \in rooted /\ Kind(h) = "delta" /\ (ast[Doc(h)] = NoText \/ Doc(h) \in Encoded)
                     /\ ast' = ast /\ Leave(h, "failed")
                \/ Doc(h) \in rooted /\ ast'[Doc(h)] = new /\ Leave(h, "done")
        /\ Kind(h) = "full" <=> ChangeFull(h)
    BY <1>3, <2>1, <2>2, EditEffects
  <2>4. pc[1] = "done" /\ InTurn
    BY <1>3, <2>3, Started DEF ChangeFull, ChangeDelta, At, EditKinds
  <2>5. \A m \in 1..admitted : h < m => Waits(m)'
    BY <1>1, <2>3, <2>4, WaitersKept
  <2>6. CASE d # Doc(h) \/ ~Present(Doc(h))
    <3>1. docs'[d] = docs[d] /\ ast'[d] = ast[d]
      BY <2>3, <2>6
    <3>2. Present(d) => ~Touches(h, d)
      BY <2>6 DEF Touches
    <3>3. Present(d) => Session(d)'
      BY <3>1, <3>2, OthersKept
    <3> QED BY <3>1, <3>3 DEF Sessions, Present
  <2>7. CASE d = Doc(h) /\ Present(Doc(h))
    <3>1. Session(d) /\ Touches(h, d)
      BY <2>3, <2>7 DEF Sessions, Touches, DocumentKinds
    <3>2. pc'[h] \in Terminal
      BY <1>1, <2>3, <2>7, GateParts DEF Leave, Terminal, TypeOK
    <3>3. ~Waits(h)'
      BY <3>2 DEF Waits, Terminal
    <3>4. CASE Kind(h) = "full"
      <4>1. /\ Latest(docs[d].text) < h /\ {k \in (Latest(docs[d].text) + 1)..h : Touches(k, d)} = {h}
        BY <1>1, <2>3, <2>4, <3>1, Follower
      <4>2. /\ docs[d].inst \in 1..admitted /\ docs[d].inst <= Latest(docs[d].text) /\ Latest(docs[d].text) \in 1..admitted
            /\ sent[docs[d].inst] = [kind |-> "open", doc |-> d]
            /\ \A m \in docs[d].inst..Latest(docs[d].text) : Touches(m, d) => Kind(m) # "close"
        <5>1. /\ docs[d].inst \in 1..admitted /\ docs[d].text.base \in 1..admitted /\ Latest(docs[d].text) \in 1..admitted
              /\ docs[d].inst <= docs[d].text.base /\ docs[d].text.base <= Latest(docs[d].text)
              /\ admitted \in Nat /\ admitted <= Len(sent) /\ Len(sent) \in Nat /\ docs[d].text \in Texts
          BY <3>1, SessionBounds
        <5> QED BY <3>1, <5>1, SessionFacts
      <4>3. docs[d].inst \in 1..h
        BY <1>1, <4>1, <4>2
      <4>4. ASSUME NEW m \in docs[d].inst..h, Touches(m, d) PROVE Kind(m) # "close"
        <5>1. CASE m <= Latest(docs[d].text)
          BY <1>1, <4>2, <4>4, <5>1
        <5>2. CASE Latest(docs[d].text) < m
          <6>1. m \in (Latest(docs[d].text) + 1)..h
            BY <1>1, <4>2, <5>2
          <6> QED BY <3>4, <4>1, <4>4, <6>1
        <5> QED BY <1>1, <4>2, <5>1, <5>2
      <4>5. docs'[d] = [inst |-> docs[d].inst, text |-> WholeText(h)]
        BY <2>2, <2>3, <2>7, <3>4
      <4>6. \A i : i = docs[d].inst => Session(d)'
        <5> SUFFICES ASSUME NEW CONSTANT i, i = docs[d].inst PROVE Session(d)'
          OBVIOUS
        <5> QED BY <1>1, <2>5, <3>1, <3>3, <3>4, <4>2, <4>3, <4>4, <4>5, SessionReplaced
      <4> QED BY <2>7, <4>5, <4>6 DEF Present
    <3>5. CASE Kind(h) = "delta"
      <4>1. docs'[d] = [inst |-> docs[d].inst, text |-> WithEdit(docs[d].text, h)]
        BY <2>2, <2>3, <2>7, <3>5
      <4>2. Session(d)'
        BY <1>1, <2>3, <2>4, <2>5, <3>1, <3>3, <3>5, <4>1, SessionEdited
      <4> QED BY <2>7, <4>1, <4>2 DEF Present
    <3> QED BY <2>3, <3>4, <3>5 DEF EditKinds
  <2> QED BY <2>6, <2>7
<1>4. CASE Close(h)
  <2>1. /\ Kind(h) = "close" /\ Doc(h) \in Docs /\ Waits(h) /\ running = h /\ rooted' = rooted
        /\ docs'[Doc(h)] = [inst |-> 0, text |-> NoText] /\ ast'[Doc(h)] = NoText
        /\ \A e \in Docs : e # Doc(h) => docs'[e] = docs[e] /\ ast'[e] = ast[e]
    BY <1>4, CloseEffects
  <2>2. CASE d = Doc(h)
    BY <2>1, <2>2 DEF Present
  <2>3. CASE d # Doc(h)
    <3>1. ~Touches(h, d) /\ docs'[d] = docs[d]
      BY <2>1, <2>3 DEF Touches
    <3>2. Present(d) => Session(d)'
      BY <3>1, OthersKept
    <3> QED BY <2>1, <2>3, <3>1, <3>2 DEF Sessions, Present
  <2> QED BY <2>2, <2>3
<1>5. CASE ~InsertDocument(h) /\ ~ChangeFull(h) /\ ~ChangeDelta(h) /\ ~Close(h)
  <2>1. docs' = docs /\ (ast' = ast \/ (AnalyseOnOpen(h) /\ \E t : ast' = [ast EXCEPT ![Doc(h)] = t]))
    BY <1>5, StoreEffects DEF AnalyseOnOpen
  <2>2. CASE ~Present(d)
    <3>1. ast'[d] = ast[d]
      <4>1. CASE AnalyseOnOpen(h) /\ d = Doc(h)
        BY <2>2, <4>1 DEF AnalyseOnOpen
      <4>2. CASE ast' = ast \/ d # Doc(h)
        BY <2>1, <4>2, GateParts DEF TypeOK
      <4> QED BY <2>1, <4>1, <4>2
    <3> QED BY <2>1, <2>2, <3>1 DEF Sessions, Present
  <2>3. CASE Present(d)
    <3>1. Touches(h, d) /\ Waits(h) => Waits(h)'
      <4> SUFFICES ASSUME Touches(h, d), Waits(h), ~Waits(h)' PROVE FALSE
        OBVIOUS
      <4>1. Waits(h) /\ ~Waits(h)' /\ Kind(h) \in DocumentKinds =>
              InsertDocument(h) \/ BlockRoot(h) \/ ChangeFull(h) \/ ChangeDelta(h) \/ Close(h)
        BY HandlerWaits
      <4>2. BlockRoot(h) /\ Kind(h) = "open"
        BY <1>5, <4>1 DEF Touches, BlockRoot
      <4>3. ~Present(Doc(h))
        BY <1>1, <4>2, OpensAbsent
      <4> QED BY <2>3, <4>3 DEF Touches
    <3>2. Session(d)'
      BY <2>1, <2>3, <3>1, OthersKept
    <3> QED BY <2>1, <2>3, <3>2 DEF Present
  <2> QED BY <2>2, <2>3
<1> QED BY <1>2, <1>3, <1>4, <1>5

\* While a did_open holds root_setup nobody else changes its document, but for a did_close.
LEMMA HeldDocument ==
  ASSUME TypeInv, TypeInv', GateInv, GateInv', TurnInv, Opening, Closing, NEW h \in 1..admitted, Handler(h),
         NEW g \in 1..admitted, g # h, Kind(g) = "open", pc[g] \in {"addroot", "load"}
  PROVE  \/ docs' = docs /\ ast' = ast
         \/ Close(h) /\ \/ docs'[Doc(g)] = docs[Doc(g)] /\ ast'[Doc(g)] = ast[Doc(g)]
                        \/ pc[g] = "addroot" /\ ~Present(Doc(g))'
<1>1. g \in InFlight /\ HoldsRoot(g) /\ root /\ Doc(g) \in Docs
  BY DocTypes, GateParts DEF InFlight, Terminal, HoldsRoot, RootExclusive
<1>2. h \in InFlight /\ ~HoldsRoot(h)
  BY <1>1, HandlerMoves DEF GateInv, BlockerInv, RootExclusive
<1>3. Fits(pc[h], Kind(h))
  BY GateParts DEF Stages
<1>4. ~InsertDocument(h) /\ ~AnalyseOnOpen(h)
  BY <1>2, <1>3 DEF InsertDocument, AnalyseOnOpen, At, HoldsRoot, Fits
<1>5. ~ChangeFull(h) /\ ~ChangeDelta(h)
  BY <1>1, GateParts DEF ChangeFull, ChangeDelta, At, GateOpen
<1>6. CASE ~Close(h)
  BY <1>4, <1>5, <1>6, StoreEffects
<1>7. CASE Close(h)
  <2>1. /\ Kind(h) = "close" /\ Doc(h) \in Docs /\ Waits(h) /\ running = h /\ rooted' = rooted
        /\ docs'[Doc(h)] = [inst |-> 0, text |-> NoText] /\ ast'[Doc(h)] = NoText
        /\ \A d \in Docs : d # Doc(h) => docs'[d] = docs[d] /\ ast'[d] = ast[d]
    BY <1>7, CloseEffects
  <2>2. CASE Doc(g) # Doc(h)
    BY <1>1, <1>7, <2>1, <2>2
  <2>3. CASE Doc(g) = Doc(h)
    <3>1. pc[h] = "opened"
      BY <1>7 DEF Close, At
    <3>2. pc[g] = "addroot"
      BY <2>1, <2>3, <3>1 DEF Closing
    <3>3. docs'[Doc(g)].inst = 0
      BY <2>1, <2>3
    <3>4. sent' = sent
      BY HandlerMoves DEF GateInv
    <3> QED BY <1>7, <3>2, <3>3, <3>4 DEF Present, Doc
  <2> QED BY <2>2, <2>3
<1> QED BY <1>6, <1>7

LEMMA OpeningHandler ==
  ASSUME TypeInv, TypeInv', GateInv, GateInv', TurnInv, LegalClient, Sessions, Opening, Closing,
         NEW h \in 1..admitted, Handler(h)
  PROVE  Opening'
<1>1. running = h /\ h \in Ids /\ sent' = sent /\ admitted' = admitted
  BY HandlerMoves DEF GateInv
<1>2. \A g \in 1..admitted : Kind(g)' = Kind(g) /\ Doc(g)' = Doc(g)
  BY <1>1 DEF Kind, Doc
<1>3. rooted \subseteq rooted' /\ \A g \in 1..admitted : g # h => rope'[g] = rope[g]
  BY StoreEffects
<1> SUFFICES ASSUME NEW g \in 1..admitted, Kind(g) = "open"
             PROVE  /\ pc'[g] = "addroot" => ~Present(Doc(g))' \/ OpenText(g)'
                    /\ pc'[g] = "load" => OpenText(g)' /\ rope'[g] = WholeText(g) /\ Doc(g) \in rooted'
  BY <1>1, <1>2 DEF Opening
<1>4. CASE g # h
  <2>1. pc'[g] = pc[g]
    BY <1>4, HandlerWaits
  <2>2. CASE pc[g] \in {"addroot", "load"}
    <3>1. \/ docs' = docs /\ ast' = ast
          \/ docs'[Doc(g)] = docs[Doc(g)] /\ ast'[Doc(g)] = ast[Doc(g)]
          \/ pc[g] = "addroot" /\ ~Present(Doc(g))'
      BY <1>4, <2>2, HeldDocument
    <3>2. CASE docs'[Doc(g)] = docs[Doc(g)] /\ ast'[Doc(g)] = ast[Doc(g)]
      <4>1. (Present(Doc(g))' <=> Present(Doc(g))) /\ (OpenText(g)' <=> OpenText(g))
        BY <1>2, <3>2 DEF Present, OpenText
      <4> QED BY <1>3, <1>4, <2>1, <2>2, <4>1 DEF Opening
    <3> QED BY <2>1, <3>1, <3>2
  <2> QED BY <2>1, <2>2
<1>5. CASE g = h
  <2>1. CASE pc'[h] = "addroot"
    <3>1. InsertDocument(h)
      <4>1. \A label : StepTo(h, label) \/ ParkAt(h, label) => pc'[h] = label
        BY <1>1, GateParts DEF StepTo, ParkAt, TypeOK
      <4>2. \A how : Leave(h, how) => pc'[h] = how
        BY <1>1, GateParts DEF Leave, TypeOK
      <4>3. ~BlockRoot(h)
        BY <2>1, <4>1, <4>2 DEF BlockRoot
      <4>4. ~ChangeOnOpen(h)
        BY <2>1, <4>1, <4>2 DEF ChangeOnOpen, Await
      <4>5. ~AnalyseOnOpen(h)
        BY <2>1, <4>1, <4>2 DEF AnalyseOnOpen
      <4> QED BY <1>5, <2>1, <4>1, <4>2, <4>3, <4>4, <4>5 DEF Handler, RegisterCapability, ForceBlockRoot, AddRoots, WaitForRoot,
          RootWaitPolled, WaitForDocument, DocumentWaitPolled, ChangeFull, ChangeDelta, Close, LoadDependents, Answer,
          Analyse, Await
    <3>2. /\ Doc(h) \in Docs /\ ast' = ast /\ docs'[Doc(h)] = [inst |-> h, text |-> WholeText(h)]
      BY <3>1, InsertEffects
    <3>3. ast[Doc(h)] = NoText
      <4>1. pc[h] = "insert"
        BY <1>1, <3>1 DEF InsertDocument, At, TurnInv, Unsuspended
      <4> QED BY <1>1, <1>5, <4>1, OpensAbsent DEF Waits
    <3>4. OpenText(h)'
      BY <1>2, <3>2, <3>3 DEF OpenText
    <3> QED BY <1>5, <2>1, <3>4
  <2>2. CASE pc'[h] = "load"
    <3>1. ChangeOnOpen(h)
      <4>1. \A label : StepTo(h, label) \/ ParkAt(h, label) => pc'[h] = label
        BY <1>1, GateParts DEF StepTo, ParkAt, TypeOK
      <4>2. \A how : Leave(h, how) => pc'[h] = how
        BY <1>1, GateParts DEF Leave, TypeOK
      <4>3. ~BlockRoot(h)
        BY <2>2, <4>1, <4>2 DEF BlockRoot
      <4>4. ~AnalyseOnOpen(h) /\ ~InsertDocument(h) /\ ~LoadDependents(h)
        BY <1>5, <2>2, <4>1, <4>2 DEF AnalyseOnOpen, InsertDocument, LoadDependents, Await
      <4> QED BY <1>5, <2>2, <4>1, <4>2, <4>3, <4>4 DEF Handler, RegisterCapability, ForceBlockRoot, AddRoots, WaitForRoot,
          RootWaitPolled, WaitForDocument, DocumentWaitPolled, ChangeFull, ChangeDelta, Close, Answer, Analyse, Await
    <3>2. ~Leave(h, "missingPanic") /\ ~Leave(h, "failed") /\ ~Leave(h, "blockPanic") /\ pc[h] = "addroot"
      BY <1>1, <2>2, <3>1, GateParts DEF Leave, ChangeOnOpen, At, TypeOK
    <3>3. Present(Doc(h)) /\ Doc(h) \in rooted' /\ rope'[h] = WholeText(h) /\ ast' = ast
      BY <1>1, <3>1, <3>2, GateParts DEF ChangeOnOpen, TypeOK
    <3>4. docs' = docs
      BY <3>1, StoreEffects DEF ChangeOnOpen, InsertDocument, ChangeFull, ChangeDelta, Close, At
    <3>5. OpenText(h)
      BY <1>5, <3>2, <3>3 DEF Opening
    <3>6. OpenText(h)'
      BY <1>2, <3>3, <3>4, <3>5 DEF OpenText
    <3> QED BY <1>5, <2>2, <3>3, <3>6
  <2> QED BY <1>5, <2>1, <2>2
<1> QED BY <1>4, <1>5

LEMMA ClosingHandler ==
  ASSUME TypeInv, TypeInv', GateInv, GateInv', TurnInv, TurnInv', Opening, Closing,
         NEW h \in 1..admitted, Handler(h)
  PROVE  Closing'
<1>1. running = h /\ h \in Ids /\ sent' = sent /\ admitted' = admitted /\ h \in InFlight
  BY HandlerMoves DEF GateInv
<1>2. \A g \in 1..admitted : Kind(g)' = Kind(g) /\ Doc(g)' = Doc(g)
  BY <1>1 DEF Kind, Doc
<1> SUFFICES ASSUME NEW g \in 1..admitted, NEW c \in 1..admitted, Kind(c) = "close", pc'[c] = "opened",
                    Kind(g) = "open", pc'[g] = "load", Doc(g) = Doc(c)
             PROVE  FALSE
  BY <1>1, <1>2 DEF Closing
<1>3. \A k \in 1..admitted : k # h => pc'[k] = pc[k]
  BY HandlerWaits
<1>4. CASE c # h
  BY <1>1, <1>3, <1>4 DEF TurnInv, Unsuspended
<1>5. CASE c = h
  <2>1. g # h /\ pc[g] = "load" /\ g \in InFlight /\ HoldsSetup(g) /\ HoldsRoot(g)
    BY <1>3, <1>5 DEF InFlight, Terminal, HoldsSetup, HoldsRoot
  <2>2. arc[g] = g /\ g \in setup /\ docs[Doc(h)].inst = g /\ g # 0
    <3>1. OpenText(g)
      BY <2>1 DEF Opening
    <3> QED BY <1>5, <2>1, <3>1, GateParts DEF TurnInv, SetupKept, OpenText
  <2>3. Fits(pc[h], Kind(h)) /\ Present(Doc(h))
    BY <2>2, GateParts DEF Stages, Present
  <2>4. \A label : StepTo(h, label) \/ ParkAt(h, label) => pc'[h] = label
    BY <1>1, GateParts DEF StepTo, ParkAt, TypeOK
  <2>5. \A how : Leave(h, how) => pc'[h] = how
    BY <1>1, GateParts DEF Leave, TypeOK
  <2>6. ~WaitForDocument(h)
    BY <1>5, <2>2, <2>3, <2>4 DEF WaitForDocument
  <2>7. ~DocumentWaitPolled(h)
    <3> SUFFICES ASSUME DocumentWaitPolled(h) PROVE FALSE
      OBVIOUS
    <3>1. pc[h] = "docwait" /\ Waiting(h) /\ Waits(h)
      BY <1>5 DEF DocumentWaitPolled, At, Waiting, Waits
    <3>2. pc[1] = "done" /\ WaitersInTurn /\ InTurn
      BY <2>1, Started
    <3>3. CASE HeldUp(h)
      <4>1. PICK k \in InFlight : HoldsSetup(k) /\ arc[k] = arc[h]
        BY <3>1, <3>3 DEF HeldUp
      <4>2. k = g
        <5>1. HoldsRoot(k)
          BY <4>1 DEF HoldsRoot, HoldsSetup
        <5> QED BY <2>1, <5>1, GateParts DEF RootExclusive
      <4>3. arc[h] \in setup /\ h \notin notified
        BY <2>2, <3>3, <4>1, <4>2 DEF HeldUp
      <4> QED BY <1>5, <2>4, <4>3 DEF DocumentWaitPolled
    <3>4. CASE IsNext(h)
      <4>1. h < g
        BY <2>1, <3>4, GateParts DEF IsNext
      <4> QED BY <2>1, <3>1, <3>2, <4>1 DEF InTurn
    <3> QED BY <3>1, <3>2, <3>3, <3>4 DEF WaitersInTurn
  <2> QED BY <1>5, <2>3, <2>4, <2>5, <2>6, <2>7 DEF Handler, RegisterCapability, ForceBlockRoot, AddRoots, WaitForRoot,
      RootWaitPolled, BlockRoot, InsertDocument, ChangeOnOpen, AnalyseOnOpen, ChangeFull, ChangeDelta, Close,
      LoadDependents, Answer, Analyse, Await
<1> QED BY <1>4, <1>5

\* A handler whose pc shows where it went.
LEMMA Whither ==
  ASSUME TypeInv, GateInv, NEW h \in 1..admitted, Handler(h)
  PROVE  /\ \A label : StepTo(h, label) \/ ParkAt(h, label) => pc'[h] = label
         /\ \A how : Leave(h, how) => pc'[h] = how
<1>1. h \in Ids
  BY GateParts
<1> QED BY <1>1, GateParts DEF StepTo, ParkAt, Leave, TypeOK

LEMMA HeldHandler ==
  ASSUME TypeInv, TypeInv', GateInv, GateInv', TurnInv, TurnInv', LegalClient, Sessions, Opening, Held, pc[1] # "dropped",
         NEW h \in 1..admitted, Handler(h)
  PROVE  Held'
<1>1. running = h /\ h \in Ids /\ sent' = sent /\ admitted' = admitted /\ admitted \in Nat
  BY HandlerMoves, Bounds DEF GateInv, TypeInv, TypeOK
<1>2. \A g \in 1..admitted : Kind(g)' = Kind(g) /\ Doc(g)' = Doc(g)
  BY <1>1 DEF Kind, Doc
<1>3. \A g \in 1..admitted : g # h => (Waits(g)' <=> Waits(g)) /\ pc'[g] = pc[g]
  BY HandlerWaits
<1>4. Waits(h)' => Waits(h)
  BY HandlerWaits
<1>5. InTurn
  BY DEF TurnInv
<1> SUFFICES ASSUME NEW o \in 1..admitted, Kind(o) = "open", Doc(o) \in Supported, ~Waits(o)',
                    \A c \in o..admitted : sent[c] = [kind |-> "close", doc |-> Doc(o)] => Waits(c)'
             PROVE  Present(Doc(o))'
  BY <1>1, <1>2 DEF Held
<1>6. Doc(o) \in Docs /\ o \in Nat
  BY DocTypes DEF TypeInv
<1>7. \A c \in o..admitted : sent[c] = [kind |-> "close", doc |-> Doc(o)] => Waits(c)
  BY <1>3, <1>4, <1>6
<1>8. CASE Waits(o)
  <2>1. o = h
    BY <1>3, <1>8
  <2>2. InsertDocument(h) \/ BlockRoot(h) \/ ChangeFull(h) \/ ChangeDelta(h) \/ Close(h)
    BY <1>8, <2>1, HandlerWaits DEF DocumentKinds
  <2>3. ~BlockRoot(h)
    <3> SUFFICES ASSUME BlockRoot(h) PROVE FALSE
      OBVIOUS
    <3>1. pc'[h] \in {"blockPanic", "wdp", "insert"}
      BY <2>1, Whither DEF BlockRoot
    <3>2. pc'[h] # "blockPanic" /\ pc'[h] # "wdp"
      BY <1>1 DEF GateInv, NoBlockPanic, TurnInv, Unsuspended
    <3>3. Waits(h)'
      BY <3>1, <3>2 DEF Waits
    <3> QED BY <2>1, <3>3
  <2>4. InsertDocument(h)
    BY <2>1, <2>2, <2>3 DEF ChangeFull, ChangeDelta, Close
  <2>5. docs'[Doc(h)] = [inst |-> h, text |-> WholeText(h)]
    BY <2>4, InsertEffects
  <2>6. docs'[Doc(h)].inst # 0
    BY <1>1, <2>5, GateParts
  <2> QED BY <1>1, <2>1, <2>6 DEF Present, Doc
<1>9. CASE ~Waits(o)
  <2>1. Present(Doc(o))
    BY <1>7, <1>9 DEF Held
  <2>2. CASE Close(h) /\ Doc(h) = Doc(o)
    <3>1. Kind(h) = "close" /\ Waits(h)
      BY <2>2, CloseEffects
    <3>2. sent[h] = [kind |-> "close", doc |-> Doc(o)]
      <4>1. sent[h] \in Messages
        BY DocTypes DEF TypeInv, TypeOK
      <4> QED BY <2>2, <3>1, <4>1 DEF Messages, Kind, Doc
    <3>3. ~Waits(h)'
      <4>1. pc'[h] = "done"
        BY <2>2, Whither DEF Close
      <4> QED BY <4>1 DEF Waits
    <3>4. h < o
      BY <1>1, <1>6, <3>2, <3>3, GateParts
    <3>5. Waits(o)
      BY <1>5, <3>1, <3>4 DEF InTurn, Waits
    <3> QED BY <1>9, <3>5
  <2>3. CASE ~Close(h) \/ Doc(h) # Doc(o)
    <3>1. docs'[Doc(o)].inst # 0
      <4>1. CASE InsertDocument(h)
        <5>1. /\ docs'[Doc(h)] = [inst |-> h, text |-> WholeText(h)]
              /\ \A d \in Docs : d # Doc(h) => docs'[d] = docs[d]
          BY <4>1, InsertEffects
        <5> QED BY <1>1, <1>6, <2>1, <5>1, GateParts DEF Present
      <4>2. CASE ChangeFull(h) \/ ChangeDelta(h)
        <5> DEFINE new == IF Kind(h) = "full" THEN WholeText(h) ELSE WithEdit(docs[Doc(h)].text, h)
        <5>0. Doc(h) \in Docs /\ docs[Doc(h)].text \in Texts
          BY <4>2, DocTypes DEF ChangeFull, ChangeDelta, TypeInv, TypeOK
        <5>1. new \in Texts
          BY <1>1, <5>0, TextTypes
        <5> HIDE DEF new
        <5>2. new = (IF Kind(h) = "full" THEN WholeText(h) ELSE WithEdit(docs[Doc(h)].text, h))
          BY DEF new
        <5>3. /\ ~Present(Doc(h)) => docs' = docs
              /\ Present(Doc(h)) =>
                   /\ docs'[Doc(h)] = [inst |-> docs[Doc(h)].inst, text |-> new]
                   /\ \A d \in Docs : d # Doc(h) => docs'[d] = docs[d] /\ ast'[d] = ast[d]
          BY <4>2, <5>1, <5>2, EditEffects
        <5>4. CASE Doc(h) = Doc(o)
          <6>1. docs'[Doc(h)].inst = docs[Doc(h)].inst
            BY <5>3
          <6> QED BY <2>1, <5>4, <6>1 DEF Present
        <5> QED BY <1>6, <2>1, <5>3, <5>4 DEF Present
      <4>3. CASE Close(h)
        <5>1. \A d \in Docs : d # Doc(h) => docs'[d] = docs[d] /\ ast'[d] = ast[d]
          BY <4>3, CloseEffects
        <5> QED BY <1>6, <2>1, <2>3, <4>3, <5>1 DEF Present
      <4>4. CASE ~InsertDocument(h) /\ ~ChangeFull(h) /\ ~ChangeDelta(h) /\ ~Close(h)
        BY <2>1, <4>4, StoreEffects DEF Present
      <4> QED BY <4>1, <4>2, <4>3, <4>4
    <3> QED BY <1>1, <3>1 DEF Present, Doc
  <2> QED BY <2>2, <2>3
<1> QED BY <1>8, <1>9

\* An answer is computed once everything about its document that is older has had its effect.
LEMMA ReadsHandler ==
  ASSUME TypeInv, TypeInv', GateInv, GateInv', TurnInv, Sessions, Opening, ReadsOwnWrites,
         NEW h \in 1..admitted, Handler(h)
  PROVE  ReadsOwnWrites'
<1>1. running = h /\ h \in Ids /\ sent' = sent /\ admitted' = admitted /\ admitted \in Nat
  BY HandlerMoves, Bounds DEF GateInv, TypeInv, TypeOK
<1>2. \A g \in 1..Len(sent) : (g \in 1..admitted /\ g # h) \/ g = h \/ pc'[g] # "done"
  <2>1. \A g \in 1..Len(sent) : g \notin 1..admitted => g \in Ids /\ g > admitted
    BY Bounds, SMTT(30) DEF TypeInv, TypeOK, Ids
  <2>2. \A g \in Ids : g > admitted' => pc'[g] = "queued"
    BY DEF GateInv, BlockerInv, Stages
  <2> QED BY <1>1, <2>1, <2>2
<1>3. \A g \in 1..admitted : g # h => pc'[g] = pc[g] /\ rope'[g] = rope[g]
  BY HandlerWaits, StoreEffects
<1> SUFFICES ASSUME NEW q \in 1..Len(sent), Kind(q) \in QueryKinds, pc'[q] = "done",
                    NEW m \in 1..q, Touches(m, Doc(q)), Kind(m) # "close"
             PROVE  m <= Latest(rope'[q])
  BY <1>1 DEF ReadsOwnWrites, Touches, Kind, Doc, Latest
<1>4. CASE q # h
  <2>1. pc[q] = "done" /\ rope'[q] = rope[q]
    BY <1>2, <1>3, <1>4
  <2> QED BY <2>1 DEF ReadsOwnWrites
<1>5. CASE q = h
  <2>0. pc[h] # "done" /\ q \in 1..admitted
    BY <1>1, <1>5, HandlerMoves DEF GateInv, InFlight, Terminal
  <2>1. Answer(h)
    <3>1. \A label : StepTo(h, label) \/ ParkAt(h, label) => pc'[h] = label
      BY Whither
    <3>2. Fits(pc[h], Kind(h)) /\ Kind(h) \in QueryKinds /\ pc'[h] = "done"
      BY <1>5, GateParts DEF Stages
    <3> QED BY <3>1, <3>2 DEF Handler, RegisterCapability, ForceBlockRoot, AddRoots, WaitForRoot,
        RootWaitPolled, BlockRoot, InsertDocument, ChangeOnOpen, AnalyseOnOpen, WaitForDocument, DocumentWaitPolled,
        ChangeFull, ChangeDelta, Close, LoadDependents, Await, QueryKinds, At, Fits
  <2>2. ~Leave(h, "empty") /\ ~Leave(h, "missingPanic")
    BY <1>5, Whither
  <2>3. Present(Doc(h)) /\ rope'[h] = docs[Doc(h)].text
    BY <1>1, <2>1, <2>2, GateParts DEF Answer, TypeOK
  <2>4. Doc(h) \in Docs
    BY <1>5, DocTypes DEF TypeInv, QueryKinds
  <2>5. pc[1] = "done" /\ InTurn /\ Session(Doc(h))
    BY <2>3, <2>4, Started DEF Sessions
  <2>6. m # h /\ m \in 1..admitted /\ m < h
    <3>1. m # h
      BY <1>5 DEF Touches, DocumentKinds, EditKinds, QueryKinds
    <3> QED BY <1>1, <1>5, <2>0, <3>1
  <2>7. ~Waits(m)
    BY <1>1, <2>5, <2>6, RunnerInTurn
  <2>8. Latest(docs[Doc(h)].text) \in Nat /\ m \in Nat
    BY <2>4, <2>5, <2>6, SessionBounds
  <2>9. ~(Latest(docs[Doc(h)].text) < m)
    BY <1>5, <2>5, <2>6, <2>7 DEF Session
  <2> QED BY <1>5, <2>3, <2>8, <2>9
<1> QED BY <1>4, <1>5

\* EditEffects, for whatever the new text is.
LEMMA EditLeaves ==
  ASSUME TypeInv, TypeInv', GateInv, GateInv', NEW h \in 1..admitted, ChangeFull(h) \/ ChangeDelta(h)
  PROVE  \E new \in Texts :
           /\ new # NoText /\ Kind(h) \in EditKinds /\ Doc(h) \in Docs /\ rooted' = rooted
           /\ ~Present(Doc(h)) => docs' = docs /\ ast' = ast
           /\ Present(Doc(h)) =>
                /\ docs'[Doc(h)] = [inst |-> docs[Doc(h)].inst, text |-> new]
                /\ \A d \in Docs : d # Doc(h) => docs'[d] = docs[d] /\ ast'[d] = ast[d]
                /\ \/ Doc(h) \notin rooted /\ ast' = ast
                   \/ Doc(h) \in rooted /\ (ast[Doc(h)] = NoText \/ Doc(h) \in Encoded) /\ ast' = ast
                   \/ Doc(h) \in rooted /\ ast'[Doc(h)] = new
<1>1. Doc(h) \in Docs /\ docs[Doc(h)].text \in Texts /\ h \in Ids
  BY DocTypes, GateParts DEF ChangeFull, ChangeDelta, TypeInv, TypeOK
<1>2. PICK new \in Texts : new = (IF Kind(h) = "full" THEN WholeText(h) ELSE WithEdit(docs[Doc(h)].text, h))
  BY <1>1, TextTypes
<1>3. new # NoText
  BY <1>1, <1>2, LatestFacts
<1>4. /\ Kind(h) \in EditKinds /\ Doc(h) \in Docs /\ Waits(h) /\ running = h /\ rooted' = rooted
      /\ ~Present(Doc(h)) => docs' = docs /\ ast' = ast /\ Leave(h, "missingPanic")
      /\ Present(Doc(h)) =>
           /\ docs'[Doc(h)] = [inst |-> docs[Doc(h)].inst, text |-> new]
           /\ \A d \in Docs : d # Doc(h) => docs'[d] = docs[d] /\ ast'[d] = ast[d]
           /\ \/ Doc(h) \notin rooted /\ ast' = ast /\ Leave(h, "failed")
              \/ Doc(h) \in rooted /\ Kind(h) = "delta" /\ (ast[Doc(h)] = NoText \/ Doc(h) \in Encoded)
                   /\ ast' = ast /\ Leave(h, "failed")
              \/ Doc(h) \in rooted /\ ast'[Doc(h)] = new /\ Leave(h, "done")
      /\ Kind(h) = "full" <=> ChangeFull(h)
  BY <1>2, EditEffects
<1> QED BY <1>3, <1>4

\* What did_open analyses is the text it put into the store.
LEMMA AnalyseEffects ==
  ASSUME TypeInv, GateInv, Opening, NEW h \in 1..admitted, Handler(h), AnalyseOnOpen(h)
  PROVE  /\ Kind(h) = "open" /\ Doc(h) \in Docs /\ Doc(h) \in rooted /\ docs' = docs /\ rooted' = rooted
         /\ Present(Doc(h)) /\ ast'[Doc(h)] = docs[Doc(h)].text /\ ast'[Doc(h)] # NoText
         /\ \A d \in Docs : d # Doc(h) => ast'[d] = ast[d]
<1>1. Kind(h) = "open" /\ Doc(h) \in Docs /\ h \in Ids /\ h # 0 /\ pc[h] = "load"
  BY DocTypes, GateParts DEF AnalyseOnOpen, At
<1>2. OpenText(h) /\ rope[h] = WholeText(h) /\ Doc(h) \in rooted
  BY <1>1 DEF Opening
<1>3. Present(Doc(h)) /\ docs[Doc(h)].text = WholeText(h) /\ WholeText(h) # NoText
  BY <1>1, <1>2, LatestFacts DEF OpenText, Present
<1>4. docs' = docs /\ rooted' = rooted
  BY DEF AnalyseOnOpen
<1> QED BY <1>1, <1>2, <1>3, <1>4, GateParts DEF AnalyseOnOpen, TypeOK

LEMMA ParsedHandler ==
  ASSUME TypeInv, TypeInv', GateInv, GateInv', TurnInv, LegalClient, Sessions, Opening, Parsed,
         NEW h \in 1..admitted, Handler(h)
  PROVE  Parsed'
<1>1. running = h /\ h \in Ids
  BY HandlerMoves DEF GateInv
<1>2. rooted \subseteq rooted'
  BY StoreEffects
<1> SUFFICES ASSUME NEW d \in Docs, ast'[d] # NoText
             PROVE  d \in rooted' /\ (d \notin Encoded => ast'[d] = docs'[d].text)
  BY DEF Parsed
<1>3. CASE ast'[d] = ast[d] /\ docs'[d] = docs[d]
  BY <1>2, <1>3 DEF Parsed
<1>4. CASE InsertDocument(h)
  <2>1. /\ Kind(h) = "open" /\ ast' = ast /\ \A e \in Docs : e # Doc(h) => docs'[e] = docs[e]
    BY <1>4, InsertEffects
  <2>2. pc[h] = "insert"
    BY <1>1, <1>4 DEF InsertDocument, At, TurnInv, Unsuspended
  <2>3. ast[Doc(h)] = NoText
    BY <1>1, <2>1, <2>2, OpensAbsent DEF Waits
  <2> QED BY <1>3, <2>1, <2>3
<1>5. CASE ChangeFull(h) \/ ChangeDelta(h)
  <2>1. PICK new \in Texts :
          /\ new # NoText /\ Kind(h) \in EditKinds /\ Doc(h) \in Docs /\ rooted' = rooted
          /\ ~Present(Doc(h)) => docs' = docs /\ ast' = ast
          /\ Present(Doc(h)) =>
               /\ docs'[Doc(h)] = [inst |-> docs[Doc(h)].inst, text |-> new]
               /\ \A e \in Docs : e # Doc(h) => docs'[e] = docs[e] /\ ast'[e] = ast[e]
               /\ \/ Doc(h) \notin rooted /\ ast' = ast
                  \/ Doc(h) \in rooted /\ (ast[Doc(h)] = NoText \/ Doc(h) \in Encoded) /\ ast' = ast
                  \/ Doc(h) \in rooted /\ ast'[Doc(h)] = new
    BY <1>5, EditLeaves
  <2>2. CASE d # Doc(h) \/ ~Present(Doc(h))
    BY <1>3, <2>1, <2>2
  <2>3. CASE d = Doc(h) /\ Present(Doc(h))
    BY <2>1, <2>3 DEF Parsed
  <2> QED BY <2>2, <2>3
<1>6. CASE Close(h)
  BY <1>3, <1>6, CloseEffects
<1>7. CASE AnalyseOnOpen(h)
  <2>1. /\ Doc(h) \in rooted /\ docs' = docs /\ rooted' = rooted /\ ast'[Doc(h)] = docs[Doc(h)].text
        /\ \A e \in Docs : e # Doc(h) => ast'[e] = ast[e]
    BY <1>7, AnalyseEffects
  <2> QED BY <1>3, <2>1
<1>8. CASE ~InsertDocument(h) /\ ~ChangeFull(h) /\ ~ChangeDelta(h) /\ ~Close(h) /\ ~AnalyseOnOpen(h)
  BY <1>3, <1>8, StoreEffects
<1> QED BY <1>4, <1>5, <1>6, <1>7, <1>8

LEMMA RootedHandler ==
  ASSUME TypeInv, TypeInv', GateInv, GateInv', TurnInv, TurnInv', Opening, RootedAtOnce,
         NEW h \in 1..admitted, Handler(h)
  PROVE  RootedAtOnce'
<1>1. running = h /\ h \in Ids /\ sent' = sent /\ admitted' = admitted /\ h \in InFlight
  BY HandlerMoves DEF GateInv
<1>2. \A g \in 1..admitted : g # h => pc'[g] = pc[g]
  BY HandlerWaits
<1>3. rooted \subseteq rooted'
  BY StoreEffects
<1>4. ASSUME pc'[1] = "done" PROVE Workspace \subseteq rooted'
  <2>1. CASE pc[1] = "done"
    BY <1>3, <2>1 DEF RootedAtOnce
  <2>2. CASE pc[1] # "done"
    <3>1. h = 1 /\ Kind(h) = "initialized" /\ Fits(pc[h], Kind(h))
      BY <1>2, <1>4, <2>2, GateParts, DocTypes DEF Stages
    <3>2. AddRoots(h)
      <4>1. \A label : StepTo(h, label) \/ ParkAt(h, label) => pc'[h] = label
        BY Whither
      <4> QED BY <1>4, <3>1, <4>1, GateParts DEF Handler, RegisterCapability, ForceBlockRoot, WaitForRoot,
          RootWaitPolled, BlockRoot, InsertDocument, ChangeOnOpen, AnalyseOnOpen, WaitForDocument, DocumentWaitPolled,
          ChangeFull, ChangeDelta, Close, LoadDependents, Answer, AnswersAt, AwaitsDocumentAt, At, Fits, GateOpen
    <3> QED BY <3>2 DEF AddRoots
  <2> QED BY <2>1, <2>2
<1>5. ASSUME NEW g \in 1..admitted, pc'[g] = "addroot", Doc(g) \in Workspace PROVE running' = g /\ Present(Doc(g))'
  <2>1. CASE g # h
    BY <1>1, <1>2, <1>5, <2>1 DEF RootedAtOnce
  <2>2. CASE g = h
    <3>1. InsertDocument(h)
      <4>1. \A label : StepTo(h, label) \/ ParkAt(h, label) => pc'[h] = label
        BY Whither
      <4>2. \A how : Leave(h, how) => pc'[h] = how
        BY Whither
      <4>3. ~BlockRoot(h) /\ ~ChangeOnOpen(h)
        BY <1>5, <2>2, <4>1, <4>2 DEF BlockRoot, ChangeOnOpen, Await
      <4>4. ~AnalyseOnOpen(h) /\ ~AddRoots(h) /\ ~ChangeFull(h) /\ ~ChangeDelta(h) /\ ~Close(h) /\ ~Answer(h)
        BY <1>5, <2>2, <4>2 DEF AnalyseOnOpen, AddRoots, ChangeFull, ChangeDelta, Close, Answer, Analyse
      <4> QED BY <1>5, <2>2, <4>1, <4>3, <4>4 DEF Handler, RegisterCapability, ForceBlockRoot, WaitForRoot,
          RootWaitPolled, WaitForDocument, DocumentWaitPolled, LoadDependents, Await
    <3>2. /\ Kind(h) = "open" /\ docs'[Doc(h)] = [inst |-> h, text |-> WholeText(h)]
          /\ (Doc(h) \in rooted => running' = h)
      BY <3>1, InsertEffects
    <3>3. pc[1] = "done"
      <4>1. pc[h] = "insert"
        BY <1>1, <3>1 DEF InsertDocument, At, TurnInv, Unsuspended
      <4> QED BY <3>2, <4>1, Started
    <3>4. Doc(h) \in rooted
      BY <1>5, <2>2, <3>3 DEF RootedAtOnce
    <3>5. docs'[Doc(h)].inst # 0
      BY <1>1, <3>2, GateParts
    <3> QED BY <1>1, <2>2, <3>2, <3>4, <3>5 DEF Present, Doc
  <2> QED BY <2>1, <2>2
<1>6. \A g \in 1..admitted : Doc(g)' = Doc(g)
  BY <1>1 DEF Doc
<1> QED BY <1>1, <1>4, <1>5, <1>6 DEF RootedAtOnce

LEMMA AnalysedHandler ==
  ASSUME TypeInv, TypeInv', GateInv, GateInv', TurnInv, LegalClient, Sessions, Opening, Analysed,
         NEW h \in 1..admitted, Handler(h)
  PROVE  Analysed'
<1>1. /\ running = h /\ h \in Ids /\ sent' = sent /\ admitted' = admitted /\ h \in InFlight
      /\ timeouts' = timeouts /\ 1 \in 1..admitted
  BY HandlerMoves, StoreEffects, GateParts DEF GateInv
<1>2. \A g \in 1..admitted : g # h => pc'[g] = pc[g]
  BY HandlerWaits
<1>3. \A g \in 1..admitted : Kind(g)' = Kind(g) /\ Doc(g)' = Doc(g)
  BY <1>1 DEF Kind, Doc
<1>4. \A label : StepTo(h, label) \/ ParkAt(h, label) => pc'[h] = label
  BY Whither
<1>5. \A how : Leave(h, how) => pc'[h] = how
  BY Whither
<1>6. pc'[h] # "dropped"
  <2>1. CASE ChangeOnOpen(h)
    BY <1>4, <1>5, <2>1 DEF ChangeOnOpen, Await
  <2>2. CASE BlockRoot(h) \/ AnalyseOnOpen(h) \/ AddRoots(h) \/ Close(h) \/ Answer(h)
    BY <1>4, <1>5, <2>2 DEF BlockRoot, AnalyseOnOpen, AddRoots, Close, Answer
  <2>3. CASE ChangeFull(h) \/ ChangeDelta(h)
    BY <1>5, <2>3 DEF ChangeFull, ChangeDelta, Analyse
  <2> QED BY <1>4, <2>1, <2>2, <2>3 DEF Handler, RegisterCapability, ForceBlockRoot, WaitForRoot,
      RootWaitPolled, InsertDocument, WaitForDocument, DocumentWaitPolled, LoadDependents, Await
<1> SUFFICES ASSUME timeouts = 0, NEW d \in rooted', Present(d)', ~OpenInFlight(d)' PROVE ast'[d] # NoText
  BY <1>1, <1>2, <1>6 DEF Analysed
<1>7. d \in Docs
  BY DEF TypeInv, TypeOK
<1>8. CASE Kind(h) = "open" /\ Doc(h) = d
  <2>1. pc'[h] \in Terminal
    BY <1>1, <1>3, <1>8 DEF OpenInFlight, InFlight
  <2>2. CASE BlockRoot(h)
    <3>1. Waits(h) /\ docs' = docs
      BY <2>2, StoreEffects DEF BlockRoot, At, Waits, InsertDocument, ChangeFull, ChangeDelta, Close
    <3> QED BY <1>1, <1>8, <3>1, OpensAbsent DEF Present
  <2>3. CASE ChangeOnOpen(h)
    <3>1. ~StepTo(h, "load") /\ ~ParkAt(h, "load") /\ ~Leave(h, "blockPanic")
      BY <1>1, <1>4, <1>5, <2>1 DEF Terminal, GateInv, NoBlockPanic
    <3>2. ~Present(d)
      BY <1>8, <2>3, <3>1 DEF ChangeOnOpen, Await
    <3>3. docs' = docs
      BY <1>8, <2>3, <3>2 DEF ChangeOnOpen
    <3> QED BY <3>2, <3>3 DEF Present
  <2>4. CASE AnalyseOnOpen(h)
    BY <1>8, <2>4, AnalyseEffects
  <2>5. BlockRoot(h) \/ ChangeOnOpen(h) \/ AnalyseOnOpen(h)
    <3>1. Fits(pc[h], Kind(h))
      BY GateParts DEF Stages
    <3> QED BY <1>4, <1>8, <2>1, <3>1 DEF Handler, RegisterCapability, ForceBlockRoot, AddRoots, WaitForRoot, RootWaitPolled,
        InsertDocument, WaitForDocument, DocumentWaitPolled, ChangeFull, ChangeDelta, Close, LoadDependents, Answer,
        AnswersAt, At, Await, Terminal, Fits
  <2> QED BY <2>2, <2>3, <2>4, <2>5
<1>9. CASE ~(Kind(h) = "open" /\ Doc(h) = d)
  <2>1. ~OpenInFlight(d)
    <3> SUFFICES ASSUME NEW g \in InFlight, Kind(g) = "open", Doc(g) = d PROVE FALSE
      BY DEF OpenInFlight
    <3>1. g \in 1..admitted /\ g # h
      BY <1>9 DEF InFlight
    <3>2. g \in InFlight'
      BY <1>1, <1>2, <3>1 DEF InFlight
    <3> QED BY <1>3, <3>1, <3>2 DEF OpenInFlight
  <2>2. CASE AddRoots(h)
    <3>1. pc[1] # "done"
      <4>1. h = 1
        BY <2>2, GateParts, DocTypes DEF AddRoots, At, Stages, Fits
      <4> QED BY <1>1, <4>1 DEF InFlight, Terminal
    <3>2. ~Present(d) /\ docs' = docs
      BY <1>7, <2>2, <3>1, Started DEF AddRoots
    <3> QED BY <3>2 DEF Present
  <2>3. CASE ~AddRoots(h)
    <3>1. d \in rooted
      <4>1. CASE ChangeOnOpen(h)
        <5>1. Kind(h) = "open" /\ rooted' = rooted \cup ({Doc(h)} \cap Addable)
          BY <4>1, GateParts DEF ChangeOnOpen, At, Stages, Fits
        <5> QED BY <1>9, <5>1
      <4> QED BY <2>3, <4>1, StoreEffects
    <3>2. Present(d) => ast[d] # NoText
      BY <2>1, <3>1 DEF Analysed
    <3>3. CASE InsertDocument(h)
      BY <1>7, <1>9, <3>2, <3>3, InsertEffects DEF Present
    <3>4. CASE ChangeFull(h) \/ ChangeDelta(h)
      <4>1. PICK new \in Texts :
              /\ new # NoText /\ Kind(h) \in EditKinds /\ Doc(h) \in Docs /\ rooted' = rooted
              /\ ~Present(Doc(h)) => docs' = docs /\ ast' = ast
              /\ Present(Doc(h)) =>
                   /\ docs'[Doc(h)] = [inst |-> docs[Doc(h)].inst, text |-> new]
                   /\ \A e \in Docs : e # Doc(h) => docs'[e] = docs[e] /\ ast'[e] = ast[e]
                   /\ \/ Doc(h) \notin rooted /\ ast' = ast
                      \/ Doc(h) \in rooted /\ (ast[Doc(h)] = NoText \/ Doc(h) \in Encoded) /\ ast' = ast
                      \/ Doc(h) \in rooted /\ ast'[Doc(h)] = new
        BY <3>4, EditLeaves
      <4>2. CASE d = Doc(h) /\ Present(Doc(h))
        BY <3>2, <4>1, <4>2
      <4>3. CASE d # Doc(h) \/ ~Present(Doc(h))
        BY <1>7, <3>2, <4>1, <4>3 DEF Present
      <4> QED BY <4>2, <4>3
    <3>5. CASE Close(h)
      <4>1. /\ docs'[Doc(h)] = [inst |-> 0, text |-> NoText]
            /\ \A e \in Docs : e # Doc(h) => docs'[e] = docs[e] /\ ast'[e] = ast[e]
        BY <3>5, CloseEffects
      <4>2. d # Doc(h)
        BY <4>1 DEF Present
      <4> QED BY <1>7, <3>2, <4>1, <4>2 DEF Present
    <3>6. CASE AnalyseOnOpen(h)
      <4>1. Kind(h) = "open" /\ docs' = docs /\ \A e \in Docs : e # Doc(h) => ast'[e] = ast[e]
        BY <3>6, AnalyseEffects
      <4> QED BY <1>7, <1>9, <3>2, <4>1 DEF Present
    <3>7. CASE ~InsertDocument(h) /\ ~ChangeFull(h) /\ ~ChangeDelta(h) /\ ~Close(h) /\ ~AnalyseOnOpen(h)
      BY <3>2, <3>7, StoreEffects DEF Present
    <3> QED BY <3>3, <3>4, <3>5, <3>6, <3>7
  <2> QED BY <2>2, <2>3
<1> QED BY <1>8, <1>9

\* What LegalClient says of a message, without LET.
LEMMA LegalFacts ==
  LegalClient <=>
    \A h \in 1..Len(sent) :
      /\ sent[h].kind = "open" =>
           \A o \in 1..Len(sent) : o < h /\ sent[o] = [kind |-> "open", doc |-> sent[h].doc] =>
             \E c \in o..(h - 1) : sent[c] = [kind |-> "close", doc |-> sent[h].doc]
      /\ sent[h].kind \notin {"initialized", "open"} =>
           \E o \in 1..Len(sent) :
             /\ o < h /\ sent[o] = [kind |-> "open", doc |-> sent[h].doc]
             /\ \A c \in o..(h - 1) : sent[c] # [kind |-> "close", doc |-> sent[h].doc]
BY DEF LegalClient, Kind, Doc

LEMMA LegalSend ==
  ASSUME TypeInv, LegalClient,
         NEW k \in {"open", "close"} \cup EditKinds \cup Queries, NEW d \in Docs, Send(k, d)
  PROVE  LegalClient'
<1> DEFINE n == Len(sent) + 1
<1>1. /\ Len(sent) \in Nat /\ Len(sent') = n /\ sent'[n] = [kind |-> k, doc |-> d]
      /\ \A g \in 1..Len(sent) : sent'[g] = sent[g]
      /\ DOMAIN sent = 1..Len(sent)
  BY DEF Send, TypeInv, TypeOK
<1>2. k # "initialized" /\ ((k = "open") # IsOpen(d))
  BY ClientAssumption DEF Send, EditKinds, QueryKinds
<1> HIDE DEF n
<1>3. n = Len(sent) + 1
  BY DEF n
<1>4. ASSUME NEW h \in 1..n, NEW s, s = sent'
      PROVE  /\ s[h].kind = "open" =>
                  \A o \in 1..n : o < h /\ s[o] = [kind |-> "open", doc |-> s[h].doc] =>
                    \E c \in o..(h - 1) : s[c] = [kind |-> "close", doc |-> s[h].doc]
             /\ s[h].kind \notin {"initialized", "open"} =>
                  \E o \in 1..n :
                    /\ o < h /\ s[o] = [kind |-> "open", doc |-> s[h].doc]
                    /\ \A c \in o..(h - 1) : s[c] # [kind |-> "close", doc |-> s[h].doc]
  <2>0. s[n] = [kind |-> k, doc |-> d] /\ \A g \in 1..Len(sent) : s[g] = sent[g]
    BY <1>1, <1>4
  <2>1. CASE h \in 1..Len(sent)
    <3>1. s[h] = sent[h]
      BY <2>0, <2>1
    <3>2. \A o \in 1..n : o < h => o \in 1..Len(sent) /\ s[o] = sent[o] /\ \A c \in o..(h - 1) : s[c] = sent[c]
      BY <1>1, <1>3, <2>0, <2>1
    <3>3. ASSUME s[h].kind = "open", NEW o \in 1..n, o < h, s[o] = [kind |-> "open", doc |-> s[h].doc]
          PROVE  \E c \in o..(h - 1) : s[c] = [kind |-> "close", doc |-> s[h].doc]
      <4>1. o \in 1..Len(sent) /\ sent[o] = [kind |-> "open", doc |-> sent[h].doc]
        BY <3>1, <3>2, <3>3
      <4>2. PICK c \in o..(h - 1) : sent[c] = [kind |-> "close", doc |-> sent[h].doc]
        BY <2>1, <3>1, <3>3, <4>1, LegalFacts
      <4> QED BY <3>1, <3>2, <3>3, <4>2
    <3>4. ASSUME s[h].kind \notin {"initialized", "open"}
          PROVE  \E o \in 1..n :
                    /\ o < h /\ s[o] = [kind |-> "open", doc |-> s[h].doc]
                    /\ \A c \in o..(h - 1) : s[c] # [kind |-> "close", doc |-> s[h].doc]
      <4>1. PICK o \in 1..Len(sent) :
              /\ o < h /\ sent[o] = [kind |-> "open", doc |-> sent[h].doc]
              /\ \A c \in o..(h - 1) : sent[c] # [kind |-> "close", doc |-> sent[h].doc]
        BY <2>1, <3>1, <3>4, LegalFacts
      <4>2. o \in 1..n
        BY <1>1, <1>3
      <4> QED BY <3>1, <3>2, <4>1, <4>2
    <3> QED BY <3>3, <3>4
  <2>2. CASE h = n
    <3>1. s[h] = [kind |-> k, doc |-> d] /\ h - 1 = Len(sent)
      BY <1>1, <1>3, <2>0, <2>2
    <3>2. \A o \in 1..n : o < h => o \in 1..Len(sent) /\ s[o] = sent[o] /\ \A c \in o..Len(sent) : s[c] = sent[c]
      BY <1>1, <1>3, <2>0, <2>2
    <3>3. ASSUME k = "open", NEW o \in 1..n, o < h, s[o] = [kind |-> "open", doc |-> d]
          PROVE  \E c \in o..Len(sent) : s[c] = [kind |-> "close", doc |-> d]
      <4>1. ~IsOpen(d) /\ o \in DOMAIN sent /\ sent[o] = [kind |-> "open", doc |-> d]
        BY <1>1, <1>2, <3>2, <3>3
      <4> QED BY <3>2, <3>3, <4>1 DEF IsOpen
    <3>4. ASSUME k # "open"
          PROVE  \E o \in 1..n :
                    /\ o < h /\ s[o] = [kind |-> "open", doc |-> d]
                    /\ \A c \in o..Len(sent) : s[c] # [kind |-> "close", doc |-> d]
      <4>1. PICK o \in DOMAIN sent : /\ sent[o] = [kind |-> "open", doc |-> d]
                                     /\ \A c \in o..Len(sent) : sent[c] # [kind |-> "close", doc |-> d]
        BY <1>2, <3>4 DEF IsOpen
      <4>2. o \in 1..n /\ o < h
        BY <1>1, <1>3, <2>2
      <4> QED BY <3>2, <4>1, <4>2
    <3> QED BY <3>1, <3>3, <3>4
  <2> QED BY <1>1, <1>3, <2>1, <2>2
<1>5. \A h \in 1..Len(sent') :
        /\ sent'[h].kind = "open" =>
             \A o \in 1..Len(sent') : o < h /\ sent'[o] = [kind |-> "open", doc |-> sent'[h].doc] =>
               \E c \in o..(h - 1) : sent'[c] = [kind |-> "close", doc |-> sent'[h].doc]
        /\ sent'[h].kind \notin {"initialized", "open"} =>
             \E o \in 1..Len(sent') :
               /\ o < h /\ sent'[o] = [kind |-> "open", doc |-> sent'[h].doc]
               /\ \A c \in o..(h - 1) : sent'[c] # [kind |-> "close", doc |-> sent'[h].doc]
  BY <1>1, <1>4
<1> QED BY <1>5 DEF LegalClient, Kind, Doc

\* The steps that are not a handler's leave the documents alone, and drop no
\* handler of the client's notifications before it has had its effect.
LEMMA QuietFacts ==
  ASSUME TypeInv, TypeInv', GateInv, TurnInv, LegalClient,
         ClientSends \/ Admit \/ Poll \/ (\E h \in 1..admitted : Environment(h)) \/ UNCHANGED vars
  PROVE  /\ UNCHANGED <<docs, ast, rope, rooted>> /\ LegalClient'
         /\ \A g \in 1..admitted : pc'[g] = pc[g] \/ (pc'[g] = "dropped" /\ (timeouts' # 0 \/ Kind(g) \in QueryKinds))
         /\ timeouts' = 0 => timeouts = 0
         /\ UNCHANGED vars \/ running = 0
         /\ \A g \in 1..admitted : pc[1] # "dropped" /\ Kind(g) \in DocumentKinds /\ Waits(g) => Waits(g)'
<1>1. CASE ClientSends
  <2>1. PICK k \in {"open", "close"} \cup EditKinds \cup Queries, d \in Docs : Send(k, d)
    BY <1>1 DEF ClientSends
  <2>2. LegalClient'
    BY <2>1, LegalSend
  <2>3. running = 0 /\ UNCHANGED <<admitted, pc, docs, ast, rope, rooted, timeouts>>
    BY <2>1 DEF Send, locals, store
  <2>4. \A g \in 1..admitted : Kind(g)' = Kind(g)
    BY <2>1, DocTypes DEF Send, TypeInv, TypeOK, Kind
  <2> QED BY <2>2, <2>3, <2>4 DEF Waits
<1>2. CASE Admit
  <2>1. UNCHANGED <<sent, docs, ast, rope, rooted, timeouts>> /\ running = 0
    BY <1>2 DEF Admit, locals, store
  <2>2. \A g \in 1..admitted : pc'[g] = pc[g]
    <3>1. \A g \in 1..admitted : g # admitted + 1 /\ g \in Ids
      BY GateParts, Bounds DEF TypeInv, TypeOK
    <3> QED BY <1>2, <3>1, GateParts DEF Admit, TypeOK
  <2>3. LegalClient'
    BY <2>1 DEF LegalClient, Kind, Doc
  <2> QED BY <2>1, <2>2, <2>3 DEF Waits, Kind
<1>3. CASE Poll \/ UNCHANGED vars
  <2>1. UNCHANGED <<sent, pc, docs, ast, rope, rooted, timeouts>> /\ (UNCHANGED vars \/ running = 0)
    BY <1>3 DEF Poll, vars, locals, store
  <2>2. LegalClient'
    BY <2>1 DEF LegalClient, Kind, Doc
  <2> QED BY <2>1, <2>2 DEF Waits, Kind
<1>4. ASSUME NEW h \in 1..admitted, Environment(h)
      PROVE  /\ UNCHANGED <<docs, ast, rope, rooted>> /\ LegalClient'
             /\ \A g \in 1..admitted : pc'[g] = pc[g] \/ (pc'[g] = "dropped" /\ (timeouts' # 0 \/ Kind(g) \in QueryKinds))
             /\ timeouts' = 0 => timeouts = 0
             /\ running = 0
             /\ \A g \in 1..admitted : pc[1] # "dropped" /\ Kind(g) \in DocumentKinds /\ Waits(g) => Waits(g)'
  <2>1. running = 0 /\ sent' = sent /\ (Wake(h) \/ Drop(h))
    BY <1>4, EnvironmentMoves
  <2>2. LegalClient'
    BY <2>1 DEF LegalClient, Kind, Doc
  <2>3. UNCHANGED <<docs, ast, rope, rooted>>
    BY <2>1 DEF Wake, Drop, locals, store
  <2>4. CASE Wake(h)
    <3>1. UNCHANGED <<pc, timeouts>>
      BY <2>4 DEF Wake
    <3> QED BY <2>1, <2>2, <2>3, <3>1 DEF Waits, Kind
  <2>5. CASE Timeout(h) \/ Cancel(h)
    <3>1. Drop(h) /\ h \in Ids
      BY <2>5, GateParts DEF Timeout, Cancel
    <3>2. \A g \in 1..admitted : pc'[g] = IF g = h THEN "dropped" ELSE pc[g]
      BY <3>1, GateParts DEF Drop, Leave, TypeOK
    <3>3. timeouts \in Nat /\ (Timeout(h) => timeouts' = timeouts + 1) /\ (Cancel(h) => timeouts' = timeouts)
      BY Bounds DEF TypeInv, TypeOK, Timeout, Cancel
    <3>4. timeouts' # 0 \/ Kind(h) \in QueryKinds
      BY <2>5, <3>3 DEF Cancel
    <3>5. timeouts' = 0 => timeouts = 0
      BY <2>5, <3>3
    <3>6. pc[1] # "dropped" /\ Kind(h) \in DocumentKinds => ~Waits(h)
      BY <2>5, DroppedAfterEffect DEF Cancel, DocumentKinds, EditKinds, QueryKinds
    <3>7. \A g \in 1..admitted : g # h => (Waits(g)' <=> Waits(g))
      BY <2>1, <3>2 DEF Waits, Kind
    <3> QED BY <2>1, <2>2, <2>3, <3>2, <3>4, <3>5, <3>6, <3>7
  <2> QED BY <1>4, <2>4, <2>5 DEF Environment, ClientReplies, WorkCompletes, WaitLimitElapses
<1>5. CASE \E h \in 1..admitted : Environment(h)
  BY <1>4, <1>5
<1> QED BY <1>1, <1>2, <1>3, <1>5

LEMMA QuietStep ==
  ASSUME TypeInv, TypeInv', GateInv, GateInv', TurnInv, TurnInv', DocumentInv, ReadsOwnWrites, [Next]_vars,
         ClientSends \/ Admit \/ Poll \/ (\E h \in 1..admitted : Environment(h)) \/ UNCHANGED vars
  PROVE  DocumentInv' /\ ReadsOwnWrites'
<1>1. /\ UNCHANGED <<docs, ast, rope, rooted>> /\ LegalClient'
      /\ \A g \in 1..admitted : pc'[g] = pc[g] \/ (pc'[g] = "dropped" /\ (timeouts' # 0 \/ Kind(g) \in QueryKinds))
      /\ timeouts' = 0 => timeouts = 0
      /\ UNCHANGED vars \/ running = 0
      /\ \A g \in 1..admitted : pc[1] # "dropped" /\ Kind(g) \in DocumentKinds /\ Waits(g) => Waits(g)'
  BY QuietFacts DEF DocumentInv
<1>2. /\ admitted <= admitted' /\ admitted \in Nat /\ admitted' \in Nat /\ 1..admitted \subseteq 1..admitted'
      /\ Len(sent) <= Len(sent') /\ \A g \in 1..Len(sent) : sent'[g] = sent[g]
      /\ \A g \in 1..admitted : Waits(g)' => Waits(g)
      /\ \A g \in 1..admitted' : g \notin 1..admitted => Waits(g)' /\ pc'[g] = "entry"
  BY StepFacts
<1>3. \A g \in 1..admitted : Kind(g)' = Kind(g) /\ Doc(g)' = Doc(g) /\ g \in Ids
  BY <1>2, DocTypes DEF Kind, Doc, TypeInv
<1>4. \A g \in 1..admitted' : pc'[g] \in {"addroot", "load", "opened", "done"} => g \in 1..admitted /\ pc[g] = pc'[g]
  BY <1>1, <1>2
<1>5. Sessions'
  <2> SUFFICES ASSUME NEW d \in Docs PROVE IF Present(d)' THEN Session(d)' ELSE docs'[d].text = NoText /\ ast'[d] = NoText
    BY DEF Sessions
  <2>1. CASE Present(d)
    <3>1. Session(d) /\ pc[1] # "dropped"
      BY <2>1, Started DEF DocumentInv, Sessions
    <3>2. \A g \in 1..admitted : Touches(g, d) /\ Waits(g) => Waits(g)'
      BY <1>1, <3>1 DEF Touches
    <3>3. Session(d)'
      BY <1>1, <1>2, <3>1, <3>2, SessionKept
    <3> QED BY <1>1, <2>1, <3>3 DEF Present
  <2>2. CASE ~Present(d)
    BY <1>1, <2>2 DEF DocumentInv, Sessions, Present
  <2> QED BY <2>1, <2>2
<1>6. Opening'
  <2> SUFFICES ASSUME NEW g \in 1..admitted', Kind(g)' = "open"
               PROVE  /\ pc'[g] = "addroot" => ~Present(Doc(g))' \/ OpenText(g)'
                      /\ pc'[g] = "load" => OpenText(g)' /\ rope'[g] = WholeText(g) /\ Doc(g)' \in rooted'
    BY DEF Opening
  <2>1. CASE g \in 1..admitted
    <3>1. (Present(Doc(g))' <=> Present(Doc(g))) /\ (OpenText(g)' <=> OpenText(g)) /\ Kind(g) = "open"
      BY <1>1, <1>3, <2>1 DEF Present, OpenText
    <3> QED BY <1>1, <1>3, <1>4, <2>1, <3>1 DEF DocumentInv, Opening
  <2>2. CASE g \notin 1..admitted
    BY <1>4, <2>2
  <2> QED BY <2>1, <2>2
<1>7. Closing'
  BY <1>3, <1>4 DEF DocumentInv, Closing
<1>8. Parsed'
  BY <1>1 DEF DocumentInv, Parsed
<1>9. Analysed'
  <2> SUFFICES ASSUME timeouts' = 0
               PROVE  /\ pc'[1] # "dropped"
                      /\ \A d \in rooted' : Present(d)' /\ ~OpenInFlight(d)' => ast'[d] # NoText
    BY DEF Analysed
  <2>1. timeouts = 0 /\ pc[1] # "dropped" /\ \A d \in rooted : Present(d) /\ ~OpenInFlight(d) => ast[d] # NoText
    BY <1>1 DEF DocumentInv, Analysed
  <2>2. pc'[1] # "dropped"
    <3>1. CASE 1 \in 1..admitted
      <4>1. Kind(1) = "initialized"
        BY <3>1, GateParts, DocTypes DEF Stages
      <4> QED BY <1>1, <2>1, <3>1, <4>1 DEF QueryKinds
    <3>2. CASE 1 \notin 1..admitted
      <4>1. CASE 1 \in 1..admitted'
        BY <1>2, <3>2, <4>1
      <4>2. CASE 1 \notin 1..admitted'
        <5>1. 1 > admitted' /\ 1 \in Ids
          BY <1>2, <4>2, GateParts
        <5>2. \A h \in Ids : h > admitted' => pc'[h] = "queued"
          BY DEF GateInv, BlockerInv, Stages
        <5> QED BY <5>1, <5>2
      <4> QED BY <4>1, <4>2
    <3> QED BY <3>1, <3>2
  <2>3. ASSUME NEW d \in rooted', Present(d)', ~OpenInFlight(d)' PROVE ast'[d] # NoText
    <3>1. ~OpenInFlight(d)
      <4> SUFFICES ASSUME NEW g \in InFlight, Kind(g) = "open", Doc(g) = d PROVE FALSE
        BY DEF OpenInFlight
      <4>1. g \in 1..admitted /\ pc'[g] = pc[g]
        BY <1>1 DEF InFlight, QueryKinds
      <4>2. g \in InFlight'
        BY <1>2, <4>1 DEF InFlight
      <4> QED BY <1>3, <2>3, <4>1, <4>2 DEF OpenInFlight
    <3> QED BY <1>1, <2>1, <2>3, <3>1 DEF Present
  <2> QED BY <2>2, <2>3
<1>10. RootedAtOnce'
  <2>1. pc'[1] = "done" => Workspace \subseteq rooted'
    <3>1. pc'[1] = "done" => pc[1] = "done"
      <4>1. CASE 1 \in 1..admitted
        BY <1>1, <4>1
      <4>2. CASE 1 \notin 1..admitted /\ 1 \in 1..admitted'
        BY <1>2, <4>2
      <4>3. CASE 1 \notin 1..admitted'
        <5>1. 1 > admitted' /\ 1 \in Ids
          BY <1>2, <4>3, GateParts
        <5>2. \A h \in Ids : h > admitted' => pc'[h] = "queued"
          BY DEF GateInv, BlockerInv, Stages
        <5> QED BY <5>1, <5>2
      <4> QED BY <4>1, <4>2, <4>3
    <3> QED BY <1>1, <3>1 DEF DocumentInv, RootedAtOnce
  <2>2. ASSUME NEW g \in 1..admitted', pc'[g] = "addroot", Doc(g)' \in Workspace
        PROVE  running' = g /\ Present(Doc(g))'
    <3>1. g \in 1..admitted /\ pc[g] = "addroot" /\ Doc(g) \in Workspace /\ Doc(g)' = Doc(g) /\ g # 0
      BY <1>3, <1>4, <2>2, GateParts
    <3>2. running = g /\ Present(Doc(g))
      BY <3>1 DEF DocumentInv, RootedAtOnce
    <3>3. UNCHANGED vars
      BY <1>1, <3>1, <3>2
    <3> QED BY <1>1, <3>1, <3>2, <3>3 DEF vars, Present
  <2> QED BY <2>1, <2>2 DEF RootedAtOnce
<1>11. ASSUME pc'[1] # "dropped" PROVE Held'
  <2>1. Held \/ admitted = 0
    <3>1. admitted # 0 => pc[1] # "dropped"
      <4>1. admitted # 0 => 1 \in 1..admitted
        BY <1>2
      <4> QED BY <1>1, <1>11, <4>1
    <3> QED BY <3>1 DEF DocumentInv
  <2> SUFFICES ASSUME NEW o \in 1..admitted', Kind(o)' = "open", Doc(o)' \in Supported, ~Waits(o)',
                      \A c \in o..admitted' : sent'[c] = [kind |-> "close", doc |-> Doc(o)'] => Waits(c)'
               PROVE  Present(Doc(o))'
    BY DEF Held
  <2>2. o \in 1..admitted /\ Kind(o) = "open" /\ Doc(o)' = Doc(o) /\ o \in Nat /\ admitted # 0
    <3>1. o \in 1..admitted
      BY <1>2
    <3> QED BY <1>2, <1>3, <3>1
  <2>3. pc[1] # "dropped"
    <3>1. 1 \in 1..admitted
      BY <1>2, <2>2
    <3> QED BY <1>1, <1>11, <3>1
  <2>4. ~Waits(o)
    BY <1>1, <2>2, <2>3 DEF DocumentKinds
  <2>5. \A c \in o..admitted : sent[c] = [kind |-> "close", doc |-> Doc(o)] => Waits(c)
    <3> SUFFICES ASSUME NEW c \in o..admitted, sent[c] = [kind |-> "close", doc |-> Doc(o)] PROVE Waits(c)
      OBVIOUS
    <3>1. c \in 1..admitted /\ c \in o..admitted' /\ c \in 1..Len(sent)
      <4>1. c \in 1..admitted /\ c \in o..admitted'
        BY <1>2, <2>2
      <4> QED BY <4>1, DocTypes DEF TypeInv
    <3> QED BY <1>2, <2>2, <3>1
  <2>6. Present(Doc(o))
    BY <2>1, <2>2, <2>4, <2>5 DEF Held
  <2> QED BY <1>1, <2>2, <2>6 DEF Present
<1>12. ReadsOwnWrites'
  <2>1. \A g \in 1..Len(sent') : pc'[g] = "done" => g \in 1..admitted /\ pc[g] = "done" /\ g \in 1..Len(sent)
    <3> SUFFICES ASSUME NEW g \in 1..Len(sent'), pc'[g] = "done" PROVE g \in 1..admitted /\ pc[g] = "done" /\ g \in 1..Len(sent)
      OBVIOUS
    <3>1. g \in 1..admitted'
      <4>1. \A h \in Ids : h > admitted' => pc'[h] = "queued"
        BY DEF GateInv, BlockerInv, Stages
      <4>2. g \in Ids /\ (g \in 1..admitted' \/ g > admitted')
        BY <1>2, Bounds, SMTT(30) DEF TypeInv, TypeOK, Ids
      <4> QED BY <4>1, <4>2
    <3> QED BY <1>4, <3>1, DocTypes DEF TypeInv
  <2> SUFFICES ASSUME NEW q \in 1..Len(sent'), Kind(q)' \in QueryKinds, pc'[q] = "done",
                      NEW m \in 1..q, Touches(m, Doc(q))', Kind(m)' # "close"
               PROVE  m <= Latest(rope'[q])
    BY DEF ReadsOwnWrites, Touches, Kind, Doc, Latest
  <2>2. q \in 1..admitted /\ pc[q] = "done" /\ q \in 1..Len(sent) /\ m \in 1..Len(sent)
    <3>1. q \in 1..admitted /\ pc[q] = "done" /\ q \in 1..Len(sent) /\ Len(sent) \in Nat
      BY <2>1 DEF TypeInv, TypeOK
    <3> QED BY <3>1
  <2>3. Kind(q) \in QueryKinds /\ Touches(m, Doc(q)) /\ Kind(m) # "close" /\ rope'[q] = rope[q]
    BY <1>1, <1>2, <2>2 DEF Touches, Kind, Doc
  <2> QED BY <2>2, <2>3 DEF ReadsOwnWrites
<1> QED BY <1>1, <1>5, <1>6, <1>7, <1>8, <1>9, <1>10, <1>11, <1>12 DEF DocumentInv

LEMMA DocumentStep ==
  ASSUME TypeInv, TypeInv', GateInv, GateInv', TurnInv, TurnInv', DocumentInv, ReadsOwnWrites, [Next]_vars
  PROVE  DocumentInv' /\ ReadsOwnWrites'
<1>1. CASE ClientSends \/ Admit \/ Poll \/ (\E h \in 1..admitted : Environment(h)) \/ UNCHANGED vars
  BY <1>1, QuietStep
<1>2. ASSUME NEW h \in 1..admitted, Handler(h) PROVE DocumentInv' /\ ReadsOwnWrites'
  <2>1. LegalClient'
    <3>1. sent' = sent
      BY <1>2, HandlerMoves DEF GateInv
    <3> QED BY <3>1 DEF DocumentInv, LegalClient, Kind, Doc
  <2>2. Sessions'
    BY <1>2, SessionsHandler DEF DocumentInv
  <2>3. Opening'
    BY <1>2, OpeningHandler DEF DocumentInv
  <2>4. Closing'
    BY <1>2, ClosingHandler DEF DocumentInv
  <2>5. Parsed'
    BY <1>2, ParsedHandler DEF DocumentInv
  <2>6. Analysed'
    BY <1>2, AnalysedHandler DEF DocumentInv
  <2>7. RootedAtOnce'
    BY <1>2, RootedHandler DEF DocumentInv
  <2>8. ReadsOwnWrites'
    BY <1>2, ReadsHandler DEF DocumentInv
  <2>9. ASSUME pc'[1] # "dropped" PROVE Held'
    <3>1. pc[1] # "dropped"
      <4>1. h = 1 => pc[1] # "dropped"
        BY <1>2, HandlerMoves DEF GateInv, InFlight, Terminal
      <4>2. h # 1 => pc'[1] = pc[1]
        BY <1>2, HandlerWaits, GateParts
      <4> QED BY <2>9, <4>1, <4>2
    <3> QED BY <1>2, <3>1, HeldHandler DEF DocumentInv
  <2> QED BY <2>1, <2>2, <2>3, <2>4, <2>5, <2>6, <2>7, <2>8, <2>9 DEF DocumentInv
<1> QED BY <1>1, <1>2 DEF Next

LEMMA OrderInit == Init => OrderInv
<1> SUFFICES ASSUME Init PROVE OrderInv
  OBVIOUS
<1>1. /\ 1..admitted = {} /\ DOMAIN ready = {} /\ InFlight = {} /\ 1 \in Ids /\ pc[1] = "queued"
      /\ Len(sent) = 1 /\ sent[1].kind = "initialized"
  BY Bounds DEF Init, InFlight, Ids
<1>2. TurnInv
  BY <1>1 DEF Init, TurnInv, Unsuspended, EntryOrder, RootHeld, SetupKept, Starting, Present, WaitersInTurn, InTurn
<1>3. LegalClient
  BY <1>1 DEF LegalClient, Kind, Doc
<1>4. Sessions /\ Parsed /\ Analysed
  BY <1>1 DEF Init, Sessions, Present, Parsed, Analysed
<1>5. Opening /\ Closing /\ RootedAtOnce /\ Held
  BY <1>1 DEF Opening, Closing, RootedAtOnce, Held
<1>6. ReadsOwnWrites
  BY <1>1 DEF ReadsOwnWrites, Kind, QueryKinds
<1> QED BY <1>2, <1>3, <1>4, <1>5, <1>6 DEF OrderInv, DocumentInv

-----------------------------------------------------------------------------
(* What holds in every execution, with the two slots of main.rs and a      *)
(* client that is not asked for progress.                                  *)

\* The strengthening is inductive: messages about documents take effect in
\* the order they were sent.
THEOREM MessagesInOrder ==
  ASSUME Concurrency <= 2, ~Progress
  PROVE  Spec => [](TypeInv /\ GateInv /\ OrderInv)
<1>1. Init => TypeInv /\ GateInv /\ OrderInv
  BY TypeInit, GateInit, OrderInit
<1>2. TypeInv /\ GateInv /\ OrderInv /\ [Next]_vars => (TypeInv /\ GateInv /\ OrderInv)'
  <2> SUFFICES ASSUME TypeInv, GateInv, OrderInv, [Next]_vars PROVE (TypeInv /\ GateInv /\ OrderInv)'
    OBVIOUS
  <2>1. TypeInv'
    BY TypeStep
  <2>2. GateInv'
    BY <2>1, GateStep
  <2>3. TurnInv /\ DocumentInv /\ ReadsOwnWrites /\ Opening
    BY DEF OrderInv, DocumentInv
  <2>4. TurnInv'
    BY <2>3, TurnStep
  <2>5. DocumentInv' /\ ReadsOwnWrites'
    BY <2>1, <2>2, <2>3, <2>4, DocumentStep
  <2> QED BY <2>1, <2>2, <2>4, <2>5 DEF OrderInv
<1> QED BY <1>1, <1>2, PTL DEF Spec

\* With two slots a notified waiter is polled before a handler that could
\* block root_setup again, and a handler past the gate has not awaited since.
THEOREM GateStaysOpen ==
  ASSUME Concurrency <= 2
  PROVE  Spec => []GateInv
<1>1. Init => TypeInv /\ GateInv
  BY TypeInit, GateInit
<1>2. TypeInv /\ GateInv /\ [Next]_vars => (TypeInv /\ GateInv)'
  BY TypeStep, GateStep
<1> QED BY <1>1, <1>2, PTL DEF Spec

\* The text the server holds of a document is the client's text at some
\* moment: did_change handlers neither lose, repeat nor reorder an edit.
THEOREM TextsAreFaithful ==
  ASSUME Concurrency <= 2, ~Progress
  PROVE  Spec => []TextFaithful
<1>1. OrderInv => TextFaithful
  BY DEF OrderInv, DocumentInv, Sessions, Session, TextFaithful
<1> QED BY <1>1, MessagesInOrder, PTL

\* A request is answered from a text that has every edit the client had made.
THEOREM AnswersReadOwnWrites ==
  ASSUME Concurrency <= 2, ~Progress
  PROVE  Spec => []ReadsOwnWrites
<1>1. OrderInv => ReadsOwnWrites
  BY DEF OrderInv
<1> QED BY <1>1, MessagesInOrder, PTL

\* When nothing is left to do a document in the store is one the client has
\* open, with all its edits.
LEMMA SettledSession ==
  ASSUME TypeInv, GateInv, OrderInv, Settled, NEW d \in Docs, Present(d)
  PROVE  /\ IsOpen(d) /\ docs[d].inst \in 1..Len(sent)
         /\ \A m \in docs[d].inst..Len(sent) : Touches(m, d) => m <= Latest(docs[d].text)
<1> DEFINE last == Latest(docs[d].text)
           inst == docs[d].inst
<1>1. Session(d) /\ InFlight = {} /\ admitted = Len(sent)
  BY DEF OrderInv, DocumentInv, Sessions, Settled
<1>2. inst \in 1..Len(sent) /\ last \in 1..Len(sent) /\ inst <= last /\ Len(sent) \in Nat /\ DOMAIN sent = 1..Len(sent)
  <2>1. Len(sent) \in Nat /\ DOMAIN sent = 1..Len(sent)
    BY DEF TypeInv, TypeOK
  <2> QED BY <1>1, <2>1, SessionBounds
<1>3. \A m \in 1..Len(sent) : Touches(m, d) => m <= last
  <2> SUFFICES ASSUME NEW m \in 1..Len(sent), Touches(m, d), ~(m <= last) PROVE FALSE
    OBVIOUS
  <2>1. last < m
    BY <1>2
  <2>2. Waits(m)
    BY <1>1, <2>1, SessionFacts
  <2> QED BY <1>1, <2>2, WaitsInFlight
<1>4. \A m \in inst..last : Touches(m, d) => Kind(m) # "close"
  BY <1>1, SessionFacts
<1>5. sent[inst] = [kind |-> "open", doc |-> d]
  BY <1>1, SessionFacts
<1>6. \A c \in inst..Len(sent) : sent[c] # [kind |-> "close", doc |-> d]
  <2> SUFFICES ASSUME NEW c \in inst..Len(sent), sent[c] = [kind |-> "close", doc |-> d] PROVE FALSE
    OBVIOUS
  <2>1. Touches(c, d) /\ Kind(c) = "close" /\ c \in 1..Len(sent)
    BY <1>2 DEF Touches, Kind, Doc, DocumentKinds
  <2>2. c \in inst..last
    BY <1>2, <1>3, <2>1
  <2> QED BY <1>4, <2>1, <2>2
<1>7. IsOpen(d)
  BY <1>2, <1>5, <1>6 DEF IsOpen
<1>8. inst..Len(sent) \subseteq 1..Len(sent)
  BY <1>2
<1> QED BY <1>2, <1>3, <1>7, <1>8

\* A document the client has closed is not left in the store, nor its tree.
THEOREM ClosedAreForgotten ==
  ASSUME Concurrency <= 2, ~Progress
  PROVE  Spec => []ClosedForgotten
<1>1. TypeInv /\ GateInv /\ OrderInv => ClosedForgotten
  <2> SUFFICES ASSUME TypeInv, GateInv, OrderInv, Settled, NEW d \in Docs, ~IsOpen(d)
               PROVE  ~Present(d) /\ ast[d] = NoText
    BY DEF ClosedForgotten
  <2>1. ~Present(d)
    BY SettledSession
  <2> QED BY <2>1 DEF OrderInv, DocumentInv, Sessions
<1> QED BY <1>1, MessagesInOrder, PTL

\* Where a URI path is its file path, what analysis parsed is the text.
THEOREM TreesAreFresh ==
  ASSUME Concurrency <= 2, ~Progress, Encoded = {}
  PROVE  Spec => []AnalysisFresh
<1>1. OrderInv => AnalysisFresh
  BY DEF OrderInv, DocumentInv, Parsed, AnalysisFresh
<1> QED BY <1>1, MessagesInOrder, PTL

\* When all is handled and nothing was given up, an open document has all its
\* edits and is analysed.
THEOREM SettlesInSync ==
  ASSUME Concurrency <= 2, ~Progress, Encoded = {}
  PROVE  Spec => []SettledInSync
<1>1. TypeInv /\ GateInv /\ OrderInv => SettledInSync
  <2> SUFFICES ASSUME TypeInv, GateInv, OrderInv, Settled, timeouts = 0,
                      NEW d \in Supported \cap rooted, IsOpen(d)
               PROVE  /\ Present(d)
                      /\ \A m \in docs[d].inst..Len(sent) : Touches(m, d) => m <= Latest(docs[d].text)
                      /\ ast[d] = docs[d].text
    BY DEF SettledInSync
  <2>1. d \in Docs /\ admitted = Len(sent) /\ InFlight = {} /\ DOMAIN sent = 1..Len(sent) /\ Len(sent) \in Nat
    BY DocAssumption DEF Settled, TypeInv, TypeOK
  <2>2. Analysed /\ Parsed /\ (pc[1] # "dropped" => Held)
    BY DEF OrderInv, DocumentInv
  <2>3. Held
    BY <2>2 DEF Analysed
  <2>4. PICK o \in DOMAIN sent : /\ sent[o] = [kind |-> "open", doc |-> d]
                                 /\ \A c \in o..Len(sent) : sent[c] # [kind |-> "close", doc |-> d]
    BY DEF IsOpen
  <2>5. o \in 1..admitted /\ Kind(o) = "open" /\ Doc(o) = d /\ ~Waits(o)
    <3>1. o \in 1..admitted
      BY <2>1
    <3> QED BY <2>1, <2>4, <3>1, WaitsInFlight DEF Kind, Doc
  <2>6. Present(d)
    BY <2>1, <2>3, <2>4, <2>5 DEF Held
  <2>7. ~OpenInFlight(d)
    BY <2>1 DEF OpenInFlight
  <2>8. ast[d] = docs[d].text
    BY <2>1, <2>2, <2>6, <2>7 DEF Analysed, Parsed
  <2> QED BY <2>1, <2>6, <2>8, SettledSession
<1> QED BY <1>1, MessagesInOrder, PTL

-----------------------------------------------------------------------------
(* A handler finds the document it is about.                               *)

\* The document of a message the client may send only while it has the
\* document open is in the store when the message's handler looks it up.
LEMMA FindsDocument ==
  ASSUME TypeInv, GateInv, OrderInv, Docs \subseteq Supported, NEW h \in 1..admitted, running = h,
         Waits(h), pc[h] \in {"gate", "opened"}, Kind(h) \notin {"initialized", "open", "close"}
  PROVE  Present(Doc(h))
<1>1. /\ h \in 1..Len(sent) /\ h \in Nat /\ Doc(h) \in Docs /\ TurnInv /\ LegalClient
      /\ admitted \in Nat /\ admitted <= Len(sent) /\ Len(sent) \in Nat
  BY DocTypes, Bounds DEF OrderInv, DocumentInv, TypeInv, TypeOK
<1>2. pc[1] = "done"
  BY <1>1, Started
<1>3. InTurn /\ Held
  BY <1>1, <1>2, Started DEF OrderInv, DocumentInv
<1>4. PICK o \in 1..Len(sent) :
        /\ o < h /\ sent[o] = [kind |-> "open", doc |-> sent[h].doc]
        /\ \A c \in o..(h - 1) : sent[c] # [kind |-> "close", doc |-> sent[h].doc]
  BY <1>1, LegalFacts DEF Kind
<1>5. o \in 1..admitted /\ Kind(o) = "open" /\ Doc(o) = Doc(h) /\ ~Waits(o)
  <2>1. o \in 1..admitted
    BY <1>1, <1>4
  <2> QED BY <1>3, <1>4, <2>1, RunnerInTurn DEF Kind, Doc
<1>6. ASSUME NEW c \in o..admitted, sent[c] = [kind |-> "close", doc |-> Doc(o)] PROVE Waits(c)
  <2>1. c \in 1..admitted /\ c \in Nat /\ (c \in o..(h - 1) \/ c = h \/ h < c)
    BY <1>1, <1>4
  <2>2. h < c
    BY <1>4, <1>5, <1>6, <2>1 DEF Kind, Doc
  <2> QED BY <1>3, <2>1, <2>2 DEF InTurn, Waits
<1> QED BY <1>1, <1>3, <1>5, <1>6 DEF Held

\* Only a handler that misses its document ends in one of the panics.
LEMMA MissingAt ==
  ASSUME TypeInv, GateInv, NEW h \in 1..admitted, Handler(h), pc'[h] = "missingPanic"
  PROVE  /\ ~Present(Doc(h))
         /\ \/ ChangeOnOpen(h) \/ AnalyseOnOpen(h) \/ ChangeFull(h) \/ ChangeDelta(h)
            \/ Answer(h) /\ Kind(h) = "goto_definition"
<1>1. /\ \A label : StepTo(h, label) \/ ParkAt(h, label) => label = "missingPanic"
      /\ \A how : Leave(h, how) => how = "missingPanic"
  BY Whither
<1>2. ~RegisterCapability(h) /\ ~ForceBlockRoot(h) /\ ~InsertDocument(h) /\ ~LoadDependents(h)
  BY <1>1 DEF RegisterCapability, ForceBlockRoot, InsertDocument, LoadDependents, Await
<1>3. ~WaitForRoot(h) /\ ~RootWaitPolled(h) /\ ~WaitForDocument(h) /\ ~DocumentWaitPolled(h)
  BY <1>1 DEF WaitForRoot, RootWaitPolled, WaitForDocument, DocumentWaitPolled
<1>4. ~AddRoots(h) /\ ~Close(h)
  BY <1>1 DEF AddRoots, Close
<1>5. ~BlockRoot(h)
  BY <1>1 DEF BlockRoot
<1>6. ChangeOnOpen(h) => ~Present(Doc(h))
  BY <1>1 DEF ChangeOnOpen, Await
<1>7. AnalyseOnOpen(h) => ~Present(Doc(h))
  BY <1>1 DEF AnalyseOnOpen
<1>8. ChangeFull(h) \/ ChangeDelta(h) => ~Present(Doc(h))
  BY <1>1 DEF ChangeFull, ChangeDelta, Analyse
<1>9. Answer(h) => ~Present(Doc(h)) /\ Kind(h) = "goto_definition"
  BY <1>1 DEF Answer, Declines
<1> QED BY <1>2, <1>3, <1>4, <1>5, <1>6, <1>7, <1>8, <1>9 DEF Handler

LEMMA MissingStep ==
  ASSUME TypeInv, TypeInv', GateInv, GateInv', OrderInv, Docs \subseteq Supported \cap Workspace,
         NoMissingDocument, [Next]_vars
  PROVE  NoMissingDocument'
<1> SUFFICES ASSUME NEW g \in Ids, pc'[g] = "missingPanic" PROVE FALSE
  BY DEF NoMissingDocument
<1>1. TurnInv /\ DocumentInv
  BY DEF OrderInv
<1>2. g \in 1..admitted /\ pc[g] # "missingPanic"
  <2>1. g \in 1..admitted'
    <3>1. \A h \in Ids : h > admitted' => pc'[h] = "queued"
      BY DEF GateInv, BlockerInv, Stages
    <3>2. g \in 1..admitted' \/ g > admitted'
      BY StepFacts, Bounds, SMTT(30) DEF Ids
    <3> QED BY <3>1, <3>2
  <2> QED BY <2>1, StepFacts DEF NoMissingDocument
<1>3. CASE ClientSends \/ Admit \/ Poll \/ (\E h \in 1..admitted : Environment(h)) \/ UNCHANGED vars
  BY <1>1, <1>2, <1>3, QuietFacts DEF DocumentInv
<1>4. ASSUME NEW h \in 1..admitted, Handler(h) PROVE FALSE
  <2>1. g = h
    BY <1>2, <1>4, HandlerWaits
  <2>2. /\ ~Present(Doc(h)) /\ running = h
        /\ \/ ChangeOnOpen(h) \/ AnalyseOnOpen(h) \/ ChangeFull(h) \/ ChangeDelta(h)
           \/ Answer(h) /\ Kind(h) = "goto_definition"
    BY <1>4, <2>1, MissingAt, HandlerMoves DEF GateInv
  <2>3. CASE ChangeOnOpen(h)
    <3>1. pc[h] = "addroot" /\ Kind(h) = "open"
      BY <2>3, GateParts DEF ChangeOnOpen, At, Stages, Fits
    <3>2. Doc(h) \in Workspace
      BY <3>1, GateParts, DocTypes
    <3> QED BY <1>1, <2>2, <3>1, <3>2 DEF DocumentInv, RootedAtOnce
  <2>4. CASE AnalyseOnOpen(h)
    BY <1>1, <1>4, <2>2, <2>4, AnalyseEffects DEF DocumentInv
  <2>5. CASE ChangeFull(h) \/ ChangeDelta(h) \/ (Answer(h) /\ Kind(h) = "goto_definition")
    <3>1. pc[h] \in {"gate", "opened"} /\ Kind(h) \in {"full", "delta", "goto_definition"}
      BY <2>5 DEF ChangeFull, ChangeDelta, Answer, AnswersAt, At
    <3>2. Waits(h)
      BY <3>1 DEF Waits
    <3> QED BY <2>2, <3>1, <3>2, FindsDocument
  <2> QED BY <2>2, <2>3, <2>4, <2>5
<1> QED BY <1>3, <1>4 DEF Next

\* Where initialized finds a root for every document and did_open knows its
\* language, no handler panics because its document is not in the store ("Did
\* not build a document", "Bug: did not build a document").
THEOREM DocumentsAreFound ==
  ASSUME Concurrency <= 2, ~Progress, Docs \subseteq Supported \cap Workspace
  PROVE  Spec => []NoMissingDocument
<1>1. Init => NoMissingDocument
  BY DEF Init, NoMissingDocument
<1>2. TypeInv /\ GateInv /\ OrderInv /\ (TypeInv /\ GateInv /\ OrderInv)' /\ NoMissingDocument /\ [Next]_vars
      => NoMissingDocument'
  BY MissingStep
<1> QED BY <1>1, <1>2, MessagesInOrder, PTL DEF Spec

-----------------------------------------------------------------------------
(* The store implements DocumentStore.                                     *)

\* A handler that leaves docs leaves the abstract store.
LEMMA StoreUnchanged ==
  ASSUME docs' = docs, sent' = sent
  PROVE  UNCHANGED Store!storeVars
BY DEF Store!storeVars

LEMMA StoreInit == Init => Store!Init
BY DEF Init, Store!Init, Store!NoText, NoText

\* A message the client sends is one the abstract store has not seen.
LEMMA StoreSend ==
  ASSUME TypeInv, ClientSends
  PROVE  Store!Next
<1>1. PICK k \in {"open", "close"} \cup EditKinds \cup Queries, d \in Docs : Send(k, d)
  BY DEF ClientSends
<1>2. sent' = Append(sent, [kind |-> k, doc |-> d]) /\ docs' = docs /\ sent \in Seq(Messages)
  BY <1>1 DEF Send, store, TypeInv, TypeOK
<1>3. /\ Len(sent') = Len(sent) + 1 /\ Len(sent) \in Nat
      /\ \A i \in 1..Len(sent) : sent'[i] = sent[i]
  <2>1. Len(sent) \in 1..MaxMessages
    BY DEF TypeInv, TypeOK
  <2> QED BY <1>1, <1>2, <2>1, AppendProperties
<1>4. SubSeq(sent', 1, Len(sent)) = sent
  BY <1>2, SMTT(30)
<1> QED BY <1>2, <1>3, <1>4 DEF Store!Next

\* The text of one document changes.
LEMMA TextChanges ==
  ASSUME NEW d \in Docs, NEW t, docs'[d].text = t, \A e \in Docs : e # d => docs'[e] = docs[e]
  PROVE  [e \in Docs |-> docs'[e].text] = [[e \in Docs |-> docs[e].text] EXCEPT ![d] = t]
OBVIOUS

\* What the messages of a document's session are to the abstract store.
LEMMA SessionFollows ==
  ASSUME TypeInv, GateInv, OrderInv, NEW h \in 1..admitted, running = h, Waits(h),
         Kind(h) \in DocumentKinds, Present(Doc(h)), Doc(h) \in Docs
  PROVE  /\ docs[Doc(h)].text # NoText /\ h \in DOMAIN sent
         /\ {k \in (Latest(docs[Doc(h)].text) + 1)..h : Touches(k, Doc(h))} = {h}
<1>1. TurnInv /\ Session(Doc(h))
  BY DEF OrderInv, DocumentInv, Sessions
<1>2. InTurn
  BY <1>1, Started
<1>3. Touches(h, Doc(h))
  BY DEF Touches
<1>4. {k \in (Latest(docs[Doc(h)].text) + 1)..h : Touches(k, Doc(h))} = {h}
  BY <1>1, <1>2, <1>3, Follower
<1>5. docs[Doc(h)].text.base \in 1..admitted /\ 0 \notin 1..admitted
  BY <1>1, SessionBounds
<1>6. docs[Doc(h)].text # NoText
  BY <1>5 DEF NoText
<1>7. h \in DOMAIN sent
  BY DocTypes DEF TypeInv, TypeOK
<1> QED BY <1>4, <1>6, <1>7

LEMMA StoreHandler ==
  ASSUME TypeInv, TypeInv', GateInv, GateInv', OrderInv, NEW h \in 1..admitted, Handler(h)
  PROVE  Store!Next \/ UNCHANGED Store!storeVars
<1>1. running = h /\ sent' = sent /\ h \in DOMAIN sent /\ DOMAIN sent = 1..Len(sent)
  BY HandlerMoves, DocTypes DEF GateInv, TypeInv, TypeOK
<1>2. Opening /\ LegalClient /\ Sessions /\ TurnInv
  BY DEF OrderInv, DocumentInv
<1>3. CASE ~InsertDocument(h) /\ ~ChangeFull(h) /\ ~ChangeDelta(h) /\ ~Close(h)
  BY <1>1, <1>2, <1>3, StoreEffects, StoreUnchanged
<1>4. CASE InsertDocument(h)
  <2>1. /\ Kind(h) = "open" /\ Doc(h) \in Docs /\ docs'[Doc(h)] = [inst |-> h, text |-> WholeText(h)]
        /\ \A d \in Docs : d # Doc(h) => docs'[d] = docs[d]
    BY <1>4, InsertEffects
  <2>2. Waits(h) /\ h \in Nat /\ h # 0
    BY <1>4, <2>1, GateParts DEF InsertDocument, At, Waits, TurnInv, Unsuspended, OrderInv
  <2>3. docs[Doc(h)].text = NoText
    BY <1>1, <1>2, <2>1, <2>2, OpensAbsent
  <2>4. h > Latest(docs[Doc(h)].text)
    BY <2>2, <2>3, LatestFacts
  <2>5. docs'[Doc(h)].text = WholeText(h)
    BY <2>1
  <2>6. [e \in Docs |-> docs'[e].text] = [[e \in Docs |-> docs[e].text] EXCEPT ![Doc(h)] = WholeText(h)]
    BY <2>1, <2>5, TextChanges
  <2>7. Store!Opens(Doc(h), h)
    BY <2>1, <2>4, <2>6 DEF Store!Opens, Store!Touches, Store!DocumentKinds, Store!Latest, Latest,
       Store!WholeText, WholeText, Kind, Doc
  <2> QED BY <1>1, <2>1, <2>7 DEF Store!Next
<1>5. CASE ChangeFull(h) \/ ChangeDelta(h)
  <2>1. PICK new \in Texts : new = (IF Kind(h) = "full" THEN WholeText(h) ELSE WithEdit(docs[Doc(h)].text, h))
    <3>1. Doc(h) \in Docs /\ h \in Ids
      BY <1>5, DocTypes DEF ChangeFull, ChangeDelta, TypeInv
    <3> QED BY <3>1, TextTypes DEF TypeInv, TypeOK
  <2>2. /\ Kind(h) \in EditKinds /\ Doc(h) \in Docs /\ Waits(h)
        /\ ~Present(Doc(h)) => docs' = docs
        /\ Present(Doc(h)) =>
             /\ docs'[Doc(h)] = [inst |-> docs[Doc(h)].inst, text |-> new]
             /\ \A d \in Docs : d # Doc(h) => docs'[d] = docs[d]
    BY <1>5, <2>1, EditEffects
  <2>3. CASE ~Present(Doc(h))
    BY <1>1, <2>2, <2>3, StoreUnchanged
  <2>4. CASE Present(Doc(h))
    <3>1. /\ docs[Doc(h)].text # NoText
          /\ {k \in (Latest(docs[Doc(h)].text) + 1)..h : Touches(k, Doc(h))} = {h}
      BY <1>1, <2>2, <2>4, SessionFollows DEF DocumentKinds
    <3>2. docs'[Doc(h)].text = new
      BY <2>2, <2>4
    <3>3. [e \in Docs |-> docs'[e].text] = [[e \in Docs |-> docs[e].text] EXCEPT ![Doc(h)] = new]
      BY <2>2, <2>4, <3>2, TextChanges
    <3>4. Store!Follows(h, Doc(h))
      BY <2>2, <3>1 DEF Store!Follows, Store!Touches, Store!DocumentKinds, DocumentKinds, EditKinds, Store!EditKinds,
         Store!Latest, Latest, Touches, Kind, Doc
    <3>5. CASE Kind(h) = "full"
      <4>1. Store!Replaces(Doc(h), h)
        BY <2>1, <2>2, <3>1, <3>3, <3>4, <3>5 DEF Store!Replaces, Store!NoText, NoText, Store!WholeText, WholeText, Kind
      <4> QED BY <1>1, <2>2, <4>1 DEF Store!Next
    <3>6. CASE Kind(h) = "delta"
      <4>1. Store!Edits(Doc(h), h)
        BY <2>1, <2>2, <3>1, <3>3, <3>4, <3>6 DEF Store!Edits, Store!NoText, NoText, Store!WithEdit, WithEdit, Kind
      <4> QED BY <1>1, <2>2, <4>1 DEF Store!Next
    <3> QED BY <2>2, <3>5, <3>6 DEF EditKinds
  <2> QED BY <2>3, <2>4
<1>6. CASE Close(h)
  <2>1. /\ Kind(h) = "close" /\ Doc(h) \in Docs /\ Waits(h)
        /\ docs'[Doc(h)] = [inst |-> 0, text |-> NoText]
        /\ \A d \in Docs : d # Doc(h) => docs'[d] = docs[d]
    BY <1>6, CloseEffects
  <2>2. docs'[Doc(h)].text = NoText
    BY <2>1
  <2>3. [e \in Docs |-> docs'[e].text] = [[e \in Docs |-> docs[e].text] EXCEPT ![Doc(h)] = NoText]
    BY <2>1, <2>2, TextChanges
  <2>4. CASE ~Present(Doc(h))
    <3>1. docs[Doc(h)].text = NoText
      BY <1>2, <2>1, <2>4 DEF Sessions
    <3>2. [e \in Docs |-> docs'[e].text] = [e \in Docs |-> docs[e].text]
      BY <2>1, <2>2, <3>1
    <3> QED BY <1>1, <3>2 DEF Store!storeVars
  <2>5. CASE Present(Doc(h))
    <3>1. /\ docs[Doc(h)].text # NoText
          /\ {k \in (Latest(docs[Doc(h)].text) + 1)..h : Touches(k, Doc(h))} = {h}
      BY <1>1, <2>1, <2>5, SessionFollows DEF DocumentKinds
    <3>2. Store!Follows(h, Doc(h))
      BY <2>1, <3>1 DEF Store!Follows, Store!Touches, Store!DocumentKinds, DocumentKinds, EditKinds, Store!EditKinds,
         Store!Latest, Latest, Touches, Kind, Doc
    <3>3. Store!Forgets(Doc(h), h)
      BY <2>1, <2>3, <3>1, <3>2 DEF Store!Forgets, Store!NoText, NoText, Kind
    <3> QED BY <1>1, <2>1, <3>3 DEF Store!Next
  <2> QED BY <2>4, <2>5
<1> QED BY <1>3, <1>4, <1>5, <1>6

\* The handlers implement DocumentStore: the text of a document goes through
\* the texts the client gave it, one message at a time and none skipped.
THEOREM HandlersImplementStore ==
  ASSUME Concurrency <= 2, ~Progress
  PROVE  Spec => StoreSpec
<1>1. Init => Store!Init
  BY StoreInit
<1>2. TypeInv /\ GateInv /\ OrderInv /\ (TypeInv /\ GateInv /\ OrderInv)' /\ [Next]_vars
      => [Store!Next]_(Store!storeVars)
  <2> SUFFICES ASSUME TypeInv, TypeInv', GateInv, GateInv', OrderInv, [Next]_vars
               PROVE  Store!Next \/ UNCHANGED Store!storeVars
    OBVIOUS
  <2>1. CASE ClientSends
    BY <2>1, StoreSend
  <2>2. CASE Admit \/ Poll \/ UNCHANGED vars
    <3>1. docs' = docs /\ sent' = sent
      BY <2>2 DEF Admit, Poll, store, vars
    <3> QED BY <3>1, StoreUnchanged
  <2>3. ASSUME NEW h \in 1..admitted, Environment(h) PROVE UNCHANGED Store!storeVars
    <3>1. docs' = docs /\ sent' = sent
      BY <2>3 DEF Environment, ClientReplies, WorkCompletes, WaitLimitElapses, Timeout, Cancel, Wake, Drop, store
    <3> QED BY <3>1, StoreUnchanged
  <2>4. ASSUME NEW h \in 1..admitted, Handler(h) PROVE Store!Next \/ UNCHANGED Store!storeVars
    BY <2>4, StoreHandler
  <2> QED BY <2>1, <2>2, <2>3, <2>4 DEF Next
<1> QED BY <1>1, <1>2, MessagesInOrder, PTL DEF Spec, StoreSpec, Store!Spec

=============================================================================
