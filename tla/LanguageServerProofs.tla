------------------------ MODULE LanguageServerProofs ------------------------
(* Theorems about LanguageServer, for every value of its constants.        *)
EXTENDS LanguageServer, FiniteSetTheorems, SequenceTheorems, TLAPS

-----------------------------------------------------------------------------
(* Types, and which handlers reach which point.                            *)

TypeInv == TypeOK /\ Stages

LEMMA Bounds == MaxMessages \in Nat \ {0} /\ Concurrency \in Nat \ {0} /\ MaxTimeouts \in Nat
  BY TextAssumption, BoundAssumption

\* An enqueueing order is a sequence of the handlers enqueued.
LEMMA OrdersAreSequences ==
  ASSUME NEW W, IsFiniteSet(W), NEW order \in Orders(W)
  PROVE  /\ order \in Seq(W) /\ Len(order) = Cardinality(W)
         /\ \A i, j \in 1..Len(order) : order[i] = order[j] => i = j
<1>1. Cardinality(W) \in Nat
  BY FS_CardinalityType
<1>2. order \in [1..Cardinality(W) -> W]
  BY DEF Orders
<1>3. order \in Seq(W)
  BY <1>1, <1>2, SeqDef
<1>4. Len(order) = Cardinality(W)
  BY <1>1, <1>2, <1>3, LenProperties
<1> QED BY <1>2, <1>3, <1>4 DEF Orders

LEMMA InFlightFinite ==
  ASSUME TypeOK
  PROVE  IsFiniteSet(InFlight) /\ \A W \in SUBSET InFlight : IsFiniteSet(W)
<1>1. admitted \in Nat
  BY Bounds DEF TypeOK
<1>2. IsFiniteSet(1..admitted)
  BY <1>1, FS_Interval
<1> QED BY <1>2, FS_Subset DEF InFlight

\* What the end of a handler leaves is of the same types.
LEMMA LeaveTypes ==
  ASSUME TypeOK, NEW h \in 1..admitted, NEW how \in Terminal, Leave(h, how)
  PROVE  /\ pc' = [pc EXCEPT ![h] = how] /\ pc' \in [Ids -> Labels] /\ running' = 0
         /\ ready' \in Seq(1..admitted) /\ notified' \in SUBSET Ids
         /\ root' \in BOOLEAN /\ setup' \in SUBSET Ids
<1>1. PICK order \in Orders(Woken(h) \ Queued) : ready' = ready \o order
  BY DEF Leave
<1>2. Woken(h) \ Queued \subseteq InFlight /\ IsFiniteSet(Woken(h) \ Queued)
  BY InFlightFinite DEF Woken
<1>3. order \in Seq(1..admitted)
  BY <1>2, OrdersAreSequences, SeqMonotonic DEF InFlight
<1>4. ready' \in Seq(1..admitted)
  BY <1>1, <1>3, ConcatProperties DEF TypeOK
<1>5. InFlight \subseteq Ids
  BY Bounds DEF InFlight, TypeOK, Ids
<1>6. notified' \in SUBSET Ids
  BY <1>5 DEF Leave, TypeOK, Woken
<1> QED BY <1>4, <1>6 DEF Leave, TypeOK, Labels

LEMMA IdFacts ==
  ASSUME TypeOK
  PROVE  /\ 1..admitted \subseteq Ids /\ InFlight \subseteq Ids /\ InFlight \subseteq 1..admitted
         /\ 0 \notin Ids /\ 1 \in Ids
<1>1. admitted <= MaxMessages /\ admitted \in Nat /\ MaxMessages \in Nat \ {0}
  BY Bounds DEF TypeOK
<1>2. 1..admitted \subseteq Ids /\ 0 \notin Ids /\ 1 \in Ids
  BY <1>1 DEF Ids
<1> QED BY <1>2 DEF InFlight

\* Waiters that are enqueued come after those that are already in the queue.
LEMMA QueueHead ==
  ASSUME NEW S, NEW q \in Seq(S), NEW r \in Seq(S), q # <<>>
  PROVE  q \o r # <<>> /\ Head(q \o r) = Head(q)
<1>1. Len(q) \in Nat \ {0} /\ Len(r) \in Nat
  BY EmptySeq, LenProperties
<1>2. Len(q \o r) = Len(q) + Len(r) /\ (q \o r)[1] = q[1] /\ q \o r \in Seq(S)
  BY <1>1, ConcatProperties
<1> QED BY <1>1, <1>2, EmptySeq

\* The texts a handler can make of a document.
LEMMA TextTypes ==
  ASSUME NEW m \in Ids
  PROVE  /\ NoText \in Texts /\ WholeText(m) \in Texts
         /\ \A t \in Texts : WithEdit(t, m) \in Texts
<1>1. MaxMessages \in Nat /\ <<>> \in Seq(Ids)
  BY Bounds, EmptySeq
<1>2. NoText \in Texts
  BY <1>1 DEF Texts, NoText
<1>3. WholeText(m) \in Texts
  BY <1>1 DEF Texts, WholeText, Ids
<1>4. ASSUME NEW t \in Texts PROVE WithEdit(t, m) \in Texts
  <2>1. t.edits \in Seq(Ids)
    BY DEF Texts
  <2>2. Append(t.edits, m) \in Seq(Ids)
    BY <2>1
  <2> QED BY <2>2 DEF Texts, WithEdit
<1> QED BY <1>2, <1>3, <1>4

\* A document whose text is replaced stays a document.
LEMMA TextUpdateTypes ==
  ASSUME TypeOK, NEW d \in Docs, NEW t \in Texts
  PROVE  [docs EXCEPT ![d].text = t] \in [Docs -> [inst: 0..MaxMessages, text: Texts]]
<1>1. docs[d] \in [inst: 0..MaxMessages, text: Texts]
  BY DEF TypeOK
<1>2. [docs[d] EXCEPT !.text = t] \in [inst: 0..MaxMessages, text: Texts]
  BY <1>1
<1> QED BY <1>2 DEF TypeOK

\* A message that can reach a document names one.
LEMMA DocTypes ==
  ASSUME TypeOK, NEW h \in 1..admitted
  PROVE  /\ h \in Ids /\ h \in 1..Len(sent) /\ h \in Nat
         /\ Kind(h) # "initialized" => Doc(h) \in Docs
<1>1. h \in 1..Len(sent) /\ h \in Ids /\ h \in Nat
  BY Bounds DEF TypeOK, Ids
<1>2. sent[h] \in Messages
  BY <1>1 DEF TypeOK
<1> QED BY <1>1, <1>2 DEF Messages, Kind, Doc

LEMMA TypeInit == Init => TypeInv
<1> SUFFICES ASSUME Init PROVE TypeInv
  OBVIOUS
<1>1. sent \in Seq(Messages) /\ Len(sent) = 1 /\ sent[1].kind = "initialized"
  BY DEF Init, Messages
<1>2. NoText \in Texts /\ <<>> \in Seq(1..admitted)
  BY TextTypes, Bounds, EmptySeq DEF NoText, Texts
<1>3. TypeOK
  BY <1>1, <1>2, Bounds DEF Init, TypeOK, Labels, Ids
<1>4. Stages
  BY <1>1, Bounds DEF Init, Stages, Kind, Ids
<1> QED BY <1>3, <1>4 DEF TypeInv

\* A handler that moves, or ends, is where its kind can be.
LEMMA MoveStages ==
  ASSUME TypeInv, NEW h \in 1..admitted, NEW label,
         pc' = [pc EXCEPT ![h] = label], sent' = sent, admitted' = admitted,
         Fits(label, Kind(h))
  PROVE  Stages'
<1>1. pc' \in [Ids -> Labels \cup {label}] /\ \A g \in Ids : pc'[g] = IF g = h THEN label ELSE pc[g]
  BY DEF TypeInv, TypeOK
<1>2. admitted \in Nat /\ 1..admitted \subseteq Ids /\ h <= admitted
  BY Bounds DEF TypeInv, TypeOK, Ids
<1>3. \A g \in 1..Len(sent) : Kind(g)' = Kind(g)
  BY DEF Kind
<1>4. \A g \in 1..admitted : Kind(g)' = Kind(g)
  BY DEF Kind
<1>5. \A g \in 1..admitted' : Fits(pc[g], Kind(g))'
  <2> SUFFICES ASSUME NEW g \in 1..admitted PROVE Fits(pc'[g], Kind(g)')
    BY DEF Fits
  <2> QED BY <1>1, <1>2, <1>4 DEF TypeInv, Stages
<1>6. \A g \in Ids : g > admitted => pc'[g] = "queued"
  BY <1>1, <1>2 DEF TypeInv, Stages, Ids
<1> QED BY <1>3, <1>5, <1>6 DEF TypeInv, Stages

LEMMA LeaveStages ==
  ASSUME TypeInv, NEW h \in 1..admitted, NEW how \in Terminal, Leave(h, how),
         sent' = sent, admitted' = admitted
  PROVE  Stages'
<1>1. Fits(how, Kind(h))
  BY DEF Fits, Terminal
<1> QED BY <1>1, MoveStages DEF Leave

\* Each action keeps the types, and moves handlers only where Fits allows.
LEMMA SendTypes ==
  ASSUME TypeInv, NEW k \in {"open", "close"} \cup EditKinds \cup Queries, NEW d \in Docs, Send(k, d)
  PROVE  TypeInv'
<1>1. [kind |-> k, doc |-> d] \in Messages
  BY ClientAssumption DEF Messages, Kinds, DocumentKinds, EditKinds, QueryKinds
<1>2. sent' \in Seq(Messages) /\ Len(sent') = Len(sent) + 1 /\ Len(sent) < MaxMessages
  BY <1>1 DEF Send, TypeInv, TypeOK
<1>3. TypeOK'
  BY <1>2, Bounds DEF Send, TypeInv, TypeOK, locals, store, gates
<1>4. \A h \in 1..Len(sent) : sent'[h] = sent[h]
  BY DEF Send, TypeInv, TypeOK
<1>5. sent'[Len(sent) + 1].kind = k /\ k # "initialized"
  BY ClientAssumption DEF Send, TypeInv, TypeOK, EditKinds, QueryKinds
<1>6. \A h \in 1..Len(sent') : Kind(h)' = "initialized" <=> h = 1
  BY <1>2, <1>4, <1>5, SMTT(30) DEF TypeInv, Stages, TypeOK, Kind
<1>7. \A h \in 1..admitted : Fits(pc[h], Kind(h))'
  <2> SUFFICES ASSUME NEW h \in 1..admitted PROVE Fits(pc[h], Kind(h))'
    OBVIOUS
  <2>1. Kind(h)' = Kind(h)
    BY <1>4 DEF Kind, TypeInv, TypeOK
  <2> QED BY <2>1 DEF Fits, Send, TypeInv, Stages
<1> QED BY <1>3, <1>6, <1>7 DEF Send, TypeInv, Stages

LEMMA AdmitTypes == TypeInv /\ Admit => TypeInv'
<1> SUFFICES ASSUME TypeInv, Admit PROVE TypeInv'
  OBVIOUS
<1>1. admitted + 1 \in Ids /\ admitted \in Nat /\ admitted + 1 \in 1..Len(sent)
  BY Bounds DEF Admit, TypeInv, TypeOK, Ids
<1>2. ready \in Seq(1..admitted')
  BY <1>1, SeqMonotonic DEF Admit, TypeInv, TypeOK
<1>3. ready' \in Seq(1..admitted')
  BY <1>1, <1>2 DEF Admit
<1>4. TypeOK'
  BY <1>1, <1>3 DEF Admit, TypeInv, TypeOK, Labels, locals, store, gates
<1>5. \A h \in 1..admitted' : Fits(pc[h], Kind(h))'
  <2> SUFFICES ASSUME NEW h \in 1..admitted' PROVE Fits(pc'[h], Kind(h)')
    BY DEF Fits
  <2>1. CASE h = admitted + 1
    BY <2>1, <1>1 DEF Fits, Admit, TypeInv, TypeOK
  <2>2. CASE h \in 1..admitted
    BY <2>2, <1>1 DEF Fits, Admit, TypeInv, TypeOK, Stages, Kind, Ids
  <2> QED BY <1>1, <2>1, <2>2 DEF Admit
<1>6. \A h \in Ids : h > admitted' => pc'[h] = "queued"
  BY <1>1 DEF Admit, TypeInv, TypeOK, Stages, Ids
<1>7. \A h \in 1..Len(sent') : Kind(h)' = "initialized" <=> h = 1
  BY DEF Admit, TypeInv, Stages, Kind
<1> QED BY <1>4, <1>5, <1>6, <1>7 DEF TypeInv, Stages

LEMMA PollTypes == TypeInv /\ Poll => TypeInv'
<1> SUFFICES ASSUME TypeInv, Poll PROVE TypeInv'
  OBVIOUS
<1>1. Head(ready) \in 1..admitted /\ Tail(ready) \in Seq(1..admitted)
  BY HeadTailProperties DEF Poll, TypeInv, TypeOK
<1>2. TypeOK'
  BY <1>1 DEF Poll, TypeInv, TypeOK, locals, store, gates
<1>3. Stages'
  BY DEF Poll, TypeInv, Stages, Fits, Kind
<1> QED BY <1>2, <1>3 DEF TypeInv

\* A handler that moves and stays in flight.
LEMMA MoveTypes ==
  ASSUME TypeInv, NEW h \in 1..admitted, NEW label \in Labels,
         StepTo(h, label) \/ ParkAt(h, label), Fits(label, Kind(h)),
         sent' = sent, admitted' = admitted
  PROVE  /\ pc' = [pc EXCEPT ![h] = label] /\ pc' \in [Ids -> Labels]
         /\ running' \in 0..admitted' /\ Stages'
<1>1. pc' = [pc EXCEPT ![h] = label] /\ running' \in {0, h}
  BY DEF StepTo, ParkAt
<1>2. Stages'
  BY <1>1, MoveStages
<1>3. admitted \in Nat
  BY Bounds DEF TypeInv, TypeOK
<1>4. running' \in 0..admitted'
  BY <1>1, <1>3
<1>5. pc' \in [Ids -> Labels]
  BY <1>1 DEF TypeInv, TypeOK
<1> QED BY <1>1, <1>2, <1>4, <1>5

LEMMA InitializedTypes ==
  ASSUME TypeInv, NEW h \in 1..admitted,
         RegisterCapability(h) \/ ForceBlockRoot(h) \/ AddRoots(h)
  PROVE  TypeInv'
<1>1. CASE RegisterCapability(h)
  <2>1. Fits("regcap", Kind(h)) /\ "regcap" \in Labels
    BY <1>1 DEF RegisterCapability, Fits, Labels
  <2>2. pc' \in [Ids -> Labels] /\ running' \in 0..admitted' /\ Stages'
    BY <1>1, <2>1, MoveTypes DEF RegisterCapability
  <2> QED BY <1>1, <2>2 DEF RegisterCapability, TypeInv, TypeOK, locals, store, gates
<1>2. CASE ForceBlockRoot(h)
  <2>1. Fits("roots", Kind(h)) /\ "roots" \in Labels
    BY <1>2 DEF ForceBlockRoot, Fits, Labels
  <2>2. pc' \in [Ids -> Labels] /\ running' \in 0..admitted' /\ Stages'
    BY <1>2, <2>1, MoveTypes DEF ForceBlockRoot
  <2> QED BY <1>2, <2>2 DEF ForceBlockRoot, TypeInv, TypeOK, locals, store, gates
<1>3. CASE AddRoots(h)
  <2>1. Leave(h, "done") /\ "done" \in Terminal /\ sent' = sent /\ admitted' = admitted
    BY <1>3 DEF AddRoots, Terminal
  <2>2. Stages'
    BY <2>1, LeaveStages
  <2>3. TypeOK'
    BY <1>3, <2>1, LeaveTypes, DocAssumption DEF AddRoots, TypeInv, TypeOK, locals
  <2> QED BY <2>2, <2>3 DEF TypeInv
<1> QED BY <1>1, <1>2, <1>3

LEMMA WaitTypes ==
  ASSUME TypeInv, NEW h \in 1..admitted,
         WaitForRoot(h) \/ RootWaitPolled(h) \/ WaitForDocument(h) \/ DocumentWaitPolled(h)
  PROVE  TypeInv'
<1>0. h \in Ids /\ (Kind(h) # "initialized" => Doc(h) \in Docs)
  BY DocTypes DEF TypeInv
<1>1. CASE WaitForRoot(h)
  <2>1. Fits("rootwait", Kind(h)) /\ Fits("gate", Kind(h)) /\ {"rootwait", "gate"} \subseteq Labels
    BY <1>1 DEF WaitForRoot, Fits, Labels
  <2>2. pc' \in [Ids -> Labels] /\ running' \in 0..admitted' /\ Stages'
    BY <1>1, <2>1, MoveTypes DEF WaitForRoot
  <2> QED BY <1>1, <2>2 DEF WaitForRoot, TypeInv, TypeOK, locals, store, gates
<1>2. CASE RootWaitPolled(h)
  <2>1. Fits("rootwait", Kind(h))
    BY <1>2 DEF RootWaitPolled, At, TypeInv, Stages
  <2>2. Fits("gate", Kind(h)) /\ {"rootwait", "gate"} \subseteq Labels
    BY <2>1 DEF Fits, Labels
  <2>3. pc' \in [Ids -> Labels] /\ running' \in 0..admitted' /\ Stages'
    BY <1>2, <2>1, <2>2, MoveTypes DEF RootWaitPolled
  <2> QED BY <1>2, <2>3 DEF RootWaitPolled, TypeInv, TypeOK, locals, store
<1>3. CASE WaitForDocument(h)
  <2>1. Fits("docwait", Kind(h)) /\ Fits("opened", Kind(h)) /\ {"docwait", "opened"} \subseteq Labels
    BY DEF Fits, Labels, Terminal
  <2>2. pc' \in [Ids -> Labels] /\ running' \in 0..admitted' /\ Stages'
    BY <1>3, <2>1, MoveTypes DEF WaitForDocument
  <2>3. Kind(h) # "initialized"
    BY <1>3 DEF WaitForDocument, At, AwaitsDocumentAt
  <2>4. arc' \in [Ids -> 0..MaxMessages]
    BY <1>0, <1>3, <2>3 DEF WaitForDocument, TypeInv, TypeOK
  <2> QED BY <1>3, <2>2, <2>4 DEF WaitForDocument, TypeInv, TypeOK, store, gates
<1>4. CASE DocumentWaitPolled(h)
  <2>1. Fits("docwait", Kind(h)) /\ Fits("opened", Kind(h)) /\ {"docwait", "opened"} \subseteq Labels
    BY DEF Fits, Labels, Terminal
  <2>2. pc' \in [Ids -> Labels] /\ running' \in 0..admitted' /\ Stages'
    BY <1>4, <2>1, MoveTypes DEF DocumentWaitPolled
  <2> QED BY <1>4, <2>2 DEF DocumentWaitPolled, TypeInv, TypeOK, locals, store
<1> QED BY <1>1, <1>2, <1>3, <1>4

LEMMA OpenTypes ==
  ASSUME TypeInv, NEW h \in 1..admitted,
         BlockRoot(h) \/ InsertDocument(h) \/ ChangeOnOpen(h) \/ AnalyseOnOpen(h)
  PROVE  TypeInv'
<1>0. h \in Ids /\ (Kind(h) # "initialized" => Doc(h) \in Docs)
  BY DocTypes DEF TypeInv
<1>1. WholeText(h) \in Texts /\ h \in 0..MaxMessages
  BY <1>0, TextTypes, Bounds DEF Ids
<1>2. CASE BlockRoot(h)
  <2>1. CASE \E how \in Terminal : Leave(h, how)
    BY <1>2, <2>1, LeaveTypes, LeaveStages, SMTT(30) DEF BlockRoot, TypeInv, TypeOK, locals, store
  <2>2. CASE root' = TRUE /\ (ParkAt(h, "wdp") \/ StepTo(h, "insert")) /\ UNCHANGED <<ready, setup, notified>>
    <3>1. Fits("wdp", Kind(h)) /\ Fits("insert", Kind(h)) /\ {"wdp", "insert"} \subseteq Labels
      BY <1>2 DEF BlockRoot, Fits, Labels
    <3>2. pc' \in [Ids -> Labels] /\ running' \in 0..admitted' /\ Stages'
      BY <1>2, <2>2, <3>1, MoveTypes DEF BlockRoot
    <3> QED BY <1>2, <2>2, <3>2 DEF BlockRoot, TypeInv, TypeOK, locals, store
  <2> QED BY <1>2, <2>1, <2>2 DEF BlockRoot, Terminal
<1>3. CASE InsertDocument(h)
  <2>1. Fits("addroot", Kind(h)) /\ "addroot" \in Labels
    BY <1>3 DEF InsertDocument, At, TypeInv, Stages, Fits, Labels
  <2>2. pc' \in [Ids -> Labels] /\ running' \in 0..admitted' /\ Stages'
    BY <1>3, <2>1, MoveTypes DEF InsertDocument, Await
  <2>3. docs' \in [Docs -> [inst: 0..MaxMessages, text: Texts]]
    BY <1>1, <1>3 DEF InsertDocument, TypeInv, TypeOK
  <2> QED BY <1>3, <2>2, <2>3 DEF InsertDocument, TypeInv, TypeOK, locals, gates
<1>4. CASE ChangeOnOpen(h)
  <2>1. Kind(h) = "open" /\ Doc(h) \in Docs
    BY <1>0, <1>4 DEF ChangeOnOpen, At, TypeInv, Stages, Fits
  <2>2. rooted' \in SUBSET Docs /\ docs[Doc(h)].inst \in 0..MaxMessages
    BY <1>4, <2>1 DEF ChangeOnOpen, TypeInv, TypeOK
  <2>3. docs' \in [Docs -> [inst: 0..MaxMessages, text: Texts]]
    <3>1. docs' = docs \/ docs' = [docs EXCEPT ![Doc(h)].text = WholeText(h)]
      BY <1>4 DEF ChangeOnOpen
    <3>2. CASE docs' = docs
      BY <3>2 DEF TypeInv, TypeOK
    <3>3. CASE docs' = [docs EXCEPT ![Doc(h)].text = WholeText(h)]
      BY <1>1, <2>1, <3>3, TextUpdateTypes DEF TypeInv
    <3> QED BY <3>1, <3>2, <3>3
  <2>4. CASE (\E how \in Terminal : Leave(h, how)) /\ UNCHANGED locals
    BY <1>4, <2>2, <2>3, <2>4, LeaveTypes, LeaveStages, SMTT(30) DEF ChangeOnOpen, TypeInv, TypeOK, locals
  <2>5. CASE /\ Present(Doc(h)) /\ setup' = setup \cup {docs[Doc(h)].inst}
             /\ arc' = [arc EXCEPT ![h] = docs[Doc(h)].inst]
             /\ rope' = [rope EXCEPT ![h] = WholeText(h)]
             /\ Await(h, "load") /\ UNCHANGED <<ready, root, notified>>
    <3>1. Fits("load", Kind(h)) /\ "load" \in Labels
      BY <2>1 DEF Fits, Labels
    <3>2. pc' \in [Ids -> Labels] /\ running' \in 0..admitted' /\ Stages'
      BY <1>4, <2>5, <3>1, MoveTypes DEF ChangeOnOpen, Await
    <3>3. setup' \in SUBSET Ids
      <4>1. docs[Doc(h)].inst \in Ids
        BY <2>2, <2>5, Bounds DEF Present, Ids
      <4> QED BY <2>5, <4>1 DEF TypeInv, TypeOK
    <3> QED BY <1>1, <1>4, <2>2, <2>3, <2>5, <3>2, <3>3 DEF ChangeOnOpen, TypeInv, TypeOK
  <2> QED BY <1>4, <2>4, <2>5 DEF ChangeOnOpen, Terminal
<1>5. CASE AnalyseOnOpen(h)
  <2>1. ast' \in [Docs -> Texts]
    BY <1>0, <1>5 DEF AnalyseOnOpen, TypeInv, TypeOK
  <2>2. PICK how \in Terminal : Leave(h, how)
    BY <1>5 DEF AnalyseOnOpen, Terminal
  <2> QED BY <1>5, <2>1, <2>2, LeaveTypes, LeaveStages, SMTT(30) DEF AnalyseOnOpen, TypeInv, TypeOK, locals
<1> QED BY <1>2, <1>3, <1>4, <1>5

LEMMA EditTypes ==
  ASSUME TypeInv, NEW h \in 1..admitted, ChangeFull(h) \/ ChangeDelta(h) \/ Close(h)
  PROVE  TypeInv'
<1>1. h \in Ids /\ Doc(h) \in Docs
  BY DocTypes DEF TypeInv, ChangeFull, ChangeDelta, Close
<1>2. PICK how \in Terminal : Leave(h, how)
  BY DEF ChangeFull, ChangeDelta, Close, Analyse, Terminal
<1>3. WholeText(h) \in Texts /\ NoText \in Texts /\ WithEdit(docs[Doc(h)].text, h) \in Texts
  BY <1>1, TextTypes DEF TypeInv, TypeOK
<1>4. docs' \in [Docs -> [inst: 0..MaxMessages, text: Texts]]
  <2>1. \/ docs' = docs
        \/ docs' = [docs EXCEPT ![Doc(h)].text = WholeText(h)]
        \/ docs' = [docs EXCEPT ![Doc(h)].text = WithEdit(docs[Doc(h)].text, h)]
        \/ docs' = [docs EXCEPT ![Doc(h)] = [inst |-> 0, text |-> NoText]]
    BY <1>1 DEF ChangeFull, ChangeDelta, Close, TypeInv, TypeOK
  <2>2. CASE docs' = docs
    BY <2>2 DEF TypeInv, TypeOK
  <2>3. CASE docs' = [docs EXCEPT ![Doc(h)].text = WholeText(h)]
    BY <1>1, <1>3, <2>3, TextUpdateTypes DEF TypeInv
  <2>4. CASE docs' = [docs EXCEPT ![Doc(h)].text = WithEdit(docs[Doc(h)].text, h)]
    BY <1>1, <1>3, <2>4, TextUpdateTypes DEF TypeInv
  <2>5. CASE docs' = [docs EXCEPT ![Doc(h)] = [inst |-> 0, text |-> NoText]]
    BY <1>1, <1>3, <2>5, Bounds DEF TypeInv, TypeOK
  <2> QED BY <2>1, <2>2, <2>3, <2>4, <2>5
<1>5. ast' \in [Docs -> Texts]
  <2>1. \/ ast' = ast
        \/ ast' = [ast EXCEPT ![Doc(h)] = docs'[Doc(h)].text]
        \/ ast' = [ast EXCEPT ![Doc(h)] = NoText]
    BY DEF ChangeFull, ChangeDelta, Close, Analyse
  <2>2. docs'[Doc(h)].text \in Texts
    BY <1>1, <1>4
  <2> QED BY <1>3, <2>1, <2>2 DEF TypeInv, TypeOK
<1>6. UNCHANGED <<sent, admitted, rooted, locals, timeouts>>
  BY DEF ChangeFull, ChangeDelta, Close
<1>7. Stages'
  BY <1>2, <1>6, LeaveStages
<1>8. TypeOK'
  BY <1>2, <1>4, <1>5, <1>6, LeaveTypes DEF TypeInv, TypeOK, locals
<1> QED BY <1>7, <1>8 DEF TypeInv

LEMMA RequestTypes ==
  ASSUME TypeInv, NEW h \in 1..admitted, LoadDependents(h) \/ Answer(h)
  PROVE  TypeInv'
<1>1. CASE LoadDependents(h)
  <2>1. Fits("load", Kind(h)) /\ "load" \in Labels
    BY <1>1 DEF LoadDependents, Fits, Labels
  <2>2. pc' \in [Ids -> Labels] /\ running' \in 0..admitted' /\ Stages'
    BY <1>1, <2>1, MoveTypes DEF LoadDependents, Await
  <2> QED BY <1>1, <2>2 DEF LoadDependents, TypeInv, TypeOK, locals, store, gates
<1>2. CASE Answer(h)
  <2>1. PICK how \in Terminal : Leave(h, how)
    BY <1>2 DEF Answer, Terminal
  <2>2. Kind(h) # "initialized" /\ h \in Ids
    BY <1>2, DocTypes DEF Answer, At, AnswersAt, TypeInv
  <2>3. Doc(h) \in Docs
    BY <2>2, DocTypes DEF TypeInv
  <2>4. rope' \in [Ids -> Texts]
    BY <1>2, <2>2, <2>3 DEF Answer, TypeInv, TypeOK
  <2>5. UNCHANGED <<sent, admitted, arc, store, timeouts>>
    BY <1>2 DEF Answer
  <2>6. Stages'
    BY <2>1, <2>5, LeaveStages
  <2>7. TypeOK'
    BY <2>1, <2>4, <2>5, LeaveTypes DEF TypeInv, TypeOK, store
  <2> QED BY <2>6, <2>7 DEF TypeInv
<1> QED BY <1>1, <1>2

LEMMA EnvironmentTypes ==
  ASSUME TypeInv, NEW h \in 1..admitted, Environment(h)
  PROVE  TypeInv'
<1>1. CASE Wake(h)
  <2>1. ready' \in Seq(1..admitted)
    BY <1>1 DEF Wake, TypeInv, TypeOK
  <2>2. TypeOK'
    BY <1>1, <2>1 DEF Wake, TypeInv, TypeOK, locals, store, gates
  <2>3. Stages'
    BY <1>1 DEF Wake, TypeInv, Stages, Fits, Kind
  <2> QED BY <2>2, <2>3 DEF TypeInv
<1>2. CASE Drop(h) /\ timeouts' \in 0..MaxTimeouts
  <2>1. Leave(h, "dropped") /\ "dropped" \in Terminal /\ UNCHANGED <<sent, admitted, locals, store>>
    BY <1>2 DEF Drop, Terminal
  <2>2. Stages'
    BY <2>1, LeaveStages
  <2>3. TypeOK'
    BY <1>2, <2>1, LeaveTypes DEF TypeInv, TypeOK, locals, store
  <2> QED BY <2>2, <2>3 DEF TypeInv
<1>3. timeouts \in 0..MaxTimeouts /\ MaxTimeouts \in Nat
  BY Bounds DEF TypeInv, TypeOK
<1> QED
  BY <1>1, <1>2, <1>3 DEF Environment, ClientReplies, WorkCompletes, WaitLimitElapses, Timeout, Cancel

LEMMA TypeStep == TypeInv /\ [Next]_vars => TypeInv'
<1> SUFFICES ASSUME TypeInv, [Next]_vars PROVE TypeInv'
  OBVIOUS
<1>1. CASE ClientSends
  BY <1>1, SendTypes DEF ClientSends
<1>2. CASE Admit
  BY <1>2, AdmitTypes
<1>3. CASE Poll
  BY <1>3, PollTypes
<1>4. ASSUME NEW h \in 1..admitted, Handler(h) PROVE TypeInv'
  BY <1>4, InitializedTypes, WaitTypes, OpenTypes, EditTypes, RequestTypes DEF Handler
<1>5. ASSUME NEW h \in 1..admitted, Environment(h) PROVE TypeInv'
  BY <1>5, EnvironmentTypes
<1>6. CASE UNCHANGED vars
  BY <1>6 DEF vars, TypeInv, TypeOK, Stages, Fits, Kind
<1> QED BY <1>1, <1>2, <1>3, <1>4, <1>5, <1>6 DEF Next

\* The state of the handlers, the semaphores and the store has its types in
\* every execution, whatever the client sends and the executor does.
THEOREM TypeCorrect == Spec => []TypeOK
<1>1. Spec => []TypeInv
  BY TypeInit, TypeStep, PTL DEF Spec
<1>2. TypeInv => TypeOK
  BY DEF TypeInv
<1> QED BY <1>1, <1>2, PTL

-----------------------------------------------------------------------------
(* The blockers are exclusive, for any number of slots.                    *)

LEMMA HoldsUnchanged ==
  ASSUME sent' = sent, NEW g, pc'[g] = pc[g]
  PROVE  (HoldsRoot(g)' <=> HoldsRoot(g)) /\ (HoldsSetup(g)' <=> HoldsSetup(g)) /\ Kind(g)' = Kind(g)
BY DEF HoldsRoot, HoldsSetup, Kind

\* A handler that moves without taking or dropping a blocker.
LEMMA MoveBlockers ==
  ASSUME TypeInv, TypeInv', BlockerInv, NEW h \in 1..admitted, running = h,
         NEW label \in Labels \ Terminal, pc' = [pc EXCEPT ![h] = label],
         running' \in {0, h}, ready' = ready, sent' = sent, admitted' = admitted,
         root' = root, setup' = setup,
         \/ notified' = notified \ {h}
         \/ notified' = notified /\ pc[h] \notin {"rootwait", "docwait"},
         arc' = arc \/ (~HoldsSetup(h) /\ \A g \in Ids : g # h => arc'[g] = arc[g]),
         HoldsRoot(h)' <=> HoldsRoot(h), HoldsSetup(h)' <=> HoldsSetup(h),
         label \in {"queued", "entry", "regcap"} => pc[h] \in {"queued", "entry", "regcap"}
  PROVE  BlockerInv'
<1>1. h \in Ids /\ h \in Nat /\ 1 \in Ids /\ 1..admitted \subseteq Ids
  BY Bounds, DocTypes DEF TypeInv, TypeOK, Ids
<1>2. \A g \in Ids : pc'[g] = IF g = h THEN label ELSE pc[g]
  BY DEF TypeInv, TypeOK
<1>3. InFlight' = InFlight /\ h \in InFlight /\ InFlight \subseteq Ids
  BY <1>1, <1>2 DEF InFlight, BlockerInv, Queueing
<1>4. \A g \in InFlight : (HoldsRoot(g)' <=> HoldsRoot(g)) /\ (HoldsSetup(g)' <=> HoldsSetup(g))
  BY <1>2, <1>3, HoldsUnchanged
<1>5. Queueing'
  BY <1>1, <1>2, <1>3, SMTT(30) DEF BlockerInv, Queueing, TypeInv, TypeOK
<1>6. RootExclusive'
  BY <1>3, <1>4 DEF BlockerInv, RootExclusive
<1>7. RootFromStart'
  BY <1>1, <1>2, <1>3, <1>4 DEF BlockerInv, RootFromStart
<1>8. SetupHeld'
  BY <1>3, <1>4 DEF BlockerInv, SetupHeld
<1> QED BY <1>5, <1>6, <1>7, <1>8 DEF BlockerInv, TypeInv

\* The end of a handler, by itself or dropped while it is suspended.
LEMMA LeaveBlockers ==
  ASSUME TypeInv, TypeInv', BlockerInv, NEW h \in InFlight, h \notin Queued, running \in {0, h},
         NEW how \in Terminal, Leave(h, how), sent' = sent, admitted' = admitted, arc' = arc
  PROVE  BlockerInv'
<1>1. h \in Ids /\ h \in Nat /\ 1 \in Ids /\ 1..admitted \subseteq Ids /\ h \in 1..admitted
  BY Bounds, DocTypes, SMTT(30) DEF TypeInv, TypeOK, Ids, InFlight
<1>2. running' = 0 /\ \A g \in Ids : pc'[g] = IF g = h THEN how ELSE pc[g]
  BY DEF Leave, TypeInv, TypeOK
<1>3. InFlight' = InFlight \ {h} /\ InFlight \subseteq Ids
  BY <1>1, <1>2 DEF InFlight
<1>4. \A g \in InFlight' : (HoldsRoot(g)' <=> HoldsRoot(g)) /\ (HoldsSetup(g)' <=> HoldsSetup(g))
  BY <1>2, <1>3, HoldsUnchanged
<1>5. Queueing'
  <2>1. PICK order \in Orders(Woken(h) \ Queued) : ready' = ready \o order
    BY DEF Leave
  <2>2. Woken(h) \ Queued \subseteq InFlight \ {h} /\ IsFiniteSet(Woken(h) \ Queued)
    BY InFlightFinite DEF Woken, TypeInv
  <2>3. /\ order \in Seq(Woken(h) \ Queued)
        /\ \A i, j \in 1..Len(order) : order[i] = order[j] => i = j
    BY <2>2, OrdersAreSequences
  <2>4. /\ \A i \in 1..Len(order) : order[i] \in InFlight \ {h} /\ order[i] \notin Queued
        /\ Len(order) \in Nat
    BY <2>2, <2>3, ElementOfSeq, LenProperties
  <2>5. order \in Seq(1..admitted) /\ ready \in Seq(1..admitted) /\ Len(ready) \in Nat
    BY <2>2, <2>3, SeqMonotonic, LenProperties DEF InFlight, TypeInv, TypeOK
  <2>6. /\ Len(ready') = Len(ready) + Len(order)
        /\ DOMAIN ready' = 1..Len(ready')
        /\ \A i \in 1..Len(ready') :
             ready'[i] = IF i <= Len(ready) THEN ready[i] ELSE order[i - Len(ready)]
    BY <2>1, <2>5, ConcatProperties, LenProperties
  <2>7. /\ \A i \in 1..Len(ready) : ready[i] \in InFlight \ {h} /\ ready[i] \in Queued
        /\ \A i, j \in 1..Len(ready) : ready[i] = ready[j] => i = j
    BY <2>5, LenProperties DEF BlockerInv, Queueing, Queued
  <2>8. \A i \in DOMAIN ready' : ready'[i] \in InFlight \ {h}
    BY <2>4, <2>5, <2>6, <2>7
  <2>9. \A i, j \in DOMAIN ready' : ready'[i] = ready'[j] => i = j
    <3> SUFFICES ASSUME NEW i \in DOMAIN ready', NEW j \in DOMAIN ready', ready'[i] = ready'[j]
                 PROVE  i = j
      OBVIOUS
    <3>1. i \in 1..Len(ready') /\ j \in 1..Len(ready')
      BY <2>6
    <3>2. CASE i <= Len(ready) /\ j <= Len(ready)
      BY <3>1, <3>2, <2>5, <2>6, <2>7
    <3>3. CASE ~(i <= Len(ready)) /\ ~(j <= Len(ready))
      <4>1. i - Len(ready) \in 1..Len(order) /\ j - Len(ready) \in 1..Len(order)
        BY <3>1, <3>3, <2>4, <2>5, <2>6
      <4>2. i - Len(ready) = j - Len(ready)
        BY <3>1, <3>3, <4>1, <2>3, <2>6
      <4> QED BY <4>2, <3>1, <2>5, <2>4, <2>6
    <3>4. CASE (i <= Len(ready)) # (j <= Len(ready))
      BY <3>1, <3>4, <2>4, <2>5, <2>6, <2>7
    <3> QED BY <3>2, <3>3, <3>4
  <2>10. \A g \in notified' : pc'[g] \in {"rootwait", "docwait"}
    <3>1. \A g \in Woken(h) : pc[g] \in {"rootwait", "docwait"} /\ g \in Ids
      BY <1>3 DEF Woken
    <3>2. \A g \in notified : pc[g] \in {"rootwait", "docwait"} /\ g \in Ids
      BY DEF BlockerInv, Queueing, TypeInv, TypeOK
    <3> QED BY <1>2, <3>1, <3>2 DEF Leave
  <2>11. \A i \in DOMAIN ready' : ready'[i] \in InFlight' /\ ready'[i] # running'
    BY <1>2, <1>3, <2>8, Bounds DEF Ids
  <2> QED BY <1>2, <2>9, <2>10, <2>11 DEF Queueing
<1>6. root' <=> root /\ ~HoldsRoot(h)
  BY DEF Leave, TypeInv, TypeOK
<1>7. RootExclusive'
  BY <1>3, <1>4, <1>6 DEF BlockerInv, RootExclusive
<1>8. RootFromStart'
  BY <1>1, <1>2, <1>3, <1>4, <1>6 DEF BlockerInv, RootFromStart, Terminal
<1>9. SetupHeld'
  <2>1. setup' = IF HoldsSetup(h) THEN setup \ {arc[h]} ELSE setup
    BY DEF Leave
  <2> QED BY <1>3, <1>4, <2>1 DEF BlockerInv, SetupHeld
<1> QED BY <1>5, <1>7, <1>8, <1>9 DEF BlockerInv, TypeInv

LEMMA BlockerInit == Init => BlockerInv
<1> SUFFICES ASSUME Init PROVE BlockerInv
  OBVIOUS
<1>1. InFlight = {} /\ Stages
  BY TypeInit DEF Init, InFlight, TypeInv
<1> QED BY <1>1 DEF Init, BlockerInv, Queueing, RootExclusive, RootFromStart, SetupHeld

LEMMA SendBlockers ==
  ASSUME TypeInv, TypeInv', BlockerInv,
         NEW k \in {"open", "close"} \cup EditKinds \cup Queries, NEW d \in Docs, Send(k, d)
  PROVE  BlockerInv'
<1>1. UNCHANGED <<admitted, pc, running, ready, root, setup, notified, arc>>
  BY DEF Send, locals, gates
<1>2. InFlight' = InFlight
  BY <1>1 DEF InFlight
<1>3. \A g \in InFlight : (HoldsRoot(g)' <=> HoldsRoot(g)) /\ (HoldsSetup(g)' <=> HoldsSetup(g))
  <2> SUFFICES ASSUME NEW g \in InFlight
               PROVE  (HoldsRoot(g)' <=> HoldsRoot(g)) /\ (HoldsSetup(g)' <=> HoldsSetup(g))
    OBVIOUS
  <2>1. g \in 1..Len(sent)
    BY DocTypes DEF InFlight, TypeInv
  <2>2. sent'[g] = sent[g]
    BY <2>1 DEF Send, TypeInv, TypeOK
  <2> QED BY <1>1, <2>2 DEF HoldsRoot, HoldsSetup, Kind
<1>4. Queueing'
  BY <1>1, <1>2 DEF BlockerInv, Queueing
<1>5. RootExclusive' /\ RootFromStart' /\ SetupHeld'
  BY <1>1, <1>2, <1>3 DEF BlockerInv, RootExclusive, RootFromStart, SetupHeld
<1> QED BY <1>4, <1>5 DEF BlockerInv, TypeInv

LEMMA AdmitBlockers ==
  ASSUME TypeInv, TypeInv', BlockerInv, Admit
  PROVE  BlockerInv'
<1>0. PICK new \in Ids : new = admitted + 1
  BY Bounds DEF Admit, TypeInv, TypeOK, Ids
<1>1. admitted \in Nat /\ 1..admitted \subseteq Ids /\ new = admitted + 1 /\ new # 0
  BY <1>0, Bounds, SMTT(30) DEF Admit, TypeInv, TypeOK, Ids
<1>2. \A g \in Ids : pc'[g] = IF g = new THEN "entry" ELSE pc[g]
  BY <1>1 DEF Admit, TypeInv, TypeOK
<1>3. InFlight' = InFlight \cup {new} /\ new \notin InFlight
  BY <1>1, <1>2 DEF InFlight, Admit, Terminal
<1>4. \A g \in InFlight : (HoldsRoot(g)' <=> HoldsRoot(g)) /\ (HoldsSetup(g)' <=> HoldsSetup(g))
  BY <1>1, <1>2, HoldsUnchanged DEF Admit, InFlight
<1>5. ~HoldsRoot(new)' /\ ~HoldsSetup(new)'
  BY <1>1, <1>2 DEF HoldsRoot, HoldsSetup
<1>6. Queueing'
  <2>1. \A i \in 1..Len(ready) : ready[i] \in InFlight
    BY SMTT(30) DEF BlockerInv, Queueing, TypeInv, TypeOK
  <2>2. Len(ready') = Len(ready) + 1 /\ DOMAIN ready' = 1..(Len(ready) + 1) /\ Len(ready) \in Nat
    BY DEF Admit, TypeInv, TypeOK
  <2>3. \A i \in 1..(Len(ready) + 1) : ready'[i] = IF i <= Len(ready) THEN ready[i] ELSE new
    <3>1. ready' = Append(ready, new)
      BY <1>1 DEF Admit
    <3> QED BY <2>2, <3>1, SMTT(30) DEF TypeInv, TypeOK
  <2>4. \A i \in DOMAIN ready' : ready'[i] \in InFlight' /\ ready'[i] # running'
    BY <1>1, <1>3, <2>1, <2>2, <2>3, Bounds DEF Admit, InFlight, Ids
  <2>5. \A i, j \in 1..Len(ready) : ready[i] = ready[j] => i = j
    <3>1. DOMAIN ready = 1..Len(ready)
      BY DEF TypeInv, TypeOK
    <3> QED BY <3>1 DEF BlockerInv, Queueing
  <2>6. \A i, j \in DOMAIN ready' : ready'[i] = ready'[j] => i = j
    BY <1>3, <2>1, <2>2, <2>3, <2>5
  <2>7. \A g \in notified' : pc'[g] \in {"rootwait", "docwait"}
    <3>1. pc[new] = "queued"
      BY <1>1 DEF TypeInv, Stages
    <3> QED BY <1>2, <3>1 DEF BlockerInv, Queueing, Admit, gates, TypeInv, TypeOK
  <2> QED BY <2>4, <2>6, <2>7 DEF Queueing, Admit
<1>7. RootExclusive'
  BY <1>3, <1>4, <1>5 DEF BlockerInv, RootExclusive, Admit, gates
<1>8. RootFromStart'
  <2>1. 1 \in Ids /\ (pc'[1] \in {"queued", "entry", "regcap"} => pc[1] \in {"queued", "entry", "regcap"})
    BY <1>1, <1>2, Bounds DEF TypeInv, Stages, Ids
  <2> QED BY <2>1, <1>3, <1>4, <1>5 DEF BlockerInv, RootFromStart, Admit, gates
<1>9. SetupHeld'
  BY <1>3, <1>4 DEF BlockerInv, SetupHeld, Admit, gates, locals
<1> QED BY <1>6, <1>7, <1>8, <1>9 DEF BlockerInv, TypeInv

LEMMA PollBlockers ==
  ASSUME TypeInv, TypeInv', BlockerInv, Poll
  PROVE  BlockerInv'
<1>1. UNCHANGED <<sent, admitted, pc, root, setup, notified, arc>>
  BY DEF Poll, locals, gates
<1>2. InFlight' = InFlight
  BY <1>1 DEF InFlight
<1>3. Queueing'
  <2>1. Len(ready) \in Nat \ {0} /\ DOMAIN ready = 1..Len(ready)
    BY EmptySeq, LenProperties DEF Poll, TypeInv, TypeOK
  <2>2. running' = ready[1]
    BY DEF Poll
  <2>3. /\ DOMAIN ready' = 1..(Len(ready) - 1)
        /\ \A i \in DOMAIN ready' : ready'[i] = ready[i + 1] /\ i + 1 \in DOMAIN ready /\ i + 1 # 1
    BY <2>1, HeadTailProperties, LenProperties, SMTT(30) DEF Poll, TypeInv, TypeOK
  <2> QED BY <1>1, <1>2, <2>1, <2>2, <2>3 DEF BlockerInv, Queueing
<1>4. RootExclusive' /\ RootFromStart' /\ SetupHeld'
  BY <1>1, <1>2 DEF BlockerInv, RootExclusive, RootFromStart, SetupHeld, HoldsRoot, HoldsSetup, Kind
<1> QED BY <1>3, <1>4 DEF BlockerInv, TypeInv

LEMMA InitializedBlockers ==
  ASSUME TypeInv, TypeInv', BlockerInv, NEW h \in 1..admitted,
         RegisterCapability(h) \/ ForceBlockRoot(h) \/ AddRoots(h)
  PROVE  BlockerInv'
<1>0. running = h /\ h \in InFlight /\ h \in Ids /\ h \notin Queued
  <2>1. running = h /\ h # 0
    BY Bounds, DocTypes DEF RegisterCapability, ForceBlockRoot, AddRoots, At, TypeInv, Ids
  <2> QED BY <2>1, DocTypes DEF BlockerInv, Queueing, Queued, TypeInv
<1>1. CASE RegisterCapability(h)
  <2>1. "regcap" \in Labels \ Terminal /\ pc[h] = "entry" /\ Kind(h) = "initialized"
    BY <1>1 DEF RegisterCapability, At, Labels, Terminal
  <2>2. /\ pc' = [pc EXCEPT ![h] = "regcap"] /\ running' = 0
        /\ UNCHANGED <<sent, admitted, ready, arc, root, setup, notified>>
    BY <1>1 DEF RegisterCapability, ParkAt, locals, gates
  <2>3. (HoldsRoot(h)' <=> HoldsRoot(h)) /\ (HoldsSetup(h)' <=> HoldsSetup(h))
    BY <1>0, <2>1, <2>2 DEF HoldsRoot, HoldsSetup, Kind, TypeInv, TypeOK
  <2> QED BY <1>0, <2>1, <2>2, <2>3, MoveBlockers
<1>2. CASE ForceBlockRoot(h)
  <2>1. pc[h] \in {"entry", "regcap"} /\ Kind(h) = "initialized" /\ h = 1
    BY <1>2, DocTypes DEF ForceBlockRoot, At, TypeInv, Stages
  <2>2. /\ pc' = [pc EXCEPT ![h] = "roots"] /\ running' = h
        /\ UNCHANGED <<sent, admitted, ready, arc, root, setup, notified>>
    BY <1>2 DEF ForceBlockRoot, StepTo, locals, gates
  <2>3. \A g \in Ids : pc'[g] = IF g = h THEN "roots" ELSE pc[g]
    BY <2>2 DEF TypeInv, TypeOK
  <2>4. InFlight' = InFlight /\ InFlight \subseteq Ids
    BY <1>0, <2>2, <2>3, DocTypes DEF InFlight, Terminal, TypeInv
  <2>5. root /\ \A g \in InFlight : ~HoldsRoot(g)
    BY <2>1 DEF BlockerInv, RootFromStart
  <2>6. \A g \in InFlight : g # h => (HoldsRoot(g)' <=> HoldsRoot(g)) /\ (HoldsSetup(g)' <=> HoldsSetup(g))
    BY <2>2, <2>3, <2>4, HoldsUnchanged
  <2>7. Queueing'
    BY <1>0, <2>1, <2>2, <2>3, <2>4 DEF BlockerInv, Queueing, TypeInv, TypeOK
  <2>8. RootExclusive'
    BY <2>2, <2>4, <2>5, <2>6 DEF RootExclusive
  <2>9. RootFromStart'
    BY <1>0, <2>1, <2>3 DEF RootFromStart
  <2>10. SetupHeld'
    <3>1. ~HoldsSetup(h)
      BY <2>1 DEF HoldsSetup
    <3> QED BY <2>2, <2>4, <2>6, <3>1 DEF BlockerInv, SetupHeld
  <2> QED BY <2>7, <2>8, <2>9, <2>10 DEF BlockerInv, TypeInv
<1>3. CASE AddRoots(h)
  <2>1. Leave(h, "done") /\ "done" \in Terminal /\ UNCHANGED <<sent, admitted, arc>>
    BY <1>3 DEF AddRoots, Terminal, locals
  <2> QED BY <1>0, <2>1, LeaveBlockers
<1> QED BY <1>1, <1>2, <1>3

LEMMA WaitBlockers ==
  ASSUME TypeInv, TypeInv', BlockerInv, NEW h \in 1..admitted,
         WaitForRoot(h) \/ RootWaitPolled(h) \/ WaitForDocument(h) \/ DocumentWaitPolled(h)
  PROVE  BlockerInv'
<1>1. running = h /\ h \in Ids
  BY DocTypes DEF WaitForRoot, RootWaitPolled, WaitForDocument, DocumentWaitPolled, At, TypeInv
<1>2. PICK label \in {"rootwait", "gate", "docwait", "opened"} : StepTo(h, label) \/ ParkAt(h, label)
  BY DEF WaitForRoot, RootWaitPolled, WaitForDocument, DocumentWaitPolled
<1>3. pc' = [pc EXCEPT ![h] = label] /\ running' \in {0, h} /\ label \in Labels \ Terminal
  BY <1>2 DEF StepTo, ParkAt, Labels, Terminal
<1>4. UNCHANGED <<sent, admitted, ready, root, setup>>
  BY DEF WaitForRoot, RootWaitPolled, WaitForDocument, DocumentWaitPolled, locals, gates
<1>5. ~HoldsRoot(h) /\ ~HoldsSetup(h)
  <2>1. pc[h] \in {"entry", "rootwait", "docwait", "gate"} \/ (pc[h] = "load" /\ Kind(h) = "references")
    BY DEF WaitForRoot, RootWaitPolled, WaitForDocument, DocumentWaitPolled, At, AwaitsDocumentAt
  <2> QED BY <2>1 DEF HoldsRoot, HoldsSetup
<1>6. ~HoldsRoot(h)' /\ ~HoldsSetup(h)'
  BY <1>1, <1>3 DEF HoldsRoot, HoldsSetup, TypeInv, TypeOK
<1>7. arc' = arc \/ \A g \in Ids : g # h => arc'[g] = arc[g]
  BY DEF WaitForRoot, RootWaitPolled, WaitForDocument, DocumentWaitPolled, locals, TypeInv, TypeOK
<1>8. \/ notified' = notified \ {h}
      \/ notified' = notified /\ pc[h] \notin {"rootwait", "docwait"}
  BY DEF WaitForRoot, RootWaitPolled, WaitForDocument, DocumentWaitPolled, At, AwaitsDocumentAt, gates
<1> QED BY <1>1, <1>3, <1>4, <1>5, <1>6, <1>7, <1>8, MoveBlockers

LEMMA NoHolderNoSetup ==
  ASSUME BlockerInv, ~root
  PROVE  (\A g \in InFlight : ~HoldsRoot(g) /\ ~HoldsSetup(g)) /\ setup = {}
<1>1. \A g \in InFlight : HoldsSetup(g) => HoldsRoot(g)
  BY DEF HoldsSetup, HoldsRoot
<1> QED BY <1>1 DEF BlockerInv, RootExclusive, SetupHeld

LEMMA OpenBlockers ==
  ASSUME TypeInv, TypeInv', BlockerInv, NEW h \in 1..admitted,
         BlockRoot(h) \/ InsertDocument(h) \/ ChangeOnOpen(h) \/ AnalyseOnOpen(h)
  PROVE  BlockerInv'
<1>1. running = h /\ h \in Ids
  BY DocTypes DEF BlockRoot, InsertDocument, ChangeOnOpen, AnalyseOnOpen, At, TypeInv
<1>0. h # 0 /\ 1 \in Ids /\ 0 \notin InFlight
  BY <1>1, Bounds DEF Ids, InFlight, TypeInv, TypeOK
<1>2. h \in InFlight /\ h \notin Queued /\ 1 \in Ids
  BY <1>0, <1>1 DEF BlockerInv, Queueing, Queued
<1>3. UNCHANGED <<sent, admitted>>
  BY DEF BlockRoot, InsertDocument, ChangeOnOpen, AnalyseOnOpen
<1>4. CASE (\E how \in Terminal : Leave(h, how)) /\ arc' = arc
  BY <1>1, <1>2, <1>3, <1>4, LeaveBlockers
<1>5. CASE BlockRoot(h) /\ root' = TRUE
  <2>1. CASE ~root /\ (ParkAt(h, "wdp") \/ StepTo(h, "insert")) /\ UNCHANGED <<ready, setup, notified>>
    <3>1. PICK label \in {"wdp", "insert"} : pc' = [pc EXCEPT ![h] = label] /\ running' \in {0, h}
      BY <2>1 DEF ParkAt, StepTo
    <3>2. \A g \in Ids : pc'[g] = IF g = h THEN label ELSE pc[g]
      BY <3>1 DEF TypeInv, TypeOK
    <3>3. InFlight' = InFlight /\ InFlight \subseteq Ids
      BY <1>2, <1>3, <3>2, DocTypes DEF InFlight, Terminal, TypeInv
    <3>4. (\A g \in InFlight : ~HoldsRoot(g) /\ ~HoldsSetup(g)) /\ setup = {}
      BY <2>1, NoHolderNoSetup
    <3>5. \A g \in InFlight : g # h => (HoldsRoot(g)' <=> HoldsRoot(g))
      BY <1>3, <3>2, <3>3, HoldsUnchanged
    <3>6. UNCHANGED <<ready, setup, notified>> /\ pc[h] = "gate"
      BY <1>5, <2>1 DEF BlockRoot, At
    <3>7. Queueing'
      BY <1>0, <1>1, <1>2, <3>1, <3>2, <3>3, <3>6 DEF BlockerInv, Queueing, TypeInv, TypeOK
    <3>8. RootExclusive'
      BY <1>5, <3>3, <3>4, <3>5 DEF RootExclusive
    <3>9. RootFromStart'
      BY <1>2, <2>1, <3>2 DEF BlockerInv, RootFromStart
    <3>10. SetupHeld'
      BY <3>4, <3>6 DEF SetupHeld
    <3> QED BY <3>7, <3>8, <3>9, <3>10 DEF BlockerInv, TypeInv
  <2>2. CASE (\E how \in Terminal : Leave(h, how)) /\ arc' = arc
    BY <2>2, <1>4
  <2> QED BY <1>5, <2>1, <2>2 DEF BlockRoot, Terminal, locals
<1>6. CASE BlockRoot(h) /\ root' # TRUE
  BY <1>4, <1>6 DEF BlockRoot, Terminal, locals
<1>7. CASE InsertDocument(h)
  <2>1. pc' = [pc EXCEPT ![h] = "addroot"] /\ running' \in {0, h} /\ "addroot" \in Labels \ Terminal
    BY <1>7 DEF InsertDocument, Await, StepTo, ParkAt, Labels, Terminal
  <2>2. UNCHANGED <<ready, arc, root, setup, notified>> /\ pc[h] \in {"wdp", "insert"} /\ Kind(h) = "open"
    BY <1>7 DEF InsertDocument, At, locals, gates, TypeInv, Stages, Fits
  <2>3. (HoldsRoot(h)' <=> HoldsRoot(h)) /\ (HoldsSetup(h)' <=> HoldsSetup(h))
    BY <1>1, <1>3, <2>1, <2>2 DEF HoldsRoot, HoldsSetup, Kind, TypeInv, TypeOK
  <2> QED BY <1>1, <1>3, <2>1, <2>2, <2>3, MoveBlockers
<1>8. CASE ChangeOnOpen(h)
  <2>0. PICK inst : inst = docs[Doc(h)].inst
    OBVIOUS
  <2>1. CASE /\ setup' = setup \cup {inst} /\ arc' = [arc EXCEPT ![h] = inst]
             /\ Await(h, "load") /\ UNCHANGED <<ready, root, notified>>
    <3>1. pc' = [pc EXCEPT ![h] = "load"] /\ running' \in {0, h} /\ pc[h] = "addroot" /\ Kind(h) = "open"
      BY <1>8, <2>1 DEF ChangeOnOpen, At, Await, StepTo, ParkAt, TypeInv, Stages, Fits
    <3>2. \A g \in Ids : /\ pc'[g] = (IF g = h THEN "load" ELSE pc[g])
                         /\ arc'[g] = (IF g = h THEN inst ELSE arc[g])
      BY <2>1, <3>1 DEF TypeInv, TypeOK
    <3>3. InFlight' = InFlight /\ InFlight \subseteq Ids
      BY <1>2, <1>3, <3>2, DocTypes DEF InFlight, Terminal, TypeInv
    <3>4. HoldsRoot(h) /\ ~HoldsSetup(h)
      BY <3>1 DEF HoldsRoot, HoldsSetup
    <3>5. HoldsRoot(h)' /\ HoldsSetup(h)'
      BY <1>1, <1>3, <3>1, <3>2 DEF HoldsRoot, HoldsSetup, Kind
    <3>6. \A g \in InFlight : g # h => (HoldsRoot(g)' <=> HoldsRoot(g)) /\ (HoldsSetup(g)' <=> HoldsSetup(g))
      BY <1>3, <3>2, <3>3, HoldsUnchanged
    <3>7. Queueing'
      BY <1>0, <1>1, <1>2, <2>1, <3>1, <3>2, <3>3 DEF BlockerInv, Queueing, TypeInv, TypeOK
    <3>8. RootExclusive'
      BY <2>1, <3>3, <3>4, <3>5, <3>6 DEF BlockerInv, RootExclusive
    <3>9. RootFromStart'
      BY <1>2, <3>1, <3>2, <3>4 DEF BlockerInv, RootFromStart
    <3>10. SetupHeld'
      BY <1>2, <2>1, <3>2, <3>3, <3>4, <3>5, <3>6 DEF BlockerInv, SetupHeld
    <3> QED BY <3>7, <3>8, <3>9, <3>10 DEF BlockerInv, TypeInv
  <2>2. CASE (\E how \in Terminal : Leave(h, how)) /\ arc' = arc
    BY <2>2, <1>4
  <2> QED BY <1>8, <2>0, <2>1, <2>2 DEF ChangeOnOpen, Terminal, locals
<1>9. CASE AnalyseOnOpen(h)
  BY <1>4, <1>9 DEF AnalyseOnOpen, Terminal, locals
<1> QED BY <1>5, <1>6, <1>7, <1>8, <1>9

LEMMA EditBlockers ==
  ASSUME TypeInv, TypeInv', BlockerInv, NEW h \in 1..admitted,
         ChangeFull(h) \/ ChangeDelta(h) \/ Close(h) \/ Answer(h)
  PROVE  BlockerInv'
<1>0. h # 0
  BY Bounds DEF TypeInv, TypeOK
<1>1. running = h /\ h # 0
  BY <1>0 DEF ChangeFull, ChangeDelta, Close, Answer, At
<1>2. h \in InFlight /\ h \notin Queued
  BY <1>1 DEF BlockerInv, Queueing, Queued
<1>3. PICK how \in Terminal : Leave(h, how)
  BY DEF ChangeFull, ChangeDelta, Close, Answer, Analyse, Terminal
<1>4. UNCHANGED <<sent, admitted, arc>>
  BY DEF ChangeFull, ChangeDelta, Close, Answer, locals
<1> QED BY <1>1, <1>2, <1>3, <1>4, LeaveBlockers

LEMMA LoadBlockers ==
  ASSUME TypeInv, TypeInv', BlockerInv, NEW h \in 1..admitted, LoadDependents(h)
  PROVE  BlockerInv'
<1>1. running = h /\ h \in Ids /\ Kind(h) # "open" /\ pc[h] \in {"opened", "gate"}
  BY DocTypes DEF LoadDependents, At, TypeInv
<1>2. /\ pc' = [pc EXCEPT ![h] = "load"] /\ running' \in {0, h} /\ "load" \in Labels \ Terminal
      /\ UNCHANGED <<sent, admitted, ready, arc, root, setup, notified>>
  BY DEF LoadDependents, Await, StepTo, ParkAt, Labels, Terminal, locals, gates
<1>3. (HoldsRoot(h)' <=> HoldsRoot(h)) /\ (HoldsSetup(h)' <=> HoldsSetup(h))
  BY <1>1, <1>2 DEF HoldsRoot, HoldsSetup, Kind, TypeInv, TypeOK
<1> QED BY <1>1, <1>2, <1>3, MoveBlockers

LEMMA EnvironmentBlockers ==
  ASSUME TypeInv, TypeInv', BlockerInv, NEW h \in 1..admitted, Environment(h)
  PROVE  BlockerInv'
<1>1. Suspended(h)
  BY DEF Environment, ClientReplies, WorkCompletes, WaitLimitElapses, Timeout, Cancel
<1>2. CASE Wake(h)
  <2>1. UNCHANGED <<sent, admitted, pc, running, root, setup, notified, arc>> /\ ready' = Append(ready, h)
    BY <1>2 DEF Wake, locals, gates
  <2>2. InFlight' = InFlight
    BY <2>1 DEF InFlight
  <2>3. /\ Len(ready) \in Nat /\ DOMAIN ready = 1..Len(ready) /\ DOMAIN ready' = 1..(Len(ready) + 1)
        /\ \A i \in 1..(Len(ready) + 1) : ready'[i] = IF i <= Len(ready) THEN ready[i] ELSE h
    BY <2>1 DEF TypeInv, TypeOK
  <2>4. h \in InFlight /\ running = 0 /\ h # 0 /\ \A i \in DOMAIN ready : ready[i] # h
    BY <1>1, DocTypes, Bounds DEF Suspended, Queued, TypeInv, Ids
  <2>5. Queueing'
    BY <2>1, <2>2, <2>3, <2>4 DEF BlockerInv, Queueing
  <2>6. RootExclusive' /\ RootFromStart' /\ SetupHeld'
    BY <2>1, <2>2 DEF BlockerInv, RootExclusive, RootFromStart, SetupHeld, HoldsRoot, HoldsSetup, Kind
  <2> QED BY <2>5, <2>6 DEF BlockerInv, TypeInv
<1>3. CASE Drop(h)
  <2>1. Leave(h, "dropped") /\ "dropped" \in Terminal /\ UNCHANGED <<sent, admitted, arc>>
    BY <1>3 DEF Drop, Terminal, locals
  <2> QED BY <1>1, <2>1, LeaveBlockers DEF Suspended
<1> QED
  BY <1>2, <1>3 DEF Environment, ClientReplies, WorkCompletes, WaitLimitElapses, Timeout, Cancel

LEMMA BlockerStep == TypeInv /\ TypeInv' /\ BlockerInv /\ [Next]_vars => BlockerInv'
<1> SUFFICES ASSUME TypeInv, TypeInv', BlockerInv, [Next]_vars PROVE BlockerInv'
  OBVIOUS
<1>1. CASE ClientSends
  BY <1>1, SendBlockers DEF ClientSends
<1>2. CASE Admit
  BY <1>2, AdmitBlockers
<1>3. CASE Poll
  BY <1>3, PollBlockers
<1>4. ASSUME NEW h \in 1..admitted, Handler(h) PROVE BlockerInv'
  BY <1>4, InitializedBlockers, WaitBlockers, OpenBlockers, EditBlockers, LoadBlockers DEF Handler
<1>5. ASSUME NEW h \in 1..admitted, Environment(h) PROVE BlockerInv'
  BY <1>5, EnvironmentBlockers
<1>6. CASE UNCHANGED vars
  <2>1. InFlight' = InFlight
    BY <1>6 DEF vars, InFlight
  <2> QED BY <1>6, <2>1 DEF vars, TypeInv, BlockerInv, Queueing, RootExclusive, RootFromStart, SetupHeld,
             HoldsRoot, HoldsSetup, Kind
<1> QED BY <1>1, <1>2, <1>3, <1>4, <1>5, <1>6 DEF Next

\* At most one handler holds root_setup, and it is set as long as one does,
\* however many handlers the transport runs at once.
THEOREM RootIsExclusive == Spec => []RootExclusive
<1>1. Init => TypeInv /\ BlockerInv
  BY TypeInit, BlockerInit
<1>2. TypeInv /\ BlockerInv /\ [Next]_vars => (TypeInv /\ BlockerInv)'
  BY TypeStep, BlockerStep
<1>3. BlockerInv => RootExclusive
  BY DEF BlockerInv
<1> QED BY <1>1, <1>2, <1>3, PTL DEF Spec

-----------------------------------------------------------------------------
(* With two slots Semaphore::block never finds its flag set.               *)

LEMMA AtMostTwo ==
  ASSUME NEW S, IsFiniteSet(S), Cardinality(S) <= 2, NEW a \in S, NEW b \in S, NEW c \in S
  PROVE  a = b \/ a = c \/ b = c
<1> SUFFICES ASSUME a # b, a # c, b # c PROVE FALSE
  OBVIOUS
<1>1. IsFiniteSet({a}) /\ Cardinality({a}) = 1
  BY FS_Singleton
<1>2. IsFiniteSet({a} \cup {b}) /\ Cardinality({a} \cup {b}) = 2
  <2>1. b \notin {a}
    OBVIOUS
  <2>2. /\ IsFiniteSet({a} \cup {b})
        /\ Cardinality({a} \cup {b}) = Cardinality({a}) + 1
    BY <1>1, <2>1, FS_AddElement, Zenon
  <2> QED BY <1>1, <2>2
<1>3. Cardinality({a, b, c}) = 3
  <2> DEFINE T == {a} \cup {b}
  <2>1. c \notin T /\ {a, b, c} = T \cup {c}
    OBVIOUS
  <2>2. IsFiniteSet(T) /\ Cardinality(T) = 2
    BY <1>2
  <2> HIDE DEF T
  <2>3. Cardinality(T \cup {c}) = Cardinality(T) + 1
    BY <2>1, <2>2, FS_AddElement, Zenon
  <2> QED BY <2>1, <2>2, <2>3
<1>4. {a, b, c} \in SUBSET S
  OBVIOUS
<1>5. Cardinality({a, b, c}) <= Cardinality(S)
  BY <1>4, FS_Subset, Zenon
<1>6. Cardinality(S) \in Nat
  BY FS_CardinalityType, Zenon
<1> QED BY <1>3, <1>5, <1>6

\* What every step of a handler does to its label and its slot.
LEMMA HandlerMoves ==
  ASSUME TypeInv, BlockerInv, NEW h \in 1..admitted, Handler(h)
  PROVE  /\ running = h /\ h \in InFlight /\ h \notin Queued /\ h \in Ids /\ h # 0
         /\ UNCHANGED <<sent, admitted>>
         /\ \E label : pc' = [pc EXCEPT ![h] = label]
         /\ InFlight' \subseteq InFlight
<1>1. running = h
  BY DEF Handler, RegisterCapability, ForceBlockRoot, AddRoots, WaitForRoot, RootWaitPolled, BlockRoot,
         InsertDocument, ChangeOnOpen, AnalyseOnOpen, WaitForDocument, DocumentWaitPolled, ChangeFull,
         ChangeDelta, Close, LoadDependents, Answer, At
<1>2. h \in Ids /\ h # 0
  BY DocTypes, Bounds DEF TypeInv, TypeOK
<1>3. h \in InFlight /\ h \notin Queued
  BY <1>1, <1>2 DEF BlockerInv, Queueing, Queued
<1>4. UNCHANGED <<sent, admitted>>
  BY DEF Handler, RegisterCapability, ForceBlockRoot, AddRoots, WaitForRoot, RootWaitPolled, BlockRoot,
         InsertDocument, ChangeOnOpen, AnalyseOnOpen, WaitForDocument, DocumentWaitPolled, ChangeFull,
         ChangeDelta, Close, LoadDependents, Answer
<1>5. \E label : StepTo(h, label) \/ ParkAt(h, label) \/ Leave(h, label)
  BY DEF Handler, RegisterCapability, ForceBlockRoot, AddRoots, WaitForRoot, RootWaitPolled, BlockRoot,
         InsertDocument, ChangeOnOpen, AnalyseOnOpen, WaitForDocument, DocumentWaitPolled, ChangeFull,
         ChangeDelta, Close, LoadDependents, Answer, Await, Analyse
<1>6. PICK label : pc' = [pc EXCEPT ![h] = label]
  BY <1>5 DEF StepTo, ParkAt, Leave
<1>7. InFlight' \subseteq InFlight
  <2>1. \A g \in 1..admitted : g # h => pc'[g] = pc[g]
    BY <1>6 DEF TypeInv, TypeOK
  <2> QED BY <1>3, <1>4, <2>1 DEF InFlight
<1> QED BY <1>1, <1>2, <1>3, <1>4, <1>6, <1>7

LEMMA EnvironmentMoves ==
  ASSUME TypeInv, NEW h \in 1..admitted, Environment(h)
  PROVE  /\ running = 0 /\ h \in InFlight /\ h \notin Queued
         /\ UNCHANGED <<sent, admitted>> /\ InFlight' \subseteq InFlight
         /\ (Wake(h) \/ Drop(h))
<1>1. Suspended(h) /\ (Wake(h) \/ Drop(h))
  BY DEF Environment, ClientReplies, WorkCompletes, WaitLimitElapses, Timeout, Cancel
<1>2. UNCHANGED <<sent, admitted>> /\ (pc' = pc \/ pc' = [pc EXCEPT ![h] = "dropped"])
  BY <1>1 DEF Wake, Drop, Leave
<1>3. InFlight' \subseteq InFlight
  <2>1. \A g \in 1..admitted : g # h => pc'[g] = pc[g]
    BY <1>2, IdFacts DEF TypeInv, TypeOK
  <2> QED BY <1>1, <1>2, <2>1 DEF Suspended, InFlight
<1> QED BY <1>1, <1>2, <1>3 DEF Suspended

LEMMA SlotsStep ==
  ASSUME TypeInv, BlockerInv, SlotsBounded, [Next]_vars
  PROVE  SlotsBounded'
<1>0. IsFiniteSet(InFlight) /\ Cardinality(InFlight) \in Nat /\ Concurrency \in Nat
  BY InFlightFinite, FS_CardinalityType, Bounds DEF TypeInv
<1>1. CASE InFlight' \subseteq InFlight
  BY <1>0, <1>1, FS_Subset, FS_CardinalityType DEF SlotsBounded
<1>2. CASE Admit
  <2>1. PICK new \in Ids : new = admitted + 1
    BY <1>2, Bounds DEF Admit, TypeInv, TypeOK, Ids
  <2>2. InFlight' \subseteq InFlight \cup {new}
    BY <1>2, <2>1 DEF Admit, InFlight, TypeInv, TypeOK
  <2>3. IsFiniteSet(InFlight \cup {new}) /\ Cardinality(InFlight \cup {new}) <= Cardinality(InFlight) + 1
    BY <1>0, FS_AddElement
  <2>4. Cardinality(InFlight') <= Cardinality(InFlight \cup {new}) /\ Cardinality(InFlight') \in Nat
    BY <2>2, <2>3, FS_Subset, FS_CardinalityType
  <2> QED BY <1>0, <1>2, <2>3, <2>4, FS_CardinalityType DEF SlotsBounded, Admit
<1>3. CASE ClientSends \/ Poll \/ UNCHANGED vars
  <2>1. UNCHANGED <<admitted, pc>>
    BY <1>3 DEF ClientSends, Send, Poll, vars
  <2> QED BY <1>1, <2>1 DEF InFlight
<1>4. ASSUME NEW h \in 1..admitted, Handler(h) \/ Environment(h) PROVE SlotsBounded'
  BY <1>1, <1>4, HandlerMoves, EnvironmentMoves
<1> QED BY <1>2, <1>3, <1>4 DEF Next

\* While h runs no other handler is past the gate, nor notified to pass it.
LEMMA MoveGate ==
  ASSUME TypeInv, TypeInv', BlockerInv, GateOpen, NEW h \in 1..admitted, running = h,
         NEW label \in Labels, pc' = [pc EXCEPT ![h] = label], running' \in {0, h},
         sent' = sent, admitted' = admitted, notified' \subseteq notified,
         label = "gate" => running' = h /\ ~root',
         label = "opened" /\ Kind(h) = "delta" => running' = h /\ ~root',
         label = "docwait" => Kind(h) \in {"close", "references"},
         label = "rootwait" => h \notin notified'
  PROVE  GateOpen'
<1>1. h \in Ids /\ h # 0 /\ 1..admitted \subseteq Ids
  BY IdFacts DEF TypeInv
<1>2. \A g \in Ids : pc'[g] = IF g = h THEN label ELSE pc[g]
  BY DEF TypeInv, TypeOK
<1>3. \A g \in 1..admitted : Kind(g)' = Kind(g)
  BY DEF Kind
<1>4. ASSUME NEW g \in 1..admitted
      PROVE  /\ pc'[g] = "gate" => running' = g /\ ~root'
             /\ pc'[g] = "opened" /\ Kind(g) = "delta" => running' = g /\ ~root'
             /\ pc'[g] = "docwait" => Kind(g) \in {"close", "references"}
  BY <1>1, <1>2 DEF GateOpen
<1>5. \A g \in notified' : pc'[g] # "rootwait"
  BY <1>1, <1>2 DEF GateOpen, TypeInv, TypeOK
<1> QED BY <1>3, <1>4, <1>5 DEF GateOpen

\* When h drops its blockers, what it wakes is alone with it: with two slots
\* there is nobody else to be polled first.
LEMMA LeaveGate ==
  ASSUME Concurrency <= 2, TypeInv, TypeInv', BlockerInv, SlotsBounded, GateOpen,
         NEW h \in InFlight, h \notin Queued, running \in {0, h},
         NEW how \in Terminal, Leave(h, how), sent' = sent, admitted' = admitted
  PROVE  GateOpen'
<1>1. h \in Ids /\ h # 0 /\ 1..admitted \subseteq Ids /\ InFlight \subseteq Ids /\ 0 \notin Ids
  BY IdFacts DEF TypeInv
<1>2. running' = 0 /\ pc' = [pc EXCEPT ![h] = how] /\ notified' = (notified \cup Woken(h)) \ {h}
  BY DEF Leave
<1>3. \A g \in Ids : pc'[g] = IF g = h THEN how ELSE pc[g]
  BY <1>2 DEF TypeInv, TypeOK
<1>4. \A g \in 1..admitted : Kind(g)' = Kind(g)
  BY DEF Kind
<1>5. how \notin {"gate", "opened", "docwait", "rootwait"}
  BY DEF Terminal
<1>6. ASSUME NEW g \in 1..admitted
      PROVE  /\ pc'[g] = "gate" => running' = g /\ ~root'
             /\ pc'[g] = "opened" /\ Kind(g) = "delta" => running' = g /\ ~root'
             /\ pc'[g] = "docwait" => Kind(g) \in {"close", "references"}
  BY <1>1, <1>3, <1>5 DEF GateOpen
<1>7. PICK order \in Orders(Woken(h) \ Queued) : ready' = ready \o order
  BY DEF Leave
<1>8. Woken(h) \subseteq InFlight \ {h} /\ IsFiniteSet(Woken(h) \ Queued)
  BY InFlightFinite DEF Woken, TypeInv
<1>9. order \in Seq(1..admitted) /\ ready \in Seq(1..admitted) /\ Len(order) = Cardinality(Woken(h) \ Queued)
  <2>1. order \in Seq(Woken(h) \ Queued) /\ Len(order) = Cardinality(Woken(h) \ Queued)
    BY <1>8, OrdersAreSequences
  <2> QED BY <1>8, <2>1, SeqMonotonic DEF InFlight, TypeInv, TypeOK
<1>10. ASSUME NEW g \in notified', pc'[g] = "rootwait"
       PROVE  ~root' /\ ready' # <<>> /\ Head(ready') = g
  <2>1. g # h /\ g \in Ids /\ pc[g] = "rootwait"
    BY <1>1, <1>2, <1>3, <1>8, <1>10 DEF TypeInv, TypeOK
  <2>2. CASE g \in notified
    <3>1. ~root /\ running = 0 /\ ready # <<>> /\ Head(ready) = g
      BY <1>1, <2>1, <2>2 DEF GateOpen
    <3>2. ready' # <<>> /\ Head(ready') = g
      BY <1>7, <1>9, <3>1, QueueHead
    <3>3. ~root'
      BY <3>1 DEF Leave
    <3> QED BY <3>2, <3>3
  <2>3. CASE g \in Woken(h)
    <3>1. HoldsRoot(h) /\ g \in InFlight
      BY <2>1, <2>3 DEF Woken
    <3>2. ~root'
      BY <3>1 DEF Leave
    <3>3. \A k \in InFlight : k = h \/ k = g
      <4>1. IsFiniteSet(InFlight) /\ Cardinality(InFlight) <= 2
        BY InFlightFinite, FS_CardinalityType, Bounds DEF SlotsBounded, TypeInv
      <4> QED BY <2>1, <3>1, <4>1, AtMostTwo
    <3>4. CASE ready # <<>>
      <4>1. Len(ready) \in Nat \ {0} /\ DOMAIN ready = 1..Len(ready)
        BY <1>9, <3>4, EmptySeq, LenProperties
      <4>2. ready[1] \in InFlight /\ ready[1] # h
        BY <4>1 DEF BlockerInv, Queueing, Queued
      <4>3. ready' # <<>> /\ Head(ready') = Head(ready)
        BY <1>7, <1>9, <3>4, QueueHead
      <4> QED BY <3>2, <3>3, <4>2, <4>3
    <3>5. CASE ready = <<>>
      <4>1. Woken(h) \ Queued = {g}
        BY <1>8, <2>3, <3>3, <3>5 DEF Queued
      <4>2. order \in [1..1 -> {g}] /\ Len(order) = 1
        BY <1>7, <1>9, <4>1, FS_Singleton DEF Orders
      <4>3. ready' = order
        BY <1>7, <1>9, <3>5, ConcatEmptySeq
      <4>4. order[1] = g /\ order # <<>>
        BY <1>9, <4>2, EmptySeq
      <4> QED BY <3>2, <4>3, <4>4
    <3> QED BY <3>4, <3>5
  <2> QED BY <1>2, <2>2, <2>3
<1> QED BY <1>2, <1>4, <1>6, <1>10 DEF GateOpen

LEMMA LeaveQuietly ==
  ASSUME TypeInv, NoBlockPanic, NEW h, NEW how, how # "blockPanic", pc' = [pc EXCEPT ![h] = how]
  PROVE  NoBlockPanic'
BY DEF NoBlockPanic, TypeInv, TypeOK

\* The handlers that call Semaphore::block, and Blocker::drop on the way out.
LEMMA HandlerGate ==
  ASSUME Concurrency <= 2, TypeInv, TypeInv', GateInv, NEW h \in 1..admitted, Handler(h)
  PROVE  GateOpen' /\ NoBlockPanic'
<1>0. BlockerInv /\ SlotsBounded /\ GateOpen /\ NoBlockPanic
  BY DEF GateInv
<1>1. /\ running = h /\ h \in InFlight /\ h \notin Queued /\ h \in Ids /\ h # 0
      /\ sent' = sent /\ admitted' = admitted
  BY <1>0, HandlerMoves
<1>2. \A how \in Terminal \ {"blockPanic"} : Leave(h, how) => GateOpen' /\ NoBlockPanic'
  <2> SUFFICES ASSUME NEW how \in Terminal \ {"blockPanic"}, Leave(h, how)
               PROVE  GateOpen' /\ NoBlockPanic'
    OBVIOUS
  <2>1. GateOpen'
    BY <1>0, <1>1, LeaveGate
  <2>2. pc' = [pc EXCEPT ![h] = how] /\ how # "blockPanic"
    BY DEF Leave
  <2> QED BY <1>0, <2>1, <2>2, LeaveQuietly
<1>3. CASE RegisterCapability(h) \/ ForceBlockRoot(h) \/ AddRoots(h)
  <2>1. CASE AddRoots(h)
    BY <1>2, <2>1 DEF AddRoots, Terminal
  <2>2. CASE RegisterCapability(h) \/ ForceBlockRoot(h)
    <3>1. PICK label \in {"regcap", "roots"} : pc' = [pc EXCEPT ![h] = label] /\ running' \in {0, h}
      BY <2>2 DEF RegisterCapability, ForceBlockRoot, ParkAt, StepTo
    <3>2. label \in Labels /\ label \notin {"gate", "opened", "docwait", "rootwait", "blockPanic"}
      BY DEF Labels
    <3>3. notified' = notified
      BY <2>2 DEF RegisterCapability, ForceBlockRoot, gates
    <3> QED BY <1>0, <1>1, <3>1, <3>2, <3>3, MoveGate, LeaveQuietly
  <2> QED BY <1>3, <2>1, <2>2
<1>4. CASE WaitForRoot(h)
  <2>1. PICK label \in {"rootwait", "gate"} :
          pc' = [pc EXCEPT ![h] = label] /\ (label = "gate" => running' = h /\ ~root) /\ running' \in {0, h}
    BY <1>4 DEF WaitForRoot, ParkAt, StepTo
  <2>2. label \in Labels /\ label \notin {"opened", "docwait", "blockPanic"}
    BY DEF Labels
  <2>3. notified' = notified /\ root' = root /\ h \notin notified
    BY <1>0, <1>4 DEF WaitForRoot, At, gates, BlockerInv, Queueing
  <2> QED BY <1>0, <1>1, <2>1, <2>2, <2>3, MoveGate, LeaveQuietly
<1>5. CASE RootWaitPolled(h)
  <2>1. PICK label \in {"rootwait", "gate"} :
          pc' = [pc EXCEPT ![h] = label] /\ (label = "gate" => running' = h) /\ running' \in {0, h}
    BY <1>5 DEF RootWaitPolled, ParkAt, StepTo
  <2>2. label \in Labels /\ label \notin {"opened", "docwait", "blockPanic"}
    BY DEF Labels
  <2>3. notified' = notified \ {h} /\ root' = root
    BY <1>5 DEF RootWaitPolled
  <2>4. label = "gate" => ~root
    <3>1. h \in notified => ~root
      BY <1>0, <1>5 DEF GateOpen, RootWaitPolled, At
    <3>2. label = "gate" => ~root \/ h \in notified
      BY <1>1, <1>5, <2>1 DEF RootWaitPolled, ParkAt, StepTo, TypeInv, TypeOK
    <3> QED BY <3>1, <3>2
  <2> QED BY <1>0, <1>1, <2>1, <2>2, <2>3, <2>4, MoveGate, LeaveQuietly
<1>6. CASE BlockRoot(h)
  <2>1. ~root
    BY <1>0, <1>6 DEF BlockRoot, At, GateOpen
  <2>2. CASE Leave(h, "done")
    BY <1>2, <2>2 DEF Terminal
  <2>3. CASE (ParkAt(h, "wdp") \/ StepTo(h, "insert")) /\ notified' = notified
    <3>1. PICK label \in {"wdp", "insert"} : pc' = [pc EXCEPT ![h] = label] /\ running' \in {0, h}
      BY <2>3 DEF ParkAt, StepTo
    <3>2. label \in Labels /\ label \notin {"gate", "opened", "docwait", "rootwait", "blockPanic"}
      BY DEF Labels
    <3> QED BY <1>0, <1>1, <2>3, <3>1, <3>2, MoveGate, LeaveQuietly
  <2> QED BY <1>6, <2>1, <2>2, <2>3 DEF BlockRoot
<1>7. CASE InsertDocument(h) \/ LoadDependents(h)
  <2>1. PICK label \in {"addroot", "load"} : pc' = [pc EXCEPT ![h] = label] /\ running' \in {0, h}
    BY <1>7 DEF InsertDocument, LoadDependents, Await, ParkAt, StepTo
  <2>2. label \in Labels /\ label \notin {"gate", "opened", "docwait", "rootwait", "blockPanic"}
    BY DEF Labels
  <2>3. notified' = notified
    BY <1>7 DEF InsertDocument, LoadDependents, gates
  <2> QED BY <1>0, <1>1, <2>1, <2>2, <2>3, MoveGate, LeaveQuietly
<1>8. CASE ChangeOnOpen(h)
  <2>1. pc[h] = "addroot" /\ HoldsRoot(h) /\ ~HoldsSetup(h)
    BY <1>8 DEF ChangeOnOpen, At, HoldsRoot, HoldsSetup, TypeInv, Stages, Fits
  <2>2. setup = {}
    <3>1. \A g \in InFlight : HoldsSetup(g) => g = h
      BY <1>0, <1>1, <2>1 DEF BlockerInv, RootExclusive, HoldsRoot, HoldsSetup
    <3> QED BY <1>0, <2>1, <3>1 DEF BlockerInv, SetupHeld
  <2>3. CASE Await(h, "load") /\ notified' = notified
    <3>1. pc' = [pc EXCEPT ![h] = "load"] /\ running' \in {0, h} /\ "load" \in Labels
      BY <2>3 DEF Await, ParkAt, StepTo, Labels
    <3> QED BY <1>0, <1>1, <2>3, <3>1, MoveGate, LeaveQuietly
  <2>4. CASE Leave(h, "missingPanic") \/ Leave(h, "failed")
    BY <1>2, <2>4 DEF Terminal
  <2> QED BY <1>8, <2>2, <2>3, <2>4 DEF ChangeOnOpen
<1>9. CASE AnalyseOnOpen(h)
  BY <1>2, <1>9 DEF AnalyseOnOpen, Terminal
<1>10. CASE WaitForDocument(h)
  <2>1. PICK label \in {"docwait", "opened"} :
          pc' = [pc EXCEPT ![h] = label] /\ (label = "opened" => running' = h) /\ running' \in {0, h}
    BY <1>10 DEF WaitForDocument, ParkAt, StepTo
  <2>2. notified' = notified /\ root' = root
    BY <1>10 DEF WaitForDocument, gates
  <2>3. pc[h] = "gate" => ~root /\ setup = {}
    BY <1>0, NoHolderNoSetup DEF GateOpen
  <2>4. label = "docwait" => Kind(h) \in {"close", "references"}
    <3>1. label = "docwait" => setup # {}
      BY <1>1, <1>10, <2>1 DEF WaitForDocument, ParkAt, StepTo, TypeInv, TypeOK
    <3> QED BY <1>10, <2>3, <3>1 DEF WaitForDocument, At, AwaitsDocumentAt
  <2>5. Kind(h) = "delta" => ~root
    BY <1>10, <2>3 DEF WaitForDocument, At, AwaitsDocumentAt
  <2>6. label \in Labels /\ label \notin {"gate", "rootwait", "blockPanic"}
    BY DEF Labels, Terminal
  <2> QED BY <1>0, <1>1, <2>1, <2>2, <2>4, <2>5, <2>6, MoveGate, LeaveQuietly
<1>11. CASE DocumentWaitPolled(h)
  <2>1. PICK label \in {"docwait", "opened"} : pc' = [pc EXCEPT ![h] = label] /\ running' \in {0, h}
    BY <1>11 DEF DocumentWaitPolled, ParkAt, StepTo
  <2>2. notified' \subseteq notified
    BY <1>11 DEF DocumentWaitPolled
  <2>3. Kind(h) \in {"close", "references"}
    BY <1>0, <1>11 DEF GateOpen, DocumentWaitPolled, At
  <2>4. label \in Labels /\ label \notin {"gate", "rootwait", "blockPanic"}
    BY DEF Labels, Terminal
  <2> QED BY <1>0, <1>1, <2>1, <2>2, <2>3, <2>4, MoveGate, LeaveQuietly
<1>12. CASE ChangeFull(h) \/ ChangeDelta(h)
  <2>1. ~root
    BY <1>0, <1>12 DEF ChangeFull, ChangeDelta, At, GateOpen
  <2>2. setup = {}
    BY <1>0, <2>1, NoHolderNoSetup
  <2> QED BY <1>2, <1>12, <2>2 DEF ChangeFull, ChangeDelta, Analyse, Terminal
<1>13. CASE Close(h) \/ Answer(h)
  BY <1>2, <1>13 DEF Close, Answer, Terminal
<1> QED BY <1>3, <1>4, <1>5, <1>6, <1>7, <1>8, <1>9, <1>10, <1>11, <1>12, <1>13 DEF Handler

LEMMA GateStep ==
  ASSUME Concurrency <= 2, TypeInv, TypeInv', GateInv, [Next]_vars
  PROVE  GateInv'
<1>0. BlockerInv /\ SlotsBounded /\ GateOpen /\ NoBlockPanic
  BY DEF GateInv
<1>1. BlockerInv' /\ SlotsBounded'
  BY <1>0, BlockerStep, SlotsStep
<1>2. CASE ClientSends
  <2>1. UNCHANGED <<admitted, pc, running, ready, root, notified>>
    BY <1>2 DEF ClientSends, Send, locals, gates
  <2>2. \A g \in 1..admitted : Kind(g)' = Kind(g)
    BY <1>2 DEF ClientSends, Send, Kind, TypeInv, TypeOK
  <2> QED BY <1>0, <1>1, <2>1, <2>2 DEF GateInv, GateOpen, NoBlockPanic
<1>3. CASE Admit
  <2>1. PICK new \in Ids : new = admitted + 1 /\ new \notin 1..admitted /\ 1..(admitted + 1) = 1..admitted \cup {new}
    BY <1>3, Bounds, SMTT(30) DEF Admit, TypeInv, TypeOK, Ids
  <2>2. \A g \in Ids : pc'[g] = IF g = new THEN "entry" ELSE pc[g]
    BY <1>3, <2>1 DEF Admit, TypeInv, TypeOK
  <2>3. UNCHANGED <<running, root, notified>> /\ running = 0 /\ sent' = sent /\ 1..admitted \subseteq Ids
    BY <1>3, IdFacts DEF Admit, gates, TypeInv
  <2>4. ready # <<>> => ready' # <<>> /\ Head(ready') = Head(ready)
    BY <1>3, SMTT(30) DEF Admit, TypeInv, TypeOK
  <2>5. NoBlockPanic'
    BY <1>0, <2>2 DEF NoBlockPanic
  <2>6. \A g \in 1..admitted' : /\ (pc[g] = "gate")' => (running = g)' /\ ~root'
                                /\ (pc[g] = "opened" /\ Kind(g) = "delta")' => (running = g)' /\ ~root'
                                /\ (pc[g] = "docwait")' => Kind(g)' \in {"close", "references"}
    BY <1>0, <1>3, <2>1, <2>2, <2>3 DEF GateOpen, Admit, Kind
  <2>7. \A g \in notified' : (pc[g] = "rootwait")' =>
          ~root' /\ running' \in {0, g} /\ (running' = 0 => ready' # <<>> /\ Head(ready') = g)
    BY <1>0, <2>2, <2>3, <2>4 DEF GateOpen, TypeInv, TypeOK
  <2> QED BY <1>1, <2>5, <2>6, <2>7 DEF GateInv, GateOpen
<1>4. CASE Poll
  <2>1. UNCHANGED <<sent, admitted, pc, root, notified>> /\ running = 0 /\ running' = Head(ready)
    BY <1>4 DEF Poll, locals, gates
  <2>2. Head(ready) # 0
    BY <1>4, HeadTailProperties, IdFacts DEF Poll, TypeInv, TypeOK
  <2> QED BY <1>0, <1>1, <2>1, <2>2, IdFacts DEF GateInv, GateOpen, NoBlockPanic, Kind, TypeInv
<1>5. ASSUME NEW h \in 1..admitted, Handler(h) PROVE GateInv'
  BY <1>1, <1>5, HandlerGate DEF GateInv
<1>6. ASSUME NEW h \in 1..admitted, Environment(h) PROVE GateInv'
  <2>1. running = 0 /\ h \in InFlight /\ h \notin Queued /\ sent' = sent /\ admitted' = admitted
    BY <1>6, EnvironmentMoves
  <2>2. CASE Wake(h)
    <3>1. UNCHANGED <<pc, running, root, notified>> /\ ready' = Append(ready, h)
      BY <2>2 DEF Wake, gates
    <3>2. ready # <<>> => ready' # <<>> /\ Head(ready') = Head(ready)
      <4>1. ready \in Seq(1..admitted)
        BY DEF TypeInv, TypeOK
      <4>2. ready' = ready \o <<h>> /\ <<h>> \in Seq(1..admitted)
        BY <3>1, <4>1
      <4> QED BY <4>1, <4>2, QueueHead
    <3> QED BY <1>0, <1>1, <2>1, <3>1, <3>2 DEF GateInv, GateOpen, NoBlockPanic, Kind
  <2>3. CASE Drop(h)
    <3>1. Leave(h, "dropped") /\ "dropped" \in Terminal
      BY <2>3 DEF Drop, Terminal
    <3>2. GateOpen'
      BY <1>0, <2>1, <3>1, LeaveGate
    <3>3. NoBlockPanic'
      BY <1>0, <3>1, LeaveQuietly DEF Leave
    <3> QED BY <1>1, <3>2, <3>3 DEF GateInv
  <2> QED BY <1>6, <2>2, <2>3, EnvironmentMoves
<1>7. CASE UNCHANGED vars
  BY <1>0, <1>1, <1>7 DEF vars, GateInv, GateOpen, NoBlockPanic, Kind
<1> QED BY <1>2, <1>3, <1>4, <1>5, <1>6, <1>7 DEF Next

LEMMA GateInit == Init => GateInv
<1> SUFFICES ASSUME Init PROVE GateInv
  OBVIOUS
<1>1. InFlight = {} /\ 1..admitted = {}
  BY DEF Init, InFlight
<1>2. SlotsBounded
  BY <1>1, FS_EmptySet, Bounds DEF SlotsBounded
<1>3. GateOpen /\ NoBlockPanic
  BY <1>1 DEF Init, GateOpen, NoBlockPanic
<1> QED BY <1>2, <1>3, BlockerInit DEF GateInv

\* With the two slots main.rs gives the transport, no handler panics in
\* Semaphore::block ("it should call wait() first"), although wait() returns
\* to a notified waiter without looking at the flag again.
THEOREM BlockNeverPanics ==
  ASSUME Concurrency <= 2
  PROVE  Spec => []NoBlockPanic
<1>1. Init => TypeInv /\ GateInv
  BY TypeInit, GateInit
<1>2. TypeInv /\ GateInv /\ [Next]_vars => (TypeInv /\ GateInv)'
  BY TypeStep, GateStep
<1>3. GateInv => NoBlockPanic
  BY DEF GateInv
<1> QED BY <1>1, <1>2, <1>3, PTL DEF Spec

=============================================================================
