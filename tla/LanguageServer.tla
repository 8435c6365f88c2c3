--------------------------- MODULE LanguageServer ---------------------------
(***************************************************************************)
(* The request handlers of the language server (src/src/server.rs), the    *)
(* two semaphores that order them (src/src/utils.rs) and the open-document *)
(* store they share (src/src/backend.rs).                                  *)
(*                                                                         *)
(* All handlers run in one task.  The transport keeps at most Concurrency  *)
(* of them in flight, starts them in the order the client sent them, and   *)
(* polls the ones that were woken first in, first out; a handler runs      *)
(* until it completes or reaches an await that is not ready.  So an action *)
(* below is a stretch of a handler without an await: `running' names the   *)
(* handler being polled, and no other handler moves until it is 0 again.   *)
(***************************************************************************)
EXTENDS DocumentText, FiniteSets

CONSTANTS
  Supported,    \* those whose language did_open recognises
  Workspace,    \* those in a module of the roots that initialized adds
  Addable,      \* those in a module add_root_for_file finds a root for
  Encoded,      \* those whose URI path is not their file path (escapes)
  Queries,      \* the kinds of requests the client sends
  Registers,    \* the client supports dynamic registration
  Progress,     \* the client supports window/workDoneProgress/create
  Concurrency,  \* concurrency_level: 2 in main.rs, 4 in the test harness
  MaxTimeouts   \* bound: handlers the 30 second TimeoutLayer drops

QueryKinds == {"completion", "references", "hover", "goto_definition", "code_action"}
Kinds == {"initialized"} \cup DocumentKinds \cup QueryKinds

ASSUME DocAssumption ==
  /\ Supported \subseteq Docs /\ Encoded \subseteq Docs
  /\ Workspace \subseteq Docs /\ Addable \subseteq Docs
ASSUME ClientAssumption ==
  Queries \subseteq QueryKinds /\ Registers \in BOOLEAN /\ Progress \in BOOLEAN
ASSUME BoundAssumption ==
  /\ Concurrency \in Nat \ {0} /\ MaxTimeouts \in Nat

Terminal == {"done", "empty", "failed", "blockPanic", "missingPanic", "dropped"}
Labels == {"queued", "entry", "regcap", "roots", "rootwait", "gate", "wdp", "insert",
           "addroot", "load", "docwait", "opened"} \cup Terminal

VARIABLES
  sent,       \* what the client has sent: a sequence of [kind, doc]
  admitted,   \* how many of them have a slot or had one
  pc,         \* the await (or the point after it) each handler is at
  running,    \* the handler being polled, or 0
  ready,      \* handlers woken or new, in the order they will be polled
  notified,   \* waiters whose Notified future has fired
  root,       \* root_setup.should_wait
  setup,      \* the documents, named by their did_open, whose setup is blocked
  arc,        \* the document whose setup a handler has cloned (0: none)
  docs,       \* document_map: [inst, text], inst 0 where there is no entry
  ast,        \* what analysis last parsed for the document (base 0: nothing)
  rope,       \* the rope a handler has cloned: what on_change or a query reads
  rooted,     \* the documents in a module of a root the index has
  timeouts    \* handlers dropped by the TimeoutLayer so far

client == <<sent>>
locals == <<arc, rope>>
store  == <<docs, ast, rooted>>
gates  == <<root, setup, notified>>
vars == <<sent, admitted, pc, running, ready, notified, root, setup, arc, docs, ast, rope,
          rooted, timeouts>>

Kind(h) == sent[h].kind
Doc(h)  == sent[h].doc
Present(d) == docs[d].inst # 0
InFlight == {h \in 1..admitted : pc[h] \notin Terminal}
Queued == {ready[i] : i \in DOMAIN ready}

\* did_open holds its root_setup blocker to its end; initialized takes its own late.
HoldsRoot(h) ==
  \/ Kind(h) = "open" /\ pc[h] \in {"wdp", "insert", "addroot", "load"}
  \/ Kind(h) = "initialized" /\ pc[h] = "roots"
\* on_change holds the document's blocker while it loads modules for did_open.
HoldsSetup(h) == Kind(h) = "open" /\ pc[h] = "load"

-----------------------------------------------------------------------------
(* The client: a legal one, that names only documents it has open.         *)

IsOpen(d) ==
  \E o \in DOMAIN sent : /\ sent[o] = [kind |-> "open", doc |-> d]
                         /\ \A c \in o..Len(sent) : sent[c] # [kind |-> "close", doc |-> d]

Send(k, d) ==
  /\ running = 0 /\ Len(sent) < MaxMessages
  /\ (k = "open") # IsOpen(d)
  /\ sent' = Append(sent, [kind |-> k, doc |-> d])
  /\ UNCHANGED <<admitted, pc, running, ready, locals, store, gates, timeouts>>

-----------------------------------------------------------------------------
(* The executor: buffer_unordered(Concurrency) over FuturesUnordered.      *)

\* Mutant: the handler enqueued is the one after the handler started.
Admit_EnqueuesTheNext ==
  /\ running = 0 /\ admitted < Len(sent)
  /\ Cardinality(InFlight) < Concurrency
  /\ admitted' = admitted + 1
  /\ pc' = [pc EXCEPT ![admitted + 1] = "entry"]
  /\ ready' = Append(ready, admitted + 2)
  /\ UNCHANGED <<sent, running, locals, store, gates, timeouts>>

Admit ==
  /\ running = 0 /\ admitted < Len(sent)
  /\ Cardinality(InFlight) < Concurrency
  /\ admitted' = admitted + 1
  /\ pc' = [pc EXCEPT ![admitted + 1] = "entry"]
  /\ ready' = Append(ready, admitted + 1)
  /\ UNCHANGED <<sent, running, locals, store, gates, timeouts>>

Poll ==
  /\ running = 0 /\ ready # <<>>
  /\ running' = Head(ready)
  /\ ready' = Tail(ready)
  /\ UNCHANGED <<sent, admitted, pc, locals, store, gates, timeouts>>

At(h, labels) == running = h /\ pc[h] \in labels
StepTo(h, label) == pc' = [pc EXCEPT ![h] = label] /\ running' = h
ParkAt(h, label) == pc' = [pc EXCEPT ![h] = label] /\ running' = 0
\* An await that may be ready at once: the handler runs on, or is suspended.
Await(h, label) == StepTo(h, label) \/ ParkAt(h, label)

\* The orders in which a set of waiters can be enqueued.
Orders(W) == {s \in [1..Cardinality(W) -> W] : \A i, j \in 1..Cardinality(W) : s[i] = s[j] => i = j}

\* The waiters notified when what h holds is dropped.
Woken(h) ==
  {w \in InFlight \ {h} :
     \/ HoldsRoot(h) /\ pc[w] = "rootwait"
     \/ HoldsSetup(h) /\ pc[w] = "docwait" /\ arc[w] = arc[h]}

\* Mutant: a handler that ends clears root_setup, whoever holds it.
Leave_ReleasesAlways(h, how) ==
  /\ pc' = [pc EXCEPT ![h] = how]
  /\ running' = 0
  /\ root' = FALSE
  /\ setup' = IF HoldsSetup(h) THEN setup \ {arc[h]} ELSE setup
  /\ notified' = (notified \cup Woken(h)) \ {h}
  /\ \E order \in Orders(Woken(h) \ Queued) : ready' = ready \o order

\* Mutant: dropping a blocker does not clear root_setup.
Leave_KeepsRootBlocked(h, how) ==
  /\ pc' = [pc EXCEPT ![h] = how]
  /\ running' = 0
  /\ root' = root
  /\ setup' = IF HoldsSetup(h) THEN setup \ {arc[h]} ELSE setup
  /\ notified' = (notified \cup Woken(h)) \ {h}
  /\ \E order \in Orders(Woken(h) \ Queued) : ready' = ready \o order

\* The handler ends: what it holds is dropped, which clears the flag and
\* notifies every waiter, and its slot is free.
Leave(h, how) ==
  /\ pc' = [pc EXCEPT ![h] = how]
  /\ running' = 0
  /\ root' = (root /\ ~HoldsRoot(h))
  /\ setup' = IF HoldsSetup(h) THEN setup \ {arc[h]} ELSE setup
  /\ notified' = (notified \cup Woken(h)) \ {h}
  /\ \E order \in Orders(Woken(h) \ Queued) : ready' = ready \o order

-----------------------------------------------------------------------------
(* initialized                                                             *)

RegisterCapability(h) ==
  /\ At(h, {"entry"}) /\ Kind(h) = "initialized" /\ Registers
  /\ ParkAt(h, "regcap")
  /\ UNCHANGED <<sent, admitted, ready, locals, store, gates, timeouts>>

\* block_unchecked: root_setup was created blocked, so nothing changes.
ForceBlockRoot(h) ==
  /\ At(h, IF Registers THEN {"regcap"} ELSE {"entry"}) /\ Kind(h) = "initialized"
  /\ StepTo(h, "roots")
  /\ UNCHANGED <<sent, admitted, ready, locals, store, gates, timeouts>>

AddRoots(h) ==
  /\ At(h, {"roots"})
  /\ rooted' = rooted \cup Workspace
  /\ Leave(h, "done")
  /\ UNCHANGED <<sent, admitted, locals, docs, ast, timeouts>>

-----------------------------------------------------------------------------
(* Semaphore::wait on root_setup                                           *)

\* Mutant: no handler waits for root_setup.
WaitForRoot_DoesNotWait(h) ==
  /\ At(h, {"entry"}) /\ Kind(h) \notin {"initialized", "close", "code_action"}
  /\ StepTo(h, "gate")
  /\ UNCHANGED <<sent, admitted, ready, locals, store, gates, timeouts>>

\* Mutant: did_change does not wait for root_setup.
WaitForRoot_EditsDoNotWait(h) ==
  /\ At(h, {"entry"}) /\ Kind(h) \notin {"initialized", "close", "code_action"}
  /\ IF root /\ Kind(h) \notin EditKinds THEN ParkAt(h, "rootwait") ELSE StepTo(h, "gate")
  /\ UNCHANGED <<sent, admitted, ready, locals, store, gates, timeouts>>

WaitForRoot(h) ==
  /\ At(h, {"entry"}) /\ Kind(h) \notin {"initialized", "close", "code_action"}
  /\ IF root THEN ParkAt(h, "rootwait") ELSE StepTo(h, "gate")
  /\ UNCHANGED <<sent, admitted, ready, locals, store, gates, timeouts>>

\* Mutant: a waiter goes on when WAIT_LIMIT elapses, set or not.
RootWaitPolled_GivesUp(h) ==
  /\ At(h, {"rootwait"})
  /\ StepTo(h, "gate")
  /\ notified' = notified \ {h}
  /\ UNCHANGED <<sent, admitted, ready, locals, store, root, setup, timeouts>>

\* Mutant: a notified waiter looks again only when WAIT_LIMIT elapses.
RootWaitPolled_MissesNotification(h) ==
  /\ At(h, {"rootwait"})
  /\ IF root \/ h \in notified THEN ParkAt(h, "rootwait") ELSE StepTo(h, "gate")
  /\ notified' = notified \ {h}
  /\ UNCHANGED <<sent, admitted, ready, locals, store, root, setup, timeouts>>

\* A notified waiter returns without looking at the flag again; one whose
\* WAIT_LIMIT elapsed looks, and waits again while it is set.
RootWaitPolled(h) ==
  /\ At(h, {"rootwait"})
  /\ IF root /\ h \notin notified THEN ParkAt(h, "rootwait") ELSE StepTo(h, "gate")
  /\ notified' = notified \ {h}
  /\ UNCHANGED <<sent, admitted, ready, locals, store, root, setup, timeouts>>

-----------------------------------------------------------------------------
(* did_open, and on_change for it                                          *)

\* Semaphore::block, and the early return for an unknown language, which
\* drops the blocker at once.
BlockRoot(h) ==
  /\ At(h, {"gate"}) /\ Kind(h) = "open"
  /\ \/ /\ root
        /\ Leave(h, "blockPanic")
     \/ /\ ~root /\ Doc(h) \notin Supported
        /\ Leave(h, "done")
     \/ /\ ~root /\ Doc(h) \in Supported
        /\ root' = TRUE
        /\ IF Progress THEN ParkAt(h, "wdp") ELSE StepTo(h, "insert")
        /\ UNCHANGED <<ready, setup, notified>>
  /\ UNCHANGED <<sent, admitted, locals, store, timeouts>>

InsertDocument(h) ==
  /\ At(h, {"wdp", "insert"})
  /\ docs' = [docs EXCEPT ![Doc(h)] = [inst |-> h, text |-> WholeText(h)]]
  /\ IF Doc(h) \in rooted THEN StepTo(h, "addroot") ELSE Await(h, "addroot")
  /\ UNCHANGED <<sent, admitted, ready, locals, ast, rooted, gates, timeouts>>

ChangeOnOpen(h) ==
  LET d == Doc(h)  inst == docs[d].inst IN
  /\ At(h, {"addroot"})
  /\ rooted' = rooted \cup ({d} \cap Addable)
  /\ \/ /\ ~Present(d)
        /\ Leave(h, "missingPanic")
        /\ UNCHANGED <<docs, locals>>
     \/ /\ Present(d)
        /\ docs' = [docs EXCEPT ![d].text = WholeText(h)]
        /\ \/ /\ d \notin rooted'
              /\ Leave(h, "failed")
              /\ UNCHANGED locals
           \/ /\ d \in rooted' /\ inst \in setup
              /\ Leave(h, "blockPanic")
              /\ UNCHANGED locals
           \/ /\ d \in rooted' /\ inst \notin setup
              /\ setup' = setup \cup {inst}
              /\ arc' = [arc EXCEPT ![h] = inst]
              /\ rope' = [rope EXCEPT ![h] = WholeText(h)]
              /\ Await(h, "load")
              /\ UNCHANGED <<ready, root, notified>>
  /\ UNCHANGED <<sent, admitted, ast, timeouts>>

\* Mutant: did_open does not store the tree it parsed.
AnalyseOnOpen_SkipsTree(h) ==
  LET d == Doc(h) IN
  /\ At(h, {"load"}) /\ Kind(h) = "open"
  /\ IF Present(d)
       THEN ast' = ast /\ Leave(h, "done")
       ELSE Leave(h, "missingPanic") /\ UNCHANGED ast
  /\ UNCHANGED <<sent, admitted, docs, rooted, locals, timeouts>>

AnalyseOnOpen(h) ==
  LET d == Doc(h) IN
  /\ At(h, {"load"}) /\ Kind(h) = "open"
  /\ IF Present(d)
       THEN ast' = [ast EXCEPT ![d] = rope[h]] /\ Leave(h, "done")
       ELSE Leave(h, "missingPanic") /\ UNCHANGED ast
  /\ UNCHANGED <<sent, admitted, docs, rooted, locals, timeouts>>

-----------------------------------------------------------------------------
(* await_did_open_document!: did_close, did_change with deltas and most    *)
(* requests wait for the document on_change is still setting up.           *)

AwaitsDocumentAt(h) ==
  CASE Kind(h) = "close" -> {"entry"}
    [] Kind(h) = "references" -> {"load"}
    [] Kind(h) \in {"delta", "completion", "hover", "goto_definition"} -> {"gate"}
    [] OTHER -> {}

\* Mutant: a document still being set up is not waited for.
WaitForDocument_DoesNotWait(h) ==
  /\ At(h, AwaitsDocumentAt(h))
  /\ StepTo(h, "opened") /\ UNCHANGED arc
  /\ UNCHANGED <<sent, admitted, ready, rope, store, gates, timeouts>>

WaitForDocument(h) ==
  LET inst == docs[Doc(h)].inst IN
  /\ At(h, AwaitsDocumentAt(h))
  /\ IF Present(Doc(h)) /\ inst \in setup
       THEN ParkAt(h, "docwait") /\ arc' = [arc EXCEPT ![h] = inst]
       ELSE StepTo(h, "opened") /\ UNCHANGED arc
  /\ UNCHANGED <<sent, admitted, ready, rope, store, gates, timeouts>>

DocumentWaitPolled(h) ==
  /\ At(h, {"docwait"})
  /\ IF arc[h] \in setup /\ h \notin notified THEN ParkAt(h, "docwait") ELSE StepTo(h, "opened")
  /\ notified' = notified \ {h}
  /\ UNCHANGED <<sent, admitted, ready, locals, store, root, setup, timeouts>>

-----------------------------------------------------------------------------
(* did_change and on_change for it: no await once it has waited.           *)

\* on_change of an open document whose text is already updated: it takes and
\* drops the document's blocker, then analyses.  update_ast looks a delta's
\* tree up by URI path but stores trees by file path.
Analyse(h, parses) ==
  LET d == Doc(h) IN
  \/ d \notin rooted /\ Leave(h, "failed") /\ UNCHANGED ast
  \/ d \in rooted /\ docs[d].inst \in setup /\ Leave(h, "blockPanic") /\ UNCHANGED ast
  \/ d \in rooted /\ docs[d].inst \notin setup /\ ~parses /\ Leave(h, "failed") /\ UNCHANGED ast
  \/ /\ d \in rooted /\ docs[d].inst \notin setup /\ parses
     /\ ast' = [ast EXCEPT ![d] = docs'[d].text]
     /\ Leave(h, "done")

\* Mutant: a whole text is added to the rope instead of replacing it.
ChangeFull_Appends(h) ==
  LET d == Doc(h) IN
  /\ At(h, {"gate"}) /\ Kind(h) = "full"
  /\ \/ /\ ~Present(d)
        /\ Leave(h, "missingPanic")
        /\ UNCHANGED <<docs, ast>>
     \/ /\ Present(d)
        /\ docs' = [docs EXCEPT ![d].text = WithEdit(@, h)]
        /\ Analyse(h, TRUE)
  /\ UNCHANGED <<sent, admitted, rooted, locals, timeouts>>

ChangeFull(h) ==
  LET d == Doc(h) IN
  /\ At(h, {"gate"}) /\ Kind(h) = "full"
  /\ \/ /\ ~Present(d)
        /\ Leave(h, "missingPanic")
        /\ UNCHANGED <<docs, ast>>
     \/ /\ Present(d)
        /\ docs' = [docs EXCEPT ![d].text = WholeText(h)]
        /\ Analyse(h, TRUE)
  /\ UNCHANGED <<sent, admitted, rooted, locals, timeouts>>

ChangeDelta(h) ==
  LET d == Doc(h) IN
  /\ At(h, {"opened"}) /\ Kind(h) = "delta"
  /\ \/ /\ ~Present(d)
        /\ Leave(h, "missingPanic")
        /\ UNCHANGED <<docs, ast>>
     \/ /\ Present(d)
        /\ docs' = [docs EXCEPT ![d].text = WithEdit(@, h)]
        /\ Analyse(h, ast[d] # NoText /\ d \notin Encoded)
  /\ UNCHANGED <<sent, admitted, rooted, locals, timeouts>>

-----------------------------------------------------------------------------
(* did_close                                                               *)

\* Mutant: did_close removes the document but not its tree.
Close_KeepsTree(h) ==
  /\ At(h, {"opened"}) /\ Kind(h) = "close"
  /\ docs' = [docs EXCEPT ![Doc(h)] = [inst |-> 0, text |-> NoText]]
  /\ ast' = ast
  /\ Leave(h, "done")
  /\ UNCHANGED <<sent, admitted, rooted, locals, timeouts>>

Close(h) ==
  /\ At(h, {"opened"}) /\ Kind(h) = "close"
  /\ docs' = [docs EXCEPT ![Doc(h)] = [inst |-> 0, text |-> NoText]]
  /\ ast' = [ast EXCEPT ![Doc(h)] = NoText]
  /\ Leave(h, "done")
  /\ UNCHANGED <<sent, admitted, rooted, locals, timeouts>>

-----------------------------------------------------------------------------
(* The requests: completion and references load dependent modules, before  *)
(* or after waiting for the document; code_action never waits.             *)

LoadDependents(h) ==
  /\ \/ At(h, {"opened"}) /\ Kind(h) = "completion" /\ Doc(h) \in rooted
     \/ At(h, {"gate"}) /\ Kind(h) = "references" /\ Doc(h) \in rooted
  /\ Await(h, "load")
  /\ UNCHANGED <<sent, admitted, ready, locals, store, gates, timeouts>>

AnswersAt(h) ==
  CASE Kind(h) = "completion" -> IF Doc(h) \in rooted THEN {"load"} ELSE {"opened"}
    [] Kind(h) = "references" -> IF Doc(h) \in rooted THEN {"opened"} ELSE {"gate"}
    [] Kind(h) \in {"hover", "goto_definition"} -> {"opened"}
    [] Kind(h) = "code_action" -> {"entry"}
    [] OTHER -> {}

\* The request declines to answer: no document, no module, or still set up.
Declines(h) ==
  \/ ~Present(Doc(h)) /\ Kind(h) # "goto_definition"
  \/ Kind(h) \in {"completion", "references"} /\ Doc(h) \notin rooted
  \/ Kind(h) = "code_action" /\ root
  \/ Kind(h) \in {"code_action", "goto_definition"} /\ Present(Doc(h)) /\ docs[Doc(h)].inst \in setup

Answer(h) ==
  /\ At(h, AnswersAt(h))
  /\ \/ Declines(h) /\ Leave(h, "empty") /\ UNCHANGED rope
     \/ ~Declines(h) /\ ~Present(Doc(h)) /\ Leave(h, "missingPanic") /\ UNCHANGED rope
     \/ /\ ~Declines(h) /\ Present(Doc(h))
        /\ rope' = [rope EXCEPT ![h] = docs[Doc(h)].text]
        /\ Leave(h, "done")
  /\ UNCHANGED <<sent, admitted, arc, store, timeouts>>

-----------------------------------------------------------------------------
(* What happens around the handlers.                                       *)

Suspended(h) == running = 0 /\ h \in InFlight /\ h \notin Queued

Wake(h) ==
  /\ ready' = Append(ready, h)
  /\ UNCHANGED <<sent, admitted, pc, running, locals, store, gates, timeouts>>

\* The client answers client/registerCapability or window/workDoneProgress/create.
ClientReplies(h) == Suspended(h) /\ pc[h] \in {"regcap", "wdp"} /\ Wake(h)
\* try_exists returns, or the last task of a module's JoinSet ends.
WorkCompletes(h) == Suspended(h) /\ pc[h] \in {"addroot", "load"} /\ Wake(h)
\* The 2 second sleep of Semaphore::wait ends.
WaitLimitElapses(h) == Suspended(h) /\ pc[h] \in {"rootwait", "docwait"} /\ Wake(h)

\* Mutant: a handler that is dropped leaves its semaphores blocked.
Drop_KeepsBlockers(h) == /\ pc' = [pc EXCEPT ![h] = "dropped"] /\ running' = 0
  /\ UNCHANGED <<sent, admitted, ready, locals, store, gates>>

Drop(h) == Leave(h, "dropped") /\ UNCHANGED <<sent, admitted, locals, store>>

\* Mutant: a handler can time out before an older one.
Timeout_InAnyOrder(h) ==
  /\ Suspended(h) /\ timeouts < MaxTimeouts
  /\ timeouts' = timeouts + 1
  /\ Drop(h)

\* TimeoutLayer: deadlines are set when messages are read, so they pass in
\* the order of the messages; a handler that was woken is polled first.
Timeout(h) ==
  /\ Suspended(h) /\ timeouts < MaxTimeouts
  /\ \A g \in InFlight : h <= g
  /\ timeouts' = timeouts + 1
  /\ Drop(h)

\* $/cancelRequest aborts a request; notifications cannot be cancelled.
Cancel(h) == Suspended(h) /\ Kind(h) \in QueryKinds /\ Drop(h) /\ UNCHANGED timeouts

-----------------------------------------------------------------------------

Init ==
  /\ sent = <<[kind |-> "initialized", doc |-> NoDoc]>>
  /\ admitted = 0 /\ running = 0 /\ ready = <<>> /\ timeouts = 0
  /\ pc = [h \in Ids |-> "queued"]
  /\ root = TRUE                                    \* init_semaphore
  /\ setup = {} /\ notified = {}
  /\ arc = [h \in Ids |-> 0]
  /\ rope = [h \in Ids |-> NoText]
  /\ docs = [d \in Docs |-> [inst |-> 0, text |-> NoText]]
  /\ ast = [d \in Docs |-> NoText]
  /\ rooted = {}

Handler(h) ==
  \/ RegisterCapability(h) \/ ForceBlockRoot(h) \/ AddRoots(h)
  \/ WaitForRoot(h) \/ RootWaitPolled(h)
  \/ BlockRoot(h) \/ InsertDocument(h) \/ ChangeOnOpen(h) \/ AnalyseOnOpen(h)
  \/ WaitForDocument(h) \/ DocumentWaitPolled(h)
  \/ ChangeFull(h) \/ ChangeDelta(h) \/ Close(h)
  \/ LoadDependents(h) \/ Answer(h)

ClientSends == \E k \in {"open", "close"} \cup EditKinds \cup Queries, d \in Docs : Send(k, d)
Environment(h) == ClientReplies(h) \/ WorkCompletes(h) \/ WaitLimitElapses(h) \/ Timeout(h) \/ Cancel(h)

Next ==
  \/ ClientSends
  \/ Admit
  \/ Poll
  \/ \E h \in 1..admitted : Handler(h)
  \/ \E h \in 1..admitted : Environment(h)

Spec == Init /\ [][Next]_vars

\* The executor polls what is ready and a handler that is polled moves.  Work
\* that ends and answers that arrive stay so until a poll between handlers sees
\* them: strong fairness.  That WAIT_LIMIT elapses is not assumed: the
\* notifications alone have to release the waiters.
ServerFairness ==
  /\ WF_vars(Admit) /\ WF_vars(Poll)
  /\ WF_vars(\E h \in 1..admitted : Handler(h))
  /\ \A h \in Ids : SF_vars(h <= admitted /\ WorkCompletes(h))
\* A client answers, or the timeout drops the handler that asked.
AnswerFairness ==
  \A h \in Ids :
    SF_vars(h <= admitted /\ pc[h] \in {"regcap", "wdp"} /\ (ClientReplies(h) \/ Timeout(h)))

LiveSpec == Spec /\ ServerFairness /\ AnswerFairness

-----------------------------------------------------------------------------
(* Properties                                                              *)

Messages == [kind: {"initialized"}, doc: {NoDoc}] \cup [kind: Kinds \ {"initialized"}, doc: Docs]

\* Types of the state server.rs and backend.rs keep for the handlers.
TypeOK ==
  /\ sent \in Seq(Messages) /\ Len(sent) \in 1..MaxMessages
  /\ admitted \in 0..Len(sent) /\ running \in 0..admitted
  /\ pc \in [Ids -> Labels]
  /\ ready \in Seq(1..admitted)
  /\ notified \in SUBSET Ids /\ root \in BOOLEAN /\ setup \in SUBSET Ids
  /\ arc \in [Ids -> 0..MaxMessages] /\ rope \in [Ids -> Texts]
  /\ docs \in [Docs -> [inst: 0..MaxMessages, text: Texts]] /\ ast \in [Docs -> Texts]
  /\ rooted \in SUBSET Docs /\ timeouts \in 0..MaxTimeouts

\* At most one handler holds a blocker on root_setup, and while one does the
\* flag is set: no drop of a stale blocker re-opens the gate under another
\* holder (Semaphore::block and Blocker::drop).
RootExclusive ==
  /\ \A g, h \in InFlight : HoldsRoot(g) /\ HoldsRoot(h) => g = h
  /\ \A h \in InFlight : HoldsRoot(h) => root

\* Semaphore::block never finds its flag set: a handler that has been through
\* wait() may block, although wait() returns without looking again.
NoBlockPanic == \A h \in Ids : pc[h] # "blockPanic"

\* A handler that relies on a document finds it ("Did not build a document",
\* "(on_change) did not build document", "Bug: did not build a document").
NoMissingDocument == \A h \in Ids : pc[h] # "missingPanic"

\* did_open builds the document on_change is about to look up.
OpenFindsDocument == \A h \in 1..Len(sent) : Kind(h) = "open" => pc[h] # "missingPanic"

Touches(m, d) == Doc(m) = d /\ Kind(m) \in DocumentKinds

\* The text of a document is the client's text at some moment: no edit is
\* lost, doubled, reordered or applied to the text of another session, in
\* whatever order the handlers of did_open, did_change and did_close ran.
Faithful(t, d) ==
  /\ t.base \in 1..Len(sent) /\ Doc(t.base) = d /\ Kind(t.base) \in {"open", "full"}
  /\ \A i \in DOMAIN t.edits : Doc(t.edits[i]) = d /\ Kind(t.edits[i]) = "delta"
  /\ {m \in (t.base + 1)..Latest(t) : Touches(m, d)} = {t.edits[i] : i \in DOMAIN t.edits}
  /\ \A i, j \in DOMAIN t.edits : i < j => t.edits[i] < t.edits[j]
TextFaithful == \A d \in Docs : Present(d) => Faithful(docs[d].text, d)

\* What analysis parsed is the document's text: the rope on_change clones for
\* did_open before it awaits load_modules_for_document is not outdated when
\* it is analysed after, and no change skips the tree.
OpenInFlight(d) == \E h \in InFlight : Kind(h) = "open" /\ Doc(h) = d
AnalysisFresh ==
  \A d \in Docs : Present(d) /\ ~OpenInFlight(d) /\ ast[d] # NoText => ast[d] = docs[d].text

\* Once nothing is left to do and nothing was given up, a supported document
\* the client has open, in a module the index has a root for, is held with all
\* its edits, analysed.
Settled == admitted = Len(sent) /\ InFlight = {}
SettledInSync ==
  Settled /\ timeouts = 0 => \A d \in Supported \cap rooted : IsOpen(d) =>
    /\ Present(d)
    /\ \A m \in docs[d].inst..Len(sent) : Touches(m, d) => m <= Latest(docs[d].text)
    /\ ast[d] = docs[d].text

\* A document the client has closed does not stay in the store.
ClosedForgotten == Settled => \A d \in Docs : ~IsOpen(d) => ~Present(d) /\ ast[d] = NoText

\* An answer is computed from a text that has every edit the client made
\* before it asked.
ReadsOwnWrites ==
  \A h \in 1..Len(sent) : Kind(h) \in QueryKinds /\ pc[h] = "done" =>
    \A m \in 1..h : Touches(m, Doc(h)) /\ Kind(m) # "close" => m <= Latest(rope[h])

\* Every message the client sends is handled to its end: no wakeup of
\* Blocker::drop is lost, and no two handlers wait for each other.
EveryMessageHandled == \A h \in Ids : h <= Len(sent) ~> pc[h] \in Terminal

\* root_setup never stays blocked: a did_open that waits for a client that
\* never answers is dropped, and with it its blocker.
RootReleased == root ~> ~root

-----------------------------------------------------------------------------
(* Why Semaphore::block never panics: the inductive strengthening of       *)
(* RootExclusive and NoBlockPanic.                                         *)

\* Which handlers reach which point.
Fits(label, kind) ==
  /\ label # "queued"
  /\ label \in {"regcap", "roots"} => kind = "initialized"
  /\ label \in {"wdp", "insert", "addroot"} => kind = "open"
  /\ label \in {"rootwait", "gate"} => kind \notin {"initialized", "close", "code_action"}
  /\ label = "load" => kind \in {"open", "completion", "references"}
Stages ==
  /\ \A h \in 1..Len(sent) : Kind(h) = "initialized" <=> h = 1
  /\ \A h \in Ids : h > admitted => pc[h] = "queued"
  /\ \A h \in 1..admitted : Fits(pc[h], Kind(h))

\* The poll queue holds suspended handlers in flight, each once.
Queueing ==
  /\ running # 0 => running \in InFlight
  /\ \A i \in DOMAIN ready : ready[i] \in InFlight /\ ready[i] # running
  /\ \A i, j \in DOMAIN ready : ready[i] = ready[j] => i = j
  /\ \A h \in notified : pc[h] \in {"rootwait", "docwait"}

\* root_setup is blocked from the start until initialized lets go of it.
RootFromStart ==
  pc[1] \in {"queued", "entry", "regcap"} => root /\ \A h \in InFlight : ~HoldsRoot(h)

\* A document's setup is blocked only by the did_open that loads for it.
SetupHeld == \A i \in setup : \E g \in InFlight : HoldsSetup(g) /\ arc[g] = i

SlotsBounded == Cardinality(InFlight) <= Concurrency

\* With two slots, a waiter that was notified is polled before any handler
\* that could block root_setup again, and a handler past the gate has not
\* awaited anything since it saw the flag clear.
GateOpen ==
  /\ \A h \in 1..admitted :
       /\ pc[h] = "gate" => running = h /\ ~root
       /\ pc[h] = "opened" /\ Kind(h) = "delta" => running = h /\ ~root
       /\ pc[h] = "docwait" => Kind(h) \in {"close", "references"}
  /\ \A h \in notified : pc[h] = "rootwait" =>
       /\ ~root /\ running \in {0, h}
       /\ running = 0 => ready # <<>> /\ Head(ready) = h

\* The blockers are exclusive, for any number of slots.
BlockerInv == Stages /\ Queueing /\ RootExclusive /\ RootFromStart /\ SetupHeld
\* Nothing panics in Semaphore::block, when there are two slots.
GateInv == BlockerInv /\ SlotsBounded /\ GateOpen /\ NoBlockPanic

\* The document store changes as DocumentStore promises.
Store == INSTANCE DocumentStore WITH text <- [d \in Docs |-> docs[d].text]
StoreSpec == Store!Spec

=============================================================================
