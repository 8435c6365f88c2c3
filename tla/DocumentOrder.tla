--------------------------- MODULE DocumentOrder ----------------------------
(***************************************************************************)
(* Why messages about documents take effect in the order they were sent,   *)
(* although nothing but the poll queue and two semaphores orders their     *)
(* handlers: the inductive strengthening of the properties of LanguageServer*)
(* that are about texts, trees and answers.  It is for the two slots of    *)
(* main.rs and a client that is not asked for progress.                    *)
(***************************************************************************)
EXTENDS LanguageServer

-----------------------------------------------------------------------------
(* Whose turn it is.                                                       *)

\* h has not yet done to its document, or read of it, what it is there for.
Waits(h) ==
  \/ pc[h] \in {"queued", "entry", "rootwait", "gate", "insert"}
  \/ pc[h] \in {"docwait", "opened"} /\ Kind(h) \notin {"completion", "references"}

\* Between these points a handler does not await anything.
Unsuspended ==
  \A h \in 1..admitted : /\ pc[h] \in {"roots", "gate", "insert", "opened"} => running = h
                         /\ pc[h] # "wdp"

\* Handlers are polled first in the order of their messages.
EntryOrder ==
  /\ \A h \in 1..admitted : pc[h] = "entry" => running = h \/ h \in Queued
  /\ \A i, j \in DOMAIN ready :
       i < j /\ pc[ready[i]] = "entry" /\ pc[ready[j]] = "entry" => ready[i] < ready[j]

\* root_setup is set because of a handler in flight, or for good.
RootHeld ==
  root => pc[1] \in {"queued", "dropped"} \/ \E g \in InFlight : HoldsRoot(g) \/ g = 1
\* A did_open that loads has blocked its document, not another.
SetupKept ==
  \A g \in InFlight : HoldsSetup(g) => arc[g] = g /\ g \in setup

\* Before initialized has added the roots nothing passes root_setup.
Starting ==
  pc[1] # "done" =>
    /\ root
    /\ \A d \in Docs : ~Present(d)
    /\ \A h \in 1..admitted :
         \/ h = 1 \/ pc[h] \in {"entry", "rootwait"} \cup Terminal
         \/ Kind(h) = "close" /\ pc[h] = "opened"

\* An older handler holds what h waits for.
HeldUp(h) ==
  /\ h \notin notified
  /\ \E g \in InFlight :
       /\ g < h
       /\ \/ pc[h] = "rootwait" /\ (HoldsRoot(g) \/ g = 1)
          \/ pc[h] = "docwait" /\ HoldsSetup(g) /\ arc[g] = arc[h]
\* h was notified and goes on before any other handler moves.
IsNext(h) ==
  /\ h \in notified /\ \A g \in InFlight : h <= g
  /\ running \in {0, h} /\ (running = 0 => ready # <<>> /\ Head(ready) = h)
Waiting(h) == pc[h] = "rootwait" \/ (pc[h] = "docwait" /\ Kind(h) = "close")
WaitersInTurn == \A h \in 1..admitted : Waiting(h) => HeldUp(h) \/ IsNext(h)

\* No handler gets past its first await before those of older messages have
\* had their effect.
InTurn ==
  \A a, b \in 1..admitted : Waits(a) /\ a < b => pc[b] = "entry" /\ running # b

TurnInv ==
  /\ Unsuspended /\ EntryOrder /\ RootHeld /\ SetupKept /\ Starting
  /\ pc[1] # "dropped" => WaitersInTurn /\ InTurn

-----------------------------------------------------------------------------
(* The documents.                                                          *)

\* The client opens what is not open, and names only what is.
LegalClient ==
  \A h \in 1..Len(sent) :
    LET Opened(o) == o < h /\ sent[o] = [kind |-> "open", doc |-> Doc(h)]
        ClosedSince(o) == \E c \in o..(h - 1) : sent[c] = [kind |-> "close", doc |-> Doc(h)]
    IN /\ Kind(h) = "open" => \A o \in 1..Len(sent) : Opened(o) => ClosedSince(o)
       /\ Kind(h) \notin {"initialized", "open"} =>
            \E o \in 1..Len(sent) : Opened(o) /\ ~ClosedSince(o)

\* A document in the store is of the last did_open handled, no did_close was
\* handled since, and its text has all that was handled since.
Session(d) ==
  LET inst == docs[d].inst  t == docs[d].text IN
  /\ inst \in 1..t.base /\ sent[inst] = [kind |-> "open", doc |-> d]
  /\ Faithful(t, d) /\ Latest(t) \in t.base..admitted /\ ~Waits(Latest(t))
  /\ \A m \in inst..Latest(t) : Touches(m, d) => Kind(m) # "close"
  /\ \A m \in 1..admitted : Touches(m, d) /\ Latest(t) < m => Waits(m)
Sessions ==
  \A d \in Docs : IF Present(d) THEN Session(d) ELSE docs[d].text = NoText /\ ast[d] = NoText

\* While did_open and its on_change await something, the text is the one they
\* were given, and nothing has been parsed.
OpenText(g) == docs[Doc(g)] = [inst |-> g, text |-> WholeText(g)] /\ ast[Doc(g)] = NoText
Opening ==
  \A g \in 1..admitted : Kind(g) = "open" =>
    /\ pc[g] = "addroot" => ~Present(Doc(g)) \/ OpenText(g)
    /\ pc[g] = "load" => OpenText(g) /\ rope[g] = WholeText(g) /\ Doc(g) \in rooted
\* A did_close that goes on finds no did_open loading for its document.
Closing ==
  \A g, h \in 1..admitted :
    Kind(h) = "close" /\ pc[h] = "opened" /\ Kind(g) = "open" /\ pc[g] = "load" => Doc(g) # Doc(h)

\* What was opened and not closed is in the store.
Held ==
  \A o \in 1..admitted :
    (/\ Kind(o) = "open" /\ Doc(o) \in Supported /\ ~Waits(o)
     /\ \A c \in o..admitted : sent[c] = [kind |-> "close", doc |-> Doc(o)] => Waits(c))
    => Present(Doc(o))

\* What is parsed is the text; and it is parsed unless did_open is about to.
Parsed ==
  \A d \in Docs : ast[d] # NoText => d \in rooted /\ (d \notin Encoded => ast[d] = docs[d].text)
Analysed ==
  timeouts = 0 =>
    /\ pc[1] # "dropped"
    /\ \A d \in rooted : Present(d) /\ ~OpenInFlight(d) => ast[d] # NoText

\* Where initialized adds every root, did_open does not await one and finds
\* its document.
RootedAtOnce ==
  /\ pc[1] = "done" => Workspace \subseteq rooted
  /\ \A h \in 1..admitted :
       pc[h] = "addroot" /\ Doc(h) \in Workspace => running = h /\ Present(Doc(h))

DocumentInv ==
  /\ LegalClient /\ Sessions /\ Opening /\ Closing /\ Parsed /\ Analysed /\ RootedAtOnce
  /\ pc[1] # "dropped" => Held

OrderInv == TurnInv /\ DocumentInv /\ ReadsOwnWrites

=============================================================================
