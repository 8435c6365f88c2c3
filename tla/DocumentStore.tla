--------------------------- MODULE DocumentStore ----------------------------
(***************************************************************************)
(* What the server promises of the open documents, whatever its handlers   *)
(* do in between: the text of a document goes through the texts the client *)
(* gave it, one message at a time and none skipped.                        *)
(***************************************************************************)
EXTENDS DocumentText

VARIABLES
  sent,   \* the messages of the client
  text    \* the text the server has for each document, or NoText

storeVars == <<sent, text>>

Touches(m, d) == sent[m].doc = d /\ sent[m].kind \in DocumentKinds
\* m is what the client sent about d right after what the server has.
Follows(m, d) == {k \in (Latest(text[d]) + 1)..m : Touches(k, d)} = {m}

Opens(d, m) ==
  /\ m > Latest(text[d]) /\ Touches(m, d) /\ sent[m].kind = "open"
  /\ text' = [text EXCEPT ![d] = WholeText(m)]
Replaces(d, m) ==
  /\ text[d] # NoText /\ Follows(m, d) /\ sent[m].kind = "full"
  /\ text' = [text EXCEPT ![d] = WholeText(m)]
Edits(d, m) ==
  /\ text[d] # NoText /\ Follows(m, d) /\ sent[m].kind = "delta"
  /\ text' = [text EXCEPT ![d] = WithEdit(@, m)]
Forgets(d, m) ==
  /\ text[d] # NoText /\ Follows(m, d) /\ sent[m].kind = "close"
  /\ text' = [text EXCEPT ![d] = NoText]

Init == sent = <<[kind |-> "initialized", doc |-> NoDoc]>> /\ text = [d \in Docs |-> NoText]

Next ==
  \/ Len(sent') = Len(sent) + 1 /\ SubSeq(sent', 1, Len(sent)) = sent /\ UNCHANGED text
  \/ /\ UNCHANGED sent
     /\ \E d \in Docs, m \in DOMAIN sent :
          Opens(d, m) \/ Replaces(d, m) \/ Edits(d, m) \/ Forgets(d, m)

Spec == Init /\ [][Next]_storeVars

=============================================================================
