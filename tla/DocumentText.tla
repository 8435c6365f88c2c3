---------------------------- MODULE DocumentText ----------------------------
(* The messages that carry the text of documents, and texts made of them.  *)
EXTENDS Naturals, Sequences

CONSTANTS
  Docs,         \* the documents of the client
  NoDoc,        \* the document of a message that names none
  MaxMessages   \* bound: messages the client sends, `initialized' included

ASSUME TextAssumption == NoDoc \notin Docs /\ MaxMessages \in Nat \ {0}

EditKinds == {"delta", "full"}
DocumentKinds == {"open", "close"} \cup EditKinds

\* A message is named by its place in the order the client sent them.
Ids == 1..MaxMessages

\* A rope: the message that last gave the whole text, and the deltas since.
Texts == [base: 0..MaxMessages, edits: Seq(Ids)]
NoText == [base |-> 0, edits |-> <<>>]
WholeText(m) == [base |-> m, edits |-> <<>>]
WithEdit(t, m) == [t EXCEPT !.edits = Append(@, m)]

\* The last message whose text or change is in t.
Latest(t) == IF t.edits = <<>> THEN t.base ELSE t.edits[Len(t.edits)]

=============================================================================
