-------------------------- MODULE MCLanguageServer --------------------------
(* Instances of LanguageServer for TLC: two interchangeable documents.     *)
EXTENDS DocumentOrder, TLC

Interchangeable == Permutations(Docs)

=============================================================================
