------------------------- MODULE MCKnowledgeSearch -------------------------
(***************************************************************************)
(* A small instance of KnowledgeSearch: three chunks, one with an empty    *)
(* text, fetched in pages of one.                                          *)
(***************************************************************************)
EXTENDS KnowledgeSearch, TLC

Symmetry == Permutations(Build)
=============================================================================
