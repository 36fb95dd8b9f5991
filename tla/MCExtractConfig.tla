--------------------------- MODULE MCExtractConfig ---------------------------
(***************************************************************************)
(* An instance of ExtractConfig for TLC: two extractions of two members    *)
(* each, and other programs that act three times at the destination.       *)
(***************************************************************************)
EXTENDS ExtractConfig, TLC

Symmetry == Permutations(Extractors) \cup Permutations(Files)
=============================================================================
