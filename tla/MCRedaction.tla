---------------------------- MODULE MCRedaction ----------------------------
(***************************************************************************)
(* The instance of Redaction for TLC: secrets of two symbols that share    *)
(* one, a buffer of four symbols, and text long enough for an oversized    *)
(* line that holds a secret across the limit and has a line after it.      *)
(***************************************************************************)
EXTENDS Redaction

MCSymbols == {"p", "w", "x"}
MCSecrets == <<<<"p", "w">>, <<"w", "w">>>>
MCLimit == 4
MCMaxChunk == 3
MCMaxText == 7
=============================================================================
