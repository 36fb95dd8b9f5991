--------------------------- MODULE MCConfigCapture ---------------------------
(***************************************************************************)
(* Instances of ConfigCapture for TLC: two names, two blocks a file, three *)
(* inode numbers, so that a name can be added, removed, replaced and given *)
(* a number that was in use before.                                        *)
(***************************************************************************)
EXTENDS ConfigCapture, TLC

\* Nothing depends on which inode number or which bytes it is.
Symmetry == Permutations(Inodes) \cup Permutations(Values)
=============================================================================
