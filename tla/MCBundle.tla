------------------------------ MODULE MCBundle ------------------------------
(***************************************************************************)
(* Instances of Bundle for TLC: two ordinary configuration files and one   *)
(* whose name is unsafe; a manifest that is full in the per-database mode  *)
(* as soon as both files are captured.                                     *)
(***************************************************************************)
EXTENDS Bundle, TLC

CONSTANTS plainA, plainB, unsafe

MCConfigNames == {plainA, plainB, unsafe}
MCUnsafe == {unsafe}
Symmetry == Permutations({plainA, plainB})
=============================================================================
