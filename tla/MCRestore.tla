----------------------------- MODULE MCRestore -----------------------------
(***************************************************************************)
(* An instance of Restore for TLC: a restore of everything, in two passes, *)
(* and one of a database, in one, share a host and a server.  The newest   *)
(* generation was made after a collection had been dropped, and the newest *)
(* key of the full backups is of the other file type.                      *)
(***************************************************************************)
EXTENDS Restore

CONSTANTS r1, r2

MCRuns == {r1, r2}
MCMode == [r \in MCRuns |-> IF r = r1 THEN "full" ELSE "data"]
MCPrefix == [r \in MCRuns |-> IF r = r1 THEN {1, 3} ELSE {2}]

Database == {"orders", "carts"}
MCScope == [full |-> Database, data |-> Database, auth |-> {}]
MCDumped == [gen \in 1..3 |-> IF gen = 3 THEN Database \ {"carts"} ELSE Database]
=============================================================================
