--------------------------- MODULE AtomicPublish ---------------------------
(***************************************************************************)
(* What one backup of one database promises, seen from the bucket and from *)
(* the caller: the object appears whole or not at all, and the caller is   *)
(* told "ok" only about an object that is there.  A caller that was told   *)
(* "error", or that died before it was told anything, may still find the   *)
(* object: the request that publishes it can be answered after the client  *)
(* stopped listening.                                                      *)
(***************************************************************************)

VARIABLES object,   \* "absent" or "complete"
          outcome   \* "pending", "ok" or "error": what backupDatabase returned

vars == <<object, outcome>>

Init == object = "absent" /\ outcome = "pending"

Publish == object = "absent" /\ object' = "complete" /\ UNCHANGED outcome

Succeed == /\ object = "complete" /\ outcome = "pending"
           /\ outcome' = "ok" /\ UNCHANGED object

Fail == outcome = "pending" /\ outcome' = "error" /\ UNCHANGED object

Next == Publish \/ Succeed \/ Fail

Spec == Init /\ [][Next]_vars
=============================================================================
