--------------------------- MODULE AtomicDirectory ---------------------------
(***************************************************************************)
(* What extract-config promises about its output directory: it appears     *)
(* with all of its files at once, it takes nobody else's place, and        *)
(* success is reported only by the extraction that put it there.           *)
(***************************************************************************)
CONSTANTS Extractors, Absent, Empty, Foreign

VARIABLES dest,      \* Absent, Empty, Foreign, or the extraction whose files it holds
          placed,    \* extractions that have put their directory there
          outcome    \* extraction -> "pending", "ok" or "error"

vars == <<dest, placed, outcome>>

Init == /\ dest \in {Absent, Empty, Foreign} /\ placed = {}
        /\ outcome = [e \in Extractors |-> "pending"]

\* Others make, fill and remove directories as they please.
Others == /\ dest' \in {Absent, Empty, Foreign}
          /\ UNCHANGED <<placed, outcome>>

Place(e) == /\ dest \in {Absent, Empty} /\ outcome[e] = "pending" /\ e \notin placed
            /\ dest' = e /\ placed' = placed \cup {e} /\ UNCHANGED outcome

Succeed(e) == /\ e \in placed /\ outcome[e] = "pending"
              /\ outcome' = [outcome EXCEPT ![e] = "ok"] /\ UNCHANGED <<dest, placed>>

Fail(e) == /\ e \notin placed /\ outcome[e] = "pending"
           /\ outcome' = [outcome EXCEPT ![e] = "error"] /\ UNCHANGED <<dest, placed>>

Next == Others \/ \E e \in Extractors : Place(e) \/ Succeed(e) \/ Fail(e)

Spec == Init /\ [][Next]_vars
=============================================================================
