----------------------------- MODULE MCLifetime -----------------------------
(***************************************************************************)
(* An instance of Lifetime for TLC: three jobs, so that one can run, one   *)
(* find the lock taken and one start while the scheduler is being stopped. *)
(***************************************************************************)
EXTENDS Lifetime

MCJobs == 1..3
=============================================================================
