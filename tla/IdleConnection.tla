--------------------------- MODULE IdleConnection ---------------------------
(***************************************************************************)
(* idleConn (internal/storage/http.go): one goroutine sends a request and  *)
(* another already reads the response on the same connection.  Every Read  *)
(* and Write sets both deadlines when it starts and again when it has      *)
(* moved bytes, so that only inactivity of the connection as a whole, and  *)
(* of one request, ends it.  Time is counted in ticks.                     *)
(***************************************************************************)
EXTENDS Naturals

CONSTANTS Timeout,  \* idleTimeout in ticks
          None      \* no deadline

ASSUME TimeoutAssumption == Timeout \in Nat \ {0} /\ None \notin Nat

Directions == {"read", "write"}

VARIABLES left,   \* direction -> ticks until its deadline, or None
          call,   \* direction -> "none", "pending" or "expired"
          idle    \* history: ticks without activity of the request

vars == <<left, call, idle>>

Init == /\ left = [d \in Directions |-> None] /\ call = [d \in Directions |-> "none"]
        /\ idle = 0

Open == \A d \in Directions : call[d] # "expired"

\* SetDeadline of the direction that called, or of both.
RefreshOne(d) == [left EXCEPT ![d] = Timeout]
RefreshBoth(d) == [e \in Directions |-> Timeout]

BeforeNothing(d) == left
Before(d) == RefreshBoth(d)
After(d) == RefreshBoth(d)

Start(d) ==
  /\ Open /\ call[d] = "none"
  /\ call' = [call EXCEPT ![d] = "pending"] /\ left' = Before(d) /\ idle' = 0

\* The call returns n > 0 bytes.
Move(d) ==
  /\ Open /\ call[d] = "pending"
  /\ call' = [call EXCEPT ![d] = "none"] /\ left' = After(d) /\ idle' = 0

\* The call returns nothing: the end of the stream, or an error.
ReturnEmpty(d) ==
  /\ Open /\ call[d] = "pending"
  /\ call' = [call EXCEPT ![d] = "none"] /\ UNCHANGED <<left, idle>>

Expire(d) ==
  /\ call[d] = "pending" /\ left[d] = 0
  /\ call' = [call EXCEPT ![d] = "expired"] /\ UNCHANGED <<left, idle>>

\* Traffic of other requests; without HTTP/2 a connection carries one request.
Multiplexed == {TRUE, FALSE}
OtherTraffic == {FALSE}

\* An expired deadline is noticed before time goes on.
Tick ==
  /\ Open /\ ~\E d \in Directions : call[d] = "pending" /\ left[d] = 0
  /\ \E busy \in OtherTraffic :
       left' = [d \in Directions |-> IF busy THEN Timeout
                                     ELSE IF left[d] \in {None, 0} THEN left[d]
                                     ELSE left[d] - 1]
  /\ idle' = IF idle > Timeout THEN idle ELSE idle + 1
  /\ UNCHANGED call

Closed == ~Open /\ UNCHANGED vars

Next == \/ Tick \/ Closed
        \/ \E d \in Directions : Start(d) \/ Move(d) \/ ReturnEmpty(d) \/ Expire(d)

Spec == Init /\ [][Next]_vars

-----------------------------------------------------------------------------
(* Properties.                                                             *)

TypeOK == /\ left \in [Directions -> 0..Timeout \cup {None}]
          /\ call \in [Directions -> {"none", "pending", "expired"}]
          /\ idle \in 0..Timeout + 1

(***************************************************************************)
(* Only silence is cut off: when a call times out, nothing has started or  *)
(* moved in either direction for the whole timeout, so a progressing       *)
(* upload does not time out the read of its response (http.go:52-53).      *)
(***************************************************************************)
OnlySilenceIsCut ==
  \A d \in Directions : call[d] = "expired" => idle >= Timeout

(***************************************************************************)
(* A request whose peer falls silent in the middle of a call does not hang *)
(* longer than the timeout, whatever else goes on (http.go:14-23).         *)
(***************************************************************************)
SilenceIsCut == (\E d \in Directions : call[d] = "pending") => idle <= Timeout
=============================================================================
