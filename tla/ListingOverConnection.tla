------------------------ MODULE ListingOverConnection ------------------------
(***************************************************************************)
(* Store.List over a connection with the idle timeout: every page is a     *)
(* request whose answer the connection brings in one or more reads, and a  *)
(* connection that times out fails the listing (internal/storage/s3.go,    *)
(* internal/storage/http.go).                                              *)
(***************************************************************************)
EXTENDS Listing, IdleConnection

allVars == <<listVars, vars>>

AllInit == ListInit /\ Init

\* The rest of the response arrives: the page is complete.
Answer == Move("read") /\ NextPage

\* Bytes of the request, or of a response of which there is more to come.
Partial(d) == Listing /\ Move(d) /\ UNCHANGED listVars

\* The peer closes the connection, or a call on it fails.
Broken == /\ \E d \in Directions : ReturnEmpty(d)
          /\ Fails

TimedOut == ~Open /\ Fails /\ UNCHANGED vars

Canceled == Fails /\ UNCHANGED vars

Calls(d) == Listing /\ Start(d) /\ UNCHANGED listVars
Expires == Listing /\ (\E d \in Directions : Expire(d)) /\ UNCHANGED listVars
TimePasses == Listing /\ Tick /\ UNCHANGED listVars

Returns == Finish /\ UNCHANGED vars
Edits == (\E key \in Keys : Edit(key)) /\ UNCHANGED vars

Terminated == ~Listing /\ UNCHANGED allVars

AllNext == \/ Answer \/ Broken \/ TimedOut \/ Canceled \/ Returns \/ Edits
           \/ Expires \/ TimePasses \/ Terminated
           \/ \E d \in Directions : Partial(d) \/ Calls(d)

\* Time passes, the connection is read, and an error or a last page is acted
\* upon.  Nothing makes the server answer.
AllSpec == /\ AllInit /\ [][AllNext]_allVars
           /\ WF_allVars(TimePasses) /\ WF_allVars(Expires)
           /\ WF_allVars(Calls("read")) /\ WF_allVars(TimedOut)
           /\ WF_allVars(Returns)

-----------------------------------------------------------------------------
(* Properties.                                                             *)

(***************************************************************************)
(* A listing ends, whatever the server does with its tokens and whether or *)
(* not it answers, unless it feeds single bytes of one response forever    *)
(* (s3.go:183, http.go:14-23).                                             *)
(***************************************************************************)
Fed == \E d \in Directions : Move(d) /\ UNCHANGED list
EndsUnlessFed == []<><<Fed>>_allVars \/ <>(list.result # "none")
=============================================================================
