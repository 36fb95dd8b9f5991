-------------------- MODULE ListingOverConnectionProofs --------------------
(***************************************************************************)
(* Theorems about Listing, IdleConnection and their composition, for every *)
(* finite set of keys, every page size and every timeout.                  *)
(*                                                                         *)
(* The connection: a deadline and the silence so far add up to the         *)
(* timeout, at least for every deadline that is set, and exactly for a     *)
(* call that waits for it.                                                 *)
(*                                                                         *)
(* The listing: every key that was there all the time and is not behind    *)
(* the token has been listed.  A page is what the bucket has between the   *)
(* token and the greatest key of the page, so a new token keeps that; any  *)
(* other token ends the listing.                                           *)
(***************************************************************************)
EXTENDS ListingOverConnection, FiniteSetTheorems, WellFoundedInduction, TLAPS

-----------------------------------------------------------------------------
(* IdleConnection.                                                         *)

\* No deadline is nearer than the silence explains.
DeadlineNotEarly == \A d \in Directions : left[d] # None => left[d] + idle >= Timeout

\* A call that waits has a deadline, and it is not further away.
DeadlineNotLate ==
  \A d \in Directions : call[d] = "pending" => left[d] # None /\ left[d] + idle <= Timeout

IInv == TypeOK /\ DeadlineNotEarly /\ DeadlineNotLate /\ OnlySilenceIsCut

LEMMA InitInv == Init => IInv
BY TimeoutAssumption
   DEF Init, IInv, TypeOK, DeadlineNotEarly, DeadlineNotLate, OnlySilenceIsCut, Directions

\* The calls, and their ends by data, by nothing or by the deadline.
LEMMA CallInv ==
  ASSUME IInv, NEW d \in Directions,
         Start(d) \/ Move(d) \/ ReturnEmpty(d) \/ Expire(d)
  PROVE  IInv'
<1> USE TimeoutAssumption DEF IInv, TypeOK, DeadlineNotEarly, DeadlineNotLate,
        OnlySilenceIsCut, Open
<1>1. CASE Start(d) \/ Move(d)
  BY <1>1 DEF Start, Move, Before, After, RefreshBoth
<1>2. CASE ReturnEmpty(d)
  BY <1>2 DEF ReturnEmpty
<1>3. CASE Expire(d)
  BY <1>3 DEF Expire
<1>4. QED
  BY <1>1, <1>2, <1>3

\* Time takes from the deadlines what it adds to the silence.
LEMMA TickInv == ASSUME IInv, Tick PROVE IInv'
<1>1. /\ left' = [d \in Directions |-> IF left[d] \in {None, 0} THEN left[d] ELSE left[d] - 1]
      /\ idle' = IF idle > Timeout THEN idle ELSE idle + 1
      /\ call' = call
  BY DEF Tick, OtherTraffic
<1>2. \A d \in Directions : call[d] # "expired" /\ (call[d] = "pending" => left[d] # 0)
  BY DEF Tick, Open
<1>3. TypeOK'
  BY <1>1, TimeoutAssumption DEF IInv, TypeOK
<1>4. DeadlineNotEarly'
  BY <1>1, TimeoutAssumption DEF IInv, TypeOK, DeadlineNotEarly
<1>5. DeadlineNotLate'
  BY <1>1, <1>2, TimeoutAssumption DEF IInv, TypeOK, DeadlineNotLate
<1>6. OnlySilenceIsCut'
  BY <1>1, <1>2 DEF OnlySilenceIsCut
<1>7. QED
  BY <1>3, <1>4, <1>5, <1>6 DEF IInv

LEMMA StepInv == IInv /\ [Next]_vars => IInv'
<1>1. CASE UNCHANGED vars
  BY <1>1 DEF vars, IInv, TypeOK, DeadlineNotEarly, DeadlineNotLate, OnlySilenceIsCut
<1>2. QED
  BY <1>1, CallInv, TickInv DEF Next, Closed

THEOREM Invariance == Spec => []IInv
BY InitInv, StepInv, PTL DEF Spec

(***************************************************************************)
(* Type correctness.                                                       *)
(***************************************************************************)
THEOREM TypeCorrect == Spec => []TypeOK
BY Invariance, PTL DEF IInv

(***************************************************************************)
(* A call times out only after a whole timeout without activity of the     *)
(* request in either direction.                                            *)
(***************************************************************************)
THEOREM CutsOnlySilence == Spec => []OnlySilenceIsCut
BY Invariance, PTL DEF IInv

(***************************************************************************)
(* While a call waits the silence is never longer than the timeout.        *)
(***************************************************************************)
THEOREM CutsSilence == Spec => []SilenceIsCut
<1>1. IInv => SilenceIsCut
  BY TimeoutAssumption DEF IInv, TypeOK, DeadlineNotLate, SilenceIsCut
<1>2. QED
  BY <1>1, Invariance, PTL

-----------------------------------------------------------------------------
(* Pages.                                                                  *)

\* A finite set of numbers that is not empty has a greatest element: a minimal
\* counterexample loses an element and has one.
LEMMA GreatestExists ==
  ASSUME NEW S, S \subseteq Nat, IsFiniteSet(S), S # {}
  PROVE  \E m \in S : \A other \in S : other <= m
<1> DEFINE HasGreatest(U) == \E m \in U : \A other \in U : other <= m
           Counter == {U \in FiniteSubsetsOf(Nat) : U # {} /\ ~HasGreatest(U)}
<1>1. SUFFICES ASSUME S \in Counter PROVE FALSE
  BY DEF FiniteSubsetsOf
<1>2. PICK U \in Counter : \A V \in Counter : <<V, U>> \notin StrictSubsetOrdering(Nat)
  <2>1. IsWellFoundedOn(StrictSubsetOrdering(Nat), FiniteSubsetsOf(Nat))
    BY FS_StrictSubsetOrderingWellFounded
  <2>2. Counter \subseteq FiniteSubsetsOf(Nat) /\ Counter # {}
    BY <1>1
  <2> HIDE DEF Counter
  <2>3. QED
    BY <2>1, <2>2, WFMin
<1>3. PICK x \in U : TRUE
  OBVIOUS
<1>4. U \subseteq Nat /\ IsFiniteSet(U) /\ ~HasGreatest(U)
  BY DEF FiniteSubsetsOf
<1>5. /\ U \ {x} \in FiniteSubsetsOf(Nat) /\ U \ {x} \notin Counter
  <2>1. U \ {x} \in FiniteSubsetsOf(Nat)
    BY <1>4, FS_RemoveElement DEF FiniteSubsetsOf
  <2>2. <<U \ {x}, U>> \in StrictSubsetOrdering(Nat)
    BY <1>3, <1>4 DEF StrictSubsetOrdering
  <2>3. QED
    BY <1>2, <2>1, <2>2
<1>6. CASE U \ {x} = {}
  BY <1>3, <1>4, <1>6
<1>7. CASE HasGreatest(U \ {x})
  <2>1. PICK m \in U \ {x} : \A other \in U \ {x} : other <= m
    BY <1>7
  <2>2. CASE x <= m
    BY <1>4, <2>1, <2>2
  <2>3. CASE ~(x <= m)
    BY <1>3, <1>4, <2>1, <2>3
  <2>4. QED
    BY <2>2, <2>3
<1>8. QED
  BY <1>5, <1>6, <1>7
\* The token of a page that is not the last one: the page has all that is
\* between the two tokens.
LEMMA PageUpToLast ==
  ASSUME bucket \subseteq Keys, NEW token \in Nat,
         Page(token) # {}, NEW key \in bucket, key > token, key <= Last(Page(token), token)
  PROVE  key \in Page(token)
<1> DEFINE last == Last(Page(token), token)
           Below(k) == {other \in Behind(token) : other < k}
<1>1. /\ Behind(token) \subseteq Nat /\ IsFiniteSet(Behind(token))
      /\ Page(token) \subseteq Nat /\ IsFiniteSet(Page(token))
  BY KeysAssumption, FS_Subset DEF Behind, Page
<1>2. last \in Page(token) /\ \A other \in Page(token) : other <= last
  BY <1>1, GreatestExists DEF Last
<1>3. key \in Behind(token) /\ last \in Behind(token) /\ Cardinality(Below(last)) < PageSize
  BY <1>2 DEF Page, Behind
<1> HIDE DEF last
<1>4. Below(key) \subseteq Below(last)
  BY <1>1, <1>2, <1>3, Zenon, SMT DEF last
<1>5. Cardinality(Below(key)) <= Cardinality(Below(last))
  BY <1>1, <1>4, FS_Subset
<1>6. Cardinality(Below(key)) \in Nat /\ Cardinality(Below(last)) \in Nat
  BY <1>1, FS_Subset, FS_CardinalityType
<1>7. QED
  BY <1>3, <1>5, <1>6, PageAssumption DEF Page

-----------------------------------------------------------------------------
(* Listing.                                                                *)

ListTypes ==
  /\ bucket \subseteq Keys /\ always \subseteq bucket
  /\ list \in [token : Nat, tokens : SUBSET Nat, objects : SUBSET Keys, more : BOOLEAN,
               result : {"none", "ok", "error"}]

\* What was there all the time and is not still to come has been listed.
NothingPassed ==
  Listing => \A key \in always : key <= list.token \/ list.more = FALSE => key \in list.objects

ListInv == ListTypes /\ NothingPassed /\ Complete

LEMMA ListInitInv == ListInit => ListInv
BY KeysAssumption DEF ListInit, ListInv, ListTypes, NothingPassed, Complete

LEMMA EditInv == ASSUME ListInv, NEW key \in Keys, Edit(key) PROVE ListInv'
BY DEF Edit, Listing, ListInv, ListTypes, NothingPassed, Complete

LEMMA StopsInv ==
  ASSUME ListInv, Stops("error"), UNCHANGED <<bucket, always>>
  PROVE  ListInv'
<1>1. list' \in [token : Nat, tokens : SUBSET Nat, objects : SUBSET Keys, more : BOOLEAN,
                 result : {"none", "ok", "error"}] /\ list'.result = "error"
  BY DEF Stops, ListInv, ListTypes
<1>2. QED
  BY <1>1 DEF ListInv, ListTypes, NothingPassed, Complete, Listing

LEMMA NextPageInv == ASSUME ListInv, NextPage PROVE ListInv'
<1> DEFINE page == Page(list.token)
           objects == list.objects \cup page
           token == Last(page, list.token)
<1>0. /\ Listing /\ list.more = TRUE /\ list.token \in Nat
      /\ UNCHANGED <<bucket, undated, always, edits>>
      /\ page \subseteq Keys /\ objects \subseteq Keys /\ always \subseteq bucket
      /\ list \in [token : Nat, tokens : SUBSET Nat, objects : SUBSET Keys, more : BOOLEAN,
                   result : {"none", "ok", "error"}]
  BY DEF NextPage, ListInv, ListTypes, Page, Behind
<1>1. CASE Stops("error")
  BY <1>0, <1>1, StopsInv
<1>2. CASE /\ Behind(list.token) = page
           /\ list' = [list EXCEPT !.objects = objects, !.more = FALSE]
  <2>1. /\ list'.objects = objects /\ list'.result = "none"
        /\ list' \in [token : Nat, tokens : SUBSET Nat, objects : SUBSET Keys, more : BOOLEAN,
                      result : {"none", "ok", "error"}]
    BY <1>0, <1>2 DEF Listing
  <2>2. ASSUME NEW key \in always PROVE key \in objects
    <3>1. key \in Nat /\ key \in bucket
      BY <1>0, <2>2, KeysAssumption DEF ListInv, ListTypes
    <3>2. CASE key <= list.token
      BY <1>0, <2>2, <3>2 DEF ListInv, NothingPassed
    <3>3. CASE key > list.token
      BY <1>2, <3>1, <3>3 DEF Behind
    <3>4. QED
      BY <1>0, <3>1, <3>2, <3>3
  <2>3. QED
    BY <1>0, <2>1, <2>2 DEF ListInv, ListTypes, NothingPassed, Complete
<1>3. CASE \E next \in NextTokens(page) :
             IF NewToken(next)
             THEN list' = [list EXCEPT !.objects = objects, !.token = next,
                                       !.tokens = @ \cup {next}]
             ELSE list' = [list EXCEPT !.objects = objects, !.result = BadTokenResult]
  <2>1. PICK next \in NextTokens(page) :
             IF NewToken(next)
             THEN list' = [list EXCEPT !.objects = objects, !.token = next,
                                       !.tokens = @ \cup {next}]
             ELSE list' = [list EXCEPT !.objects = objects, !.result = BadTokenResult]
    BY <1>3
  <2> HIDE DEF page, objects, token
  <2>2. CASE NewToken(next)
    <3>1. next = token
      BY <2>2 DEF NewToken, NextTokens, token
    <3>2. token \in Nat
      <4>1. CASE page = {}
        BY <1>0, <4>1 DEF token, Last
      <4>2. CASE page # {}
        <5>1. page \subseteq Nat /\ IsFiniteSet(page)
          BY <1>0, KeysAssumption, FS_Subset
        <5>2. \E m \in page : \A other \in page : other <= m
          BY <4>2, <5>1, GreatestExists
        <5>3. QED
          BY <4>2, <5>1, <5>2 DEF token, Last
      <4>3. QED
        BY <4>1, <4>2
    <3>3. /\ list'.objects = objects /\ list'.token = token /\ list'.result = "none"
          /\ list'.more = TRUE
          /\ list' \in [token : Nat, tokens : SUBSET Nat, objects : SUBSET Keys, more : BOOLEAN,
                        result : {"none", "ok", "error"}]
      <4>1. list' = [list EXCEPT !.objects = objects, !.token = token, !.tokens = @ \cup {token}]
        BY <2>1, <2>2, <3>1
      <4>2. list.tokens \cup {token} \in SUBSET Nat
        BY <1>0, <3>2
      <4>3. QED
        BY <1>0, <3>2, <4>1, <4>2 DEF Listing
    <3>4. ASSUME NEW key \in always, key <= token PROVE key \in objects
      <4>1. key \in Nat /\ key \in bucket /\ bucket \subseteq Keys
        BY <1>0, <3>4, KeysAssumption DEF ListInv, ListTypes
      <4>2. CASE key <= list.token
        BY <1>0, <3>4, <4>2 DEF ListInv, NothingPassed, objects
      <4>3. CASE key > list.token
        <5>1. page # {}
          BY <1>0, <3>2, <3>4, <4>1, <4>3 DEF token, Last
        <5>2. key \in page
          BY <1>0, <3>4, <4>1, <4>3, <5>1, PageUpToLast DEF page, token
        <5>3. QED
          BY <5>2 DEF objects
      <4>4. QED
        BY <1>0, <4>1, <4>2, <4>3
    <3>5. QED
      BY <1>0, <3>3, <3>4 DEF ListInv, ListTypes, NothingPassed, Complete, Listing
  <2>3. CASE ~NewToken(next)
    <3>1. /\ list'.result = "error"
          /\ list' \in [token : Nat, tokens : SUBSET Nat, objects : SUBSET Keys, more : BOOLEAN,
                        result : {"none", "ok", "error"}]
      BY <1>0, <2>1, <2>3 DEF BadTokenResult
    <3>2. QED
      BY <1>0, <3>1 DEF ListInv, ListTypes, NothingPassed, Complete, Listing
  <2>4. QED
    BY <2>2, <2>3
<1>4. QED
  BY <1>1, <1>2, <1>3 DEF NextPage

LEMMA FinishInv == ASSUME ListInv, Finish PROVE ListInv'
<1>1. /\ list' = [list EXCEPT !.result = "ok", !.objects = list.objects \cap Backups]
      /\ Listing /\ list.more = FALSE /\ UNCHANGED <<bucket, always>>
  BY DEF Finish, OnlyBackups, ListInv, ListTypes
<1>2. /\ list'.result = "ok" /\ list'.objects = list.objects \cap Backups
      /\ list' \in [token : Nat, tokens : SUBSET Nat, objects : SUBSET Keys, more : BOOLEAN,
                    result : {"none", "ok", "error"}]
  BY <1>1 DEF ListInv, ListTypes
<1>3. QED
  BY <1>1, <1>2 DEF ListInv, ListTypes, NothingPassed, Complete, Listing

-----------------------------------------------------------------------------
(* The two together.                                                       *)

LEMMA AllStepInv == ListInv /\ [AllNext]_allVars => ListInv'
<1> SUFFICES ASSUME ListInv, [AllNext]_allVars PROVE ListInv'
  OBVIOUS
<1>1. CASE UNCHANGED listVars
  BY <1>1 DEF listVars, ListInv, ListTypes, NothingPassed, Complete, Listing
<1>2. CASE NextPage \/ Finish \/ \E key \in Keys : Edit(key)
  BY <1>2, NextPageInv, FinishInv, EditInv
<1>3. CASE Fails
  BY <1>3, StopsInv DEF Fails
<1>4. QED
  BY <1>1, <1>2, <1>3
     DEF AllNext, allVars, Answer, Broken, TimedOut, Canceled, Returns, Edits, Expires,
         TimePasses, Terminated, Partial, Calls

\* Every step of the listing is a step of its connection, or none.
LEMMA ConnectionStep == [AllNext]_allVars => [Next]_vars
<1> SUFFICES ASSUME [AllNext]_allVars PROVE [Next]_vars
  OBVIOUS
<1>1. CASE UNCHANGED vars
  BY <1>1
<1>2. CASE Answer
  BY <1>2 DEF Answer, Next, Directions
<1>3. CASE Broken \/ Expires \/ TimePasses
  BY <1>3 DEF Broken, Expires, TimePasses, Next
<1>4. CASE \E d \in Directions : Partial(d) \/ Calls(d)
  BY <1>4 DEF Partial, Calls, Next
<1>5. QED
  BY <1>1, <1>2, <1>3, <1>4 DEF AllNext, allVars, TimedOut, Canceled, Returns, Edits, Terminated

(***************************************************************************)
(* The connection under a listing behaves as one that is looked at alone,  *)
(* so what is proved of it holds of the listing's.                         *)
(***************************************************************************)
THEOREM ListingUsesConnection == AllSpec => Spec
BY ConnectionStep, PTL DEF AllSpec, AllInit, Spec

(***************************************************************************)
(* A listing that succeeds has every backup that was there all the time,   *)
(* however the bucket changes between the pages and whatever tokens the    *)
(* server hands out.                                                       *)
(***************************************************************************)
THEOREM ListingIsComplete == AllSpec => []Complete
<1>1. AllInit => ListInv
  BY ListInitInv DEF AllInit
<1>2. ListInv => Complete
  BY DEF ListInv
<1>3. QED
  BY <1>1, <1>2, AllStepInv, PTL DEF AllSpec

(***************************************************************************)
(* A listing is cut off only by silence, and by as much of it as the       *)
(* timeout.                                                                *)
(***************************************************************************)
THEOREM ListingCutByOnlySilence == AllSpec => [](OnlySilenceIsCut /\ SilenceIsCut)
BY ListingUsesConnection, CutsOnlySilence, CutsSilence, PTL
=============================================================================
