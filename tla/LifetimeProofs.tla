--------------------------- MODULE LifetimeProofs ---------------------------
(***************************************************************************)
(* Theorems about Lifetime, for every set of jobs and every signal.  The   *)
(* argument: the signal is on record before the context is canceled, only  *)
(* a canceled context makes an error that says so, and jobs exist only     *)
(* between the start of the scheduler and the wait for the last of them.   *)
(***************************************************************************)
EXTENDS Lifetime, TLAPS

USE DEF Canceled

\* Each step of the signal goroutine leaves its mark, the record first.
WatcherOrder ==
  /\ watcher = 0 => context = "active"
  /\ watcher > 0 => code = SignalCode

\* What is canceled has a canceled context behind it.
CanceledForAReason == main.err = "canceled" \/ main.pc = "stopping" => Canceled

\* Jobs are started only by a running scheduler, and awaited when it stops.
JobsBelongToCron ==
  /\ main.pc \in {"starting", "working"} => cron = "off"
  /\ main.pc \in {"stopping", "returned", "exited"} => cron # "running"
  /\ cron = "off" => \A j \in Jobs : job[j] = "idle"
  /\ main.pc \in {"returned", "exited"} => JobsAwaited

\* The code is chosen when the process exits.
ExitLast == main.pc # "exited" => main.exit = Pending

IInv == /\ TypeOK /\ WatcherOrder /\ CanceledForAReason /\ JobsBelongToCron /\ ExitLast
        /\ CancelIsNotFailure

LEMMA InitInv == Init => IInv
BY LifetimeAssumption DEF Init, IInv, TypeOK, WatcherOrder, CanceledForAReason, JobsBelongToCron,
   ExitLast, CancelIsNotFailure, Errors, Pending

LEMMA SignalInv == IInv /\ (Signal \/ Watch) => IInv'
<1>1. ASSUME IInv, Signal PROVE IInv'
  BY <1>1 DEF Signal, IInv, TypeOK, WatcherOrder, CanceledForAReason, JobsBelongToCron,
     JobsAwaited, ExitLast, CancelIsNotFailure
<1>2. ASSUME IInv, Watch PROVE IInv'
  <2>1. \/ watcher = 0 /\ watcher' = 1 /\ code' = SignalCode /\ context' = context
        \/ watcher = 1 /\ watcher' = 2 /\ context' = "canceled" /\ code' = code
    BY <1>2 DEF Watch, WatcherStep, IInv, TypeOK
  <2>2. signal' = "taken" /\ UNCHANGED <<cron, job, main>>
    BY <1>2 DEF Watch
  <2>3. QED
    BY <1>2, <2>1, <2>2 DEF IInv, TypeOK, WatcherOrder, CanceledForAReason,
       JobsBelongToCron, JobsAwaited, ExitLast, CancelIsNotFailure
<1>3. QED
  BY <1>1, <1>2

LEMMA JobInv == ASSUME IInv, NEW j \in Jobs, Fire(j) \/ Enter(j) \/ EndJob(j) PROVE IInv'
BY DEF Fire, Enter, EndJob, Alive, IInv, TypeOK, WatcherOrder, CanceledForAReason,
   JobsBelongToCron, JobsAwaited, ExitLast, CancelIsNotFailure

LEMMA MainInv ==
  ASSUME IInv, \/ Refuse \/ Start \/ StopCron \/ LeaveRun \/ Exit
               \/ \E err \in Errors : EndWork(err)
  PROVE  IInv'
<1> USE DEF IInv, TypeOK, WatcherOrder, CanceledForAReason, JobsBelongToCron, JobsAwaited,
            ExitLast, CancelIsNotFailure, Errors
<1>1. CASE Refuse
  BY <1>1 DEF Refuse, MainGoes, MainReturns
<1>2. CASE Start
  BY <1>2 DEF Start, MainGoes
<1>3. CASE StopCron
  BY <1>3 DEF StopCron, MainGoes
<1>4. CASE LeaveRun
  <2>1. /\ main' = [main EXCEPT !.pc = "returned", !.err = "canceled"]
        /\ main.pc = "stopping" /\ UNCHANGED <<signal, watcher, context, code, job, cron>>
    BY <1>4 DEF LeaveRun, MainGoes, MainReturns
  <2>2. /\ main'.pc = "returned" /\ main'.err = "canceled" /\ main'.exit = main.exit
        /\ main' \in [pc : {"returned"}, schedule : {"set", "unset"}, err : Errors,
                      exit : {Pending}]
    BY <2>1
  <2>3. JobsAwaited
    BY <1>4 DEF LeaveRun
  <2>4. QED
    BY <2>1, <2>2, <2>3, LifetimeAssumption DEF Pending
<1>5. CASE Exit
  <2> DEFINE status == IF code # 0 THEN code ELSE IF main.err = "none" THEN 0 ELSE 1
  <2>1. /\ main' = [main EXCEPT !.pc = "exited", !.exit = status]
        /\ main.pc = "returned" /\ UNCHANGED <<signal, watcher, context, code, job, cron>>
    BY <1>5 DEF Exit, MainGoes
  <2>2. main'.pc = "exited" /\ main'.exit = status /\ main'.err = main.err
    BY <2>1
  <2>3. status \in {0, 1, SignalCode} /\ (main.err = "canceled" => status = SignalCode)
    BY LifetimeAssumption
  <2>4. main' \in [pc : {"exited"}, schedule : {"set", "unset"}, err : Errors,
                   exit : {0, 1, SignalCode}]
    BY <2>1, <2>3
  <2>5. QED
    BY <2>1, <2>2, <2>3, <2>4, LifetimeAssumption
<1>6. CASE \E err \in Errors : EndWork(err)
  <2>1. PICK err \in Errors : EndWork(err)
    BY <1>6
  <2>2. /\ main' = [main EXCEPT !.pc = "returned", !.err = err] /\ main.pc = "working"
        /\ err = "canceled" => Canceled
        /\ UNCHANGED <<signal, watcher, context, code, job, cron>>
    BY <2>1 DEF EndWork, MainGoes, MainReturns
  <2>3. /\ main'.pc = "returned" /\ main'.err = err /\ main'.exit = Pending
        /\ main' \in [pc : {"returned"}, schedule : {"set", "unset"}, err : Errors,
                      exit : {Pending}]
    BY <2>2
  <2>4. QED
    BY <2>2, <2>3, LifetimeAssumption DEF Pending
<1>7. QED
  BY <1>1, <1>2, <1>3, <1>4, <1>5, <1>6

LEMMA StepInv == IInv /\ [Next]_vars => IInv'
<1>1. CASE UNCHANGED vars
  BY <1>1 DEF vars, IInv, TypeOK, WatcherOrder, CanceledForAReason, JobsBelongToCron,
     JobsAwaited, ExitLast, CancelIsNotFailure
<1>2. ASSUME IInv, Main PROVE IInv'
  BY <1>2, MainInv DEF Main, Errors
<1>3. QED
  BY <1>1, <1>2, SignalInv, JobInv, MainInv DEF Next, Waiting, Terminated

THEOREM Invariance == Spec => []IInv
BY InitInv, StepInv, PTL DEF Spec

(***************************************************************************)
(* Types, and the order of the signal goroutine: the context is canceled   *)
(* only when the signal is on record.                                      *)
(***************************************************************************)
THEOREM TypeCorrect == Spec => []TypeOK
BY Invariance, PTL DEF IInv

(***************************************************************************)
(* A canceled command exits neither as a success nor as a failure.         *)
(***************************************************************************)
THEOREM CancelExitsAsSignal == Spec => []CancelIsNotFailure
BY Invariance, PTL DEF IInv

(***************************************************************************)
(* The process exits only after every job that was started has ended.      *)
(***************************************************************************)
THEOREM ExitsAfterJobs == Spec => []NoJobAfterExit
<1>1. IInv => NoJobAfterExit
  BY DEF IInv, JobsBelongToCron, JobsAwaited, NoJobAfterExit
<1>2. QED
  BY <1>1, Invariance, PTL
=============================================================================
