------------------------------ MODULE Lifetime ------------------------------
(***************************************************************************)
(* The life of the process: main with its signal goroutine                 *)
(* (cmd/mongodb-backup-s3/main.go) around App.Run, which either makes one  *)
(* backup or leaves that to the scheduler until a signal comes             *)
(* (internal/backup/app.go).  robfig/cron is external: it starts a         *)
(* goroutine per job, and its Stop hands out a context that is done when   *)
(* all of them have ended.                                                 *)
(*                                                                         *)
(* What a backup does is in BackupRun; here it takes the lock, or fails    *)
(* to, and ends, at the latest after its context was canceled.             *)
(***************************************************************************)
EXTENDS Naturals, Sequences

CONSTANTS Jobs,       \* times at which the schedule fires
          SignalCode  \* 128 + the signal's number

ASSUME LifetimeAssumption == SignalCode \in Nat /\ SignalCode > 1

VARIABLES signal,    \* "none", "queued" in the channel, "taken" by the watcher
          watcher,   \* steps the signal goroutine has made
          context,   \* of the whole program: "active" or "canceled"
          code,      \* signalCode
          cron,      \* "off", "running" or "stopped"
          job,       \* job -> "idle", "started", "busy" or "done"
          main       \* program counter, is SCHEDULE set, error of the command, exit code

vars == <<signal, watcher, context, code, cron, job, main>>

Pending == 999   \* the process has not exited

Init ==
  /\ signal = "none" /\ watcher = 0 /\ context = "active" /\ code = 0
  /\ cron = "off" /\ job = [j \in Jobs |-> "idle"]
  /\ main \in [pc : {"starting"}, schedule : {"set", "unset"},
                err : {"none"}, exit : {Pending}]

Alive == main.pc # "exited"
Canceled == context = "canceled"

-----------------------------------------------------------------------------
(* Signals.                                                                *)

\* The channel holds one; what comes later is dropped, and kills nothing.
Signal ==
  /\ Alive /\ signal = "none" /\ signal' = "queued"
  /\ UNCHANGED <<watcher, context, code, cron, job, main>>

StoreOnly(n) == "store"
CancelThenStore(n) == IF n = 0 THEN "cancel" ELSE "store"
WatcherStep(n) == IF n = 0 THEN "store" ELSE "cancel"

Watch ==
  /\ Alive /\ signal # "none" /\ watcher < 2
  /\ signal' = "taken" /\ watcher' = watcher + 1
  /\ IF WatcherStep(watcher) = "store"
     THEN code' = SignalCode /\ UNCHANGED context
     ELSE context' = "canceled" /\ UNCHANGED code
  /\ UNCHANGED <<cron, job, main>>

-----------------------------------------------------------------------------
(* The scheduler and its jobs.                                             *)

Fire(j) ==
  /\ Alive /\ cron = "running" /\ job[j] = "idle"
  /\ job' = [job EXCEPT ![j] = "started"]
  /\ UNCHANGED <<signal, watcher, context, code, cron, main>>

\* App.Backup looks at the context, then tries the lock.
LockIsFree == \A j \in Jobs : job[j] # "busy"

Enter(j) ==
  /\ Alive /\ job[j] = "started"
  /\ job' = [job EXCEPT ![j] = IF context = "active" /\ LockIsFree THEN "busy" ELSE "done"]
  /\ UNCHANGED <<signal, watcher, context, code, cron, main>>

EndJob(j) ==
  /\ Alive /\ job[j] = "busy"
  /\ job' = [job EXCEPT ![j] = "done"]
  /\ UNCHANGED <<signal, watcher, context, code, cron, main>>

-----------------------------------------------------------------------------
(* main and App.Run.                                                       *)

MainGoes(to) == main' = to /\ UNCHANGED <<signal, watcher, context, code, job>>
MainReturns(err) == MainGoes([main EXCEPT !.pc = "returned", !.err = err])

\* The configuration, the schedule or the S3 client is refused.
Refuse == main.pc = "starting" /\ MainReturns("failed") /\ UNCHANGED cron

Start ==
  /\ main.pc = "starting"
  /\ MainGoes([main EXCEPT !.pc = IF main.schedule = "set" THEN "scheduling"
                                  ELSE "working"])
  /\ cron' = IF main.schedule = "set" THEN "running" ELSE "off"

\* One backup, run by main itself: it may end well although it is canceled.
EndWork(err) ==
  /\ main.pc = "working" /\ (err = "canceled" => Canceled)
  /\ MainReturns(err) /\ UNCHANGED cron

\* <-ctx.Done(), then Stop: between the two a job can still start.
StopCron ==
  /\ main.pc = "scheduling" /\ Canceled
  /\ MainGoes([main EXCEPT !.pc = "stopping"]) /\ cron' = "stopped"

NotAwaited == TRUE
JobsAwaited == \A j \in Jobs : job[j] \in {"idle", "done"}

LeaveRun ==
  /\ main.pc = "stopping" /\ JobsAwaited
  /\ MainReturns("canceled") /\ UNCHANGED cron

Exit ==
  /\ main.pc = "returned"
  /\ MainGoes([main EXCEPT !.pc = "exited",
                 !.exit = IF code # 0 THEN code ELSE IF main.err = "none" THEN 0 ELSE 1])
  /\ UNCHANGED cron

\* The program waits for a signal, or for a time that never comes.
Waiting == main.pc = "scheduling" /\ UNCHANGED vars

Terminated == ~Alive /\ UNCHANGED vars

Main == StopCron \/ LeaveRun \/ Exit \/ Start \/ (Canceled /\ EndWork("canceled"))
Errors == {"none", "failed", "canceled"}

Next == \/ Signal \/ Watch \/ Main \/ Refuse \/ Waiting \/ Terminated
        \/ \E err \in Errors : EndWork(err)
        \/ \E j \in Jobs : Fire(j) \/ Enter(j) \/ EndJob(j)

\* Goroutines run, and a canceled backup ends; no other has to.
Fairness == /\ WF_vars(Watch) /\ WF_vars(Main)
            /\ \A j \in Jobs : WF_vars(Enter(j)) /\ WF_vars(Canceled /\ EndJob(j))

Spec == Init /\ [][Next]_vars /\ Fairness

-----------------------------------------------------------------------------
(* Properties.                                                             *)

\* Types; the context is canceled only once the signal is on record.
TypeOK ==
  /\ signal \in {"none", "queued", "taken"} /\ watcher \in 0..2
  /\ context \in {"active", "canceled"} /\ code \in {0, SignalCode}
  /\ cron \in {"off", "running", "stopped"}
  /\ job \in [Jobs -> {"idle", "started", "busy", "done"}]
  /\ main \in [pc : {"starting", "working", "scheduling", "stopping", "returned", "exited"},
               schedule : {"set", "unset"}, err : Errors, exit : {Pending, 0, 1, SignalCode}]
  /\ Canceled => code = SignalCode

(***************************************************************************)
(* A command that ended because it was canceled exits with the code of the *)
(* signal: never as a success, and never as a failure an operator would    *)
(* look into (main.go:39-46, 67-74).                                       *)
(***************************************************************************)
CancelIsNotFailure == main.exit \in {0, 1} => main.err # "canceled"

(***************************************************************************)
(* A process that exits leaves no job behind in the middle of a backup,    *)
(* nor one that would still begin (app.go:57-58).                          *)
(***************************************************************************)
NoJobAfterExit ==
  main.pc = "exited" => \A j \in Jobs : job[j] \in {"idle", "done"}

(***************************************************************************)
(* A signal ends the process, scheduled or not, whatever jobs are started  *)
(* at that moment.                                                         *)
(***************************************************************************)
SignalLeadsToExit == signal = "queued" ~> main.pc = "exited"
=============================================================================
