-------------------------- MODULE BackupRunProofs --------------------------
(***************************************************************************)
(* Theorems about BackupRun, for every set of runs and of databases, both  *)
(* naming modes, every retention period and every skew that is not larger  *)
(* than it.                                                                *)
(*                                                                         *)
(* The argument about retention follows one key.  While a run retains, the *)
(* lock keeps every other run from deleting; what it uploaded a moment ago *)
(* has a key of its own or latest.zip, and a time that is not before the   *)
(* cutoff, because the cutoff was taken before the upload began.  Whatever *)
(* lands on that key later was also begun in the second of the key.        *)
(***************************************************************************)
EXTENDS BackupRun, TLAPS

\* Whoever works, or has a child at work, holds the lock.
OneHolder == \A r \in Runs : Busy(r) => lock = r

Before == {"idle", "versioning", "selecting", "tools"}
Working == {"uploading", "publishing", "listing", "deleting"}

\* A run works on one database at a time and takes it off its list first.
CurrentTaken ==
  \A r \in Runs : run[r].pc \in Working =>
    run[r].db \in Selected /\ run[r].db \notin run[r].todo

\* No request before SendPublish, nothing published before a request.
Untried(r, db) == \/ run[r].pc \in Before
                  \/ db \in run[r].todo
                  \/ run[r].pc = "uploading" /\ db = run[r].db
UntriedIsUnpublished ==
  \A r \in Runs : \A db \in Selected : Untried(r, db) =>
    /\ <<r, db>> \notin published
    /\ \A request \in requests : request.run = r => request.db # db

\* The request that a run waits for is the one it sent.
OwnRequest ==
  \A r \in Runs : run[r].pc = "publishing" =>
    \A request \in requests :
      request.run = r /\ request.db = run[r].db => request.began = run[r].began

\* Time only goes on, and the cutoff was taken before the upload.
Chronology ==
  /\ \A request \in requests : request.began <= clock
  /\ \A r \in Runs :
       /\ run[r].began <= clock
       /\ run[r].pc \in {"tools", "loop"} => run[r].cutoff + Keep <= clock
       /\ run[r].pc \in Working => run[r].cutoff + Keep <= run[r].began

\* A key holds one object.
OneObjectPerKey ==
  \A o, p \in bucket : o.db = p.db /\ o.key = p.key => o = p

\* What a run has published is there when it retains, and recent.
Fresh(r, object) == /\ object.db = run[r].db
                    /\ object.key = BackupKey(run[r].began)
                    /\ FixedNames \/ object.time >= run[r].began + Skew
OwnBackupStands ==
  \A r \in Runs :
    \/ run[r].pc \in {"listing", "deleting"}
    \/ run[r].pc = "publishing" /\ <<r, run[r].db>> \in published
    => \E object \in bucket : Fresh(r, object)

\* It is not among what the run deletes.
OthersDeleted ==
  \A r \in Runs : \A object \in run[r].old :
    /\ run[r].pc = "deleting" /\ object.db = run[r].db
    /\ object.key # BackupKey(run[r].began)

\* A database is still to do, being done, failed, or done.
Accounted ==
  \A r \in Runs :
    /\ run[r].result = "ok" => {r} \X Selected \subseteq published
    /\ run[r].pc \in Working \cup {"loop"} /\ ~run[r].failed =>
         \A db \in Selected : \/ db \in run[r].todo
                              \/ run[r].pc \in {"uploading", "publishing"} /\ db = run[r].db
                              \/ <<r, db>> \in published

IInv == /\ TypeOK /\ OneHolder /\ CurrentTaken /\ UntriedIsUnpublished /\ OwnRequest
        /\ Chronology /\ OneObjectPerKey /\ OwnBackupStands /\ OthersDeleted
        /\ NeverWithoutBackup /\ Accounted

-----------------------------------------------------------------------------
(* Type correctness.                                                       *)

LEMMA IdleType == Idle \in RunType
<1>1. 0 \in Ticks
  BY ClockAssumption DEF Ticks
<1>2. QED
  BY <1>1 DEF Idle, RunType

LEMMA EndedType ==
  ASSUME NEW pc \in {"returned", "dead"},
         NEW result \in {"none", "ok", "failed", "canceled", "busy"}
  PROVE  [Idle EXCEPT !.pc = pc, !.result = result] \in RunType
BY IdleType DEF RunType

LEMMA ReturnsType ==
  ASSUME TypeOK, NEW r \in Runs,
         NEW result \in {"ok", "failed", "canceled", "busy"}, Returns(r, result)
  PROVE  run' = [run EXCEPT ![r] = run'[r]] /\ run'[r] \in RunType
<1>1. run'[r] = [Idle EXCEPT !.pc = "returned", !.result = result]
  BY DEF Returns, TypeOK
<1>2. QED
  BY <1>1, EndedType DEF Returns, TypeOK

LEMMA ContinueType ==
  ASSUME TypeOK, NEW r \in Runs, NEW failed \in BOOLEAN, Continue(r, failed)
  PROVE  run' = [run EXCEPT ![r] = run'[r]] /\ run'[r] \in RunType
<1>1. run[r] \in RunType /\ 0 \in Ticks
  BY ClockAssumption DEF TypeOK, Ticks
<1>2. Recorded(run[r].failed, failed) \in BOOLEAN
  BY <1>1 DEF Recorded, RunType
<1>3. run'[r] = [run[r] EXCEPT !.pc = "loop", !.db = None, !.began = 0, !.old = {},
                               !.failed = Recorded(@, failed)]
  BY DEF Continue, TypeOK
<1>4. run'[r] \in RunType
  BY <1>1, <1>2, <1>3 DEF RunType
<1>5. QED
  BY <1>4 DEF Continue, TypeOK

\* A step of a run changes the variables of no other run.
LEMMA StepType ==
  ASSUME TypeOK, NEW r \in Runs, Step(r) \/ Cancel(r) \/ Crash(r) \/ OrphanExits(r)
  PROVE  run' = [run EXCEPT ![r] = run'[r]] /\ run'[r] \in RunType
<1> DEFINE OnlyOne == run' = [run EXCEPT ![r] = run'[r]] /\ run'[r] \in RunType
<1>0. run[r] \in RunType /\ run \in [Runs -> RunType]
  BY DEF TypeOK
<1>1. CASE Begin(r)
  <2>1. CASE run' = [run EXCEPT ![r].pc = IF FixedNames THEN "versioning" ELSE "selecting"]
    <3>1. run'[r] = [run[r] EXCEPT !.pc = IF FixedNames THEN "versioning" ELSE "selecting"]
      BY <2>1, <1>0
    <3>2. run'[r] \in RunType
      BY <1>0, <3>1 DEF RunType
    <3>3. QED
      BY <2>1, <1>0, <3>2
  <2>2. CASE Returns(r, "busy")
    BY <2>2, ReturnsType
  <2>3. QED
    BY <1>1, <2>1, <2>2 DEF Begin
<1>2. CASE CheckVersioning(r)
  <2>1. CASE run' = [run EXCEPT ![r].pc = "selecting"]
    <3>1. run'[r] = [run[r] EXCEPT !.pc = "selecting"]
      BY <2>1, <1>0
    <3>2. run'[r] \in RunType
      BY <1>0, <3>1 DEF RunType
    <3>3. QED
      BY <2>1, <1>0, <3>2
  <2>2. CASE Returns(r, "failed") \/ Returns(r, "canceled")
    BY <2>2, ReturnsType
  <2>3. QED
    BY <1>2, <2>1, <2>2 DEF CheckVersioning
<1>3. CASE Select(r)
  <2>1. clock - Keep \in Int
    BY KeepAssumption, ClockAssumption DEF TypeOK, Ticks
  <2>2. run'[r] = [run[r] EXCEPT !.pc = "tools", !.cutoff = clock - Keep]
    BY <1>3, <1>0 DEF Select
  <2>3. run'[r] \in RunType
    BY <1>0, <2>1, <2>2 DEF RunType
  <2>4. QED
    BY <1>3, <1>0, <2>3 DEF Select
<1>4. CASE SelectFails(r) \/ StopCanceled(r)
  BY <1>4, ReturnsType DEF SelectFails, StopCanceled
<1>5. CASE Finish(r)
  BY <1>5, ReturnsType DEF Finish
<1>6. CASE ToolsChecked(r)
  <2>1. CASE run' = [run EXCEPT ![r].pc = "loop", ![r].todo = Selected]
    <3>1. run'[r] = [run[r] EXCEPT !.pc = "loop", !.todo = Selected]
      BY <2>1, <1>0
    <3>2. run'[r] \in RunType
      BY <1>0, <3>1 DEF RunType
    <3>3. QED
      BY <2>1, <1>0, <3>2
  <2>2. CASE run' = [run EXCEPT ![r] = [Idle EXCEPT !.pc = "returned", !.result = "failed"]]
    BY <2>2, <1>0, EndedType
  <2>3. QED
    BY <1>6, <2>1, <2>2 DEF ToolsChecked
<1>7. CASE \E db \in Selected : StartDatabase(r, db)
  BY <1>7, <1>0 DEF StartDatabase, TypeOK, RunType
<1>8. CASE \E db \in Selected : InspectFails(r, db)
  <2>1. PICK db \in Selected : InspectFails(r, db)
    BY <1>8
  <2>2. run'[r] = [run[r] EXCEPT !.todo = @ \ {db}, !.failed = Recorded(@, TRUE)]
    BY <2>1, <1>0 DEF InspectFails
  <2>3. Recorded(run[r].failed, TRUE) \in BOOLEAN
    BY DEF Recorded
  <2>4. run'[r] \in RunType
    BY <1>0, <2>2, <2>3 DEF RunType
  <2>5. QED
    BY <2>1, <1>0, <2>4 DEF InspectFails
<1>9. CASE SendPublish(r)
  BY <1>9, <1>0 DEF SendPublish, RunType
<1>10. CASE UploadSucceeds(r)
  <2>1. CASE run' = [run EXCEPT ![r].pc = "listing"]
    BY <2>1, <1>0 DEF RunType
  <2>2. QED
    BY <1>10, <2>1, ContinueType DEF UploadSucceeds
<1>11. CASE UploadFails(r) \/ ListFails(r) \/ DeleteFails(r)
  BY <1>11, ContinueType DEF UploadFails, AfterFailure, ListFails, DeleteFails
<1>12. CASE RetentionDone(r)
  BY <1>12, ContinueType DEF RetentionDone
<1>13. CASE ListOld(r)
  <2> DEFINE old == {object \in TimestampBackups(run[r].db) : Expired(object, run[r].cutoff)}
  <2>1. old \subseteq TimestampObjects
    BY DEF TimestampBackups, TypeOK, Objects, TimestampObjects, Keys
  <2>2. run'[r] = [run[r] EXCEPT !.pc = "deleting", !.old = old]
    BY <1>13, <1>0 DEF ListOld
  <2> HIDE DEF old
  <2>3. run'[r] \in RunType
    BY <1>0, <2>1, <2>2 DEF RunType
  <2>4. QED
    BY <1>13, <1>0, <2>3 DEF ListOld
<1>14. CASE \E object \in run[r].old : DeleteOld(r, object)
  BY <1>14, <1>0 DEF DeleteOld, RunType
<1>15. CASE Cancel(r)
  <2>1. run'[r] = [run[r] EXCEPT !.canceled = TRUE]
    BY <1>15, <1>0 DEF Cancel
  <2>2. run'[r] \in RunType
    BY <1>0, <2>1 DEF RunType
  <2>3. QED
    BY <1>15, <1>0, <2>2 DEF Cancel
<1>16. CASE Crash(r)
  <2>1. run'[r] = [Idle EXCEPT !.pc = "dead"]
    BY <1>16, <1>0 DEF Crash
  <2>2. run'[r] \in RunType
    BY <2>1, IdleType DEF RunType
  <2>3. QED
    BY <1>16, <1>0, <2>2 DEF Crash
<1>17. CASE OrphanExits(r)
  BY <1>17, <1>0 DEF OrphanExits
<1>18. QED
  BY <1>1, <1>2, <1>3, <1>4, <1>5, <1>6, <1>7, <1>8, <1>9, <1>10, <1>11, <1>12, <1>13,
     <1>14, <1>15, <1>16, <1>17 DEF Step

\* What a run's own step may do to the rest of the state.
LEMMA StepFrame ==
  ASSUME TypeOK, NEW r \in Runs, Step(r) \/ Cancel(r) \/ Crash(r) \/ OrphanExits(r)
  PROVE  /\ lock' \in Runs \cup {None} /\ children' \subseteq Runs /\ warned' \in BOOLEAN
         /\ UNCHANGED <<clock, versioning, published, replaced>>
<1>1. CASE Begin(r) \/ CheckVersioning(r)
  BY <1>1 DEF Begin, CheckVersioning, Returns, Released, environment, TypeOK
<1>2. CASE Select(r) \/ SelectFails(r) \/ ToolsChecked(r) \/ StopCanceled(r) \/ Finish(r)
  BY <1>2 DEF Select, SelectFails, ToolsChecked, StopCanceled, Finish, Returns, Released,
              Inside, environment, TypeOK
<1>3. CASE \/ \E db \in Selected : StartDatabase(r, db) \/ InspectFails(r, db)
           \/ SendPublish(r) \/ UploadSucceeds(r) \/ UploadFails(r)
  BY <1>3 DEF StartDatabase, InspectFails, SendPublish, UploadSucceeds, UploadFails,
              Inside, environment, TypeOK
<1>4. CASE \/ ListOld(r) \/ ListFails(r) \/ DeleteFails(r) \/ RetentionDone(r)
           \/ \E object \in run[r].old : DeleteOld(r, object)
  BY <1>4 DEF ListOld, ListFails, DeleteFails, RetentionDone, DeleteOld, Inside,
              environment, TypeOK
<1>5. CASE Cancel(r) \/ Crash(r) \/ OrphanExits(r)
  BY <1>5 DEF Cancel, Crash, OrphanExits, Released, Inside, environment, TypeOK
<1>6. QED
  BY <1>1, <1>2, <1>3, <1>4, <1>5 DEF Step

\* Only SendPublish touches the requests, only DeleteOld the bucket.
LEMMA StepStore ==
  ASSUME TypeOK, NEW r \in Runs, Step(r) \/ Cancel(r) \/ Crash(r) \/ OrphanExits(r)
  PROVE  /\ SendPublish(r) \/ UNCHANGED requests
         /\ (\E object \in run[r].old : DeleteOld(r, object)) \/ UNCHANGED bucket
<1>1. CASE \/ Begin(r) \/ CheckVersioning(r) \/ Select(r) \/ SelectFails(r)
           \/ ToolsChecked(r) \/ StopCanceled(r) \/ Finish(r)
  BY <1>1 DEF Begin, CheckVersioning, Select, SelectFails, ToolsChecked, StopCanceled,
              Finish, Inside, environment
<1>2. CASE \/ \E db \in Selected : StartDatabase(r, db) \/ InspectFails(r, db)
           \/ SendPublish(r) \/ UploadSucceeds(r) \/ UploadFails(r)
  BY <1>2 DEF StartDatabase, InspectFails, SendPublish, UploadSucceeds, UploadFails,
              Inside, environment
<1>3. CASE \/ ListOld(r) \/ ListFails(r) \/ DeleteFails(r) \/ RetentionDone(r)
           \/ \E object \in run[r].old : DeleteOld(r, object)
  BY <1>3 DEF ListOld, ListFails, DeleteFails, RetentionDone, DeleteOld, Inside,
              environment
<1>4. CASE Cancel(r) \/ Crash(r) \/ OrphanExits(r)
  BY <1>4 DEF Cancel, Crash, OrphanExits, Inside, environment
<1>5. QED
  BY <1>1, <1>2, <1>3, <1>4 DEF Step

LEMMA SendPublishType ==
  ASSUME TypeOK, NEW r \in Runs, CurrentTaken, SendPublish(r)
  PROVE  requests' \subseteq RequestType
<1>1. run[r].db \in Selected /\ run[r].began \in Ticks
  BY DEF SendPublish, CurrentTaken, Working, TypeOK, RunType
<1>2. QED
  BY <1>1 DEF SendPublish, TypeOK, RequestType

LEMMA LandType ==
  ASSUME TypeOK, NEW request \in requests, NEW time \in {request.began, clock},
         Land(request, time)
  PROVE  TypeOK'
<1>1. request \in RequestType /\ request.began \in Ticks /\ clock \in Ticks
  BY DEF TypeOK, RequestType
<1>2. time + Skew \in Int /\ BackupKey(request.began) \in Keys
  BY <1>1, SkewAssumption, ClockAssumption DEF Ticks, Keys, BackupKey
<1>3. [db |-> request.db, key |-> BackupKey(request.began), time |-> time + Skew]
        \in Objects
  BY <1>1, <1>2 DEF Objects, RequestType
<1>4. bucket' \subseteq Objects
  BY <1>3 DEF Land, TypeOK
<1>5. published' \subseteq Runs \X Selected /\ replaced' \subseteq BOOLEAN
  BY <1>1 DEF Land, TypeOK, RequestType
<1>6. requests' \subseteq RequestType
  BY DEF Land, TypeOK
<1>7. QED
  BY <1>4, <1>5, <1>6 DEF Land, TypeOK

LEMMA TypeStep ==
  ASSUME TypeOK, CurrentTaken, [Next]_vars
  PROVE  TypeOK'
<1>1. ASSUME NEW r \in Runs, Step(r) \/ Cancel(r) \/ Crash(r) \/ OrphanExits(r)
      PROVE  TypeOK'
  <2>1. run' \in [Runs -> RunType]
    BY <1>1, StepType DEF TypeOK
  <2>2. requests' \subseteq RequestType
    BY <1>1, StepStore, SendPublishType DEF TypeOK
  <2>3. bucket' \subseteq Objects
    BY <1>1, StepStore DEF DeleteOld, TypeOK
  <2>4. QED
    BY <1>1, <2>1, <2>2, <2>3, StepFrame DEF TypeOK, Ticks
<1>2. CASE Tick
  BY <1>2, ClockAssumption DEF Tick, TypeOK, Ticks
<1>3. CASE UNCHANGED vars
  BY <1>3 DEF vars, environment, TypeOK
<1>4. QED
  BY <1>1, <1>2, <1>3, LandType DEF Next, Terminated

-----------------------------------------------------------------------------
(* The lock.                                                               *)

\* Who does not hold the lock can only be refused.
LEMMA LockStep ==
  ASSUME TypeOK, OneHolder, [Next]_vars
  PROVE  OneHolder'
<1>1. ASSUME NEW r \in Runs, Step(r) \/ Cancel(r) \/ Crash(r) \/ OrphanExits(r)
      PROVE  OneHolder'
  <2>1. ASSUME NEW s \in Runs, s # r
        PROVE  Busy(s)' <=> Busy(s)
    <3>1. run'[s] = run[s]
      BY <1>1, <2>1, StepType DEF TypeOK
    <3>2. s \in children' <=> s \in children
      BY <1>1, <2>1
         DEF Step, Begin, CheckVersioning, Select, SelectFails, ToolsChecked,
             StartDatabase, InspectFails, StopCanceled, Finish, SendPublish,
             UploadSucceeds, UploadFails, ListOld, ListFails, DeleteOld, DeleteFails,
             RetentionDone, Cancel, Crash, OrphanExits, Returns
    <3>3. QED
      BY <3>1, <3>2 DEF Busy, AtWork
  <2>2. Busy(r)' => lock' = r
    <3>1. ASSUME NEW result, Returns(r, result)
          PROVE  Busy(r)' => lock' = r
      BY <3>1 DEF Returns, Released, LastReference, Busy, AtWork, OneHolder, TypeOK
    <3>2. CASE Begin(r) \/ CheckVersioning(r)
      BY <1>1, <3>1, <3>2
         DEF Begin, CheckVersioning, Busy, AtWork, OneHolder
    <3>3. CASE ToolsChecked(r)
      BY <3>3 DEF ToolsChecked, Idle, Busy, AtWork, OneHolder, TypeOK
    <3>4. CASE SelectFails(r) \/ StopCanceled(r) \/ Finish(r)
      BY <3>1, <3>4 DEF SelectFails, StopCanceled, Finish
    <3>5. CASE \/ Select(r) \/ SendPublish(r) \/ UploadSucceeds(r) \/ UploadFails(r)
               \/ \E db \in Selected : StartDatabase(r, db) \/ InspectFails(r, db)
               \/ ListOld(r) \/ ListFails(r) \/ DeleteFails(r) \/ RetentionDone(r)
               \/ (\E object \in run[r].old : DeleteOld(r, object)) \/ Cancel(r)
      BY <3>5 DEF Select, StartDatabase, InspectFails, SendPublish, UploadSucceeds,
                  UploadFails, ListOld, ListFails, DeleteOld, DeleteFails,
                  RetentionDone, Cancel, Busy, AtWork, OneHolder
    <3>6. CASE Crash(r) \/ OrphanExits(r)
      BY <3>6 DEF Crash, OrphanExits, Released, LastReference, Idle, Busy, AtWork,
                  OneHolder, TypeOK
    <3>7. QED
      BY <1>1, <3>2, <3>3, <3>4, <3>5, <3>6 DEF Step
  <2>3. lock' = lock \/ lock = r \/ lock = None
    BY <1>1 DEF Step, Begin, CheckVersioning, Select, SelectFails, ToolsChecked,
                StartDatabase, InspectFails, StopCanceled, Finish, SendPublish,
                UploadSucceeds, UploadFails, ListOld, ListFails, DeleteOld, DeleteFails,
                RetentionDone, Cancel, Crash, OrphanExits, Returns, Released,
                LastReference
  <2>4. QED
    BY <2>1, <2>2, <2>3, NoneAssumption DEF OneHolder
<1>2. CASE Tick \/ UNCHANGED vars
  BY <1>2 DEF Tick, vars, environment, OneHolder, Busy, AtWork
<1>3. ASSUME NEW request \in requests, NEW time \in {request.began, clock},
             Land(request, time)
      PROVE  OneHolder'
  BY <1>3 DEF Land, OneHolder, Busy, AtWork
<1>4. QED
  BY <1>1, <1>2, <1>3 DEF Next, Terminated

-----------------------------------------------------------------------------
(* What a step does to the variables of its run.                           *)

\* A return, or the end of the process.
Ends(r) ==
  /\ run'[r].pc \in {"returned", "dead"}
  /\ run'[r].todo = {} /\ run'[r].began = 0 /\ run'[r].old = {}
  /\ run'[r].result = "ok" => run[r].pc = "loop" /\ run[r].todo = {} /\ ~run[r].failed

\* What comes before the loop, as far as its entry.
Prepares(r) ==
  /\ run[r].pc \in Before /\ run'[r].pc \in Before \cup {"loop"}
  /\ run'[r].began = run[r].began /\ run'[r].old = run[r].old
  /\ run'[r].result = run[r].result
  /\ \/ run'[r].pc # "loop" /\ run'[r].todo = run[r].todo
     \/ run'[r].pc = "loop" /\ run[r].pc = "tools" /\ run'[r].todo = Selected
  /\ \/ run'[r].pc # "tools" /\ run'[r].cutoff = run[r].cutoff
     \/ run'[r].pc = "tools" /\ run'[r].cutoff = clock - Keep

\* The next iteration, after a whole backup or after a failure.
Continues(r) ==
  /\ run[r].pc \in Working \cup {"loop"} /\ run'[r].pc = "loop"
  /\ run'[r].todo = run[r].todo \/ (run'[r].failed /\ run'[r].todo \subseteq run[r].todo)
  /\ run'[r].began \in {0, run[r].began} /\ run'[r].old \subseteq run[r].old
  /\ run[r].pc \in Working => run'[r].old = {}
  /\ run'[r].cutoff = run[r].cutoff /\ run'[r].result = run[r].result
  /\ ~run'[r].failed =>
       /\ ~run[r].failed
       /\ run[r].pc = "deleting" \/ <<r, run[r].db>> \in published

\* The way of one backup: uploading, publishing, listing, deleting.
Proceeds(r) ==
  /\ \/ run[r].pc = "uploading" /\ run'[r].pc = "publishing" /\ SendPublish(r)
     \/ /\ run[r].pc = "publishing" /\ run'[r].pc = "listing"
        /\ <<r, run[r].db>> \in published
     \/ run[r].pc = "listing" /\ run'[r].pc = "deleting" /\ ListOld(r)
     \/ run[r].pc = "deleting" /\ run'[r].pc = "deleting"
  /\ run'[r].db = run[r].db /\ run'[r].todo = run[r].todo
  /\ run'[r].began = run[r].began /\ run'[r].cutoff = run[r].cutoff
  /\ run'[r].failed = run[r].failed /\ run'[r].result = run[r].result
  /\ run'[r].old \subseteq run[r].old \/ ListOld(r)

LEMMA ReturnsEnds ==
  ASSUME TypeOK, NEW r \in Runs, NEW result, Returns(r, result),
         result = "ok" => run[r].pc = "loop" /\ run[r].todo = {} /\ ~run[r].failed
  PROVE  Ends(r)
<1>1. run'[r] = [Idle EXCEPT !.pc = "returned", !.result = result]
  BY DEF Returns, TypeOK
<1>2. QED
  BY <1>1 DEF Ends, Idle

LEMMA ContinueContinues ==
  ASSUME TypeOK, NEW r \in Runs, NEW failed \in BOOLEAN, Continue(r, failed),
         run[r].pc \in Working,
         ~failed => run[r].pc = "deleting" \/ <<r, run[r].db>> \in published
  PROVE  Continues(r)
<1>1. run[r] \in RunType
  BY DEF TypeOK
<1>2. run'[r] = [run[r] EXCEPT !.pc = "loop", !.db = None, !.began = 0, !.old = {},
                               !.failed = Recorded(@, failed)]
  BY DEF Continue, TypeOK
<1>3. QED
  BY <1>1, <1>2 DEF Continues, Recorded, RunType

\* Every step of a run is one of these.
LEMMA Moves ==
  ASSUME TypeOK, NEW r \in Runs, Step(r) \/ Cancel(r) \/ Crash(r) \/ OrphanExits(r)
  PROVE  \/ Ends(r) \/ Prepares(r) \/ Continues(r)
         \/ \E db \in Selected : StartDatabase(r, db)
         \/ Proceeds(r)
         \/ run' = [run EXCEPT ![r].canceled = run'[r].canceled]
<1>0. run[r] \in RunType /\ run \in [Runs -> RunType]
  BY DEF TypeOK
<1>1. CASE Begin(r)
  <2>1. Returns(r, "busy") => Ends(r)
    BY ReturnsEnds
  <2>2. QED
    BY <1>0, <1>1, <2>1 DEF Begin, Prepares, Before, RunType
<1>2. CASE CheckVersioning(r)
  <2>1. Returns(r, "failed") \/ Returns(r, "canceled") => Ends(r)
    BY ReturnsEnds
  <2>2. QED
    BY <1>0, <1>2, <2>1 DEF CheckVersioning, Prepares, Before, RunType
<1>3. CASE Select(r)
  BY <1>0, <1>3 DEF Select, Prepares, Before, RunType
<1>4. CASE SelectFails(r) \/ StopCanceled(r) \/ Finish(r)
  <2>1. PICK result : /\ Returns(r, result)
                      /\ result = "ok" =>
                           run[r].pc = "loop" /\ run[r].todo = {} /\ ~run[r].failed
    BY <1>4 DEF SelectFails, StopCanceled, Finish
  <2>2. QED
    BY <2>1, ReturnsEnds
<1>5. CASE ToolsChecked(r)
  <2>1. CASE run' = [run EXCEPT ![r].pc = "loop", ![r].todo = Selected]
    BY <1>0, <1>5, <2>1 DEF ToolsChecked, Prepares, Before, RunType
  <2>2. CASE run' = [run EXCEPT ![r] = [Idle EXCEPT !.pc = "returned", !.result = "failed"]]
    BY <1>0, <2>2 DEF Ends, Idle
  <2>3. QED
    BY <1>5, <2>1, <2>2 DEF ToolsChecked
<1>6. CASE \E db \in Selected : InspectFails(r, db)
  BY <1>0, <1>6 DEF InspectFails, Recorded, Continues, Working, RunType
<1>7. CASE UploadSucceeds(r)
  <2>1. CASE run' = [run EXCEPT ![r].pc = "listing"]
    BY <1>0, <1>7, <2>1 DEF UploadSucceeds, Proceeds, RunType
  <2>2. QED
    BY <1>7, <2>1, ContinueContinues DEF UploadSucceeds, Working
<1>8. CASE UploadFails(r) \/ ListFails(r) \/ DeleteFails(r)
  BY <1>8, ContinueContinues
     DEF UploadFails, AfterFailure, ListFails, DeleteFails, Working
<1>9. CASE RetentionDone(r)
  BY <1>9, ContinueContinues DEF RetentionDone, Working
<1>10. CASE Cancel(r)
  BY <1>0, <1>10 DEF Cancel, RunType
<1>11. CASE Crash(r)
  BY <1>0, <1>11 DEF Crash, Ends, Idle
<1>12. CASE OrphanExits(r)
  BY <1>0, <1>12 DEF OrphanExits, RunType
<1>13. CASE SendPublish(r)
  BY <1>0, <1>13 DEF SendPublish, Proceeds, RunType
<1>14. CASE ListOld(r)
  BY <1>0, <1>14 DEF ListOld, Proceeds, RunType
<1>15. CASE \E object \in run[r].old : DeleteOld(r, object)
  BY <1>0, <1>15 DEF DeleteOld, Proceeds, RunType
<1>16. QED
  BY <1>1, <1>2, <1>3, <1>4, <1>5, <1>6, <1>7, <1>8, <1>9, <1>10, <1>11, <1>12, <1>13,
     <1>14, <1>15 DEF Step

-----------------------------------------------------------------------------
(* Databases, requests and time.                                           *)

LEMMA CurrentTakenStep ==
  ASSUME TypeOK, CurrentTaken, [Next]_vars
  PROVE  CurrentTaken'
<1>1. ASSUME NEW r \in Runs, Step(r) \/ Cancel(r) \/ Crash(r) \/ OrphanExits(r)
      PROVE  CurrentTaken'
  <2>1. \A s \in Runs : s # r => run'[s] = run[s]
    BY <1>1, StepType DEF TypeOK
  <2>2. run'[r].pc \in Working => run'[r].db \in Selected /\ run'[r].db \notin run'[r].todo
    <3>1. CASE Ends(r) \/ Prepares(r) \/ Continues(r)
      BY <3>1 DEF Ends, Prepares, Continues, Working, Before
    <3>2. CASE \E db \in Selected : StartDatabase(r, db)
      BY <3>2 DEF StartDatabase, TypeOK, RunType
    <3>3. CASE Proceeds(r)
      BY <3>3 DEF Proceeds, CurrentTaken, Working
    <3>4. CASE run' = [run EXCEPT ![r].canceled = run'[r].canceled]
      BY <3>4 DEF CurrentTaken, TypeOK, RunType
    <3>5. QED
      BY <1>1, <3>1, <3>2, <3>3, <3>4, Moves
  <2>3. QED
    BY <2>1, <2>2 DEF CurrentTaken
<1>2. CASE Tick \/ UNCHANGED vars
  BY <1>2 DEF Tick, vars, environment, CurrentTaken
<1>3. ASSUME NEW request \in requests, NEW time \in {request.began, clock},
             Land(request, time)
      PROVE  CurrentTaken'
  BY <1>3 DEF Land, CurrentTaken
<1>4. QED
  BY <1>1, <1>2, <1>3 DEF Next, Terminated

LEMMA UntriedStep ==
  ASSUME TypeOK, CurrentTaken, UntriedIsUnpublished, [Next]_vars
  PROVE  UntriedIsUnpublished'
<1>1. ASSUME NEW r \in Runs, Step(r) \/ Cancel(r) \/ Crash(r) \/ OrphanExits(r)
      PROVE  UntriedIsUnpublished'
  <2>1. \A s \in Runs : s # r => run'[s] = run[s]
    BY <1>1, StepType DEF TypeOK
  <2>2. UNCHANGED published
    BY <1>1, StepFrame
  <2>3. ASSUME NEW db \in Selected, Untried(r, db)'
        PROVE  Untried(r, db) /\ (SendPublish(r) => db # run[r].db)
    <3>1. CASE Ends(r) \/ Prepares(r) \/ Continues(r)
      <4>1. run'[r].pc # "publishing"
        BY <3>1 DEF Ends, Prepares, Continues, Before
      <4>2. ~SendPublish(r)
        BY <4>1 DEF SendPublish, TypeOK, RunType
      <4>3. QED
        BY <2>3, <3>1, <4>2 DEF Ends, Prepares, Continues, Before, Working, Untried
    <3>2. CASE \E d \in Selected : StartDatabase(r, d)
      BY <2>3, <3>2 DEF StartDatabase, Untried, SendPublish, Before, TypeOK, RunType
    <3>3. CASE Proceeds(r)
      BY <2>3, <3>3 DEF Proceeds, CurrentTaken, Untried, Before, Working, SendPublish
    <3>4. CASE run' = [run EXCEPT ![r].canceled = run'[r].canceled]
      BY <2>3, <3>4 DEF SendPublish, Untried, TypeOK, RunType
    <3>5. QED
      BY <1>1, <3>1, <3>2, <3>3, <3>4, Moves
  <2>4. \A request \in requests' : request \in requests \/
          (SendPublish(r) /\ request.run = r /\ request.db = run[r].db)
    BY <1>1, StepStore DEF SendPublish
  <2>5. QED
    BY <2>1, <2>2, <2>3, <2>4 DEF UntriedIsUnpublished, Untried
<1>2. CASE Tick \/ UNCHANGED vars
  BY <1>2 DEF Tick, vars, environment, UntriedIsUnpublished, Untried
<1>3. ASSUME NEW request \in requests, NEW time \in {request.began, clock},
             Land(request, time)
      PROVE  UntriedIsUnpublished'
  BY <1>3 DEF Land, UntriedIsUnpublished, Untried
<1>4. QED
  BY <1>1, <1>2, <1>3 DEF Next, Terminated

LEMMA OwnRequestStep ==
  ASSUME TypeOK, CurrentTaken, UntriedIsUnpublished, OwnRequest, [Next]_vars
  PROVE  OwnRequest'
<1>1. ASSUME NEW r \in Runs, Step(r) \/ Cancel(r) \/ Crash(r) \/ OrphanExits(r)
      PROVE  OwnRequest'
  <2>1. \A s \in Runs : s # r => run'[s] = run[s]
    BY <1>1, StepType DEF TypeOK
  <2>2. \A request \in requests' : request \in requests \/
          (SendPublish(r) /\ request.run = r /\ request.began = run[r].began)
    BY <1>1, StepStore DEF SendPublish
  <2>3. CASE SendPublish(r)
    <3>1. run'[r].db = run[r].db /\ run'[r].began = run[r].began
      BY <2>3 DEF SendPublish, TypeOK, RunType
    <3>2. \A request \in requests : request.run = r => request.db # run[r].db
      BY <2>3 DEF SendPublish, UntriedIsUnpublished, Untried, CurrentTaken, Working
    <3>3. QED
      BY <2>1, <2>2, <3>1, <3>2 DEF OwnRequest
  <2>4. CASE run'[r].pc # "publishing" /\ ~SendPublish(r)
    BY <2>1, <2>2, <2>4 DEF OwnRequest
  <2>5. CASE run' = [run EXCEPT ![r].canceled = run'[r].canceled] /\ ~SendPublish(r)
    <3>1. /\ run'[r].pc = run[r].pc /\ run'[r].db = run[r].db
          /\ run'[r].began = run[r].began
      BY <2>5 DEF TypeOK, RunType
    <3>2. QED
      BY <2>1, <2>2, <2>5, <3>1 DEF OwnRequest
  <2>6. \/ SendPublish(r) \/ run'[r].pc # "publishing"
        \/ run' = [run EXCEPT ![r].canceled = run'[r].canceled]
    <3>1. CASE \E db \in Selected : StartDatabase(r, db)
      BY <3>1 DEF StartDatabase, TypeOK, RunType
    <3>2. CASE Ends(r) \/ Prepares(r) \/ Continues(r) \/ Proceeds(r)
      BY <3>2 DEF Ends, Prepares, Continues, Proceeds, Before
    <3>3. QED
      BY <1>1, <3>1, <3>2, Moves
  <2>7. QED
    BY <2>3, <2>4, <2>5, <2>6
<1>2. CASE Tick \/ UNCHANGED vars
  BY <1>2 DEF Tick, vars, environment, OwnRequest
<1>3. ASSUME NEW request \in requests, NEW time \in {request.began, clock},
             Land(request, time)
      PROVE  OwnRequest'
  BY <1>3 DEF Land, OwnRequest
<1>4. QED
  BY <1>1, <1>2, <1>3 DEF Next, Terminated

LEMMA ChronologyStep ==
  ASSUME TypeOK, Chronology, [Next]_vars
  PROVE  Chronology'
<1>0. clock \in Int /\ Keep \in Nat /\ \A r \in Runs : run[r].cutoff \in Int /\ run[r].began \in Int
  BY KeepAssumption, ClockAssumption DEF TypeOK, RunType, Ticks
<1>1. ASSUME NEW r \in Runs, Step(r) \/ Cancel(r) \/ Crash(r) \/ OrphanExits(r)
      PROVE  Chronology'
  <2>1. (\A s \in Runs : s # r => run'[s] = run[s]) /\ clock' = clock
    BY <1>1, StepType, StepFrame DEF TypeOK
  <2>2. /\ run'[r].began <= clock
        /\ run'[r].pc \in {"tools", "loop"} => run'[r].cutoff + Keep <= clock
        /\ run'[r].pc \in Working => run'[r].cutoff + Keep <= run'[r].began
    <3>1. CASE Ends(r) \/ Prepares(r)
      BY <1>0, <3>1, ClockAssumption
         DEF Ends, Prepares, Chronology, Working, Before, TypeOK, Ticks
    <3>2. CASE Continues(r)
      BY <1>0, <3>2, ClockAssumption
         DEF Continues, Chronology, Working, TypeOK, Ticks
    <3>3. CASE \E db \in Selected : StartDatabase(r, db)
      BY <1>0, <3>3 DEF StartDatabase, Chronology, Working, TypeOK, RunType
    <3>4. CASE Proceeds(r)
      BY <1>0, <3>4 DEF Proceeds, Chronology, Working
    <3>5. CASE run' = [run EXCEPT ![r].canceled = run'[r].canceled]
      BY <1>0, <3>5 DEF Chronology, TypeOK, RunType
    <3>6. QED
      BY <1>1, <3>1, <3>2, <3>3, <3>4, <3>5, Moves
  <2>3. \A request \in requests' : request.began <= clock
    BY <1>1, StepStore DEF SendPublish, Chronology
  <2>4. QED
    BY <2>1, <2>2, <2>3 DEF Chronology
<1>2. CASE Tick
  BY <1>0, <1>2 DEF Tick, Chronology, TypeOK, RequestType, Ticks
<1>3. CASE UNCHANGED vars
  BY <1>3 DEF vars, environment, Chronology
<1>4. ASSUME NEW request \in requests, NEW time \in {request.began, clock},
             Land(request, time)
      PROVE  Chronology'
  BY <1>4 DEF Land, Chronology
<1>5. QED
  BY <1>1, <1>2, <1>3, <1>4 DEF Next, Terminated

-----------------------------------------------------------------------------
(* Retention.                                                              *)

LEMMA OneObjectPerKeyStep ==
  ASSUME TypeOK, OneObjectPerKey, [Next]_vars
  PROVE  OneObjectPerKey'
<1>1. CASE bucket' \subseteq bucket
  BY <1>1 DEF OneObjectPerKey
<1>2. ASSUME NEW request \in requests, NEW time \in {request.began, clock},
             Land(request, time)
      PROVE  OneObjectPerKey'
  BY <1>2 DEF Land, At, OneObjectPerKey
<1>3. ASSUME NEW r \in Runs, Step(r) \/ Cancel(r) \/ Crash(r) \/ OrphanExits(r)
      PROVE  bucket' \subseteq bucket
  BY <1>3, StepStore DEF DeleteOld
<1>4. CASE Tick \/ UNCHANGED vars
  BY <1>4 DEF Tick, vars, environment, OneObjectPerKey
<1>5. QED
  BY <1>1, <1>2, <1>3, <1>4 DEF Next, Terminated

\* Only the holder of the lock deletes, and only what retention listed.
LEMMA DeletedByHolder ==
  ASSUME TypeOK, OneHolder, NEW r \in Runs, NEW object \in run[r].old,
         DeleteOld(r, object)
  PROVE  /\ bucket' = bucket \ At(object.db, object.key)
         /\ \A s \in Runs : run[s].pc \in Working \cup {"loop"} => s = r
BY DEF DeleteOld, OneHolder, Busy, AtWork, Working

\* What is old when it is listed is not what the run has just published.
LEMMA ListedIsOther ==
  ASSUME TypeOK, Chronology, OneObjectPerKey, OwnBackupStands, NEW r \in Runs, ListOld(r),
         NEW object \in run'[r].old
  PROVE  object.db = run[r].db /\ object.key # BackupKey(run[r].began)
<1>1. /\ object \in bucket /\ object.db = run[r].db /\ object.key # Latest
      /\ object.time < run[r].cutoff
  BY DEF ListOld, TimestampBackups, Expired, TypeOK, RunType
<1>2. PICK own \in bucket : Fresh(r, own)
  BY DEF OwnBackupStands, ListOld
<1>3. CASE FixedNames
  BY <1>1, <1>3 DEF BackupKey
<1>4. CASE ~FixedNames
  <2>1. own.time >= run[r].cutoff
    <3>1. /\ own.time \in Int /\ run[r].cutoff \in Int /\ run[r].began \in Int
      BY DEF TypeOK, Objects, RunType, Ticks
    <3>2. run[r].cutoff + Keep <= run[r].began
      BY DEF Chronology, ListOld, Working
    <3>3. own.time >= run[r].began + Skew
      BY <1>2, <1>4 DEF Fresh
    <3>4. QED
      BY <3>1, <3>2, <3>3, KeepAssumption, SkewAssumption
  <2>2. object # own
    <3>1. object.time \in Int /\ own.time \in Int /\ run[r].cutoff \in Int
      BY <1>1 DEF TypeOK, Objects, RunType
    <3>2. QED
      BY <1>1, <2>1, <3>1
  <2>3. QED
    BY <1>1, <1>2, <2>2 DEF OneObjectPerKey, Fresh
<1>5. QED
  BY <1>1, <1>3, <1>4

LEMMA OthersDeletedStep ==
  ASSUME TypeOK, Chronology, OneObjectPerKey, OwnBackupStands, OthersDeleted, [Next]_vars
  PROVE  OthersDeleted'
<1>1. ASSUME NEW r \in Runs, Step(r) \/ Cancel(r) \/ Crash(r) \/ OrphanExits(r)
      PROVE  OthersDeleted'
  <2>1. \A s \in Runs : s # r => run'[s] = run[s]
    BY <1>1, StepType DEF TypeOK
  <2>2. ASSUME NEW object \in run'[r].old
        PROVE  /\ run'[r].pc = "deleting" /\ object.db = run'[r].db
               /\ object.key # BackupKey(run'[r].began)
    <3>1. CASE Ends(r) \/ Prepares(r) \/ Continues(r)
      BY <2>2, <3>1 DEF Ends, Prepares, Continues, Before, Working, OthersDeleted
    <3>2. CASE \E db \in Selected : StartDatabase(r, db)
      BY <2>2, <3>2 DEF StartDatabase, OthersDeleted, TypeOK, RunType
    <3>3. CASE Proceeds(r) /\ ~ListOld(r)
      BY <2>2, <3>3 DEF Proceeds, OthersDeleted
    <3>4. CASE ListOld(r)
      BY <2>2, <3>4, ListedIsOther DEF ListOld, TypeOK, RunType
    <3>5. CASE run' = [run EXCEPT ![r].canceled = run'[r].canceled]
      BY <2>2, <3>5 DEF OthersDeleted, TypeOK, RunType
    <3>6. QED
      BY <1>1, <3>1, <3>2, <3>3, <3>4, <3>5, Moves
  <2>3. QED
    BY <2>1, <2>2 DEF OthersDeleted, BackupKey
<1>2. CASE Tick \/ UNCHANGED vars
  BY <1>2 DEF Tick, vars, environment, OthersDeleted, BackupKey
<1>3. ASSUME NEW request \in requests, NEW time \in {request.began, clock},
             Land(request, time)
      PROVE  OthersDeleted'
  BY <1>3 DEF Land, OthersDeleted, BackupKey
<1>4. QED
  BY <1>1, <1>2, <1>3 DEF Next, Terminated

\* What replaces a fresh object under its key is fresh.
LEMMA LandKeepsFresh ==
  ASSUME TypeOK, Chronology, NEW request \in requests,
         NEW time \in {request.began, clock}, Land(request, time),
         NEW r \in Runs, NEW own \in bucket, Fresh(r, own)
  PROVE  \E object \in bucket' : Fresh(r, object)
<1>1. CASE own \notin At(request.db, BackupKey(request.began))
  BY <1>1 DEF Land
<1>2. CASE own \in At(request.db, BackupKey(request.began))
  <2> DEFINE new == [db |-> request.db, key |-> BackupKey(request.began),
                     time |-> time + Skew]
  <2>1. new \in bucket' /\ new.db = run[r].db /\ new.key = BackupKey(run[r].began)
    BY <1>2 DEF Land, At, Fresh
  <2>2. ~FixedNames => new.time >= run[r].began + Skew
    <3>1. /\ request.began \in Int /\ clock \in Int /\ request.began <= clock
          /\ run[r].began \in Int
      BY DEF TypeOK, RequestType, RunType, Ticks, Chronology
    <3>2. ~FixedNames => request.began = run[r].began
      BY <1>2 DEF At, Fresh, BackupKey
    <3>3. QED
      BY <3>1, <3>2, SkewAssumption
  <2>3. QED
    BY <2>1, <2>2 DEF Fresh
<1>3. QED
  BY <1>1, <1>2

\* A request of the run itself brings a fresh object.
LEMMA LandIsFresh ==
  ASSUME TypeOK, Chronology, OwnRequest, NEW request \in requests,
         NEW time \in {request.began, clock}, Land(request, time),
         NEW r \in Runs, run[r].pc = "publishing", request.run = r,
         request.db = run[r].db
  PROVE  \E object \in bucket' : Fresh(r, object)
<1> DEFINE new == [db |-> request.db, key |-> BackupKey(request.began),
                   time |-> time + Skew]
<1>1. request.began = run[r].began
  BY DEF OwnRequest
<1>2. new \in bucket'
  BY DEF Land
<1>3. time + Skew >= run[r].began + Skew
  BY <1>1, SkewAssumption DEF TypeOK, RequestType, Ticks, Chronology
<1>4. QED
  BY <1>1, <1>2, <1>3 DEF Fresh

LEMMA OwnBackupStandsStep ==
  ASSUME TypeOK, OneHolder, CurrentTaken, UntriedIsUnpublished, OwnRequest, Chronology,
         OwnBackupStands, OthersDeleted, [Next]_vars
  PROVE  OwnBackupStands'
<1>1. ASSUME NEW r \in Runs, Step(r) \/ Cancel(r) \/ Crash(r) \/ OrphanExits(r)
      PROVE  OwnBackupStands'
  <2>0. (\A s \in Runs : s # r => run'[s] = run[s]) /\ published' = published
    BY <1>1, StepType, StepFrame DEF TypeOK
  <2>1. CASE \E object \in run[r].old : DeleteOld(r, object)
    <3>1. PICK object \in run[r].old : DeleteOld(r, object)
      BY <2>1
    <3>2. /\ run[r].pc = "deleting" /\ object.db = run[r].db
          /\ object.key # BackupKey(run[r].began)
      BY <3>1 DEF OthersDeleted
    <3>3. PICK own \in bucket : Fresh(r, own)
      BY <3>2 DEF OwnBackupStands
    <3>4. own \in bucket'
      BY <3>1, <3>2, <3>3 DEF DeleteOld, At, Fresh
    <3>5. run'[r].db = run[r].db /\ run'[r].began = run[r].began
      BY <3>1 DEF DeleteOld, TypeOK, RunType
    <3>6. \A s \in Runs : s # r => run[s].pc \notin Working
      BY <3>1, DeletedByHolder
    <3>7. QED
      BY <2>0, <3>3, <3>4, <3>5, <3>6 DEF OwnBackupStands, Fresh, BackupKey, Working
  <2>2. CASE UNCHANGED bucket
    <3>1. ASSUME \/ run'[r].pc \in {"listing", "deleting"}
                 \/ run'[r].pc = "publishing" /\ <<r, run'[r].db>> \in published
          PROVE  /\ \/ run[r].pc \in {"listing", "deleting"}
                    \/ run[r].pc = "publishing" /\ <<r, run[r].db>> \in published
                 /\ run'[r].db = run[r].db /\ run'[r].began = run[r].began
      <4>1. CASE Ends(r) \/ Prepares(r) \/ Continues(r)
        BY <3>1, <4>1 DEF Ends, Prepares, Continues, Before
      <4>2. CASE \E db \in Selected : StartDatabase(r, db)
        BY <3>1, <4>2 DEF StartDatabase, TypeOK, RunType
      <4>3. CASE Proceeds(r)
        BY <3>1, <4>3 DEF Proceeds, UntriedIsUnpublished, Untried, CurrentTaken, Working
      <4>4. CASE run' = [run EXCEPT ![r].canceled = run'[r].canceled]
        BY <3>1, <4>4 DEF TypeOK, RunType
      <4>5. QED
        BY <1>1, <4>1, <4>2, <4>3, <4>4, Moves
    <3>2. QED
      BY <2>0, <2>2, <3>1 DEF OwnBackupStands, Fresh, BackupKey
  <2>3. QED
    BY <1>1, <2>1, <2>2, StepStore
<1>2. ASSUME NEW request \in requests, NEW time \in {request.began, clock},
             Land(request, time)
      PROVE  OwnBackupStands'
  <2>1. UNCHANGED run
    BY <1>2 DEF Land
  <2>2. ASSUME NEW r \in Runs,
               \/ run[r].pc \in {"listing", "deleting"}
               \/ run[r].pc = "publishing" /\ <<r, run[r].db>> \in published'
        PROVE  \E object \in bucket' : Fresh(r, object)
    <3>1. CASE \/ run[r].pc \in {"listing", "deleting"}
               \/ run[r].pc = "publishing" /\ <<r, run[r].db>> \in published
      BY <1>2, <3>1, LandKeepsFresh DEF OwnBackupStands
    <3>2. CASE run[r].pc = "publishing" /\ request.run = r /\ request.db = run[r].db
      BY <1>2, <3>2, LandIsFresh
    <3>3. QED
      BY <1>2, <2>2, <3>1, <3>2 DEF Land
  <2>3. QED
    BY <2>1, <2>2 DEF OwnBackupStands, Fresh, BackupKey
<1>3. CASE Tick \/ UNCHANGED vars
  BY <1>3 DEF Tick, vars, environment, OwnBackupStands, Fresh, BackupKey
<1>4. QED
  BY <1>1, <1>2, <1>3 DEF Next, Terminated

LEMMA NeverWithoutStep ==
  ASSUME TypeOK, OwnBackupStands, OthersDeleted, NeverWithoutBackup, [Next]_vars
  PROVE  NeverWithoutBackup'
<1>1. ASSUME NEW r \in Runs, Step(r) \/ Cancel(r) \/ Crash(r) \/ OrphanExits(r)
      PROVE  NeverWithoutBackup'
  <2>1. CASE \E object \in run[r].old : DeleteOld(r, object)
    <3>1. PICK object \in run[r].old : DeleteOld(r, object)
      BY <2>1
    <3>2. /\ run[r].pc = "deleting" /\ object.db = run[r].db
          /\ object.key # BackupKey(run[r].began)
      BY <3>1 DEF OthersDeleted
    <3>3. PICK own \in bucket : Fresh(r, own)
      BY <3>2 DEF OwnBackupStands
    <3>4. own \in bucket' /\ own.db = object.db
      BY <3>1, <3>2, <3>3 DEF DeleteOld, At, Fresh
    <3>5. QED
      BY <3>1, <3>4 DEF DeleteOld, At, NeverWithoutBackup
  <2>2. CASE UNCHANGED bucket
    BY <2>2 DEF NeverWithoutBackup
  <2>3. QED
    BY <1>1, <2>1, <2>2, StepStore
<1>2. ASSUME NEW request \in requests, NEW time \in {request.began, clock},
             Land(request, time)
      PROVE  NeverWithoutBackup'
  <2>1. ASSUME NEW db \in Selected
        PROVE  \E object \in bucket' : object.db = db
    <3>1. PICK object \in bucket : object.db = db
      BY DEF NeverWithoutBackup
    <3>2. CASE object \in At(request.db, BackupKey(request.began))
      <4>1. db = request.db
        BY <3>1, <3>2 DEF At
      <4>2. [db |-> request.db, key |-> BackupKey(request.began), time |-> time + Skew]
              \in bucket'
        BY <1>2 DEF Land
      <4>3. QED
        BY <4>1, <4>2
    <3>3. CASE object \notin At(request.db, BackupKey(request.began))
      BY <1>2, <3>1, <3>3 DEF Land
    <3>4. QED
      BY <3>2, <3>3
  <2>2. QED
    BY <2>1 DEF NeverWithoutBackup
<1>3. CASE Tick \/ UNCHANGED vars
  BY <1>3 DEF Tick, vars, environment, NeverWithoutBackup
<1>4. QED
  BY <1>1, <1>2, <1>3 DEF Next, Terminated

LEMMA AccountedStep ==
  ASSUME TypeOK, UntriedIsUnpublished, OwnBackupStands, Accounted, [Next]_vars
  PROVE  Accounted'
<1>1. ASSUME NEW r \in Runs, Step(r) \/ Cancel(r) \/ Crash(r) \/ OrphanExits(r)
      PROVE  Accounted'
  <2>0. (\A s \in Runs : s # r => run'[s] = run[s]) /\ published' = published
    BY <1>1, StepType, StepFrame DEF TypeOK
  <2>1. run'[r].result = "ok" => {r} \X Selected \subseteq published
    <3>1. CASE Ends(r)
      BY <3>1 DEF Ends, Accounted
    <3>2. CASE Prepares(r) \/ Continues(r) \/ Proceeds(r)
      BY <3>2 DEF Prepares, Continues, Proceeds, Accounted
    <3>3. CASE \E db \in Selected : StartDatabase(r, db)
      BY <3>3 DEF StartDatabase, Accounted, TypeOK, RunType
    <3>4. CASE run' = [run EXCEPT ![r].canceled = run'[r].canceled]
      BY <3>4 DEF Accounted, TypeOK, RunType
    <3>5. QED
      BY <1>1, <3>1, <3>2, <3>3, <3>4, Moves
  <2>2. ASSUME run'[r].pc \in Working \cup {"loop"}, ~run'[r].failed, NEW db \in Selected
        PROVE  \/ db \in run'[r].todo
               \/ run'[r].pc \in {"uploading", "publishing"} /\ db = run'[r].db
               \/ <<r, db>> \in published
    <3>1. CASE Ends(r) \/ Prepares(r)
      BY <2>2, <3>1 DEF Ends, Prepares, Before, Working
    <3>2. CASE Continues(r)
      BY <2>2, <3>2 DEF Continues, Accounted, Working
    <3>3. CASE Proceeds(r)
      BY <2>2, <3>3 DEF Proceeds, Accounted, Working
    <3>4. CASE \E d \in Selected : StartDatabase(r, d)
      BY <2>2, <3>4 DEF StartDatabase, Accounted, TypeOK, RunType
    <3>5. CASE run' = [run EXCEPT ![r].canceled = run'[r].canceled]
      BY <2>2, <3>5 DEF Accounted, TypeOK, RunType
    <3>6. QED
      BY <1>1, <3>1, <3>2, <3>3, <3>4, <3>5, Moves
  <2>3. QED
    BY <2>0, <2>1, <2>2 DEF Accounted
<1>2. CASE Tick \/ UNCHANGED vars
  BY <1>2 DEF Tick, vars, environment, Accounted
<1>3. ASSUME NEW request \in requests, NEW time \in {request.began, clock},
             Land(request, time)
      PROVE  Accounted'
  BY <1>3 DEF Land, Accounted
<1>4. QED
  BY <1>1, <1>2, <1>3 DEF Next, Terminated

-----------------------------------------------------------------------------
(* The theorems.                                                           *)

\* Every reachable state satisfies the inductive invariant.
THEOREM Invariance == Spec => []IInv
<1>1. Init => IInv
  <2> SUFFICES ASSUME Init PROVE IInv
    OBVIOUS
  <2>1. \A r \in Runs : run[r] = Idle
    BY DEF Init
  <2>2. TypeOK
    <3>1. run \in [Runs -> RunType]
      BY IdleType DEF Init
    <3>2. clock \in Ticks /\ OldBackups \subseteq Objects
      BY ClockAssumption DEF Init, Ticks, OldBackups, Objects, Keys
    <3>3. QED
      BY <3>1, <3>2 DEF Init, TypeOK
  <2>3. OneHolder /\ CurrentTaken /\ UntriedIsUnpublished /\ OwnRequest /\ OwnBackupStands
    BY <2>1 DEF Init, Idle, OneHolder, Busy, AtWork, CurrentTaken, Working,
                UntriedIsUnpublished, OwnRequest, OwnBackupStands
  <2>4. Chronology
    BY <2>1 DEF Init, Idle, Chronology, Working
  <2>5. OneObjectPerKey
    BY DEF Init, OldBackups, OneObjectPerKey
  <2>6. OthersDeleted /\ Accounted
    BY <2>1 DEF Init, Idle, OthersDeleted, Accounted, Working
  <2>7. QED
    BY <2>2, <2>3, <2>4, <2>5, <2>6 DEF IInv, Init, NeverWithoutBackup
<1>2. IInv /\ [Next]_vars => IInv'
  BY TypeStep, LockStep, CurrentTakenStep, UntriedStep, OwnRequestStep, ChronologyStep,
     OneObjectPerKeyStep, OwnBackupStandsStep, OthersDeletedStep, NeverWithoutStep,
     AccountedStep DEF IInv
<1>3. QED
  BY <1>1, <1>2, PTL DEF Spec

(***************************************************************************)
(* The variables of App.Backup and of the bucket stay within their types;  *)
(* in particular retention lists timestamp backups only.                   *)
(***************************************************************************)
THEOREM TypeCorrect == Spec => []TypeOK
<1>1. IInv => TypeOK
  BY DEF IInv
<1>2. QED
  BY <1>1, Invariance, PTL

(***************************************************************************)
(* However many runs start, are canceled or killed, at most one works on   *)
(* the host, its surviving children included (process.go:48, 172-184).     *)
(***************************************************************************)
THEOREM MutualExclusion == Spec => []OneBackupAtATime
<1>1. IInv => OneBackupAtATime
  BY DEF IInv, OneHolder, OneBackupAtATime
<1>2. QED
  BY <1>1, Invariance, PTL

(***************************************************************************)
(* Retention leaves every database with a backup, for every retention      *)
(* period and every skew within it (app.go:127, 321-342).                  *)
(***************************************************************************)
THEOREM RetentionIsSafe == Spec => []NeverWithoutBackup
<1>1. IInv => NeverWithoutBackup
  BY DEF IInv
<1>2. QED
  BY <1>1, Invariance, PTL

(***************************************************************************)
(* A run reports success only when each selected database has been         *)
(* published (app.go:137-162).                                             *)
(***************************************************************************)
THEOREM SuccessMeansComplete == Spec => []SuccessIsComplete
<1>1. IInv => SuccessIsComplete
  BY DEF IInv, Accounted, SuccessIsComplete
<1>2. QED
  BY <1>1, Invariance, PTL

-----------------------------------------------------------------------------
(* Versions of what is overwritten.                                        *)

\* Without versions and without a warning, nobody gets past the check.
Unsent == {"idle", "versioning", "returned", "dead"}
NothingSent ==
  /\ ~FixedNames => versioning
  /\ replaced \subseteq {versioning}
  /\ ~versioning /\ ~warned =>
       /\ \A r \in Runs : run[r].pc \in Unsent
       /\ requests = {} /\ replaced = {}

LEMMA NothingSentStep ==
  ASSUME TypeOK, NothingSent, [Next]_vars
  PROVE  NothingSent'
<1>1. ASSUME NEW r \in Runs, Step(r) \/ Cancel(r) \/ Crash(r) \/ OrphanExits(r)
      PROVE  NothingSent'
  <2>0. /\ run \in [Runs -> RunType]
        /\ UNCHANGED <<versioning, replaced>>
    BY <1>1, StepFrame DEF TypeOK
  <2>1. ~warned' => ~warned
    <3>1. CASE Begin(r) \/ CheckVersioning(r)
      BY <3>1 DEF Begin, CheckVersioning, Returns
    <3>2. CASE ~Begin(r) /\ ~CheckVersioning(r)
      BY <1>1, <3>2 DEF Step, Select, SelectFails, ToolsChecked, StopCanceled, Finish,
         StartDatabase, InspectFails, SendPublish, UploadSucceeds, UploadFails, ListOld,
         ListFails, DeleteFails, RetentionDone, DeleteOld, Cancel, Crash, OrphanExits, Inside
    <3>3. QED
      BY <3>1, <3>2
  <2>2. ASSUME ~versioning, ~warned'
        PROVE  run'[r].pc \in Unsent /\ requests' = {}
    <3>0. run[r].pc \in Unsent /\ requests = {} /\ FixedNames /\ run[r] \in RunType
      BY <2>0, <2>1, <2>2 DEF NothingSent
    <3>1. requests' = {}
      BY <1>1, <3>0, StepStore DEF SendPublish, Unsent
    <3>2. ASSUME NEW result, Returns(r, result)
          PROVE  run'[r].pc \in Unsent
      BY <2>0, <3>2 DEF Returns, Idle, Unsent
    <3>3. CASE Begin(r)
      <4>1. CASE run' = [run EXCEPT ![r].pc = "versioning"]
        BY <2>0, <3>0, <3>1, <4>1 DEF Unsent, RunType
      <4>2. QED
        BY <3>0, <3>1, <3>2, <3>3, <4>1 DEF Begin
    <3>4. CASE CheckVersioning(r)
      <4>1. Returns(r, "failed") \/ Returns(r, "canceled")
        BY <2>2, <3>4 DEF CheckVersioning, VersioningAllows
      <4>2. QED
        BY <3>1, <3>2, <4>1
    <3>5. CASE Cancel(r) \/ Crash(r) \/ OrphanExits(r)
      <4>1. CASE Cancel(r)
        BY <2>0, <3>0, <3>1, <4>1 DEF Cancel, RunType
      <4>2. CASE Crash(r)
        BY <2>0, <3>1, <4>2 DEF Crash, Idle, Unsent
      <4>3. CASE OrphanExits(r)
        BY <3>0, <3>1, <4>3 DEF OrphanExits
      <4>4. QED
        BY <3>5, <4>1, <4>2, <4>3
    <3>6. CASE \E object \in run[r].old : DeleteOld(r, object)
      BY <3>0, <3>6 DEF DeleteOld, Unsent
    <3>7. QED
      BY <1>1, <3>0, <3>1, <3>3, <3>4, <3>5, <3>6
         DEF Step, Select, SelectFails, ToolsChecked, StartDatabase, InspectFails,
             StopCanceled, Finish, SendPublish, UploadSucceeds, UploadFails, ListOld,
             ListFails, DeleteFails, RetentionDone, Unsent
  <2>3. \A q \in Runs : q # r => run'[q] = run[q]
    <3>1. run' = [run EXCEPT ![r] = run'[r]]
      BY <1>1, StepType
    <3>2. QED
      BY <2>0, <3>1
  <2>4. QED
    BY <2>0, <2>1, <2>2, <2>3 DEF NothingSent
<1>2. CASE Tick \/ UNCHANGED vars
  BY <1>2 DEF Tick, vars, environment, NothingSent
<1>3. ASSUME NEW request \in requests, NEW time \in {request.began, clock},
             Land(request, time)
      PROVE  NothingSent'
  BY <1>3 DEF Land, NothingSent
<1>4. QED
  BY <1>1, <1>2, <1>3 DEF Next, Terminated

(***************************************************************************)
(* A fixed backup that is overwritten stays recoverable as a version,      *)
(* unless a run has warned that it could not tell (app.go:107-117).        *)
(***************************************************************************)
THEOREM OverwritesAreRecoverable == Spec => []FixedOverwritesAreRecoverable
<1>1. Init => NothingSent
  BY DEF Init, Idle, NothingSent, Unsent
<1>2. TypeOK /\ NothingSent /\ [Next]_vars => NothingSent'
  BY NothingSentStep
<1>3. NothingSent /\ TypeOK => FixedOverwritesAreRecoverable
  BY DEF NothingSent, FixedOverwritesAreRecoverable
<1>4. QED
  BY <1>1, <1>2, <1>3, TypeCorrect, PTL DEF Spec

-----------------------------------------------------------------------------
(* What retention takes.                                                   *)

\* No backup is older than the second of its key, those of before apart.
Stamped ==
  /\ clock >= 1
  /\ \A request \in requests : request.began >= 1
  /\ \A r \in Runs : run[r].pc = "uploading" => run[r].began >= 1
  /\ \A object \in bucket : \/ object.key \in {Latest, 0}
                            \/ object.key + Skew <= object.time

\* What a run is about to delete expired before the run, and is still there
\* unless another backup of its second has replaced it.
Listed ==
  \A r \in Runs : \A object \in run[r].old :
    /\ object.time < run[r].cutoff
    /\ \/ object \in bucket
       \/ ~NewKeyEachTime /\ object.key + Skew <= object.time
    /\ \A other \in run[r].old : other.key = object.key => other = object

LEMMA StampedStep ==
  ASSUME TypeOK, Chronology, Stamped, [Next]_vars
  PROVE  Stamped'
<1>0. clock \in Int
  BY ClockAssumption DEF TypeOK, Ticks
<1>1. ASSUME NEW r \in Runs, Step(r) \/ Cancel(r) \/ Crash(r) \/ OrphanExits(r)
      PROVE  Stamped'
  <2>1. (\A s \in Runs : s # r => run'[s] = run[s]) /\ clock' = clock
    BY <1>1, StepType, StepFrame DEF TypeOK
  <2>2. run'[r].pc = "uploading" => run'[r].began >= 1
    <3>1. CASE Ends(r) \/ Prepares(r) \/ Continues(r) \/ Proceeds(r)
      BY <3>1 DEF Ends, Prepares, Continues, Proceeds, Before
    <3>2. CASE \E db \in Selected : StartDatabase(r, db)
      BY <3>2 DEF StartDatabase, Stamped, TypeOK, RunType
    <3>3. CASE run' = [run EXCEPT ![r].canceled = run'[r].canceled]
      BY <3>3 DEF Stamped, TypeOK, RunType
    <3>4. QED
      BY <1>1, <3>1, <3>2, <3>3, Moves
  <2>3. \A request \in requests' : request.began >= 1
    BY <1>1, StepStore DEF SendPublish, Stamped
  <2>4. bucket' \subseteq bucket
    BY <1>1, StepStore DEF DeleteOld
  <2>5. QED
    BY <2>1, <2>2, <2>3, <2>4 DEF Stamped
<1>2. CASE Tick
  BY <1>0, <1>2 DEF Tick, Stamped
<1>3. CASE UNCHANGED vars
  BY <1>3 DEF vars, environment, Stamped
<1>4. ASSUME NEW request \in requests, NEW time \in {request.began, clock},
             Land(request, time)
      PROVE  Stamped'
  <2>1. /\ bucket' = (bucket \ At(request.db, BackupKey(request.began)))
                       \cup {[db |-> request.db, key |-> BackupKey(request.began),
                              time |-> time + Skew]}
        /\ requests' = requests \ {request} /\ UNCHANGED <<clock, run>>
    BY <1>4 DEF Land
  <2>2. request.began + Skew <= time + Skew
    BY <1>0, SkewAssumption DEF TypeOK, RequestType, Ticks, Chronology
  <2>3. \/ BackupKey(request.began) = Latest
        \/ BackupKey(request.began) + Skew <= time + Skew
    BY <2>2 DEF BackupKey
  <2>4. QED
    BY <2>1, <2>3 DEF Stamped
<1>5. QED
  BY <1>1, <1>2, <1>3, <1>4 DEF Next, Terminated

\* A landing replaces what is listed only if another backup has the second.
LEMMA LandListed ==
  ASSUME TypeOK, Stamped, Listed, NEW request \in requests,
         NEW time \in {request.began, clock}, Land(request, time)
  PROVE  Listed'
<1>1. UNCHANGED run /\ (NewKeyEachTime' => NewKeyEachTime)
  BY DEF Land, NewKeyEachTime
<1>2. ASSUME NEW r \in Runs, NEW object \in run[r].old, object \in bucket
      PROVE  \/ object \in bucket'
             \/ ~NewKeyEachTime' /\ object.key + Skew <= object.time
  <2>1. CASE object \notin At(request.db, BackupKey(request.began))
    BY <1>2, <2>1 DEF Land
  <2>2. CASE object \in At(request.db, BackupKey(request.began))
    <3>1. object.key = BackupKey(request.began) /\ object.key \in Ticks
      BY <1>2, <2>2 DEF At, TypeOK, RunType, TimestampObjects
    <3>2. ~FixedNames /\ object.key = request.began
      BY <3>1 DEF BackupKey, Latest, Ticks
    <3>3. object.key # 0 /\ object.key # Latest
      BY <3>1, <3>2 DEF Stamped, Latest, Ticks, TypeOK, RequestType
    <3>4. versioning \in replaced'
      BY <2>2 DEF Land
    <3>5. QED
      BY <1>2, <3>2, <3>3, <3>4 DEF Stamped, NewKeyEachTime
  <2>3. QED
    BY <2>1, <2>2
<1>3. QED
  BY <1>1, <1>2 DEF Listed

\* A deletion takes what is listed of the run's own list, and of no other's.
LEMMA DeleteListed ==
  ASSUME TypeOK, OneHolder, OthersDeleted, Listed, NEW r \in Runs,
         NEW gone \in run[r].old, DeleteOld(r, gone)
  PROVE  Listed'
<1>0. run[r] \in RunType /\ run \in [Runs -> RunType]
  BY DEF TypeOK
<1>1. /\ bucket' = bucket \ At(gone.db, gone.key) /\ UNCHANGED replaced
      /\ run' = [run EXCEPT ![r].old = @ \ {gone}]
  BY DEF DeleteOld
<1>2. run'[r].old = run[r].old \ {gone} /\ run'[r].cutoff = run[r].cutoff
  BY <1>0, <1>1 DEF RunType
<1>3. \A s \in Runs : s # r => run'[s].old = {}
  <2>1. \A s \in Runs : s # r => run'[s] = run[s] /\ run[s].pc # "deleting"
    BY <1>0, <1>1, DeletedByHolder DEF Working
  <2>2. QED
    BY <2>1 DEF OthersDeleted
<1>4. ASSUME NEW object \in run'[r].old
      PROVE  /\ object.time < run'[r].cutoff
             /\ \/ object \in bucket'
                \/ ~NewKeyEachTime' /\ object.key + Skew <= object.time
             /\ \A other \in run'[r].old : other.key = object.key => other = object
  <2>1. object \in run[r].old /\ object.key # gone.key
    BY <1>2, <1>4 DEF Listed
  <2>2. object \in bucket => object \in bucket'
    BY <1>1, <2>1 DEF At
  <2>3. QED
    BY <1>1, <1>2, <2>1, <2>2 DEF Listed, NewKeyEachTime
<1>5. QED
  BY <1>3, <1>4 DEF Listed

LEMMA ListedStep ==
  ASSUME TypeOK, OneHolder, OneObjectPerKey, OthersDeleted, Stamped, Listed, [Next]_vars
  PROVE  Listed'
<1>1. ASSUME NEW r \in Runs, Step(r) \/ Cancel(r) \/ Crash(r) \/ OrphanExits(r),
             UNCHANGED bucket
      PROVE  Listed'
  <2>1. (\A s \in Runs : s # r => run'[s] = run[s]) /\ UNCHANGED replaced
    BY <1>1, StepType, StepFrame DEF TypeOK
  <2>2. ASSUME NEW object \in run'[r].old
        PROVE  /\ object.time < run'[r].cutoff
               /\ \/ object \in bucket
                  \/ ~NewKeyEachTime /\ object.key + Skew <= object.time
               /\ \A other \in run'[r].old : other.key = object.key => other = object
    <3>1. CASE Ends(r) \/ Prepares(r) \/ Continues(r)
      BY <2>2, <3>1 DEF Ends, Prepares, Continues, Before, Working, OthersDeleted
    <3>2. CASE \E db \in Selected : StartDatabase(r, db)
      BY <2>2, <3>2 DEF StartDatabase, Listed, TypeOK, RunType
    <3>3. CASE Proceeds(r) /\ ~ListOld(r)
      BY <2>2, <3>3 DEF Proceeds, Listed
    <3>4. CASE ListOld(r)
      <4>1. /\ run'[r].cutoff = run[r].cutoff
            /\ run'[r].old = {o \in TimestampBackups(run[r].db) : Expired(o, run[r].cutoff)}
        BY <3>4 DEF ListOld, TypeOK, RunType
      <4>2. QED
        BY <2>2, <4>1 DEF TimestampBackups, Expired, OneObjectPerKey
    <3>5. CASE run' = [run EXCEPT ![r].canceled = run'[r].canceled]
      BY <2>2, <3>5 DEF Listed, TypeOK, RunType
    <3>6. QED
      BY <1>1, <3>1, <3>2, <3>3, <3>4, <3>5, Moves
  <2>3. QED
    BY <1>1, <2>1, <2>2 DEF Listed, NewKeyEachTime
<1>2. ASSUME NEW r \in Runs, Step(r) \/ Cancel(r) \/ Crash(r) \/ OrphanExits(r)
      PROVE  Listed'
  BY <1>1, <1>2, StepStore, DeleteListed
<1>3. CASE Tick \/ UNCHANGED vars
  BY <1>3 DEF Tick, vars, environment, Listed, NewKeyEachTime
<1>4. QED
  BY <1>2, <1>3, LandListed DEF Next, Terminated

LEMMA ListedInvariant == Spec => [](Stamped /\ Listed)
<1>1. Init => Stamped /\ Listed
  <2> SUFFICES ASSUME Init PROVE Stamped /\ Listed
    OBVIOUS
  <2>1. \A object \in bucket : object.key \in {Latest, 0}
    BY DEF Init, OldBackups
  <2>2. QED
    BY <2>1 DEF Init, Idle, Stamped, Listed
<1>2. IInv /\ Stamped /\ Listed /\ [Next]_vars => (Stamped /\ Listed)'
  BY StampedStep, ListedStep DEF IInv
<1>3. QED
  BY <1>1, <1>2, Invariance, PTL DEF Spec

\* The keys that DeleteOld empties held what has expired.
LEMMA DeletesExpired ==
  ASSUME IInv, Listed, NEW r \in Runs, NEW gone \in run[r].old, DeleteOld(r, gone),
         NEW object \in At(gone.db, gone.key)
  PROVE  \/ object.time < clock - Keep
         \/ ~NewKeyEachTime /\ object.key + Skew < clock - Keep
<1>1. /\ clock \in Int /\ run[r].cutoff \in Int /\ run[r].began \in Int /\ Keep \in Int
      /\ Skew \in Int /\ gone.time \in Int /\ gone.key \in Int
  BY KeepAssumption, SkewAssumption, ClockAssumption
     DEF IInv, TypeOK, RunType, Ticks, TimestampObjects
<1>2. run[r].cutoff <= clock - Keep
  <2>1. run[r].pc \in Working
    BY DEF DeleteOld, Working
  <2>2. run[r].cutoff + Keep <= run[r].began /\ run[r].began <= clock
    BY <2>1 DEF IInv, Chronology
  <2>3. QED
    BY <1>1, <2>2
<1>3. gone.time < clock - Keep
  BY <1>1, <1>2 DEF Listed
<1>4. CASE gone \in bucket
  BY <1>3, <1>4 DEF IInv, OneObjectPerKey, At
<1>5. CASE ~NewKeyEachTime /\ gone.key + Skew <= gone.time
  <2>1. gone.key + Skew < clock - Keep
    BY <1>1, <1>3, <1>5
  <2>2. QED
    BY <1>5, <2>1 DEF At
<1>6. QED
  BY <1>4, <1>5 DEF Listed

(***************************************************************************)
(* Whatever lands on a key after it was listed, what retention takes away  *)
(* is older than the retention period, or was begun before it in a second  *)
(* that two backups share (app.go:127, 335-336).                           *)
(***************************************************************************)
THEOREM OnlyOldVanish == Spec => OnlyExpiredVanish
<1> DEFINE Expires == \A object \in bucket :
             (\A o \in bucket' : o.db # object.db \/ o.key # object.key) =>
               \/ object.time < clock - Keep
               \/ ~NewKeyEachTime /\ object.key + Skew < clock - Keep
<1>1. IInv /\ Listed /\ [Next]_vars => Expires
  <2> SUFFICES ASSUME IInv, Listed, [Next]_vars, NEW object \in bucket,
                      \A o \in bucket' : o.db # object.db \/ o.key # object.key
               PROVE  \/ object.time < clock - Keep
                      \/ ~NewKeyEachTime /\ object.key + Skew < clock - Keep
    OBVIOUS
  <2>1. object \notin bucket'
    OBVIOUS
  <2>2. ASSUME NEW r \in Runs, NEW gone \in run[r].old, DeleteOld(r, gone)
        PROVE  \/ object.time < clock - Keep
               \/ ~NewKeyEachTime /\ object.key + Skew < clock - Keep
    <3>1. object \in At(gone.db, gone.key)
      BY <2>1, <2>2 DEF DeleteOld
    <3>2. QED
      BY <2>2, <3>1, DeletesExpired
  <2>3. ASSUME NEW r \in Runs, Step(r) \/ Cancel(r) \/ Crash(r) \/ OrphanExits(r)
        PROVE  \E gone \in run[r].old : DeleteOld(r, gone)
    BY <2>1, <2>3, StepStore DEF IInv
  <2>4. ASSUME NEW request \in requests, NEW time \in {request.began, clock},
               Land(request, time)
        PROVE  FALSE
    <3> DEFINE new == [db |-> request.db, key |-> BackupKey(request.began),
                       time |-> time + Skew]
    <3>1. object \in At(request.db, BackupKey(request.began)) /\ new \in bucket'
      BY <2>1, <2>4 DEF Land
    <3>2. new.db = object.db /\ new.key = object.key
      BY <3>1 DEF At
    <3>3. QED
      BY <3>1, <3>2
  <2>5. CASE Tick \/ UNCHANGED vars
    BY <2>1, <2>5 DEF Tick, vars, environment
  <2>6. QED
    BY <2>2, <2>3, <2>4, <2>5 DEF Next, Terminated
<1>2. QED
  BY <1>1, Invariance, ListedInvariant, PTL DEF OnlyExpiredVanish, Spec
=============================================================================
