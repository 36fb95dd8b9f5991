------------------------------ MODULE BackupRun ------------------------------
(***************************************************************************)
(* Calls of App.Backup (internal/backup/app.go) that share one lock file   *)
(* and one bucket: scheduled runs, a manual run beside the scheduler, runs *)
(* after a crash.  A run takes the lock, checks versioning in fixed mode,  *)
(* selects databases, and for each of them uploads a bundle and then       *)
(* removes the backups that have expired.                                  *)
(*                                                                         *)
(* Uploading one bundle is what BackupDatabase shows it to be: the object  *)
(* appears whole or not at all, perhaps after the client gave up, and      *)
(* success is only reported about an object that is there.  A tick of the  *)
(* clock is one second, the resolution of keys and of cutoffs; Keep is the *)
(* retention period in ticks.                                              *)
(***************************************************************************)
EXTENDS Integers

CONSTANTS Runs,        \* invocations of App.Backup on one host
          Selected,    \* the databases a run selects ("" alone in full mode)
          FixedNames,  \* BACKUP_FILENAME_MODE = fixed
          Keep,        \* BACKUP_KEEP_DAYS in ticks, 0 for no retention
          Skew,        \* clock of S3 minus clock of the host
          RequestLife, \* ticks after which S3 refuses a signed request
          None,        \* no run, no database
          MaxClock     \* bound: last tick

ASSUME ModeAssumption == FixedNames \in BOOLEAN
ASSUME KeepAssumption == Keep \in Nat
ASSUME SkewAssumption == Skew \in Int /\ Skew >= -Keep
ASSUME NoneAssumption == None \notin Runs /\ None \notin Selected
ASSUME ClockAssumption == MaxClock \in Nat /\ RequestLife \in Nat /\ MaxClock > 0

VARIABLES clock,      \* the host's clock
          lock,       \* whose open file description holds the flock, or None
          run,        \* the local variables of each call
          children,   \* runs with a mongodump or gpg alive, which share the lock
          bucket,     \* current objects: database, key and LastModified
          requests,   \* publishing requests that S3 may still carry out
          versioning, \* GetBucketVersioning says Enabled
          warned,     \* a run could not verify versioning and said so
          published,  \* history: <<run, database>> that reached the bucket
          replaced    \* history: whether a version kept what was overwritten

environment == <<clock, bucket, requests, versioning, published, replaced>>
vars == <<environment, lock, run, children, warned>>

\* latest.zip; other keys are the second they were made in.
Latest == -1
BackupKey(began) == IF FixedNames THEN Latest ELSE began

At(db, key) == {object \in bucket : object.db = db /\ object.key = key}

\* timestampBackups keeps what matches this database's prefix and pattern.
AllUnderPrefix(db) == {object \in bucket : object.db = db}
TimestampBackups(db) == {object \in bucket : object.db = db /\ object.key # Latest}

Idle == [pc |-> "idle", todo |-> {}, db |-> None, began |-> 0, cutoff |-> 0,
         old |-> {}, failed |-> FALSE, canceled |-> FALSE, result |-> "none"]

\* The backups before the first run, of either mode.
OldBackups == [db : Selected, key : {Latest, 0}, time : {0}]

Init ==
  /\ clock = 1
  /\ lock = None
  /\ run = [r \in Runs |-> Idle]
  /\ children = {}
  /\ bucket \in SUBSET OldBackups
  /\ \A db \in Selected : \E object \in bucket : object.db = db
  /\ requests = {}
  /\ versioning \in BOOLEAN /\ (~FixedNames => versioning)
  /\ warned = FALSE
  /\ published = {} /\ replaced = {}

-----------------------------------------------------------------------------
(* Taking and releasing the lock.                                          *)

\* defer lock.Close(): the description lives on while a child has it open.
KeptByParentOnly(r, alive) == lock = r
LastReference(r, alive) == lock = r /\ r \notin alive

Released(r, alive) == IF LastReference(r, alive) THEN None ELSE lock

\* Every return of App.Backup, with the deferred release of the lock.
Returns(r, result) ==
  /\ run' = [run EXCEPT ![r] = [Idle EXCEPT !.pc = "returned", !.result = result]]
  /\ lock' = Released(r, children)
  /\ UNCHANGED children

\* flock(LOCK_EX|LOCK_NB) does not wait.
Begin(r) ==
  /\ run[r].pc = "idle"
  /\ \/ /\ lock = None
        /\ lock' = r
        /\ run' = [run EXCEPT ![r].pc = IF FixedNames THEN "versioning" ELSE "selecting"]
        /\ UNCHANGED children
     \/ lock # None /\ Returns(r, "busy")
  /\ UNCHANGED <<environment, warned>>

-----------------------------------------------------------------------------
(* Checks made once per run.                                               *)

VersioningUnchecked == TRUE
VersioningAllows == versioning

CheckVersioning(r) ==
  /\ run[r].pc = "versioning"
  /\ \/ /\ VersioningAllows
        /\ run' = [run EXCEPT ![r].pc = "selecting"]
        /\ UNCHANGED <<lock, children, warned>>
     \/ ~VersioningAllows /\ Returns(r, "failed") /\ UNCHANGED warned
     \/ \* The check itself fails: a canceled run returns, another goes on.
        run[r].canceled /\ Returns(r, "canceled") /\ UNCHANGED warned
     \/ /\ ~run[r].canceled
        /\ run' = [run EXCEPT ![r].pc = "selecting"]
        /\ warned' = TRUE
        /\ UNCHANGED <<lock, children>>
  /\ UNCHANGED environment

Inside(r) == UNCHANGED <<environment, warned>>

\* The cutoff is taken from the host's clock before anything is uploaded,
\* and mongodump --version is the first child that has the lock.
Select(r) ==
  /\ run[r].pc = "selecting"
  /\ run' = [run EXCEPT ![r].pc = "tools", ![r].cutoff = clock - Keep]
  /\ children' = children \cup {r}
  /\ UNCHANGED lock /\ Inside(r)

SelectFails(r) ==
  /\ run[r].pc = "selecting"
  /\ Returns(r, "failed") /\ Inside(r)

ToolsChecked(r) ==
  /\ run[r].pc = "tools"
  /\ children' = children \ {r}
  /\ \/ /\ run' = [run EXCEPT ![r].pc = "loop", ![r].todo = Selected]
        /\ UNCHANGED lock
     \/ /\ run' = [run EXCEPT ![r] = [Idle EXCEPT !.pc = "returned", !.result = "failed"]]
        /\ lock' = Released(r, children')
  /\ Inside(r)

-----------------------------------------------------------------------------
(* The loop over the selected databases.                                   *)

\* Inspect succeeds and backupDatabase starts: its key is the time of now.
StartDatabase(r, db) ==
  /\ run[r].pc = "loop" /\ db \in run[r].todo /\ ~run[r].canceled
  /\ run' = [run EXCEPT ![r].pc = "uploading", ![r].db = db, ![r].began = clock,
                        ![r].todo = @ \ {db}]
  /\ children' = children \cup {r}
  /\ UNCHANGED lock /\ Inside(r)

\* failures = append(failures, err)
LastOnly(before, failed) == failed
Recorded(before, failed) == before \/ failed

\* The next iteration; the run will report a failure of this one.
Continue(r, failed) ==
  run' = [run EXCEPT ![r].pc = "loop", ![r].db = None, ![r].began = 0, ![r].old = {},
                     ![r].failed = Recorded(@, failed)]

InspectFails(r, db) ==
  /\ run[r].pc = "loop" /\ db \in run[r].todo /\ ~run[r].canceled
  /\ run' = [run EXCEPT ![r].todo = @ \ {db}, ![r].failed = Recorded(@, TRUE)]
  /\ UNCHANGED <<lock, children>> /\ Inside(r)

StopCanceled(r) ==
  /\ run[r].pc = "loop" /\ run[r].todo # {} /\ run[r].canceled
  /\ Returns(r, "canceled") /\ Inside(r)

Finish(r) ==
  /\ run[r].pc = "loop" /\ run[r].todo = {}
  /\ Returns(r, IF run[r].failed THEN "failed" ELSE "ok") /\ Inside(r)

\* EOF has been read, so mongodump and gpg have ended; the request is sent.
SendPublish(r) ==
  /\ run[r].pc = "uploading"
  /\ run' = [run EXCEPT ![r].pc = "publishing"]
  /\ children' = children \ {r}
  /\ requests' = requests \cup {[run |-> r, db |-> run[r].db, began |-> run[r].began,
                                 sent |-> clock]}
  /\ UNCHANGED <<clock, lock, bucket, versioning, warned, published, replaced>>

UploadSucceeds(r) ==
  /\ run[r].pc = "publishing" /\ ~run[r].canceled
  /\ <<r, run[r].db>> \in published
  /\ \/ Keep > 0 /\ run' = [run EXCEPT ![r].pc = "listing"]
     \/ Keep = 0 /\ Continue(r, FALSE)
  /\ UNCHANGED <<lock, children>> /\ Inside(r)

\* A failed backup is recorded and its retention skipped.
RetainsAfterFailure(r) == run' = [run EXCEPT ![r].pc = "listing", ![r].failed = TRUE]
AfterFailure(r) == Continue(r, TRUE)

\* A request that was sent may still be carried out, whatever the client thinks.
UploadFails(r) ==
  /\ run[r].pc \in {"uploading", "publishing"}
  /\ AfterFailure(r)
  /\ children' = children \ {r}
  /\ UNCHANGED lock /\ Inside(r)

-----------------------------------------------------------------------------
(* removeOldBackups: the listing, then one deletion after the other.       *)

\* LastModified.Before(cutoff)
NotAfterCutoff(object, cutoff) == object.time <= cutoff
Expired(object, cutoff) == object.time < cutoff

ListOld(r) ==
  /\ run[r].pc = "listing"
  /\ run' = [run EXCEPT ![r].pc = "deleting",
                        ![r].old = {object \in TimestampBackups(run[r].db) :
                                      Expired(object, run[r].cutoff)}]
  /\ UNCHANGED <<lock, children>> /\ Inside(r)

\* List fails as a whole, also when any object has no modification time.
ListFails(r) ==
  /\ run[r].pc = "listing"
  /\ Continue(r, TRUE)
  /\ UNCHANGED <<lock, children>> /\ Inside(r)

\* DeleteObject names a key: it removes what has the key by now.
DeleteOld(r, object) ==
  /\ run[r].pc = "deleting" /\ ~run[r].canceled
  /\ object \in run[r].old
  /\ bucket' = bucket \ At(object.db, object.key)
  /\ run' = [run EXCEPT ![r].old = @ \ {object}]
  /\ UNCHANGED <<clock, lock, children, requests, versioning, warned, published,
                 replaced>>

\* Delete fails, or the context is canceled before the next listed object,
\* expired or not: the rest is left to another run.
DeleteFails(r) ==
  /\ run[r].pc = "deleting"
  /\ run[r].canceled \/ run[r].old # {}
  /\ Continue(r, TRUE)
  /\ UNCHANGED <<lock, children>> /\ Inside(r)

RetentionDone(r) ==
  /\ run[r].pc = "deleting" /\ run[r].old = {}
  /\ Continue(r, FALSE)
  /\ UNCHANGED <<lock, children>> /\ Inside(r)

-----------------------------------------------------------------------------
(* The bucket and the host.                                                *)

\* S3 takes LastModified from when a multipart upload began or from now.
Land(request, time) ==
  LET key == BackupKey(request.began)
      before == At(request.db, key)
  IN  /\ bucket' = (bucket \ before)
                     \cup {[db |-> request.db, key |-> key, time |-> time + Skew]}
      /\ requests' = requests \ {request}
      /\ published' = published \cup {<<request.run, request.db>>}
      /\ replaced' = replaced \cup {versioning : object \in before}
      /\ UNCHANGED <<clock, lock, run, children, versioning, warned>>

\* A request that is never carried out lapses with time.
Tick ==
  /\ clock < MaxClock
  /\ clock' = clock + 1
  /\ requests' = {request \in requests : clock < request.sent + RequestLife}
  /\ UNCHANGED <<lock, run, children, bucket, versioning, warned, published, replaced>>

AtWork(r) == run[r].pc \notin {"idle", "returned", "dead"}

\* SIGINT or SIGTERM.
Cancel(r) ==
  /\ AtWork(r) /\ ~run[r].canceled
  /\ run' = [run EXCEPT ![r].canceled = TRUE]
  /\ UNCHANGED <<lock, children>> /\ Inside(r)

\* SIGKILL of the parent.  A dump or gpg that survives still has the lock open.
Crash(r) ==
  /\ AtWork(r)
  /\ run' = [run EXCEPT ![r] = [Idle EXCEPT !.pc = "dead"]]
  /\ lock' = Released(r, children)
  /\ UNCHANGED children /\ Inside(r)

OrphanExits(r) ==
  /\ run[r].pc = "dead" /\ r \in children
  /\ children' = children \ {r}
  /\ lock' = Released(r, children')
  /\ UNCHANGED run /\ Inside(r)

Terminated ==
  /\ \A r \in Runs : run[r].pc \in {"returned", "dead"} /\ r \notin children
  /\ UNCHANGED vars

-----------------------------------------------------------------------------

Step(r) == \/ Begin(r) \/ CheckVersioning(r)
           \/ Select(r) \/ SelectFails(r) \/ ToolsChecked(r)
           \/ \E db \in Selected : StartDatabase(r, db) \/ InspectFails(r, db)
           \/ StopCanceled(r) \/ Finish(r)
           \/ SendPublish(r) \/ UploadSucceeds(r) \/ UploadFails(r)
           \/ ListOld(r) \/ ListFails(r)
           \/ \E object \in run[r].old : DeleteOld(r, object)
           \/ DeleteFails(r) \/ RetentionDone(r)

Next == \/ \E r \in Runs : Step(r) \/ Cancel(r) \/ Crash(r) \/ OrphanExits(r)
        \/ \E request \in requests :
             \E time \in {request.began, clock} : Land(request, time)
        \/ Tick \/ Terminated

Spec == Init /\ [][Next]_vars

-----------------------------------------------------------------------------
(* Properties.                                                             *)

Ticks == 0..MaxClock
Keys == Ticks \cup {Latest}
Objects == [db : Selected, key : Keys, time : Int]
TimestampObjects == [db : Selected, key : Ticks, time : Int]

RunType ==
  [pc : {"idle", "versioning", "selecting", "tools", "loop", "uploading", "publishing",
         "listing", "deleting", "returned", "dead"},
   todo : SUBSET Selected, db : Selected \cup {None}, began : Ticks, cutoff : Int,
   old : SUBSET TimestampObjects, failed : BOOLEAN, canceled : BOOLEAN,
   result : {"none", "ok", "failed", "canceled", "busy"}]
RequestType == [run : Runs, db : Selected, began : Ticks, sent : Ticks]

TypeOK ==
  /\ clock \in Ticks
  /\ lock \in Runs \cup {None}
  /\ run \in [Runs -> RunType]
  /\ children \subseteq Runs
  /\ bucket \subseteq Objects
  /\ requests \subseteq RequestType
  /\ versioning \in BOOLEAN /\ warned \in BOOLEAN
  /\ published \subseteq Runs \X Selected
  /\ replaced \subseteq BOOLEAN

(***************************************************************************)
(* At most one backup works on the host at a time, and a dump that         *)
(* outlives its parent counts as one (process.go:48, 181; app.go:102).     *)
(***************************************************************************)
Busy(r) == AtWork(r) \/ r \in children
OneBackupAtATime == \A r, s \in Runs : Busy(r) /\ Busy(s) => r = s

(***************************************************************************)
(* Retention never takes the last backup of a database: whatever fails, is *)
(* canceled or dies, and however long an upload takes, a database that had *)
(* a backup in the bucket still has one (app.go:127, 144-157, 321-342).    *)
(***************************************************************************)
NeverWithoutBackup == \A db \in Selected : \E object \in bucket : object.db = db

(***************************************************************************)
(* A run that reports success has published every selected database        *)
(* (app.go:137-162).                                                       *)
(***************************************************************************)
SuccessIsComplete ==
  \A r \in Runs : run[r].result = "ok" => {r} \X Selected \subseteq published

(***************************************************************************)
(* A fixed backup that is overwritten can be recovered as a version, unless*)
(* a run has warned that it could not tell (app.go:107-117).               *)
(***************************************************************************)
FixedOverwritesAreRecoverable == FALSE \in replaced => warned

(***************************************************************************)
(* "timestamp uses one new key each time" (template.env:39): no backup in  *)
(* timestamp mode overwrites another.                                      *)
(***************************************************************************)
NewKeyEachTime == ~FixedNames => replaced = {}

(***************************************************************************)
(* A step that empties a key of the bucket takes an object that is older   *)
(* than the retention period, whatever has been written to the key since   *)
(* it was listed (app.go:127, 335-336).  Only where two backups were begun *)
(* in one second may the later one go with the key of the earlier; even it *)
(* was begun before the retention period.                                  *)
(***************************************************************************)
OnlyExpiredVanish ==
  [][\A object \in bucket :
       (\A o \in bucket' : o.db # object.db \/ o.key # object.key) =>
         \/ object.time < clock - Keep
         \/ ~NewKeyEachTime /\ object.key + Skew < clock - Keep]_vars
=============================================================================
