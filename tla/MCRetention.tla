---------------------------- MODULE MCRetention ----------------------------
(***************************************************************************)
(* BackupRun for TLC under four settings, one of which is drawn at the     *)
(* start: timestamped names with retention, the same after a crash, fixed  *)
(* names with retention of what is left over from before, and timestamped  *)
(* names without retention.                                                *)
(***************************************************************************)
EXTENDS BackupRun, TLC

CONSTANT Killed  \* a call of Runs that was killed in the first second

VARIABLE setting

\* The constants in the .cfg file are those of "timestamp".
Fixed   == INSTANCE BackupRun WITH FixedNames <- TRUE, Skew <- 0, RequestLife <- 0
KeepAll == INSTANCE BackupRun WITH Keep <- 0, Skew <- 0, MaxClock <- 2

\* S3's clock behind the host's, as far as SkewAssumption allows for Keep = 1.
Behind == -1

\* Begin and Crash of the killed call have taken Init here, or here after
\* SendPublish of one database: a request that S3 may still carry out.
Died == run = [r \in Runs |-> IF r = Killed THEN [Idle EXCEPT !.pc = "dead"] ELSE Idle]
Late == {[run |-> Killed, db |-> db, began |-> 1, sent |-> 1] : db \in Selected}

AfterCrash ==
  /\ clock = 1 /\ lock = None /\ Died /\ children = {}
  /\ bucket \in SUBSET OldBackups /\ NeverWithoutBackup
  /\ versioning \in BOOLEAN /\ warned = FALSE /\ published = {} /\ replaced = {}

MCInit ==
  /\ AfterCrash
  /\ \/ setting = "timestamp" /\ requests = {} /\ versioning = TRUE
     \/ /\ setting = "crash" /\ requests \in {{late} : late \in Late}
        /\ versioning = TRUE /\ bucket = {object \in OldBackups : object.key = 0}
     \/ setting = "fixed" /\ requests = {}
     \/ setting = "keep all" /\ requests = {} /\ versioning = TRUE

MCNext == /\ UNCHANGED setting
          /\ \/ setting \in {"timestamp", "crash"} /\ Next
             \/ setting = "fixed" /\ Fixed!Next
             \/ setting = "keep all" /\ KeepAll!Next

MCSpec == MCInit /\ [][MCNext]_<<vars, setting>>

\* The other runs are interchangeable, and so are databases.
Symmetry == Permutations(Runs \ {Killed}) \cup Permutations(Selected)
=============================================================================
