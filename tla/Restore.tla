------------------------------- MODULE Restore -------------------------------
(***************************************************************************)
(* restore and restore-auth (internal/backup/restore.go), several calls on *)
(* one host: they share the lock and the target server.  Meanwhile another *)
(* host adds, overwrites and removes backups in the bucket.                *)
(*                                                                         *)
(* Full backups have a prefix of their own, and so have those of each      *)
(* database, which hold its data and, for restore-auth, the admin data-    *)
(* base.  A key is a number, the newest key the largest.  What is stored   *)
(* is a generation, and each generation holds the collections there        *)
(* were when it was made.  A download asks for ranges, so its halves may   *)
(* come from different generations.  Whether a bundle validates is what    *)
(* Bundle shows of validateBundle: it does if it is intact and whole.      *)
(***************************************************************************)
EXTENDS Integers, Sequences

CONSTANTS Runs,        \* calls of Restore or RestoreAuth
          Mode,        \* run -> "full", "data" (per-database), "auth" (restore-auth)
          Collections, \* of all databases, but for the users and roles
          Scope,       \* mode -> collections the archive and --nsInclude cover
          Dumped,      \* generation -> collections its archives hold
          Drop,        \* MONGODB_RESTORE_DROP
          Keys,        \* keys in the bucket, as numbers
          Prefix,      \* run -> keys under its prefix, where its mode is backed up
          Matching,    \* keys that end in c.fileType()
          Broken,      \* generations that were damaged in the bucket
          MaxGen,      \* bound: generations that are ever stored
          None         \* no object, no key, nobody

ASSUME KeysAssumption ==
  Matching \subseteq Keys /\ Keys \subseteq Nat /\ Prefix \in [Runs -> SUBSET Keys]
ASSUME ModeAssumption == Mode \in [Runs -> {"full", "data", "auth"}] /\ Drop \in BOOLEAN
ASSUME CollectionsAssumption ==
  /\ "users" \notin Collections /\ Dumped \in [1..MaxGen -> SUBSET Collections]
  /\ Scope \in [{"full", "data", "auth"} -> SUBSET Collections]
ASSUME NoneAssumption == None \notin Runs \cup Int /\ MaxGen \in Nat \ {0}

VARIABLES bucket,   \* key -> generation or None
          puts,     \* generations stored so far
          target,   \* the server restored to: "users" or collection -> contents
          lock,     \* the run whose open file description holds the lock
          run       \* run -> program counter, local variables, tool, fate

vars == <<bucket, puts, target, lock, run>>

Namespaces == {"users"} \cup Collections

\* What a namespace of the target holds besides a generation: what it was before
\* (nothing, perhaps), or whatever an unfinished or a merging mongorestore left.
Original == 0
Partial == -1

Init ==
  /\ puts = 1
  /\ \E key \in Keys : bucket = [k \in Keys |-> IF k = key THEN 1 ELSE None]
  /\ target = [n \in Namespaces |-> Original] /\ lock = None
  /\ run \in [Runs -> [pc : {"start"}, key : Matching \cup {None}, file : {<<>>},
                       tool : {"none"}, alive : {TRUE}, canceled : {FALSE},
                       excused : {FALSE}, result : {"none"}]]
  /\ \A r \in Runs : run[r].key # None => run[r].key \in Prefix[r]

Ongoing == \E r \in Runs : run[r].alive /\ run[r].result = "none"

-----------------------------------------------------------------------------
(* The other host.                                                         *)

Excused == [r \in Runs |-> [run[r] EXCEPT !.excused = @ \/ run[r].pc # "start"]]

Put(key) ==
  /\ Ongoing /\ puts < MaxGen
  /\ bucket' = [bucket EXCEPT ![key] = puts + 1] /\ puts' = puts + 1
  /\ run' = Excused /\ UNCHANGED <<target, lock>>

Delete(key) ==
  /\ Ongoing /\ bucket[key] # None
  /\ bucket' = [bucket EXCEPT ![key] = None]
  /\ run' = Excused /\ UNCHANGED <<puts, target, lock>>

-----------------------------------------------------------------------------
(* One run up to the verified bundle.                                      *)

Goes(r, to) == run' = [run EXCEPT ![r] = to] /\ UNCHANGED <<bucket, puts, target>>

\* The parent's descriptor is closed; a tool that lives on has inherited one.
ReleaseAny(r) == lock' = None
Release(r) == lock' = IF lock = r THEN None ELSE lock

Returns(r, result, excused) ==
  /\ Goes(r, [run[r] EXCEPT !.pc = "returned", !.result = result, !.excused = @ \/ excused])
  /\ Release(r)

At(r, pc) == run[r].alive /\ run[r].pc = pc
Proceeds(r, pc) == At(r, pc) /\ ~run[r].canceled

Acquire(r) ==
  /\ Proceeds(r, "start")
  /\ IF lock = None
     THEN Goes(r, [run[r] EXCEPT !.pc = "choose"]) /\ lock' = r
     ELSE Returns(r, "error", TRUE)

\* timestampBackups and the loop over it; a prefix may hold both file types.
AnyCandidate(r, key) == key \in Prefix[r] /\ bucket[key] # None
Candidate(r, key) == key \in Matching \cap Prefix[r] /\ bucket[key] # None

\* Without a timestamp argument the key is chosen, with one it is given.
Choose(r) ==
  /\ Proceeds(r, "choose") /\ UNCHANGED lock
  /\ IF run[r].key # None
     THEN Goes(r, [run[r] EXCEPT !.pc = "download"])
     ELSE \E key \in Keys :
            /\ Candidate(r, key) /\ \A other \in Keys : Candidate(r, other) => other <= key
            /\ Goes(r, [run[r] EXCEPT !.pc = "download", !.key = key])

NothingToRestore(r) ==
  /\ Proceeds(r, "choose") /\ run[r].key = None
  /\ ~\E key \in Keys : Candidate(r, key)
  /\ Returns(r, "error", TRUE)

\* Ranges go to a temporary file, which is renamed once all of them are there.
GetRange(r) ==
  /\ Proceeds(r, "download")
  /\ IF bucket[run[r].key] = None
     THEN Returns(r, "error", TRUE)
     ELSE /\ Goes(r, [run[r] EXCEPT !.file = Append(@, bucket[run[r].key]),
                                    !.pc = IF Len(run[r].file) = 1 THEN "verify" ELSE @])
          /\ UNCHANGED lock

\* gpg --decrypt, zip.OpenReader and validateBundle: nothing is imported before.
FirstRangeOnly(file, key) == file[1] \notin Broken /\ key \in Matching
Verified(file, key) == file[1] = file[2] /\ FirstRangeOnly(file, key)

\* Users and roles go first, in a pass of their own, when --drop replaces them.
UsersFirst(r) == Drop /\ Mode[r] \in {"full", "auth"}

Verify(r) ==
  /\ Proceeds(r, "verify")
  /\ IF Verified(run[r].file, run[r].key)
     THEN /\ Goes(r, [run[r] EXCEPT !.pc = IF UsersFirst(r) THEN "users" ELSE "rest"])
          /\ UNCHANGED lock
     ELSE Returns(r, "error", run[r].file[1] \in Broken)

-----------------------------------------------------------------------------
(* mongorestore, fed from the verified file.                               *)

Generation(r) == run[r].file[1]

\* What the archive holds of that which is restored.  --drop drops nothing else:
\* a collection that is absent from the archive stays as it is.
Parts(r) == (IF Mode[r] = "data" THEN {} ELSE {"users"})
            \cup (Scope[Mode[r]] \cap Dumped[Generation(r)])

\* The second pass finds the users of the first; otherwise it brings its own.
Writes(r) == IF run[r].pc = "users" THEN {"users"}
             ELSE IF UsersFirst(r) THEN Parts(r) \ {"users"} ELSE Parts(r)

Fill(parts, what) == target' = [p \in DOMAIN target |-> IF p \in parts THEN what ELSE target[p]]
Tool(r, state) == run' = [run EXCEPT ![r].tool = state]

StartTool(r) ==
  /\ run[r].pc \in {"users", "rest"} /\ Proceeds(r, run[r].pc) /\ run[r].tool = "none"
  /\ Tool(r, "running") /\ Fill(Writes(r), Partial) /\ UNCHANGED <<bucket, puts, lock>>

\* The lock outlives the parent as long as the tool does.
KeptByParentOnly(r) == {r}
Holders(r) == IF run[r].tool = "running" THEN {} ELSE {r}

ToolExits(r) ==
  IF run[r].alive THEN UNCHANGED lock ELSE Release(r)

\* Without --drop, documents that were there before may stay.
Restored(r) == IF Drop THEN {Generation(r)} ELSE {Generation(r), Partial}

\* An orphan may have been given all of its input before its parent died.
ToolSucceeds(r) ==
  /\ run[r].tool = "running" /\ Tool(r, "ok") /\ ToolExits(r)
  /\ \E content \in Restored(r) : Fill(Writes(r), content)
  /\ UNCHANGED <<bucket, puts>>

\* The server refuses something (--stopOnError), or the input ends early.
ToolFails(r) ==
  /\ run[r].tool = "running" /\ ToolExits(r)
  /\ run' = [run EXCEPT ![r].tool = "failed", ![r].excused = TRUE]
  /\ UNCHANGED <<bucket, puts, target>>

\* Cancellation kills the process group.
NeverKilled(r) == FALSE
IsKilled(r) == run[r].canceled /\ run[r].alive

KillTool(r) == IsKilled(r) /\ ToolFails(r)

EndedAnyhow(r) == run[r].pc = "users"
FirstPassOk(r) == run[r].pc = "users" /\ run[r].tool = "ok"

ToolDone(r) ==
  /\ run[r].pc \in {"users", "rest"} /\ At(r, run[r].pc) /\ run[r].tool \in {"ok", "failed"}
  /\ IF FirstPassOk(r)
     THEN Goes(r, [run[r] EXCEPT !.pc = "rest", !.tool = "none"]) /\ UNCHANGED lock
     ELSE Returns(r, IF run[r].tool = "ok" THEN "ok" ELSE "error", FALSE)

-----------------------------------------------------------------------------
(* Faults.                                                                 *)

InProgress(r) == run[r].alive /\ run[r].result = "none"

Fails(r) == InProgress(r) /\ run[r].tool = "none" /\ Returns(r, "error", TRUE)

SeesCancel(r) == run[r].canceled /\ Fails(r)

Cancel(r) ==
  /\ InProgress(r) /\ ~run[r].canceled
  /\ Goes(r, [run[r] EXCEPT !.canceled = TRUE, !.excused = TRUE]) /\ UNCHANGED lock

Crash(r) ==
  /\ InProgress(r)
  /\ Goes(r, [run[r] EXCEPT !.alive = FALSE])
  /\ lock' = IF lock \in Holders(r) THEN None ELSE lock

Terminated == ~Ongoing /\ UNCHANGED vars

Steps(r) == \/ Acquire(r) \/ Choose(r) \/ NothingToRestore(r) \/ GetRange(r)
            \/ Verify(r) \/ StartTool(r) \/ ToolDone(r) \/ SeesCancel(r)

Next == \/ \E r \in Runs : \/ Steps(r) \/ ToolSucceeds(r) \/ ToolFails(r) \/ KillTool(r)
                           \/ Fails(r) \/ Cancel(r) \/ Crash(r)
        \/ \E key \in Keys : Put(key) \/ Delete(key)
        \/ Terminated

\* Every request and the kill end; mongorestore by itself need not.
Fairness == \A r \in Runs : WF_vars(Steps(r)) /\ WF_vars(KillTool(r))

Spec == Init /\ [][Next]_vars /\ Fairness

-----------------------------------------------------------------------------
(* Properties.                                                             *)

Contents == {Original, Partial} \cup 1..MaxGen

HasLock(r) == \/ run[r].alive /\ run[r].pc \notin {"start", "returned"}
              \/ run[r].tool = "running"

RunType ==
  [pc : {"start", "choose", "download", "verify", "users", "rest", "returned"},
   key : Keys \cup {None}, file : Seq(1..MaxGen), tool : {"none", "running", "ok", "failed"},
   alive : BOOLEAN, canceled : BOOLEAN, excused : BOOLEAN, result : {"none", "ok", "error"}]

\* Types; and whoever works, orphans included, has the lock (process.go:180).
TypeOK ==
  /\ bucket \in [Keys -> 1..MaxGen \cup {None}] /\ puts \in 1..MaxGen
  /\ target \in [Namespaces -> Contents] /\ lock \in Runs \cup {None}
  /\ run \in [Runs -> RunType]
  /\ \A r \in Runs : HasLock(r) => lock = r

(***************************************************************************)
(* Whatever the target holds was verified as a whole: no torn download, no *)
(* damaged object and no file of the other type reaches the server         *)
(* (bundle.go:138, restore.go:76, s3.go:156).                              *)
(***************************************************************************)
OnlyVerifiedReachesServer ==
  \A r \in Runs : run[r].tool # "none" =>
    /\ run[r].file[1] = run[r].file[2] /\ run[r].file[1] \notin Broken
    /\ run[r].key \in Matching

(***************************************************************************)
(* Two mongorestores never work on the target at once, not even when one   *)
(* of them has lost its parent (process.go:47-50).                         *)
(***************************************************************************)
OneToolAtATime ==
  \A r, q \in Runs : run[r].tool = "running" /\ run[q].tool = "running" => r = q

(***************************************************************************)
(* The rest is only restored under the users of the same generation, so    *)
(* the oplog is replayed on a connection that stays authenticated          *)
(* (restore.go:82-93).                                                     *)
(***************************************************************************)
UsersBeforeRest ==
  \A r \in Runs : run[r].tool = "running" /\ run[r].pc = "rest" /\ UsersFirst(r) =>
    target.users = Generation(r)

(***************************************************************************)
(* When a restore reports success, each collection of the verified archive *)
(* that it was to restore, and the users and roles unless it was one of a  *)
(* database, is of that generation, although other restores ran, failed,   *)
(* were killed or lost their parents before (restore.go:65-107).  Nothing  *)
(* is said of collections that are not in the archive: what they held, of  *)
(* an earlier generation or of a failed restore, is still there.           *)
(***************************************************************************)
RestoredWhole ==
  [][\A r \in Runs : run[r].result # "ok" /\ run'[r].result = "ok" =>
       \A part \in Parts(r) : target[part] = Generation(r)]_vars

(***************************************************************************)
(* A restore fails only for a reason: no object of the other file type is  *)
(* mistaken for the newest backup (restore.go:154-158).                    *)
(***************************************************************************)
NoSpuriousFailure == \A r \in Runs : run[r].result = "error" => run[r].excused

(***************************************************************************)
(* A canceled restore returns, though mongorestore waits on its server.    *)
(***************************************************************************)
CancelLeadsToReturn ==
  \A r \in Runs : run[r].canceled ~> (run[r].result # "none" \/ ~run[r].alive)
=============================================================================
