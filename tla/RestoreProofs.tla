---------------------------- MODULE RestoreProofs ----------------------------
(***************************************************************************)
(* Theorems about Restore, for every set of runs, of keys, of damaged      *)
(* generations and of collections, whichever a generation holds, and all   *)
(* modes.                                                                  *)
(*                                                                         *)
(* The argument: who works holds the lock, an orphaned mongorestore too,   *)
(* and only who works changes the target.  So what a restore has found     *)
(* verified, and what its first pass has written, stay until it returns.   *)
(***************************************************************************)
EXTENDS Restore, TLAPS

\* What a run has by itself: the tool is started on a verified file only.
Ordered(s) ==
  /\ s.pc \in {"start", "choose", "download", "verify"} => s.tool = "none"
  /\ s.pc = "returned" => s.tool # "running"
  /\ s.pc \in {"start", "choose"} => s.file = <<>>
  /\ s.pc = "download" => s.key \in Keys /\ Len(s.file) \in {0, 1}
  /\ s.pc = "verify" => s.key \in Keys /\ Len(s.file) = 2
  /\ s.pc \in {"users", "rest"} \/ s.tool # "none" =>
       Len(s.file) = 2 /\ Verified(s.file, s.key)

Local == \A r \in Runs : Ordered(run[r])

\* What the server holds of the restore that holds the lock.
Content ==
  \A r \in Runs : HasLock(r) =>
    /\ Drop /\ run[r].tool = "ok" => \A part \in Writes(r) : target[part] = Generation(r)
    /\ run[r].pc = "rest" /\ UsersFirst(r) => target.users = Generation(r)

IInv == TypeOK /\ Local /\ Content

-----------------------------------------------------------------------------
LEMMA ReturnsLocal ==
  ASSUME TypeOK, NEW r \in Runs, NEW result \in {"ok", "error"},
         NEW excused \in BOOLEAN, Returns(r, result, excused),
         Ordered(run[r]), run[r].tool # "running"
  PROVE  run' = [run EXCEPT ![r] = run'[r]] /\ run'[r] \in RunType /\ Ordered(run'[r])
<1>1. run[r] \in RunType /\ run \in [Runs -> RunType]
  BY DEF TypeOK
<1>2. (run[r].excused \/ excused) \in BOOLEAN
  OBVIOUS
<1>3. run'[r] = [run[r] EXCEPT !.pc = "returned", !.result = result,
                               !.excused = @ \/ excused]
  BY <1>1 DEF Returns, Goes
<1>4. run'[r] \in RunType
  BY <1>1, <1>2, <1>3 DEF RunType
<1>5. Ordered(run'[r])
  <2>1. /\ run'[r].pc = "returned" /\ run'[r].tool = run[r].tool
        /\ run'[r].key = run[r].key /\ run'[r].file = run[r].file
    BY <1>1, <1>3 DEF RunType
  <2>2. QED
    BY <2>1 DEF Ordered
<1>6. QED
  BY <1>1, <1>3, <1>4, <1>5 DEF Returns, Goes

\* A step of a run changes no other run, and keeps what holds of this one.
LEMMA StepLocal ==
  ASSUME TypeOK, NEW r \in Runs, Ordered(run[r]),
         Steps(r) \/ ToolSucceeds(r) \/ ToolFails(r) \/ KillTool(r)
         \/ Fails(r) \/ Cancel(r) \/ Crash(r)
  PROVE  run' = [run EXCEPT ![r] = run'[r]] /\ run'[r] \in RunType /\ Ordered(run'[r])
<1> DEFINE OnlyOne == /\ run' = [run EXCEPT ![r] = run'[r]]
                      /\ run'[r] \in RunType /\ Ordered(run'[r])
<1>0. /\ run[r] \in RunType /\ run \in [Runs -> RunType]
      /\ bucket \in [Keys -> 1..MaxGen \cup {None}]
  BY DEF TypeOK
<1>1. CASE Acquire(r)
  <2>1. CASE Goes(r, [run[r] EXCEPT !.pc = "choose"])
    <3>1. run'[r] = [run[r] EXCEPT !.pc = "choose"]
      BY <2>1, <1>0 DEF Goes
    <3>2. run'[r] \in RunType /\ Ordered(run'[r])
      BY <1>0, <1>1, <3>1 DEF RunType, Ordered, Acquire, Proceeds, At
    <3>3. QED
      BY <2>1, <1>0, <3>2 DEF Goes
  <2>2. CASE Returns(r, "error", TRUE)
    BY <1>1, <2>2, ReturnsLocal DEF Ordered, Acquire, Proceeds, At
  <2>3. QED
    BY <1>1, <2>1, <2>2 DEF Acquire
<1>2. CASE Choose(r)
  <2>1. PICK key \in Keys : Goes(r, [run[r] EXCEPT !.pc = "download", !.key = key])
    <3>1. CASE run[r].key # None
      <4>1. run[r].key \in Keys
        BY <3>1, <1>0 DEF RunType
      <4>2. [run[r] EXCEPT !.pc = "download"]
              = [run[r] EXCEPT !.pc = "download", !.key = run[r].key]
        BY <1>0 DEF RunType
      <4>3. QED
        BY <1>2, <3>1, <4>1, <4>2 DEF Choose
    <3>2. QED
      BY <1>2, <3>1 DEF Choose
  <2>2. run'[r] = [run[r] EXCEPT !.pc = "download", !.key = key]
    BY <2>1, <1>0 DEF Goes
  <2>3. run[r].pc = "choose"
    BY <1>2 DEF Choose, Proceeds, At
  <2>4. run'[r] \in RunType
    BY <1>0, <2>2 DEF RunType
  <2>5. /\ run'[r].pc = "download" /\ run'[r].key = key
        /\ run'[r].file = <<>> /\ run'[r].tool = "none"
    BY <1>0, <2>2, <2>3 DEF RunType, Ordered
  <2>6. run'[r] \in RunType /\ Ordered(run'[r])
    BY <2>4, <2>5 DEF Ordered
  <2>7. QED
    BY <2>1, <1>0, <2>6 DEF Goes
<1>3. CASE NothingToRestore(r)
  BY <1>3, ReturnsLocal DEF Ordered, NothingToRestore, Proceeds, At
<1>4. CASE GetRange(r)
  <2>0. run[r].pc = "download" /\ run[r].key \in Keys /\ run[r].tool = "none"
        /\ Len(run[r].file) \in {0, 1} /\ run[r].file \in Seq(1..MaxGen)
    BY <1>0, <1>4 DEF GetRange, Proceeds, At, Ordered, RunType
  <2>1. CASE bucket[run[r].key] = None
    BY <1>4, <2>0, <2>1, ReturnsLocal DEF GetRange
  <2>2. CASE bucket[run[r].key] # None
    <3> DEFINE file == Append(run[r].file, bucket[run[r].key])
               pc == IF Len(run[r].file) = 1 THEN "verify" ELSE "download"
    <3>1. bucket[run[r].key] \in 1..MaxGen
      BY <1>0, <2>0, <2>2
    <3>2. file \in Seq(1..MaxGen) /\ Len(file) = Len(run[r].file) + 1
      BY <2>0, <3>1
    <3>3. run'[r] = [run[r] EXCEPT !.file = file, !.pc = pc]
      BY <1>0, <1>4, <2>0, <2>2 DEF GetRange, Goes
    <3>4. run'[r] = [run[r] EXCEPT !.file = file, !.pc = pc] /\ file \in Seq(1..MaxGen)
          /\ pc \in {"download", "verify"}
      BY <3>2, <3>3
    <3>5. /\ run'[r].pc = pc /\ run'[r].file = file /\ run'[r].key = run[r].key
          /\ run'[r].tool = run[r].tool
      BY <1>0, <3>3 DEF RunType
    <3>6. run'[r] \in RunType
      <4> HIDE DEF file, pc
      <4>1. QED
        BY <1>0, <3>4 DEF RunType
    <3>7. Ordered(run'[r])
      BY <2>0, <3>2, <3>5 DEF Ordered
    <3>8. QED
      BY <1>0, <1>4, <2>2, <3>3, <3>6, <3>7 DEF GetRange, Goes
  <2>3. QED
    BY <2>1, <2>2
<1>5. CASE Verify(r)
  <2>0. run[r].pc = "verify" /\ run[r].tool = "none" /\ Len(run[r].file) = 2
    BY <1>5 DEF Verify, Proceeds, At, Ordered
  <2>1. CASE Verified(run[r].file, run[r].key)
    <3> DEFINE pc == IF UsersFirst(r) THEN "users" ELSE "rest"
    <3>1. run'[r] = [run[r] EXCEPT !.pc = pc]
      BY <1>0, <1>5, <2>1 DEF Verify, Goes
    <3>2. run'[r] \in RunType
      BY <1>0, <3>1 DEF RunType
    <3>3. /\ run'[r].pc \in {"users", "rest"} /\ run'[r].file = run[r].file
          /\ run'[r].key = run[r].key /\ run'[r].tool = run[r].tool
      BY <1>0, <3>1 DEF RunType
    <3>4. Ordered(run'[r])
      BY <2>0, <2>1, <3>3 DEF Ordered
    <3>5. QED
      BY <1>0, <1>5, <2>1, <3>1, <3>2, <3>4 DEF Verify, Goes
  <2>2. CASE ~Verified(run[r].file, run[r].key)
    <3>1. Returns(r, "error", run[r].file[1] \in Broken)
      BY <1>5, <2>2 DEF Verify
    <3>2. (run[r].file[1] \in Broken) \in BOOLEAN
      OBVIOUS
    <3>3. QED
      BY <2>0, <3>1, <3>2, ReturnsLocal
  <2>3. QED
    BY <2>1, <2>2
<1>6. CASE StartTool(r)
  <2>1. run'[r] = [run[r] EXCEPT !.tool = "running"] /\ run[r].pc \in {"users", "rest"}
    BY <1>0, <1>6 DEF StartTool, Tool
  <2>2. run'[r] \in RunType
    BY <1>0, <2>1 DEF RunType
  <2>3. /\ run'[r].pc = run[r].pc /\ run'[r].file = run[r].file
        /\ run'[r].key = run[r].key /\ run'[r].tool = "running"
    BY <1>0, <2>1 DEF RunType
  <2>4. Ordered(run'[r])
    BY <2>1, <2>3 DEF Ordered
  <2>5. QED
    BY <1>0, <1>6, <2>1, <2>2, <2>4 DEF StartTool, Tool
<1>7. CASE ToolDone(r)
  <2>0. run[r].tool \in {"ok", "failed"}
    BY <1>7 DEF ToolDone
  <2>1. CASE FirstPassOk(r)
    <3>1. run'[r] = [run[r] EXCEPT !.pc = "rest", !.tool = "none"] /\ run[r].pc = "users"
      BY <1>0, <1>7, <2>1 DEF ToolDone, Goes, FirstPassOk
    <3>2. run'[r] \in RunType
      BY <1>0, <3>1 DEF RunType
    <3>3. /\ run'[r].pc = "rest" /\ run'[r].file = run[r].file
          /\ run'[r].key = run[r].key /\ run'[r].tool = "none"
      BY <1>0, <3>1 DEF RunType
    <3>4. Ordered(run'[r])
      BY <3>1, <3>3 DEF Ordered
    <3>5. QED
      BY <1>0, <1>7, <2>1, <3>1, <3>2, <3>4 DEF ToolDone, Goes
  <2>2. CASE ~FirstPassOk(r)
    <3>1. Returns(r, IF run[r].tool = "ok" THEN "ok" ELSE "error", FALSE)
      BY <1>7, <2>2 DEF ToolDone
    <3>2. QED
      BY <2>0, <3>1, ReturnsLocal
  <2>3. QED
    BY <2>1, <2>2
<1>8. CASE Fails(r)
  BY <1>8, ReturnsLocal DEF Fails
<1>9. CASE ToolSucceeds(r)
  <2>1. run'[r] = [run[r] EXCEPT !.tool = "ok"] /\ run[r].tool = "running"
    BY <1>0, <1>9 DEF ToolSucceeds, Tool
  <2>2. run'[r] \in RunType
    BY <1>0, <2>1 DEF RunType
  <2>3. /\ run'[r].pc = run[r].pc /\ run'[r].file = run[r].file
        /\ run'[r].key = run[r].key /\ run'[r].tool = "ok"
    BY <1>0, <2>1 DEF RunType
  <2>4. Ordered(run'[r])
    BY <2>1, <2>3 DEF Ordered
  <2>5. QED
    BY <1>0, <1>9, <2>1, <2>2, <2>4 DEF ToolSucceeds, Tool
<1>10. CASE ToolFails(r)
  <2>1. run'[r] = [run[r] EXCEPT !.tool = "failed", !.excused = TRUE]
        /\ run[r].tool = "running"
    BY <1>0, <1>10 DEF ToolFails
  <2>2. run'[r] \in RunType
    BY <1>0, <2>1 DEF RunType
  <2>3. /\ run'[r].pc = run[r].pc /\ run'[r].file = run[r].file
        /\ run'[r].key = run[r].key /\ run'[r].tool = "failed"
    BY <1>0, <2>1 DEF RunType
  <2>4. Ordered(run'[r])
    BY <2>1, <2>3 DEF Ordered
  <2>5. QED
    BY <1>0, <1>10, <2>1, <2>2, <2>4 DEF ToolFails
<1>11. CASE Cancel(r)
  <2>1. run'[r] = [run[r] EXCEPT !.canceled = TRUE, !.excused = TRUE]
    BY <1>0, <1>11 DEF Cancel, Goes
  <2>2. run'[r] \in RunType
    BY <1>0, <2>1 DEF RunType
  <2>3. /\ run'[r].pc = run[r].pc /\ run'[r].file = run[r].file
        /\ run'[r].key = run[r].key /\ run'[r].tool = run[r].tool
    BY <1>0, <2>1 DEF RunType
  <2>4. Ordered(run'[r])
    BY <2>3 DEF Ordered
  <2>5. QED
    BY <1>0, <1>11, <2>1, <2>2, <2>4 DEF Cancel, Goes
<1>12. CASE Crash(r)
  <2>1. run'[r] = [run[r] EXCEPT !.alive = FALSE]
    BY <1>0, <1>12 DEF Crash, Goes
  <2>2. run'[r] \in RunType
    BY <1>0, <2>1 DEF RunType
  <2>3. /\ run'[r].pc = run[r].pc /\ run'[r].file = run[r].file
        /\ run'[r].key = run[r].key /\ run'[r].tool = run[r].tool
    BY <1>0, <2>1 DEF RunType
  <2>4. Ordered(run'[r])
    BY <2>3 DEF Ordered
  <2>5. QED
    BY <1>0, <1>12, <2>1, <2>2, <2>4 DEF Crash, Goes
<1>13. CASE SeesCancel(r)
  BY <1>13, <1>8 DEF SeesCancel
<1>14. CASE KillTool(r)
  BY <1>14, <1>10 DEF KillTool
<1>15. QED
  BY <1>1, <1>2, <1>3, <1>4, <1>5, <1>6, <1>7, <1>8, <1>9, <1>10, <1>11, <1>12,
     <1>13, <1>14 DEF Steps

\* What the other host does leaves every run as it is, but for its excuse.
LEMMA ElsewhereLocal ==
  ASSUME TypeOK, run' = Excused, NEW q \in Runs
  PROVE  /\ run'[q] \in RunType /\ run' = [p \in Runs |-> run'[p]]
         /\ run'[q].pc = run[q].pc /\ run'[q].file = run[q].file
         /\ run'[q].key = run[q].key /\ run'[q].tool = run[q].tool
         /\ run'[q].alive = run[q].alive /\ run'[q].result = run[q].result
<1>1. run[q] \in RunType
  BY DEF TypeOK
<1>2. (run[q].excused \/ run[q].pc # "start") \in BOOLEAN
  OBVIOUS
<1>3. run'[q] = [run[q] EXCEPT !.excused = @ \/ run[q].pc # "start"]
  BY DEF Excused
<1>4. run'[q] \in RunType
  BY <1>1, <1>2, <1>3 DEF RunType
<1>5. QED
  BY <1>1, <1>3, <1>4 DEF RunType, Excused

-----------------------------------------------------------------------------
(* Who works holds the lock.                                               *)

Works == \A r \in Runs : HasLock(r) => lock = r

\* A run that returns had the lock if it worked; nobody else loses it.
LEMMA ReturnsLock ==
  ASSUME TypeOK, Local, NEW r \in Runs, NEW result, NEW excused,
         Returns(r, result, excused), run[r].tool # "running"
  PROVE  Works'
<1>1. run' = [run EXCEPT ![r] = run'[r]] /\ run \in [Runs -> RunType] /\ run[r] \in RunType
  BY DEF TypeOK, Returns, Goes
<1>2. run'[r].pc = "returned" /\ run'[r].tool = run[r].tool
  BY <1>1 DEF RunType, Returns, Goes
<1>3. ~HasLock(r)'
  BY <1>2 DEF HasLock
<1>4. ASSUME NEW q \in Runs, q # r, HasLock(q)'
      PROVE  lock' = q
  <2>1. run'[q] = run[q]
    BY <1>1, <1>4
  <2>2. lock = q
    BY <1>4, <2>1 DEF HasLock, TypeOK
  <2>3. QED
    BY <1>4, <2>2 DEF Returns, Release
<1>5. QED
  BY <1>3, <1>4 DEF Works

\* A run that works keeps the lock as long as it works.
LEMMA StepWorks ==
  ASSUME TypeOK, Local, NEW r \in Runs,
         Steps(r) \/ ToolSucceeds(r) \/ ToolFails(r) \/ KillTool(r)
         \/ Fails(r) \/ Cancel(r) \/ Crash(r)
  PROVE  lock' \in Runs \cup {None} /\ Works'
<1>0. /\ run[r] \in RunType /\ run \in [Runs -> RunType] /\ Ordered(run[r])
      /\ lock \in Runs \cup {None} /\ Works
  BY DEF TypeOK, Local, Works
<1>1. run' = [run EXCEPT ![r] = run'[r]]
  BY <1>0, StepLocal
<1>2. ASSUME NEW result, NEW excused, Returns(r, result, excused), run[r].tool # "running"
      PROVE  lock' \in Runs \cup {None} /\ Works'
  <2>1. Works'
    BY <1>2, ReturnsLock
  <2>2. lock' \in Runs \cup {None}
    BY <1>0, <1>2 DEF Returns, Release
  <2>3. QED
    BY <2>1, <2>2
<1>3. ASSUME lock' = lock, HasLock(r)' => HasLock(r)
      PROVE  lock' \in Runs \cup {None} /\ Works'
  <2>1. ASSUME NEW q \in Runs, HasLock(q)'
        PROVE  lock = q
    <3>1. CASE q = r
      BY <1>0, <1>3, <2>1, <3>1 DEF Works
    <3>2. CASE q # r
      <4>1. run'[q] = run[q]
        BY <1>0, <1>1, <3>2
      <4>2. QED
        BY <1>0, <2>1, <4>1 DEF Works, HasLock
    <3>3. QED
      BY <3>1, <3>2
  <2>2. QED
    BY <1>0, <1>3, <2>1 DEF Works
<1>4. ASSUME lock' = (IF lock = r THEN None ELSE lock), ~HasLock(r)'
      PROVE  lock' \in Runs \cup {None} /\ Works'
  <2>1. ASSUME NEW q \in Runs, HasLock(q)'
        PROVE  lock' = q
    <3>1. q # r
      BY <1>4, <2>1
    <3>2. run'[q] = run[q]
      BY <1>0, <1>1, <3>1
    <3>3. lock = q
      BY <1>0, <2>1, <3>2 DEF Works, HasLock
    <3>4. QED
      BY <1>4, <3>1, <3>3
  <2>2. QED
    BY <1>0, <1>4, <2>1 DEF Works
<1>5. CASE Acquire(r)
  <2>1. CASE lock = None
    <3>1. lock' = r
      BY <1>5, <2>1 DEF Acquire
    <3>2. ASSUME NEW q \in Runs, HasLock(q)'
          PROVE  q = r
      <4>1. CASE q # r
        <5>1. run'[q] = run[q]
          BY <1>0, <1>1, <4>1
        <5>2. lock = q
          BY <1>0, <3>2, <5>1 DEF Works, HasLock
        <5>3. QED
          BY <2>1, <5>2, NoneAssumption
      <4>2. QED
        BY <4>1
    <3>3. QED
      BY <3>1, <3>2 DEF Works
  <2>2. CASE lock # None
    <3>1. run[r].tool = "none"
      BY <1>0, <1>5 DEF Acquire, Proceeds, At, Ordered
    <3>2. Returns(r, "error", TRUE)
      BY <1>5, <2>2 DEF Acquire
    <3>3. QED
      BY <1>2, <3>1, <3>2
  <2>3. QED
    BY <2>1, <2>2
<1>6. CASE Choose(r)
  <2>1. HasLock(r)
    BY <1>6 DEF Choose, Proceeds, At, HasLock
  <2>2. QED
    BY <1>3, <1>6, <2>1 DEF Choose
<1>7. CASE NothingToRestore(r)
  <2>1. run[r].tool = "none"
    BY <1>0, <1>7 DEF NothingToRestore, Proceeds, At, Ordered
  <2>2. QED
    BY <1>2, <1>7, <2>1 DEF NothingToRestore
<1>8. CASE GetRange(r)
  <2>1. HasLock(r) /\ run[r].tool = "none"
    BY <1>0, <1>8 DEF GetRange, Proceeds, At, HasLock, Ordered
  <2>2. QED
    BY <1>2, <1>3, <1>8, <2>1 DEF GetRange
<1>9. CASE Verify(r)
  <2>1. HasLock(r) /\ run[r].tool = "none"
    BY <1>0, <1>9 DEF Verify, Proceeds, At, HasLock, Ordered
  <2>2. QED
    BY <1>2, <1>3, <1>9, <2>1 DEF Verify
<1>10. CASE StartTool(r)
  <2>1. HasLock(r)
    BY <1>10 DEF StartTool, Proceeds, At, HasLock
  <2>2. QED
    BY <1>3, <1>10, <2>1 DEF StartTool
<1>11. CASE ToolDone(r)
  <2>1. HasLock(r) /\ run[r].tool # "running"
    BY <1>11 DEF ToolDone, At, HasLock
  <2>2. QED
    BY <1>2, <1>3, <1>11, <2>1 DEF ToolDone
<1>12. CASE Fails(r)
  BY <1>2, <1>12 DEF Fails
<1>13. CASE ToolSucceeds(r)
  <2>1. HasLock(r)
    BY <1>13 DEF ToolSucceeds, HasLock
  <2>2. CASE run[r].alive
    BY <1>3, <1>13, <2>1, <2>2 DEF ToolSucceeds, ToolExits
  <2>3. CASE ~run[r].alive
    <3>1. run'[r].tool = "ok" /\ run'[r].alive = run[r].alive
      BY <1>0, <1>13 DEF ToolSucceeds, Tool, RunType
    <3>2. ~HasLock(r)'
      BY <2>3, <3>1 DEF HasLock
    <3>3. QED
      BY <1>4, <1>13, <2>3, <3>2 DEF ToolSucceeds, ToolExits, Release
  <2>4. QED
    BY <2>2, <2>3
<1>14. CASE ToolFails(r)
  <2>1. HasLock(r)
    BY <1>14 DEF ToolFails, HasLock
  <2>2. CASE run[r].alive
    BY <1>3, <1>14, <2>1, <2>2 DEF ToolFails, ToolExits
  <2>3. CASE ~run[r].alive
    <3>1. run'[r].tool = "failed" /\ run'[r].alive = run[r].alive
      BY <1>0, <1>14 DEF ToolFails, RunType
    <3>2. ~HasLock(r)'
      BY <2>3, <3>1 DEF HasLock
    <3>3. QED
      BY <1>4, <1>14, <2>3, <3>2 DEF ToolFails, ToolExits, Release
  <2>4. QED
    BY <2>2, <2>3
<1>15. CASE Cancel(r)
  <2>1. /\ run'[r].pc = run[r].pc /\ run'[r].tool = run[r].tool
        /\ run'[r].alive = run[r].alive
    BY <1>0, <1>15 DEF Cancel, Goes, RunType
  <2>2. QED
    BY <1>3, <1>15, <2>1 DEF Cancel, HasLock
<1>16. CASE Crash(r)
  <2>1. run'[r].tool = run[r].tool /\ run'[r].alive = FALSE
    BY <1>0, <1>16 DEF Crash, Goes, RunType
  <2>2. CASE run[r].tool = "running"
    <3>1. lock' = lock /\ HasLock(r)
      BY <1>16, <2>2 DEF Crash, Holders, HasLock
    <3>2. QED
      BY <1>3, <3>1
  <2>3. CASE run[r].tool # "running"
    <3>1. ~HasLock(r)'
      BY <2>1, <2>3 DEF HasLock
    <3>2. lock' = IF lock = r THEN None ELSE lock
      BY <1>16, <2>3 DEF Crash, Holders
    <3>3. QED
      BY <1>4, <3>1, <3>2
  <2>4. QED
    BY <2>2, <2>3
<1>17. QED
  BY <1>5, <1>6, <1>7, <1>8, <1>9, <1>10, <1>11, <1>12, <1>13, <1>14, <1>15, <1>16
     DEF Steps, SeesCancel, KillTool

-----------------------------------------------------------------------------
(* The target.                                                             *)

LEMMA GenerationType ==
  ASSUME TypeOK, Local, NEW r \in Runs, run[r].tool # "none"
  PROVE  Generation(r) \in 1..MaxGen
<1>1. run[r].file \in Seq(1..MaxGen) /\ Len(run[r].file) = 2
  BY DEF TypeOK, RunType, Local, Ordered
<1>2. ASSUME NEW S, NEW file \in Seq(S), Len(file) = 2
      PROVE  file[1] \in S
  BY <1>2
<1>3. QED
  BY <1>1, <1>2 DEF Generation

LEMMA FillType ==
  ASSUME TypeOK, NEW parts, NEW what \in Contents, Fill(parts, what)
  PROVE  /\ target' \in [Namespaces -> Contents]
         /\ \A part \in Namespaces :
              target'[part] = IF part \in parts THEN what ELSE target[part]
BY DEF TypeOK, Fill

LEMMA WritesType ==
  ASSUME NEW r \in Runs
  PROVE  /\ Writes(r) \subseteq Namespaces
         /\ run[r].pc = "rest" /\ UsersFirst(r) =>
              Writes(r) = Parts(r) \ {"users"}
BY ModeAssumption, CollectionsAssumption DEF Writes, Parts, UsersFirst, Namespaces

LEMMA StepTyped ==
  ASSUME TypeOK, Local, NEW r \in Runs,
         Steps(r) \/ ToolSucceeds(r) \/ ToolFails(r) \/ KillTool(r)
         \/ Fails(r) \/ Cancel(r) \/ Crash(r)
  PROVE  /\ bucket' = bucket /\ puts' = puts
         /\ target' \in [Namespaces -> Contents]
         /\ HasLock(r) \/ target' = target
<1>1. CASE StartTool(r)
  <2>1. Partial \in Contents
    BY DEF Contents
  <2>2. HasLock(r)
    BY <1>1 DEF StartTool, Proceeds, At, HasLock
  <2>3. QED
    BY <1>1, <2>1, <2>2, FillType DEF StartTool
<1>2. CASE ToolSucceeds(r)
  <2>1. PICK content \in Restored(r) : Fill(Writes(r), content)
    BY <1>2 DEF ToolSucceeds
  <2>2. content \in Contents
    BY <1>2, <2>1, GenerationType DEF ToolSucceeds, Restored, Contents
  <2>3. HasLock(r)
    BY <1>2 DEF ToolSucceeds, HasLock
  <2>4. QED
    BY <1>2, <2>1, <2>2, <2>3, FillType DEF ToolSucceeds
<1>3. CASE ~StartTool(r) /\ ~ToolSucceeds(r)
  <2>1. bucket' = bucket /\ puts' = puts /\ target' = target
    BY <1>3 DEF Steps, Acquire, Choose, NothingToRestore, GetRange, Verify, ToolDone,
                SeesCancel, Fails, ToolFails, KillTool, Cancel, Crash, Returns, Goes
  <2>2. QED
    BY <2>1 DEF TypeOK
<1>4. QED
  BY <1>1, <1>2, <1>3

\* A step of one run leaves alone what is true of another that works.
LEMMA OthersContent ==
  ASSUME TypeOK, Local, Content, NEW r \in Runs, NEW q \in Runs, q # r, HasLock(q)',
         Steps(r) \/ ToolSucceeds(r) \/ ToolFails(r) \/ KillTool(r)
         \/ Fails(r) \/ Cancel(r) \/ Crash(r)
  PROVE  /\ Drop /\ run'[q].tool = "ok" =>
              \A part \in Writes(q)' : target'[part] = Generation(q)'
         /\ run'[q].pc = "rest" /\ UsersFirst(q) => target'.users = Generation(q)'
<1>1. run' = [run EXCEPT ![r] = run'[r]] /\ run \in [Runs -> RunType]
  BY StepLocal DEF Local, TypeOK
<1>2. run'[q] = run[q]
  BY <1>1
<1>3. HasLock(q) /\ lock = q
  BY <1>2 DEF HasLock, TypeOK
<1>4. ~HasLock(r)
  BY <1>3 DEF TypeOK
<1>5. target' = target
  BY <1>4, StepTyped
<1>6. Writes(q)' = Writes(q) /\ Generation(q)' = Generation(q)
  BY <1>2 DEF Writes, Parts, Generation
<1>7. QED
  BY <1>2, <1>3, <1>5, <1>6 DEF Content

\* Nor does a step of its own that leaves its tool, its file and the target.
LEMMA OwnContent ==
  ASSUME TypeOK, Local, Content, NEW r \in Runs, HasLock(r)',
         Steps(r) \/ ToolSucceeds(r) \/ ToolFails(r) \/ KillTool(r)
         \/ Fails(r) \/ Cancel(r) \/ Crash(r)
  PROVE  /\ Drop /\ run'[r].tool = "ok" =>
              \A part \in Writes(r)' : target'[part] = Generation(r)'
         /\ run'[r].pc = "rest" /\ UsersFirst(r) => target'.users = Generation(r)'
<1> DEFINE Goal == /\ Drop /\ run'[r].tool = "ok" =>
                        \A part \in Writes(r)' : target'[part] = Generation(r)'
                   /\ run'[r].pc = "rest" /\ UsersFirst(r) =>
                        target'.users = Generation(r)'
<1>0. /\ run[r] \in RunType /\ run \in [Runs -> RunType] /\ Ordered(run[r])
      /\ target \in [Namespaces -> Contents]
      /\ run'[r] \in RunType /\ Ordered(run'[r])
  BY StepLocal DEF TypeOK, Local
<1>1. ASSUME NEW result, NEW excused, Returns(r, result, excused), run[r].tool # "running"
      PROVE  FALSE
  <2>1. run'[r].pc = "returned" /\ run'[r].tool = run[r].tool
    BY <1>0, <1>1 DEF Returns, Goes, RunType
  <2>2. QED
    BY <1>1, <2>1 DEF HasLock
<1>2. ASSUME run'[r].tool # "ok", run'[r].pc # "rest" \/ ~UsersFirst(r)
      PROVE  Goal
  BY <1>2
<1>3. CASE Acquire(r)
  <2>1. run[r].tool = "none"
    BY <1>0, <1>3 DEF Acquire, Proceeds, At, Ordered
  <2>2. Goes(r, [run[r] EXCEPT !.pc = "choose"])
    BY <1>1, <1>3, <2>1 DEF Acquire
  <2>3. run'[r].pc = "choose"
    BY <1>0, <2>2 DEF Goes, RunType
  <2>4. QED
    BY <1>0, <1>2, <2>3 DEF Ordered
<1>4. CASE Choose(r)
  <2>1. run'[r].pc = "download"
    <3>1. CASE Goes(r, [run[r] EXCEPT !.pc = "download"])
      BY <1>0, <3>1 DEF Goes, RunType
    <3>2. CASE \E key \in Keys : Goes(r, [run[r] EXCEPT !.pc = "download", !.key = key])
      BY <1>0, <3>2 DEF Goes, RunType
    <3>3. QED
      BY <1>4, <3>1, <3>2 DEF Choose
  <2>2. QED
    BY <1>0, <1>2, <2>1 DEF Ordered
<1>5. CASE NothingToRestore(r)
  BY <1>0, <1>1, <1>5 DEF NothingToRestore, Proceeds, At, Ordered
<1>6. CASE GetRange(r)
  <2>1. run[r].tool = "none" /\ run[r].pc = "download"
    BY <1>0, <1>6 DEF GetRange, Proceeds, At, Ordered
  <2>2. bucket[run[r].key] # None
    BY <1>1, <1>6, <2>1 DEF GetRange
  <2>3. run'[r].pc \in {"download", "verify"}
    <3> DEFINE file == Append(run[r].file, bucket[run[r].key])
               pc == IF Len(run[r].file) = 1 THEN "verify" ELSE "download"
    <3>1. run'[r] = [run[r] EXCEPT !.file = file, !.pc = pc]
      BY <1>0, <1>6, <2>1, <2>2 DEF GetRange, Goes
    <3>2. run'[r] = [run[r] EXCEPT !.file = file, !.pc = pc]
          /\ pc \in {"download", "verify"}
      BY <3>1
    <3> HIDE DEF file, pc
    <3>3. QED
      BY <1>0, <3>2 DEF RunType
  <2>4. QED
    BY <1>0, <1>2, <2>3 DEF Ordered
<1>7. CASE Verify(r)
  <2>1. run[r].tool = "none"
    BY <1>0, <1>7 DEF Verify, Proceeds, At, Ordered
  <2>2. Verified(run[r].file, run[r].key)
    BY <1>1, <1>7, <2>1 DEF Verify
  <2>3. /\ run'[r].tool = run[r].tool
        /\ run'[r].pc = IF UsersFirst(r) THEN "users" ELSE "rest"
    BY <1>0, <1>7, <2>2 DEF Verify, Goes, RunType
  <2>4. QED
    BY <1>2, <2>1, <2>3
<1>8. CASE StartTool(r)
  <2>1. /\ HasLock(r) /\ run'[r].tool = "running" /\ run'[r].pc = run[r].pc
        /\ run'[r].file = run[r].file
    BY <1>0, <1>8 DEF StartTool, Tool, Proceeds, At, HasLock, RunType
  <2>2. CASE run[r].pc = "rest" /\ UsersFirst(r)
    <3>1. target.users = Generation(r) /\ Generation(r)' = Generation(r)
      BY <2>1, <2>2 DEF Content, Generation
    <3>2. "users" \notin Writes(r) /\ Partial \in Contents
      BY <2>2, WritesType DEF Contents
    <3>3. target'.users = target.users
      BY <1>8, <3>2, FillType DEF StartTool, Namespaces
    <3>4. QED
      BY <2>1, <3>1, <3>3
  <2>3. QED
    BY <1>2, <2>1, <2>2
<1>9. CASE ToolSucceeds(r)
  <2>1. /\ HasLock(r) /\ run[r].tool = "running" /\ run'[r].pc = run[r].pc
        /\ run'[r].file = run[r].file
    BY <1>0, <1>9 DEF ToolSucceeds, Tool, HasLock, RunType
  <2>2. Writes(r)' = Writes(r) /\ Generation(r)' = Generation(r)
    BY <2>1 DEF Writes, Parts, Generation
  <2>3. PICK content \in Restored(r) : Fill(Writes(r), content)
    BY <1>9 DEF ToolSucceeds
  <2>4. content \in Contents
    BY <2>1, <2>3, GenerationType DEF Restored, Contents
  <2>5. \A part \in Namespaces :
          target'[part] = IF part \in Writes(r) THEN content ELSE target[part]
    BY <2>3, <2>4, FillType
  <2>6. Drop => \A part \in Writes(r)' : target'[part] = Generation(r)'
    BY <2>2, <2>3, <2>5, WritesType DEF Restored
  <2>7. ASSUME run[r].pc = "rest", UsersFirst(r)
        PROVE  target'.users = Generation(r)'
    <3>1. target.users = Generation(r) /\ "users" \notin Writes(r)
      BY <2>1, <2>7, WritesType DEF Content
    <3>2. QED
      BY <2>2, <2>5, <3>1 DEF Namespaces
  <2>8. QED
    BY <2>1, <2>6, <2>7
<1>10. CASE ToolDone(r)
  <2>1. FirstPassOk(r)
    BY <1>1, <1>10 DEF ToolDone
  <2>2. HasLock(r) /\ run[r].tool = "ok" /\ Writes(r) = {"users"}
    BY <1>10, <2>1 DEF ToolDone, FirstPassOk, At, HasLock, Writes
  <2>3. /\ run'[r].tool = "none" /\ run'[r].file = run[r].file /\ target' = target
    <3>1. Goes(r, [run[r] EXCEPT !.pc = "rest", !.tool = "none"])
      BY <1>10, <2>1 DEF ToolDone
    <3>2. QED
      BY <1>0, <3>1 DEF Goes, RunType
  <2>4. UsersFirst(r) => target'.users = Generation(r)'
    BY <2>2, <2>3 DEF Content, Generation, UsersFirst
  <2>5. QED
    BY <2>3, <2>4
<1>11. CASE Fails(r)
  BY <1>1, <1>11 DEF Fails
<1>12. CASE ToolFails(r)
  <2>1. /\ HasLock(r) /\ run'[r].tool = "failed" /\ run'[r].pc = run[r].pc
        /\ run'[r].file = run[r].file /\ target' = target
    BY <1>0, <1>12 DEF ToolFails, HasLock, RunType
  <2>2. QED
    BY <2>1 DEF Content, Generation
<1>13. CASE Cancel(r) \/ Crash(r)
  <2>1. /\ run'[r].tool = run[r].tool /\ run'[r].pc = run[r].pc
        /\ run'[r].file = run[r].file /\ target' = target
        /\ run'[r].alive = run[r].alive \/ run'[r].alive = FALSE
    <3>1. CASE Goes(r, [run[r] EXCEPT !.canceled = TRUE, !.excused = TRUE])
      BY <1>0, <3>1 DEF Goes, RunType
    <3>2. CASE Goes(r, [run[r] EXCEPT !.alive = FALSE])
      BY <1>0, <3>2 DEF Goes, RunType
    <3>3. QED
      BY <1>13, <3>1, <3>2 DEF Cancel, Crash
  <2>2. HasLock(r) /\ Writes(r)' = Writes(r) /\ Generation(r)' = Generation(r)
    BY <2>1 DEF HasLock, Writes, Parts, Generation
  <2>3. QED
    BY <2>1, <2>2 DEF Content
<1>14. QED
  BY <1>3, <1>4, <1>5, <1>6, <1>7, <1>8, <1>9, <1>10, <1>11, <1>12, <1>13
     DEF Steps, SeesCancel, KillTool

-----------------------------------------------------------------------------
(* The theorems.                                                           *)

\* Only the end of the last mongorestore makes a run report success.
LEMMA ReportsOk ==
  ASSUME TypeOK, NEW r \in Runs, run[r].result # "ok", run'[r].result = "ok",
         Steps(r) \/ ToolSucceeds(r) \/ ToolFails(r) \/ KillTool(r)
         \/ Fails(r) \/ Cancel(r) \/ Crash(r)
  PROVE  ToolDone(r) /\ ~FirstPassOk(r) /\ run[r].tool = "ok"
<1>0. run[r] \in RunType /\ run \in [Runs -> RunType]
  BY DEF TypeOK
<1>1. ASSUME NEW excused, Returns(r, "error", excused)
      PROVE  FALSE
  <2>1. run'[r].result = "error"
    BY <1>0, <1>1 DEF Returns, Goes, RunType
  <2>2. QED
    BY <2>1
<1>2. ASSUME run'[r].result = run[r].result
      PROVE  FALSE
  BY <1>2
<1>3. CASE Acquire(r)
  <2>1. Goes(r, [run[r] EXCEPT !.pc = "choose"])
    BY <1>1, <1>3 DEF Acquire
  <2>2. QED
    BY <1>0, <1>2, <2>1 DEF Goes, RunType
<1>4. CASE Choose(r)
  <2>1. CASE Goes(r, [run[r] EXCEPT !.pc = "download"])
    BY <1>0, <1>2, <2>1 DEF Goes, RunType
  <2>2. CASE \E key \in Keys : Goes(r, [run[r] EXCEPT !.pc = "download", !.key = key])
    BY <1>0, <1>2, <2>2 DEF Goes, RunType
  <2>3. QED
    BY <1>4, <2>1, <2>2 DEF Choose
<1>5. CASE NothingToRestore(r)
  BY <1>1, <1>5 DEF NothingToRestore
<1>6. CASE GetRange(r)
  <2> DEFINE file == Append(run[r].file, bucket[run[r].key])
             pc == IF Len(run[r].file) = 1 THEN "verify" ELSE run[r].pc
  <2>1. Goes(r, [run[r] EXCEPT !.file = file, !.pc = pc])
    BY <1>1, <1>6 DEF GetRange
  <2> HIDE DEF file, pc
  <2>2. QED
    BY <1>0, <1>2, <2>1 DEF Goes, RunType
<1>7. CASE Verify(r)
  <2> DEFINE pc == IF UsersFirst(r) THEN "users" ELSE "rest"
  <2>1. Goes(r, [run[r] EXCEPT !.pc = pc])
    BY <1>1, <1>7 DEF Verify
  <2> HIDE DEF pc
  <2>2. QED
    BY <1>0, <1>2, <2>1 DEF Goes, RunType
<1>8. CASE ToolDone(r)
  <2>1. CASE FirstPassOk(r)
    <3>1. Goes(r, [run[r] EXCEPT !.pc = "rest", !.tool = "none"])
      BY <1>8, <2>1 DEF ToolDone
    <3>2. QED
      BY <1>0, <1>2, <3>1 DEF Goes, RunType
  <2>2. CASE ~FirstPassOk(r) /\ run[r].tool # "ok"
    BY <1>1, <1>8, <2>2 DEF ToolDone
  <2>3. QED
    BY <1>8, <2>1, <2>2
<1>9. CASE Fails(r)
  BY <1>1, <1>9 DEF Fails
<1>10. CASE StartTool(r) \/ ToolSucceeds(r) \/ ToolFails(r)
  BY <1>0, <1>2, <1>10 DEF StartTool, ToolSucceeds, ToolFails, Tool, RunType
<1>11. CASE Cancel(r) \/ Crash(r)
  <2>1. CASE Goes(r, [run[r] EXCEPT !.canceled = TRUE, !.excused = TRUE])
    BY <1>0, <1>2, <2>1 DEF Goes, RunType
  <2>2. CASE Goes(r, [run[r] EXCEPT !.alive = FALSE])
    BY <1>0, <1>2, <2>2 DEF Goes, RunType
  <2>3. QED
    BY <1>11, <2>1, <2>2 DEF Cancel, Crash
<1>12. QED
  BY <1>3, <1>4, <1>5, <1>6, <1>7, <1>8, <1>9, <1>10, <1>11
     DEF Steps, SeesCancel, KillTool

LEMMA ElsewhereKeeps ==
  ASSUME IInv, NEW key \in Keys, Put(key) \/ Delete(key)
  PROVE  IInv'
<1>1. run' = Excused /\ target' = target /\ lock' = lock
  BY DEF Put, Delete
<1>2. \A q \in Runs :
        /\ run'[q] \in RunType /\ run' = [p \in Runs |-> run'[p]]
        /\ run'[q].pc = run[q].pc /\ run'[q].file = run[q].file
        /\ run'[q].key = run[q].key /\ run'[q].tool = run[q].tool
        /\ run'[q].alive = run[q].alive
  BY <1>1, ElsewhereLocal DEF IInv
<1>3. \A q \in Runs : HasLock(q)' => HasLock(q)
  BY <1>2 DEF HasLock
<1>4. bucket' \in [Keys -> 1..MaxGen \cup {None}] /\ puts' \in 1..MaxGen
  <2>1. CASE Put(key)
    <3>1. puts + 1 \in 1..MaxGen
      BY <2>1, NoneAssumption DEF IInv, TypeOK, Put
    <3>2. QED
      BY <2>1, <3>1 DEF IInv, TypeOK, Put
  <2>2. CASE Delete(key)
    BY <2>2 DEF IInv, TypeOK, Delete
  <2>3. QED
    BY <2>1, <2>2
<1>5. run' \in [Runs -> RunType]
  <2>1. run' = [q \in Runs |-> run'[q]]
    BY <1>1 DEF Excused
  <2>2. QED
    BY <1>2, <2>1
<1>6. TypeOK'
  BY <1>1, <1>3, <1>4, <1>5 DEF IInv, TypeOK
<1>7. Local'
  BY <1>2 DEF IInv, Local, Ordered
<1>8. Content'
  <2>1. \A q \in Runs : Writes(q)' = Writes(q) /\ Generation(q)' = Generation(q)
    BY <1>2 DEF Writes, Parts, Generation
  <2>2. QED
    BY <1>1, <1>2, <1>3, <2>1 DEF IInv, Content
<1>9. QED
  BY <1>6, <1>7, <1>8 DEF IInv

LEMMA Inductive == Spec => []IInv
<1>1. Init => IInv
  <2> SUFFICES ASSUME Init PROVE IInv
    OBVIOUS
  <2>1. run \in [Runs -> RunType]
    <3>1. <<>> \in Seq(1..MaxGen)
      OBVIOUS
    <3>2. QED
      BY <3>1, KeysAssumption DEF Init, RunType
  <2>2. \A r \in Runs : /\ run[r].pc = "start" /\ run[r].file = <<>>
                        /\ run[r].tool = "none"
    BY DEF Init
  <2>3. \A r \in Runs : ~HasLock(r)
    BY <2>2 DEF HasLock
  <2>4. /\ bucket \in [Keys -> 1..MaxGen \cup {None}] /\ puts \in 1..MaxGen
        /\ target \in [Namespaces -> Contents] /\ lock \in Runs \cup {None}
    BY NoneAssumption DEF Init, Contents, Original
  <2>5. Local
    BY <2>2 DEF Local, Ordered
  <2>6. QED
    BY <2>1, <2>3, <2>4, <2>5 DEF IInv, TypeOK, Content
<1>2. IInv /\ [Next]_vars => IInv'
  <2> SUFFICES ASSUME IInv, [Next]_vars PROVE IInv'
    OBVIOUS
  <2>1. ASSUME NEW r \in Runs,
               Steps(r) \/ ToolSucceeds(r) \/ ToolFails(r) \/ KillTool(r)
               \/ Fails(r) \/ Cancel(r) \/ Crash(r)
        PROVE  IInv'
    <3>1. run' = [run EXCEPT ![r] = run'[r]] /\ run'[r] \in RunType /\ Ordered(run'[r])
      BY <2>1, StepLocal DEF IInv, Local
    <3>2. run' \in [Runs -> RunType] /\ Local'
      BY <3>1 DEF IInv, TypeOK, Local
    <3>3. TypeOK'
      BY <2>1, <3>2, StepTyped, StepWorks DEF IInv, TypeOK, Works
    <3>4. Content'
      <4>1. ASSUME NEW q \in Runs, HasLock(q)'
            PROVE  /\ Drop /\ run'[q].tool = "ok" =>
                        \A part \in Writes(q)' : target'[part] = Generation(q)'
                   /\ run'[q].pc = "rest" /\ UsersFirst(q) => target'.users = Generation(q)'
        BY <2>1, <4>1, OwnContent, OthersContent DEF IInv
      <4>2. QED
        BY <4>1 DEF Content
    <3>5. QED
      BY <3>2, <3>3, <3>4 DEF IInv
  <2>2. ASSUME NEW key \in Keys, Put(key) \/ Delete(key)
        PROVE  IInv'
    BY <2>2, ElsewhereKeeps
  <2>3. CASE UNCHANGED vars
    BY <2>3 DEF vars, IInv, TypeOK, Local, Content, HasLock, Writes, Parts, Generation
  <2>4. QED
    BY <2>1, <2>2, <2>3 DEF Next, Terminated
<1>3. QED
  BY <1>1, <1>2, PTL DEF Spec

(***************************************************************************)
(* Types hold, and whoever works on the server, orphans included, has the  *)
(* lock (process.go:172-184).                                              *)
(***************************************************************************)
THEOREM TypeCorrect == Spec => []TypeOK
<1>1. IInv => TypeOK
  BY DEF IInv
<1>2. QED
  BY <1>1, Inductive, PTL

(***************************************************************************)
(* mongorestore is only ever started on a bundle that is from one          *)
(* generation, undamaged and of the configured type (restore.go:65-80).    *)
(***************************************************************************)
THEOREM OnlyVerifiedIsRestored == Spec => []OnlyVerifiedReachesServer
<1>1. IInv => OnlyVerifiedReachesServer
  BY DEF IInv, Local, Ordered, Verified, FirstRangeOnly, OnlyVerifiedReachesServer
<1>2. QED
  BY <1>1, Inductive, PTL

(***************************************************************************)
(* No two mongorestores of this host run at once (process.go:47-50).       *)
(***************************************************************************)
THEOREM MutualExclusion == Spec => []OneToolAtATime
<1>1. IInv => OneToolAtATime
  BY DEF IInv, TypeOK, HasLock, OneToolAtATime
<1>2. QED
  BY <1>1, Inductive, PTL

(***************************************************************************)
(* The second pass runs under the users of the same generation             *)
(* (restore.go:82-93).                                                     *)
(***************************************************************************)
THEOREM UsersComeFirst == Spec => []UsersBeforeRest
<1>1. IInv => UsersBeforeRest
  BY DEF IInv, Content, HasLock, UsersBeforeRest
<1>2. QED
  BY <1>1, Inductive, PTL

(***************************************************************************)
(* With --drop, a restore reports success only when every collection of    *)
(* the archive that it covers, and the users and roles, are what was       *)
(* verified (restore.go:65-107).  Of other collections it says nothing.     *)
(***************************************************************************)
THEOREM SuccessIsWhole == ASSUME Drop PROVE Spec => RestoredWhole
<1> DEFINE Whole == \A r \in Runs : run[r].result # "ok" /\ run'[r].result = "ok" =>
                      \A part \in Parts(r) : target[part] = Generation(r)
<1>1. IInv /\ [Next]_vars => Whole
  <2> SUFFICES ASSUME IInv, [Next]_vars, NEW q \in Runs,
                      run[q].result # "ok", run'[q].result = "ok"
               PROVE  \A part \in Parts(q) : target[part] = Generation(q)
    OBVIOUS
  <2>0. run \in [Runs -> RunType] /\ run[q] \in RunType
    BY DEF IInv, TypeOK
  <2>1. ASSUME NEW r \in Runs,
               Steps(r) \/ ToolSucceeds(r) \/ ToolFails(r) \/ KillTool(r)
               \/ Fails(r) \/ Cancel(r) \/ Crash(r)
        PROVE  \A part \in Parts(q) : target[part] = Generation(q)
    <3>1. run' = [run EXCEPT ![r] = run'[r]]
      BY <2>1, StepLocal DEF IInv, Local
    <3>2. q = r
      BY <2>0, <3>1
    <3>3. ToolDone(q) /\ ~FirstPassOk(q) /\ run[q].tool = "ok"
      BY <2>1, <3>2, ReportsOk DEF IInv
    <3>4. HasLock(q) /\ run[q].pc = "rest"
      BY <3>3 DEF ToolDone, At, HasLock, FirstPassOk
    <3>5. \A part \in Writes(q) : target[part] = Generation(q)
      BY <3>3, <3>4 DEF IInv, Content
    <3>6. CASE UsersFirst(q)
      <4>1. target.users = Generation(q) /\ Writes(q) = Parts(q) \ {"users"}
        BY <3>4, <3>6, WritesType DEF IInv, Content
      <4>2. QED
        BY <3>5, <4>1
    <3>7. CASE ~UsersFirst(q)
      BY <3>4, <3>5, <3>7 DEF Writes
    <3>8. QED
      BY <3>6, <3>7
  <2>2. ASSUME NEW key \in Keys, Put(key) \/ Delete(key)
        PROVE  FALSE
    BY <2>2, ElsewhereLocal DEF IInv, Put, Delete
  <2>3. QED
    BY <2>1, <2>2 DEF Next, Terminated, vars
<1>2. QED
  BY <1>1, Inductive, PTL DEF RestoredWhole, Spec

-----------------------------------------------------------------------------
(* Failures and their reasons.                                             *)

\* Until the other host interferes, the downloaded ranges are of one object.
Excusable(r) ==
  /\ run[r].key \in Matching \cup {None}
  /\ run[r].result = "error" \/ run[r].tool = "failed" => run[r].excused = TRUE
  /\ run[r].excused = FALSE /\ run[r].pc = "download" /\ Len(run[r].file) = 1 =>
       run[r].file[1] = bucket[run[r].key]
  /\ run[r].excused = FALSE /\ run[r].pc = "verify" =>
       run[r].file[1] = run[r].file[2]

Justified == \A r \in Runs : Excusable(r)

\* A run that returns an error has had its reason, or has it now.
LEMMA ReturnsExcusable ==
  ASSUME TypeOK, NEW r \in Runs, Excusable(r), NEW result \in {"ok", "error"},
         NEW excused \in BOOLEAN, Returns(r, result, excused), run[r].tool # "running",
         result = "error" => run[r].excused \/ excused
  PROVE  Excusable(r)'
<1>1. run[r] \in RunType /\ run \in [Runs -> RunType]
  BY DEF TypeOK
<1>2. run'[r] = [run[r] EXCEPT !.pc = "returned", !.result = result,
                               !.excused = @ \/ excused]
  BY <1>1 DEF Returns, Goes
<1>3. /\ run'[r].pc = "returned" /\ run'[r].key = run[r].key
      /\ run'[r].tool = run[r].tool /\ run'[r].result = result
  BY <1>1, <1>2 DEF RunType
<1>4. run'[r].excused = (run[r].excused \/ excused)
  BY <1>1, <1>2 DEF RunType
<1>5. run[r].excused \in BOOLEAN
  BY <1>1 DEF RunType
<1>6. run'[r].result = "error" \/ run'[r].tool = "failed" => run'[r].excused = TRUE
  BY <1>3, <1>4, <1>5 DEF Excusable
<1>7. QED
  BY <1>3, <1>6 DEF Excusable

\* No step of a run fails it without a reason.
LEMMA StepExcusable ==
  ASSUME TypeOK, NEW r \in Runs, Ordered(run[r]), Excusable(r),
         Steps(r) \/ ToolSucceeds(r) \/ ToolFails(r) \/ KillTool(r)
         \/ Fails(r) \/ Cancel(r) \/ Crash(r), bucket' = bucket
  PROVE  Excusable(r)'
<1>0. /\ run[r] \in RunType /\ run \in [Runs -> RunType] /\ TRUE \in BOOLEAN
      /\ FALSE \in BOOLEAN /\ "error" \in {"ok", "error"}
  BY DEF TypeOK
<1>1. ASSUME Returns(r, "error", TRUE), run[r].tool # "running"
      PROVE  Excusable(r)'
  BY <1>0, <1>1, ReturnsExcusable
<1>2. CASE Acquire(r)
  <2>0. run[r].tool = "none"
    BY <1>2 DEF Acquire, Proceeds, At, Ordered
  <2>1. CASE Goes(r, [run[r] EXCEPT !.pc = "choose"])
    <3>1. /\ run'[r].pc = "choose" /\ run'[r].key = run[r].key
          /\ run'[r].tool = run[r].tool /\ run'[r].result = run[r].result
          /\ run'[r].excused = run[r].excused
      BY <1>0, <2>1 DEF Goes, RunType
    <3>2. QED
      BY <3>1 DEF Excusable
  <2>2. QED
    BY <1>1, <1>2, <2>0, <2>1 DEF Acquire
<1>3. CASE Choose(r)
  <2>1. PICK key \in Matching : Goes(r, [run[r] EXCEPT !.pc = "download", !.key = key])
    <3>1. CASE run[r].key # None
      <4>1. [run[r] EXCEPT !.pc = "download"]
              = [run[r] EXCEPT !.pc = "download", !.key = run[r].key]
        BY <1>0 DEF RunType
      <4>2. run[r].key \in Matching
        BY <3>1 DEF Excusable
      <4>3. QED
        BY <1>3, <3>1, <4>1, <4>2 DEF Choose
    <3>2. QED
      BY <1>3, <3>1 DEF Choose, Candidate
  <2>2. /\ run'[r].pc = "download" /\ run'[r].key = key /\ run'[r].file = run[r].file
        /\ run'[r].tool = run[r].tool /\ run'[r].result = run[r].result
        /\ run'[r].excused = run[r].excused
    BY <1>0, <2>1 DEF Goes, RunType
  <2>3. Len(run'[r].file) # 1
    <3>1. run'[r].file = <<>>
      BY <1>3, <2>2 DEF Choose, Proceeds, At, Ordered
    <3>2. QED
      BY <3>1
  <2>4. QED
    BY <2>2, <2>3 DEF Excusable
<1>4. CASE NothingToRestore(r)
  BY <1>1, <1>4 DEF NothingToRestore, Proceeds, At, Ordered
<1>5. CASE GetRange(r)
  <2>0. run[r].pc = "download" /\ run[r].tool = "none" /\ Len(run[r].file) \in {0, 1}
        /\ run[r].file \in Seq(1..MaxGen) /\ run[r].key \in Keys
    BY <1>0, <1>5 DEF GetRange, Proceeds, At, Ordered, RunType
  <2>1. CASE bucket[run[r].key] = None
    BY <1>1, <1>5, <2>0, <2>1 DEF GetRange
  <2>2. CASE bucket[run[r].key] # None
    <3> DEFINE gen == bucket[run[r].key]
               file == Append(run[r].file, gen)
               pc == IF Len(run[r].file) = 1 THEN "verify" ELSE "download"
    <3>1. gen \in 1..MaxGen
      BY <2>0, <2>2 DEF TypeOK
    <3>2. run'[r] = [run[r] EXCEPT !.file = file, !.pc = pc]
      BY <1>0, <1>5, <2>0, <2>2 DEF GetRange, Goes
    <3>3. /\ Len(run[r].file) = 0 => Len(file) = 1 /\ file[1] = gen
          /\ Len(run[r].file) = 1 => file[1] = run[r].file[1] /\ file[2] = gen
      BY <2>0, <3>1
    <3>4. /\ run'[r].pc = pc /\ run'[r].file = file /\ run'[r].key = run[r].key
          /\ run'[r].tool = run[r].tool /\ run'[r].result = run[r].result
          /\ run'[r].excused = run[r].excused
      <4> HIDE DEF file, pc
      <4>1. QED
        BY <1>0, <3>2 DEF RunType
    <3>5. CASE Len(run[r].file) = 0
      BY <2>0, <3>3, <3>4, <3>5 DEF Excusable
    <3>6. CASE Len(run[r].file) = 1
      BY <2>0, <3>3, <3>4, <3>6 DEF Excusable
    <3>7. QED
      BY <2>0, <3>5, <3>6
  <2>3. QED
    BY <2>1, <2>2
<1>6. CASE Verify(r)
  <2>0. run[r].pc = "verify" /\ run[r].tool = "none" /\ run[r].key \in Keys
    BY <1>6 DEF Verify, Proceeds, At, Ordered
  <2>1. CASE Verified(run[r].file, run[r].key)
    <3> DEFINE pc == IF UsersFirst(r) THEN "users" ELSE "rest"
    <3>1. Goes(r, [run[r] EXCEPT !.pc = pc]) /\ pc \notin {"download", "verify"}
      BY <1>6, <2>1 DEF Verify
    <3> HIDE DEF pc
    <3>2. /\ run'[r].pc = pc /\ run'[r].key = run[r].key
          /\ run'[r].tool = run[r].tool /\ run'[r].result = run[r].result
          /\ run'[r].excused = run[r].excused
      BY <1>0, <3>1 DEF Goes, RunType
    <3>3. QED
      BY <3>1, <3>2 DEF Excusable
  <2>2. CASE ~Verified(run[r].file, run[r].key)
    <3>1. Returns(r, "error", run[r].file[1] \in Broken)
      BY <1>6, <2>2 DEF Verify
    <3>2. run[r].key \in Matching
      <4>1. None \notin Nat
        BY NoneAssumption
      <4>2. None \notin Keys
        BY <4>1, KeysAssumption
      <4>3. QED
        BY <2>0, <4>2 DEF Excusable
    <3>3. run[r].excused \/ run[r].file[1] \in Broken
      <4>1. run[r].excused \in BOOLEAN
        BY <1>0 DEF RunType
      <4>2. run[r].excused = FALSE => run[r].file[1] \in Broken
        BY <2>0, <2>2, <3>2 DEF Excusable, Verified, FirstRangeOnly
      <4>3. QED
        BY Zenon, <4>1, <4>2
    <3>4. (run[r].file[1] \in Broken) \in BOOLEAN
      OBVIOUS
    <3>5. QED
      BY <1>0, <2>0, <3>1, <3>3, <3>4, ReturnsExcusable
  <2>3. QED
    BY <2>1, <2>2
<1>7. CASE StartTool(r) \/ ToolSucceeds(r)
  <2>1. /\ run'[r].pc = run[r].pc /\ run'[r].key = run[r].key
        /\ run'[r].file = run[r].file /\ run'[r].tool \in {"running", "ok"}
        /\ run'[r].result = run[r].result /\ run'[r].excused = run[r].excused
    BY <1>0, <1>7 DEF StartTool, ToolSucceeds, Tool, RunType
  <2>2. QED
    BY <2>1 DEF Excusable
<1>8. CASE ToolDone(r)
  <2>1. CASE FirstPassOk(r)
    <3>1. Goes(r, [run[r] EXCEPT !.pc = "rest", !.tool = "none"])
      BY <1>8, <2>1 DEF ToolDone
    <3>2. /\ run'[r].pc = "rest" /\ run'[r].key = run[r].key /\ run'[r].tool = "none"
          /\ run'[r].result = run[r].result /\ run'[r].excused = run[r].excused
      BY <1>0, <3>1 DEF Goes, RunType
    <3>3. QED
      BY <3>2 DEF Excusable
  <2>2. CASE ~FirstPassOk(r) /\ run[r].tool = "ok"
    <3>1. Returns(r, "ok", FALSE)
      BY <1>8, <2>2 DEF ToolDone
    <3>2. QED
      BY <1>0, <2>2, <3>1, ReturnsExcusable
  <2>3. CASE run[r].tool = "failed"
    <3>1. Returns(r, "error", FALSE)
      BY <1>8, <2>3 DEF ToolDone, FirstPassOk
    <3>2. run[r].excused = TRUE
      BY <2>3 DEF Excusable
    <3>3. QED
      BY <1>0, <2>3, <3>1, <3>2, ReturnsExcusable
  <2>4. QED
    BY <1>8, <2>1, <2>2, <2>3 DEF ToolDone
<1>9. CASE Fails(r)
  BY <1>1, <1>9 DEF Fails
<1>10. CASE ToolFails(r)
  <2>1. /\ run'[r].pc = run[r].pc /\ run'[r].key = run[r].key
        /\ run'[r].excused = TRUE
    BY <1>0, <1>10 DEF ToolFails, RunType
  <2>2. QED
    BY <2>1 DEF Excusable
<1>11. CASE Cancel(r)
  <2>1. run'[r].key = run[r].key /\ run'[r].excused = TRUE
    BY <1>0, <1>11 DEF Cancel, Goes, RunType
  <2>2. QED
    BY <2>1 DEF Excusable
<1>12. CASE Crash(r)
  <2>1. /\ run'[r].pc = run[r].pc /\ run'[r].key = run[r].key
        /\ run'[r].file = run[r].file /\ run'[r].tool = run[r].tool
        /\ run'[r].result = run[r].result /\ run'[r].excused = run[r].excused
    BY <1>0, <1>12 DEF Crash, Goes, RunType
  <2>2. QED
    BY <2>1 DEF Excusable
<1>13. QED
  BY <1>2, <1>3, <1>4, <1>5, <1>6, <1>7, <1>8, <1>9, <1>10, <1>11, <1>12
     DEF Steps, SeesCancel, KillTool

\* What the other host does is a reason for every run that has started.
LEMMA ElsewhereExcusable ==
  ASSUME TypeOK, Local, Justified, run' = Excused
  PROVE  Justified'
<1> SUFFICES ASSUME NEW r \in Runs PROVE Excusable(r)'
  BY DEF Justified
<1>1. run[r] \in RunType /\ Ordered(run[r]) /\ Excusable(r)
  BY DEF TypeOK, Local, Justified
<1>2. run'[r] = [run[r] EXCEPT !.excused = @ \/ run[r].pc # "start"]
  BY DEF Excused
<1>3. /\ run'[r].pc = run[r].pc /\ run'[r].key = run[r].key
      /\ run'[r].tool = run[r].tool /\ run'[r].result = run[r].result
      /\ run'[r].excused = (run[r].excused \/ run[r].pc # "start")
  BY <1>1, <1>2 DEF RunType
<1>4. run[r].excused \in BOOLEAN
  BY <1>1 DEF RunType
<1>5. run[r].excused = TRUE => run'[r].excused = TRUE
  BY <1>3
<1>6. run[r].pc # "start" => run'[r].excused = TRUE
  BY <1>3
<1>7. QED
  BY <1>1, <1>3, <1>5, <1>6 DEF Excusable

LEMMA JustifiedInvariant == Spec => []Justified
<1>1. Init => Justified
  <2> SUFFICES ASSUME Init, NEW r \in Runs PROVE Excusable(r)
    BY DEF Justified
  <2>1. /\ run[r].key \in Matching \cup {None} /\ run[r].result = "none"
        /\ run[r].tool = "none" /\ run[r].pc = "start"
    BY DEF Init
  <2>2. QED
    BY <2>1 DEF Excusable
<1>2. IInv /\ Justified /\ [Next]_vars => Justified'
  <2> SUFFICES ASSUME IInv, Justified, [Next]_vars PROVE Justified'
    OBVIOUS
  <2>1. ASSUME NEW r \in Runs,
               Steps(r) \/ ToolSucceeds(r) \/ ToolFails(r) \/ KillTool(r)
               \/ Fails(r) \/ Cancel(r) \/ Crash(r)
        PROVE  Justified'
    <3>1. run' = [run EXCEPT ![r] = run'[r]] /\ run \in [Runs -> RunType]
          /\ bucket' = bucket
      BY <2>1, StepLocal, StepTyped DEF IInv, Local, TypeOK
    <3>2. Excusable(r)'
      BY <2>1, <3>1, StepExcusable DEF IInv, Local, Justified
    <3>3. ASSUME NEW q \in Runs, q # r
          PROVE  Excusable(q)'
      <4>1. run'[q] = run[q]
        BY <3>1, <3>3
      <4>2. QED
        BY <3>1, <4>1 DEF Justified, Excusable
    <3>4. QED
      BY <3>2, <3>3 DEF Justified
  <2>2. ASSUME NEW key \in Keys, Put(key) \/ Delete(key)
        PROVE  Justified'
    BY <2>2, ElsewhereExcusable DEF IInv, Put, Delete
  <2>3. CASE UNCHANGED vars
    BY <2>3 DEF vars, Justified, Excusable
  <2>4. QED
    BY <2>1, <2>2, <2>3 DEF Next, Terminated
<1>3. QED
  BY <1>1, <1>2, Inductive, PTL DEF Spec

(***************************************************************************)
(* A restore that fails had a reason: a fault, a signal, the lock, a       *)
(* damaged object, an empty prefix or a change of the bucket while it ran; *)
(* never the other file type, nor its own two passes (restore.go:154-158). *)
(***************************************************************************)
THEOREM FailsForAReason == Spec => []NoSpuriousFailure
<1>1. Justified => NoSpuriousFailure
  BY DEF Justified, Excusable, NoSpuriousFailure
<1>2. QED
  BY <1>1, JustifiedInvariant, PTL
=============================================================================
