---------------------------- MODULE ConfigCapture ----------------------------
(***************************************************************************)
(* captureConfig (internal/backup/capture.go) against an administrator who *)
(* edits the configuration directory meanwhile.  The directory is walked   *)
(* once for an inventory, every file is read into the bundle, and the      *)
(* directory is walked again: every entry must have the metadata of the    *)
(* inventory and every file the bytes that were captured.                  *)
(*                                                                         *)
(* A file is a name bound to an inode; an inode has a modification time    *)
(* and a few blocks, which a reader gets one at a time.  Modification      *)
(* times are clock ticks, so two writes within one tick look alike.  All   *)
(* rewrites keep the length, which is the hard case: a change of size is   *)
(* seen by the same comparisons as a change of modification time.          *)
(*                                                                         *)
(* The editor is external.  What it may do within one tick is limited: it  *)
(* binds a name once and writes a block once, so nothing returns to what   *)
(* it was before the clock moves.  Over several ticks anything recurs.     *)
(***************************************************************************)
EXTENDS Naturals, Sequences, FiniteSets

CONSTANTS Names,      \* a set of numbers: the walk visits names in their order
          Blocks,     \* how many blocks a file has
          Values,     \* what a block can hold
          Inodes,     \* inode numbers; a number is reused once it is free
          None,       \* no inode, no file
          MaxTick,    \* bound: clock ticks during the capture
          MaxEdits    \* bound: edits during the capture

ASSUME NamesAssumption == Names \subseteq Nat /\ IsFiniteSet(Names)
ASSUME BlocksAssumption == Blocks \in Nat \ {0}
ASSUME TickAssumption == MaxTick \in Nat /\ MaxEdits \in Nat

VARIABLES files,      \* the directory: name -> inode or None
          inode,      \* inode -> modification time and blocks
          dirTime,    \* modification time of the directory
          samePath,   \* MONGODB_CONFIG_DIR still names this directory
          clock,      \* the file system's clock
          touched,    \* cells edited within this tick; <<name, 0>> is the binding
          edits,      \* edits so far
          capture,    \* captureConfig: program counter and local variables
          captured,   \* name -> blocks handed to the bundle, or None
          boundary,   \* history: the directory when the second walk listed it
          outcome     \* what captureConfig returned: "ok", or the kind of its error

fsVars == <<files, inode, dirTime, samePath, clock, touched, edits>>
vars == <<fsVars, capture, captured, boundary, outcome>>

Contents == [1..Blocks -> Values]
Infos == [id : Inodes, time : 0..MaxTick] \cup {None}

ASSUME NoneAssumption ==
  None \notin Inodes /\ None \notin Contents /\ None \notin [id : Inodes, time : 0..MaxTick]

\* What unchangedConfig compares: the inode and its metadata.
Info(id) == [id |-> id, time |-> inode[id].time]

Present == {name \in Names : files[name] # None}
View == [name \in Names |-> IF files[name] = None THEN None
                            ELSE inode[files[name]].data]

\* Inode numbers nothing refers to, the reader's open file included.
Free == Inodes \ ({files[name] : name \in Names} \cup {capture.fd})

Init ==
  /\ files \in [Names -> Inodes \cup {None}]
  /\ \A a, b \in Present : files[a] = files[b] => a = b
  /\ \E data \in Contents : inode = [id \in Inodes |-> [time |-> 0, data |-> data]]
  /\ dirTime = 0 /\ samePath = TRUE /\ clock = 0 /\ touched = {} /\ edits = 0
  /\ capture = [pc |-> "root", pass |-> 1, todo |-> {}, seen |-> 0,
                dirTime |-> 0, before |-> [name \in Names |-> None],
                fd |-> None, data |-> <<>>]
  /\ captured = [name \in Names |-> None]
  /\ boundary = [name \in Names |-> None]
  /\ outcome = "none"

-----------------------------------------------------------------------------
(* The editor and the clock.                                               *)

Tick ==
  /\ outcome = "none" /\ clock < MaxTick
  /\ clock' = clock + 1 /\ touched' = {}
  /\ UNCHANGED <<files, inode, dirTime, samePath, edits, capture, captured,
                 boundary, outcome>>

Edits(cell) ==
  /\ outcome = "none" /\ edits < MaxEdits /\ cell \notin touched
  /\ edits' = edits + 1 /\ touched' = touched \cup {cell}
  /\ UNCHANGED <<samePath, clock, capture, captured, boundary, outcome>>

\* One write() into the file: the length stays, the time may look the same.
WriteBlock(name, block, value) ==
  /\ Edits(<<name, block>>) /\ files[name] # None
  /\ inode' = [inode EXCEPT ![files[name]] =
                 [time |-> clock, data |-> [@.data EXCEPT ![block] = value]]]
  /\ UNCHANGED <<files, dirTime>>

\* A file is created, or a new one is renamed over the old one.
Bind(name, id, data) ==
  /\ Edits(<<name, 0>>) /\ id \in Free
  /\ files' = [files EXCEPT ![name] = id]
  /\ inode' = [inode EXCEPT ![id] = [time |-> clock, data |-> data]]
  /\ dirTime' = clock

Remove(name) ==
  /\ Edits(<<name, 0>>) /\ files[name] # None
  /\ files' = [files EXCEPT ![name] = None]
  /\ dirTime' = clock /\ UNCHANGED inode

\* The directory is renamed away and another one put in its place, or back.
SwapDirectory ==
  /\ outcome = "none" /\ edits < MaxEdits
  /\ samePath' = ~samePath /\ edits' = edits + 1
  /\ UNCHANGED <<files, inode, dirTime, clock, touched, capture, captured,
                 boundary, outcome>>

Edit == \/ Tick \/ SwapDirectory
        \/ \E name \in Names, block \in 1..Blocks, value \in Values :
             WriteBlock(name, block, value)
        \/ \E name \in Names, id \in Inodes, data \in Contents : Bind(name, id, data)
        \/ \E name \in Names : Remove(name)

-----------------------------------------------------------------------------
(* captureConfig.  The initial state is the one its first Lstat saw.       *)

\* WalkDir visits names in lexical order.
NextName(name) == name \in capture.todo /\ \A other \in capture.todo : name <= other

Goes(local) == capture' = local /\ UNCHANGED <<fsVars, captured, boundary, outcome>>

Refuses(why) ==
  /\ outcome' = why /\ capture' = [capture EXCEPT !.pc = "returned"]
  /\ UNCHANGED <<fsVars, captured, boundary>>

OpenRoot ==
  /\ capture.pc = "root"
  /\ IF samePath THEN Goes([capture EXCEPT !.pc = "inventory"])
                 ELSE Refuses("changed")

\* Lstat(".") comes before the directory is read.
Inventory ==
  /\ capture.pc = "inventory"
  /\ Goes([capture EXCEPT !.pc = "list", !.dirTime = dirTime])

\* One ReadDir gives the names; what they are is looked up one by one.
ListDirectory ==
  /\ capture.pc = "list"
  /\ capture' = [capture EXCEPT !.pc = IF capture.pass = 1 THEN "stat" ELSE "visit",
                                !.todo = Present]
  /\ boundary' = IF capture.pass = 2 THEN View ELSE boundary
  /\ UNCHANGED <<fsVars, captured, outcome>>

StatFile(name) ==
  /\ capture.pc = "stat" /\ NextName(name)
  /\ IF files[name] = None
     THEN Refuses("changed")
     ELSE Goes([capture EXCEPT !.before[name] = Info(files[name]), !.todo = @ \ {name}])

Inventoried == {name \in Names : capture.before[name] # None}

StartCapture ==
  /\ capture.pc = "stat" /\ capture.todo = {}
  /\ IF Inventoried = {}
     THEN Refuses("empty")
     ELSE Goes([capture EXCEPT !.pc = "visit", !.todo = Inventoried])

\* unchangedConfig of the inventory's metadata and the current one.
SameInodeOnly(name, id) == /\ id # None /\ capture.before[name] # None
                           /\ capture.before[name].id = id
Unchanged(name, id) == id # None /\ capture.before[name] = Info(id)

\* The second walk looks at an entry before captureConfigFile does.
MeetFile(name) ==
  /\ capture.pc = "visit" /\ capture.pass = 2 /\ NextName(name)
  /\ IF Unchanged(name, files[name])
     THEN Goes([capture EXCEPT !.pc = "met"])
     ELSE Refuses("changed")

\* captureConfigFile up to the opened file.  Lstat and Open are two steps.
VisitFile(name) ==
  /\ capture.pc = IF capture.pass = 1 THEN "visit" ELSE "met"
  /\ NextName(name)
  /\ IF Unchanged(name, files[name])
     THEN Goes([capture EXCEPT !.pc = "open"])
     ELSE Refuses("changed")

OpenFile(name) ==
  /\ capture.pc = "open" /\ NextName(name)
  /\ IF Unchanged(name, files[name])
     THEN Goes([capture EXCEPT !.pc = "read", !.fd = files[name], !.data = <<>>])
     ELSE Refuses("changed")

\* The open file is read, whatever its name is bound to by now.
ReadBlock ==
  /\ capture.pc = "read" /\ Len(capture.data) < Blocks
  /\ Goes([capture EXCEPT !.data =
             Append(@, inode[capture.fd].data[Len(capture.data) + 1])])

\* The end of captureConfigFile: first what is open is looked at again ...
StatOpened(name) ==
  /\ capture.pc = "read" /\ NextName(name) /\ Len(capture.data) = Blocks
  /\ IF Unchanged(name, capture.fd)
     THEN Goes([capture EXCEPT !.pc = "close"])
     ELSE Refuses("changed")

\* ... then what the name is bound to by now; and the caller's use of what was
\* read: the first pass keeps it (and its hash), the second compares it.
HashUnchecked(name) == TRUE
SameHash(name) == captured[name] = capture.data

\* Only the second walk counts what it meets.
MetInBothWalks(pass) == 1
Met(pass) == IF pass = 2 THEN 1 ELSE 0

CloseFile(name) ==
  /\ capture.pc = "close" /\ NextName(name)
  /\ IF /\ Unchanged(name, files[name])
        /\ capture.pass = 2 => SameHash(name)
     THEN /\ capture' = [capture EXCEPT !.pc = "visit", !.todo = @ \ {name},
                                        !.fd = None, !.data = <<>>,
                                        !.seen = @ + Met(capture.pass)]
          /\ captured' = IF capture.pass = 1
                         THEN [captured EXCEPT ![name] = capture.data]
                         ELSE captured
          /\ UNCHANGED <<fsVars, boundary, outcome>>
     ELSE Refuses("changed")

\* The second walk starts with the directory itself, which is an entry too.
Recheck ==
  /\ capture.pc = "visit" /\ capture.pass = 1 /\ capture.todo = {}
  /\ IF dirTime = capture.dirTime
     THEN Goes([capture EXCEPT !.pc = "list", !.pass = 2, !.seen = @ + Met(2)])
     ELSE Refuses("changed")

\* An entry of the inventory, the directory or a name, that the second walk did
\* not meet has gone.
FilesSeen == capture.seen = Cardinality(Inventoried)
AllSeen == capture.seen = Cardinality(Inventoried) + 1

Finish ==
  /\ capture.pc = "visit" /\ capture.pass = 2 /\ capture.todo = {}
  /\ IF AllSeen /\ samePath THEN Refuses("ok") ELSE Refuses("changed")

\* A read error, or the context is canceled.
Fails == outcome = "none" /\ Refuses("failed")

Terminated == outcome # "none" /\ UNCHANGED vars

Capture == \/ OpenRoot \/ Inventory \/ ListDirectory \/ StartCapture
           \/ ReadBlock \/ Recheck \/ Finish
           \/ \E name \in Names : \/ StatFile(name) \/ MeetFile(name)
                                  \/ VisitFile(name) \/ OpenFile(name)
                                  \/ StatOpened(name) \/ CloseFile(name)

Next == Capture \/ Fails \/ Edit \/ Terminated

Spec == Init /\ [][Next]_vars

-----------------------------------------------------------------------------
(* Properties.                                                             *)

TypeOK ==
  /\ files \in [Names -> Inodes \cup {None}]
  /\ inode \in [Inodes -> [time : 0..MaxTick, data : Contents]]
  /\ dirTime \in 0..MaxTick /\ clock \in 0..MaxTick /\ samePath \in BOOLEAN
  /\ touched \subseteq Names \X (0..Blocks) /\ edits \in 0..MaxEdits
  /\ capture.pc \in {"root", "inventory", "list", "stat", "visit", "met",
                     "open", "read", "close", "returned"}
  /\ capture.pass \in 1..2 /\ capture.todo \subseteq Names
  /\ capture.seen \in 0..Cardinality(Names) + 1 /\ capture.dirTime \in 0..MaxTick
  /\ capture.before \in [Names -> Infos] /\ capture.fd \in Inodes \cup {None}
  /\ Len(capture.data) <= Blocks
  /\ captured \in [Names -> Contents \cup {None}]
  /\ boundary \in [Names -> Contents \cup {None}]
  /\ outcome \in {"none", "ok", "changed", "failed", "empty"}

(***************************************************************************)
(* A capture that succeeds is a snapshot: the bundle holds exactly the     *)
(* files the directory had, with exactly the bytes they had, at one moment *)
(* (the second walk's ReadDir), however edits interleave with the reads    *)
(* and even when modification times hide them (capture.go:92-129).         *)
(***************************************************************************)
CaptureIsSnapshot == outcome = "ok" => captured = boundary

(***************************************************************************)
(* A directory nobody edits is captured: the second walk does not mistake  *)
(* anything the first one did for a change (capture.go:94-135).            *)
(***************************************************************************)
QuietCaptureSucceeds == outcome = "changed" => edits > 0
=============================================================================
