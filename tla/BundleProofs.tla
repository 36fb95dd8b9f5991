---------------------------- MODULE BundleProofs ----------------------------
(***************************************************************************)
(* Theorems about bundle.go: Bundle, for every configuration directory,    *)
(* every limit of the manifest and every bound, and ExtractConfig.         *)
(*                                                                         *)
(* The argument follows the program counter of writeBundle: which members  *)
(* are there and what is in them; that the configurations in force since   *)
(* the first Inspect lie between what it read and what the server or the   *)
(* second Inspect says, versions only growing; and that a database which   *)
(* was listed is there unless it was dropped.  What is stored carries the  *)
(* members in its manifest as long as the manifest can be read at all.     *)
(***************************************************************************)
EXTENDS Bundle, ExtractConfig, FiniteSetTheorems, TLAPS

Asking == {"version", "fcv", "inspected"}
Started == {"connect", "list", "config"} \cup Asking
Writing == {"capture", "data", "auth"}
Versions == [config : 0..MaxChanges \cup {None}, version : {0, 1, None}, fcv : {0, 1, None}]

\* What AddReplicaSet has been through, what AddData has, and what is done.
Opened == local.pc # "failed" /\ (local.pc \in Writing \/ local.pass = 2)
Dumped == local.pc # "failed" /\ (local.pc = "auth" \/ local.pass = 2)

LocalType == [mode : Modes, pc : Started \cup Writing \cup {"complete", "failed"},
              pass : 1..2, started : 0..MaxClock, todo : SUBSET ConfigNames,
              included : BOOLEAN, before : Snapshots \cup {None}, snapshot : Versions]

Types ==
  /\ server \in [kind : {"replicaset", "other"}, config : 0..MaxChanges,
                 version : 0..1, fcv : 0..1]
  /\ database \in BOOLEAN /\ dropped \in BOOLEAN
  /\ regimes \subseteq 0..MaxChanges /\ clock \in 0..MaxClock
  /\ local \in LocalType
  /\ members \subseteq Members /\ IsFiniteSet(members)
  /\ stored # None => stored.members \subseteq Members

\* Where the program counter can be; an answer that was given is no None.
Control ==
  /\ local.pc \in Writing => local.pass = 1
  /\ local.pc = "complete" => local.pass = 2
  /\ local.pc \in {"connect", "list"} => local.pass = 1
  /\ local.pc \in {"list", "auth"} => Mode # "full"
  /\ Opened => local.before \in Snapshots
  /\ local.pc \in Asking => local.snapshot.config \in 0..MaxChanges
  /\ local.pc \in {"fcv", "inspected"} => local.snapshot.version \in 0..1
  /\ local.pc = "inspected" => local.snapshot.fcv \in 0..1

\* Which members there are, and the data of the first one.
Written ==
  /\ \A m, n \in members : m.name = n.name => m = n
  /\ \A m \in members : SafeMember(m.name) /\ AllowedMember(m.name)
  /\ local.pc # "failed" /\ ~Opened => members = {}
  /\ Opened => "replica-set.json" \in Names(members)
  /\ Dumped => "data.archive.gz" \in Names(members)
  /\ Dumped /\ local.pc # "auth" /\ Mode # "full" => "auth.archive.gz" \in Names(members)
  /\ Mode = "full" => "auth.archive.gz" \notin Names(members)
  /\ local.included = FALSE => Names(members) \cap ConfigNames = {}
  /\ (local.pc = "data" \/ Dumped) /\ local.included = TRUE => Names(members) \cap ConfigNames # {}
  /\ \A m \in members : m.name = "replica-set.json" => m.data = local.before.config

\* The configurations that were in force, from one version to another.
Between(first, last) == first \in regimes /\ regimes \subseteq first..last

Held ==
  /\ local.pass = 1 /\ local.pc \in {"connect", "list", "config"} => regimes = {server.config}
  /\ local.pass = 1 /\ local.pc \in Asking => Between(local.snapshot.config, server.config)
  /\ local.pc \in Writing => Between(local.before.config, server.config)
  /\ local.pass = 2 /\ local.pc = "config" => Between(local.before.config, server.config)
  /\ local.pass = 2 /\ local.pc \in Asking => Between(local.before.config, local.snapshot.config)
  /\ local.pc = "complete" => regimes = {local.before.config}

\* A database that was listed is there, unless it was dropped.
Kept ==
  /\ dropped = FALSE /\ Mode # "full" /\ local.pc \notin {"connect", "list", "failed"} => database = TRUE
  /\ dropped = FALSE => \A m \in members : m.data # Nothing

\* What Complete has stored, and what decay leaves of it.
Stored ==
  /\ stored # None => local.pc = "complete"
  /\ local.pc = "complete" => Cardinality(members) <= ManifestLimit
  /\ local.pc = "complete" /\ stored.manifest # None =>
       /\ stored.manifest.mode = Mode /\ stored.manifest.database = Selected
       /\ stored.manifest.started = local.started
       /\ stored.manifest.included = local.included
       /\ stored.manifest.files = members

IInv == Types /\ Control /\ Written /\ Held /\ Kept /\ Stored
-----------------------------------------------------------------------------
LEMMA InitInv == Init => IInv
<1> SUFFICES ASSUME Init PROVE IInv
  OBVIOUS
<1>1. /\ local \in [mode : Modes, pc : {"connect"}, pass : {1}, started : {0},
                    todo : SUBSET ConfigNames, included : BOOLEAN, before : {None},
                    snapshot : {Blank}]
      /\ server \in [kind : {"replicaset", "other"}, config : {0}, version : {0}, fcv : {0}]
      /\ members = {} /\ stored = None /\ regimes = {0} /\ dropped = FALSE
      /\ database \in BOOLEAN /\ clock \in 0..MaxClock
  BY DEF Init
<1>2. Types
  <2>1. local \in LocalType
    BY <1>1, BoundsAssumption DEF LocalType, Started, Asking, Versions, Blank
  <2>2. server \in [kind : {"replicaset", "other"}, config : 0..MaxChanges,
                    version : 0..1, fcv : 0..1]
    BY <1>1, BoundsAssumption
  <2>3. QED
    BY <1>1, <2>1, <2>2, BoundsAssumption, FS_EmptySet DEF Types
<1>3. Control /\ Written /\ Held /\ Kept /\ Stored
  BY <1>1 DEF Control, Written, Held, Kept, Stored, Opened, Dumped, Writing, Asking, Names
<1>4. QED
  BY <1>2, <1>3 DEF IInv

-----------------------------------------------------------------------------
(* The server, its administrators, the clock and decay.                    *)

LEMMA ReconfigureInv == ASSUME IInv, Reconfigure PROVE IInv'
<1>1. /\ server' = [server EXCEPT !.config = @ + 1] /\ server.config < MaxChanges
      /\ UNCHANGED <<database, dropped, clock, local, members, stored>>
  BY DEF Reconfigure
<1>2. /\ server' \in [kind : {"replicaset", "other"}, config : 0..MaxChanges,
                      version : 0..1, fcv : 0..1]
      /\ server'.config = server.config + 1 /\ server.config \in 0..MaxChanges
  BY <1>1, BoundsAssumption DEF IInv, Types
<1>3. Held' /\ regimes' \subseteq 0..MaxChanges
  BY <1>1, <1>2, BoundsAssumption
     DEF Reconfigure, IInv, Types, Held, Between, Control, Asking, Writing, Opened
<1>4. QED
  BY <1>1, <1>2, <1>3
     DEF IInv, Types, Control, Written, Kept, Stored, Opened, Dumped, Mode, Selected

LEMMA ChangeVersionInv == ASSUME IInv, ChangeVersion PROVE IInv'
<1>1. PICK to \in 0..1, field \in {"version", "fcv"} : server' = [server EXCEPT ![field] = to]
  BY DEF ChangeVersion
<1>2. UNCHANGED <<regimes, database, dropped, clock, local, members, stored>>
  BY DEF ChangeVersion
<1>3. /\ server' \in [kind : {"replicaset", "other"}, config : 0..MaxChanges,
                      version : 0..1, fcv : 0..1]
      /\ server'.config = server.config
  BY <1>1 DEF IInv, Types
<1>4. QED
  BY <1>2, <1>3
     DEF IInv, Types, Control, Written, Held, Between, Kept, Stored, Opened, Dumped, Mode, Selected

LEMMA DropOrCreateInv == ASSUME IInv, DropOrCreate PROVE IInv'
<1>1. /\ database' = ~database
      /\ dropped' = (dropped \/ (database /\ local.pc \notin {"connect", "list"}))
      /\ UNCHANGED <<server, regimes, clock, local, members, stored>>
  BY DEF DropOrCreate
<1>2. Kept' /\ database' \in BOOLEAN /\ dropped' \in BOOLEAN
  BY <1>1, Zenon DEF IInv, Types, Kept, Mode
<1>3. QED
  BY <1>1, <1>2
     DEF IInv, Types, Control, Written, Held, Between, Stored, Opened, Dumped, Mode, Selected

LEMMA SetClockInv == ASSUME IInv, SetClock PROVE IInv'
BY DEF SetClock, IInv, Types, Control, Written, Held, Between, Kept, Stored, Opened, Dumped,
       Mode, Selected

LEMMA DamageInv == ASSUME IInv, Damage PROVE IInv'
<1>1. PICK lost \in SUBSET members,
           added \in SUBSET (Names(members) \cup ConfigNames \cup {"auth.archive.gz", "alien"}),
           manifest \in {None, stored.manifest} :
        /\ Cardinality(lost) + Cardinality(added) <= MaxDamage
        /\ stored' = [members |-> (members \ lost) \cup [name : added, data : {Damaged}],
                      manifest |-> manifest]
  BY Zenon DEF Damage
<1>2. stored # None /\ UNCHANGED <<env, local, members>>
  BY DEF Damage
<1>3. [name : added, data : {Damaged}] \subseteq Members
  <2>1. \A m \in members : m.name \in ConfigNames \cup FixedNames \cup {"alien"}
    BY DEF IInv, Types, Members
  <2>2. added \subseteq ConfigNames \cup FixedNames \cup {"alien"}
    BY <2>1 DEF Names, FixedNames
  <2>3. QED
    BY <2>2 DEF Members
<1>4. stored'.members \subseteq Members
  BY <1>1, <1>3 DEF IInv, Types
<1>5. stored'.manifest \in {None, stored.manifest}
  BY <1>1
<1>6. /\ UNCHANGED <<server, database, regimes, dropped, clock>>
      /\ UNCHANGED <<local, members>>
  BY <1>2 DEF env
<1>7. Types' /\ Stored'
  BY <1>2, <1>4, <1>5, <1>6 DEF IInv, Types, Stored, Mode, Selected
<1>8. QED
  BY <1>6, <1>7 DEF IInv, Control, Written, Held, Between, Kept, Opened, Dumped, Mode
-----------------------------------------------------------------------------
(* Backup and the Inspects.                                                *)

\* A step of writeBundle alone leaves the types of the rest as they are.
LEMMA GoesTypes ==
  ASSUME IInv, UNCHANGED <<env, members, stored>>, local' \in LocalType
  PROVE  Types'
BY DEF env, IInv, Types

LEMMA AbandonsInv == ASSUME IInv, stored = None, Abandons PROVE IInv'
<1>1. local' = [local EXCEPT !.pc = "failed"] /\ UNCHANGED <<env, members, stored>>
  BY DEF Abandons, Goes
<1>2. /\ local' \in LocalType /\ local'.pc = "failed" /\ local'.mode = local.mode
      /\ local'.included = local.included /\ local'.before = local.before
  BY <1>1 DEF IInv, Types, LocalType
<1>3. Types'
  BY <1>1, <1>2, GoesTypes
<1>4. Control' /\ Written' /\ Held' /\ Kept' /\ Stored'
  BY <1>1, <1>2 DEF env, IInv, Control, Written, Held, Kept, Stored, Opened, Dumped, Writing,
                    Asking, Mode
<1>5. QED
  BY <1>3, <1>4 DEF IInv

\* Before Complete nothing is stored.
LEMMA NotYetStored ==
  ASSUME IInv, local.pc # "complete" PROVE stored = None
BY DEF IInv, Stored

LEMMA ConnectInv == ASSUME IInv, Connect PROVE IInv'
<1>0. local.pc = "connect" /\ local \in LocalType
  BY DEF Connect, IInv, Types
<1>1. CASE Abandons
  BY <1>0, <1>1, NotYetStored, AbandonsInv
<1>2. CASE Goes([local EXCEPT !.pc = IF Mode = "full" THEN "config" ELSE "list"])
  <2> DEFINE to == IF Mode = "full" THEN "config" ELSE "list"
  <2>1. local' = [local EXCEPT !.pc = to] /\ UNCHANGED <<env, members, stored>>
    BY <1>2 DEF Goes
  <2>2. to \in {"config", "list"} /\ (to = "list" => local.mode # "full")
                                  /\ (to = "config" => local.mode = "full")
    BY DEF Mode
  <2> HIDE DEF to
  <2>3. /\ local' \in LocalType /\ local'.pc = to /\ local'.mode = local.mode
        /\ local'.pass = local.pass /\ local'.included = local.included
        /\ local'.before = local.before
    BY <1>0, <2>1, <2>2 DEF LocalType, Started, Asking
  <2>4. Types'
    BY <2>1, <2>3, GoesTypes
  <2>5. Control' /\ Written' /\ Held' /\ Kept' /\ Stored'
    BY <1>0, <2>1, <2>2, <2>3
       DEF env, IInv, Control, Written, Held, Kept, Stored, Opened, Dumped, Writing, Asking, Mode
  <2>6. QED
    BY <2>4, <2>5 DEF IInv
<1>3. QED
  BY <1>1, <1>2 DEF Connect

LEMMA ListInv == ASSUME IInv, List PROVE IInv'
<1>0. local.pc = "list" /\ local \in LocalType
  BY DEF List, IInv, Types
<1>1. CASE Abandons
  BY <1>0, <1>1, NotYetStored, AbandonsInv
<1>2. CASE database = TRUE /\ Goes([local EXCEPT !.pc = "config"])
  <2>1. local' = [local EXCEPT !.pc = "config"] /\ UNCHANGED <<env, members, stored>>
    BY <1>2 DEF Goes
  <2>2. /\ local' \in LocalType /\ local'.pc = "config" /\ local'.mode = local.mode
        /\ local'.pass = local.pass /\ local'.included = local.included
        /\ local'.before = local.before
    BY <1>0, <2>1 DEF LocalType, Started, Asking
  <2>3. Types'
    BY <2>1, <2>2, GoesTypes
  <2>4. Control' /\ Written' /\ Held' /\ Kept' /\ Stored'
    BY <1>0, <1>2, <2>1, <2>2
       DEF env, IInv, Control, Written, Held, Kept, Stored, Opened, Dumped, Writing, Asking, Mode
  <2>5. QED
    BY <2>3, <2>4 DEF IInv
<1>3. QED
  <2>1. database \in BOOLEAN
    BY DEF IInv, Types
  <2>2. QED
    BY <1>1, <1>2, <2>1 DEF List, SelectionExists

LEMMA InspectInv ==
  ASSUME IInv, NEW field \in {"config", "version", "fcv"}, Inspect(field) PROVE IInv'
<1> DEFINE to == NextCommand[field]
           snapshot == [IF field = "config" THEN Blank ELSE local.snapshot
                          EXCEPT ![field] = server[field]]
<1>0. local.pc = field /\ local \in LocalType /\ Types /\ local.snapshot \in Versions
  BY DEF Inspect, IInv, Types, LocalType
<1>1. local' = [local EXCEPT !.pc = to, !.snapshot = snapshot]
      /\ UNCHANGED <<env, members, stored>>
  BY <1>0 DEF Inspect, Goes, LocalType
<1>2. /\ field = "config" => to = "version" /\ snapshot = [Blank EXCEPT !.config = server.config]
      /\ field = "version" => to = "fcv"
           /\ snapshot = [local.snapshot EXCEPT !.version = server.version]
      /\ field = "fcv" => to = "inspected"
           /\ snapshot = [local.snapshot EXCEPT !.fcv = server.fcv]
  BY DEF NextCommand
<1>3. /\ snapshot \in Versions /\ to \in Asking
      /\ field = "config" => snapshot.config = server.config
      /\ field # "config" => snapshot.config = local.snapshot.config
      /\ field = "version" => snapshot.version = server.version
      /\ field = "fcv" => snapshot.version = local.snapshot.version /\ snapshot.fcv = server.fcv
  <2>1. CASE field = "config"
    BY <1>0, <1>2, <2>1 DEF Types, Versions, Blank, Asking
  <2>2. CASE field = "version"
    BY <1>0, <1>2, <2>2 DEF Types, Versions, Asking
  <2>3. CASE field = "fcv"
    BY <1>0, <1>2, <2>3 DEF Types, Versions, Asking
  <2>4. QED
    BY <2>1, <2>2, <2>3
<1> HIDE DEF to, snapshot
<1>4. /\ local' \in LocalType /\ local'.pc = to /\ local'.snapshot = snapshot
      /\ local'.pass = local.pass /\ local'.included = local.included
      /\ local'.before = local.before /\ local'.mode = local.mode
  BY <1>0, <1>1, <1>3 DEF LocalType, Started
<1>5. Types'
  BY <1>1, <1>4, GoesTypes
<1>6. Control'
  BY <1>0, <1>2, <1>3, <1>4 DEF IInv, Types, Control, Opened, Writing, Asking, Mode
<1>7. Written' /\ Kept' /\ Stored'
  BY <1>0, <1>1, <1>3, <1>4
     DEF env, IInv, Written, Kept, Stored, Opened, Dumped, Writing, Asking, Mode
<1>8. Held'
  BY <1>0, <1>1, <1>2, <1>3, <1>4
     DEF env, IInv, Types, Held, Between, Writing, Asking
<1>9. QED
  BY <1>5, <1>6, <1>7, <1>8 DEF IInv
-----------------------------------------------------------------------------
(* writeBundle.                                                            *)

\* One more member: its name is new, safe and allowed.
LEMMA AddMembers ==
  ASSUME IInv, NEW name, NEW data \in {Nothing, Genuine} \cup (0..MaxChanges), Adds(name),
         members' = members \cup {[name |-> name, data |-> data]}
  PROVE  /\ members' \subseteq Members /\ IsFiniteSet(members')
         /\ Names(members') = Names(members) \cup {name}
         /\ \A m, n \in members' : m.name = n.name => m = n
         /\ \A m \in members' : SafeMember(m.name) /\ AllowedMember(m.name)
         /\ \A m \in members' : m \in members \/ (m.name = name /\ m.data = data)
<1> DEFINE new == [name |-> name, data |-> data]
<1>1. new.name = name /\ new.data = data /\ members' = members \cup {new}
  OBVIOUS
<1>2. new \in Members
  BY BoundsAssumption DEF Adds, AllowedMember, Members, Nothing, Genuine, Damaged
<1> HIDE DEF new
<1>3. IsFiniteSet(members')
  BY <1>1, FS_AddElement DEF IInv, Types
<1>4. name \notin Names(members) /\ SafeMember(name) /\ AllowedMember(name)
  BY DEF Adds
<1>5. \A m, n \in members' : m.name = n.name => m = n
  BY <1>1, <1>4 DEF Names, IInv, Written
<1>6. QED
  BY <1>1, <1>2, <1>3, <1>4, <1>5 DEF Names, IInv, Types, Written

LEMMA AddReplicaSetInv == ASSUME IInv, AddReplicaSet PROVE IInv'
<1> DEFINE to == [local EXCEPT !.pc = "capture", !.before = local.snapshot, !.started = clock]
<1>0. local.pc = "inspected" /\ local.pass = 1 /\ local \in LocalType /\ clock \in 0..MaxClock
  BY DEF AddReplicaSet, IInv, Types
<1>1. local.snapshot \in Snapshots /\ local.snapshot.config \in 0..MaxChanges
  <2>1. local.snapshot \in [config : 0..MaxChanges, version : 0..1, fcv : 0..1]
    BY <1>0 DEF LocalType, Versions, IInv, Control, Asking
  <2>2. QED
    BY <2>1 DEF Snapshots
<1>2. CASE Abandons
  BY <1>0, <1>2, NotYetStored, AbandonsInv
<1>3. CASE /\ Adds("replica-set.json") /\ local' = to
           /\ members' = members \cup {[name |-> "replica-set.json",
                                        data |-> local.snapshot.config]}
           /\ UNCHANGED <<env, stored>>
  <2>1. /\ local' \in LocalType /\ local'.pc = "capture" /\ local'.before = local.snapshot
        /\ local'.mode = local.mode /\ local'.pass = 1 /\ local'.included = local.included
    BY <1>0, <1>1, <1>3 DEF LocalType, Started, Writing
  <2> HIDE DEF to
  <2>2. /\ members = {}
        /\ members' \subseteq Members /\ IsFiniteSet(members')
        /\ Names(members') = Names(members) \cup {"replica-set.json"}
        /\ \A m, n \in members' : m.name = n.name => m = n
        /\ \A m \in members' : SafeMember(m.name) /\ AllowedMember(m.name)
        /\ \A m \in members' : m.data = local.snapshot.config
    <3>1. members = {}
      BY <1>0 DEF IInv, Written, Opened, Writing
    <3>2. QED
      BY <1>1, <1>3, <3>1, AddMembers
  <2>3. Types'
    BY <1>3, <2>1, <2>2 DEF env, IInv, Types
  <2>4. Control' /\ Held' /\ Kept' /\ Stored'
    BY <1>0, <1>1, <1>3, <2>1, <2>2, BoundsAssumption
       DEF env, IInv, Control, Held, Between, Kept, Stored, Opened, Writing, Asking, Mode, Nothing
  <2>5. Written'
    BY <2>1, <2>2, NamesAssumption DEF Written, Opened, Dumped, Writing, Mode, FixedNames, Names
  <2>6. QED
    BY <2>3, <2>4, <2>5 DEF IInv
<1>4. QED
  BY <1>2, <1>3 DEF AddReplicaSet, Add

LEMMA AddFileInv == ASSUME IInv, NEW name \in ConfigNames, AddFile(name) PROVE IInv'
<1> DEFINE to == [local EXCEPT !.todo = @ \ {name}]
<1>0. local.pc = "capture" /\ local.included = TRUE /\ local.pass = 1 /\ local \in LocalType
  <2>1. local.included \in BOOLEAN /\ local.included
    BY DEF AddFile, IInv, Types, LocalType
  <2>2. QED
    BY <2>1 DEF AddFile, IInv, Types, Control, Writing
<1>1. CASE Abandons
  BY <1>0, <1>1, NotYetStored, AbandonsInv
<1>2. CASE /\ Adds(name) /\ local' = to
           /\ members' = members \cup {[name |-> name, data |-> Genuine]}
           /\ UNCHANGED <<env, stored>>
  <2>1. /\ local' \in LocalType /\ local'.pc = "capture" /\ local'.before = local.before
        /\ local'.mode = local.mode /\ local'.pass = 1 /\ local'.included = TRUE
    BY <1>0, <1>2 DEF LocalType
  <2> HIDE DEF to
  <2>2. /\ members' \subseteq Members /\ IsFiniteSet(members')
        /\ Names(members') = Names(members) \cup {name}
        /\ \A m, n \in members' : m.name = n.name => m = n
        /\ \A m \in members' : SafeMember(m.name) /\ AllowedMember(m.name)
        /\ \A m \in members' : m \in members \/ (m.name = name /\ m.data = Genuine)
    BY <1>2, AddMembers
  <2>3. Types'
    BY <1>2, <2>1, <2>2 DEF env, IInv, Types
  <2>4. Control' /\ Held' /\ Kept' /\ Stored'
    BY <1>0, <1>2, <2>1, <2>2
       DEF env, IInv, Control, Held, Between, Kept, Stored, Opened, Writing, Asking, Mode,
           Nothing, Genuine
  <2>5. Written'
    BY <1>0, <2>1, <2>2, NamesAssumption
       DEF IInv, Written, Opened, Dumped, Writing, Mode, FixedNames
  <2>6. QED
    BY <2>3, <2>4, <2>5 DEF IInv
<1>3. QED
  BY <1>1, <1>2 DEF AddFile, Add

LEMMA EndCaptureInv == ASSUME IInv, EndCapture PROVE IInv'
<1>0. local.pc = "capture" /\ local.pass = 1 /\ local \in LocalType
  BY DEF EndCapture, IInv, Types, Control, Writing
<1>1. CASE Abandons
  BY <1>0, <1>1, NotYetStored, AbandonsInv
<1>2. CASE /\ local.included = TRUE => SomethingCaptured
           /\ Goes([local EXCEPT !.pc = "data"])
  <2>1. local' = [local EXCEPT !.pc = "data"] /\ UNCHANGED <<env, members, stored>>
    BY <1>2 DEF Goes
  <2>2. /\ local' \in LocalType /\ local'.pc = "data" /\ local'.before = local.before
        /\ local'.mode = local.mode /\ local'.pass = 1 /\ local'.included = local.included
    BY <1>0, <2>1 DEF LocalType, Writing
  <2>3. Types'
    BY <2>1, <2>2, GoesTypes
  <2>4. Control' /\ Written' /\ Held' /\ Kept' /\ Stored'
    BY <1>0, <1>2, <2>1, <2>2
       DEF env, IInv, Control, Written, Held, Between, Kept, Stored, Opened, Dumped, Writing,
           Asking, Mode, SomethingCaptured
  <2>5. QED
    BY <2>3, <2>4 DEF IInv
<1>3. QED
  <2>1. local.included \in BOOLEAN
    BY <1>0 DEF LocalType
  <2>2. QED
    BY <1>1, <1>2, <2>1, Zenon DEF EndCapture

LEMMA AddDataInv == ASSUME IInv, AddData PROVE IInv'
<1> DEFINE data == IF Mode = "full" \/ database THEN Genuine ELSE Nothing
           to == IF Mode = "full" THEN "config" ELSE "auth"
           pass == IF Mode = "full" THEN 2 ELSE 1
<1>0. local.pc = "data" /\ local.pass = 1 /\ local \in LocalType
  BY DEF AddData, IInv, Types, Control, Writing
<1>1. CASE Abandons
  BY <1>0, <1>1, NotYetStored, AbandonsInv
<1>2. CASE /\ Adds("data.archive.gz") /\ local' = [local EXCEPT !.pc = to, !.pass = pass]
           /\ members' = members \cup {[name |-> "data.archive.gz", data |-> data]}
           /\ UNCHANGED <<env, stored>>
  <2>0. /\ data \in {Nothing, Genuine} /\ (dropped = FALSE => data = Genuine)
        /\ \/ to = "config" /\ pass = 2 /\ local.mode = "full"
           \/ to = "auth" /\ pass = 1 /\ local.mode # "full"
    <3>1. dropped = FALSE /\ local.mode # "full" => database = TRUE
      BY <1>0 DEF IInv, Kept, Mode
    <3>2. QED
      BY <3>1 DEF Mode
  <2> HIDE DEF data, to, pass
  <2>1. /\ local' \in LocalType /\ local'.pc = to /\ local'.before = local.before
        /\ local'.mode = local.mode /\ local'.pass = pass /\ local'.included = local.included
    <3>1. local' = [local EXCEPT !.pc = to, !.pass = pass]
      BY <1>2
    <3>2. to \in Started \cup Writing /\ pass \in 1..2
      BY <2>0 DEF Started, Writing
    <3>3. QED
      BY <1>0, <3>1, <3>2 DEF LocalType
  <2>2. /\ members' \subseteq Members /\ IsFiniteSet(members')
        /\ Names(members') = Names(members) \cup {"data.archive.gz"}
        /\ \A m, n \in members' : m.name = n.name => m = n
        /\ \A m \in members' : SafeMember(m.name) /\ AllowedMember(m.name)
        /\ \A m \in members' : m \in members \/ (m.name = "data.archive.gz" /\ m.data = data)
    BY <1>2, <2>0, AddMembers
  <2>3. Types'
    BY <1>2, <2>1, <2>2 DEF env, IInv, Types
  <2>4. Control' /\ Held' /\ Kept' /\ Stored'
    BY <1>0, <1>2, <2>0, <2>1, <2>2
       DEF env, IInv, Control, Held, Kept, Stored, Opened, Writing, Asking, Mode, Nothing, Genuine,
           Between
  <2>5. Written'
    BY <1>0, <2>0, <2>1, <2>2, NamesAssumption
       DEF IInv, Written, Opened, Dumped, Writing, Mode, FixedNames
  <2>6. QED
    BY <2>3, <2>4, <2>5 DEF IInv
<1>3. QED
  BY <1>1, <1>2 DEF AddData, Add

LEMMA AddAuthInv == ASSUME IInv, AddAuth PROVE IInv'
<1>0. local.pc = "auth" /\ local.pass = 1 /\ local \in LocalType /\ local.mode # "full"
  BY DEF AddAuth, IInv, Types, Control, Writing, Mode
<1>1. CASE Abandons
  BY <1>0, <1>1, NotYetStored, AbandonsInv
<1>2. CASE /\ Adds("auth.archive.gz")
           /\ local' = [local EXCEPT !.pc = "config", !.pass = 2]
           /\ members' = members \cup {[name |-> "auth.archive.gz", data |-> Genuine]}
           /\ UNCHANGED <<env, stored>>
  <2>1. /\ local' \in LocalType /\ local'.pc = "config" /\ local'.before = local.before
        /\ local'.mode = local.mode /\ local'.pass = 2 /\ local'.included = local.included
    <3>1. local' = [local EXCEPT !.pc = "config", !.pass = 2]
      BY <1>2
    <3>2. "config" \in Started \cup Writing /\ 2 \in 1..2
      BY DEF Started
    <3>3. QED
      BY <1>0, <3>1, <3>2 DEF LocalType
  <2>2. /\ members' \subseteq Members /\ IsFiniteSet(members')
        /\ Names(members') = Names(members) \cup {"auth.archive.gz"}
        /\ \A m, n \in members' : m.name = n.name => m = n
        /\ \A m \in members' : SafeMember(m.name) /\ AllowedMember(m.name)
        /\ \A m \in members' : m \in members \/ (m.name = "auth.archive.gz" /\ m.data = Genuine)
    BY <1>2, AddMembers
  <2>3. Types'
    BY <1>2, <2>1, <2>2 DEF env, IInv, Types
  <2>4. Control' /\ Held' /\ Kept' /\ Stored'
    BY <1>0, <1>2, <2>1, <2>2
       DEF env, IInv, Control, Held, Kept, Stored, Opened, Writing, Asking, Mode, Nothing, Genuine,
           Between
  <2>5. Written'
    BY <1>0, <2>1, <2>2, NamesAssumption
       DEF IInv, Written, Opened, Dumped, Writing, Mode, FixedNames
  <2>6. QED
    BY <2>3, <2>4, <2>5 DEF IInv
<1>3. QED
  BY <1>1, <1>2 DEF AddAuth, Add

LEMMA CompleteInv == ASSUME IInv, Complete PROVE IInv'
<1>0. local.pc = "inspected" /\ local.pass = 2 /\ local \in LocalType
  BY DEF Complete, IInv, Types
<1>1. CASE Abandons
  BY <1>0, <1>1, NotYetStored, AbandonsInv
<1>2. CASE /\ SameServer(local.before, local.snapshot)
           /\ Cardinality(members) <= ManifestLimit
           /\ stored' = [members |-> members,
                         manifest |-> [mode |-> Mode, database |-> Selected,
                                       started |-> local.started, completed |-> clock,
                                       included |-> local.included, files |-> members]]
           /\ local' = [local EXCEPT !.pc = "complete"] /\ UNCHANGED <<env, members>>
  <2>1. /\ local' \in LocalType /\ local'.pc = "complete" /\ local'.before = local.before
        /\ local'.mode = local.mode /\ local'.pass = 2 /\ local'.included = local.included
        /\ local'.started = local.started
    BY <1>0, <1>2 DEF LocalType
  <2>2. Types'
    BY <1>2, <2>1 DEF env, IInv, Types
  <2>3. Control' /\ Written' /\ Kept'
    BY <1>0, <1>2, <2>1
       DEF env, IInv, Control, Written, Kept, Opened, Dumped, Writing, Asking, Mode
  <2>4. Held'
    <3>1. local.before.config = local.snapshot.config /\ local.snapshot.config \in 0..MaxChanges
      BY <1>0, <1>2 DEF SameServer, IInv, Control, Asking
    <3>2. Between(local.before.config, local.before.config)
      BY <1>0, <3>1 DEF IInv, Held, Asking
    <3>3. regimes = {local.before.config}
      <4>1. \A c \in 0..MaxChanges : c..c = {c}
        BY BoundsAssumption
      <4>2. QED
        BY <3>1, <3>2, <4>1 DEF Between
    <3>4. QED
      BY <1>2, <2>1, <3>3 DEF env, Held, Asking, Writing
  <2>5. Stored'
    BY <1>2, <2>1 DEF Stored, Mode, Selected
  <2>6. QED
    BY <2>2, <2>3, <2>4, <2>5 DEF IInv
<1>3. QED
  BY <1>1, <1>2 DEF Complete

LEMMA StepInv == IInv /\ [Next]_vars => IInv'
<1> SUFFICES ASSUME IInv, [Next]_vars PROVE IInv'
  OBVIOUS
<1>1. CASE UNCHANGED vars
  BY <1>1 DEF vars, env, IInv, Types, Control, Written, Held, Between, Kept, Stored, Opened,
              Dumped, Mode, Selected
<1>2. CASE Fails
  BY <1>2, AbandonsInv DEF Fails, Busy
<1>3. QED
  BY <1>1, <1>2, ReconfigureInv, ChangeVersionInv, DropOrCreateInv, SetClockInv, DamageInv,
     ConnectInv, ListInv, InspectInv, AddReplicaSetInv, AddFileInv, EndCaptureInv, AddDataInv,
     AddAuthInv, CompleteInv
     DEF Next, Terminated

THEOREM Invariance == Spec => []IInv
BY InitInv, StepInv, PTL DEF Spec

-----------------------------------------------------------------------------
(***************************************************************************)
(* Type correctness; every field of a snapshot that is used has been read. *)
(***************************************************************************)
THEOREM TypeCorrect == Spec => []TypeOK
<1>1. IInv => TypeOK
  <2> SUFFICES ASSUME IInv PROVE TypeOK
    OBVIOUS
  <2>1. [field \in {"config", "version", "fcv"} |-> server[field]] \in Snapshots
    BY DEF IInv, Types, Snapshots
  <2>2. local.pc = "inspected" => local.snapshot \in Snapshots
    <3>1. local.pc = "inspected" =>
            local.snapshot \in [config : 0..MaxChanges, version : 0..1, fcv : 0..1]
      BY DEF IInv, Types, LocalType, Versions, Control, Asking
    <3>2. QED
      BY <3>1 DEF Snapshots
  <2>3. QED
    BY <2>1, <2>2 DEF IInv, Types, TypeOK, LocalType, Started, Asking, Writing
<1>2. QED
  BY <1>1, Invariance, PTL

(***************************************************************************)
(* The replica set configuration in the bundle was in force from the first *)
(* Inspect to the second: what was in force lies between what the two have *)
(* read, and a bundle is completed only when they have read the same.      *)
(***************************************************************************)
THEOREM ConfigHeld == Spec => []ConfigHeldThroughout
<1>1. IInv => ConfigHeldThroughout
  BY DEF IInv, Stored, Held, Written, ConfigHeldThroughout
<1>2. QED
  BY <1>1, Invariance, PTL

(***************************************************************************)
(* A completed bundle passes its own validation, whatever the directory    *)
(* held, when the clock did not run backwards: each refusal of the writer  *)
(* is one of the reader's.                                                 *)
(***************************************************************************)
THEOREM BackupsValidate == Spec => []BackupValidates
<1>1. IInv => BackupValidates
  <2> SUFFICES ASSUME IInv, local.pc = "complete", stored.members = members,
                      stored.manifest # None, stored.manifest.completed >= local.started
               PROVE  Validates(stored, Mode, Selected)
    BY DEF BackupValidates
  <2>1. /\ stored.manifest.mode = Mode /\ stored.manifest.database = Selected
        /\ stored.manifest.started = local.started
        /\ stored.manifest.included = local.included
        /\ stored.manifest.files = members /\ Cardinality(members) <= ManifestLimit
    BY DEF IInv, Stored
  <2>2. Dumped /\ Opened /\ local.included \in BOOLEAN
    BY DEF IInv, Types, LocalType, Control, Opened, Dumped
  <2>3. Required(Mode) \subseteq Names(members)
    BY <2>2 DEF Required, IInv, Written
  <2>4. local.included <=> (Names(members) \cap ConfigNames # {})
    BY <2>2 DEF IInv, Written
  <2>5. Consistent(stored)
    BY <2>1, <2>3, <2>4 DEF Consistent, InventoryCounts, IInv, Written
  <2>6. QED
    BY <2>1, <2>5 DEF Validates, AsSelected
<1>2. QED
  BY <1>1, Invariance, PTL

(***************************************************************************)
(* Only an intact bundle of the selected mode and database validates: what *)
(* is in the file is a part of the manifest's inventory, and as many.      *)
(***************************************************************************)
THEOREM OnlyIntact == Spec => []OnlyIntactValidates
<1>1. IInv => OnlyIntactValidates
  <2> SUFFICES ASSUME IInv, stored # None, NEW mode \in Modes, NEW db \in {None, "app", "other"},
                      Validates(stored, mode, db)
               PROVE  stored.members = members /\ mode = Mode /\ db = Selected
    BY DEF OnlyIntactValidates
  <2>1. /\ stored.manifest # None /\ stored.manifest.mode = mode
        /\ stored.manifest.database = db
        /\ stored.members \subseteq stored.manifest.files
        /\ Cardinality(stored.manifest.files) = Cardinality(stored.members)
    BY DEF Validates, Consistent, AsSelected, InventoryCounts
  <2>2. /\ stored.manifest.mode = Mode /\ stored.manifest.database = Selected
        /\ stored.manifest.files = members /\ IsFiniteSet(members)
    BY <2>1 DEF IInv, Stored, Types
  <2>3. QED
    BY <2>1, <2>2, FS_Subset
<1>2. QED
  BY <1>1, Invariance, PTL

(***************************************************************************)
(* A dump of nothing is published only if the database was dropped after   *)
(* it had been listed.                                                     *)
(***************************************************************************)
THEOREM EmptyMeansDropped == Spec => []EmptyOnlyIfDropped
<1>1. IInv => EmptyOnlyIfDropped
  BY DEF IInv, Types, Kept, EmptyOnlyIfDropped
<1>2. QED
  BY <1>1, Invariance, PTL

-----------------------------------------------------------------------------
(* Extraction, for every set of extractions and files and whatever else    *)
(* happens at the destination.  The argument follows the staging           *)
(* directory: it is whole before the rename, gone before the result is     *)
(* known, and what was placed was placed by its own extraction.            *)

\* What each program counter says of the staging directory.
StagedSoFar ==
  \A e \in Extractors :
    /\ pc[e] \in {"copy", "rename"} => staging[e] \in SUBSET Files
    /\ pc[e] = "rename" => staging[e] = Files
    /\ pc[e] = "done" => staging[e] = NoStaging

\* An extraction has a result exactly when it has returned.
ReportedLast == \A e \in Extractors : outcome[e] # "pending" <=> pc[e] = "done"

\* Only an extraction that renamed has placed.
PlacedByRename ==
  \A e \in Extractors :
    /\ e \in placed => pc[e] \in {"renamed", "done", "dead"}
    /\ pc[e] = "renamed" => e \in placed

ExtractInv == ExtractTypeOK /\ NeverPartial /\ StagedSoFar /\ ReportedLast /\ PlacedByRename

LEMMA ExtractInitInv == ExtractInit => ExtractInv
BY ExtractConfigAssumption
   DEF ExtractInit, ExtractInv, ExtractTypeOK, NeverPartial, StagedSoFar, ReportedLast,
       PlacedByRename, Directory

\* Other programs put nothing of an extraction at the destination.
LEMMA OthersInv == ExtractInv /\ Others => ExtractInv'
BY ExtractConfigAssumption
   DEF Others, ExtractInv, ExtractTypeOK, NeverPartial, StagedSoFar, ReportedLast,
       PlacedByRename, Directory

\* The steps of an extraction that leave the destination alone.
LEMMA StagingInv ==
  ASSUME ExtractInv, NEW e \in Extractors,
         \/ CheckAbsent(e) \/ MakeStaging(e) \/ CopyMember(e) \/ LstatDest(e)
         \/ CopyFails(e) \/ Cleanup(e) \/ Crash(e)
  PROVE  ExtractInv'
<1>1. CASE CheckAbsent(e) \/ CopyFails(e) \/ Crash(e)
  BY <1>1 DEF CheckAbsent, CopyFails, Crash, Proceeds, ExtractInv, ExtractTypeOK, NeverPartial, StagedSoFar,
     ReportedLast, PlacedByRename
<1>2. CASE MakeStaging(e) \/ CopyMember(e)
  BY <1>2 DEF MakeStaging, CopyMember, Proceeds, ExtractInv, ExtractTypeOK, NeverPartial, StagedSoFar,
     ReportedLast, PlacedByRename
<1>3. CASE LstatDest(e)
  BY <1>3 DEF LstatDest, AllCopied, Proceeds, ExtractInv, ExtractTypeOK, NeverPartial, StagedSoFar,
     ReportedLast, PlacedByRename
<1>4. CASE Cleanup(e)
  BY <1>4 DEF Cleanup, DropsStaging, ExtractInv, ExtractTypeOK, NeverPartial, StagedSoFar,
     ReportedLast, PlacedByRename
<1>5. QED
  BY <1>1, <1>2, <1>3, <1>4

\* What is renamed has all members, so the destination does.
LEMMA RenameInv == ASSUME ExtractInv, NEW e \in Extractors, Rename(e) PROVE ExtractInv'
<1>1. CASE Replaceable(dest.owner)
  <2>1. dest' = Directory(e, Files) /\ staging[e] = Files
    BY <1>1 DEF Rename, ExtractInv, StagedSoFar
  <2>2. QED
    BY <1>1, <2>1 DEF Rename, Directory, Proceeds, ExtractInv, ExtractTypeOK, NeverPartial, StagedSoFar,
       ReportedLast, PlacedByRename
<1>2. CASE ~Replaceable(dest.owner)
  BY <1>2 DEF Rename, Proceeds, ExtractInv, ExtractTypeOK, NeverPartial, StagedSoFar, ReportedLast,
     PlacedByRename
<1>3. QED
  BY <1>1, <1>2

LEMMA ExtractStepInv == ExtractInv /\ [ExtractNext]_extractVars => ExtractInv'
<1>1. CASE UNCHANGED extractVars
  BY <1>1 DEF extractVars, ExtractInv, ExtractTypeOK, NeverPartial, StagedSoFar, ReportedLast, PlacedByRename
<1>2. QED
  BY <1>1, OthersInv, StagingInv, RenameInv DEF ExtractNext, AllReturned

THEOREM ExtractInvariance == ExtractSpec => []ExtractInv
BY ExtractInitInv, ExtractStepInv, PTL DEF ExtractSpec

(***************************************************************************)
(* Type correctness.                                                       *)
(***************************************************************************)
THEOREM ExtractionsTyped == ExtractSpec => []ExtractTypeOK
BY ExtractInvariance, PTL DEF ExtractInv

(***************************************************************************)
(* No staging directory outlives the result of its extraction.             *)
(***************************************************************************)
THEOREM LeavesNothingStaged == ExtractSpec => []NothingStaged
<1>1. ExtractInv => NothingStaged
  BY DEF ExtractInv, NothingStaged, StagedSoFar, ReportedLast
<1>2. QED
  BY <1>1, ExtractInvariance, PTL

(***************************************************************************)
(* What an extraction has put at the destination has every member.         *)
(***************************************************************************)
THEOREM ExposesNothingPartial == ExtractSpec => []NeverPartial
BY ExtractInvariance, PTL DEF ExtractInv

-----------------------------------------------------------------------------
(* The refinement.                                                         *)

LEMMA AbstractInit == ExtractInit => Abstract!Init
BY DEF ExtractInit, Abstract!Init, Directory

LEMMA AbstractStep == ExtractInv /\ [ExtractNext]_extractVars => [Abstract!Next]_(Abstract!vars)
<1>1. ASSUME Others PROVE Abstract!Others
  BY <1>1 DEF Others, Abstract!Others, Directory
<1>2. ASSUME ExtractInv, NEW e \in Extractors, Rename(e), Replaceable(dest.owner)
      PROVE  Abstract!Place(e)
  BY <1>2 DEF Rename, Replaceable, Abstract!Place, Directory, Proceeds, ExtractInv, ExtractTypeOK,
     ReportedLast, PlacedByRename
<1>3. ASSUME ExtractInv, NEW e \in Extractors, Cleanup(e)
      PROVE  Abstract!Succeed(e) \/ Abstract!Fail(e)
  BY <1>3 DEF Cleanup, Abstract!Succeed, Abstract!Fail, ExtractInv, ExtractTypeOK, ReportedLast,
     PlacedByRename
<1>4. ASSUME UNCHANGED extractVars PROVE UNCHANGED Abstract!vars
  BY <1>4 DEF extractVars, Abstract!vars
<1>5. SUFFICES ASSUME ExtractInv, [ExtractNext]_extractVars
               PROVE  Abstract!Next \/ UNCHANGED Abstract!vars
  OBVIOUS
<1>6. CASE Others \/ UNCHANGED extractVars
  BY <1>1, <1>4, <1>6 DEF Abstract!Next
<1>7. CASE \E e \in Extractors : \/ CheckAbsent(e) \/ MakeStaging(e) \/ CopyMember(e)
                                \/ LstatDest(e) \/ Rename(e) \/ CopyFails(e) \/ Cleanup(e)
                                \/ Crash(e)
  <2>1. PICK e \in Extractors : \/ CheckAbsent(e) \/ MakeStaging(e) \/ CopyMember(e)
                                \/ LstatDest(e) \/ Rename(e) \/ CopyFails(e) \/ Cleanup(e)
                                \/ Crash(e)
    BY <1>7
  <2>2. CASE Cleanup(e)
    BY <1>3, <1>5, <2>2 DEF Abstract!Next
  <2>3. CASE Rename(e)
    <3>1. CASE Replaceable(dest.owner)
      BY <1>2, <1>5, <2>3, <3>1 DEF Abstract!Next
    <3>2. CASE ~Replaceable(dest.owner)
      BY <2>3, <3>2 DEF Rename, Proceeds, Abstract!vars
    <3>3. QED
      BY <3>1, <3>2
  <2>4. CASE \/ CheckAbsent(e) \/ MakeStaging(e) \/ CopyMember(e) \/ LstatDest(e)
             \/ CopyFails(e) \/ Crash(e)
    BY <2>4 DEF CheckAbsent, MakeStaging, CopyMember, LstatDest, CopyFails, Crash, Proceeds,
       Abstract!vars
  <2>5. QED
    BY <2>1, <2>2, <2>3, <2>4
<1>8. QED
  BY <1>5, <1>6, <1>7 DEF ExtractNext, AllReturned

(***************************************************************************)
(* Extractions with one destination implement AtomicDirectory: whole or    *)
(* not at all, in nobody's place, and "ok" only for the one that is there. *)
(***************************************************************************)
THEOREM ImplementsAtomicDirectory == ExtractSpec => PlacesAtomically
BY ExtractInvariance, AbstractInit, AbstractStep, PTL DEF ExtractSpec, PlacesAtomically, Abstract!Spec
=============================================================================
