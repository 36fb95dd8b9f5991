------------------------------- MODULE Bundle -------------------------------
(***************************************************************************)
(* What is in a bundle.  writeBundle (internal/backup/bundle.go) runs      *)
(* between two Inspects of a server whose metadata changes meanwhile, and  *)
(* validateBundle later decides whether the stored bundle, which may have  *)
(* been damaged, is the one that was asked for.                            *)
(*                                                                         *)
(* A member of the ZIP is a name and its data; size and SHA-256 are as     *)
(* good as the data.  How the bytes reach the bucket is BackupDatabase's   *)
(* business, and how the configuration files are read ConfigCapture's.     *)
(***************************************************************************)
EXTENDS Integers, FiniteSets

CONSTANTS ConfigNames,    \* member names config/...
          Unsafe,         \* those of them that a path cannot safely be made of
          ManifestLimit,  \* files that a manifest of 4 MiB can list
          None,           \* no database, no bundle
          MaxClock,       \* bound: the wall clock
          MaxChanges,     \* bound: changes of the server's metadata
          MaxDamage       \* bound: members of the stored bundle lost or added

FixedNames == {"replica-set.json", "data.archive.gz", "auth.archive.gz"}

ASSUME UnsafeAssumption == Unsafe \subseteq ConfigNames /\ IsFiniteSet(ConfigNames)
ASSUME NamesAssumption == ConfigNames \cap FixedNames = {}   \* they start with config/
ASSUME BoundsAssumption == MaxClock \in Nat /\ MaxChanges \in Nat

VARIABLES server,     \* what the commands of Inspect and hello would answer
          database,   \* does the selected database exist
          regimes,    \* history: replica set configurations in force
          dropped,    \* history: the database was dropped after the listing
          clock,      \* the wall clock, which can be set back
          local,      \* Backup and writeBundle: settings, program counter, locals
          members,    \* the members written so far
          stored      \* the bundle in the bucket, or None

env == <<server, database, regimes, dropped, clock>>
vars == <<env, local, members, stored>>

\* BACKUP_MODE, and the database that a per-database backup is of.
Modes == {"full", "per-database"}
Mode == local.mode
Selected == IF Mode = "full" THEN None ELSE "app"
Names(bundle) == {m.name : m \in bundle}

\* Data of a member: a version for replica-set.json, else one of these.
Genuine == 0
Nothing == -1   \* the dump of a database that does not exist
Damaged == -2

\* What Inspect has read: nothing yet.
Blank == [config |-> None, version |-> None, fcv |-> None]

Init ==
  /\ server \in [kind : {"replicaset", "other"}, config : {0}, version : {0}, fcv : {0}]
  /\ database \in BOOLEAN /\ regimes = {0} /\ dropped = FALSE
  /\ clock \in 0..MaxClock
  /\ local \in [mode : Modes, pc : {"connect"}, pass : {1}, started : {0},
                todo : SUBSET ConfigNames, included : BOOLEAN, before : {None},
                snapshot : {Blank}]
  /\ members = {} /\ stored = None

-----------------------------------------------------------------------------
(* The server, its administrators, the clock, and decay in the bucket.     *)

Busy == stored = None /\ local.pc # "failed"

\* A configuration carries a version that only grows.  The period to remember
\* begins and ends with the command by which an Inspect reads it.
Reconfigure ==
  /\ Busy /\ server.config < MaxChanges
  /\ server' = [server EXCEPT !.config = @ + 1]
  /\ regimes' = IF local.pass = 1 /\ local.pc \in {"connect", "list", "config"}
                THEN {server'.config}
                ELSE IF local.pass = 1 \/ local.pc = "config"
                THEN regimes \cup {server'.config} ELSE regimes
  /\ UNCHANGED <<database, dropped, clock, local, members, stored>>

\* Upgrades and downgrades, also of the member that answers next.
ChangeVersion ==
  /\ Busy
  /\ \E to \in 0..1, field \in {"version", "fcv"} : server' = [server EXCEPT ![field] = to]
  /\ UNCHANGED <<database, regimes, dropped, clock, local, members, stored>>

DropOrCreate ==
  /\ Busy /\ database' = ~database
  /\ dropped' = (dropped \/ (database /\ local.pc \notin {"connect", "list"}))
  /\ UNCHANGED <<server, regimes, clock, local, members, stored>>

SetClock ==
  /\ Busy /\ \E now \in {clock - 1, clock + 1} \cap (0..MaxClock) : clock' = now
  /\ UNCHANGED <<server, database, regimes, dropped, local, members, stored>>

\* Members of the stored bundle are lost or added; one that is altered is both.
\* The manifest has only the CRC of the ZIP: forging it is not decay.
Damage ==
  /\ stored # None /\ stored.members = members /\ stored.manifest # None
  /\ \E lost \in SUBSET members,
        added \in SUBSET (Names(members) \cup ConfigNames \cup {"auth.archive.gz", "alien"}),
        manifest \in {None, stored.manifest} :
       /\ Cardinality(lost) + Cardinality(added) <= MaxDamage
       /\ stored' = [members |-> (members \ lost) \cup [name : added, data : {Damaged}],
                     manifest |-> manifest]
  /\ UNCHANGED <<env, local, members>>

-----------------------------------------------------------------------------
(* App.Backup up to the first Inspect, and the Inspects.                   *)

Goes(to) == local' = to /\ UNCHANGED <<env, members, stored>>
Abandons == Goes([local EXCEPT !.pc = "failed"])

\* NewSource: one hello.
Connect ==
  /\ local.pc = "connect"
  /\ IF server.kind = "replicaset"
     THEN Goes([local EXCEPT !.pc = IF Mode = "full" THEN "config" ELSE "list"])
     ELSE Abandons

\* App.databases: mongodump succeeds for a database that does not exist.
SelectionUnchecked == TRUE
SelectionExists == database

List ==
  /\ local.pc = "list"
  /\ IF SelectionExists THEN Goes([local EXCEPT !.pc = "config"]) ELSE Abandons

\* Three commands: nothing makes the three answers of one moment.
ParameterForgotten == [config |-> "version", version |-> "inspected", fcv |-> "inspected"]
NextCommand == [config |-> "version", version |-> "fcv", fcv |-> "inspected"]

Inspect(field) ==
  /\ local.pc = field
  /\ Goes([local EXCEPT !.pc = NextCommand[field],
                        !.snapshot = [IF field = "config" THEN Blank ELSE @
                                        EXCEPT ![field] = server[field]]])

-----------------------------------------------------------------------------
(* writeBundle.                                                            *)

SafeMember(name) == name \notin Unsafe
AllowedMember(name) ==
  name \in ConfigNames \cup FixedNames

AddsAny(name) == name \notin Names(members)
Adds(name) == SafeMember(name) /\ AllowedMember(name) /\ name \notin Names(members)

Add(name, data, next) ==
  IF Adds(name)
  THEN /\ members' = members \cup {[name |-> name, data |-> data]}
       /\ local' = next /\ UNCHANGED <<env, stored>>
  ELSE Abandons

AddReplicaSet ==
  /\ local.pc = "inspected" /\ local.pass = 1
  /\ Add("replica-set.json", local.snapshot.config,
         [local EXCEPT !.pc = "capture", !.before = local.snapshot, !.started = clock])

AddFile(name) ==
  /\ local.pc = "capture" /\ local.included /\ name \in local.todo
  /\ Add(name, Genuine, [local EXCEPT !.todo = @ \ {name}])

\* captureConfig refuses an empty directory and does nothing without one.
EmptyAccepted == TRUE
SomethingCaptured == Names(members) \cap ConfigNames # {}

EndCapture ==
  /\ local.pc = "capture" /\ (local.included => local.todo = {})
  /\ IF local.included => SomethingCaptured
     THEN Goes([local EXCEPT !.pc = "data"]) ELSE Abandons

AddData ==
  /\ local.pc = "data"
  /\ Add("data.archive.gz", IF Mode = "full" \/ database THEN Genuine ELSE Nothing,
         [local EXCEPT !.pc = IF Mode = "full" THEN "config" ELSE "auth",
                       !.pass = IF Mode = "full" THEN 2 ELSE 1])

AddAuth ==
  /\ local.pc = "auth"
  /\ Add("auth.archive.gz", Genuine, [local EXCEPT !.pc = "config", !.pass = 2])

VersionsOnly(a, b) == a.version = b.version /\ a.fcv = b.fcv
SameServer(a, b) == a.config = b.config /\ VersionsOnly(a, b)

Complete ==
  /\ local.pc = "inspected" /\ local.pass = 2
  /\ IF /\ SameServer(local.before, local.snapshot)
        /\ Cardinality(members) <= ManifestLimit
     THEN /\ stored' = [members |-> members,
                        manifest |-> [mode |-> Mode, database |-> Selected,
                                      started |-> local.started, completed |-> clock,
                                      included |-> local.included, files |-> members]]
          /\ local' = [local EXCEPT !.pc = "complete"] /\ UNCHANGED <<env, members>>
     ELSE Abandons

\* A command, a tool or a write fails, or the context is canceled.
Fails == Busy /\ Abandons

Terminated == ~Busy /\ UNCHANGED vars

Next == \/ Reconfigure \/ ChangeVersion \/ DropOrCreate \/ SetClock \/ Damage
        \/ Connect \/ List
        \/ \E field \in {"config", "version", "fcv"} : Inspect(field)
        \/ AddReplicaSet \/ EndCapture \/ AddData \/ AddAuth \/ Complete
        \/ \E name \in ConfigNames : AddFile(name)
        \/ Fails \/ Terminated

Spec == Init /\ [][Next]_vars

-----------------------------------------------------------------------------
(* validateBundle, for a restore configured with a mode and a database.    *)

Required(mode) == {"data.archive.gz", "replica-set.json"}
                    \cup (IF mode = "full" THEN {} ELSE {"auth.archive.gz"})

InventoryUncounted(s) == TRUE
InventoryCounts(s) == Cardinality(s.manifest.files) = Cardinality(s.members)

Consistent(s) ==
  /\ \A m \in s.members : SafeMember(m.name) /\ AllowedMember(m.name)
  /\ \A m, n \in s.members : m.name = n.name => m = n
  /\ s.manifest # None
  /\ Cardinality(s.manifest.files) <= ManifestLimit
  /\ Required(s.manifest.mode) \subseteq Names(s.members)
  /\ s.manifest.mode = "full" => "auth.archive.gz" \notin Names(s.members)
  /\ InventoryCounts(s)
  /\ s.members \subseteq s.manifest.files
  /\ s.manifest.included <=> (Names(s.members) \cap ConfigNames # {})

ModeSelected(s, mode, db) == s.manifest.mode = mode
AsSelected(s, mode, db) == s.manifest.mode = mode /\ s.manifest.database = db

Validates(s, mode, db) ==
  /\ Consistent(s) /\ AsSelected(s, mode, db)
  /\ s.manifest.completed >= s.manifest.started

-----------------------------------------------------------------------------
(* Properties.                                                             *)

Snapshots == [config : 0..MaxChanges, version : 0..1, fcv : 0..1]
Members == [name : ConfigNames \cup FixedNames \cup {"alien"},
            data : {Nothing, Damaged} \cup (0..MaxChanges)]

\* Types; and the snapshot that is used has every field (mongo.go:167).
TypeOK ==
  /\ [field \in {"config", "version", "fcv"} |-> server[field]] \in Snapshots
  /\ database \in BOOLEAN /\ dropped \in BOOLEAN
  /\ regimes \subseteq 0..MaxChanges /\ clock \in 0..MaxClock
  /\ local.pc \in {"connect", "list", "config", "version", "fcv", "inspected",
                   "capture", "data", "auth", "complete", "failed"}
  /\ local.pc = "inspected" => local.snapshot \in Snapshots
  /\ local.todo \subseteq ConfigNames
  /\ members \subseteq Members
  /\ stored # None => stored.members \subseteq Members

(***************************************************************************)
(* The replica set configuration in the bundle was in force from the first *)
(* Inspect to the second, all through the dumps: comparing the two ends is *)
(* enough because configuration versions grow (bundle.go:102-108).         *)
(***************************************************************************)
ConfigHeldThroughout ==
  stored # None => \A m \in members :
    m.name = "replica-set.json" => regimes = {m.data}

(***************************************************************************)
(* A bundle that was completed passes its own validation, whatever the     *)
(* configuration directory held, provided the clock did not run backwards: *)
(* the writer's refusals cover the reader's (bundle.go:62, 114, 143-214).  *)
(***************************************************************************)
BackupValidates ==
  local.pc = "complete" /\ stored.members = members /\ stored.manifest # None
    /\ stored.manifest.completed >= local.started
  => Validates(stored, Mode, Selected)

(***************************************************************************)
(* The same without regard to the clock: what is published as complete can *)
(* be restored (app_test.go:202-227, README.md:220).                   *)
(***************************************************************************)
PublishedIsRestorable ==
  stored # None /\ stored.members = members /\ stored.manifest # None
  => Validates(stored, Mode, Selected)

(***************************************************************************)
(* Only an intact bundle of the selected mode and database validates: a    *)
(* member altered, lost or added, or a bundle of another database, is      *)
(* noticed before anything is imported (bundle.go:138-214).                *)
(***************************************************************************)
OnlyIntactValidates ==
  stored # None =>
    \A mode \in Modes, db \in {None, "app", "other"} :
      Validates(stored, mode, db) =>
        stored.members = members /\ mode = Mode /\ db = Selected

(***************************************************************************)
(* The dump of a database that was not there is published only when the    *)
(* database was dropped after App.databases looked (app.go:201-207).       *)
(***************************************************************************)
EmptyOnlyIfDropped ==
  stored # None /\ ~dropped => \A m \in members : m.data # Nothing
=============================================================================
