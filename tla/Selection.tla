----------------------------- MODULE Selection -----------------------------
(***************************************************************************)
(* From a configuration to databases and to keys (internal/backup/         *)
(* config.go, App.databases and App.validateRestore): validation, the      *)
(* selection among the databases of the server, and the key of a backup,   *)
(* which retention and restore must recognise again.                       *)
(*                                                                         *)
(* A string is a sequence of symbols: a single byte, or a word standing    *)
(* for itself, such as "full" or a timestamp.  A list setting is the       *)
(* sequence of the strings between its commas; <<>> is an unset variable.  *)
(***************************************************************************)
EXTENDS Naturals, Sequences, SequencesExt

CONSTANTS Names,      \* values of MONGODB_DATABASE
          Lists,      \* values of MONGODB_DATABASES and its EXCLUDE
          S3Prefixes, \* values of S3_PREFIX
          Catalogs,   \* what listDatabases may answer: sequences of names
          Stamps      \* formatted times

ASSUME SelectionAssumption ==
  /\ Names \subseteq Seq(STRING) /\ S3Prefixes \subseteq Seq(STRING)
  /\ Lists \subseteq Seq(Seq(STRING)) /\ Catalogs \subseteq Seq(Seq(STRING))
  /\ Stamps \subseteq STRING \ {"latest"}

VARIABLES conf,       \* the configuration, set once
          phase,      \* "start", "valid", "selected" or "failed"
          catalog,    \* the databases the server listed
          selected,   \* the databases to back up; "" is <<>>, in full mode
          bucket      \* objects, each with what it is a backup of

vars == <<conf, phase, catalog, selected, bucket>>

Config == [mode : {"full", "per-database"}, database : Names \cup {<<>>},
           databases : Lists \cup {<<>>}, all : BOOLEAN, exclude : Lists \cup {<<>>},
           connects : BOOLEAN,             \* requireConnection
           keep : {"", "days", "bad"},     \* BACKUP_KEEP_DAYS: unset, 1..36500, refused
           prefix : S3Prefixes, filename : {"timestamp", "fixed"}, encrypted : BOOLEAN]

-----------------------------------------------------------------------------
(* Names.                                                                  *)

Kept(s, c) == {i \in DOMAIN s : s[i] # c} \cup {0}
TrimRight(s, c) == SubSeq(s, 1, Max(Kept(s, c)))
TrimSpace(s) == IF Kept(s, " ") = {0} THEN <<>>
                ELSE SubSeq(s, Min(Kept(s, " ") \ {0}), Max(Kept(s, " ")))

ParseDatabaseList(value) == [i \in DOMAIN value |-> TrimSpace(value[i])]

Internal == {<<"admin">>, <<"local">>, <<"config">>}
SystemDatabase(name) == name \in Internal

\* Control characters, invalid UTF-8 and the length of a name are left out.
Forbidden == {"/", "\\", ".", "\"", "$", "*", "<", ">", ":", "|", "?", " "}

ValidateDatabases(names) ==
  /\ names # <<>>
  /\ \A name \in Range(names) :
       /\ name # <<>> /\ Range(name) \cap Forbidden = {}
       /\ ~SystemDatabase(name)

\* Hexadecimal digits of the bytes that a legal name may hold unencoded here.
Hex == [b \in {"%", "("} |-> IF b = "%" THEN <<"2", "5">> ELSE <<"2", "8">>]

EncodeByte(b) == IF b \in DOMAIN Hex THEN <<"%">> \o Hex[b] ELSE <<b>>
EncodeByteButPercent(b) == IF b = "%" THEN <<b>> ELSE EncodeByte(b)
EncodeButPercent(value) == FlattenSeq([i \in DOMAIN value |-> EncodeByteButPercent(value[i])])
EncodeComponent(value) ==
  LET last[n \in 0..Len(value)] ==  \* the last n symbols, encoded
        IF n = 0 THEN <<>> ELSE EncodeByte(value[Len(value) + 1 - n]) \o last[n - 1]
  IN last[Len(value)]

-----------------------------------------------------------------------------
(* Keys.                                                                   *)

FileType(c) == IF c.encrypted THEN <<".zip", ".gpg">> ELSE <<".zip">>

Directory(prefix) ==
  LET p == TrimRight(prefix, "/") IN IF p # <<>> THEN Append(p, "/") ELSE p

\* The replica sets that share a bucket have prefixes of which none is the
\* directory of another's databases: there, a database "full" would have the
\* keys of the full mode.
ASSUME PrefixesApart ==
  \A p, q \in S3Prefixes : Directory(p) # Directory(q) \o <<"per-database", "/">>

TimestampPrefix(c, db) ==
  Directory(c.prefix)
  \o (IF c.mode = "full" THEN <<"full", "/">>
      ELSE <<"per-database", "/">> \o EncodeComponent(db) \o <<"/">>)

FixedKey(c, db) == TimestampPrefix(c, db) \o <<"latest">> \o FileType(c)

BackupKey(c, db, now) ==
  IF c.filename = "fixed" THEN FixedKey(c, db)
  ELSE TimestampPrefix(c, db) \o <<now>> \o FileType(c)

AnythingUnder(c, db, key) == IsPrefix(TimestampPrefix(c, db), key)
IsTimestampBackup(c, db, key) ==
  \E t \in Stamps, type \in {<<".zip">>, <<".zip", ".gpg">>} :
    key = TimestampPrefix(c, db) \o <<t>> \o type

\* validateRestore and the key that withBundle downloads, for <<>> in fixed mode
\* and <<timestamp>> otherwise (module Restore has the newest one); {} is a refusal.
RestoreAccepts(c) ==
  /\ c.databases = <<>> /\ c.exclude = <<>> /\ ~c.all
  /\ IF c.mode = "full" THEN c.database = <<>> ELSE ValidateDatabases(<<c.database>>)
RestoreKeyUnchecked(c, args) ==
  IF c.filename = "fixed" THEN {FixedKey(c, c.database)}
  ELSE {TimestampPrefix(c, c.database) \o <<t>> \o <<".zip">> : t \in Range(args)}
RestoreKey(c, args) ==
  IF ~RestoreAccepts(c) THEN {}
  ELSE IF c.filename = "fixed" THEN IF args = <<>> THEN {FixedKey(c, c.database)} ELSE {}
  ELSE {TimestampPrefix(c, c.database) \o <<t>> \o FileType(c) : t \in Range(args) \cap Stamps}

-----------------------------------------------------------------------------
(* The steps of App.Backup.                                                *)

\* What other runs have left in the bucket: every mode, prefix and legal name.
Backups ==
  {[c |-> c, db |-> db, key |-> BackupKey(c, db, t)] :
     c \in [mode : {"full", "per-database"}, prefix : S3Prefixes,
            filename : {"timestamp", "fixed"}, encrypted : BOOLEAN],
     db \in {n \in Names : ValidateDatabases(<<n>>)} \cup {<<>>}, t \in Stamps}

Init == /\ conf \in Config /\ phase = "start" /\ catalog = <<>> /\ selected = <<>>
        /\ bucket = {o \in Backups : o.c.mode = "full" <=> o.db = <<>>}

\* validateBackup
SelectorsAgree ==
  IF conf.mode = "full"
  THEN conf.database = <<>> /\ conf.databases = <<>> /\ conf.exclude = <<>> /\ ~conf.all
  ELSE /\ conf.all => conf.database = <<>> /\ conf.databases = <<>>
       /\ ~conf.all => (conf.database # <<>> \/ conf.databases # <<>>) /\ conf.exclude = <<>>
       /\ IF conf.databases # <<>> THEN ValidateDatabases(ParseDatabaseList(conf.databases))
          ELSE conf.database # <<>> => ValidateDatabases(<<conf.database>>)
       /\ conf.exclude # <<>> => ValidateDatabases(ParseDatabaseList(conf.exclude))

Valid == conf.connects /\ SelectorsAgree /\ conf.keep # "bad"

ValidateBackup ==
  /\ phase = "start"
  /\ phase' = IF Valid THEN "valid" ELSE "failed"
  /\ UNCHANGED <<conf, catalog, selected, bucket>>

Without(names, dropped) ==
  LET kept[n \in 0..Len(names)] ==
        IF n = 0 THEN <<>>
        ELSE IF names[n] \in dropped THEN kept[n - 1]
        ELSE Append(kept[n - 1], names[n])
  IN kept[Len(names)]

\* Each name once, in order, without the excluded ones.
Distinct(names, excluded) ==
  LET kept[n \in 0..Len(names)] ==
        IF n = 0 THEN <<>>
        ELSE IF names[n] \in excluded \cup Range(kept[n - 1]) THEN kept[n - 1]
        ELSE Append(kept[n - 1], names[n])
  IN kept[Len(names)]

Candidates(all) ==
  IF conf.all THEN Without(all, Internal)
  ELSE IF conf.databases # <<>> THEN ParseDatabaseList(conf.databases)
  ELSE <<conf.database>>

\* databases
Select(all) ==
  LET names == Candidates(all)
      chosen == IF conf.mode = "full" THEN <<<<>>>>
                ELSE IF ~ValidateDatabases(names) \/ ~(Range(names) \subseteq Range(all))
                THEN <<>>
                ELSE Distinct(names, Range(ParseDatabaseList(conf.exclude)))
  IN /\ phase = "valid"
     /\ phase' = IF chosen = <<>> THEN "failed" ELSE "selected"
     /\ selected' = chosen /\ catalog' = all /\ UNCHANGED <<conf, bucket>>

\* removeOldBackups, when every backup is older than the cutoff.
RemoveOldBackups(db) ==
  /\ phase = "selected" /\ conf.keep = "days"
  /\ bucket' = {o \in bucket : ~IsTimestampBackup(conf, db, o.key)}
  /\ UNCHANGED <<conf, phase, catalog, selected>>

Done == phase \in {"selected", "failed"} /\ UNCHANGED vars

Next == \/ ValidateBackup \/ Done
        \/ \E all \in Catalogs : Select(all)
        \/ \E db \in Range(selected) : RemoveOldBackups(db)

Spec == Init /\ [][Next]_vars

-----------------------------------------------------------------------------
(* Properties.                                                             *)

(***************************************************************************)
(* What is backed up is what the settings mean (README.md:157-169): with   *)
(* MONGODB_BACKUP_ALL every database but the internal and the excluded     *)
(* ones, otherwise the list, which has precedence, or the one database;    *)
(* nothing twice, nothing dropped on the way, and only what exists.        *)
(***************************************************************************)
Meant ==
  IF conf.all THEN {n \in Range(catalog) : ~SystemDatabase(n)}
                   \ {TrimSpace(v) : v \in Range(conf.exclude)}
  ELSE IF conf.databases # <<>> THEN {TrimSpace(v) : v \in Range(conf.databases)}
  ELSE {conf.database}

SelectsWhatIsMeant ==
  phase = "selected" =>
    /\ Range(selected) = Meant
    /\ conf.mode = "per-database" => Range(selected) \subseteq Range(catalog)
    /\ Cardinality(Range(selected)) = Len(selected)

(***************************************************************************)
(* Retention deletes timestamped backups of the selected databases in the  *)
(* mode and under the prefix of the configuration, whatever characters the *)
(* names of databases hold (README.md:239-241, 248).                       *)
(***************************************************************************)
RetentionIsScoped ==
  [][\A o \in bucket \ bucket' :
       /\ o.c.mode = conf.mode /\ o.db \in Range(selected) /\ o.c.filename = "timestamp"
       /\ TrimRight(o.c.prefix, "/") = TrimRight(conf.prefix, "/")]_vars

(***************************************************************************)
(* Every database a backup selects can be restored: with the same          *)
(* settings and that database alone (README.md:289) restore accepts the    *)
(* timestamp and looks for the very key the backup was stored under.       *)
(***************************************************************************)
EveryBackupCanBeNamed ==
  phase = "selected" =>
    \A db \in Range(selected), t \in Stamps :
      LET c == [conf EXCEPT !.database = db, !.databases = <<>>, !.exclude = <<>>, !.all = FALSE]
          args == IF conf.filename = "fixed" THEN <<>> ELSE <<t>>
      IN RestoreKey(c, args) = {BackupKey(conf, db, t)}
=============================================================================
