# TLA+ verification of mongodb-backup-s3

mongodb-backup-s3 streams `mongodump` output, with metadata and a copy of the
server's configuration directory, as a ZIP bundle through an optional `gpg`
process into one S3 object per database; it removes expired backups, restores
them, and runs once or on a schedule. This directory holds TLA+ modules
translated from the Go code (paths below are relative to `src/`), TLC
configurations that check them on small instances, and TLAPS proofs.

## 1. The system

### Components

| Component | Code | State | Operations | What makes it correct |
|---|---|---|---|---|
| Backup of one database | `internal/backup/app.go` 245-306, `bundle.go` 46-128, `process.go` 14-83, `internal/storage/upload.go` | goroutines (caller, encoder, producer, gpg's stdout copier, part workers), an OS pipe, an `io.Pipe`, three contexts, the parts and the publishing request | produce, encrypt, upload, tear down | the object is whole or absent; success means present; a fault anywhere ends the call; nothing survives its return |
| Configuration capture | `internal/backup/capture.go` | inventory of metadata, captured hashes, count of entries met | two walks, open/read/compare | a successful capture is the directory at one moment; an untouched directory is captured |
| Backup run | `app.go` 31-162, 308-342, `process.go` 47, 172-184 | flock, list of failures, cutoff, listing of old backups | lock, versioning check, selection, loop, retention | one run at a time; no database loses its last backup; only expired backups vanish; success means every database |
| Scheduler and signals | `app.go` 31-92, `cmd/mongodb-backup-s3/main.go` | cron entries, signal context | start jobs, shut down, exit code | jobs never overlap; shutdown waits; the exit code tells what happened |
| Bundle format | `bundle.go` 60-238 | manifest, ZIP members | write, validate | what is written validates; what is truncated does not |
| Restore | `restore.go` 14-118, 136-193 | key, local file, mongorestore passes | choose, download, verify, restore | only a verified bundle reaches the server; the newest backup is chosen |
| extract-config | `restore.go` 120-135, `bundle.go` 240-285 | staging directory | stage, rename | destination appears whole or not at all, and is never overwritten |
| S3 client | `storage/s3.go`, `storage/upload.go` | continuation token, temporary file | List, Download, Delete, VersioningEnabled, Upload | a listing is complete or an error; a download is whole or absent |
| Idle timeout | `storage/http.go` | connection deadline | Read, Write | every request ends; a progressing one is not cut |
| Configuration | `config.go`, `app.go` 172-226 | none (pure) | load, validate, select, keys | no dropped or duplicate database; keys of databases never mix |
| MongoDB metadata | `mongo.go` | none (driver I/O) | Inspect, Databases | backup is abandoned when the topology changes under it |
| Redaction | `secrets.go` | partial line | Write, Flush | no secret reaches a log |

### Interactions

- `cmd` → `App`: a call with a context that SIGINT or SIGTERM cancels.
- `App` → `commandRunner`: child processes in process groups of their own; each
  inherits the descriptor of the lock, so the lock lives as long as the last of
  them.
- producer → gpg → `io.Pipe` → transfer manager → S3: a byte stream whose only
  in-band end marker is EOF. Failure travels beside it: `CloseWithError`,
  contexts and `context.AfterFunc`.
- `App` → S3: uploads, listings and deletions by key. Requests are not atomic
  with their answers.
- administrator → configuration directory: edits at any time.

### Hard behaviours

gpg takes a failed dump for the end of its input and exits with status 0; a read
from an idle `mongodump` can block for ever; a publishing request can take effect
after the client gave up on it; a killed parent leaves children that hold the
lock; a cutoff may be hours old when it is used, and is compared with the clock of
another machine; two writes in one clock tick look like none. `PROJECT.json`
lists these and the rest, each at its line, with the properties that cover it.

## 2. Modules

| Module | Models | Depends on |
|---|---|---|
| `AtomicPublish` | abstract: the object of one backup appears whole or not at all; `ok` only after it is there | - |
| `BackupDatabase` | one call of `backupDatabase` with everything that runs concurrently in it | instantiates `AtomicPublish` |
| `BackupDatabaseProofs` | theorems about it | `BackupDatabase`, `TLAPS` |
| `ConfigCapture` | `captureConfig` against an editor | - |
| `ConfigCaptureProofs` | theorems about it | `ConfigCapture`, `TLAPS` |
| `BackupRun` | several `App.Backup` calls over one lock and one bucket | uses what `BackupDatabase` promises as its upload |
| `BackupRunProofs` | theorems about it | `BackupRun`, `TLAPS` |
| `Bundle` | the members `writeBundle` writes between two `Inspect`s, and `validateBundle` on what was stored | what `BackupDatabase` moves as chunks, `ConfigCapture` reads |
| `BundleProofs` | theorems about it and `ExtractConfig` | `Bundle`, `ExtractConfig`, `TLAPS` |
| `Listing` | `S3.List` and `timestampBackups` over a bucket that changes | what `BackupRun.ListOld` and `Restore.Choose` take as one step |
| `ListingOverConnection` | each page a request whose answer comes, piecemeal or not at all, over a connection with the idle timeout | composes `Listing` and `IdleConnection` |
| `ListingOverConnectionProofs` | theorems about all three | `ListingOverConnection`, `TLAPS` |
| `Restore` | several `restore` and `restore-auth` calls over one lock and one server | uses what `Bundle` shows of validation |
| `RestoreProofs` | theorems about it | `Restore`, `TLAPS` |
| `AtomicDirectory` | abstract: the output of extract-config appears whole or not at all and takes nobody's place | - |
| `ExtractConfig` | `extractConfiguration`, several at once, beside other programs | instantiates `AtomicDirectory` |
| `Lifetime` | `main`, its signal goroutine, `App.Run` and the scheduler's jobs | a job is a call that `BackupRun` models |
| `LifetimeProofs` | theorems about it | `Lifetime`, `TLAPS` |
| `IdleConnection` | `idleConn`: both deadlines of a connection | justifies the fairness of `BackupDatabase` |
| `Selection` | configuration to databases to keys: validation, selection, encoding, prefixes | gives `BackupRun` its `Selected` and keys |
| `Redaction` | `secretWriter` | - |
| `TextProofs` | theorems about `Redaction` and `Selection` | both, `TLAPS` |
| `MC*` | instances for TLC; `MCBackupDatabase` and `MCRetention` draw one of several settings at the start of a behaviour | |

### BackupDatabase

State is grouped by the thread of control that owns it.

| Variable | Code |
|---|---|
| `canceled` | which of the contexts are done: `outer` (app.go 249), `upload` (upload.go 17), `encrypt` (app.go 277) |
| `producer` | `writeBundle` and the `mongodump` it runs; `waiting` between writes, `writing` in one |
| `osPipe`, `gpg` | `os.Pipe`, the gpg process, os/exec's stdout copier (`WaitDelay` is 0, so `Run` joins it) |
| `encoder` | the goroutine of app.go 256-263 and `produceEncrypted` |
| `stream` | the `io.Pipe` between encoder and upload |
| `upload`, `s3` | `Store.Upload`, the transfer manager's parts, and the bucket |
| `main` | `backupDatabase`: uploading, joining `<-done`, returned |
| `faulted`, `alive` | history of faults; the process was killed |

A bundle is `Chunks` writes, the last of which is the ZIP footer; a chunk is its
position, so "truncated" is a set of positions smaller than `Bundle`. The two
modes, with and without gpg, are the constant `Encrypted`, of which the run checks both values: they use different
contexts and different pipes. The transfer manager, gpg and the bucket are
external and are modelled from how the code uses them: a body that fits one part
is a `PutObject`, others are a `CompleteMultipartUpload`; the manager notices a
failed part only between reads, which is why `streamUploadClient` cancels.

### ConfigCapture

The editor writes one block of a file, creates, replaces or removes a file, or
swaps the directory, between any two system calls of the capture. An inode keeps
a modification time in clock ticks and its blocks; numbers are reused once free.
Each `Lstat`, `Open`, block read and final comparison is a step of its own. The inventory and the count of the
second walk include the directory itself (`Met`, `AllSeen`). All
edits keep the file's length, the case that sizes cannot tell. The tick rule
is the one assumption about the editor: within one tick it binds a name once
and writes a block once. Without it a file could be changed and changed back
between two observations with the same time stamp, which no reader can see.

A successful capture is the directory *at the `ReadDir` of the second walk*
(`boundary`): every entry of the inventory is compared against metadata taken
before and bytes read before that moment and after it. Any moment earlier or
later can be wrong: a file can be added after it, and it does not matter.

### BackupRun

`run[r]` holds the program counter and the local variables of one call. `lock`
is the owner of the open file description of the flock; `children` the runs
with a live `mongodump` or `gpg`, which keep the description open after the
parent has died (`LastReference`). Uploading is two steps here, `SendPublish`
and `Land`: the request may be carried out before, after or instead of the
client's own conclusion, which is precisely what `BackupDatabase` shows of a
backup (`ReturnLeavesNothingRunning` says when the child has gone,
`SuccessIsPublished` and `PublishesAtomically` what the outcome means). `Land`
stamps the object with S3's clock (`Skew`), at the time the multipart upload
began or ended. `Init` ranges over every bucket in which each database
already has a backup, of either filename mode.

### Bundle

A bundle is a set of members, each a name with its data; size and hash are as
good as the data they are taken of. `server` is what `hello`, `replSetGetConfig`
and the version commands would answer, and changes, databases included,
between any two steps; the two `Inspect`s are steps at either end. The wall clock
moves either way. Once published, members are lost, replaced or added
(`MaxDamage`), and `Validates` is asked about every database the bundle could be
taken for. `ConfigHeldThroughout` excludes configurations that changed and
changed back between the `Inspect`s: replica set configurations carry a version that
only grows, which the model keeps.

### Listing

The paginator's token, the tokens seen and the objects so far. Each page is
answered from the bucket of that moment; the server may hand out the token that
continues, an empty one, or one it gave before, and objects without a date.
`always` records which keys existed all through the listing: these a listing
that succeeds must contain. `BackupRun` and `Restore` list in one step; `Complete`
is what makes that a fair abstraction for objects that nobody else touches.

`ListingOverConnection` runs it over one `IdleConnection`: an `Answer` is the read that
completes a page, a `Partial` one that does not; a call that returns nothing fails the
listing, and so does an expired deadline. Nothing makes the server answer.

### Restore

`run[r]` is one call: program counter, key, the two halves of the file, the state
of its `mongorestore`. `lock` is the owner of the open file description, which a
`mongorestore` that lost its parent keeps open (`Holders`). A key holds a
generation; another host puts and deletes objects between any two steps, so two ranges
of one download may come from two generations. `Dumped` gives the collections each
generation holds, as collections come and go between backups. `target` is the server: the users and
roles, and each collection, is of one generation, partial, or as it was at first. `Parts` is what a restore
covers of its archive (`Scope`, the `--nsInclude` of the mode): `StartTool` makes that partial, `ToolSucceeds`
fills it. Everything else stays, under `Drop` too, which "drops existing collections included in the dump" only
(`README.md:292`, 293): after a success the server may hold collections of the original data, of another generation
or of a failed restore, and `RestoredWhole` says nothing of them. Under `Drop`, users and roles go in a pass
of their own (`UsersFirst`). `excused` is history: something else than the code explains a failure.
`Prefix` gives each call the keys where its mode is backed up. The run has a full restore and one of
a database, which write to the same collections; restore-auth is a full restore with the `Scope` of the admin database
and the `Prefix` of a database, and the theorems hold for it.
A collection that only the oplog of a full archive creates is left out.

### ExtractConfig and AtomicDirectory

The destination holds nothing, an empty directory, something foreign, or the
members that an extraction put there. `os.Rename` is `LstatDest` and then `Rename`, two system calls
between which others act. `AtomicDirectory` knows only who owns the destination
and what each extraction reported; the mapping hides staging directories and members.

### Lifetime

`signal`, `watcher` and `code` are the signal goroutine (record the code, then
cancel); `context` is the signal context; `main` carries the program counter, the error and
the exit code; `cron` and `job` the scheduler. `WatcherStep` gives the order of the goroutine's
statements, which `CancelIsNotFailure` depends on.

### IdleConnection

Per direction: the ticks left until the deadline and the call, `idle` being the
silence so far. Every call refreshes both deadlines when it starts and when it has moved bytes. Activity is
a completed call: a single `Write` of which the kernel takes a few bytes at a time
for longer than the timeout counts as silence, in the code as in the model.

### Selection

The state machine only sets the scene (a configuration, a catalog, backups of
others); what is checked are operators, against reference definitions that do
not share their code: which databases were meant, which keys are one's own. Names are
sequences of symbols, so that encoding and separators can collide where they can in the code.
`Without`, `Distinct` and `EncodeComponent` are the loops of `databases` and `encodeComponent`, as
recursive functions. `PrefixesApart` says of the prefixes in one bucket what section 3 observes: none is the
directory of another's databases.
An observation that no run records as a violation, because nothing in the
repository says otherwise: with `BACKUP_ALL`, one database on the server whose name
is legal there but refused by `databaseName` fails the whole run, and cannot be excluded.

### Redaction

Tools write texts in chunks, one at a time under the mutex; `TakePart` is one turn of the loop of
`Write`, up to and with a newline. The buffer, what has been logged and the text taken so far are sequences.
`NoSecretLogged` looks for secrets in the log. `LogFollowsText`
compares it with what a reader sees who has no buffer and no chunks, and takes the text symbol by symbol (`Read`).
The secrets hold no newline: one in the passphrase or the URI is refused (`config.go:77, 131`). A
percent-encoded one in the URI's password is left out, and so are secrets that hold the text of a note.
The pattern that replaces connection URIs after the secrets (`secrets.go:38`) is left out: it only takes text
away within a line.

## 3. Runs

| Run | Question | Properties |
|---|---|---|
| `pipeline` | With gpg or without: does any order of failures, cancellations and a crash publish a truncated bundle, report a success that is not there, or hang? | `NoPartialPublish`, `SuccessIsPublished`, `NoSpuriousFailure`, `ReturnLeavesNothingRunning`, `FaultLeadsToReturn`, `PublishesAtomically` (refinement of `AtomicPublish`) |
| `config_capture` | Is a capture that succeeds a snapshot, and does one of an untouched directory succeed? | `TypeOK`, `CaptureIsSnapshot`, `QuietCaptureSucceeds` |
| `retention` | With timestamped names and retention, the same after a crash that left a request on its way, fixed names and leftovers, or no retention: can overlapping, failing or killed runs, late requests and an S3 clock that is behind take the last or a recent backup, overwrite one unannounced, share the lock, or call an incomplete run a success? | `NeverWithoutBackup`, `OneBackupAtATime`, `SuccessIsComplete`, `FixedOverwritesAreRecoverable`, `OnlyExpiredVanish` |
| `bundle` | Full or of one database that comes and goes: does a completed bundle hold the configuration in force all along, pass its own validation, and fail it once damaged or asked for as another? | `TypeOK`, `ConfigHeldThroughout`, `BackupValidates`, `OnlyIntactValidates`, `EmptyOnlyIfDropped` |
| `restore` | A full restore with `--drop` in two passes and one of a database, with crashes, orphans, a silent server, a bucket that changes and generations that hold different collections: does anything unverified or mixed reach the server, a false success get out, the choice of the newest key fail by itself, or a cancellation hang? | `OnlyVerifiedReachesServer`, `OneToolAtATime`, `UsersBeforeRest`, `NoSpuriousFailure`, `RestoredWhole`, `CancelLeadsToReturn` |
| `listing` | Does a listing with bad tokens, missing dates, edits and answers that stall end, and is it complete? Is only silence cut off, and always? | `Complete`, `OnlySilenceIsCut`, `SilenceIsCut`, `EndsUnlessFed` |
| `extract_config` | Do two extractions beside other programs ever expose a part, replace somebody else's, or break the abstract promise? | `NothingStaged`, `PlacesAtomically` (refinement of `AtomicDirectory`) |
| `lifetime` | Does a signal end the process, what does it leave, and what does the exit code say? | `CancelIsNotFailure`, `NoJobAfterExit`, `SignalLeadsToExit` |
| `selection` | Is what is selected what was meant, does retention stay inside it, does restore find it again? | `SelectsWhatIsMeant`, `EveryBackupCanBeNamed`, `RetentionIsScoped` |
| `redaction` | Every text in every division into chunks: does a secret get through, is a line lost or changed, is the buffer bounded? | `NoSecretLogged`, `LogFollowsText`, `BoundedBuffer` |
| `same_second` | Is the key of each run new? (violated) | `NewKeyEachTime` |
| `clock_set_back` | Can what was published as complete be restored? (violated) | `PublishedIsRestorable` |

The type invariants of `BackupDatabase`, `BackupRun`, `Restore`, `Lifetime` and
`IdleConnection`, and `NeverPartial` of `ExtractConfig`, are not in the runs: they are proved
for every instance.

### Findings

**`same_second`.** `template.env:39` says "timestamp uses one new key each time." A key is the
UTC time with the resolution of a second (`app.go:246-247`, `config.go:266-271`).
`same_second` shows two runs that reach a database within one second, which a
crash and restart, or a quick failure and a retry by hand, allow: both
upload under one key and the second replaces the first. Versioning is only
checked in fixed mode, so the first may be gone for good. `NeverWithoutBackup` holds
with such collisions. What they do cost is the exception in `OnlyExpiredVanish`: two
runs of one second share a key, the first one's object expires and is listed for
deletion, the second one's request lands late on that key, and its object, which S3
dates as fresh, is deleted with the key. It still was begun before the retention period.

**`clock_set_back`.** README.md:220 of the repository promises that an incomplete
backup is not published as a completed object, and `app_test.go:227` restores
what was backed up. `StartedAt` (`app.go:246`) and `CompletedAt` (`bundle.go:109`) are
wall clock times; if the clock is set back in between, the bundle is published
and reported complete, and `validateBundle` (`bundle.go:174`) refuses it ever after. `BackupValidates`,
which holds, is the same statement for a clock that was not set back.

An observation without a run: README.md:240-241 says that retention is scoped to a mode
and that replica sets need different prefixes. With `S3_PREFIX=b` in per-database mode and
`S3_PREFIX=b/per-database` in full mode, the directory of the first one's
database `full` is that of the second one's full backups (`config.go:258-261`), and
retention of either deletes backups of the other. `selection` shows that prefixes which
do not lie in one another's directories are safe; adding this pair to `MCS3Prefixes`
violates `RetentionIsScoped`.

### Bounds

| Bound | Value | Why it is enough |
|---|---|---|
| `Chunks`, `PipeCapacity`, `Concurrency` | 3 (4 without gpg), 1, 2 | three writes are a first, a middle and a footer; with one chunk per pipe every pipe can be full, empty and in between; two parts in flight is the code's own setting and lets one fail while the other is stored. Safety is also proved for all values |
| `Names`, `Blocks`, `Inodes` | 2, 2, 3 | two names give a directory that grows, shrinks and swaps entries; two blocks give a read torn by a write; a spare inode allows replacement by rename and reuse of a number |
| `MaxTick`, `MaxEdits` | 1, 2 | one tick separates what time stamps can tell from what they cannot; two edits are one hidden by another, the shortest way to deceive a double read |
| `Runs`, `Selected` | 3, 2 (2, 1 in `same_second`) | a run, one that overlaps it, follows it or waits for its orphans, and one that was killed in the first second, with its publishing request on the way in one of the settings: the deletion of a late object needs its sender, the sender of the key's first object, and the one that deletes; one database that fails and one that does not |
| `Keep`, `Skew`, `RequestLife`, `MaxClock` | 1 or 0, -1 or 0, 1 or 0, 1 to 3 | objects can be older and younger than the cutoff; S3 is behind by a whole retention period, the most the safety argument allows; a request outlives the call that sent it by a tick |
| `MaxChanges`, `MaxDamage`, `ManifestLimit` | 1, 2, 4 | configuration versions only grow, so one change, at any step, is before, between or after the two readings; server version and FCV change without a bound; two damaged members can stand for each other; the manifest is full exactly when both files are captured in per-database mode |
| `Runs`, `Keys`, `MaxGen` of `Restore` | 2, 3, 3 | a run and its rival, each with a key of its prefix; a key of the other file type; a generation that is overwritten, one that is damaged, one good |
| `Collections`, `Dumped` of `Restore` | 2; all but one in the last generation | a collection that a later archive lacks, beside one that it holds |
| `Keys`, `PageSize`, `MaxEdits` of `Listing` | 4, 1, 2 | four pages, so that a token can repeat after another and an edit can hit a page before, at and behind the token |
| `Extractors`, `Members`, `MaxOthers` | 2, 2, 3 | two rivals, a directory that can be half full, others that put, remove and put again |
| `Jobs` | 3 | one runs, one finds the lock taken, one starts while the scheduler stops |
| `Timeout` | 2 ticks | the two safety properties are proved for every timeout; two ticks give a deadline that has begun to run down and one refreshed halfway |
| `Names`, `Lists`, `S3Prefixes`, `Catalogs` | see `MCSelection` | names that encoding could confuse, one that must be trimmed, one that must be refused, one that reads like a directory of the layout |
| `Limit`, `MaxChunk`, `MaxText` | 4, 3, 7 | two overlapping secrets of two symbols; an oversized line with a secret across the limit, and a line after it |

Symmetry is used in runs that check invariants and action properties only, over
model values that no definition distinguishes; the runs with liveness properties use none.

### Fairness

`BackupDatabase`: weak fairness of the encoder, producer,
copier, `AfterFunc` and upload steps is the Go scheduler running what can run.
gpg reading its input while it runs, and dying of SIGKILL, is the operating
system's. `PartEnds` and `PublishEnds` are fair because the idle timeout of
`storage/http.go` ends any request that makes no progress; that it does is
`IdleConnection`'s `SilenceIsCut`, and `EndsUnlessFed` shows what it comes to. Deliberately not fair:
`ProduceChunk` (mongodump may wait on its server for ever), `FlushPart` while
the body is still being read, and every fault. Hence `FaultLeadsToReturn` and not
"every backup returns": with a silent server and nothing wrong, the code waits.

`Restore`: a run's own steps, requests included, and `KillTool`, the SIGKILL of a process
group. Not fair is `mongorestore` itself, so the claim is again about the canceled call only.

`ListingOverConnection`: time passes, a deadline is noticed, net/http reads the
connection, and `List` acts on an error or a last page. The server is not fair: it may
fall silent, and it may feed single bytes for ever, which no idle timeout can tell from
progress and which `EndsUnlessFed` excepts. `Lifetime`: the signal
goroutine, `main`, a started job, and the end of a job *once canceled*, which is
what the two modules above show. A job nobody cancels may run for ever; a signal still ends the process.

## 4. Proofs

All theorems hold for every value of the constants under the modules' named
assumptions; TLC evaluates those assumptions on each run.

**`BackupDatabaseProofs`** (assumes `Chunks`, `PipeCapacity`, `Concurrency` positive
naturals and `Encrypted` a Boolean). `TypeCorrect`, `NeverPartial`,
`SuccessMeansPublished`, `NothingLeftRunning` and `ImplementsAtomicPublish`.
None of these is inductive: that the object is whole depends on where every
chunk is. The invariant follows the count of chunks from producer to bucket
(`ChunksInTransit`: written = taken by gpg + buffered, taken plus gpg's trailer
= received + gpg's output; `PartsHold`: as long as no part has failed, what was
received is in the buffer, in flight or stored), and says that the stream's
writer is at `eof` only when the producer has ended, gpg's output has been
drained and everything was received (`EofIsComplete`). `JoinErrors` is what makes
this true: without the producer's error, gpg's good exit status would suffice. Refinement is proved step by step:
`ServerPublishes` is `Publish`, `Return` is `Succeed` or `Fail`, others stutter.
`NoFaultNoError` is about the order in which a healthy backup is torn down (`TornDownInOrder`):
each context is canceled, and each end of a pipe closed, only after whoever would notice has
ended by itself, so that no step can set an error (`NoError`) before a fault has happened.

**`BackupRunProofs`** (assumes a retention period `Keep` in Nat and an S3 clock no further
behind than that, `Skew >= -Keep`; `Runs` and `Selected` are any sets without
`None`). `TypeCorrect`, `MutualExclusion`, `RetentionIsSafe`, `SuccessMeansComplete`.
`RetentionIsSafe` is the interesting one. A run deletes for a database only after
its own upload for it succeeded, and while it does, the lock keeps every other
run from deleting (`OneHolder`). What it uploaded is under the key of its own
second, or is `latest.zip`, which retention never lists; its time is not before
that second plus `Skew`, and the cutoff was taken no later than that second
(`Chronology`), so it has not expired. A late request of another run can
replace the object under the same key, but only with one begun in the same second,
so the key still holds a recent object (`OwnBackupStands`) and is never in the
list of what the run deletes (`OthersDeleted`). Outside retention, objects are
only added or replaced, and `NeverWithoutBackup` carries itself. Success needs an
account of every database: to do, in progress, failed or published (`Accounted`). `SkewAssumption` is necessary: when S3's
clock is further behind than the retention period, a run can delete the backup
it just made.

`OverwritesAreRecoverable` needs `NothingSent` besides: as long as versioning is off and no
warning was given, no run is past its check, hence none has sent a request; and what was
replaced was replaced under the versioning of that time.

`OnlyOldVanish` follows a key from the listing to its deletion. An object's time is not before
its key plus `Skew`, and a request's not before that of its sender (`Stamped`); a key in a run's
list was begun before the cutoff, and what it holds is either what was listed, hence
expired, or was replaced by a backup begun in the same second (`Listed`). The first attempt was at a statement without that exception, which
the run, then with two calls, had found true; the case of `Land` could not be proved, and with three calls TLC
violates it. `retention` now has the third call, and reaches the exception.

**`RestoreProofs`** (assumes keys are naturals, every run has one of the three modes, and "users" is no collection).
`TypeCorrect`, `OnlyVerifiedIsRestored`, `MutualExclusion`, `UsersComeFirst`, and
`SuccessIsWhole` for `Drop`. The invariant has two parts. `Local` follows each run by itself
(`Ordered`: which locals are set at which step; a tool was started only for a file
that was verified) and gives the lock to whoever works. `Content` relates the server to the holder of the
lock: what its last tool, or its first pass, wrote is still of its own generation, because only a tool
writes to the target and an orphan keeps the lock of its parent. `SuccessIsWhole` claims the users and
the collections of the archive, no others. Without `Drop`,
mongorestore merges, and whole is not a claim the code makes. `FailsForAReason` needs neither the lock nor the
server: `Justified` says of each run that its key is one that restore would choose and, as long as nothing excuses it,
that the ranges it downloaded are of one object (`Excusable`), so that no check of its own can refuse them.

**`ConfigCaptureProofs`** (assumes finitely many names, which are naturals as the walk is in their order, at least one block in a file,
and a `None` that is nothing else). `TypeCorrect`, `CapturesASnapshot`, `QuietDirectoryIsCaptured`. The argument is about
ticks: within one, a name is bound once and a block written once, so what was edited in the tick that the
inventory knows is sealed until its time stamp moves on, and a name that no longer is what the inventory says
never becomes that again (`Settled`). What the first walk has read of a file is
still in it, or sealed (`FirstWalk`). What the second walk compares is, block by block, what was there at the
`boundary`, unless the block was sealed after it, and then it differs from what the first walk read
as long as the file looks the same (`SecondWalk`). `Counted` adds that the second walk counts what it meets, so no name of the inventory is missing.
`QuietInv` is the same for a directory without an editor, where each check finds what was recorded.

**`BundleProofs`** (assumes finitely many configuration files, of names no fixed member has).
`TypeCorrect`, `ConfigHeld`, `BackupsValidate`, `OnlyIntact`, `EmptyMeansDropped`. The invariant says what
has been written by which step (`Control`, `Written`): the manifest lists exactly the members, and each refusal
of `validateBundle` is one that an earlier step of `writeBundle` has excluded. `Held`
puts the configurations in force since the first `Inspect` between what that read and what the server, or the
second one, says; a completed bundle has read the same twice. `Kept` says that a database which was listed is there
unless it was dropped. `Stored`: as long as the manifest can be read it lists the members that were
written, so a file that validates, whose members are among the listed and as many, holds just these.

For `ExtractConfig` (any set of extractions, any non-empty set of members), in the same module:
`ExtractionsTyped`, `LeavesNothingStaged`, `ExposesNothingPartial`, `ImplementsAtomicDirectory`. A staging directory
holds all members when it is renamed and is gone when the call returns
(`StagedSoFar`); only who has renamed has placed (`PlacedByRename`), and who reports
has returned (`ReportedLast`), so that `Rename` is `Place` and every other step stutters or reports.

**`LifetimeProofs`** (any set of jobs). `CancelExitsAsSignal`, `ExitsAfterJobs`: the code is stored before the
context is canceled (`WatcherOrder`), whatever ended by cancellation therefore finds it
(`CanceledForAReason`), and `main` returns only when no job is left, after a scheduler that starts no
more (`JobsBelongToCron`).

**`ListingOverConnectionProofs`** (any positive timeout and page size, finitely many keys, which are positive).
`CutsOnlySilence`, `CutsSilence`: a deadline is never nearer than the timeout less the silence so far
(`DeadlineNotEarly`), and that of a call that waits never further away (`DeadlineNotLate`); both directions are
refreshed together, which both facts need. `ListingUsesConnection`: every step of a listing is one of its connection's, or
leaves that alone, so both hold under a listing (`ListingCutByOnlySilence`). `ListingIsComplete`: whatever existed
throughout and is not behind the token is among the objects, an invariant of pages in place of an induction over
them; an empty token or one given before makes `List` fail rather than skip or repeat keys.

**`TextProofs`** is about what recursive functions over texts and lists compute. The library's
induction theorems take an operator, which no installed prover can instantiate, so the module begins
with a first-order induction on Nat (`Induction`, from well-foundedness) and the lemma that a function may
be defined by its value at the number before (`Recursion`); what a LET-bound function is at each
argument then follows by extensionality (`HideUnfolds`, `EmitUnfolds`, `ReadUnfolds`, `DistinctUnfolds`, ...).

For `Redaction` (secrets are non-empty and hold neither newlines nor the notes; any limit):
`WriterTyped`, `NeverLogsASecret`, `LogIsWhatWasRead`, `KeepsTheLimit`. What one replacement leaves is
cut from the line or a note: every stretch of it without a note stood in the line as it is, at a place where the
secret did not begin (`HideCopies`). Hence it holds no copy of that secret, and of any other only where there was
one before (`HideReplaces`), so after the last replacement there is none (`EmitHides`). The log is clean as a whole because
it is whole lines until the flush (`Clean`), and a secret, which holds no newline, lies in one of two lines
(`NothingAcrossLines`). `UpToDate` ties the writer to its reader: the buffer is the reader's unfinished line, or empty once
that is over the limit, and a part of a chunk is as many symbols read (`ReadPart`). The limit follows from it.

For `Selection` (settings are sequences of symbols, catalogs sequences of names, no time reads
"latest"): `SelectionTyped`, `BacksUpWhatIsMeant`, `RestoreFindsEveryBackup`, and, under `PrefixesApart`, the action
property in `RetentionDeletesItsOwn`. `Distinct` keeps each name that is not excluded exactly once
(`DistinctKeepsEachOnce`), and validation passed means that nothing else is dropped (`CandidatesKept`). A key tells what it is a
backup of: its end tells the file type and the time (`KeyTells`); no encoded symbol is the beginning of
another's, so the encoding is injective for names of any length (`EncodingIsInjective`); no legal name holds a slash, so the
last one separates directory and name (`SplitAtSlash`); and `PrefixesApart` excludes the one
confusion that is left (`PrefixTells`). Without that assumption the theorem is false.

**Only model-checked.** Liveness under fairness is out of the prover's reach:
`FaultLeadsToReturn`, `CancelLeadsToReturn`, `SignalLeadsToExit`, `EndsUnlessFed`. Every other
property of a passing run is a theorem.

## 5. What is not modelled

- Bytes: ZIP, JSON and OpenPGP encoding, checksums, MongoDB's wire protocol and what a
  dump contains. A chunk is a position; gpg is its shape as a process; a member is a name and its data.
- `loadConfig` and the parsing of the URI: a setting refused there ends the process
  before anything starts. Of names, their length, control characters and invalid UTF-8, and of the bytes
  that are encoded all but two; cron expressions.
- Driver, TLS and credential options; lagging secondaries (one server answers both
  `Inspect`s); server versions or FCV that change and change back between them, which the code cannot see.
- Restores by version ID, which are restores of an object that nobody overwrites.
- Retries of the SDK and the limit on the number of parts.
- A secret whose halves come from two tools that share one stderr.
- `commandRunner.pipeline`, which only tests call; the images, shell
  scripts, compose file and CI workflow.
- Subdirectories, symbolic links and special files in `ConfigCapture`.
- Several hosts that back up under one prefix: each host has its own lock file. (`Restore` and `Listing` do
  have another host change the bucket.)

## 6. Plan

Every component that has state is modelled, and what its runs check is proved but for liveness. What is left, most useful first:

1. Retries: a request that is sent again after its first answer was lost, in
   `BackupRun` and `ListingOverConnection`.
2. `loadConfig`: the ranges and combinations that are refused before a run starts.
