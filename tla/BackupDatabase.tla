--------------------------- MODULE BackupDatabase ---------------------------
(***************************************************************************)
(* One call of backupDatabase (internal/backup/app.go): the producer       *)
(* goroutine that writes the ZIP bundle, the gpg process and its stdout    *)
(* copier when a passphrase is set, the io.Pipe that joins them to the S3  *)
(* upload, the three cancelable contexts, and the object the bucket ends   *)
(* up with.                                                                *)
(*                                                                         *)
(* A bundle is a sequence of Chunks writes; the last one is the ZIP footer *)
(* that z.Close() writes.  gpg maps each write to one write and adds one   *)
(* trailer at EOF.  A chunk is known by its position in the stream, and an *)
(* object by the set of positions it holds.  Part boundaries are left open *)
(* (a part may be full after any number of chunks).                        *)
(***************************************************************************)
EXTENDS Naturals, FiniteSets

CONSTANTS Encrypted,     \* a.Config.Passphrase # ""
          Chunks,        \* writes of a complete bundle, ZIP footer included
          PipeCapacity,  \* chunks an OS pipe holds
          Concurrency    \* S3 parts in flight (upload.go sets 2)

ASSUME EncryptedAssumption == Encrypted \in BOOLEAN
ASSUME ChunksAssumption == Chunks \in Nat \ {0}
ASSUME PipeCapacityAssumption == PipeCapacity \in Nat \ {0}
ASSUME ConcurrencyAssumption == Concurrency \in Nat \ {0}

VARIABLES canceled,  \* contexts that are done
          producer,  \* writeBundle and the mongodump it runs
          osPipe,    \* os.Pipe between writeBundle and gpg
          gpg,       \* the gpg process and the goroutine copying its stdout
          encoder,   \* the goroutine running produceEncrypted
          stream,    \* the io.Pipe read by the upload
          upload,    \* Store.Upload and the transfer manager's workers
          s3,        \* the bucket: parts stored, request on its way, object
          main,      \* backupDatabase itself
          faulted,   \* history: a fault was injected
          alive      \* the process has not been killed

vars == <<canceled, producer, osPipe, gpg, encoder, stream, upload, s3, main,
          faulted, alive>>

Total == IF Encrypted THEN Chunks + 1 ELSE Chunks

\* The positions of a complete object.
Bundle == 1..Total

\* backupDatabase's context, and its children in Upload and produceEncrypted.
Contexts == {"outer", "upload", "encrypt"}

\* The context writeBundle and mongodump run under.
ProduceContext == IF Encrypted THEN "encrypt" ELSE "outer"

Init ==
  /\ canceled = {}
  /\ producer = [pc |-> "idle", written |-> 0, err |-> FALSE]
  /\ osPipe = [buffered |-> 0, open |-> TRUE]
  /\ gpg = [pc |-> "idle", taken |-> 0, out |-> 0, ok |-> FALSE,
            copier |-> "copying"]
  /\ encoder = [pc |-> "starting", err |-> FALSE]
  /\ stream = [reader |-> "open", writer |-> "open"]
  /\ upload = [pc |-> "starting", got |-> 0, buffer |-> {}, inflight |-> {},
               failed |-> FALSE, err |-> FALSE]
  /\ s3 = [stored |-> {}, request |-> {}, object |-> {}]
  /\ main = [pc |-> "uploading", result |-> "none"]
  /\ faulted = FALSE
  /\ alive = TRUE

-----------------------------------------------------------------------------
(* The encoder goroutine: produceEncrypted, then CloseWithError.           *)

StartPlain ==
  /\ alive /\ ~Encrypted /\ encoder.pc = "starting"
  /\ encoder' = [encoder EXCEPT !.pc = "joining"]
  /\ producer' = [producer EXCEPT !.pc = "waiting"]
  /\ UNCHANGED <<canceled, osPipe, gpg, stream, upload, s3, main, faulted, alive>>

StartEncrypted ==
  /\ alive /\ Encrypted /\ encoder.pc = "starting"
  /\ encoder' = [encoder EXCEPT !.pc = "encrypting"]
  /\ producer' = [producer EXCEPT !.pc = "waiting"]
  /\ gpg' = [gpg EXCEPT !.pc = "running"]
  /\ UNCHANGED <<canceled, osPipe, stream, upload, s3, main, faulted, alive>>

\* os.Pipe() fails: produceEncrypted returns before it starts anything.
OsPipeFails ==
  /\ alive /\ Encrypted /\ encoder.pc = "starting"
  /\ encoder' = [pc |-> "done", err |-> TRUE]
  /\ stream' = [stream EXCEPT !.writer = "error"]
  /\ faulted' = TRUE
  /\ UNCHANGED <<canceled, producer, osPipe, gpg, upload, s3, main, alive>>

\* cmd.Run of gpg returns: WaitDelay is 0, so it also waits for the copier.
RunReturnsAtExit == gpg.pc = "exited"
RunReturns == gpg.pc = "exited" /\ gpg.copier # "copying"

\* An exit status, or a copy that could not deliver its output, is an error.
RunError == ~gpg.ok \/ gpg.copier # "drained"

GpgReturns ==
  /\ alive /\ encoder.pc = "encrypting" /\ RunReturns
  /\ encoder' = [pc |-> "joining", err |-> RunError]
  /\ canceled' = canceled \cup {"encrypt"}
  /\ osPipe' = [osPipe EXCEPT !.open = FALSE]
  /\ UNCHANGED <<producer, gpg, stream, upload, s3, main, faulted, alive>>

\* errors.Join(err, <-done): the producer's error joins gpg's.
GpgErrorOnly(gpgErr, produceErr) == gpgErr
JoinErrors(gpgErr, produceErr) == gpgErr \/ produceErr

CloseStream ==
  /\ alive /\ encoder.pc = "joining" /\ producer.pc = "done"
  /\ LET err == JoinErrors(encoder.err, producer.err)
     IN /\ encoder' = [pc |-> "done", err |-> err]
        /\ stream' = [stream EXCEPT !.writer = IF err THEN "error" ELSE "eof"]
  /\ UNCHANGED <<canceled, producer, osPipe, gpg, upload, s3, main, faulted, alive>>

-----------------------------------------------------------------------------
(* The producer: writeBundle, with mongodump behind it.  "waiting" is the  *)
(* time spent in mongodump, in captureConfig or in Inspect; "writing" is a *)
(* write that the pipe has not taken yet.                                  *)

\* The context is looked at once more just before the footer is written.
ProduceChunk ==
  /\ alive /\ producer.pc = "waiting" /\ producer.written < Chunks
  /\ producer.written + 1 = Chunks => ProduceContext \notin canceled
  /\ producer' = [producer EXCEPT !.pc = "writing"]
  /\ UNCHANGED <<canceled, osPipe, gpg, encoder, stream, upload, s3, main, faulted, alive>>

\* writeBundle returns; the goroutine around it closes the OS pipe.
ProducerEnds(err) ==
  /\ producer' = [producer EXCEPT !.pc = "done", !.err = err]
  /\ osPipe' = [osPipe EXCEPT !.open = FALSE]
  /\ UNCHANGED <<canceled, gpg, encoder, stream, upload, s3, main, alive>>

ProduceSucceeds ==
  /\ alive /\ producer.pc = "waiting" /\ producer.written = Chunks
  /\ ProducerEnds(FALSE) /\ UNCHANGED faulted

\* mongodump exits with a status, a file changed, the metadata differs, ...
ProduceFails ==
  /\ alive /\ producer.pc = "waiting" /\ producer.written < Chunks
  /\ ProducerEnds(TRUE) /\ faulted' = TRUE

\* Cancellation kills mongodump's process group or is seen by a ctx.Err().
ProduceCanceled ==
  /\ alive /\ producer.pc = "waiting" /\ producer.written < Chunks
  /\ ProduceContext \in canceled
  /\ ProducerEnds(TRUE) /\ UNCHANGED faulted

\* The pipe being written to was closed under the writer.
WriteFails ==
  /\ alive /\ producer.pc = "writing"
  /\ IF Encrypted THEN ~osPipe.open ELSE stream.reader = "closed"
  /\ ProducerEnds(TRUE) /\ UNCHANGED faulted

\* The kernel's bound on an OS pipe; a writer beyond it blocks.
PipeHasOneMore(held) == held <= PipeCapacity
PipeHasRoom(held) == held < PipeCapacity

WriteToGpg ==
  /\ alive /\ Encrypted /\ producer.pc = "writing"
  /\ osPipe.open /\ PipeHasRoom(osPipe.buffered)
  /\ producer' = [producer EXCEPT !.pc = "waiting", !.written = @ + 1]
  /\ osPipe' = [osPipe EXCEPT !.buffered = @ + 1]
  /\ UNCHANGED <<canceled, gpg, encoder, stream, upload, s3, main, faulted, alive>>

-----------------------------------------------------------------------------
(* gpg reads the OS pipe, and the copier of os/exec feeds its output to    *)
(* the io.Pipe.                                                            *)

GpgEncrypts ==
  /\ alive /\ gpg.pc = "running" /\ gpg.copier = "copying"
  /\ osPipe.buffered > 0 /\ PipeHasRoom(gpg.out)
  /\ osPipe' = [osPipe EXCEPT !.buffered = @ - 1]
  /\ gpg' = [gpg EXCEPT !.taken = @ + 1, !.out = @ + 1]
  /\ UNCHANGED <<canceled, producer, encoder, stream, upload, s3, main, faulted, alive>>

\* EOF does not say why the pipe was closed: gpg ends a valid message anyway.
GpgFinishes ==
  /\ alive /\ gpg.pc = "running" /\ gpg.copier = "copying"
  /\ osPipe.buffered = 0 /\ ~osPipe.open /\ PipeHasRoom(gpg.out)
  /\ gpg' = [gpg EXCEPT !.pc = "exited", !.ok = TRUE, !.out = @ + 1]
  /\ UNCHANGED <<canceled, producer, osPipe, encoder, stream, upload, s3, main, faulted, alive>>

GpgExits(isFault) ==
  /\ alive /\ gpg.pc = "running"
  /\ gpg' = [gpg EXCEPT !.pc = "exited"]
  /\ faulted' = (faulted \/ isFault)
  /\ UNCHANGED <<canceled, producer, osPipe, encoder, stream, upload, s3, main, alive>>

GpgFails == GpgExits(TRUE)

\* SIGKILL to the process group, or SIGPIPE once nobody copies the output.
GpgKilled ==
  /\ "encrypt" \in canceled \/ gpg.copier = "broken"
  /\ GpgExits(FALSE)

CopierBreaks ==
  /\ alive /\ gpg.copier = "copying" /\ gpg.out > 0 /\ stream.reader = "closed"
  /\ gpg' = [gpg EXCEPT !.copier = "broken"]
  /\ UNCHANGED <<canceled, producer, osPipe, encoder, stream, upload, s3, main, faulted, alive>>

CopierDrains ==
  /\ alive /\ gpg.copier = "copying" /\ gpg.out = 0 /\ gpg.pc = "exited"
  /\ gpg' = [gpg EXCEPT !.copier = "drained"]
  /\ UNCHANGED <<canceled, producer, osPipe, encoder, stream, upload, s3, main, faulted, alive>>

-----------------------------------------------------------------------------
(* Functions run by context.AfterFunc, each in a goroutine of its own.     *)

CloseReaderOnCancel ==
  /\ alive /\ canceled \cap {"outer", "upload"} # {} /\ stream.reader = "open"
  /\ stream' = [stream EXCEPT !.reader = "closed"]
  /\ UNCHANGED <<canceled, producer, osPipe, gpg, encoder, upload, s3, main, faulted, alive>>

CloseWriterOnCancel ==
  /\ alive /\ encoder.pc = "encrypting" /\ "encrypt" \in canceled /\ osPipe.open
  /\ osPipe' = [osPipe EXCEPT !.open = FALSE]
  /\ UNCHANGED <<canceled, producer, gpg, encoder, stream, upload, s3, main, faulted, alive>>

-----------------------------------------------------------------------------
(* Store.Upload.  The read side of the io.Pipe and the part workers of the *)
(* transfer manager run concurrently.                                      *)

\* Upload's deferred calls: the body is closed and its context canceled.
UploadEnds(err) ==
  /\ upload' = [upload EXCEPT !.pc = "returned", !.err = err]
  /\ stream' = [stream EXCEPT !.reader = "closed"]
  /\ canceled' = canceled \cup {"upload"}
  /\ UNCHANGED <<producer, osPipe, gpg, encoder, main, alive>>

UploadStarts ==
  /\ alive /\ upload.pc = "starting" /\ "upload" \notin canceled
  /\ upload' = [upload EXCEPT !.pc = "reading"]
  /\ UNCHANGED <<canceled, producer, osPipe, gpg, encoder, stream, s3, main, faulted, alive>>

UploadRefuses ==
  /\ alive /\ upload.pc = "starting" /\ "upload" \in canceled
  /\ UploadEnds(TRUE) /\ UNCHANGED <<s3, faulted>>

\* io.Pipe is unbuffered: a read takes the chunk out of the writer's hands.
ReadChunk ==
  /\ alive /\ upload.pc = "reading" /\ stream.reader = "open"
  /\ \/ /\ ~Encrypted /\ producer.pc = "writing"
        /\ producer' = [producer EXCEPT !.pc = "waiting", !.written = @ + 1]
        /\ UNCHANGED gpg
     \/ /\ Encrypted /\ gpg.copier = "copying" /\ gpg.out > 0
        /\ gpg' = [gpg EXCEPT !.out = @ - 1]
        /\ UNCHANGED producer
  /\ upload' = [upload EXCEPT !.got = @ + 1, !.buffer = @ \cup {upload.got + 1}]
  /\ UNCHANGED <<canceled, osPipe, encoder, stream, s3, main, faulted, alive>>

\* EOF is delivered only while the read side is still open.
ReadEof ==
  /\ alive /\ upload.pc = "reading"
  /\ stream.reader = "open" /\ stream.writer = "eof"
  /\ upload' = [upload EXCEPT !.pc = "eof"]
  /\ UNCHANGED <<canceled, producer, osPipe, gpg, encoder, stream, s3, main, faulted, alive>>

ReadFails ==
  /\ alive /\ upload.pc = "reading"
  /\ stream.reader = "closed" \/ stream.writer = "error"
  /\ upload' = [upload EXCEPT !.pc = "aborting"]
  /\ UNCHANGED <<canceled, producer, osPipe, gpg, encoder, stream, s3, main, faulted, alive>>

\* Parts were used: the body did not fit in the first part.
Multipart == upload.inflight # {} \/ s3.stored # {} \/ upload.failed

FlushPart ==
  /\ alive /\ ~upload.failed
  /\ upload.pc = "reading" \/ (upload.pc = "eof" /\ Multipart)
  /\ upload.buffer # {} /\ Cardinality(upload.inflight) < Concurrency
  /\ upload' = [upload EXCEPT !.inflight = @ \cup {upload.buffer}, !.buffer = {}]
  /\ UNCHANGED <<canceled, producer, osPipe, gpg, encoder, stream, s3, main, faulted, alive>>

PartStored(part) ==
  /\ alive /\ part \in upload.inflight
  /\ upload' = [upload EXCEPT !.inflight = @ \ {part}]
  /\ s3' = [s3 EXCEPT !.stored = @ \cup part]
  /\ UNCHANGED <<canceled, producer, osPipe, gpg, encoder, stream, main, faulted, alive>>

\* streamUploadClient.UploadPart cancels Upload's context when a part fails.
PartFailureIgnored(ctxs) == ctxs
PartFailureCancels(ctxs) == ctxs \cup {"upload"}

PartFails(part) ==
  /\ alive /\ part \in upload.inflight
  /\ upload' = [upload EXCEPT !.inflight = @ \ {part}, !.failed = TRUE]
  /\ canceled' = PartFailureCancels(canceled)
  /\ faulted' = TRUE
  /\ UNCHANGED <<producer, osPipe, gpg, encoder, stream, s3, main, alive>>

\* The manager looks at a part's failure when a read has returned.
PartFailureSeen ==
  /\ alive /\ upload.failed
  /\ upload.pc = "eof" \/ (upload.pc = "reading" /\ upload.buffer # {})
  /\ upload' = [upload EXCEPT !.pc = "aborting"]
  /\ UNCHANGED <<canceled, producer, osPipe, gpg, encoder, stream, s3, main, faulted, alive>>

\* PutObject for a body of one part, CompleteMultipartUpload otherwise.
SendPublish ==
  /\ alive /\ upload.pc = "eof" /\ ~upload.failed /\ upload.inflight = {}
  /\ \/ ~Multipart /\ s3' = [s3 EXCEPT !.request = upload.buffer]
     \/ Multipart /\ upload.buffer = {} /\ s3' = [s3 EXCEPT !.request = s3.stored]
  /\ upload' = [upload EXCEPT !.pc = "publishing"]
  /\ UNCHANGED <<canceled, producer, osPipe, gpg, encoder, stream, main, faulted, alive>>

\* The request takes effect, whether or not anybody still waits for it.
ServerPublishes ==
  /\ s3.request # {}
  /\ s3' = [s3 EXCEPT !.request = {}, !.object = s3.request]
  /\ UNCHANGED <<canceled, producer, osPipe, gpg, encoder, stream, upload, main, faulted, alive>>

\* context.Cause(ctx) joins the result even when the object was published.
PublishSucceeds ==
  /\ alive /\ upload.pc = "publishing" /\ s3.object # {}
  /\ UploadEnds("upload" \in canceled) /\ UNCHANGED <<s3, faulted>>

\* AbortMultipartUpload drops the parts, unless it fails too.
PartsAfterAbort == {{}, s3.stored}

\* Refused, timed out or canceled; the request may be lost or still pending.
PublishFails ==
  /\ alive /\ upload.pc = "publishing"
  /\ \E pending \in {{}, s3.request}, parts \in PartsAfterAbort :
       s3' = [s3 EXCEPT !.request = pending, !.stored = parts]
  /\ UploadEnds(TRUE) /\ faulted' = TRUE

\* The workers are joined, the multipart upload is aborted, Upload fails.
UploadAborts ==
  /\ alive /\ upload.pc = "aborting" /\ upload.inflight = {}
  /\ \E parts \in PartsAfterAbort : s3' = [s3 EXCEPT !.stored = parts]
  /\ UploadEnds(TRUE) /\ UNCHANGED faulted

-----------------------------------------------------------------------------
(* backupDatabase after Upload returned.                                   *)

UploadReturned ==
  /\ alive /\ main.pc = "uploading" /\ upload.pc = "returned"
  /\ main' = [main EXCEPT !.pc = "joining"]
  /\ canceled' = IF upload.err THEN Contexts ELSE canceled
  /\ UNCHANGED <<producer, osPipe, gpg, encoder, stream, upload, s3, faulted, alive>>

\* <-done: the encoder goroutine, and through it every child, has ended.
NotJoined == upload.pc = "returned"
Joined == encoder.pc = "done"

EncodeErrorOnly(uploadErr, encodeErr) == IF encodeErr THEN "error" ELSE "ok"
BackupResult(uploadErr, encodeErr) ==
  IF uploadErr \/ encodeErr THEN "error" ELSE "ok"

Return ==
  /\ alive /\ main.pc = "joining" /\ Joined
  /\ main' = [pc |-> "returned", result |-> BackupResult(upload.err, encoder.err)]
  /\ canceled' = Contexts
  /\ UNCHANGED <<producer, osPipe, gpg, encoder, stream, upload, s3, faulted, alive>>

-----------------------------------------------------------------------------
(* The environment.                                                        *)

\* SIGINT or SIGTERM cancels the caller's context, hence all three.
Signal ==
  /\ alive /\ main.pc # "returned"
  /\ canceled' = Contexts
  /\ faulted' = TRUE
  /\ UNCHANGED <<producer, osPipe, gpg, encoder, stream, upload, s3, main, alive>>

\* SIGKILL or a machine failure: nothing of the process runs any more.
Crash ==
  /\ alive /\ main.pc # "returned"
  /\ alive' = FALSE /\ faulted' = TRUE
  /\ UNCHANGED <<canceled, producer, osPipe, gpg, encoder, stream, upload, s3, main>>

Terminated ==
  /\ main.pc = "returned" \/ ~alive
  /\ UNCHANGED vars

-----------------------------------------------------------------------------

Encoding == StartPlain \/ StartEncrypted \/ GpgReturns \/ CloseStream
Producing == ProduceSucceeds \/ ProduceCanceled \/ WriteFails \/ WriteToGpg
Encrypting == \/ GpgEncrypts \/ GpgFinishes \/ GpgKilled
              \/ CopierBreaks \/ CopierDrains
Canceling == CloseReaderOnCancel \/ CloseWriterOnCancel
Uploading == \/ UploadStarts \/ UploadRefuses \/ ReadChunk \/ ReadEof \/ ReadFails
             \/ (upload.pc = "eof" /\ FlushPart) \/ (upload.pc = "eof" /\ PartFailureSeen)
             \/ SendPublish \/ UploadAborts
PartEnds == \E part \in upload.inflight : PartStored(part) \/ PartFails(part)
PublishEnds == PublishSucceeds \/ PublishFails
Returning == UploadReturned \/ Return

Next == \/ Encoding \/ OsPipeFails
        \/ Producing \/ ProduceChunk \/ ProduceFails
        \/ Encrypting \/ GpgFails
        \/ Canceling
        \/ Uploading \/ FlushPart \/ PartFailureSeen
        \/ PartEnds \/ PublishEnds \/ ServerPublishes
        \/ Returning
        \/ Signal \/ Crash \/ Terminated

(***************************************************************************)
(* The Go scheduler runs every goroutine that can run; gpg reads what it   *)
(* is given; SIGKILL works; the idle timeout of the S3 connections bounds  *)
(* every request.  Nothing makes mongodump deliver data (ProduceChunk) or  *)
(* a part fill up (FlushPart while reading), and no fault has to happen.   *)
(***************************************************************************)
Fairness ==
  /\ WF_vars(Encoding) /\ WF_vars(Producing)
  /\ WF_vars(GpgEncrypts \/ GpgFinishes) /\ WF_vars(GpgKilled)
  /\ WF_vars(CopierBreaks \/ CopierDrains)
  /\ WF_vars(CloseReaderOnCancel) /\ WF_vars(CloseWriterOnCancel)
  /\ WF_vars(Uploading) /\ WF_vars(PartEnds) /\ WF_vars(PublishEnds)
  /\ WF_vars(Returning)

Spec == Init /\ [][Next]_vars /\ Fairness

-----------------------------------------------------------------------------
(* Properties.                                                             *)

ProducerType == [pc : {"idle", "waiting", "writing", "done"},
                 written : 0..Total, err : BOOLEAN]
OsPipeType == [buffered : 0..PipeCapacity, open : BOOLEAN]
GpgType == [pc : {"idle", "running", "exited"}, taken : 0..Chunks,
            out : 0..PipeCapacity, ok : BOOLEAN,
            copier : {"copying", "drained", "broken"}]
EncoderType == [pc : {"starting", "encrypting", "joining", "done"}, err : BOOLEAN]
StreamType == [reader : {"open", "closed"}, writer : {"open", "eof", "error"}]
UploadType == [pc : {"starting", "reading", "eof", "publishing", "aborting",
                     "returned"},
               got : 0..Total, buffer : SUBSET Bundle,
               inflight : SUBSET SUBSET Bundle, failed : BOOLEAN, err : BOOLEAN]
S3Type == [stored : SUBSET Bundle, request : SUBSET Bundle, object : SUBSET Bundle]
MainType == [pc : {"uploading", "joining", "returned"},
             result : {"none", "ok", "error"}]

\* Type correctness: no chunk is counted twice and no pipe is overfull.
TypeOK ==
  /\ canceled \subseteq Contexts
  /\ producer \in ProducerType /\ osPipe \in OsPipeType /\ gpg \in GpgType
  /\ encoder \in EncoderType /\ stream \in StreamType
  /\ upload \in UploadType /\ s3 \in S3Type /\ main \in MainType
  /\ faulted \in BOOLEAN /\ alive \in BOOLEAN

(***************************************************************************)
(* An object is never published from a truncated stream, whatever fails,   *)
(* is canceled or crashes in whatever order (bundle.go:54, app.go:303).    *)
(***************************************************************************)
NoPartialPublish == s3.object \in {{}, Bundle}

(***************************************************************************)
(* A backup reported as complete, which is what lets retention run, is in  *)
(* the bucket (app.go:144-157).                                            *)
(***************************************************************************)
SuccessIsPublished == main.result = "ok" => s3.object = Bundle

(***************************************************************************)
(* The tear-down of one healthy part is never mistaken for a failure: with *)
(* no fault, no signal and no crash the backup cannot end in an error      *)
(* (process.go:34: output that drains slowly is not truncated).            *)
(***************************************************************************)
NoSpuriousFailure == main.result = "error" => faulted

(***************************************************************************)
(* When backupDatabase returns, mongodump, gpg and every goroutine that    *)
(* writes have ended: nothing of this backup runs beside the next one or   *)
(* holds on to the lock (app.go:269, 305).                                 *)
(***************************************************************************)
ReturnLeavesNothingRunning ==
  main.pc = "returned" =>
    /\ producer.pc \in {"idle", "done"}
    /\ gpg.pc # "running"
    /\ upload.pc = "returned" /\ upload.inflight = {}

(***************************************************************************)
(* After any fault backupDatabase returns, even when mongodump waits       *)
(* forever for its server and never writes again (upload.go:55, app.go:298)*)
(***************************************************************************)
FaultLeadsToReturn == faulted ~> (main.pc = "returned" \/ ~alive)

(***************************************************************************)
(* The pipeline implements the abstract promise of AtomicPublish.          *)
(***************************************************************************)
Abstract == INSTANCE AtomicPublish WITH
  object <- IF s3.object = {} THEN "absent"
            ELSE IF s3.object = Bundle THEN "complete" ELSE "partial",
  outcome <- IF main.result = "none" THEN "pending" ELSE main.result

PublishesAtomically == Abstract!Spec
=============================================================================
