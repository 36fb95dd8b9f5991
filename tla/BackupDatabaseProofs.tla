------------------------ MODULE BackupDatabaseProofs ------------------------
(***************************************************************************)
(* Theorems about BackupDatabase, for every number of chunks, every pipe   *)
(* capacity, every concurrency, with and without encryption.               *)
(*                                                                         *)
(* The inductive invariant counts chunks from the producer to the bucket:  *)
(* what gpg took and what the OS pipe holds is what was written; what the  *)
(* upload got and what gpg's output holds is what gpg took, and a trailer  *)
(* if gpg ended well; what the upload got is what its buffer, its parts in *)
(* flight and the stored parts hold.  EOF can then only mean the whole.    *)
(***************************************************************************)
EXTENDS BackupDatabase, TLAPS

\* Who has started and ended: the encoder joins the producer and gpg.
LifeCycle ==
  /\ encoder.pc = "starting" => producer.pc = "idle" /\ gpg.pc = "idle"
  /\ encoder.pc \in {"encrypting", "joining"} => producer.pc # "idle"
  /\ gpg.pc # "idle" => Encrypted
  /\ encoder.pc \in {"joining", "done"} => gpg.pc # "running"
  /\ encoder.pc = "done" => producer.pc \in {"idle", "done"}
  /\ main.pc # "uploading" => upload.pc = "returned"
  /\ main.pc = "returned" => encoder.pc = "done"
  /\ main.pc # "returned" => main.result = "none"
  /\ upload.pc \in {"starting", "publishing", "returned"} => upload.inflight = {}

\* The producer stops without an error only after its last chunk.
ProducerCounts ==
  /\ producer.written <= Chunks
  /\ producer.pc = "writing" => producer.written < Chunks
  /\ producer.pc = "done" /\ ~producer.err => producer.written = Chunks

\* Chunks between the producer and the read side of the io.Pipe.
ChunksInTransit ==
  /\ ~Encrypted => upload.got = producer.written
  /\ Encrypted =>
       /\ gpg.taken + osPipe.buffered = producer.written
       /\ upload.got + gpg.out = gpg.taken + (IF gpg.ok THEN 1 ELSE 0)

\* A good exit status comes after EOF and a drained pipe.
GpgEnded ==
  /\ gpg.ok => gpg.pc = "exited" /\ osPipe.buffered = 0 /\ ~osPipe.open
  /\ gpg.copier = "drained" => gpg.pc = "exited" /\ gpg.out = 0
  /\ Encrypted /\ encoder.pc = "joining" /\ ~encoder.err =>
       gpg.ok /\ gpg.copier = "drained"

\* EOF is only signalled for a whole bundle that has been read.
EofIsComplete ==
  /\ stream.writer = "eof" =>
       /\ encoder.pc = "done" /\ producer.pc = "done"
       /\ Encrypted => gpg.copier = "drained"
       /\ upload.got = Total
  /\ upload.pc \in {"eof", "publishing"} => stream.writer = "eof"

\* Nothing read is lost as long as no part has failed.
PartsHold ==
  ~upload.failed /\ upload.pc \in {"starting", "reading", "eof"} =>
    /\ upload.buffer \subseteq 1..upload.got /\ s3.stored \subseteq 1..upload.got
    /\ \A part \in upload.inflight : part \subseteq 1..upload.got
    /\ \A k \in 1..upload.got : \/ k \in upload.buffer \/ k \in s3.stored
                               \/ \E part \in upload.inflight : k \in part

\* Only whole bundles are sent and published.
Published ==
  /\ s3.request \in {{}, Bundle}
  /\ s3.object \in {{}, Bundle}
  /\ upload.pc = "returned" /\ ~upload.err => s3.object = Bundle
  /\ main.result = "ok" => ~upload.err

IInv == /\ TypeOK /\ LifeCycle /\ ProducerCounts /\ ChunksInTransit /\ GpgEnded
        /\ EofIsComplete /\ PartsHold /\ Published

-----------------------------------------------------------------------------
(* Type correctness.                                                       *)

\* What Upload's deferred calls do keeps the three variables they write typed.
LEMMA UploadEndsType ==
  ASSUME IInv, NEW err \in BOOLEAN, UploadEnds(err)
  PROVE  upload' \in UploadType /\ stream' \in StreamType /\ canceled' \subseteq Contexts
<1>1. upload' \in UploadType
  BY Zenon DEF IInv, TypeOK, UploadEnds, UploadType
<1>2. stream' \in StreamType /\ canceled' \subseteq Contexts
  BY DEF IInv, TypeOK, UploadEnds, StreamType, Contexts
<1>3. QED
  BY <1>1, <1>2

\* Every step keeps the types; the bounds come from the counts of IInv.
LEMMA TypeStep == IInv /\ [Next]_vars => TypeOK'
<1> SUFFICES ASSUME IInv, [Next]_vars PROVE TypeOK'
  OBVIOUS
<1>1. CASE StartPlain
  BY <1>1 DEF IInv, TypeOK, StartPlain, EncoderType, ProducerType
<1>2. CASE StartEncrypted
  BY <1>2 DEF IInv, TypeOK, StartEncrypted, EncoderType, ProducerType, GpgType
<1>3. CASE OsPipeFails
  BY <1>3 DEF IInv, TypeOK, OsPipeFails, EncoderType, StreamType
<1>4. CASE GpgReturns
  <2>1. osPipe' \in OsPipeType
    BY <1>4 DEF IInv, TypeOK, GpgReturns, OsPipeType
  <2>2. encoder' \in EncoderType /\ canceled' \subseteq Contexts
    BY <1>4 DEF IInv, TypeOK, GpgReturns, RunError, EncoderType, Contexts
  <2>3. QED
    BY <2>1, <2>2, <1>4 DEF IInv, TypeOK, GpgReturns
<1>5. CASE CloseStream
  BY <1>5 DEF IInv, TypeOK, CloseStream, JoinErrors, EncoderType, StreamType
<1>6. CASE ProduceSucceeds
  BY <1>6 DEF IInv, TypeOK, ProduceSucceeds, ProducerEnds, ProducerType,
       OsPipeType
<1>7. CASE ProduceCanceled
  BY <1>7 DEF IInv, TypeOK, ProduceCanceled, ProducerEnds, ProducerType,
       OsPipeType
<1>8. CASE WriteFails
  BY <1>8 DEF IInv, TypeOK, WriteFails, ProducerEnds, ProducerType, OsPipeType
<1>9. CASE WriteToGpg
  <2>1. /\ producer.written + 1 \in 0..Total
        /\ osPipe.buffered + 1 \in 0..PipeCapacity
    BY PipeCapacityAssumption, ChunksAssumption, EncryptedAssumption, <1>9 DEF
         IInv, TypeOK, WriteToGpg, ProducerCounts, PipeHasRoom, ProducerType,
         OsPipeType, Total
  <2>2. producer' \in ProducerType
    BY <2>1, <1>9 DEF IInv, TypeOK, WriteToGpg, ProducerType
  <2>3. osPipe' \in OsPipeType
    BY <2>1, <1>9 DEF IInv, TypeOK, WriteToGpg, OsPipeType
  <2>4. QED
    BY <2>2, <2>3, <1>9 DEF IInv, TypeOK, WriteToGpg
<1>10. CASE ProduceChunk
  BY <1>10 DEF IInv, TypeOK, ProduceChunk, ProducerType
<1>11. CASE ProduceFails
  BY <1>11 DEF IInv, TypeOK, ProduceFails, ProducerEnds, ProducerType,
       OsPipeType
<1>12. CASE GpgEncrypts
  <2>1. Encrypted
    BY <1>12 DEF IInv, LifeCycle, GpgEncrypts
  <2>2. /\ gpg.taken + 1 \in 0..Chunks /\ gpg.out + 1 \in 0..PipeCapacity
        /\ osPipe.buffered - 1 \in 0..PipeCapacity
    BY PipeCapacityAssumption, ChunksAssumption, <2>1, <1>12 DEF IInv, TypeOK,
         GpgEncrypts, ProducerCounts, ChunksInTransit, PipeHasRoom, ProducerType,
         OsPipeType, GpgType, Total
  <2>3. gpg' \in GpgType
    BY <2>2, <1>12 DEF IInv, TypeOK, GpgEncrypts, GpgType
  <2>4. osPipe' \in OsPipeType
    BY <2>2, <1>12 DEF IInv, TypeOK, GpgEncrypts, OsPipeType
  <2>5. QED
    BY <2>3, <2>4, <1>12 DEF IInv, TypeOK, GpgEncrypts
<1>13. CASE GpgFinishes
  <2>1. gpg.out + 1 \in 0..PipeCapacity
    BY PipeCapacityAssumption, <1>13 DEF IInv, TypeOK, GpgFinishes,
         PipeHasRoom, GpgType
  <2>2. gpg' \in GpgType
    BY <2>1, <1>13 DEF IInv, TypeOK, GpgFinishes, GpgType
  <2>3. QED
    BY <2>2, <1>13 DEF IInv, TypeOK, GpgFinishes
<1>14. CASE GpgKilled
  BY <1>14 DEF IInv, TypeOK, GpgKilled, GpgExits, GpgType
<1>15. CASE CopierBreaks
  BY <1>15 DEF IInv, TypeOK, CopierBreaks, GpgType
<1>16. CASE CopierDrains
  BY <1>16 DEF IInv, TypeOK, CopierDrains, GpgType
<1>17. CASE GpgFails
  BY <1>17 DEF IInv, TypeOK, GpgFails, GpgExits, GpgType
<1>18. CASE CloseReaderOnCancel
  BY <1>18 DEF IInv, TypeOK, CloseReaderOnCancel, StreamType
<1>19. CASE CloseWriterOnCancel
  BY <1>19 DEF IInv, TypeOK, CloseWriterOnCancel, OsPipeType
<1>20. CASE UploadStarts
  BY <1>20 DEF IInv, TypeOK, UploadStarts, UploadType
<1>21. CASE UploadRefuses
  BY UploadEndsType, <1>21 DEF IInv, TypeOK, UploadRefuses, UploadEnds
<1>22. CASE ReadChunk
  <2>1. upload.got + 1 \in 0..Total /\ upload.got + 1 \in Bundle
    BY PipeCapacityAssumption, ChunksAssumption, EncryptedAssumption, <1>22 DEF
         IInv, TypeOK, ReadChunk, ChunksInTransit, GpgEnded, ProducerCounts,
         ProducerType, OsPipeType, UploadType, GpgType, Total, Bundle
  <2>2. upload' \in UploadType
    BY <2>1, <1>22 DEF IInv, TypeOK, ReadChunk, UploadType
  <2>3. producer.pc = "writing" => producer.written + 1 \in 0..Total
    BY ChunksAssumption, EncryptedAssumption, <1>22 DEF IInv, TypeOK, ReadChunk,
         ProducerCounts, ProducerType, Total
  <2>4. producer' \in ProducerType
    BY <2>3, <1>22 DEF IInv, TypeOK, ReadChunk, ProducerType
  <2>5. gpg' \in GpgType
    BY PipeCapacityAssumption, <1>22 DEF IInv, TypeOK, ReadChunk, GpgType
  <2>6. QED
    BY <2>2, <2>4, <2>5, <1>22 DEF IInv, TypeOK, ReadChunk
<1>23. CASE ReadEof
  BY <1>23 DEF IInv, TypeOK, ReadEof, UploadType
<1>24. CASE ReadFails
  BY <1>24 DEF IInv, TypeOK, ReadFails, UploadType
<1>25. CASE FlushPart
  <2>1. upload.inflight \cup {upload.buffer} \in SUBSET SUBSET Bundle
    BY DEF IInv, TypeOK, UploadType
  <2>2. upload' \in UploadType
    BY Zenon, <2>1, <1>25 DEF IInv, TypeOK, FlushPart, UploadType
  <2>3. QED
    BY <2>2, <1>25 DEF IInv, TypeOK, FlushPart
<1>26. CASE PartFailureSeen
  BY <1>26 DEF IInv, TypeOK, PartFailureSeen, UploadType
<1>27. CASE SendPublish
  BY <1>27 DEF IInv, TypeOK, SendPublish, UploadType, S3Type
<1>28. CASE UploadAborts
  <2>1. s3' \in S3Type
    BY <1>28 DEF IInv, TypeOK, UploadAborts, S3Type, PartsAfterAbort
  <2>2. QED
    BY <2>1, UploadEndsType, <1>28 DEF IInv, TypeOK, UploadAborts, UploadEnds
<1>29. ASSUME NEW part \in upload.inflight, PartStored(part) PROVE TypeOK'
  BY <1>29 DEF IInv, TypeOK, PartStored, UploadType, S3Type
<1>30. ASSUME NEW part \in upload.inflight, PartFails(part) PROVE TypeOK'
  <2>1. upload.inflight \ {part} \in SUBSET SUBSET Bundle
    BY DEF IInv, TypeOK, UploadType
  <2>2. upload' \in UploadType
    BY Zenon, <2>1, <1>30 DEF IInv, TypeOK, PartFails, UploadType
  <2>3. QED
    BY <2>2, <1>30 DEF IInv, TypeOK, PartFails, PartFailureCancels, Contexts
<1>31. CASE PublishSucceeds
  <2>1. ("upload" \in canceled) \in BOOLEAN
    OBVIOUS
  <2>2. QED
    BY <2>1, UploadEndsType, <1>31 DEF IInv, TypeOK, PublishSucceeds,
         UploadEnds
<1>32. CASE PublishFails
  <2>1. s3' \in S3Type
    <3>1. PICK pending \in {{}, s3.request}, parts \in PartsAfterAbort :
            s3' = [s3 EXCEPT !.request = pending, !.stored = parts]
      BY <1>32 DEF PublishFails
    <3>2. pending \in SUBSET Bundle /\ parts \in SUBSET Bundle
      BY DEF IInv, TypeOK, S3Type, PartsAfterAbort
    <3>3. QED
      BY <3>1, <3>2 DEF IInv, TypeOK, S3Type
  <2>2. QED
    BY <2>1, UploadEndsType, <1>32 DEF IInv, TypeOK, PublishFails, UploadEnds
<1>33. CASE ServerPublishes
  BY <1>33 DEF IInv, TypeOK, ServerPublishes, S3Type
<1>34. CASE UploadReturned
  BY <1>34 DEF IInv, TypeOK, UploadReturned, MainType, Contexts
<1>35. CASE Return
  BY <1>35 DEF IInv, TypeOK, Return, BackupResult, MainType, Contexts
<1>36. CASE Signal
  BY <1>36 DEF IInv, TypeOK, Signal, Contexts
<1>37. CASE Crash
  BY <1>37 DEF IInv, TypeOK, Crash
<1>38. CASE UNCHANGED vars
  BY <1>38 DEF IInv, TypeOK, vars
<1>39. QED
  BY <1>1, <1>2, <1>3, <1>4, <1>5, <1>6, <1>7, <1>8, <1>9, <1>10, <1>11,
       <1>12, <1>13, <1>14, <1>15, <1>16, <1>17, <1>18, <1>19, <1>20, <1>21,
       <1>22, <1>23, <1>24, <1>25, <1>26, <1>27, <1>28, <1>29, <1>30, <1>31,
       <1>32, <1>33, <1>34, <1>35, <1>36, <1>37, <1>38
     DEF Next, Encoding, Producing, Encrypting, Canceling, Uploading, PartEnds,
         PublishEnds, Returning, Terminated

-----------------------------------------------------------------------------
(* The rest of the invariant.                                              *)

Safe == /\ LifeCycle /\ ProducerCounts /\ ChunksInTransit /\ GpgEnded
        /\ EofIsComplete /\ PartsHold /\ Published

\* A read moves one chunk from the writer's hands into the upload's buffer.
LEMMA ReadChunkSafe == IInv /\ ReadChunk => Safe'
<1> SUFFICES ASSUME IInv, ReadChunk PROVE Safe'
  OBVIOUS
<1>1. /\ upload' = [upload EXCEPT !.got = @ + 1, !.buffer = @ \cup {upload.got + 1}]
      /\ upload.pc = "reading" /\ stream.writer # "eof"
      /\ UNCHANGED <<osPipe, encoder, stream, s3, main>>
  BY EncryptedAssumption, ChunksAssumption
     DEF IInv, ReadChunk, EofIsComplete
<1>2. /\ upload'.pc = upload.pc /\ upload'.got = upload.got + 1
      /\ upload'.buffer = upload.buffer \cup {upload.got + 1}
      /\ upload'.inflight = upload.inflight /\ upload'.failed = upload.failed
      /\ upload.got \in Nat
  BY <1>1, EncryptedAssumption, ChunksAssumption
     DEF IInv, TypeOK, UploadType, Total
<1>3. PartsHold'
  <2>1. 1..(upload.got + 1) = (1..upload.got) \cup {upload.got + 1}
    BY <1>2
  <2>2. QED
    BY <1>1, <1>2, <2>1 DEF IInv, PartsHold
<1>4. Published' /\ EofIsComplete'
  BY <1>1, <1>2 DEF IInv, Published, EofIsComplete, Bundle, Total
<1>5. CASE ~Encrypted
  <2>1. /\ producer.pc = "writing" /\ gpg' = gpg
        /\ producer' = [producer EXCEPT !.pc = "waiting", !.written = @ + 1]
    BY <1>5 DEF ReadChunk
  <2>2. producer'.pc = "waiting" /\ producer'.written = producer.written + 1
    BY <2>1 DEF IInv, TypeOK, ProducerType
  <2>3. LifeCycle'
    BY <1>1, <1>2, <2>1, <2>2 DEF IInv, LifeCycle
  <2>4. ProducerCounts' /\ ChunksInTransit' /\ GpgEnded'
    BY ChunksAssumption, <1>1, <1>2, <1>5, <2>1, <2>2
       DEF IInv, TypeOK, ProducerType, Total, ProducerCounts, ChunksInTransit,
           GpgEnded
  <2>5. QED
    BY <1>3, <1>4, <2>3, <2>4 DEF Safe
<1>6. CASE Encrypted
  <2>1. /\ gpg.copier = "copying" /\ gpg.out > 0 /\ producer' = producer
        /\ gpg' = [gpg EXCEPT !.out = @ - 1]
    BY <1>6 DEF ReadChunk
  <2>2. /\ gpg'.pc = gpg.pc /\ gpg'.ok = gpg.ok /\ gpg'.taken = gpg.taken
        /\ gpg'.copier = gpg.copier /\ gpg'.out = gpg.out - 1
        /\ gpg.out \in Nat /\ gpg.taken \in Nat
    BY <2>1, PipeCapacityAssumption, ChunksAssumption DEF IInv, TypeOK, GpgType
  <2>3. LifeCycle'
    BY <1>1, <1>2, <2>1, <2>2 DEF IInv, LifeCycle
  <2>4. ProducerCounts' /\ GpgEnded'
    BY <1>1, <2>1, <2>2 DEF IInv, ProducerCounts, GpgEnded
  <2>5. ChunksInTransit'
    BY <1>1, <1>2, <1>6, <2>1, <2>2 DEF IInv, ChunksInTransit
  <2>6. QED
    BY <1>3, <1>4, <2>3, <2>4, <2>5 DEF Safe
<1>7. QED
  BY <1>5, <1>6

\* Every step keeps the counts, and with them the whole bundle together.
LEMMA SafeStep == IInv /\ [Next]_vars => Safe'
<1> SUFFICES ASSUME IInv, [Next]_vars PROVE Safe'
  OBVIOUS
<1> USE ChunksAssumption, PipeCapacityAssumption, EncryptedAssumption
    DEF IInv, Safe, LifeCycle, ProducerCounts, ChunksInTransit, GpgEnded,
        EofIsComplete, PartsHold, Published, Total, Bundle, TypeOK, ProducerType,
        OsPipeType, GpgType, EncoderType, StreamType, UploadType, S3Type, MainType
<1>1. CASE StartPlain
  BY <1>1 DEF StartPlain
<1>2. CASE StartEncrypted
  BY <1>2 DEF StartEncrypted
<1>3. CASE OsPipeFails
  BY <1>3 DEF OsPipeFails
<1>4. CASE GpgReturns
  <2>1. ~encoder'.err => gpg.ok /\ gpg.copier = "drained"
    BY <1>4 DEF GpgReturns, RunError
  <2>2. GpgEnded'
    BY <1>4, <2>1 DEF GpgReturns
  <2>3. QED
    BY <1>4, <2>2 DEF GpgReturns, RunReturns
<1>5. CASE CloseStream
  BY <1>5 DEF CloseStream, JoinErrors
<1>6. CASE ProduceSucceeds
  BY <1>6 DEF ProduceSucceeds, ProducerEnds
<1>7. CASE ProduceCanceled
  BY SMTT(30), <1>7 DEF ProduceCanceled, ProducerEnds
<1>8. CASE WriteFails
  BY SMTT(30), <1>8 DEF WriteFails, ProducerEnds
<1>9. CASE WriteToGpg
  <2>1. /\ producer'.pc = "waiting" /\ producer'.written = producer.written + 1
        /\ producer.pc = "writing" /\ osPipe.open
        /\ osPipe'.buffered = osPipe.buffered + 1 /\ osPipe'.open = osPipe.open
        /\ UNCHANGED <<gpg, encoder, stream, upload, s3, main>>
    BY <1>9 DEF WriteToGpg
  <2>2. ProducerCounts' /\ ChunksInTransit' /\ GpgEnded'
    BY <1>9, <2>1 DEF WriteToGpg
  <2>3. LifeCycle' /\ EofIsComplete' /\ PartsHold' /\ Published'
    BY <2>1
  <2>4. QED
    BY <2>2, <2>3
<1>10. CASE ProduceChunk
  BY SMTT(30), <1>10 DEF ProduceChunk
<1>11. CASE ProduceFails
  BY <1>11 DEF ProduceFails, ProducerEnds
<1>12. CASE GpgEncrypts
  BY <1>12 DEF GpgEncrypts, PipeHasRoom
<1>13. CASE GpgFinishes
  BY <1>13 DEF GpgFinishes, PipeHasRoom
<1>14. CASE GpgKilled
  BY <1>14 DEF GpgKilled, GpgExits
<1>15. CASE CopierBreaks
  BY <1>15 DEF CopierBreaks
<1>16. CASE CopierDrains
  BY <1>16 DEF CopierDrains
<1>17. CASE GpgFails
  BY <1>17 DEF GpgFails, GpgExits
<1>18. CASE CloseReaderOnCancel
  BY <1>18 DEF CloseReaderOnCancel
<1>19. CASE CloseWriterOnCancel
  BY <1>19 DEF CloseWriterOnCancel
<1>20. CASE UploadStarts
  BY <1>20 DEF UploadStarts
<1>21. CASE UploadRefuses
  BY <1>21 DEF UploadRefuses, UploadEnds
<1>22. CASE ReadChunk
  BY <1>22, ReadChunkSafe
<1>23. CASE ReadEof
  BY <1>23 DEF ReadEof
<1>24. CASE ReadFails
  BY <1>24 DEF ReadFails
<1>25. CASE FlushPart
  <2>1. /\ upload'.buffer = {} /\ upload'.got = upload.got
        /\ upload'.inflight = upload.inflight \cup {upload.buffer}
        /\ ~upload.failed /\ s3' = s3 /\ upload.pc \in {"reading", "eof"}
    BY <1>25 DEF FlushPart
  <2>2. PartsHold'
    BY SMTT(30), <2>1
  <2>3. QED
    BY <1>25, <2>2 DEF FlushPart
<1>26. CASE PartFailureSeen
  BY <1>26 DEF PartFailureSeen
<1>27. CASE SendPublish
  <2>1. upload.got = Total /\ upload.inflight = {} /\ ~upload.failed
    BY <1>27 DEF SendPublish
  <2>2. upload.buffer \cup s3.stored = Bundle
    BY <1>27, <2>1 DEF SendPublish
  <2>3. s3'.request = Bundle /\ s3'.object = s3.object
    <3>1. CASE Multipart
      <4>1. s3' = [s3 EXCEPT !.request = s3.stored] /\ upload.buffer = {}
        BY <1>27, <3>1 DEF SendPublish
      <4>2. QED
        BY <2>2, <4>1
    <3>2. CASE ~Multipart
      <4>1. s3' = [s3 EXCEPT !.request = upload.buffer] /\ s3.stored = {}
        BY <1>27, <3>2 DEF SendPublish, Multipart
      <4>2. QED
        BY <2>2, <4>1
    <3>3. QED
      BY <3>1, <3>2
  <2>4. Published'
    BY <1>27, <2>3 DEF SendPublish, Multipart
  <2>5. QED
    BY <1>27, <2>4 DEF SendPublish, Multipart
<1>28. CASE UploadAborts
  BY <1>28 DEF UploadAborts, UploadEnds, PartsAfterAbort
<1>29. ASSUME NEW part \in upload.inflight, PartStored(part) PROVE Safe'
  <2>1. /\ upload'.buffer = upload.buffer /\ upload'.got = upload.got
        /\ upload'.inflight = upload.inflight \ {part}
        /\ upload'.failed = upload.failed /\ upload'.pc = upload.pc
        /\ s3'.stored = s3.stored \cup part
    BY <1>29 DEF PartStored
  <2>2. PartsHold'
    BY <1>29, <2>1
  <2>3. QED
    BY <1>29, <2>2 DEF PartStored
<1>30. ASSUME NEW part \in upload.inflight, PartFails(part) PROVE Safe'
  BY <1>30 DEF PartFails
<1>31. CASE PublishSucceeds
  BY <1>31 DEF PublishSucceeds, UploadEnds
<1>32. CASE PublishFails
  BY <1>32 DEF PublishFails, UploadEnds, PartsAfterAbort
<1>33. CASE ServerPublishes
  <2>1. s3.request = Bundle
    BY <1>33 DEF ServerPublishes
  <2>2. /\ s3'.request = {} /\ s3'.object = Bundle /\ s3'.stored = s3.stored
        /\ UNCHANGED <<producer, osPipe, gpg, encoder, stream, upload, main>>
    BY <1>33, <2>1 DEF ServerPublishes
  <2>3. QED
    BY <2>2
<1>34. CASE UploadReturned
  BY <1>34 DEF UploadReturned
<1>35. CASE Return
  BY <1>35 DEF Return, BackupResult, Joined
<1>36. CASE Signal
  BY <1>36 DEF Signal
<1>37. CASE Crash
  BY <1>37 DEF Crash
<1>38. CASE UNCHANGED vars
  BY SMTT(30), <1>38 DEF vars
<1>39. QED
  BY <1>1, <1>2, <1>3, <1>4, <1>5, <1>6, <1>7, <1>8, <1>9, <1>10, <1>11,
     <1>12, <1>13, <1>14, <1>15, <1>16, <1>17, <1>18, <1>19, <1>20, <1>21,
     <1>22, <1>23, <1>24, <1>25, <1>26, <1>27, <1>28, <1>29, <1>30, <1>31,
     <1>32, <1>33, <1>34, <1>35, <1>36, <1>37, <1>38
     DEF Next, Encoding, Producing, Encrypting, Canceling, Uploading, PartEnds,
         PublishEnds, Returning, Terminated

-----------------------------------------------------------------------------
(* The invariant and what follows from it.                                 *)

LEMMA InvInit == Init => IInv
<1> SUFFICES ASSUME Init PROVE IInv
  OBVIOUS
<1> USE ChunksAssumption, PipeCapacityAssumption, EncryptedAssumption DEF Init
<1>1. TypeOK
  <2>1. producer \in ProducerType /\ osPipe \in OsPipeType /\ gpg \in GpgType
    BY DEF ProducerType, OsPipeType, GpgType, Total
  <2>2. encoder \in EncoderType /\ stream \in StreamType /\ main \in MainType
    BY DEF EncoderType, StreamType, MainType
  <2>3. upload \in UploadType /\ s3 \in S3Type
    BY DEF UploadType, S3Type, Total
  <2>4. QED
    BY <2>1, <2>2, <2>3 DEF TypeOK
<1>2. LifeCycle /\ ProducerCounts /\ ChunksInTransit /\ GpgEnded
  BY DEF LifeCycle, ProducerCounts, ChunksInTransit, GpgEnded
<1>3. EofIsComplete /\ PartsHold /\ Published
  BY DEF EofIsComplete, PartsHold, Published
<1>4. QED
  BY <1>1, <1>2, <1>3 DEF IInv

\* The inductive invariant holds in every reachable state.
THEOREM Invariance == Spec => []IInv
<1>1. IInv /\ [Next]_vars => IInv'
  BY TypeStep, SafeStep DEF IInv, Safe
<1>2. QED
  BY InvInit, <1>1, PTL DEF Spec

(***************************************************************************)
(* Type correctness for every number of chunks and every pipe capacity:    *)
(* no chunk is counted twice and no pipe is overfull.                      *)
(***************************************************************************)
THEOREM TypeCorrect == Spec => []TypeOK
<1>1. IInv => TypeOK
  BY DEF IInv
<1>2. QED
  BY Invariance, <1>1, PTL

(***************************************************************************)
(* An object in the bucket is always a whole bundle (bundle.go:54,         *)
(* app.go:303), however long it is and whatever fails.                     *)
(***************************************************************************)
THEOREM NeverPartial == Spec => []NoPartialPublish
<1>1. IInv => NoPartialPublish
  BY DEF IInv, Published, NoPartialPublish
<1>2. QED
  BY Invariance, <1>1, PTL

(***************************************************************************)
(* A backup reported as complete is in the bucket (app.go:144-157).        *)
(***************************************************************************)
THEOREM SuccessMeansPublished == Spec => []SuccessIsPublished
<1>1. IInv => SuccessIsPublished
  BY DEF IInv, LifeCycle, Published, SuccessIsPublished
<1>2. QED
  BY Invariance, <1>1, PTL

(***************************************************************************)
(* Nothing of a backup runs once backupDatabase has returned (app.go:269). *)
(***************************************************************************)
THEOREM NothingLeftRunning == Spec => []ReturnLeavesNothingRunning
<1>1. IInv => ReturnLeavesNothingRunning
  BY DEF IInv, LifeCycle, ReturnLeavesNothingRunning
<1>2. QED
  BY Invariance, <1>1, PTL

-----------------------------------------------------------------------------
(* A healthy run: with no fault the tear-down happens in one order only.    *)

\* Contexts end after their work, and the read side of the io.Pipe after EOF.
TornDownInOrder ==
  /\ "outer" \in canceled => main.pc = "returned"
  /\ "upload" \in canceled \/ stream.reader = "closed" => upload.pc = "returned"
  /\ "encrypt" \in canceled => encoder.pc \in {"joining", "done"}
  /\ upload.pc = "returned" => stream.writer = "eof"
  /\ ~osPipe.open => producer.pc = "done"

\* So no one meets a closed pipe, a canceled context or a broken copy.
NoError ==
  /\ ~producer.err /\ ~encoder.err /\ ~upload.failed /\ ~upload.err
  /\ gpg.pc = "exited" => gpg.ok
  /\ gpg.pc = "idle" => gpg.out = 0
  /\ gpg.copier # "broken"
  /\ stream.writer # "error" /\ upload.pc # "aborting" /\ main.result # "error"

Healthy == ~faulted => TornDownInOrder /\ NoError

LEMMA HealthyInit == Init => Healthy
  BY DEF Init, Healthy, TornDownInOrder, NoError

\* A fault is never forgotten.
LEMMA FaultStays == IInv /\ [Next]_vars /\ faulted => faulted'
<1> SUFFICES ASSUME IInv, [Next]_vars, faulted PROVE faulted'
  OBVIOUS
<1>1. CASE Encoding \/ OsPipeFails
  BY <1>1 DEF Encoding, StartPlain, StartEncrypted, GpgReturns, CloseStream, OsPipeFails
<1>2. CASE Producing \/ ProduceChunk \/ ProduceFails
  BY <1>2 DEF Producing, ProduceSucceeds, ProduceCanceled, WriteFails, WriteToGpg,
       ProduceChunk, ProduceFails
<1>3. CASE Encrypting \/ GpgFails
  BY Zenon, <1>3 DEF Encrypting, GpgEncrypts, GpgFinishes, GpgKilled, CopierBreaks,
       CopierDrains, GpgFails, GpgExits
<1>4. CASE Canceling \/ Returning \/ ServerPublishes \/ Signal \/ Crash
  BY <1>4 DEF Canceling, CloseReaderOnCancel, CloseWriterOnCancel, Returning,
       UploadReturned, Return, ServerPublishes, Signal, Crash
<1>5. CASE Uploading \/ FlushPart \/ PartFailureSeen
  BY <1>5 DEF Uploading, UploadStarts, UploadRefuses, ReadChunk, ReadEof, ReadFails,
       FlushPart, PartFailureSeen, SendPublish, UploadAborts
<1>6. CASE PartEnds \/ PublishEnds
  BY <1>6 DEF PartEnds, PartStored, PartFails, PublishEnds, PublishSucceeds, PublishFails
<1>7. CASE UNCHANGED vars
  BY <1>7 DEF vars
<1>8. QED
  BY <1>1, <1>2, <1>3, <1>4, <1>5, <1>6, <1>7 DEF Next, Terminated

\* Without a fault, every step keeps the order of the tear-down.
LEMMA HealthyStep == IInv /\ IInv' /\ Healthy /\ [Next]_vars => Healthy'
<1> SUFFICES ASSUME IInv, IInv', Healthy, [Next]_vars, ~faulted' PROVE (TornDownInOrder /\ NoError)'
  BY DEF Healthy
<1> USE ChunksAssumption, PipeCapacityAssumption, EncryptedAssumption
    DEF IInv, LifeCycle, GpgEnded, EofIsComplete, TornDownInOrder, NoError,
        TypeOK, ProducerType, OsPipeType, GpgType, EncoderType, StreamType,
        UploadType, S3Type, MainType, Contexts
<1>0. TornDownInOrder /\ NoError
  BY FaultStays DEF Healthy
<1>1. CASE StartPlain
  BY <1>0, <1>1 DEF StartPlain
<1>2. CASE StartEncrypted
  BY <1>0, <1>2 DEF StartEncrypted
<1>3. CASE OsPipeFails
  BY <1>0, <1>3 DEF OsPipeFails
<1>4. CASE GpgReturns
  BY <1>0, <1>4 DEF GpgReturns, RunReturns, RunError
<1>5. CASE CloseStream
  BY <1>0, <1>5 DEF CloseStream, JoinErrors
<1>6. CASE ProduceSucceeds
  BY <1>0, <1>6 DEF ProduceSucceeds, ProducerEnds
<1>7. CASE ProduceCanceled
  BY <1>0, <1>7 DEF ProduceCanceled, ProducerEnds, ProduceContext
<1>8. CASE WriteFails
  BY <1>0, <1>8 DEF WriteFails, ProducerEnds
<1>9. CASE WriteToGpg
  BY <1>0, <1>9 DEF WriteToGpg
<1>10. CASE ProduceChunk
  BY <1>0, <1>10 DEF ProduceChunk
<1>11. CASE ProduceFails
  BY <1>0, <1>11 DEF ProduceFails, ProducerEnds
<1>12. CASE GpgEncrypts
  BY <1>0, <1>12 DEF GpgEncrypts
<1>13. CASE GpgFinishes
  BY <1>0, <1>13 DEF GpgFinishes
<1>14. CASE GpgKilled
  BY <1>0, <1>14 DEF GpgKilled, GpgExits
<1>15. CASE CopierBreaks
  BY <1>0, <1>15 DEF CopierBreaks
<1>16. CASE CopierDrains
  BY <1>0, <1>16 DEF CopierDrains
<1>17. CASE GpgFails
  BY <1>0, <1>17 DEF GpgFails, GpgExits
<1>18. CASE CloseReaderOnCancel
  BY <1>0, <1>18 DEF CloseReaderOnCancel
<1>19. CASE CloseWriterOnCancel
  BY <1>0, <1>19 DEF CloseWriterOnCancel
<1>20. CASE UploadStarts
  BY <1>0, <1>20 DEF UploadStarts
<1>21. CASE UploadRefuses
  BY <1>0, <1>21 DEF UploadRefuses, UploadEnds
<1>22. CASE ReadChunk
  <2>1. /\ upload'.pc = upload.pc /\ upload'.failed = upload.failed
        /\ upload'.err = upload.err /\ upload.pc = "reading"
        /\ UNCHANGED <<canceled, osPipe, encoder, stream, main>>
    BY <1>22 DEF ReadChunk
  <2>2. CASE producer' = [producer EXCEPT !.pc = "waiting", !.written = @ + 1]
             /\ gpg' = gpg /\ producer.pc = "writing"
    BY <1>0, <2>1, <2>2
  <2>3. CASE gpg' = [gpg EXCEPT !.out = @ - 1] /\ producer' = producer /\ Encrypted
             /\ gpg.out > 0
    <3>1. /\ gpg'.pc = gpg.pc /\ gpg'.ok = gpg.ok /\ gpg'.copier = gpg.copier
      BY <2>3
    <3>2. gpg.pc # "idle"
      BY <1>0, <2>3
    <3>3. QED
      BY <1>0, <2>1, <2>3, <3>1, <3>2
  <2>4. QED
    BY <1>22, <2>2, <2>3 DEF ReadChunk
<1>23. CASE ReadEof
  BY <1>0, <1>23 DEF ReadEof
<1>24. CASE ReadFails
  BY <1>0, <1>24 DEF ReadFails
<1>25. CASE FlushPart
  BY <1>0, <1>25 DEF FlushPart
<1>26. CASE PartFailureSeen
  BY <1>0, <1>26 DEF PartFailureSeen
<1>27. CASE SendPublish
  BY <1>0, <1>27 DEF SendPublish
<1>28. CASE UploadAborts
  BY <1>0, <1>28 DEF UploadAborts, UploadEnds
<1>29. ASSUME NEW part \in upload.inflight, PartStored(part)
      PROVE  (TornDownInOrder /\ NoError)'
  BY <1>0, <1>29 DEF PartStored
<1>30. ASSUME NEW part \in upload.inflight, PartFails(part)
      PROVE  (TornDownInOrder /\ NoError)'
  BY <1>0, <1>30 DEF PartFails
<1>31. CASE PublishSucceeds
  BY <1>0, <1>31 DEF PublishSucceeds, UploadEnds
<1>32. CASE PublishFails
  BY <1>0, <1>32 DEF PublishFails, UploadEnds
<1>33. CASE ServerPublishes
  BY <1>0, <1>33 DEF ServerPublishes
<1>34. CASE UploadReturned
  BY <1>0, <1>34 DEF UploadReturned
<1>35. CASE Return
  BY <1>0, <1>35 DEF Return, BackupResult, Joined
<1>36. CASE Signal
  BY <1>0, <1>36 DEF Signal
<1>37. CASE Crash
  BY <1>0, <1>37 DEF Crash
<1>38. CASE UNCHANGED vars
  BY <1>0, <1>38 DEF vars
<1>39. QED
  BY <1>1, <1>2, <1>3, <1>4, <1>5, <1>6, <1>7, <1>8, <1>9, <1>10, <1>11, <1>12, <1>13, <1>14, <1>15, <1>16, <1>17, <1>18, <1>19, <1>20, <1>21, <1>22, <1>23, <1>24, <1>25, <1>26, <1>27, <1>28, <1>29, <1>30, <1>31, <1>32, <1>33, <1>34, <1>35, <1>36, <1>37, <1>38
     DEF Next, Encoding, Producing, Encrypting, Canceling, Uploading, PartEnds,
         PublishEnds, Returning, Terminated

(***************************************************************************)
(* With no fault, no signal and no crash a backup never ends in an error,  *)
(* however large it is and however slowly its output drains                *)
(* (process.go:34).                                                        *)
(***************************************************************************)
THEOREM NoFaultNoError == Spec => []NoSpuriousFailure
<1>1. IInv /\ Healthy /\ [Next]_vars /\ IInv' => Healthy'
  BY HealthyStep
<1>2. Healthy => NoSpuriousFailure
  BY DEF Healthy, NoError, NoSpuriousFailure
<1>3. QED
  BY Invariance, HealthyInit, <1>1, <1>2, PTL DEF Spec

-----------------------------------------------------------------------------
(* The pipeline implements AtomicPublish.                                  *)

\* A bundle is never empty: it holds at least the ZIP footer.
LEMMA BundleNonempty == Bundle # {}
  BY ChunksAssumption, EncryptedAssumption DEF Bundle, Total

LEMMA AbstractInit == Init => Abstract!Init
  BY DEF Init, Abstract!Init

\* The request that takes effect publishes; Return reports; the rest stutters.
LEMMA AbstractStep == IInv /\ IInv' /\ [Next]_vars => [Abstract!Next]_(Abstract!vars)
<1> SUFFICES ASSUME IInv, IInv', [Next]_vars
             PROVE  [Abstract!Next]_(Abstract!vars)
  OBVIOUS
<1> USE DEF Abstract!Next, Abstract!vars
<1>1. CASE ServerPublishes
  <2>1. s3.request = Bundle /\ s3'.object = Bundle /\ main' = main
    BY <1>1 DEF ServerPublishes, IInv, TypeOK, S3Type, Published
  <2>2. QED
    BY <2>1, BundleNonempty DEF IInv, Published, Abstract!Publish
<1>2. CASE Return
  <2>1. s3' = s3 /\ main.result = "none" /\ main'.result \in {"ok", "error"}
    BY <1>2 DEF Return, BackupResult, IInv, LifeCycle, Published, TypeOK, MainType
  <2>2. main'.result = "ok" => s3.object = Bundle
    BY <1>2 DEF Return, IInv, LifeCycle, Published
  <2>3. QED
    BY <2>1, <2>2, BundleNonempty
       DEF IInv, Published, Abstract!Succeed, Abstract!Fail
<1>3. CASE ~ServerPublishes /\ ~Return
  <2>1. s3'.object = s3.object /\ main'.result = main.result
    <3>1. CASE SendPublish \/ UploadAborts \/ PublishFails
      BY <3>1 DEF SendPublish, UploadAborts, PublishFails, UploadEnds, IInv, TypeOK,
                  S3Type
    <3>2. CASE \E part \in upload.inflight : PartStored(part)
      BY <3>2 DEF PartStored, IInv, TypeOK, S3Type
    <3>3. CASE UploadReturned
      BY <3>3 DEF UploadReturned, IInv, TypeOK, MainType
    <3>4. CASE Encoding \/ OsPipeFails \/ Producing \/ ProduceChunk \/ ProduceFails
      BY <3>4 DEF Encoding, Producing, StartPlain, StartEncrypted, OsPipeFails,
         GpgReturns, CloseStream, ProduceChunk, ProduceSucceeds, ProduceFails,
         ProduceCanceled, WriteFails, WriteToGpg, ProducerEnds
    <3>5. CASE Encrypting \/ GpgFails \/ Canceling
      BY <3>5 DEF Encrypting, Canceling, GpgEncrypts, GpgFinishes, GpgKilled,
         GpgFails, GpgExits, CopierBreaks, CopierDrains, CloseReaderOnCancel,
         CloseWriterOnCancel
    <3>6. CASE \/ UploadStarts \/ UploadRefuses \/ ReadChunk \/ ReadEof \/ ReadFails
               \/ FlushPart \/ PartFailureSeen \/ PublishSucceeds
      BY <3>6 DEF UploadStarts, UploadRefuses, ReadChunk, ReadEof, ReadFails,
         FlushPart, PartFailureSeen, PublishSucceeds, UploadEnds
    <3>7. CASE \/ \E part \in upload.inflight : PartFails(part)
               \/ Signal \/ Crash \/ UNCHANGED vars
      BY <3>7 DEF PartFails, Signal, Crash, vars
    <3>8. QED
      BY <1>3, <3>1, <3>2, <3>3, <3>4, <3>5, <3>6, <3>7
         DEF Next, Uploading, PartEnds, PublishEnds, Returning, Terminated
  <2>2. QED
    BY <2>1
<1>4. QED
  BY <1>1, <1>2, <1>3

(***************************************************************************)
(* Seen from the bucket and from the caller the pipeline is AtomicPublish: *)
(* whole or absent, and "ok" only about an object that is there.           *)
(***************************************************************************)
THEOREM ImplementsAtomicPublish == Spec => PublishesAtomically
<1>1. QED
  BY Invariance, AbstractInit, AbstractStep, PTL
     DEF Spec, PublishesAtomically, Abstract!Spec
=============================================================================
