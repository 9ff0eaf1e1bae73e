--------------------------- MODULE GatewayProofs ----------------------------
(***************************************************************************)
(* Theorems about Gateway, for every value of its constants: the type      *)
(* invariant, and that an acknowledged batch is in the log.                *)
(***************************************************************************)
EXTENDS Gateway, TLAPS

-----------------------------------------------------------------------------
(* The CRDT *)

\* Importing operations never shows one that was not imported.
LEMMA VisibleIsPart ==
    ASSUME NEW S
    PROVE  Visible(S) \subseteq S
BY DEF Visible

\* Blobs carry operations.
LEMMA OpsOfBlobs ==
    ASSUME NEW blobs \in SUBSET Blobs
    PROVE  OpsOfAll(blobs) \in SUBSET Updates
BY LoroAssumption DEF OpsOfAll, OpsOf, Blobs

\* A batch is made of blobs.
LEMMA ContentOfBatch ==
    ASSUME NEW b \in Batches
    PROVE  Content[b] \in SUBSET Blobs
BY RoomAssumption

\* A delta log holds blobs.
LEMMA HistoryOfDelta ==
    ASSUME NEW log \in Seq(DeltaRequests)
    PROVE  HistoryOf(log) \in SUBSET Blobs
<1> SUFFICES ASSUME NEW i \in DOMAIN log
             PROVE  Content[log[i].body] \in SUBSET Blobs
    BY DEF HistoryOf
<1>1. log[i] \in DeltaRequests
    OBVIOUS
<1>2. log[i].body \in Batches
    BY <1>1 DEF DeltaRequests
<1> QED BY <1>2, ContentOfBatch

\* What one delta log restores has the types of a document and a history.
LEMMA LoadFromTypes ==
    ASSUME NEW log \in Seq(DeltaRequests), LoadFrom(log)
    PROVE  /\ endOffset' \in Nat
           /\ history' \in SUBSET Blobs
           /\ doc' \in SUBSET Updates
<1>1. HistoryOf(log) \in SUBSET Blobs
    BY HistoryOfDelta
<1>2. Visible(OpsOfAll(HistoryOf(log))) \in SUBSET Updates
    BY <1>1, OpsOfBlobs, VisibleIsPart
<1>3. Len(log) \in Nat
    OBVIOUS
<1> QED BY <1>1, <1>2, <1>3 DEF LoadFrom

-----------------------------------------------------------------------------
(* Names *)

\* The three kinds of stream are streams of the room, and are distinct.
LEMMA StreamNames ==
    /\ Manifest \in Streams
    /\ \A g \in Generations : /\ Delta(g) \in Streams
                              /\ Checkpoint(g) \in Streams
                              /\ Manifest # Delta(g)
                              /\ Manifest # Checkpoint(g)
    /\ \A g, h \in Generations : Delta(g) # Checkpoint(h)
BY DEF Manifest, Delta, Checkpoint, Streams

\* The producers the actor appends with.
LEMMA ProducerNames ==
    /\ ManifestProducer \in Producers
    /\ \A g \in Generations : CheckpointProducer(g) \in Producers
    /\ \A b \in Boots, g \in Generations : DeltaProducer(b, g) \in Producers
BY DEF Producers

\* Generations are natural numbers and zero is one of them.
LEMMA GenerationNumbers ==
    /\ Generations \subseteq Nat
    /\ 0 \in Generations
    /\ \A g \in Generations : g < MaxGeneration =>
          g \in SealedGenerations /\ g + 1 \in Generations
    /\ \A g \in SealedGenerations : g \in Generations /\ g + 1 \in Generations
BY NamesAssumption DEF Generations, SealedGenerations

\* Every request is addressed to a stream of the room.
LEMMA RequestStreams ==
    ASSUME NEW r \in Requests
    PROVE  r.stream \in Streams
BY StreamNames DEF Requests, DeltaRequests, CheckpointRequests, ManifestRequests,
                   DeltaStreams

-----------------------------------------------------------------------------
(* What reads return *)

\* A log within the limit is one that the store answers.
LEMMA ReadableIsRead ==
    ASSUME NEW s
    PROVE  Readable(s) \subseteq ReadAll(s)
BY DEF Readable

\* A read returns records of the stream that was read.
LEMMA ReadOfStream ==
    ASSUME StoreTypeOK, NEW s \in Streams, NEW log \in ReadAll(s)
    PROVE  /\ log \in Seq(Requests)
           /\ \A i \in DOMAIN log : log[i] \in Requests /\ log[i].stream = s
<1>1. streams[s] \in Seq(Requests)
    BY DEF StoreTypeOK
<1>2. \A i \in DOMAIN streams[s] : streams[s][i].stream = s
    BY DEF StoreTypeOK
<1>3. CASE log = streams[s]
    BY <1>1, <1>2, <1>3
<1>4. ASSUME NEW n \in 0 .. Len(streams[s]), log = SubSeq(streams[s], 1, n)
      PROVE  /\ log \in Seq(Requests)
             /\ \A i \in DOMAIN log : log[i] \in Requests /\ log[i].stream = s
    <2>1. log \in Seq(Requests) /\ Len(log) = n
        BY <1>1, <1>4
    <2>2. \A i \in 1 .. n : log[i] = streams[s][i]
        BY <1>1, <1>4
    <2> QED BY <1>1, <1>2, <2>1, <2>2
<1> QED BY <1>3, <1>4 DEF ReadAll

\* A delta that was read holds frames.
LEMMA ReadOfDelta ==
    ASSUME StoreTypeOK, NEW g \in Generations, NEW log \in ReadAll(Delta(g))
    PROVE  log \in Seq(DeltaRequests)
<1>1. /\ log \in Seq(Requests)
      /\ \A i \in DOMAIN log : log[i] \in Requests /\ log[i].stream = Delta(g)
    BY ReadOfStream, StreamNames
<1>2. ASSUME NEW i \in DOMAIN log
      PROVE  log[i] \in DeltaRequests
    BY <1>1, StreamNames DEF Requests, CheckpointRequests, ManifestRequests
<1> QED BY <1>1, <1>2

\* A delta found corrupt leaves an end offset of the right type.
LEMMA LoadCorruptTypes ==
    ASSUME StoreTypeOK, ActorTypeOK, LoadCorrupt
    PROVE  endOffset' \in Nat
<1>1. ASSUME NEW log \in ReadAll(Delta(generation)), endOffset' = Len(log)
      PROVE  endOffset' \in Nat
    <2>1. log \in Seq(DeltaRequests)
        BY ReadOfDelta DEF ActorTypeOK
    <2> QED BY <1>1, <2>1
<1> QED BY <1>1 DEF LoadCorrupt, ActorTypeOK

\* A manifest that was read holds manifest records.
LEMMA ReadOfManifest ==
    ASSUME StoreTypeOK, NEW log \in ReadAll(Manifest), log # <<>>
    PROVE  Latest(log) \in ManifestRecords
<1>1. /\ log \in Seq(Requests)
      /\ \A i \in DOMAIN log : log[i] \in Requests /\ log[i].stream = Manifest
    BY ReadOfStream, StreamNames
<1>2. Len(log) \in DOMAIN log
    BY <1>1
<1>3. log[Len(log)] \in ManifestRequests
    BY <1>1, <1>2, StreamNames DEF Requests, CheckpointRequests, DeltaRequests, DeltaStreams
<1> QED BY <1>3 DEF Latest, ManifestRequests

-----------------------------------------------------------------------------
(* What one append does to the store *)

\* The store grows by at most request r, in r's own stream.
LEMMA StoreStepTypes ==
    ASSUME StoreTypeOK, NEW r \in Requests,
           \/ Commits(r) \/ Deduplicates(r) \/ Lost(r) \/ Rejects(r) \/ Deliver(r)
    PROVE  StoreTypeOK'
<1> DEFINE Extended == [streams EXCEPT ![r.stream] = Append(@, r)]
<1>1. r.stream \in Streams
    BY RequestStreams
<1>2. \/ streams' = streams
      \/ streams' = Extended
    BY DEF Commits, Deduplicates, Lost, Rejects, Deliver, storeVars
<1>3. inflight' \subseteq inflight \cup {r}
    BY DEF Commits, Deduplicates, Lost, Rejects, Deliver, storeVars
<1>4. inflight' \subseteq Requests
    BY <1>3 DEF StoreTypeOK
<1>5. CASE streams' = streams
    BY <1>4, <1>5 DEF StoreTypeOK
<1>6. CASE streams' = Extended
    <2>1. streams \in [Streams -> Seq(Requests)]
        BY DEF StoreTypeOK
    <2>2. Append(streams[r.stream], r) \in Seq(Requests)
        BY <1>1, <2>1
    <2>3. streams' \in [Streams -> Seq(Requests)]
        BY <1>1, <1>6, <2>1, <2>2
    <2>4. ASSUME NEW s \in Streams, NEW i \in DOMAIN streams'[s]
          PROVE  streams'[s][i].stream = s
        <3>1. CASE s # r.stream
            BY <1>1, <1>6, <2>1, <2>4, <3>1 DEF StoreTypeOK
        <3>2. CASE s = r.stream
            <4>1. streams'[s] = Append(streams[s], r)
                BY <1>1, <1>6, <2>1, <3>2
            <4>2. streams[s] \in Seq(Requests)
                BY <2>1
            <4>3. CASE i \in DOMAIN streams[s]
                BY <4>1, <4>2, <4>3 DEF StoreTypeOK
            <4>4. CASE i = Len(streams[s]) + 1
                BY <3>2, <4>1, <4>2, <4>4
            <4> QED BY <2>4, <4>1, <4>2, <4>3, <4>4
        <3> QED BY <3>1, <3>2
    <2> QED BY <1>4, <2>3, <2>4 DEF StoreTypeOK
<1> QED BY <1>2, <1>5, <1>6

\* A step that leaves the store alone.
LEMMA StoreUnchanged ==
    ASSUME StoreTypeOK, UNCHANGED storeVars
    PROVE  StoreTypeOK'
BY DEF StoreTypeOK, storeVars

\* The steps whose outcome is not known are steps of the store as well.
LEMMA OutcomeUnknownTypes ==
    ASSUME StoreTypeOK, request \in Requests,
           OutcomeUnknown \/ Rejects(request) \/ Proved(request)
    PROVE  StoreTypeOK'
BY StoreStepTypes DEF OutcomeUnknown, Proved

-----------------------------------------------------------------------------
(* The type invariant, action by action *)

USE DEF UpdatePoints, RotationPoints, RecoveryPoints, ProgramPoints, AppendPoints,
        CheckpointPoints, RecordPoints, Lifecycles

\* Init starts with empty streams and an actor about to read the manifest.
LEMMA TypeInit ==
    ASSUME Init
    PROVE  TypeOK
<1>1. StoreTypeOK
    BY DEF Init, UrsulaInit, StoreTypeOK
<1>2. ActorTypeOK
    BY GenerationNumbers, NamesAssumption DEF Init, ActorTypeOK, Boots
<1> QED BY <1>1, <1>2 DEF TypeOK

\* Commands.
LEMMA TypeCommand ==
    ASSUME TypeOK, Command
    PROVE  TypeOK'
<1> USE DEF TypeOK, Idle
<1>1. ASSUME NEW c \in Connections, Join(c)
      PROVE  TypeOK'
    <2>1. StoreTypeOK'
        BY <1>1, StoreUnchanged DEF Join
    <2>2. ActorTypeOK'
        BY <1>1 DEF Join, JoinReply, ActorTypeOK, docVars, appendVars, controlVars
    <2> QED BY <2>1, <2>2
<1>2. ASSUME NEW c \in Connections, Leave(c)
      PROVE  TypeOK'
    <2>1. StoreTypeOK'
        BY <1>2, StoreUnchanged DEF Leave
    <2>2. ActorTypeOK'
        BY <1>2 DEF Leave, ActorTypeOK, docVars, appendVars, controlVars
    <2> QED BY <2>1, <2>2
<1>3. ASSUME NEW c \in Connections, NEW b \in Batches, Update(c, b)
      PROVE  TypeOK'
    <2>1. StoreTypeOK'
        BY <1>3, StoreUnchanged DEF Update
    <2>2. Frame(b) \in DeltaRequests
        BY ProducerNames DEF Frame, Request, DeltaRequests, DeltaStreams, ActorTypeOK
    <2>3. ActorTypeOK'
        BY <1>3, <2>2 DEF Update, ActorTypeOK, docVars, peerVars, controlVars
    <2> QED BY <2>1, <2>3
<1>4. ASSUME RetryAmbiguous
      PROVE  TypeOK'
    <2>1. StoreTypeOK'
        BY <1>4, StoreUnchanged DEF RetryAmbiguous
    <2>2. ActorTypeOK'
        BY <1>4 DEF RetryAmbiguous, ActorTypeOK, docVars, peerVars, controlVars
    <2> QED BY <2>1, <2>2
<1>5. ASSUME Rotate
      PROVE  TypeOK'
    <2>1. StoreTypeOK'
        BY <1>5, StoreUnchanged DEF Rotate
    <2>2. BuildCheckpoint \in CheckpointRecords
        BY <1>5, GenerationNumbers
        DEF Rotate, BuildCheckpoint, CheckpointRecord, CheckpointRecords, ActorTypeOK
    <2>3. ActorTypeOK'
        BY <1>5, <2>2 DEF Rotate, GoOn, GiveUp, Return, RotationFrame, ActorTypeOK,
                          docVars, peerVars
    <2> QED BY <2>1, <2>3
<1> QED BY <1>1, <1>2, <1>3, <1>4, <1>5 DEF Command

\* Accepting an update keeps the types.
LEMMA TypeAccept ==
    ASSUME ActorTypeOK, pc = "append", NEW end \in Nat, Accept(end)
    PROVE  ActorTypeOK'
<1>1. request \in DeltaRequests /\ request.body \in Batches
    BY DEF ActorTypeOK, DeltaRequests
<1>2. Content[request.body] \in SUBSET Blobs
    BY <1>1, ContentOfBatch
<1>3. OpsOfAll(Content[request.body]) \in SUBSET Updates
    BY <1>2, OpsOfBlobs
<1>4. Candidate(Content[request.body]) \in SUBSET Updates
    <2>1. history \cup Content[request.body] \in SUBSET Blobs
        BY <1>2 DEF ActorTypeOK
    <2>2. doc \cup OpsOfAll(history \cup Content[request.body]) \in SUBSET Updates
        BY <2>1, OpsOfBlobs DEF ActorTypeOK
    <2> QED BY <2>2, VisibleIsPart DEF Candidate
<1>5. heard' \in [Connections -> SUBSET Updates]
    BY <1>3 DEF Accept, ActorTypeOK
<1> QED BY <1>1, <1>2, <1>4, <1>5 DEF Accept, Return, ActorTypeOK, controlVars

\* The end offsets a proof of durability can carry are natural numbers.
LEMMA EndOffsets ==
    ASSUME StoreTypeOK, NEW r \in Requests
    PROVE  /\ CommittedEnd(r) \in Nat
           /\ VerifiedFrame(r) => DuplicateEnd(r) \in Nat
<1>1. streams[r.stream] \in Seq(Requests)
    BY RequestStreams DEF StoreTypeOK
<1> QED BY <1>1 DEF CommittedEnd, VerifiedFrame

\* The steps of an update and of a retry.
LEMMA TypeAppendSteps ==
    ASSUME TypeOK,
           \/ UpdateCommitted \/ UpdateVerified \/ AppendAgain
           \/ UpdateUnknown \/ UpdateRejected
           \/ RetryResolved \/ RetryUnknown \/ RetryRejected
           \/ Reload \/ ReloadFails
    PROVE  TypeOK'
<1> USE DEF TypeOK
<1>1. pc \in UpdatePoints
    BY DEF UpdateCommitted, UpdateVerified, AppendAgain, UpdateUnknown,
           UpdateRejected, RetryResolved, RetryUnknown, RetryRejected, Reload,
           ReloadFails
<1>2. request \in DeltaRequests /\ request \in Requests
    BY <1>1 DEF ActorTypeOK, Requests
<1>3. CASE UpdateCommitted
    <2>1. StoreTypeOK'
        BY <1>2, <1>3, StoreStepTypes DEF UpdateCommitted
    <2>2. ActorTypeOK'
        BY <1>2, <1>3, EndOffsets, TypeAccept DEF UpdateCommitted
    <2> QED BY <2>1, <2>2
<1>4. CASE UpdateVerified
    <2>1. StoreTypeOK'
        BY <1>2, <1>4, StoreStepTypes DEF UpdateVerified
    <2>2. ActorTypeOK'
        BY <1>2, <1>4, EndOffsets, TypeAccept DEF UpdateVerified
    <2> QED BY <2>1, <2>2
<1>5. CASE AppendAgain
    <2>1. StoreTypeOK'
        BY <1>2, <1>5, StoreStepTypes DEF AppendAgain
    <2>2. ActorTypeOK'
        BY <1>5 DEF AppendAgain, ActorTypeOK, docVars, peerVars, controlVars
    <2> QED BY <2>1, <2>2
<1>6. CASE UpdateUnknown
    <2>1. StoreTypeOK'
        BY <1>2, <1>6, OutcomeUnknownTypes DEF UpdateUnknown
    <2>2. ActorTypeOK'
        BY <1>2, <1>6 DEF UpdateUnknown, Return, ActorTypeOK, docVars, peerVars,
                          controlVars
    <2> QED BY <2>1, <2>2
<1>7. CASE UpdateRejected
    <2>1. StoreTypeOK'
        BY <1>2, <1>7, StoreStepTypes DEF UpdateRejected
    <2>2. ActorTypeOK'
        BY <1>7 DEF UpdateRejected, Return, ActorTypeOK, docVars, peerVars,
                    controlVars
    <2> QED BY <2>1, <2>2
<1>8. CASE RetryResolved
    <2>1. StoreTypeOK'
        BY <1>2, <1>8, OutcomeUnknownTypes DEF RetryResolved
    <2>2. ActorTypeOK'
        BY <1>2, <1>8 DEF RetryResolved, ActorTypeOK, docVars, peerVars, appendVars,
                          controlVars
    <2> QED BY <2>1, <2>2
<1>9. CASE RetryUnknown
    <2>1. StoreTypeOK'
        BY <1>2, <1>9, OutcomeUnknownTypes DEF RetryUnknown
    <2>2. ActorTypeOK'
        BY <1>2, <1>9 DEF RetryUnknown, StayBlocked, Return, ActorTypeOK, docVars,
                          peerVars, controlVars
    <2> QED BY <2>1, <2>2
<1>10. CASE RetryRejected
    <2>1. StoreTypeOK'
        BY <1>2, <1>10, StoreStepTypes DEF RetryRejected
    <2>2. ActorTypeOK'
        BY <1>2, <1>10 DEF RetryRejected, StayBlocked, Return, ActorTypeOK, docVars,
                           peerVars, controlVars
    <2> QED BY <2>1, <2>2
<1>11. CASE Reload
    <2>1. StoreTypeOK'
        BY <1>11, StoreUnchanged DEF Reload
    <2>2. PICK log \in Readable(Delta(generation)) : LoadFrom(log)
        BY <1>11 DEF Reload
    <2>3. log \in Seq(DeltaRequests)
        BY <2>2, ReadOfDelta, ReadableIsRead DEF ActorTypeOK
    <2>4. endOffset' \in Nat /\ history' \in SUBSET Blobs /\ doc' \in SUBSET Updates
        BY <2>2, <2>3, LoadFromTypes
    <2>5. producerSequence' \in Nat
        BY <1>2, <1>11 DEF Reload, DeltaRequests
    <2>6. ActorTypeOK'
        BY <1>11, <2>4, <2>5 DEF Reload, Return, ActorTypeOK, peerVars, controlVars
    <2> QED BY <2>1, <2>6
<1>12. CASE ReloadFails
    <2>1. StoreTypeOK'
        BY <1>12, StoreUnchanged DEF ReloadFails
    <2>2. endOffset' \in Nat
        BY <1>12, LoadCorruptTypes DEF ReloadFails, ActorTypeOK
    <2>3. ActorTypeOK'
        BY <1>2, <1>12, <2>2 DEF ReloadFails, Return, ActorTypeOK, peerVars,
                                 controlVars
    <2> QED BY <2>1, <2>3
<1> QED BY <1>3, <1>4, <1>5, <1>6, <1>7, <1>8, <1>9, <1>10, <1>11, <1>12

\* Going on, giving up and submitting, which every rotation step ends with.
LEMMA TypeGiveUp ==
    ASSUME ActorTypeOK, GiveUp
    PROVE  ActorTypeOK'
BY DEF GiveUp, Return, RotationFrame, ActorTypeOK, docVars, peerVars

\* A rotation that goes on to its next store call.
LEMMA TypeGoOn ==
    ASSUME ActorTypeOK, pc \in RotationPoints, UNCHANGED checkpoint,
           \/ GoOn("prepare") /\ UNCHANGED record /\ record = None
           \/ GoOn("position") /\ UNCHANGED record /\ record = None
           \/ GoOn("publish") /\ record' \in ManifestRecords
           \/ GoOn("switch") /\ UNCHANGED record /\ record \in ManifestRecords
    PROVE  ActorTypeOK'
BY DEF GoOn, RotationFrame, ActorTypeOK, docVars, peerVars

\* A rotation that submits a checkpoint or a manifest record.
LEMMA TypeSubmit ==
    ASSUME ActorTypeOK, UNCHANGED controlVars, NEW r,
           \/ /\ pc = "persist" /\ r \in CheckpointRequests
              /\ Submit(r, "appendCheckpoint")
           \/ /\ pc = "publish" /\ r \in ManifestRequests
              /\ Submit(r, "appendManifest")
    PROVE  ActorTypeOK'
BY DEF Submit, RotationFrame, ActorTypeOK, docVars, peerVars, controlVars

\* The steps of a rotation.
LEMMA TypeRotationSteps ==
    ASSUME TypeOK,
           \/ Persist \/ CheckpointAppended \/ ExactAppendAgain \/ ExactAppendFails
           \/ Prepare \/ Position \/ Publish \/ ManifestAppended
           \/ Switch \/ StoreCallFails
    PROVE  TypeOK'
<1> USE DEF TypeOK
<1>1. CASE Persist
    <2>1. StoreTypeOK'
        BY <1>1, StoreUnchanged DEF Persist
    <2>2. CheckpointRequest \in CheckpointRequests
        BY <1>1, ProducerNames
        DEF Persist, CheckpointRequest, Request, CheckpointRequests, ActorTypeOK
    <2>3. ActorTypeOK'
        BY <1>1, <2>2, TypeGiveUp, TypeGoOn, TypeSubmit
        DEF Persist, controlVars, ActorTypeOK
    <2> QED BY <2>1, <2>3
<1>2. CASE CheckpointAppended
    <2>1. request \in Requests
        BY <1>2 DEF CheckpointAppended, ActorTypeOK, Requests
    <2>2. StoreTypeOK'
        BY <1>2, <2>1, StoreStepTypes DEF CheckpointAppended, Appended
    <2>3. ActorTypeOK'
        BY <1>2, TypeGoOn DEF CheckpointAppended, controlVars, ActorTypeOK
    <2> QED BY <2>2, <2>3
<1>3. CASE ExactAppendAgain
    <2>1. request \in Requests
        BY <1>3 DEF ExactAppendAgain, ActorTypeOK, Requests
    <2>2. StoreTypeOK'
        BY <1>3, <2>1, StoreStepTypes DEF ExactAppendAgain
    <2>3. ActorTypeOK'
        BY <1>3 DEF ExactAppendAgain, ActorTypeOK, docVars, peerVars, controlVars
    <2> QED BY <2>2, <2>3
<1>4. CASE ExactAppendFails
    <2>1. request \in Requests
        BY <1>4 DEF ExactAppendFails, ActorTypeOK, Requests
    <2>2. StoreTypeOK'
        BY <1>4, <2>1, OutcomeUnknownTypes DEF ExactAppendFails
    <2>3. ActorTypeOK'
        BY <1>4, TypeGiveUp DEF ExactAppendFails
    <2> QED BY <2>2, <2>3
<1>5. CASE Prepare
    <2>1. StoreTypeOK'
        BY <1>5, StoreUnchanged DEF Prepare
    <2>2. ActorTypeOK'
        BY <1>5, TypeGiveUp, TypeGoOn DEF Prepare, controlVars, ActorTypeOK
    <2> QED BY <2>1, <2>2
<1>6. CASE Position
    <2>1. StoreTypeOK'
        BY <1>6, StoreUnchanged DEF Position
    <2>2. PICK log \in Readable(Manifest) :
              \/ /\ record' = ManifestRecord(
                         IF log = <<>> THEN 0 ELSE Latest(log).revision + 1,
                         checkpoint)
                 /\ GoOn("publish")
                 /\ UNCHANGED checkpoint
              \/ GiveUp
        BY <1>6 DEF Position
    <2>3. (IF log = <<>> THEN 0 ELSE Latest(log).revision + 1) \in Nat
        BY <2>2, ReadOfManifest, ReadableIsRead DEF ManifestRecords
    <2>4. checkpoint \in CheckpointRecords
        BY <1>6 DEF Position, ActorTypeOK
    <2>5. ManifestRecord(IF log = <<>> THEN 0 ELSE Latest(log).revision + 1,
                         checkpoint) \in ManifestRecords
        BY <2>3, <2>4 DEF ManifestRecord, ManifestRecords
    <2>6. ActorTypeOK'
        BY <1>6, <2>2, <2>5, TypeGiveUp, TypeGoOn DEF Position
    <2> QED BY <2>1, <2>6
<1>7. CASE Publish
    <2>1. StoreTypeOK'
        BY <1>7, StoreUnchanged DEF Publish
    <2>2. record \in ManifestRecords
        BY <1>7 DEF Publish, ActorTypeOK
    <2>3. ManifestRequest \in ManifestRequests
        BY <2>2, ProducerNames
        DEF ManifestRequest, Request, ManifestRequests, ManifestRecords
    <2>4. ActorTypeOK'
        BY <1>7, <2>2, <2>3, TypeGiveUp, TypeGoOn, TypeSubmit
        DEF Publish, controlVars
    <2> QED BY <2>1, <2>4
<1>8. CASE ManifestAppended
    <2>1. request \in Requests
        BY <1>8 DEF ManifestAppended, ActorTypeOK, Requests
    <2>2. StoreTypeOK'
        BY <1>8, <2>1, StoreStepTypes DEF ManifestAppended, Appended
    <2>3. ActorTypeOK'
        BY <1>8, TypeGoOn DEF ManifestAppended, controlVars, ActorTypeOK
    <2> QED BY <2>2, <2>3
<1>9. CASE Switch
    <2>1. StoreTypeOK'
        BY <1>9, StoreUnchanged DEF Switch
    <2>2. checkpoint \in CheckpointRecords /\ generation < MaxGeneration
        BY <1>9 DEF Switch, ActorTypeOK
    <2>3. RetainedHistory(checkpoint) \in SUBSET Blobs
        BY <2>2 DEF RetainedHistory, CheckpointRecords
    <2>4. generation + 1 \in Generations
        BY <2>2, GenerationNumbers DEF ActorTypeOK
    <2>5. ActorTypeOK'
        BY <1>9, <2>3, <2>4 DEF Switch, Return, ActorTypeOK, peerVars
    <2> QED BY <2>1, <2>5
<1>10. CASE StoreCallFails
    <2>1. StoreTypeOK'
        BY <1>10, StoreUnchanged DEF StoreCallFails
    <2>2. ActorTypeOK'
        BY <1>10, TypeGiveUp DEF StoreCallFails
    <2> QED BY <2>1, <2>2
<1> QED BY <1>1, <1>2, <1>3, <1>4, <1>5, <1>6, <1>7, <1>8, <1>9, <1>10

\* The steps of an activation.
LEMMA TypeRecoverySteps ==
    ASSUME TypeOK,
           \/ ReadManifest \/ ReplayLegacy \/ ReadCheckpoint \/ ReadDelta
           \/ ActivationFails
    PROVE  TypeOK'
<1> USE DEF TypeOK
<1>1. StoreTypeOK'
    BY StoreUnchanged DEF ReadManifest, ReplayLegacy, ReadCheckpoint, ReadDelta,
       ActivationFails, Continue, FailActivation, Activated
<1>2. ASSUME NEW state \in Lifecycles, FailActivation(state)
      PROVE  ActorTypeOK'
    BY <1>2 DEF FailActivation, Activated, Return, ActorTypeOK, peerVars
<1>3. ASSUME ReadManifest
      PROVE  ActorTypeOK'
    <2>1. PICK log \in Readable(Manifest) :
              \/ Continue("replay") /\ UNCHANGED controlVars
              \/ /\ log # <<>> /\ record' = Latest(log)
                 /\ Continue("readCheckpoint") /\ UNCHANGED checkpoint
              \/ FailActivation("corrupt")
        BY <1>3 DEF ReadManifest
    <2>2. log # <<>> => Latest(log) \in ManifestRecords
        BY <2>1, ReadOfManifest, ReadableIsRead
    <2> QED BY <1>2, <1>3, <2>1, <2>2
            DEF ReadManifest, Continue, ActorTypeOK, docVars, peerVars, appendVars,
                controlVars
<1>4. ASSUME ReplayLegacy
      PROVE  ActorTypeOK'
    <2>1. ASSUME NEW log \in Readable(Delta(generation)), LoadFrom(log)
          PROVE  endOffset' \in Nat /\ history' \in SUBSET Blobs /\ doc' \in SUBSET Updates
        <3>1. log \in Seq(DeltaRequests)
            BY ReadOfDelta, ReadableIsRead DEF ActorTypeOK
        <3> QED BY <2>1, <3>1, LoadFromTypes
    <2>2. endOffset' \in Nat /\ history' \in SUBSET Blobs /\ doc' \in SUBSET Updates
        BY <1>4, <2>1, LoadCorruptTypes DEF ReplayLegacy, ActorTypeOK
    <2>3. \E state \in {"ready", "corrupt"} : Activated(state)
        BY <1>4 DEF ReplayLegacy
    <2> QED BY <1>4, <2>2, <2>3 DEF ReplayLegacy, Activated, Return, ActorTypeOK, peerVars
<1>5. ASSUME ReadCheckpoint
      PROVE  ActorTypeOK'
    <2>1. record \in ManifestRecords
        BY <1>5 DEF ReadCheckpoint, ActorTypeOK
    <2>2. record.checkpoint \in CheckpointRecords
        BY <2>1 DEF ManifestRecords
    <2> QED BY <1>2, <1>5, <2>1, <2>2
            DEF ReadCheckpoint, Continue, ActorTypeOK, docVars, peerVars, appendVars
<1>6. ASSUME ReadDelta
      PROVE  ActorTypeOK'
    <2>1. checkpoint \in CheckpointRecords /\ record.checkpoint \in CheckpointRecords
        BY <1>6 DEF ReadDelta, ActorTypeOK, ManifestRecords
    <2>2. ActiveDelta(record) \in Generations
        BY <2>1, GenerationNumbers DEF ActiveDelta, CheckpointRecords
    <2>3. PICK log \in Readable(Delta(ActiveDelta(record))) :
              LET retained == checkpoint.pending \cup HistoryOf(log) IN
              /\ generation' = ActiveDelta(record)
              /\ endOffset' = Len(log)
              /\ history' = retained
              /\ doc' = Visible(checkpoint.snapshot \cup OpsOfAll(retained))
        BY <1>6 DEF ReadDelta
    <2>4. log \in Seq(DeltaRequests)
        BY <2>2, ReadOfDelta, ReadableIsRead
    <2>5. checkpoint.pending \cup HistoryOf(log) \in SUBSET Blobs
        BY <2>1, <2>4, HistoryOfDelta DEF CheckpointRecords
    <2>6. checkpoint.snapshot \cup OpsOfAll(checkpoint.pending \cup HistoryOf(log))
              \in SUBSET Updates
        BY <2>1, <2>5, OpsOfBlobs DEF CheckpointRecords
    <2>7. doc' \in SUBSET Updates
        BY <2>3, <2>6, VisibleIsPart
    <2>8. endOffset' \in Nat
        BY <2>3, <2>4
    <2> QED BY <1>6, <2>2, <2>3, <2>5, <2>7, <2>8
            DEF ReadDelta, Activated, Return, ActorTypeOK, peerVars
<1>7. ASSUME ActivationFails
      PROVE  ActorTypeOK'
    BY <1>2, <1>7 DEF ActivationFails
<1> QED BY <1>1, <1>3, <1>4, <1>5, <1>6, <1>7

\* What happens around the actor.
LEMMA TypeEnvironment ==
    ASSUME TypeOK, LateDelivery \/ Crash
    PROVE  TypeOK'
<1> USE DEF TypeOK
<1>1. CASE LateDelivery
    <2>1. PICK r \in inflight : Deliver(r)
        BY <1>1 DEF LateDelivery
    <2>2. r \in Requests
        BY <2>1 DEF StoreTypeOK
    <2>3. StoreTypeOK'
        BY <2>1, <2>2, StoreStepTypes
    <2>4. ActorTypeOK'
        BY <1>1 DEF LateDelivery, ActorTypeOK, docVars, peerVars, appendVars,
                    controlVars
    <2> QED BY <2>3, <2>4
<1>2. CASE Crash
    <2>1. StoreTypeOK'
        BY <1>2 DEF Crash, LoseConnections, StoreTypeOK
    <2>2. boot' \in Boots
        BY <1>2, NamesAssumption DEF Crash, Boots, ActorTypeOK
    <2>3. ActorTypeOK'
        BY <1>2, <2>2, GenerationNumbers DEF Crash, ActorTypeOK
    <2> QED BY <2>1, <2>3
<1> QED BY <1>1, <1>2

\* Every step keeps the types.
LEMMA TypeStep ==
    ASSUME TypeOK, [Next]_vars
    PROVE  TypeOK'
<1>1. CASE Command
    BY <1>1, TypeCommand
<1>2. CASE ActorStep
    BY <1>2, TypeAppendSteps, TypeRotationSteps, TypeRecoverySteps DEF ActorStep
<1>3. CASE LateDelivery \/ Crash
    BY <1>3, TypeEnvironment
<1>4. CASE UNCHANGED vars
    BY <1>4 DEF vars, storeVars, docVars, peerVars, appendVars, controlVars,
                TypeOK, StoreTypeOK, ActorTypeOK
<1> QED BY <1>1, <1>2, <1>3, <1>4 DEF Next

\* Type correctness of the gateway: streams hold only what was sent to them, and
\* a command's locals exist exactly at the awaits that use them (actor.rs,
\* rotation.rs, recovery.rs).
THEOREM TypeCorrect == Spec => []TypeOK
<1>1. Init => TypeOK
    BY TypeInit
<1>2. TypeOK /\ [Next]_vars => TypeOK'
    BY TypeStep
<1> QED BY <1>1, <1>2, PTL DEF Spec

-----------------------------------------------------------------------------
(* The log only grows, and an ack follows the append *)

\* Requests that may reach the store now: late ones, and the one under way.
Sending == inflight \cup {r \in {request} : pc \in AppendPoints}

\* What a step may do to the streams: nothing, or append one of those requests,
\* in the order of its producer.
Grows ==
    \/ streams' = streams
    \/ \E r \in Sending :
          /\ InOrder(r)
          /\ streams' = [streams EXCEPT ![r.stream] = Append(@, r)]

\* They are requests the gateway makes.
LEMMA SendingTypes ==
    ASSUME TypeOK
    PROVE  Sending \subseteq Requests
BY DEF TypeOK, StoreTypeOK, ActorTypeOK, Sending, Requests

\* One append, whatever became of its answer, lets the streams grow.
LEMMA AppendGrows ==
    ASSUME NEW r \in Sending,
           \/ Commits(r) \/ Deduplicates(r) \/ Lost(r) \/ Rejects(r) \/ Deliver(r)
    PROVE  Grows /\ inflight' \subseteq inflight \cup {r}
BY DEF Commits, Deduplicates, Lost, Rejects, Deliver, storeVars, Grows

\* So does every step of the gateway, and what it leaves in flight was sent.
LEMMA StepGrows ==
    ASSUME TypeOK, [Next]_vars
    PROVE  Grows /\ inflight' \subseteq Sending
<1> USE DEF TypeOK
<1>0. inflight \subseteq Sending
    BY DEF Sending
<1>1. CASE UNCHANGED storeVars
    BY <1>0, <1>1 DEF storeVars, Grows
<1>2. CASE UNCHANGED vars
    BY <1>0, <1>2 DEF vars, storeVars, Grows
<1>3. CASE Command
    BY <1>1, <1>3 DEF Command, Join, Leave, Update, RetryAmbiguous, Rotate
<1>4. CASE ActorStep
    <2>1. ASSUME pc \in AppendPoints
          PROVE  request \in Sending
        BY <2>1 DEF Sending
    <2>2. CASE UpdateCommitted \/ UpdateVerified \/ AppendAgain \/ UpdateUnknown
                  \/ UpdateRejected
        BY <1>0, <2>1, <2>2, AppendGrows
        DEF UpdateCommitted, UpdateVerified, AppendAgain, UpdateUnknown,
            UpdateRejected, OutcomeUnknown
    <2>3. CASE RetryResolved \/ RetryUnknown \/ RetryRejected
        BY <1>0, <2>1, <2>3, AppendGrows
        DEF RetryResolved, RetryUnknown, RetryRejected, OutcomeUnknown, Proved
    <2>4. CASE CheckpointAppended \/ ManifestAppended \/ ExactAppendAgain
                  \/ ExactAppendFails
        BY <1>0, <2>1, <2>4, AppendGrows
        DEF CheckpointAppended, ManifestAppended, ExactAppendAgain,
            ExactAppendFails, OutcomeUnknown, Appended
    <2>5. CASE Reload \/ ReloadFails \/ Persist \/ Prepare \/ Position \/ Publish
                  \/ Switch \/ StoreCallFails
        BY <1>1, <2>5 DEF Reload, ReloadFails, Persist, Prepare, Position, Publish,
                          Switch, StoreCallFails
    <2>6. CASE ReadManifest \/ ReplayLegacy \/ ReadCheckpoint \/ ReadDelta
                  \/ ActivationFails
        BY <1>1, <2>6 DEF ReadManifest, ReplayLegacy, ReadCheckpoint, ReadDelta,
                          ActivationFails, Continue, FailActivation, Activated
    <2> QED BY <1>4, <2>2, <2>3, <2>4, <2>5, <2>6 DEF ActorStep
<1>5. CASE LateDelivery
    BY <1>0, <1>5, AppendGrows DEF LateDelivery
<1>6. CASE Crash
    BY <1>0, <1>6 DEF Crash, LoseConnections, Grows
<1> QED BY <1>2, <1>3, <1>4, <1>5, <1>6 DEF Next

\* A record stays where it was appended.
LEMMA RecordsStay ==
    ASSUME TypeOK, Grows, NEW s \in Streams, NEW i \in DOMAIN streams[s]
    PROVE  i \in DOMAIN streams'[s] /\ streams'[s][i] = streams[s][i]
<1> USE DEF TypeOK
<1>1. CASE streams' = streams
    BY <1>1
<1>2. ASSUME NEW r \in Requests,
             streams' = [streams EXCEPT ![r.stream] = Append(@, r)]
      PROVE  i \in DOMAIN streams'[s] /\ streams'[s][i] = streams[s][i]
    <2>1. streams[s] \in Seq(Requests)
        BY DEF StoreTypeOK
    <2>2. CASE s = r.stream
        <3>1. streams'[s] = Append(streams[s], r)
            BY <1>2, <2>2 DEF StoreTypeOK
        <3> QED BY <2>1, <3>1
    <2>3. CASE s # r.stream
        BY <1>2, <2>3 DEF StoreTypeOK
    <2> QED BY <2>2, <2>3
<1> QED BY <1>1, <1>2, SendingTypes DEF Grows

\* A stored batch stays stored.
LEMMA StoredBatchesGrow ==
    ASSUME TypeOK, Grows
    PROVE  StoredBatches \subseteq StoredBatches'
<1> SUFFICES ASSUME NEW g \in Generations, NEW i \in DOMAIN streams[Delta(g)]
             PROVE  streams[Delta(g)][i].body \in StoredBatches'
    BY DEF StoredBatches
<1>1. /\ i \in DOMAIN streams'[Delta(g)]
      /\ streams'[Delta(g)][i] = streams[Delta(g)][i]
    BY RecordsStay, StreamNames
<1> QED BY <1>1 DEF StoredBatches

\* A delta request that is a record of its stream after the step is stored.
LEMMA RecordIsStored ==
    ASSUME NEW r \in DeltaRequests, NEW i \in DOMAIN streams'[r.stream],
           streams'[r.stream][i] = r
    PROVE  r.body \in StoredBatches'
<1>1. PICK g \in Generations : r.stream = Delta(g)
    BY DEF DeltaRequests, DeltaStreams
<1> QED BY <1>1 DEF StoredBatches

\* The update the actor acknowledges is in the log when it does: it was appended
\* by this very step, or its frame was read back.
LEMMA AcceptedIsStored ==
    ASSUME TypeOK, UpdateCommitted \/ UpdateVerified
    PROVE  request.body \in StoredBatches'
<1>1. request \in DeltaRequests /\ request \in Requests
    BY DEF UpdateCommitted, UpdateVerified, TypeOK, ActorTypeOK, Requests
<1>2. streams[request.stream] \in Seq(Requests)
    BY <1>1, RequestStreams DEF TypeOK, StoreTypeOK
<1>3. CASE UpdateCommitted
    <2>1. streams'[request.stream] = Append(streams[request.stream], request)
        BY <1>1, <1>3, RequestStreams
        DEF UpdateCommitted, Commits, TypeOK, StoreTypeOK
    <2>2. Len(streams[request.stream]) + 1 \in DOMAIN streams'[request.stream]
        BY <1>2, <2>1
    <2>3. streams'[request.stream][Len(streams[request.stream]) + 1] = request
        BY <1>2, <2>1
    <2> QED BY <1>1, <2>2, <2>3, RecordIsStored
<1>4. CASE UpdateVerified
    <2>1. streams' = streams
        BY <1>4 DEF UpdateVerified, Deduplicates, storeVars
    <2>2. /\ DuplicateEnd(request) \in DOMAIN streams[request.stream]
          /\ streams[request.stream][DuplicateEnd(request)] = request
        BY <1>4 DEF UpdateVerified, VerifiedFrame
    <2> QED BY <1>1, <2>1, <2>2, RecordIsStored
<1> QED BY <1>3, <1>4

\* Only the two steps that accept an update acknowledge anything.
LEMMA WhoAcks ==
    ASSUME [Next]_vars
    PROVE  \/ acked' = acked
           \/ /\ UpdateCommitted \/ UpdateVerified
              /\ acked' = acked \cup {request.body}
<1>1. CASE Command
    BY <1>1 DEF Command, Join, Leave, Update, RetryAmbiguous, Rotate, GoOn, GiveUp,
                RotationFrame
<1>2. CASE UpdateCommitted \/ UpdateVerified
    BY <1>2 DEF UpdateCommitted, UpdateVerified, Accept
<1>3. CASE AppendAgain \/ UpdateUnknown \/ UpdateRejected \/ RetryResolved
              \/ RetryUnknown \/ RetryRejected \/ Reload \/ ReloadFails
    BY <1>3 DEF AppendAgain, UpdateUnknown, UpdateRejected, RetryResolved,
                RetryUnknown, RetryRejected, StayBlocked, Reload, ReloadFails
<1>4. CASE Persist \/ CheckpointAppended \/ ExactAppendAgain \/ ExactAppendFails
              \/ Prepare \/ Position \/ Publish \/ ManifestAppended
              \/ Switch \/ StoreCallFails
    BY <1>4 DEF Persist, CheckpointAppended, ExactAppendAgain, ExactAppendFails,
                Prepare, Position, Publish, ManifestAppended, Switch,
                StoreCallFails, GoOn, GiveUp, Submit, RotationFrame
<1>5. CASE ReadManifest \/ ReplayLegacy \/ ReadCheckpoint \/ ReadDelta
              \/ ActivationFails
    BY <1>5 DEF ReadManifest, ReplayLegacy, ReadCheckpoint, ReadDelta,
                ActivationFails, Continue, FailActivation, Activated
<1>6. CASE LateDelivery \/ Crash
    BY <1>6 DEF LateDelivery, Crash
<1>7. CASE UNCHANGED vars
    BY <1>7 DEF vars
<1> QED BY <1>1, <1>2, <1>3, <1>4, <1>5, <1>6, <1>7 DEF Next, ActorStep

\* Whatever answers are lost, requests repeated, processes restarted and reads
\* stale: Ack(Ok) is sent only for a batch that a delta stream holds
\* (resolve_append and verify_duplicate_bytes, actor.rs).
THEOREM AckedIsInLog == Spec => []AckedInLog
<1>1. Init => AckedInLog
    BY DEF Init, AckedInLog
<1>2. TypeOK /\ AckedInLog /\ [Next]_vars => AckedInLog'
    <2> SUFFICES ASSUME TypeOK, AckedInLog, [Next]_vars
                 PROVE  AckedInLog'
        OBVIOUS
    <2>1. StoredBatches \subseteq StoredBatches'
        BY StepGrows, StoredBatchesGrow
    <2> QED BY <2>1, WhoAcks, AcceptedIsStored DEF AckedInLog
<1> QED BY <1>1, <1>2, TypeCorrect, PTL DEF Spec
=============================================================================
