---------------------------- MODULE ChainProofs -----------------------------
(***************************************************************************)
(* Theorems about the chain of generations that hold whatever the          *)
(* environment does: late requests of dead processes, stale reads, lost    *)
(* answers, operator retries and crashes.                                  *)
(***************************************************************************)
EXTENDS GatewayProofs

USE DEF UpdatePoints, RotationPoints, RecoveryPoints, ProgramPoints, AppendPoints,
        CheckpointPoints, RecordPoints, Lifecycles

-----------------------------------------------------------------------------
(* The inductive invariant *)

\* Every request that may reach the store, now or after an operator's retry.
Owed == Sending \cup {r \in {blocked} : blocked # None}

\* A manifest request names its generation's checkpoint, which is stored.
NamesStored(r) ==
    /\ r.producer = ManifestProducer
    /\ r.sequence = r.body.revision
    /\ r.body.checkpoint.generation = r.body.revision
    /\ HoldsOnly(streams[Checkpoint(r.body.revision)], r.body.checkpoint)

\* A checkpoint request is of its generation's one producer, and its snapshot
\* is a document.
Freezes(r, g) ==
    /\ r.producer = CheckpointProducer(g)
    /\ r.body.generation = g
    /\ Closed(r.body.snapshot)

ManifestStored ==
    \A i \in DOMAIN streams[Manifest] :
        /\ NamesStored(streams[Manifest][i])
        /\ streams[Manifest][i].sequence = i - 1

CheckpointStored ==
    \A g \in Generations :
        /\ Len(streams[Checkpoint(g)]) <= 1
        /\ \A i \in DOMAIN streams[Checkpoint(g)] :
              Freezes(streams[Checkpoint(g)][i], g)

\* Requests on their way keep to the chain as well.
ManifestOwed == \A r \in Owed : r.stream = Manifest => NamesStored(r)
CheckpointOwed ==
    \A r \in Owed, g \in Generations : r.stream = Checkpoint(g) => Freezes(r, g)
DeltaOwed ==
    \A r \in Owed, g \in Generations :
        r.stream = Delta(g) => g <= Len(streams[Manifest])

\* The locals of a rotation: what it froze, stored and published.
RotationLocals ==
    /\ pc \in RotationPoints =>
          /\ checkpoint.generation = generation
          /\ checkpoint.snapshot = doc
          /\ checkpoint.pending \subseteq history
    /\ pc \in {"prepare", "position", "publish", "appendManifest", "switch"} =>
          HoldsOnly(streams[Checkpoint(generation)], checkpoint)
    /\ pc \in {"publish", "appendManifest", "switch"} =>
          record = ManifestRecord(generation, checkpoint)
    /\ pc = "appendCheckpoint" => request = CheckpointRequest
    /\ pc = "appendManifest" => request = ManifestRequest
    /\ pc = "switch" => generation < Len(streams[Manifest])

\* The locals of an activation: a record of the manifest and its checkpoint.
ActivationLocals ==
    /\ pc \in {"readCheckpoint", "readDelta"} =>
          \E i \in DOMAIN streams[Manifest] : record = streams[Manifest][i].body
    /\ pc = "readDelta" => checkpoint = record.checkpoint

\* The actor writes no generation the manifest has not activated.
GenerationActivated == generation <= Len(streams[Manifest])

\* The document is settled, in every state of the room.
Settled == doc = Visible(LiveOps)

ChainInv ==
    /\ Settled
    /\ ManifestStored /\ CheckpointStored /\ NextGenerationUntouched
    /\ ManifestOwed /\ CheckpointOwed /\ DeltaOwed
    /\ RotationLocals /\ ActivationLocals /\ GenerationActivated

-----------------------------------------------------------------------------
(* Documents *)

\* A document holds the dependencies of what it shows.
LEMMA VisibleIsClosed ==
    ASSUME NEW S
    PROVE  Closed(Visible(S))
BY DEF Visible, Closed

\* A causally closed part of what was imported is visible.
LEMMA ClosedIsVisible ==
    ASSUME NEW S, NEW T \in SUBSET S, Closed(T)
    PROVE  T \subseteq Visible(S)
BY DEF Visible

\* Importing more never hides anything.
LEMMA VisibleGrows ==
    ASSUME NEW S, NEW T \in SUBSET S
    PROVE  Visible(T) \subseteq Visible(S)
BY DEF Visible

\* Importing again what was imported before changes nothing.
LEMMA ImportAgain ==
    ASSUME NEW S, NEW T \in SUBSET S
    PROVE  Visible(Visible(S) \cup T) = Visible(S)
<1>1. Visible(S) \cup T \subseteq S
    BY VisibleIsPart
<1>2. Visible(Visible(S) \cup T) \subseteq Visible(S)
    BY <1>1, VisibleGrows
<1>3. Visible(S) \subseteq Visible(Visible(S) \cup T)
    BY VisibleIsClosed, ClosedIsVisible
<1> QED BY <1>2, <1>3

-----------------------------------------------------------------------------
(* Streams *)

\* A stream is a sequence of the requests that were sent to it.
LEMMA StreamIsLog ==
    ASSUME TypeOK, NEW s \in Streams
    PROVE  /\ streams[s] \in Seq(Requests)
           /\ Len(streams[s]) \in Nat
           /\ DOMAIN streams[s] = 1 .. Len(streams[s])
           /\ \A i \in DOMAIN streams[s] :
                 streams[s][i] \in Requests /\ streams[s][i].stream = s
<1>1. streams[s] \in Seq(Requests)
    BY DEF TypeOK, StoreTypeOK
<1>2. \A i \in DOMAIN streams[s] : streams[s][i].stream = s
    BY DEF TypeOK, StoreTypeOK
<1> QED BY <1>1, <1>2

\* What the append of r leaves in each stream.
LEMMA AppendedStream ==
    ASSUME TypeOK, NEW r \in Requests, NEW s \in Streams,
           streams' = [streams EXCEPT ![r.stream] = Append(@, r)]
    PROVE  /\ s # r.stream => streams'[s] = streams[s]
           /\ s = r.stream =>
                 /\ Len(streams'[s]) = Len(streams[s]) + 1
                 /\ DOMAIN streams'[s] = DOMAIN streams[s] \cup {Len(streams[s]) + 1}
                 /\ streams'[s][Len(streams[s]) + 1] = r
                 /\ \A i \in DOMAIN streams[s] : streams'[s][i] = streams[s][i]
<1>1. streams \in [Streams -> Seq(Requests)]
    BY DEF TypeOK, StoreTypeOK
<1>2. CASE s # r.stream
    BY <1>1, <1>2
<1>3. CASE s = r.stream
    <2>1. streams'[s] = Append(streams[s], r) /\ streams[s] \in Seq(Requests)
        BY <1>1, <1>3
    <2> QED BY <1>3, <2>1
<1> QED BY <1>2, <1>3

\* Streams do not shrink.
LEMMA LengthsGrow ==
    ASSUME TypeOK, Grows, NEW s \in Streams
    PROVE  Len(streams[s]) <= Len(streams'[s])
<1>1. Len(streams[s]) \in Nat
    BY StreamIsLog
<1>2. CASE streams' = streams
    BY <1>1, <1>2
<1>3. ASSUME NEW r \in Requests,
             streams' = [streams EXCEPT ![r.stream] = Append(@, r)]
      PROVE  Len(streams[s]) <= Len(streams'[s])
    BY <1>1, <1>3, AppendedStream
<1> QED BY <1>2, <1>3, SendingTypes DEF Grows

\* The kind of a request is that of its stream.
LEMMA RequestKinds ==
    ASSUME NEW r \in Requests
    PROVE  /\ r.stream = Manifest => r \in ManifestRequests
           /\ \A g \in Generations : r.stream = Checkpoint(g) => r \in CheckpointRequests
           /\ \A g \in Generations : r.stream = Delta(g) => r \in DeltaRequests
BY StreamNames DEF Requests, DeltaRequests, DeltaStreams, CheckpointRequests,
                   ManifestRequests

\* Streams of one kind differ in their generations.
LEMMA StreamsDiffer ==
    ASSUME NEW g \in Generations, NEW h \in Generations
    PROVE  /\ Delta(g) = Delta(h) => g = h
           /\ Checkpoint(g) = Checkpoint(h) => g = h
BY DEF Delta, Checkpoint

-----------------------------------------------------------------------------
(* What deduplication does to the control streams *)

\* The manifest takes its records in order.
LEMMA ManifestInOrder ==
    ASSUME TypeOK, ManifestStored, NEW r \in ManifestRequests,
           r.producer = ManifestProducer, InOrder(r)
    PROVE  r.sequence = Len(streams[Manifest])
<1> DEFINE L == Len(streams[Manifest])
<1>1. r.stream = Manifest /\ r.sequence \in Nat
    BY DEF ManifestRequests
<1>2. L \in Nat /\ DOMAIN streams[Manifest] = 1 .. L
    BY StreamIsLog, StreamNames
<1>3. \A i \in 1 .. L : /\ streams[Manifest][i].producer = ManifestProducer
                        /\ streams[Manifest][i].sequence = i - 1
    BY <1>2 DEF ManifestStored, NamesStored
<1>4. SequencesOf(r) = {i - 1 : i \in 1 .. L}
    BY <1>1, <1>2, <1>3 DEF SequencesOf, PositionsOf
<1>5. ASSUME NEW i \in 1 .. L
      PROVE  i - 1 < r.sequence
    <2>1. i - 1 \in SequencesOf(r)
        BY <1>4
    <2>2. ~ (i - 1 >= r.sequence)
        BY <2>1 DEF InOrder, Known
    <2> QED BY <1>1, <1>2, <2>2
<1>6. L <= r.sequence
    <2>1. CASE L = 0
        BY <1>1, <2>1
    <2>2. CASE L # 0
        <3>1. L \in 1 .. L
            BY <1>2, <2>2
        <3>2. L - 1 < r.sequence
            BY <1>5, <3>1
        <3> QED BY <1>1, <1>2, <3>2
    <2> QED BY <2>1, <2>2
<1>7. r.sequence = 0 \/ \E i \in 1 .. L : r.sequence - 1 = i - 1
    BY <1>4 DEF InOrder
<1> QED BY <1>1, <1>2, <1>6, <1>7

\* A checkpoint stream takes one record.
LEMMA CheckpointInOrder ==
    ASSUME TypeOK, CheckpointStored, NEW g \in Generations,
           NEW r \in CheckpointRequests, r.stream = Checkpoint(g),
           r.producer = CheckpointProducer(g), InOrder(r)
    PROVE  Len(streams[Checkpoint(g)]) = 0
<1> DEFINE log == streams[Checkpoint(g)]
<1>1. Len(log) \in Nat /\ DOMAIN log = 1 .. Len(log)
    BY StreamIsLog, StreamNames
<1>2. \A i \in DOMAIN log : log[i] \in CheckpointRequests
    BY StreamIsLog, StreamNames, RequestKinds
<1>3. SUFFICES ASSUME 1 \in DOMAIN log
               PROVE  FALSE
    BY <1>1
<1>4. log[1].producer = r.producer /\ log[1].sequence = 0 /\ r.sequence = 0
    BY <1>2, <1>3 DEF CheckpointStored, Freezes, CheckpointRequests
<1>5. 0 \in SequencesOf(r)
    BY <1>3, <1>4 DEF SequencesOf, PositionsOf
<1> QED BY <1>4, <1>5 DEF InOrder, Known

\* A checkpoint stays the only record of its stream.
LEMMA CheckpointStays ==
    ASSUME TypeOK, CheckpointStored, CheckpointOwed, Grows,
           NEW g \in Generations, NEW body,
           HoldsOnly(streams[Checkpoint(g)], body)
    PROVE  HoldsOnly(streams'[Checkpoint(g)], body)
<1>1. CASE streams' = streams
    BY <1>1
<1>2. ASSUME NEW r \in Sending, InOrder(r),
             streams' = [streams EXCEPT ![r.stream] = Append(@, r)]
      PROVE  HoldsOnly(streams'[Checkpoint(g)], body)
    <2>1. r \in Requests
        BY SendingTypes
    <2>2. CASE r.stream # Checkpoint(g)
        BY <1>2, <2>1, <2>2, AppendedStream, StreamNames
    <2>3. CASE r.stream = Checkpoint(g)
        <3>1. r.producer = CheckpointProducer(g) /\ r \in CheckpointRequests
            BY <2>1, <2>3, RequestKinds DEF CheckpointOwed, Owed, Freezes
        <3>2. Len(streams[Checkpoint(g)]) = 0
            BY <1>2, <2>3, <3>1, CheckpointInOrder
        <3> QED BY <3>2 DEF HoldsOnly
    <2> QED BY <2>2, <2>3
<1> QED BY <1>1, <1>2 DEF Grows

\* The revision of a manifest request that names a stored checkpoint.
LEMMA RevisionIsGeneration ==
    ASSUME NEW r \in ManifestRequests, NamesStored(r)
    PROVE  r.body.revision \in SealedGenerations /\ r.body.revision \in Generations
BY GenerationNumbers DEF NamesStored, ManifestRequests, ManifestRecords, CheckpointRecords

\* So what a manifest request names stays stored.
LEMMA NamesStays ==
    ASSUME TypeOK, CheckpointStored, CheckpointOwed, Grows,
           NEW r \in ManifestRequests, NamesStored(r)
    PROVE  NamesStored(r)'
<1>1. r.body.revision \in Generations
    BY RevisionIsGeneration
<1>2. HoldsOnly(streams'[Checkpoint(r.body.revision)], r.body.checkpoint)
    BY <1>1, CheckpointStays DEF NamesStored
<1> QED BY <1>2 DEF NamesStored, HoldsOnly

-----------------------------------------------------------------------------
(* The store's half of the invariant *)

\* The requests a step adds to those that are owed: the frame of a new update,
\* the checkpoint of a rotation, or its manifest record.
LEMMA OwedStep ==
    ASSUME TypeOK, [Next]_vars
    PROVE  \/ Owed' \subseteq Owed
           \/ \E b \in Batches, c \in Connections :
                 Update(c, b) /\ Owed' \subseteq Owed \cup {Frame(b)}
           \/ pc = "persist" /\ Owed' \subseteq Owed \cup {CheckpointRequest}
           \/ /\ pc = "publish" /\ pc' = "appendManifest" /\ request' = ManifestRequest
              /\ Owed' \subseteq Owed \cup {ManifestRequest}
<1>1. inflight' \subseteq Sending
    BY StepGrows
<1>2. CASE pc' \notin AppendPoints /\ blocked' \in {blocked, None}
    BY <1>1, <1>2 DEF Owed, Sending
<1>3. CASE request' = request /\ blocked' = blocked /\ pc' = pc
    BY <1>1, <1>3 DEF Owed, Sending
<1>4. CASE Command
    <2>1. CASE \E c \in Connections : Join(c) \/ Leave(c)
        BY <1>3, <2>1 DEF Join, Leave, appendVars
    <2>2. ASSUME NEW c \in Connections, NEW b \in Batches, Update(c, b)
          PROVE  Owed' \subseteq Owed \cup {Frame(b)}
        BY <1>1, <2>2 DEF Update, Owed, Sending
    <2>3. CASE RetryAmbiguous
        BY <1>1, <2>3 DEF RetryAmbiguous, Owed, Sending
    <2>4. CASE Rotate
        BY <1>2, <2>4 DEF Rotate, GoOn, GiveUp, Return, RotationFrame
    <2> QED BY <1>4, <2>1, <2>2, <2>3, <2>4 DEF Command
<1>5. CASE ActorStep
    <2>1. CASE UpdateCommitted \/ UpdateVerified \/ UpdateRejected
        BY <1>2, <2>1 DEF UpdateCommitted, UpdateVerified, UpdateRejected, Accept, Return
    <2>2. CASE AppendAgain \/ ExactAppendAgain
        BY <1>3, <2>2 DEF AppendAgain, ExactAppendAgain
    <2>3. CASE UpdateUnknown \/ RetryUnknown \/ RetryRejected \/ ReloadFails
        BY <1>1, <2>3 DEF UpdateUnknown, RetryUnknown, RetryRejected, ReloadFails,
                          StayBlocked, Return, Owed, Sending
    <2>4. CASE RetryResolved
        BY <1>1, <2>4 DEF RetryResolved, appendVars, Owed, Sending
    <2>5. CASE Reload
        BY <1>2, <2>5 DEF Reload, Return
    <2>6. CASE Persist
        BY <1>1, <2>6 DEF Persist, Submit, GoOn, GiveUp, Return, RotationFrame, Owed,
                          Sending
    <2>7. CASE CheckpointAppended \/ ExactAppendFails \/ Prepare \/ Position
                  \/ ManifestAppended \/ Switch \/ StoreCallFails
        BY <1>2, <2>7 DEF CheckpointAppended, ExactAppendFails, Prepare, Position,
                          ManifestAppended, Switch, StoreCallFails, GoOn, GiveUp,
                          Return, RotationFrame
    <2>8. CASE Publish
        BY <1>1, <2>8 DEF Publish, Submit, GoOn, GiveUp, Return, RotationFrame, Owed,
                          Sending
    <2>9. CASE ReadManifest \/ ReplayLegacy \/ ReadCheckpoint \/ ReadDelta
                  \/ ActivationFails
        BY <1>2, <2>9 DEF ReadManifest, ReplayLegacy, ReadCheckpoint, ReadDelta,
                          ActivationFails, Continue, FailActivation, Activated, Return
    <2> QED BY <1>5, <2>1, <2>2, <2>3, <2>4, <2>5, <2>6, <2>7, <2>8, <2>9 DEF ActorStep
<1>6. CASE LateDelivery
    BY <1>3, <1>6 DEF LateDelivery, appendVars
<1>7. CASE Crash
    BY <1>2, <1>7 DEF Crash
<1>8. CASE UNCHANGED vars
    BY <1>3, <1>8 DEF vars, appendVars
<1> QED BY <1>4, <1>5, <1>6, <1>7, <1>8 DEF Next

\* What is owed is a request.
LEMMA OwedTypes ==
    ASSUME TypeOK
    PROVE  Owed \subseteq Requests /\ Sending \subseteq Owed
BY SendingTypes DEF TypeOK, ActorTypeOK, Owed, Requests

\* The manifest goes on naming stored checkpoints, one record after the other.
LEMMA ManifestStep ==
    ASSUME TypeOK, ChainInv, [Next]_vars
    PROVE  ManifestStored'
<1> USE DEF ChainInv
<1>1. Grows
    BY StepGrows
<1>2. ASSUME NEW i \in DOMAIN streams[Manifest]
      PROVE  /\ NamesStored(streams[Manifest][i])'
             /\ streams'[Manifest][i] = streams[Manifest][i]
             /\ streams[Manifest][i].sequence = i - 1
    <2>1. streams[Manifest][i] \in ManifestRequests
        BY StreamIsLog, StreamNames, RequestKinds
    <2>2. streams'[Manifest][i] = streams[Manifest][i]
        BY <1>1, RecordsStay, StreamNames
    <2>3. NamesStored(streams[Manifest][i]) /\ streams[Manifest][i].sequence = i - 1
        BY DEF ManifestStored
    <2>4. ASSUME NEW m \in ManifestRequests, NamesStored(m)
          PROVE  NamesStored(m)'
        BY <1>1, <2>4, NamesStays
    <2>5. HoldsOnly(streams'[Checkpoint(streams[Manifest][i].body.revision)],
                    streams[Manifest][i].body.checkpoint)
        BY <2>1, <2>3, <2>4 DEF NamesStored
    <2> QED BY <2>2, <2>3, <2>5 DEF NamesStored
<1>3. CASE streams'[Manifest] = streams[Manifest]
    BY <1>2, <1>3 DEF ManifestStored, NamesStored
<1>4. ASSUME NEW r \in Sending, InOrder(r), r.stream = Manifest,
             streams' = [streams EXCEPT ![r.stream] = Append(@, r)]
      PROVE  ManifestStored'
    <2>1. r \in ManifestRequests /\ NamesStored(r)
        BY <1>4, OwedTypes, RequestKinds DEF ManifestOwed
    <2>2. NamesStored(r)'
        BY <1>1, <2>1, NamesStays
    <2>3. r.sequence = Len(streams[Manifest]) + 1 - 1
        BY <1>4, <2>1, ManifestInOrder, StreamIsLog, StreamNames DEF NamesStored
    <2>4. /\ DOMAIN streams'[Manifest] =
                DOMAIN streams[Manifest] \cup {Len(streams[Manifest]) + 1}
          /\ streams'[Manifest][Len(streams[Manifest]) + 1] = r
        BY <1>4, OwedTypes, AppendedStream, StreamNames
    <2>5. ASSUME NEW i \in DOMAIN streams'[Manifest]
          PROVE  /\ NamesStored(streams[Manifest][i])'
                 /\ streams'[Manifest][i].sequence = i - 1
        <3>1. CASE i \in DOMAIN streams[Manifest]
            BY <1>2, <3>1
        <3>2. CASE i = Len(streams[Manifest]) + 1
            <4>1. streams'[Manifest][i] = r
                BY <2>4, <3>2
            <4>2. r.sequence = i - 1
                BY <2>3, <3>2
            <4> QED BY <2>2, <4>1, <4>2 DEF NamesStored
        <3> QED BY <2>4, <2>5, <3>1, <3>2
    <2> QED BY <2>5 DEF ManifestStored, NamesStored
<1> QED BY <1>1, <1>3, <1>4, OwedTypes, AppendedStream, StreamNames DEF Grows

\* Checkpoint streams keep at most one record, of their own generation.
LEMMA CheckpointStep ==
    ASSUME TypeOK, ChainInv, [Next]_vars
    PROVE  CheckpointStored'
<1> USE DEF ChainInv
<1>1. SUFFICES ASSUME NEW g \in Generations
               PROVE  /\ Len(streams'[Checkpoint(g)]) <= 1
                      /\ \A i \in DOMAIN streams'[Checkpoint(g)] :
                            Freezes(streams'[Checkpoint(g)][i], g)
    BY DEF CheckpointStored, Freezes
<1>2. CASE streams'[Checkpoint(g)] = streams[Checkpoint(g)]
    BY <1>2 DEF CheckpointStored
<1>3. ASSUME NEW r \in Sending, InOrder(r), r.stream = Checkpoint(g),
             streams' = [streams EXCEPT ![r.stream] = Append(@, r)]
      PROVE  /\ Len(streams'[Checkpoint(g)]) <= 1
             /\ \A i \in DOMAIN streams'[Checkpoint(g)] :
                   Freezes(streams'[Checkpoint(g)][i], g)
    <2>1. r \in CheckpointRequests /\ Freezes(r, g)
        BY <1>3, OwedTypes, RequestKinds DEF CheckpointOwed
    <2>2. Len(streams[Checkpoint(g)]) = 0
        BY <1>3, <2>1, CheckpointInOrder DEF Freezes
    <2>3. DOMAIN streams[Checkpoint(g)] = {}
        BY <2>2, StreamIsLog, StreamNames
    <2>4. /\ Len(streams'[Checkpoint(g)]) = 0 + 1
          /\ DOMAIN streams'[Checkpoint(g)] = {} \cup {0 + 1}
          /\ streams'[Checkpoint(g)][0 + 1] = r
        <3>1. r \in Requests /\ Checkpoint(g) \in Streams
            BY OwedTypes, StreamNames
        <3>2. LET old == streams[Checkpoint(g)]
                  new == streams'[Checkpoint(g)] IN
              /\ Len(new) = Len(old) + 1
              /\ DOMAIN new = DOMAIN old \cup {Len(old) + 1}
              /\ new[Len(old) + 1] = r
            BY <1>3, <3>1, AppendedStream
        <3> QED BY <2>2, <2>3, <3>2
    <2> QED BY <2>1, <2>4
<1> QED BY <1>2, <1>3, StepGrows, OwedTypes, AppendedStream, StreamNames DEF Grows

\* A generation beyond the manifest stays empty.
LEMMA UntouchedStep ==
    ASSUME TypeOK, ChainInv, [Next]_vars
    PROVE  NextGenerationUntouched'
<1> USE DEF ChainInv
<1>1. SUFFICES ASSUME NEW g \in Generations, g > Len(streams'[Manifest])
               PROVE  streams'[Delta(g)] = <<>>
    BY DEF NextGenerationUntouched
<1>2. Grows
    BY StepGrows
<1>3. g > Len(streams[Manifest])
    <2>1. /\ Len(streams[Manifest]) <= Len(streams'[Manifest])
          /\ Len(streams[Manifest]) \in Nat /\ Len(streams'[Manifest]) \in Nat
        BY <1>2, LengthsGrow, StreamIsLog, StreamNames, TypeStep DEF TypeOK, StoreTypeOK
    <2> QED BY <1>1, <2>1, GenerationNumbers
<1>4. streams[Delta(g)] = <<>>
    BY <1>3 DEF NextGenerationUntouched
<1>5. CASE streams' = streams
    BY <1>4, <1>5
<1>6. ASSUME NEW r \in Sending,
             streams' = [streams EXCEPT ![r.stream] = Append(@, r)]
      PROVE  streams'[Delta(g)] = <<>>
    <2>1. r.stream # Delta(g)
        BY <1>3, OwedTypes, StreamIsLog, StreamNames, GenerationNumbers DEF DeltaOwed
    <2> QED BY <1>4, <1>6, <2>1, OwedTypes, AppendedStream, StreamNames
<1> QED BY <1>2, <1>5, <1>6 DEF Grows

-----------------------------------------------------------------------------
(* The requests on their way *)

\* A manifest request is made after its checkpoint was found in the store.
LEMMA ManifestRequestNames ==
    ASSUME TypeOK, RotationLocals, pc = "publish"
    PROVE  ManifestRequest \in ManifestRequests /\ NamesStored(ManifestRequest)
<1>1. record \in ManifestRecords /\ generation \in Generations
    BY DEF TypeOK, ActorTypeOK
<1>2. /\ record = ManifestRecord(generation, checkpoint)
      /\ checkpoint.generation = generation
      /\ HoldsOnly(streams[Checkpoint(generation)], checkpoint)
    BY DEF RotationLocals
<1>3. record.revision = generation /\ record.checkpoint = checkpoint
    BY <1>2 DEF ManifestRecord
<1>4. ManifestRequest \in ManifestRequests
    BY <1>1, ProducerNames DEF ManifestRequest, Request, ManifestRequests, ManifestRecords
<1>5. NamesStored(ManifestRequest)
    BY <1>2, <1>3 DEF NamesStored, ManifestRequest, Request
<1> QED BY <1>4, <1>5

\* A manifest record that may still be appended names a checkpoint that is stored.
LEMMA ManifestOwedStep ==
    ASSUME TypeOK, ChainInv, [Next]_vars
    PROVE  ManifestOwed'
<1> USE DEF ChainInv
<1>1. Grows
    BY StepGrows
<1>2. SUFFICES ASSUME NEW r \in Owed', r.stream = Manifest
               PROVE  NamesStored(r)'
    BY DEF ManifestOwed, NamesStored
<1>3. ASSUME NEW m \in ManifestRequests, NamesStored(m)
      PROVE  NamesStored(m)'
    BY <1>1, <1>3, NamesStays
<1>4. CASE r \in Owed
    BY <1>2, <1>3, <1>4, OwedTypes, RequestKinds DEF ManifestOwed
<1>5. ASSUME NEW b \in Batches, r = Frame(b)
      PROVE  FALSE
    BY <1>2, <1>5, StreamNames DEF Frame, Request, TypeOK, ActorTypeOK
<1>6. CASE r = CheckpointRequest
    BY <1>2, <1>6, StreamNames DEF CheckpointRequest, Request, TypeOK, ActorTypeOK
<1>7. CASE pc = "publish" /\ r = ManifestRequest
    BY <1>3, <1>7, ManifestRequestNames
<1> QED BY <1>4, <1>5, <1>6, <1>7, OwedStep

\* A checkpoint that may still be appended is the one its generation froze.
LEMMA CheckpointOwedStep ==
    ASSUME TypeOK, ChainInv, [Next]_vars
    PROVE  CheckpointOwed'
<1> USE DEF ChainInv
<1>1. SUFFICES ASSUME NEW r \in Owed', NEW g \in Generations, r.stream = Checkpoint(g)
               PROVE  Freezes(r, g)
    BY DEF CheckpointOwed, Freezes
<1>2. CASE r \in Owed
    BY <1>1, <1>2 DEF CheckpointOwed
<1>3. ASSUME NEW b \in Batches, r = Frame(b)
      PROVE  FALSE
    BY <1>1, <1>3, StreamNames DEF Frame, Request, TypeOK, ActorTypeOK
<1>4. CASE pc = "persist" /\ r = CheckpointRequest
    <2>1. generation \in Generations
        BY DEF TypeOK, ActorTypeOK
    <2>2. checkpoint.generation = generation /\ Closed(checkpoint.snapshot)
        BY <1>4, VisibleIsClosed DEF RotationLocals, Settled
    <2>3. generation = g
        BY <1>1, <1>4, <2>1, StreamsDiffer DEF CheckpointRequest, Request
    <2> QED BY <1>4, <2>2, <2>3 DEF Freezes, CheckpointRequest, Request
<1>5. CASE r = ManifestRequest
    BY <1>1, <1>5, StreamNames DEF ManifestRequest, Request
<1> QED BY <1>2, <1>3, <1>4, <1>5, OwedStep

\* A frame that may still be appended is for a generation the manifest reached.
LEMMA DeltaOwedStep ==
    ASSUME TypeOK, ChainInv, [Next]_vars
    PROVE  DeltaOwed'
<1> USE DEF ChainInv
<1>1. SUFFICES ASSUME NEW r \in Owed', NEW g \in Generations, r.stream = Delta(g)
               PROVE  g <= Len(streams'[Manifest])
    BY DEF DeltaOwed
<1>2. /\ Len(streams[Manifest]) <= Len(streams'[Manifest])
      /\ Len(streams[Manifest]) \in Nat /\ Len(streams'[Manifest]) \in Nat
    BY StepGrows, LengthsGrow, StreamIsLog, StreamNames, TypeStep DEF TypeOK, StoreTypeOK
<1>3. SUFFICES g <= Len(streams[Manifest])
    BY <1>2, GenerationNumbers
<1>4. CASE r \in Owed
    BY <1>1, <1>4 DEF DeltaOwed
<1>5. ASSUME NEW b \in Batches, r = Frame(b)
      PROVE  g <= Len(streams[Manifest])
    <2>1. generation = g
        BY <1>1, <1>5, StreamsDiffer DEF Frame, Request, TypeOK, ActorTypeOK
    <2> QED BY <2>1 DEF GenerationActivated
<1>6. CASE r = CheckpointRequest
    BY <1>1, <1>6, StreamNames DEF CheckpointRequest, Request, TypeOK, ActorTypeOK
<1>7. CASE r = ManifestRequest
    BY <1>1, <1>7, StreamNames DEF ManifestRequest, Request
<1> QED BY <1>4, <1>5, <1>6, <1>7, OwedStep

-----------------------------------------------------------------------------
(* Reads of the control streams *)

\* What is read is a prefix of the stream.
LEMMA ReadIsPrefix ==
    ASSUME TypeOK, NEW s \in Streams, NEW log \in ReadAll(s)
    PROVE  /\ Len(log) \in Nat /\ Len(log) <= Len(streams[s])
           /\ DOMAIN log = 1 .. Len(log)
           /\ \A i \in DOMAIN log : i \in DOMAIN streams[s] /\ log[i] = streams[s][i]
           /\ log # <<>> => Len(log) \in DOMAIN log
           /\ log = <<>> <=> Len(log) = 0
<1>1. streams[s] \in Seq(Requests)
    BY StreamIsLog
<1>2. CASE log = streams[s]
    BY <1>1, <1>2
<1>3. ASSUME NEW n \in 0 .. Len(streams[s]), log = SubSeq(streams[s], 1, n)
      PROVE  /\ log \in Seq(Requests) /\ Len(log) = n
             /\ \A i \in 1 .. n : log[i] = streams[s][i]
    BY <1>1, <1>3
<1> QED BY <1>1, <1>2, <1>3 DEF ReadAll

\* A manifest record that was read is the one of its generation.
LEMMA LatestRecord ==
    ASSUME TypeOK, ManifestStored, NEW log \in ReadAll(Manifest), log # <<>>
    PROVE  /\ Len(log) \in DOMAIN streams[Manifest]
           /\ Latest(log) = streams[Manifest][Len(log)].body
           /\ Latest(log).revision = Len(log) - 1
           /\ Latest(log).checkpoint.generation = Len(log) - 1
<1>1. /\ Len(log) \in DOMAIN log /\ Len(log) \in DOMAIN streams[Manifest]
      /\ log[Len(log)] = streams[Manifest][Len(log)]
    BY ReadIsPrefix, StreamNames
<1>2. /\ NamesStored(streams[Manifest][Len(log)])
      /\ streams[Manifest][Len(log)].sequence = Len(log) - 1
    BY <1>1 DEF ManifestStored
<1> QED BY <1>1, <1>2 DEF Latest, NamesStored

\* The bytes of one checkpoint are read whole or not at all.
LEMMA ReadOfCheckpoint ==
    ASSUME TypeOK, CheckpointStored, NEW g \in Generations,
           NEW log \in ReadAll(Checkpoint(g)), NEW body, HoldsOnly(log, body)
    PROVE  HoldsOnly(streams[Checkpoint(g)], body)
<1>1. /\ Len(log) = 1 /\ log[1].body = body
    BY DEF HoldsOnly
<1>2. Len(streams[Checkpoint(g)]) \in Nat /\ Len(streams[Checkpoint(g)]) <= 1
    BY StreamIsLog, StreamNames DEF CheckpointStored
<1>3. /\ Len(log) <= Len(streams[Checkpoint(g)])
      /\ 1 \in DOMAIN log /\ log[1] = streams[Checkpoint(g)][1]
    BY <1>1, ReadIsPrefix, StreamNames
<1>4. Len(streams[Checkpoint(g)]) = 1
    <2>1. 1 <= Len(streams[Checkpoint(g)])
        BY <1>1, <1>3
    <2>2. \A n \in Nat : n <= 1 /\ 1 <= n => n = 1
        OBVIOUS
    <2> QED BY <1>2, <2>1, <2>2
<1>5. streams[Checkpoint(g)][1].body = body
    BY <1>1, <1>3
<1> QED BY <1>4, <1>5 DEF HoldsOnly

-----------------------------------------------------------------------------
(* The document *)

\* Where the document or what it retains changes.
LEMMA WhoChangesTheRoom ==
    ASSUME [Next]_vars
    PROVE  \/ UNCHANGED <<doc, history>>
           \/ UpdateCommitted \/ UpdateVerified \/ Reload \/ Switch
           \/ ReplayLegacy \/ ReadDelta \/ Crash
<1>1. CASE Command
    BY <1>1 DEF Command, Join, Leave, Update, RetryAmbiguous, Rotate, GoOn, GiveUp,
                RotationFrame, docVars
<1>2. CASE AppendAgain \/ UpdateUnknown \/ UpdateRejected \/ RetryResolved
              \/ RetryUnknown \/ RetryRejected \/ ReloadFails
    BY <1>2 DEF AppendAgain, UpdateUnknown, UpdateRejected, RetryResolved,
                RetryUnknown, RetryRejected, StayBlocked, ReloadFails, docVars
<1>3. CASE Persist \/ CheckpointAppended \/ ExactAppendAgain \/ ExactAppendFails
              \/ Prepare \/ Position \/ Publish \/ ManifestAppended
              \/ StoreCallFails
    BY <1>3 DEF Persist, CheckpointAppended, ExactAppendAgain, ExactAppendFails,
                Prepare, Position, Publish, ManifestAppended, StoreCallFails,
                GoOn, GiveUp, Submit, RotationFrame, docVars
<1>4. CASE ReadManifest \/ ReadCheckpoint \/ ActivationFails
    BY <1>4 DEF ReadManifest, ReadCheckpoint, ActivationFails, Continue,
                FailActivation, docVars
<1>5. CASE LateDelivery \/ UNCHANGED vars
    BY <1>5 DEF LateDelivery, vars, docVars
<1> QED BY <1>1, <1>2, <1>3, <1>4, <1>5 DEF Next, ActorStep

\* The document shows what replaying the retained blobs over it gives, at every
\* step of the room.
LEMMA SettledStep ==
    ASSUME TypeOK, Settled, RotationLocals, [Next]_vars
    PROVE  Settled'
<1> USE DEF Settled, LiveOps
<1>1. CASE UNCHANGED <<doc, history>>
    BY <1>1
<1>2. ASSUME NEW end, Accept(end)
      PROVE  Settled'
    <2> DEFINE all == history \cup Content[request.body]
    <2>1. doc' = Visible(doc \cup OpsOfAll(all)) /\ history' = all
        BY <1>2 DEF Accept, Candidate
    <2>2. Visible(Visible(doc \cup OpsOfAll(all)) \cup OpsOfAll(all))
              = Visible(doc \cup OpsOfAll(all))
        BY ImportAgain
    <2> QED BY <2>1, <2>2
<1>3. ASSUME NEW log, LoadFrom(log)
      PROVE  Settled'
    <2>1. Visible(Visible(OpsOfAll(HistoryOf(log))) \cup OpsOfAll(HistoryOf(log)))
              = Visible(OpsOfAll(HistoryOf(log)))
        BY ImportAgain
    <2> QED BY <1>3, <2>1 DEF LoadFrom
<1>4. CASE Switch
    <2>1. doc' = doc /\ history' = checkpoint.pending /\ history' \subseteq history
        BY <1>4 DEF Switch, RetainedHistory, RotationLocals
    <2>2. OpsOfAll(history') \subseteq OpsOfAll(history)
        BY <2>1 DEF OpsOfAll
    <2>3. Visible(doc \cup OpsOfAll(history')) \subseteq Visible(doc \cup OpsOfAll(history))
        BY <2>2, VisibleGrows
    <2>4. doc \subseteq Visible(doc \cup OpsOfAll(history'))
        BY VisibleIsClosed, ClosedIsVisible
    <2> QED BY <2>1, <2>3, <2>4
<1>5. CASE ReplayLegacy
    <2>1. CASE UNCHANGED <<doc, history>>
        BY <2>1
    <2> QED BY <1>3, <1>5, <2>1 DEF ReplayLegacy
<1>6. CASE ReadDelta
    <2>1. PICK log \in Readable(Delta(ActiveDelta(record))) :
              LET retained == checkpoint.pending \cup HistoryOf(log) IN
              /\ history' = retained
              /\ doc' = Visible(checkpoint.snapshot \cup OpsOfAll(retained))
        BY <1>6 DEF ReadDelta
    <2> DEFINE retained == checkpoint.pending \cup HistoryOf(log)
    <2>2. Visible(Visible(checkpoint.snapshot \cup OpsOfAll(retained)) \cup OpsOfAll(retained))
              = Visible(checkpoint.snapshot \cup OpsOfAll(retained))
        BY ImportAgain
    <2> QED BY <2>1, <2>2
<1>7. CASE Crash
    <2>1. doc' = {} /\ OpsOfAll(history') = {}
        BY <1>7 DEF Crash, OpsOfAll
    <2>2. Visible({}) = {}
        BY VisibleIsPart
    <2> QED BY <2>1, <2>2
<1> QED BY <1>1, <1>2, <1>3, <1>4, <1>5, <1>6, <1>7, WhoChangesTheRoom
        DEF UpdateCommitted, UpdateVerified, Reload

-----------------------------------------------------------------------------
(* The locals of a rotation *)

\* Where a rotation goes on.
LEMMA WhoRotates ==
    ASSUME [Next]_vars
    PROVE  \/ pc' \notin RotationPoints
           \/ UNCHANGED <<pc, generation, doc, history, checkpoint, record, request>>
           \/ /\ UNCHANGED <<generation, doc, history>>
              /\ \/ Rotate \/ Persist \/ CheckpointAppended \/ Prepare
                 \/ Position \/ Publish \/ ManifestAppended
<1>1. CASE Command
    BY <1>1 DEF Command, Join, Leave, Update, RetryAmbiguous, Rotate, GoOn, GiveUp,
                Return, RotationFrame, docVars, appendVars, controlVars
<1>2. CASE UpdateCommitted \/ UpdateVerified \/ UpdateUnknown \/ UpdateRejected
              \/ RetryResolved \/ RetryUnknown \/ RetryRejected \/ Reload
              \/ ReloadFails
    BY <1>2 DEF UpdateCommitted, UpdateVerified, UpdateUnknown, UpdateRejected,
                RetryResolved, RetryUnknown, RetryRejected, StayBlocked, Reload,
                ReloadFails, Accept, Return
<1>3. CASE AppendAgain \/ ExactAppendAgain \/ LateDelivery \/ UNCHANGED vars
    BY <1>3 DEF AppendAgain, ExactAppendAgain, LateDelivery, vars, docVars, appendVars,
                controlVars
<1>4. CASE Persist \/ CheckpointAppended \/ Prepare \/ Position \/ Publish
              \/ ManifestAppended
    BY <1>4 DEF Persist, CheckpointAppended, Prepare, Position, Publish,
                ManifestAppended, GoOn, GiveUp, Submit, RotationFrame, docVars
<1>5. CASE ExactAppendFails \/ Switch \/ StoreCallFails
    BY <1>5 DEF ExactAppendFails, Switch, StoreCallFails, GiveUp, Return
<1>6. CASE ReadManifest \/ ReplayLegacy \/ ReadCheckpoint \/ ReadDelta
              \/ ActivationFails \/ Crash
    BY <1>6 DEF ReadManifest, ReplayLegacy, ReadCheckpoint, ReadDelta,
                ActivationFails, Continue, FailActivation, Activated, Return, Crash
<1> QED BY <1>1, <1>2, <1>3, <1>4, <1>5, <1>6 DEF Next, ActorStep

\* After a successful append the checkpoint stream holds exactly the record.
LEMMA CheckpointIsAppended ==
    ASSUME TypeOK, CheckpointStored, CheckpointOwed, RotationLocals, CheckpointAppended
    PROVE  HoldsOnly(streams'[Checkpoint(generation)], checkpoint)
<1> DEFINE log == streams[Checkpoint(generation)]
<1>1. /\ pc = "appendCheckpoint" /\ Appended(1) /\ generation \in Generations
      /\ request \in CheckpointRequests /\ request \in Requests
    BY DEF CheckpointAppended, TypeOK, ActorTypeOK, Requests
<1>2. request = CheckpointRequest
    BY <1>1 DEF RotationLocals
<1>3. /\ request.stream = Checkpoint(generation)
      /\ request.producer = CheckpointProducer(generation)
      /\ request.body = checkpoint
    BY <1>2 DEF CheckpointRequest, Request
<1>4. Len(log) \in Nat /\ DOMAIN log = 1 .. Len(log) /\ Len(log) <= 1
    BY <1>1, StreamIsLog, StreamNames DEF CheckpointStored
<1>5. CASE Commits(request)
    <2>1. Len(log) = 0
        BY <1>1, <1>3, <1>5, CheckpointInOrder DEF Commits
    <2>2. /\ Len(streams'[Checkpoint(generation)]) = Len(log) + 1
          /\ streams'[Checkpoint(generation)][Len(log) + 1] = request
        BY <1>1, <1>3, <1>5, AppendedStream, StreamNames DEF Commits
    <2>3. Len(log) + 1 = 1
        BY <2>1
    <2> QED BY <1>3, <2>2, <2>3 DEF HoldsOnly
<1>6. CASE Deduplicates(request) /\ VerifiedBody(request) /\ 1 = DuplicateEnd(request)
    <2>1. streams' = streams /\ Known(request)
        BY <1>6 DEF Deduplicates, storeVars
    <2>2. log[1].body = checkpoint
        BY <1>3, <1>6 DEF VerifiedBody
    <2>3. Len(log) # 0
        BY <1>3, <1>4, <2>1 DEF Known, SequencesOf, PositionsOf
    <2>4. Len(log) = 1
        <3>1. \A n \in Nat : n <= 1 /\ n # 0 => n = 1
            OBVIOUS
        <3> QED BY <1>4, <2>3, <3>1
    <2> QED BY <2>1, <2>2, <2>4 DEF HoldsOnly
<1> QED BY <1>1, <1>5, <1>6 DEF Appended

\* After a successful append the manifest has activated the next generation.
LEMMA ManifestIsAppended ==
    ASSUME TypeOK, ManifestStored, RotationLocals, ManifestAppended
    PROVE  generation < Len(streams'[Manifest])
<1> DEFINE log == streams[Manifest]
<1>1. /\ pc = "appendManifest" /\ Appended(record.revision + 1)
      /\ generation \in Nat
      /\ request \in ManifestRequests /\ request \in Requests
    BY GenerationNumbers DEF ManifestAppended, TypeOK, ActorTypeOK, Requests
<1>2. request = ManifestRequest /\ record.revision = generation
    BY <1>1 DEF RotationLocals, ManifestRecord
<1>3. /\ request.stream = Manifest /\ request.producer = ManifestProducer
      /\ request.sequence = generation
    BY <1>2 DEF ManifestRequest, Request
<1>4. Len(log) \in Nat /\ DOMAIN log = 1 .. Len(log)
    BY StreamIsLog, StreamNames
<1>5. CASE Commits(request)
    <2>1. generation = Len(log)
        BY <1>1, <1>3, <1>5, ManifestInOrder DEF Commits
    <2>2. Len(streams'[Manifest]) = Len(log) + 1
        BY <1>1, <1>3, <1>5, AppendedStream, StreamNames DEF Commits
    <2> QED BY <1>4, <2>1, <2>2
<1>6. CASE Deduplicates(request)
    <2>1. streams' = streams /\ Known(request)
        BY <1>6 DEF Deduplicates, storeVars
    <2>2. PICK i \in DOMAIN log : log[i].sequence >= generation
        BY <1>3, <2>1 DEF Known, SequencesOf, PositionsOf
    <2>3. log[i].sequence = i - 1
        BY <2>2 DEF ManifestStored
    <2>4. i - 1 >= generation
        BY <2>2, <2>3
    <2> QED BY <1>1, <1>4, <2>1, <2>4
<1> QED BY <1>1, <1>5, <1>6 DEF Appended


\* What a rotation holds between its store calls stays true of the store.
LEMMA RotationLocalsStep ==
    ASSUME TypeOK, ChainInv, [Next]_vars
    PROVE  RotationLocals'
<1> USE DEF ChainInv
<1>1. Grows
    BY StepGrows
<1>2. generation \in Generations /\ generation \in Nat
    BY GenerationNumbers DEF TypeOK, ActorTypeOK
<1>3. /\ Len(streams[Manifest]) <= Len(streams'[Manifest])
      /\ Len(streams[Manifest]) \in Nat /\ Len(streams'[Manifest]) \in Nat
    BY <1>1, LengthsGrow, StreamIsLog, StreamNames, TypeStep DEF TypeOK, StoreTypeOK
<1>4. HoldsOnly(streams[Checkpoint(generation)], checkpoint)
         => HoldsOnly(streams'[Checkpoint(generation)], checkpoint)
    BY <1>1, <1>2, CheckpointStays
<1>5. CASE pc' \notin RotationPoints
    BY <1>5 DEF RotationLocals
<1>6. CASE UNCHANGED <<pc, generation, doc, history, checkpoint, record, request>>
    BY <1>2, <1>3, <1>4, <1>6
    DEF RotationLocals, HoldsOnly, CheckpointRequest, ManifestRequest
<1>7. CASE Rotate /\ UNCHANGED <<generation, doc, history>>
    BY <1>7 DEF Rotate, GoOn, GiveUp, Return, BuildCheckpoint, CheckpointRecord,
                RotationLocals
<1>8. CASE Persist /\ UNCHANGED <<generation, doc, history>>
    <2>1. ASSUME NEW existing \in Readable(Checkpoint(generation)), SameRecord(existing)
          PROVE  HoldsOnly(streams'[Checkpoint(generation)], checkpoint)
        BY <1>2, <1>4, <2>1, ReadOfCheckpoint, ReadableIsRead DEF SameRecord
    <2> QED BY <1>8, <2>1
            DEF Persist, GoOn, GiveUp, Submit, Return, RotationLocals, controlVars,
                CheckpointRequest
<1>9. CASE CheckpointAppended /\ UNCHANGED <<generation, doc, history>>
    BY <1>9, CheckpointIsAppended DEF CheckpointAppended, GoOn, RotationLocals, controlVars
<1>10. CASE Prepare /\ UNCHANGED <<generation, doc, history>>
    BY <1>4, <1>10 DEF Prepare, GoOn, GiveUp, Return, RotationLocals, controlVars
<1>11. CASE Position /\ UNCHANGED <<generation, doc, history>>
    <2>1. ASSUME NEW log \in Readable(Manifest),
                 log = <<>> => generation = 0,
                 log # <<>> => ActiveDelta(Latest(log)) = generation
          PROVE  (IF log = <<>> THEN 0 ELSE Latest(log).revision + 1) = generation
        <3>1. CASE log # <<>>
            BY <2>1, <3>1, LatestRecord, ReadableIsRead DEF ActiveDelta
        <3> QED BY <2>1, <3>1
    <2> QED BY <1>4, <1>11, <2>1
            DEF Position, GoOn, GiveUp, Return, RotationLocals
<1>12. CASE Publish /\ UNCHANGED <<generation, doc, history>>
    <2>1. ASSUME pc = "publish", NEW log \in Readable(Manifest), log # <<>>, Latest(log) = record
          PROVE  generation < Len(streams'[Manifest])
        <3>1. record.revision = generation
            BY <2>1 DEF RotationLocals, ManifestRecord
        <3>2. Len(log) \in Nat /\ Len(log) <= Len(streams[Manifest])
            BY ReadIsPrefix, ReadableIsRead, StreamNames
        <3>3. generation = Len(log) - 1
            BY <2>1, <3>1, LatestRecord, ReadableIsRead
        <3> QED BY <1>2, <1>3, <3>2, <3>3
    <2> QED BY <1>4, <1>12, <2>1
            DEF Publish, GoOn, GiveUp, Submit, Return, RotationLocals, controlVars,
                ManifestRequest
<1>13. CASE ManifestAppended /\ UNCHANGED <<generation, doc, history>>
    BY <1>4, <1>13, ManifestIsAppended
    DEF ManifestAppended, GoOn, RotationLocals, controlVars
<1> QED BY <1>5, <1>6, <1>7, <1>8, <1>9, <1>10, <1>11, <1>12, <1>13, WhoRotates

-----------------------------------------------------------------------------
(* The locals of an activation, and the active generation *)

\* The record an activation follows stays in the manifest.
LEMMA ActivationLocalsStep ==
    ASSUME TypeOK, ChainInv, [Next]_vars
    PROVE  ActivationLocals'
<1> USE DEF ChainInv
<1>1. \A i \in DOMAIN streams[Manifest] :
         i \in DOMAIN streams'[Manifest] /\ streams'[Manifest][i] = streams[Manifest][i]
    BY StepGrows, RecordsStay, StreamNames
<1>2. CASE pc' \notin {"readCheckpoint", "readDelta"}
    BY <1>2 DEF ActivationLocals
<1>3. CASE UNCHANGED <<pc, checkpoint, record>>
    BY <1>1, <1>3 DEF ActivationLocals
<1>4. CASE ReadManifest
    <2>1. ASSUME NEW log \in Readable(Manifest), log # <<>>
          PROVE  \E i \in DOMAIN streams'[Manifest] : Latest(log) = streams'[Manifest][i].body
        BY <1>1, <2>1, LatestRecord, ReadableIsRead
    <2> QED BY <1>4, <2>1
            DEF ReadManifest, Continue, FailActivation, Activated, Return, ActivationLocals
<1>5. CASE ReadCheckpoint
    BY <1>1, <1>5 DEF ReadCheckpoint, Continue, FailActivation, Activated, Return,
                      ActivationLocals
<1>6. CASE Command
    BY <1>2, <1>3, <1>6 DEF Command, Join, Leave, Update, RetryAmbiguous, Rotate, GoOn,
                            GiveUp, Return, controlVars
<1>7. CASE UpdateCommitted \/ UpdateVerified \/ UpdateUnknown \/ UpdateRejected
              \/ RetryResolved \/ RetryUnknown \/ RetryRejected \/ Reload
              \/ ReloadFails
    BY <1>2, <1>7 DEF UpdateCommitted, UpdateVerified, UpdateUnknown, UpdateRejected,
                RetryResolved, RetryUnknown, RetryRejected, StayBlocked, Reload,
                ReloadFails, Accept, Return
<1>8. CASE AppendAgain \/ ExactAppendAgain \/ LateDelivery \/ UNCHANGED vars
    BY <1>3, <1>8 DEF AppendAgain, ExactAppendAgain, LateDelivery, vars, controlVars
<1>9. CASE Persist \/ CheckpointAppended \/ Prepare \/ Position \/ Publish
              \/ ManifestAppended \/ ExactAppendFails \/ Switch \/ StoreCallFails
    BY <1>2, <1>9 DEF Persist, CheckpointAppended, Prepare, Position, Publish,
                ManifestAppended, GoOn, GiveUp, Submit, ExactAppendFails, Switch,
                StoreCallFails, Return
<1>10. CASE ReplayLegacy \/ ReadDelta \/ ActivationFails \/ Crash
    BY <1>2, <1>10 DEF ReplayLegacy, ReadDelta, ActivationFails, FailActivation,
                Activated, Return, Crash
<1> QED BY <1>4, <1>5, <1>6, <1>7, <1>8, <1>9, <1>10 DEF Next, ActorStep

\* Where the actor's generation changes.
LEMMA WhoSwitches ==
    ASSUME [Next]_vars
    PROVE  generation' = generation \/ Switch \/ ReadDelta \/ Crash
<1>1. CASE Command
    BY <1>1 DEF Command, Join, Leave, Update, RetryAmbiguous, Rotate, GoOn, GiveUp,
                RotationFrame
<1>2. CASE UpdateCommitted \/ UpdateVerified \/ AppendAgain \/ UpdateUnknown
              \/ UpdateRejected \/ RetryResolved \/ RetryUnknown \/ RetryRejected
              \/ Reload \/ ReloadFails
    BY <1>2 DEF UpdateCommitted, UpdateVerified, AppendAgain, UpdateUnknown,
                UpdateRejected, RetryResolved, RetryUnknown, RetryRejected,
                StayBlocked, Reload, ReloadFails, Accept
<1>3. CASE Persist \/ CheckpointAppended \/ ExactAppendAgain \/ ExactAppendFails
              \/ Prepare \/ Position \/ Publish \/ ManifestAppended
              \/ StoreCallFails
    BY <1>3 DEF Persist, CheckpointAppended, ExactAppendAgain, ExactAppendFails,
                Prepare, Position, Publish, ManifestAppended, StoreCallFails,
                GoOn, GiveUp, Submit, RotationFrame
<1>4. CASE ReadManifest \/ ReplayLegacy \/ ReadCheckpoint \/ ActivationFails
    BY <1>4 DEF ReadManifest, ReplayLegacy, ReadCheckpoint, ActivationFails, Continue,
                FailActivation
<1>5. CASE LateDelivery \/ UNCHANGED vars
    BY <1>5 DEF LateDelivery, vars
<1> QED BY <1>1, <1>2, <1>3, <1>4, <1>5 DEF Next, ActorStep

\* The actor works on a generation that the manifest has activated.
LEMMA GenerationStep ==
    ASSUME TypeOK, ChainInv, [Next]_vars
    PROVE  GenerationActivated'
<1> USE DEF ChainInv, GenerationActivated
<1>1. generation \in Nat
    BY GenerationNumbers DEF TypeOK, ActorTypeOK
<1>2. /\ Len(streams[Manifest]) <= Len(streams'[Manifest])
      /\ Len(streams[Manifest]) \in Nat /\ Len(streams'[Manifest]) \in Nat
      /\ DOMAIN streams[Manifest] = 1 .. Len(streams[Manifest])
    BY StepGrows, LengthsGrow, StreamIsLog, StreamNames, TypeStep DEF TypeOK, StoreTypeOK
<1>3. CASE generation' = generation
    BY <1>1, <1>2, <1>3
<1>4. CASE Switch
    <2>1. generation < Len(streams[Manifest]) /\ generation' = generation + 1
        BY <1>4 DEF Switch, RotationLocals
    <2> QED BY <1>1, <1>2, <2>1
<1>5. CASE ReadDelta
    <2>1. PICK i \in DOMAIN streams[Manifest] : record = streams[Manifest][i].body
        BY <1>5 DEF ReadDelta, ActivationLocals
    <2>2. /\ NamesStored(streams[Manifest][i])
          /\ streams[Manifest][i].sequence = i - 1
        BY <2>1 DEF ManifestStored
    <2>3. record.checkpoint.generation = i - 1
        BY <2>1, <2>2 DEF NamesStored
    <2>4. generation' = i - 1 + 1
        BY <1>5, <2>3 DEF ReadDelta, ActiveDelta
    <2> QED BY <1>2, <2>1, <2>4
<1>6. CASE Crash
    BY <1>2, <1>6 DEF Crash
<1> QED BY <1>3, <1>4, <1>5, <1>6, WhoSwitches

-----------------------------------------------------------------------------
(* The theorems *)

\* An empty store satisfies the invariant.
LEMMA ChainInit ==
    ASSUME Init
    PROVE  ChainInv
<1>1. Settled
    <2>1. doc = {} /\ OpsOfAll(history) = {}
        BY DEF Init, OpsOfAll
    <2>2. Visible({}) = {}
        BY VisibleIsPart
    <2> QED BY <2>1, <2>2 DEF Settled, LiveOps
<1>2. \A s \in Streams : streams[s] = <<>>
    BY DEF Init, UrsulaInit
<1>3. ManifestStored /\ CheckpointStored /\ NextGenerationUntouched /\ GenerationActivated
    BY <1>2, StreamNames DEF Init, ManifestStored, CheckpointStored,
       NextGenerationUntouched, GenerationActivated
<1>4. Owed = {}
    BY DEF Init, UrsulaInit, Owed, Sending
<1> QED BY <1>1, <1>3, <1>4
        DEF Init, ChainInv, ManifestOwed, CheckpointOwed, DeltaOwed, RotationLocals,
            ActivationLocals

\* Every step of the gateway keeps the invariant.
LEMMA ChainStep ==
    ASSUME TypeOK, ChainInv, [Next]_vars
    PROVE  ChainInv'
<1>1. Settled'
    BY SettledStep DEF ChainInv
<1> QED BY <1>1, ManifestStep, CheckpointStep, UntouchedStep, ManifestOwedStep,
           CheckpointOwedStep, DeltaOwedStep, RotationLocalsStep,
           ActivationLocalsStep, GenerationStep DEF ChainInv

\* The invariant of the chain of generations, in every environment.
THEOREM ChainHolds == Spec => []ChainInv
<1>1. Init => ChainInv
    BY ChainInit
<1>2. TypeOK /\ ChainInv /\ [Next]_vars => ChainInv'
    BY ChainStep
<1> QED BY <1>1, <1>2, TypeCorrect, PTL DEF Spec

\* Whatever requests of dead processes, stale reads and crashes do, a delta
\* generation that the manifest has not activated is empty: the switch comes
\* after the manifest append (rotate_room, rotation.rs).
THEOREM NextGenerationIsUntouched == Spec => []NextGenerationUntouched
<1>1. ChainInv => NextGenerationUntouched
    BY DEF ChainInv
<1> QED BY <1>1, ChainHolds, PTL

\* Each record of the manifest names the checkpoint of its generation, which is
\* stored whole and alone in its stream, and the chain has no gap: the
\* checkpoint is durable before the manifest names it (persist_checkpoint and
\* publish_manifest_record).
THEOREM ManifestNamesCheckpoints == Spec => []ManifestNamesStoredCheckpoint
<1>1. TypeOK /\ ChainInv => ManifestNamesStoredCheckpoint
    BY DEF ChainInv, ManifestStored, NamesStored, ManifestNamesStoredCheckpoint
<1> QED BY <1>1, TypeCorrect, ChainHolds, PTL

\* The document of a ready room shows everything that replaying the retained
\* blobs over it can show, and nothing of it waits for an operation that is
\* missing: every way to load or to change it ends in an import of the whole
\* history (build_candidate, load_from_store, recover_from_manifest).
THEOREM DocumentIsSettled == Spec => []DocumentSettled
<1>1. ChainInv => DocumentSettled
    BY DEF ChainInv, Settled, DocumentSettled
<1> QED BY <1>1, ChainHolds, PTL


-----------------------------------------------------------------------------
(* What the peers of a room have seen *)

\* No update depends on another one, so no blob is ever pending: a join reply
\* does not hold what is pending (README, where the passing properties stop).
Independent == \A u \in Updates : Deps[u] = {}

\* A peer was sent the whole document, at every await of every command; a room
\* that is being activated has no peers yet.
PeersSee ==
    /\ pc \in RecoveryPoints => peers = {}
    /\ \A c \in peers : doc \subseteq heard[c]

\* Where peers join or leave, and where a peer is sent something.
LEMMA WhoServesPeers ==
    ASSUME [Next]_vars
    PROVE  \/ UNCHANGED <<peers, heard>>
           \/ \E c \in Connections : Join(c) \/ Leave(c)
           \/ UpdateCommitted \/ UpdateVerified \/ Crash
<1>1. CASE Command
    BY <1>1 DEF Command, Update, RetryAmbiguous, Rotate, GoOn, GiveUp, RotationFrame,
                peerVars
<1>2. CASE AppendAgain \/ UpdateUnknown \/ UpdateRejected \/ RetryResolved
              \/ RetryUnknown \/ RetryRejected \/ Reload \/ ReloadFails
    BY <1>2 DEF AppendAgain, UpdateUnknown, UpdateRejected, RetryResolved,
                RetryUnknown, RetryRejected, StayBlocked, Reload, ReloadFails, peerVars
<1>3. CASE Persist \/ CheckpointAppended \/ ExactAppendAgain \/ ExactAppendFails
              \/ Prepare \/ Position \/ Publish \/ ManifestAppended
              \/ Switch \/ StoreCallFails
    BY <1>3 DEF Persist, CheckpointAppended, ExactAppendAgain, ExactAppendFails,
                Prepare, Position, Publish, ManifestAppended, Switch, StoreCallFails,
                GoOn, GiveUp, Submit, RotationFrame, peerVars
<1>4. CASE ReadManifest \/ ReplayLegacy \/ ReadCheckpoint \/ ReadDelta \/ ActivationFails
    BY <1>4 DEF ReadManifest, ReplayLegacy, ReadCheckpoint, ReadDelta, ActivationFails,
                Continue, FailActivation, Activated, peerVars
<1>5. CASE LateDelivery \/ UNCHANGED vars
    BY <1>5 DEF LateDelivery, vars, peerVars
<1> QED BY <1>1, <1>2, <1>3, <1>4, <1>5 DEF Next, ActorStep

\* Where an activation goes on: no step outside it leads into it but a crash.
LEMMA WhoActivatesNext ==
    ASSUME [Next]_vars, pc' \in RecoveryPoints
    PROVE  (pc \in RecoveryPoints /\ UNCHANGED peers) \/ Crash
<1>1. CASE Command
    BY <1>1 DEF Command, Join, Leave, Update, RetryAmbiguous, Rotate, GoOn, GiveUp, Return,
                Idle
<1>2. CASE UpdateCommitted \/ UpdateVerified \/ AppendAgain \/ UpdateUnknown
              \/ UpdateRejected \/ RetryResolved \/ RetryUnknown \/ RetryRejected
              \/ Reload \/ ReloadFails
    BY <1>2 DEF UpdateCommitted, UpdateVerified, Accept, AppendAgain, UpdateUnknown,
                UpdateRejected, RetryResolved, RetryUnknown, RetryRejected, StayBlocked,
                Reload, ReloadFails, Return
<1>3. CASE Persist \/ CheckpointAppended \/ ExactAppendAgain \/ ExactAppendFails
              \/ Prepare \/ Position \/ Publish \/ ManifestAppended
              \/ Switch \/ StoreCallFails
    BY <1>3 DEF Persist, CheckpointAppended, ExactAppendAgain, ExactAppendFails,
                Prepare, Position, Publish, ManifestAppended, Switch, StoreCallFails,
                GoOn, GiveUp, Submit, Return
<1>4. CASE ReadManifest \/ ReplayLegacy \/ ReadCheckpoint \/ ReadDelta \/ ActivationFails
    BY <1>4 DEF ReadManifest, ReplayLegacy, ReadCheckpoint, ReadDelta, ActivationFails,
                Continue, FailActivation, Activated, peerVars
<1>5. CASE LateDelivery \/ UNCHANGED vars
    BY <1>5 DEF LateDelivery, vars, peerVars
<1> QED BY <1>1, <1>2, <1>3, <1>4, <1>5 DEF Next, ActorStep

\* Independent operations are visible as soon as they are imported.
LEMMA IndependentIsVisible ==
    ASSUME Independent, NEW S \in SUBSET Updates
    PROVE  Visible(S) = S
BY VisibleIsPart, ClosedIsVisible DEF Independent, Closed

\* What the room retains is in the document it shows.
LEMMA NothingPending ==
    ASSUME Independent, TypeOK, Settled
    PROVE  OpsOfAll(history) \subseteq doc
<1>1. LiveOps \subseteq Updates
    BY OpsOfBlobs DEF TypeOK, ActorTypeOK, LiveOps
<1>2. doc = LiveOps
    BY <1>1, IndependentIsVisible DEF Settled
<1> QED BY <1>2 DEF LiveOps

\* Without an operator's retries no append is resolved or reloaded later.
NoRetries == pc \notin {"retry", "reload"}

\* Every step of such a gateway keeps it so.
LEMMA NoRetriesStep ==
    ASSUME ~OperatorRetries, NoRetries, [Next]_vars
    PROVE  NoRetries'
<1> USE DEF NoRetries
<1>1. CASE Command
    BY <1>1 DEF Command, Join, Leave, Update, RetryAmbiguous, Rotate, GoOn, GiveUp, Return
<1>2. CASE UpdateCommitted \/ UpdateVerified \/ AppendAgain \/ UpdateUnknown
              \/ UpdateRejected \/ RetryResolved \/ RetryUnknown \/ RetryRejected
              \/ Reload \/ ReloadFails
    BY <1>2 DEF UpdateCommitted, UpdateVerified, Accept, AppendAgain, UpdateUnknown,
                UpdateRejected, RetryResolved, RetryUnknown, RetryRejected, StayBlocked,
                Reload, ReloadFails, Return
<1>3. CASE Persist \/ CheckpointAppended \/ ExactAppendAgain \/ ExactAppendFails
              \/ Prepare \/ Position \/ Publish \/ ManifestAppended
              \/ Switch \/ StoreCallFails
    BY <1>3 DEF Persist, CheckpointAppended, ExactAppendAgain, ExactAppendFails,
                Prepare, Position, Publish, ManifestAppended, Switch, StoreCallFails,
                GoOn, GiveUp, Submit, Return
<1>4. CASE ReadManifest \/ ReplayLegacy \/ ReadCheckpoint \/ ReadDelta \/ ActivationFails
    BY <1>4 DEF ReadManifest, ReplayLegacy, ReadCheckpoint, ReadDelta, ActivationFails,
                Continue, FailActivation, Activated, Return
<1>5. CASE LateDelivery \/ Crash \/ UNCHANGED vars
    BY <1>5 DEF LateDelivery, Crash, vars
<1> QED BY <1>1, <1>2, <1>3, <1>4, <1>5 DEF Next, ActorStep

\* A join is sent the document, and an update everything it adds to it.  A
\* reload would change the document of a room with peers and send them nothing.
LEMMA PeersSeeStep ==
    ASSUME Independent, TypeOK, Settled, PeersSee, NoRetries, [Next]_vars
    PROVE  PeersSee'
<1>1. pc' \in RecoveryPoints => peers' = {}
    BY WhoActivatesNext DEF PeersSee, Crash
<1>2. CASE Crash
    BY <1>2 DEF Crash, PeersSee
<1>3. CASE \E c \in Connections : Join(c)
    BY <1>1, <1>3 DEF Join, JoinReply, docVars, PeersSee, TypeOK, ActorTypeOK
<1>4. CASE \E c \in Connections : Leave(c)
    BY <1>1, <1>4 DEF Leave, docVars, PeersSee, TypeOK, ActorTypeOK
<1>5. CASE UpdateCommitted \/ UpdateVerified
    <2> DEFINE blobs == Content[request.body]
    <2>1. /\ doc' = Visible(doc \cup OpsOfAll(history \cup blobs))
          /\ peers' = peers
          /\ \A c \in peers : c \in Connections => heard'[c] = heard[c] \cup OpsOfAll(blobs)
        BY <1>5 DEF UpdateCommitted, UpdateVerified, Accept, Candidate
    <2>2. OpsOfAll(history \cup blobs) = OpsOfAll(history) \cup OpsOfAll(blobs)
        BY DEF OpsOfAll
    <2>3. doc' \subseteq doc \cup OpsOfAll(blobs)
        BY <2>1, <2>2, VisibleIsPart, NothingPending
    <2> QED BY <1>1, <2>1, <2>3 DEF PeersSee, TypeOK, ActorTypeOK
<1>6. CASE UNCHANGED <<peers, heard>> /\ ~UpdateCommitted /\ ~UpdateVerified /\ ~Crash
    <2>1. doc' = doc \/ peers = {}
        BY <1>6, WhoChangesTheRoom
           DEF PeersSee, NoRetries, Reload, Switch, ReplayLegacy, ReadDelta
    <2> QED BY <1>1, <1>6, <2>1 DEF PeersSee
<1> QED BY <1>2, <1>3, <1>4, <1>5, <1>6, WhoServesPeers

\* A peer of an idle ready room was sent everything its document shows, whatever
\* was lost, repeated, reordered or restarted: the join reply holds what came
\* before and the broadcasts what comes after, and no update falls between them
\* (join and update, actor.rs).
THEOREM PeersConverge ==
    ASSUME Independent, ~OperatorRetries
    PROVE  Spec => []JoinedPeersConverge
<1>1. Init => PeersSee /\ NoRetries
    BY DEF Init, PeersSee, NoRetries
<1>2. TypeOK /\ ChainInv /\ PeersSee /\ NoRetries /\ [Next]_vars => PeersSee' /\ NoRetries'
    BY PeersSeeStep, NoRetriesStep DEF ChainInv
<1>3. TypeOK /\ PeersSee => JoinedPeersConverge
    <2> SUFFICES ASSUME TypeOK, PeersSee, NEW c \in peers
                 PROVE  doc \subseteq Visible(heard[c])
        BY DEF JoinedPeersConverge
    <2>1. heard[c] \subseteq Updates /\ doc \subseteq heard[c]
        BY DEF TypeOK, ActorTypeOK, PeersSee
    <2> QED BY <2>1, IndependentIsVisible
<1> QED BY <1>1, <1>2, <1>3, TypeCorrect, ChainHolds, PTL DEF Spec
=============================================================================
