-------------------------- MODULE SequenceProofs ----------------------------
(***************************************************************************)
(* First the producer's sequences, in every environment: the actor's       *)
(* counter and the store agree up to one append.  Then one process at a    *)
(* time: when a request does not outlive its process and reads return the  *)
(* tail, the actor's offsets and generation agree with the store too, also *)
(* after an operator resolved a blocked append.  When reads return the     *)
(* tail and keep their protocol, a room becomes corrupt only for one of    *)
(* two reasons.  When besides requests die with their process and nobody   *)
(* reloads a room that has rotated, acknowledged and shared operations     *)
(* survive lost answers, rotations and restarts, and the gateway           *)
(* implements the durable room.                                            *)
(***************************************************************************)
EXTENDS ChainProofs, GatewayPromise

USE DEF UpdatePoints, RotationPoints, RecoveryPoints, ProgramPoints, AppendPoints,
        CheckpointPoints, RecordPoints, Lifecycles

-----------------------------------------------------------------------------
(* The inductive invariant of the producer's sequences *)

\* An append of this process waits for an operator, or an operator's retry of it
\* is under way.
Unresolved == blocked # None \/ pc \in {"retry", "reload"}

\* The actor knows where the active delta ends, up to one append.
Tracked == lifecycle = "ready" \/ Unresolved

\* Where the actor is in its life: only a ready room runs updates and rotations,
\* a blocked append is retried by an idle actor, and an activation starts from
\* nothing.
Phases ==
    /\ pc \in RecoveryPoints <=> lifecycle = "recovering"
    /\ pc \in {"append"} \cup RotationPoints => lifecycle = "ready"
    /\ lifecycle = "ready" => ~Unresolved
    /\ blocked # None => pc = "idle"
    /\ pc \in {"retry", "reload"} => OperatorRetries
    /\ lifecycle = "recovering" =>
          /\ blocked = None
          /\ generation = 0 /\ producerSequence = 0
          /\ doc = {} /\ history = {}
          /\ \A c \in Connections : heard[c] = {}

\* The process of boot b can have sent frames for generation g: it is a former
\* one, or the running one, which is activated and got that far.
Reached(b, g) == b <= boot /\ (b = boot => lifecycle # "recovering" /\ g <= generation)

\* A frame on its way is of a generation that its process reached, and one of the
\* running process is of a sequence it reached.
FramesOwed ==
    /\ \A r \in Owed, g \in Generations, b \in Boots :
          r.stream = Delta(g) /\ r.producer = DeltaProducer(b, g) =>
              /\ Reached(b, g)
              /\ b = boot /\ g = generation => r.sequence <= producerSequence
    /\ pc \in UpdatePoints => request = Frame(request.body)
    /\ blocked # None => blocked = Frame(blocked.body)

\* So is every frame that is stored.
FramesStored ==
    \A g \in Generations : \A i \in DOMAIN streams[Delta(g)] : \A b \in Boots :
        streams[Delta(g)][i].producer = DeltaProducer(b, g) => Reached(b, g)

\* The store knows the sequences the actor used, and at most the next one too.  A
\* retry goes on to the reload when it has proved that the store knows that one.
OwnSequences == SequencesOf(Frame(None))
SequenceTail ==
    Tracked => \/ pc # "reload" /\ OwnSequences = 0 .. producerSequence - 1
               \/ OwnSequences = 0 .. producerSequence

\* What holds of the producer's sequences in every environment.
ProducerInv == Phases /\ FramesOwed /\ FramesStored /\ SequenceTail

-----------------------------------------------------------------------------
(* The inductive invariant of one process at a time *)

\* The environment of what follows.
Calm == ~Orphans /\ ~StaleReads

\* A reload rebuilds the room from one delta stream alone, so what the room keeps
\* is claimed where an operator retries, or where the room rotates, not for both.
ReloadsKeepAll == OperatorRetries => MaxGeneration = 0

\* What a checkpoint keeps.
CheckpointOps(cp) == cp.snapshot \cup OpsOfAll(cp.pending)

\* A request does not outlive its process.
OwnOwed ==
    /\ lifecycle = "recovering" => inflight = {}
    /\ \A r \in Owed, g \in Generations :
          r.stream = Delta(g) => r.producer = DeltaProducer(boot, g)

\* The store has what the actor knows of, and at most the one append whose
\* answer it did not take.  A failed reload may leave any end offset behind: only
\* that of a ready room is relied on.
LogTail ==
    Tracked =>
        LET log == streams[Delta(generation)] IN
        \/ /\ pc # "reload"
           /\ OwnSequences = 0 .. producerSequence - 1
           /\ lifecycle = "ready" => Len(log) = endOffset
        \/ /\ OwnSequences = 0 .. producerSequence
           /\ log[Len(log)].producer = DeltaProducer(boot, generation)
           /\ lifecycle = "ready" => Len(log) = endOffset + 1

\* The manifest's active generation is the actor's.
ActiveIsOwn ==
    LET n == Len(streams[Manifest]) IN
    /\ Tracked =>
          /\ pc \notin {"appendManifest", "switch"} => n = generation
          /\ pc = "appendManifest" => n \in {generation, generation + 1}
          /\ pc = "switch" => n = generation + 1
          /\ \A g \in Generations : g > generation => streams[Delta(g)] = <<>>
    /\ pc = "replay" => n = 0
    /\ pc \in {"readCheckpoint", "readDelta"} =>
          n # 0 /\ record = streams[Manifest][n].body

\* A manifest record that is not applied yet is the one of this rotation, or of
\* the rotation that made the room unavailable, which no operator undoes.
ManifestsOwed ==
    \A r \in Owed : r.stream = Manifest =>
        /\ r.sequence <= Len(streams[Manifest])
        /\ \/ r.sequence < Len(streams[Manifest])
           \/ pc = "appendManifest" /\ r = request
           \/ lifecycle = "unavailable" /\ ~Unresolved

\* The frames up to the end offset are in the retained history, and a rotation
\* keeps all of the room.
Retained ==
    /\ lifecycle = "ready" =>
          \A i \in 1 .. endOffset : Content[streams[Delta(generation)][i].body] \subseteq history
    /\ pc \in RotationPoints =>
          CheckpointOps(checkpoint) = LiveOps /\ checkpoint.endOffset = endOffset

\* A checkpoint holds the frames its source range covers.
Covers(cp) ==
    /\ cp.endOffset <= Len(streams[Delta(cp.generation)])
    /\ \A i \in 1 .. cp.endOffset :
          OpsOfAll(Content[streams[Delta(cp.generation)][i].body]) \subseteq CheckpointOps(cp)
Covered ==
    /\ \A i \in DOMAIN streams[Manifest] : Covers(streams[Manifest][i].body.checkpoint)
    /\ \A r \in Owed : r.stream = Manifest => Covers(r.body.checkpoint)

\* A full snapshot can only become the first frame of its generation.
ReplayableOwed ==
    \A r \in Owed, g \in Generations : r.stream = Delta(g) =>
        /\ ValidBlobs(Content[r.body], TRUE)
        /\ Content[r.body] \cap Snapshots # {} =>
              /\ r.sequence = 0
              /\ \A i \in DOMAIN streams[Delta(g)] :
                    streams[Delta(g)][i].producer = DeltaProducer(boot, g)
Replays ==
    /\ \A g \in Generations : Replayable(streams[Delta(g)])
    /\ ReplayableOwed

SequenceInv ==
    /\ ProducerInv /\ OwnOwed /\ LogTail
    /\ ActiveIsOwn /\ ManifestsOwed
    /\ Retained /\ Covered /\ Replays

-----------------------------------------------------------------------------
(* Phases *)

\* The phases follow each other.
LEMMA PhasesStep ==
    ASSUME Phases, [Next]_vars
    PROVE  Phases'
<1> USE DEF Phases, Unresolved
<1>1. CASE Command
    BY <1>1 DEF Command, Join, Leave, Update, RetryAmbiguous, Rotate, GoOn, GiveUp,
                Return, RotationFrame, Idle, docVars, peerVars
<1>2. CASE UpdateCommitted \/ UpdateVerified \/ UpdateUnknown \/ UpdateRejected
    BY <1>2 DEF UpdateCommitted, UpdateVerified, UpdateUnknown, UpdateRejected,
                Accept, Return
<1>3. CASE AppendAgain \/ ExactAppendAgain
    BY <1>3 DEF AppendAgain, ExactAppendAgain
<1>4. CASE RetryResolved \/ RetryUnknown \/ RetryRejected \/ Reload \/ ReloadFails
    BY <1>4 DEF RetryResolved, RetryUnknown, RetryRejected, StayBlocked, Reload,
                ReloadFails, Return
<1>5. CASE Persist \/ CheckpointAppended \/ ExactAppendFails \/ Prepare \/ Position
              \/ Publish \/ ManifestAppended \/ Switch \/ StoreCallFails
    BY <1>5 DEF Persist, CheckpointAppended, ExactAppendFails, Prepare, Position,
                Publish, ManifestAppended, Switch, StoreCallFails, GoOn, GiveUp,
                Submit, Return, RotationFrame
<1>6. CASE ReadManifest \/ ReplayLegacy \/ ReadCheckpoint \/ ReadDelta \/ ActivationFails
    BY <1>6 DEF ReadManifest, ReplayLegacy, ReadCheckpoint, ReadDelta, ActivationFails,
                Continue, FailActivation, Activated, Return, docVars, peerVars
<1>7. CASE LateDelivery
    BY <1>7 DEF LateDelivery, docVars, peerVars
<1>8. CASE Crash
    BY <1>8 DEF Crash
<1>9. CASE UNCHANGED vars
    BY <1>9 DEF vars, docVars, peerVars
<1> QED BY <1>1, <1>2, <1>3, <1>4, <1>5, <1>6, <1>7, <1>8, <1>9 DEF Next, ActorStep

-----------------------------------------------------------------------------
(* Frames on their way *)

\* Where the actor's counters change.
LEMMA WhoCounts ==
    ASSUME [Next]_vars
    PROVE  \/ UNCHANGED <<boot, generation, producerSequence, endOffset>>
           \/ UpdateCommitted \/ UpdateVerified \/ Reload \/ ReloadFails \/ Switch
           \/ ReplayLegacy \/ ReadDelta \/ Crash
<1>1. CASE Command
    BY <1>1 DEF Command, Join, Leave, Update, RetryAmbiguous, Rotate, GoOn, GiveUp,
                RotationFrame, docVars
<1>2. CASE AppendAgain \/ UpdateUnknown \/ UpdateRejected
    BY <1>2 DEF AppendAgain, UpdateUnknown, UpdateRejected, docVars
<1>3. CASE RetryResolved \/ RetryUnknown \/ RetryRejected
    BY <1>3 DEF RetryResolved, RetryUnknown, RetryRejected, StayBlocked, docVars
<1>4. CASE Persist \/ CheckpointAppended \/ ExactAppendAgain \/ ExactAppendFails
              \/ Prepare \/ Position \/ Publish \/ ManifestAppended
              \/ StoreCallFails
    BY <1>4 DEF Persist, CheckpointAppended, ExactAppendAgain, ExactAppendFails,
                Prepare, Position, Publish, ManifestAppended, StoreCallFails,
                GoOn, GiveUp, Submit, RotationFrame, docVars
<1>5. CASE ReadManifest \/ ReadCheckpoint \/ ActivationFails
    BY <1>5 DEF ReadManifest, ReadCheckpoint, ActivationFails, Continue,
                FailActivation, Activated, docVars
<1>6. CASE LateDelivery \/ UNCHANGED vars
    BY <1>6 DEF LateDelivery, vars, docVars
<1> QED BY <1>1, <1>2, <1>3, <1>4, <1>5, <1>6 DEF Next, ActorStep

\* The actor's counters are numbers.
LEMMA Counters ==
    TypeOK => /\ boot \in Boots /\ boot \in Nat
              /\ generation \in Generations /\ generation \in Nat
              /\ producerSequence \in Nat /\ endOffset \in Nat
BY GenerationNumbers, NamesAssumption DEF TypeOK, ActorTypeOK, Boots

\* The same after a step.
LEMMA CountersAfter ==
    (TypeOK => /\ boot \in Boots /\ boot \in Nat
               /\ generation \in Generations /\ generation \in Nat
               /\ producerSequence \in Nat /\ endOffset \in Nat)'
BY Counters, PTL

\* A process counts on.
LEMMA CountersStep ==
    ASSUME TypeOK, ProducerInv, [Next]_vars
    PROVE  \/ Crash
           \/ /\ boot' = boot
              /\ generation <= generation'
              /\ generation' = generation => producerSequence <= producerSequence'
<1> USE DEF ProducerInv
<1>1. generation \in Nat /\ producerSequence \in Nat /\ generation' \in Nat
    BY Counters, CountersAfter, TypeStep
<1>2. CASE UNCHANGED <<boot, generation, producerSequence>>
    BY <1>1, <1>2
<1>3. CASE UpdateCommitted \/ UpdateVerified
    BY <1>1, <1>3 DEF UpdateCommitted, UpdateVerified, Accept
<1>4. CASE Switch
    BY <1>1, <1>4 DEF Switch
<1>5. CASE ReplayLegacy \/ ReadDelta
    BY <1>1, <1>5 DEF ReplayLegacy, ReadDelta, Activated, Phases
<1>6. CASE Reload
    <2>1. request.sequence = producerSequence
        BY <1>6 DEF Reload, FramesOwed, Frame, Request
    <2> QED BY <1>1, <1>6, <2>1 DEF Reload
<1>7. CASE ReloadFails
    BY <1>2, <1>7 DEF ReloadFails
<1> QED BY <1>2, <1>3, <1>4, <1>5, <1>6, <1>7, WhoCounts

\* An activation is not left and entered again but through a crash.
LEMMA PhaseKept ==
    ASSUME [Next]_vars
    PROVE  \/ Crash
           \/ boot' = boot /\ (lifecycle' = "recovering" => lifecycle = "recovering")
<1>1. CASE Command
    BY <1>1 DEF Command, Join, Leave, Update, RetryAmbiguous, Rotate, GoOn, GiveUp,
                RotationFrame
<1>2. CASE UpdateCommitted \/ UpdateVerified \/ AppendAgain \/ UpdateUnknown
              \/ UpdateRejected
    BY <1>2 DEF UpdateCommitted, UpdateVerified, Accept, AppendAgain, UpdateUnknown,
                UpdateRejected
<1>3. CASE RetryResolved \/ RetryUnknown \/ RetryRejected \/ Reload \/ ReloadFails
    BY <1>3 DEF RetryResolved, RetryUnknown, RetryRejected, StayBlocked, Reload,
                ReloadFails
<1>4. CASE Persist \/ CheckpointAppended \/ ExactAppendAgain \/ ExactAppendFails
              \/ Prepare \/ Position \/ Publish \/ ManifestAppended
              \/ Switch \/ StoreCallFails
    BY <1>4 DEF Persist, CheckpointAppended, ExactAppendAgain, ExactAppendFails,
                Prepare, Position, Publish, ManifestAppended, Switch, StoreCallFails,
                GoOn, GiveUp, Submit, RotationFrame
<1>5. CASE ReadManifest \/ ReplayLegacy \/ ReadCheckpoint \/ ReadDelta \/ ActivationFails
    BY <1>5 DEF ReadManifest, ReplayLegacy, ReadCheckpoint, ReadDelta, ActivationFails,
                Continue, FailActivation, Activated
<1>6. CASE LateDelivery \/ UNCHANGED vars
    BY <1>6 DEF LateDelivery, vars
<1> QED BY <1>1, <1>2, <1>3, <1>4, <1>5, <1>6 DEF Next, ActorStep

\* What a process has reached it, or its successors, have reached after any step.
LEMMA ReachedStep ==
    ASSUME TypeOK, ProducerInv, [Next]_vars, NEW b \in Boots, NEW g \in Generations,
           Reached(b, g)
    PROVE  Reached(b, g)'
<1>1. /\ boot \in Nat /\ b \in Nat /\ g \in Nat
      /\ generation \in Nat /\ generation' \in Nat
    <2>1. b \in Nat /\ g \in Nat
        BY GenerationNumbers, NamesAssumption DEF Boots
    <2> QED BY <2>1, Counters, CountersAfter, TypeStep
<1>2. CASE Crash
    BY <1>1, <1>2 DEF Crash, Reached
<1>3. CASE /\ boot' = boot /\ generation <= generation'
           /\ lifecycle' = "recovering" => lifecycle = "recovering"
    BY <1>1, <1>3 DEF Reached
<1> QED BY <1>2, <1>3, CountersStep, PhaseKept DEF ProducerInv

\* A frame that may still be appended is within the reach of its process.
LEMMA FramesOwedStep ==
    ASSUME TypeOK, ProducerInv, [Next]_vars
    PROVE  FramesOwed'
<1> USE DEF ProducerInv
<1>1. /\ boot \in Boots /\ boot \in Nat /\ generation \in Nat /\ generation \in Generations
      /\ producerSequence \in Nat /\ generation' \in Nat /\ producerSequence' \in Nat
    BY Counters, CountersAfter, TypeStep
<1>2. ASSUME NEW r \in Owed', NEW g \in Generations, NEW b \in Boots,
             r.stream = Delta(g), r.producer = DeltaProducer(b, g)
      PROVE  /\ Reached(b, g)'
             /\ b = boot' /\ g = generation' => r.sequence <= producerSequence'
    <2>1. b \in Nat /\ g \in Nat
        BY GenerationNumbers, NamesAssumption DEF Boots
    <2>2. CASE r \in Owed
        <3>1. r.sequence \in Nat
            BY <1>2, <2>2, OwedTypes, RequestKinds DEF DeltaRequests
        <3>2. /\ Reached(b, g)
              /\ b = boot /\ g = generation => r.sequence <= producerSequence
            BY <1>2, <2>2 DEF FramesOwed
        <3>3. Reached(b, g)'
            BY <3>2, ReachedStep
        <3>4. CASE Crash
            <4>1. b # boot'
                BY <1>1, <2>1, <3>2, <3>4 DEF Crash, Reached
            <4> QED BY <3>3, <4>1
        <3>5. CASE /\ boot' = boot /\ generation <= generation'
                   /\ generation' = generation => producerSequence <= producerSequence'
            <4>1. b = boot => g <= generation
                BY <3>2 DEF Reached
            <4> QED BY <1>1, <2>1, <3>1, <3>2, <3>3, <3>5, <4>1
        <3> QED BY <3>4, <3>5, CountersStep
    <2>3. ASSUME NEW c \in Connections, NEW u \in Batches, Update(c, u), r = Frame(u)
          PROVE  /\ Reached(b, g)'
                 /\ b = boot' /\ g = generation' => r.sequence <= producerSequence'
        <3>1. /\ lifecycle = "ready" /\ lifecycle' = "ready"
              /\ UNCHANGED <<boot, generation, producerSequence>>
            BY <2>3 DEF Update, docVars
        <3>2. g = generation
            BY <1>1, <1>2, <2>3, StreamsDiffer DEF Frame, Request
        <3>3. r.producer = DeltaProducer(boot, g) /\ r.sequence = producerSequence
            BY <2>3, <3>2 DEF Frame, Request
        <3>4. b = boot
            BY <1>2, <3>3 DEF DeltaProducer
        <3> QED BY <1>1, <3>1, <3>2, <3>3, <3>4 DEF Reached
    <2>4. CASE r = CheckpointRequest
        BY <1>1, <1>2, <2>4, StreamNames DEF CheckpointRequest, Request
    <2>5. CASE r = ManifestRequest
        BY <1>2, <2>5, StreamNames DEF ManifestRequest, Request
    <2> QED BY <2>2, <2>3, <2>4, <2>5, OwedStep
<1>3. CASE UNCHANGED <<pc, request, blocked, boot, generation, producerSequence>>
    BY <1>2, <1>3 DEF FramesOwed, Frame
<1>4. CASE pc' \notin UpdatePoints /\ blocked' = None
    BY <1>2, <1>4 DEF FramesOwed
<1>5. ASSUME UNCHANGED <<boot, generation, producerSequence>>, pc \in UpdatePoints,
             \/ pc' \in UpdatePoints /\ request' = request /\ blocked' = None
             \/ pc' \notin UpdatePoints /\ blocked' = request
      PROVE  FramesOwed'
    <2>1. request = Frame(request.body)
        BY <1>5 DEF FramesOwed
    <2> QED BY <1>2, <1>5, <2>1 DEF FramesOwed, Frame
<1>6. ASSUME NEW c \in Connections, NEW b \in Batches, Update(c, b)
      PROVE  FramesOwed'
    <2>1. /\ request' = Frame(b) /\ blocked' = None
          /\ UNCHANGED <<boot, generation, producerSequence>>
        BY <1>6 DEF Update, docVars
    <2>2. request'.body = b
        BY <2>1 DEF Frame, Request
    <2> QED BY <1>2, <2>1, <2>2 DEF FramesOwed, Frame
<1>7. CASE RetryAmbiguous
    <2>1. /\ blocked = Frame(blocked.body) /\ request' = blocked /\ blocked' = None
          /\ UNCHANGED <<boot, generation, producerSequence>>
        BY <1>7 DEF RetryAmbiguous, FramesOwed, docVars
    <2> QED BY <1>2, <2>1 DEF FramesOwed, Frame
<1>8. CASE Command
    <2>1. ASSUME NEW c \in Connections, Join(c) \/ Leave(c)
          PROVE  FramesOwed'
        BY <1>3, <2>1 DEF Join, Leave, docVars, appendVars
    <2>2. CASE Rotate
        BY <1>4, <2>2 DEF Rotate, GoOn, GiveUp, Return, RotationFrame
    <2> QED BY <1>6, <1>7, <1>8, <2>1, <2>2 DEF Command
<1>9. CASE UpdateUnknown \/ RetryUnknown \/ RetryRejected \/ ReloadFails
    BY <1>5, <1>9 DEF UpdateUnknown, RetryUnknown, RetryRejected, StayBlocked,
                ReloadFails, Return, docVars
<1>10. CASE RetryResolved
    BY <1>3, <1>5, <1>10 DEF RetryResolved, Phases, docVars, appendVars
<1>11. CASE UpdateCommitted \/ UpdateVerified \/ UpdateRejected \/ Reload
    BY <1>4, <1>11 DEF UpdateCommitted, UpdateVerified, UpdateRejected, Reload, Accept,
                Return, Phases
<1>12. CASE AppendAgain \/ LateDelivery \/ UNCHANGED vars
    BY <1>3, <1>12 DEF AppendAgain, LateDelivery, vars, docVars, appendVars
<1>13. CASE Persist \/ CheckpointAppended \/ Prepare \/ Position \/ Publish
              \/ ManifestAppended \/ ExactAppendFails \/ ExactAppendAgain \/ Switch
              \/ StoreCallFails
    BY <1>4, <1>13 DEF Persist, CheckpointAppended, Prepare, Position, Publish,
            ManifestAppended, GoOn, GiveUp, Submit, ExactAppendFails, RotationFrame,
            ExactAppendAgain, Switch, StoreCallFails, Return, Phases
<1>14. CASE ReadManifest \/ ReplayLegacy \/ ReadCheckpoint \/ ReadDelta
              \/ ActivationFails \/ Crash
    BY <1>4, <1>14 DEF ReadManifest, ReplayLegacy, ReadCheckpoint, ReadDelta,
            ActivationFails, Continue, FailActivation, Activated, Return, Crash, Phases
<1> QED BY <1>8, <1>9, <1>10, <1>11, <1>12, <1>13, <1>14 DEF Next, ActorStep

\* A record after a step was there before it, or is the one that was appended.
LEMMA StepAppends ==
    ASSUME TypeOK, [Next]_vars, NEW s \in Streams, NEW i \in DOMAIN streams'[s]
    PROVE  \/ i \in DOMAIN streams[s] /\ streams'[s][i] = streams[s][i]
           \/ \E r \in Sending : /\ InOrder(r) /\ r.stream = s
                                 /\ i = Len(streams[s]) + 1 /\ streams'[s][i] = r
                                 /\ Len(streams'[s]) = Len(streams[s]) + 1
<1>1. CASE streams' = streams
    BY <1>1
<1>2. ASSUME NEW r \in Sending, InOrder(r),
             streams' = [streams EXCEPT ![r.stream] = Append(@, r)]
      PROVE  \/ i \in DOMAIN streams[s] /\ streams'[s][i] = streams[s][i]
             \/ /\ InOrder(r) /\ r.stream = s
                /\ i = Len(streams[s]) + 1 /\ streams'[s][i] = r
                /\ Len(streams'[s]) = Len(streams[s]) + 1
    <2>1. r \in Requests
        BY SendingTypes
    <2>2. CASE s # r.stream
        BY <1>2, <2>1, <2>2, AppendedStream
    <2>3. CASE s = r.stream
        <3>1. LET old == streams[s]
                  new == streams'[s] IN
              /\ Len(new) = Len(old) + 1
              /\ DOMAIN new = DOMAIN old \cup {Len(old) + 1}
              /\ new[Len(old) + 1] = r
              /\ \A j \in DOMAIN old : new[j] = old[j]
            BY <1>2, <2>1, <2>3, AppendedStream
        <3>2. CASE i \in DOMAIN streams[s]
            BY <3>1, <3>2
        <3>3. CASE i = Len(streams[s]) + 1
            BY <1>2, <2>3, <3>1, <3>3
        <3> QED BY <3>1, <3>2, <3>3
    <2> QED BY <2>2, <2>3
<1> QED BY <1>1, <1>2, StepGrows DEF Grows

\* A delta holds only frames within the reach of their process.
LEMMA FramesStoredStep ==
    ASSUME TypeOK, ProducerInv, [Next]_vars
    PROVE  FramesStored'
<1> USE DEF ProducerInv
<1>1. SUFFICES ASSUME NEW g \in Generations, NEW i \in DOMAIN streams'[Delta(g)],
                      NEW b \in Boots,
                      streams'[Delta(g)][i].producer = DeltaProducer(b, g)
               PROVE  Reached(b, g)'
    BY DEF FramesStored, Reached
<1>2. CASE i \in DOMAIN streams[Delta(g)] /\ streams'[Delta(g)][i] = streams[Delta(g)][i]
    BY <1>1, <1>2, ReachedStep DEF FramesStored
<1>3. ASSUME NEW r \in Sending, r.stream = Delta(g), streams'[Delta(g)][i] = r
      PROVE  Reached(b, g)'
    BY <1>1, <1>3, OwedTypes, ReachedStep DEF FramesOwed
<1> QED BY <1>2, <1>3, StepAppends, StreamNames

-----------------------------------------------------------------------------
(* The sequences of the running process *)

\* How the actor comes to know where the active delta ends.
LEMMA WhoIsTracked ==
    ASSUME Phases, [Next]_vars, Tracked'
    PROVE  \/ /\ Tracked /\ UNCHANGED <<boot, generation, producerSequence>>
              /\ lifecycle' = "ready" =>
                    lifecycle = "ready" /\ endOffset' = endOffset
              /\ \/ pc' = pc
                 \/ pc \notin {"appendManifest", "switch"}
                 \/ ManifestAppended /\ pc' = "switch"
              /\ pc' = "reload" => pc = "reload" \/ RetryResolved
           \/ /\ lifecycle = "ready" /\ UNCHANGED <<boot, generation>>
              /\ UpdateCommitted \/ UpdateVerified
              /\ pc = "append" /\ pc' = "idle"
           \/ lifecycle = "ready" /\ UNCHANGED boot /\ Switch
           \/ Tracked /\ UNCHANGED <<boot, generation>> /\ Reload
           \/ lifecycle = "recovering" /\ UNCHANGED boot /\ (ReplayLegacy \/ ReadDelta)
<1> USE DEF Tracked, Unresolved
<1>1. CASE Command
    BY <1>1 DEF Command, Join, Leave, Update, RetryAmbiguous, Rotate, GoOn, GiveUp,
                Return, RotationFrame, docVars, Phases, Idle
<1>2. CASE UpdateCommitted \/ UpdateVerified \/ AppendAgain \/ UpdateUnknown
              \/ UpdateRejected
    BY <1>2 DEF UpdateCommitted, UpdateVerified, Accept, Return, AppendAgain,
                UpdateUnknown, UpdateRejected, docVars, Phases
<1>3. CASE RetryResolved \/ RetryUnknown \/ RetryRejected \/ Reload \/ ReloadFails
    BY <1>3 DEF RetryResolved, RetryUnknown, RetryRejected, StayBlocked, Return, Reload,
                ReloadFails, docVars
<1>4. CASE Persist \/ CheckpointAppended \/ ExactAppendAgain \/ ExactAppendFails
              \/ Prepare \/ Position \/ Publish \/ ManifestAppended
              \/ Switch \/ StoreCallFails
    BY <1>4 DEF Persist, CheckpointAppended, ExactAppendAgain, ExactAppendFails,
                Prepare, Position, Publish, ManifestAppended, Switch, StoreCallFails,
                GoOn, GiveUp, Submit, Return, RotationFrame, docVars, Phases
<1>5. CASE ReadManifest \/ ReplayLegacy \/ ReadCheckpoint \/ ReadDelta \/ ActivationFails
    BY <1>5 DEF ReadManifest, ReplayLegacy, ReadCheckpoint, ReadDelta, ActivationFails,
                Continue, FailActivation, Activated, Return, docVars, Phases
<1>6. CASE LateDelivery \/ Crash \/ UNCHANGED vars
    BY <1>6 DEF LateDelivery, Crash, vars, docVars
<1> QED BY <1>1, <1>2, <1>3, <1>4, <1>5, <1>6 DEF Next, ActorStep

\* The sequences of one producer in a log.
Written(log, producer) ==
    {log[i].sequence : i \in {j \in DOMAIN log : log[j].producer = producer}}

\* The sequences the store knows of the actor are those in the active delta.
LEMMA OwnIsWritten ==
    /\ OwnSequences = Written(streams[Delta(generation)], DeltaProducer(boot, generation))
    /\ OwnSequences' = Written(streams'[Delta(generation')], DeltaProducer(boot', generation'))
BY DEF OwnSequences, Written, SequencesOf, PositionsOf, Frame, Request

\* A frame of the running process that is appended to the active delta is the next
\* one.
LEMMA NextSequence ==
    ASSUME TypeOK, ProducerInv, Tracked, NEW r \in Sending,
           r.stream = Delta(generation), r.producer = DeltaProducer(boot, generation),
           InOrder(r), streams' = [streams EXCEPT ![r.stream] = Append(@, r)]
    PROVE  /\ OwnSequences = 0 .. producerSequence - 1
           /\ r.sequence = producerSequence
           /\ Written(streams'[Delta(generation)], DeltaProducer(boot, generation))
                 = 0 .. producerSequence
<1> DEFINE log == streams[Delta(generation)]
           new == streams'[Delta(generation)]
           own == DeltaProducer(boot, generation)
<1>1. generation \in Generations /\ boot \in Boots /\ producerSequence \in Nat
    BY DEF TypeOK, ActorTypeOK
<1>2. /\ r.sequence <= producerSequence /\ r.sequence \in Nat /\ r \in Requests
    BY <1>1, OwedTypes, RequestKinds DEF ProducerInv, FramesOwed, DeltaRequests
<1>3. SequencesOf(r) = Written(log, own)
    BY DEF SequencesOf, PositionsOf, Written
<1>4. \/ Written(log, own) = 0 .. producerSequence - 1
      \/ Written(log, own) = 0 .. producerSequence
    BY OwnIsWritten DEF ProducerInv, SequenceTail
<1>5. \A k \in Written(log, own) : ~ (k >= r.sequence)
    BY <1>3 DEF InOrder, Known
<1>6. r.sequence \notin Written(log, own)
    BY <1>2, <1>5
<1>7. Written(log, own) = 0 .. producerSequence - 1
    BY <1>1, <1>2, <1>4, <1>6
<1>8. r.sequence = producerSequence
    BY <1>1, <1>2, <1>6, <1>7
<1>9. Written(new, own) = Written(log, own) \cup {r.sequence}
    <2> DEFINE end == Len(log) + 1
    <2>1. /\ DOMAIN new = DOMAIN log \cup {end} /\ new[end] = r
          /\ \A i \in DOMAIN log : new[i] = log[i]
        BY <1>1, <1>2, AppendedStream, StreamNames
    <2> HIDE DEF end, new, log
    <2> QED BY <2>1 DEF Written
<1>10. Written(new, own) = 0 .. producerSequence
    <2>1. \A k \in Nat : (0 .. k - 1) \cup {k} = 0 .. k
        OBVIOUS
    <2> QED BY <1>1, <1>7, <1>8, <1>9, <2>1
<1> QED BY <1>7, <1>8, <1>10, OwnIsWritten

\* What may happen to the sequences the store knows.
LEMMA OwnSequencesGrow ==
    ASSUME TypeOK, ProducerInv, Tracked, [Next]_vars
    PROVE  LET after == Written(streams'[Delta(generation)], DeltaProducer(boot, generation)) IN
           \/ after = OwnSequences
           \/ after = 0 .. producerSequence
<1> DEFINE log == streams[Delta(generation)]
           new == streams'[Delta(generation)]
           own == DeltaProducer(boot, generation)
<1>1. generation \in Generations
    BY DEF TypeOK, ActorTypeOK
<1>2. CASE streams' = streams
    BY <1>2, OwnIsWritten
<1>3. ASSUME NEW r \in Sending, InOrder(r),
             streams' = [streams EXCEPT ![r.stream] = Append(@, r)]
      PROVE  Written(new, own) = OwnSequences \/ Written(new, own) = 0 .. producerSequence
    <2>1. CASE r.stream # Delta(generation)
        BY <1>1, <1>3, <2>1, SendingTypes, AppendedStream, StreamNames, OwnIsWritten
    <2>2. CASE r.stream = Delta(generation) /\ r.producer = own
        BY <1>3, <2>2, NextSequence
    <2>3. CASE r.stream = Delta(generation) /\ r.producer # own
        <3> DEFINE end == Len(log) + 1
        <3>1. /\ DOMAIN new = DOMAIN log \cup {end} /\ new[end] = r
              /\ \A i \in DOMAIN log : new[i] = log[i]
            <4>1. r \in Requests /\ Delta(generation) \in Streams
                BY <1>1, SendingTypes, StreamNames
            <4> QED BY <1>3, <2>3, <4>1, AppendedStream
        <3>2. Written(new, own) = Written(log, own)
            <4> HIDE DEF end, new, log, own
            <4> QED BY <2>3, <3>1 DEF Written
        <3> QED BY <3>2, OwnIsWritten
    <2> QED BY <2>1, <2>2, <2>3
<1> QED BY <1>2, <1>3, StepGrows DEF Grows

\* When an append is proved, the store knows the sequence it used.
LEMMA ProvedSequence ==
    ASSUME TypeOK, ProducerInv, Tracked, pc \in {"append", "retry"}, Proved(request)
    PROVE  /\ request \in DeltaRequests /\ request \in Sending
           /\ request.stream = Delta(generation)
           /\ request.producer = DeltaProducer(boot, generation)
           /\ request.sequence = producerSequence
           /\ Written(streams'[Delta(generation)], DeltaProducer(boot, generation))
                 = 0 .. producerSequence
<1> USE DEF ProducerInv
<1> DEFINE log == streams[Delta(generation)]
           own == DeltaProducer(boot, generation)
<1>1. /\ producerSequence \in Nat
      /\ request \in DeltaRequests /\ request \in Sending
    BY DEF TypeOK, ActorTypeOK, Sending
<1>2. /\ request.stream = Delta(generation) /\ request.producer = own
      /\ request.sequence = producerSequence
    <2>1. request = Frame(request.body)
        BY DEF FramesOwed
    <2> QED BY <2>1 DEF Frame, Request
<1>3. CASE Commits(request)
    <2>1. /\ InOrder(request)
          /\ streams' = [streams EXCEPT ![request.stream] = Append(@, request)]
        BY <1>3 DEF Commits
    <2> QED BY <1>1, <1>2, <2>1, NextSequence
<1>4. CASE Deduplicates(request)
    <2>1. streams' = streams /\ Known(request)
        BY <1>4 DEF Deduplicates, storeVars
    <2>2. SequencesOf(request) = Written(log, own)
        BY <1>2 DEF SequencesOf, PositionsOf, Written
    <2>3. Written(log, own) # 0 .. producerSequence - 1
        BY <1>1, <1>2, <2>1, <2>2 DEF Known
    <2>4. Written(log, own) = 0 .. producerSequence
        BY <2>3, OwnIsWritten DEF SequenceTail
    <2> QED BY <1>1, <1>2, <2>1, <2>4
<1> QED BY <1>3, <1>4 DEF Proved

\* The store and the actor go on agreeing on the sequences.
LEMMA SequenceTailStep ==
    ASSUME TypeOK, ProducerInv, [Next]_vars
    PROVE  SequenceTail'
<1> USE DEF ProducerInv
<1> DEFINE new == streams'[Delta(generation')]
           own == DeltaProducer(boot', generation')
<1>1. /\ generation \in Generations /\ producerSequence \in Nat /\ boot \in Boots
      /\ generation \in Nat /\ boot \in Nat
      /\ generation' \in Generations /\ boot' \in Boots
    BY Counters, CountersAfter, TypeStep
<1>2. SUFFICES ASSUME Tracked'
               PROVE  \/ pc' # "reload" /\ Written(new, own) = 0 .. producerSequence' - 1
                      \/ Written(new, own) = 0 .. producerSequence'
    BY OwnIsWritten DEF SequenceTail
<1>3. CASE /\ Tracked /\ UNCHANGED <<boot, generation, producerSequence>>
           /\ pc' = "reload" => pc = "reload" \/ RetryResolved
    <2>1. CASE RetryResolved
        <3>1. pc = "retry" /\ Proved(request)
            BY <2>1 DEF RetryResolved
        <3> QED BY <1>3, <3>1, ProvedSequence
    <2>2. CASE ~RetryResolved
        BY <1>3, <2>2, OwnSequencesGrow DEF SequenceTail
    <2> QED BY <2>1, <2>2
<1>4. CASE /\ lifecycle = "ready" /\ UNCHANGED <<boot, generation>>
           /\ UpdateCommitted \/ UpdateVerified
           /\ pc = "append" /\ pc' = "idle"
    <2>1. producerSequence' = producerSequence + 1
        BY <1>4 DEF UpdateCommitted, UpdateVerified, Accept
    <2>2. producerSequence' - 1 = producerSequence
        BY <1>1, <2>1
    <2>3. Proved(request)
        BY <1>4 DEF Proved, UpdateCommitted, UpdateVerified
    <2> QED BY <1>4, <2>2, <2>3, ProvedSequence DEF Tracked
<1>5. CASE Tracked /\ UNCHANGED <<boot, generation>> /\ Reload
    <2>1. /\ streams' = streams /\ pc = "reload" /\ pc' = "idle"
          /\ producerSequence' = request.sequence + 1
        BY <1>5 DEF Reload, Return, storeVars
    <2>2. request.sequence = producerSequence
        BY <2>1 DEF FramesOwed, Frame, Request
    <2>3. Written(streams[Delta(generation)], DeltaProducer(boot, generation))
             = 0 .. producerSequence
        BY <1>5, <2>1, OwnIsWritten DEF SequenceTail
    <2>4. producerSequence' - 1 = producerSequence
        BY <1>1, <2>1, <2>2
    <2> QED BY <1>5, <2>1, <2>3, <2>4
<1>6. ASSUME streams' = streams, pc' = "idle", producerSequence' = 0, boot' = boot,
             ~Reached(boot, generation')
      PROVE  pc' # "reload" /\ Written(new, own) = 0 .. producerSequence' - 1
    <2>1. Written(new, own) = {}
        BY <1>1, <1>6 DEF FramesStored, Written
    <2> QED BY <1>6, <2>1
<1>7. CASE lifecycle = "ready" /\ UNCHANGED boot /\ Switch
    <2>1. /\ streams' = streams /\ pc' = "idle" /\ producerSequence' = 0
          /\ generation' = generation + 1
        BY <1>7 DEF Switch, Return, storeVars
    <2>2. ~Reached(boot, generation')
        BY <1>1, <2>1 DEF Reached
    <2> QED BY <1>6, <1>7, <2>1, <2>2
<1>8. CASE lifecycle = "recovering" /\ UNCHANGED boot /\ (ReplayLegacy \/ ReadDelta)
    <2>1. streams' = streams /\ pc' = "idle" /\ producerSequence' = 0
        BY <1>8 DEF ReplayLegacy, ReadDelta, Activated, Return, Phases, storeVars
    <2>2. ~Reached(boot, generation')
        BY <1>8 DEF Reached
    <2> QED BY <1>6, <1>8, <2>1, <2>2
<1> QED BY <1>2, <1>3, <1>4, <1>5, <1>7, <1>8, WhoIsTracked

\* An empty store satisfies the invariant.
LEMMA ProducerInit ==
    ASSUME Init
    PROVE  ProducerInv
<1>1. /\ \A s \in Streams : streams[s] = <<>>
      /\ Owed = {}
    BY DEF Init, UrsulaInit, Owed, Sending
<1>2. Phases /\ SequenceTail
    BY DEF Init, Phases, SequenceTail, Tracked, Unresolved
<1>3. FramesOwed /\ FramesStored
    BY <1>1, StreamNames DEF Init, FramesOwed, FramesStored
<1> QED BY <1>2, <1>3 DEF ProducerInv

\* Every step keeps it, whatever the network and the store do.
LEMMA ProducerStep ==
    ASSUME TypeOK, ProducerInv, [Next]_vars
    PROVE  ProducerInv'
<1>1. Phases'
    BY PhasesStep DEF ProducerInv
<1> QED BY <1>1, FramesOwedStep, FramesStoredStep, SequenceTailStep DEF ProducerInv

\* The sequences of a producer, in every environment.
THEOREM ProducersHold == Spec => []ProducerInv
<1>1. TypeOK /\ ProducerInv /\ [Next]_vars => ProducerInv'
    BY ProducerStep
<1> QED BY <1>1, ProducerInit, TypeCorrect, PTL DEF Spec

\* A ready actor and the store agree on the producer's sequence up to the one
\* append whose answer was not taken: no sequence is skipped and none is reused
\* by a restart, a rotation or an operator's retry, also when requests outlive
\* their process and reads are stale (update and retry_pending in actor.rs,
\* producer_id_for_generation).
THEOREM SequenceIsTracked == Spec => []SequenceTracksStore
<1>1. ProducerInv => SequenceTracksStore
    BY DEF ProducerInv, SequenceTail, Tracked, OwnSequences, SequenceTracksStore,
           SequencesOf, PositionsOf, Frame, Request
<1> QED BY <1>1, ProducersHold, PTL

-----------------------------------------------------------------------------
(* One process at a time *)

\* Every read returns the stream.
LEMMA CalmRead ==
    ASSUME Calm, NEW s
    PROVE  ReadAll(s) = {streams[s]} /\ Readable(s) \subseteq {streams[s]}
BY ReadableIsRead DEF Calm, ReadAll

\* During an activation nothing reaches the store.
LEMMA QuietRecovery ==
    ASSUME TypeOK, Phases, OwnOwed, lifecycle = "recovering", [Next]_vars
    PROVE  streams' = streams /\ Owed = {}
<1>1. Sending = {} /\ blocked = None
    BY DEF Sending, Phases, OwnOwed
<1> QED BY <1>1, StepGrows DEF Owed, Grows

\* A request is only known to its process.
LEMMA OwnOwedStep ==
    ASSUME TypeOK, SequenceInv, Calm, [Next]_vars
    PROVE  OwnOwed'
<1> USE DEF SequenceInv, ProducerInv
<1>1. CASE Crash
    <2>1. inflight' = {} /\ Owed' = {}
        BY <1>1 DEF Crash, LoseConnections, Calm, Owed, Sending
    <2> QED BY <2>1 DEF OwnOwed
<1>2. CASE boot' = boot /\ (lifecycle' = "recovering" => lifecycle = "recovering")
    <2>1. ASSUME lifecycle' = "recovering"
          PROVE  inflight' = {}
        <3>1. Sending = {}
            BY <1>2, <2>1 DEF Sending, OwnOwed, Phases
        <3> QED BY <3>1, StepGrows
    <2>2. ASSUME NEW r \in Owed', NEW g \in Generations, r.stream = Delta(g)
          PROVE  r.producer = DeltaProducer(boot', g)
        <3>1. CASE r \in Owed
            BY <1>2, <2>2, <3>1 DEF OwnOwed
        <3>2. ASSUME NEW b \in Batches, r = Frame(b)
              PROVE  r.producer = DeltaProducer(boot', g)
            <4>1. g = generation
                BY <2>2, <3>2, StreamsDiffer DEF Frame, Request, TypeOK, ActorTypeOK
            <4> QED BY <1>2, <3>2, <4>1 DEF Frame, Request
        <3>3. CASE r = CheckpointRequest
            BY <2>2, <3>3, StreamNames DEF CheckpointRequest, Request, TypeOK, ActorTypeOK
        <3>4. CASE r = ManifestRequest
            BY <2>2, <3>4, StreamNames DEF ManifestRequest, Request
        <3> QED BY <3>1, <3>2, <3>3, <3>4, OwedStep
    <2> QED BY <2>1, <2>2 DEF OwnOwed
<1> QED BY <1>1, <1>2, PhaseKept

\* A frame that is appended is one of the running process, which is activated.
LEMMA AppendedFrame ==
    ASSUME TypeOK, SequenceInv, NEW r \in Sending, NEW g \in Generations,
           r.stream = Delta(g)
    PROVE  /\ r \in DeltaRequests /\ r \in Owed
           /\ r.producer = DeltaProducer(boot, g)
           /\ lifecycle # "recovering"
           /\ g <= generation
           /\ g = generation => r.sequence <= producerSequence
<1>1. r \in DeltaRequests /\ r \in Owed /\ r.producer = DeltaProducer(boot, g)
    BY OwedTypes, RequestKinds DEF SequenceInv, OwnOwed
<1>2. boot \in Boots
    BY DEF TypeOK, ActorTypeOK
<1> QED BY <1>1, <1>2 DEF SequenceInv, ProducerInv, FramesOwed, Reached

-----------------------------------------------------------------------------
(* The active generation *)

\* How a room comes to be ready after a step.
LEMMA WhoIsReady ==
    ASSUME Phases, [Next]_vars, lifecycle' = "ready"
    PROVE  \/ lifecycle = "ready" /\ UNCHANGED <<generation, endOffset, doc, history>>
           \/ /\ lifecycle = "ready" /\ UNCHANGED generation
              /\ UpdateCommitted \/ UpdateVerified
              /\ pc = "append"
           \/ lifecycle = "ready" /\ Switch
           \/ Reload
           \/ lifecycle = "recovering" /\ (ReplayLegacy \/ ReadDelta)
<1>1. CASE Command
    BY <1>1 DEF Command, Join, Leave, Update, RetryAmbiguous, Rotate, GoOn, GiveUp,
                RotationFrame, docVars, Phases, Unresolved, Idle
<1>2. CASE UpdateCommitted \/ UpdateVerified \/ AppendAgain \/ UpdateUnknown
              \/ UpdateRejected
    BY <1>2 DEF UpdateCommitted, UpdateVerified, Accept, Return, AppendAgain,
                UpdateUnknown, UpdateRejected, docVars, Phases, Unresolved
<1>3. CASE RetryResolved \/ RetryUnknown \/ RetryRejected \/ Reload \/ ReloadFails
    BY <1>3 DEF RetryResolved, RetryUnknown, RetryRejected, StayBlocked, Reload,
                ReloadFails, Phases, Unresolved
<1>4. CASE Persist \/ CheckpointAppended \/ ExactAppendAgain \/ ExactAppendFails
              \/ Prepare \/ Position \/ Publish \/ ManifestAppended
              \/ Switch \/ StoreCallFails
    BY <1>4 DEF Persist, CheckpointAppended, ExactAppendAgain, ExactAppendFails,
                Prepare, Position, Publish, ManifestAppended, Switch, StoreCallFails,
                GoOn, GiveUp, Submit, RotationFrame, docVars, Phases
<1>5. CASE ReadManifest \/ ReplayLegacy \/ ReadCheckpoint \/ ReadDelta \/ ActivationFails
    BY <1>5 DEF ReadManifest, ReplayLegacy, ReadCheckpoint, ReadDelta, ActivationFails,
                Continue, FailActivation, Activated, docVars, Phases
<1>6. CASE LateDelivery \/ Crash \/ UNCHANGED vars
    BY <1>6 DEF LateDelivery, Crash, vars, docVars
<1> QED BY <1>1, <1>2, <1>3, <1>4, <1>5, <1>6 DEF Next, ActorStep

\* The manifest grows by the record of this rotation, or when the room is
\* unavailable for good.
LEMMA ManifestGrows ==
    ASSUME TypeOK, ChainInv, SequenceInv, [Next]_vars
    PROVE  \/ streams'[Manifest] = streams[Manifest]
           \/ \E r \in Owed :
                 /\ r \in ManifestRequests
                 /\ r.sequence = Len(streams[Manifest])
                 /\ streams' = [streams EXCEPT ![Manifest] = Append(@, r)]
                 /\ Len(streams'[Manifest]) = Len(streams[Manifest]) + 1
                 /\ streams'[Manifest][Len(streams[Manifest]) + 1] = r
                 /\ \/ pc = "appendManifest" /\ r = request /\ r.sequence = generation
                    \/ lifecycle = "unavailable" /\ ~Unresolved
<1>1. CASE streams' = streams
    BY <1>1
<1>2. ASSUME NEW r \in Sending, InOrder(r),
             streams' = [streams EXCEPT ![r.stream] = Append(@, r)]
      PROVE  \/ streams'[Manifest] = streams[Manifest]
             \/ /\ r \in Owed /\ r \in ManifestRequests
                /\ r.sequence = Len(streams[Manifest])
                /\ streams' = [streams EXCEPT ![Manifest] = Append(@, r)]
                /\ Len(streams'[Manifest]) = Len(streams[Manifest]) + 1
                /\ streams'[Manifest][Len(streams[Manifest]) + 1] = r
                /\ \/ pc = "appendManifest" /\ r = request /\ r.sequence = generation
                   \/ lifecycle = "unavailable" /\ ~Unresolved
    <2>1. r \in Owed /\ r \in Requests
        BY OwedTypes
    <2>2. CASE r.stream # Manifest
        BY <1>2, <2>1, <2>2, AppendedStream, StreamNames
    <2>3. CASE r.stream = Manifest
        <3>1. r \in ManifestRequests /\ NamesStored(r)
            BY <2>1, <2>3, RequestKinds DEF ChainInv, ManifestOwed
        <3>2. r.sequence = Len(streams[Manifest])
            BY <1>2, <3>1, ManifestInOrder DEF ChainInv, NamesStored
        <3>3. \/ r.sequence < Len(streams[Manifest])
              \/ pc = "appendManifest" /\ r = request
              \/ lifecycle = "unavailable" /\ ~Unresolved
            BY <2>1, <2>3 DEF SequenceInv, ManifestsOwed
        <3>4. ~ (r.sequence < Len(streams[Manifest]))
            BY <3>1, <3>2 DEF ManifestRequests
        <3>5. pc = "appendManifest" => ManifestRequest.sequence = generation /\ request = ManifestRequest
            BY DEF ChainInv, RotationLocals, ManifestRecord, ManifestRequest, Request
        <3>6. /\ Len(streams'[Manifest]) = Len(streams[Manifest]) + 1
              /\ streams'[Manifest][Len(streams[Manifest]) + 1] = r
            BY <1>2, <2>1, <2>3, AppendedStream, StreamNames
        <3> QED BY <1>2, <2>1, <2>3, <3>1, <3>2, <3>3, <3>4, <3>5, <3>6
    <2> QED BY <2>2, <2>3
<1> QED BY <1>1, <1>2, StepGrows DEF Grows

\* A room that is unavailable, with no append for an operator to retry, stays so
\* until the process restarts.
LEMMA UnavailableStays ==
    ASSUME Phases, [Next]_vars, lifecycle = "unavailable", ~Unresolved
    PROVE  (lifecycle' = "unavailable" /\ ~Unresolved') \/ Crash
<1>1. pc \notin UpdatePoints \cup RotationPoints \cup RecoveryPoints /\ blocked = None
    BY DEF Phases, Unresolved
<1>2. CASE Command
    BY <1>1, <1>2 DEF Command, Join, Leave, Update, RetryAmbiguous, Rotate, Unresolved
<1>3. CASE UpdateCommitted \/ UpdateVerified \/ AppendAgain \/ UpdateUnknown
              \/ UpdateRejected \/ RetryResolved \/ RetryUnknown \/ RetryRejected
              \/ Reload \/ ReloadFails
    BY <1>1, <1>3 DEF UpdateCommitted, UpdateVerified, AppendAgain, UpdateUnknown,
                UpdateRejected, RetryResolved, RetryUnknown, RetryRejected, Reload,
                ReloadFails
<1>4. CASE Persist \/ CheckpointAppended \/ ExactAppendAgain \/ ExactAppendFails
              \/ Prepare \/ Position \/ Publish \/ ManifestAppended
              \/ Switch \/ StoreCallFails
    BY <1>1, <1>4 DEF Persist, CheckpointAppended, ExactAppendAgain, ExactAppendFails,
                Prepare, Position, Publish, ManifestAppended, Switch, StoreCallFails
<1>5. CASE ReadManifest \/ ReplayLegacy \/ ReadCheckpoint \/ ReadDelta \/ ActivationFails
    BY <1>1, <1>5 DEF ReadManifest, ReplayLegacy, ReadCheckpoint, ReadDelta, ActivationFails
<1>6. CASE LateDelivery \/ UNCHANGED vars
    BY <1>1, <1>6 DEF LateDelivery, vars, Unresolved
<1> QED BY <1>2, <1>3, <1>4, <1>5, <1>6 DEF Next, ActorStep

\* What becomes of a manifest append.
LEMMA AppendManifestStep ==
    ASSUME Phases, [Next]_vars, pc = "appendManifest"
    PROVE  \/ pc' = pc /\ request' = request
           \/ lifecycle' = "unavailable" /\ ~Unresolved'
           \/ ManifestAppended \/ Crash
<1>1. CASE Command
    BY <1>1 DEF Command, Join, Leave, Update, RetryAmbiguous, Rotate, Idle
<1>2. CASE UpdateCommitted \/ UpdateVerified \/ AppendAgain \/ UpdateUnknown
              \/ UpdateRejected \/ RetryResolved \/ RetryUnknown \/ RetryRejected
              \/ Reload \/ ReloadFails
    BY <1>2 DEF UpdateCommitted, UpdateVerified, AppendAgain, UpdateUnknown,
                UpdateRejected, RetryResolved, RetryUnknown, RetryRejected, Reload,
                ReloadFails
<1>3. CASE Persist \/ CheckpointAppended \/ ExactAppendAgain \/ ExactAppendFails
              \/ Prepare \/ Position \/ Publish \/ Switch \/ StoreCallFails
    BY <1>3 DEF Persist, CheckpointAppended, ExactAppendAgain, ExactAppendFails,
                Prepare, Position, Publish, Switch, StoreCallFails, GiveUp, Return,
                RotationFrame, Phases, Unresolved
<1>4. CASE ReadManifest \/ ReplayLegacy \/ ReadCheckpoint \/ ReadDelta \/ ActivationFails
    BY <1>4 DEF ReadManifest, ReplayLegacy, ReadCheckpoint, ReadDelta, ActivationFails
<1>5. CASE LateDelivery \/ UNCHANGED vars
    BY <1>5 DEF LateDelivery, vars, appendVars
<1> QED BY <1>1, <1>2, <1>3, <1>4, <1>5 DEF Next, ActorStep

\* The manifest does not shrink.
LEMMA ManifestLength ==
    ASSUME TypeOK, [Next]_vars
    PROVE  /\ Len(streams[Manifest]) \in Nat /\ Len(streams'[Manifest]) \in Nat
           /\ Len(streams[Manifest]) <= Len(streams'[Manifest])
           /\ generation \in Nat /\ generation' \in Nat
<1>1. generation \in Nat /\ generation' \in Nat
    BY GenerationNumbers, TypeStep DEF TypeOK, ActorTypeOK
<1>2. Len(streams[Manifest]) <= Len(streams'[Manifest]) /\ Len(streams[Manifest]) \in Nat
    BY StepGrows, LengthsGrow, StreamIsLog, StreamNames
<1>3. Len(streams'[Manifest]) \in Nat
    BY TypeStep, StreamNames DEF TypeOK, StoreTypeOK
<1> QED BY <1>1, <1>2, <1>3

\* A manifest record that may still be appended is of the rotation under way, or of
\* the one that made the room unavailable.
LEMMA ManifestsOwedStep ==
    ASSUME TypeOK, ChainInv, SequenceInv, Calm, [Next]_vars
    PROVE  ManifestsOwed'
<1> USE DEF SequenceInv, ProducerInv
<1> DEFINE n == Len(streams[Manifest])
           m == Len(streams'[Manifest])
<1>1. n \in Nat /\ m \in Nat /\ n <= m /\ generation \in Nat
    BY ManifestLength
<1>2. SUFFICES ASSUME NEW r \in Owed', r.stream = Manifest
               PROVE  /\ r.sequence <= m
                      /\ \/ r.sequence < m
                         \/ pc' = "appendManifest" /\ r = request'
                         \/ lifecycle' = "unavailable" /\ ~Unresolved'
    BY DEF ManifestsOwed
<1>3. CASE r \in Owed
    <2>1. r \in ManifestRequests /\ r.sequence \in Nat
        BY <1>2, <1>3, OwedTypes, RequestKinds DEF ManifestRequests
    <2>2. r.sequence <= n
        BY <1>2, <1>3 DEF ManifestsOwed
    <2>3. r.sequence <= m /\ (r.sequence < n => r.sequence < m)
        BY <1>1, <2>1, <2>2
    <2>4. CASE pc = "appendManifest" /\ r = request
        <3>1. CASE pc' = pc /\ request' = request
            BY <2>3, <2>4, <3>1
        <3>2. CASE ManifestAppended
            <4>1. generation < m
                BY <3>2, ManifestIsAppended DEF ChainInv
            <4>2. r.sequence = generation
                BY <2>4 DEF ChainInv, RotationLocals, ManifestRecord, ManifestRequest, Request
            <4> QED BY <2>3, <4>1, <4>2
        <3>3. ~Crash
            BY <1>2 DEF Crash, LoseConnections, Calm, Owed, Sending
        <3> QED BY <2>3, <2>4, <3>1, <3>2, <3>3, AppendManifestStep
    <2>5. CASE lifecycle = "unavailable" /\ ~Unresolved
        <3>1. ~Crash
            BY <1>2 DEF Crash, LoseConnections, Calm, Owed, Sending
        <3> QED BY <2>3, <2>5, <3>1, UnavailableStays
    <2> QED BY <1>2, <1>3, <2>3, <2>4, <2>5 DEF ManifestsOwed
<1>4. ASSUME NEW b \in Batches, r = Frame(b)
      PROVE  FALSE
    BY <1>2, <1>4, StreamNames DEF Frame, Request, TypeOK, ActorTypeOK
<1>5. CASE r = CheckpointRequest
    BY <1>2, <1>5, StreamNames DEF CheckpointRequest, Request, TypeOK, ActorTypeOK
<1>6. CASE /\ pc = "publish" /\ pc' = "appendManifest" /\ request' = ManifestRequest
           /\ r = ManifestRequest
    <2>1. r.sequence = generation
        BY <1>6 DEF ChainInv, RotationLocals, ManifestRecord, ManifestRequest, Request
    <2>2. generation = n
        BY <1>6 DEF Phases, Tracked, ActiveIsOwn
    <2> QED BY <1>1, <1>6, <2>1, <2>2
<1> QED BY <1>3, <1>4, <1>5, <1>6, OwedStep

\* The generations a room has not reached stay empty.
LEMMA LaterGenerationsStay ==
    ASSUME TypeOK, SequenceInv, [Next]_vars, NEW g \in Generations, g > generation
    PROVE  streams'[Delta(g)] = streams[Delta(g)]
<1>1. CASE streams' = streams
    BY <1>1
<1>2. ASSUME NEW r \in Sending,
             streams' = [streams EXCEPT ![r.stream] = Append(@, r)]
      PROVE  streams'[Delta(g)] = streams[Delta(g)]
    <2>1. generation \in Nat
        BY GenerationNumbers DEF TypeOK, ActorTypeOK
    <2>2. r.stream # Delta(g)
        BY <2>1, AppendedFrame, GenerationNumbers
    <2> QED BY <1>2, <2>2, SendingTypes, AppendedStream, StreamNames
<1> QED BY <1>1, <1>2, StepGrows DEF Grows

\* Where an activation goes on.
LEMMA WhoActivates ==
    ASSUME [Next]_vars, pc' \in {"replay", "readCheckpoint", "readDelta"}
    PROVE  \/ UNCHANGED <<pc, record>>
           \/ ReadManifest
           \/ ReadCheckpoint /\ pc' = "readDelta" /\ UNCHANGED record
<1>1. CASE Command
    BY <1>1 DEF Command, Join, Leave, Update, RetryAmbiguous, Rotate, GoOn,
                GiveUp, Return, controlVars
<1>2. CASE UpdateCommitted \/ UpdateVerified \/ UpdateUnknown \/ UpdateRejected
              \/ RetryResolved \/ RetryUnknown \/ RetryRejected \/ Reload
              \/ ReloadFails
    BY <1>2 DEF UpdateCommitted, UpdateVerified, UpdateUnknown, UpdateRejected,
                RetryResolved, RetryUnknown, RetryRejected, StayBlocked, Reload,
                ReloadFails, Accept, Return
<1>3. CASE AppendAgain \/ ExactAppendAgain \/ LateDelivery \/ UNCHANGED vars
    BY <1>3 DEF AppendAgain, ExactAppendAgain, LateDelivery, vars, controlVars
<1>4. CASE Persist \/ CheckpointAppended \/ Prepare \/ Position \/ Publish
              \/ ManifestAppended \/ ExactAppendFails \/ Switch \/ StoreCallFails
    BY <1>4 DEF Persist, CheckpointAppended, Prepare, Position, Publish,
                ManifestAppended, GoOn, GiveUp, Submit, ExactAppendFails, Switch,
                StoreCallFails, Return
<1>5. CASE ReadCheckpoint
    BY <1>5 DEF ReadCheckpoint, Continue, FailActivation, Activated, Return
<1>6. CASE ReplayLegacy \/ ReadDelta \/ ActivationFails \/ Crash
    BY <1>6 DEF ReplayLegacy, ReadDelta, ActivationFails, FailActivation,
                Activated, Return, Crash
<1> QED BY <1>1, <1>2, <1>3, <1>4, <1>5, <1>6 DEF Next, ActorStep

\* A replay that makes the room ready is one of the whole first delta.
LEMMA ReplayedLog ==
    ASSUME Calm, Phases, ReplayLegacy, lifecycle' = "ready"
    PROVE  LoadFrom(streams[Delta(0)])
<1>1. generation = 0
    BY DEF ReplayLegacy, Phases
<1>2. \E log \in Readable(Delta(generation)) : LoadFrom(log)
    BY DEF ReplayLegacy, Activated
<1> QED BY <1>1, <1>2, CalmRead

\* The generation an activation ends in is the manifest's active one.
LEMMA ActivatedGeneration ==
    ASSUME TypeOK, ChainInv, SequenceInv, Calm, [Next]_vars,
           lifecycle = "recovering", ReplayLegacy \/ ReadDelta
    PROVE  /\ streams' = streams
           /\ generation' = Len(streams[Manifest])
           /\ ReadDelta => /\ Len(streams[Manifest]) \in DOMAIN streams[Manifest]
                           /\ record = streams[Manifest][Len(streams[Manifest])].body
                           /\ ActiveDelta(record) = Len(streams[Manifest])
           /\ ReplayLegacy => generation' = 0
<1> USE DEF SequenceInv, ProducerInv
<1>1. streams' = streams
    BY QuietRecovery
<1>2. CASE ReplayLegacy
    <2>1. pc = "replay" /\ generation' = generation /\ generation = 0
        BY <1>2 DEF ReplayLegacy, Phases
    <2>2. Len(streams[Manifest]) = 0
        BY <2>1 DEF ActiveIsOwn
    <2> QED BY <1>1, <2>1, <2>2 DEF ReadDelta
<1>3. CASE ReadDelta
    <2>1. pc = "readDelta" /\ generation' = ActiveDelta(record)
        BY <1>3 DEF ReadDelta
    <2>2. /\ Len(streams[Manifest]) # 0
          /\ record = streams[Manifest][Len(streams[Manifest])].body
        BY <2>1 DEF ActiveIsOwn
    <2>3. Len(streams[Manifest]) \in DOMAIN streams[Manifest] /\ Len(streams[Manifest]) \in Nat
        <3>1. /\ Len(streams[Manifest]) \in Nat
              /\ DOMAIN streams[Manifest] = 1 .. Len(streams[Manifest])
            BY StreamIsLog, StreamNames
        <3> QED BY <2>2, <3>1
    <2>4. /\ NamesStored(streams[Manifest][Len(streams[Manifest])])
          /\ streams[Manifest][Len(streams[Manifest])].sequence = Len(streams[Manifest]) - 1
        BY <2>3 DEF ChainInv, ManifestStored
    <2>5. record.checkpoint.generation = Len(streams[Manifest]) - 1
        BY <2>2, <2>4 DEF NamesStored
    <2>6. ActiveDelta(record) = Len(streams[Manifest])
        BY <2>3, <2>5 DEF ActiveDelta
    <2> QED BY <1>1, <2>1, <2>2, <2>3, <2>6 DEF ReplayLegacy
<1> QED BY <1>2, <1>3

\* The generation the actor works on is the one the manifest names.
LEMMA ActiveIsOwnStep ==
    ASSUME TypeOK, ChainInv, SequenceInv, Calm, [Next]_vars
    PROVE  ActiveIsOwn'
<1> USE DEF SequenceInv, ProducerInv
<1> DEFINE n == Len(streams[Manifest])
           m == Len(streams'[Manifest])
<1>1. n \in Nat /\ m \in Nat /\ n <= m /\ generation \in Nat /\ generation' \in Nat
    BY ManifestLength
<1>2. ASSUME Tracked'
      PROVE  /\ pc' \notin {"appendManifest", "switch"} => m = generation'
             /\ pc' = "appendManifest" => m \in {generation', generation' + 1}
             /\ pc' = "switch" => m = generation' + 1
             /\ \A g \in Generations : g > generation' => streams'[Delta(g)] = <<>>
    <2>1. ASSUME Tracked, generation <= generation',
                 NEW g \in Generations, g > generation'
          PROVE  streams'[Delta(g)] = <<>>
        <3>1. g > generation
            BY <1>1, <2>1, GenerationNumbers
        <3> QED BY <2>1, <3>1, LaterGenerationsStay DEF ActiveIsOwn
    <2>2. ASSUME Tracked
          PROVE  \/ m = n
                 \/ pc = "appendManifest" /\ m = n + 1 /\ n = generation
        BY <2>2, ManifestGrows DEF Tracked
    <2>3. CASE Tracked /\ generation' = generation /\ pc' = pc
        BY <1>1, <2>1, <2>2, <2>3 DEF ActiveIsOwn
    <2>4. CASE /\ Tracked /\ generation' = generation
               /\ pc \notin {"appendManifest", "switch"}
        <3>1. m = n /\ n = generation
            BY <2>2, <2>4 DEF ActiveIsOwn
        <3>2. pc' # "switch"
            BY <1>1, <2>4, <3>1, RotationLocalsStep DEF RotationLocals
        <3> QED BY <1>1, <2>1, <2>4, <3>1, <3>2
    <2>5. CASE /\ Tracked /\ generation' = generation
               /\ ManifestAppended /\ pc' = "switch"
        <3>1. generation < m
            BY <2>5, ManifestIsAppended DEF ChainInv
        <3>2. n \in {generation, generation + 1}
            BY <2>5 DEF ManifestAppended, ActiveIsOwn
        <3>3. m = generation + 1
            BY <1>1, <2>2, <2>5, <3>1, <3>2
        <3> QED BY <1>1, <2>1, <2>5, <3>3
    <2>6. CASE lifecycle = "ready" /\ Switch
        <3>1. pc = "switch" /\ generation' = generation + 1 /\ pc' = "idle" /\ Tracked
            BY <2>6 DEF Switch, Return, Tracked
        <3>2. m = n /\ n = generation + 1
            BY <2>2, <2>6, <3>1 DEF ActiveIsOwn
        <3> QED BY <1>1, <2>1, <2>6, <3>1, <3>2
    <2>7. CASE lifecycle = "recovering" /\ (ReplayLegacy \/ ReadDelta)
        <3>1. m = generation' /\ m = n /\ streams' = streams
            BY <2>7, ActivatedGeneration
        <3>2. pc' = "idle"
            BY <2>7 DEF ReplayLegacy, ReadDelta, Activated, Return
        <3> QED BY <3>1, <3>2 DEF ChainInv, NextGenerationUntouched
    <2>8. pc = "append" => Tracked
        BY DEF Phases, Tracked
    <2>9. Reload => pc = "reload"
        BY DEF Reload
    <2> QED BY <1>2, <2>3, <2>4, <2>5, <2>6, <2>7, <2>8, <2>9, WhoIsTracked
<1>3. ASSUME pc' \in {"replay", "readCheckpoint", "readDelta"}
      PROVE  /\ pc' = "replay" => m = 0
             /\ pc' \in {"readCheckpoint", "readDelta"} =>
                   m # 0 /\ record' = streams'[Manifest][m].body
    <2>1. CASE UNCHANGED <<pc, record>>
        <3>1. streams' = streams
            BY <1>3, <2>1, QuietRecovery DEF Phases
        <3> QED BY <2>1, <3>1 DEF ActiveIsOwn
    <2>2. CASE ReadManifest
        <3>1. streams' = streams
            BY <2>2, QuietRecovery DEF ReadManifest, Phases
        <3>2. \/ streams[Manifest] = <<>> /\ pc' = "replay"
              \/ /\ streams[Manifest] # <<>> /\ pc' = "readCheckpoint"
                 /\ record' = Latest(streams[Manifest])
            BY <1>3, <2>2, CalmRead DEF ReadManifest, Continue, FailActivation,
               Activated, Return
        <3>3. n = 0 <=> streams[Manifest] = <<>>
            BY StreamIsLog, StreamNames
        <3> QED BY <3>1, <3>2, <3>3 DEF Latest
    <2>3. CASE ReadCheckpoint /\ pc' = "readDelta" /\ UNCHANGED record
        <3>1. streams' = streams
            BY <2>3, QuietRecovery DEF ReadCheckpoint, Phases
        <3> QED BY <2>3, <3>1 DEF ActiveIsOwn, ReadCheckpoint
    <2> QED BY <1>3, <2>1, <2>2, <2>3, WhoActivates
<1> QED BY <1>2, <1>3 DEF ActiveIsOwn

-----------------------------------------------------------------------------
(* The tail of the active delta *)

\* A frame that is appended to the active delta is the next one of the actor.
LEMMA NextFrame ==
    ASSUME TypeOK, SequenceInv, Tracked, NEW r \in Sending,
           r.stream = Delta(generation), InOrder(r),
           streams' = [streams EXCEPT ![r.stream] = Append(@, r)]
    PROVE  LET log == streams[Delta(generation)]
               new == streams'[Delta(generation)] IN
           /\ lifecycle = "ready" => Len(log) = endOffset
           /\ OwnSequences = 0 .. producerSequence - 1
           /\ r.sequence = producerSequence
           /\ Len(new) = Len(log) + 1
           /\ new[Len(new)] = r
           /\ r.producer = DeltaProducer(boot, generation)
           /\ Written(new, DeltaProducer(boot, generation)) = 0 .. producerSequence
<1> DEFINE log == streams[Delta(generation)]
           new == streams'[Delta(generation)]
<1>1. generation \in Generations /\ producerSequence \in Nat /\ endOffset \in Nat
    BY Counters
<1>2. r \in Requests /\ r.producer = DeltaProducer(boot, generation)
    BY <1>1, AppendedFrame, OwedTypes
<1>3. /\ OwnSequences = 0 .. producerSequence - 1 /\ r.sequence = producerSequence
      /\ Written(new, DeltaProducer(boot, generation)) = 0 .. producerSequence
    BY <1>2, NextSequence DEF SequenceInv
<1>4. producerSequence \notin OwnSequences /\ producerSequence \in 0 .. producerSequence
    BY <1>1, <1>3
<1>5. lifecycle = "ready" => Len(log) = endOffset
    BY <1>4 DEF SequenceInv, LogTail
<1>6. Len(new) = Len(log) + 1 /\ new[Len(log) + 1] = r
    BY <1>1, <1>2, AppendedStream, StreamNames
<1> QED BY <1>2, <1>3, <1>5, <1>6

\* What may happen to the active delta.
LEMMA ActiveDeltaGrows ==
    ASSUME TypeOK, SequenceInv, Tracked, [Next]_vars
    PROVE  \/ streams'[Delta(generation)] = streams[Delta(generation)]
           \/ LET log == streams[Delta(generation)]
                  new == streams'[Delta(generation)] IN
              /\ lifecycle = "ready" => Len(log) = endOffset
              /\ Len(new) = Len(log) + 1
              /\ Written(new, DeltaProducer(boot, generation)) = 0 .. producerSequence
              /\ new[Len(new)].producer = DeltaProducer(boot, generation)
<1>1. generation \in Generations
    BY DEF TypeOK, ActorTypeOK
<1>2. CASE streams' = streams
    BY <1>2
<1>3. ASSUME NEW r \in Sending, r.stream # Delta(generation),
             streams' = [streams EXCEPT ![r.stream] = Append(@, r)]
      PROVE  streams'[Delta(generation)] = streams[Delta(generation)]
    BY <1>1, <1>3, SendingTypes, AppendedStream, StreamNames
<1>4. ASSUME NEW r \in Sending, InOrder(r), r.stream = Delta(generation),
             streams' = [streams EXCEPT ![r.stream] = Append(@, r)]
      PROVE  LET log == streams[Delta(generation)]
                 new == streams'[Delta(generation)] IN
             /\ lifecycle = "ready" => Len(log) = endOffset
             /\ Len(new) = Len(log) + 1
             /\ Written(new, DeltaProducer(boot, generation)) = 0 .. producerSequence
             /\ new[Len(new)].producer = DeltaProducer(boot, generation)
    BY <1>4, NextFrame
<1> QED BY <1>2, <1>3, <1>4, StepGrows DEF Grows

\* A frame whose append is proved is the last one of the delta.
LEMMA ProvedFrame ==
    ASSUME TypeOK, SequenceInv, Tracked, pc \in {"append", "retry"}, Proved(request)
    PROVE  LET new == streams'[Delta(generation)] IN
           /\ Commits(request) => CommittedEnd(request) = Len(new)
           /\ Deduplicates(request) => DuplicateEnd(request) = Len(new)
           /\ new[Len(new)] = request
           /\ lifecycle = "ready" => Len(new) = endOffset + 1
           /\ Written(new, DeltaProducer(boot, generation)) = 0 .. producerSequence
           /\ request.producer = DeltaProducer(boot, generation)
<1> USE DEF SequenceInv, ProducerInv
<1> DEFINE log == streams[Delta(generation)]
           own == DeltaProducer(boot, generation)
<1>1. generation \in Generations /\ producerSequence \in Nat /\ endOffset \in Nat
    BY Counters
<1>2. /\ request \in DeltaRequests /\ request \in Sending
      /\ request.stream = Delta(generation) /\ request.producer = own
      /\ Written(streams'[Delta(generation)], own) = 0 .. producerSequence
    BY ProvedSequence
<1>3. CASE Commits(request)
    <2>1. /\ InOrder(request) /\ ~Known(request)
          /\ streams' = [streams EXCEPT ![request.stream] = Append(@, request)]
        BY <1>3 DEF Commits, InOrder
    <2> QED BY <1>2, <2>1, NextFrame DEF Deduplicates, CommittedEnd
<1>4. CASE Deduplicates(request) /\ VerifiedFrame(request)
    <2>1. /\ streams' = streams /\ Known(request)
          /\ streams[request.stream][DuplicateEnd(request)] = request
        BY <1>4 DEF Deduplicates, VerifiedFrame, storeVars
    <2>2. producerSequence \in OwnSequences /\ producerSequence \notin 0 .. producerSequence - 1
        BY <1>1, <1>2, <2>1, OwnIsWritten
    <2>3. /\ lifecycle = "ready" => Len(log) = endOffset + 1
          /\ log[Len(log)].producer = own
        BY <2>2 DEF LogTail
    <2>4. DOMAIN log = 1 .. Len(log) /\ Len(log) \in Nat
        BY <1>1, StreamIsLog, StreamNames
    <2>5. Len(log) \in PositionsOf(request) /\ PositionsOf(request) \subseteq 1 .. Len(log)
        <3>1. DuplicateEnd(request) \in DOMAIN log
            BY <1>2, <1>4 DEF VerifiedFrame
        <3>2. Len(log) \in DOMAIN log
            BY <2>4, <3>1
        <3> QED BY <1>2, <2>3, <2>4, <3>2 DEF PositionsOf
    <2>6. DuplicateEnd(request) = Len(log)
        <3>1. \A j \in PositionsOf(request) : j <= Len(log)
            BY <2>4, <2>5
        <3>2. /\ DuplicateEnd(request) \in PositionsOf(request)
              /\ \A j \in PositionsOf(request) : j <= DuplicateEnd(request)
            BY <2>5, <3>1 DEF DuplicateEnd
        <3> QED BY <2>4, <2>5, <3>2
    <2>7. ~Commits(request)
        BY <2>1 DEF Commits, InOrder
    <2> QED BY <1>2, <2>1, <2>3, <2>6, <2>7
<1> QED BY <1>3, <1>4 DEF Proved

\* The frame of the update that is accepted is the last one of the delta.
LEMMA AcceptedFrame ==
    ASSUME TypeOK, SequenceInv, lifecycle = "ready", pc = "append",
           UpdateCommitted \/ UpdateVerified
    PROVE  LET new == streams'[Delta(generation)] IN
           /\ Len(new) = endOffset + 1 /\ endOffset' = endOffset + 1
           /\ new[endOffset + 1] = request
           /\ Written(new, DeltaProducer(boot, generation)) = 0 .. producerSequence
<1>1. Proved(request)
    BY DEF Proved, UpdateCommitted, UpdateVerified
<1>2. CASE UpdateCommitted
    <2>1. Commits(request) /\ endOffset' = CommittedEnd(request)
        BY <1>2 DEF UpdateCommitted, Accept
    <2> QED BY <1>1, <2>1, ProvedFrame DEF Tracked
<1>3. CASE UpdateVerified
    <2>1. Deduplicates(request) /\ endOffset' = DuplicateEnd(request)
        BY <1>3 DEF UpdateVerified, Accept
    <2> QED BY <1>1, <2>1, ProvedFrame DEF Tracked
<1> QED BY <1>2, <1>3

\* The delta is as the actor left it, up to one frame whose answer is due.
LEMMA LogTailStep ==
    ASSUME TypeOK, ChainInv, SequenceInv, Calm, [Next]_vars
    PROVE  LogTail'
<1> USE DEF SequenceInv, ProducerInv
<1> DEFINE new == streams'[Delta(generation')]
           own == DeltaProducer(boot', generation')
<1>1. generation \in Generations /\ producerSequence \in Nat /\ boot \in Boots
      /\ endOffset \in Nat /\ generation \in Nat
    BY GenerationNumbers DEF TypeOK, ActorTypeOK
<1>2. SUFFICES ASSUME Tracked'
               PROVE  \/ /\ pc' # "reload"
                         /\ Written(new, own) = 0 .. producerSequence' - 1
                         /\ lifecycle' = "ready" => Len(new) = endOffset'
                      \/ /\ Written(new, own) = 0 .. producerSequence'
                         /\ new[Len(new)].producer = own
                         /\ lifecycle' = "ready" => Len(new) = endOffset' + 1
    BY OwnIsWritten DEF LogTail
<1>3. CASE /\ Tracked /\ UNCHANGED <<boot, generation, producerSequence>>
           /\ lifecycle' = "ready" => lifecycle = "ready" /\ endOffset' = endOffset
           /\ pc' = "reload" => pc = "reload" \/ RetryResolved
    <2>1. CASE streams'[Delta(generation)] = streams[Delta(generation)] /\ ~RetryResolved
        BY <1>3, <2>1, OwnIsWritten DEF LogTail
    <2>2. CASE RetryResolved
        <3>1. pc = "retry" /\ Proved(request)
            BY <2>2 DEF RetryResolved
        <3> QED BY <1>3, <3>1, ProvedFrame
    <2>3. CASE streams'[Delta(generation)] # streams[Delta(generation)]
        BY <1>3, <2>3, ActiveDeltaGrows
    <2> QED BY <2>1, <2>2, <2>3
<1>4. CASE /\ lifecycle = "ready" /\ UNCHANGED <<boot, generation>>
           /\ UpdateCommitted \/ UpdateVerified
           /\ pc = "append" /\ pc' = "idle"
    <2>1. producerSequence' = producerSequence + 1
        BY <1>4 DEF UpdateCommitted, UpdateVerified, Accept
    <2>2. producerSequence' - 1 = producerSequence
        BY <1>1, <2>1
    <2> QED BY <1>4, <2>2, AcceptedFrame
<1>5. CASE lifecycle = "ready" /\ UNCHANGED boot /\ Switch
    <2>1. generation' = generation + 1 /\ endOffset' = 0 /\ producerSequence' = 0
        BY <1>5 DEF Switch
    <2>2. generation' \in Generations
        BY TypeStep DEF TypeOK, ActorTypeOK
    <2>3. new = <<>>
        <3>1. \A g \in Generations : g > generation => streams'[Delta(g)] = streams[Delta(g)]
            BY LaterGenerationsStay
        <3>2. \A g \in Generations : g > generation => streams[Delta(g)] = <<>>
            BY <1>5 DEF Tracked, ActiveIsOwn
        <3>3. generation' > generation
            BY <1>1, <2>1
        <3> QED BY <2>2, <3>1, <3>2, <3>3
    <2>4. Written(new, own) = {} /\ Len(new) = 0
        BY <2>3 DEF Written
    <2>5. pc' # "reload"
        BY <1>5 DEF Switch, Return
    <2> QED BY <2>1, <2>4, <2>5
<1>6. CASE lifecycle = "recovering" /\ UNCHANGED boot /\ (ReplayLegacy \/ ReadDelta)
    <2>1. streams' = streams /\ producerSequence' = 0
        BY <1>6, ActivatedGeneration DEF Phases, ReplayLegacy, ReadDelta, Activated
    <2>2. generation' \in Generations
        BY TypeStep DEF TypeOK, ActorTypeOK
    <2>3. Written(new, own) = {}
        BY <1>1, <1>6, <2>1, <2>2 DEF FramesStored, Reached, Written
    <2>4. lifecycle' = "ready" => Len(new) = endOffset'
        <3>1. CASE ReplayLegacy
            <4>1. lifecycle' = "ready" => endOffset' = Len(streams[Delta(0)])
                BY <3>1, ReplayedLog DEF LoadFrom
            <4>2. generation' = 0
                BY <1>6, <3>1, ActivatedGeneration
            <4> QED BY <2>1, <4>1, <4>2
        <3>2. CASE ReadDelta
            BY <2>1, <3>2, CalmRead DEF ReadDelta
        <3> QED BY <1>6, <3>1, <3>2
    <2>5. pc' # "reload"
        BY <1>6 DEF ReplayLegacy, ReadDelta, Activated, Return
    <2> QED BY <2>1, <2>3, <2>4, <2>5
<1>7. CASE Tracked /\ UNCHANGED <<boot, generation>> /\ Reload
    <2>1. /\ streams' = streams /\ pc = "reload" /\ pc' = "idle"
          /\ endOffset' = Len(streams[Delta(generation)])
          /\ producerSequence' = request.sequence + 1
        BY <1>7, CalmRead DEF Reload, LoadFrom, Return, storeVars
    <2>2. request.sequence = producerSequence
        BY <2>1 DEF FramesOwed, Frame, Request
    <2>3. Written(streams[Delta(generation)], DeltaProducer(boot, generation))
             = 0 .. producerSequence
        BY <1>7, <2>1, OwnIsWritten DEF LogTail
    <2>4. producerSequence' - 1 = producerSequence
        BY <1>1, <2>1, <2>2
    <2> QED BY <1>7, <2>1, <2>3, <2>4
<1> QED BY <1>2, <1>3, <1>4, <1>5, <1>6, <1>7, WhoIsTracked

-----------------------------------------------------------------------------
(* What the room retains, and what a checkpoint covers *)

\* A checkpoint of a settled room keeps all of it: a blob is left out only when
\* the document shows everything the blob carries.
LEMMA CheckpointKeepsAll ==
    ASSUME Settled
    PROVE  CheckpointOps(BuildCheckpoint) = LiveOps
<1>1. BuildCheckpoint.snapshot = doc /\ BuildCheckpoint.pending \subseteq history
      /\ BuildCheckpoint.pending = {blob \in history : PendingIn(doc, blob)}
    BY DEF BuildCheckpoint, CheckpointRecord
<1>2. CheckpointOps(BuildCheckpoint) \subseteq LiveOps
    BY <1>1 DEF CheckpointOps, LiveOps, OpsOfAll
<1>3. ASSUME NEW blob \in history
      PROVE  OpsOf(blob) \subseteq CheckpointOps(BuildCheckpoint)
    <2>1. CASE PendingIn(doc, blob)
        BY <1>1, <2>1 DEF CheckpointOps, OpsOfAll
    <2>2. CASE ~PendingIn(doc, blob)
        <3>1. doc \cup OpsOf(blob) \subseteq LiveOps
            BY DEF LiveOps, OpsOfAll
        <3>2. Visible(doc \cup OpsOf(blob)) \subseteq doc
            BY <3>1, VisibleGrows DEF Settled
        <3> QED BY <1>1, <2>2, <3>2 DEF PendingIn, CheckpointOps
    <2> QED BY <2>1, <2>2
<1>4. LiveOps \subseteq CheckpointOps(BuildCheckpoint)
    BY <1>1, <1>3 DEF LiveOps, OpsOfAll, CheckpointOps
<1> QED BY <1>2, <1>4

\* The actor's end offset is within the delta.
LEMMA OffsetInLog ==
    ASSUME TypeOK, SequenceInv, lifecycle = "ready"
    PROVE  /\ Delta(generation) \in Streams /\ generation \in Generations
           /\ endOffset \in Nat
           /\ endOffset <= Len(streams[Delta(generation)])
           /\ 1 .. endOffset \subseteq DOMAIN streams[Delta(generation)]
<1>1. /\ Delta(generation) \in Streams /\ generation \in Generations
      /\ endOffset \in Nat
    BY StreamNames DEF TypeOK, ActorTypeOK
<1>2. /\ Len(streams[Delta(generation)]) \in Nat
      /\ DOMAIN streams[Delta(generation)] = 1 .. Len(streams[Delta(generation)])
    BY <1>1, StreamIsLog
<1>3. \/ Len(streams[Delta(generation)]) = endOffset
      \/ Len(streams[Delta(generation)]) = endOffset + 1
    BY DEF SequenceInv, LogTail, Tracked
<1> QED BY <1>1, <1>2, <1>3

\* A prefix of a log.
LEMMA PrefixOfSequence ==
    ASSUME NEW S, NEW log \in Seq(S), NEW k \in Nat, k <= Len(log)
    PROVE  LET prefix == SubSeq(log, 1, k) IN
           DOMAIN prefix = 1 .. k /\ \A j \in 1 .. k : prefix[j] = log[j]
OBVIOUS

\* The operations of a log are those of its frames.
LEMMA HistoryOps ==
    ASSUME NEW log, NEW S,
           \A i \in DOMAIN log : OpsOfAll(Content[log[i].body]) \subseteq S
    PROVE  OpsOfAll(HistoryOf(log)) \subseteq S
<1> SUFFICES ASSUME NEW blob \in HistoryOf(log), NEW u \in OpsOf(blob)
             PROVE  u \in S
    BY DEF OpsOfAll
<1>1. PICK i \in DOMAIN log : blob \in Content[log[i].body]
    BY DEF HistoryOf
<1>2. u \in OpsOfAll(Content[log[i].body])
    BY <1>1 DEF OpsOfAll
<1> QED BY <1>1, <1>2

\* The room retains every frame up to its end offset.
LEMMA RetainedStep ==
    ASSUME TypeOK, ChainInv, SequenceInv, Calm, [Next]_vars
    PROVE  Retained'
<1> USE DEF SequenceInv, ProducerInv
<1>1. ASSUME lifecycle' = "ready", NEW i \in 1 .. endOffset'
      PROVE  Content[streams'[Delta(generation')][i].body] \subseteq history'
    <2>1. ASSUME lifecycle = "ready", generation' = generation, history \subseteq history',
                 i \in 1 .. endOffset
          PROVE  Content[streams'[Delta(generation')][i].body] \subseteq history'
        <3>1. streams'[Delta(generation)][i] = streams[Delta(generation)][i]
            BY <2>1, OffsetInLog, StepGrows, RecordsStay
        <3>2. Content[streams[Delta(generation)][i].body] \subseteq history
            BY <2>1 DEF Retained
        <3> QED BY <2>1, <3>1, <3>2
    <2>2. CASE lifecycle = "ready" /\ UNCHANGED <<generation, endOffset, history>>
        BY <1>1, <2>1, <2>2
    <2>3. CASE /\ lifecycle = "ready" /\ UNCHANGED generation
               /\ UpdateCommitted \/ UpdateVerified
               /\ pc = "append"
        <3>1. /\ endOffset' = endOffset + 1
              /\ streams'[Delta(generation)][endOffset + 1] = request
            BY <2>3, AcceptedFrame
        <3>2. history' = history \cup Content[request.body]
            BY <2>3 DEF UpdateCommitted, UpdateVerified, Accept
        <3>3. CASE i \in 1 .. endOffset
            BY <2>1, <2>3, <3>2, <3>3
        <3>4. CASE i = endOffset + 1
            BY <2>3, <3>1, <3>2, <3>4
        <3>5. endOffset \in Nat
            BY DEF TypeOK, ActorTypeOK
        <3> QED BY <1>1, <3>1, <3>3, <3>4, <3>5
    <2>4. CASE Switch
        BY <1>1, <2>4 DEF Switch
    <2>5. CASE lifecycle = "recovering" /\ (ReplayLegacy \/ ReadDelta)
        <3>1. /\ streams' = streams /\ generation' = Len(streams[Manifest])
              /\ ReplayLegacy => generation' = 0
              /\ ReadDelta => ActiveDelta(record) = Len(streams[Manifest])
            BY <2>5, ActivatedGeneration
        <3>2. /\ HistoryOf(streams[Delta(generation')]) \subseteq history'
              /\ endOffset' = Len(streams[Delta(generation')])
            <4>1. CASE ReplayLegacy
                <5>1. LoadFrom(streams[Delta(0)])
                    BY <1>1, <4>1, ReplayedLog
                <5> QED BY <3>1, <4>1, <5>1 DEF LoadFrom
            <4>2. CASE ReadDelta
                BY <3>1, <4>2, CalmRead DEF ReadDelta
            <4> QED BY <2>5, <4>1, <4>2
        <3>3. DOMAIN streams[Delta(generation')] = 1 .. Len(streams[Delta(generation')])
            BY TypeStep, StreamIsLog, StreamNames DEF TypeOK, ActorTypeOK
        <3> QED BY <1>1, <3>1, <3>2, <3>3 DEF HistoryOf
    <2>6. CASE Reload
        <3>1. /\ streams' = streams /\ generation' = generation
              /\ history' = HistoryOf(streams[Delta(generation)])
              /\ endOffset' = Len(streams[Delta(generation)])
            BY <2>6, CalmRead DEF Reload, LoadFrom, storeVars
        <3>2. DOMAIN streams[Delta(generation)] = 1 .. Len(streams[Delta(generation)])
            BY StreamIsLog, StreamNames DEF TypeOK, ActorTypeOK
        <3> QED BY <1>1, <3>1, <3>2 DEF HistoryOf
    <2> QED BY <1>1, <2>2, <2>3, <2>4, <2>5, <2>6, WhoIsReady
<1>2. ASSUME pc' \in RotationPoints
      PROVE  CheckpointOps(checkpoint') = LiveOps' /\ checkpoint'.endOffset = endOffset'
    <2>1. UNCHANGED endOffset
        BY <1>2, WhoCounts
        DEF UpdateCommitted, UpdateVerified, Accept, Reload, ReloadFails, Switch,
            ReplayLegacy, ReadDelta, Activated, Return, Crash
    <2>2. CASE UNCHANGED <<pc, doc, history, checkpoint>>
        BY <1>2, <2>1, <2>2 DEF Retained, LiveOps
    <2>3. CASE Rotate /\ UNCHANGED <<doc, history>>
        <3>1. checkpoint' = BuildCheckpoint
            BY <1>2, <2>3 DEF Rotate, GiveUp, Return
        <3>2. BuildCheckpoint.endOffset = endOffset
            BY DEF BuildCheckpoint, CheckpointRecord
        <3> QED BY <2>1, <2>3, <3>1, <3>2, CheckpointKeepsAll DEF ChainInv, LiveOps
    <2>4. CASE /\ UNCHANGED <<doc, history>>
               /\ \/ Persist \/ CheckpointAppended \/ Prepare
                  \/ Position \/ Publish \/ ManifestAppended
        <3>1. pc \in RotationPoints /\ checkpoint' = checkpoint
            BY <1>2, <2>4 DEF Persist, CheckpointAppended, Prepare, Position, Publish,
               ManifestAppended, GiveUp, Return, controlVars
        <3> QED BY <2>1, <2>4, <3>1 DEF Retained, LiveOps
    <2> QED BY <1>2, <2>2, <2>3, <2>4, WhoRotates
<1> QED BY <1>1, <1>2 DEF Retained

\* A covered range stays covered: the frames in it do not change.
LEMMA CoversStays ==
    ASSUME TypeOK, [Next]_vars, NEW cp \in CheckpointRecords, Covers(cp)
    PROVE  Covers(cp)'
<1>1. /\ Delta(cp.generation) \in Streams /\ cp.endOffset \in Nat
    BY StreamNames, GenerationNumbers DEF CheckpointRecords
<1> DEFINE log == streams[Delta(cp.generation)]
           new == streams'[Delta(cp.generation)]
<1>2. /\ Len(log) \in Nat /\ DOMAIN log = 1 .. Len(log) /\ Len(log) <= Len(new)
      /\ \A i \in DOMAIN log : new[i] = log[i]
    BY <1>1, StepGrows, StreamIsLog, LengthsGrow, RecordsStay
<1>3. Len(new) \in Nat
    BY <1>1, TypeStep DEF TypeOK, StoreTypeOK
<1>4. cp.endOffset <= Len(log)
    BY DEF Covers
<1>5. cp.endOffset <= Len(new)
    BY <1>1, <1>2, <1>3, <1>4
<1>6. ASSUME NEW i \in 1 .. cp.endOffset
      PROVE  OpsOfAll(Content[new[i].body]) \subseteq CheckpointOps(cp)
    <2>1. i \in DOMAIN log
        BY <1>1, <1>2, <1>4
    <2> QED BY <1>2, <2>1 DEF Covers
<1> QED BY <1>5, <1>6 DEF Covers, CheckpointOps

\* The checkpoint of a rotation covers its range.
LEMMA RotationCovers ==
    ASSUME TypeOK, ChainInv, SequenceInv, pc \in RotationPoints
    PROVE  Covers(checkpoint)
<1> USE DEF SequenceInv, ProducerInv
<1>1. lifecycle = "ready"
    BY DEF Phases
<1>2. /\ checkpoint.generation = generation /\ checkpoint.endOffset = endOffset
      /\ CheckpointOps(checkpoint) = LiveOps
    BY DEF ChainInv, RotationLocals, Retained
<1>3. ASSUME NEW i \in 1 .. endOffset
      PROVE  OpsOfAll(Content[streams[Delta(generation)][i].body]) \subseteq LiveOps
    BY <1>1 DEF Retained, LiveOps, OpsOfAll
<1> QED BY <1>1, <1>2, <1>3, OffsetInLog DEF Covers

\* Every checkpoint that is or may become active covers its range.
LEMMA CoveredStep ==
    ASSUME TypeOK, ChainInv, SequenceInv, Calm, [Next]_vars
    PROVE  Covered'
<1> USE DEF SequenceInv
<1>1. ASSUME NEW r \in ManifestRequests, Covers(r.body.checkpoint)
      PROVE  Covers(r.body.checkpoint)'
    <2>1. r.body.checkpoint \in CheckpointRecords
        BY DEF ManifestRequests, ManifestRecords
    <2>2. ASSUME NEW cp \in CheckpointRecords, Covers(cp)
          PROVE  Covers(cp)'
        BY <2>2, CoversStays
    <2> QED BY <1>1, <2>1, <2>2
<1>2. ASSUME NEW i \in DOMAIN streams'[Manifest]
      PROVE  Covers(streams[Manifest][i].body.checkpoint)'
    <2>1. CASE i \in DOMAIN streams[Manifest] /\ streams'[Manifest][i] = streams[Manifest][i]
        <3>1. streams[Manifest][i] \in ManifestRequests
            BY <2>1, StreamIsLog, RequestKinds, StreamNames
        <3>2. Covers(streams[Manifest][i].body.checkpoint)
            BY <2>1 DEF Covered
        <3>3. PICK m \in ManifestRequests : m = streams[Manifest][i]
            BY <3>1
        <3>4. Covers(m.body.checkpoint)'
            BY <1>1, <3>2, <3>3
        <3> QED BY <2>1, <3>3, <3>4 DEF Covers
    <2>2. ASSUME NEW r \in Sending, r.stream = Manifest, streams'[Manifest][i] = r
          PROVE  Covers(streams[Manifest][i].body.checkpoint)'
        <3>1. r \in ManifestRequests /\ Covers(r.body.checkpoint)
            BY <2>2, OwedTypes, RequestKinds DEF Covered
        <3>2. Covers(r.body.checkpoint)'
            BY <1>1, <3>1
        <3> QED BY <2>2, <3>2 DEF Covers
    <2> QED BY <2>1, <2>2, StepAppends, StreamNames
<1>3. ASSUME NEW r \in Owed', r.stream = Manifest
      PROVE  Covers(r.body.checkpoint)'
    <2>1. CASE r \in Owed
        BY <1>1, <1>3, <2>1, OwedTypes, RequestKinds DEF Covered
    <2>2. ASSUME NEW b \in Batches, r = Frame(b)
          PROVE  FALSE
        BY <1>3, <2>2, StreamNames DEF Frame, Request, TypeOK, ActorTypeOK
    <2>3. CASE r = CheckpointRequest
        BY <1>3, <2>3, StreamNames DEF CheckpointRequest, Request, TypeOK, ActorTypeOK
    <2>4. CASE pc = "publish" /\ r = ManifestRequest
        <3>1. r \in ManifestRequests
            BY <2>4, ManifestRequestNames DEF ChainInv
        <3>2. r.body.checkpoint = checkpoint
            BY <2>4 DEF ManifestRequest, Request, ChainInv, RotationLocals, ManifestRecord
        <3>3. Covers(r.body.checkpoint)
            BY <2>4, <3>2, RotationCovers
        <3> QED BY <1>1, <3>1, <3>3
    <2> QED BY <2>1, <2>2, <2>3, <2>4, OwedStep
<1> QED BY <1>2, <1>3 DEF Covered, Covers

-----------------------------------------------------------------------------
(* Full snapshots *)

\* The delta of a room that retains nothing has no frame but, perhaps, the room's
\* own first one.
LEMMA EmptyRoom ==
    ASSUME TypeOK, SequenceInv, lifecycle = "ready", history = {}
    PROVE  /\ producerSequence = 0
           /\ \A i \in DOMAIN streams[Delta(generation)] :
                 streams[Delta(generation)][i].producer = DeltaProducer(boot, generation)
<1> USE DEF SequenceInv
<1> DEFINE log == streams[Delta(generation)]
           own == DeltaProducer(boot, generation)
<1>1. /\ endOffset \in Nat /\ producerSequence \in Nat /\ generation \in Generations
      /\ Len(log) \in Nat /\ DOMAIN log = 1 .. Len(log)
    BY StreamIsLog, StreamNames, GenerationNumbers DEF TypeOK, ActorTypeOK
<1>2. endOffset = 0
    <2>1. SUFFICES ASSUME 1 \in 1 .. endOffset
                   PROVE  FALSE
        BY <1>1
    <2>2. Content[log[1].body] \subseteq {}
        BY <2>1 DEF Retained
    <2>3. 1 \in DOMAIN log
        BY <2>1, OffsetInLog
    <2>4. Content[log[1].body] # {}
        BY <1>1, <2>3 DEF Replays, Replayable, ValidBlobs
    <2> QED BY <2>2, <2>4
<1>3. CASE Len(log) = 0 /\ Written(log, own) = 0 .. producerSequence - 1
    <2>1. Written(log, own) = {}
        BY <1>1, <1>3 DEF Written
    <2>2. producerSequence # 0 => 0 \in 0 .. producerSequence - 1
        BY <1>1
    <2>3. producerSequence = 0
        BY <1>3, <2>1, <2>2
    <2>4. DOMAIN log = {}
        BY <1>1, <1>3
    <2> QED BY <2>3, <2>4
<1>4. CASE /\ Len(log) = 1 /\ Written(log, own) = 0 .. producerSequence
           /\ log[Len(log)].producer = own
    <2>1. DOMAIN log = {1} /\ log[1].producer = own
        BY <1>1, <1>4
    <2>2. Written(log, own) = {log[1].sequence}
        BY <2>1 DEF Written
    <2>3. 0 \in 0 .. producerSequence /\ producerSequence \in 0 .. producerSequence
        BY <1>1
    <2>4. 0 \in {log[1].sequence} /\ producerSequence \in {log[1].sequence}
        BY <1>4, <2>2, <2>3
    <2>5. producerSequence = 0
        BY <2>4
    <2> QED BY <2>1, <2>5
<1>5. \/ Len(log) = endOffset /\ Written(log, own) = 0 .. producerSequence - 1
      \/ /\ Len(log) = endOffset + 1 /\ Written(log, own) = 0 .. producerSequence
         /\ log[Len(log)].producer = own
    BY OwnIsWritten DEF LogTail, Tracked
<1> QED BY <1>2, <1>3, <1>4, <1>5

\* A frame that may still be appended to a delta can be replayed.
LEMMA ReplayableOwedStep ==
    ASSUME TypeOK, ChainInv, SequenceInv, Calm, [Next]_vars
    PROVE  ReplayableOwed'
<1> USE DEF SequenceInv
<1>1. SUFFICES ASSUME NEW r \in Owed', NEW g \in Generations, r.stream = Delta(g)
               PROVE  /\ ValidBlobs(Content[r.body], TRUE)
                      /\ Content[r.body] \cap Snapshots # {} =>
                            /\ r.sequence = 0
                            /\ \A i \in DOMAIN streams'[Delta(g)] :
                                  streams'[Delta(g)][i].producer = DeltaProducer(boot', g)
    BY DEF ReplayableOwed
<1>2. boot' = boot
    <2>1. ~Crash
        BY <1>1 DEF Crash, LoseConnections, Calm, Owed, Sending
    <2> QED BY <2>1, PhaseKept
<1>3. CASE r \in Owed
    <2>1. /\ ValidBlobs(Content[r.body], TRUE)
          /\ Content[r.body] \cap Snapshots # {} =>
                /\ r.sequence = 0
                /\ \A i \in DOMAIN streams[Delta(g)] :
                      streams[Delta(g)][i].producer = DeltaProducer(boot, g)
        BY <1>1, <1>3 DEF Replays, ReplayableOwed
    <2>2. ASSUME NEW i \in DOMAIN streams'[Delta(g)],
                 \A j \in DOMAIN streams[Delta(g)] :
                     streams[Delta(g)][j].producer = DeltaProducer(boot, g)
          PROVE  streams'[Delta(g)][i].producer = DeltaProducer(boot, g)
        BY <2>2, StepAppends, AppendedFrame, StreamNames, GenerationNumbers
    <2> QED BY <1>2, <2>1, <2>2
<1>4. ASSUME NEW c \in Connections, NEW b \in Batches, Update(c, b), r = Frame(b)
      PROVE  /\ ValidBlobs(Content[r.body], TRUE)
             /\ Content[r.body] \cap Snapshots # {} =>
                   /\ r.sequence = 0
                   /\ \A i \in DOMAIN streams'[Delta(g)] :
                         streams'[Delta(g)][i].producer = DeltaProducer(boot', g)
    <2>1. /\ lifecycle = "ready" /\ streams' = streams
          /\ ValidBlobs(Content[b], history = {})
        BY <1>4 DEF Update, Admissible, storeVars
    <2>2. r.body = b /\ r.sequence = producerSequence /\ Delta(generation) = Delta(g)
        BY <1>1, <1>4 DEF Frame, Request
    <2>3. generation = g
        BY <2>2, StreamsDiffer DEF TypeOK, ActorTypeOK
    <2>4. ValidBlobs(Content[b], TRUE)
        BY <2>1 DEF ValidBlobs
    <2>5. Content[b] \cap Snapshots # {} => history = {}
        BY <2>1 DEF ValidBlobs
    <2> QED BY <1>2, <2>1, <2>2, <2>3, <2>4, <2>5, EmptyRoom
<1>5. CASE r = CheckpointRequest
    BY <1>1, <1>5, StreamNames, GenerationNumbers
    DEF CheckpointRequest, Request, TypeOK, ActorTypeOK
<1>6. CASE r = ManifestRequest
    BY <1>1, <1>6, StreamNames, GenerationNumbers DEF ManifestRequest, Request
<1> QED BY <1>3, <1>4, <1>5, <1>6, OwedStep

\* Every delta can be replayed from its start.
LEMMA ReplaysStep ==
    ASSUME TypeOK, ChainInv, SequenceInv, Calm, [Next]_vars
    PROVE  Replays'
<1> USE DEF SequenceInv
<1>1. ASSUME NEW g \in Generations, NEW i \in DOMAIN streams'[Delta(g)]
      PROVE  ValidBlobs(Content[streams'[Delta(g)][i].body], i = 1)
    <2> DEFINE log == streams[Delta(g)]
    <2>0. Len(log) \in Nat /\ DOMAIN log = 1 .. Len(log)
        BY StreamIsLog, StreamNames
    <2>1. CASE i \in DOMAIN log /\ streams'[Delta(g)][i] = log[i]
        BY <2>1 DEF Replays, Replayable
    <2>2. ASSUME NEW r \in Sending, InOrder(r), r.stream = Delta(g),
                 i = Len(log) + 1, streams'[Delta(g)][i] = r
          PROVE  ValidBlobs(Content[streams'[Delta(g)][i].body], i = 1)
        <3>1. /\ r \in Owed /\ r.producer = DeltaProducer(boot, g)
              /\ ValidBlobs(Content[r.body], TRUE)
            BY <2>2, AppendedFrame, GenerationNumbers DEF Replays, ReplayableOwed
        <3>2. CASE Content[r.body] \cap Snapshots = {}
            BY <2>2, <3>1, <3>2 DEF ValidBlobs
        <3>3. CASE Content[r.body] \cap Snapshots # {}
            <4>1. /\ r.sequence = 0
                  /\ \A j \in DOMAIN log : log[j].producer = r.producer
                BY <2>2, <3>1, <3>3 DEF Replays, ReplayableOwed
            <4>2. ASSUME 1 \in DOMAIN log
                  PROVE  FALSE
                <5>1. log[1] \in DeltaRequests
                    BY <4>2, StreamIsLog, StreamNames, GenerationNumbers, RequestKinds
                <5>2. log[1].sequence \in Nat
                    BY <5>1 DEF DeltaRequests
                <5>3. log[1].sequence \in SequencesOf(r)
                    BY <2>2, <4>1, <4>2 DEF SequencesOf, PositionsOf
                <5>4. ~ (log[1].sequence >= r.sequence)
                    BY <2>2, <5>3 DEF InOrder, Known
                <5> QED BY <4>1, <5>2, <5>4
            <4>3. i = 1
                BY <2>0, <2>2, <4>2
            <4> QED BY <2>2, <3>1, <4>3
        <3> QED BY <3>2, <3>3
    <2> QED BY <2>1, <2>2, StepAppends, StreamNames, GenerationNumbers
<1> QED BY <1>1, ReplayableOwedStep DEF Replays, Replayable

-----------------------------------------------------------------------------
(* The theorems about the counters *)

\* An empty store satisfies the invariant.
LEMMA SequenceInit ==
    ASSUME Init
    PROVE  SequenceInv
<1>1. \A s \in Streams : streams[s] = <<>>
    BY DEF Init, UrsulaInit
<1>2. Owed = {}
    BY DEF Init, UrsulaInit, Owed, Sending
<1>3. ProducerInv
    BY ProducerInit
<1>4. OwnOwed /\ ManifestsOwed /\ ReplayableOwed
    BY <1>2 DEF Init, UrsulaInit, OwnOwed, ManifestsOwed, ReplayableOwed
<1>5. \A g \in Generations : Replayable(streams[Delta(g)])
    BY <1>1, StreamNames DEF Replayable
<1>6. LogTail /\ ActiveIsOwn /\ Retained
    BY DEF Init, Tracked, Unresolved, LogTail, ActiveIsOwn, Retained
<1>7. Covered
    BY <1>1, <1>2, StreamNames DEF Covered
<1> QED BY <1>3, <1>4, <1>5, <1>6, <1>7 DEF SequenceInv, Replays

\* Every step of a calm gateway keeps the invariant.
LEMMA SequenceStep ==
    ASSUME TypeOK, ChainInv, SequenceInv, Calm, [Next]_vars
    PROVE  SequenceInv'
BY ProducerStep, OwnOwedStep, LogTailStep, ActiveIsOwnStep, ManifestsOwedStep,
   RetainedStep, CoveredStep, ReplaysStep DEF SequenceInv

\* The invariant of one process at a time.
THEOREM SequenceHolds ==
    ASSUME Calm
    PROVE  Spec => []SequenceInv
<1>1. Init => SequenceInv
    BY SequenceInit
<1>2. TypeOK /\ ChainInv /\ SequenceInv /\ [Next]_vars => SequenceInv'
    BY SequenceStep
<1> QED BY <1>1, <1>2, TypeCorrect, ChainHolds, PTL DEF Spec

\* A published checkpoint holds every frame of the range it was built from,
\* whatever was appended late to the sealed delta (build_checkpoint_record,
\* rotate_room).
THEOREM CheckpointsCover ==
    ASSUME Calm
    PROVE  Spec => []CheckpointCoversItsRange
<1>1. TypeOK /\ ChainInv /\ SequenceInv => CheckpointCoversItsRange
    <2> SUFFICES ASSUME TypeOK, ChainInv, SequenceInv,
                        NEW i \in DOMAIN streams[Manifest]
                 PROVE  LET cp == streams[Manifest][i].body.checkpoint
                            source == SubSeq(streams[Delta(cp.generation)], 1, cp.endOffset) IN
                        OpsOfAll(HistoryOf(source)) \subseteq CheckpointOps(cp)
        BY DEF CheckpointCoversItsRange, CheckpointOps
    <2> DEFINE cp == streams[Manifest][i].body.checkpoint
               log == streams[Delta(cp.generation)]
               source == SubSeq(log, 1, cp.endOffset)
    <2>1. Covers(cp)
        BY DEF SequenceInv, Covered
    <2>2. cp \in CheckpointRecords
        BY StreamIsLog, StreamNames, RequestKinds DEF ManifestRequests, ManifestRecords
    <2>3. cp.endOffset \in Nat /\ Delta(cp.generation) \in Streams
        BY <2>2, StreamNames, GenerationNumbers DEF CheckpointRecords
    <2>4. log \in Seq(Requests) /\ cp.endOffset <= Len(log)
        BY <2>1, <2>3, StreamIsLog DEF Covers
    <2>5. DOMAIN source = 1 .. cp.endOffset /\ \A k \in 1 .. cp.endOffset : source[k] = log[k]
        BY <2>3, <2>4, PrefixOfSequence
    <2>6. ASSUME NEW k \in DOMAIN source
          PROVE  OpsOfAll(Content[source[k].body]) \subseteq CheckpointOps(cp)
        BY <2>1, <2>5 DEF Covers
    <2>7. OpsOfAll(HistoryOf(source)) \subseteq CheckpointOps(cp)
        BY <2>6, HistoryOps
    <2> QED BY <2>7
<1> QED BY <1>1, TypeCorrect, ChainHolds, SequenceHolds, PTL

\* Ack(Ok) is granted only by an actor that writes the delta the manifest makes
\* active: a generation that a rotation sealed takes no acknowledged update
\* (BOUNDED_RECOVERY.md, rotate_generation in actor.rs).
THEOREM AcksStayActive ==
    ASSUME Calm
    PROVE  Spec => AcksGoToActiveGeneration
<1>1. SequenceInv /\ [Next]_vars => [acked' # acked => generation = Len(streams[Manifest])]_vars
    <2> SUFFICES ASSUME SequenceInv, [Next]_vars, acked' # acked
                 PROVE  generation = Len(streams[Manifest])
        OBVIOUS
    <2>1. pc = "append"
        BY WhoAcks DEF UpdateCommitted, UpdateVerified
    <2> QED BY <2>1 DEF SequenceInv, ProducerInv, Phases, Tracked, ActiveIsOwn
<1> QED BY <1>1, SequenceHolds, PTL DEF Spec, AcksGoToActiveGeneration

-----------------------------------------------------------------------------
(* Why a room is found corrupt *)

\* A full snapshot that is or may become a frame is the first one of its producer.
SnapshotFirst(r) ==
    /\ ValidBlobs(Content[r.body], TRUE)
    /\ Content[r.body] \cap Snapshots # {} => r.sequence = 0

\* Whoever appended them, the frames of one producer are in order, and snapshots
\* come from a room that had appended nothing to its delta.
SnapshotInv ==
    /\ \A g \in Generations : \A i \in DOMAIN streams[Delta(g)] :
          /\ SnapshotFirst(streams[Delta(g)][i])
          /\ \A j \in 1 .. i - 1 :
                streams[Delta(g)][j].producer = streams[Delta(g)][i].producer =>
                    streams[Delta(g)][j].sequence < streams[Delta(g)][i].sequence
    /\ \A r \in Owed, g \in Generations : r.stream = Delta(g) => SnapshotFirst(r)
    /\ lifecycle = "ready" /\ history = {} => producerSequence = 0

\* Where followers do not lag a read is of the whole stream, and is refused for
\* its length or its answer alone.
LEMMA CurrentRead ==
    ASSUME ~StaleReads, NEW s
    PROVE  /\ ReadAll(s) = {streams[s]}
           /\ Readable(s) \subseteq {streams[s]}
           /\ Refused(s) => BadWindows \/ OverLimit(s, streams[s])
BY DEF ReadAll, Readable, Refused

\* A frame that is appended keeps the order of its producer.
LEMMA SnapshotsStoredStep ==
    ASSUME TypeOK, SnapshotInv, [Next]_vars,
           NEW g \in Generations, NEW i \in DOMAIN streams'[Delta(g)]
    PROVE  /\ SnapshotFirst(streams'[Delta(g)][i])
           /\ \A j \in 1 .. i - 1 :
                 streams'[Delta(g)][j].producer = streams'[Delta(g)][i].producer =>
                     streams'[Delta(g)][j].sequence < streams'[Delta(g)][i].sequence
<1> DEFINE log == streams[Delta(g)]
           new == streams'[Delta(g)]
<1>1. Len(log) \in Nat /\ DOMAIN log = 1 .. Len(log) /\ Delta(g) \in Streams
    BY StreamIsLog, StreamNames
<1>2. \A j \in DOMAIN log : j \in DOMAIN new /\ new[j] = log[j]
    BY <1>1, StepGrows, RecordsStay
<1>3. CASE i \in DOMAIN log
    <2>1. 1 .. i - 1 \subseteq DOMAIN log
        BY <1>1, <1>3
    <2>2. new[i] = log[i] /\ \A j \in 1 .. i - 1 : new[j] = log[j]
        BY <1>2, <1>3, <2>1
    <2> QED BY <1>3, <2>2 DEF SnapshotInv
<1>4. ASSUME NEW r \in Sending, InOrder(r), r.stream = Delta(g),
             i = Len(log) + 1, new[i] = r
      PROVE  /\ SnapshotFirst(new[i])
             /\ \A j \in 1 .. i - 1 :
                   new[j].producer = new[i].producer => new[j].sequence < new[i].sequence
    <2>1. r \in Owed /\ r \in DeltaRequests
        BY <1>4, OwedTypes, RequestKinds
    <2>2. SnapshotFirst(r)
        BY <1>4, <2>1 DEF SnapshotInv
    <2>3. ASSUME NEW j \in DOMAIN log, log[j].producer = r.producer
          PROVE  log[j].sequence < r.sequence
        <3>1. log[j].sequence \in SequencesOf(r)
            BY <1>4, <2>3 DEF SequencesOf, PositionsOf
        <3>2. ~ (log[j].sequence >= r.sequence)
            BY <1>4, <3>1 DEF InOrder, Known
        <3>3. log[j] \in DeltaRequests
            BY <1>1, StreamIsLog, RequestKinds
        <3>4. log[j].sequence \in Nat /\ r.sequence \in Nat
            BY <2>1, <3>3 DEF DeltaRequests
        <3> QED BY <3>2, <3>4
    <2>4. 1 .. i - 1 = DOMAIN log
        BY <1>1, <1>4
    <2> QED BY <1>2, <1>4, <2>2, <2>3, <2>4
<1> QED BY <1>1, <1>3, <1>4, StepAppends

\* A frame on its way was taken by a room that could take it.
LEMMA SnapshotsOwedStep ==
    ASSUME TypeOK, SnapshotInv, [Next]_vars,
           NEW r \in Owed', NEW g \in Generations, r.stream = Delta(g)
    PROVE  SnapshotFirst(r)
<1>1. CASE r \in Owed
    BY <1>1 DEF SnapshotInv
<1>2. ASSUME NEW c \in Connections, NEW b \in Batches, Update(c, b), r = Frame(b)
      PROVE  SnapshotFirst(r)
    <2>1. /\ lifecycle = "ready" /\ ValidBlobs(Content[b], history = {})
          /\ r.body = b /\ r.sequence = producerSequence
        BY <1>2 DEF Update, Admissible, Frame, Request
    <2> QED BY <2>1 DEF SnapshotFirst, ValidBlobs, SnapshotInv
<1>3. CASE r = CheckpointRequest
    BY <1>3, StreamNames DEF CheckpointRequest, Request, TypeOK, ActorTypeOK
<1>4. CASE r = ManifestRequest
    BY <1>4, StreamNames DEF ManifestRequest, Request
<1> QED BY <1>1, <1>2, <1>3, <1>4, OwedStep

\* A room that appended to its delta retains something of it.
LEMMA RetainsSomethingStep ==
    ASSUME TypeOK, ProducerInv, SnapshotInv, ~StaleReads, [Next]_vars,
           lifecycle' = "ready", history' = {}
    PROVE  producerSequence' = 0
<1> USE DEF ProducerInv
<1>1. CASE lifecycle = "ready" /\ UNCHANGED <<history, producerSequence>>
    BY <1>1 DEF SnapshotInv
<1>2. ASSUME UpdateCommitted \/ UpdateVerified
      PROVE  FALSE
    <2>1. /\ pc = "append" /\ history' = history \cup Content[request.body]
        BY <1>2 DEF UpdateCommitted, UpdateVerified, Accept
    <2>2. request \in Owed /\ request = Frame(request.body)
        BY <2>1, OwedTypes DEF Sending, FramesOwed
    <2>3. request.stream = Delta(generation) /\ generation \in Generations
        BY <2>2 DEF Frame, Request, TypeOK, ActorTypeOK
    <2>4. Content[request.body] # {}
        BY <2>2, <2>3 DEF SnapshotInv, SnapshotFirst, ValidBlobs
    <2> QED BY <2>1, <2>4
<1>3. CASE Switch
    BY <1>3 DEF Switch
<1>4. CASE ReplayLegacy \/ ReadDelta
    BY <1>4 DEF ReplayLegacy, ReadDelta, Activated, Phases
<1>5. ASSUME Reload
      PROVE  FALSE
    <2> DEFINE log == streams[Delta(generation)]
    <2>1. /\ pc = "reload" /\ generation \in Generations /\ producerSequence \in Nat
          /\ history' = HistoryOf(log)
        BY <1>5, CurrentRead DEF Reload, LoadFrom, TypeOK, ActorTypeOK
    <2>2. Written(log, DeltaProducer(boot, generation)) = 0 .. producerSequence
        BY <2>1, OwnIsWritten DEF SequenceTail, Tracked, Unresolved
    <2>3. PICK i \in DOMAIN log : TRUE
        BY <2>1, <2>2 DEF Written
    <2>4. Content[log[i].body] # {}
        BY <2>1, <2>3 DEF SnapshotInv, SnapshotFirst, ValidBlobs
    <2> QED BY <2>1, <2>3, <2>4 DEF HistoryOf
<1>6. ~ (ReloadFails \/ Crash)
    BY DEF ReloadFails, Crash
<1> QED BY <1>1, <1>2, <1>3, <1>4, <1>5, <1>6, WhoCounts, WhoIsReady

\* The invariant holds at the start.
LEMMA SnapshotInit ==
    ASSUME Init
    PROVE  SnapshotInv
<1>1. \A s \in Streams : streams[s] = <<>>
    BY DEF Init, UrsulaInit
<1>2. Owed = {}
    BY DEF Init, UrsulaInit, Owed, Sending
<1> QED BY <1>1, <1>2, StreamNames DEF Init, SnapshotInv

\* Every step keeps it, late requests of dead processes included.
LEMMA SnapshotStep ==
    ASSUME TypeOK, ProducerInv, SnapshotInv, ~StaleReads, [Next]_vars
    PROVE  SnapshotInv'
<1>1. \A r \in Owed', g \in Generations : r.stream = Delta(g) => SnapshotFirst(r)
    BY SnapshotsOwedStep
<1> QED BY <1>1, SnapshotsStoredStep, RetainsSomethingStep DEF SnapshotInv, SnapshotFirst

\* A delta that cannot be replayed has a full snapshot behind another producer's
\* frame: behind one of its own it would not have sequence zero.
LEMMA UnreplayableDelta ==
    ASSUME TypeOK, SnapshotInv, NEW g \in Generations, ~Replayable(streams[Delta(g)])
    PROVE  SnapshotBehindStranger(streams[Delta(g)])
<1> DEFINE log == streams[Delta(g)]
<1>1. /\ DOMAIN log = 1 .. Len(log) /\ Len(log) \in Nat
      /\ \A i \in DOMAIN log : log[i] \in DeltaRequests
    BY StreamIsLog, StreamNames, RequestKinds
<1>2. PICK i \in DOMAIN log : ~ValidBlobs(Content[log[i].body], i = 1)
    BY DEF Replayable
<1>3. SnapshotFirst(log[i])
    BY DEF SnapshotInv
<1>4. i # 1 /\ Content[log[i].body] \cap Snapshots # {} /\ log[i].sequence = 0
    BY <1>2, <1>3 DEF SnapshotFirst, ValidBlobs
<1>5. 1 \in 1 .. i - 1 /\ 1 \in DOMAIN log
    BY <1>1, <1>4
<1>6. log[1].sequence \in Nat
    BY <1>1, <1>5 DEF DeltaRequests
<1>7. log[1].producer # log[i].producer
    <2>1. log[1].producer = log[i].producer => log[1].sequence < log[i].sequence
        BY <1>5 DEF SnapshotInv
    <2> QED BY <1>4, <1>6, <2>1
<1> QED BY <1>4, <1>5, <1>7 DEF SnapshotBehindStranger

\* The chain that a read of the manifest returns is valid, and the checkpoint it
\* names is stored whole and alone.
LEMMA ChainIsSound ==
    ASSUME TypeOK, ChainInv, ~StaleReads
    PROVE  /\ \A log \in Readable(Manifest) : log # <<>> => ChainValid(log)
           /\ pc = "readCheckpoint" =>
                 \A log \in Readable(Checkpoint(record.checkpoint.generation)) :
                     HoldsOnly(log, record.checkpoint)
<1>1. ASSUME streams[Manifest] # <<>>
      PROVE  ChainValid(streams[Manifest])
    <2>1. /\ DOMAIN streams[Manifest] = 1 .. Len(streams[Manifest])
          /\ Len(streams[Manifest]) \in Nat /\ streams[Manifest] \in Seq(Requests)
        BY StreamIsLog, StreamNames
    <2>2. ASSUME NEW i \in 1 .. Len(streams[Manifest])
          PROVE  /\ streams[Manifest][i].body.revision = i - 1
                 /\ streams[Manifest][i].body.checkpoint.generation = i - 1
        BY <2>1, <2>2 DEF ChainInv, ManifestStored, NamesStored
    <2>3. 1 \in 1 .. Len(streams[Manifest])
        BY <1>1, <2>1
    <2>4. streams[Manifest][1].body.revision = 0
        BY <2>2, <2>3
    <2>5. ASSUME NEW i \in 2 .. Len(streams[Manifest])
          PROVE  LET m == streams[Manifest][i].body
                     p == streams[Manifest][i-1].body IN
                 /\ m.revision = p.revision + 1
                 /\ m.checkpoint.generation > p.checkpoint.generation
        <3>1. i \in 1 .. Len(streams[Manifest]) /\ i - 1 \in 1 .. Len(streams[Manifest])
            BY <2>1
        <3>2. /\ streams[Manifest][i].body.revision = i - 1
              /\ streams[Manifest][i].body.checkpoint.generation = i - 1
              /\ streams[Manifest][i - 1].body.revision = i - 1 - 1
              /\ streams[Manifest][i - 1].body.checkpoint.generation = i - 1 - 1
            BY <2>2, <3>1
        <3> QED BY <3>2
    <2> QED BY <2>4, <2>5 DEF ChainValid
<1>2. ASSUME pc = "readCheckpoint"
      PROVE  HoldsOnly(streams[Checkpoint(record.checkpoint.generation)], record.checkpoint)
    <2>1. PICK i \in DOMAIN streams[Manifest] : record = streams[Manifest][i].body
        BY <1>2 DEF ChainInv, ActivationLocals
    <2>2. NamesStored(streams[Manifest][i])
        BY <2>1 DEF ChainInv, ManifestStored
    <2> QED BY <2>1, <2>2 DEF NamesStored
<1> QED BY <1>1, <1>2, CurrentRead

\* The steps that find a room corrupt.
LEMMA WhoCorrupts ==
    ASSUME [Next]_vars, lifecycle # "corrupt", lifecycle' = "corrupt"
    PROVE  \/ ReadManifest /\ ~ UNCHANGED lifecycle
           \/ ReadCheckpoint /\ ~ UNCHANGED lifecycle
           \/ ReplayLegacy /\ LoadCorrupt
           \/ ReloadFails /\ LoadCorrupt
           \/ ActivationFails /\ Refused(BeingRead)
<1>1. CASE Command
    BY <1>1 DEF Command, Join, Leave, Update, RetryAmbiguous, Rotate, GoOn, GiveUp
<1>2. CASE UpdateCommitted \/ UpdateVerified \/ AppendAgain \/ UpdateUnknown
              \/ UpdateRejected \/ RetryResolved \/ RetryUnknown \/ RetryRejected
              \/ Reload \/ ReloadFails
    BY <1>2 DEF UpdateCommitted, UpdateVerified, AppendAgain, UpdateUnknown,
                UpdateRejected, RetryResolved, RetryUnknown, RetryRejected, StayBlocked,
                Reload, ReloadFails, Accept
<1>3. CASE Persist \/ CheckpointAppended \/ ExactAppendAgain \/ ExactAppendFails
              \/ Prepare \/ Position \/ Publish \/ ManifestAppended
              \/ Switch \/ StoreCallFails
    BY <1>3 DEF Persist, CheckpointAppended, ExactAppendAgain, ExactAppendFails,
                Prepare, Position, Publish, ManifestAppended, Switch, StoreCallFails,
                GoOn, GiveUp, Submit
<1>4. CASE ReadManifest \/ ReplayLegacy \/ ReadCheckpoint \/ ReadDelta
              \/ ActivationFails
    BY <1>4 DEF ReplayLegacy, ReadDelta, ActivationFails, FailActivation, Activated
<1>5. CASE LateDelivery \/ Crash \/ UNCHANGED vars
    BY <1>5 DEF LateDelivery, Crash, vars
<1> QED BY <1>1, <1>2, <1>3, <1>4, <1>5 DEF Next, ActorStep

\* Each of them has one of the two causes.
LEMMA CorruptionStep ==
    ASSUME TypeOK, ChainInv, SnapshotInv, ~StaleReads, ~BadWindows, [Next]_vars,
           lifecycle # "corrupt", lifecycle' = "corrupt"
    PROVE  \/ OverLimit(BeingRead, streams[BeingRead])
           \/ \E g \in Generations :
                 /\ BeingRead = Delta(g)
                 /\ ~Replayable(streams[Delta(g)])
                 /\ SnapshotBehindStranger(streams[Delta(g)])
<1>1. ~ (ReadManifest /\ ~ UNCHANGED lifecycle)
    BY ChainIsSound DEF ReadManifest, Continue
<1>2. ~ (ReadCheckpoint /\ ~ UNCHANGED lifecycle)
    <2> SUFFICES ASSUME ReadCheckpoint
                 PROVE  UNCHANGED lifecycle
        OBVIOUS
    <2>1. pc = "readCheckpoint"
        BY DEF ReadCheckpoint
    <2> QED BY <2>1, ChainIsSound DEF ReadCheckpoint, Continue
<1>3. CASE ActivationFails /\ Refused(BeingRead)
    BY <1>3, CurrentRead
<1>4. CASE (ReplayLegacy \/ ReloadFails) /\ LoadCorrupt
    <2>1. generation \in Generations
        BY DEF TypeOK, ActorTypeOK
    <2>2. pc \in {"replay", "reload"}
        BY <1>4 DEF ReplayLegacy, ReloadFails
    <2>3. BeingRead = Delta(generation)
        BY <2>2 DEF BeingRead
    <2>4. \/ OverLimit(Delta(generation), streams[Delta(generation)])
          \/ ~Replayable(streams[Delta(generation)])
        BY <1>4, CurrentRead DEF LoadCorrupt
    <2> QED BY <2>1, <2>3, <2>4, UnreplayableDelta
<1> QED BY <1>1, <1>2, <1>3, <1>4, WhoCorrupts

\* Where reads return the tail, in windows that keep the protocol, a room is
\* found corrupt only because the stream it reads outgrew the reader's limit, or
\* because a request of a dead process went before a full snapshot; where
\* requests die with their process, only for the limit.  Lost answers, retries,
\* rotations cut short and crashes never make the room's manifest, checkpoints
\* and deltas disagree (initialize, load_from_store, recover_from_manifest).
THEOREM CorruptionIsExplained ==
    ASSUME ~StaleReads, ~BadWindows
    PROVE  Spec => CorruptHasCause
<1>1. Spec => []SnapshotInv
    <2>1. TypeOK /\ ProducerInv /\ SnapshotInv /\ [Next]_vars => SnapshotInv'
        BY SnapshotStep
    <2> QED BY <2>1, SnapshotInit, TypeCorrect, ProducersHold, PTL DEF Spec
<1>2. Spec => [](~Orphans => Replays)
    <2>1. CASE Orphans
        <3>1. ~Orphans => Replays
            BY <2>1
        <3> QED BY <3>1, PTL
    <2>2. CASE ~Orphans
        <3>1. Calm
            BY <2>2 DEF Calm
        <3>2. Spec => []SequenceInv
            BY <3>1, SequenceHolds
        <3>3. SequenceInv => (~Orphans => Replays)
            BY DEF SequenceInv
        <3> QED BY <3>2, <3>3, PTL
    <2> QED BY <2>1, <2>2
<1>3. TypeOK /\ ChainInv /\ SnapshotInv /\ (~Orphans => Replays) /\ [Next]_vars =>
          [lifecycle # "corrupt" /\ lifecycle' = "corrupt" =>
              \/ OverLimit(BeingRead, streams[BeingRead])
              \/ /\ Orphans
                 /\ \E g \in Generations :
                       BeingRead = Delta(g) /\ SnapshotBehindStranger(streams[Delta(g)])]_vars
    BY CorruptionStep DEF Replays
<1> QED BY <1>1, <1>2, <1>3, TypeCorrect, ChainHolds, PTL DEF Spec, CorruptHasCause

-----------------------------------------------------------------------------
(* The inductive invariant of what the room keeps *)

\* Manifest records that may still be applied.
Unapplied == {r \in Owed : r.stream = Manifest /\ r.sequence = Len(streams[Manifest])}

\* The operations that no step can lose: a restart rebuilds them, a ready room
\* has them, and so has every checkpoint that may still be activated.
KeptOps ==
    {u \in RetainedOps :
        /\ lifecycle = "ready" => u \in LiveOps
        /\ \A r \in Unapplied : u \in CheckpointOps(r.body.checkpoint)}

AllKept ==
    /\ OpsIn(acked) \subseteq KeptOps
    /\ LiveOps \subseteq KeptOps
    /\ \A c \in Connections : heard[c] \subseteq KeptOps

\* All of the invariants that the theorems below rest on.
Sound == TypeOK /\ ChainInv /\ SequenceInv

\* Every step of a calm gateway keeps them.
LEMMA SoundStep ==
    ASSUME Sound, Calm, [Next]_vars
    PROVE  Sound'
BY TypeStep, ChainStep, SequenceStep DEF Sound

-----------------------------------------------------------------------------
(* What a restart rebuilds *)

\* The latest checkpoint and the delta that follows it.
LEMMA RetainedIs ==
    Sound =>
        LET n == Len(streams[Manifest]) IN
        /\ n \in Generations
        /\ n = 0 => RetainedOps = OpsOfAll(HistoryOf(streams[Delta(n)]))
        /\ n # 0 => /\ n \in DOMAIN streams[Manifest]
                    /\ RetainedOps = CheckpointOps(streams[Manifest][n].body.checkpoint)
                                        \cup OpsOfAll(HistoryOf(streams[Delta(n)]))
<1> SUFFICES ASSUME Sound
             PROVE  LET n == Len(streams[Manifest]) IN
                    /\ n \in Generations
                    /\ n = 0 => RetainedOps = OpsOfAll(HistoryOf(streams[Delta(n)]))
                    /\ n # 0 =>
                         /\ n \in DOMAIN streams[Manifest]
                         /\ RetainedOps = CheckpointOps(streams[Manifest][n].body.checkpoint)
                                            \cup OpsOfAll(HistoryOf(streams[Delta(n)]))
    OBVIOUS
<1> DEFINE n == Len(streams[Manifest])
<1>1. /\ n \in Nat /\ DOMAIN streams[Manifest] = 1 .. n
      /\ streams[Manifest] = <<>> <=> n = 0
    BY StreamIsLog, StreamNames DEF Sound
<1>2. CASE n = 0
    BY <1>1, <1>2, GenerationNumbers DEF RetainedOps
<1>3. CASE n # 0
    <2>1. n \in DOMAIN streams[Manifest]
        BY <1>1, <1>3
    <2>2. /\ NamesStored(streams[Manifest][n]) /\ streams[Manifest][n].sequence = n - 1
          /\ streams[Manifest][n] \in ManifestRequests
        BY <2>1, StreamIsLog, StreamNames, RequestKinds DEF Sound, ChainInv, ManifestStored
    <2>3. streams[Manifest][n].body.revision = n - 1 /\ n - 1 \in SealedGenerations
          /\ streams[Manifest][n].body.checkpoint.generation = n - 1
        BY <2>2, RevisionIsGeneration DEF NamesStored
    <2>4. n - 1 + 1 = n
        BY <1>1
    <2>5. n \in Generations
        BY <2>3, <2>4, GenerationNumbers
    <2>6. streams[Manifest][n].body.checkpoint.generation + 1 = n
        BY <2>3, <2>4
    <2>7. streams[Manifest] # <<>>
        BY <1>1, <1>3
    <2>8. RetainedOps = CheckpointOps(streams[Manifest][n].body.checkpoint)
                           \cup OpsOfAll(HistoryOf(streams[Delta(n)]))
        BY <2>6, <2>7 DEF RetainedOps, CheckpointOps, Latest
    <2> QED BY <1>3, <2>1, <2>5, <2>8
<1> QED BY <1>2, <1>3

\* The same after a step.
LEMMA RetainedIsAfter ==
    (Sound =>
        LET n == Len(streams[Manifest]) IN
        /\ n \in Generations
        /\ n = 0 => RetainedOps = OpsOfAll(HistoryOf(streams[Delta(n)]))
        /\ n # 0 => /\ n \in DOMAIN streams[Manifest]
                    /\ RetainedOps = CheckpointOps(streams[Manifest][n].body.checkpoint)
                                        \cup OpsOfAll(HistoryOf(streams[Delta(n)])))'
BY RetainedIs, PTL

\* The frames of a delta stay.
LEMMA HistoryGrows ==
    ASSUME TypeOK, Grows, NEW g \in Generations
    PROVE  OpsOfAll(HistoryOf(streams[Delta(g)])) \subseteq OpsOfAll(HistoryOf(streams'[Delta(g)]))
<1>1. \A i \in DOMAIN streams[Delta(g)] :
         i \in DOMAIN streams'[Delta(g)] /\ streams'[Delta(g)][i] = streams[Delta(g)][i]
    BY RecordsStay, StreamNames
<1>2. HistoryOf(streams[Delta(g)]) \subseteq HistoryOf(streams'[Delta(g)])
    BY <1>1 DEF HistoryOf
<1> QED BY <1>2 DEF OpsOfAll

\* What a restart rebuilds, and a checkpoint on its way to the manifest keeps,
\* a restart rebuilds after any step.
LEMMA RetainedStays ==
    ASSUME Sound, Calm, [Next]_vars, NEW u \in RetainedOps,
           \A r \in Unapplied : u \in CheckpointOps(r.body.checkpoint)
    PROVE  u \in RetainedOps'
<1> DEFINE n == Len(streams[Manifest])
           m == Len(streams'[Manifest])
<1>1. n \in Nat /\ m \in Nat /\ n \in Generations
    BY ManifestLength, RetainedIs DEF Sound
<1>2. Sound'
    BY SoundStep
<1>3. /\ m = 0 => RetainedOps' = OpsOfAll(HistoryOf(streams'[Delta(m)]))
      /\ m # 0 => RetainedOps' = CheckpointOps(streams'[Manifest][m].body.checkpoint)
                                    \cup OpsOfAll(HistoryOf(streams'[Delta(m)]))
    BY <1>2, RetainedIsAfter DEF CheckpointOps
<1>4. CASE streams'[Manifest] = streams[Manifest]
    <2>1. OpsOfAll(HistoryOf(streams[Delta(n)])) \subseteq OpsOfAll(HistoryOf(streams'[Delta(n)]))
        BY <1>1, StepGrows, HistoryGrows DEF Sound
    <2> QED BY <1>3, <1>4, <2>1, RetainedIs
<1>5. ASSUME NEW r \in Owed, r \in ManifestRequests, r.sequence = n,
             m = n + 1, streams'[Manifest][n + 1] = r
      PROVE  u \in RetainedOps'
    <2>1. r \in Unapplied
        BY <1>5 DEF Unapplied, ManifestRequests
    <2>2. u \in CheckpointOps(streams'[Manifest][m].body.checkpoint)
        BY <1>5, <2>1
    <2>3. m # 0
        BY <1>1, <1>5
    <2> QED BY <1>3, <2>2, <2>3
<1> QED BY <1>4, <1>5, ManifestGrows DEF Sound

-----------------------------------------------------------------------------
(* What the room holds *)

\* A new frame is added to what the room holds.
LEMMA AcceptedOps ==
    ASSUME Settled, UpdateCommitted \/ UpdateVerified
    PROVE  LiveOps' = LiveOps \cup OpsOfAll(Content[request.body])
<1> DEFINE blobs == Content[request.body]
<1>1. /\ doc' = Visible(doc \cup OpsOfAll(history \cup blobs))
      /\ history' = history \cup blobs
    BY DEF UpdateCommitted, UpdateVerified, Accept, Candidate
<1>2. OpsOfAll(history \cup blobs) = OpsOfAll(history) \cup OpsOfAll(blobs)
    BY DEF OpsOfAll
<1>3. doc \subseteq doc'
    <2>1. Closed(doc)
        BY VisibleIsClosed DEF Settled
    <2> QED BY <1>1, <2>1, ClosedIsVisible
<1>4. doc' \subseteq doc \cup OpsOfAll(history \cup blobs)
    BY <1>1, VisibleIsPart
<1> QED BY <1>1, <1>2, <1>3, <1>4 DEF LiveOps

\* The switch to the next generation drops nothing.
LEMMA SwitchedOps ==
    ASSUME Sound, Switch
    PROVE  LiveOps' = LiveOps
<1>1. /\ doc' = doc /\ history' = checkpoint.pending /\ checkpoint.snapshot = doc
      /\ CheckpointOps(checkpoint) = LiveOps
    BY DEF Switch, RetainedHistory, Sound, ChainInv, RotationLocals, SequenceInv, Retained
<1> QED BY <1>1 DEF LiveOps, CheckpointOps

\* An activation restores what the store retains, and nothing else.
LEMMA RecoveredOps ==
    ASSUME Sound, Calm, [Next]_vars, lifecycle = "recovering", ReplayLegacy \/ ReadDelta,
           lifecycle' = "ready"
    PROVE  LiveOps' = RetainedOps /\ RetainedOps' = RetainedOps /\ Unapplied' = {}
<1> USE DEF Sound, SequenceInv, ProducerInv
<1> DEFINE n == Len(streams[Manifest])
<1>1. /\ streams' = streams /\ Owed = {}
      /\ generation' = n
      /\ ReplayLegacy => generation' = 0
      /\ ReadDelta => /\ n \in DOMAIN streams[Manifest]
                      /\ record = streams[Manifest][n].body
                      /\ ActiveDelta(record) = n
    BY ActivatedGeneration, QuietRecovery
<1>2. Unapplied' = {}
    <2>1. Owed' = {}
        BY DEF ReplayLegacy, ReadDelta, Activated, Return, Phases, OwnOwed, Owed, Sending, storeVars
    <2> QED BY <2>1 DEF Unapplied
<1>3. RetainedOps' = RetainedOps
    BY <1>1 DEF RetainedOps
<1>4. CASE ReplayLegacy
    <2> DEFINE ops == OpsOfAll(HistoryOf(streams[Delta(0)]))
    <2>1. LoadFrom(streams[Delta(0)])
        BY <1>4, ReplayedLog
    <2>2. history' = HistoryOf(streams[Delta(0)]) /\ doc' = Visible(ops)
        BY <2>1 DEF LoadFrom
    <2>3. LiveOps' = ops
        BY <2>2, VisibleIsPart DEF LiveOps
    <2> QED BY <1>1, <1>2, <1>3, <1>4, <2>3, RetainedIs
<1>5. CASE ReadDelta
    <2> DEFINE frames == HistoryOf(streams[Delta(n)])
               retained == checkpoint.pending \cup frames
    <2>1. history' = retained /\ doc' = Visible(checkpoint.snapshot \cup OpsOfAll(retained))
        BY <1>1, <1>5, CalmRead DEF ReadDelta
    <2>2. OpsOfAll(retained) = OpsOfAll(checkpoint.pending) \cup OpsOfAll(frames)
        BY DEF OpsOfAll
    <2>3. checkpoint = streams[Manifest][n].body.checkpoint
        BY <1>1, <1>5 DEF ReadDelta, ChainInv, ActivationLocals
    <2>4. Closed(checkpoint.snapshot)
        <3>1. /\ NamesStored(streams[Manifest][n])
              /\ streams[Manifest][n] \in ManifestRequests
            BY <1>1, <1>5, StreamIsLog, StreamNames, RequestKinds DEF ChainInv, ManifestStored
        <3>2. PICK g \in Generations : g = streams[Manifest][n].body.revision
            BY <3>1, RevisionIsGeneration
        <3>3. Len(streams[Checkpoint(g)]) = 1 /\ streams[Checkpoint(g)][1].body = checkpoint
            BY <2>3, <3>1, <3>2 DEF NamesStored, HoldsOnly
        <3>4. 1 \in DOMAIN streams[Checkpoint(g)]
            BY <3>3, StreamIsLog, StreamNames
        <3> QED BY <3>3, <3>4 DEF ChainInv, CheckpointStored, Freezes
    <2>5. checkpoint.snapshot \subseteq doc'
        BY <2>1, <2>4, ClosedIsVisible
    <2>6. doc' \subseteq checkpoint.snapshot \cup OpsOfAll(retained)
        BY <2>1, VisibleIsPart
    <2>7. LiveOps' = CheckpointOps(checkpoint) \cup OpsOfAll(frames)
        BY <2>1, <2>2, <2>5, <2>6 DEF LiveOps, CheckpointOps
    <2>8. n # 0
        BY <1>1, <1>5, StreamIsLog, StreamNames
    <2> QED BY <1>1, <1>2, <1>3, <1>5, <2>3, <2>7, <2>8, RetainedIs
<1> QED BY <1>4, <1>5

\* So does a reload in a room that never rotates: its one delta is all there is.
LEMMA ReloadedOps ==
    ASSUME Sound, Calm, ReloadsKeepAll, Reload
    PROVE  LiveOps' = RetainedOps /\ RetainedOps' = RetainedOps /\ Unapplied' = {}
<1> USE DEF Sound, SequenceInv, ProducerInv
<1>1. Generations = {0} /\ SealedGenerations = {}
    <2>1. MaxGeneration = 0
        BY DEF Reload, Phases, ReloadsKeepAll
    <2> QED BY <2>1 DEF Generations, SealedGenerations
<1>2. generation = 0 /\ Len(streams[Manifest]) = 0
    BY <1>1, RetainedIs DEF TypeOK, ActorTypeOK
<1>3. RetainedOps = OpsOfAll(HistoryOf(streams[Delta(0)]))
    BY <1>2, RetainedIs
<1>4. /\ streams' = streams /\ Owed' \subseteq Owed
      /\ history' = HistoryOf(streams[Delta(0)])
      /\ doc' = Visible(OpsOfAll(HistoryOf(streams[Delta(0)])))
    BY <1>2, CalmRead DEF Reload, LoadFrom, Return, Owed, Sending, storeVars
<1>5. LiveOps' = OpsOfAll(HistoryOf(streams[Delta(0)]))
    BY <1>4, VisibleIsPart DEF LiveOps
<1>6. RetainedOps' = RetainedOps
    BY <1>4 DEF RetainedOps
<1>7. ASSUME NEW r \in Owed, r.stream = Manifest
      PROVE  FALSE
    <2>1. r.body.checkpoint \in CheckpointRecords
        BY <1>7, OwedTypes, RequestKinds DEF ManifestRequests, ManifestRecords
    <2> QED BY <1>1, <2>1 DEF CheckpointRecords
<1> QED BY <1>3, <1>4, <1>5, <1>6, <1>7 DEF Unapplied

\* A room that is ready before and after a step loses nothing by it.
LEMMA LiveGrows ==
    ASSUME Sound, [Next]_vars, lifecycle = "ready", lifecycle' = "ready"
    PROVE  LiveOps \subseteq LiveOps'
<1>1. CASE UNCHANGED <<doc, history>>
    BY <1>1 DEF LiveOps
<1>2. CASE UpdateCommitted \/ UpdateVerified
    BY <1>2, AcceptedOps DEF Sound, ChainInv
<1>3. CASE Switch
    BY <1>3, SwitchedOps
<1>4. ~Reload
    BY DEF Reload, Sound, SequenceInv, ProducerInv, Phases, Unresolved
<1> QED BY <1>1, <1>2, <1>3, <1>4, WhoIsReady DEF Sound, SequenceInv, ProducerInv

-----------------------------------------------------------------------------
(* What is kept stays kept *)

\* No step drops an operation that was kept, a crash or a rotation included.
LEMMA KeptStep ==
    ASSUME Sound, Calm, ReloadsKeepAll, [Next]_vars
    PROVE  KeptOps \subseteq KeptOps'
<1> USE DEF Sound
<1> SUFFICES ASSUME NEW u \in KeptOps
             PROVE  u \in KeptOps'
    OBVIOUS
<1>1. /\ u \in RetainedOps
      /\ lifecycle = "ready" => u \in LiveOps
      /\ \A r \in Unapplied : u \in CheckpointOps(r.body.checkpoint)
    BY DEF KeptOps
<1>2. u \in RetainedOps'
    BY <1>1, RetainedStays
<1>3. ASSUME lifecycle' = "ready"
      PROVE  u \in LiveOps'
    <2>1. CASE lifecycle = "ready"
        BY <1>1, <1>3, <2>1, LiveGrows
    <2>2. CASE lifecycle = "recovering" /\ (ReplayLegacy \/ ReadDelta)
        BY <1>1, <1>3, <2>2, RecoveredOps
    <2>3. CASE Reload
        BY <1>1, <2>3, ReloadedOps
    <2> QED BY <1>3, <2>1, <2>2, <2>3, WhoIsReady DEF SequenceInv, ProducerInv
<1>4. ASSUME NEW r \in Owed', r.stream = Manifest, r.sequence = Len(streams'[Manifest])
      PROVE  u \in CheckpointOps(r.body.checkpoint)
    <2>1. CASE r \in Owed
        <3>1. r \in ManifestRequests /\ r.sequence \in Nat
            BY <1>4, <2>1, OwedTypes, RequestKinds DEF ManifestRequests
        <3>2. r.sequence <= Len(streams[Manifest])
            BY <1>4, <2>1 DEF SequenceInv, ManifestsOwed
        <3>3. r.sequence = Len(streams[Manifest])
            BY <1>4, <3>1, <3>2, ManifestLength
        <3> QED BY <1>1, <1>4, <2>1, <3>3 DEF Unapplied
    <2>2. ASSUME NEW b \in Batches, r = Frame(b)
          PROVE  FALSE
        BY <1>4, <2>2, StreamNames DEF Frame, Request, TypeOK, ActorTypeOK
    <2>3. CASE r = CheckpointRequest
        BY <1>4, <2>3, StreamNames DEF CheckpointRequest, Request, TypeOK, ActorTypeOK
    <2>4. CASE pc = "publish" /\ r = ManifestRequest
        <3>1. r.body.checkpoint = checkpoint
            BY <2>4 DEF ManifestRequest, Request, ChainInv, RotationLocals, ManifestRecord
        <3>2. lifecycle = "ready" /\ CheckpointOps(checkpoint) = LiveOps
            BY <2>4 DEF SequenceInv, ProducerInv, Phases, Retained
        <3> QED BY <1>1, <3>1, <3>2
    <2> QED BY <2>1, <2>2, <2>3, <2>4, OwedStep
<1> QED BY <1>2, <1>3, <1>4 DEF KeptOps, Unapplied, CheckpointOps

\* The operations of an update are kept once it is accepted.
LEMMA AcceptedIsKept ==
    ASSUME Sound, Calm, [Next]_vars, UpdateCommitted \/ UpdateVerified
    PROVE  OpsOfAll(Content[request.body]) \subseteq KeptOps'
<1> USE DEF Sound, SequenceInv, ProducerInv
<1> DEFINE ops == OpsOfAll(Content[request.body])
<1>1. pc = "append" /\ lifecycle = "ready" /\ lifecycle' = "ready" /\ pc' = "idle"
      /\ generation' = generation
    BY DEF UpdateCommitted, UpdateVerified, Accept, Return, Phases
<1>2. Sound'
    BY SoundStep
<1>3. generation = Len(streams'[Manifest]) /\ generation \in Generations
    BY <1>1, <1>2 DEF ActiveIsOwn, Tracked, TypeOK, ActorTypeOK
<1>4. ops \subseteq OpsOfAll(HistoryOf(streams'[Delta(generation)]))
    <2>1. /\ streams'[Delta(generation)][endOffset + 1] = request
          /\ Len(streams'[Delta(generation)]) = endOffset + 1
        BY <1>1, AcceptedFrame
    <2>2. endOffset + 1 \in DOMAIN streams'[Delta(generation)]
        <3>1. streams'[Delta(generation)] \in Seq(Requests)
            BY <1>2, <1>3, StreamNames DEF TypeOK, StoreTypeOK
        <3>2. endOffset \in Nat
            BY DEF TypeOK, ActorTypeOK
        <3> QED BY <2>1, <3>1, <3>2
    <2>3. Content[request.body] \subseteq HistoryOf(streams'[Delta(generation)])
        BY <2>1, <2>2 DEF HistoryOf
    <2> QED BY <2>3 DEF OpsOfAll
<1>5. ops \subseteq RetainedOps'
    BY <1>2, <1>3, <1>4, RetainedIsAfter
<1>6. ops \subseteq LiveOps'
    BY AcceptedOps DEF ChainInv
<1>7. Unapplied' = {}
    <2>1. ASSUME NEW r \in Owed', r.stream = Manifest
          PROVE  r.sequence # Len(streams'[Manifest])
        <3>1. r.sequence < Len(streams'[Manifest])
            BY <1>1, <1>2, <2>1 DEF ManifestsOwed
        <3>2. Len(streams'[Manifest]) \in Nat
            BY ManifestLength
        <3> QED BY <3>1, <3>2
    <2> QED BY <2>1 DEF Unapplied
<1> QED BY <1>5, <1>6, <1>7 DEF KeptOps

\* Where what a peer was sent changes.
LEMMA WhoHears ==
    ASSUME [Next]_vars, NEW c \in Connections, heard \in [Connections -> SUBSET Updates]
    PROVE  \/ heard'[c] \subseteq heard[c]
           \/ heard'[c] \subseteq heard[c] \cup doc /\ (\E d \in Connections : Join(d))
           \/ /\ UpdateCommitted \/ UpdateVerified
              /\ heard'[c] \subseteq heard[c] \cup OpsOfAll(Content[request.body])
<1>1. CASE Command
    BY <1>1 DEF Command, Join, JoinReply, Leave, Update, RetryAmbiguous, Rotate, GoOn, GiveUp,
                RotationFrame, peerVars
<1>2. CASE UpdateCommitted \/ UpdateVerified
    BY <1>2 DEF UpdateCommitted, UpdateVerified, Accept
<1>3. CASE AppendAgain \/ UpdateUnknown \/ UpdateRejected
    BY <1>3 DEF AppendAgain, UpdateUnknown, UpdateRejected, peerVars
<1>4. CASE RetryResolved \/ RetryUnknown \/ RetryRejected \/ Reload \/ ReloadFails
    BY <1>4 DEF RetryResolved, RetryUnknown, RetryRejected, StayBlocked, Reload,
                ReloadFails, peerVars
<1>5. CASE Persist \/ CheckpointAppended \/ ExactAppendAgain \/ ExactAppendFails
              \/ Prepare \/ Position \/ Publish \/ ManifestAppended
              \/ Switch \/ StoreCallFails
    BY <1>5 DEF Persist, CheckpointAppended, ExactAppendAgain, ExactAppendFails,
                Prepare, Position, Publish, ManifestAppended, Switch, StoreCallFails,
                GoOn, GiveUp, Submit, RotationFrame, peerVars
<1>6. CASE ReadManifest \/ ReplayLegacy \/ ReadCheckpoint \/ ReadDelta \/ ActivationFails
    BY <1>6 DEF ReadManifest, ReplayLegacy, ReadCheckpoint, ReadDelta, ActivationFails,
                Continue, FailActivation, Activated, peerVars
<1>7. CASE LateDelivery \/ Crash \/ UNCHANGED vars
    BY <1>7 DEF LateDelivery, Crash, vars, peerVars
<1> QED BY <1>1, <1>2, <1>3, <1>4, <1>5, <1>6, <1>7 DEF Next, ActorStep

\* Every step keeps what was acknowledged, applied or sent to a peer.
LEMMA AllKeptStep ==
    ASSUME Sound, AllKept, Calm, ReloadsKeepAll, [Next]_vars
    PROVE  AllKept'
<1>1. KeptOps \subseteq KeptOps'
    BY KeptStep
<1>2. UpdateCommitted \/ UpdateVerified => OpsOfAll(Content[request.body]) \subseteq KeptOps'
    BY AcceptedIsKept
<1>3. OpsIn(acked') \subseteq KeptOps'
    <2>1. OpsIn(acked \cup {request.body}) = OpsIn(acked) \cup OpsOfAll(Content[request.body])
        BY DEF OpsIn, OpsOfAll
    <2> QED BY <1>1, <1>2, <2>1, WhoAcks DEF AllKept
<1>4. LiveOps' \subseteq KeptOps'
    <2>1. CASE UNCHANGED <<doc, history>>
        BY <1>1, <2>1 DEF AllKept, LiveOps
    <2>2. CASE UpdateCommitted \/ UpdateVerified
        BY <1>1, <1>2, <2>2, AcceptedOps DEF AllKept, Sound, ChainInv
    <2>3. CASE Switch
        BY <1>1, <2>3, SwitchedOps DEF AllKept
    <2>4. CASE ReplayLegacy \/ ReadDelta
        <3>1. lifecycle = "recovering"
            BY <2>4 DEF Sound, SequenceInv, ProducerInv, Phases, ReplayLegacy, ReadDelta
        <3>2. UNCHANGED <<doc, history>> \/ lifecycle' = "ready"
            BY <2>4 DEF ReplayLegacy, ReadDelta, Activated
        <3> QED BY <2>1, <2>4, <3>1, <3>2, RecoveredOps DEF KeptOps
    <2>5. CASE Crash
        BY <2>5 DEF Crash, LiveOps, OpsOfAll
    <2>6. CASE Reload
        BY <2>6, ReloadedOps DEF KeptOps
    <2> QED BY <2>1, <2>2, <2>3, <2>4, <2>5, <2>6, WhoChangesTheRoom
<1>5. ASSUME NEW c \in Connections
      PROVE  heard'[c] \subseteq KeptOps'
    <2>1. heard[c] \subseteq KeptOps' /\ doc \subseteq KeptOps'
        BY <1>1 DEF AllKept, LiveOps
    <2> QED BY <1>2, <2>1, WhoHears DEF Sound, TypeOK, ActorTypeOK, SequenceInv
<1> QED BY <1>3, <1>4, <1>5 DEF AllKept, OpsIn

\* At the start there is nothing to keep.
LEMMA AllKeptInit ==
    ASSUME Init
    PROVE  AllKept
<1>1. OpsIn(acked) = {} /\ LiveOps = {} /\ \A c \in Connections : heard[c] = {}
    BY DEF Init, OpsIn, LiveOps, OpsOfAll
<1> QED BY <1>1 DEF AllKept

-----------------------------------------------------------------------------
(* The theorems about what is kept *)

\* What anybody was told or shown is kept.
THEOREM AllIsKept ==
    ASSUME Calm, ReloadsKeepAll
    PROVE  Spec => [](Sound /\ AllKept)
<1>1. Init => AllKept
    BY AllKeptInit
<1>2. Sound /\ AllKept /\ [Next]_vars => AllKept'
    BY AllKeptStep
<1>3. Spec => []Sound
    BY TypeCorrect, ChainHolds, SequenceHolds, PTL DEF Sound
<1> QED BY <1>1, <1>2, <1>3, PTL DEF Spec

\* Every acknowledged operation is in what a restart rebuilds, whatever answers
\* were lost, appends repeated, rotations cut short and processes restarted:
\* rotation never moves the manifest past an update it did not keep
\* (rotate_room, build_checkpoint_record, recover_from_manifest).
THEOREM AckedIsRecoverable ==
    ASSUME Calm, ReloadsKeepAll
    PROVE  Spec => []AckedRecoverable
<1>1. AllKept => AckedRecoverable
    BY DEF AllKept, KeptOps, AckedRecoverable
<1> QED BY <1>1, AllIsKept, PTL

\* Neither the document nor anything a peer was sent holds an operation that a
\* crash now would lose: an update is broadcast after its append is proved
\* durable, never before (actor.rs).
THEOREM SharedIsDurable ==
    ASSUME Calm, ReloadsKeepAll
    PROVE  Spec => []OnlyDurableIsShared
<1>1. AllKept => OnlyDurableIsShared
    BY DEF AllKept, KeptOps, OnlyDurableIsShared
<1> QED BY <1>1, AllIsKept, PTL

\* A room that answers joins holds every operation it ever acknowledged, also
\* after a restart or a switch that dropped its history (Switch, ReadDelta).
THEOREM ReadyHasAcked ==
    ASSUME Calm, ReloadsKeepAll
    PROVE  Spec => []ReadyServesAcked
<1>1. AllKept => ReadyServesAcked
    BY DEF AllKept, KeptOps, ReadyServesAcked
<1> QED BY <1>1, AllIsKept, PTL

-----------------------------------------------------------------------------
(* The refinement of the durable room *)

\* The history variable is kept, and covers what the present peers were sent.
ShownKept ==
    /\ shown \subseteq KeptOps
    /\ \A c \in Connections : heard[c] \subseteq shown

\* A step into or out of service shows and acknowledges nothing new.
LEMMA NothingNewWhileClosed ==
    ASSUME Sound, ShownKept, [Next]_vars, Show, lifecycle # "ready" \/ lifecycle' # "ready"
    PROVE  shown' = shown /\ acked' = acked
<1>1. ~(UpdateCommitted \/ UpdateVerified)
    BY DEF UpdateCommitted, UpdateVerified, Accept, Sound, SequenceInv, ProducerInv, Phases
<1>2. ~(\E d \in Connections : Join(d))
    BY DEF Join
<1>3. \A c \in Connections : heard'[c] \subseteq heard[c]
    BY <1>1, <1>2, WhoHears DEF Sound, TypeOK, ActorTypeOK, SequenceInv
<1>4. shown' = shown
    BY <1>3 DEF Show, ShownKept
<1> QED BY <1>1, <1>4, WhoAcks

\* What a step shows or acknowledges is in the room after it.
LEMMA ShownIsLive ==
    ASSUME Sound, ShownKept, Calm, [Next]_vars, Show,
           lifecycle = "ready", lifecycle' = "ready"
    PROVE  /\ shown \subseteq shown' /\ shown' \subseteq shown \cup LiveOps'
           /\ OpsIn(acked) \subseteq OpsIn(acked')
           /\ OpsIn(acked') \subseteq OpsIn(acked) \cup LiveOps'
<1>1. UpdateCommitted \/ UpdateVerified => OpsOfAll(Content[request.body]) \subseteq LiveOps'
    BY AcceptedOps DEF Sound, ChainInv
<1>2. LiveOps \subseteq LiveOps'
    BY LiveGrows
<1>3. doc \subseteq LiveOps'
    BY <1>2 DEF LiveOps
<1>4. \A c \in Connections : heard'[c] \subseteq shown \cup LiveOps'
    <2> TAKE c \in Connections
    <2>1. heard[c] \subseteq shown
        BY DEF ShownKept
    <2> QED BY <1>1, <1>3, <2>1, WhoHears DEF Sound, TypeOK, ActorTypeOK, SequenceInv
<1>5. shown \subseteq shown' /\ shown' \subseteq shown \cup LiveOps'
    BY <1>4 DEF Show
<1>6. OpsIn(acked \cup {request.body}) = OpsIn(acked) \cup OpsOfAll(Content[request.body])
    BY DEF OpsIn, OpsOfAll
<1> QED BY <1>1, <1>5, <1>6, WhoAcks

\* The history variable holds only what is kept.
LEMMA ShownStep ==
    ASSUME Sound, AllKept, ShownKept, Calm, ReloadsKeepAll, [Next]_vars, Show
    PROVE  ShownKept'
<1>1. shown \subseteq KeptOps'
    BY KeptStep DEF ShownKept
<1>2. \A c \in Connections : heard'[c] \subseteq KeptOps'
    BY AllKeptStep DEF AllKept
<1>3. shown' \subseteq KeptOps'
    BY <1>1, <1>2 DEF Show
<1>4. \A c \in Connections : heard'[c] \subseteq shown'
    BY DEF Show
<1> QED BY <1>3, <1>4 DEF ShownKept

\* The content of an open room is a set of operations.
LEMMA LiveIsOps ==
    TypeOK => LiveOps \subseteq Updates /\ LiveOps # None
<1> SUFFICES ASSUME TypeOK
             PROVE  LiveOps \subseteq Updates /\ LiveOps # None
    OBVIOUS
<1>1. LiveOps \subseteq Updates
    BY OpsOfBlobs DEF TypeOK, ActorTypeOK, LiveOps
<1> QED BY <1>1, PromiseAssumption

\* The same after a step.
LEMMA LiveIsOpsAfter ==
    (TypeOK => LiveOps \subseteq Updates /\ LiveOps # None)'
BY LiveIsOps, PTL

\* Every step of the gateway is a step of the durable room, or none.
LEMMA PromiseStep ==
    ASSUME Sound, AllKept, ShownKept, Calm, ReloadsKeepAll, [HNext]_hvars
    PROVE  [Room!Next]_<<shown \cup OpsIn(acked), IF lifecycle = "ready" THEN LiveOps ELSE None>>
<1> DEFINE promised == shown \cup OpsIn(acked)
           content == IF lifecycle = "ready" THEN LiveOps ELSE None
<1>1. CASE UNCHANGED hvars
    <2>1. UNCHANGED <<shown, acked, lifecycle, doc, history>>
        BY <1>1 DEF hvars, vars, docVars
    <2> QED BY <2>1 DEF OpsIn, LiveOps
<1>2. CASE HNext
    <2>1. [Next]_vars /\ Show
        BY <1>2 DEF HNext
    <2>2. Sound'
        BY <2>1, SoundStep
    <2>3. LiveOps' \subseteq Updates /\ LiveOps' # None /\ LiveOps # None
        BY <2>2, LiveIsOps, LiveIsOpsAfter DEF Sound
    <2>4. CASE lifecycle' # "ready"
        <3>1. promised' = promised
            BY <2>1, <2>4, NothingNewWhileClosed DEF OpsIn
        <3>2. content' = None
            BY <2>4
        <3> QED BY <3>1, <3>2 DEF Room!Next, Room!Close
    <2>5. CASE lifecycle # "ready" /\ lifecycle' = "ready"
        <3>1. promised' = promised
            BY <2>1, <2>5, NothingNewWhileClosed DEF OpsIn
        <3>2. content = None /\ content' = LiveOps'
            BY <2>5
        <3>3. promised \subseteq KeptOps'
            BY <2>1, KeptStep DEF AllKept, ShownKept
        <3>4. KeptOps' \subseteq LiveOps'
            BY <2>5 DEF KeptOps
        <3> QED BY <2>3, <3>1, <3>2, <3>3, <3>4 DEF Room!Next, Room!Open
    <2>6. CASE lifecycle = "ready" /\ lifecycle' = "ready"
        <3>1. content = LiveOps /\ content' = LiveOps'
            BY <2>6
        <3>2. LiveOps \subseteq LiveOps'
            BY <2>1, <2>6, LiveGrows
        <3>3. /\ shown \subseteq shown' /\ shown' \subseteq shown \cup LiveOps'
              /\ OpsIn(acked) \subseteq OpsIn(acked')
              /\ OpsIn(acked') \subseteq OpsIn(acked) \cup LiveOps'
            BY <2>1, <2>6, ShownIsLive
        <3>4. OpsIn(acked)' = OpsIn(acked')
            BY DEF OpsIn
        <3>5. promised \subseteq promised' /\ promised' \subseteq promised \cup content'
            BY <3>1, <3>3, <3>4
        <3> QED BY <2>3, <3>1, <3>2, <3>5 DEF Room!Next, Room!Extend
    <2> QED BY <2>4, <2>5, <2>6
<1> QED BY <1>1, <1>2

\* The gateway implements the durable room: through lost answers, rotations and
\* restarts, a room that opens holds everything any client was ever acknowledged
\* or sent, and an open room loses none of it (actor.rs, rotation.rs, recovery.rs).
THEOREM GatewayImplementsDurableRoom ==
    ASSUME Calm, ReloadsKeepAll
    PROVE  HSpec => ImplementsDurableRoom
<1>1. HInit => ShownKept
    BY DEF HInit, Init, ShownKept
<1>2. HInit => Room!Init
    BY DEF HInit, Init, Room!Init, OpsIn, OpsOfAll
<1>3. HSpec => Spec
    <2>1. HInit => Init
        BY DEF HInit
    <2>2. [HNext]_hvars => [Next]_vars
        BY DEF HNext, hvars
    <2> QED BY <2>1, <2>2, PTL DEF HSpec, Spec
<1>4. Sound /\ AllKept /\ ShownKept /\ [HNext]_hvars => ShownKept'
    <2> SUFFICES ASSUME Sound, AllKept, ShownKept, [HNext]_hvars
                 PROVE  ShownKept'
        OBVIOUS
    <2>1. CASE HNext
        BY <2>1, ShownStep DEF HNext
    <2>2. CASE UNCHANGED hvars
        <3>1. UNCHANGED vars /\ shown' = shown /\ heard' = heard
            BY <2>2 DEF hvars, vars, peerVars
        <3>2. KeptOps \subseteq KeptOps'
            BY <3>1, KeptStep
        <3> QED BY <3>1, <3>2 DEF ShownKept
    <2> QED BY <2>1, <2>2
<1>5. Sound /\ AllKept /\ ShownKept /\ [HNext]_hvars
        => [Room!Next]_<<shown \cup OpsIn(acked),
                         IF lifecycle = "ready" THEN LiveOps ELSE None>>
    BY PromiseStep
<1>6. HSpec => [](Sound /\ AllKept)
    BY <1>3, AllIsKept, PTL
<1> QED BY <1>1, <1>2, <1>4, <1>5, <1>6, PTL DEF HSpec, ImplementsDurableRoom, Room!Spec
=============================================================================
