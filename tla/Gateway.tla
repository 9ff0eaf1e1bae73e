------------------------------ MODULE Gateway -------------------------------
(***************************************************************************)
(* One room of the gateway from end to end: clients, the actor, rotation,  *)
(* crash and recovery, over the Ursula store.                              *)
(***************************************************************************)
EXTENDS Recovery

vars == <<storeVars, boot, pc, lifecycle, generation, docVars, peerVars,
          blocked, appendVars, acked, controlVars>>

Init ==
    /\ UrsulaInit
    /\ boot = 1 /\ pc = "readManifest" /\ lifecycle = "recovering"
    /\ generation = 0 /\ producerSequence = 0 /\ endOffset = 0
    /\ doc = {} /\ history = {}
    /\ peers = {} /\ heard = [c \in Connections |-> {}]
    /\ blocked = None /\ request = None /\ attempts = 0
    /\ acked = {}
    /\ checkpoint = None /\ record = None

\* The room's command queue: joins and leaves end at once, the other commands
\* go on in the steps below.
Command ==
    \/ \E c \in Connections : Join(c)
    \/ \E c \in Connections : Leave(c)
    \/ \E c \in Connections, b \in Batches : Update(c, b)
    \/ RetryAmbiguous
    \/ Rotate

\* The actor goes on with the command it has begun.
ActorStep ==
    \/ UpdateCommitted \/ UpdateVerified \/ AppendAgain
    \/ UpdateUnknown \/ UpdateRejected
    \/ RetryResolved \/ RetryUnknown \/ RetryRejected
    \/ Reload \/ ReloadFails
    \/ Persist \/ CheckpointAppended \/ ExactAppendAgain \/ ExactAppendFails
    \/ Prepare \/ Position \/ Publish \/ ManifestAppended
    \/ Switch \/ StoreCallFails
    \/ ReadManifest \/ ReplayLegacy \/ ReadCheckpoint \/ ReadDelta
    \/ ActivationFails

\* The network delivers a request nobody waits for any more.
LateDelivery ==
    /\ \E r \in inflight : Deliver(r)
    /\ UNCHANGED <<boot, pc, lifecycle, generation, docVars, peerVars, blocked,
                   appendVars, acked, controlVars>>

Next == Command \/ ActorStep \/ LateDelivery \/ Crash

Spec == Init /\ [][Next]_vars

\* Every await of the actor ends: reads and appends have timeouts and a bounded
\* number of retries (HttpUrsulaConfig, ambiguous_retries).
FairSpec == Spec /\ WF_vars(ActorStep)

-----------------------------------------------------------------------------
(* Types *)

DeltaStreams == {Delta(g) : g \in Generations}
DeltaRequests == [stream : DeltaStreams, producer : Producers, sequence : Nat,
                  body : Batches]
\* Only a generation that is not the last one is ever sealed by a checkpoint.
SealedGenerations == {g \in Generations : g < MaxGeneration}
CheckpointRecords == [generation : SealedGenerations, endOffset : Nat,
                      snapshot : SUBSET Updates, pending : SUBSET Blobs]
CheckpointRequests == [stream : {Checkpoint(g) : g \in Generations},
                       producer : Producers, sequence : {0},
                       body : CheckpointRecords]
ManifestRecords == [revision : Nat, checkpoint : CheckpointRecords]
ManifestRequests == [stream : {Manifest}, producer : Producers, sequence : Nat, body : ManifestRecords]
Requests == DeltaRequests \cup CheckpointRequests \cup ManifestRequests

Lifecycles == {"recovering", "ready", "append_ambiguous", "corrupt", "unavailable"}
UpdatePoints == {"append", "retry", "reload"}
RotationPoints == {"persist", "appendCheckpoint", "prepare", "position",
                   "publish", "appendManifest", "switch"}
RecoveryPoints == {"readManifest", "replay", "readCheckpoint", "readDelta"}
ProgramPoints ==
    {"idle"} \cup UpdatePoints \cup RotationPoints \cup RecoveryPoints

\* Where each local of a command is in use.
AppendPoints == UpdatePoints \cup {"appendCheckpoint", "appendManifest"}
CheckpointPoints == RotationPoints \cup {"readDelta"}
RecordPoints == {"publish", "appendManifest", "switch", "readCheckpoint", "readDelta"}

\* The store's half: every stream holds requests that were sent to it.
StoreTypeOK ==
    /\ streams \in [Streams -> Seq(Requests)]
    /\ \A s \in Streams : \A i \in DOMAIN streams[s] : streams[s][i].stream = s
    /\ inflight \subseteq Requests

\* The actor's half: what each variable holds, and which of the locals of a
\* command are in use at each of its awaits.
ActorTypeOK ==
    /\ boot \in Boots /\ pc \in ProgramPoints /\ lifecycle \in Lifecycles
    /\ generation \in Generations
    /\ producerSequence \in Nat /\ endOffset \in Nat /\ attempts \in Nat
    /\ doc \subseteq Updates /\ history \subseteq Blobs
    /\ peers \subseteq Connections /\ heard \in [Connections -> SUBSET Updates]
    /\ blocked \in DeltaRequests \cup {None}
    /\ acked \subseteq Batches
    /\ pc \in UpdatePoints => request \in DeltaRequests
    /\ pc = "appendCheckpoint" => request \in CheckpointRequests
    /\ pc = "appendManifest" => request \in ManifestRequests
    /\ pc \notin AppendPoints => request = None
    /\ pc \in CheckpointPoints => checkpoint \in CheckpointRecords
    /\ pc \notin CheckpointPoints => checkpoint = None
    /\ pc \in RecordPoints => record \in ManifestRecords
    /\ pc \notin RecordPoints => record = None
    /\ pc \in RotationPoints => generation < MaxGeneration

\* TypeOK: streams hold only requests addressed to them, and the actor's locals
\* exist exactly at the awaits that use them (actor.rs, rotation.rs, recovery.rs).
TypeOK == StoreTypeOK /\ ActorTypeOK

-----------------------------------------------------------------------------
(* Views of the store *)

\* What a restart would rebuild from: the latest checkpoint and its active delta.
RetainedOps ==
    LET log == streams[Manifest]
        base == Latest(log).checkpoint IN
    IF log = <<>> THEN OpsOfAll(HistoryOf(streams[Delta(0)]))
    ELSE base.snapshot \cup OpsOfAll(base.pending)
            \cup OpsOfAll(HistoryOf(streams[Delta(base.generation + 1)]))

OpsIn(batches) == OpsOfAll(UNION {Content[b] : b \in batches})

StoredBatches == UNION {{streams[Delta(g)][i].body : i \in DOMAIN streams[Delta(g)]}
                            : g \in Generations}

\* What the room holds in memory, pending blobs included.
LiveOps == doc \cup OpsOfAll(history)

-----------------------------------------------------------------------------
(* Safety *)

\* Ack(Ok) is sent only for a batch that some delta stream holds, whatever was
\* lost, repeated or restarted in between (resolve_append, actor.rs).
AckedInLog == acked \subseteq StoredBatches

\* Every acknowledged operation is in what a restart rebuilds: rotation never
\* moves the manifest past an update it did not keep (rotation.rs, recovery.rs).
AckedRecoverable == OpsIn(acked) \subseteq RetainedOps

\* A room that answers joins holds every acknowledged operation, visible or
\* pending (Switch drops the history, Reload and recovery replace it).
ReadyServesAcked ==
    lifecycle = "ready" => OpsIn(acked) \subseteq LiveOps

\* Neither the document nor what any peer was sent holds an operation that a
\* crash now would lose: the broadcast comes after the append (actor.rs:811).
OnlyDurableIsShared ==
    /\ LiveOps \subseteq RetainedOps
    /\ \A c \in Connections : heard[c] \subseteq RetainedOps

\* A delta generation the manifest has not activated is empty: the switch comes
\* after the manifest append, and a crash between them loses no order.
NextGenerationUntouched ==
    \A g \in Generations : g > Len(streams[Manifest]) => streams[Delta(g)] = <<>>

\* Each manifest record names its generation's checkpoint, whole and alone in
\* its stream, and the chain has no gap (checkpoint before manifest).
ManifestNamesStoredCheckpoint ==
    \A i \in DOMAIN streams[Manifest] :
        LET m == streams[Manifest][i].body IN
        /\ m.revision = i - 1
        /\ m.checkpoint.generation = i - 1
        /\ HoldsOnly(streams[Checkpoint(i - 1)], m.checkpoint)

\* A published checkpoint holds every frame its source range says it covers.
CheckpointCoversItsRange ==
    \A i \in DOMAIN streams[Manifest] :
        LET cp == streams[Manifest][i].body.checkpoint
            source == SubSeq(streams[Delta(cp.generation)], 1, cp.endOffset) IN
        OpsOfAll(HistoryOf(source)) \subseteq cp.snapshot \cup OpsOfAll(cp.pending)

\* The store has seen the sequences below the actor's next one, and at most one
\* more: ids and sequences are never reused, none is skipped, and one append at
\* a time is unresolved (update and retry_pending, producer_id_for_generation).
SequenceTracksStore ==
    lifecycle = "ready" =>
        LET r == Request(Delta(generation), DeltaProducer(boot, generation),
                         producerSequence, None) IN
        \/ SequencesOf(r) = 0 .. producerSequence - 1
        \/ SequencesOf(r) = 0 .. producerSequence

\* Behind a frame of another process a full snapshot cannot be replayed.
SnapshotBehindStranger(log) ==
    \E i \in DOMAIN log :
        /\ Content[log[i].body] \cap Snapshots # {}
        /\ \E j \in 1 .. i - 1 : log[j].producer # log[i].producer

\* A room becomes corrupt only while it reads a stream that outgrew the reader's
\* limit, which no append looks at, or a delta where a request of a dead process
\* went before a full snapshot; the room's own manifest, checkpoint and frames
\* never refuse each other (initialization_store_failure, load_from_store,
\* manifest_recovery_failure).
CorruptHasCause ==
    [][lifecycle # "corrupt" /\ lifecycle' = "corrupt" =>
          \/ OverLimit(BeingRead, streams[BeingRead])
          \/ /\ Orphans
             /\ \E g \in Generations :
                   BeingRead = Delta(g) /\ SnapshotBehindStranger(streams[Delta(g)])]_vars

\* The document at rest is what replaying the retained blobs over it gives, and
\* nothing in it waits for a missing operation (build_candidate).
DocumentSettled ==
    lifecycle = "ready" => doc = Visible(LiveOps)

\* An ack is granted only by an actor that writes the manifest's active delta:
\* a sealed generation takes no acknowledged update (BOUNDED_RECOVERY.md:280).
AcksGoToActiveGeneration ==
    [][acked' # acked => generation = Len(streams[Manifest])]_vars

\* A peer of an idle ready room was sent everything the document shows.
JoinedPeersConverge ==
    Idle /\ lifecycle = "ready" =>
        \A c \in peers : doc \subseteq Visible(heard[c])

\* At rest the actor's next sequence is the one the store expects from it.
SequenceAgrees ==
    Idle /\ lifecycle = "ready" =>
        LET r == Request(Delta(generation), DeltaProducer(boot, generation),
                         producerSequence, None) IN ~Known(r)

\* A full snapshot only initialises a room that holds nothing (DESIGN.md:84).
SnapshotsOnlyInitialise ==
    [][\A c \in Connections, b \in Batches :
          Update(c, b) /\ Content[b] \cap Snapshots # {} => doc = {}]_vars

\* A stored checkpoint the manifest does not name yet can still be finished: it
\* is what the ready actor of that generation would write (persist_checkpoint).
CheckpointReusable ==
    Idle /\ lifecycle = "ready" /\ streams[Checkpoint(generation)] # <<>> =>
        HoldsOnly(streams[Checkpoint(generation)], BuildCheckpoint)

-----------------------------------------------------------------------------
(* Liveness *)

\* A command the actor has taken is always finished, so the queue behind it
\* moves: no await is repeated without bound.
HandlerReturns == pc # "idle" ~> pc = "idle"
=============================================================================
