# Formal model of quorum-loro-gateway

The gateway terminates the Loro WebSocket protocol, keeps one CRDT document per
room in memory and acknowledges an update only when the Ursula log holds it.
These modules model what stands between an `Ack(Ok)` and the document a client
finds later: the message and its limits, the reassembly of fragmented updates,
the queue of the room, the append and its lost answers, the HTTP requests under
it, the rotation of a room to a new generation, the bytes it stores, and the
recovery after a crash.

Paths below are relative to `src/` (the repository).

## 1. Inventory

| Part | State it keeps | Operations | Talks to |
|---|---|---|---|
| `src/server.rs` connection task | joined rooms, fragment buffers with deadlines | join, leave, update, header, fragment, expiry, close | `RoomHandle` (queue), writer task |
| `src/actor.rs` `RoomManager` | map room → handle, boot id | `room`, `retry_ambiguous`, statuses | creates actors |
| `src/actor.rs` `RoomActor` | lifecycle, document, retained history, peers, generation, stream, producer id and sequence, end offset, blocked append | activate, join, leave, update, retry, rotate | store, peers |
| `src/rotation.rs`, `checkpoint_store.rs`, `manifest_store.rs`, `exact_append.rs` | none of their own | freeze the document, persist the checkpoint, prepare the next delta, advance the manifest | store |
| `src/recovery.rs` | none of its own | manifest → checkpoint → active delta | store |
| `src/manifest.rs`, `checkpoint.rs`, `frame.rs`, `protocol.rs` | none (byte formats, chain rules, limits) | encode, decode, validate | |
| `src/names.rs` | none | stream names, producer ids | |
| `src/ursula.rs` | HTTP client, peer URLs | append, window reads, redirects, retries of safe requests | Ursula service |
| `src/main.rs` | none | configuration | |

**Interactions.** A connection hands whole updates to the room's actor through a
bounded queue. The actor finishes a command before it takes the next, but inside
a command it awaits the store many times; between two awaits the store, the
network, other processes' late requests and a crash can act. The store is the
only thing that outlives a process. Peers are reached through unbounded channels.

**What is hard.**

* An append's answer can be lost, the request can be applied later, and a
  duplicate answer speaks of the producer tuple and not of the bytes.
* A rotation is three durable writes (checkpoint, manifest, and the first frame
  of the new delta) with a crash possible between any two.
* Updates whose dependencies are missing are pending. They are in no snapshot,
  and have to travel beside it.
* The memory of an actor and the store are related by `producer_sequence`,
  `active_delta_end_offset`, `history` and the generation. Each of the four
  commands that replace the document must keep them in step.
* Recovery reads three streams at three moments, possibly from followers.
* A client may send fragments in any order, twice, contradictory, or never.

**What makes the parts correct.** The log holds what was acknowledged; a
restart rebuilds it; a ready room serves it; nothing undurable is shown to a
peer; a manifest names only complete checkpoints; acks go to the active
generation; sequences are not reused; commands end; a connection's buffers are
bounded, end, and hand over exactly what was sent; a closed connection is
forgotten and its task ends; a call of the store returns, acts at most once and
says what it did; a record that was stored can be read, and bytes nobody stored
are refused; a length prefix takes no walk over a message out of it.

## 2. Modules

```
LoroDocs   Names
    \        |
     \    Ursula
      \    /
     RoomActor        client commands, append loop, operator's retry
         |
      Rotation        Rotate, checkpoint, manifest, switch
         |
      Recovery        activation, crash
         |
      Gateway         Init, Next, specifications, properties
     /   |   \   \
    /    |    \   GatewayProofs, and the proofs built on it
   /     |     \
  /   Rooms   GatewayPromise --- implements ---> DurableRoom
 /       |         |
MCGateway MCRooms MCPromise

Ursula --- UrsulaHttp --- implements ---> UrsulaCalls
               |
          MCUrsulaHttp

Connection --- MCConnection

GatewayProofs
   |      \
   |    RoomsProofs        + Rooms
ChainProofs                every environment
   |
SequenceProofs             + GatewayPromise; first every environment, then one
                           process at a time and reads of the tail

ConnectionProofs (Connection)   HttpProofs (UrsulaHttp)

RecordProofs (Codecs)
   |
CodecProofs

Records   ProtocolReader
      \   /
      Codecs --- MCCodecs
```

**LoroDocs** (external library). An operation is named by the update blob that
carries it; a document is a causally closed set of operations; `Visible(S)` is
the document after importing `S`. A full snapshot is a blob with several
operations. This is all the gateway's logic distinguishes about a document:
what is visible, what is pending, what an export contains.

**Names**. Streams and producers are tuples. A hash is injective, and the room
is left out because every model has one room.

**Ursula** (the `UrsulaStore` trait). `streams` holds the requests that were
appended, `inflight` those whose answer the gateway gave up and that may still
be applied. `Commits`, `Deduplicates`, `Lost` and `Rejects` are the outcomes of
`AppendOutcome` and `StoreError`. One record is one unit of offset: an end
offset is a length. A rejected *attempt* writes nothing.

**RoomActor**. `pc` is the await the actor is at. `Update` covers the
validation of `update` up to the first append; `UpdateCommitted`,
`UpdateVerified`, `UpdateUnknown`, `UpdateRejected` and `AppendAgain` are the
ways `resolve_append` goes on and the arm of `update` that follows.
`RetryAmbiguous`, `Retry*`, `Reload` and `ReloadFails` are `retry_pending` with
`load_from_store`. A command that is only answered with an error is a stutter.
A read hands over what is `Readable`; `Refused` is `StoreError::Integrity`, a
stream over `max_stream_bytes` or an answer that breaks the read protocol. Which
of the two a failed read was decides between `corrupt` and `unavailable`.
`LoadCorrupt` has the ways `load_from_store` ends corrupt: `read_all` refuses the
delta, the decoder's own limit does, or the replay does.

**Rotation**. One action per store call of `rotate_room`. A digest stands for
the content it is a digest of, so a manifest record contains the checkpoint it
names. The predecessor digest is left out because the manifest stream is
append-only, which gives a record of one revision one possible predecessor. The
exported snapshot is a function of the document, so that the same document has
the same checkpoint bytes.

**Recovery**. `ReadManifest`, `ReadCheckpoint`, `ReadDelta` are the three reads
of `recover_from_manifest`; `ReplayLegacy` is the fallback of `initialize`;
`ActivationFails` is a failed read: the room is corrupt when the stream
(`BeingRead`) was refused, unavailable otherwise. `Crash` ends the process
anywhere and starts another with a new boot id. A
process starts with the actor about to activate, because its first client
creates it.

**Connection**. The loop of one connection: `Expire` at its top, then one
message, a quiet poll interval, or the close. `Tick` is the clock. `offered` is
a history variable, the fragments a client sent since the header; `answers` and
`handed` are what the last step sent. A sum of sizes is the number of the bytes
that have these sizes (`ByteCount`): the same number as the code's fold over the
batches, in a form that can be reasoned about without induction.

**DurableRoom** and **GatewayPromise**. What a room promises without any of the
machinery: `promised` is everything acknowledged or shown to anybody, `content`
the open room or `Shut`. `GatewayPromise` adds to `Gateway` a history of what
was ever shown (a process forgets its peers) and maps `content` to the document
and pending updates of a ready room. A restart may add an update whose outcome
nobody was told; it may not take one away.

**Rooms**. What stands before one actor: `RoomManager`'s map (`spawned`), the
bounded queue, and the task of each connection from `open` over `closing` (it
sends the leaves) and `draining` (it waits for its writer) to `ended`. `Take*`
are the arms of `run`, `reject_unavailable` included; `Work` is a step of the
actor inside a command. A writer ends when no sender of its channel is left, so
`SenderHeld` counts peers, queued commands and the update under way. A command
the room answers with an error changes nothing but the queue.

**UrsulaCalls** and **UrsulaHttp**. `UrsulaCalls` is the `UrsulaStore` trait
with its effects, one call at a time: the outcomes of `Ursula` and the answers
that go with them. `UrsulaHttp` is `HttpUrsula`: one request and its response
per step, with redirects (`Followable`), safe retries (`TryAgain`), windows
(`ReadGoesOn`, `RangeGoesOn`) and the two requests of `ensure_stream`. The
cluster is external and seen through its answers: a node that redirects or
answers with a client error has not applied the request, a window holds bytes
of the committed stream, and a node asked for an offset it has not reached
refuses. An append that reaches no node is one that stays in flight for ever,
which is why `Gateway` gets by with `Lost`.

**Records**. The byte formats of frames, checkpoints and manifests as sequences
of cells, one for each field, sum or payload byte, so that lengths, limits and
positions are those of the code up to the width of a field. SHA-256 and CRC-32
are injective. `Encode*`, `*Encodes` and `Decode*` are the codecs; the machine
writes a stream, may damage one cell or lose the end, and reads it with
`decode_all_with_limits`, `decode_exact` or `decode_manifest_stream`.

**ProtocolReader**. `precheck` as a walk: `todo` is the rest of the message's
layout, `number` the variable-length number being read, `updates_bytes` the
running sum; `updates` is a history of where in the message the updates are.
Bytes are chosen when they are read. The word has 5 bits and a group 2, in the proportion of 64 and 7
that matters: the last group has room for one bit. **Codecs** puts the two side
by side for one run; they share nothing.

Operators commented "Variant, for the mutation runs" are plausible mistakes in
the definition after them. They are used by no specification.

### Environment of Gateway

Six constants say what the environment does. A property is checked under the
strongest one it survives.

| Constant | Meaning |
|---|---|
| `Orphans` | a request of a dead process may still be applied |
| `StaleReads` | `read_all` may return any prefix of the stream |
| `OperatorRetries` | somebody calls `retry_ambiguous` (no HTTP route of `server.rs` does) |
| `AmbiguousRetries` | the budget of `ActorConfig`, a small number here |
| `StreamLimit` | `max_stream_bytes`, counted in records and given for each stream, because records differ in size: `WideLimit` is never reached, `NarrowLimit` is passed by the third frame of a delta and by the second of the last generation |
| `BadWindows` | an answer to a read may break the protocol: an empty window before the end, a wrong offset |

## 3. Runs

Bounds of the gateway: `MaxGeneration` rotations, `MaxBoots` processes,
`MaxFrames` frames per delta stream, two updates of which the second depends on
the first, one full snapshot that contains the first. Two updates are enough
because a pending update needs one missing dependency. Two boots are enough for
one process's leftovers to meet its successor; `chain` has three, so that a
successor rotates what a successor rotated. `restarts` has the narrow limit, the
other runs the wide one.

| Run | Instance | Properties | Shows |
|---|---|---|---|
| `restarts` | 2 connections, independent updates, 1 rotation, 2 boots, 1 retry, narrow limit | `OnlyDurableIsShared` `SequenceTracksStore` `JoinedPeersConverge` `CorruptHasCause` | a crash at any await of any command shares nothing undurable and reuses no sequence; join reply plus broadcast covers the document; only the reader's limit makes the room corrupt |
| `chain` | 2 rotations, 3 boots, 1 frame, dependent updates, fair actor | `AckedRecoverable` `CheckpointCoversItsRange` `DocumentSettled` `AcksGoToActiveGeneration` `HandlerReturns` `ImplementsDurableRoom` | checkpoints of checkpoints, a switch only after the manifest, no command keeps the queue for ever, and the whole implements the durable room |
| `rooms` | 1 connection that comes and goes, queue of 2, 2 boots, operator, late requests, a full snapshot, no rotation, fair tasks | `ReadyServesAcked` `SequenceTracksStore` `GonePeersAreForgotten` `ClosedTaskEnds` `QueueMoves` `CorruptHasCause` | retry and reload resume with the right sequence and document, late frames or not; leaves are not overtaken; nobody waits for ever; only a dead process's frame makes the room corrupt |
| `hostile` | late requests, stale reads, bad windows, retries | `TypeOK` `AckedInLog` `NextGenerationUntouched` `ManifestNamesStoredCheckpoint` `SequenceTracksStore` | what no behaviour of the environment can break |
| `fragments` | 2 rooms, 2 batch ids, limits of 2 and 3, fair loop and clock | `TypeOK` `BuffersBounded` `HandedIsWhatWasSent` `OpenOnlyInJoinedRooms` `DroppedIsAnswered` `OpenBatchesEnd` | reassembly is exact, bounded and never silent, and no client behaviour keeps a batch open |
| `http` | 4 nodes of which 3 are configured, 1 redirect, 2 retries, windows of 3 bytes, records of 2, limit of 4, 3 appends of 2 producers | `TypeOK` `ImplementsStore` `CallsReturn` `IntegrityIsJustified` | many requests look like one call of the trait, and end |
| `codec` | streams of up to 3 records on both sides of every limit, any one cell damaged or any end lost; messages up to 23 bytes, words of 5 bits | `AcceptedIsWhatWasWritten` `WrittenIsReadable` `NumbersAreExact` `AcceptedIsWithinLimits` `WalkGoesForward` | encoder and decoder agree at every limit, and hostile lengths stay harmless |

In `http` three nodes and one redirect reach a followed redirect, one too many,
a loop and a stranger; a window that ends inside a record, on a record and at
the limit all occur. In `codec` the stream limit is two of the largest frames,
so a third one takes it over. Messages one byte over the limit are among
the inputs (`MaxSize = MaxMessageBytes + 1`).

`CHECK_DEADLOCK FALSE` is in the cfgs where the system may stop: a room whose
bounds are used up or whose lifecycle is `unavailable`, a closed connection, a
decoder that is done. `http` is checked for deadlock. `restarts` uses symmetry
of connections and checks safety only.

**Fairness.** `HFairSpec` has weak fairness of the actor's own steps: an await
of the store ends because HTTP requests have timeouts and retry budgets
(`HttpUrsulaConfig`, `ambiguous_retries`), which is what `CallsReturn` shows of
the transport. `FairSpec` of UrsulaHttp has weak fairness of a request's end
(`response_timeout`). `RFairSpec` adds that tasks run, and strong fairness of a
closing task's send into the queue: tokio's channel serves waiting senders in
the order they came, so a place that is free again and again is given to it.
`FairSpec` of Connection has weak fairness of the loop's expiry, of its poll
timer (`tokio::time::timeout`), and of the clock. Nothing is assumed of clients,
of operators, of the cluster, or of which outcome a request has.

### Runs that TLC refutes

Each checks one sentence of the repository's docs or tests.

| Run | Property | What happens |
|---|---|---|
| `retry_after_rotation` | `ReadyServesAcked` | after a rotation, a retry reloads the active delta without the checkpoint (`actor.rs:904`) |
| `snapshot_after_rotation` | `SnapshotsOnlyInitialise` | a rotation empties `history`, and `update` takes that for an empty room (`actor.rs:744`) |
| `late_rejection` | `SequenceAgrees` | a lost answer to a commit, then a rejected retry: answered as rejected, sequence consumed (`actor.rs:1038`) |
| `orphaned_manifest` | `AcksGoToActiveGeneration` | a dead process's manifest append lands after its successor activated (`manifest_store.rs:95`) |
| `stranded_checkpoint` | `CheckpointReusable` | a checkpoint of a failed rotation, then one more update: no later rotation succeeds (`checkpoint_store.rs:45`) |

### Where the passing properties stop

The instances above are as strong as the properties allow. Changing one constant
of a cfg shows the edge:

* `AckedRecoverable` also fails with `OperatorRetries` and two rotations: the
  rotation after such a retry freezes the incomplete document in a checkpoint.
* `ReadyServesAcked` also fails with `StaleReads`: an activation takes a
  follower's prefix for the tail (`recovery.rs:40`; `docs/DESIGN.md:108` says
  that an ordinary read is not taken as proof of the tail).
* `JoinedPeersConverge` fails with dependent updates: `join` exports the visible
  document, a pending update is not in it, and a peer that joins before the
  dependency arrives is never sent it (`actor.rs:709`).
* `ImplementsDurableRoom` fails with `OperatorRetries` for the reason of
  `retry_after_rotation`, and with `StaleReads`.
* `CorruptHasCause` names two causes, and TLC reaches both. In `restarts`, where
  requests die with their process, a room acknowledges updates until a delta is over
  `max_stream_bytes`, and its next activation finds it corrupt (`frame.rs:293`,
  `ursula.rs:472`, `actor.rs:545` and `1079`); an operator's reload would, too. In
  `rooms`, a frame of a dead process lands before a full snapshot of its successor,
  and the delta cannot be replayed (`actor.rs:553`). Rotations and late requests
  together are covered by the theorem. The property fails with `StaleReads` (one read
  shows the manifest, the next, of a follower that lags, not the checkpoint it names)
  and with `BadWindows` (any answer may make the room corrupt).
* `CheckpointCoversItsRange`, `AcksGoToActiveGeneration`,
  `AckedRecoverable` and `OnlyDurableIsShared` each fail with `Orphans` alone and with
  `StaleReads` alone, with two or three boots and two frames. For
  `CheckpointCoversItsRange` a frame of the dead process lands after the successor's
  activation, and the end offset of the successor's next commit covers it
  (`actor.rs:816`): the checkpoint's source range then has a frame that the
  document never imported. That update was not acknowledged.
* `ClosedTaskEnds` and `GonePeersAreForgotten` except connections whose leave an
  unusable room ignored (`actor.rs:605`). TLC reaches rooms that are ready again
  and still have such a peer: its task then waits until a broadcast meets the
  closed socket.
* `WrittenIsReadable` excepts streams over `max_stream_bytes` or `max_records`.
  No append looks at them and nothing rotates by size, so a room can acknowledge
  updates into a stream that its next activation refuses (`frame.rs:293`); the room
  is then corrupt, which is the first cause of `CorruptHasCause`.
* `JoinedPeersConverge` fails with `OperatorRetries`: an append resolved by a
  retry changes the document and is broadcast to nobody (`actor.rs:904`).

## 4. Proofs

All theorems hold for every value of the constants: any sets of updates,
batches, connections, nodes and rooms, any limits, any number of generations,
boots and frames. The properties they state are those the runs of section 3
check.

### Gateway, in every environment

`GatewayProofs`:

* `TypeCorrect`: `Spec => []TypeOK`. `TypeOK` is inductive. Its second half is
  more than types: at each await it says which of `request`, `checkpoint` and
  `record` are in use and what kind of value they hold, which is what makes
  the steps after an await well defined. What an append does to the store,
  `StoreStepTypes`, is stated once for all outcomes.
* `AckedIsInLog`: `Spec => []AckedInLog`. Every step lets the streams grow by at
  most one request (`StepGrows`), so a stored batch stays stored; only
  `UpdateCommitted` and `UpdateVerified` acknowledge, and the batch they
  acknowledge was appended by the step itself or was read back.

`ChainProofs`: `NextGenerationIsUntouched`, `ManifestNamesCheckpoints`,
`DocumentIsSettled`. The properties speak of the store, but the requests that
break them can be on their way for a long time. `ChainInv` therefore speaks of
everything that may still reach the store (`Owed`: late requests, the one under
way, the blocked one) with the same words as of what is there: a manifest
record that may still land names a checkpoint that is stored already, a
checkpoint request is of its generation's one producer, a frame is for a
generation the manifest has reached. Deduplication by the producer tuple does the
rest: there is one producer per checkpoint stream and it writes sequence 0 only,
and the manifest's sequences are its revisions. The locals of a rotation and of
an activation (`RotationLocals`, `ActivationLocals`) carry these facts over the
awaits.

`PeersConverge` needs two assumptions, and section 3 shows that it is false
without either: `Independent` (no update depends on another) and no operator's
retry. Its invariant `PeersSee` says that a peer was sent the document at every
await, not only between two commands.

`SequenceProofs`, first half: `SequenceIsTracked`, `Spec => []SequenceTracksStore`.
`ProducerInv` is inductive whatever the network, the store and the operator do. Its
centre is `SequenceTail`: of the actor's own producer the active delta knows the
sequences below the next one, or that one too. The actor's end offset is not in it,
because a stale read sets it to anything. What the proof needs is that
every frame, stored or on its way, is within the reach of its process (`Reached`):
the process of a former boot, or the running one once it is activated and got to that
generation. So a restart and a switch find no frame of the producer they start to
use. An append whose answer was not taken is followed through `blocked`, `retry`
and `reload` (`Tracked`): the actor is not ready there, but the reload sets the next
sequence from the request, and that is right because the retry has proved that
the store knows it.

`CorruptionIsExplained`, also in `SequenceProofs`: when reads return the tail and
keep the read protocol, `Spec => CorruptHasCause`, for any limits and with late
requests of dead processes. The manifest and the checkpoint of an activation are
accepted by `ChainInv`. For the delta, `SnapshotInv` says of the frames stored and
owed that those of one producer are in the order of their sequences and that a full
snapshot has sequence 0, because a room that has appended to its delta retains
something and then refuses snapshots. So a snapshot that is not the first frame of its delta is
behind a frame of another process (`UnreplayableDelta`). Where
requests die with their process, `Replays` below excludes that too, and only the
limit is left.

### Gateway, one process at a time

The second half of `SequenceProofs` assumes `Calm`: a request does not outlive its
process and reads return the tail. Answers are still lost, requests still land late in
the life of their process, appends are repeated, operators retry, and a crash may come at
every await. Section 3 lists what TLC
refutes when either assumption is dropped.

* `CheckpointsCover`, `AcksStayActive`. `SequenceInv`
  adds to `ProducerInv` what relates the rest of the actor's memory to the store.
  Its centre is `LogTail`: the active delta of a ready room ends at the actor's end
  offset or one frame after it, and in the second case the frame is the actor's own
  and has the next sequence. A failed reload may leave any end offset behind, of a
  room that is not ready any more. For `LogTail`, frames on their way must be of this boot
  (`OwnOwed`), and the manifest can only be ahead of the actor at the awaits of a
  rotation or in a room that has given up (`ActiveIsOwn`, `ManifestsOwed`): a room
  that waits for an operator has no manifest record on its way, so no retry brings
  a room back whose rotation is undecided. `Replays` is what keeps an activation
  or a reload from refusing a delta: a full snapshot can only be its first frame.
* `AckedIsRecoverable`, `SharedIsDurable`, `ReadyHasAcked`. None of the three is
  inductive, and a rotation that fails after its manifest append was sent is the
  reason: the record may still land and make another checkpoint the base of the
  next restart. `KeptOps` is the set of operations that a restart rebuilds, a
  ready room holds, *and* every manifest record that may still land covers. The
  theorem `AllIsKept` says that it never shrinks and contains all that was
  acknowledged, is in the room or was sent to a peer. These, and the refinement
  below, need `ReloadsKeepAll` besides: an operator retries only where the room
  never rotates (`MaxGeneration = 0`). A reload rebuilds the room from one delta, which
  is all of the room only if no checkpoint precedes it; `retry_after_rotation`
  is the counterexample otherwise.
* `GatewayImplementsDurableRoom`: `HSpec => ImplementsDurableRoom`, from the same
  invariant and `ShownKept`, which says the same of the history variable.

### Rooms

* `RoomsImplementGateway`: `RSpec => Spec`. The queue, the manager and the tasks
  only choose when the commands of Gateway happen, so every theorem above holds
  of the room behind its queue.
* `GoneAreForgotten`: `RSpec => []GonePeersAreForgotten`, in every environment.
  The invariant `TaskInv` is about the order of one connection's commands: a
  join that is still queued for a connection that left has a leave behind it.

### Connection

`ConnectionHolds` proves one invariant, and from it `BuffersAreConsistent`,
`BuffersStayBounded`, `HandedWasSent`, `OpenWhereJoined` and the action property
`DroppedAreAnswered`. The counters of a batch are related to the chunks it holds
and to what the client sent since the header; the bytes of a batch are counted
as sets, with lemmas for a block that is added and blocks that are dropped.

### HttpUrsula

* `LimitsHold`: `Spec => []TypeOK`, with the finiteness of the nodes asked.
* `HttpImplementsStore`: `Spec => ImplementsStore`, late requests and lagging
  followers included. Redirects, retries and all windows but the last are
  invisible; the last window of a read has to reach the end of what a node has,
  which makes the whole read the stream at that moment because streams only
  grow. The effects of `UrsulaCalls` are shown to be those of `Ursula`
  (`SameStore`).
* `IntegrityHasReason`: `Spec => IntegrityIsJustified` when followers do not lag.
  With a lagging follower it is false for ranges: an empty window at the
  follower's end looks like a stream that is too short.

### Stored records

`RecordProofs` proves `AcceptedIsWhatWasWrittenHolds` and
`WrittenIsReadableHolds` for records of any number and size, any limits, the
damage of any one cell and the loss of any end.

* `EncodedIsRead`: decode gives back the record that encode wrote, for frames and
  manifests whatever follows them. The lemmas `FrameShape`, `CheckpointShape` and
  `SealShape` say in which cell each field lies, `CutBack` that cutting up the
  joined blobs by their lengths gives the blobs.
* A damaged stream is refused. `IsRecord` says what all three kinds have: the
  length in the fourth and in the last cell, and the checksum of everything
  before it next to last *and nowhere else*. If a cell other than the length is
  wrong, the checksum or a check of the length fails (`WrongCellNoticed`); if the
  length is wrong, the reader looks for a checksum of that many cells in
  another place of the stream, and the only checksum of so many cells is the
  record's own (`WrongLengthNoticed`); a record cut short is refused
  (`ShortRecordNoticed`).
* `RecordInv` is the inductive invariant. It says that there is a stream of the
  records written from which what the reader is given differs in at most one
  cell and perhaps in its end, and that a reader which has not refused has
  decoded exactly the records before its position, which lie in intact cells.
  The undamaged stream is not a variable of the model, so the invariant
  quantifies over it; TLC cannot enumerate it and checks the two properties.

The sums of the model (`Total`, and the places `Cut` looks at) are folds of the
community modules, which are recursive functions. The induction theorems of the
library cannot be applied to them, so `Induction` is stated for the set of the
numbers that have a property and proved from the least element of its complement.
`FoldExists` shows that the recursion of a fold has a solution, and `FoldCounts`
that its value is the number of elements of disjoint blocks, whose cardinalities
the library's theorems give.

### Bounded decoder

`CodecProofs`: `ReaderHolds` proves `ReaderInv`, for words of any width: the
cursor is in the message, the updates passed lie behind it and apart from each
other, their bytes are as many as the running sum says, and what the layout still
expects is within the number of updates allowed. `DecoderKeepsLimits` and the
action property `DecoderGoesForward` follow.

`NumbersAreExactHolds`: the value of a variable-length integer is the number its
groups spell. `NumberInv` says that the value so far is that of the groups so far and
less than the place of the next group. A word is a whole number of groups and one
bit (`WordBits % GroupBits = 1`, as with 64 and 7 in the code), so a shift that the
decoder admits leaves room for a whole group or is the top bit (`ShiftFits`), where
the check for overflow admits only 0 and 1: the `% 2 ^ WordBits` never changes the
sum. The laws of powers of two come from counting: `2 ^ n` is the number of subsets
of `1 .. n` (`PowerCounts`).

### Assumptions

The named ASSUMEs of `LoroDocs`, `Names`, `Ursula`, `RoomActor`, `Connection`,
`UrsulaHttp`, `Records` and `ProtocolReader`, which type the constants, say that a snapshot
is causally closed and that a word can hold the size of a message, and
`PromiseAssumption` of `GatewayPromise` (`None`, which stands for a shut room, is
no set of updates). TLC evaluates them in every run that extends these modules.
`RecordAssumption` only types limits and records; that two inputs never have
the same digest or checksum is how Records models them.

### Only model-checked

* Liveness: `HandlerReturns`, `ClosedTaskEnds`, `QueueMoves`, `OpenBatchesEnd`,
  `CallsReturn`. Fairness and ENABLED are outside the prover.
* `JoinedPeersConverge` is proved and checked for independent updates and without an
  operator's retry only.

## 5. Not modelled

Status, metrics and the `WaitForActivation` command (they change nothing the
properties see); several rooms (rooms share no state but the map, whose lock
makes a lookup one step); URL building and retry delays; permission codes of the
store beyond "rejected"; version vectors of clients, whose join reply is the
document; the outbound split of a large update (`send_update`), a division; the
official codec after `precheck`, a library; limits that change between two
processes. `main.rs` parses arguments and wires the parts. Tests, interop and
scripts were read for what they say of the program. Two gateway processes that
serve a room at the same time are outside: a process starts when its predecessor
is dead, though its requests may not be.

## 6. Plan

1. What a room keeps when operators retry and the room rotates: true until the first
   retry after a rotation, which needs a history variable to say so.
2. What a restart still rebuilds after a late manifest record: none of the theorems
   under `Calm` survives one, but what the record's own checkpoint kept does.
