------------------------------ MODULE Rotation ------------------------------
(***************************************************************************)
(* The Rotate command (rotate_generation in src/src/actor.rs and           *)
(* src/src/rotation.rs): the room's document is frozen in a checkpoint,    *)
(* the manifest is advanced to it, and only then does the actor write to   *)
(* the next delta generation.                                              *)
(*                                                                         *)
(* A digest is modelled by what it stands for: a manifest record holds the *)
(* checkpoint whose length and digest it names.  The predecessor digest is *)
(* left out: the manifest stream is append-only, so a record of a given    *)
(* revision has one possible predecessor.                                  *)
(***************************************************************************)
EXTENDS RoomActor

CheckpointRecord(g, end, snapshot, pending) ==
    [generation |-> g, endOffset |-> end, snapshot |-> snapshot, pending |-> pending]

ManifestRecord(revision, cp) == [revision |-> revision, checkpoint |-> cp]

\* Variant, for the mutation runs: the checkpoint's own source delta.
SourceDelta(m) == m.checkpoint.generation

\* validate_generation_pair: the active delta follows the checkpoint.
ActiveDelta(m) == m.checkpoint.generation + 1

\* validate_manifest_chain, over the records of a non-empty manifest stream.
ChainValid(log) ==
    /\ log[1].body.revision = 0
    /\ \A i \in 2 .. Len(log) :
          /\ log[i].body.revision = log[i-1].body.revision + 1
          /\ log[i].body.checkpoint.generation > log[i-1].body.checkpoint.generation

Latest(log) == log[Len(log)].body

\* The bytes of a stream are those of exactly one record.
HoldsOnly(log, body) == Len(log) = 1 /\ log[1].body = body

-----------------------------------------------------------------------------
\* What a step of a rotation leaves alone.
RotationFrame == UNCHANGED <<boot, generation, docVars, peerVars, blocked, acked>>

\* Go on to the await named next.
GoOn(next) ==
    /\ pc' = next
    /\ request' = None /\ attempts' = 0
    /\ UNCHANGED lifecycle
    /\ RotationFrame

\* Any error of a rotation: the room is unavailable, and nothing in the process
\* takes it back.
GiveUp ==
    /\ lifecycle' = "unavailable"
    /\ checkpoint' = None /\ record' = None
    /\ Return
    /\ RotationFrame

\* Start an exact append of r.
Submit(r, next) ==
    /\ pc' = next
    /\ request' = r /\ attempts' = 0
    /\ UNCHANGED lifecycle
    /\ RotationFrame

\* Variant, for the mutation runs: only the snapshot is kept.
BuildCheckpointWithoutPending == CheckpointRecord(generation, endOffset, doc, {})

\* build_checkpoint_record: the exported snapshot and the retained blobs that
\* stay pending in it.
BuildCheckpoint ==
    CheckpointRecord(generation, endOffset, doc,
                     {blob \in history : PendingIn(doc, blob)})

\* Its self-check: snapshot and retained blobs reconstruct the live document.
Reconstructs(cp) == Visible(cp.snapshot \cup OpsOfAll(cp.pending)) = doc

Rotate ==
    /\ Idle /\ lifecycle = "ready" /\ blocked = None
    /\ generation < MaxGeneration
    /\ UNCHANGED <<storeVars, record>>
    /\ IF Reconstructs(BuildCheckpoint)
       THEN checkpoint' = BuildCheckpoint /\ GoOn("persist")
       ELSE GiveUp

-----------------------------------------------------------------------------
(* persist_checkpoint: reuse an equal record, else append exactly one *)

CheckpointRequest ==
    Request(Checkpoint(generation), CheckpointProducer(generation), 0, checkpoint)

\* Variant, for the mutation runs: whatever the stream holds is the checkpoint.
AnyRecord(existing) == existing # <<>>

\* The checkpoint stream already holds these very bytes.
SameRecord(existing) == HoldsOnly(existing, checkpoint)

Persist ==
    /\ pc = "persist"
    /\ UNCHANGED storeVars
    /\ \E existing \in Readable(Checkpoint(generation)) :
          \/ /\ existing = <<>>
             /\ Submit(CheckpointRequest, "appendCheckpoint")
             /\ UNCHANGED controlVars
          \/ /\ SameRecord(existing)
             /\ GoOn("prepare")
             /\ UNCHANGED controlVars
          \/ /\ existing # <<>> /\ ~SameRecord(existing)
             /\ GiveUp

\* append_exact_with_retry compares the body behind a duplicate answer.
VerifiedBody(r) == streams[r.stream][DuplicateEnd(r)].body = r.body

\* The exact append succeeded and its answer carried the offset end.
Appended(end) ==
    \/ Commits(request) /\ end = CommittedEnd(request)
    \/ Deduplicates(request) /\ VerifiedBody(request) /\ end = DuplicateEnd(request)

CheckpointAppended ==
    /\ pc = "appendCheckpoint"
    /\ Appended(1)
    /\ GoOn("prepare")
    /\ UNCHANGED controlVars

\* An ambiguous answer within the budget.
ExactAppendAgain ==
    /\ pc \in {"appendCheckpoint", "appendManifest"}
    /\ attempts < AmbiguousRetries
    /\ Lost(request)
    /\ attempts' = attempts + 1
    /\ UNCHANGED <<boot, pc, lifecycle, generation, docVars, peerVars, blocked,
                   request, acked, controlVars>>

\* Variant, for the mutation runs: a failed append starts over.
ExactAppendStartsOver ==
    /\ pc \in {"appendCheckpoint", "appendManifest"}
    /\ OutcomeUnknown \/ Rejects(request)
    /\ GoOn(IF pc = "appendCheckpoint" THEN "persist" ELSE "publish")
    /\ UNCHANGED controlVars

\* The budget is spent, the append was rejected, or it did something else than
\* the caller expects (other bytes, another end offset, an unreadable answer).
ExactAppendFails ==
    /\ pc \in {"appendCheckpoint", "appendManifest"}
    /\ OutcomeUnknown \/ Rejects(request)
    /\ GiveUp

-----------------------------------------------------------------------------
(* The next delta stream, the manifest, and the switch *)

\* Variant, for the mutation runs: the actor switches before the manifest.
PrepareThenSwitch ==
    /\ pc = "prepare"
    /\ UNCHANGED storeVars
    /\ \E next \in Readable(Delta(generation + 1)) : next = <<>>
    /\ GoOn("switch") /\ UNCHANGED controlVars

\* rotate_room makes the next delta stream and insists that it is empty.
Prepare ==
    /\ pc = "prepare"
    /\ UNCHANGED storeVars
    /\ \E next \in Readable(Delta(generation + 1)) :
          IF next = <<>>
          THEN GoOn("position") /\ UNCHANGED controlVars
          ELSE GiveUp

\* next_manifest_position: the revision to publish, if the manifest's active
\* generation is the one this actor writes.
Position ==
    /\ pc = "position"
    /\ UNCHANGED storeVars
    /\ \E log \in Readable(Manifest) :
          IF /\ log = <<>> => generation = 0
             /\ log # <<>> => ChainValid(log) /\ ActiveDelta(Latest(log)) = generation
          THEN /\ record' = ManifestRecord(
                       IF log = <<>> THEN 0 ELSE Latest(log).revision + 1, checkpoint)
               /\ GoOn("publish")
               /\ UNCHANGED checkpoint
          ELSE GiveUp

ManifestRequest == Request(Manifest, ManifestProducer, record.revision, record)

\* publish_manifest_record reads the manifest again before it appends.
Publish ==
    /\ pc = "publish"
    /\ UNCHANGED storeVars
    /\ \E log \in Readable(Manifest) :
          IF log # <<>> /\ ChainValid(log) /\ Latest(log) = record
          THEN GoOn("switch") /\ UNCHANGED controlVars
          ELSE IF /\ log = <<>> => record.revision = 0
                  /\ log # <<>> => /\ ChainValid(log)
                                   /\ record.revision = Latest(log).revision + 1
                                   /\ record.checkpoint.generation
                                         > Latest(log).checkpoint.generation
               THEN Submit(ManifestRequest, "appendManifest") /\ UNCHANGED controlVars
               ELSE GiveUp

\* A valid chain before it has record.revision records, so the appended record
\* has to end at the next offset.
ManifestAppended ==
    /\ pc = "appendManifest"
    /\ Appended(record.revision + 1)
    /\ GoOn("switch")
    /\ UNCHANGED controlVars

\* Variant, for the mutation runs: the snapshot is taken to hold everything.
NothingRetained(cp) == {}

\* RotationResult::retained_history
RetainedHistory(cp) == cp.pending

\* The actor moves to the next generation: a new stream, a new producer, and
\* only the pending blobs of the checkpoint retained.
Switch ==
    /\ pc = "switch"
    /\ generation' = generation + 1
    /\ endOffset' = 0
    /\ producerSequence' = 0
    /\ history' = RetainedHistory(checkpoint)
    /\ checkpoint' = None /\ record' = None
    /\ Return
    /\ UNCHANGED <<storeVars, boot, lifecycle, doc, peerVars, blocked, acked>>

\* A store call between the appends fails, a read of a stream over its limit too.
StoreCallFails ==
    /\ pc \in {"persist", "prepare", "position", "publish"}
    /\ UNCHANGED storeVars
    /\ GiveUp
=============================================================================
