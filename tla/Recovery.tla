------------------------------ MODULE Recovery ------------------------------
(***************************************************************************)
(* Activation of a room (RoomActor::initialize in src/src/actor.rs and     *)
(* src/src/recovery.rs) and the crash that makes it necessary.  The        *)
(* manifest's latest record names a checkpoint, the checkpoint is          *)
(* restored, and the active delta is replayed over it.  Without a manifest *)
(* delta generation zero is replayed from its beginning.                   *)
(***************************************************************************)
EXTENDS Rotation

\* Activation ends in the lifecycle state.
Activated(state) ==
    /\ lifecycle' = state
    /\ checkpoint' = None /\ record' = None
    /\ Return
    /\ UNCHANGED <<storeVars, boot, producerSequence, peerVars, blocked, acked>>

\* Nothing was restored: the fresh actor's document stays as it was.
FailActivation(state) ==
    /\ Activated(state)
    /\ UNCHANGED <<generation, doc, history, endOffset>>

\* Activation goes on with the await named next.
Continue(next) ==
    /\ pc' = next
    /\ UNCHANGED <<storeVars, boot, lifecycle, generation, docVars, peerVars,
                   blocked, appendVars, acked>>

ReadManifest ==
    /\ pc = "readManifest"
    /\ \E log \in Readable(Manifest) :
          \/ /\ log = <<>>
             /\ Continue("replay")
             /\ UNCHANGED controlVars
          \/ /\ log # <<>>
             /\ IF ChainValid(log)
                THEN /\ record' = Latest(log)
                     /\ Continue("readCheckpoint")
                     /\ UNCHANGED checkpoint
                ELSE FailActivation("corrupt")

\* No manifest: the room never rotated and its first delta is its whole history.
ReplayLegacy ==
    /\ pc = "replay"
    /\ UNCHANGED generation
    /\ \/ /\ \E log \in Readable(Delta(generation)) : Replayable(log) /\ LoadFrom(log)
          /\ Activated("ready")
       \/ /\ LoadCorrupt
          /\ UNCHANGED <<doc, history>>
          /\ Activated("corrupt")

\* The checkpoint stream must hold the very record the manifest names.
ReadCheckpoint ==
    /\ pc = "readCheckpoint"
    /\ \E log \in Readable(Checkpoint(record.checkpoint.generation)) :
          IF HoldsOnly(log, record.checkpoint)
          THEN /\ checkpoint' = record.checkpoint
               /\ Continue("readDelta")
               /\ UNCHANGED record
          ELSE FailActivation("corrupt")

\* The active delta is replayed over the checkpoint's snapshot and its pending
\* blobs; its frames are not put through ValidBlobs.
ReadDelta ==
    /\ pc = "readDelta"
    /\ \E log \in Readable(Delta(ActiveDelta(record))) :
          LET retained == checkpoint.pending \cup HistoryOf(log) IN
          /\ generation' = ActiveDelta(record)
          /\ endOffset' = Len(log)
          /\ history' = retained
          /\ doc' = Visible(checkpoint.snapshot \cup OpsOfAll(retained))
    /\ Activated("ready")

\* The stream that is read at the await pc, by an activation or a reload.
BeingRead ==
    CASE pc = "readManifest" -> Manifest
      [] pc = "readCheckpoint" -> Checkpoint(record.checkpoint.generation)
      [] pc = "readDelta" -> Delta(ActiveDelta(record))
      [] pc \in {"replay", "reload"} -> Delta(generation)

\* A store call of the activation fails.  What read_all or the decoder refuses
\* is corrupt, with any other error the room is unavailable.
ActivationFails ==
    \/ /\ pc \in {"readManifest", "replay", "readCheckpoint", "readDelta"}
       /\ FailActivation("unavailable")
    \/ /\ pc \in {"readManifest", "readCheckpoint", "readDelta"}
       /\ Refused(BeingRead)
       /\ FailActivation("corrupt")

\* The process dies anywhere and starts again with another boot id.  Everything
\* but the store is lost; the room is activated by its first client.
Crash ==
    /\ boot < MaxBoots
    /\ boot' = boot + 1
    /\ pc' = "readManifest"
    /\ lifecycle' = "recovering"
    /\ generation' = 0 /\ producerSequence' = 0 /\ endOffset' = 0
    /\ doc' = {} /\ history' = {}
    /\ peers' = {} /\ heard' = [c \in Connections |-> {}]
    /\ blocked' = None /\ request' = None /\ attempts' = 0
    /\ checkpoint' = None /\ record' = None
    /\ LoseConnections
    /\ UNCHANGED <<streams, acked>>
=============================================================================
