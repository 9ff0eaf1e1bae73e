----------------------------- MODULE RoomActor ------------------------------
(***************************************************************************)
(* One room's actor (src/src/actor.rs): a Tokio task that takes commands   *)
(* from a queue and finishes each before it takes the next.  pc says where *)
(* in a command it is; between two steps the store, the network and a      *)
(* crash of the process can act.                                           *)
(*                                                                         *)
(* This module has the client commands (Join, Leave, Update), the append   *)
(* loop behind an update and the operator's RetryAmbiguous.  Rotation and  *)
(* Recovery add the other commands.  A command that is only answered with  *)
(* an error changes nothing here and is a stuttering step.                 *)
(***************************************************************************)
EXTENDS LoroDocs, Ursula

CONSTANTS
    Connections,
    Batches,            \* batch ids chosen by clients
    Content,            \* the update blobs of each batch
    AmbiguousRetries,   \* ActorConfig::ambiguous_retries
    OperatorRetries,    \* whether anybody ever calls retry_ambiguous
    StreamLimit,        \* max_stream_bytes: how long a stream a reader admits
    BadWindows,         \* a read's answer may break the read protocol
    MaxFrames           \* bound: an update needs a shorter active delta

ASSUME RoomAssumption ==
    /\ Content \in [Batches -> SUBSET Blobs]
    /\ AmbiguousRetries \in Nat
    /\ OperatorRetries \in BOOLEAN
    /\ StreamLimit \in [Streams -> Nat]
    /\ BadWindows \in BOOLEAN
    /\ MaxFrames \in Nat

VARIABLES
    boot,        \* the boot id of the running process
    pc,          \* the await the actor is at, "idle" between commands
    lifecycle,
    generation,  \* active_delta_generation; also names the stream and producer
    producerSequence,
    endOffset,   \* active_delta_end_offset
    doc,         \* visible operations of the live document
    history,     \* retained update blobs
    peers,       \* connections that receive the room's updates
    blocked,     \* the append whose outcome is unknown, or None
    request,     \* the append being resolved, or None
    attempts,    \* ambiguous answers request has had
    heard,       \* operations each peer was sent, or sent itself
    acked,       \* batches that were answered with Ack(Ok)
    checkpoint,  \* the one a rotation writes or an activation restores
    record       \* the manifest record published, or read, by them

appendVars == <<request, attempts>>
docVars == <<doc, history, endOffset, producerSequence>>
peerVars == <<peers, heard>>
controlVars == <<checkpoint, record>>

\* The actor waits for a command.
Idle == pc = "idle"

-----------------------------------------------------------------------------
(* Reads of whole streams.  An append is checked against no limit of these. *)

OverLimit(s, log) == StreamLimit[s] < Len(log)

\* What a read of s can hand over.
Readable(s) == {log \in ReadAll(s) : ~OverLimit(s, log)}

\* StoreError::Integrity: read_all refuses what the store answers.  Every other
\* error of a read says nothing about the stream.
Refused(s) == BadWindows \/ \E log \in ReadAll(s) : OverLimit(s, log)

-----------------------------------------------------------------------------
(* Update blobs *)

\* validate_update_blobs: a full snapshot only as the sole blob, and only where
\* nothing came before it.
ValidBlobs(blobs, allowSnapshot) ==
    /\ blobs # {}
    /\ blobs \cap Snapshots # {} =>
          /\ allowSnapshot
          /\ \E blob \in blobs : blobs = {blob}

\* The blobs of a delta log, and the test every replay from offset zero makes.
HistoryOf(log) == UNION {Content[log[i].body] : i \in DOMAIN log}
Replayable(log) == \A i \in DOMAIN log : ValidBlobs(Content[log[i].body], i = 1)

\* Variant, for the mutation runs: retained blobs are not imported again.
CandidateOfUpdateOnly(blobs) == Visible(doc \cup OpsOfAll(blobs))

\* build_candidate: the snapshot of the document with the retained history and
\* the new blobs imported into it.
Candidate(blobs) == Visible(doc \cup OpsOfAll(history \cup blobs))

-----------------------------------------------------------------------------
(* Peers *)

\* Variant, for the mutation runs: an empty history is taken for an empty room.
JoinReplyFromHistory == IF history = {} THEN {} ELSE doc

\* A join is answered with the document.
JoinReply == doc

Join(c) ==
    /\ Idle /\ lifecycle = "ready"
    /\ peers' = peers \cup {c}
    /\ heard' = [heard EXCEPT ![c] = @ \cup JoinReply]
    /\ UNCHANGED <<storeVars, boot, pc, lifecycle, generation, docVars, blocked,
                   appendVars, acked, controlVars>>

\* Leave, or the close of the connection.  While the room is recovering,
\* corrupt or unavailable the command is dropped and the peer stays.
Leave(c) ==
    /\ Idle /\ lifecycle \in {"ready", "append_ambiguous"}
    /\ c \in peers
    /\ peers' = peers \ {c}
    /\ heard' = [heard EXCEPT ![c] = {}]
    /\ UNCHANGED <<storeVars, boot, pc, lifecycle, generation, docVars, blocked,
                   appendVars, acked, controlVars>>

-----------------------------------------------------------------------------
(* Update: validate, append one frame, and only then change the room *)

Frame(b) == Request(Delta(generation), DeltaProducer(boot, generation),
                    producerSequence, b)

\* Variant, for the mutation runs: a full snapshot at any time.
AdmissibleAnyTime(b) == ValidBlobs(Content[b], TRUE)

\* The room takes the blobs of batch b now.
Admissible(b) == ValidBlobs(Content[b], history = {})

Update(c, b) ==
    /\ Idle
    /\ c \in peers
    /\ lifecycle = "ready" /\ blocked = None
    /\ Admissible(b)
    /\ Len(streams[Delta(generation)]) < MaxFrames
    /\ pc' = "append"
    /\ request' = Frame(b)
    /\ attempts' = 0
    /\ UNCHANGED <<storeVars, boot, lifecycle, generation, docVars, peerVars,
                   blocked, acked, controlVars>>

\* Variant, for the mutation runs: the pending append is not dropped.
ReturnKeepingRequest == pc' = "idle" /\ attempts' = 0 /\ UNCHANGED request

\* The command is over and nothing is being appended.
Return ==
    /\ pc' = "idle"
    /\ request' = None
    /\ attempts' = 0

\* The append is proved durable up to offset end: advance, broadcast, ack.  The
\* sender, a peer as well, is not sent its own blobs but knows them.
Accept(end) ==
    LET blobs == Content[request.body] IN
    /\ producerSequence' = producerSequence + 1
    /\ endOffset' = end
    /\ doc' = Candidate(blobs)
    /\ history' = history \cup blobs
    /\ heard' = [c \in Connections |->
                    IF c \in peers THEN heard[c] \cup OpsOfAll(blobs) ELSE heard[c]]
    /\ acked' = acked \cup {request.body}
    /\ Return
    /\ UNCHANGED <<boot, lifecycle, generation, peers, blocked, controlVars>>

\* Variant, for the mutation runs: a duplicate answer is taken at its word.
UnverifiedFrame(r) == TRUE

\* verify_duplicate_bytes: the range behind a duplicate answer holds this frame.
VerifiedFrame(r) ==
    /\ DuplicateEnd(r) \in DOMAIN streams[r.stream]
    /\ streams[r.stream][DuplicateEnd(r)] = r

UpdateCommitted ==
    /\ pc = "append"
    /\ Commits(request)
    /\ Accept(CommittedEnd(request))

UpdateVerified ==
    /\ pc = "append"
    /\ Deduplicates(request) /\ VerifiedFrame(request)
    /\ Accept(DuplicateEnd(request))

\* An ambiguous answer within the budget: the same bytes are sent again.
AppendAgain ==
    /\ pc \in {"append", "retry"}
    /\ attempts < AmbiguousRetries
    /\ Lost(request)
    /\ attempts' = attempts + 1
    /\ UNCHANGED <<boot, pc, lifecycle, generation, docVars, peerVars, blocked,
                   request, acked, controlVars>>

\* The loop gives up: the budget is spent, the duplicate could not be verified
\* or read, or the answer to a commit could not be parsed.
OutcomeUnknown ==
    \/ attempts = AmbiguousRetries /\ Lost(request)
    \/ Deduplicates(request)
    \/ Commits(request)

\* Variant, for the mutation runs: the last ambiguous answer counts as a commit.
UpdateUnknownAcked ==
    /\ pc = "append"
    /\ attempts = AmbiguousRetries
    /\ Lost(request)
    /\ Accept(CommittedEnd(request))

UpdateUnknown ==
    /\ pc = "append"
    /\ OutcomeUnknown
    /\ blocked' = request
    /\ lifecycle' = "append_ambiguous"
    /\ Return
    /\ UNCHANGED <<boot, generation, docVars, peerVars, acked, controlVars>>

\* Any rejected attempt, the first or a later one, is a negative ack.
UpdateRejected ==
    /\ pc = "append"
    /\ Rejects(request)
    /\ Return
    /\ UNCHANGED <<boot, lifecycle, generation, docVars, peerVars, blocked, acked,
                   controlVars>>

-----------------------------------------------------------------------------
(* RetryAmbiguous: resolve the blocked append, then reload the room *)

RetryAmbiguous ==
    /\ Idle /\ OperatorRetries
    /\ blocked # None
    /\ pc' = "retry"
    /\ request' = blocked
    /\ blocked' = None
    /\ attempts' = 0
    /\ UNCHANGED <<storeVars, boot, lifecycle, generation, docVars, peerVars,
                   acked, controlVars>>

\* Variant, for the mutation runs: an answer is not waited for.
Assumed(r) == Lost(r)

\* A DurableAppend: the answer to r proves that the store holds it.
Proved(r) ==
    \/ Commits(r)
    \/ Deduplicates(r) /\ VerifiedFrame(r)

RetryResolved ==
    /\ pc = "retry"
    /\ Proved(request)
    /\ pc' = "reload"
    /\ UNCHANGED <<boot, lifecycle, generation, docVars, peerVars, blocked,
                   appendVars, acked, controlVars>>

\* The append is still owed: it is blocked again and the room enters state.
StayBlocked(state) ==
    /\ blocked' = request
    /\ lifecycle' = state
    /\ Return
    /\ UNCHANGED <<boot, generation, docVars, peerVars, acked, controlVars>>

RetryUnknown ==
    /\ pc = "retry"
    /\ OutcomeUnknown
    /\ StayBlocked("append_ambiguous")

RetryRejected ==
    /\ pc = "retry"
    /\ Rejects(request)
    /\ StayBlocked("unavailable")

\* Variant, for the mutation runs: each frame replaces the history.
LoadLastFrame(log) ==
    LET blobs == IF log = <<>> THEN {} ELSE Content[log[Len(log)].body] IN
    /\ endOffset' = Len(log)
    /\ history' = blobs
    /\ doc' = Visible(OpsOfAll(blobs))

\* load_from_store: the document is rebuilt from one delta stream alone.
LoadFrom(log) ==
    /\ endOffset' = Len(log)
    /\ history' = HistoryOf(log)
    /\ doc' = Visible(OpsOfAll(HistoryOf(log)))

\* load_from_store finds the delta corrupt: read_all refuses it before the end
\* offset is assigned, the decoder's limit or the replay after.
LoadCorrupt ==
    \/ Refused(Delta(generation)) /\ UNCHANGED endOffset
    \/ \E log \in ReadAll(Delta(generation)) :
          /\ OverLimit(Delta(generation), log) \/ ~Replayable(log)
          /\ endOffset' = Len(log)

\* Variant, for the mutation runs: the sequence is counted from what was read.
ReloadCountingFrames ==
    /\ pc = "reload"
    /\ \E log \in Readable(Delta(generation)) : Replayable(log) /\ LoadFrom(log)
    /\ producerSequence' = endOffset'
    /\ lifecycle' = "ready"
    /\ Return
    /\ UNCHANGED <<storeVars, boot, generation, peerVars, blocked, acked, controlVars>>

\* The actor's stream is the active delta.  Nobody is acked and nothing is
\* broadcast.
Reload ==
    /\ pc = "reload"
    /\ \E log \in Readable(Delta(generation)) : Replayable(log) /\ LoadFrom(log)
    /\ producerSequence' = request.sequence + 1
    /\ lifecycle' = "ready"
    /\ Return
    /\ UNCHANGED <<storeVars, boot, generation, peerVars, blocked, acked, controlVars>>

\* Variant, for the mutation runs: a failed reload starts the retry over.
ReloadFailsAgain ==
    /\ pc = "reload"
    /\ pc' = "retry"
    /\ UNCHANGED <<storeVars, boot, lifecycle, generation, docVars, peerVars,
                   blocked, appendVars, acked, controlVars>>

\* The reload fails, and the append stays owed.
ReloadFails ==
    /\ pc = "reload"
    /\ \/ lifecycle' = "unavailable" /\ UNCHANGED endOffset
       \/ lifecycle' = "corrupt" /\ LoadCorrupt
    /\ blocked' = request
    /\ Return
    /\ UNCHANGED <<storeVars, boot, generation, doc, history, producerSequence,
                   peerVars, acked, controlVars>>
=============================================================================
