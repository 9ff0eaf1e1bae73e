------------------------------ MODULE Records -------------------------------
(***************************************************************************)
(* The three records the gateway stores: delta frames (src/src/frame.rs),  *)
(* checkpoints (checkpoint.rs) and manifests (manifest.rs).  A stream is   *)
(* written record by record, may lose its end or have a field damaged, and *)
(* is read back from the start.                                            *)
(*                                                                         *)
(* A stream is a sequence of cells: one cell for each fixed-width field,   *)
(* digest or checksum, and one for each byte of a name or a payload, so    *)
(* lengths count cells.  SHA-256 and CRC-32 are ideal: two inputs never    *)
(* have the same sum.                                                      *)
(***************************************************************************)
EXTENDS Integers, FiniteSets, SequencesExt

CONSTANTS
    FrameLimits, CheckpointLimits, ManifestLimits,   \* records of the same names
    Frames, Checkpoints, Manifests,                  \* what callers try to store
    MaxWritten,     \* bound on the records of a stream
    Wrong           \* numbers a damaged field can hold

Digests == {m.previous_record_digest : m \in Manifests}
               \cup {m.checkpoint_record_digest : m \in Manifests}

ASSUME RecordAssumption ==
    /\ FrameLimits \in [{"max_frame_bytes", "max_producer_id_bytes", "max_updates",
                         "max_update_bytes", "max_updates_bytes", "max_stream_bytes"}
                            -> Nat]
    /\ CheckpointLimits \in [{"max_record_bytes", "max_snapshot_bytes",
                              "max_pending_updates", "max_pending_update_bytes",
                              "max_pending_updates_bytes"} -> Nat]
    /\ ManifestLimits \in [{"max_record_bytes", "max_records", "max_stream_bytes"} -> Nat]
    /\ Frames \subseteq [producer : Seq(Nat), epoch : Nat, sequence : Nat, batch_id : Nat,
                         updates : Seq(Seq(Nat))]
    /\ Checkpoints \subseteq
           [room : Nat, checkpoint_generation : Nat, source_delta_generation : Nat,
            source_delta_end_offset : Nat, snapshot : Seq(Nat),
            pending_updates : Seq(Seq(Nat))]
    /\ Manifests \subseteq
           [room : Nat, revision : Nat, previous_record_digest : Digests,
            checkpoint_generation : Nat, checkpoint_stream_end_offset : Nat,
            checkpoint_record_digest : Digests, active_delta_generation : Nat]
    /\ \A d \in Digests : d[1] = "sha256"
    /\ MaxWritten \in Nat /\ Wrong \subseteq Nat

VARIABLES
    kind,      \* what the stream holds
    written,   \* the records appended to it
    bytes,     \* the cells a reader will find
    fault,     \* what happened to them: "none", "damaged" or "torn"
    rest,      \* cells not yet decoded
    found,     \* records decoded
    verdict    \* "writing", "reading", "read" or "refused"

recordVars == <<kind, written, bytes, fault, rest, found, verdict>>

-----------------------------------------------------------------------------
(* Cells *)

Num(n) == <<"num", n>>
Nums(s) == [i \in DOMAIN s |-> Num(s[i])]
Digest(x) == <<"sha256", x>>
Crc(cells) == <<"crc32", cells>>
Magic(k) == <<"magic", k>>
VERSION == Num(1)
GENESIS_DIGEST == Digest(<<>>)

\* What each kind's digest covers, under a prefix of its own.
update_digest(updates) == Digest(<<"updates", updates>>)
checkpoint_digest(snapshot, pending) == Digest(<<"checkpoint", snapshot, pending>>)
manifest_digest(body) == Digest(<<"manifest", body>>)

\* A field read as a number; one that holds a sum is more than every length allowed.
Number(cell) ==
    IF cell[1] = "num"
    THEN cell[2]
    ELSE FrameLimits.max_frame_bytes + CheckpointLimits.max_record_bytes
             + ManifestLimits.max_record_bytes + 1

Total(lengths) == FoldSeq(+, 0, lengths)
Lengths(blobs) == [i \in DOMAIN blobs |-> Len(blobs[i])]

\* The blobs of the given lengths at the start of cells.
Cut(cells, lengths) ==
    [i \in DOMAIN lengths |->
        LET from == Total(SubSeq(lengths, 1, i - 1)) IN
        [j \in 1 .. lengths[i] |-> Number(cells[from + j])]]

-----------------------------------------------------------------------------
(* The envelope all three kinds share *)

FIXED_PREFIX == 4   \* magic, version, flags, length
FIXED_SUFFIX == 3   \* digest, checksum, length again

Seal(k, body, digest) ==
    LET total == FIXED_PREFIX + Len(body) + FIXED_SUFFIX
        sealed == <<Magic(k), VERSION, Num(0), Num(total)>> \o body \o <<digest>>
    IN  sealed \o <<Crc(sealed), Num(total)>>

\* Variant, for the mutation runs: the checksum is not compared.
SealedWithoutCrc(k, input, fixed, limit) ==
    /\ Len(input) >= fixed
    /\ input[1] = Magic(k) /\ input[2] = VERSION /\ input[3] = Num(0)
    /\ LET total == Number(input[4]) IN
       /\ total >= fixed /\ total <= limit /\ total <= Len(input)
       /\ Number(input[total]) = total

\* What a decoder checks before it looks at a field.
Sealed(k, input, fixed, limit) ==
    /\ Len(input) >= fixed
    /\ input[1] = Magic(k) /\ input[2] = VERSION /\ input[3] = Num(0)
    /\ LET total == Number(input[4]) IN
       /\ total >= fixed /\ total <= limit /\ total <= Len(input)
       /\ Number(input[total]) = total
       /\ input[total - 1] = Crc(SubSeq(input, 1, total - 2))

\* The fields of a sealed record and its digest.
Consumed(input) == Number(input[4])
Body(input) == SubSeq(input, FIXED_PREFIX + 1, Consumed(input) - FIXED_SUFFIX)
DigestOf(input) == input[Consumed(input) - 2]

-----------------------------------------------------------------------------
(* DeltaFrame *)

EncodeFrame(f) ==
    Seal("frame",
         <<Num(Len(f.producer))>> \o Nums(f.producer)
             \o Nums(<<f.epoch, f.sequence, f.batch_id, Len(f.updates)>>)
             \o Nums(Lengths(f.updates)) \o Nums(FlattenSeq(f.updates)),
         update_digest(f.updates))

\* Variant, for the mutation runs: the updates together are not limited.
FrameEncodesAnyTotal(f) ==
    LET l == FrameLimits IN
    /\ Len(f.producer) \in 1 .. l.max_producer_id_bytes
    /\ Len(f.updates) \in 1 .. l.max_updates
    /\ \A i \in DOMAIN f.updates : Len(f.updates[i]) <= l.max_update_bytes
    /\ Len(EncodeFrame(f)) <= l.max_frame_bytes

FrameEncodes(f) ==
    LET l == FrameLimits IN
    /\ Len(f.producer) \in 1 .. l.max_producer_id_bytes
    /\ Len(f.updates) \in 1 .. l.max_updates
    /\ \A i \in DOMAIN f.updates : Len(f.updates[i]) <= l.max_update_bytes
    /\ Total(Lengths(f.updates)) <= l.max_updates_bytes
    /\ Len(EncodeFrame(f)) <= l.max_frame_bytes

\* The frame at the start of the input, as a set of one, or the empty set.
DecodeFrame(input) ==
    LET l == FrameLimits
        body == Body(input)
        p == Number(body[1])
        count == Number(body[p + 5])
        lengths == [i \in 1 .. count |-> Number(body[p + 5 + i])]
        table_end == p + 5 + count
        frame == [producer |-> [i \in 1 .. p |-> Number(body[i + 1])],
                  epoch |-> Number(body[p + 2]), sequence |-> Number(body[p + 3]),
                  batch_id |-> Number(body[p + 4]),
                  updates |-> Cut(SubSeq(body, table_end + 1, Len(body)), lengths)]
        ok ==
            /\ Sealed("frame", input, FIXED_PREFIX + FIXED_SUFFIX, l.max_frame_bytes)
            /\ Len(body) >= 1 /\ p \in 1 .. l.max_producer_id_bytes
            /\ Len(body) >= p + 5 /\ count \in 1 .. l.max_updates
            /\ table_end <= Len(body)
            /\ \A i \in DOMAIN lengths : lengths[i] <= l.max_update_bytes
            /\ Total(lengths) <= l.max_updates_bytes
            /\ Total(lengths) = Len(body) - table_end
            /\ DigestOf(input) = update_digest(frame.updates)
    IN  IF ok THEN {frame} ELSE {}

-----------------------------------------------------------------------------
(* CheckpointRecord *)

CHECKPOINT_HEADER == FIXED_PREFIX + 6

EncodeCheckpoint(c) ==
    Seal("checkpoint",
         Nums(<<c.room, c.checkpoint_generation, c.source_delta_generation,
                c.source_delta_end_offset, Len(c.snapshot), Len(c.pending_updates)>>)
             \o Nums(Lengths(c.pending_updates))
             \o Nums(c.snapshot) \o Nums(FlattenSeq(c.pending_updates)),
         checkpoint_digest(c.snapshot, c.pending_updates))

CheckpointEncodes(c) ==
    LET l == CheckpointLimits
        pending == c.pending_updates IN
    /\ Len(c.snapshot) \in 1 .. l.max_snapshot_bytes
    /\ Len(pending) <= l.max_pending_updates
    /\ \A i \in DOMAIN pending : Len(pending[i]) \in 1 .. l.max_pending_update_bytes
    /\ Total(Lengths(pending)) <= l.max_pending_updates_bytes
    /\ Len(EncodeCheckpoint(c)) <= l.max_record_bytes

\* The checkpoint that is the whole input, as a set of one, or the empty set.
DecodeCheckpoint(input) ==
    LET l == CheckpointLimits
        body == Body(input)
        field == [i \in 1 .. 6 |-> Number(body[i])]
        count == field[6]
        lengths == [i \in 1 .. count |-> Number(body[6 + i])]
        blobs == Cut(SubSeq(body, 7 + count, Len(body)), <<field[5]>> \o lengths)
        ok ==
            /\ Sealed("checkpoint", input, CHECKPOINT_HEADER + FIXED_SUFFIX,
                      l.max_record_bytes)
            /\ Consumed(input) = Len(input)
            /\ field[5] \in 1 .. l.max_snapshot_bytes
            /\ count <= l.max_pending_updates /\ 6 + count <= Len(body)
            /\ \A i \in DOMAIN lengths : lengths[i] \in 1 .. l.max_pending_update_bytes
            /\ Total(lengths) <= l.max_pending_updates_bytes
            /\ field[5] + Total(lengths) = Len(body) - 6 - count
            /\ DigestOf(input) = checkpoint_digest(blobs[1], Tail(blobs))
    IN  IF ok
        THEN {[room |-> field[1], checkpoint_generation |-> field[2],
               source_delta_generation |-> field[3],
               source_delta_end_offset |-> field[4],
               snapshot |-> blobs[1], pending_updates |-> Tail(blobs)]}
        ELSE {}

-----------------------------------------------------------------------------
(* ManifestRecord *)

FIXED_RECORD == FIXED_PREFIX + 7 + FIXED_SUFFIX

ManifestBody(m) ==
    <<Num(m.room), Num(m.revision), m.previous_record_digest,
      Num(m.checkpoint_generation), Num(m.checkpoint_stream_end_offset),
      m.checkpoint_record_digest, Num(m.active_delta_generation)>>

EncodeManifest(m) ==
    Seal("manifest", ManifestBody(m), manifest_digest(ManifestBody(m)))

\* validate_record_fields
ManifestValid(m) ==
    /\ m.revision = 0 <=> m.previous_record_digest = GENESIS_DIGEST
    /\ m.active_delta_generation = m.checkpoint_generation + 1
    /\ m.checkpoint_stream_end_offset # 0

ManifestEncodes(m) ==
    FIXED_RECORD <= ManifestLimits.max_record_bytes /\ ManifestValid(m)

DecodeManifest(input) ==
    LET body == Body(input)
        m == [room |-> Number(body[1]), revision |-> Number(body[2]),
              previous_record_digest |-> body[3],
              checkpoint_generation |-> Number(body[4]),
              checkpoint_stream_end_offset |-> Number(body[5]),
              checkpoint_record_digest |-> body[6],
              active_delta_generation |-> Number(body[7])]
        ok ==
            /\ Sealed("manifest", input, FIXED_RECORD, ManifestLimits.max_record_bytes)
            /\ Consumed(input) = FIXED_RECORD
            /\ ManifestValid(m)
            /\ DigestOf(input) = manifest_digest(body)
    IN  IF ok THEN {m} ELSE {}

-----------------------------------------------------------------------------
(* A stream *)

Kinds == {"frame", "checkpoint", "manifest"}

Encode(r) == CASE kind = "frame" -> EncodeFrame(r)
               [] kind = "checkpoint" -> EncodeCheckpoint(r)
               [] kind = "manifest" -> EncodeManifest(r)

Encodes(r) == CASE kind = "frame" -> FrameEncodes(r)
                [] kind = "checkpoint" -> CheckpointEncodes(r)
                [] kind = "manifest" -> ManifestEncodes(r)

Decode(input) == CASE kind = "frame" -> DecodeFrame(input)
                   [] kind = "checkpoint" -> DecodeCheckpoint(input)
                   [] kind = "manifest" -> DecodeManifest(input)

Candidates == CASE kind = "frame" -> Frames
                [] kind = "checkpoint" -> Checkpoints
                [] kind = "manifest" -> Manifests

RecordsInit ==
    /\ kind \in Kinds
    /\ written = <<>> /\ bytes = <<>> /\ fault = "none"
    /\ rest = <<>> /\ found = <<>>
    /\ verdict = "writing"

\* One append.  A checkpoint stream gets one record; no append looks at what the
\* reader will allow for the whole stream.
Write(r) ==
    /\ verdict = "writing" /\ fault = "none"
    /\ Len(written) < IF kind = "checkpoint" THEN 1 ELSE MaxWritten
    /\ Encodes(r)
    /\ written' = Append(written, r)
    /\ bytes' = bytes \o Encode(r)
    /\ UNCHANGED <<kind, fault, rest, found, verdict>>

\* A cell is changed: to another number, or to another cell of the stream.
Damage(i) ==
    /\ verdict = "writing" /\ fault = "none"
    /\ \E cell \in ({Num(n) : n \in Wrong} \cup ToSet(bytes)) \ {bytes[i]} :
          bytes' = [bytes EXCEPT ![i] = cell]
    /\ fault' = "damaged"
    /\ UNCHANGED <<kind, written, rest, found, verdict>>

\* Only the first n cells are there.
Tear(n) ==
    /\ verdict = "writing" /\ fault = "none"
    /\ bytes' = SubSeq(bytes, 1, n)
    /\ fault' = "torn"
    /\ UNCHANGED <<kind, written, rest, found, verdict>>

\* enforce_limit on the whole input.
StreamLimit == CASE kind = "frame" -> FrameLimits.max_stream_bytes
                 [] kind = "checkpoint" -> CheckpointLimits.max_record_bytes
                 [] kind = "manifest" -> ManifestLimits.max_stream_bytes

BeginRead ==
    /\ verdict = "writing"
    /\ rest' = bytes
    /\ verdict' = IF Len(bytes) <= StreamLimit THEN "reading" ELSE "refused"
    /\ UNCHANGED <<kind, written, bytes, fault, found>>

\* One round of decode_all_with_limits or decode_manifest_stream; a checkpoint is
\* decoded even from an empty stream.
MayDecode == kind = "manifest" => Len(found) < ManifestLimits.max_records

DecodeNext ==
    /\ verdict = "reading"
    /\ IF rest = <<>> /\ (kind = "checkpoint" => found # <<>>)
       THEN /\ verdict' = "read"
            /\ UNCHANGED <<rest, found>>
       ELSE IF ~MayDecode \/ Decode(rest) = {}
       THEN /\ verdict' = "refused"
            /\ UNCHANGED <<rest, found>>
       ELSE /\ \E r \in Decode(rest) : found' = Append(found, r)
            /\ rest' = SubSeq(rest, Consumed(rest) + 1, Len(rest))
            /\ UNCHANGED verdict
    /\ UNCHANGED <<kind, written, bytes, fault>>

RecordsNext ==
    \/ \E r \in Candidates : Write(r)
    \/ \E i \in DOMAIN bytes : Damage(i) \/ Tear(i - 1)
    \/ BeginRead
    \/ DecodeNext

-----------------------------------------------------------------------------
(* Properties *)

\* What a reader accepts is what was written, from the start and without a gap: a
\* changed field is always refused, and a lost end only goes unnoticed between two
\* records (decode_all_with_limits, decode_exact, decode_manifest_stream).
AcceptedIsWhatWasWritten ==
    verdict = "read" =>
        /\ fault # "damaged"
        /\ IsPrefix(found, written)
        /\ fault = "none" => found = written

\* Every record that could be written can be read, by itself and after others: the
\* only undamaged stream that is refused is one the appends took over
\* max_stream_bytes or max_records, which no append checks.
WrittenIsReadable ==
    verdict = "refused" /\ fault = "none" =>
        \/ Len(bytes) > StreamLimit
        \/ kind = "manifest" /\ Len(written) > ManifestLimits.max_records
        \/ kind = "checkpoint" /\ written = <<>>
=============================================================================
