------------------------------ MODULE MCCodecs ------------------------------
(* Codecs with limits of a few cells, and records on both sides of each.     *)
EXTENDS Codecs

MCFrameLimits ==
    [max_frame_bytes |-> 19, max_producer_id_bytes |-> 2, max_updates |-> 3,
     max_update_bytes |-> 2, max_updates_bytes |-> 3, max_stream_bytes |-> 38]

MCCheckpointLimits ==
    [max_record_bytes |-> 19, max_snapshot_bytes |-> 2, max_pending_updates |-> 2,
     max_pending_update_bytes |-> 2, max_pending_updates_bytes |-> 3]

MCManifestLimits ==
    [max_record_bytes |-> 14, max_records |-> 2, max_stream_bytes |-> 42]

Blob(n) == [i \in 1 .. n |-> i]
Blobs == {Blob(n) : n \in 0 .. 3}

Frame(name, sequence, sizes) ==
    [producer |-> Blob(name), epoch |-> 0, sequence |-> sequence, batch_id |-> 5,
     updates |-> [i \in DOMAIN sizes |-> Blob(sizes[i])]]

\* Five on or below every limit, then one over each: the name, no update, an
\* update, their sum, their number, the frame.
MCFrames ==
    {Frame(1, 0, <<1>>), Frame(1, 1, <<1>>), Frame(1, 0, <<0>>),
     Frame(2, 0, <<2, 1>>), Frame(1, 0, <<0, 2, 0>>),
     Frame(0, 0, <<1>>), Frame(3, 0, <<1>>), Frame(1, 0, <<>>), Frame(1, 0, <<3>>),
     Frame(1, 0, <<2, 2>>), Frame(1, 0, <<0, 0, 0, 0>>), Frame(2, 0, <<2, 0, 1>>)}

MCCheckpoints ==
    [room : {0}, checkpoint_generation : {3}, source_delta_generation : {2},
     source_delta_end_offset : {9}, snapshot : Blobs,
     pending_updates : BoundedSeq(Blobs, 3)]

MCManifests ==
    [room : {0}, revision : {0, 1},
     previous_record_digest : {GENESIS_DIGEST, Digest(<<1>>)},
     checkpoint_generation : {0, 1}, checkpoint_stream_end_offset : {0, 7},
     checkpoint_record_digest : {Digest(<<2>>)}, active_delta_generation : {1, 2}]
=============================================================================
