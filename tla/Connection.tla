----------------------------- MODULE Connection -----------------------------
(***************************************************************************)
(* One WebSocket connection (connection and handle_message in              *)
(* src/src/server.rs): the rooms it joined, the fragmented updates it is   *)
(* still sending, and the loop that expires them before it waits for the   *)
(* next message.                                                           *)
(*                                                                         *)
(* A message for another CRDT, an invalid one and a text frame change      *)
(* nothing and are left out.  A length that does not fit the machine word  *)
(* cannot reach these handlers (ProtocolLimits) and is left out too.       *)
(***************************************************************************)
EXTENDS Integers, FiniteSets, Functions

CONSTANTS
    Rooms,
    BatchIds,
    Pieces,              \* contents a fragment can have
    Size,                \* the bytes of each piece
    Counts, Totals,      \* bounds: counts, sizes and indices a client sends
    MaxFragmentBatches,  \* ServerConfig
    MaxFragmentsPerBatch,
    MaxReassembledBytes,
    MaxFragmentBytesPerConnection,
    FragmentTimeout      \* in ticks of the clock

ASSUME ConnectionAssumption ==
    /\ Size \in [Pieces -> Nat]
    /\ Counts \subseteq Nat /\ Totals \subseteq Nat
    /\ {MaxFragmentBatches, MaxFragmentsPerBatch, MaxReassembledBytes,
        MaxFragmentBytesPerConnection, FragmentTimeout} \subseteq Nat

Keys == [room : Rooms, batch : BatchIds]   \* FragmentKey

VARIABLES
    phase,     \* where the loop is: "expire", "receive" or "closed"
    joined,    \* rooms this connection asked to join and did not leave
    fragments, \* the FragmentBatch of each key that is being received
    offered,   \* history: the fragments sent for each of those keys
    answers,   \* acks sent by the last step
    handed     \* updates handed to a room by the last step

vars == <<phase, joined, fragments, offered, answers, handed>>

Init ==
    /\ phase = "expire"
    /\ joined = {}
    /\ fragments = <<>> /\ offered = <<>>
    /\ answers = {} /\ handed = {}

-----------------------------------------------------------------------------
(* What a message can do to the buffers *)

Open == DOMAIN fragments

Put(f, k, value) == [x \in DOMAIN f \cup {k} |-> IF x = k THEN value ELSE f[x]]

\* The buffers stay as they are.
Keep == UNCHANGED <<fragments, offered>>

\* The batches of keys are forgotten.
Drop(keys) ==
    /\ fragments' = Restrict(fragments, Open \ keys)
    /\ offered' = Restrict(offered, Open \ keys)

\* A message is handled, and the loop goes round.
Handling == phase = "receive" /\ phase' = "expire"

Silent == answers' = {} /\ handed' = {}
Answer(k, status) == answers' = {<<k, status>>} /\ handed' = {}

\* The pieces of a complete batch, handed to its room as one update.
HandOver(k, pieces, total, sent) ==
    /\ handed' = {[key |-> k, pieces |-> pieces, total |-> total, sent |-> sent]}
    /\ answers' = {}

-----------------------------------------------------------------------------
(* Whole messages *)

\* The room is joined for this connection whatever the room will answer.
JoinRequest(r) ==
    /\ Handling
    /\ joined' = joined \cup {r}
    /\ Keep /\ Silent

DocUpdate(k, p) ==
    /\ Handling
    /\ UNCHANGED joined
    /\ Keep
    /\ IF k.room \in joined
       THEN HandOver(k, [i \in {0} |-> p], Size[p], {<<0, p>>})
       ELSE Answer(k, "permission_denied")

\* Variant, for the mutation runs: the buffers outlive the membership.
LeaveKeepingFragments(r) ==
    /\ Handling
    /\ joined' = joined \ {r}
    /\ Keep /\ Silent

Leave(r) ==
    /\ Handling
    /\ joined' = joined \ {r}
    /\ Drop({k \in Open : r \in joined /\ k.room = r})
    /\ Silent

-----------------------------------------------------------------------------
(* DocUpdateFragmentHeader *)

Acceptable(n, total) == /\ n \in 1 .. MaxFragmentsPerBatch
                        /\ total \in 1 .. MaxReassembledBytes

\* The bytes of a family of blocks, given the size of each: byte n of block x.
BytesIn(sizes) == UNION {{x} \X (1 .. sizes[x]) : x \in DOMAIN sizes}
ByteCount(sizes) == Cardinality(BytesIn(sizes))

\* Variant, for the mutation runs: only what has arrived is counted.
ReservedByArrival == ByteCount([k \in Open |-> fragments[k].receivedBytes])

\* The bytes every open header has claimed.
Reserved == ByteCount([k \in Open |-> fragments[k].total])

EmptyBatch(n, total) ==
    [total |-> total, count |-> n, chunks |-> <<>>, received |-> 0,
     receivedBytes |-> 0, left |-> FragmentTimeout]

SameHeader(k, n, total) == fragments[k].total = total /\ fragments[k].count = n

\* Variant, for the mutation runs: the header sent again restarts the clock.
RenewHeader(k, n, total) ==
    /\ k \in Open /\ SameHeader(k, n, total)
    /\ fragments' = [fragments EXCEPT ![k].left = FragmentTimeout]
    /\ UNCHANGED offered /\ Silent

\* The same header again is ignored.
RepeatHeader(k, n, total) ==
    /\ k \in Open /\ SameHeader(k, n, total)
    /\ Keep /\ Silent

\* Another header for an open batch ends it.
ContradictHeader(k, n, total) ==
    /\ k \in Open /\ ~SameHeader(k, n, total)
    /\ Drop({k}) /\ Answer(k, "invalid_update")

OpenBatch(k, n, total) ==
    /\ k \notin Open
    /\ Cardinality(Open) < MaxFragmentBatches
    /\ Reserved + total <= MaxFragmentBytesPerConnection
    /\ fragments' = Put(fragments, k, EmptyBatch(n, total))
    /\ offered' = Put(offered, k, {})
    /\ Silent

RefuseHeader(k, n, total) ==
    /\ Keep
    /\ \/ k.room \notin joined /\ Answer(k, "permission_denied")
       \/ /\ k.room \in joined /\ ~Acceptable(n, total)
          /\ Answer(k, "payload_too_large")
       \/ /\ k.room \in joined /\ Acceptable(n, total) /\ k \notin Open
          /\ IF Cardinality(Open) >= MaxFragmentBatches
             THEN Answer(k, "rate_limited")
             ELSE /\ Reserved + total > MaxFragmentBytesPerConnection
                  /\ Answer(k, "payload_too_large")

Header(k, n, total) ==
    /\ Handling
    /\ UNCHANGED joined
    /\ \/ RefuseHeader(k, n, total)
       \/ /\ k.room \in joined /\ Acceptable(n, total)
          /\ \/ RepeatHeader(k, n, total)
             \/ ContradictHeader(k, n, total)
             \/ OpenBatch(k, n, total)

-----------------------------------------------------------------------------
(* DocUpdateFragment *)

RefuseFragment(k, i) ==
    /\ Keep
    /\ \/ k.room \notin joined /\ Answer(k, "permission_denied")
       \/ k.room \in joined /\ k \notin Open /\ Answer(k, "fragment_timeout")
       \/ /\ k.room \in joined /\ k \in Open /\ i >= fragments[k].count
          /\ Answer(k, "invalid_update")

\* Variant, for the mutation runs: a second fragment replaces the first.
OverwriteFragment(k, i, p) ==
    /\ i \in DOMAIN fragments[k].chunks
    /\ fragments' = [fragments EXCEPT ![k].chunks[i] = p]
    /\ UNCHANGED offered /\ Silent

\* Variant, for the mutation runs: a second fragment with an index is ignored.
IgnoreFragment(k, i, p) ==
    /\ i \in DOMAIN fragments[k].chunks
    /\ UNCHANGED fragments
    /\ offered' = [offered EXCEPT ![k] = @ \cup {<<i, p>>}]
    /\ Silent

\* An index that arrived before: the same bytes are ignored, others end the batch.
RepeatFragment(k, i, p) ==
    /\ i \in DOMAIN fragments[k].chunks
    /\ IF fragments[k].chunks[i] = p
       THEN Keep /\ Silent
       ELSE Drop({k}) /\ Answer(k, "invalid_update")

\* A new index: too many bytes end the batch, the last index completes it.
NewFragment(k, i, p) ==
    LET batch == fragments[k]
        bytes == batch.receivedBytes + Size[p]
        pieces == Put(batch.chunks, i, p)
        sent == offered[k] \cup {<<i, p>>} IN
    /\ i \notin DOMAIN batch.chunks
    /\ IF bytes > batch.total
       THEN Drop({k}) /\ Answer(k, "invalid_update")
       ELSE IF batch.received + 1 < batch.count
       THEN /\ fragments' = Put(fragments, k,
                   [batch EXCEPT !.chunks = pieces, !.received = @ + 1,
                                 !.receivedBytes = bytes])
            /\ offered' = Put(offered, k, sent)
            /\ Silent
       ELSE /\ Drop({k})
            /\ IF bytes = batch.total
               THEN HandOver(k, pieces, batch.total, sent)
               ELSE Answer(k, "invalid_update")

Fragment(k, i, p) ==
    /\ Handling
    /\ UNCHANGED joined
    /\ \/ RefuseFragment(k, i)
       \/ /\ k.room \in joined /\ k \in Open /\ i < fragments[k].count
          /\ RepeatFragment(k, i, p) \/ NewFragment(k, i, p)

-----------------------------------------------------------------------------
(* The loop *)

\* Variant, for the mutation runs: overdue batches vanish without an ack.
ExpireSilently ==
    /\ phase = "expire" /\ phase' = "receive"
    /\ Drop({k \in Open : fragments[k].left = 0})
    /\ Silent
    /\ UNCHANGED joined

\* expire_fragments, at the top of every round.
Expire ==
    LET overdue == {k \in Open : fragments[k].left = 0} IN
    /\ phase = "expire" /\ phase' = "receive"
    /\ Drop(overdue)
    /\ answers' = {<<k, "fragment_timeout">> : k \in overdue} /\ handed' = {}
    /\ UNCHANGED joined

\* No message came within the poll interval.
Quiet ==
    /\ Handling
    /\ UNCHANGED joined /\ Keep /\ Silent

\* The clock moves towards the deadline of every open batch.
Tick ==
    /\ phase # "closed"
    /\ \E k \in Open : fragments[k].left > 0
    /\ fragments' = [k \in Open |->
          [fragments[k] EXCEPT !.left = IF @ = 0 THEN 0 ELSE @ - 1]]
    /\ UNCHANGED <<phase, joined, offered>>
    /\ Silent

\* The peer closes or the socket fails: every joined room is left.
Close ==
    /\ phase = "receive" /\ phase' = "closed"
    /\ joined' = {}
    /\ Drop(Open) /\ Silent

Message ==
    \/ \E r \in Rooms : JoinRequest(r) \/ Leave(r)
    \/ \E k \in Keys, p \in Pieces : DocUpdate(k, p)
    \/ \E k \in Keys, n \in Counts, total \in Totals : Header(k, n, total)
    \/ \E k \in Keys, n \in Counts, p \in Pieces : Fragment(k, n, p)

Next == Message \/ Expire \/ Quiet \/ Tick \/ Close

Spec == Init /\ [][Next]_vars

\* The task runs, its timer fires when no message comes, and time passes.  The
\* client owes nothing.
FairSpec == Spec /\ WF_vars(Expire) /\ WF_vars(Quiet) /\ WF_vars(Tick)

-----------------------------------------------------------------------------
(* Properties *)

BytesOf(pieces) == ByteCount([i \in DOMAIN pieces |-> Size[pieces[i]]])

\* TypeOK: the buffers, whose counters agree with the chunks they count, and no
\* batch is kept once all its fragments are there (FragmentBatch, server.rs).
TypeOK ==
    /\ phase \in {"expire", "receive", "closed"}
    /\ joined \subseteq Rooms
    /\ Open \subseteq Keys /\ DOMAIN offered = Open
    /\ \A k \in Open :
          LET batch == fragments[k] IN
          /\ Acceptable(batch.count, batch.total)
          /\ DOMAIN batch.chunks \subseteq 0 .. batch.count - 1
          /\ \A i \in DOMAIN batch.chunks : batch.chunks[i] \in Pieces
          /\ batch.received = Cardinality(DOMAIN batch.chunks)
          /\ batch.received < batch.count
          /\ batch.receivedBytes = BytesOf(batch.chunks)
          /\ batch.left \in 0 .. FragmentTimeout

\* A connection never buffers more than its limit, nor can it come to: what the
\* open headers may still claim is within it too (docs/DESIGN.md:63).
BuffersBounded ==
    /\ Cardinality(Open) <= MaxFragmentBatches
    /\ \A k \in Open : BytesOf(fragments[k].chunks) <= fragments[k].total
    /\ ByteCount([k \in Open |-> fragments[k].total]) <= MaxFragmentBytesPerConnection

\* An update handed to a room is the bytes the client declared, made of one piece
\* per index, and no other piece was sent for any of them since its header.
HandedIsWhatWasSent ==
    \A update \in handed :
        /\ update.key.room \in joined
        /\ BytesOf(update.pieces) = update.total
        /\ update.sent = {<<i, update.pieces[i]>> : i \in DOMAIN update.pieces}
        /\ DOMAIN update.pieces = 0 .. Cardinality(update.sent) - 1

\* Fragments are kept for joined rooms only, so that a room left and joined again
\* does not complete an update with pieces from before (Leave, server.rs:441).
OpenOnlyInJoinedRooms == \A k \in Open : k.room \in joined

\* The sender hears of every batch that is given up while the room is joined:
\* expired, contradicted and oversized batches are all answered.
DroppedIsAnswered ==
    [][\A k \in Open \ Open' :
          \/ k.room \notin joined'
          \/ \E update \in handed' : update.key = k
          \/ \E answer \in answers' : answer[1] = k]_vars

\* Every open batch ends, whatever the client goes on sending: a deadline once
\* set is not moved (expire_fragments, server.rs:472).
OpenBatchesEnd == \A k \in Keys : k \in Open ~> k \notin Open
=============================================================================
