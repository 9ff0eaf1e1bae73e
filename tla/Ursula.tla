------------------------------- MODULE Ursula -------------------------------
(***************************************************************************)
(* The Ursula store as the gateway's UrsulaStore trait sees it             *)
(* (src/src/ursula.rs): append-only streams, appends deduplicated by the   *)
(* producer tuple, and answers that may be lost.  The service itself is    *)
(* not part of the repository.                                             *)
(*                                                                         *)
(* One record is one unit of offset, so a stream's end offset is its       *)
(* length.  A stored record is the request that appended it.               *)
(***************************************************************************)
EXTENDS Names, Sequences, FiniteSets

CONSTANTS
    None,
    Orphans,      \* a request of a dead process may still be applied
    StaleReads    \* a read may be served from a lagging follower

ASSUME UrsulaAssumption == Orphans \in BOOLEAN /\ StaleReads \in BOOLEAN

VARIABLES
    streams,    \* the committed records of every stream
    inflight    \* requests sent, not applied, whose answer the gateway gave up

storeVars == <<streams, inflight>>

UrsulaInit ==
    /\ streams = [s \in Streams |-> <<>>]
    /\ inflight = {}

-----------------------------------------------------------------------------
Request(stream, producer, sequence, body) ==
    [stream |-> stream, producer |-> producer, sequence |-> sequence, body |-> body]

\* Where the producer of request r already wrote in its stream.
PositionsOf(r) == {i \in DOMAIN streams[r.stream] :
                      streams[r.stream][i].producer = r.producer}
SequencesOf(r) == {streams[r.stream][i].sequence : i \in PositionsOf(r)}

\* Deduplication looks at the producer and the sequence, never at the body.
Known(r) == \E n \in SequencesOf(r) : n >= r.sequence

InOrder(r) == /\ ~Known(r)
              /\ r.sequence = 0 \/ r.sequence - 1 \in SequencesOf(r)

\* The offset a duplicate answer reports: the end of the producer's last record.
DuplicateEnd(r) == CHOOSE i \in PositionsOf(r) : \A j \in PositionsOf(r) : j <= i

-----------------------------------------------------------------------------
(* What one append can do to the store *)

Commits(r) ==
    /\ InOrder(r)
    /\ streams' = [streams EXCEPT ![r.stream] = Append(@, r)]
    /\ inflight' = inflight \ {r}

\* The end offset a Committed answer to r carries.
CommittedEnd(r) == Len(streams[r.stream]) + 1

\* The tuple was seen before: nothing is written.
Deduplicates(r) == Known(r) /\ UNCHANGED storeVars

\* StoreError::Ambiguous: the request was applied and its answer lost, or it
\* was not applied and may or may not be later.
Lost(r) ==
    \/ Commits(r)
    \/ Deduplicates(r)
    \/ /\ ~Known(r)
       /\ inflight' = inflight \cup {r}
       /\ UNCHANGED streams

\* StoreError::Rejected: this attempt wrote nothing.
Rejects(r) == UNCHANGED storeVars

\* A request whose answer was given up reaches the store late.
Deliver(r) ==
    /\ r \in inflight
    /\ streams' = IF InOrder(r)
                  THEN [streams EXCEPT ![r.stream] = Append(@, r)]
                  ELSE streams
    /\ inflight' = inflight \ {r}

\* Requests under way when the process dies.
LoseConnections == inflight' = IF Orphans THEN inflight ELSE {}

-----------------------------------------------------------------------------
\* What read_all may return: the committed stream or, from a lagging follower,
\* any prefix of it.
ReadAll(s) ==
    IF StaleReads
    THEN {SubSeq(streams[s], 1, n) : n \in 0 .. Len(streams[s])}
    ELSE {streams[s]}
=============================================================================
