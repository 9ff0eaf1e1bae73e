---------------------------- MODULE UrsulaCalls -----------------------------
(***************************************************************************)
(* What the UrsulaStore trait (src/src/ursula.rs) promises its callers:    *)
(* each call acts on the store at one moment, and its answer tells what    *)
(* happened then as far as it tells anything.  Gateway is written against  *)
(* these effects; UrsulaHttp implements them over the network.             *)
(***************************************************************************)
EXTENDS Ursula

CONSTANTS
    Appends,        \* the append requests callers make
    MaxRecords,     \* bound: records a stream holds
    RecordBytes     \* the bytes of one record

VARIABLES
    created,   \* the stream was made
    call,      \* the call under way, or None
    answer     \* the answer to the last call, None while one is under way

callVars == <<call, answer>>

\* The stream the calls of this module are about, and a position in it.
Stream == Delta(0)
Offset(records) == records * RecordBytes

AppendCall(r) == [op |-> "append", request |-> r]
ReadCall == [op |-> "read"]
RangeCall(i) == [op |-> "range", offset |-> Offset(i - 1), length |-> RecordBytes]
EnsureCall == [op |-> "ensure"]

Calls == {AppendCall(r) : r \in Appends} \cup {RangeCall(i) : i \in 1 .. MaxRecords}
            \cup {ReadCall, EnsureCall}

Answer(kind, value) == [kind |-> kind, value |-> value]
Failures == {Answer(kind, 0) : kind \in {"ambiguous", "rejected", "integrity"}}

Init ==
    /\ UrsulaInit
    /\ created = FALSE
    /\ call = None /\ answer = None

Begin(c) ==
    /\ call = None
    /\ call' = c /\ answer' = None
    /\ UNCHANGED <<storeVars, created>>

\* The call under way is an op and returns.
Returns(op) ==
    /\ call # None
    /\ call.op = op
    /\ call' = None

-----------------------------------------------------------------------------
\* An ambiguous append may also have reached no server at all.
AppendReturns ==
    /\ Returns("append")
    /\ UNCHANGED created
    /\ LET r == call.request IN
       \/ Commits(r) /\ answer' = Answer("committed", Offset(CommittedEnd(r)))
       \/ Deduplicates(r) /\ answer' = Answer("duplicate", Offset(DuplicateEnd(r)))
       \/ (Lost(r) \/ UNCHANGED storeVars) /\ answer' = Answer("ambiguous", 0)
       \/ Rejects(r) /\ answer' = Answer("rejected", 0)
       \/ (Commits(r) \/ Deduplicates(r)) /\ answer' = Answer("integrity", 0)

\* All the bytes of the stream, up to the end of a record.
ReadReturns ==
    /\ Returns("read")
    /\ UNCHANGED <<storeVars, created>>
    /\ \/ \E log \in ReadAll(Stream) : answer' = Answer("bytes", Offset(Len(log)))
       \/ answer' \in Failures

\* The bytes asked for, if the stream has them.
RangeReturns ==
    /\ Returns("range")
    /\ UNCHANGED <<storeVars, created>>
    /\ \/ /\ call.offset + call.length <= Offset(Len(streams[Stream]))
          /\ answer' = Answer("bytes", call.length)
       \/ answer' \in Failures

EnsureReturns ==
    /\ Returns("ensure")
    /\ UNCHANGED storeVars
    /\ \/ created' /\ answer' = Answer("done", 0)
       \/ created' \in {created, TRUE} /\ answer' \in Failures

\* The stream appears before the call that makes it has returned.
Appears ==
    /\ call = EnsureCall
    /\ created' = TRUE
    /\ UNCHANGED <<storeVars, callVars>>

\* A request that was given up arrives.
Late ==
    /\ \E r \in inflight : Deliver(r)
    /\ UNCHANGED <<created, callVars>>

Next ==
    \/ \E c \in Calls : Begin(c)
    \/ AppendReturns \/ ReadReturns \/ RangeReturns \/ EnsureReturns
    \/ Appears \/ Late

Spec == Init /\ [][Next]_<<storeVars, created, callVars>>
=============================================================================
