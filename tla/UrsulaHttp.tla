----------------------------- MODULE UrsulaHttp -----------------------------
(***************************************************************************)
(* HttpUrsula (src/src/ursula.rs): one call of the UrsulaStore trait as    *)
(* HTTP requests to the nodes of an Ursula cluster.  A step is one request *)
(* and its response, or the timeout that stands for it.  Followers answer  *)
(* with a redirect to the leader they know, which may be wrong; reads go   *)
(* window by window while the stream grows.                                *)
(*                                                                         *)
(* The cluster is not part of the repository.  A node that redirects has   *)
(* not applied the request, a node that refuses one with a client error    *)
(* neither, and a window holds bytes of the committed stream.              *)
(***************************************************************************)
EXTENDS Ursula

CONSTANTS
    Appends, MaxRecords, RecordBytes,
    Nodes,          \* origins a redirect can name
    Base,           \* HttpUrsulaConfig::base_url
    Allowed,        \* base_url and redirect_base_urls
    MaxRedirects, SafeRetries, ReadChunkBytes, MaxStreamBytes

ASSUME HttpAssumption ==
    /\ Allowed \subseteq Nodes /\ Base \in Allowed
    /\ {MaxRecords, MaxRedirects, SafeRetries, MaxStreamBytes} \subseteq Nat
    /\ {RecordBytes, ReadChunkBytes} \subseteq Nat \ {0}

VARIABLES
    made,      \* which of the bucket and the stream exist
    call, answer,
    at,        \* the node the next request goes to
    visited,   \* nodes this attempt asked, or is about to ask
    retries,   \* attempts of a safe request that failed
    phase,     \* what an ensure_stream is making
    got,       \* bytes this read has collected
    odd        \* history: a node's answer to this call broke the protocol

created == "stream" \in made

Store == INSTANCE UrsulaCalls

httpVars == <<at, visited, retries, phase, got, odd>>
vars == <<storeVars, made, call, answer, httpVars>>

\* A new attempt starts at the configured node.
AtBase == at' = Base /\ visited' = {Base}

Init ==
    /\ UrsulaInit
    /\ made = {}
    /\ call = None /\ answer = None
    /\ at = Base /\ visited = {Base} /\ retries = 0
    /\ phase = "bucket" /\ got = 0 /\ odd = FALSE

Begin(c) ==
    /\ call = None
    /\ call' = c /\ answer' = None
    /\ AtBase /\ retries' = 0 /\ phase' = "bucket" /\ got' = 0 /\ odd' = FALSE
    /\ UNCHANGED <<storeVars, made>>

\* The call is an op that waits for a response.
Waiting(op) == call # None /\ call.op = op

Return(kind, value) ==
    /\ answer' = Store!Answer(kind, value)
    /\ call' = None
    /\ AtBase /\ retries' = 0 /\ phase' = "bucket" /\ got' = 0

\* send_safe and read_exact_window: the whole attempt again while retries last.
TryAgain(kind) ==
    IF retries < SafeRetries
    THEN /\ retries' = retries + 1
         /\ AtBase
         /\ UNCHANGED <<call, answer, phase, got>>
    ELSE Return(kind, 0)

-----------------------------------------------------------------------------
(* send_following_redirects *)

\* Variant, for the mutation runs: redirects are followed without a limit.
FollowableUnlimited(target) == target \in Allowed \ visited

Followable(target) ==
    /\ Cardinality(visited) <= MaxRedirects
    /\ target \in Allowed \ visited

\* A redirect with a leader id and a target that differs in its origin only.
Redirected(target) ==
    /\ call # None
    /\ Followable(target)
    /\ at' = target
    /\ visited' = visited \cup {target}
    /\ UNCHANGED <<storeVars, made, call, answer, retries, phase, got, odd>>

\* Any other redirect to a leader: malformed, one too many, to a node that is
\* not configured or was asked before.  The outcome counts as ambiguous.
RedirectRefused(target) ==
    /\ call # None
    /\ ~Followable(target)
    /\ UNCHANGED <<storeVars, made, odd>>
    /\ IF call.op = "append" THEN Return("ambiguous", 0) ELSE TryAgain("ambiguous")

-----------------------------------------------------------------------------
(* append: one attempt, never repeated here *)

\* 200, or 204 for a producer tuple the store knows.
AppendAnswered ==
    /\ Waiting("append")
    /\ LET r == call.request IN
       \/ Commits(r) /\ Return("committed", CommittedEnd(r) * RecordBytes)
       \/ Deduplicates(r) /\ Return("duplicate", DuplicateEnd(r) * RecordBytes)
    /\ UNCHANGED <<made, odd>>

\* The same without a readable offset header.
AppendUnreadable ==
    /\ Waiting("append")
    /\ Commits(call.request) \/ Deduplicates(call.request)
    /\ Return("integrity", 0)
    /\ UNCHANGED <<made, odd>>

\* Variant, for the mutation runs: an append is repeated like a read.
AppendLostRepeated ==
    /\ Waiting("append")
    /\ Lost(call.request) \/ UNCHANGED storeVars
    /\ TryAgain("ambiguous")
    /\ UNCHANGED <<made, odd>>

\* No response in time, a broken connection, a server error or a 408: the node
\* applied the request, will apply it, or never does.
AppendLost ==
    /\ Waiting("append")
    /\ Lost(call.request) \/ UNCHANGED storeVars
    /\ Return("ambiguous", 0)
    /\ UNCHANGED <<made, odd>>

\* Every other status, a redirect without a leader id among them.
AppendRefused ==
    /\ Waiting("append")
    /\ Rejects(call.request)
    /\ Return("rejected", 0)
    /\ UNCHANGED <<made, odd>>

-----------------------------------------------------------------------------
(* Reads: read_exact_window, and the loops of read_all and read_range *)

\* Where this read goes on, and how much it asks for.
ReadOffset == IF call.op = "range" THEN call.offset + got ELSE got
WindowBytes == IF call.op = "range" THEN call.length - got ELSE ReadChunkBytes

Reading == call # None /\ call.op \in {"read", "range"}

\* n bytes are kept and the next window is asked for.
NextWindow(n) ==
    /\ got' = got + n
    /\ AtBase /\ retries' = 0
    /\ UNCHANGED <<call, answer, phase>>

\* What to do with n more bytes of a range: an empty window ends it.
RangeGoesOn(n) ==
    IF n = 0 THEN Return("integrity", 0)
    ELSE IF got + n = call.length THEN Return("bytes", call.length)
    ELSE NextWindow(n)

\* Variant, for the mutation runs: an empty window is asked for again.
ReadGoesOnUnchecked(n, upToDate) ==
    IF got + n > MaxStreamBytes THEN Return("integrity", 0)
    ELSE IF upToDate THEN Return("bytes", got + n)
    ELSE NextWindow(n)

\* Variant, for the mutation runs: a stream of exactly the limit is refused.
ReadGoesOnBelowLimit(n, upToDate) ==
    IF n = 0 /\ ~upToDate THEN Return("integrity", 0)
    ELSE IF got + n >= MaxStreamBytes THEN Return("integrity", 0)
    ELSE IF upToDate THEN Return("bytes", got + n)
    ELSE NextWindow(n)

\* What to do with n more bytes of the stream.
ReadGoesOn(n, upToDate) ==
    IF n = 0 /\ ~upToDate THEN Return("integrity", 0)
    ELSE IF got + n > MaxStreamBytes THEN Return("integrity", 0)
    ELSE IF upToDate THEN Return("bytes", got + n)
    ELSE NextWindow(n)

\* A window of n bytes from a node that has the first records of the stream and
\* says that the window reaches their end, if it does.
Window(n) ==
    /\ Reading /\ n <= WindowBytes
    /\ UNCHANGED <<storeVars, made, odd>>
    /\ \E log \in ReadAll(Store!Stream) :
          LET end == Len(log) * RecordBytes
              upToDate == ReadOffset + n = end IN
          /\ ReadOffset + n <= end
          /\ n > 0 \/ upToDate
          /\ IF call.op = "range" THEN RangeGoesOn(n) ELSE ReadGoesOn(n, upToDate)

\* A window that the node calls unfinished and that has nothing in it.
EmptyWindow ==
    /\ Waiting("read")
    /\ ReadGoesOn(0, FALSE)
    /\ odd' = TRUE
    /\ UNCHANGED <<storeVars, made>>

\* No offset header, one that does not match the body, or more than asked for.
WindowUnreadable ==
    /\ Reading
    /\ Return("integrity", 0)
    /\ odd' = TRUE
    /\ UNCHANGED <<storeVars, made>>

\* No whole response in time, a server error or a 408; or a 429.
WindowLost ==
    /\ Reading
    /\ TryAgain("ambiguous") \/ TryAgain("rejected")
    /\ UNCHANGED <<storeVars, made, odd>>

\* Any other status; a node asked for an offset beyond its end.
WindowRefused ==
    /\ Reading
    /\ Return("rejected", 0)
    /\ UNCHANGED <<storeVars, made, odd>>

-----------------------------------------------------------------------------
(* ensure_stream: the bucket, then the stream *)

EnsureAnswered ==
    /\ Waiting("ensure")
    /\ made' = made \cup {phase}
    /\ IF phase = "stream"
       THEN Return("done", 0)
       ELSE /\ phase' = "stream"
            /\ AtBase /\ retries' = 0
            /\ UNCHANGED <<call, answer, got>>
    /\ UNCHANGED <<storeVars, odd>>

\* The request may have been applied all the same.
EnsureLost ==
    /\ Waiting("ensure")
    /\ made' \in {made, made \cup {phase}}
    /\ TryAgain("ambiguous")
    /\ UNCHANGED <<storeVars, odd>>

\* A 429 is tried again, any other status is final; for the stream, so is a
\* success that is neither 200 nor 201.
EnsureRefused ==
    /\ Waiting("ensure")
    /\ \/ TryAgain("rejected") /\ UNCHANGED made
       \/ Return("rejected", 0) /\ UNCHANGED made
       \/ Return("rejected", 0) /\ phase = "stream" /\ made' = made \cup {phase}
    /\ UNCHANGED <<storeVars, odd>>

-----------------------------------------------------------------------------
\* A request nobody waits for is applied.
Late ==
    /\ \E r \in inflight : Deliver(r)
    /\ UNCHANGED <<made, call, answer, httpVars>>

\* One request of the call under way and what became of it.
Hop ==
    \/ \E target \in Nodes : Redirected(target) \/ RedirectRefused(target)
    \/ AppendAnswered \/ AppendUnreadable \/ AppendLost \/ AppendRefused
    \/ \E n \in 0 .. ReadChunkBytes + RecordBytes : Window(n)
    \/ EmptyWindow \/ WindowUnreadable \/ WindowLost \/ WindowRefused
    \/ EnsureAnswered \/ EnsureLost \/ EnsureRefused

Next ==
    \/ \E c \in Store!Calls : Begin(c)
    \/ Hop
    \/ Late

Spec == Init /\ [][Next]_vars

\* Every request ends: with a response, with an error, or at response_timeout.
FairSpec == Spec /\ WF_vars(Hop)

-----------------------------------------------------------------------------
(* Properties *)

\* TypeOK: an attempt asks configured nodes only, none twice, and at most
\* max_redirects after the first; a read of a stream holds max_stream_bytes at
\* most and a read of a range, which knows no limit, less than it was asked for.
TypeOK ==
    /\ made \subseteq {"bucket", "stream"}
    /\ call \in Store!Calls \cup {None}
    /\ at \in visited /\ visited \subseteq Allowed
    /\ Cardinality(visited) \in 1 .. MaxRedirects + 1
    /\ retries \in 0 .. SafeRetries
    /\ phase \in {"bucket", "stream"}
    /\ got \in Nat /\ odd \in BOOLEAN
    /\ Waiting("read") => got <= MaxStreamBytes
    /\ Waiting("range") => got < call.length

\* HttpUrsula is the store the gateway relies on: an append acts on the store at
\* most once per call and its answer says how, and a read made of many windows is
\* the stream as it was at one moment (append, read_all_observed, ursula.rs).
ImplementsStore == Store!Spec

\* Every call returns: redirects, retries and windows are all bounded, even when
\* a node goes on answering with nothing (ursula.rs:474).
CallsReturn == call # None ~> call = None

\* A read finds its stream damaged only when a node broke the protocol, when the
\* stream is over the limit, or when the range is not there (StoreError::Integrity
\* makes a room corrupt).
IntegrityIsJustified ==
    [][Reading /\ answer' # None /\ answer'.kind = "integrity" =>
          LET end == Len(streams[Store!Stream]) * RecordBytes IN
          \/ odd'
          \/ call.op = "read" /\ end > MaxStreamBytes
          \/ call.op = "range" /\ call.offset + call.length > end]_vars
=============================================================================
