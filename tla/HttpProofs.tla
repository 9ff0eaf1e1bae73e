------------------------------ MODULE HttpProofs ------------------------------
(***************************************************************************)
(* Theorems about UrsulaHttp: the limits of its redirects, retries and     *)
(* reads, and that it implements UrsulaCalls, for every cluster, every set *)
(* of requests and every size of window, record and stream.                *)
(***************************************************************************)
EXTENDS UrsulaHttp, FiniteSetTheorems, TLAPS

(* What the limits rest on: the nodes asked are counted, so they are finitely *)
(* many.                                                                      *)
HttpInv == TypeOK /\ IsFiniteSet(visited)

\* What a call that is under way looks like.
LEMMA CallShapes ==
    ASSUME NEW c \in Store!Calls
    PROVE  /\ c.op \in {"append", "read", "range", "ensure"}
           /\ c.op = "range" => /\ c.length = RecordBytes
                                /\ c.offset \in Nat
           /\ c.op = "append" => c.request \in Appends
           /\ c.op = "ensure" => c = Store!EnsureCall
<1>1. CASE \E r \in Appends : c = Store!AppendCall(r)
    BY <1>1 DEF Store!AppendCall
<1>2. CASE \E i \in 1 .. MaxRecords : c = Store!RangeCall(i)
    <2>1. PICK i \in 1 .. MaxRecords : c = Store!RangeCall(i)
        BY <1>2
    <2>2. i \in Nat /\ i - 1 \in Nat /\ RecordBytes \in Nat
        BY HttpAssumption
    <2>3. (i - 1) * RecordBytes \in Nat
        BY <2>2
    <2>4. QED  BY <2>1, <2>3 DEF Store!RangeCall, Store!Offset
<1>3. CASE c = Store!ReadCall
    BY <1>3 DEF Store!ReadCall
<1>4. CASE c = Store!EnsureCall
    BY <1>4 DEF Store!EnsureCall
<1>5. QED  BY <1>1, <1>2, <1>3, <1>4 DEF Store!Calls

\* A new attempt has asked one node.
LEMMA OneNode ==
    /\ Base \in {Base} /\ {Base} \subseteq Allowed
    /\ IsFiniteSet({Base})
    /\ Cardinality({Base}) \in 1 .. MaxRedirects + 1
<1>1. IsFiniteSet({Base}) /\ Cardinality({Base}) = 1
    BY FS_Singleton
<1>2. MaxRedirects \in Nat /\ Base \in Allowed
    BY HttpAssumption
<1>3. QED  BY <1>1, <1>2

\* The state of the nodes, the retries and the phase.
HopsOK ==
    /\ at \in visited /\ visited \subseteq Allowed
    /\ IsFiniteSet(visited)
    /\ Cardinality(visited) \in 1 .. MaxRedirects + 1
    /\ retries \in 0 .. SafeRetries
    /\ phase \in {"bucket", "stream"}

\* The state of the call and what it has read.
CallOK ==
    /\ call \in Store!Calls \cup {None}
    /\ got \in Nat
    /\ Waiting("read") => got <= MaxStreamBytes
    /\ Waiting("range") => got < call.length

\* HttpInv by parts.
LEMMA HttpParts ==
    HttpInv <=> /\ HopsOK /\ CallOK
                /\ made \subseteq {"bucket", "stream"} /\ odd \in BOOLEAN
BY DEF HttpInv, TypeOK, HopsOK, CallOK

\* A call that returns leaves nothing behind.
LEMMA ReturnSteps ==
    ASSUME NEW kind, NEW value, Return(kind, value)
    PROVE  HopsOK' /\ CallOK'
<1>1. HopsOK'
    BY OneNode, HttpAssumption DEF Return, AtBase, HopsOK
<1>2. CallOK'
    BY DEF Return, CallOK, Waiting
<1>3. QED  BY <1>1, <1>2

\* An attempt made again starts over, and retries are counted.
LEMMA TryAgainSteps ==
    ASSUME NEW kind, TryAgain(kind), HopsOK, CallOK
    PROVE  HopsOK' /\ CallOK'
<1>1. CASE retries < SafeRetries
    <2>1. SafeRetries \in Nat
        BY HttpAssumption
    <2>2. retries' \in 0 .. SafeRetries /\ phase' = phase
        BY <1>1, <2>1 DEF TryAgain, HopsOK
    <2>3. HopsOK'
        BY <1>1, <2>2, OneNode DEF TryAgain, AtBase, HopsOK
    <2>4. CallOK'
        BY <1>1 DEF TryAgain, CallOK, Waiting
    <2>5. QED  BY <2>3, <2>4
<1>2. CASE ~(retries < SafeRetries)
    <2>1. Return(kind, 0)
        BY <1>2 DEF TryAgain
    <2>2. QED  BY <2>1, ReturnSteps
<1>3. QED  BY <1>1, <1>2

\* A redirect is followed to one node more, while the limit allows it.
LEMMA RedirectedSteps ==
    ASSUME NEW target, Redirected(target), HopsOK, CallOK
    PROVE  HopsOK' /\ CallOK'
<1>1. /\ Cardinality(visited) <= MaxRedirects
      /\ target \in Allowed /\ target \notin visited
      /\ at' = target /\ visited' = visited \cup {target}
    BY DEF Redirected, Followable
<1>2. /\ IsFiniteSet(visited \cup {target})
      /\ Cardinality(visited \cup {target}) = Cardinality(visited) + 1
    BY <1>1, FS_AddElement DEF HopsOK
<1>3. MaxRedirects \in Nat
    BY HttpAssumption
<1>4. Cardinality(visited \cup {target}) \in 1 .. MaxRedirects + 1
    BY <1>1, <1>2, <1>3 DEF HopsOK
<1>5. HopsOK'
    BY <1>1, <1>2, <1>4 DEF Redirected, HopsOK
<1>6. CallOK'
    BY DEF Redirected, CallOK, Waiting
<1>7. QED  BY <1>5, <1>6

\* What a read keeps of a window.
LEMMA NextWindowSteps ==
    ASSUME NEW n \in Nat, NextWindow(n), HopsOK, CallOK,
           Waiting("read") => got + n <= MaxStreamBytes,
           Waiting("range") => got + n < call.length
    PROVE  HopsOK' /\ CallOK'
<1>1. HopsOK'
    BY OneNode, HttpAssumption DEF NextWindow, AtBase, HopsOK
<1>2. CallOK'
    BY DEF NextWindow, CallOK, Waiting
<1>3. QED  BY <1>1, <1>2

\* A stream is read to the limit at most.
LEMMA ReadGoesOnSteps ==
    ASSUME NEW n \in Nat, NEW upToDate, ReadGoesOn(n, upToDate),
           Waiting("read"), HopsOK, CallOK
    PROVE  HopsOK' /\ CallOK'
<1>1. CASE \E kind, value : Return(kind, value)
    BY <1>1, ReturnSteps
<1>2. CASE NextWindow(n) /\ ~(got + n > MaxStreamBytes)
    <2>1. MaxStreamBytes \in Nat /\ got \in Nat
        BY HttpAssumption DEF CallOK
    <2>2. got + n <= MaxStreamBytes
        BY <1>2, <2>1
    <2>3. ~Waiting("range")
        BY DEF Waiting
    <2>4. QED  BY <1>2, <2>2, <2>3, NextWindowSteps
<1>3. QED  BY <1>1, <1>2 DEF ReadGoesOn

\* A range is read until it is whole.
LEMMA RangeGoesOnSteps ==
    ASSUME NEW n \in Nat, RangeGoesOn(n), n <= call.length - got,
           Waiting("range"), HopsOK, CallOK
    PROVE  HopsOK' /\ CallOK'
<1>1. CASE \E kind, value : Return(kind, value)
    BY <1>1, ReturnSteps
<1>2. CASE NextWindow(n) /\ got + n # call.length
    <2>1. call \in Store!Calls /\ call.op = "range"
        BY DEF CallOK, Waiting
    <2>2. call.length \in Nat /\ got \in Nat
        BY <2>1, CallShapes, HttpAssumption DEF CallOK
    <2>3. got + n < call.length
        BY <1>2, <2>2
    <2>4. ~Waiting("read")
        BY DEF Waiting
    <2>5. QED  BY <1>2, <2>3, <2>4, NextWindowSteps
<1>3. QED  BY <1>1, <1>2 DEF RangeGoesOn

\* A window leaves a read within its limits.
LEMMA WindowSteps ==
    ASSUME NEW n \in 0 .. ReadChunkBytes + RecordBytes, Window(n), HopsOK, CallOK
    PROVE  HopsOK' /\ CallOK'
<1>1. n \in Nat
    OBVIOUS
<1>2. CASE Waiting("range")
    <2>1. n <= call.length - got
        BY <1>2 DEF Window, WindowBytes, Waiting
    <2>2. RangeGoesOn(n)
        BY <1>2 DEF Window, Waiting
    <2>3. QED  BY <1>1, <1>2, <2>1, <2>2, RangeGoesOnSteps
<1>3. CASE Waiting("read")
    <2>1. PICK upToDate : ReadGoesOn(n, upToDate)
        BY <1>3 DEF Window, Waiting
    <2>2. QED  BY <1>1, <1>3, <2>1, ReadGoesOnSteps
<1>4. QED  BY <1>2, <1>3 DEF Window, Reading, Waiting

\* Every step of UrsulaHttp keeps within the limits.
LEMMA HttpStep ==
    HttpInv /\ [Next]_vars => HttpInv'
<1> SUFFICES ASSUME HttpInv, [Next]_vars
             PROVE  HttpInv'
    OBVIOUS
<1>1. /\ HopsOK /\ CallOK
      /\ made \subseteq {"bucket", "stream"} /\ odd \in BOOLEAN
    BY HttpParts
<1> DEFINE Good == /\ HopsOK' /\ CallOK'
                   /\ made' \subseteq {"bucket", "stream"} /\ odd' \in BOOLEAN
<1>2. Good => HttpInv'
    BY DEF HttpInv, TypeOK, HopsOK, CallOK, Waiting
<1>3. CASE UNCHANGED vars
    <2>1. HopsOK' /\ CallOK'
        BY <1>1, <1>3 DEF vars, httpVars, HopsOK, CallOK, Waiting
    <2>2. QED  BY <1>1, <1>2, <1>3, <2>1 DEF vars, httpVars
<1>4. ASSUME NEW c \in Store!Calls, Begin(c)
      PROVE  HttpInv'
    <2>1. HopsOK'
        BY <1>4, OneNode, HttpAssumption DEF Begin, AtBase, HopsOK
    <2>2. c.op = "range" => c.length \in Nat \ {0}
        BY <1>4, CallShapes, HttpAssumption
    <2>3. CallOK'
        BY <1>4, <2>2, HttpAssumption DEF Begin, CallOK, Waiting
    <2>4. QED  BY <1>1, <1>2, <1>4, <2>1, <2>3 DEF Begin
<1>5. ASSUME NEW target \in Nodes, Redirected(target)
      PROVE  HttpInv'
    <2>1. HopsOK' /\ CallOK'
        BY <1>1, <1>5, RedirectedSteps
    <2>2. QED  BY <1>1, <1>2, <1>5, <2>1 DEF Redirected
<1>6. ASSUME NEW target \in Nodes, RedirectRefused(target)
      PROVE  HttpInv'
    <2>1. (\E kind, value : Return(kind, value)) \/ (\E kind : TryAgain(kind))
        BY <1>6 DEF RedirectRefused
    <2>2. HopsOK' /\ CallOK'
        BY <1>1, <2>1, ReturnSteps, TryAgainSteps
    <2>3. QED  BY <1>1, <1>2, <1>6, <2>2 DEF RedirectRefused
<1>7. CASE AppendAnswered \/ AppendUnreadable \/ AppendLost \/ AppendRefused
    <2>1. \E kind, value : Return(kind, value)
        BY <1>7 DEF AppendAnswered, AppendUnreadable, AppendLost, AppendRefused
    <2>2. HopsOK' /\ CallOK'
        BY <2>1, ReturnSteps
    <2>3. made' = made /\ odd' = odd
        BY <1>7 DEF AppendAnswered, AppendUnreadable, AppendLost, AppendRefused
    <2>4. QED  BY <1>1, <1>2, <2>2, <2>3
<1>8. ASSUME NEW n \in 0 .. ReadChunkBytes + RecordBytes, Window(n)
      PROVE  HttpInv'
    <2>1. HopsOK' /\ CallOK'
        BY <1>1, <1>8, WindowSteps
    <2>2. QED  BY <1>1, <1>2, <1>8, <2>1 DEF Window
<1>9. CASE EmptyWindow
    <2>1. HopsOK' /\ CallOK'
        BY <1>1, <1>9, ReadGoesOnSteps DEF EmptyWindow
    <2>2. QED  BY <1>1, <1>2, <1>9, <2>1 DEF EmptyWindow
<1>10. CASE WindowUnreadable \/ WindowRefused \/ WindowLost
    <2>1. (\E kind, value : Return(kind, value)) \/ (\E kind : TryAgain(kind))
        BY <1>10 DEF WindowUnreadable, WindowRefused, WindowLost
    <2>2. HopsOK' /\ CallOK'
        BY <1>1, <2>1, ReturnSteps, TryAgainSteps
    <2>3. made' = made /\ odd' \in BOOLEAN
        BY <1>1, <1>10 DEF WindowUnreadable, WindowRefused, WindowLost
    <2>4. QED  BY <1>1, <1>2, <2>2, <2>3
<1>11. CASE EnsureAnswered
    <2>1. HopsOK' /\ CallOK'
        <3>1. CASE phase = "stream"
            BY <1>11, <3>1, ReturnSteps DEF EnsureAnswered
        <3>2. CASE phase # "stream"
            <4>1. HopsOK'
                BY <1>1, <1>11, <3>2, OneNode, HttpAssumption
                DEF EnsureAnswered, AtBase, HopsOK
            <4>2. CallOK'
                BY <1>1, <1>11, <3>2 DEF EnsureAnswered, CallOK, Waiting
            <4>3. QED  BY <4>1, <4>2
        <3>3. QED  BY <3>1, <3>2
    <2>2. made' \subseteq {"bucket", "stream"} /\ odd' = odd
        BY <1>1, <1>11 DEF EnsureAnswered, HopsOK
    <2>3. QED  BY <1>1, <1>2, <2>1, <2>2
<1>12. CASE EnsureLost \/ EnsureRefused
    <2>1. (\E kind, value : Return(kind, value)) \/ (\E kind : TryAgain(kind))
        BY <1>12 DEF EnsureLost, EnsureRefused
    <2>2. HopsOK' /\ CallOK'
        BY <1>1, <2>1, ReturnSteps, TryAgainSteps
    <2>3. made' \subseteq {"bucket", "stream"} /\ odd' = odd
        BY <1>1, <1>12 DEF EnsureLost, EnsureRefused, HopsOK
    <2>4. QED  BY <1>1, <1>2, <2>2, <2>3
<1>13. CASE Late
    <2>1. HopsOK' /\ CallOK'
        BY <1>1, <1>13 DEF Late, httpVars, HopsOK, CallOK, Waiting
    <2>2. QED  BY <1>1, <1>2, <1>13, <2>1 DEF Late, httpVars
<1>14. QED
    BY <1>3, <1>4, <1>5, <1>6, <1>7, <1>8, <1>9, <1>10, <1>11, <1>12, <1>13
    DEF Next, Hop

\* HttpHolds: the limits hold in every state the client can reach.
THEOREM HttpHolds == Spec => []HttpInv
<1>1. ASSUME Init PROVE HttpInv
    <2>1. HopsOK
        BY <1>1, OneNode, HttpAssumption DEF Init, HopsOK
    <2>2. CallOK
        BY <1>1 DEF Init, CallOK, Waiting
    <2>3. QED  BY <1>1, <2>1, <2>2, HttpParts DEF Init
<1>2. QED  BY <1>1, HttpStep, PTL DEF Spec

\* LimitsHold: in every cluster an attempt asks configured nodes only, none
\* twice, at most max_redirects after the first; requests are retried
\* safe_retries times at most; and a read never holds more than its limit.
THEOREM LimitsHold == Spec => []TypeOK
BY HttpHolds, PTL DEF HttpInv


-----------------------------------------------------------------------------
(* The refinement *)

\* The effects UrsulaCalls speaks of are those of Ursula.
LEMMA SameStore ==
    /\ Store!Stream = Delta(0)
    /\ Store!UrsulaInit <=> UrsulaInit
    /\ Store!storeVars = storeVars
    /\ \A r : /\ Store!Commits(r) <=> Commits(r)
              /\ Store!Deduplicates(r) <=> Deduplicates(r)
              /\ Store!Lost(r) <=> Lost(r)
              /\ Store!Rejects(r) <=> Rejects(r)
              /\ Store!Deliver(r) <=> Deliver(r)
              /\ Store!CommittedEnd(r) = CommittedEnd(r)
              /\ Store!DuplicateEnd(r) = DuplicateEnd(r)
    /\ \A s : Store!ReadAll(s) = ReadAll(s)
<1>1. Store!Stream = Delta(0) /\ Store!storeVars = storeVars
    BY DEF Store!Stream, Store!Delta, Delta, Store!storeVars, storeVars
<1>2. \A r : Store!PositionsOf(r) = PositionsOf(r)
    BY DEF Store!PositionsOf, PositionsOf
<1>3. \A r : Store!SequencesOf(r) = SequencesOf(r)
    BY <1>2 DEF Store!SequencesOf, SequencesOf
<1>4. \A r : Store!Known(r) <=> Known(r)
    BY <1>3 DEF Store!Known, Known
<1>5. \A r : Store!InOrder(r) <=> InOrder(r)
    BY <1>3, <1>4 DEF Store!InOrder, InOrder
<1>6. ASSUME NEW r
      PROVE  /\ Store!Commits(r) <=> Commits(r)
             /\ Store!Deduplicates(r) <=> Deduplicates(r)
             /\ Store!Lost(r) <=> Lost(r)
             /\ Store!Rejects(r) <=> Rejects(r)
             /\ Store!Deliver(r) <=> Deliver(r)
             /\ Store!CommittedEnd(r) = CommittedEnd(r)
             /\ Store!DuplicateEnd(r) = DuplicateEnd(r)
    <2>1. Store!Commits(r) <=> Commits(r)
        BY <1>5 DEF Store!Commits, Commits
    <2>2. Store!Deduplicates(r) <=> Deduplicates(r)
        BY <1>4 DEF Store!Deduplicates, Deduplicates, Store!storeVars, storeVars
    <2>3. Store!Lost(r) <=> Lost(r)
        BY <1>4, <2>1, <2>2 DEF Store!Lost, Lost
    <2>4. Store!Rejects(r) <=> Rejects(r)
        BY DEF Store!Rejects, Rejects, Store!storeVars, storeVars
    <2>5. Store!Deliver(r) <=> Deliver(r)
        BY <1>5 DEF Store!Deliver, Deliver
    <2>6. Store!CommittedEnd(r) = CommittedEnd(r)
        BY DEF Store!CommittedEnd, CommittedEnd
    <2>7. Store!DuplicateEnd(r) = DuplicateEnd(r)
        BY <1>2 DEF Store!DuplicateEnd, DuplicateEnd
    <2>8. QED  BY <2>1, <2>2, <2>3, <2>4, <2>5, <2>6, <2>7
<1>7. Store!UrsulaInit <=> UrsulaInit
    <2>1. Store!Streams = Streams
        BY DEF Store!Streams, Streams, Store!Manifest, Manifest, Store!Delta, Delta,
               Store!Checkpoint, Checkpoint, Store!Generations, Generations
    <2>2. QED  BY <2>1 DEF Store!UrsulaInit, UrsulaInit
<1>8. \A s : Store!ReadAll(s) = ReadAll(s)
    BY DEF Store!ReadAll, ReadAll
<1>9. QED  BY <1>1, <1>6, <1>7, <1>8


\* The records of the streams are requests that callers made.
StoreOK ==
    /\ streams \in [Streams -> Seq(Appends)]
    /\ inflight \subseteq Appends

\* The stream that is read is one of the store's.
LEMMA StreamIsThere == Delta(0) \in Streams
BY NamesAssumption DEF Streams, Generations

\* No effect of an append puts anything else into the store.
LEMMA EffectsOfAppends ==
    ASSUME NEW r \in Appends, StoreOK,
           Commits(r) \/ Deduplicates(r) \/ Lost(r) \/ Rejects(r) \/ Deliver(r)
    PROVE  StoreOK'
<1>1. \/ streams' = streams
      \/ streams' = [streams EXCEPT ![r.stream] = Append(@, r)]
    BY DEF Commits, Deduplicates, Lost, Rejects, Deliver, storeVars
<1>2. inflight' \subseteq inflight \cup {r}
    BY DEF Commits, Deduplicates, Lost, Rejects, Deliver, storeVars
<1>3. \A s \in Streams : Append(streams[s], r) \in Seq(Appends)
    BY DEF StoreOK
<1>4. streams' \in [Streams -> Seq(Appends)]
    BY <1>1, <1>3 DEF StoreOK
<1>5. QED  BY <1>2, <1>4 DEF StoreOK

\* Every step of UrsulaHttp leaves requests in the store.
LEMMA StoreStep ==
    HttpInv /\ StoreOK /\ [Next]_vars => StoreOK'
<1> SUFFICES ASSUME HttpInv, StoreOK, [Next]_vars
             PROVE  StoreOK'
    OBVIOUS
<1>1. CASE UNCHANGED storeVars
    BY <1>1 DEF storeVars, StoreOK
<1>2. CASE AppendAnswered \/ AppendUnreadable \/ AppendLost \/ AppendRefused
    <2>1. call \in Store!Calls /\ call.op = "append"
        BY <1>2 DEF AppendAnswered, AppendUnreadable, AppendLost, AppendRefused, Waiting,
                    HttpInv, TypeOK
    <2>2. call.request \in Appends
        BY <2>1, CallShapes
    <2>3. \/ UNCHANGED storeVars
          \/ Commits(call.request) \/ Deduplicates(call.request)
          \/ Lost(call.request) \/ Rejects(call.request)
        BY <1>2 DEF AppendAnswered, AppendUnreadable, AppendLost, AppendRefused
    <2>4. QED  BY <1>1, <2>2, <2>3, EffectsOfAppends
<1>3. CASE Late
    <2>1. PICK r \in inflight : Deliver(r)
        BY <1>3 DEF Late
    <2>2. QED  BY <2>1, EffectsOfAppends DEF StoreOK
<1>4. UNCHANGED storeVars \/ Late
          \/ AppendAnswered \/ AppendUnreadable \/ AppendLost \/ AppendRefused
    BY DEF Next, Hop, Begin, Redirected, RedirectRefused, Window, EmptyWindow,
           WindowUnreadable, WindowLost, WindowRefused, EnsureAnswered, EnsureLost,
           EnsureRefused, vars, storeVars
<1>5. QED  BY <1>1, <1>2, <1>3, <1>4

\* What a node has of a stream is no longer than the stream.
LEMMA WindowsAreWithin ==
    ASSUME StoreOK, NEW log \in ReadAll(Delta(0))
    PROVE  /\ Len(log) * RecordBytes \in Nat
           /\ Len(streams[Delta(0)]) * RecordBytes \in Nat
           /\ Len(log) * RecordBytes <= Len(streams[Delta(0)]) * RecordBytes
           /\ ~StaleReads => log = streams[Delta(0)]
<1> DEFINE all == streams[Delta(0)]
<1>1. all \in Seq(Appends) /\ Len(all) \in Nat
    BY StreamIsThere DEF StoreOK
<1>2. Len(log) \in Nat /\ Len(log) <= Len(all)
    <2>1. CASE log = all
        BY <1>1, <2>1
    <2>2. CASE \E n \in 0 .. Len(all) : log = SubSeq(all, 1, n)
        <3>1. PICK n \in 0 .. Len(all) : log = SubSeq(all, 1, n)
            BY <2>2
        <3>2. Len(log) = n
            BY <1>1, <3>1
        <3>3. QED  BY <1>1, <3>2
    <2>3. QED  BY <2>1, <2>2 DEF ReadAll
<1>3. ~StaleReads => log = all
    BY DEF ReadAll
<1>4. RecordBytes \in Nat
    BY HttpAssumption
<1> HIDE DEF all
<1>5. \A a, b, c \in Nat : a <= b => a * c \in Nat /\ b * c \in Nat /\ a * c <= b * c
    OBVIOUS
<1>6. /\ Len(log) * RecordBytes \in Nat /\ Len(all) * RecordBytes \in Nat
      /\ Len(log) * RecordBytes <= Len(all) * RecordBytes
    BY <1>1, <1>2, <1>4, <1>5
<1>7. QED  BY <1>3, <1>6 DEF all


\* A step of UrsulaCalls, or none.
StoreStepOrNone == [Store!Next]_<<Store!storeVars, created, Store!callVars>>

\* An answer that tells of a failure.
LEMMA FailureAnswers ==
    ASSUME NEW kind \in {"ambiguous", "rejected", "integrity"}
    PROVE  Store!Answer(kind, 0) \in Store!Failures
BY DEF Store!Failures

\* A step within a call that neither the store nor the caller sees.
LEMMA UnseenStep ==
    ASSUME UNCHANGED <<storeVars, created, call, answer>>
    PROVE  StoreStepOrNone
<1>1. UNCHANGED Store!storeVars
    BY DEF storeVars, Store!storeVars
<1>2. QED  BY <1>1 DEF StoreStepOrNone, Store!callVars

\* A read or a range that fails, or goes on, is one of the abstract steps.
LEMMA ReadFails ==
    ASSUME Reading, UNCHANGED <<storeVars, made>>,
           NEW kind \in {"ambiguous", "rejected", "integrity"},
           Return(kind, 0) \/ TryAgain(kind)
    PROVE  StoreStepOrNone
<1>0. UNCHANGED created
    BY DEF created
<1>1. CASE Return(kind, 0)
    <2>1. answer' \in Store!Failures /\ call' = None /\ call # None
        BY <1>1, FailureAnswers DEF Return, Reading
    <2>2. UNCHANGED Store!storeVars
        BY DEF storeVars, Store!storeVars
    <2>3. Store!ReadReturns \/ Store!RangeReturns
        BY <1>0, <2>1, <2>2 DEF Store!ReadReturns, Store!RangeReturns, Store!Returns, Reading
    <2>4. QED  BY <2>3 DEF StoreStepOrNone, Store!Next
<1>2. CASE TryAgain(kind) /\ ~Return(kind, 0)
    <2>1. UNCHANGED <<call, answer>>
        BY <1>2 DEF TryAgain
    <2>2. QED  BY <1>0, <2>1, UnseenStep
<1>3. QED  BY <1>1, <1>2

\* A window of a read returns all of what a node has, fails, or is not the last.
LEMMA WindowRefines ==
    ASSUME StoreOK, CallOK, NEW n \in 0 .. ReadChunkBytes + RecordBytes, Window(n)
    PROVE  StoreStepOrNone
<1>1. PICK log \in ReadAll(Delta(0)) :
          LET end == Len(log) * RecordBytes
              upToDate == ReadOffset + n = end IN
          /\ ReadOffset + n <= end
          /\ IF call.op = "range" THEN RangeGoesOn(n) ELSE ReadGoesOn(n, upToDate)
    BY SameStore DEF Window
<1>2. UNCHANGED <<storeVars, made>> /\ Reading /\ n \in Nat
    BY DEF Window
<1>3. UNCHANGED <<storeVars, created>>
    BY <1>2 DEF created
<1>4. CASE Return("integrity", 0)
    BY <1>2, <1>4, ReadFails
<1>5. CASE NextWindow(n)
    BY <1>3, <1>5, UnseenStep DEF NextWindow
<1>6. UNCHANGED Store!storeVars
    BY <1>2 DEF storeVars, Store!storeVars
<1>7. CASE call.op = "range" /\ got + n = call.length /\ Return("bytes", call.length)
    <2>1. call \in Store!Calls /\ call # None
        BY <1>2 DEF CallOK, Reading
    <2>2. call.offset \in Nat /\ call.length \in Nat /\ got \in Nat
        BY <1>7, <2>1, CallShapes, HttpAssumption DEF CallOK
    <2>3. call.offset + got + n <= Len(log) * RecordBytes
        BY <1>1, <1>7 DEF ReadOffset
    <2>4. call.offset + call.length <= Len(log) * RecordBytes
        BY <1>2, <1>7, <2>2, <2>3, WindowsAreWithin
    <2>5. call.offset + call.length <= Len(streams[Delta(0)]) * RecordBytes
        <3>1. /\ Len(log) * RecordBytes \in Nat
              /\ Len(streams[Delta(0)]) * RecordBytes \in Nat
              /\ Len(log) * RecordBytes <= Len(streams[Delta(0)]) * RecordBytes
            BY WindowsAreWithin
        <3> DEFINE a == Len(log) * RecordBytes
                   b == Len(streams[Delta(0)]) * RecordBytes
        <3>2. a \in Nat /\ b \in Nat /\ a <= b /\ call.offset + call.length <= a
            BY <2>4, <3>1
        <3> HIDE DEF a, b
        <3>3. call.offset + call.length <= b
            BY <2>2, <3>2
        <3>4. QED  BY <3>3 DEF b
    <2>6. Store!RangeReturns
        BY <1>3, <1>6, <1>7, <2>1, <2>5, SameStore
        DEF Store!RangeReturns, Store!Returns, Store!Offset, Return
    <2>7. QED  BY <2>6 DEF StoreStepOrNone, Store!Next
<1>8. CASE call.op = "read" /\ ReadOffset + n = Len(log) * RecordBytes
             /\ Return("bytes", got + n)
    <2>1. got + n = Store!Offset(Len(log))
        BY <1>8 DEF ReadOffset, Store!Offset
    <2>2. log \in Store!ReadAll(Store!Stream)
        BY <1>1, SameStore
    <2>3. Store!ReadReturns
        BY <1>2, <1>3, <1>6, <1>8, <2>1, <2>2
        DEF Store!ReadReturns, Store!Returns, Return, Reading
    <2>4. QED  BY <2>3 DEF StoreStepOrNone, Store!Next
<1>9. CASE call.op = "range"
    BY <1>1, <1>4, <1>5, <1>7, <1>9 DEF RangeGoesOn
<1>10. CASE call.op = "read"
    BY <1>1, <1>4, <1>5, <1>8, <1>10 DEF ReadGoesOn
<1>11. QED  BY <1>2, <1>9, <1>10 DEF Reading

\* An append acts on the store once, and its answer says how.
LEMMA AppendRefines ==
    ASSUME AppendAnswered \/ AppendUnreadable \/ AppendLost \/ AppendRefused
    PROVE  StoreStepOrNone
<1> DEFINE r == call.request
<1>1. call # None /\ call.op = "append" /\ call' = None
    BY DEF AppendAnswered, AppendUnreadable, AppendLost, AppendRefused, Waiting, Return
<1>2. UNCHANGED created
    BY DEF AppendAnswered, AppendUnreadable, AppendLost, AppendRefused, created
<1> DEFINE Answered(kind, value) == answer' = Store!Answer(kind, value)
<1>3. \/ Commits(r) /\ Answered("committed", CommittedEnd(r) * RecordBytes)
      \/ Deduplicates(r) /\ Answered("duplicate", DuplicateEnd(r) * RecordBytes)
      \/ (Lost(r) \/ UNCHANGED storeVars) /\ Answered("ambiguous", 0)
      \/ Rejects(r) /\ Answered("rejected", 0)
      \/ (Commits(r) \/ Deduplicates(r)) /\ Answered("integrity", 0)
    BY DEF AppendAnswered, AppendUnreadable, AppendLost, AppendRefused, Return
<1>4. /\ Store!Commits(r) <=> Commits(r)
      /\ Store!Deduplicates(r) <=> Deduplicates(r)
      /\ Store!Lost(r) <=> Lost(r)
      /\ Store!Rejects(r) <=> Rejects(r)
      /\ Store!CommittedEnd(r) = CommittedEnd(r)
      /\ Store!DuplicateEnd(r) = DuplicateEnd(r)
    BY SameStore
<1>5. UNCHANGED storeVars => UNCHANGED Store!storeVars
    BY DEF storeVars, Store!storeVars
<1>6. Store!AppendReturns
    BY <1>1, <1>2, <1>3, <1>4, <1>5 DEF Store!AppendReturns, Store!Returns, Store!Offset
<1>7. QED  BY <1>6 DEF StoreStepOrNone, Store!Next

\* Creation appears in the store at one moment of the call, or not at all.
LEMMA EnsureRefines ==
    ASSUME CallOK, HopsOK, EnsureAnswered \/ EnsureLost \/ EnsureRefused
    PROVE  StoreStepOrNone
<1>1. call # None /\ call.op = "ensure" /\ UNCHANGED storeVars
    BY DEF EnsureAnswered, EnsureLost, EnsureRefused, Waiting
<1>2. call = Store!EnsureCall
    BY <1>1, CallShapes DEF CallOK
<1>3. UNCHANGED Store!storeVars
    BY <1>1 DEF storeVars, Store!storeVars
<1>4. created' \in {created, TRUE}
    <2>1. made' = made \/ made' = made \cup {phase}
        BY DEF EnsureAnswered, EnsureLost, EnsureRefused
    <2>2. created' = created \/ created' = TRUE
        <3>1. CASE made' = made
            BY <3>1 DEF created
        <3>2. CASE made' = made \cup {phase} /\ phase = "stream"
            <4>1. "stream" \in made'
                BY <3>2
            <4>2. created' = TRUE
                BY <4>1 DEF created
            <4>3. QED  BY <4>2
        <3>3. CASE made' = made \cup {phase} /\ phase # "stream"
            <4>1. "stream" \in made' <=> "stream" \in made
                BY <3>3
            <4>2. QED  BY <4>1 DEF created
        <3>4. QED  BY <2>1, <3>1, <3>2, <3>3
    <2>3. QED  BY <2>2
<1>5. CASE UNCHANGED <<call, answer>>
    <2>1. CASE created' = created
        BY <1>1, <1>5, <2>1, UnseenStep
    <2>2. CASE created' = TRUE
        <3>1. Store!Appears
            BY <1>2, <1>3, <1>5, <2>2 DEF Store!Appears, Store!callVars
        <3>2. QED  BY <3>1 DEF StoreStepOrNone, Store!Next
    <2>3. QED  BY <1>4, <2>1, <2>2
<1>6. CASE \E kind \in {"ambiguous", "rejected"} : Return(kind, 0)
    <2>1. answer' \in Store!Failures /\ call' = None
        BY <1>6, FailureAnswers DEF Return
    <2>2. Store!EnsureReturns
        BY <1>1, <1>3, <1>4, <2>1 DEF Store!EnsureReturns, Store!Returns
    <2>3. QED  BY <2>2 DEF StoreStepOrNone, Store!Next
<1>7. CASE Return("done", 0) /\ EnsureAnswered /\ phase = "stream"
    <2>1. created'
        BY <1>7 DEF EnsureAnswered, created
    <2>2. Store!EnsureReturns
        BY <1>1, <1>3, <1>7, <2>1 DEF Store!EnsureReturns, Store!Returns, Return
    <2>3. QED  BY <2>2 DEF StoreStepOrNone, Store!Next
<1>8. QED
    BY <1>5, <1>6, <1>7 DEF EnsureAnswered, EnsureLost, EnsureRefused, TryAgain

\* Every step of UrsulaHttp is a step of UrsulaCalls or invisible to it.
LEMMA StepRefines ==
    HttpInv /\ StoreOK /\ [Next]_vars => StoreStepOrNone
<1> SUFFICES ASSUME HttpInv, StoreOK, [Next]_vars
             PROVE  StoreStepOrNone
    OBVIOUS
<1>0. HopsOK /\ CallOK
    BY HttpParts
<1>1. CASE UNCHANGED vars
    BY <1>1, UnseenStep DEF vars, created
<1>2. ASSUME NEW c \in Store!Calls, Begin(c)
      PROVE  StoreStepOrNone
    <2>1. UNCHANGED created /\ UNCHANGED Store!storeVars
        BY <1>2 DEF Begin, created, storeVars, Store!storeVars
    <2>2. Store!Begin(c)
        BY <1>2, <2>1 DEF Begin, Store!Begin
    <2>3. QED  BY <2>2 DEF StoreStepOrNone, Store!Next
<1>3. ASSUME NEW target \in Nodes, Redirected(target)
      PROVE  StoreStepOrNone
    BY <1>3, UnseenStep DEF Redirected, created
<1>4. ASSUME NEW target \in Nodes, RedirectRefused(target)
      PROVE  StoreStepOrNone
    <2>1. UNCHANGED <<storeVars, made>> /\ call # None /\ call \in Store!Calls
        BY <1>0, <1>4 DEF RedirectRefused, CallOK
    <2>2. UNCHANGED created /\ UNCHANGED Store!storeVars
        BY <2>1 DEF created, storeVars, Store!storeVars
    <2>3. CASE call.op = "append"
        <3>1. answer' = Store!Answer("ambiguous", 0) /\ call' = None
            BY <1>4, <2>3 DEF RedirectRefused, Return
        <3>2. Store!AppendReturns
            BY <2>1, <2>2, <2>3, <3>1 DEF Store!AppendReturns, Store!Returns
        <3>3. QED  BY <3>2 DEF StoreStepOrNone, Store!Next
    <2>4. CASE Reading
        <3>1. TryAgain("ambiguous")
            BY <1>4, <2>4 DEF RedirectRefused, Reading
        <3>2. QED  BY <2>1, <2>4, <3>1, ReadFails
    <2>5. CASE call.op = "ensure"
        <3>1. TryAgain("ambiguous")
            BY <1>4, <2>5 DEF RedirectRefused
        <3>2. CASE UNCHANGED <<call, answer>>
            BY <2>1, <2>2, <3>2, UnseenStep
        <3>3. CASE Return("ambiguous", 0)
            <4>1. answer' \in Store!Failures /\ call' = None
                BY <3>3, FailureAnswers DEF Return
            <4>2. Store!EnsureReturns
                BY <2>1, <2>2, <2>5, <4>1 DEF Store!EnsureReturns, Store!Returns
            <4>3. QED  BY <4>2 DEF StoreStepOrNone, Store!Next
        <3>4. QED  BY <3>1, <3>2, <3>3 DEF TryAgain
    <2>6. QED  BY <2>1, <2>3, <2>4, <2>5, CallShapes DEF Reading
<1>5. CASE AppendAnswered \/ AppendUnreadable \/ AppendLost \/ AppendRefused
    BY <1>5, AppendRefines
<1>6. ASSUME NEW n \in 0 .. ReadChunkBytes + RecordBytes, Window(n)
      PROVE  StoreStepOrNone
    BY <1>0, <1>6, WindowRefines
<1>7. CASE EmptyWindow
    <2>1. Return("integrity", 0) /\ Reading /\ UNCHANGED <<storeVars, made>>
        BY <1>7 DEF EmptyWindow, ReadGoesOn, Waiting, Reading
    <2>2. QED  BY <2>1, ReadFails
<1>8. CASE WindowUnreadable \/ WindowRefused \/ WindowLost
    <2>1. Reading /\ UNCHANGED <<storeVars, made>>
        BY <1>8 DEF WindowUnreadable, WindowRefused, WindowLost
    <2>2. \E kind \in {"ambiguous", "rejected", "integrity"} :
              Return(kind, 0) \/ TryAgain(kind)
        BY <1>8 DEF WindowUnreadable, WindowRefused, WindowLost
    <2>3. QED  BY <2>1, <2>2, ReadFails
<1>9. CASE EnsureAnswered \/ EnsureLost \/ EnsureRefused
    BY <1>0, <1>9, EnsureRefines
<1>10. CASE Late
    <2>1. UNCHANGED created /\ UNCHANGED Store!callVars
        BY <1>10 DEF Late, created, Store!callVars
    <2>2. \E r \in inflight : Store!Deliver(r)
        BY <1>10, SameStore DEF Late
    <2>3. Store!Late
        BY <2>1, <2>2 DEF Store!Late
    <2>4. QED  BY <2>3 DEF StoreStepOrNone, Store!Next
<1>11. QED
    BY <1>1, <1>2, <1>3, <1>4, <1>5, <1>6, <1>7, <1>8, <1>9, <1>10 DEF Next, Hop

\* StoreHolds: the limits hold and the store has requests in it.
THEOREM StoreHolds == Spec => [](HttpInv /\ StoreOK)
<1>1. Init => StoreOK
    BY DEF Init, UrsulaInit, StoreOK
<1>2. QED  BY <1>1, StoreStep, HttpHolds, PTL DEF Spec

\* HttpImplementsStore: whatever the nodes answer, and whatever is lost or
\* arrives late, the HTTP client is the store the gateway is written against:
\* each call acts once, and a read of many windows is the stream at one moment.
THEOREM HttpImplementsStore == Spec => ImplementsStore
<1>1. Init => Store!Init
    BY SameStore DEF Init, Store!Init, created
<1>2. HttpInv /\ StoreOK /\ [Next]_vars
          => [Store!Next]_<<Store!storeVars, created, Store!callVars>>
    BY StepRefines DEF StoreStepOrNone
<1>3. QED  BY <1>1, <1>2, StoreHolds, PTL DEF Spec, ImplementsStore, Store!Spec


-----------------------------------------------------------------------------
(* Integrity *)

\* There is no answer while a call is under way.
Unanswered == call # None => answer = None

\* This holds of the calls, however they are made.
LEMMA UnansweredStep ==
    Unanswered /\ StoreStepOrNone => Unanswered'
<1> SUFFICES ASSUME Unanswered, StoreStepOrNone
             PROVE  Unanswered'
    OBVIOUS
<1>1. UNCHANGED <<call, answer>> \/ call' = None \/ answer' = None
    BY DEF StoreStepOrNone, Store!Next, Store!Begin, Store!AppendReturns, Store!ReadReturns,
           Store!RangeReturns, Store!EnsureReturns, Store!Returns, Store!Appears,
           Store!Late, Store!callVars
<1>2. QED  BY <1>1 DEF Unanswered

\* A window calls a stream damaged when it is over the limit, and a range when
\* the stream ends before it.
LEMMA WindowIsJustified ==
    ASSUME StoreOK, CallOK, Unanswered, ~StaleReads,
           NEW n \in 0 .. ReadChunkBytes + RecordBytes, Window(n),
           answer' # None, answer'.kind = "integrity"
    PROVE  LET end == Len(streams[Delta(0)]) * RecordBytes IN
           \/ call.op = "read" /\ end > MaxStreamBytes
           \/ call.op = "range" /\ call.offset + call.length > end
<1> DEFINE end == Len(streams[Delta(0)]) * RecordBytes
<1>1. PICK log \in ReadAll(Delta(0)) :
          LET logEnd == Len(log) * RecordBytes
              upToDate == ReadOffset + n = logEnd IN
          /\ ReadOffset + n <= logEnd
          /\ n > 0 \/ upToDate
          /\ IF call.op = "range" THEN RangeGoesOn(n) ELSE ReadGoesOn(n, upToDate)
    BY SameStore DEF Window
<1>2. log = streams[Delta(0)] /\ end \in Nat
    BY <1>1, WindowsAreWithin
<1> HIDE DEF end
<1>3. /\ ReadOffset + n <= end
      /\ n > 0 \/ ReadOffset + n = end
      /\ IF call.op = "range" THEN RangeGoesOn(n)
                              ELSE ReadGoesOn(n, ReadOffset + n = end)
    BY <1>1, <1>2 DEF end
<1>4. Reading /\ call # None /\ call \in Store!Calls /\ n \in Nat /\ got \in Nat
    BY DEF Window, Reading, CallOK
<1>5. ~NextWindow(n)
    BY <1>4 DEF NextWindow, Unanswered
<1>6. CASE call.op = "range"
    <2>1. call.offset \in Nat /\ call.length \in Nat /\ got < call.length
        BY <1>4, <1>6, CallShapes, HttpAssumption DEF CallOK, Waiting
    <2>2. CASE n = 0
        <3>1. call.offset + got = end
            BY <1>3, <1>6, <2>1, <2>2, <1>4 DEF ReadOffset
        <3>2. call.offset + call.length > end
            BY <1>2, <1>4, <2>1, <3>1
        <3>3. QED  BY <1>6, <3>2 DEF end
    <2>3. CASE n # 0 /\ got + n = call.length
        BY <1>3, <1>6, <2>3 DEF RangeGoesOn, Return, Store!Answer
    <2>4. CASE n # 0 /\ got + n # call.length
        BY <1>3, <1>5, <1>6, <2>4 DEF RangeGoesOn
    <2>5. QED  BY <2>2, <2>3, <2>4
<1>7. CASE call.op = "read"
    <2>1. ReadGoesOn(n, got + n = end) /\ got + n <= end /\ (n > 0 \/ got + n = end)
        BY <1>3, <1>7 DEF ReadOffset
    <2>2. ~Return("bytes", got + n)
        BY DEF Return, Store!Answer
    <2>3. ~(n = 0 /\ got + n # end)
        BY <1>4, <2>1
    <2>4. got + n > MaxStreamBytes
        BY <1>5, <2>1, <2>2, <2>3 DEF ReadGoesOn
    <2>5. MaxStreamBytes \in Nat
        BY HttpAssumption
    <2>6. end > MaxStreamBytes
        BY <1>2, <1>4, <2>1, <2>4, <2>5
    <2>7. QED  BY <1>7, <2>6 DEF end
<1>8. QED  BY <1>4, <1>6, <1>7 DEF Reading


\* A step of a read that ends in an integrity error has a reason for it.
LEMMA IntegrityStep ==
    ASSUME HttpInv, StoreOK, Unanswered, ~StaleReads, [Next]_vars,
           Reading, answer' # None, answer'.kind = "integrity"
    PROVE  LET end == Len(streams[Delta(0)]) * RecordBytes IN
           \/ odd'
           \/ call.op = "read" /\ end > MaxStreamBytes
           \/ call.op = "range" /\ call.offset + call.length > end
<1>1. call # None /\ answer = None /\ call.op \in {"read", "range"}
    BY DEF Reading, Unanswered
<1>2. ASSUME NEW n \in 0 .. ReadChunkBytes + RecordBytes, Window(n)
      PROVE  \/ call.op = "read" /\ Len(streams[Delta(0)]) * RecordBytes > MaxStreamBytes
             \/ /\ call.op = "range"
                /\ call.offset + call.length > Len(streams[Delta(0)]) * RecordBytes
    BY <1>2, HttpParts, WindowIsJustified
<1>3. CASE EmptyWindow \/ WindowUnreadable
    BY <1>3 DEF EmptyWindow, WindowUnreadable
<1>4. \A kind : kind # "integrity" => ~Return(kind, 0) /\ ~TryAgain(kind)
    BY <1>1 DEF TryAgain, Return, Store!Answer
<1>5. ~WindowLost /\ ~WindowRefused
    BY <1>4 DEF WindowLost, WindowRefused
<1>6. \A target : ~Redirected(target) /\ ~RedirectRefused(target)
    BY <1>1, <1>4 DEF Redirected, RedirectRefused
<1>7. /\ ~AppendAnswered /\ ~AppendUnreadable /\ ~AppendLost /\ ~AppendRefused
      /\ ~EnsureAnswered /\ ~EnsureLost /\ ~EnsureRefused
    BY <1>1 DEF AppendAnswered, AppendUnreadable, AppendLost, AppendRefused,
                EnsureAnswered, EnsureLost, EnsureRefused, Waiting
<1>8. ~Late /\ ~UNCHANGED vars /\ \A c : ~Begin(c)
    BY <1>1 DEF Late, vars, Begin
<1>9. QED
    BY <1>2, <1>3, <1>5, <1>6, <1>7, <1>8 DEF Next, Hop

\* IntegrityHasReason: where followers do not lag, a read finds its stream
\* damaged only when a node broke the protocol, when the stream is over the
\* limit, or when the range is not there.
THEOREM IntegrityHasReason ==
    ASSUME ~StaleReads
    PROVE  Spec => IntegrityIsJustified
<1>1. Init => Unanswered
    BY DEF Init, Unanswered
<1>2. HttpInv /\ StoreOK /\ Unanswered /\ [Next]_vars => Unanswered'
    BY StepRefines, UnansweredStep
<1>3. HttpInv /\ StoreOK /\ Unanswered /\ [Next]_vars
          => [Reading /\ answer' # None /\ answer'.kind = "integrity" =>
                LET end == Len(streams[Store!Stream]) * RecordBytes IN
                \/ odd'
                \/ call.op = "read" /\ end > MaxStreamBytes
                \/ call.op = "range" /\ call.offset + call.length > end]_vars
    BY IntegrityStep, SameStore
<1>4. QED  BY <1>1, <1>2, <1>3, StoreHolds, PTL DEF Spec, IntegrityIsJustified
=============================================================================
