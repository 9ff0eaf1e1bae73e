------------------------------ MODULE CodecProofs ------------------------------
(***************************************************************************)
(* Theorems about the walk over a received message (ProtocolReader), for   *)
(* words of any width, messages of any size and any limits: it stays in    *)
(* the message and within the limits, and it reads the numbers right.      *)
(***************************************************************************)
EXTENDS RecordProofs

-----------------------------------------------------------------------------
(* The walk over a message *)

Fields == {"magic", "room", "type", "bytes", "int", "count", "update", "id", "code",
           "rest", "byte"}

\* Where the walk is.
CursorOK ==
    /\ size \in 0 .. MaxSize
    /\ cursor \in 0 .. size
    /\ number.value \in Word /\ number.shift \in Nat

\* What the walk still expects.  The message was measured unless the magic is to
\* come, there are no updates before their count, and the ones still expected
\* are within the limit together with the ones that were passed.
TodoOK ==
    /\ todo \in Seq(Fields)
    /\ (Head(todo) = "magic" /\ todo # <<>>) \/ size <= MaxMessageBytes
    /\ \A i \in DOMAIN todo : todo[i] \in {"type", "count"} => updates = <<>>
    /\ \A i \in DOMAIN todo :
          todo[i] = "update" =>
              /\ Len(updates) + Len(todo) - 1 <= MaxUpdates
              /\ \A j \in DOMAIN todo : todo[j] \in {"update", "id"}
              /\ todo[Len(todo)] = "id"
    /\ Len(updates) <= MaxUpdates

\* The bytes of the updates passed.
Passed == UNION {updates[i] : i \in DOMAIN updates}

\* The updates passed lie behind the cursor, apart from each other, and their sum
\* is the number of their bytes.
UpdatesOK ==
    /\ updates \in Seq(SUBSET (1 .. cursor))
    /\ \A i \in DOMAIN updates : Cardinality(updates[i]) <= MaxUpdateBytes
    /\ \A i, j \in DOMAIN updates : i # j => updates[i] \cap updates[j] = {}
    /\ IsFiniteSet(Passed) /\ Cardinality(Passed) = updates_bytes
    /\ updates_bytes <= MaxUpdatesBytes

(* The inductive invariant of the walk. *)
ReaderInv ==
    /\ CursorOK /\ TodoOK /\ UpdatesOK
    /\ status = "accepted" => todo = <<>> /\ cursor = size

\* A word has room for the size of every message.
LEMMA WordSize ==
    /\ 2 ^ WordBits \in Nat /\ 2 ^ WordBits > MaxSize
    /\ \A n \in Word : n \in Nat /\ n % 2 ^ WordBits = n
    /\ \A x \in Int : x % 2 ^ WordBits \in Word
<1> DEFINE W == 2 ^ WordBits
<1>1. W \in Int /\ W > MaxSize /\ MaxSize \in Nat
    BY ProtocolAssumption
<1>2. Word = 0 .. W - 1
    BY DEF Word
<1> HIDE DEF W
<1>3. W \in Nat /\ W > 0
    BY <1>1
<1>4. \A n \in 0 .. W - 1 : n \in Nat /\ n % W = n
    BY <1>3
<1>5. \A x \in Int : x % W \in 0 .. W - 1
    BY <1>3
<1>6. QED  BY <1>1, <1>2, <1>3, <1>4, <1>5 DEF W

\* What the walk expects shrinks from its front.
LEMMA RestOfTodo ==
    ASSUME NEW s \in Seq(Fields), s # <<>>
    PROVE  /\ Tail(s) \in Seq(Fields) /\ Len(Tail(s)) = Len(s) - 1
           /\ \A i \in DOMAIN Tail(s) : i + 1 \in DOMAIN s /\ Tail(s)[i] = s[i + 1]
           /\ Head(s) = s[1] /\ 1 \in DOMAIN s /\ Len(s) \in Nat
OBVIOUS

\* A step that keeps the updates and goes forward keeps what is known of them.
LEMMA UpdatesStay ==
    ASSUME UpdatesOK, cursor \in Nat, cursor' \in Nat, cursor' >= cursor,
           UNCHANGED <<updates, updates_bytes>>
    PROVE  UpdatesOK'
<1>1. 1 .. cursor \subseteq 1 .. cursor'
    OBVIOUS
<1>2. SUBSET (1 .. cursor) \subseteq SUBSET (1 .. cursor')
    BY <1>1
<1>3. updates' \in Seq(SUBSET (1 .. cursor'))
    BY <1>2 DEF UpdatesOK
<1>4. Passed' = Passed
    BY DEF Passed
<1>5. QED  BY <1>3, <1>4 DEF UpdatesOK

\* A refusal changes nothing else.
LEMMA RefuseStep ==
    ASSUME ReaderInv, Refuse
    PROVE  ReaderInv'
<1>1. CursorOK' /\ TodoOK'
    BY DEF ReaderInv, Refuse, CursorOK, TodoOK
<1>2. UpdatesOK'
    BY UpdatesStay DEF ReaderInv, Refuse, CursorOK
<1>3. QED  BY <1>1, <1>2 DEF ReaderInv, Refuse

\* Taking bytes moves the cursor within the input.
LEMMA TakeMoves ==
    ASSUME CursorOK, NEW n \in Nat, WithinInput(n)
    PROVE  /\ (cursor + n) % 2 ^ WordBits = cursor + n
           /\ cursor + n \in 0 .. size
<1>1. cursor + n \in Word /\ cursor + n <= size /\ cursor \in Nat /\ size \in Nat
    BY DEF WithinInput, CursorOK
<1>2. (cursor + n) % 2 ^ WordBits = cursor + n
    BY <1>1, WordSize
<1>3. QED  BY <1>1, <1>2

\* Taking bytes keeps the invariant when what is expected next is in order.
LEMMA TakeStep ==
    ASSUME ReaderInv, status # "accepted", NEW n \in Nat, NEW next, Take(n, next),
           next \in Seq(Fields),
           size <= MaxMessageBytes \/ (Head(next) = "magic" /\ next # <<>>),
           \A i \in DOMAIN next : next[i] \in {"type", "count"} => updates = <<>>,
           \A i \in DOMAIN next :
               next[i] = "update" =>
                   /\ Len(updates) + Len(next) - 1 <= MaxUpdates
                   /\ \A j \in DOMAIN next : next[j] \in {"update", "id"}
                   /\ next[Len(next)] = "id"
    PROVE  ReaderInv'
<1>1. CASE Refuse
    BY <1>1, RefuseStep
<1>2. CASE ~Refuse
    <2>1. /\ WithinInput(n) /\ cursor' = (cursor + n) % 2 ^ WordBits
          /\ todo' = next /\ number' = NoNumber
          /\ UNCHANGED <<size, updates_bytes, updates, status>>
        BY <1>2 DEF Take
    <2>2. cursor' = cursor + n /\ cursor' \in 0 .. size /\ cursor \in Nat
        BY <2>1, TakeMoves DEF ReaderInv, CursorOK
    <2>3. 0 \in Word
        BY WordSize, ProtocolAssumption DEF Word
    <2>4. CursorOK'
        BY <2>1, <2>2, <2>3 DEF ReaderInv, CursorOK, NoNumber
    <2>5. TodoOK'
        BY <2>1 DEF ReaderInv, TodoOK
    <2>6. UpdatesOK'
        BY <2>1, <2>2, UpdatesStay DEF ReaderInv
    <2>7. QED  BY <2>1, <2>4, <2>5, <2>6 DEF ReaderInv
<1>3. QED  BY <1>1, <1>2

\* One more field is passed.
LEMMA TakeField ==
    ASSUME ReaderInv, status = "reading", todo # <<>>, NEW n \in Nat,
           Take(n, Tail(todo)), size <= MaxMessageBytes
    PROVE  ReaderInv'
<1>1. /\ Tail(todo) \in Seq(Fields) /\ Len(Tail(todo)) = Len(todo) - 1
      /\ \A i \in DOMAIN Tail(todo) : i + 1 \in DOMAIN todo /\ Tail(todo)[i] = todo[i + 1]
      /\ Len(todo) \in Nat
    BY RestOfTodo DEF ReaderInv, TodoOK
<1>2. Len(updates) \in Nat /\ MaxUpdates \in Nat
    BY ProtocolAssumption DEF ReaderInv, UpdatesOK
<1>3. \A i \in DOMAIN Tail(todo) : Tail(todo)[i] \in {"type", "count"} => updates = <<>>
    BY <1>1 DEF ReaderInv, TodoOK
<1>4. ASSUME NEW i \in DOMAIN Tail(todo), Tail(todo)[i] = "update"
      PROVE  /\ Len(updates) + Len(Tail(todo)) - 1 <= MaxUpdates
             /\ \A j \in DOMAIN Tail(todo) : Tail(todo)[j] \in {"update", "id"}
             /\ Tail(todo)[Len(Tail(todo))] = "id"
    <2>1. /\ Len(updates) + Len(todo) - 1 <= MaxUpdates
          /\ \A j \in DOMAIN todo : todo[j] \in {"update", "id"}
          /\ todo[Len(todo)] = "id"
        BY <1>1, <1>4 DEF ReaderInv, TodoOK
    <2>2. Len(Tail(todo)) \in DOMAIN Tail(todo)
        BY <1>1, <1>4
    <2>3. QED  BY <1>1, <1>2, <2>1, <2>2
<1>5. QED  BY <1>1, <1>3, <1>4, TakeStep


\* A message past its magic was measured.
LEMMA Measured ==
    ASSUME ReaderInv, todo = <<>> \/ Head(todo) # "magic"
    PROVE  size <= MaxMessageBytes
BY DEF ReaderInv, TodoOK

\* A byte of a number moves the cursor by one.
LEMMA GroupStep ==
    ASSUME ReaderInv, NEW group \in Groups, NEW more \in BOOLEAN, Group(group, more)
    PROVE  ReaderInv'
<1>1. CASE Refuse
    BY <1>1, RefuseStep
<1>2. CASE ~Refuse
    <2>1. /\ cursor # size /\ cursor' = cursor + 1
          /\ number' = [value |-> (number.value + group * 2 ^ number.shift) % 2 ^ WordBits,
                        shift |-> number.shift + GroupBits,
                        groups |-> Append(number.groups, group),
                        done |-> ~more]
          /\ UNCHANGED <<size, todo, updates_bytes, updates, status>>
          /\ status = "reading"
        BY <1>2 DEF Group
    <2>2. /\ cursor \in Nat /\ size \in Nat /\ cursor < size
          /\ size \in 0 .. MaxSize
        BY <2>1, ProtocolAssumption DEF ReaderInv, CursorOK
    <2>3. cursor' \in 0 .. size /\ cursor' \in Nat /\ cursor' >= cursor
        BY <2>1, <2>2
    <2>4. number'.value \in Word /\ number'.shift \in Nat
        <3>1. 2 \in Int /\ number.shift \in Nat /\ number.value \in Nat
            BY WordSize DEF ReaderInv, CursorOK
        <3>2. 2 ^ number.shift \in Int
            BY <3>1
        <3>3. group \in Int
            BY DEF Groups
        <3>4. number.value + group * 2 ^ number.shift \in Int
            BY <3>1, <3>2, <3>3
        <3>5. (number.value + group * 2 ^ number.shift) % 2 ^ WordBits \in Word
            BY <3>4, WordSize
        <3>6. number.shift + GroupBits \in Nat
            BY <3>1, ProtocolAssumption
        <3>7. QED  BY <2>1, <3>5, <3>6
    <2>5. CursorOK'
        BY <2>1, <2>2, <2>3, <2>4 DEF CursorOK
    <2>6. TodoOK'
        BY <2>1 DEF ReaderInv, TodoOK
    <2>7. UpdatesOK'
        BY <2>1, <2>2, <2>3, UpdatesStay DEF ReaderInv
    <2>8. QED  BY <2>1, <2>5, <2>6, <2>7 DEF ReaderInv
<1>3. QED  BY <1>1, <1>2

\* The fields that only move the cursor.
LEMMA FieldSteps ==
    ASSUME ReaderInv, Magic4 \/ RoomId \/ VarBytes \/ VarInt \/ Byte \/ BatchId
    PROVE  ReaderInv'
<1>1. CASE Refuse
    BY <1>1, RefuseStep
<1>2. number.value \in Nat
    BY WordSize DEF ReaderInv, CursorOK
<1>3. CASE ~Refuse /\ Magic4
    <2>1. status = "reading" /\ todo # <<>> /\ Take(4, Tail(todo)) /\ ~(size > MaxMessageBytes)
        BY <1>3 DEF Magic4, Reads
    <2>2. size <= MaxMessageBytes
        BY <2>1, ProtocolAssumption DEF ReaderInv, CursorOK
    <2>3. QED  BY <2>1, <2>2, TakeField
<1>4. CASE ~Refuse /\ (RoomId \/ VarBytes \/ VarInt \/ Byte \/ BatchId)
    <2>1. /\ status = "reading" /\ todo # <<>> /\ Head(todo) # "magic"
          /\ \E n \in {number.value, 0, 1, 8} : Take(n, Tail(todo))
        BY <1>4 DEF RoomId, VarBytes, VarInt, Byte, BatchId, Known, Reads
    <2>2. size <= MaxMessageBytes
        BY <2>1, Measured
    <2>3. QED  BY <1>2, <2>1, <2>2, TakeField
<1>5. QED  BY <1>1, <1>3, <1>4

\* The fields that say what follows them, the updates apart.
LEMMA LayoutSteps ==
    ASSUME ReaderInv,
           \/ \E type \in 0 .. 9 : MessageType(type)
           \/ \E extended \in BOOLEAN : ErrorCode(extended)
    PROVE  ReaderInv'
<1>1. CASE Refuse
    BY <1>1, RefuseStep
<1>2. ASSUME ~Refuse, NEW type \in 0 .. 9, MessageType(type)
      PROVE  ReaderInv'
    <2>1. /\ status = "reading" /\ todo # <<>> /\ Head(todo) = "type"
          /\ type \in 0 .. 8 /\ Take(1, Layout(type))
        BY <1>2 DEF MessageType, Reads
    <2>2. size <= MaxMessageBytes
        BY <2>1, Measured
    <2>3. updates = <<>>
        BY <2>1 DEF ReaderInv, TodoOK
    <2>4. Layout(type) \in Seq(Fields \ {"update"})
        <3> DEFINE S == Fields \ {"update"}
        <3>1. \A f, g, h \in S : /\ <<f, g, h>> \in Seq(S) /\ <<f, g>> \in Seq(S)
                                 /\ <<f>> \in Seq(S) /\ <<>> \in Seq(S)
            OBVIOUS
        <3>2. {"bytes", "code", "count", "id", "int", "byte"} \subseteq S
            BY DEF Fields
        <3>3. type = 0 => Layout(type) = <<"bytes", "bytes">>
            BY DEF Layout
        <3>4. type = 1 => Layout(type) = <<"bytes", "bytes", "bytes">>
            BY DEF Layout
        <3>5. type = 2 => Layout(type) = <<"code">>
            BY DEF Layout
        <3>6. type = 3 => Layout(type) = <<"count">>
            BY DEF Layout
        <3>7. type = 4 => Layout(type) = <<"id", "int", "int">>
            BY DEF Layout
        <3>8. type = 5 => Layout(type) = <<"id", "int", "bytes">>
            BY DEF Layout
        <3>9. type = 6 => Layout(type) = <<"byte", "bytes">>
            BY DEF Layout
        <3>10. type = 7 => Layout(type) = <<>>
            BY DEF Layout
        <3>11. type = 8 => Layout(type) = <<"id", "byte">>
            BY DEF Layout
        <3> HIDE DEF S
        <3>12. \/ type = 0 \/ type = 1 \/ type = 2 \/ type = 3 \/ type = 4
               \/ type = 5 \/ type = 6 \/ type = 7 \/ type = 8
            BY <2>1
        <3>13. Layout(type) \in Seq(S)
            BY <3>1, <3>2, <3>3, <3>4, <3>5, <3>6, <3>7, <3>8, <3>9, <3>10, <3>11, <3>12
        <3>14. QED  BY <3>13 DEF S
    <2>5. Layout(type) \in Seq(Fields)
        BY <2>4
    <2>6. \A i \in DOMAIN Layout(type) : Layout(type)[i] # "update"
        BY <2>4
    <2>7. QED  BY <2>1, <2>2, <2>3, <2>5, <2>6, TakeStep
<1>3. ASSUME ~Refuse, NEW extended \in BOOLEAN, ErrorCode(extended)
      PROVE  ReaderInv'
    <2> DEFINE next == IF extended THEN <<"bytes", "rest">> ELSE <<"bytes">>
    <2>1. status = "reading" /\ todo # <<>> /\ Head(todo) = "code" /\ Take(1, next)
        BY <1>3 DEF ErrorCode, Reads
    <2>2. size <= MaxMessageBytes
        BY <2>1, Measured
    <2>3. /\ next \in Seq(Fields)
          /\ \A i \in DOMAIN next : next[i] \in {"bytes", "rest"}
        <3>1. CASE extended
            <4>1. next = <<"bytes", "rest">>
                BY <3>1
            <4> HIDE DEF next
            <4>2. QED  BY <4>1 DEF Fields
        <3>2. CASE ~extended
            <4>1. next = <<"bytes">>
                BY <3>2
            <4> HIDE DEF next
            <4>2. QED  BY <4>1 DEF Fields
        <3>3. QED  BY <3>1, <3>2
    <2> HIDE DEF next
    <2>4. QED  BY <2>1, <2>2, <2>3, TakeStep
<1>4. QED  BY <1>1, <1>2, <1>3

\* The optional field of a join error.
LEMMA RestStep ==
    ASSUME ReaderInv, Rest
    PROVE  ReaderInv'
<1> DEFINE next == IF cursor = size THEN <<>> ELSE <<"bytes">>
<1>1. /\ status = "reading" /\ todo # <<>> /\ Head(todo) = "rest" /\ todo' = next
      /\ UNCHANGED <<size, cursor, number, updates_bytes, updates, status>>
    BY DEF Rest, Reads
<1>2. size <= MaxMessageBytes
    BY <1>1, Measured
<1>3. next \in Seq(Fields) /\ \A i \in DOMAIN next : next[i] = "bytes"
    <2>1. next = <<>> \/ next = <<"bytes">>
        OBVIOUS
    <2> HIDE DEF next
    <2>2. CASE next = <<>>
        <3>1. DOMAIN next = {}
            BY <2>2
        <3>2. QED  BY <2>2, <3>1
    <2>3. CASE next = <<"bytes">>
        BY <2>3 DEF Fields
    <2>4. QED  BY <2>1, <2>2, <2>3
<1> HIDE DEF next
<1>4. CursorOK'
    BY <1>1 DEF ReaderInv, CursorOK
<1>5. TodoOK'
    BY <1>1, <1>2, <1>3 DEF ReaderInv, TodoOK
<1>6. UpdatesOK'
    BY <1>1, UpdatesStay DEF ReaderInv, CursorOK
<1>7. QED  BY <1>1, <1>4, <1>5, <1>6 DEF ReaderInv

\* The count announces no more updates than the limit allows.
LEMMA CountStep ==
    ASSUME ReaderInv, Count
    PROVE  ReaderInv'
<1> DEFINE n == number.value
           next == [i \in 1 .. n |-> "update"] \o <<"id">>
<1>1. CASE Refuse
    BY <1>1, RefuseStep
<1>2. CASE ~Refuse
    <2>1. /\ status = "reading" /\ todo # <<>> /\ Head(todo) = "count"
          /\ ~(n > MaxUpdates) /\ Take(0, next)
        BY <1>2 DEF Count, Known, Reads
    <2>2. size <= MaxMessageBytes
        BY <2>1, Measured
    <2>3. n \in Nat /\ n <= MaxUpdates
        BY <2>1, WordSize, ProtocolAssumption DEF ReaderInv, CursorOK
    <2>4. updates = <<>> /\ Len(updates) = 0
        BY <2>1 DEF ReaderInv, TodoOK
    <2>5. [i \in 1 .. n |-> "update"] \in Seq(Fields) /\ <<"id">> \in Seq(Fields)
        BY <2>3 DEF Fields
    <2>6. /\ next \in Seq(Fields) /\ Len(next) = n + 1
          /\ \A j \in DOMAIN next : next[j] \in {"update", "id"}
          /\ next[Len(next)] = "id"
        BY <2>3, <2>5
    <2> HIDE DEF next, n
    <2>7. Len(updates) + Len(next) - 1 <= MaxUpdates
        BY <2>3, <2>4, <2>6, ProtocolAssumption
    <2>8. QED  BY <2>1, <2>2, <2>4, <2>6, <2>7, TakeStep
<1>3. QED  BY <1>1, <1>2


\* An update that is passed is a part of the message that no other update has.
LEMMA UpdateStep ==
    ASSUME ReaderInv, Update
    PROVE  ReaderInv'
<1> DEFINE n == number.value
           part == (cursor + 1) .. (cursor + n)
<1>1. CASE Refuse
    BY <1>1, RefuseStep
<1>2. CASE ~Refuse
    <2>1. /\ status = "reading" /\ todo # <<>> /\ Head(todo) = "update"
          /\ UpdateAllowed(n) /\ WithinInput(n)
          /\ cursor' = (cursor + n) % 2 ^ WordBits
          /\ updates_bytes' = (updates_bytes + n) % 2 ^ WordBits
          /\ updates' = Append(updates, part)
          /\ todo' = Tail(todo) /\ number' = NoNumber
          /\ UNCHANGED <<size, status>>
        BY <1>2 DEF Update, Known, Reads
    <2>2. /\ n \in Nat /\ cursor \in Nat /\ size \in Nat /\ size \in 0 .. MaxSize
          /\ {MaxUpdates, MaxUpdateBytes, MaxUpdatesBytes} \subseteq Nat
        <3>1. number.value \in Nat
            BY WordSize DEF ReaderInv, CursorOK
        <3>2. cursor \in Nat /\ size \in Nat /\ size \in 0 .. MaxSize
            BY ProtocolAssumption DEF ReaderInv, CursorOK
        <3>3. {MaxUpdates, MaxUpdateBytes, MaxUpdatesBytes} \subseteq Nat
            BY ProtocolAssumption
        <3>4. QED  BY <3>1, <3>2, <3>3
    <2>3. cursor' = cursor + n /\ cursor' \in 0 .. size
        BY <2>1, <2>2, TakeMoves DEF ReaderInv
    <2>4. /\ n <= MaxUpdateBytes /\ updates_bytes + n <= MaxUpdatesBytes
          /\ updates_bytes' = updates_bytes + n
        BY <2>1, WordSize DEF UpdateAllowed
    <2>5. CursorOK'
        <3>1. 0 \in Word
            BY WordSize, ProtocolAssumption DEF Word
        <3>2. QED  BY <2>1, <2>2, <2>3, <3>1 DEF CursorOK, NoNumber
    <2> DEFINE inputs == SUBSET (1 .. cursor')
    <2>6. /\ updates \in Seq(inputs) /\ part \in inputs
          /\ \A i \in DOMAIN updates : updates[i] \subseteq 1 .. cursor
        <3>1. 1 .. cursor \subseteq 1 .. cursor' /\ part \subseteq 1 .. cursor'
            BY <2>2, <2>3
        <3>2. updates \in Seq(SUBSET (1 .. cursor))
            BY DEF ReaderInv, UpdatesOK
        <3>3. SUBSET (1 .. cursor) \subseteq inputs
            BY <3>1
        <3>4. updates \in Seq(inputs)
            BY <3>2, <3>3
        <3>5. QED  BY <3>1, <3>2, <3>4
    <2>7. part \cap (1 .. cursor) = {}
        BY <2>2
    <2>8. IsFiniteSet(part) /\ Cardinality(part) = n
        <3>1. cursor + 1 \in Int /\ cursor + n \in Int
            BY <2>2
        <3>2. /\ IsFiniteSet(part)
              /\ Cardinality(part) = IF cursor + 1 > cursor + n THEN 0
                                     ELSE (cursor + n) - (cursor + 1) + 1
            BY <3>1, FS_Interval
        <3>3. QED  BY <2>2, <3>2
    <2> HIDE DEF part, inputs, n
    <2> DEFINE k == Len(updates)
    <2>9. /\ updates' \in Seq(inputs) /\ k \in Nat /\ Len(updates') = k + 1
          /\ DOMAIN updates' = DOMAIN updates \cup {k + 1}
          /\ k + 1 \notin DOMAIN updates
          /\ updates'[k + 1] = part
          /\ \A i \in DOMAIN updates : updates'[i] = updates[i]
        BY <2>1, <2>6
    <2>10. UpdatesOK'
        <3>1. \A i \in DOMAIN updates' : Cardinality(updates'[i]) <= MaxUpdateBytes
            BY <2>4, <2>8, <2>9 DEF ReaderInv, UpdatesOK
        <3>2. \A i \in DOMAIN updates : updates[i] \cap part = {}
            BY <2>6, <2>7
        <3>3. \A i, j \in DOMAIN updates' : i # j => updates'[i] \cap updates'[j] = {}
            BY <2>9, <3>2 DEF ReaderInv, UpdatesOK
        <3>4. Passed' = Passed \cup part
            <4>1. Passed' = UNION {updates'[i] : i \in DOMAIN updates'}
                BY DEF Passed
            <4>2. QED  BY <2>9, <4>1 DEF Passed
        <3>5. Passed \cap part = {}
            BY <3>2 DEF Passed
        <3>6. IsFiniteSet(Passed) /\ Cardinality(Passed) = updates_bytes
            BY DEF ReaderInv, UpdatesOK
        <3>7. Cardinality(Passed \cap part) = 0 /\ updates_bytes \in Nat
            BY <3>5, <3>6, FS_EmptySet, FS_CardinalityType
        <3>8. /\ IsFiniteSet(Passed \cup part)
              /\ Cardinality(Passed \cup part)
                    = Cardinality(Passed) + Cardinality(part) - Cardinality(Passed \cap part)
            BY <2>8, <3>6, FS_Union
        <3>9. IsFiniteSet(Passed)' /\ (Cardinality(Passed) = updates_bytes)'
            BY <2>2, <2>4, <2>8, <3>4, <3>6, <3>7, <3>8 DEF n
        <3>10. QED  BY <2>4, <2>9, <3>1, <3>3, <3>9 DEF UpdatesOK, inputs
    <2>11. TodoOK'
        <3>1. /\ Tail(todo) \in Seq(Fields) /\ Len(Tail(todo)) = Len(todo) - 1
              /\ \A i \in DOMAIN Tail(todo) :
                    i + 1 \in DOMAIN todo /\ Tail(todo)[i] = todo[i + 1]
              /\ Head(todo) = todo[1] /\ 1 \in DOMAIN todo /\ Len(todo) \in Nat
            BY <2>1, RestOfTodo DEF ReaderInv, TodoOK
        <3>2. size <= MaxMessageBytes
            BY <2>1, Measured
        <3>3. /\ k + Len(todo) - 1 <= MaxUpdates
              /\ \A j \in DOMAIN todo : todo[j] \in {"update", "id"}
              /\ todo[Len(todo)] = "id"
            BY <2>1, <3>1 DEF ReaderInv, TodoOK
        <3>4. Len(todo) >= 2
            BY <2>1, <3>1, <3>3 DEF ReaderInv, TodoOK
        <3>5. /\ \A i \in DOMAIN Tail(todo) : Tail(todo)[i] \in {"update", "id"}
              /\ Tail(todo)[Len(Tail(todo))] = "id"
            BY <3>1, <3>3, <3>4
        <3>6. k + 1 + Len(Tail(todo)) - 1 <= MaxUpdates /\ k + 1 <= MaxUpdates
            BY <2>2, <2>9, <3>1, <3>3, <3>4
        <3>7. QED  BY <2>1, <2>9, <3>1, <3>2, <3>5, <3>6 DEF TodoOK
    <2>12. QED  BY <2>1, <2>5, <2>10, <2>11 DEF ReaderInv
<1>3. QED  BY <1>1, <1>2


\* The end of the walk.
LEMMA EndStep ==
    ASSUME ReaderInv, EndOfMessage
    PROVE  ReaderInv'
<1>1. CursorOK' /\ TodoOK'
    BY DEF ReaderInv, EndOfMessage, CursorOK, TodoOK
<1>2. UpdatesOK'
    BY UpdatesStay DEF ReaderInv, EndOfMessage, CursorOK
<1>3. status' = "accepted" => todo' = <<>> /\ cursor' = size'
    BY DEF EndOfMessage
<1>4. QED  BY <1>1, <1>2, <1>3 DEF ReaderInv

\* Every step of the walk keeps the invariant.
LEMMA ReaderStep ==
    ASSUME ReaderInv, ReaderNext
    PROVE  ReaderInv'
BY GroupStep, FieldSteps, LayoutSteps, RestStep, CountStep, UpdateStep, EndStep
   DEF ReaderNext

\* A walk starts with nothing passed.
LEMMA ReaderStart == ReaderInit => ReaderInv
<1> SUFFICES ASSUME ReaderInit
             PROVE  ReaderInv
    OBVIOUS
<1>1. CursorOK
    <2>1. 0 \in Word /\ size \in 0 .. MaxSize
        BY WordSize, ProtocolAssumption DEF Word, ReaderInit
    <2>2. number.value = 0 /\ number.shift = 0 /\ cursor = 0
        BY DEF ReaderInit, NoNumber
    <2>3. QED  BY <2>1, <2>2, ProtocolAssumption DEF CursorOK
<1>2. updates = <<>> /\ Len(updates) = 0 /\ DOMAIN updates = {} /\ updates_bytes = 0
    BY DEF ReaderInit
<1>3. TodoOK
    <2>1. todo = <<"magic", "room", "type">>
        BY DEF ReaderInit
    <2>2. todo \in Seq(Fields) /\ Head(todo) = "magic" /\ todo # <<>>
        BY <2>1 DEF Fields
    <2>3. \A i \in DOMAIN todo : todo[i] # "update"
        BY <2>1
    <2>4. QED  BY <1>2, <2>2, <2>3, ProtocolAssumption DEF TodoOK
<1>4. UpdatesOK
    <2>1. Passed = {}
        BY <1>2 DEF Passed
    <2>2. IsFiniteSet(Passed) /\ Cardinality(Passed) = 0
        BY <2>1, FS_EmptySet
    <2>3. updates \in Seq(SUBSET (1 .. cursor))
        BY <1>2
    <2>4. QED  BY <1>2, <2>2, <2>3, ProtocolAssumption DEF UpdatesOK
<1>5. QED  BY <1>1, <1>3, <1>4 DEF ReaderInv, ReaderInit

\* A step that leaves the walk alone.
LEMMA ReaderStays ==
    ASSUME ReaderInv, UNCHANGED readerVars
    PROVE  ReaderInv'
<1>1. CursorOK' /\ TodoOK'
    BY DEF ReaderInv, readerVars, CursorOK, TodoOK
<1>2. UpdatesOK'
    BY UpdatesStay DEF ReaderInv, readerVars, CursorOK
<1>3. QED  BY <1>1, <1>2 DEF ReaderInv, readerVars

\* ReaderHolds: the invariant holds in every state of the decoder.
THEOREM ReaderHolds == Spec => []ReaderInv
<1>1. Init => ReaderInv
    BY ReaderStart DEF Init
<1>2. ReaderInv /\ [Next]_<<recordVars, readerVars>> => ReaderInv'
    BY ReaderStep, ReaderStays DEF Next
<1>3. QED  BY <1>1, <1>2, PTL DEF Spec

\* DecoderKeepsLimits: whatever the bytes of a message are, one that decode_bounded
\* accepts was walked to its end, and its updates are disjoint parts of it within
\* every limit.
THEOREM DecoderKeepsLimits == Spec => []AcceptedIsWithinLimits
<1>1. ReaderInv => AcceptedIsWithinLimits
    <2> SUFFICES ASSUME ReaderInv, status = "accepted"
                 PROVE  AcceptedIsWithinLimits
        BY DEF AcceptedIsWithinLimits
    <2>1. cursor = size /\ todo = <<>>
        BY DEF ReaderInv
    <2>2. size <= MaxMessageBytes
        BY <2>1, Measured
    <2>3. Len(updates) <= MaxUpdates
        BY DEF ReaderInv, TodoOK
    <2>4. \A i \in DOMAIN updates : /\ updates[i] \subseteq 1 .. size
                                    /\ Cardinality(updates[i]) <= MaxUpdateBytes
        BY <2>1 DEF ReaderInv, UpdatesOK
    <2>5. \A i, j \in DOMAIN updates : i # j => updates[i] \cap updates[j] = {}
        BY DEF ReaderInv, UpdatesOK
    <2>6. Cardinality(UNION {updates[i] : i \in DOMAIN updates}) <= MaxUpdatesBytes
        BY DEF ReaderInv, UpdatesOK, Passed
    <2>7. QED  BY <2>1, <2>2, <2>3, <2>4, <2>5, <2>6 DEF AcceptedIsWithinLimits
<1>2. QED  BY <1>1, ReaderHolds, PTL

\* Every step goes forward and stays inside the message.
LEMMA StepGoesForward ==
    ASSUME ReaderInv, ReaderNext \/ UNCHANGED readerVars
    PROVE  cursor' >= cursor /\ cursor' <= size
<1>1. ReaderInv'
    BY ReaderStep, ReaderStays
<1>2. /\ cursor \in Nat /\ cursor' \in Nat /\ number.value \in Nat
      /\ cursor' <= size'
    <2>1. number.value \in Nat
        BY WordSize DEF ReaderInv, CursorOK
    <2>2. cursor \in Nat
        BY ProtocolAssumption DEF ReaderInv, CursorOK
    <2>3. size' \in 0 .. MaxSize /\ cursor' \in 0 .. size'
        BY <1>1 DEF ReaderInv, CursorOK
    <2>4. cursor' \in Nat /\ cursor' <= size'
        BY <2>3, ProtocolAssumption
    <2>5. QED  BY <2>1, <2>2, <2>4
<1>3. size' = size
    BY DEF ReaderNext, Magic4, RoomId, Rest, VarBytes, VarInt, Byte, BatchId, Count, Update,
           EndOfMessage, Group, MessageType, ErrorCode, Take, Refuse, readerVars
<1>4. \/ cursor' = cursor \/ cursor' = cursor + 1
      \/ \E n \in {number.value, 0, 1, 4, 8} :
            WithinInput(n) /\ cursor' = (cursor + n) % 2 ^ WordBits
    BY DEF ReaderNext, Magic4, RoomId, Rest, VarBytes, VarInt, Byte, BatchId, Count, Update,
           EndOfMessage, Group, MessageType, ErrorCode, Take, Refuse, readerVars
<1>5. cursor' >= cursor
    BY <1>2, <1>4, TakeMoves DEF ReaderInv
<1>6. QED  BY <1>2, <1>3, <1>5

\* DecoderGoesForward: whatever a length prefix says, the walk never goes back and
\* never leaves the message.
THEOREM DecoderGoesForward == Spec => WalkGoesForward
<1>1. ReaderInv /\ [Next]_<<recordVars, readerVars>>
          => [cursor' >= cursor /\ cursor' <= size]_readerVars
    BY StepGoesForward DEF Next
<1>2. QED  BY <1>1, ReaderHolds, PTL DEF Spec, WalkGoesForward
-----------------------------------------------------------------------------
(* The numbers of a message *)

\* The powers of two, counted as the subsets of an interval.
LEMMA PowerCounts ==
    ASSUME NEW n \in Nat
    PROVE  2 ^ n = Cardinality(SUBSET (1 .. n)) /\ IsFiniteSet(SUBSET (1 .. n))
<1>1. IsFiniteSet(1 .. n) /\ Cardinality(1 .. n) = n
    <2>1. n \in Int /\ n >= 0 /\ 1 \in Int
        OBVIOUS
    <2> QED BY <2>1, FS_Interval
<1>2. IsFiniteSet(SUBSET (1 .. n)) /\ Cardinality(SUBSET (1 .. n)) = 2 ^ Cardinality(1 .. n)
    BY <1>1, FS_SUBSET
<1> QED BY <1>1, <1>2

\* The empty set has one subset.
LEMMA PowerZero == 2 ^ 0 = 1
<1>1. 1 .. 0 = {} /\ SUBSET {} = {{}}
    OBVIOUS
<1>2. Cardinality({{}}) = 1
    BY FS_Singleton
<1>3. 2 ^ 0 = Cardinality(SUBSET (1 .. 0))
    BY PowerCounts
<1> QED BY <1>1, <1>2, <1>3

\* One element more doubles the subsets.
LEMMA PowerNext ==
    ASSUME NEW n \in Nat
    PROVE  2 ^ n \in Nat /\ 2 ^ (n + 1) = 2 ^ n + 2 ^ n
<1> DEFINE A == SUBSET (1 .. n)
           m == n + 1
           B == {s \cup {m} : s \in A}
<1>1. 2 ^ n = Cardinality(A) /\ IsFiniteSet(A)
    BY PowerCounts
<1>2. m \in Nat /\ m \notin 1 .. n /\ 1 .. m = (1 .. n) \cup {m}
    OBVIOUS
<1>3. 2 ^ m = Cardinality(SUBSET (1 .. m))
    BY <1>2, PowerCounts
<1>m. m = n + 1
    OBVIOUS
<1> HIDE DEF m
<1>4. SUBSET (1 .. m) = A \cup B /\ A \cap B = {}
    <2>1. ASSUME NEW s \in SUBSET (1 .. m), s \notin A PROVE s \in B
        <3>1. m \in s
            BY <1>2, <2>1
        <3>2. s \ {m} \in A /\ s = (s \ {m}) \cup {m}
            BY <1>2, <3>1
        <3> QED BY <3>2
    <2>2. A \subseteq SUBSET (1 .. m) /\ B \subseteq SUBSET (1 .. m)
        BY <1>2
    <2>3. A \cap B = {}
        BY <1>2
    <2> QED BY <2>1, <2>2, <2>3
<1>5. IsFiniteSet(B) /\ Cardinality(B) = Cardinality(A)
    <2> DEFINE f == [s \in A |-> s \cup {m}]
    <2>1. f \in Surjection(A, B)
        BY DEF Surjection
    <2>2. f \in Injection(A, B)
        <3>1. ASSUME NEW s \in A, NEW t \in A, s \cup {m} = t \cup {m} PROVE s = t
            BY <1>2, <3>1
        <3>2. f \in [A -> B]
            OBVIOUS
        <3>3. \A s, t \in A : f[s] = f[t] => s = t
            BY <3>1
        <3> QED BY <3>2, <3>3 DEF Injection, IsInjective
    <2>3. f \in Bijection(A, B)
        BY <2>1, <2>2 DEF Bijection
    <2> HIDE DEF f, A, B
    <2>4. ExistsBijection(A, B)
        BY <2>3 DEF ExistsBijection
    <2> QED BY <1>1, <2>4, FS_Bijection
<1>6. Cardinality(A \cup B) = Cardinality(A) + Cardinality(B) - Cardinality(A \cap B)
    BY <1>1, <1>5, FS_Union
<1>7. Cardinality(A \cap B) = 0
    BY <1>4, FS_EmptySet
<1>8. Cardinality(A) \in Nat
    BY <1>1, FS_CardinalityType
<1> DEFINE x == 2 ^ n
           y == 2 ^ m
           a == Cardinality(A)
           c == Cardinality(SUBSET (1 .. m))
<1>9. x = a /\ y = c /\ c = a + a - 0 /\ a \in Nat
    BY <1>1, <1>3, <1>4, <1>5, <1>6, <1>7, <1>8
<1> HIDE DEF x, y, a, c
<1>10. x \in Nat /\ y = x + x
    BY <1>9
<1> QED BY <1>10, <1>m DEF x, y

\* The power of a sum is a product.
LEMMA PowerSum ==
    ASSUME NEW m \in Nat, NEW n \in Nat
    PROVE  2 ^ (m + n) = 2 ^ m * 2 ^ n
<1> DEFINE N == {i \in Nat : 2 ^ (m + i) = 2 ^ m * 2 ^ i}
<1>1. 0 \in N
    <2> DEFINE x == 2 ^ m
    <2>1. m + 0 = m /\ x \in Nat
        BY PowerNext
    <2>2. 2 ^ (m + 0) = x /\ 2 ^ 0 = 1
        BY <2>1, PowerZero
    <2> HIDE DEF x
    <2>3. x * 1 = x
        BY <2>1
    <2> QED BY <2>2, <2>3 DEF x
<1>2. ASSUME NEW i \in Nat, i \in N PROVE i + 1 \in N
    <2> DEFINE k == m + i
               x == 2 ^ m
               y == 2 ^ i
               z == 2 ^ k
               u == 2 ^ (i + 1)
               v == 2 ^ (k + 1)
    <2>1. k \in Nat /\ m + (i + 1) = k + 1
        OBVIOUS
    <2>2. z = x * y
        BY <1>2
    <2>3. x \in Nat /\ y \in Nat /\ u = y + y
        BY PowerNext
    <2>4. z \in Nat /\ v = z + z
        BY <2>1, PowerNext
    <2>5. v = 2 ^ (m + (i + 1))
        BY <2>1
    <2> HIDE DEF k, x, y, z, u, v
    <2>6. x * (y + y) = x * y + x * y
        BY <2>3
    <2>7. v = x * u
        BY <2>2, <2>3, <2>4, <2>6
    <2>8. 2 ^ (m + (i + 1)) = 2 ^ m * 2 ^ (i + 1)
        BY <2>5, <2>7 DEF x, u
    <2> QED BY <2>8
<1> HIDE DEF N
<1>3. Nat \subseteq N
    BY <1>1, <1>2, Induction
<1> QED BY <1>3 DEF N

\* Powers grow.
LEMMA PowerGrows ==
    ASSUME NEW m \in Nat, NEW n \in Nat, m <= n
    PROVE  2 ^ m \in Nat /\ 2 ^ n \in Nat /\ 2 ^ m >= 1 /\ 2 ^ m <= 2 ^ n
<1> DEFINE N == {i \in Nat : 2 ^ i >= 1}
<1>1. 0 \in N
    BY PowerZero
<1>2. ASSUME NEW i \in Nat, i \in N PROVE i + 1 \in N
    <2> DEFINE x == 2 ^ i
               y == 2 ^ (i + 1)
    <2>1. x \in Nat /\ y = x + x /\ x >= 1
        BY <1>2, PowerNext
    <2> HIDE DEF x, y
    <2>2. y >= 1
        BY <2>1
    <2> QED BY <2>2 DEF y
<1> HIDE DEF N
<1>3. Nat \subseteq N
    BY <1>1, <1>2, Induction
<1> DEFINE d == n - m
           x == 2 ^ m
           y == 2 ^ d
           z == 2 ^ n
<1>4. d \in Nat /\ m + d = n
    OBVIOUS
<1>5. d \in N /\ m \in N
    BY <1>3, <1>4
<1>6. x >= 1 /\ y >= 1
    BY <1>5 DEF N
<1> HIDE DEF d
<1>7. x \in Nat /\ y \in Nat /\ z \in Nat /\ z = x * y
    <2>1. 2 ^ (m + d) = x * y
        BY <1>4, PowerSum
    <2> QED BY <1>4, <2>1, PowerNext
<1> HIDE DEF x, y, z
<1>8. x * y >= x
    BY <1>6, <1>7
<1> QED BY <1>6, <1>7, <1>8 DEF x, z

\* What the ith group of a number stands for.
Term(groups, i) == groups[i] * 2 ^ (GroupBits * (i - 1))

\* What each of them stands for.
Terms(groups) == [i \in DOMAIN groups |-> Term(groups, i)]

\* The number they spell, as NumbersAreExact has it.
Spelled(groups) == MapThenSumSet(LAMBDA i : groups[i] * 2 ^ (GroupBits * (i - 1)), DOMAIN groups)

\* What its fold computes, from set to set.
Spells(iter, groups, D) ==
    iter = [s \in SUBSET D |-> IF s = {} THEN 0
                ELSE groups[CHOOSE x \in s : TRUE] * 2 ^ (GroupBits * ((CHOOSE x \in s : TRUE) - 1))
                         + iter[s \ {CHOOSE x \in s : TRUE}]]

\* The fold is a choice among the solutions of its recursion.
LEMMA UnfoldSpelled ==
    ASSUME NEW groups
    PROVE  Spelled(groups) = (CHOOSE iter : Spells(iter, groups, DOMAIN groups))[DOMAIN groups]
BY DEF Spelled, MapThenSumSet, MapThenFoldSet, Spells

\* Its recursion is that of the sum of the terms.
LEMMA SpellsFolds ==
    ASSUME NEW groups, NEW iter
    PROVE  Spells(iter, groups, DOMAIN groups) <=> Folds(iter, Terms(groups), DOMAIN groups)
<1> DEFINE D == DOMAIN groups
           f == Terms(groups)
           Pick(s) == CHOOSE x \in s : TRUE
           A(s) == IF s = {} THEN 0
                ELSE groups[Pick(s)] * 2 ^ (GroupBits * (Pick(s) - 1)) + iter[s \ {Pick(s)}]
           B(s) == IF s = {} THEN 0 ELSE f[Pick(s)] + iter[s \ {Pick(s)}]
<1>1. ASSUME NEW s \in SUBSET D PROVE A(s) = B(s)
    <2>1. CASE s = {}
        BY <2>1
    <2>2. CASE s # {}
        <3>1. Pick(s) \in D
            BY <2>2
        <3> DEFINE x == Pick(s)
        <3> HIDE DEF x
        <3>2. x \in D
            BY <3>1 DEF x
        <3>3. f[x] = groups[x] * 2 ^ (GroupBits * (x - 1))
            BY <3>2 DEF Terms, Term
        <3> HIDE DEF f
        <3> QED BY <2>2, <3>3 DEF x
    <2> QED BY <2>1, <2>2
<1> HIDE DEF A, B
<1>2. [s \in SUBSET D |-> A(s)] = [s \in SUBSET D |-> B(s)]
    BY <1>1
<1>3. Spells(iter, groups, D) <=> iter = [s \in SUBSET D |-> A(s)]
    BY DEF Spells, A
<1>4. Folds(iter, f, D) <=> iter = [s \in SUBSET D |-> B(s)]
    BY DEF Folds, B
<1> QED BY <1>2, <1>3, <1>4

\* So the number is their sum.
LEMMA SpelledIsTotal ==
    ASSUME NEW groups, IsFiniteSet(DOMAIN groups), \A i \in DOMAIN groups : Term(groups, i) \in Nat
    PROVE  Spelled(groups) = Total(Terms(groups))
<1> DEFINE D == DOMAIN groups
           f == Terms(groups)
           iter == CHOOSE iter : Spells(iter, groups, D)
<1>1. DOMAIN f = D /\ \A i \in D : f[i] \in Nat
    BY DEF Terms
<1>2. \E g : Folds(g, f, D)
    <2> HIDE DEF f, D
    <2> QED BY FoldExists DEF D
<1>3. \E g : Spells(g, groups, D)
    BY <1>2, SpellsFolds
<1>4. Spells(iter, groups, D)
    BY <1>3
<1>5. Spelled(groups) = iter[D]
    BY UnfoldSpelled
<1> HIDE DEF iter
<1>6. Folds(iter, f, D)
    BY <1>4, SpellsFolds
<1> HIDE DEF f
<1>7. iter[D] = Cardinality(Blocks(f, D))
    BY <1>1, <1>6, FoldCounts
<1>8. Total(f) = Cardinality(Blocks(f, D))
    BY <1>1, TotalCounts
<1> QED BY <1>5, <1>7, <1>8 DEF f

\* One group more.
LEMMA SpelledMore ==
    ASSUME NEW groups \in Seq(Nat), NEW x \in Nat
    PROVE  /\ Spelled(groups) \in Nat
           /\ Spelled(Append(groups, x)) = Spelled(groups) + x * 2 ^ (GroupBits * Len(groups))
<1> DEFINE more == Append(groups, x)
           l == Len(groups)
           y == x * 2 ^ (GroupBits * l)
<1>1. GroupBits \in Nat /\ GroupBits > 0
    BY ProtocolAssumption
<1>2. ASSUME NEW g \in Seq(Nat)
      PROVE  /\ Terms(g) \in Seq(Nat) /\ Len(Terms(g)) = Len(g) /\ Len(g) \in Nat
             /\ \A i \in 1 .. Len(g) : Terms(g)[i] = Term(g, i)
             /\ Spelled(g) = Total(Terms(g))
    <2>1. Len(g) \in Nat /\ DOMAIN g = 1 .. Len(g) /\ \A i \in 1 .. Len(g) : g[i] \in Nat
        OBVIOUS
    <2>2. ASSUME NEW i \in 1 .. Len(g) PROVE Term(g, i) \in Nat
        <3> DEFINE e == GroupBits * (i - 1)
                   p == 2 ^ e
        <3>1. i - 1 \in Nat /\ g[i] \in Nat
            BY <2>1
        <3>2. e \in Nat
            BY <1>1, <3>1
        <3> HIDE DEF e
        <3>3. p \in Nat
            BY <3>2, PowerNext
        <3> HIDE DEF p
        <3>4. g[i] * p \in Nat
            BY <3>1, <3>3
        <3> QED BY <3>4 DEF p, e, Term
    <2>3. Terms(g) = [i \in 1 .. Len(g) |-> Term(g, i)]
        BY <2>1 DEF Terms
    <2>4. Terms(g) \in Seq(Nat) /\ Len(Terms(g)) = Len(g)
          /\ \A i \in 1 .. Len(g) : Terms(g)[i] = Term(g, i)
        BY <2>1, <2>2, <2>3
    <2>5. IsFiniteSet(1 .. Len(g))
        BY <2>1, FS_Interval
    <2>6. Spelled(g) = Total(Terms(g))
        BY <2>1, <2>2, <2>5, SpelledIsTotal
    <2> QED BY <2>1, <2>4, <2>6
<1>3. /\ more \in Seq(Nat) /\ Len(more) = l + 1 /\ more[l + 1] = x
      /\ \A i \in 1 .. l : more[i] = groups[i]
    BY AppendProperties
<1>4. l \in Nat
    OBVIOUS
<1>5. y \in Nat
    <2> DEFINE e == GroupBits * l
               p == 2 ^ e
    <2>1. e \in Nat
        BY <1>1, <1>4
    <2> HIDE DEF e
    <2>2. p \in Nat
        BY <2>1, PowerNext
    <2> HIDE DEF p
    <2>3. x * p \in Nat
        BY <2>2
    <2> QED BY <2>3 DEF p, e
<1>l. l = Len(groups)
    OBVIOUS
<1> HIDE DEF more, y, l
<1> DEFINE A == Terms(groups)
           B == Terms(more)
<1>6. A \in Seq(Nat) /\ Len(A) = l /\ B \in Seq(Nat) /\ Len(B) = l + 1
      /\ (\A i \in 1 .. l : A[i] = Term(groups, i))
      /\ (\A i \in 1 .. l + 1 : B[i] = Term(more, i))
    BY <1>2, <1>3, <1>l
<1>7. Spelled(groups) = Total(A) /\ Spelled(more) = Total(B)
    BY <1>2, <1>3
<1> HIDE DEF A, B
<1> DEFINE C == Append(A, y)
<1>8. C \in Seq(Nat) /\ Len(C) = l + 1 /\ C[l + 1] = y /\ \A i \in 1 .. l : C[i] = A[i]
    BY <1>5, <1>6, AppendProperties
<1> HIDE DEF C
<1>9. ASSUME NEW i \in 1 .. Len(B) PROVE B[i] = C[i]
    <2>1. i \in 1 .. l \/ i = l + 1
        BY <1>4, <1>6
    <2>2. CASE i \in 1 .. l
        <3>1. Term(more, i) = Term(groups, i)
            BY <1>3, <2>2 DEF Term
        <3>2. i \in 1 .. l + 1
            BY <1>4, <2>2
        <3> QED BY <1>6, <1>8, <2>2, <3>1, <3>2
    <2>3. CASE i = l + 1
        <3>1. i - 1 = l /\ i \in 1 .. l + 1
            BY <1>4, <2>3
        <3>2. Term(more, i) = x * 2 ^ (GroupBits * l)
            BY <1>3, <2>3, <3>1 DEF Term
        <3> QED BY <1>6, <1>8, <2>3, <3>1, <3>2 DEF y
    <2> QED BY <2>1, <2>2, <2>3
<1>10. B = C
    BY <1>6, <1>8, <1>9, SeqEqual
<1>11. Total(C) = Total(A) + y /\ Total(A) \in Nat
    <2>1. Total(Append(A, y)) = Total(A) + y
        BY <1>5, <1>6, SumAppend
    <2>2. Len(A) \in 0 .. Len(A)
        BY <1>4, <1>6
    <2>3. Total(A) = SumTo(A, Len(A)) /\ SumTo(A, Len(A)) \in Nat
        BY <1>6, <2>2, SumSteps
    <2> QED BY <2>1, <2>3 DEF C
<1> QED BY <1>7, <1>10, <1>11 DEF more, y, l

\* A word is some groups and one bit: a shift that is in it is the top of it, or leaves
\* room for a group below the top.
LEMMA ShiftFits ==
    ASSUME NEW l \in Nat, GroupBits * l <= WordBits - 1
    PROVE  GroupBits * l = WordBits - 1 \/ GroupBits * l + GroupBits <= WordBits - 1
<1> DEFINE g == GroupBits
           w == WordBits
           q == w \div g
<1>1. g \in Nat /\ g > 0 /\ w \in Nat /\ w % g = 1 /\ g * l <= w - 1
    BY ProtocolAssumption
<1> HIDE DEF g, w
<1>2. q \in Nat /\ w = g * q + 1
    BY <1>1
<1> HIDE DEF q
<1>3. CASE l >= q
    <2>1. g * l >= g * q
        BY <1>1, <1>2, <1>3
    <2>2. g * l \in Int /\ g * q \in Int
        BY <1>1, <1>2
    <2>3. g * l = w - 1
        BY <1>1, <1>2, <2>1, <2>2
    <2> QED BY <2>3 DEF g, w
<1>4. CASE l < q
    <2>1. l + 1 <= q
        BY <1>2, <1>4
    <2>2. g * (l + 1) <= g * q
        BY <1>1, <1>2, <2>1
    <2>3. g * (l + 1) = g * l + g
        BY <1>1
    <2>4. g * l \in Int /\ g * q \in Int
        BY <1>1, <1>2
    <2>5. g * l + g <= w - 1
        BY <1>1, <1>2, <2>2, <2>3, <2>4
    <2> QED BY <2>5 DEF g, w
<1> QED BY <1>2, <1>3, <1>4

\* The number so far is what the groups read spell, and less than the next group's place.
NumberState(num) ==
    /\ num.groups \in Seq(Groups)
    /\ num.shift = GroupBits * Len(num.groups)
    /\ num.value = Spelled(num.groups)
    /\ ~num.done => num.value < 2 ^ num.shift /\ num.shift <= WordBits - 1

\* The inductive invariant of the numbers.
NumberInv == NumberState(number)

\* The widths of a word and a group.
LEMMA GroupFacts ==
    /\ GroupBits \in Nat /\ WordBits \in Nat /\ WordBits >= 1
    /\ 2 ^ GroupBits \in Nat /\ Groups = 0 .. 2 ^ GroupBits - 1 /\ Groups \subseteq Nat
<1>1. GroupBits \in Nat /\ GroupBits > 0 /\ WordBits \in Nat /\ WordBits % GroupBits = 1
    BY ProtocolAssumption
<1>2. WordBits # 0
    <2> DEFINE g == GroupBits
    <2>1. g \in Nat /\ g > 0
        BY <1>1
    <2> HIDE DEF g
    <2>2. 0 % g = 0
        BY <2>1
    <2> QED BY <1>1, <2>2 DEF g
<1>3. 2 ^ GroupBits \in Nat
    BY <1>1, PowerNext
<1>4. Groups = 0 .. 2 ^ GroupBits - 1
    BY DEF Groups
<1> DEFINE p == 2 ^ GroupBits
<1>5. p \in Nat /\ Groups = 0 .. p - 1
    BY <1>3, <1>4
<1> HIDE DEF p
<1>6. Groups \subseteq Nat
    BY <1>5
<1> QED BY <1>1, <1>2, <1>3, <1>4, <1>6

\* Nothing is read yet.
LEMMA NothingSpelled == NumberState(NoNumber)
<1>1. NoNumber.value = 0 /\ NoNumber.shift = 0 /\ NoNumber.groups = <<>>
    BY DEF NoNumber
<1>2. <<>> \in Seq(Groups) /\ Len(<<>>) = 0 /\ <<>> \in Seq(Nat)
    BY EmptySeq
<1>3. Spelled(<<>>) = 0
    <2>1. DOMAIN <<>> = {} /\ IsFiniteSet({})
        BY FS_EmptySet
    <2>2. Spelled(<<>>) = Total(Terms(<<>>))
        <3>1. IsFiniteSet(DOMAIN <<>>) /\ \A i \in DOMAIN <<>> : Term(<<>>, i) \in Nat
            BY <2>1
        <3> QED BY <3>1, SpelledIsTotal
    <2>3. Terms(<<>>) = <<>>
        BY DEF Terms
    <2>4. SumTo(<<>>, 0) = 0 /\ Total(<<>>) = SumTo(<<>>, Len(<<>>))
        BY <1>2, SumSteps
    <2> QED BY <1>2, <2>2, <2>3, <2>4
<1>4. GroupBits * 0 = 0 /\ 0 <= WordBits - 1
    BY GroupFacts
<1>5. 0 < 2 ^ 0
    BY PowerZero
<1> QED BY <1>1, <1>2, <1>3, <1>4, <1>5 DEF NumberState

\* A group that is read adds what it stands for, and the word has room for it.
LEMMA GroupSpelled ==
    ASSUME NumberInv, NEW group \in Groups, NEW more \in BOOLEAN, Group(group, more)
    PROVE  NumberInv'
<1> DEFINE gs == number.groups
           g == GroupBits
           shift == number.shift
           v == number.value
           p == 2 ^ shift
           top == 2 ^ WordBits
           all == 2 ^ (shift + g)
           x == v + group * p
<1>1. /\ gs \in Seq(Groups) /\ gs \in Seq(Nat) /\ Len(gs) \in Nat
      /\ shift = g * Len(gs) /\ v = Spelled(gs) /\ group \in Nat
    <2>1. gs \in Seq(Groups) /\ shift = g * Len(gs) /\ v = Spelled(gs)
        BY DEF NumberInv, NumberState
    <2>2. Groups \subseteq Nat
        BY GroupFacts
    <2> QED BY <2>1, <2>2, SeqMonotonic, LenProperties
<1>2. CASE Refuse
    <2>1. number' = number
        BY <1>2 DEF Refuse
    <2> QED BY <2>1 DEF NumberInv, NumberState
<1>3. CASE ~Refuse
    <2>1. /\ ~Unrepresentable(group) /\ ~(more /\ shift + g > WordBits - 1)
          /\ number' = [value |-> x % top, shift |-> shift + g,
                        groups |-> Append(gs, group), done |-> ~more]
          /\ ~number.done
        BY <1>3 DEF Group
    <2>2. v < p /\ shift <= WordBits - 1
        BY <2>1 DEF NumberInv, NumberState
    <2>3. /\ number'.value = x % top /\ number'.shift = shift + g
          /\ number'.groups = Append(gs, group) /\ number'.done = ~more
        BY <2>1
    <2>4. shift \in Nat /\ v \in Nat /\ g \in Nat /\ WordBits \in Nat
        <3>1. v \in Nat
            BY <1>1, SpelledMore
        <3>2. g * Len(gs) \in Nat
            BY <1>1, GroupFacts
        <3> QED BY <1>1, <3>1, <3>2, GroupFacts
    <2>5. p \in Nat /\ top \in Nat /\ all \in Nat /\ p >= 1 /\ all = p * 2 ^ g /\ 2 ^ g \in Nat
        <3>1. shift + g \in Nat /\ shift <= shift
            BY <2>4
        <3>2. p \in Nat /\ p >= 1
            BY <2>4, <3>1, PowerGrows
        <3>3. top \in Nat /\ all \in Nat /\ 2 ^ g \in Nat
            BY <2>4, <3>1, PowerNext
        <3>4. all = p * 2 ^ g
            BY <2>4, PowerSum
        <3> QED BY <3>2, <3>3, <3>4
    <2>6. shift = WordBits - 1 \/ shift + g <= WordBits - 1
        <3>1. g * Len(gs) = WordBits - 1 \/ g * Len(gs) + g <= WordBits - 1
            BY <1>1, <2>2, ShiftFits
        <3> QED BY <1>1, <3>1
    <2> DEFINE y == 2 ^ g
    <2>7. y \in Nat /\ group \in 0 .. y - 1 /\ all = p * y
        <3>1. y \in Nat /\ all = p * y
            BY <2>5
        <3>2. Groups = 0 .. y - 1
            BY GroupFacts
        <3> HIDE DEF y, all
        <3> QED BY <3>1, <3>2
    <2> HIDE DEF y, all, p
    <2>8. x \in Nat /\ group * p \in Nat
        BY <1>1, <2>4, <2>5
    <2>9. x < all
        <3>1. (group + 1) * p <= y * p
            BY <2>5, <2>7
        <3>2. (group + 1) * p = group * p + p /\ y * p = p * y
            BY <1>1, <2>5, <2>7
        <3> DEFINE z == group * p
        <3>3. z \in Nat /\ x = v + z /\ z + p <= all
            <4>1. z + p <= p * y
                BY <3>1, <3>2
            <4> QED BY <2>7, <2>8, <4>1
        <3> HIDE DEF z, x
        <3> QED BY <2>2, <2>4, <2>5, <3>3
    <2>10. x < top
        <3>1. CASE shift + g <= WordBits - 1
            <4>1. all <= top
                <5>1. shift + g \in Nat /\ shift + g <= WordBits
                    BY <2>4, <3>1
                <5>2. 2 ^ (shift + g) <= 2 ^ WordBits
                    BY <2>4, <5>1, PowerGrows
                <5> QED BY <5>2 DEF all
            <4> HIDE DEF x, top
            <4> QED BY <2>5, <2>8, <2>9, <4>1 DEF x
        <3>2. CASE shift = WordBits - 1
            <4>1. group <= 1
                <5>1. ~(group > 1)
                    BY <2>1, <3>2 DEF Unrepresentable
                <5> QED BY <1>1, <5>1
            <4>2. group * p <= p
                <5>1. group = 0 \/ group = 1
                    BY <1>1, <4>1
                <5>2. 0 * p = 0 /\ 1 * p = p
                    BY <2>5
                <5> QED BY <2>5, <5>1, <5>2
            <4>3. top = p + p
                <5>1. shift + 1 = WordBits
                    BY <2>4, <3>2
                <5>2. 2 ^ (shift + 1) = 2 ^ shift + 2 ^ shift
                    BY <2>4, PowerNext
                <5> QED BY <5>1, <5>2 DEF p
            <4> DEFINE z == group * p
            <4>4. z \in Nat /\ z <= p /\ x = v + z
                BY <2>8, <4>2
            <4> HIDE DEF z, x, top
            <4> QED BY <2>2, <2>4, <2>5, <4>3, <4>4 DEF top
        <3> QED BY <2>6, <3>1, <3>2
    <2>11. x % top = x
        <3> HIDE DEF x, top
        <3>1. x \in Nat /\ top \in Nat /\ x < top
            BY <2>5, <2>8, <2>10 DEF top, x
        <3> QED BY <3>1
    <2>12. Spelled(Append(gs, group)) = x
        <3>1. Spelled(Append(gs, group)) = Spelled(gs) + group * 2 ^ (GroupBits * Len(gs))
            BY <1>1, SpelledMore
        <3>2. GroupBits * Len(gs) = shift
            BY <1>1
        <3>3. Spelled(gs) = v
            BY <1>1
        <3> QED BY <3>1, <3>2, <3>3 DEF p
    <2>13. Append(gs, group) \in Seq(Groups) /\ Len(Append(gs, group)) = Len(gs) + 1
        BY <1>1, AppendProperties
    <2>14. shift + g = g * (Len(gs) + 1)
        <3>1. g * (Len(gs) + 1) = g * Len(gs) + g
            BY <1>1, <2>4
        <3> QED BY <1>1, <3>1
    <2>15. ASSUME more PROVE x < 2 ^ (shift + g) /\ shift + g <= WordBits - 1
        <3>1. ~(shift + g > WordBits - 1)
            BY <2>1, <2>15
        <3> QED BY <2>4, <2>9, <3>1 DEF all
    <2> HIDE DEF x, top, shift, g, gs, v
    <2> QED BY <2>3, <2>11, <2>12, <2>13, <2>14, <2>15 DEF NumberInv, NumberState, g
<1> QED BY <1>2, <1>3

\* Every step keeps it.
LEMMA NumberInvNext ==
    NumberInv /\ [Next]_<<recordVars, readerVars>> => NumberInv'
<1> SUFFICES ASSUME NumberInv, [Next]_<<recordVars, readerVars>> PROVE NumberInv'
    OBVIOUS
<1>1. CASE UNCHANGED number
    BY <1>1 DEF NumberInv, NumberState
<1>2. CASE number' = NoNumber
    <2>1. NumberState(number')
        BY <1>2, NothingSpelled
    <2> QED BY <2>1 DEF NumberInv, NumberState
<1>3. CASE \E group \in Groups, more \in BOOLEAN : Group(group, more)
    BY <1>3, GroupSpelled
<1>4. ASSUME ReaderNext, ~\E group \in Groups, more \in BOOLEAN : Group(group, more)
      PROVE  number' = number \/ number' = NoNumber
    <2>1. ASSUME NEW n, NEW next, Take(n, next) PROVE number' = number \/ number' = NoNumber
        BY <2>1 DEF Take, Refuse
    <2>2. ASSUME Refuse PROVE number' = number
        BY <2>2 DEF Refuse
    <2>3. CASE Magic4 \/ RoomId \/ VarBytes \/ VarInt \/ Byte \/ BatchId \/ Count
        BY <2>1, <2>2, <2>3 DEF Magic4, RoomId, VarBytes, VarInt, Byte, BatchId, Count
    <2>4. CASE Rest \/ EndOfMessage
        BY <2>4 DEF Rest, EndOfMessage
    <2>5. CASE Update
        BY <2>2, <2>5 DEF Update
    <2>6. CASE \E type \in 0 .. 9 : MessageType(type)
        BY <2>1, <2>2, <2>6 DEF MessageType
    <2>7. CASE \E extended \in BOOLEAN : ErrorCode(extended)
        BY <2>1, <2>7 DEF ErrorCode
    <2> QED BY <1>4, <2>3, <2>4, <2>5, <2>6, <2>7 DEF ReaderNext
<1>5. CASE UNCHANGED readerVars
    BY <1>1, <1>5 DEF readerVars
<1> QED BY <1>1, <1>2, <1>3, <1>4, <1>5 DEF Next, recordVars, readerVars

\* NumbersAreExact: the value of a variable-length integer that the decoder accepts is the
\* sum of its groups at their places; no shift loses a bit and no sum wraps around.
THEOREM NumbersAreExactHolds == Spec => []NumbersAreExact
<1>1. Init => NumberInv
    BY NothingSpelled DEF Init, ReaderInit, NumberInv
<1>2. NumberInv => NumbersAreExact
    BY DEF NumberInv, NumberState, NumbersAreExact, Spelled
<1> QED BY <1>1, <1>2, NumberInvNext, PTL DEF Spec
=============================================================================
