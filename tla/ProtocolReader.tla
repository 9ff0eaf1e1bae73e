--------------------------- MODULE ProtocolReader ---------------------------
(***************************************************************************)
(* decode_bounded (src/src/protocol.rs): the walk over a received message  *)
(* that checks every length and limit before the official codec allocates  *)
(* anything.  A message is its size and the bytes the walk looks at, each  *)
(* chosen when it is read; the bytes it skips do not matter.               *)
(*                                                                         *)
(* Words have GroupBits * k + 1 bits and a byte of a variable-length       *)
(* number carries GroupBits of them, as 64 is 7 * 9 + 1.                   *)
(***************************************************************************)
EXTENDS Integers, FiniteSets, SequencesExt

CONSTANTS
    GroupBits, WordBits,
    MaxSize,                                     \* bound on the input
    MaxMessageBytes, MaxRoomIdBytes, MaxUpdates, MaxUpdateBytes,
    MaxUpdatesBytes                              \* ProtocolLimits

ASSUME ProtocolAssumption ==
    /\ GroupBits \in Nat \ {0} /\ WordBits \in Nat /\ WordBits % GroupBits = 1
    /\ MaxSize \in Nat /\ MaxSize < 2 ^ WordBits
    /\ {MaxMessageBytes, MaxRoomIdBytes, MaxUpdates, MaxUpdateBytes, MaxUpdatesBytes}
           \subseteq Nat

VARIABLES
    size,      \* input.len()
    cursor,
    todo,      \* what the walk still expects, field by field
    number,    \* the variable-length number being read
    updates_bytes,
    updates,   \* history: where the updates passed are in the input
    status     \* "reading", "accepted" or "refused"

readerVars == <<size, cursor, todo, number, updates_bytes, updates, status>>

Word == 0 .. 2 ^ WordBits - 1

\* The result so far, the shift of the next group and, as history, the groups.
NoNumber == [value |-> 0, shift |-> 0, groups |-> <<>>, done |-> FALSE]

ReaderInit ==
    /\ size \in 0 .. MaxSize
    /\ cursor = 0
    /\ todo = <<"magic", "room", "type">>
    /\ number = NoNumber
    /\ updates_bytes = 0 /\ updates = <<>>
    /\ status = "reading"

-----------------------------------------------------------------------------
(* Reader *)

Refuse ==
    /\ status' = "refused"
    /\ UNCHANGED <<size, cursor, todo, number, updates_bytes, updates>>

\* Variant, for the mutation runs: the sum wraps.
WithinInputWrapping(n) == (cursor + n) % 2 ^ WordBits <= size

\* take: the end is in the word and in the input.
WithinInput(n) == cursor + n \in Word /\ cursor + n <= size

\* n bytes are passed and the walk goes on with next.
Take(n, next) ==
    IF WithinInput(n)
    THEN /\ cursor' = (cursor + n) % 2 ^ WordBits
         /\ todo' = next
         /\ number' = NoNumber
         /\ UNCHANGED <<size, updates_bytes, updates, status>>
    ELSE Refuse

\* Variant, for the mutation runs: bits beyond the word are shifted out.
UnrepresentableIgnored(group) == FALSE

\* The group at the top of the word has room for one bit.
Unrepresentable(group) == number.shift = WordBits - 1 /\ group > 1

\* One byte of uleb128: its group, and whether another follows.
Group(group, more) ==
    /\ status = "reading" /\ todo # <<>> /\ ~number.done
    /\ Head(todo) \in {"room", "bytes", "int", "count", "update"}
    /\ LET shift == number.shift + GroupBits IN
       IF \/ cursor = size
          \/ Unrepresentable(group)
          \/ more /\ shift > WordBits - 1
       THEN Refuse
       ELSE /\ cursor' = cursor + 1
            /\ number' = [value |-> (number.value + group * 2 ^ number.shift)
                                        % 2 ^ WordBits,
                          shift |-> shift,
                          groups |-> Append(number.groups, group),
                          done |-> ~more]
            /\ UNCHANGED <<size, todo, updates_bytes, updates, status>>

-----------------------------------------------------------------------------
(* precheck *)

Reads(field) == status = "reading" /\ todo # <<>> /\ Head(todo) = field
Known(field) == Reads(field) /\ number.done

\* The size of the whole message is checked before its first field.
Magic4 ==
    /\ Reads("magic")
    /\ IF size > MaxMessageBytes THEN Refuse ELSE Take(4, Tail(todo))

RoomId ==
    /\ Known("room")
    /\ IF number.value > MaxRoomIdBytes
       THEN Refuse
       ELSE Take(number.value, Tail(todo))

\* What follows the type byte; there are nine types.
Layout(type) ==
    CASE type = 0 -> <<"bytes", "bytes">>
      [] type = 1 -> <<"bytes", "bytes", "bytes">>
      [] type = 2 -> <<"code">>
      [] type = 3 -> <<"count">>
      [] type = 4 -> <<"id", "int", "int">>
      [] type = 5 -> <<"id", "int", "bytes">>
      [] type = 6 -> <<"byte", "bytes">>
      [] type = 7 -> <<>>
      [] type = 8 -> <<"id", "byte">>

MessageType(type) ==
    /\ Reads("type")
    /\ IF type \in 0 .. 8 THEN Take(1, Layout(type)) ELSE Refuse

\* A code of a join error after which one more field may follow, or not.
ErrorCode(extended) ==
    /\ Reads("code")
    /\ Take(1, IF extended THEN <<"bytes", "rest">> ELSE <<"bytes">>)

Rest ==
    /\ Reads("rest")
    /\ todo' = IF cursor = size THEN <<>> ELSE <<"bytes">>
    /\ UNCHANGED <<size, cursor, number, updates_bytes, updates, status>>

VarBytes == Known("bytes") /\ Take(number.value, Tail(todo))
VarInt == Known("int") /\ Take(0, Tail(todo))
Byte == Reads("byte") /\ Take(1, Tail(todo))
BatchId == Reads("id") /\ Take(8, Tail(todo))

Count ==
    /\ Known("count")
    /\ IF number.value > MaxUpdates
       THEN Refuse
       ELSE Take(0, [i \in 1 .. number.value |-> "update"] \o <<"id">>)

\* Variant, for the mutation runs: the sum is compared before this update is in it.
UpdateAllowedLate(n) ==
    n <= MaxUpdateBytes /\ updates_bytes <= MaxUpdatesBytes

UpdateAllowed(n) ==
    LET sum == updates_bytes + n IN
    n <= MaxUpdateBytes /\ sum \in Word /\ sum <= MaxUpdatesBytes

Update ==
    /\ Known("update")
    /\ IF UpdateAllowed(number.value) /\ WithinInput(number.value)
       THEN /\ cursor' = (cursor + number.value) % 2 ^ WordBits
            /\ updates_bytes' = (updates_bytes + number.value) % 2 ^ WordBits
            /\ updates' = Append(updates, (cursor + 1) .. (cursor + number.value))
            /\ todo' = Tail(todo)
            /\ number' = NoNumber
            /\ UNCHANGED <<size, status>>
       ELSE Refuse

\* Nothing more is expected: nothing more may be there.
EndOfMessage ==
    /\ status = "reading" /\ todo = <<>>
    /\ status' = IF cursor = size THEN "accepted" ELSE "refused"
    /\ UNCHANGED <<size, cursor, todo, number, updates_bytes, updates>>

Groups == 0 .. 2 ^ GroupBits - 1

ReaderNext ==
    \/ Magic4 \/ RoomId \/ Rest \/ VarBytes \/ VarInt \/ Byte \/ BatchId
    \/ Count \/ Update \/ EndOfMessage
    \/ \E group \in Groups, more \in BOOLEAN : Group(group, more)
    \/ \E type \in 0 .. 9 : MessageType(type)
    \/ \E extended \in BOOLEAN : ErrorCode(extended)

-----------------------------------------------------------------------------
(* Properties *)

\* The number the walk computes is the one its bytes spell, however long they are:
\* nothing is lost at the top of the word (uleb128, protocol.rs).
NumbersAreExact ==
    number.value = MapThenSumSet(
        LAMBDA i : number.groups[i] * 2 ^ (GroupBits * (i - 1)),
        DOMAIN number.groups)

\* The walk never goes back and never leaves the message, whatever a length
\* prefix says (Reader::take, protocol.rs).
WalkGoesForward == [][cursor' >= cursor /\ cursor' <= size]_readerVars

\* A message that is accepted has been walked to its end, and its updates are
\* parts of it, none shared by two, within the limits each and together
\* (precheck, protocol.rs).
AcceptedIsWithinLimits ==
    status = "accepted" =>
        /\ cursor = size /\ size <= MaxMessageBytes
        /\ Len(updates) <= MaxUpdates
        /\ \A i \in DOMAIN updates : /\ updates[i] \subseteq 1 .. size
                                    /\ Cardinality(updates[i]) <= MaxUpdateBytes
        /\ \A i, j \in DOMAIN updates : i # j => updates[i] \cap updates[j] = {}
        /\ Cardinality(UNION {updates[i] : i \in DOMAIN updates}) <= MaxUpdatesBytes
=============================================================================
