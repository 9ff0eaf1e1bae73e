---------------------------- MODULE RoomsProofs -----------------------------
(***************************************************************************)
(* The room with its manager, its queue and the tasks of its connections   *)
(* is the room of Gateway, and it forgets the connections that are gone,   *)
(* whatever the environment does.                                          *)
(***************************************************************************)
EXTENDS GatewayProofs, Rooms

-----------------------------------------------------------------------------
(* The inductive invariant *)

Orders ==
    [kind : {"join", "leave"}, conn : Connections, batch : {None}]
        \cup [kind : {"update"}, conn : Connections, batch : Batches]
        \cup [kind : {"retry"}, conn : {None}, batch : {None}]

TaskTypeOK ==
    /\ queue \in Seq(Orders)
    /\ tasks \in [Connections -> {"open", "closing", "draining", "ended"}]
    /\ joined \subseteq Connections
    /\ peers \subseteq Connections

\* Position i of a queue is a command of connection c.
IsJoin(q, i, c) == q[i].kind = "join" /\ q[i].conn = c
IsLeave(q, i, c) == q[i].kind = "leave" /\ q[i].conn = c

\* A task drops its sender when it has left every room.
GoneHaveLeft ==
    \A c \in Connections : tasks[c] \in {"draining", "ended"} => c \notin joined

\* A join still in the queue of a connection that left has its leave behind it.
JoinsAreUndone ==
    \A c \in Connections : c \notin joined =>
        \A i \in DOMAIN queue : IsJoin(queue, i, c) =>
            \E j \in DOMAIN queue : i < j /\ IsLeave(queue, j, c)

\* A peer that left has its leave in the queue, or the room ignored it.
LeftAreForgotten ==
    \A c \in peers : c \notin joined => LeaveQueued(c) \/ c \in dropped

TaskInv == TaskTypeOK /\ GoneHaveLeft /\ JoinsAreUndone /\ LeftAreForgotten

-----------------------------------------------------------------------------
(* The queue *)

\* A command joins the queue at its end and moves none of the others.
LEMMA SentLast ==
    ASSUME NEW q \in Seq(Orders), NEW order \in Orders
    PROVE  LET r == Append(q, order) IN
           /\ r \in Seq(Orders)
           /\ Len(q) + 1 \in DOMAIN r /\ r[Len(q) + 1] = order
           /\ \A i \in DOMAIN q : i \in DOMAIN r /\ r[i] = q[i] /\ i < Len(q) + 1
           /\ \A i \in DOMAIN r : i \in DOMAIN q \/ i = Len(q) + 1
OBVIOUS

\* The first command is taken and the others move up.
LEMMA TakenFirst ==
    ASSUME NEW q \in Seq(Orders), q # <<>>
    PROVE  /\ Head(q) \in Orders /\ Head(q) = q[1] /\ 1 \in DOMAIN q
           /\ Tail(q) \in Seq(Orders)
           /\ \A i \in DOMAIN Tail(q) : i + 1 \in DOMAIN q /\ Tail(q)[i] = q[i + 1] /\ i \in Nat
           /\ \A i \in DOMAIN q : i > 1 => i - 1 \in DOMAIN Tail(q) /\ Tail(q)[i - 1] = q[i]
           /\ \A i \in DOMAIN q : i \in Nat /\ i >= 1
OBVIOUS


\* A leave in the queue is still there when another command is sent.
LEMMA LeaveStays ==
    ASSUME TaskTypeOK, NEW order \in Orders, queue' = Append(queue, order),
           NEW c \in Connections, LeaveQueued(c)
    PROVE  LeaveQueued(c)'
BY SentLast DEF LeaveQueued, TaskTypeOK

\* A new command spoils nothing for a connection that is not joined, unless it
\* is a join of it, and a leave is the last of its connection's commands.
LEMMA SentKeepsOrder ==
    ASSUME TaskTypeOK, NEW order \in Orders, queue' = Append(queue, order),
           NEW c \in Connections,
           \/ order.kind = "leave" /\ order.conn = c
           \/ /\ ~(order.kind = "join" /\ order.conn = c)
              /\ \A i \in DOMAIN queue : IsJoin(queue, i, c) =>
                     \E j \in DOMAIN queue : i < j /\ IsLeave(queue, j, c)
    PROVE  \A i \in DOMAIN queue' : IsJoin(queue', i, c) =>
               \E j \in DOMAIN queue' : i < j /\ IsLeave(queue', j, c)
<1> DEFINE last == Len(queue) + 1
<1>1. /\ last \in DOMAIN queue' /\ queue'[last] = order
      /\ \A i \in DOMAIN queue : i \in DOMAIN queue' /\ queue'[i] = queue[i] /\ i < last
      /\ \A i \in DOMAIN queue' : i \in DOMAIN queue \/ i = last
    BY SentLast DEF TaskTypeOK
<1> HIDE DEF last
<1>2. SUFFICES ASSUME NEW i \in DOMAIN queue', IsJoin(queue', i, c)
               PROVE  \E j \in DOMAIN queue' : i < j /\ IsLeave(queue', j, c)
    OBVIOUS
<1>3. CASE order.kind = "leave" /\ order.conn = c
    <2>1. i # last
        BY <1>1, <1>2, <1>3 DEF IsJoin
    <2>2. i < last /\ IsLeave(queue', last, c)
        BY <1>1, <1>2, <1>3, <2>1 DEF IsLeave
    <2> QED BY <1>1, <2>2
<1>4. CASE /\ ~(order.kind = "join" /\ order.conn = c)
           /\ \A k \in DOMAIN queue : IsJoin(queue, k, c) =>
                  \E j \in DOMAIN queue : k < j /\ IsLeave(queue, j, c)
    <2>1. i # last
        BY <1>1, <1>2, <1>4 DEF IsJoin
    <2>2. i \in DOMAIN queue /\ IsJoin(queue, i, c)
        BY <1>1, <1>2, <2>1 DEF IsJoin
    <2>3. PICK j \in DOMAIN queue : i < j /\ IsLeave(queue, j, c)
        BY <1>4, <2>2
    <2>4. j \in DOMAIN queue' /\ IsLeave(queue', j, c)
        BY <1>1, <2>3 DEF IsLeave
    <2> QED BY <2>3, <2>4
<1> QED BY <1>3, <1>4

\* Taking the first command keeps the order of the rest.
LEMMA TakenKeepsOrder ==
    ASSUME TaskTypeOK, queue # <<>>, queue' = Tail(queue), NEW c \in Connections,
           \A i \in DOMAIN queue : IsJoin(queue, i, c) =>
               \E j \in DOMAIN queue : i < j /\ IsLeave(queue, j, c)
    PROVE  /\ \A i \in DOMAIN queue' : IsJoin(queue', i, c) =>
                  \E j \in DOMAIN queue' : i < j /\ IsLeave(queue', j, c)
           /\ IsJoin(queue, 1, c) => LeaveQueued(c)'
           /\ LeaveQueued(c) => LeaveQueued(c)' \/ IsLeave(queue, 1, c)
<1>1. /\ 1 \in DOMAIN queue
      /\ \A i \in DOMAIN queue' : i + 1 \in DOMAIN queue /\ queue'[i] = queue[i + 1] /\ i \in Nat
      /\ \A i \in DOMAIN queue : i > 1 => i - 1 \in DOMAIN queue' /\ queue'[i - 1] = queue[i]
      /\ \A i \in DOMAIN queue : i \in Nat /\ i >= 1
    BY TakenFirst DEF TaskTypeOK
<1>2. ASSUME NEW i \in DOMAIN queue', IsJoin(queue', i, c)
      PROVE  \E j \in DOMAIN queue' : i < j /\ IsLeave(queue', j, c)
    <2>1. i + 1 \in DOMAIN queue /\ IsJoin(queue, i + 1, c) /\ i \in Nat
        BY <1>1, <1>2 DEF IsJoin
    <2>2. PICK j \in DOMAIN queue : i + 1 < j /\ IsLeave(queue, j, c)
        BY <2>1
    <2>3. j \in Nat /\ j > 1 /\ i < j - 1
        BY <1>1, <2>1, <2>2
    <2>4. j - 1 \in DOMAIN queue' /\ IsLeave(queue', j - 1, c)
        BY <1>1, <2>2, <2>3 DEF IsLeave
    <2> QED BY <2>3, <2>4
<1>3. ASSUME IsJoin(queue, 1, c)
      PROVE  LeaveQueued(c)'
    <2>1. PICK j \in DOMAIN queue : 1 < j /\ IsLeave(queue, j, c)
        BY <1>1, <1>3
    <2>2. j \in Nat /\ j > 1
        BY <1>1, <2>1
    <2>3. j - 1 \in DOMAIN queue' /\ IsLeave(queue', j - 1, c)
        BY <1>1, <2>1, <2>2 DEF IsLeave
    <2> QED BY <2>3 DEF LeaveQueued, IsLeave
<1>4. ASSUME LeaveQueued(c), ~IsLeave(queue, 1, c)
      PROVE  LeaveQueued(c)'
    <2>1. PICK j \in DOMAIN queue : IsLeave(queue, j, c)
        BY <1>4 DEF LeaveQueued, IsLeave
    <2>2. j \in Nat /\ j > 1
        BY <1>1, <1>4, <2>1
    <2>3. j - 1 \in DOMAIN queue' /\ IsLeave(queue', j - 1, c)
        BY <1>1, <2>1, <2>2 DEF IsLeave
    <2> QED BY <2>3 DEF LeaveQueued, IsLeave
<1> QED BY <1>2, <1>3, <1>4

-----------------------------------------------------------------------------
(* The tasks *)

\* The steps of the actor serve the peers it has and change none.
LEMMA WorkKeepsPeers ==
    ASSUME ActorStep
    PROVE  peers' = peers
<1>1. CASE UpdateCommitted \/ UpdateVerified \/ AppendAgain \/ UpdateUnknown
              \/ UpdateRejected \/ RetryResolved \/ RetryUnknown \/ RetryRejected
              \/ Reload \/ ReloadFails
    BY <1>1 DEF UpdateCommitted, UpdateVerified, Accept, AppendAgain, UpdateUnknown,
                UpdateRejected, RetryResolved, RetryUnknown, RetryRejected, StayBlocked,
                Reload, ReloadFails, peerVars
<1>2. CASE Persist \/ CheckpointAppended \/ ExactAppendAgain \/ ExactAppendFails
              \/ Prepare \/ Position \/ Publish \/ ManifestAppended
              \/ Switch \/ StoreCallFails
    BY <1>2 DEF Persist, CheckpointAppended, ExactAppendAgain, ExactAppendFails,
                Prepare, Position, Publish, ManifestAppended, Switch, StoreCallFails,
                GoOn, GiveUp, Submit, RotationFrame, peerVars
<1>3. CASE ReadManifest \/ ReplayLegacy \/ ReadCheckpoint \/ ReadDelta \/ ActivationFails
    BY <1>3 DEF ReadManifest, ReplayLegacy, ReadCheckpoint, ReadDelta, ActivationFails,
                Continue, FailActivation, Activated, peerVars
<1> QED BY <1>1, <1>2, <1>3 DEF ActorStep

\* A command of a task that is sent to the room.
LEMMA SendStep ==
    ASSUME TaskInv, NEW c \in Connections,
           SendJoin(c) \/ SendLeave(c) \/ \E b \in Batches : SendUpdate(c, b)
    PROVE  TaskInv'
<1> USE DEF TaskInv
<1>1. PICK order \in Orders :
         /\ queue' = Append(queue, order)
         /\ order.conn = c
         /\ \/ order.kind = "join" /\ joined' = joined \cup {c} /\ tasks[c] = "open"
            \/ order.kind = "leave" /\ joined' = joined \ {c}
            \/ order.kind = "update" /\ joined' = joined
    <2>1. CASE SendJoin(c)
        BY <2>1 DEF SendJoin, Call, Send, Order, Orders
    <2>2. CASE SendLeave(c)
        BY <2>2 DEF SendLeave, Call, Send, Order, Orders
    <2>3. CASE \E b \in Batches : SendUpdate(c, b)
        BY <2>3 DEF SendUpdate, Call, Send, Order, Orders
    <2> QED BY <2>1, <2>2, <2>3
<1>2. UNCHANGED <<peers, tasks, dropped>>
    BY DEF SendJoin, SendLeave, SendUpdate, Call, Send, vars, peerVars
<1>3. TaskTypeOK'
    BY <1>1, <1>2, SentLast DEF TaskTypeOK
<1>4. GoneHaveLeft'
    BY <1>1, <1>2 DEF GoneHaveLeft
<1>5. JoinsAreUndone'
    <2> SUFFICES ASSUME NEW d \in Connections, d \notin joined'
                 PROVE  \A i \in DOMAIN queue' : IsJoin(queue', i, d) =>
                            \E j \in DOMAIN queue' : i < j /\ IsLeave(queue', j, d)
        BY DEF JoinsAreUndone, IsJoin, IsLeave
    <2>1. CASE order.kind = "leave" /\ order.conn = d
        BY <1>1, <2>1, SentKeepsOrder
    <2>2. CASE ~(order.kind = "leave" /\ order.conn = d)
        <3>1. d \notin joined /\ ~(order.kind = "join" /\ order.conn = d)
            BY <1>1, <2>2
        <3> QED BY <1>1, <3>1, SentKeepsOrder DEF JoinsAreUndone
    <2> QED BY <2>1, <2>2
<1>6. LeftAreForgotten'
    <2> SUFFICES ASSUME NEW d \in peers, d \notin joined'
                 PROVE  LeaveQueued(d)' \/ d \in dropped
        BY <1>2 DEF LeftAreForgotten, LeaveQueued
    <2>1. d \in Connections
        BY DEF TaskTypeOK
    <2>2. CASE order.kind = "leave" /\ order.conn = d
        BY <1>1, <2>2, SentLast DEF LeaveQueued, TaskTypeOK
    <2>3. CASE ~(order.kind = "leave" /\ order.conn = d)
        <3>1. d \notin joined
            BY <1>1, <2>3
        <3> QED BY <1>1, <2>1, <3>1, LeaveStays DEF LeftAreForgotten
    <2> QED BY <2>2, <2>3
<1> QED BY <1>3, <1>4, <1>5, <1>6

\* The end of a connection.
LEMMA CloseStep ==
    ASSUME TaskInv, NEW c \in Connections,
           Disconnect(c) \/ DropSender(c) \/ WriterEnds(c) \/ WriterFails(c)
    PROVE  TaskInv'
<1> USE DEF TaskInv
<1>1. UNCHANGED <<queue, joined, dropped, peers>>
    BY DEF Disconnect, DropSender, WriterEnds, WriterFails, Finish, vars, peerVars
<1>2. TaskTypeOK' /\ GoneHaveLeft'
    BY <1>1 DEF Disconnect, DropSender, WriterEnds, WriterFails, Finish, TaskTypeOK,
                GoneHaveLeft
<1> QED BY <1>1, <1>2 DEF JoinsAreUndone, LeftAreForgotten, LeaveQueued, IsJoin, IsLeave

\* An operator's request is in the queue like any other.
LEMMA AskStep ==
    ASSUME TaskInv, OperatorAsks
    PROVE  TaskInv'
<1> USE DEF TaskInv
<1> DEFINE order == Order("retry", None, None)
<1>1. /\ order \in Orders /\ order.kind = "retry" /\ queue' = Append(queue, order)
      /\ UNCHANGED <<joined, tasks, dropped, peers>>
    BY DEF OperatorAsks, Send, Order, Orders, vars, peerVars
<1> HIDE DEF order
<1>2. TaskTypeOK' /\ GoneHaveLeft'
    BY <1>1, SentLast DEF TaskTypeOK, GoneHaveLeft
<1>3. JoinsAreUndone'
    <2> SUFFICES ASSUME NEW d \in Connections, d \notin joined
                 PROVE  \A i \in DOMAIN queue' : IsJoin(queue', i, d) =>
                            \E j \in DOMAIN queue' : i < j /\ IsLeave(queue', j, d)
        BY <1>1 DEF JoinsAreUndone, IsJoin, IsLeave
    <2> QED BY <1>1, SentKeepsOrder DEF JoinsAreUndone
<1>4. LeftAreForgotten'
    <2> SUFFICES ASSUME NEW d \in peers, d \notin joined
                 PROVE  LeaveQueued(d)' \/ d \in dropped
        BY <1>1 DEF LeftAreForgotten, LeaveQueued
    <2> QED BY <1>1, LeaveStays DEF LeftAreForgotten, TaskTypeOK
<1> QED BY <1>2, <1>3, <1>4

\* The actor takes the first command: a late join has its leave behind it, and
\* a leave that changes nothing was of no peer, or is counted as dropped.
LEMMA TakeStep ==
    ASSUME TaskInv, Take
    PROVE  TaskInv'
<1> USE DEF TaskInv
<1>1. PICK i \in DOMAIN queue :
         LET order == queue[i] IN
         TakeJoin(order) \/ TakeUpdate(order) \/ TakeLeave(order) \/ TakeRetry(order)
    BY DEF Take
<1> DEFINE order == queue[i]
<1>2. /\ queue # <<>> /\ order = queue[1] /\ queue' = Tail(queue)
      /\ order \in Orders
      /\ UNCHANGED <<tasks, joined>>
    BY <1>1, TakenFirst DEF TakeJoin, TakeUpdate, TakeLeave, TakeRetry, Takes, TaskTypeOK
<1>3. peers' \subseteq peers \cup {d \in Connections : IsJoin(queue, 1, d)}
    BY <1>1, <1>2 DEF TakeJoin, TakeUpdate, TakeLeave, TakeRetry, Refuses, Join, Leave,
       Update, RetryAmbiguous, vars, peerVars, IsJoin, Orders
<1>4. /\ dropped \subseteq dropped'
      /\ \A d \in peers' : IsLeave(queue, 1, d) => d \in dropped'
    BY <1>1, <1>2 DEF TakeJoin, TakeUpdate, TakeLeave, TakeRetry, Refuses, Leave,
       vars, peerVars, IsLeave
<1>5. TaskTypeOK' /\ GoneHaveLeft'
    BY <1>2, <1>3, TakenFirst DEF TaskTypeOK, GoneHaveLeft
<1>6. ASSUME NEW d \in Connections, d \notin joined
      PROVE  /\ \A k \in DOMAIN queue' : IsJoin(queue', k, d) =>
                    \E j \in DOMAIN queue' : k < j /\ IsLeave(queue', j, d)
             /\ IsJoin(queue, 1, d) => LeaveQueued(d)'
             /\ LeaveQueued(d) => LeaveQueued(d)' \/ IsLeave(queue, 1, d)
    BY <1>2, <1>6, TakenKeepsOrder DEF JoinsAreUndone
<1>7. JoinsAreUndone'
    BY <1>2, <1>6 DEF JoinsAreUndone, IsJoin, IsLeave
<1>8. LeftAreForgotten'
    <2> SUFFICES ASSUME NEW d \in peers', d \notin joined
                 PROVE  LeaveQueued(d)' \/ d \in dropped'
        BY <1>2 DEF LeftAreForgotten, LeaveQueued
    <2>1. d \in Connections
        BY <1>5 DEF TaskTypeOK
    <2>2. CASE IsJoin(queue, 1, d)
        BY <1>6, <2>1, <2>2
    <2>3. CASE d \in peers
        BY <1>4, <1>6, <2>1, <2>3 DEF LeftAreForgotten
    <2> QED BY <1>3, <2>2, <2>3
<1> QED BY <1>5, <1>7, <1>8

\* Whatever happens, the actor's own steps included, moves no command of the
\* queue past another.
LEMMA TaskStep ==
    ASSUME TaskInv, [RNext]_rvars
    PROVE  TaskInv'
<1>1. CASE \E c \in Connections :
              SendJoin(c) \/ SendLeave(c) \/ \E b \in Batches : SendUpdate(c, b)
    BY <1>1, SendStep
<1>2. CASE \E c \in Connections :
              Disconnect(c) \/ DropSender(c) \/ WriterEnds(c) \/ WriterFails(c)
    BY <1>2, CloseStep
<1>3. CASE OperatorAsks
    BY <1>3, AskStep
<1>4. CASE Take
    BY <1>4, TakeStep
<1>5. ASSUME UNCHANGED <<queue, tasks, joined, peers, dropped>>
      PROVE  TaskInv'
    BY <1>5 DEF TaskInv, TaskTypeOK, GoneHaveLeft, JoinsAreUndone, LeftAreForgotten,
                LeaveQueued, IsJoin, IsLeave
<1>6. CASE Work
    BY <1>5, <1>6, WorkKeepsPeers DEF Work
<1>7. CASE LateDelivery /\ UNCHANGED taskVars
    BY <1>5, <1>7 DEF LateDelivery, taskVars, peerVars
<1>8. CASE RCrash
    BY <1>8 DEF RCrash, Crash, TaskInv, TaskTypeOK, GoneHaveLeft, JoinsAreUndone,
                LeftAreForgotten
<1>9. CASE UNCHANGED rvars
    BY <1>5, <1>9 DEF rvars, vars, taskVars, peerVars
<1> QED BY <1>1, <1>2, <1>3, <1>4, <1>6, <1>7, <1>8, <1>9 DEF RNext

-----------------------------------------------------------------------------
(* The theorems *)

\* The invariant of the queue and the tasks.
THEOREM TasksHold == RSpec => []TaskInv
<1>1. RInit => TaskInv
    BY DEF RInit, Init, TaskInv, TaskTypeOK, GoneHaveLeft, JoinsAreUndone, LeftAreForgotten
<1>2. TaskInv /\ [RNext]_rvars => TaskInv'
    BY TaskStep
<1> QED BY <1>1, <1>2, PTL DEF RSpec

\* A connection whose task is past its leaves is no peer of the room once the
\* queue is worked off, unless an unusable room ignored its leave: with any number
\* of connections and any capacity of the queue, no command of a connection
\* overtakes its leave (connection in server.rs, run in actor.rs).
THEOREM GoneAreForgotten == RSpec => []GonePeersAreForgotten
<1>1. TaskInv => GonePeersAreForgotten
    BY DEF TaskInv, TaskTypeOK, GoneHaveLeft, LeftAreForgotten, GonePeersAreForgotten
<1> QED BY <1>1, TasksHold, PTL

\* The room behind its manager and its queue is a room of Gateway: every step of
\* a task, of the queue or of the actor is one of its steps or changes nothing of
\* it, so that what is proved of Gateway holds behind the queue as well
\* (RoomManager::room and run in actor.rs, connection in server.rs).
THEOREM RoomsImplementGateway == RSpec => Spec
<1>1. RInit => Init
    BY DEF RInit
<1>2. TaskInv /\ [RNext]_rvars => [Next]_vars
    <2> SUFFICES ASSUME TaskInv, [RNext]_rvars
                 PROVE  [Next]_vars
        OBVIOUS
    <2>1. CASE \E c \in Connections :
                  \/ SendJoin(c) \/ SendLeave(c) \/ Disconnect(c)
                  \/ DropSender(c) \/ WriterEnds(c) \/ WriterFails(c)
                  \/ \E b \in Batches : SendUpdate(c, b)
        BY <2>1 DEF SendJoin, SendLeave, SendUpdate, Call, Send, Disconnect, DropSender,
                    WriterEnds, WriterFails, Finish
    <2>2. CASE OperatorAsks
        BY <2>2 DEF OperatorAsks, Send
    <2>3. CASE Take
        <3>1. PICK i \in DOMAIN queue :
                 LET order == queue[i] IN
                 TakeJoin(order) \/ TakeUpdate(order) \/ TakeLeave(order) \/ TakeRetry(order)
            BY <2>3 DEF Take
        <3> DEFINE order == queue[i]
        <3>2. order \in Orders
            BY DEF TaskInv, TaskTypeOK
        <3>3. CASE TakeJoin(order)
            <4>1. order.conn \in Connections
                BY <3>2, <3>3 DEF TakeJoin, Orders
            <4> QED BY <3>3, <4>1 DEF TakeJoin, Refuses, Next, Command
        <3>4. CASE TakeUpdate(order)
            <4>1. order.conn \in Connections /\ order.batch \in Batches
                BY <3>2, <3>4 DEF TakeUpdate, Orders
            <4> QED BY <3>4, <4>1 DEF TakeUpdate, Refuses, Next, Command
        <3>5. CASE TakeLeave(order)
            <4>1. order.conn \in Connections
                BY <3>2, <3>5 DEF TakeLeave, Orders
            <4> QED BY <3>5, <4>1 DEF TakeLeave, Next, Command
        <3>6. CASE TakeRetry(order)
            BY <3>6 DEF TakeRetry, Refuses, Next, Command
        <3> QED BY <3>1, <3>3, <3>4, <3>5, <3>6
    <2>4. CASE Work \/ (LateDelivery /\ UNCHANGED taskVars) \/ RCrash
        BY <2>4 DEF Work, RCrash, Next
    <2>5. CASE UNCHANGED rvars
        BY <2>5 DEF rvars
    <2> QED BY <2>1, <2>2, <2>3, <2>4, <2>5 DEF RNext
<1> QED BY <1>1, <1>2, TasksHold, PTL DEF RSpec, Spec
=============================================================================
