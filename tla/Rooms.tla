------------------------------- MODULE Rooms --------------------------------
(***************************************************************************)
(* One room with what stands before it: the manager that spawns its actor  *)
(* for the first request (RoomManager in src/src/actor.rs), the bounded    *)
(* queue of its commands, and the task of each connection, which sends     *)
(* commands and, when the client is gone, leaves the room and waits for    *)
(* its writer (connection in src/src/server.rs).                           *)
(*                                                                         *)
(* The writer of a connection ends when nobody holds a sender of its       *)
(* channel any more.  The room's peers, the commands in the queue and the  *)
(* update under way each hold one.  A rotation is a command of Gateway and *)
(* not one of this queue.                                                  *)
(***************************************************************************)
EXTENDS Gateway

CONSTANT CommandCapacity   \* ActorConfig::command_capacity

ASSUME RoomsAssumption == CommandCapacity \in Nat \ {0}

VARIABLES
    spawned,   \* the manager's map holds the room's handle
    queue,     \* commands sent and not taken
    tasks,     \* how far each connection's task is
    joined,    \* connections whose task counts the room as joined
    current,   \* the connection whose update the actor works on, or None
    dropped    \* history: connections whose leave an unusable room ignored

taskVars == <<spawned, queue, tasks, joined, current, dropped>>
rvars == <<vars, taskVars>>

RInit ==
    /\ Init
    /\ spawned = FALSE
    /\ queue = <<>>
    /\ tasks = [c \in Connections |-> "open"]
    /\ joined = {}
    /\ current = None
    /\ dropped = {}

-----------------------------------------------------------------------------
(* The tasks *)

Order(kind, c, b) == [kind |-> kind, conn |-> c, batch |-> b]

\* mpsc::Sender::send waits for room in the queue.
Send(order) ==
    /\ Len(queue) < CommandCapacity
    /\ queue' = Append(queue, order)
    /\ UNCHANGED <<vars, current, dropped>>

\* RoomManager::room spawns the actor the first time; a task that joined, left
\* or updates goes through it every time.
Call(order) == Send(order) /\ spawned' = TRUE

SendJoin(c) ==
    /\ tasks[c] = "open"
    /\ joined' = joined \cup {c}
    /\ Call(Order("join", c, None))
    /\ UNCHANGED tasks

SendUpdate(c, b) ==
    /\ tasks[c] = "open" /\ c \in joined
    /\ Call(Order("update", c, b))
    /\ UNCHANGED <<tasks, joined>>

\* A client leaves, or its task leaves for it once the socket is closed.
SendLeave(c) ==
    /\ tasks[c] \in {"open", "closing"} /\ c \in joined
    /\ joined' = joined \ {c}
    /\ Call(Order("leave", c, None))
    /\ UNCHANGED tasks

\* The loop over the socket ends.
Disconnect(c) ==
    /\ tasks[c] = "open"
    /\ tasks' = [tasks EXCEPT ![c] = "closing"]
    /\ UNCHANGED <<vars, spawned, queue, joined, current, dropped>>

\* Variant, for the mutation runs: the rooms are not left.
DropSenderAtOnce(c) ==
    /\ tasks[c] = "closing"
    /\ tasks' = [tasks EXCEPT ![c] = "draining"]
    /\ joined' = joined \ {c}
    /\ UNCHANGED <<vars, spawned, queue, current, dropped>>

\* Every joined room was left: the task drops its own sender.
DropSender(c) ==
    /\ tasks[c] = "closing" /\ c \notin joined
    /\ tasks' = [tasks EXCEPT ![c] = "draining"]
    /\ UNCHANGED <<vars, spawned, queue, joined, current, dropped>>

\* A sender of the connection's channel is left in the room.
SenderHeld(c) ==
    \/ c \in peers
    \/ current = c
    \/ \E i \in DOMAIN queue : queue[i].conn = c /\ queue[i].kind # "leave"

Finish(c) ==
    /\ tasks[c] = "draining"
    /\ tasks' = [tasks EXCEPT ![c] = "ended"]
    /\ UNCHANGED <<vars, spawned, queue, joined, current, dropped>>

\* The channel is closed and empty.
WriterEnds(c) == ~SenderHeld(c) /\ Finish(c)

\* A message still sent to the connection meets its closed socket.
WriterFails(c) == SenderHeld(c) /\ Finish(c)

\* An operator's request, for a room the manager knows.
OperatorAsks ==
    /\ OperatorRetries /\ spawned
    /\ Send(Order("retry", None, None))
    /\ UNCHANGED <<spawned, tasks, joined>>

-----------------------------------------------------------------------------
(* The actor takes a command *)

\* reject_unavailable answers for a room in these states.
Unusable == lifecycle \in {"recovering", "corrupt", "unavailable"}

\* Variant, for the mutation runs: the latest command first.
TakesLatest(order) ==
    /\ Idle /\ spawned /\ queue # <<>>
    /\ order = queue[Len(queue)]
    /\ queue' = SubSeq(queue, 1, Len(queue) - 1)
    /\ UNCHANGED <<spawned, tasks, joined>>

\* The actor waits for commands and order is the next one.
Takes(order) ==
    /\ Idle /\ spawned /\ queue # <<>>
    /\ order = Head(queue)
    /\ queue' = Tail(queue)
    /\ UNCHANGED <<spawned, tasks, joined>>

\* The command is answered with an error, or with nothing.
Refuses == UNCHANGED <<vars, current, dropped>>

\* A join of a room that is not ready, or with a version that does not decode.
TakeJoin(order) ==
    /\ order.kind = "join"
    /\ Takes(order)
    /\ \/ Join(order.conn) /\ UNCHANGED <<current, dropped>>
       \/ Refuses

\* An update no test of the room turns away before the append.  One more frame
\* than MaxFrames stands for a frame over the limits.
Admits(c, b) ==
    /\ c \in peers
    /\ lifecycle = "ready" /\ blocked = None
    /\ Admissible(b)
    /\ Len(streams[Delta(generation)]) < MaxFrames

TakeUpdate(order) ==
    /\ order.kind = "update"
    /\ Takes(order)
    /\ \/ /\ Update(order.conn, order.batch)
          /\ current' = order.conn
          /\ UNCHANGED dropped
       \/ ~Admits(order.conn, order.batch) /\ Refuses

TakeLeave(order) ==
    /\ order.kind = "leave"
    /\ Takes(order)
    /\ \/ Leave(order.conn) /\ UNCHANGED <<current, dropped>>
       \/ /\ Unusable \/ order.conn \notin peers
          /\ dropped' = dropped \cup ({order.conn} \cap peers)
          /\ UNCHANGED <<vars, current>>

TakeRetry(order) ==
    /\ order.kind = "retry"
    /\ Takes(order)
    /\ \/ RetryAmbiguous /\ UNCHANGED <<current, dropped>>
       \/ blocked = None /\ Refuses

Take ==
    \E i \in DOMAIN queue :
        LET order == queue[i] IN
        TakeJoin(order) \/ TakeUpdate(order) \/ TakeLeave(order) \/ TakeRetry(order)

\* The actor goes on; the end of an update drops the sender it held.
Work ==
    /\ spawned
    /\ ActorStep
    /\ current' = IF pc' = "idle" THEN None ELSE current
    /\ UNCHANGED <<spawned, queue, tasks, joined, dropped>>

\* Tasks, queue and map die with the process; connection ids start over.
RCrash ==
    /\ Crash
    /\ spawned' = FALSE /\ queue' = <<>>
    /\ tasks' = [c \in Connections |-> "open"]
    /\ joined' = {} /\ current' = None /\ dropped' = {}

RNext ==
    \/ \E c \in Connections :
          \/ SendJoin(c) \/ SendLeave(c) \/ Disconnect(c)
          \/ DropSender(c) \/ WriterEnds(c) \/ WriterFails(c)
    \/ \E c \in Connections, b \in Batches : SendUpdate(c, b)
    \/ OperatorAsks
    \/ Take
    \/ Work
    \/ LateDelivery /\ UNCHANGED taskVars
    \/ RCrash

RSpec == RInit /\ [][RNext]_rvars

\* The tasks and the actor are run.  Senders that wait for a full queue are
\* served in the order they came (tokio's semaphore), hence strong fairness.
RFairSpec ==
    /\ RSpec
    /\ WF_rvars(Work) /\ WF_rvars(Take)
    /\ \A c \in Connections :
          /\ SF_rvars(tasks[c] = "closing" /\ SendLeave(c))
          /\ WF_rvars(DropSender(c)) /\ WF_rvars(WriterEnds(c))

-----------------------------------------------------------------------------
(* Properties *)

LeaveQueued(c) == \E i \in DOMAIN queue : queue[i].kind = "leave" /\ queue[i].conn = c

\* A connection whose task is past its leaves is no peer of the room, now or once
\* the queue is worked off, unless an unusable room ignored its leave: no command
\* of it overtakes the leave (connection in server.rs, run in actor.rs).
GonePeersAreForgotten ==
    \A c \in peers :
        tasks[c] \in {"draining", "ended"} => LeaveQueued(c) \/ c \in dropped

\* The task of a closed connection ends, unless an unusable room ignored its
\* leave: then the room keeps a sender and the task waits for its writer, for as
\* long as nothing is sent (server.rs:163, actor.rs:605).
ClosedTaskEnds ==
    \A c \in Connections :
        tasks[c] = "closing" ~> tasks[c] \in {"ended", "open"} \/ c \in dropped

\* A full queue is worked off: neither the store, the operator nor the clients
\* keep the actor in one command (command_capacity, run in actor.rs).
QueueMoves == Len(queue) = CommandCapacity ~> Len(queue) < CommandCapacity
=============================================================================
