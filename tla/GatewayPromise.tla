--------------------------- MODULE GatewayPromise ---------------------------
(***************************************************************************)
(* Gateway with a history variable, and the promise it keeps: through lost *)
(* answers, rotations and crashes one room is a DurableRoom.  The peers of *)
(* a process are forgotten when it dies; shown remembers what they saw.    *)
(***************************************************************************)
EXTENDS Gateway

\* The marker of a room that is not open is not the content of one.
ASSUME PromiseAssumption == \A ops \in SUBSET Updates : ops # None

VARIABLE shown   \* the operations some client was ever sent

hvars == <<vars, shown>>

\* What a step sends joins the history.
Show == shown' = shown \cup UNION {heard'[c] : c \in Connections}

HInit == Init /\ shown = {}
HNext == Next /\ Show
HSpec == HInit /\ [][HNext]_hvars
HFairSpec == HSpec /\ WF_hvars(ActorStep /\ Show)

\* The room is open while it is ready: then it answers joins and takes updates.
Room == INSTANCE DurableRoom WITH
    Ops <- Updates,
    Shut <- None,
    promised <- shown \cup OpsIn(acked),
    content <- IF lifecycle = "ready" THEN LiveOps ELSE None

\* The gateway implements the durable room: after a restart or a rotation, a room
\* that opens holds every operation any client was ever acknowledged or sent, and
\* an open room loses none (actor.rs, rotation.rs, recovery.rs together).
ImplementsDurableRoom == Room!Spec
=============================================================================
