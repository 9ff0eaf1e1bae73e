---------------------------- MODULE DurableRoom -----------------------------
(***************************************************************************)
(* What a room promises its clients, without the store, the log, the       *)
(* checkpoints or the process behind it: what it ever showed to anybody is *)
(* in it whenever it is open, and an open room only grows.                 *)
(***************************************************************************)
CONSTANTS
    Ops,      \* the operations of the clients' documents
    Shut      \* the content of a room that answers nobody

VARIABLES
    promised,   \* operations acknowledged or shown to some client
    content     \* the operations of the open room, or Shut

Init ==
    /\ promised = {}
    /\ content = Shut

\* The room opens with everything promised, and perhaps more: an update whose
\* outcome nobody was told may turn out to be there.
Open ==
    /\ content = Shut
    /\ content' # Shut
    /\ promised \subseteq content' /\ content' \subseteq Ops
    /\ UNCHANGED promised

\* A crash, or a room that is taken out of service.
Close ==
    /\ content' = Shut
    /\ UNCHANGED promised

\* New operations enter the room, and what is in it may be shown.
Extend ==
    /\ content # Shut /\ content' # Shut
    /\ content \subseteq content' /\ content' \subseteq Ops
    /\ promised \subseteq promised' /\ promised' \subseteq promised \cup content'

Next == Open \/ Close \/ Extend

Spec == Init /\ [][Next]_<<promised, content>>
=============================================================================
