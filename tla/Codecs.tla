------------------------------- MODULE Codecs -------------------------------
(***************************************************************************)
(* The bytes the gateway decodes: streams it stored before (Records), and  *)
(* messages of clients (ProtocolReader).  The two share nothing, so a      *)
(* behaviour is about one of them and leaves the other where it starts.    *)
(***************************************************************************)
EXTENDS Records, ProtocolReader

Init == RecordsInit /\ ReaderInit

\* No record is written yet / no byte of the message is looked at yet.
NothingStored == written = <<>> /\ verdict = "writing" /\ fault = "none"
NothingRead == cursor = 0 /\ status = "reading"

Next ==
    \/ RecordsNext /\ NothingRead /\ size = 0 /\ UNCHANGED readerVars
    \/ ReaderNext /\ NothingStored /\ kind = "frame" /\ UNCHANGED recordVars

Spec == Init /\ [][Next]_<<recordVars, readerVars>>
=============================================================================
