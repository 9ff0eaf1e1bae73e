------------------------------ MODULE LoroDocs ------------------------------
(***************************************************************************)
(* The part of the Loro CRDT library the gateway relies on.  Loro is not   *)
(* part of the repository: it is modelled from how src/src/actor.rs,       *)
(* checkpoint.rs and recovery.rs use it.                                   *)
(*                                                                         *)
(* An operation is named by the update blob that carries it.  An update    *)
(* whose dependencies are missing is kept pending: it is not visible in    *)
(* the document and an exported snapshot does not contain it.  A document  *)
(* is the set of its visible operations.                                   *)
(***************************************************************************)

CONSTANTS
    Updates,      \* update blobs, one operation each
    Snapshots,    \* full-snapshot blobs a client may send
    Deps,         \* the operations each update depends on
    SnapshotOps   \* the operations each full snapshot contains

Blobs == Updates \cup Snapshots

\* Every dependency of an operation of S is in S.
Closed(S) == \A u \in S : Deps[u] \subseteq S

ASSUME LoroAssumption ==
    /\ Updates \cap Snapshots = {}
    /\ Deps \in [Updates -> SUBSET Updates]
    /\ SnapshotOps \in [Snapshots -> SUBSET Updates]
    /\ \A s \in Snapshots : Closed(SnapshotOps[s])

\* The operations one blob carries, and those of a set of blobs.
OpsOf(blob) == IF blob \in Snapshots THEN SnapshotOps[blob] ELSE {blob}
OpsOfAll(blobs) == UNION {OpsOf(blob) : blob \in blobs}

\* The document after importing the operations S: the largest causally closed
\* part of them.  The other ones stay pending.
Visible(S) == UNION {T \in SUBSET S : Closed(T)}

\* LoroDoc::import of one blob into the document doc leaves something pending.
PendingIn(doc, blob) == ~(OpsOf(blob) \subseteq Visible(doc \cup OpsOf(blob)))
=============================================================================
