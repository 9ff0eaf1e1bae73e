----------------------------- MODULE MCGateway ------------------------------
(* Gateway on small instances: two updates, the second depending on the     *)
(* first, and one full snapshot that holds the first.                       *)
EXTENDS Gateway, TLC

CONSTANTS u1, u2, s1, b1, b2, b3, c1, c2

MCDeps == u1 :> {} @@ u2 :> {u1}
IndependentDeps == u1 :> {} @@ u2 :> {}
MCSnapshotOps == s1 :> {u1}

\* Content of the batches: one blob each.
MCContent == b1 :> {u1} @@ b2 :> {u2} @@ b3 :> {s1}
NoSnapshotContent == b1 :> {u1} @@ b2 :> {u2}
SnapshotContent == b1 :> {u1} @@ b3 :> {s1}
DependentContent == b2 :> {u2} @@ b3 :> {s1}

\* No stream of the instance gets as long; or the second frame of the last
\* generation, or the third of another, is one too many.
WideLimit == [s \in Streams |-> 9]
NarrowLimit == [s \in Streams |-> IF s = Delta(MaxGeneration) THEN 1 ELSE 2]

ConnectionSymmetry == Permutations(Connections)
=============================================================================
