------------------------------- MODULE Names --------------------------------
(***************************************************************************)
(* The names of one room's durable streams and of the producers that       *)
(* append to them (src/src/names.rs).  A name is a tuple: the hash of the  *)
(* room is the same everywhere in a model of one room and is left out.     *)
(***************************************************************************)
EXTENDS Naturals

CONSTANTS
    MaxGeneration,   \* bound: the last delta generation a room rotates to
    MaxBoots         \* bound: how many times the gateway process starts

ASSUME NamesAssumption ==
    /\ MaxGeneration \in Nat
    /\ MaxBoots \in Nat \ {0}

Generations == 0 .. MaxGeneration
Boots == 1 .. MaxBoots

Manifest == <<"manifest", 0>>
Delta(g) == <<"delta", g>>
Checkpoint(g) == <<"checkpoint", g>>

Streams == {Manifest} \cup {Delta(g) : g \in Generations}
                      \cup {Checkpoint(g) : g \in Generations}

\* Variant, for the mutation runs: a restart forgets which sequences it used.
DeltaProducerWithoutBoot(boot, g) == <<"gateway", 0, g>>

\* The producer of delta frames: a hash over the boot id and the generation,
\* so that neither a restart nor a rotation reuses a sequence number.
DeltaProducer(boot, g) == <<"gateway", boot, g>>

\* Checkpoint and manifest producers do not depend on the boot.
CheckpointProducer(g) == <<"checkpoint", 0, g>>
ManifestProducer == <<"manifest", 0, 0>>

Producers == {ManifestProducer}
                \cup {CheckpointProducer(g) : g \in Generations}
                \cup {DeltaProducer(b, g) : b \in Boots, g \in Generations}
=============================================================================
