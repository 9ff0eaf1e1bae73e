---------------------------- MODULE MCUrsulaHttp ----------------------------
(* UrsulaHttp on a small cluster: three configured nodes and a stranger,   *)
(* two producers, records longer than half a window.                        *)
EXTENDS UrsulaHttp

CONSTANTS n1, n2, n3, n4, b1, b2

\* One producer's first two appends, and another's first with other bytes.
MCAppends == {Request(Delta(0), DeltaProducer(1, 0), 0, b1),
              Request(Delta(0), DeltaProducer(1, 0), 1, b2),
              Request(Delta(0), DeltaProducer(2, 0), 0, b1)}
=============================================================================
