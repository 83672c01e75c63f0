----------------------------- MODULE MCDetector -----------------------------
(* Small instances of Detector for TLC. *)
EXTENDS Detector

CONSTANTS srv, node, ext, any, none   \* node is of the sensor network

Seen(s, d, p, b, u) == [src |-> s, dst |-> d, port |-> p, big |-> b, smallUdp |-> u]
MCFlowRecords == {Seen(ext, node, 1, FALSE, TRUE), Seen(ext, srv, 1, FALSE, FALSE),
                  Seen(ext, any, 2, TRUE, FALSE), Seen(node, ext, 0, FALSE, TRUE),
                  Seen(none, srv, 1, FALSE, FALSE)}

\* A source that tries one port after the other, and a sensor that calls outside.
MCProbes == {Seen(ext, srv, p, FALSE, FALSE) : p \in 1..3}
MCCalls  == {Seen(node, ext, 0, FALSE, TRUE)}

=============================================================================
