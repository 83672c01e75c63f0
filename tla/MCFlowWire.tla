----------------------------- MODULE MCFlowWire -----------------------------
(* Small instances of FlowWire for TLC. *)
EXTENDS FlowWire

Flow(s, l, p) == [start |-> s, last |-> l, packets |-> p]

\* A counter that does not fit its field, flows that begin before the uptime wraps
\* at 4 and are exported after it, a record renewed at the wrap and idle since.
MCBatches == {<<Flow(0, 1, 1), Flow(1, 2, 5), Flow(2, 2, 2)>>, <<Flow(3, 4, 9), Flow(4, 3, 0)>>}

\* Records of 1, 2, 3, 4 and 64 bytes.
MCTemplates == {{"proto"}, {"srcPort"}, {"proto", "tos", "tcpFlags"}, {"srcIP"},
                DOMAIN FieldLen}

=============================================================================
