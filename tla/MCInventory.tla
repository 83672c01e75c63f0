---------------------------- MODULE MCInventory ----------------------------
(* Small instances of Inventory for TLC. *)
EXTENDS Inventory

CONSTANTS ws, srv, node, none   \* two hosts, a sensor, and an empty address

MCRole == [a \in {ws, srv, node} |-> IF a = node THEN "sensor" ELSE "host"]

\* NetFlow knows no MAC address, IPFIX does; and what the decoder makes of
\* padding has no address at all.
Decoded(s, d, m) == [src |-> s, dst |-> d, srcMac |-> m, dstMac |-> FALSE]
MCRecords == {Decoded(ws, srv, FALSE), Decoded(srv, ws, TRUE), Decoded(node, none, FALSE)}

\* The thresholds of cmdb.go, within reach of a handful of flows.
MCLimits == [shadow |-> 2, ratio |-> 1, server |-> 1, scanner |-> 2, workstation |-> 1]

=============================================================================
