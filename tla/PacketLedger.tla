---------------------------- MODULE PacketLedger ----------------------------
(***************************************************************************)
(* What a flow cache promises, whatever its timeouts and its size: every   *)
(* packet it reads that belongs to a flow is held until it is reported,    *)
(* and it is reported once.  Which packets are reported together, and      *)
(* when, is left open.                                                     *)
(***************************************************************************)
EXTENDS Naturals, Sequences

CONSTANTS FlowKeys, NoFlow

VARIABLES
  arrived,    \* the keys of the packets that arrived, in order
  read,       \* how many of them have been read
  held,       \* the numbers of the packets read and not reported yet
  reported    \* the numbers of the packets reported

ledger == <<arrived, read, held, reported>>

Init == arrived = <<>> /\ read = 0 /\ held = {} /\ reported = {}

Arrive(k) ==
  /\ arrived' = Append(arrived, k)
  /\ UNCHANGED <<read, held, reported>>

\* Reading a packet that belongs to no flow drops it.
Read ==
  /\ read < Len(arrived)
  /\ read' = read + 1
  /\ held' = IF arrived[read'] = NoFlow THEN held ELSE held \cup {read'}
  /\ UNCHANGED <<arrived, reported>>

Report(S) ==
  /\ held' = held \ S
  /\ reported' = reported \cup S
  /\ UNCHANGED <<arrived, read>>

Next ==
  \/ \E k \in FlowKeys \cup {NoFlow} : Arrive(k)
  \/ Read
  \/ \E S \in SUBSET held : Report(S)

Spec == Init /\ [][Next]_ledger

=============================================================================
