--------------------------- MODULE MCAggregation ---------------------------
(* Small instances of Aggregation for TLC. *)
EXTENDS Aggregation, FiniteSetsExt, TLC

CONSTANTS near1, near2, near3, far   \* flow records, three of one host pair

MCRecords == {near1, near2, near3, far}
MCPair    == (far :> "far") @@ [r \in MCRecords |-> "near"]
MCProto   == (near3 :> "udp") @@ [r \in MCRecords |-> "tcp"]
Size      == near1 :> 1 @@ near2 :> 1 @@ near3 :> 0 @@ far :> 2
MCBytes   == [S \in SUBSET MCRecords |-> MapThenSumSet(LAMBDA r : Size[r], S)]
MCCaps    == [PORT_SCAN |-> 2, LATERAL_MOVEMENT |-> 1, DATA_EXFILTRATION |-> 1]

\* What operators ask for: off, and a level that does not exist.
MCPatches == {[enabled |-> FALSE], [level |-> "hosts"]}

\* The goroutines run the same code, and two of the records differ in nothing.
Symmetry == Permutations(Exporters) \cup Permutations({near1, near2})

=============================================================================
