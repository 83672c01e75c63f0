--------------------------- MODULE MCIpfixExport ---------------------------
(* Small instances of IpfixExport for TLC. *)
EXTENDS IpfixExport, TLC

\* The exporting goroutines run the same code on the same encoder.
ExporterSymmetry == Permutations(Exporters)

=============================================================================
