--------------------------- MODULE MCFlowTracker ---------------------------
(* Small instances of FlowTracker for TLC. *)
EXTENDS FlowTracker, TLC

\* Without sensor flows the keys are interchangeable.
KeySymmetry == Permutations(Keys)

=============================================================================
