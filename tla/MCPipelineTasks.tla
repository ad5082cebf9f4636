--------------------------- MODULE MCPipelineTasks ---------------------------
(* Instances of PipelineTasks for TLC. *)
EXTENDS PipelineTasks, TLC

SlotSymmetry == Permutations(Slots)
==============================================================================
