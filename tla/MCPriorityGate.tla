---------------------------- MODULE MCPriorityGate ----------------------------
(* PriorityGate with two pipeline callers, an operator's and a background job. *)
EXTENDS PriorityGate

MCCallers == {"pipeline1", "pipeline2", "operator", "background"}
MCRank == [c \in MCCallers |-> CASE c = "operator"   -> 1
                                  [] c = "background" -> 2
                                  [] OTHER            -> 0]
==============================================================================
