------------------------------ MODULE MCGpuLock ------------------------------
(* GpuLock with a worker and a flow process: two sessions and one session. *)
EXTENDS GpuLock, TLC

ConnSymmetry == Permutations(Conns)

MCSessions == {"render", "writer", "flow"}
MCProcess == [s \in MCSessions |-> IF s = "flow" THEN "prefect" ELSE "worker"]

\* render needs both cards, the others one or the other.
MCNeeds == [s \in MCSessions |-> CASE s = "render" -> {1, 2}
                                   [] s = "writer" -> {1}
                                   [] OTHER        -> {2}]

\* The worker's sessions need both cards, for deadlocks; the flow's model is a
\* managed API and needs no card at all, unless the lock is for the whole GPU.
MCNeedsNone == [s \in MCSessions |-> IF s = "flow" THEN {} ELSE {1, 2}]
==============================================================================
