----------------------------- MODULE MCPipeline -----------------------------
(* Small instances of PipelineProperties for TLC. *)
EXTENDS PipelineProperties, TLC

\* Requests, clients and processes differ only in name.
Symmetry ==
    Permutations(Requests) \cup Permutations(Clients)
    \cup Permutations(Processes)

\* The general limit is above the others, as in the defaults of env.ts.
GeneralTwo == [p \in Policies |-> IF p = "general" THEN 2 ELSE 1]
One == [p \in Policies |-> 1]
=============================================================================
