------------------------ MODULE MCChunkingConsumer ------------------------
(* Instances of ChunkingConsumer for TLC. *)
EXTENDS ChunkingConsumer, TLC

Symmetry == Permutations(Sources) \cup Permutations(Jobs)

AllFaults == Dependencies \X FaultKinds
NoFaults == {}

=============================================================================
