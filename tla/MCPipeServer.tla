---------------------------- MODULE MCPipeServer ----------------------------
(* PipeServer on small sets: the instance checked by the pipe_* runs.      *)
EXTENDS PipeServer, TLC

(* Handles, clients and callback threads are interchangeable: safety runs  *)
(* identify states that differ by a permutation of them.                   *)
Symmetry ==
  Permutations(Handles) \cup Permutations(Clients) \cup Permutations(Callbacks)
=============================================================================
