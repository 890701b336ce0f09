-------------------------------- MODULE MCPump --------------------------------
(* The symmetry for model checking MessagePump; the constants get their       *)
(* values in the .cfg files.                                                *)
EXTENDS MessagePump, TLC

\* Runnables differ only by when and by whom they are posted.
TaskSymmetry == Permutations(Tasks)
=============================================================================
