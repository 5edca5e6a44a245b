----------------------------- MODULE MCDataPath -----------------------------
(* DataPath with two interchangeable queues and two blocks.                 *)
EXTENDS DataPath, TLC

MCExtents == {{0, 1}}
Interchangeable == Permutations(SQs)
=============================================================================
