-------------------------- MODULE MCDiffChunkList --------------------------
(* An empty file, one chunk, and two chunks of different lengths. *)
EXTENDS DiffChunkList

MCBases == {<<>>, <<<<1, 2>>>>, <<<<1, 2>>, <<3>>>>, <<<<1>>, <<2, 3>>>>}
=============================================================================
