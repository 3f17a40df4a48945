----------------------------- MODULE ChunkCalls -----------------------------
\* The calls that a chunk backend serves and what they return
\* (src/src/named_store/src/backend.rs).

CONSTANTS
    Chunk,  \* chunk ids
    Proc    \* concurrent callers

(***************************************************************************)
(* A call of open_chunk_writer or remove_chunk.  valid: the source         *)
(* delivers exactly the bytes that the chunk id names.                     *)
(***************************************************************************)
WriteJob  == [op : {"write"}, chunk : Chunk, valid : BOOLEAN]
RemoveJob == [op : {"remove"}, chunk : Chunk]
Job  == WriteJob \cup RemoveJob
Idle == [op |-> "none"]

\* ChunkWriteOutcome, Ok(()) of remove_chunk, any error, or not known yet
Outcome == {"Written", "AlreadyExists", "Ok", "Err", "none"}

=============================================================================
