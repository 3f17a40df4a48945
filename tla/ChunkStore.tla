----------------------------- MODULE ChunkStore -----------------------------
(***************************************************************************)
(* The chunk operations of NamedStore (src/src/named_store/src/            *)
(* named_store.rs): a call of the backend, then a transaction on           *)
(* chunk_items, with nothing that makes the two atomic.  The backend is    *)
(* any that keeps ChunkContract.                                           *)
(***************************************************************************)
EXTENDS ChunkContract

VARIABLES
    item,       \* item[c]: chunk_items.chunk_state, "absent" without a row
    acked,      \* history: chunks of which a put returned Ok
    removed,    \* history: chunks on which remove_chunk was called
    interrupted \* history: chunks whose put stopped between file and row

storeVars == <<item, acked, removed, interrupted>>
vars == <<contractVars, storeVars>>

ItemState == {"absent", "completed", "local_link", "same_as"}

TypeOK ==
    /\ ContractTypeOK
    /\ item \in [Chunk -> ItemState]
    /\ acked \in SUBSET Chunk
    /\ removed \in SUBSET Chunk
    /\ interrupted \in SUBSET Chunk

Init ==
    /\ ContractInit
    /\ item = [c \in Chunk |-> "absent"]
    /\ acked = {} /\ removed = {} /\ interrupted = {}

-----------------------------------------------------------------------------

\* Mutant of PutChunk: the row is written before the file
PutChunkRowFirst(p, c, valid) ==
    /\ Call(p, [op |-> "write", chunk |-> c, valid |-> valid])
    /\ item' = [item EXCEPT ![c] = "completed"]
    /\ UNCHANGED <<acked, removed, interrupted>>

\* put_chunk_by_reader and put_chunk, up to the call of the backend
PutChunk(p, c, valid) ==
    /\ Call(p, [op |-> "write", chunk |-> c, valid |-> valid])
    /\ UNCHANGED storeVars

\* remove_chunk, up to the call of the backend
RemoveChunk(p, c) ==
    /\ Call(p, [op |-> "remove", chunk |-> c])
    /\ removed' = removed \cup {c}
    /\ UNCHANGED <<item, acked, interrupted>>

BackendStep(p) == (Write(p) \/ Discard(p)) /\ UNCHANGED storeVars

\* Err(e) of the backend ends the operation
BackendError(p) ==
    /\ outcome[p] = "Err"
    /\ Return(p)
    /\ UNCHANGED storeVars

\* AlreadyExists: put_chunk_by_reader returns Ok without touching chunk_items
PutExisting(p) ==
    /\ outcome[p] = "AlreadyExists"
    /\ Return(p)
    /\ acked' = acked \cup {job[p].chunk}
    /\ UNCHANGED <<item, removed, interrupted>>

\* Written: set_chunk_item(ChunkItem::new_completed(..))
RecordChunk(p) ==
    /\ outcome[p] = "Written"
    /\ Return(p)
    /\ item' = [item EXCEPT ![job[p].chunk] = "completed"]
    /\ acked' = acked \cup {job[p].chunk}
    /\ UNCHANGED <<removed, interrupted>>

\* db.remove_chunk
ForgetChunk(p) ==
    /\ outcome[p] = "Ok"
    /\ Return(p)
    /\ item' = [item EXCEPT ![job[p].chunk] = "absent"]
    /\ UNCHANGED <<acked, removed, interrupted>>

\* Chunks that p has written and not recorded
Unrecorded(p) == IF job[p] # Idle /\ outcome[p] = "Written" THEN {job[p].chunk} ELSE {}

\* Mutant of DbError: the error is swallowed and the put reports Ok
DbErrorSwallowed(p) ==
    /\ outcome[p] = "Written"
    /\ Return(p)
    /\ acked' = acked \cup {job[p].chunk}
    /\ UNCHANGED <<item, removed, interrupted>>

\* set_chunk_item or db.remove_chunk fails: the caller gets the error
DbError(p) ==
    /\ outcome[p] \in {"Written", "Ok"}
    /\ Return(p)
    /\ interrupted' = interrupted \cup Unrecorded(p)
    /\ UNCHANGED <<item, acked, removed>>

\* add_chunk_by_link_to_local_file, add_chunk_by_same_as: the row alone
AddItem(c, kind) ==
    /\ item' = [item EXCEPT ![c] = kind]
    /\ UNCHANGED <<contractVars, acked, removed, interrupted>>

\* The process stops and starts again; nothing is repaired at start
Restart ==
    /\ Crash
    /\ interrupted' = interrupted \cup UNION {Unrecorded(p) : p \in Proc}
    /\ UNCHANGED <<item, acked, removed>>

Next ==
    \/ \E p \in Proc, c \in Chunk : \/ \E valid \in BOOLEAN : PutChunk(p, c, valid)
                                    \/ RemoveChunk(p, c)
    \/ \E p \in Proc : \/ BackendStep(p) \/ BackendError(p) \/ PutExisting(p)
                       \/ RecordChunk(p) \/ ForgetChunk(p) \/ DbError(p)
    \/ \E c \in Chunk, kind \in {"local_link", "same_as"} : AddItem(c, kind)
    \/ Restart

Spec == Init /\ [][Next]_vars

-----------------------------------------------------------------------------
(* Properties *)

\* A Completed row always has its blob, so that open_chunk_reader finds the
\* file: the order of put_chunk_by_reader (file, then row) survives crashes
\* and races, as long as nobody calls remove_chunk.
RowHasBlob ==
    \A c \in Chunk \ removed : item[c] = "completed" => c \in visible

\* What the two halves of an operation rely on: a file that was written is
\* still there when its row is, and the result belongs to the call.
WrittenVisible ==
    \A p \in Proc :
        /\ job[p] # Idle /\ outcome[p] \in {"Written", "AlreadyExists"} =>
              job[p] \in WriteJob /\ (job[p].chunk \in removed \cup visible)
        /\ job[p] # Idle /\ outcome[p] = "Ok" => job[p] \in RemoveJob
        /\ job[p] # Idle /\ job[p].op = "remove" => job[p].chunk \in removed

\* A put that returned Ok left a row, or a concurrent writer is about to
\* record it, unless the chunk was removed or a writer stopped half way.
AckedRecorded ==
    \A c \in acked \ (removed \cup interrupted) :
        item[c] # "absent" \/ \E p \in Proc : c \in Unrecorded(p)

=============================================================================
