--------------------------- MODULE LocalFsBackend ---------------------------
(***************************************************************************)
(* The chunk operations of src/src/named_store/src/local_fs_backend.rs:    *)
(* concurrent writers of a chunk, each with a private temporary file, and  *)
(* removals, one action per await point.  Readers change nothing: they     *)
(* see the final file of a chunk or none.  A temporary file that a call or *)
(* a crash leaves behind has a unique name and is never read again: the    *)
(* model forgets it when its call returns.                                 *)
(***************************************************************************)
EXTENDS ChunkCalls

CONSTANT Hashable   \* the chunks whose type ChunkHasher can hash

ASSUME HashableAssumption == Hashable \subseteq Chunk

VARIABLES
    final,      \* final[c]: the content of the file chunk_final_path(c)
    tmp,        \* tmp[p]: the content of the temporary file of p
    pc,         \* pc[p]: the next step of the call of p
    job,        \* job[p]: the call of p
    outcome,    \* outcome[p]: its result
    unclean     \* the calls whose cleanup_tmp failed, which is only logged

backendVars == <<final, tmp, pc, job, outcome, unclean>>

\* A file is missing, incomplete, or complete with the right or a wrong hash.
File == {"none", "partial", "good", "bad"}
PC   == {"idle", "check", "create", "copy", "verify", "recheck", "rename",
         "unlink", "done"}

BackendTypeOK ==
    /\ final \in [Chunk -> File]
    /\ tmp \in [Proc -> File]
    /\ pc \in [Proc -> PC]
    /\ job \in [Proc -> Job \cup {Idle}]
    /\ outcome \in [Proc -> Outcome]
    /\ unclean \subseteq Proc

BackendInit ==
    /\ final = [c \in Chunk |-> "none"]
    /\ tmp = [p \in Proc |-> "none"]
    /\ pc = [p \in Proc |-> "idle"]
    /\ job = [p \in Proc |-> Idle]
    /\ outcome = [p \in Proc |-> "none"]
    /\ unclean = {}

-----------------------------------------------------------------------------

Call(p, j) ==
    /\ pc[p] = "idle"
    /\ job' = [job EXCEPT ![p] = j]
    /\ outcome' = [outcome EXCEPT ![p] = "none"]
    /\ pc' = [pc EXCEPT ![p] = IF j.op = "write" THEN "check" ELSE "unlink"]
    /\ UNCHANGED <<final, tmp, unclean>>

\* The call is over and its temporary file stays as it is.
Leave(p, r) ==
    /\ outcome' = [outcome EXCEPT ![p] = r]
    /\ pc' = [pc EXCEPT ![p] = "done"]
    /\ UNCHANGED <<job, tmp>>

\* The call is over, its temporary file renamed, removed or never created.
Finish(p, r) ==
    /\ outcome' = [outcome EXCEPT ![p] = r]
    /\ pc' = [pc EXCEPT ![p] = "done"]
    /\ tmp' = [tmp EXCEPT ![p] = "none"]
    /\ UNCHANGED <<job, unclean>>

\* cleanup_tmp on the way out; a file it cannot remove stays
CleanUp(p, r) ==
    \/ Finish(p, r)
    \/ Leave(p, r) /\ unclean' = unclean \cup {p}

Goto(p, next) == pc' = [pc EXCEPT ![p] = next] /\ UNCHANGED <<job, outcome, unclean>>

Exists(p) == final[job[p].chunk] # "none"

\* fs::metadata(&final_path).is_ok(): the short cut for a chunk that is there.
\* A stat that fails for another reason reads as a missing file.
CheckFinal(p) ==
    /\ pc[p] = "check"
    /\ \/ Exists(p) /\ Finish(p, "AlreadyExists")
       \/ Goto(p, "create") /\ UNCHANGED tmp
    /\ UNCHANGED final

\* ensure_parent, the create_new of the temporary file and, the file made,
\* to_hash_method and new_with_hash_method: their `?` skips cleanup_tmp
CreateTmp(p) ==
    /\ pc[p] = "create"
    /\ \/ /\ job[p].chunk \in Hashable
          /\ tmp' = [tmp EXCEPT ![p] = "partial"]
          /\ Goto(p, "copy")
       \/ /\ job[p].chunk \notin Hashable
          /\ tmp' = [tmp EXCEPT ![p] = "partial"]
          /\ outcome' = [outcome EXCEPT ![p] = "Err"]
          /\ pc' = [pc EXCEPT ![p] = "done"]
          /\ UNCHANGED <<job, unclean>>
       \/ Finish(p, "Err")
    /\ UNCHANGED final

\* Mutant of Copy: the error exit forgets cleanup_tmp
CopyLeavesTmp(p) ==
    /\ pc[p] = "copy"
    /\ \/ /\ tmp' = [tmp EXCEPT ![p] = IF job[p].valid THEN "good" ELSE "bad"]
          /\ Goto(p, "verify")
       \/ Leave(p, "Err") /\ UNCHANGED unclean
    /\ UNCHANGED final

\* copy_and_hash: a short, long or broken source, or an IO error, ends the call
Copy(p) ==
    /\ pc[p] = "copy"
    /\ \/ /\ tmp' = [tmp EXCEPT ![p] = IF job[p].valid THEN "good" ELSE "bad"]
          /\ Goto(p, "verify")
       \/ CleanUp(p, "Err")
    /\ UNCHANGED final

\* Mutant of Verify: the hash is not compared
VerifyNothing(p) ==
    /\ pc[p] = "verify"
    /\ Goto(p, "recheck") /\ UNCHANGED <<tmp, final>>

\* verify_hash
Verify(p) ==
    /\ pc[p] = "verify"
    /\ IF tmp[p] = "good" THEN Goto(p, "recheck") /\ UNCHANGED tmp
       ELSE CleanUp(p, "Err")
    /\ UNCHANGED final

\* The second fs::metadata(&final_path).is_ok()
Recheck(p) ==
    /\ pc[p] = "recheck"
    /\ \/ Exists(p) /\ CleanUp(p, "AlreadyExists")
       \/ Goto(p, "rename") /\ UNCHANGED tmp
    /\ UNCHANGED final

\* Mutant of Rename: a failed rename is reported as a success
RenameIgnoresError(p) ==
    /\ pc[p] = "rename"
    /\ \/ final' = [final EXCEPT ![job[p].chunk] = tmp[p]]
       \/ UNCHANGED final
    /\ Finish(p, "Written")

\* fs::rename, atomic; it replaces a final file that appeared meanwhile
Rename(p) ==
    /\ pc[p] = "rename"
    /\ \/ /\ final' = [final EXCEPT ![job[p].chunk] = tmp[p]]
          /\ Finish(p, "Written")
       \/ CleanUp(p, "Err") /\ UNCHANGED final

\* remove_chunk; NotFound counts as success
Unlink(p) ==
    /\ pc[p] = "unlink"
    /\ \/ /\ final' = [final EXCEPT ![job[p].chunk] = "none"]
          /\ Finish(p, "Ok")
       \/ Finish(p, "Err") /\ UNCHANGED final

Return(p) ==
    /\ pc[p] = "done"
    /\ job' = [job EXCEPT ![p] = Idle]
    /\ pc' = [pc EXCEPT ![p] = "idle"]
    /\ tmp' = [tmp EXCEPT ![p] = "none"]
    /\ unclean' = unclean \ {p}
    /\ UNCHANGED <<final, outcome>>

Step(p) ==
    \/ CheckFinal(p) \/ CreateTmp(p) \/ Copy(p) \/ Verify(p)
    \/ Recheck(p) \/ Rename(p) \/ Unlink(p) \/ Return(p)

Crash ==
    /\ tmp' = [p \in Proc |-> "none"]
    /\ pc' = [p \in Proc |-> "idle"]
    /\ job' = [p \in Proc |-> Idle]
    /\ outcome' = [p \in Proc |-> "none"]
    /\ unclean' = {}
    /\ UNCHANGED final

BackendNext ==
    \/ \E p \in Proc : Step(p) \/ \E j \in Job : Call(p, j)
    \/ Crash

BackendSpec == BackendInit /\ [][BackendNext]_backendVars

-----------------------------------------------------------------------------
(* Properties *)

\* The file that get_chunk_state and open_chunk_reader look at is complete
\* and has the hash its name says, whatever writers race, fail or crash.
OnlyVerified == \A c \in Chunk : final[c] \in {"none", "good"}

\* An exit of open_chunk_writer that leaves a temporary file is the one after
\* a failing to_hash_method or new_with_hash_method, or follows a cleanup_tmp
\* that could not remove it.
TmpCleaned ==
    \A p \in Proc :
        pc[p] \in {"idle", "done"} /\ tmp[p] # "none" =>
            /\ outcome[p] # "Written"
            /\ p \in unclean \/ job[p].chunk \notin Hashable

ValidSource(p) == job[p] \in WriteJob /\ job[p].valid

\* What a call in progress relies on: it has a job of the right kind and no
\* result, and what it is about to rename passed verify_hash.
CallInv ==
    \A p \in Proc :
        /\ pc[p] = "idle" <=> job[p] = Idle
        /\ pc[p] \notin {"idle", "done"} <=> job[p] # Idle /\ outcome[p] = "none"
        /\ pc[p] \in {"check", "create", "copy", "verify", "recheck", "rename"}
              => job[p] \in WriteJob
        /\ pc[p] = "unlink" => job[p] \in RemoveJob
        /\ tmp[p] = "good" => ValidSource(p)
        /\ pc[p] \in {"recheck", "rename"} => tmp[p] = "good"
        /\ pc[p] \in {"idle", "check", "create", "unlink"} => tmp[p] = "none"
        /\ pc[p] # "done" => p \notin unclean

\* A final file is complete and has its hash, because what is renamed has been
\* verified, and a call that leaves its temporary file behind failed to remove
\* it or could not hash its chunk, whatever writers race, fail or crash
\* (open_chunk_writer).
BackendInv == BackendTypeOK /\ CallInv /\ OnlyVerified /\ TmpCleaned

\* The backend keeps the promises of NamedDataStoreBackend.
Contract == INSTANCE ChunkContract
                WITH visible <- {c \in Chunk : final[c] = "good"}

\* Concurrent writers and removers of the local file system behave like
\* atomic operations on a two-state chunk (the rules of backend.rs).
ImplementsContract == Contract!ContractSpec

=============================================================================
