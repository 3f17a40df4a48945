---------------------------- MODULE ChunkContract ----------------------------
(***************************************************************************)
(* What a chunk backend promises: the consistency rules that the trait     *)
(* NamedDataStoreBackend (src/src/named_store/src/backend.rs) states for   *)
(* open_chunk_writer, remove_chunk and get_chunk_state.  A chunk has two   *)
(* visible states, every call takes effect at one instant between its      *)
(* invocation and its return, a call that fails changes nothing, and only  *)
(* a source whose bytes hash to the chunk id makes a chunk visible.        *)
(***************************************************************************)
EXTENDS ChunkCalls

VARIABLES
    visible,    \* the chunks whose get_chunk_state is Completed
    job,        \* job[p]: the call p has in progress
    outcome     \* outcome[p]: its result, once it took effect

contractVars == <<visible, job, outcome>>

ContractTypeOK ==
    /\ visible \in SUBSET Chunk
    /\ job \in [Proc -> Job \cup {Idle}]
    /\ outcome \in [Proc -> Outcome]

ContractInit ==
    /\ visible = {}
    /\ job = [p \in Proc |-> Idle]
    /\ outcome = [p \in Proc |-> "none"]

Call(p, j) ==
    /\ job[p] = Idle
    /\ job' = [job EXCEPT ![p] = j]
    /\ outcome' = [outcome EXCEPT ![p] = "none"]
    /\ UNCHANGED visible

\* The call of p takes effect with result r, leaving the chunks of vis visible
Effect(p, r, vis) ==
    /\ outcome[p] = "none"
    /\ outcome' = [outcome EXCEPT ![p] = r]
    /\ visible' = vis
    /\ UNCHANGED job

\* open_chunk_writer.  Of two writers that race, both may report Written.
Write(p) ==
    /\ job[p].op = "write"
    /\ \/ job[p].valid /\ Effect(p, "Written", visible \cup {job[p].chunk})
       \/ job[p].chunk \in visible /\ Effect(p, "AlreadyExists", visible)
       \/ Effect(p, "Err", visible)

\* remove_chunk: idempotent, Ok also when the chunk does not exist
Discard(p) ==
    /\ job[p].op = "remove"
    /\ \/ Effect(p, "Ok", visible \ {job[p].chunk})
       \/ Effect(p, "Err", visible)

Return(p) ==
    /\ job[p] # Idle /\ outcome[p] # "none"
    /\ job' = [job EXCEPT ![p] = Idle]
    /\ UNCHANGED <<visible, outcome>>

\* The process stops: calls in progress end without a result, what was
\* committed stays.
Crash ==
    /\ job' = [p \in Proc |-> Idle]
    /\ outcome' = [p \in Proc |-> "none"]
    /\ UNCHANGED visible

ContractNext ==
    \/ \E p \in Proc : \/ \E j \in Job : Call(p, j)
                       \/ Write(p)
                       \/ Discard(p)
                       \/ Return(p)
    \/ Crash

ContractSpec == ContractInit /\ [][ContractNext]_contractVars

=============================================================================
