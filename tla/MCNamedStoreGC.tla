--------------------------- MODULE MCNamedStoreGC ---------------------------
(***************************************************************************)
(* Instances of NamedStoreGC for TLC.  MaxOps bounds the client calls and  *)
(* MaxFaults the failures of a behaviour; the sender, the eviction rounds  *)
(* and the clock are unbounded.  Clients pin and anchor the objects of     *)
(* Roots, pins have a scope of MCScope and a lifetime of MCLife, Removals  *)
(* says whether clients also call remove_object and remove_chunk.          *)
(***************************************************************************)
EXTENDS NamedStoreGC

CONSTANTS MaxOps, MaxFaults, Roots, MCScope, MCLife, Removals

VARIABLES ops, faults

mcVars == <<vars, ops, faults>>

\* Some of the content is already stored: a state Init reaches by PutNew steps.
MCInit ==
    /\ \E stored \in SUBSET (Obj \ Chunk) :
          state = [o \in Obj |-> IF o \in stored THEN "present" ELSE "absent"]
    /\ EmptyTables
    /\ IdleProcesses
    /\ ops = 0 /\ faults = 0

MCClientOp ==
    /\ ops < MaxOps
    /\ \/ ContentOp
       \/ PinOp(Roots, MCScope, MCLife)
       \/ AnchorOp(Roots)
       \/ Removals /\ RemoveOp
    /\ ops' = ops + 1
    /\ UNCHANGED <<gcVars, faults>>

MCFault(b) ==
    /\ faults < MaxFaults
    /\ Fault(b)
    /\ faults' = faults + 1
    /\ UNCHANGED ops

Unmetered(A) == A /\ UNCHANGED <<ops, faults>>

MCNext ==
    \/ MCClientOp
    \/ Unmetered(Clock)
    \/ \E b \in Bucket : \/ Unmetered(Expire(b))
                         \/ Unmetered(SenderStep(b))
                         \/ Unmetered(BackoffElapses(b))
                         \/ Unmetered(GcStep(b))
                         \/ MCFault(b)

MCSpec == MCInit /\ [][MCNext]_mcVars

(***************************************************************************)
(* The sender loops for ever once it is spawned and the clock reaches      *)
(* every next_try_at.  Nothing is assumed of clients, pins' lifetimes,     *)
(* eviction rounds and faults (of which MaxFaults bounds the number).      *)
(***************************************************************************)
FairSpec ==
    /\ MCSpec
    /\ \A b \in Bucket : /\ WF_mcVars(Unmetered(SenderStep(b)))
                         /\ WF_mcVars(Unmetered(BackoffElapses(b)))

-----------------------------------------------------------------------------
(* Object graphs *)

\* root -> mid -> leaf
Chain == {"root", "mid", "leaf"}
ChainChild == [o \in Chain |-> CASE o = "root" -> {"mid"}
                                 [] o = "mid"  -> {"leaf"}
                                 [] o = "leaf" -> {}]
ChainHome == [o \in Chain |-> IF o = "mid" THEN "b2" ELSE "b1"]

\* root -> leaf
Link == {"root", "leaf"}
LinkChild == [o \in Link |-> IF o = "root" THEN {"leaf"} ELSE {}]
LinkHome == [o \in Link |-> "b1"]

\* left and right share dir; leaf is a child of both right and dir
Dag == {"left", "right", "dir", "leaf"}
DagChild == [o \in Dag |-> CASE o = "left"  -> {"dir"}
                             [] o = "right" -> {"dir", "leaf"}
                             [] o = "dir"   -> {"leaf"}
                             [] o = "leaf"  -> {}]
DagHome == [o \in Dag |-> "b1"]

\* a file that refers to a chunk, which may stand for a chunk list
Files == {"file", "chunk", "list"}
FilesChild == [o \in Files |-> CASE o = "file"  -> {"chunk"}
                                 [] o = "chunk" -> {"list"}
                                 [] o = "list"  -> {}]
FilesHome == [o \in Files |-> "b1"]

-----------------------------------------------------------------------------

\* Under FairSpec await_cascade_idle returns: the outboxes stay empty from
\* some point on, in spite of lost answers, failed bookkeeping and crashes.
OutboxDrains == <>[]Quiet

=============================================================================
