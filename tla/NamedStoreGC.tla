---------------------------- MODULE NamedStoreGC ----------------------------
(***************************************************************************)
(* Garbage collection of a set of named stores: the transactions of        *)
(* NamedStoreDB called by clients, one outbox sender per bucket            *)
(* (src/src/named_store/src/outbox_sender.rs) that carries the edges of    *)
(* anchored trees to the bucket of the child, and the eviction rounds of   *)
(* NamedStore::gc_round (src/src/named_store/src/named_store.rs).          *)
(*                                                                         *)
(* The sender and the eviction round keep what they read from the database *)
(* across await points: the fetched batch and the candidate list may be    *)
(* stale when they are used.  A crash of a process loses both; the         *)
(* database survives.                                                      *)
(***************************************************************************)
EXTENDS NamedStoreDB

CONSTANT BatchSize      \* OutboxSenderConfig::batch_size

ASSUME BatchAssumption == BatchSize \in Nat \ {0}

VARIABLES
    batch,      \* batch[b]: fetched entries not yet delivered
    cur,        \* cur[b]: the entry that was just tried, as a singleton set
    phase,      \* phase[b]: what the sender does next about cur[b]
    candidates, \* candidates[b]: the rest of the list gc_round iterates over
    overtaken   \* history: pairs whose edges were applied out of order

gcVars == <<batch, cur, phase, candidates, overtaken>>
vars   == <<dbVars, gcVars>>

Phase == {"idle", "acked", "nacked"}

TypeOK ==
    /\ DBTypeOK
    /\ batch \in [Bucket -> SUBSET Entry]
    /\ cur \in [Bucket -> SUBSET Entry]
    /\ phase \in [Bucket -> Phase]
    /\ candidates \in [Bucket -> SUBSET Obj]
    /\ overtaken \in SUBSET (Obj \X Obj)

IdleProcesses ==
    /\ batch = [b \in Bucket |-> {}]
    /\ cur = [b \in Bucket |-> {}]
    /\ phase = [b \in Bucket |-> "idle"]
    /\ candidates = [b \in Bucket |-> {}]
    /\ overtaken = {}

Init == DBInit /\ IdleProcesses

-----------------------------------------------------------------------------
(* Client calls *)

\* Writes of content
ContentOp ==
    \/ \E o \in Obj : PutObject(o)
    \/ \E c \in Chunk, kind \in ChunkState \ {"absent"} : SetChunkItem(c, kind)

\* Explicit removal, which bypasses the GC columns
RemoveOp ==
    \/ \E o \in Obj : RemoveObject(o)
    \/ \E c \in Chunk : RemoveChunk(c)

PinOp(objs, scopes, lives) ==
    \/ \E o \in objs, w \in Owner, scope \in scopes, life \in lives :
          Pin(o, w, scope, life)
    \/ \E o \in objs, w \in Owner : Unpin(o, w)
    \/ \E b \in Bucket, w \in Owner : UnpinOwner(b, w)

AnchorOp(objs) ==
    \/ \E o \in objs, slot \in Slot : FsAcquire(o, slot) \/ FsRelease(o, slot)
    \/ \E b \in Bucket, i \in Inode : FsReleaseInode(b, i)

ClientOp ==
    /\ ContentOp \/ RemoveOp \/ PinOp(Obj, PinScope, PinLife) \/ AnchorOp(Obj)
    /\ UNCHANGED gcVars

\* Time passes for pins; run_background_gc collects the expired ones
Clock == (\E o \in Obj, w \in Owner : TtlElapses(o, w)) /\ UNCHANGED gcVars

Expire(b) == ExpirePins(b) /\ UNCHANGED gcVars

-----------------------------------------------------------------------------
(* The outbox sender of bucket b: OutboxSender::run_loop *)

ReadyEntries(b) == {e \in outbox[b] : e.ready}

\* fetch_outbox_ready: ORDER BY seq LIMIT batch_size
Fetch(b) ==
    /\ phase[b] = "idle" /\ batch[b] = {}
    /\ \E got \in SUBSET ReadyEntries(b) :
          /\ got # {}
          /\ \A e \in got, x \in ReadyEntries(b) \ got : e.seq <= x.seq
          /\ Cardinality(got) <= BatchSize
          /\ got = ReadyEntries(b) \/ Cardinality(got) = BatchSize
          /\ batch' = [batch EXCEPT ![b] = got]
    /\ UNCHANGED <<dbVars, cur, phase, candidates, overtaken>>

\* e is the next entry of the batch; the sender takes it out and tries it
Take(b, e, result) ==
    /\ phase[b] = "idle"
    /\ e \in batch[b]
    /\ \A x \in batch[b] : e.seq <= x.seq
    /\ batch' = [batch EXCEPT ![b] = @ \ {e}]
    /\ cur' = [cur EXCEPT ![b] = {e}]
    /\ phase' = [phase EXCEPT ![b] = result]
    /\ UNCHANGED candidates

\* e reaches the bucket of its referee.  overtaken records that an older
\* entry for the same pair is still in the outbox.
Arrive(b, e) ==
    /\ ApplyEdge(e)
    /\ overtaken' =
         IF \E x \in outbox[b] : Pair(x) = Pair(e) /\ x.seq < e.seq
         THEN overtaken \cup {Pair(e)} ELSE overtaken

\* router.deliver returns Ok
Deliver(b) == \E e \in batch[b] : Take(b, e, "acked") /\ Arrive(b, e)

\* router.deliver returns Err although the edge was applied: the response of
\* the remote gateway was lost
DeliverLostAck(b) == \E e \in batch[b] : Take(b, e, "nacked") /\ Arrive(b, e)

\* router.deliver returns Err and nothing was applied
DeliverFail(b) ==
    \E e \in batch[b] : Take(b, e, "nacked") /\ UNCHANGED <<dbVars, overtaken>>

SenderIdle(b) ==
    /\ phase' = [phase EXCEPT ![b] = "idle"]
    /\ cur' = [cur EXCEPT ![b] = {}]

\* Mutants of Complete: a failed delivery is completed too, or the row stays
CompleteAnyOutcome(b) ==
    /\ phase[b] # "idle"
    /\ outbox' = [outbox EXCEPT ![b] = @ \ cur[b]]
    /\ SenderIdle(b)
    /\ UNCHANGED <<rowVars, chunkItem, rootVars, incoming, nextSeq, histVars,
                   batch, candidates, overtaken>>
CompleteKeepsRow(b) ==
    /\ phase[b] = "acked"
    /\ SenderIdle(b)
    /\ UNCHANGED <<dbVars, batch, candidates, overtaken>>

\* complete_outbox_entry
Complete(b) ==
    /\ phase[b] = "acked"
    /\ outbox' = [outbox EXCEPT ![b] = @ \ cur[b]]
    /\ SenderIdle(b)
    /\ UNCHANGED <<rowVars, chunkItem, rootVars, incoming, nextSeq, histVars,
                   batch, candidates, overtaken>>

\* retry_outbox_entry: a later next_try_at
Retry(b) ==
    /\ phase[b] = "nacked"
    /\ outbox' = [outbox EXCEPT ![b] =
                    (@ \ cur[b]) \cup {[e EXCEPT !.ready = FALSE] : e \in cur[b]}]
    /\ SenderIdle(b)
    /\ UNCHANGED <<rowVars, chunkItem, rootVars, incoming, nextSeq, histVars,
                   batch, candidates, overtaken>>

\* complete_outbox_entry or retry_outbox_entry fails: only a warning
BookkeepingFails(b) ==
    /\ phase[b] # "idle"
    /\ SenderIdle(b)
    /\ UNCHANGED <<dbVars, batch, candidates, overtaken>>

\* The clock reaches the next_try_at of an entry
BackoffElapses(b) ==
    /\ \E e \in outbox[b] :
          /\ ~e.ready
          /\ outbox' = [outbox EXCEPT ![b] =
                          (@ \ {e}) \cup {[e EXCEPT !.ready = TRUE]}]
    /\ UNCHANGED <<rowVars, chunkItem, rootVars, incoming, nextSeq, histVars,
                   gcVars>>

SenderStep(b) == Fetch(b) \/ Deliver(b) \/ Complete(b) \/ Retry(b)

-----------------------------------------------------------------------------
(* An eviction round of bucket b: NamedStore::gc_round *)

\* list_gc_candidates
GcList(b) ==
    LET found == {o \in HomeOf(b) : state[o] = "present" /\ evictionClass[o] = 0}
    IN  /\ candidates[b] = {} /\ found # {}
        /\ candidates' = [candidates EXCEPT ![b] = found]
        /\ UNCHANGED <<dbVars, batch, cur, phase, overtaken>>

GcEvict(b) ==
    \E o \in candidates[b] :
        /\ TryEvict(o)
        /\ candidates' = [candidates EXCEPT ![b] = @ \ {o}]
        /\ UNCHANGED <<batch, cur, phase, overtaken>>

\* The round has freed target_bytes
GcStop(b) ==
    /\ candidates[b] # {}
    /\ candidates' = [candidates EXCEPT ![b] = {}]
    /\ UNCHANGED <<dbVars, batch, cur, phase, overtaken>>

\* The process of bucket b stops and starts again
Crash(b) ==
    /\ phase[b] # "idle" \/ batch[b] # {} \/ candidates[b] # {}
    /\ batch' = [batch EXCEPT ![b] = {}]
    /\ candidates' = [candidates EXCEPT ![b] = {}]
    /\ SenderIdle(b)
    /\ UNCHANGED <<dbVars, overtaken>>

-----------------------------------------------------------------------------

GcStep(b) == GcList(b) \/ GcEvict(b) \/ GcStop(b)

Fault(b) == DeliverLostAck(b) \/ DeliverFail(b) \/ BookkeepingFails(b) \/ Crash(b)

Next ==
    \/ ClientOp
    \/ Clock
    \/ \E b \in Bucket : \/ Expire(b)
                         \/ SenderStep(b)
                         \/ BackoffElapses(b)
                         \/ GcStep(b)
                         \/ Fault(b)

Spec == Init /\ [][Next]_vars

-----------------------------------------------------------------------------
(* Properties *)

\* The cached counter agrees with the table it counts: fs_anchor_count is
\* the number of fs_anchors rows (fs_acquire, fs_release, fs_release_inode,
\* try_evict_object), for every object not removed behind the GC's back.
AnchorCountExact ==
    \A o \in Obj \ wiped : anchorCount[o] = Cardinality(anchors[o])

\* Whatever was removed behind the GC's back, fs_anchor_count never counts
\* an anchor that is gone: releasing every anchor always unprotects.
AnchorCountBounded ==
    \A o \in Obj : anchorCount[o] <= Cardinality(anchors[o])

\* An object without a row has no active pin, no anchor and no incoming
\* edge, so that the zero columns of a new row (put_object_in_tx) and of an
\* evicted one are right.
NoOrphanRoots ==
    \A o \in Obj \ wiped :
        state[o] = "absent" =>
            ~HasActivePin(o) /\ anchors[o] = {} /\ ~HasIncoming(o)

\* eviction_class never promises less protection than the tables give: a row
\* that an active pin or an anchor holds has class 2, a row that an edge holds
\* has class 1 or 2 (recompute_eviction_class_tx after every transaction).
ClassProtects ==
    \A o \in Obj \ wiped :
        /\ HasActivePin(o) \/ anchors[o] # {} => evictionClass[o] = 2
        /\ HasIncoming(o) => evictionClass[o] >= 1

\* The columns of a row agree with the tables it summarises: the counter is
\* exact, no root is without a row, and the class protects, after any order
\* of puts, pins, anchors, edges, releases and evictions.
RootsInv == AnchorCountExact /\ NoOrphanRoots /\ ClassProtects

HasExpiredPin(o) == \E w \in Owner : pins[o][w].life = "expired"

\* children_expanded is what the roots of the object ask for, whatever the
\* order of puts, pins, anchors and edges, unless a pin has passed its
\* expires_at and expire_pins has not run yet (reconcile_expand_state_tx).
ExpandExact ==
    \A o \in Obj \ wiped :
        ~HasExpiredPin(o) => expanded[o] = ShouldExpand(o)

\* A cascade is left Pending only while its root has no content
\* (promote_anchor_cascade_state_on_present_tx misses none).
PendingOnlyOnShadow ==
    \A o \in Obj \ wiped :
        \/ pending[o] # {}
        \/ \E w \in Owner : Active(pins[o][w]) /\ pins[o][w].cascade = "Pending"
        => state[o] = "shadow"

\* Cascades follow the roots: an object is expanded exactly when a root asks
\* for it, and no cascade stays Pending over content (put_object_in_tx,
\* reconcile_expand_state_tx).
CascadesExact == ExpandExact /\ PendingOnlyOnShadow

-----------------------------------------------------------------------------
(* The edge ledger *)

PendingFor(c, p) == {e \in outbox[Home[p]] : Pair(e) = <<c, p>>}

\* Pairs whose edges no explicit removal, stale eviction or reordering touched
Intact(c, p) ==
    /\ c \notin wiped /\ p \notin wiped \cup torn
    /\ <<c, p>> \notin overtaken

\* The edge from p to its child c is at the child exactly when p is expanded,
\* or the outbox of p holds the message that will make it so: no lost
\* acknowledgement, duplicate, retry or crash loses or invents a reference.
EdgeLedger ==
    \A c, p \in Obj :
        Intact(c, p) /\ c \in Child[p] =>
            IF PendingFor(c, p) = {}
            THEN <<c, p>> \in incoming <=> expanded[p]
            ELSE \A e \in PendingFor(c, p) :
                    (\A x \in PendingFor(c, p) : x.seq <= e.seq)
                        => (e.op = "add" <=> expanded[p])

\* Only stored objects are expanded, and chunks are never stored as objects.
ExpandedStored ==
    \A o \in Obj : /\ expanded[o] => state[o] = "present"
                   /\ o \in Chunk => state[o] # "present"

\* A row of the outbox is an edge of the object graph, filed in the bucket of
\* its referrer, and the sequence number identifies it among those of its pair.
OutboxWellFormed ==
    \A b \in Bucket : \A e \in outbox[b] :
        /\ Home[e.referrer] = b /\ e.referee \in Child[e.referrer]
        /\ e.seq < nextSeq[b]
        /\ \A x \in outbox[b] : Pair(x) = Pair(e) /\ x.seq = e.seq => x = e

\* What the sender holds is still in the outbox, and ready; it tries one
\* entry at a time.
SenderHoldsRows ==
    \A b \in Bucket :
        /\ batch[b] \subseteq ReadyEntries(b) /\ cur[b] \subseteq ReadyEntries(b)
        /\ batch[b] \cap cur[b] = {}
        /\ IF phase[b] = "idle" THEN cur[b] = {}
           ELSE \E e \in cur[b] : cur[b] = {e}

\* An acknowledged entry is in effect at the referee and is the oldest of its
\* pair.
AckedInEffect ==
    \A b \in Bucket : \A e \in cur[b] :
        phase[b] = "acked" /\ Intact(e.referee, e.referrer) =>
            /\ Pair(e) \in incoming <=> e.op = "add"
            /\ \A x \in outbox[b] : Pair(x) = Pair(e) => e.seq <= x.seq

\* The inductive strengthening of EdgeLedger: reconcile_expand_state_tx files
\* an edge for every change of children_expanded, the sender of the bucket is
\* the only one to remove it, and only once it is in effect.
LedgerInv ==
    /\ ExpandedStored
    /\ OutboxWellFormed
    /\ SenderHoldsRows
    /\ AckedInEffect
    /\ EdgeLedger

Quiet == \A b \in Bucket : outbox[b] = {}

\* Once the outboxes are empty, every child of an expanded object has a row
\* that eviction skips.
QuietProtected ==
    Quiet => \A c, p \in Obj :
                Intact(c, p) /\ c \in Child[p] /\ expanded[p] =>
                    state[c] # "absent" /\ evictionClass[c] >= 1

-----------------------------------------------------------------------------
(* Whole trees *)

\* Objects the file system or a recursive pin asks to keep with their content
TreeRoots == {o \in Obj : anchors[o] # {} \/ HasScopedPin(o, "recursive")}

\* A cascade passes through stored objects without a skeleton pin
Passes(o) == state[o] = "present" /\ ~HasScopedPin(o, "skeleton")

Closed(S) ==
    /\ TreeRoots \subseteq S
    /\ \A p \in S : Passes(p) => Child[p] \subseteq S

\* What the roots ask to keep: the least set that holds them and the children
\* of each member that a cascade passes through
Tree == {o \in Obj : \A S \in SUBSET Obj : Closed(S) => o \in S}

Settled ==
    /\ Quiet
    /\ wiped = {} /\ torn = {} /\ overtaken = {}
    /\ \A o \in Obj : ~HasExpiredPin(o)

\* Once the cascades have settled, every object below an anchored or
\* recursively pinned root has a row that eviction skips, however puts, pins,
\* anchors, edges and evictions interleaved.
TreeProtected ==
    Settled => \A o \in Tree : state[o] # "absent" /\ evictionClass[o] >= 1

\* Once the cascades have settled, nothing outside those trees is held back:
\* a shared child is released with its last referrer.
NoLeak ==
    Settled => \A q \in incoming : q[2] \in Tree /\ Passes(q[2])

-----------------------------------------------------------------------------

\* Eviction never deletes the row of an object that a pin, an anchor row or
\* an edge still holds, however stale its candidate list is.
NeverEvictHeld ==
    [][\A o \in Obj :
          state[o] # "absent" /\ state'[o] = "absent" /\ o \notin wiped' =>
              ~HasActivePin(o) /\ anchors[o] = {} /\ ~HasIncoming(o)]_vars

=============================================================================
