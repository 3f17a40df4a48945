---------------------------- MODULE NamedStoreDB ----------------------------
(***************************************************************************)
(* The metadata database of a named store (NamedLocalStoreDB in            *)
(* src/src/named_store/src/store_db.rs): the objects table with its GC     *)
(* columns, pins, fs_anchors, incoming_refs, edge_outbox and chunk_items,  *)
(* and one action per transaction.  The connection sits behind a mutex and *)
(* every operation commits one SQLite transaction, so an operation is one  *)
(* atomic step.                                                            *)
(*                                                                         *)
(* An object has one home bucket (one database) and every transaction      *)
(* touches the rows of objects of one bucket only, so the tables of all    *)
(* buckets are kept together, keyed by object; only the outbox is kept per *)
(* bucket because its order matters.                                       *)
(*                                                                         *)
(* Time is abstracted to what the code compares it with: a pin is past     *)
(* its expires_at or not, an outbox entry past its next_try_at or not.     *)
(***************************************************************************)
EXTENDS Naturals, FiniteSets

CONSTANTS
    Obj,        \* object ids
    Chunk,      \* the ids for which ObjId::is_chunk() holds
    Child,      \* Child[o]: the ids that the content of o refers to
    Owner,      \* pin owners
    Inode,      \* inode ids of the file system that anchors objects
    Tag,        \* field tags of an inode
    Bucket,     \* store databases
    Home        \* Home[o]: the bucket that holds the rows of o

ASSUME DBAssumption ==
    /\ Chunk \subseteq Obj
    /\ Child \in [Obj -> SUBSET Obj]
    /\ Home \in [Obj -> Bucket]
    /\ IsFiniteSet(Inode) /\ IsFiniteSet(Tag)

(***************************************************************************)
(* An id is the hash of a content that names the children, so no chain of  *)
(* references leads back to its start: among any objects there is one that *)
(* no other of them refers to.                                             *)
(***************************************************************************)
ASSUME AcyclicAssumption ==
    \A S \in SUBSET Obj :
        S # {} => \E o \in S : \A r \in S : o \notin Child[r]

VARIABLES
    state,          \* objects.state; "absent" when there is no row
    evictionClass,  \* objects.eviction_class
    expanded,       \* objects.children_expanded
    anchorCount,    \* objects.fs_anchor_count
    chunkItem,      \* chunk_items.chunk_state; "absent" when there is no row
    pins,           \* pins[o][w]: the row of object o and owner w
    anchors,        \* anchors[o]: the <<inode, tag>> rows of fs_anchors
    pending,        \* the rows of anchors whose cascade_state is Pending
    incoming,       \* incoming_refs, as pairs <<referee, referrer>>
    outbox,         \* outbox[b]: edge_outbox of bucket b
    nextSeq,        \* nextSeq[b]: the AUTOINCREMENT counter of edge_outbox
    wiped,          \* history: objects deleted by remove_object/remove_chunk
    torn            \* history: objects evicted while children_expanded = 1

rowVars  == <<state, evictionClass, expanded, anchorCount>>
rootVars == <<pins, anchors, pending>>
edgeVars == <<incoming, outbox, nextSeq>>
histVars == <<wiped, torn>>
dbVars   == <<rowVars, chunkItem, rootVars, edgeVars, histVars>>

-----------------------------------------------------------------------------
(* Rows *)

ItemState  == {"absent", "shadow", "present"}
ChunkState == {"absent", "completed", "local_link", "same_as"}
PinScope   == {"recursive", "skeleton", "lease"}
Cascade    == {"Pending", "Materializing"}
EdgeOp     == {"add", "remove"}
Slot       == Inode \X Tag

\* "forever": expires_at is NULL; "ttl": in the future; "expired": in the past.
PinLife == {"forever", "ttl", "expired"}
PinRow  == [scope : PinScope \cup {"none"}, life : PinLife, cascade : Cascade]
NoPin   == [scope |-> "none", life |-> "forever", cascade |-> "Materializing"]

(***************************************************************************)
(* An edge_outbox row.  The rows one transaction inserts share the value   *)
(* of the counter: they concern different <<referee, referrer>> pairs and  *)
(* their order follows an unspecified iteration order, so the sender may   *)
(* take them in any order.  ready: next_try_at <= now.                     *)
(***************************************************************************)
Entry == [seq : Nat, op : EdgeOp, referee : Obj, referrer : Obj,
          ready : BOOLEAN]

Pair(e) == <<e.referee, e.referrer>>

\* The rows of bucket b.
HomeOf(b) == {o \in Obj : Home[o] = b}

DBTypeOK ==
    /\ state \in [Obj -> ItemState]
    /\ evictionClass \in [Obj -> 0..2]
    /\ expanded \in [Obj -> BOOLEAN]
    /\ anchorCount \in [Obj -> Nat]
    /\ chunkItem \in [Chunk -> ChunkState]
    /\ pins \in [Obj -> [Owner -> PinRow]]
    /\ anchors \in [Obj -> SUBSET Slot]
    /\ pending \in [Obj -> SUBSET Slot]
    /\ incoming \in SUBSET (Obj \X Obj)
    /\ outbox \in [Bucket -> SUBSET Entry]
    /\ nextSeq \in [Bucket -> Nat]
    /\ wiped \in SUBSET Obj
    /\ torn \in SUBSET Obj

EmptyTables ==
    /\ evictionClass = [o \in Obj |-> 0]
    /\ expanded = [o \in Obj |-> FALSE]
    /\ anchorCount = [o \in Obj |-> 0]
    /\ chunkItem = [c \in Chunk |-> "absent"]
    /\ pins = [o \in Obj |-> [w \in Owner |-> NoPin]]
    /\ anchors = [o \in Obj |-> {}]
    /\ pending = [o \in Obj |-> {}]
    /\ incoming = {}
    /\ outbox = [b \in Bucket |-> {}]
    /\ nextSeq = [b \in Bucket |-> 1]
    /\ wiped = {}
    /\ torn = {}

DBInit == state = [o \in Obj |-> "absent"] /\ EmptyTables

-----------------------------------------------------------------------------
(* The queries the GC columns are computed from *)

Active(p) == p.scope # "none" /\ p.life # "expired"

HasActivePin(o) == \E w \in Owner : Active(pins[o][w])

HasScopedPin(o, scope) ==
    \E w \in Owner : Active(pins[o][w]) /\ pins[o][w].scope = scope

HasIncoming(o) == \E r \in Obj : <<o, r>> \in incoming

\* Mutant of EvictionClass: edges are forgotten
ClassWithoutEdges(o) ==
    IF HasActivePin(o) \/ anchorCount[o] > 0 THEN 2 ELSE 0

\* recompute_eviction_class_tx
EvictionClass(o) ==
    IF HasActivePin(o) \/ anchorCount[o] > 0 THEN 2
    ELSE IF HasIncoming(o) THEN 1
    ELSE 0

\* Mutants of ShouldExpand: a cascade stops after one level, or passes through
\* a skeleton pin
ExpandOneLevel(o) ==
    /\ state[o] = "present" /\ ~HasScopedPin(o, "skeleton")
    /\ HasScopedPin(o, "recursive") \/ anchorCount[o] > 0
ExpandThroughSkeleton(o) ==
    /\ state[o] = "present"
    /\ HasScopedPin(o, "recursive") \/ anchorCount[o] > 0 \/ HasIncoming(o)

\* `want` of reconcile_expand_state_tx
ShouldExpand(o) ==
    /\ state[o] = "present"
    /\ ~HasScopedPin(o, "skeleton")
    /\ \/ HasScopedPin(o, "recursive")
       \/ anchorCount[o] > 0
       \/ HasIncoming(o)

\* parse_obj_refs_tx: a stored object's references, a SameAs chunk's list
ObjRefs(o) ==
    IF o \in Chunk
    THEN IF chunkItem[o] = "same_as" THEN Child[o] ELSE {}
    ELSE IF state[o] = "present" THEN Child[o] ELSE {}

-----------------------------------------------------------------------------
(* Steps shared by the transactions.  They read the primed tables: the     *)
(* transaction's own updates come first.                                   *)

\* upsert_shadow_if_absent_tx; every other column of a new row is zero,
\* which is also what the columns of an absent row read as.
UpsertShadow(o) ==
    state' = [state EXCEPT ![o] = IF @ = "absent" THEN "shadow" ELSE @]

\* recompute_eviction_class_tx: an UPDATE, so without effect on an absent row
Reclassify(objs) ==
    evictionClass' = [o \in Obj |-> IF o \in objs /\ state'[o] # "absent"
                                    THEN EvictionClass(o)'
                                    ELSE evictionClass[o]]

\* The outbox rows of the flips of children_expanded among objs in bucket b
FlipEdges(b, objs) ==
    {[seq |-> nextSeq[b], op |-> IF expanded'[q[2]] THEN "add" ELSE "remove",
      referee |-> q[1], referrer |-> q[2], ready |-> TRUE]
        : q \in {q \in Obj \X Obj : /\ q[2] \in objs
                                    /\ expanded'[q[2]] # expanded[q[2]]
                                    /\ q[1] \in ObjRefs(q[2])'}}

\* Mutant of Reconcile: children_expanded is never cleared
ReconcileOnlyGrows(b, objs) ==
    /\ expanded' = [o \in Obj |-> expanded[o] \/ (o \in objs /\ ShouldExpand(o)')]
    /\ outbox' = [outbox EXCEPT ![b] = @ \cup FlipEdges(b, objs)]
    /\ nextSeq' = [nextSeq EXCEPT
                     ![b] = IF FlipEdges(b, objs) = {} THEN @ ELSE @ + 1]

\* reconcile_expand_state_tx for each of objs
Reconcile(b, objs) ==
    /\ expanded' = [o \in Obj |-> IF o \in objs THEN ShouldExpand(o)'
                                  ELSE expanded[o]]
    /\ outbox' = [outbox EXCEPT ![b] = @ \cup FlipEdges(b, objs)]
    /\ nextSeq' = [nextSeq EXCEPT
                     ![b] = IF FlipEdges(b, objs) = {} THEN @ ELSE @ + 1]

-----------------------------------------------------------------------------
(* Objects and chunk items *)

(***************************************************************************)
(* put_object_in_tx.  A present row only has its last_access_time touched: *)
(* a stuttering step.  A new row starts with zero GC columns and is not    *)
(* reconciled; a shadow row takes its content, the cascades waiting for it *)
(* are promoted and the row is reconciled.  set_object and                 *)
(* put_object_gc_aware both call it.                                       *)
(***************************************************************************)
PutNew(o) ==
    /\ o \notin Chunk
    /\ state[o] = "absent"
    /\ state' = [state EXCEPT ![o] = "present"]
    /\ UNCHANGED <<evictionClass, expanded, anchorCount, chunkItem, rootVars,
                   edgeVars, histVars>>

\* promote_anchor_cascade_state_on_present_tx
Promote(o) ==
    /\ pins' = [pins EXCEPT ![o] =
                  [w \in Owner |-> IF @[w].scope = "recursive"
                                   THEN [@[w] EXCEPT !.cascade = "Materializing"]
                                   ELSE @[w]]]
    /\ pending' = [pending EXCEPT ![o] = {}]

PutOverShadow(o) ==
    /\ o \notin Chunk
    /\ state[o] = "shadow"
    /\ state' = [state EXCEPT ![o] = "present"]
    /\ Promote(o)
    /\ UNCHANGED <<anchorCount, chunkItem, anchors, incoming, histVars>>
    /\ Reclassify({o})
    /\ Reconcile(Home[o], {o})

PutObject(o) == PutNew(o) \/ PutOverShadow(o)

\* remove_object: a DELETE of the objects row and of nothing else
RemoveObject(o) ==
    /\ o \notin Chunk
    /\ state[o] # "absent"
    /\ state' = [state EXCEPT ![o] = "absent"]
    /\ evictionClass' = [evictionClass EXCEPT ![o] = 0]
    /\ expanded' = [expanded EXCEPT ![o] = FALSE]
    /\ anchorCount' = [anchorCount EXCEPT ![o] = 0]
    /\ wiped' = wiped \cup {o}
    /\ UNCHANGED <<chunkItem, rootVars, edgeVars, torn>>

\* set_chunk_item, for the chunk states NamedStore writes
SetChunkItem(c, kind) ==
    /\ chunkItem[c] # kind
    /\ chunkItem' = [chunkItem EXCEPT ![c] = kind]
    /\ UNCHANGED <<rowVars, rootVars, edgeVars, histVars>>

\* remove_chunk: the chunk_items row and the incoming edges of the chunk
RemoveChunk(c) ==
    /\ chunkItem[c] # "absent" \/ HasIncoming(c)
    /\ chunkItem' = [chunkItem EXCEPT ![c] = "absent"]
    /\ incoming' = {q \in incoming : q[1] # c}
    /\ wiped' = wiped \cup {c}
    /\ UNCHANGED <<rowVars, rootVars, outbox, nextSeq, torn>>

-----------------------------------------------------------------------------
(* Pins *)

\* pin; a ttl of zero seconds makes a pin that is expired from the start
Pin(o, w, scope, life) ==
    /\ UpsertShadow(o)
    /\ pins' = [pins EXCEPT ![o][w] =
                  [scope |-> scope, life |-> life,
                   cascade |-> IF scope # "recursive" \/ state[o] = "present"
                               THEN "Materializing" ELSE "Pending"]]
    /\ UNCHANGED <<anchorCount, chunkItem, anchors, pending, incoming, histVars>>
    /\ Reclassify({o})
    /\ Reconcile(Home[o], {o})

\* The end of unpin, unpin_owner and expire_pins in bucket b: the rows gone,
\* as pairs <<object, owner>>, are deleted and their objects reconciled.
DropPins(b, gone) ==
    LET objs == {q[1] : q \in gone}
    IN  /\ pins' = [o \in Obj |->
                      [w \in Owner |-> IF <<o, w>> \in gone THEN NoPin
                                       ELSE pins[o][w]]]
        /\ UNCHANGED <<state, anchorCount, chunkItem, anchors, pending,
                       incoming, histVars>>
        /\ Reclassify(objs)
        /\ Reconcile(b, objs)

\* unpin; without effect when the owner has no pin on o
Unpin(o, w) ==
    /\ pins[o][w] # NoPin
    /\ DropPins(Home[o], {<<o, w>>})

\* unpin_owner
UnpinOwner(b, w) ==
    LET gone == {q \in HomeOf(b) \X {w} : pins[q[1]][w] # NoPin}
    IN  gone # {} /\ DropPins(b, gone)

\* The clock passes the expires_at of a pin
TtlElapses(o, w) ==
    /\ pins[o][w].scope # "none" /\ pins[o][w].life = "ttl"
    /\ pins' = [pins EXCEPT ![o][w].life = "expired"]
    /\ UNCHANGED <<rowVars, chunkItem, anchors, pending, edgeVars, histVars>>

\* expire_pins
ExpirePins(b) ==
    LET gone == {q \in HomeOf(b) \X Owner : pins[q[1]][q[2]].life = "expired"}
    IN  gone # {} /\ DropPins(b, gone)

-----------------------------------------------------------------------------
(* File system anchors *)

\* fs_acquire: INSERT OR IGNORE, and the count grows when a row was inserted
FsAcquire(o, slot) ==
    /\ UpsertShadow(o)
    /\ anchors' = [anchors EXCEPT ![o] = @ \cup {slot}]
    /\ pending' = [pending EXCEPT ![o] =
                     IF slot \in anchors[o] \/ state[o] = "present" THEN @
                     ELSE @ \cup {slot}]
    /\ anchorCount' = [anchorCount EXCEPT ![o] =
                         IF slot \in anchors[o] THEN @ ELSE @ + 1]
    /\ UNCHANGED <<chunkItem, pins, incoming, histVars>>
    /\ Reclassify({o})
    /\ Reconcile(Home[o], {o})

\* Mutants of Decrease: no clamp at zero, one per call
DecreaseUnclamped(count, n) == count - n
DecreaseByOne(count, n) == IF count >= 1 THEN count - 1 ELSE 0
\* MAX(0, fs_anchor_count - n)
Decrease(count, n) == IF count >= n THEN count - n ELSE 0

\* The end of fs_release and fs_release_inode
DropAnchors(b, objs, gone) ==
    /\ anchors' = [o \in Obj |-> IF o \in objs THEN anchors[o] \ gone
                                 ELSE anchors[o]]
    /\ pending' = [o \in Obj |-> IF o \in objs THEN pending[o] \ gone
                                 ELSE pending[o]]
    /\ anchorCount' =
         [o \in Obj |-> IF o \in objs
                        THEN Decrease(anchorCount[o],
                                      Cardinality(anchors[o] \cap gone))
                        ELSE anchorCount[o]]
    /\ UNCHANGED <<state, chunkItem, pins, incoming, histVars>>
    /\ Reclassify(objs)
    /\ Reconcile(b, objs)

\* fs_release; it recomputes and reconciles even when there was no row
FsRelease(o, slot) == DropAnchors(Home[o], {o}, {slot})

\* fs_release_inode
FsReleaseInode(b, i) ==
    LET gone == {i} \X Tag
        objs == {o \in HomeOf(b) : anchors[o] \cap gone # {}}
    IN  /\ objs # {}
        /\ DropAnchors(b, objs, gone)

-----------------------------------------------------------------------------
(* Edges and eviction *)

\* apply_edge, in the home bucket of the referee
ApplyEdge(e) ==
    /\ UpsertShadow(e.referee)
    /\ incoming' = IF e.op = "add" THEN incoming \cup {Pair(e)}
                   ELSE incoming \ {Pair(e)}
    /\ UNCHANGED <<anchorCount, chunkItem, rootVars, histVars>>
    /\ Reclassify({e.referee})
    /\ Reconcile(Home[e.referee], {e.referee})

\* Mutant of Protected: the double check forgets the pins
ProtectedWithoutPins(o) == HasIncoming(o) \/ anchorCount[o] > 0

\* The double check of try_evict_object
Protected(o) == HasActivePin(o) \/ HasIncoming(o) \/ anchorCount[o] > 0

(***************************************************************************)
(* try_evict_object: a protected row has its class corrected, any other    *)
(* row is deleted together with its chunk_items row.                       *)
(***************************************************************************)
TryEvict(o) ==
    \/ /\ Protected(o)
       /\ UNCHANGED <<state, expanded, anchorCount, chunkItem, rootVars,
                      edgeVars, histVars>>
       /\ Reclassify({o})
    \/ /\ ~Protected(o)
       /\ state' = [state EXCEPT ![o] = "absent"]
       /\ evictionClass' = [evictionClass EXCEPT ![o] = 0]
       /\ expanded' = [expanded EXCEPT ![o] = FALSE]
       /\ anchorCount' = [anchorCount EXCEPT ![o] = 0]
       /\ chunkItem' = [c \in Chunk |-> IF c = o THEN "absent" ELSE chunkItem[c]]
       /\ torn' = IF expanded[o] THEN torn \cup {o} ELSE torn
       /\ UNCHANGED <<rootVars, edgeVars, wiped>>

=============================================================================
