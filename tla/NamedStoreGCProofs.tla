------------------------- MODULE NamedStoreGCProofs -------------------------
(***************************************************************************)
(* Proofs about NamedStoreGC, for every set of objects, owners, anchors    *)
(* and buckets and for every object graph.                                 *)
(***************************************************************************)
EXTENDS NamedStoreGC, FiniteSetTheorems, TLAPS

-----------------------------------------------------------------------------
(* Type correctness *)

\* What recompute_eviction_class_tx writes is a class.
LEMMA ReclassifyType ==
    ASSUME DBTypeOK, NEW objs, Reclassify(objs)
    PROVE  evictionClass' \in [Obj -> 0..2]
BY DEF DBTypeOK, Reclassify, EvictionClass

\* A row's shadow keeps the type of the state column.
LEMMA UpsertType ==
    ASSUME DBTypeOK, NEW o \in Obj, UpsertShadow(o)
    PROVE  state' \in [Obj -> ItemState]
BY DEF DBTypeOK, UpsertShadow, ItemState

\* What reconcile_expand_state_tx writes keeps the types of children_expanded
\* and edge_outbox.
LEMMA ReconcileType ==
    ASSUME DBTypeOK, NEW b \in Bucket, NEW objs, Reconcile(b, objs)
    PROVE  /\ expanded' \in [Obj -> BOOLEAN]
           /\ outbox' \in [Bucket -> SUBSET Entry]
           /\ nextSeq' \in [Bucket -> Nat]
<1>1. \A o \in Obj : ShouldExpand(o)' \in BOOLEAN
  BY DEF ShouldExpand
<1>2. expanded' \in [Obj -> BOOLEAN]
  BY <1>1 DEF DBTypeOK, Reconcile
<1>3. FlipEdges(b, objs) \subseteq Entry
  <2>1. \A op \in EdgeOp, c, p \in Obj :
           [seq |-> nextSeq[b], op |-> op, referee |-> c, referrer |-> p,
            ready |-> TRUE] \in Entry
    BY DEF DBTypeOK, Entry
  <2>2. \A q \in Obj \X Obj : q[1] \in Obj /\ q[2] \in Obj
    OBVIOUS
  <2> QED BY <2>1, <2>2 DEF FlipEdges, EdgeOp
<1>4. outbox' \in [Bucket -> SUBSET Entry]
  BY <1>3 DEF DBTypeOK, Reconcile
<1>5. nextSeq' \in [Bucket -> Nat]
  BY DEF DBTypeOK, Reconcile
<1> QED BY <1>2, <1>4, <1>5

USE DBAssumption

\* The actions of the database keep its types.
LEMMA PutType ==
    ASSUME DBTypeOK, NEW o \in Obj, PutObject(o)
    PROVE  DBTypeOK'
<1>1. CASE PutNew(o)
  BY <1>1 DEF PutNew, DBTypeOK, ItemState, rootVars, edgeVars, histVars
<1>2. CASE PutOverShadow(o)
  <2>1. UNCHANGED <<anchorCount, chunkItem, anchors, incoming, wiped, torn>>
    BY <1>2 DEF PutOverShadow, histVars
  <2>2. state' \in [Obj -> ItemState]
    BY <1>2 DEF PutOverShadow, DBTypeOK, ItemState
  <2>3. pins' \in [Obj -> [Owner -> PinRow]] /\ pending' \in [Obj -> SUBSET Slot]
    <3>1. \A r \in PinRow : [r EXCEPT !.cascade = "Materializing"] \in PinRow
      BY DEF PinRow, Cascade
    <3> QED BY <1>2, <3>1 DEF PutOverShadow, Promote, DBTypeOK
  <2> QED
    BY <1>2, <2>1, <2>2, <2>3, ReclassifyType, ReconcileType
    DEF PutOverShadow, DBTypeOK
<1> QED BY <1>1, <1>2 DEF PutObject

\* The puts of objects and chunk items keep the types.
LEMMA ContentType ==
    ASSUME DBTypeOK, ContentOp
    PROVE  DBTypeOK'
<1>1. ASSUME NEW c \in Chunk, NEW kind \in ChunkState, SetChunkItem(c, kind)
      PROVE  DBTypeOK'
  BY <1>1 DEF SetChunkItem, DBTypeOK, rowVars, rootVars, edgeVars, histVars
<1> QED BY <1>1, PutType DEF ContentOp

\* remove_object and remove_chunk keep the types.
LEMMA RemoveType ==
    ASSUME DBTypeOK, RemoveOp
    PROVE  DBTypeOK'
<1>1. ASSUME NEW o \in Obj, RemoveObject(o) PROVE DBTypeOK'
  BY <1>1 DEF RemoveObject, DBTypeOK, ItemState, rootVars, edgeVars
<1>2. ASSUME NEW c \in Chunk, RemoveChunk(c) PROVE DBTypeOK'
  BY <1>2 DEF RemoveChunk, DBTypeOK, ChunkState, rowVars, rootVars
<1> QED BY <1>1, <1>2 DEF RemoveOp

\* Deleting pins keeps the types.
LEMMA DropPinsType ==
    ASSUME DBTypeOK, NEW b \in Bucket, NEW gone, DropPins(b, gone)
    PROVE  DBTypeOK'
<1>1. pins' \in [Obj -> [Owner -> PinRow]]
  BY DEF DropPins, DBTypeOK, NoPin, PinRow, PinScope, PinLife, Cascade
<1>2. UNCHANGED <<state, anchorCount, chunkItem, anchors, pending, incoming,
                  wiped, torn>>
  BY DEF DropPins, histVars
<1> QED BY <1>1, <1>2, ReclassifyType, ReconcileType DEF DropPins, DBTypeOK

\* pin, unpin and unpin_owner keep the types.
LEMMA PinType ==
    ASSUME DBTypeOK, PinOp(Obj, PinScope, PinLife)
    PROVE  DBTypeOK'
<1>1. ASSUME NEW o \in Obj, NEW w \in Owner, NEW scope \in PinScope,
             NEW life \in PinLife, Pin(o, w, scope, life)
      PROVE  DBTypeOK'
  <2>1. pins' \in [Obj -> [Owner -> PinRow]]
    BY <1>1 DEF Pin, DBTypeOK, PinRow, Cascade
  <2>2. UNCHANGED <<anchorCount, chunkItem, anchors, pending, incoming, wiped,
                    torn>>
    BY <1>1 DEF Pin, histVars
  <2> QED
    BY <1>1, <2>1, <2>2, UpsertType, ReclassifyType, ReconcileType
    DEF Pin, DBTypeOK
<1>2. ASSUME NEW o \in Obj, NEW w \in Owner, Unpin(o, w) PROVE DBTypeOK'
  BY <1>2, DropPinsType DEF Unpin
<1>3. ASSUME NEW b \in Bucket, NEW w \in Owner, UnpinOwner(b, w) PROVE DBTypeOK'
  BY <1>3, DropPinsType DEF UnpinOwner
<1> QED BY <1>1, <1>2, <1>3 DEF PinOp

\* expire_pins keeps the types.
LEMMA ExpireType ==
    ASSUME DBTypeOK, NEW b \in Bucket, ExpirePins(b)
    PROVE  DBTypeOK'
BY DropPinsType DEF ExpirePins

\* The passing of expires_at keeps the types.
LEMMA ClockType ==
    ASSUME DBTypeOK, NEW o \in Obj, NEW w \in Owner, TtlElapses(o, w)
    PROVE  DBTypeOK'
<1>1. pins' \in [Obj -> [Owner -> PinRow]]
  <2>1. \A r \in PinRow : [r EXCEPT !.life = "expired"] \in PinRow
    BY DEF PinRow, PinLife
  <2> QED BY <2>1 DEF TtlElapses, DBTypeOK
<1> QED BY <1>1 DEF TtlElapses, DBTypeOK, rowVars, edgeVars, histVars

\* An object has finitely many anchors.
LEMMA SlotsFinite == IsFiniteSet(Slot) /\ \A S \in SUBSET Slot : IsFiniteSet(S)
BY FS_Product, FS_Subset DEF DBAssumption, Slot

\* Deleting anchors keeps fs_anchor_count a natural number.
LEMMA DropAnchorsType ==
    ASSUME DBTypeOK, NEW b \in Bucket, NEW objs, NEW gone,
           DropAnchors(b, objs, gone)
    PROVE  DBTypeOK'
<1>1. \A o \in Obj : Cardinality(anchors[o] \cap gone) \in Nat
  BY SlotsFinite, FS_CardinalityType DEF DBTypeOK
<1>2. anchorCount' \in [Obj -> Nat]
  <2>1. \A m, n \in Nat : Decrease(m, n) \in Nat
    BY DEF Decrease
  <2> QED BY <1>1, <2>1 DEF DropAnchors, DBTypeOK
<1>3. anchors' \in [Obj -> SUBSET Slot] /\ pending' \in [Obj -> SUBSET Slot]
  BY DEF DropAnchors, DBTypeOK
<1>4. UNCHANGED <<state, chunkItem, pins, incoming, wiped, torn>>
  BY DEF DropAnchors, histVars
<1> QED
  BY <1>2, <1>3, <1>4, ReclassifyType, ReconcileType DEF DropAnchors, DBTypeOK

\* fs_acquire, fs_release and fs_release_inode keep the types.
LEMMA AnchorType ==
    ASSUME DBTypeOK, AnchorOp(Obj)
    PROVE  DBTypeOK'
<1>1. ASSUME NEW o \in Obj, NEW slot \in Slot, FsAcquire(o, slot)
      PROVE  DBTypeOK'
  <2>1. /\ anchors' \in [Obj -> SUBSET Slot] /\ pending' \in [Obj -> SUBSET Slot]
        /\ anchorCount' \in [Obj -> Nat]
    BY <1>1 DEF FsAcquire, DBTypeOK
  <2>2. UNCHANGED <<chunkItem, pins, incoming, wiped, torn>>
    BY <1>1 DEF FsAcquire, histVars
  <2> QED
    BY <1>1, <2>1, <2>2, UpsertType, ReclassifyType, ReconcileType
    DEF FsAcquire, DBTypeOK
<1>2. ASSUME NEW o \in Obj, NEW slot \in Slot, FsRelease(o, slot)
      PROVE  DBTypeOK'
  BY <1>2, DropAnchorsType DEF FsRelease
<1>3. ASSUME NEW b \in Bucket, NEW i \in Inode, FsReleaseInode(b, i)
      PROVE  DBTypeOK'
  BY <1>3, DropAnchorsType DEF FsReleaseInode
<1> QED BY <1>1, <1>2, <1>3 DEF AnchorOp

\* apply_edge keeps the types.
LEMMA ApplyType ==
    ASSUME DBTypeOK, NEW e \in Entry, ApplyEdge(e)
    PROVE  DBTypeOK'
<1>1. e.referee \in Obj /\ e.referrer \in Obj
  BY DEF Entry
<1>2. incoming' \in SUBSET (Obj \X Obj)
  BY <1>1 DEF ApplyEdge, DBTypeOK, Pair
<1>3. UNCHANGED <<anchorCount, chunkItem, pins, anchors, pending, wiped, torn>>
  BY DEF ApplyEdge, rootVars, histVars
<1> QED
  BY <1>1, <1>2, <1>3, UpsertType, ReclassifyType, ReconcileType
  DEF ApplyEdge, DBTypeOK

\* try_evict_object keeps the types.
LEMMA EvictType ==
    ASSUME DBTypeOK, NEW o \in Obj, TryEvict(o)
    PROVE  DBTypeOK'
<1>1. CASE Protected(o)
  <2>1. Reclassify({o}) /\ UNCHANGED <<state, expanded, anchorCount, chunkItem,
                                       pins, anchors, pending, incoming, outbox,
                                       nextSeq, wiped, torn>>
    BY <1>1 DEF TryEvict, rootVars, edgeVars, histVars
  <2> QED BY <2>1, ReclassifyType DEF DBTypeOK
<1>2. CASE ~Protected(o)
  <2>1. /\ state' \in [Obj -> ItemState] /\ evictionClass' \in [Obj -> 0..2]
        /\ expanded' \in [Obj -> BOOLEAN] /\ anchorCount' \in [Obj -> Nat]
    <3>1. /\ state' = [state EXCEPT ![o] = "absent"]
          /\ evictionClass' = [evictionClass EXCEPT ![o] = 0]
          /\ expanded' = [expanded EXCEPT ![o] = FALSE]
          /\ anchorCount' = [anchorCount EXCEPT ![o] = 0]
      BY <1>2 DEF TryEvict
    <3> QED BY <3>1 DEF DBTypeOK, ItemState
  <2>2. chunkItem' \in [Chunk -> ChunkState] /\ torn' \in SUBSET Obj
    BY <1>2 DEF TryEvict, DBTypeOK, ChunkState
  <2>3. UNCHANGED <<pins, anchors, pending, incoming, outbox, nextSeq, wiped>>
    BY <1>2 DEF TryEvict, rootVars, edgeVars
  <2> QED BY <2>1, <2>2, <2>3 DEF DBTypeOK
<1> QED BY <1>1, <1>2

\* The outbox sender, the eviction round and a crash keep all types.
LEMMA SenderType ==
    ASSUME TypeOK, NEW b \in Bucket,
           SenderStep(b) \/ BackoffElapses(b) \/ Fault(b)
    PROVE  TypeOK'
<1> USE DEF TypeOK
<1>1. CASE Fetch(b)
  <2>1. UNCHANGED <<dbVars, cur, phase, candidates, overtaken>>
        /\ batch' \in [Bucket -> SUBSET Entry]
    BY <1>1 DEF Fetch, ReadyEntries, DBTypeOK
  <2> QED BY <2>1 DEF DBTypeOK, dbVars, rowVars, rootVars, edgeVars, histVars
<1>2. ASSUME NEW e \in batch[b], NEW result \in Phase, Take(b, e, result)
      PROVE  /\ e \in Entry
             /\ batch' \in [Bucket -> SUBSET Entry]
             /\ cur' \in [Bucket -> SUBSET Entry]
             /\ phase' \in [Bucket -> Phase]
             /\ candidates' \in [Bucket -> SUBSET Obj]
  BY <1>2 DEF Take
<1>3. ASSUME NEW e \in batch[b], NEW result \in Phase, Take(b, e, result),
             Arrive(b, e)
      PROVE  TypeOK'
  <2>1. DBTypeOK'
    BY <1>2, <1>3, ApplyType DEF Arrive
  <2>2. overtaken' \in SUBSET (Obj \X Obj)
    BY <1>2, <1>3 DEF Arrive, Pair, Entry
  <2> QED BY <1>2, <1>3, <2>1, <2>2
<1>4. CASE Deliver(b) \/ DeliverLostAck(b)
  BY <1>3, <1>4 DEF Deliver, DeliverLostAck, Phase
<1>5. CASE DeliverFail(b)
  <2>1. PICK e \in batch[b] : Take(b, e, "nacked") /\ UNCHANGED <<dbVars, overtaken>>
    BY <1>5 DEF DeliverFail
  <2>2. DBTypeOK'
    BY <2>1 DEF DBTypeOK, dbVars, rowVars, rootVars, edgeVars, histVars
  <2> QED BY <1>2, <2>1, <2>2 DEF Phase
<1>6. ASSUME SenderIdle(b)
      PROVE  phase' \in [Bucket -> Phase] /\ cur' \in [Bucket -> SUBSET Entry]
  BY <1>6 DEF SenderIdle, Phase
<1>7. \A e \in Entry, r \in BOOLEAN : [e EXCEPT !.ready = r] \in Entry
  BY DEF Entry
<1>8. CASE Complete(b)
  <2>1. outbox' \in [Bucket -> SUBSET Entry]
    BY <1>8 DEF Complete, DBTypeOK
  <2> QED
    BY <1>6, <1>8, <2>1 DEF Complete, DBTypeOK, rowVars, rootVars, histVars
<1>9. CASE Retry(b)
  <2>1. outbox' \in [Bucket -> SUBSET Entry]
    <3>1. {[e EXCEPT !.ready = FALSE] : e \in cur[b]} \subseteq Entry
      BY <1>7
    <3> QED BY <1>9, <3>1 DEF Retry, DBTypeOK
  <2> QED
    BY <1>6, <1>9, <2>1 DEF Retry, DBTypeOK, rowVars, rootVars, histVars
<1>10. CASE BookkeepingFails(b)
  BY <1>6, <1>10
  DEF BookkeepingFails, DBTypeOK, dbVars, rowVars, rootVars, edgeVars, histVars
<1>11. CASE BackoffElapses(b)
  <2>1. outbox' \in [Bucket -> SUBSET Entry]
    <3>1. PICK e \in outbox[b] :
             outbox' = [outbox EXCEPT ![b] =
                          (@ \ {e}) \cup {[e EXCEPT !.ready = TRUE]}]
      BY <1>11 DEF BackoffElapses
    <3>2. [e EXCEPT !.ready = TRUE] \in Entry
      BY <1>7 DEF DBTypeOK
    <3> QED BY <3>1, <3>2 DEF DBTypeOK
  <2> QED
    BY <1>11, <2>1
    DEF BackoffElapses, DBTypeOK, rowVars, rootVars, histVars, gcVars
<1>12. CASE Crash(b)
  <2>1. batch' \in [Bucket -> SUBSET Entry] /\ candidates' \in [Bucket -> SUBSET Obj]
    BY <1>12 DEF Crash
  <2> QED
    BY <1>6, <1>12, <2>1
    DEF Crash, DBTypeOK, dbVars, rowVars, rootVars, edgeVars, histVars
<1> QED
  BY <1>1, <1>4, <1>5, <1>8, <1>9, <1>10, <1>11, <1>12 DEF SenderStep, Fault

\* The steps of gc_round keep the types.
LEMMA GcType ==
    ASSUME TypeOK, NEW b \in Bucket, GcStep(b)
    PROVE  TypeOK'
<1>1. CASE GcList(b) \/ GcStop(b)
  <2>1. UNCHANGED <<dbVars, batch, cur, phase, overtaken>>
        /\ candidates' \in [Bucket -> SUBSET Obj]
    BY <1>1 DEF GcList, GcStop, TypeOK, HomeOf
  <2> QED
    BY <2>1 DEF TypeOK, DBTypeOK, dbVars, rowVars, rootVars, edgeVars, histVars
<1>2. CASE GcEvict(b)
  BY <1>2, EvictType DEF GcEvict, TypeOK
<1> QED BY <1>1, <1>2 DEF GcStep

\* Every step of the store keeps the types.
LEMMA NextType ==
    ASSUME TypeOK, [Next]_vars
    PROVE  TypeOK'
<1>1. CASE ClientOp
  BY <1>1, ContentType, RemoveType, PinType, AnchorType DEF ClientOp, TypeOK, gcVars
<1>2. CASE Clock
  BY <1>2, ClockType DEF Clock, TypeOK, gcVars
<1>3. ASSUME NEW b \in Bucket, Expire(b) PROVE TypeOK'
  BY <1>3, ExpireType DEF Expire, TypeOK, gcVars
<1>4. CASE UNCHANGED vars
  BY <1>4
  DEF TypeOK, DBTypeOK, vars, dbVars, rowVars, rootVars, edgeVars, histVars, gcVars
<1> QED BY <1>1, <1>2, <1>3, <1>4, SenderType, GcType DEF Next

\* Every column, table and process keeps its type in every behaviour: the
\* anchor counter stays a natural number, the class is 0, 1 or 2, and every
\* outbox row names objects.
THEOREM TypeCorrect == Spec => []TypeOK
<1>1. Init => TypeOK
  BY DEF Init, DBInit, EmptyTables, IdleProcesses, TypeOK, DBTypeOK, ItemState,
         ChunkState, PinRow, NoPin, PinScope, PinLife, Cascade, Phase
<1>2. TypeOK /\ [Next]_vars => TypeOK'
  BY NextType
<1> QED BY <1>1, <1>2, PTL DEF Spec

-----------------------------------------------------------------------------
(* The edge ledger: EdgeLedger is proved through the inductive invariant    *)
(* LedgerInv.                                                               *)

USE DBAssumption

-----------------------------------------------------------------------------
(* What reconcile_expand_state_tx does to the outbox *)

\* The columns the ledger is about, when a transaction reconciles objs.
Reconciles(b, objs) ==
    /\ objs \subseteq HomeOf(b)
    /\ Reconcile(b, objs)
    /\ \A o \in Obj : state[o] = "present" => state'[o] = "present"
    /\ \A o \in Chunk : state'[o] # "present"

\* e is the row that the flip of its referrer filed.
NewRow(b, objs, e) ==
    /\ e.seq = nextSeq[b] /\ nextSeq'[b] = nextSeq[b] + 1
    /\ e.referrer \in objs /\ e.referee \in Child[e.referrer]
    /\ expanded'[e.referrer] # expanded[e.referrer]
    /\ e.op = "add" <=> expanded'[e.referrer]
    /\ e.ready

\* reconcile_expand_state_tx leaves a row expanded only if it is stored.
LEMMA ReconcileStored ==
    ASSUME DBTypeOK, ExpandedStored, NEW b \in Bucket, NEW objs,
           Reconciles(b, objs)
    PROVE  ExpandedStored'
BY DEF ExpandedStored, Reconciles, Reconcile, ShouldExpand, DBTypeOK

\* A flipped object is stored, so parse_obj_refs_tx sees all its references.
LEMMA FlippedRefs ==
    ASSUME DBTypeOK, ExpandedStored, NEW b \in Bucket, NEW objs,
           Reconciles(b, objs), NEW p \in objs, expanded'[p] # expanded[p]
    PROVE  ObjRefs(p)' = Child[p]
<1>1. p \in Obj
  BY DEF Reconciles, HomeOf
<1>2. state'[p] = "present"
  BY <1>1 DEF ExpandedStored, Reconciles, Reconcile, ShouldExpand, DBTypeOK
<1> QED BY <1>1, <1>2 DEF ObjRefs, Reconciles

\* Every row that a reconciliation adds is the row of a flip.
LEMMA ReconcileAdds ==
    ASSUME DBTypeOK, ExpandedStored, NEW b \in Bucket, NEW objs,
           Reconciles(b, objs),
           NEW k \in Bucket, NEW e \in outbox'[k], e \notin outbox[k]
    PROVE  k = b /\ NewRow(b, objs, e)
<1>1. k = b /\ e \in FlipEdges(b, objs)
  BY DEF Reconciles, Reconcile, DBTypeOK
<1>2. PICK q \in Obj \X Obj :
         /\ q[2] \in objs
         /\ expanded'[q[2]] # expanded[q[2]]
         /\ q[1] \in ObjRefs(q[2])'
         /\ e = [seq |-> nextSeq[b],
                 op |-> IF expanded'[q[2]] THEN "add" ELSE "remove",
                 referee |-> q[1], referrer |-> q[2], ready |-> TRUE]
  BY <1>1 DEF FlipEdges
<1>3. q[1] \in Child[q[2]]
  BY <1>2, FlippedRefs
<1>4. nextSeq'[b] = nextSeq[b] + 1
  BY <1>1 DEF Reconciles, Reconcile, DBTypeOK
<1> QED BY <1>1, <1>2, <1>3, <1>4 DEF NewRow

\* Every flip adds a row for every reference.
LEMMA FlipFiles ==
    ASSUME DBTypeOK, ExpandedStored, NEW b \in Bucket, NEW objs,
           Reconciles(b, objs), NEW p \in objs, NEW c \in Child[p],
           expanded'[p] # expanded[p]
    PROVE  \E e \in outbox'[b] : Pair(e) = <<c, p>> /\ NewRow(b, objs, e)
<1>1. p \in Obj /\ c \in Obj
  BY DEF Reconciles, HomeOf
<1> DEFINE e == [seq |-> nextSeq[b],
                 op |-> IF expanded'[p] THEN "add" ELSE "remove",
                 referee |-> c, referrer |-> p, ready |-> TRUE]
<1>2. e \in FlipEdges(b, objs)
  <2> DEFINE flips == {q \in Obj \X Obj : /\ q[2] \in objs
                                         /\ expanded'[q[2]] # expanded[q[2]]
                                         /\ q[1] \in ObjRefs(q[2])'}
  <2>1. PICK q : q = <<c, p>>
    OBVIOUS
  <2>2. q \in Obj \X Obj /\ q[1] = c /\ q[2] = p
    BY <1>1, <2>1
  <2>3. q \in flips
    BY <2>2, FlippedRefs
  <2>4. e = [seq |-> nextSeq[b],
             op |-> IF expanded'[q[2]] THEN "add" ELSE "remove",
             referee |-> q[1], referrer |-> q[2], ready |-> TRUE]
    BY <2>2
  <2> HIDE DEF e
  <2> QED BY <2>3, <2>4 DEF FlipEdges
<1>3. e \in outbox'[b] /\ nextSeq'[b] = nextSeq[b] + 1
  BY <1>2 DEF Reconciles, Reconcile, DBTypeOK
<1>4. Pair(e) = <<c, p>> /\ NewRow(b, objs, e)
  BY <1>3 DEF Pair, NewRow
<1> QED BY <1>3, <1>4

\* Reconciliation keeps every row and the columns of other objects.
LEMMA ReconcileKeeps ==
    ASSUME DBTypeOK, NEW b \in Bucket, NEW objs, Reconciles(b, objs)
    PROVE  /\ \A k \in Bucket : outbox[k] \subseteq outbox'[k]
           /\ \A k \in Bucket : nextSeq'[k] >= nextSeq[k]
           /\ \A p \in Obj \ objs : expanded'[p] = expanded[p]
BY DEF DBTypeOK, Reconciles, Reconcile

\* reconcile_expand_state_tx adds only well-formed rows to the outbox and
\* expands only stored objects.
LEMMA ReconcileWellFormed ==
    ASSUME DBTypeOK, DBTypeOK', ExpandedStored, OutboxWellFormed,
           NEW b \in Bucket, NEW objs, Reconciles(b, objs)
    PROVE  OutboxWellFormed'
<1> SUFFICES ASSUME NEW k \in Bucket, NEW e \in outbox'[k]
             PROVE  /\ Home[e.referrer] = k /\ e.referee \in Child[e.referrer]
                    /\ e.seq < nextSeq'[k]
                    /\ \A x \in outbox'[k] :
                          Pair(x) = Pair(e) /\ x.seq = e.seq => x = e
  BY DEF OutboxWellFormed
<1>1. \A x \in outbox'[k] : x \in outbox[k] \/ (k = b /\ NewRow(b, objs, x))
  BY ReconcileAdds
<1>2. \A x \in outbox'[k] : x \in Entry
  BY DEF DBTypeOK
<1>3. nextSeq[k] \in Nat /\ nextSeq'[k] \in Nat /\ nextSeq'[k] >= nextSeq[k]
  BY ReconcileKeeps DEF DBTypeOK
<1>4. \A x \in outbox[k] : x.seq < nextSeq[k] /\ x.seq \in Nat
  BY DEF OutboxWellFormed, DBTypeOK, Entry
<1>5. CASE e \in outbox[k]
  <2>1. /\ Home[e.referrer] = k /\ e.referee \in Child[e.referrer]
        /\ e.seq < nextSeq'[k]
    BY <1>3, <1>4, <1>5 DEF OutboxWellFormed
  <2>2. ASSUME NEW x \in outbox'[k], Pair(x) = Pair(e), x.seq = e.seq
        PROVE  x = e
    <3>1. x \in outbox[k]
      BY <1>1, <1>3, <1>4, <1>5, <2>2 DEF NewRow
    <3> QED BY <1>5, <2>2, <3>1 DEF OutboxWellFormed
  <2> QED BY <2>1, <2>2
<1>6. CASE k = b /\ NewRow(b, objs, e)
  <2>1. /\ Home[e.referrer] = k /\ e.referee \in Child[e.referrer]
        /\ e.seq < nextSeq'[k]
    BY <1>3, <1>6 DEF NewRow, Reconciles, HomeOf
  <2>2. ASSUME NEW x \in outbox'[k], Pair(x) = Pair(e), x.seq = e.seq
        PROVE  x = e
    <3>1. NewRow(b, objs, x)
      BY <1>1, <1>3, <1>4, <1>6, <2>2 DEF NewRow
    <3>2. x.referrer = e.referrer /\ x.referee = e.referee
      BY <2>2 DEF Pair
    <3>3. x.op = e.op
      BY <1>2, <1>6, <3>1, <3>2, <2>2 DEF NewRow, Entry, EdgeOp
    <3>4. x.ready = e.ready
      BY <1>2, <1>6, <3>1, <2>2 DEF NewRow, Entry
    <3> QED BY <1>2, <2>2, <3>2, <3>3, <3>4 DEF Entry
  <2> QED BY <2>1, <2>2
<1> QED BY <1>1, <1>5, <1>6

\* The ledger survives a reconciliation, as long as the edges at the children
\* change only for pairs that still have a row in the outbox.
LEMMA ReconcileLedger ==
    ASSUME DBTypeOK, DBTypeOK', ExpandedStored, OutboxWellFormed, EdgeLedger,
           NEW b \in Bucket, NEW objs, Reconciles(b, objs),
           wiped' = wiped, torn' = torn, overtaken \subseteq overtaken',
           \A c, p \in Obj : PendingFor(c, p) = {} =>
               (<<c, p>> \in incoming' <=> <<c, p>> \in incoming)
    PROVE  EdgeLedger'
<1> SUFFICES ASSUME NEW c \in Obj, NEW p \in Obj, Intact(c, p)', c \in Child[p]
             PROVE  IF PendingFor(c, p)' = {}
                    THEN <<c, p>> \in incoming' <=> expanded'[p]
                    ELSE \A e \in PendingFor(c, p)' :
                            (\A x \in PendingFor(c, p)' : x.seq <= e.seq)
                                => (e.op = "add" <=> expanded'[p])
  BY DEF EdgeLedger
<1>1. Intact(c, p)
  BY DEF Intact
<1>2. PendingFor(c, p) \subseteq PendingFor(c, p)'
  BY ReconcileKeeps DEF PendingFor
<1>3. \A e \in PendingFor(c, p)' :
         e \in PendingFor(c, p) \/ (Home[p] = b /\ NewRow(b, objs, e))
  BY ReconcileAdds DEF PendingFor
<1>4. \A e \in PendingFor(c, p)' : e.referrer = p
  BY DEF PendingFor, Pair
<1>5. CASE expanded'[p] = expanded[p]
  <2>1. PendingFor(c, p)' = PendingFor(c, p)
    BY <1>2, <1>3, <1>4, <1>5 DEF NewRow
  <2> QED BY <1>1, <1>5, <2>1 DEF EdgeLedger
<1>6. CASE expanded'[p] # expanded[p]
  <2>1. p \in objs /\ Home[p] = b
    BY <1>6, ReconcileKeeps DEF Reconciles, HomeOf
  <2>2. PICK new \in PendingFor(c, p)' : NewRow(b, objs, new)
    BY <1>6, <2>1, FlipFiles DEF PendingFor
  <2>3. ASSUME NEW e \in PendingFor(c, p)',
               \A x \in PendingFor(c, p)' : x.seq <= e.seq
        PROVE  e.op = "add" <=> expanded'[p]
    <3>1. nextSeq[b] <= e.seq
      BY <2>2, <2>3 DEF NewRow
    <3>2. e \in outbox[b] => e.seq < nextSeq[b] /\ e.seq \in Nat /\ nextSeq[b] \in Nat
      BY DEF OutboxWellFormed, DBTypeOK, Entry
    <3>3. e \notin outbox[b]
      BY <3>1, <3>2
    <3>4. NewRow(b, objs, e)
      BY <1>3, <2>1, <2>3, <3>3 DEF PendingFor
    <3> QED BY <1>4, <2>3, <3>4 DEF NewRow
  <2> QED BY <2>2, <2>3
<1> QED BY <1>5, <1>6

-----------------------------------------------------------------------------
(* The transactions of clients *)

\* A transaction that reconciles and leaves edges and processes alone.
LEMMA ClientReconciles ==
    ASSUME TypeOK, TypeOK', LedgerInv, NEW b \in Bucket, NEW objs,
           Reconciles(b, objs), UNCHANGED <<incoming, wiped, torn, gcVars>>
    PROVE  LedgerInv'
<1> USE DEF TypeOK, gcVars
<1>1. ExpandedStored' /\ OutboxWellFormed'
  BY ReconcileStored, ReconcileWellFormed DEF LedgerInv
<1>2. EdgeLedger'
  BY ReconcileLedger DEF LedgerInv
<1>3. \A k \in Bucket : ReadyEntries(k) \subseteq ReadyEntries(k)'
  BY ReconcileKeeps DEF ReadyEntries
<1>4. SenderHoldsRows'
  BY <1>3 DEF LedgerInv, SenderHoldsRows
<1>5. ASSUME NEW k \in Bucket, NEW e \in cur[k], phase[k] = "acked",
             Intact(e.referee, e.referrer)
      PROVE  /\ Pair(e) \in incoming <=> e.op = "add"
             /\ \A x \in outbox'[k] : Pair(x) = Pair(e) => e.seq <= x.seq
  <2>1. e \in outbox[k]
    BY DEF LedgerInv, SenderHoldsRows, ReadyEntries
  <2>2. e.seq < nextSeq[k] /\ e.seq \in Nat /\ nextSeq[k] \in Nat
    BY <2>1 DEF LedgerInv, OutboxWellFormed, DBTypeOK, Entry
  <2>3. \A x \in outbox'[k] : x \notin outbox[k] => x.seq = nextSeq[k]
    BY ReconcileAdds DEF LedgerInv, NewRow
  <2>4. \A x \in outbox[k] : Pair(x) = Pair(e) => e.seq <= x.seq
    BY <1>5 DEF LedgerInv, AckedInEffect
  <2>5. Pair(e) \in incoming <=> e.op = "add"
    BY <1>5 DEF LedgerInv, AckedInEffect
  <2> QED BY <2>2, <2>3, <2>4, <2>5
<1>6. AckedInEffect'
  BY <1>5 DEF AckedInEffect, Intact
<1> QED BY <1>1, <1>2, <1>4, <1>6 DEF LedgerInv

\* A step that leaves everything the ledger mentions alone.
LEMMA LedgerUntouched ==
    ASSUME LedgerInv,
           UNCHANGED <<expanded, incoming, outbox, nextSeq, wiped, torn, batch,
                       cur, phase, overtaken>>,
           \A o \in Obj : state[o] = "present" => state'[o] = "present",
           \A o \in Chunk : state'[o] # "present"
    PROVE  LedgerInv'
BY DEF LedgerInv, ExpandedStored, OutboxWellFormed, SenderHoldsRows, ReadyEntries,
       AckedInEffect, EdgeLedger, PendingFor, Intact

\* A shadow row neither expands nor un-stores anything.
LEMMA UpsertKeeps ==
    ASSUME DBTypeOK, ExpandedStored, NEW o \in Obj, UpsertShadow(o)
    PROVE  /\ \A x \in Obj : state[x] = "present" => state'[x] = "present"
           /\ \A x \in Chunk : state'[x] # "present"
BY DEF DBTypeOK, ExpandedStored, UpsertShadow

\* set_object, put_object and the chunk item calls keep the ledger.
LEMMA ContentLedger ==
    ASSUME TypeOK, TypeOK', LedgerInv, ContentOp, UNCHANGED gcVars
    PROVE  LedgerInv'
<1>1. ASSUME NEW o \in Obj, PutNew(o) PROVE LedgerInv'
  <2>1. /\ \A x \in Obj : state[x] = "present" => state'[x] = "present"
        /\ \A x \in Chunk : state'[x] # "present"
    BY <1>1 DEF PutNew, TypeOK, DBTypeOK, LedgerInv, ExpandedStored
  <2> QED
    BY <1>1, <2>1, LedgerUntouched DEF PutNew, edgeVars, histVars, gcVars
<1>2. ASSUME NEW o \in Obj, PutOverShadow(o) PROVE LedgerInv'
  <2>1. /\ \A x \in Obj : state[x] = "present" => state'[x] = "present"
        /\ \A x \in Chunk : state'[x] # "present"
    BY <1>2 DEF PutOverShadow, TypeOK, DBTypeOK, LedgerInv, ExpandedStored
  <2>2. Reconciles(Home[o], {o})
    BY <1>2, <2>1 DEF PutOverShadow, Reconciles, HomeOf
  <2> QED BY <1>2, <2>2, ClientReconciles DEF PutOverShadow, histVars
<1>3. ASSUME NEW c \in Chunk, NEW kind, SetChunkItem(c, kind) PROVE LedgerInv'
  <2>1. state' = state
    BY <1>3 DEF SetChunkItem, rowVars
  <2> QED
    BY <1>3, <2>1, LedgerUntouched
    DEF SetChunkItem, rowVars, edgeVars, histVars, gcVars, LedgerInv, ExpandedStored
<1> QED BY <1>1, <1>2, <1>3 DEF ContentOp, PutObject

\* Deleting pins and reconciling their objects keeps the ledger.
LEMMA DropPinsLedger ==
    ASSUME TypeOK, TypeOK', LedgerInv, NEW b \in Bucket,
           NEW gone \in SUBSET (HomeOf(b) \X Owner), DropPins(b, gone),
           UNCHANGED gcVars
    PROVE  LedgerInv'
<1> DEFINE objs == {q[1] : q \in gone}
<1>1. objs \subseteq HomeOf(b)
  OBVIOUS
<1>2. Reconciles(b, objs)
  BY <1>1 DEF DropPins, Reconciles, LedgerInv, ExpandedStored
<1> QED BY <1>2, ClientReconciles DEF DropPins, histVars

\* pin, unpin and unpin_owner keep the ledger.
LEMMA PinLedger ==
    ASSUME TypeOK, TypeOK', LedgerInv, PinOp(Obj, PinScope, PinLife),
           UNCHANGED gcVars
    PROVE  LedgerInv'
<1>1. ASSUME NEW o \in Obj, NEW w \in Owner, NEW scope \in PinScope,
             NEW life \in PinLife, Pin(o, w, scope, life)
      PROVE  LedgerInv'
  <2>1. Reconciles(Home[o], {o})
    BY <1>1, UpsertKeeps DEF Pin, Reconciles, HomeOf, TypeOK, LedgerInv
  <2> QED BY <1>1, <2>1, ClientReconciles DEF Pin, histVars
<1>2. ASSUME NEW o \in Obj, NEW w \in Owner, Unpin(o, w) PROVE LedgerInv'
  BY <1>2, DropPinsLedger DEF Unpin, HomeOf
<1>3. ASSUME NEW b \in Bucket, NEW w \in Owner, UnpinOwner(b, w) PROVE LedgerInv'
  BY <1>3, DropPinsLedger DEF UnpinOwner
<1> QED BY <1>1, <1>2, <1>3 DEF PinOp

\* Deleting anchors and reconciling their objects keeps the ledger.
LEMMA DropAnchorsLedger ==
    ASSUME TypeOK, TypeOK', LedgerInv, NEW b \in Bucket,
           NEW objs \in SUBSET HomeOf(b), NEW gone, DropAnchors(b, objs, gone),
           UNCHANGED gcVars
    PROVE  LedgerInv'
<1>1. Reconciles(b, objs)
  BY DEF DropAnchors, Reconciles, LedgerInv, ExpandedStored
<1> QED BY <1>1, ClientReconciles DEF DropAnchors, histVars

\* fs_acquire, fs_release and fs_release_inode keep the ledger.
LEMMA AnchorLedger ==
    ASSUME TypeOK, TypeOK', LedgerInv, AnchorOp(Obj), UNCHANGED gcVars
    PROVE  LedgerInv'
<1>1. ASSUME NEW o \in Obj, NEW slot \in Slot, FsAcquire(o, slot)
      PROVE  LedgerInv'
  <2>1. Reconciles(Home[o], {o})
    BY <1>1, UpsertKeeps DEF FsAcquire, Reconciles, HomeOf, TypeOK, LedgerInv
  <2> QED BY <1>1, <2>1, ClientReconciles DEF FsAcquire, histVars
<1>2. ASSUME NEW o \in Obj, NEW slot \in Slot, FsRelease(o, slot)
      PROVE  LedgerInv'
  BY <1>2, DropAnchorsLedger DEF FsRelease, HomeOf
<1>3. ASSUME NEW b \in Bucket, NEW i \in Inode, FsReleaseInode(b, i)
      PROVE  LedgerInv'
  BY <1>3, DropAnchorsLedger DEF FsReleaseInode
<1> QED BY <1>1, <1>2, <1>3 DEF AnchorOp

-----------------------------------------------------------------------------
(* Deletions of rows *)

\* A row may go if its object was removed explicitly, if it was not expanded,
\* or if the step records it as torn.
LEMMA RowDeleted ==
    ASSUME TypeOK, LedgerInv, NEW o \in Obj,
           state' = [state EXCEPT ![o] = "absent"],
           expanded' = [expanded EXCEPT ![o] = FALSE],
           wiped \subseteq wiped', torn \subseteq torn',
           expanded[o] => o \in wiped' \cup torn',
           UNCHANGED <<incoming, outbox, nextSeq, batch, cur, phase, overtaken>>
    PROVE  LedgerInv'
<1>1. \A p \in Obj : p \in wiped' \cup torn' \/ expanded'[p] = expanded[p]
  BY DEF TypeOK, DBTypeOK
<1>2. \A c, p \in Obj : Intact(c, p)' => Intact(c, p) /\ expanded'[p] = expanded[p]
  BY <1>1 DEF Intact
<1>3. \A c, p : Intact(c, p)' => Intact(c, p)
  BY DEF Intact
<1>4. ExpandedStored'
  BY DEF LedgerInv, ExpandedStored, TypeOK, DBTypeOK
<1>5. OutboxWellFormed' /\ SenderHoldsRows'
  BY DEF LedgerInv, OutboxWellFormed, SenderHoldsRows, ReadyEntries
<1>6. AckedInEffect'
  BY <1>3 DEF LedgerInv, AckedInEffect
<1>7. EdgeLedger'
  BY <1>2 DEF LedgerInv, EdgeLedger, PendingFor
<1> QED BY <1>4, <1>5, <1>6, <1>7 DEF LedgerInv

\* remove_object and remove_chunk wipe their object, which the ledger then
\* leaves out.
LEMMA RemoveLedger ==
    ASSUME TypeOK, TypeOK', LedgerInv, RemoveOp, UNCHANGED gcVars
    PROVE  LedgerInv'
<1>1. ASSUME NEW o \in Obj, RemoveObject(o) PROVE LedgerInv'
  BY <1>1, RowDeleted DEF RemoveObject, edgeVars, gcVars
<1>2. ASSUME NEW c \in Chunk, RemoveChunk(c) PROVE LedgerInv'
  <2>1. UNCHANGED <<state, expanded, outbox, nextSeq, torn, batch, cur, phase,
                    overtaken>>
    BY <1>2 DEF RemoveChunk, rowVars, gcVars
  <2>2. \A x, p : Intact(x, p)' =>
           Intact(x, p) /\ (<<x, p>> \in incoming' <=> <<x, p>> \in incoming)
    BY <1>2, <2>1 DEF RemoveChunk, Intact
  <2>3. ExpandedStored' /\ OutboxWellFormed' /\ SenderHoldsRows'
    BY <2>1
    DEF LedgerInv, ExpandedStored, OutboxWellFormed, SenderHoldsRows, ReadyEntries
  <2>4. AckedInEffect'
    BY <2>1, <2>2 DEF LedgerInv, AckedInEffect, Pair
  <2>5. EdgeLedger'
    BY <2>1, <2>2 DEF LedgerInv, EdgeLedger, PendingFor
  <2> QED BY <2>3, <2>4, <2>5 DEF LedgerInv
<1> QED BY <1>1, <1>2 DEF RemoveOp

\* The steps of gc_round keep the ledger: an eviction deletes only rows
\* that nothing holds.
LEMMA GcLedger ==
    ASSUME TypeOK, TypeOK', LedgerInv, NEW b \in Bucket, GcStep(b)
    PROVE  LedgerInv'
<1>1. CASE GcList(b) \/ GcStop(b)
  <2>1. UNCHANGED <<dbVars, batch, cur, phase, overtaken>>
    BY <1>1 DEF GcList, GcStop
  <2> QED
    BY <2>1, LedgerUntouched
    DEF dbVars, rowVars, edgeVars, histVars, LedgerInv, ExpandedStored
<1>2. CASE GcEvict(b)
  <2>1. PICK o \in candidates[b] : TryEvict(o)
    BY <1>2 DEF GcEvict
  <2>2. o \in Obj /\ UNCHANGED <<batch, cur, phase, overtaken>>
    BY <1>2, <2>1 DEF GcEvict, TypeOK
  <2>3. CASE Protected(o)
    <3>1. UNCHANGED <<state, expanded, incoming, outbox, nextSeq, wiped, torn>>
      BY <2>1, <2>3 DEF TryEvict, edgeVars, histVars
    <3> QED BY <2>2, <3>1, LedgerUntouched DEF LedgerInv, ExpandedStored
  <2>4. CASE ~Protected(o)
    <3>1. /\ state' = [state EXCEPT ![o] = "absent"]
          /\ expanded' = [expanded EXCEPT ![o] = FALSE]
          /\ torn' = IF expanded[o] THEN torn \cup {o} ELSE torn
          /\ UNCHANGED <<incoming, outbox, nextSeq, wiped>>
      BY <2>1, <2>4 DEF TryEvict, edgeVars
    <3> QED BY <2>2, <3>1, RowDeleted
  <2> QED BY <2>3, <2>4
<1> QED BY <1>1, <1>2 DEF GcStep

-----------------------------------------------------------------------------
(* The outbox sender *)

\* An edge is applied at the child while its row stays in the outbox.
LEMMA ArriveLedger ==
    ASSUME TypeOK, TypeOK', LedgerInv, NEW b \in Bucket, NEW e \in batch[b],
           NEW result \in {"acked", "nacked"}, Take(b, e, result), Arrive(b, e)
    PROVE  LedgerInv'
<1>1. e \in Entry /\ e \in outbox[b] /\ e.ready /\ Home[e.referrer] = b
  BY DEF TypeOK, LedgerInv, SenderHoldsRows, OutboxWellFormed, ReadyEntries
<1>2. /\ e.referee \in Obj /\ e.referrer \in Obj
      /\ e.seq \in Nat /\ e.op \in EdgeOp
  BY <1>1 DEF Entry
<1> DEFINE h == Home[e.referee]
<1>3. h \in Bucket
  BY <1>2
<1>4. Reconciles(h, {e.referee})
  BY <1>2, UpsertKeeps DEF Arrive, ApplyEdge, Reconciles, HomeOf, TypeOK, LedgerInv
<1>5. wiped' = wiped /\ torn' = torn /\ overtaken \subseteq overtaken'
  BY DEF Arrive, ApplyEdge, histVars
<1>6. \A q : q # Pair(e) => (q \in incoming' <=> q \in incoming)
  BY DEF Arrive, ApplyEdge
<1>7. ExpandedStored' /\ OutboxWellFormed'
  BY <1>3, <1>4, ReconcileStored, ReconcileWellFormed DEF LedgerInv, TypeOK
<1>8. EdgeLedger'
  <2>1. \A c, p \in Obj : PendingFor(c, p) = {} =>
           (<<c, p>> \in incoming' <=> <<c, p>> \in incoming)
    BY <1>1, <1>6 DEF PendingFor, Pair
  <2> QED BY <1>3, <1>4, <1>5, <2>1, ReconcileLedger DEF LedgerInv, TypeOK
<1>9. /\ batch' = [batch EXCEPT ![b] = @ \ {e}]
      /\ cur' = [cur EXCEPT ![b] = {e}]
      /\ phase' = [phase EXCEPT ![b] = result]
  BY DEF Take
<1>10. SenderHoldsRows'
  <2>1. \A k \in Bucket : ReadyEntries(k) \subseteq ReadyEntries(k)'
    BY <1>3, <1>4, ReconcileKeeps DEF ReadyEntries, TypeOK
  <2>2. e \in ReadyEntries(b)
    BY <1>1 DEF ReadyEntries
  <2> QED BY <1>9, <2>1, <2>2 DEF LedgerInv, SenderHoldsRows, TypeOK
<1>11. \A k \in Bucket : \A x \in outbox'[k] :
          x \notin outbox[k] => x.seq = nextSeq[k]
  BY <1>3, <1>4, ReconcileAdds DEF LedgerInv, NewRow, TypeOK
<1>12. \A k \in Bucket : \A x \in outbox[k] :
          x.seq < nextSeq[k] /\ x.seq \in Nat /\ nextSeq[k] \in Nat
  BY DEF LedgerInv, OutboxWellFormed, TypeOK, DBTypeOK, Entry
<1>13. ASSUME NEW k \in Bucket, NEW y \in cur'[k], phase'[k] = "acked",
              Intact(y.referee, y.referrer)'
       PROVE  /\ Pair(y) \in incoming' <=> y.op = "add"
              /\ \A x \in outbox'[k] : Pair(x) = Pair(y) => y.seq <= x.seq
  <2>1. CASE k = b
    <3>1. y = e
      BY <1>9, <1>13, <2>1 DEF TypeOK
    <3>2. Pair(e) \in incoming' <=> e.op = "add"
      BY <1>2 DEF Arrive, ApplyEdge, EdgeOp
    <3>3. Pair(e) \notin overtaken'
      BY <1>13, <3>1 DEF Intact, Pair
    <3>4. \A x \in outbox[b] : Pair(x) = Pair(e) => ~(x.seq < e.seq)
      BY <3>3 DEF Arrive
    <3> QED BY <1>1, <1>2, <1>11, <1>12, <2>1, <3>1, <3>2, <3>4
  <2>2. CASE k # b
    <3>1. y \in cur[k] /\ phase[k] = "acked"
      BY <1>9, <1>13, <2>2 DEF TypeOK
    <3>2. y \in outbox[k] /\ Home[y.referrer] = k
      BY <3>1 DEF LedgerInv, SenderHoldsRows, OutboxWellFormed, ReadyEntries
    <3>3. Pair(y) # Pair(e)
      BY <1>1, <2>2, <3>2 DEF Pair
    <3>4. Intact(y.referee, y.referrer)
      BY <1>5, <1>13 DEF Intact
    <3>5. /\ Pair(y) \in incoming <=> y.op = "add"
          /\ \A x \in outbox[k] : Pair(x) = Pair(y) => y.seq <= x.seq
      BY <3>1, <3>4 DEF LedgerInv, AckedInEffect
    <3> QED BY <1>6, <1>11, <1>12, <3>2, <3>3, <3>5
  <2> QED BY <2>1, <2>2
<1>14. AckedInEffect'
  BY <1>13 DEF AckedInEffect
<1> QED BY <1>7, <1>8, <1>10, <1>14 DEF LedgerInv

\* complete_outbox_entry: the acknowledged entry is the oldest of its pair.
LEMMA CompleteLedger ==
    ASSUME TypeOK, TypeOK', LedgerInv, NEW b \in Bucket, Complete(b)
    PROVE  LedgerInv'
<1>1. PICK e \in cur[b] : cur[b] = {e}
  BY DEF Complete, LedgerInv, SenderHoldsRows
<1>2. e \in outbox[b] /\ e \in Entry /\ Home[e.referrer] = b /\ e \notin batch[b]
  BY DEF TypeOK, LedgerInv, SenderHoldsRows, OutboxWellFormed, ReadyEntries
<1>3. /\ outbox' = [outbox EXCEPT ![b] = @ \ {e}]
      /\ phase' = [phase EXCEPT ![b] = "idle"] /\ cur' = [cur EXCEPT ![b] = {}]
      /\ UNCHANGED <<state, expanded, incoming, nextSeq, wiped, torn, batch,
                     overtaken>>
  BY <1>1 DEF Complete, SenderIdle, rowVars, histVars
<1>4. \A k \in Bucket : outbox'[k] = IF k = b THEN outbox[b] \ {e} ELSE outbox[k]
  BY <1>3 DEF TypeOK, DBTypeOK
<1>5. \A k \in Bucket : outbox'[k] \subseteq outbox[k]
  BY <1>4
<1>6. \A k \in Bucket : /\ phase'[k] = IF k = b THEN "idle" ELSE phase[k]
                        /\ cur'[k] = IF k = b THEN {} ELSE cur[k]
  BY <1>3 DEF TypeOK
<1>7. ExpandedStored' /\ OutboxWellFormed'
  BY <1>3, <1>5 DEF LedgerInv, ExpandedStored, OutboxWellFormed
<1>8. SenderHoldsRows'
  BY <1>2, <1>3, <1>4, <1>6 DEF LedgerInv, SenderHoldsRows, ReadyEntries
<1>9. AckedInEffect'
  BY <1>3, <1>5, <1>6 DEF LedgerInv, AckedInEffect, Intact
<1>10. ASSUME NEW c \in Obj, NEW p \in Obj, Intact(c, p), c \in Child[p]
       PROVE  IF PendingFor(c, p)' = {}
              THEN <<c, p>> \in incoming <=> expanded[p]
              ELSE \A y \in PendingFor(c, p)' :
                      (\A x \in PendingFor(c, p)' : x.seq <= y.seq)
                          => (y.op = "add" <=> expanded[p])
  <2>1. CASE Pair(e) # <<c, p>>
    <3>1. PendingFor(c, p)' = PendingFor(c, p)
      BY <1>4, <2>1 DEF PendingFor
    <3> QED BY <1>10, <3>1 DEF LedgerInv, EdgeLedger
  <2>2. CASE Pair(e) = <<c, p>>
    <3>1. e.referee = c /\ e.referrer = p
      BY <2>2 DEF Pair
    <3>2. PendingFor(c, p)' = PendingFor(c, p) \ {e} /\ e \in PendingFor(c, p)
      BY <1>2, <1>4, <2>2, <3>1 DEF PendingFor
    <3>3. /\ <<c, p>> \in incoming <=> e.op = "add"
          /\ \A x \in PendingFor(c, p) : e.seq <= x.seq
      BY <1>1, <1>2, <1>10, <2>2, <3>1
      DEF Complete, LedgerInv, AckedInEffect, PendingFor
    <3>4. \A y \in PendingFor(c, p) : y.seq \in Nat
      BY DEF PendingFor, TypeOK, DBTypeOK, Entry
    <3>5. CASE PendingFor(c, p)' = {}
      <4>1. \A x \in PendingFor(c, p) : x.seq <= e.seq
        BY <3>2, <3>4, <3>5
      <4>2. e.op = "add" <=> expanded[p]
        BY <1>10, <3>2, <4>1 DEF LedgerInv, EdgeLedger
      <4> QED BY <3>3, <3>5, <4>2
    <3>6. ASSUME NEW y \in PendingFor(c, p)',
                 \A x \in PendingFor(c, p)' : x.seq <= y.seq
          PROVE  y.op = "add" <=> expanded[p]
      <4>1. y \in PendingFor(c, p) /\ \A x \in PendingFor(c, p) : x.seq <= y.seq
        BY <3>2, <3>3, <3>6
      <4> QED BY <1>10, <4>1 DEF LedgerInv, EdgeLedger
    <3> QED BY <3>5, <3>6
  <2> QED BY <2>1, <2>2
<1>11. EdgeLedger'
  BY <1>3, <1>10 DEF EdgeLedger, Intact
<1> QED BY <1>7, <1>8, <1>9, <1>11 DEF LedgerInv

\* A change of next_try_at: row e becomes row f, which differs in ready only.
LEMMA RescheduleLedger ==
    ASSUME TypeOK, TypeOK', LedgerInv, NEW b \in Bucket, NEW e \in outbox[b],
           NEW f \in Entry, f.seq = e.seq, f.op = e.op, Pair(f) = Pair(e),
           outbox' = [outbox EXCEPT ![b] = (@ \ {e}) \cup {f}],
           UNCHANGED <<state, expanded, incoming, nextSeq, wiped, torn, batch,
                       overtaken>>,
           SenderHoldsRows',
           \A k \in Bucket : cur'[k] \subseteq cur[k]
                             /\ (phase'[k] = "acked" => phase[k] = "acked")
    PROVE  LedgerInv'
<1>1. \A k \in Bucket :
         outbox'[k] = IF k = b THEN (outbox[b] \ {e}) \cup {f} ELSE outbox[k]
  BY DEF TypeOK, DBTypeOK
<1>2. \A k \in Bucket : \A x \in outbox'[k] :
         x \in outbox[k] \/ (k = b /\ x = f)
  BY <1>1
<1>3. e \in Entry /\ f.referee = e.referee /\ f.referrer = e.referrer
  BY DEF TypeOK, DBTypeOK, Pair
<1>4. ExpandedStored'
  BY DEF LedgerInv, ExpandedStored
<1>5. OutboxWellFormed'
  <2> SUFFICES ASSUME NEW k \in Bucket, NEW x \in outbox'[k]
               PROVE  /\ Home[x.referrer] = k /\ x.referee \in Child[x.referrer]
                      /\ x.seq < nextSeq[k]
                      /\ \A y \in outbox'[k] :
                            Pair(y) = Pair(x) /\ y.seq = x.seq => y = x
    BY DEF OutboxWellFormed
  <2>1. CASE k # b
    BY <1>1, <2>1 DEF LedgerInv, OutboxWellFormed
  <2>2. CASE k = b
    <3>1. /\ Home[x.referrer] = k /\ x.referee \in Child[x.referrer]
          /\ x.seq < nextSeq[k]
      BY <1>2, <1>3, <2>2 DEF LedgerInv, OutboxWellFormed
    <3>2. \A y, z \in outbox[b] : Pair(y) = Pair(z) /\ y.seq = z.seq => y = z
      BY DEF LedgerInv, OutboxWellFormed
    <3>3. ASSUME NEW y \in outbox'[k], Pair(y) = Pair(x), y.seq = x.seq
          PROVE  y = x
      <4>1. y \in outbox[b] \ {e} \/ y = f
        BY <1>1, <2>2
      <4>2. x \in outbox[b] \ {e} \/ x = f
        BY <1>1, <2>2
      <4> QED BY <3>2, <3>3, <4>1, <4>2
    <3> QED BY <3>1, <3>3
  <2> QED BY <2>1, <2>2
<1>6. AckedInEffect'
  <2> SUFFICES ASSUME NEW k \in Bucket, NEW y \in cur'[k], phase'[k] = "acked",
                      Intact(y.referee, y.referrer)
               PROVE  /\ Pair(y) \in incoming <=> y.op = "add"
                      /\ \A x \in outbox'[k] : Pair(x) = Pair(y) => y.seq <= x.seq
    BY DEF AckedInEffect, Intact
  <2>1. /\ Pair(y) \in incoming <=> y.op = "add"
        /\ \A x \in outbox[k] : Pair(x) = Pair(y) => y.seq <= x.seq
    BY DEF LedgerInv, AckedInEffect
  <2> QED BY <1>2, <2>1
<1>7. EdgeLedger'
  <2> SUFFICES ASSUME NEW c \in Obj, NEW p \in Obj, Intact(c, p), c \in Child[p]
               PROVE  IF PendingFor(c, p)' = {}
                      THEN <<c, p>> \in incoming <=> expanded[p]
                      ELSE \A y \in PendingFor(c, p)' :
                              (\A x \in PendingFor(c, p)' : x.seq <= y.seq)
                                  => (y.op = "add" <=> expanded[p])
    BY DEF EdgeLedger, Intact
  <2>1. CASE Pair(e) # <<c, p>>
    <3>1. PendingFor(c, p)' = PendingFor(c, p)
      BY <1>1, <2>1 DEF PendingFor
    <3> QED BY <3>1 DEF LedgerInv, EdgeLedger
  <2>2. CASE Pair(e) = <<c, p>>
    <3>1. Home[p] = b
      BY <2>2 DEF Pair, LedgerInv, OutboxWellFormed
    <3>2. /\ PendingFor(c, p)' = (PendingFor(c, p) \ {e}) \cup {f}
          /\ e \in PendingFor(c, p)
      BY <1>1, <2>2, <3>1 DEF PendingFor
    <3>3. ASSUME NEW y \in PendingFor(c, p)',
                 \A x \in PendingFor(c, p)' : x.seq <= y.seq
          PROVE  y.op = "add" <=> expanded[p]
      <4>1. PICK z \in PendingFor(c, p) : z.seq = y.seq /\ z.op = y.op
        BY <3>2
      <4>2. \A x \in PendingFor(c, p) : x.seq <= z.seq
        BY <3>2, <3>3, <4>1
      <4> QED BY <4>1, <4>2 DEF LedgerInv, EdgeLedger
    <3> QED BY <3>2, <3>3
  <2> QED BY <2>1, <2>2
<1> QED BY <1>4, <1>5, <1>6, <1>7 DEF LedgerInv

\* The sender's other steps only change what it holds.
LEMMA HoldLedger ==
    ASSUME LedgerInv, SenderHoldsRows',
           UNCHANGED <<state, expanded, incoming, outbox, nextSeq, wiped, torn,
                       overtaken>>,
           \A k \in Bucket : phase'[k] = "acked" =>
               phase[k] = "acked" /\ cur'[k] \subseteq cur[k]
    PROVE  LedgerInv'
BY DEF LedgerInv, ExpandedStored, OutboxWellFormed, AckedInEffect, EdgeLedger,
       PendingFor, Intact

\* Every step of the outbox sender, its failures included, keeps the ledger.
LEMMA SenderLedger ==
    ASSUME TypeOK, TypeOK', LedgerInv, NEW b \in Bucket,
           SenderStep(b) \/ BackoffElapses(b) \/ Fault(b)
    PROVE  LedgerInv'
<1>1. CASE Fetch(b)
  <2>1. UNCHANGED <<dbVars, cur, phase, overtaken>>
    BY <1>1 DEF Fetch
  <2>2. /\ batch'[b] \subseteq ReadyEntries(b) /\ cur[b] = {}
        /\ \A k \in Bucket : k # b => batch'[k] = batch[k]
    BY <1>1 DEF Fetch, TypeOK, LedgerInv, SenderHoldsRows
  <2>3. SenderHoldsRows'
    BY <2>1, <2>2
    DEF LedgerInv, SenderHoldsRows, ReadyEntries, dbVars, edgeVars
  <2> QED
    BY <2>1, <2>3, HoldLedger DEF dbVars, rowVars, edgeVars, histVars
<1>2. CASE Deliver(b) \/ DeliverLostAck(b)
  BY <1>2, ArriveLedger DEF Deliver, DeliverLostAck
<1>3. CASE DeliverFail(b)
  <2>1. PICK e \in batch[b] : Take(b, e, "nacked") /\ UNCHANGED <<dbVars, overtaken>>
    BY <1>3 DEF DeliverFail
  <2>2. \A k \in Bucket :
           /\ batch'[k] = IF k = b THEN batch[b] \ {e} ELSE batch[k]
           /\ cur'[k] = IF k = b THEN {e} ELSE cur[k]
           /\ phase'[k] = IF k = b THEN "nacked" ELSE phase[k]
    BY <2>1 DEF Take, TypeOK
  <2>3. SenderHoldsRows'
    <3>1. \A k \in Bucket : ReadyEntries(k)' = ReadyEntries(k)
      BY <2>1 DEF ReadyEntries, dbVars, edgeVars
    <3>2. e \in ReadyEntries(b)
      BY DEF LedgerInv, SenderHoldsRows
    <3> QED BY <2>2, <3>1, <3>2 DEF LedgerInv, SenderHoldsRows
  <2> QED
    BY <2>1, <2>2, <2>3, HoldLedger DEF dbVars, rowVars, edgeVars, histVars
<1>4. CASE Retry(b)
  <2>1. PICK e \in cur[b] : cur[b] = {e}
    BY <1>4 DEF Retry, LedgerInv, SenderHoldsRows
  <2>2. e \in outbox[b] /\ e \in Entry /\ e \notin batch[b]
    BY <2>1 DEF TypeOK, LedgerInv, SenderHoldsRows, ReadyEntries
  <2>3. PICK f : f = [e EXCEPT !.ready = FALSE]
    OBVIOUS
  <2>4. f \in Entry /\ f.seq = e.seq /\ f.op = e.op /\ Pair(f) = Pair(e)
    BY <2>2, <2>3 DEF Entry, Pair
  <2>5. outbox' = [outbox EXCEPT ![b] = (@ \ {e}) \cup {f}]
    <3>1. {[x EXCEPT !.ready = FALSE] : x \in cur[b]} = {f}
      BY <2>1, <2>3
    <3> QED BY <1>4, <2>1, <3>1 DEF Retry
  <2>6. \A k \in Bucket : /\ cur'[k] = IF k = b THEN {} ELSE cur[k]
                          /\ phase'[k] = IF k = b THEN "idle" ELSE phase[k]
    BY <1>4 DEF Retry, SenderIdle, TypeOK
  <2>7. UNCHANGED <<state, expanded, incoming, nextSeq, wiped, torn, batch,
                    overtaken>>
    BY <1>4 DEF Retry, rowVars, histVars
  <2>8. \A k \in Bucket :
           outbox'[k] = IF k = b THEN (outbox[b] \ {e}) \cup {f} ELSE outbox[k]
    BY <2>5 DEF TypeOK, DBTypeOK
  <2>9. SenderHoldsRows'
    BY <2>2, <2>6, <2>7, <2>8 DEF LedgerInv, SenderHoldsRows, ReadyEntries
  <2> QED BY <2>2, <2>4, <2>5, <2>6, <2>7, <2>9, RescheduleLedger
<1>5. CASE BackoffElapses(b)
  <2>1. PICK e \in outbox[b] :
           /\ ~e.ready
           /\ outbox' = [outbox EXCEPT ![b] =
                           (@ \ {e}) \cup {[e EXCEPT !.ready = TRUE]}]
    BY <1>5 DEF BackoffElapses
  <2>2. PICK f : f = [e EXCEPT !.ready = TRUE]
    OBVIOUS
  <2>3. e \in Entry /\ f \in Entry /\ f.seq = e.seq /\ f.op = e.op /\ Pair(f) = Pair(e)
    <3>1. e \in Entry
      BY DEF TypeOK, DBTypeOK
    <3> QED BY <2>2, <3>1 DEF Entry, Pair
  <2>4. UNCHANGED <<state, expanded, incoming, nextSeq, wiped, torn, batch, cur,
                    phase, overtaken>>
    BY <1>5 DEF BackoffElapses, rowVars, histVars, gcVars
  <2>5. \A k \in Bucket :
           outbox'[k] = IF k = b THEN (outbox[b] \ {e}) \cup {f} ELSE outbox[k]
    BY <2>1, <2>2 DEF TypeOK, DBTypeOK
  <2>6. \A k \in Bucket : ReadyEntries(k) \subseteq ReadyEntries(k)'
    BY <2>1, <2>5 DEF ReadyEntries
  <2>7. SenderHoldsRows'
    BY <2>4, <2>6 DEF LedgerInv, SenderHoldsRows
  <2> QED BY <2>1, <2>2, <2>3, <2>4, <2>7, RescheduleLedger
<1>6. CASE BookkeepingFails(b) \/ Crash(b)
  <2>1. UNCHANGED <<dbVars, overtaken>>
    BY <1>6 DEF BookkeepingFails, Crash
  <2>2. \A k \in Bucket : /\ cur'[k] = IF k = b THEN {} ELSE cur[k]
                          /\ phase'[k] = IF k = b THEN "idle" ELSE phase[k]
                          /\ batch'[k] \subseteq batch[k]
    BY <1>6 DEF BookkeepingFails, Crash, SenderIdle, TypeOK
  <2>3. SenderHoldsRows'
    BY <2>1, <2>2 DEF LedgerInv, SenderHoldsRows, ReadyEntries, dbVars, edgeVars
  <2> QED
    BY <2>1, <2>2, <2>3, HoldLedger DEF dbVars, rowVars, edgeVars, histVars
<1> QED
  BY <1>1, <1>2, <1>3, <1>4, <1>5, <1>6, CompleteLedger DEF SenderStep, Fault

-----------------------------------------------------------------------------

\* The ledger is inductive.
LEMMA NextLedger ==
    ASSUME TypeOK, TypeOK', LedgerInv, [Next]_vars
    PROVE  LedgerInv'
<1>1. CASE ClientOp
  BY <1>1, ContentLedger, RemoveLedger, PinLedger, AnchorLedger DEF ClientOp
<1>2. CASE Clock
  <2>1. UNCHANGED <<state, expanded, edgeVars, histVars, gcVars>>
    BY <1>2 DEF Clock, TtlElapses, rowVars
  <2> QED
    BY <2>1, LedgerUntouched DEF edgeVars, histVars, gcVars, LedgerInv, ExpandedStored
<1>3. ASSUME NEW b \in Bucket, Expire(b) PROVE LedgerInv'
  BY <1>3, DropPinsLedger DEF Expire, ExpirePins
<1>4. CASE UNCHANGED vars
  BY <1>4, LedgerUntouched
  DEF vars, dbVars, rowVars, edgeVars, histVars, gcVars, LedgerInv, ExpandedStored
<1> QED BY <1>1, <1>2, <1>3, <1>4, SenderLedger, GcLedger DEF Next

\* The inductive invariant of the edge ledger holds in every behaviour.
THEOREM LedgerInvariant == Spec => []LedgerInv
<1>1. Init => LedgerInv
  BY DEF Init, DBInit, EmptyTables, IdleProcesses, LedgerInv, ExpandedStored,
         OutboxWellFormed, SenderHoldsRows, AckedInEffect, EdgeLedger, PendingFor
<1>2. TypeOK /\ TypeOK' /\ LedgerInv /\ [Next]_vars => LedgerInv'
  BY NextLedger
<1> QED BY <1>1, <1>2, TypeCorrect, PTL DEF Spec

\* No lost answer, duplicate, retry, failed bookkeeping or crash makes the
\* reference that apply_edge wrote at a child disagree for good with
\* children_expanded at its parent: they agree, or the outbox of the parent's
\* bucket holds the edge that will make them agree.
THEOREM EdgeLedgerHolds == Spec => []EdgeLedger
<1>1. LedgerInv => EdgeLedger
  BY DEF LedgerInv
<1> QED BY <1>1, LedgerInvariant, PTL

=============================================================================
