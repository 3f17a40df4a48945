----------------------------- MODULE RootsProofs -----------------------------
(***************************************************************************)
(* The GC columns of a row agree with the tables they summarise, an        *)
(* eviction never deletes an object that is held, and once the cascades    *)
(* have settled exactly the trees of the roots are held.                   *)
(***************************************************************************)
EXTENDS NamedStoreGCProofs

USE DBAssumption

-----------------------------------------------------------------------------
(* Cardinalities of anchor sets *)

\* The anchors of an object are a finite set of slots.
LEMMA AnchorSets ==
    ASSUME DBTypeOK
    PROVE  \A o \in Obj :
              /\ IsFiniteSet(anchors[o]) /\ Cardinality(anchors[o]) \in Nat
              /\ Cardinality(anchors[o]) = 0 <=> anchors[o] = {}
BY SlotsFinite, FS_CardinalityType, FS_EmptySet DEF DBTypeOK

\* Removing T from S takes away as many elements as they share.
LEMMA SplitCardinality ==
    ASSUME NEW S, IsFiniteSet(S), NEW T
    PROVE  /\ Cardinality(S \cap T) \in Nat /\ Cardinality(S \ T) \in Nat
           /\ Cardinality(S) = Cardinality(S \ T) + Cardinality(S \cap T)
<1>1. IsFiniteSet(S \cap T) /\ IsFiniteSet(S \ T)
  BY FS_Subset
<1>2. S = (S \ T) \cup (S \cap T) /\ (S \ T) \cap (S \cap T) = {}
  OBVIOUS
<1>3. Cardinality((S \ T) \cup (S \cap T)) =
         Cardinality(S \ T) + Cardinality(S \cap T) - Cardinality({})
  BY <1>1, <1>2, FS_Union
<1>4. Cardinality(S \cap T) \in Nat /\ Cardinality(S \ T) \in Nat
  BY <1>1, FS_CardinalityType
<1>5. Cardinality(S) = Cardinality((S \ T) \cup (S \cap T))
  BY <1>2, Zenon
<1>6. Cardinality({}) = 0
  BY FS_EmptySet
<1> QED BY <1>3, <1>4, <1>5, <1>6

\* fs_acquire and fs_release change the counter by what they change in the
\* table; the counter of a removed object stays a lower bound.
LEMMA AnchorCounts ==
    ASSUME DBTypeOK, NEW o \in Obj
    PROVE  /\ \A slot \in Slot :
                 Cardinality(anchors[o] \cup {slot}) =
                     IF slot \in anchors[o] THEN Cardinality(anchors[o])
                     ELSE Cardinality(anchors[o]) + 1
           /\ \A gone :
                 /\ anchorCount[o] = Cardinality(anchors[o]) =>
                      Decrease(anchorCount[o], Cardinality(anchors[o] \cap gone)) =
                          Cardinality(anchors[o] \ gone)
                 /\ anchorCount[o] <= Cardinality(anchors[o]) =>
                      Decrease(anchorCount[o], Cardinality(anchors[o] \cap gone)) <=
                          Cardinality(anchors[o] \ gone)
<1>1. IsFiniteSet(anchors[o])
  BY AnchorSets
<1>2. ASSUME NEW slot \in Slot
      PROVE  Cardinality(anchors[o] \cup {slot}) =
                 IF slot \in anchors[o] THEN Cardinality(anchors[o])
                 ELSE Cardinality(anchors[o]) + 1
  BY <1>1, FS_AddElement
<1>3. ASSUME NEW gone
      PROVE  /\ anchorCount[o] = Cardinality(anchors[o]) =>
                  Decrease(anchorCount[o], Cardinality(anchors[o] \cap gone)) =
                      Cardinality(anchors[o] \ gone)
             /\ anchorCount[o] <= Cardinality(anchors[o]) =>
                  Decrease(anchorCount[o], Cardinality(anchors[o] \cap gone)) <=
                      Cardinality(anchors[o] \ gone)
  <2>1. /\ Cardinality(anchors[o] \cap gone) \in Nat
        /\ Cardinality(anchors[o] \ gone) \in Nat
        /\ Cardinality(anchors[o]) = Cardinality(anchors[o] \ gone) +
                                     Cardinality(anchors[o] \cap gone)
    BY <1>1, SplitCardinality
  <2>2. anchorCount[o] \in Nat
    BY DEF DBTypeOK
  <2> QED BY <2>1, <2>2 DEF Decrease
<1> QED BY <1>2, <1>3

-----------------------------------------------------------------------------
(* One step *)

\* o is held by a pin, an anchor or an edge.
HeldBy(o) == HasActivePin(o) \/ anchors[o] # {} \/ HasIncoming(o)

\* A transaction that changes the roots of objs and reclassifies them.
LEMMA RootsStep ==
    ASSUME DBTypeOK, DBTypeOK', RootsInv, NEW objs, Reclassify(objs),
           wiped \subseteq wiped',
           \A o \in Obj \ objs :
               /\ state'[o] = state[o] /\ anchors'[o] = anchors[o]
               /\ anchorCount'[o] = anchorCount[o]
               /\ HasActivePin(o)' => HasActivePin(o)
               /\ HasIncoming(o)' => HasIncoming(o),
           \A o \in Obj : o \in objs /\ o \notin wiped' =>
               /\ anchorCount'[o] = Cardinality(anchors'[o])
               /\ state'[o] = "absent" =>
                    ~HasActivePin(o)' /\ anchors'[o] = {} /\ ~HasIncoming(o)'
    PROVE  RootsInv'
<1>1. AnchorCountExact'
  BY DEF RootsInv, AnchorCountExact
<1>2. NoOrphanRoots'
  BY DEF RootsInv, NoOrphanRoots
<1>3. ClassProtects'
  <2> SUFFICES ASSUME NEW o \in Obj, o \notin wiped'
               PROVE  /\ HasActivePin(o)' \/ anchors'[o] # {} => evictionClass'[o] = 2
                      /\ HasIncoming(o)' => evictionClass'[o] >= 1
    BY DEF ClassProtects
  <2>1. CASE o \in objs /\ state'[o] # "absent"
    <3>1. evictionClass'[o] = EvictionClass(o)'
      BY <2>1 DEF Reclassify
    <3>2. anchors'[o] # {} => anchorCount'[o] > 0
      <4>1. /\ Cardinality(anchors'[o]) \in Nat
            /\ Cardinality(anchors'[o]) = 0 <=> anchors'[o] = {}
        BY SlotsFinite, FS_CardinalityType, FS_EmptySet DEF DBTypeOK
      <4> QED BY <2>1, <4>1
    <3> QED BY <3>1, <3>2 DEF EvictionClass
  <2>2. CASE o \in objs /\ state'[o] = "absent"
    BY <2>2
  <2>3. CASE o \notin objs
    <3>1. evictionClass'[o] = evictionClass[o]
      BY <2>3 DEF Reclassify
    <3> QED BY <2>3, <3>1 DEF RootsInv, ClassProtects
  <2> QED BY <2>1, <2>2, <2>3
<1> QED BY <1>1, <1>2, <1>3 DEF RootsInv

\* A step that only takes roots away, or adds a row that nothing holds.
LEMMA RootsShrink ==
    ASSUME DBTypeOK, RootsInv, wiped \subseteq wiped',
           \A o \in Obj : o \notin wiped' =>
               /\ anchorCount'[o] = anchorCount[o] /\ anchors'[o] = anchors[o]
               /\ evictionClass'[o] = evictionClass[o] \/ ~HeldBy(o)
               /\ state'[o] = "absent" => state[o] = "absent" \/ ~HeldBy(o)
               /\ HasActivePin(o)' => HasActivePin(o)
               /\ HasIncoming(o)' => HasIncoming(o)
    PROVE  RootsInv'
BY DEF RootsInv, AnchorCountExact, NoOrphanRoots, ClassProtects, HeldBy

\* The puts of objects and chunk items keep RootsInv.
LEMMA ContentRoots ==
    ASSUME DBTypeOK, DBTypeOK', RootsInv, ContentOp
    PROVE  RootsInv'
<1>1. ASSUME NEW o \in Obj, PutNew(o) PROVE RootsInv'
  <2>1. UNCHANGED <<evictionClass, anchorCount, pins, anchors, incoming, wiped>>
    BY <1>1 DEF PutNew, rootVars, edgeVars, histVars
  <2>2. \A x \in Obj : state'[x] = "absent" => state[x] = "absent"
    BY <1>1 DEF PutNew, DBTypeOK
  <2> QED
    BY <2>1, <2>2, RootsShrink DEF HasActivePin, HasIncoming
<1>2. ASSUME NEW o \in Obj, PutOverShadow(o) PROVE RootsInv'
  <2>1. /\ UNCHANGED <<anchorCount, anchors, incoming, wiped>>
        /\ Reclassify({o}) /\ Promote(o)
        /\ state' = [state EXCEPT ![o] = "present"]
    BY <1>2 DEF PutOverShadow, histVars
  <2>2. \A x \in Obj \ {o} : pins'[x] = pins[x] /\ state'[x] = state[x]
    BY <2>1 DEF Promote, DBTypeOK
  <2>3. state'[o] = "present"
    BY <2>1 DEF DBTypeOK
  <2> QED
    BY <2>1, <2>2, <2>3, RootsStep
    DEF HasActivePin, HasIncoming, RootsInv, AnchorCountExact
<1>3. ASSUME NEW c \in Chunk, NEW kind, SetChunkItem(c, kind) PROVE RootsInv'
  BY <1>3
  DEF SetChunkItem, rowVars, rootVars, edgeVars, histVars, RootsInv,
      AnchorCountExact, NoOrphanRoots, ClassProtects, HasActivePin, HasIncoming
<1> QED BY <1>1, <1>2, <1>3 DEF ContentOp, PutObject

\* remove_object and remove_chunk keep RootsInv.
LEMMA RemoveRoots ==
    ASSUME DBTypeOK, DBTypeOK', RootsInv, RemoveOp
    PROVE  RootsInv'
<1>1. ASSUME NEW o \in Obj, RemoveObject(o) PROVE RootsInv'
  <2>1. wiped' = wiped \cup {o} /\ UNCHANGED <<pins, anchors, incoming>>
    BY <1>1 DEF RemoveObject, rootVars, edgeVars
  <2>2. \A x \in Obj \ {o} : /\ state'[x] = state[x]
                             /\ evictionClass'[x] = evictionClass[x]
                             /\ anchorCount'[x] = anchorCount[x]
    BY <1>1 DEF RemoveObject, DBTypeOK
  <2> QED BY <2>1, <2>2, RootsShrink DEF HasActivePin, HasIncoming
<1>2. ASSUME NEW c \in Chunk, RemoveChunk(c) PROVE RootsInv'
  <2>1. /\ UNCHANGED <<state, evictionClass, anchorCount, pins, anchors>>
        /\ incoming' \subseteq incoming /\ wiped \subseteq wiped'
    BY <1>2 DEF RemoveChunk, rowVars, rootVars
  <2> QED BY <2>1, RootsShrink DEF HasActivePin, HasIncoming
<1> QED BY <1>1, <1>2 DEF RemoveOp

\* Deleting pins keeps RootsInv.
LEMMA DropPinsRoots ==
    ASSUME DBTypeOK, DBTypeOK', RootsInv, NEW b, NEW gone, DropPins(b, gone)
    PROVE  RootsInv'
<1> DEFINE objs == {q[1] : q \in gone}
<1>1. /\ UNCHANGED <<state, anchorCount, anchors, incoming, wiped>>
      /\ Reclassify(objs)
  BY DEF DropPins, histVars
<1>2. \A o \in Obj, w \in Owner : pins'[o][w] = pins[o][w] \/ pins'[o][w] = NoPin
  BY DEF DropPins
<1>3. \A o \in Obj : HasActivePin(o)' => HasActivePin(o)
  BY <1>2 DEF HasActivePin, Active, NoPin
<1>4. \A o \in Obj : HasIncoming(o)' <=> HasIncoming(o)
  BY <1>1 DEF HasIncoming
<1> HIDE DEF objs
<1> QED
  BY <1>1, <1>3, <1>4, RootsStep DEF RootsInv, AnchorCountExact, NoOrphanRoots

\* pin, unpin and unpin_owner keep RootsInv.
LEMMA PinRoots ==
    ASSUME DBTypeOK, DBTypeOK', RootsInv, PinOp(Obj, PinScope, PinLife)
    PROVE  RootsInv'
<1>1. ASSUME NEW o \in Obj, NEW w \in Owner, NEW scope \in PinScope,
             NEW life \in PinLife, Pin(o, w, scope, life)
      PROVE  RootsInv'
  <2>1. /\ UNCHANGED <<anchorCount, anchors, incoming, wiped>>
        /\ Reclassify({o}) /\ UpsertShadow(o)
    BY <1>1 DEF Pin, histVars
  <2>2. \A x \in Obj \ {o} : pins'[x] = pins[x] /\ state'[x] = state[x]
    BY <1>1, <2>1 DEF Pin, UpsertShadow, DBTypeOK
  <2>3. state'[o] # "absent"
    BY <2>1 DEF UpsertShadow, DBTypeOK
  <2> QED
    BY <2>1, <2>2, <2>3, RootsStep
    DEF HasActivePin, HasIncoming, RootsInv, AnchorCountExact
<1>2. ASSUME NEW o \in Obj, NEW w \in Owner, Unpin(o, w) PROVE RootsInv'
  BY <1>2, DropPinsRoots DEF Unpin
<1>3. ASSUME NEW b \in Bucket, NEW w \in Owner, UnpinOwner(b, w) PROVE RootsInv'
  BY <1>3, DropPinsRoots DEF UnpinOwner
<1> QED BY <1>1, <1>2, <1>3 DEF PinOp

\* fs_release and fs_release_inode subtract exactly the rows they delete.
LEMMA DropAnchorsRoots ==
    ASSUME DBTypeOK, DBTypeOK', RootsInv, NEW b, NEW objs, NEW gone,
           DropAnchors(b, objs, gone)
    PROVE  RootsInv'
<1>1. UNCHANGED <<state, pins, incoming, wiped>> /\ Reclassify(objs)
  BY DEF DropAnchors, histVars
<1>2. \A o \in Obj : /\ HasActivePin(o)' <=> HasActivePin(o)
                     /\ HasIncoming(o)' <=> HasIncoming(o)
  BY <1>1 DEF HasActivePin, HasIncoming
<1>3. \A o \in Obj \ objs : /\ anchors'[o] = anchors[o]
                            /\ anchorCount'[o] = anchorCount[o]
  BY DEF DropAnchors
<1>4. \A o \in Obj : o \in objs =>
         /\ anchors'[o] = anchors[o] \ gone
         /\ anchorCount'[o] = Decrease(anchorCount[o], Cardinality(anchors[o] \cap gone))
  BY DEF DropAnchors
<1>5. ASSUME NEW o \in Obj, o \in objs, o \notin wiped
      PROVE  /\ anchorCount'[o] = Cardinality(anchors'[o])
             /\ state'[o] = "absent" =>
                  ~HasActivePin(o)' /\ anchors'[o] = {} /\ ~HasIncoming(o)'
  <2>1. anchorCount[o] = Cardinality(anchors[o])
    BY <1>5 DEF RootsInv, AnchorCountExact
  <2>2. Decrease(anchorCount[o], Cardinality(anchors[o] \cap gone)) =
           Cardinality(anchors[o] \ gone)
    BY <2>1, AnchorCounts
  <2>3. anchorCount'[o] = Cardinality(anchors'[o])
    BY <1>4, <1>5, <2>2
  <2> QED BY <1>1, <1>2, <1>4, <1>5, <2>3 DEF RootsInv, NoOrphanRoots
<1> QED BY <1>1, <1>2, <1>3, <1>5, RootsStep

\* fs_acquire, fs_release and fs_release_inode keep RootsInv.
LEMMA AnchorRoots ==
    ASSUME DBTypeOK, DBTypeOK', RootsInv, AnchorOp(Obj)
    PROVE  RootsInv'
<1>1. ASSUME NEW o \in Obj, NEW slot \in Slot, FsAcquire(o, slot)
      PROVE  RootsInv'
  <2>1. UNCHANGED <<pins, incoming, wiped>> /\ Reclassify({o}) /\ UpsertShadow(o)
    BY <1>1 DEF FsAcquire, histVars
  <2>2. \A x \in Obj \ {o} : /\ state'[x] = state[x] /\ anchors'[x] = anchors[x]
                             /\ anchorCount'[x] = anchorCount[x]
    BY <1>1, <2>1 DEF FsAcquire, UpsertShadow, DBTypeOK
  <2>3. state'[o] # "absent"
    BY <2>1 DEF UpsertShadow, DBTypeOK
  <2>4. /\ anchors'[o] = anchors[o] \cup {slot}
        /\ anchorCount'[o] = IF slot \in anchors[o] THEN anchorCount[o]
                             ELSE anchorCount[o] + 1
    BY <1>1 DEF FsAcquire, DBTypeOK
  <2>5. o \notin wiped => anchorCount'[o] = Cardinality(anchors'[o])
    BY <2>4, AnchorCounts DEF RootsInv, AnchorCountExact
  <2> QED
    BY <2>1, <2>2, <2>3, <2>5, RootsStep DEF HasActivePin, HasIncoming
<1>2. ASSUME NEW o \in Obj, NEW slot \in Slot, FsRelease(o, slot) PROVE RootsInv'
  BY <1>2, DropAnchorsRoots DEF FsRelease
<1>3. ASSUME NEW b \in Bucket, NEW i \in Inode, FsReleaseInode(b, i) PROVE RootsInv'
  BY <1>3, DropAnchorsRoots DEF FsReleaseInode
<1> QED BY <1>1, <1>2, <1>3 DEF AnchorOp

\* apply_edge keeps RootsInv.
LEMMA ApplyRoots ==
    ASSUME DBTypeOK, DBTypeOK', RootsInv, NEW e \in Entry, ApplyEdge(e)
    PROVE  RootsInv'
<1>1. /\ UNCHANGED <<anchorCount, pins, anchors, wiped>>
      /\ Reclassify({e.referee}) /\ UpsertShadow(e.referee)
      /\ incoming' \subseteq incoming \cup {Pair(e)}
  BY DEF ApplyEdge, rootVars, histVars
<1>2. e.referee \in Obj
  BY DEF Entry
<1>3. \A o \in Obj \ {e.referee} : state'[o] = state[o]
  BY <1>1, <1>2 DEF UpsertShadow, DBTypeOK
<1>4. state'[e.referee] # "absent"
  BY <1>1, <1>2 DEF UpsertShadow, DBTypeOK
<1>5. \A o \in Obj \ {e.referee} : HasIncoming(o)' => HasIncoming(o)
  BY <1>1 DEF HasIncoming, Pair
<1> QED
  BY <1>1, <1>3, <1>4, <1>5, RootsStep DEF HasActivePin, RootsInv, AnchorCountExact

\* What try_evict_object deletes is not held.
LEMMA EvictUnheld ==
    ASSUME DBTypeOK, RootsInv, NEW o \in Obj, ~Protected(o), o \notin wiped
    PROVE  ~HeldBy(o) /\ anchorCount[o] = 0
<1>1. ~HasActivePin(o) /\ ~HasIncoming(o) /\ ~(anchorCount[o] > 0)
  BY DEF Protected
<1>2. anchorCount[o] = 0
  BY <1>1 DEF DBTypeOK
<1>3. anchors[o] = {}
  BY <1>2, AnchorSets DEF RootsInv, AnchorCountExact
<1> QED BY <1>1, <1>2, <1>3 DEF HeldBy

\* try_evict_object re-checks every root, so it keeps RootsInv.
LEMMA EvictRoots ==
    ASSUME DBTypeOK, DBTypeOK', RootsInv, NEW o \in Obj, TryEvict(o)
    PROVE  RootsInv'
<1>1. CASE Protected(o)
  <2>1. Reclassify({o}) /\ UNCHANGED <<state, anchorCount, pins, anchors, incoming,
                                       wiped>>
    BY <1>1 DEF TryEvict, rootVars, edgeVars, histVars
  <2>2. \A x \in Obj : /\ HasActivePin(x)' <=> HasActivePin(x)
                       /\ HasIncoming(x)' <=> HasIncoming(x)
    BY <2>1 DEF HasActivePin, HasIncoming
  <2> QED BY <2>1, <2>2, RootsStep DEF RootsInv, AnchorCountExact, NoOrphanRoots
<1>2. CASE ~Protected(o)
  <2>1. /\ state' = [state EXCEPT ![o] = "absent"]
        /\ evictionClass' = [evictionClass EXCEPT ![o] = 0]
        /\ anchorCount' = [anchorCount EXCEPT ![o] = 0]
        /\ UNCHANGED <<pins, anchors, incoming, wiped>>
    BY <1>2 DEF TryEvict, rootVars, edgeVars
  <2>2. \A x \in Obj : /\ HasActivePin(x)' <=> HasActivePin(x)
                       /\ HasIncoming(x)' <=> HasIncoming(x)
    BY <2>1 DEF HasActivePin, HasIncoming
  <2>3. \A x \in Obj \ {o} : /\ state'[x] = state[x]
                             /\ evictionClass'[x] = evictionClass[x]
                             /\ anchorCount'[x] = anchorCount[x]
    BY <2>1 DEF DBTypeOK
  <2>4. o \notin wiped => ~HeldBy(o) /\ anchorCount'[o] = anchorCount[o]
    BY <1>2, <2>1, EvictUnheld DEF DBTypeOK
  <2> QED BY <2>1, <2>2, <2>3, <2>4, RootsShrink
<1> QED BY <1>1, <1>2

\* A pin that passes expires_at only weakens what RootsInv asks for.
LEMMA ClockRoots ==
    ASSUME DBTypeOK, RootsInv, NEW o \in Obj, NEW w \in Owner, TtlElapses(o, w)
    PROVE  RootsInv'
<1>1. UNCHANGED <<state, evictionClass, anchorCount, anchors, incoming, wiped>>
  BY DEF TtlElapses, rowVars, edgeVars, histVars
<1>2. pins' = [pins EXCEPT ![o][w].life = "expired"]
  BY DEF TtlElapses
<1>3. \A x \in Obj, v \in Owner : pins'[x][v] = pins[x][v] \/ ~Active(pins'[x][v])
  BY <1>2 DEF DBTypeOK, PinRow, Active
<1>4. \A x \in Obj : HasActivePin(x)' => HasActivePin(x)
  BY <1>3 DEF HasActivePin
<1> QED BY <1>1, <1>4, RootsShrink DEF HasIncoming

\* Steps of the sender and of the eviction round that leave the rows alone.
LEMMA RootsFrame ==
    ASSUME RootsInv, UNCHANGED <<rowVars, rootVars, incoming, wiped>>
    PROVE  RootsInv'
BY DEF RootsInv, AnchorCountExact, NoOrphanRoots, ClassProtects, HasActivePin,
       HasIncoming, rowVars, rootVars

\* Every step of one bucket's processes.
LEMMA BucketRoots ==
    ASSUME TypeOK, TypeOK', RootsInv, NEW b \in Bucket,
           SenderStep(b) \/ BackoffElapses(b) \/ GcStep(b) \/ Fault(b)
    PROVE  RootsInv'
<1>1. DBTypeOK /\ DBTypeOK'
  BY DEF TypeOK
<1>2. CASE Fetch(b) \/ DeliverFail(b) \/ BookkeepingFails(b) \/ Crash(b)
            \/ GcList(b) \/ GcStop(b)
  BY <1>2, RootsFrame
  DEF Fetch, DeliverFail, BookkeepingFails, Crash, GcList, GcStop, dbVars,
      rowVars, rootVars, edgeVars, histVars
<1>3. CASE Complete(b) \/ Retry(b) \/ BackoffElapses(b)
  BY <1>3, RootsFrame
  DEF Complete, Retry, BackoffElapses, rowVars, rootVars, histVars
<1>4. CASE Deliver(b) \/ DeliverLostAck(b)
  <2>1. PICK e \in batch[b] : ApplyEdge(e)
    BY <1>4 DEF Deliver, DeliverLostAck, Arrive
  <2>2. e \in Entry
    BY DEF TypeOK
  <2> QED BY <1>1, <2>1, <2>2, ApplyRoots
<1>5. CASE GcEvict(b)
  <2>1. PICK o \in candidates[b] : TryEvict(o)
    BY <1>5 DEF GcEvict
  <2>2. o \in Obj
    BY DEF TypeOK
  <2> QED BY <1>1, <2>1, <2>2, EvictRoots
<1> QED BY <1>2, <1>3, <1>4, <1>5 DEF SenderStep, GcStep, Fault

\* RootsInv is inductive.
LEMMA NextRoots ==
    ASSUME TypeOK, TypeOK', RootsInv, [Next]_vars
    PROVE  RootsInv'
<1>1. DBTypeOK /\ DBTypeOK'
  BY DEF TypeOK
<1>2. CASE ClientOp
  BY <1>1, <1>2, ContentRoots, RemoveRoots, PinRoots, AnchorRoots DEF ClientOp
<1>3. CASE Clock
  BY <1>1, <1>3, ClockRoots DEF Clock
<1>4. ASSUME NEW b \in Bucket, Expire(b) PROVE RootsInv'
  BY <1>1, <1>4, DropPinsRoots DEF Expire, ExpirePins
<1>5. CASE UNCHANGED vars
  BY <1>5, RootsFrame DEF vars, dbVars, rowVars, rootVars, edgeVars, histVars
<1> QED BY <1>2, <1>3, <1>4, <1>5, BucketRoots DEF Next

\* The GC columns are right in the empty database.
LEMMA InitRoots == Init => RootsInv
<1> SUFFICES ASSUME Init PROVE RootsInv
  OBVIOUS
<1>1. Cardinality({}) = 0
  BY FS_EmptySet
<1>2. \A o \in Obj : /\ ~HasActivePin(o) /\ ~HasIncoming(o)
                     /\ anchors[o] = {} /\ anchorCount[o] = 0
  BY DEF Init, DBInit, EmptyTables, HasActivePin, HasIncoming, Active, NoPin
<1> QED
  BY <1>1, <1>2 DEF RootsInv, AnchorCountExact, NoOrphanRoots, ClassProtects

\* RootsInv is an invariant of the stores.
THEOREM RootsInvariant == Spec => []RootsInv
<1>1. TypeOK /\ RootsInv /\ TypeOK' /\ [Next]_vars => RootsInv'
  BY NextRoots
<1> QED BY <1>1, InitRoots, TypeCorrect, PTL DEF Spec

-----------------------------------------------------------------------------
(* What follows *)

\* fs_anchor_count is exact for every object not removed explicitly.
THEOREM AnchorCountIsExact == Spec => []AnchorCountExact
<1>1. RootsInv => AnchorCountExact
  BY DEF RootsInv
<1> QED BY <1>1, RootsInvariant, PTL

\* An object without a row is held by nothing.
THEOREM NoOrphanRootsHolds == Spec => []NoOrphanRoots
<1>1. RootsInv => NoOrphanRoots
  BY DEF RootsInv
<1> QED BY <1>1, RootsInvariant, PTL

\* eviction_class protects whatever is held.
THEOREM ClassProtectsHolds == Spec => []ClassProtects
<1>1. RootsInv => ClassProtects
  BY DEF RootsInv
<1> QED BY <1>1, RootsInvariant, PTL

\* The only rows that disappear without remove_object are those
\* try_evict_object deletes, and those are not held.
LEMMA VanishUnheld ==
    ASSUME TypeOK, TypeOK', RootsInv, [Next]_vars, NEW o \in Obj,
           state[o] # "absent", state'[o] = "absent", o \notin wiped'
    PROVE  ~HasActivePin(o) /\ anchors[o] = {} /\ ~HasIncoming(o)
<1>1. DBTypeOK /\ DBTypeOK'
  BY DEF TypeOK
<1>2. \E b \in Bucket : GcEvict(b)
  <2> SUFFICES ASSUME \A b \in Bucket : ~GcEvict(b) PROVE FALSE
    OBVIOUS
  <2>1. state' # state
    OBVIOUS
  <2>2. \A x \in Obj : ~(UpsertShadow(x))
    BY <1>1 DEF UpsertShadow, DBTypeOK
  <2>3. ~ContentOp
    BY <1>1, <2>1 DEF ContentOp, PutObject, PutNew, PutOverShadow, SetChunkItem,
                      rowVars, DBTypeOK
  <2>4. ~RemoveOp
    <3>1. \A x \in Obj : ~RemoveObject(x)
      BY <1>1 DEF RemoveObject, DBTypeOK
    <3>2. \A c \in Chunk : ~RemoveChunk(c)
      BY <2>1 DEF RemoveChunk, rowVars
    <3> QED BY <3>1, <3>2 DEF RemoveOp
  <2>5. \A b, gone : ~DropPins(b, gone)
    BY <2>1 DEF DropPins
  <2>6. ~PinOp(Obj, PinScope, PinLife)
    BY <2>2, <2>5 DEF PinOp, Pin, Unpin, UnpinOwner
  <2>7. \A b, objs, gone : ~DropAnchors(b, objs, gone)
    BY <2>1 DEF DropAnchors
  <2>8. ~AnchorOp(Obj)
    BY <2>2, <2>7 DEF AnchorOp, FsAcquire, FsRelease, FsReleaseInode
  <2>9. ~Clock /\ \A b \in Bucket : ~Expire(b)
    BY <2>1, <2>5 DEF Clock, TtlElapses, rowVars, Expire, ExpirePins
  <2>10. ASSUME NEW b \in Bucket PROVE ~Deliver(b) /\ ~DeliverLostAck(b)
    <3>1. \A e \in batch[b] : e.referee \in Obj
      BY DEF TypeOK, Entry
    <3>2. \A e \in batch[b] : ~ApplyEdge(e)
      BY <2>2, <3>1 DEF ApplyEdge
    <3> QED BY <3>2 DEF Deliver, DeliverLostAck, Arrive
  <2>11. ASSUME NEW b \in Bucket PROVE ~Complete(b) /\ ~Retry(b) /\ ~BackoffElapses(b)
    BY <2>1 DEF Complete, Retry, BackoffElapses, rowVars
  <2>12. ASSUME NEW b \in Bucket
         PROVE  /\ ~Fetch(b) /\ ~DeliverFail(b) /\ ~BookkeepingFails(b)
                /\ ~Crash(b) /\ ~GcList(b) /\ ~GcStop(b)
    BY <2>1 DEF Fetch, DeliverFail, BookkeepingFails, Crash, GcList, GcStop,
                dbVars, rowVars
  <2>13. ~UNCHANGED vars
    BY <2>1 DEF vars, dbVars, rowVars
  <2> QED
    BY <2>3, <2>4, <2>6, <2>8, <2>9, <2>10, <2>11, <2>12, <2>13
    DEF Next, ClientOp, SenderStep, GcStep, Fault
<1>3. PICK x \in Obj : TryEvict(x)
  BY <1>2 DEF GcEvict, TypeOK
<1>5. ~Protected(x) /\ state' = [state EXCEPT ![x] = "absent"] /\ wiped' = wiped
  BY <1>3 DEF TryEvict, histVars
<1>6. o = x
  BY <1>1, <1>5 DEF DBTypeOK
<1> QED BY <1>1, <1>5, <1>6, EvictUnheld DEF HeldBy

\* Eviction never deletes a held object, however stale its candidates are.
THEOREM EvictionSafe == Spec => NeverEvictHeld
<1>1. TypeOK /\ TypeOK' /\ RootsInv /\ [Next]_vars =>
        [\A o \in Obj :
           state[o] # "absent" /\ state'[o] = "absent" /\ o \notin wiped' =>
               ~HasActivePin(o) /\ anchors[o] = {} /\ ~HasIncoming(o)]_vars
  BY VanishUnheld
<1> QED BY <1>1, RootsInvariant, TypeCorrect, PTL DEF Spec, NeverEvictHeld

\* Once the outboxes are empty, the children of an expanded object have rows
\* that eviction skips: the ledger gives the edge, the columns the protection.
THEOREM QuietProtectedHolds == Spec => []QuietProtected
<1>1. LedgerInv /\ RootsInv => QuietProtected
  <2> SUFFICES ASSUME LedgerInv, RootsInv, Quiet, NEW c \in Obj, NEW p \in Obj,
                      Intact(c, p), c \in Child[p], expanded[p]
               PROVE  state[c] # "absent" /\ evictionClass[c] >= 1
    BY DEF QuietProtected
  <2>1. PendingFor(c, p) = {}
    BY DEF PendingFor, Quiet, DBAssumption
  <2>2. <<c, p>> \in incoming
    BY <2>1 DEF LedgerInv, EdgeLedger
  <2>3. HasIncoming(c) /\ c \notin wiped
    BY <2>2 DEF HasIncoming, Intact
  <2> QED BY <2>3 DEF RootsInv, NoOrphanRoots, ClassProtects
<1> QED BY <1>1, LedgerInvariant, RootsInvariant, PTL

-----------------------------------------------------------------------------
(* The counter after explicit removals *)

\* A step that changes the anchors of no object, and no counter except to zero.
LEMMA BoundFrame ==
    ASSUME DBTypeOK, AnchorCountBounded, anchors' = anchors,
           \A o \in Obj : anchorCount'[o] = anchorCount[o] \/ anchorCount'[o] = 0
    PROVE  AnchorCountBounded'
BY AnchorSets DEF AnchorCountBounded

\* fs_acquire adds at most one to a counter whose set grew.
LEMMA AcquireBound ==
    ASSUME DBTypeOK, AnchorCountBounded, NEW o \in Obj, NEW slot \in Slot,
           FsAcquire(o, slot)
    PROVE  AnchorCountBounded'
<1>1. /\ anchors'[o] = anchors[o] \cup {slot}
      /\ anchorCount'[o] = IF slot \in anchors[o] THEN anchorCount[o]
                           ELSE anchorCount[o] + 1
  BY DEF FsAcquire, DBTypeOK
<1>2. \A x \in Obj \ {o} : anchors'[x] = anchors[x] /\ anchorCount'[x] = anchorCount[x]
  BY DEF FsAcquire, DBTypeOK
<1>3. anchorCount[o] \in Nat /\ Cardinality(anchors[o]) \in Nat
  BY AnchorSets DEF DBTypeOK
<1>4. anchorCount'[o] <= Cardinality(anchors'[o])
  BY <1>1, <1>3, AnchorCounts DEF AnchorCountBounded
<1> QED BY <1>2, <1>4 DEF AnchorCountBounded

\* fs_release and fs_release_inode take away what they delete, not below zero.
LEMMA ReleaseBound ==
    ASSUME DBTypeOK, AnchorCountBounded, NEW b, NEW objs, NEW gone,
           DropAnchors(b, objs, gone)
    PROVE  AnchorCountBounded'
<1>1. ASSUME NEW o \in Obj, o \in objs PROVE anchorCount'[o] <= Cardinality(anchors'[o])
  <2>1. /\ anchors'[o] = anchors[o] \ gone
        /\ anchorCount'[o] = Decrease(anchorCount[o], Cardinality(anchors[o] \cap gone))
    BY <1>1 DEF DropAnchors
  <2>2. anchorCount[o] <= Cardinality(anchors[o])
    BY DEF AnchorCountBounded
  <2> QED BY <2>1, <2>2, AnchorCounts
<1>2. \A o \in Obj \ objs : anchors'[o] = anchors[o] /\ anchorCount'[o] = anchorCount[o]
  BY DEF DropAnchors
<1> QED BY <1>1, <1>2 DEF AnchorCountBounded

\* AnchorCountBounded is inductive.
LEMMA NextBound ==
    ASSUME TypeOK, AnchorCountBounded, [Next]_vars
    PROVE  AnchorCountBounded'
<1>1. DBTypeOK
  BY DEF TypeOK
<1>2. CASE ContentOp
  BY <1>1, <1>2, BoundFrame
  DEF ContentOp, PutObject, PutNew, PutOverShadow, SetChunkItem, rowVars, rootVars
<1>3. CASE RemoveOp
  <2>1. anchors' = anchors
    BY <1>3 DEF RemoveOp, RemoveObject, RemoveChunk, rootVars
  <2>2. \A o \in Obj : anchorCount'[o] = anchorCount[o] \/ anchorCount'[o] = 0
    BY <1>1, <1>3 DEF RemoveOp, RemoveObject, RemoveChunk, rowVars, DBTypeOK
  <2> QED BY <1>1, <2>1, <2>2, BoundFrame
<1>4. CASE PinOp(Obj, PinScope, PinLife)
  BY <1>1, <1>4, BoundFrame DEF PinOp, Pin, Unpin, UnpinOwner, DropPins
<1>5. CASE AnchorOp(Obj)
  BY <1>1, <1>5, AcquireBound, ReleaseBound DEF AnchorOp, FsRelease, FsReleaseInode
<1>6. CASE Clock \/ \E b \in Bucket : Expire(b)
  BY <1>1, <1>6, BoundFrame
  DEF Clock, TtlElapses, Expire, ExpirePins, DropPins, rowVars
<1>7. ASSUME NEW b \in Bucket, GcEvict(b) PROVE AnchorCountBounded'
  <2>1. PICK o \in Obj : TryEvict(o)
    BY <1>7 DEF GcEvict, TypeOK
  <2>2. anchors' = anchors
    BY <2>1 DEF TryEvict, rootVars
  <2>3. \A x \in Obj : anchorCount'[x] = anchorCount[x] \/ anchorCount'[x] = 0
    BY <1>1, <2>1 DEF TryEvict, DBTypeOK
  <2> QED BY <1>1, <2>2, <2>3, BoundFrame
<1>8. ASSUME NEW b \in Bucket, Deliver(b) \/ DeliverLostAck(b) PROVE AnchorCountBounded'
  BY <1>1, <1>8, BoundFrame DEF Deliver, DeliverLostAck, Arrive, ApplyEdge, rootVars
<1>9. ASSUME NEW b \in Bucket, SenderStep(b) \/ BackoffElapses(b) \/ GcStep(b) \/ Fault(b),
             ~GcEvict(b), ~Deliver(b), ~DeliverLostAck(b)
      PROVE  AnchorCountBounded'
  <2>1. anchors' = anchors /\ anchorCount' = anchorCount
    BY <1>9 DEF SenderStep, GcStep, Fault, Fetch, Complete, Retry, BackoffElapses,
      GcList, GcStop, DeliverFail, BookkeepingFails, Crash, dbVars, rowVars, rootVars
  <2> QED BY <1>1, <2>1, BoundFrame
<1>10. CASE UNCHANGED vars
  BY <1>1, <1>10, BoundFrame DEF vars, dbVars, rowVars, rootVars
<1> QED BY <1>2, <1>3, <1>4, <1>5, <1>6, <1>7, <1>8, <1>9, <1>10 DEF Next, ClientOp

\* Releasing every anchor of an object always brings its counter to zero,
\* whatever was removed behind the GC's back.
THEOREM AnchorCountIsBounded == Spec => []AnchorCountBounded
<1>1. Init => AnchorCountBounded
  BY FS_EmptySet DEF Init, DBInit, EmptyTables, AnchorCountBounded
<1>2. TypeOK /\ AnchorCountBounded /\ [Next]_vars => AnchorCountBounded'
  BY NextBound
<1> QED BY <1>1, <1>2, TypeCorrect, PTL DEF Spec

-----------------------------------------------------------------------------
(* Cascades *)

\* Some active pin of o waits for content.
WaitingPin(o) == \E w \in Owner : Active(pins[o][w]) /\ pins[o][w].cascade = "Pending"

\* CascadesExact for one object, with what the promotion of a put relies on:
\* only recursive pins wait, and a waiting anchor is an anchor.
CascadeRow(o) ==
    /\ o \notin wiped /\ ~HasExpiredPin(o) => expanded[o] = ShouldExpand(o)
    /\ o \notin wiped /\ (pending[o] # {} \/ WaitingPin(o)) => state[o] = "shadow"
    /\ \A w \in Owner : pins[o][w].cascade = "Pending" => pins[o][w].scope = "recursive"
    /\ pending[o] \subseteq anchors[o]

CascadesInv == \A o \in Obj : CascadeRow(o)

\* A step that leaves the columns and the roots of o alone.
LEMMA RowFrame ==
    ASSUME NEW o \in Obj, CascadeRow(o), wiped \subseteq wiped',
           state'[o] = state[o], expanded'[o] = expanded[o],
           anchorCount'[o] = anchorCount[o], pins'[o] = pins[o],
           anchors'[o] = anchors[o], pending'[o] = pending[o],
           HasIncoming(o)' <=> HasIncoming(o)
    PROVE  CascadeRow(o)'
<1>1. HasExpiredPin(o)' <=> HasExpiredPin(o)
  BY DEF HasExpiredPin
<1>2. WaitingPin(o)' <=> WaitingPin(o)
  BY DEF WaitingPin
<1>3. \A scope : HasScopedPin(o, scope)' <=> HasScopedPin(o, scope)
  BY DEF HasScopedPin
<1>4. ShouldExpand(o)' <=> ShouldExpand(o)
  BY <1>3 DEF ShouldExpand
<1>5. o \notin wiped' /\ ~HasExpiredPin(o)' => expanded'[o] = ShouldExpand(o)'
  BY <1>1, <1>4 DEF CascadeRow, ShouldExpand
<1> QED BY <1>2, <1>5 DEF CascadeRow

\* A step that leaves all of them alone.
LEMMA CascadeFrame ==
    ASSUME CascadesInv, wiped \subseteq wiped',
           UNCHANGED <<state, expanded, anchorCount, pins, anchors, pending, incoming>>
    PROVE  CascadesInv'
<1>1. \A o \in Obj : HasIncoming(o)' <=> HasIncoming(o)
  BY DEF HasIncoming
<1> QED BY <1>1, RowFrame DEF CascadesInv

\* A transaction that reconciles objs and leaves the others alone.
LEMMA CascadeStep ==
    ASSUME CascadesInv, NEW objs, NEW b, Reconcile(b, objs), wiped' = wiped,
           \A o \in Obj \ objs :
               /\ state'[o] = state[o] /\ anchorCount'[o] = anchorCount[o]
               /\ pins'[o] = pins[o] /\ anchors'[o] = anchors[o]
               /\ pending'[o] = pending[o]
               /\ HasIncoming(o)' <=> HasIncoming(o),
           \A o \in Obj : o \in objs =>
               /\ o \notin wiped /\ (pending'[o] # {} \/ WaitingPin(o)') => state'[o] = "shadow"
               /\ \A w \in Owner : pins'[o][w].cascade = "Pending" => pins'[o][w].scope = "recursive"
               /\ pending'[o] \subseteq anchors'[o]
    PROVE  CascadesInv'
<1> SUFFICES ASSUME NEW o \in Obj PROVE CascadeRow(o)'
  BY DEF CascadesInv
<1>1. CASE o \in objs
  <2>1. expanded'[o] = ShouldExpand(o)'
    BY <1>1 DEF Reconcile
  <2> QED BY <1>1, <2>1 DEF CascadeRow
<1>2. CASE o \notin objs
  <2>1. expanded'[o] = expanded[o]
    BY <1>2 DEF Reconcile
  <2> QED BY <1>2, <2>1, RowFrame DEF CascadesInv
<1> QED BY <1>1, <1>2

\* The puts: a new row is asked for by nothing, a shadow row wakes its
\* cascades (put_object_in_tx, promote_anchor_cascade_state_on_present_tx).
LEMMA ContentCascades ==
    ASSUME DBTypeOK, RootsInv, ExpandedStored, CascadesInv, ContentOp
    PROVE  CascadesInv'
<1>1. ASSUME NEW o \in Obj, PutNew(o) PROVE CascadesInv'
  <2>1. UNCHANGED <<expanded, anchorCount, pins, anchors, pending, incoming, wiped>>
    BY <1>1 DEF PutNew, rootVars, edgeVars, histVars
  <2>2. \A x \in Obj : HasIncoming(x)' <=> HasIncoming(x)
    BY <2>1 DEF HasIncoming
  <2>3. state[o] = "absent" /\ \A x \in Obj \ {o} : state'[x] = state[x]
    BY <1>1 DEF PutNew, DBTypeOK
  <2>4. ASSUME NEW x \in Obj, x # o PROVE CascadeRow(x)'
    BY <2>1, <2>2, <2>3, <2>4, RowFrame DEF CascadesInv
  <2>5. CascadeRow(o)'
    <3>1. CascadeRow(o)
      BY DEF CascadesInv
    <3>2. expanded[o] = FALSE
      BY <2>3 DEF ExpandedStored, DBTypeOK
    <3>3. o \notin wiped => pending[o] = {} /\ ~WaitingPin(o)
      BY <2>3, <3>1 DEF CascadeRow
    <3>4. o \notin wiped => ~HasActivePin(o) /\ ~HasIncoming(o) /\ anchorCount[o] = 0
      BY <2>3, AnchorSets DEF RootsInv, NoOrphanRoots, AnchorCountExact
    <3>5. \A scope : HasScopedPin(o, scope)' => HasActivePin(o)
      BY <2>1 DEF HasScopedPin, HasActivePin
    <3>6. o \notin wiped => ShouldExpand(o)' = FALSE
      BY <2>1, <2>2, <3>4, <3>5 DEF ShouldExpand
    <3>7. WaitingPin(o)' <=> WaitingPin(o)
      BY <2>1 DEF WaitingPin
    <3> QED BY <2>1, <3>1, <3>2, <3>3, <3>6, <3>7 DEF CascadeRow
  <2> QED BY <2>4, <2>5 DEF CascadesInv
<1>2. ASSUME NEW o \in Obj, PutOverShadow(o) PROVE CascadesInv'
  <2>1. /\ UNCHANGED <<anchorCount, anchors, incoming, wiped>>
        /\ Reconcile(Home[o], {o}) /\ Promote(o)
        /\ state' = [state EXCEPT ![o] = "present"]
    BY <1>2 DEF PutOverShadow, histVars
  <2>2. \A x \in Obj \ {o} : pins'[x] = pins[x] /\ state'[x] = state[x] /\ pending'[x] = pending[x]
    BY <2>1 DEF Promote, DBTypeOK
  <2>3. pending'[o] = {}
    BY <2>1 DEF Promote, DBTypeOK
  <2>4. \A w \in Owner : pins'[o][w].cascade # "Pending"
    <3> SUFFICES ASSUME NEW w \in Owner PROVE pins'[o][w].cascade # "Pending"
      OBVIOUS
    <3>1. pins'[o][w] = IF pins[o][w].scope = "recursive"
                        THEN [pins[o][w] EXCEPT !.cascade = "Materializing"] ELSE pins[o][w]
      BY <2>1 DEF Promote, DBTypeOK
    <3>2. pins[o][w].cascade = "Pending" => pins[o][w].scope = "recursive"
      BY DEF CascadesInv, CascadeRow
    <3>3. pins[o][w] \in PinRow
      BY DEF DBTypeOK
    <3> QED BY <3>1, <3>2, <3>3 DEF PinRow
  <2>5. ~WaitingPin(o)'
    BY <2>4 DEF WaitingPin
  <2>6. \A x \in Obj : HasIncoming(x)' <=> HasIncoming(x)
    BY <2>1 DEF HasIncoming
  <2> QED BY <2>1, <2>2, <2>3, <2>4, <2>5, <2>6, CascadeStep
<1>3. ASSUME NEW c \in Chunk, NEW kind, SetChunkItem(c, kind) PROVE CascadesInv'
  BY <1>3, CascadeFrame DEF SetChunkItem, rowVars, rootVars, edgeVars, histVars
<1> QED BY <1>1, <1>2, <1>3 DEF ContentOp, PutObject

\* remove_object and remove_chunk take the object out of the claim.
LEMMA RemoveCascades ==
    ASSUME DBTypeOK, CascadesInv, RemoveOp
    PROVE  CascadesInv'
<1>1. PICK o \in Obj :
         /\ wiped' = wiped \cup {o} /\ UNCHANGED <<pins, anchors, pending>>
         /\ \A x \in Obj \ {o} : /\ state'[x] = state[x] /\ expanded'[x] = expanded[x]
                                 /\ anchorCount'[x] = anchorCount[x]
                                 /\ HasIncoming(x)' <=> HasIncoming(x)
  <2>1. ASSUME NEW o \in Obj, RemoveObject(o)
        PROVE  /\ wiped' = wiped \cup {o} /\ UNCHANGED <<pins, anchors, pending>>
               /\ \A x \in Obj \ {o} : /\ state'[x] = state[x] /\ expanded'[x] = expanded[x]
                                       /\ anchorCount'[x] = anchorCount[x]
                                       /\ HasIncoming(x)' <=> HasIncoming(x)
    BY <2>1 DEF RemoveObject, rootVars, edgeVars, DBTypeOK, HasIncoming
  <2>2. ASSUME NEW c \in Chunk, RemoveChunk(c)
        PROVE  /\ wiped' = wiped \cup {c} /\ UNCHANGED <<pins, anchors, pending>>
               /\ \A x \in Obj \ {c} : /\ state'[x] = state[x] /\ expanded'[x] = expanded[x]
                                       /\ anchorCount'[x] = anchorCount[x]
                                       /\ HasIncoming(x)' <=> HasIncoming(x)
    BY <2>2 DEF RemoveChunk, rowVars, rootVars, HasIncoming
  <2> QED BY <2>1, <2>2 DEF RemoveOp, DBAssumption
<1>2. ASSUME NEW x \in Obj, x # o PROVE CascadeRow(x)'
  BY <1>1, <1>2, RowFrame DEF CascadesInv
<1>3. CascadeRow(o)'
  BY <1>1 DEF CascadesInv, CascadeRow
<1> QED BY <1>2, <1>3 DEF CascadesInv

\* Deleting pins wakes and delays nothing.
LEMMA DropPinsCascades ==
    ASSUME DBTypeOK, CascadesInv, NEW b, NEW gone, DropPins(b, gone)
    PROVE  CascadesInv'
<1> DEFINE objs == {q[1] : q \in gone}
<1>1. /\ UNCHANGED <<state, anchorCount, anchors, pending, incoming, wiped>>
      /\ Reconcile(b, objs)
  BY DEF DropPins, histVars
<1>2. \A o \in Obj, w \in Owner : pins'[o][w] = pins[o][w] \/ pins'[o][w] = NoPin
  BY DEF DropPins
<1>3. \A o \in Obj \ objs : pins'[o] = pins[o]
  <2> SUFFICES ASSUME NEW o \in Obj, o \notin objs PROVE pins'[o] = pins[o]
    OBVIOUS
  <2>1. \A w \in Owner : <<o, w>> \notin gone
    OBVIOUS
  <2>2. pins'[o] = [w \in Owner |-> pins[o][w]]
    BY <2>1 DEF DropPins
  <2>3. pins[o] = [w \in Owner |-> pins[o][w]]
    BY DEF DBTypeOK
  <2> QED BY <2>2, <2>3
<1>4. \A o \in Obj : HasIncoming(o)' <=> HasIncoming(o)
  BY <1>1 DEF HasIncoming
<1>5. NoPin.cascade # "Pending"
  BY DEF NoPin
<1>6. ASSUME NEW o \in Obj
      PROVE  /\ WaitingPin(o)' => WaitingPin(o)
             /\ \A w \in Owner : pins'[o][w].cascade = "Pending" => pins'[o][w].scope = "recursive"
  BY <1>2, <1>5 DEF WaitingPin, CascadesInv, CascadeRow
<1> HIDE DEF objs
<1>7. ASSUME NEW o \in Obj
      PROVE  /\ o \notin wiped /\ (pending'[o] # {} \/ WaitingPin(o)') => state'[o] = "shadow"
             /\ pending'[o] \subseteq anchors'[o]
  BY <1>1, <1>6 DEF CascadesInv, CascadeRow
<1> QED BY <1>1, <1>3, <1>4, <1>6, <1>7, CascadeStep

\* A pin waits only where there is no content.
LEMMA PinCascades ==
    ASSUME DBTypeOK, DBTypeOK', CascadesInv, PinOp(Obj, PinScope, PinLife)
    PROVE  CascadesInv'
<1>1. ASSUME NEW o \in Obj, NEW w \in Owner, NEW scope \in PinScope,
             NEW life \in PinLife, Pin(o, w, scope, life)
      PROVE  CascadesInv'
  <2>1. /\ UNCHANGED <<anchorCount, anchors, pending, incoming, wiped>>
        /\ Reconcile(Home[o], {o}) /\ UpsertShadow(o)
    BY <1>1 DEF Pin, histVars
  <2>2. \A x \in Obj \ {o} : pins'[x] = pins[x] /\ state'[x] = state[x]
    BY <1>1, <2>1 DEF Pin, UpsertShadow, DBTypeOK
  <2>3. state'[o] = IF state[o] = "absent" THEN "shadow" ELSE state[o]
    BY <2>1 DEF UpsertShadow, DBTypeOK
  <2>4. PICK cascade : cascade = IF scope # "recursive" \/ state[o] = "present"
                                 THEN "Materializing" ELSE "Pending"
    OBVIOUS
  <2>5. /\ pins'[o][w] = [scope |-> scope, life |-> life, cascade |-> cascade]
        /\ \A v \in Owner \ {w} : pins'[o][v] = pins[o][v]
    BY <1>1, <2>4 DEF Pin, DBTypeOK
  <2>6. pins'[o][w].scope = scope /\ pins'[o][w].cascade = cascade
    BY <2>5
  <2>7. CascadeRow(o)
    BY DEF CascadesInv
  <2>8. \A v \in Owner : pins'[o][v].cascade = "Pending" => pins'[o][v].scope = "recursive"
    BY <2>4, <2>5, <2>6, <2>7 DEF CascadeRow
  <2>9. state[o] \in {"absent", "shadow", "present"}
    BY DEF DBTypeOK, ItemState
  <2>10. o \notin wiped /\ WaitingPin(o)' => state'[o] = "shadow"
    <3> SUFFICES ASSUME o \notin wiped, NEW v \in Owner, Active(pins'[o][v]), pins'[o][v].cascade = "Pending"
                 PROVE  state'[o] = "shadow"
      BY DEF WaitingPin
    <3>1. CASE v = w
      BY <2>3, <2>4, <2>6, <2>9, <3>1
    <3>2. CASE v # w
      BY <2>3, <2>5, <2>7, <3>2 DEF CascadeRow, WaitingPin
    <3> QED BY <3>1, <3>2
  <2>11. /\ o \notin wiped /\ pending'[o] # {} => state'[o] = "shadow"
         /\ pending'[o] \subseteq anchors'[o]
    BY <2>1, <2>3, <2>7 DEF CascadeRow
  <2>12. \A x \in Obj : HasIncoming(x)' <=> HasIncoming(x)
    BY <2>1 DEF HasIncoming
  <2> QED BY <2>1, <2>2, <2>8, <2>10, <2>11, <2>12, CascadeStep
<1>2. ASSUME NEW o \in Obj, NEW w \in Owner, Unpin(o, w) PROVE CascadesInv'
  BY <1>2, DropPinsCascades DEF Unpin
<1>3. ASSUME NEW b \in Bucket, NEW w \in Owner, UnpinOwner(b, w) PROVE CascadesInv'
  BY <1>3, DropPinsCascades DEF UnpinOwner
<1> QED BY <1>1, <1>2, <1>3 DEF PinOp

\* An anchor waits only where there is no content, and no longer than it is
\* an anchor.
LEMMA AnchorCascades ==
    ASSUME DBTypeOK, DBTypeOK', CascadesInv, AnchorOp(Obj)
    PROVE  CascadesInv'
<1>1. ASSUME NEW o \in Obj, NEW slot \in Slot, FsAcquire(o, slot) PROVE CascadesInv'
  <2>1. UNCHANGED <<pins, incoming, wiped>> /\ Reconcile(Home[o], {o}) /\ UpsertShadow(o)
    BY <1>1 DEF FsAcquire, histVars
  <2>2. \A x \in Obj \ {o} : /\ state'[x] = state[x] /\ anchors'[x] = anchors[x]
                             /\ anchorCount'[x] = anchorCount[x] /\ pending'[x] = pending[x]
    BY <1>1, <2>1 DEF FsAcquire, UpsertShadow, DBTypeOK
  <2>3. /\ state'[o] = IF state[o] = "absent" THEN "shadow" ELSE state[o]
        /\ state[o] \in {"absent", "shadow", "present"}
    BY <2>1 DEF UpsertShadow, DBTypeOK, ItemState
  <2>4. /\ anchors'[o] = anchors[o] \cup {slot}
        /\ pending'[o] = IF slot \in anchors[o] \/ state[o] = "present" THEN pending[o]
                         ELSE pending[o] \cup {slot}
    BY <1>1 DEF FsAcquire, DBTypeOK
  <2>5. CascadeRow(o)
    BY DEF CascadesInv
  <2>6. WaitingPin(o)' <=> WaitingPin(o)
    BY <2>1 DEF WaitingPin
  <2>7. /\ o \notin wiped /\ (pending'[o] # {} \/ WaitingPin(o)') => state'[o] = "shadow"
        /\ pending'[o] \subseteq anchors'[o]
    BY <2>3, <2>4, <2>5, <2>6 DEF CascadeRow
  <2>8. \A v \in Owner : pins'[o][v].cascade = "Pending" => pins'[o][v].scope = "recursive"
    BY <2>1, <2>5 DEF CascadeRow
  <2>9. \A x \in Obj : HasIncoming(x)' <=> HasIncoming(x)
    BY <2>1 DEF HasIncoming
  <2> QED BY <2>1, <2>2, <2>7, <2>8, <2>9, CascadeStep
<1>2. ASSUME NEW b, NEW objs, NEW gone, DropAnchors(b, objs, gone) PROVE CascadesInv'
  <2>1. UNCHANGED <<state, pins, incoming, wiped>> /\ Reconcile(b, objs)
    BY <1>2 DEF DropAnchors, histVars
  <2>2. \A o \in Obj \ objs : /\ anchors'[o] = anchors[o] /\ pending'[o] = pending[o]
                              /\ anchorCount'[o] = anchorCount[o]
    BY <1>2 DEF DropAnchors
  <2>3. \A o \in Obj : o \in objs => anchors'[o] = anchors[o] \ gone /\ pending'[o] = pending[o] \ gone
    BY <1>2 DEF DropAnchors
  <2>4. \A o \in Obj : (HasIncoming(o)' <=> HasIncoming(o)) /\ (WaitingPin(o)' <=> WaitingPin(o))
    BY <2>1 DEF HasIncoming, WaitingPin
  <2>5. \A o \in Obj : o \in objs =>
           /\ o \notin wiped /\ (pending'[o] # {} \/ WaitingPin(o)') => state'[o] = "shadow"
           /\ \A w \in Owner : pins'[o][w].cascade = "Pending" => pins'[o][w].scope = "recursive"
           /\ pending'[o] \subseteq anchors'[o]
    BY <2>1, <2>3, <2>4 DEF CascadesInv, CascadeRow
  <2> QED BY <2>1, <2>2, <2>4, <2>5, CascadeStep
<1> QED BY <1>1, <1>2 DEF AnchorOp, FsRelease, FsReleaseInode

\* apply_edge reconciles the object it reaches.
LEMMA ApplyCascades ==
    ASSUME DBTypeOK, CascadesInv, NEW e \in Entry, ApplyEdge(e)
    PROVE  CascadesInv'
<1>1. /\ UNCHANGED <<anchorCount, pins, anchors, pending, wiped>>
      /\ Reconcile(Home[e.referee], {e.referee}) /\ UpsertShadow(e.referee)
      /\ incoming' = IF e.op = "add" THEN incoming \cup {Pair(e)} ELSE incoming \ {Pair(e)}
  BY DEF ApplyEdge, rootVars, histVars
<1>2. e.referee \in Obj
  BY DEF Entry
<1>3. PICK o \in Obj : o = e.referee
  BY <1>2
<1>4. \A x \in Obj \ {o} : state'[x] = state[x] /\ (HasIncoming(x)' <=> HasIncoming(x))
  <2>1. \A x \in Obj \ {o} : state'[x] = state[x]
    BY <1>1, <1>3 DEF UpsertShadow, DBTypeOK
  <2>2. \A x \in Obj \ {o}, r \in Obj : <<x, r>> \in incoming' <=> <<x, r>> \in incoming
    BY <1>1, <1>3 DEF Pair
  <2> QED BY <2>1, <2>2 DEF HasIncoming
<1>5. state'[o] = IF state[o] = "absent" THEN "shadow" ELSE state[o]
  BY <1>1, <1>3 DEF UpsertShadow, DBTypeOK
<1>6. WaitingPin(o)' <=> WaitingPin(o)
  BY <1>1 DEF WaitingPin
<1>7. /\ o \notin wiped /\ (pending'[o] # {} \/ WaitingPin(o)') => state'[o] = "shadow"
      /\ \A w \in Owner : pins'[o][w].cascade = "Pending" => pins'[o][w].scope = "recursive"
      /\ pending'[o] \subseteq anchors'[o]
  BY <1>1, <1>5, <1>6 DEF CascadesInv, CascadeRow
<1>8. Reconcile(Home[o], {o})
  BY <1>1, <1>3
<1> QED BY <1>1, <1>4, <1>7, <1>8, CascadeStep

\* What try_evict_object deletes has no cascade.
LEMMA EvictCascades ==
    ASSUME DBTypeOK, RootsInv, CascadesInv, NEW o \in Obj, TryEvict(o)
    PROVE  CascadesInv'
<1>1. CASE Protected(o)
  BY <1>1, CascadeFrame DEF TryEvict, rootVars, edgeVars, histVars
<1>2. CASE ~Protected(o)
  <2>1. /\ state' = [state EXCEPT ![o] = "absent"]
        /\ expanded' = [expanded EXCEPT ![o] = FALSE]
        /\ anchorCount' = [anchorCount EXCEPT ![o] = 0]
        /\ UNCHANGED <<pins, anchors, pending, incoming, wiped>>
    BY <1>2 DEF TryEvict, rootVars, edgeVars
  <2>2. \A x \in Obj : HasIncoming(x)' <=> HasIncoming(x)
    BY <2>1 DEF HasIncoming
  <2>3. \A x \in Obj \ {o} : /\ state'[x] = state[x] /\ expanded'[x] = expanded[x]
                             /\ anchorCount'[x] = anchorCount[x]
    BY <2>1 DEF DBTypeOK
  <2>4. ASSUME NEW x \in Obj, x # o PROVE CascadeRow(x)'
    BY <2>1, <2>2, <2>3, <2>4, RowFrame DEF CascadesInv
  <2>5. CascadeRow(o)'
    <3>1. CascadeRow(o)
      BY DEF CascadesInv
    <3>2. state'[o] = "absent" /\ expanded'[o] = FALSE
      BY <2>1 DEF DBTypeOK
    <3>3. ShouldExpand(o)' = FALSE
      BY <3>2 DEF ShouldExpand
    <3>4. o \notin wiped => ~HasActivePin(o) /\ anchors[o] = {}
      BY <1>2, EvictUnheld DEF HeldBy
    <3>5. WaitingPin(o)' => HasActivePin(o)
      BY <2>1 DEF WaitingPin, HasActivePin
    <3> QED BY <2>1, <3>1, <3>2, <3>3, <3>4, <3>5 DEF CascadeRow
  <2> QED BY <2>4, <2>5 DEF CascadesInv
<1> QED BY <1>1, <1>2

\* A pin that passes expires_at suspends the claim about its object.
LEMMA ClockCascades ==
    ASSUME DBTypeOK, CascadesInv, NEW o \in Obj, NEW w \in Owner, TtlElapses(o, w)
    PROVE  CascadesInv'
<1>1. UNCHANGED <<state, expanded, anchorCount, anchors, pending, incoming, wiped>>
  BY DEF TtlElapses, rowVars, edgeVars, histVars
<1>2. pins' = [pins EXCEPT ![o][w].life = "expired"]
  BY DEF TtlElapses
<1>3. \A x \in Obj : HasIncoming(x)' <=> HasIncoming(x)
  BY <1>1 DEF HasIncoming
<1>4. \A x \in Obj \ {o} : pins'[x] = pins[x]
  BY <1>2 DEF DBTypeOK
<1>5. ASSUME NEW x \in Obj, x # o PROVE CascadeRow(x)'
  BY <1>1, <1>3, <1>4, <1>5, RowFrame DEF CascadesInv
<1>6. CascadeRow(o)'
  <2>1. /\ pins'[o][w].life = "expired" /\ pins'[o][w].scope = pins[o][w].scope
        /\ pins'[o][w].cascade = pins[o][w].cascade
        /\ \A v \in Owner \ {w} : pins'[o][v] = pins[o][v]
    BY <1>2 DEF DBTypeOK, PinRow
  <2>2. HasExpiredPin(o)'
    BY <2>1 DEF HasExpiredPin
  <2>3. WaitingPin(o)' => WaitingPin(o)
    BY <2>1 DEF WaitingPin, Active
  <2>4. \A v \in Owner : pins'[o][v].cascade = "Pending" => pins'[o][v].scope = "recursive"
    BY <2>1 DEF CascadesInv, CascadeRow
  <2> QED BY <1>1, <2>2, <2>3, <2>4 DEF CascadesInv, CascadeRow
<1> QED BY <1>5, <1>6 DEF CascadesInv

\* CascadesInv is inductive, given the types, the roots and the ledger.
LEMMA NextCascades ==
    ASSUME TypeOK, TypeOK', RootsInv, ExpandedStored, CascadesInv, [Next]_vars
    PROVE  CascadesInv'
<1>1. DBTypeOK /\ DBTypeOK'
  BY DEF TypeOK
<1>2. CASE ClientOp
  BY <1>1, <1>2, ContentCascades, RemoveCascades, PinCascades, AnchorCascades DEF ClientOp
<1>3. CASE Clock
  BY <1>1, <1>3, ClockCascades DEF Clock
<1>4. ASSUME NEW b \in Bucket, Expire(b) PROVE CascadesInv'
  BY <1>1, <1>4, DropPinsCascades DEF Expire, ExpirePins
<1>5. ASSUME NEW b \in Bucket, GcEvict(b) PROVE CascadesInv'
  <2>1. PICK o \in Obj : TryEvict(o)
    BY <1>5 DEF GcEvict, TypeOK
  <2> QED BY <1>1, <2>1, EvictCascades
<1>6. ASSUME NEW b \in Bucket, Deliver(b) \/ DeliverLostAck(b) PROVE CascadesInv'
  <2>1. PICK e \in Entry : ApplyEdge(e)
    BY <1>6 DEF Deliver, DeliverLostAck, Arrive, TypeOK
  <2> QED BY <1>1, <2>1, ApplyCascades
<1>7. ASSUME NEW b \in Bucket, SenderStep(b) \/ BackoffElapses(b) \/ GcStep(b) \/ Fault(b),
             ~GcEvict(b), ~Deliver(b), ~DeliverLostAck(b)
      PROVE  CascadesInv'
  <2>1. UNCHANGED <<state, expanded, anchorCount, pins, anchors, pending, incoming, wiped>>
    BY <1>7 DEF SenderStep, GcStep, Fault, Fetch, Complete, Retry, BackoffElapses,
      GcList, GcStop, DeliverFail, BookkeepingFails, Crash, dbVars, rowVars, rootVars,
      edgeVars, histVars
  <2> QED BY <2>1, CascadeFrame
<1>8. CASE UNCHANGED vars
  BY <1>8, CascadeFrame DEF vars, dbVars, rowVars, rootVars, edgeVars, histVars
<1> QED BY <1>2, <1>3, <1>4, <1>5, <1>6, <1>7, <1>8 DEF Next

\* Cascades follow the roots: an object not removed explicitly and without an
\* overdue pin is expanded exactly when a root asks for it, and no cascade
\* stays Pending over content (put_object_in_tx, reconcile_expand_state_tx).
THEOREM CascadesExactHolds == Spec => []CascadesExact
<1>1. Init => CascadesInv
  BY DEF Init, DBInit, EmptyTables, CascadesInv, CascadeRow, WaitingPin, ShouldExpand, Active, NoPin
<1>2. TypeOK /\ TypeOK' /\ RootsInv /\ LedgerInv /\ CascadesInv /\ [Next]_vars => CascadesInv'
  BY NextCascades DEF LedgerInv
<1>3. CascadesInv => CascadesExact
  BY DEF CascadesInv, CascadeRow, WaitingPin, CascadesExact, ExpandExact, PendingOnlyOnShadow
<1> QED BY <1>1, <1>2, <1>3, TypeCorrect, RootsInvariant, LedgerInvariant, PTL DEF Spec

-----------------------------------------------------------------------------
(* Whole trees *)

\* The edges at the children are edges of the object graph.
EdgesReal == \A q \in incoming : q[1] \in Child[q[2]]

\* apply_edge is given rows of an outbox only, so it invents no edge.
LEMMA NextEdgesReal ==
    ASSUME TypeOK, LedgerInv, EdgesReal, [Next]_vars
    PROVE  EdgesReal'
<1>1. ASSUME NEW b \in Bucket, NEW e \in batch[b], ApplyEdge(e) PROVE EdgesReal'
  <2>1. e \in outbox[b]
    BY <1>1 DEF LedgerInv, SenderHoldsRows, ReadyEntries
  <2>2. e.referee \in Child[e.referrer]
    BY <2>1 DEF LedgerInv, OutboxWellFormed
  <2>3. incoming' \subseteq incoming \cup {Pair(e)}
    BY <1>1 DEF ApplyEdge
  <2> QED BY <2>2, <2>3 DEF EdgesReal, Pair
<1>2. CASE incoming' \subseteq incoming
  BY <1>2 DEF EdgesReal
<1>3. CASE ClientOp
  <2>1. ContentOp \/ RemoveOp \/ PinOp(Obj, PinScope, PinLife) \/ AnchorOp(Obj)
    BY <1>3 DEF ClientOp
  <2>2. ContentOp => incoming' = incoming
    BY DEF ContentOp, PutObject, PutNew, PutOverShadow, SetChunkItem, edgeVars
  <2>3. RemoveOp => incoming' \subseteq incoming
    BY DEF RemoveOp, RemoveObject, RemoveChunk, edgeVars
  <2>4. PinOp(Obj, PinScope, PinLife) => incoming' = incoming
    BY DEF PinOp, Pin, Unpin, UnpinOwner, DropPins
  <2>5. AnchorOp(Obj) => incoming' = incoming
    BY DEF AnchorOp, FsAcquire, FsRelease, FsReleaseInode, DropAnchors
  <2> QED BY <1>2, <2>1, <2>2, <2>3, <2>4, <2>5
<1>4. CASE Clock
  BY <1>2, <1>4 DEF Clock, TtlElapses, edgeVars
<1>5. ASSUME NEW b \in Bucket, Expire(b) PROVE EdgesReal'
  BY <1>2, <1>5 DEF Expire, ExpirePins, DropPins
<1>6. ASSUME NEW b \in Bucket, Deliver(b) \/ DeliverLostAck(b) PROVE EdgesReal'
  BY <1>1, <1>6 DEF Deliver, DeliverLostAck, Arrive
<1>7. ASSUME NEW b \in Bucket, SenderStep(b) \/ BackoffElapses(b) \/ GcStep(b) \/ Fault(b),
             ~Deliver(b), ~DeliverLostAck(b)
      PROVE  EdgesReal'
  <2>1. incoming' = incoming
    BY <1>7 DEF SenderStep, GcStep, Fault, Fetch, Complete, Retry, BackoffElapses,
      GcList, GcEvict, TryEvict, GcStop, DeliverFail, BookkeepingFails, Crash, dbVars, edgeVars
  <2> QED BY <1>2, <2>1
<1>8. CASE UNCHANGED vars
  BY <1>2, <1>8 DEF vars, dbVars, edgeVars
<1> QED BY <1>3, <1>4, <1>5, <1>6, <1>7, <1>8 DEF Next

\* Tree is closed, and every closed set of objects holds it.
LEMMA TreeLeast ==
    /\ Closed(Tree) /\ Tree \subseteq Obj
    /\ \A S \in SUBSET Obj : Closed(S) => Tree \subseteq S
<1>1. TreeRoots \subseteq Tree
  BY DEF Tree, Closed, TreeRoots
<1>2. ASSUME NEW p \in Tree, Passes(p), NEW c \in Child[p] PROVE c \in Tree
  <2>1. p \in Obj /\ c \in Obj
    BY <1>2 DEF Tree, DBAssumption
  <2> SUFFICES ASSUME NEW S \in SUBSET Obj, Closed(S) PROVE c \in S
    BY <2>1 DEF Tree
  <2>2. p \in S
    BY DEF Tree
  <2> QED BY <1>2, <2>2 DEF Closed
<1> QED BY <1>1, <1>2 DEF Closed, Tree

\* Once settled, an object is expanded exactly when a root or an edge reaches
\* it and a cascade passes through it.
LEMMA SettledExpansion ==
    ASSUME TypeOK, RootsInv, CascadesExact, Settled, NEW o \in Obj
    PROVE  expanded[o] <=> Passes(o) /\ (o \in TreeRoots \/ HasIncoming(o))
<1>1. expanded[o] = ShouldExpand(o)
  BY DEF CascadesExact, ExpandExact, Settled
<1>2. anchorCount[o] > 0 <=> anchors[o] # {}
  <2>1. anchorCount[o] = Cardinality(anchors[o])
    BY DEF RootsInv, AnchorCountExact, Settled
  <2> QED BY <2>1, AnchorSets DEF TypeOK
<1> QED BY <1>1, <1>2 DEF ShouldExpand, Passes, TreeRoots

\* Once settled, the edges at the children are those of the expanded objects.
LEMMA SettledEdges ==
    ASSUME TypeOK, LedgerInv, EdgesReal, Settled, NEW c \in Obj, NEW p \in Obj
    PROVE  <<c, p>> \in incoming <=> expanded[p] /\ c \in Child[p]
<1>1. PendingFor(c, p) = {}
  <2>1. Home[p] \in Bucket
    BY DEF DBAssumption
  <2> QED BY <2>1 DEF PendingFor, Settled, Quiet
<1>2. Intact(c, p)
  BY DEF Intact, Settled
<1>3. c \in Child[p] => (<<c, p>> \in incoming <=> expanded[p])
  BY <1>1, <1>2 DEF LedgerInv, EdgeLedger
<1>4. <<c, p>> \in incoming => c \in Child[p]
  BY DEF EdgesReal
<1> QED BY <1>3, <1>4

\* The objects that a root or an edge holds are closed under cascades.
LEMMA HeldClosed ==
    ASSUME TypeOK, RootsInv, CascadesExact, LedgerInv, EdgesReal, Settled
    PROVE  Closed({o \in Obj : o \in TreeRoots \/ HasIncoming(o)})
<1> DEFINE Held == {o \in Obj : o \in TreeRoots \/ HasIncoming(o)}
<1>1. TreeRoots \subseteq Held
  BY DEF TreeRoots
<1>2. ASSUME NEW p \in Held, Passes(p), NEW c \in Child[p] PROVE c \in Held
  <2>1. p \in Obj /\ c \in Obj
    BY DEF DBAssumption
  <2>2. expanded[p]
    BY <1>2, <2>1, SettledExpansion
  <2>3. <<c, p>> \in incoming
    BY <1>2, <2>1, <2>2, SettledEdges
  <2> QED BY <2>1, <2>3 DEF HasIncoming
<1> HIDE DEF Held
<1>3. Closed(Held)
  BY <1>1, <1>2 DEF Closed
<1> QED BY <1>3 DEF Held

\* Once settled, an expanded object is in a tree: among the expanded objects
\* outside the trees there would be one that none of them refers to, which is
\* neither a root nor referred to from a tree.
LEMMA ExpandedInTree ==
    ASSUME TypeOK, RootsInv, CascadesExact, LedgerInv, EdgesReal, Settled
    PROVE  \A o \in Obj : expanded[o] => o \in Tree
<1> DEFINE Stray == {o \in Obj : expanded[o] /\ o \notin Tree}
<1>1. SUFFICES Stray = {}
  OBVIOUS
<1>2. SUFFICES ASSUME Stray # {} PROVE FALSE
  OBVIOUS
<1>3. PICK o \in Stray : \A r \in Stray : o \notin Child[r]
  BY <1>2, AcyclicAssumption
<1>4. o \in TreeRoots \/ HasIncoming(o)
  BY <1>3, SettledExpansion
<1>5. o \notin TreeRoots
  BY <1>3, TreeLeast DEF Closed
<1>6. PICK r \in Obj : <<o, r>> \in incoming
  BY <1>4, <1>5 DEF HasIncoming
<1>7. expanded[r] /\ o \in Child[r]
  BY <1>3, <1>6, SettledEdges
<1>8. r \in Tree
  BY <1>3, <1>7
<1>9. Passes(r)
  BY <1>7, SettledExpansion
<1> QED BY <1>3, <1>7, <1>8, <1>9, TreeLeast DEF Closed

\* The invariants that the theorems about whole trees combine.
LEMMA TreeInvariants ==
    Spec => [](TypeOK /\ RootsInv /\ CascadesExact /\ LedgerInv /\ EdgesReal)
<1>1. Init => EdgesReal
  BY DEF Init, DBInit, EmptyTables, EdgesReal
<1>2. TypeOK /\ LedgerInv /\ EdgesReal /\ [Next]_vars => EdgesReal'
  BY NextEdgesReal
<1> QED
  BY <1>1, <1>2, TypeCorrect, RootsInvariant, CascadesExactHolds, LedgerInvariant, PTL DEF Spec

\* Whole trees are protected: once the outboxes are empty and no pin is
\* overdue, every object below an anchored or recursively pinned root has a
\* row that eviction skips (reconcile_expand_state_tx, apply_edge,
\* recompute_eviction_class_tx, outbox_sender.rs), for every object graph.
THEOREM TreeProtectedHolds == Spec => []TreeProtected
<1>1. TypeOK /\ RootsInv /\ CascadesExact /\ LedgerInv /\ EdgesReal => TreeProtected
  <2> SUFFICES ASSUME TypeOK, RootsInv, CascadesExact, LedgerInv, EdgesReal, Settled,
                      NEW o \in Tree
               PROVE  state[o] # "absent" /\ evictionClass[o] >= 1
    BY DEF TreeProtected
  <2>1. o \in Obj /\ (o \in TreeRoots \/ HasIncoming(o))
    BY HeldClosed, TreeLeast
  <2>2. HasActivePin(o) \/ anchors[o] # {} \/ HasIncoming(o)
    BY <2>1 DEF TreeRoots, HasScopedPin, HasActivePin
  <2>3. o \notin wiped
    BY DEF Settled
  <2> QED BY <2>1, <2>2, <2>3 DEF RootsInv, NoOrphanRoots, ClassProtects
<1> QED BY <1>1, TreeInvariants, PTL

\* Nothing leaks: once the outboxes are empty and no pin is overdue, an edge
\* that holds an object back comes from an object of a tree that a cascade
\* passes through, so releasing the roots releases everything.
THEOREM NoLeakHolds == Spec => []NoLeak
<1>1. TypeOK /\ RootsInv /\ CascadesExact /\ LedgerInv /\ EdgesReal => NoLeak
  <2> SUFFICES ASSUME TypeOK, RootsInv, CascadesExact, LedgerInv, EdgesReal, Settled,
                      NEW q \in incoming
               PROVE  q[2] \in Tree /\ Passes(q[2])
    BY DEF NoLeak
  <2>1. PICK c \in Obj, p \in Obj : q = <<c, p>>
    BY DEF TypeOK, DBTypeOK
  <2>2. expanded[p]
    BY <2>1, SettledEdges
  <2>3. p \in Tree
    BY <2>2, ExpandedInTree
  <2>4. Passes(p)
    BY <2>2, SettledExpansion
  <2> QED BY <2>1, <2>3, <2>4
<1> QED BY <1>1, TreeInvariants, PTL

=============================================================================
