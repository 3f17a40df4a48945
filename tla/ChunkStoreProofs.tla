-------------------------- MODULE ChunkStoreProofs --------------------------
(***************************************************************************)
(* The order "file, then row" of put_chunk_by_reader, for any number of    *)
(* chunks and callers: RowHasBlob and AckedRecorded are invariants of      *)
(* ChunkStore.  And the manager above the stores, for any layouts, stores  *)
(* and number of operations: Found, GoneStays and StoredMeansAll are        *)
(* invariants of DataMgr.                                                   *)
(***************************************************************************)
EXTENDS ChunkStore, DataMgr, WellFoundedInduction, TLAPS

\* A blob has a row, or a writer is about to record it, unless the chunk was
\* removed or a writer stopped half way.
VisibleRecorded ==
    \A c \in visible \ (removed \cup interrupted) :
        item[c] # "absent" \/ \E p \in Proc : c \in Unrecorded(p)

\* An acknowledged chunk has a blob unless it was removed.
AckedVisible == acked \subseteq removed \cup visible

StoreInv ==
    TypeOK /\ WrittenVisible /\ RowHasBlob /\ VisibleRecorded /\ AckedVisible

\* The steps that start a call or let the backend serve it keep the rows.
LEMMA CallStore ==
    ASSUME StoreInv, NEW p \in Proc, NEW c \in Chunk, NEW valid \in BOOLEAN,
           PutChunk(p, c, valid) \/ RemoveChunk(p, c)
    PROVE  StoreInv'
<1> DEFINE j == job'[p]
<1>1. /\ job[p] = Idle /\ UNCHANGED <<visible, item, acked, interrupted>>
      /\ j \in WriteJob \/ (j \in RemoveJob /\ j.chunk \in removed')
      /\ outcome'[p] = "none" /\ removed \subseteq removed' /\ removed' \in SUBSET Chunk
      /\ \A q \in Proc \ {p} : job'[q] = job[q] /\ outcome'[q] = outcome[q]
  BY DEF StoreInv, TypeOK, ContractTypeOK, PutChunk, RemoveChunk, Call, storeVars,
         WriteJob, RemoveJob
<1>2. TypeOK'
  BY DEF StoreInv, TypeOK, ContractTypeOK, PutChunk, RemoveChunk, Call, storeVars,
         Job, WriteJob, RemoveJob, Outcome
<1>3. WrittenVisible'
  <2> SUFFICES ASSUME NEW q \in Proc
               PROVE  /\ job'[q] # Idle /\ outcome'[q] \in {"Written", "AlreadyExists"} =>
                           job'[q] \in WriteJob /\ job'[q].chunk \in removed' \cup visible'
                      /\ job'[q] # Idle /\ outcome'[q] = "Ok" => job'[q] \in RemoveJob
                      /\ job'[q] # Idle /\ job'[q].op = "remove" => job'[q].chunk \in removed'
    BY DEF WrittenVisible
  <2>1. CASE q = p
    BY <1>1, <2>1 DEF WriteJob
  <2>2. CASE q # p
    BY <1>1, <2>2 DEF StoreInv, WrittenVisible
  <2> QED BY <2>1, <2>2
<1>4. RowHasBlob'
  BY <1>1 DEF StoreInv, RowHasBlob
<1>5. \A q \in Proc : Unrecorded(q)' = Unrecorded(q)
  BY <1>1 DEF Unrecorded
<1>6. VisibleRecorded' /\ AckedVisible'
  BY <1>1, <1>5 DEF StoreInv, VisibleRecorded, AckedVisible
<1> QED BY <1>2, <1>3, <1>4, <1>6 DEF StoreInv

\* The backend makes a chunk invisible only on a removal.
LEMMA BackendStore ==
    ASSUME StoreInv, NEW p \in Proc, BackendStep(p)
    PROVE  StoreInv'
<1>1. /\ outcome[p] = "none" /\ UNCHANGED <<job, item, acked, removed, interrupted>>
      /\ job[p] # Idle /\ job[p] \in Job
      /\ outcome' = [outcome EXCEPT ![p] = outcome'[p]] /\ outcome'[p] \in Outcome
      /\ \A q \in Proc \ {p} : outcome'[q] = outcome[q]
  BY DEF StoreInv, TypeOK, ContractTypeOK, BackendStep, Write, Discard, Effect,
         storeVars, Idle, Outcome
<1>2. CASE Write(p)
  <2>1. job[p] \in WriteJob /\ job[p].chunk \in Chunk
    BY <1>1, <1>2 DEF Write, Job, WriteJob, RemoveJob
  <2>2. /\ visible' = visible \/ visible' = visible \cup {job[p].chunk}
        /\ outcome'[p] \in {"Written", "AlreadyExists"} => job[p].chunk \in visible'
        /\ outcome'[p] # "Ok"
    BY <1>1, <1>2 DEF Write, Effect, StoreInv, TypeOK, ContractTypeOK
  <2>3. TypeOK'
    BY <1>1, <2>1, <2>2 DEF StoreInv, TypeOK, ContractTypeOK
  <2>4. WrittenVisible'
    BY <1>1, <2>1, <2>2 DEF StoreInv, WrittenVisible, WriteJob
  <2>5. RowHasBlob'
    BY <1>1, <2>2 DEF StoreInv, RowHasBlob
  <2>6. VisibleRecorded'
    <3>1. \A q \in Proc : Unrecorded(q) \subseteq Unrecorded(q)'
      BY <1>1 DEF Unrecorded
    <3>2. CASE visible' = visible
      BY <1>1, <3>1, <3>2 DEF StoreInv, VisibleRecorded
    <3>3. CASE visible' # visible
      <4>1. outcome'[p] = "Written" /\ visible' = visible \cup {job[p].chunk}
        BY <1>1, <1>2, <3>3 DEF Write, Effect, StoreInv, TypeOK, ContractTypeOK
      <4>2. job[p].chunk \in Unrecorded(p)'
        BY <1>1, <4>1 DEF Unrecorded
      <4> QED BY <1>1, <3>1, <4>1, <4>2 DEF StoreInv, VisibleRecorded
    <3> QED BY <3>2, <3>3
  <2>7. AckedVisible'
    BY <1>1, <2>2 DEF StoreInv, AckedVisible
  <2> QED BY <2>3, <2>4, <2>5, <2>6, <2>7 DEF StoreInv
<1>3. CASE Discard(p)
  <2>1. job[p] \in RemoveJob /\ job[p].chunk \in removed
    BY <1>1, <1>3 DEF Discard, Job, WriteJob, RemoveJob, StoreInv, WrittenVisible
  <2>2. /\ visible' = visible \/ visible' = visible \ {job[p].chunk}
        /\ outcome'[p] \in {"Ok", "Err"}
    BY <1>1, <1>3 DEF Discard, Effect, StoreInv, TypeOK, ContractTypeOK
  <2>3. TypeOK'
    BY <1>1, <2>1, <2>2 DEF StoreInv, TypeOK, ContractTypeOK
  <2>4. WrittenVisible'
    BY <1>1, <2>1, <2>2 DEF StoreInv, WrittenVisible
  <2>5. RowHasBlob'
    BY <1>1, <2>1, <2>2 DEF StoreInv, RowHasBlob
  <2>6. \A q \in Proc : Unrecorded(q)' = Unrecorded(q)
    BY <1>1, <2>2 DEF Unrecorded
  <2>7. VisibleRecorded' /\ AckedVisible'
    BY <1>1, <2>1, <2>2, <2>6 DEF StoreInv, VisibleRecorded, AckedVisible
  <2> QED BY <2>3, <2>4, <2>5, <2>7 DEF StoreInv
<1> QED BY <1>2, <1>3 DEF BackendStep

\* The end of an operation: the row, or the error, or the acknowledgement.
LEMMA ReturnStore ==
    ASSUME StoreInv, NEW p \in Proc,
           \/ BackendError(p) \/ PutExisting(p) \/ RecordChunk(p)
           \/ ForgetChunk(p) \/ DbError(p)
    PROVE  StoreInv'
<1> DEFINE c == job[p].chunk
<1>1. /\ job[p] # Idle /\ job[p] \in Job /\ c \in Chunk
      /\ job' = [job EXCEPT ![p] = Idle]
      /\ UNCHANGED <<visible, outcome, removed>>
  BY DEF StoreInv, TypeOK, ContractTypeOK, BackendError, PutExisting, RecordChunk,
         ForgetChunk, DbError, Return, storeVars, Job, WriteJob, RemoveJob, Idle
<1>2. /\ job'[p] = Idle
      /\ \A q \in Proc \ {p} : job'[q] = job[q]
  BY <1>1 DEF StoreInv, TypeOK, ContractTypeOK
<1>3. WrittenVisible'
  BY <1>1, <1>2 DEF StoreInv, WrittenVisible
<1>4. \A q \in Proc \ {p} : Unrecorded(q)' = Unrecorded(q)
  BY <1>1, <1>2 DEF Unrecorded
<1>5. Unrecorded(p) = IF outcome[p] = "Written" THEN {c} ELSE {}
  BY <1>1 DEF Unrecorded
<1>6. CASE BackendError(p) \/ PutExisting(p)
  <2>1. /\ UNCHANGED <<item, interrupted>> /\ Unrecorded(p) = {}
        /\ acked' = acked \/ (outcome[p] = "AlreadyExists" /\ acked' = acked \cup {c})
    BY <1>5, <1>6 DEF BackendError, PutExisting, storeVars
  <2>2. AckedVisible'
    BY <1>1, <2>1 DEF StoreInv, AckedVisible, WrittenVisible
  <2>3. TypeOK'
    BY <1>1, <2>1 DEF StoreInv, TypeOK, ContractTypeOK
  <2>4. RowHasBlob' /\ VisibleRecorded'
    BY <1>1, <1>4, <2>1 DEF StoreInv, RowHasBlob, VisibleRecorded
  <2> QED BY <1>3, <2>2, <2>3, <2>4 DEF StoreInv
<1>7. CASE RecordChunk(p)
  <2>1. /\ outcome[p] = "Written" /\ c \in removed \cup visible
        /\ item' = [item EXCEPT ![c] = "completed"]
        /\ acked' = acked \cup {c} /\ UNCHANGED interrupted
    BY <1>1, <1>7 DEF RecordChunk, StoreInv, WrittenVisible
  <2>2. TypeOK'
    BY <1>1, <2>1 DEF StoreInv, TypeOK, ContractTypeOK, ItemState
  <2>3. /\ item'[c] = "completed"
        /\ \A x \in Chunk \ {c} : item'[x] = item[x]
    BY <1>1, <2>1 DEF StoreInv, TypeOK
  <2>4. RowHasBlob' /\ AckedVisible'
    BY <1>1, <2>1, <2>3 DEF StoreInv, RowHasBlob, AckedVisible
  <2>5. VisibleRecorded'
    <3> SUFFICES ASSUME NEW x \in visible', x \notin removed' \cup interrupted'
                 PROVE  item'[x] # "absent" \/ \E q \in Proc : x \in Unrecorded(q)'
      BY DEF VisibleRecorded
    <3>1. x \in Chunk
      BY <1>1 DEF StoreInv, TypeOK, ContractTypeOK
    <3> QED BY <1>1, <1>4, <1>5, <2>1, <2>3, <3>1 DEF StoreInv, VisibleRecorded
  <2> QED BY <1>3, <2>2, <2>4, <2>5 DEF StoreInv
<1>8. CASE ForgetChunk(p)
  <2>1. /\ outcome[p] = "Ok" /\ c \in removed
        /\ item' = [item EXCEPT ![c] = "absent"] /\ UNCHANGED <<acked, interrupted>>
    BY <1>1, <1>8 DEF ForgetChunk, StoreInv, WrittenVisible, RemoveJob
  <2>2. TypeOK'
    BY <1>1, <2>1 DEF StoreInv, TypeOK, ContractTypeOK, ItemState
  <2>3. \A x \in Chunk \ {c} : item'[x] = item[x]
    BY <1>1, <2>1 DEF StoreInv, TypeOK
  <2>4. RowHasBlob' /\ AckedVisible'
    BY <1>1, <2>1, <2>3 DEF StoreInv, RowHasBlob, AckedVisible
  <2>5. VisibleRecorded'
    BY <1>1, <1>4, <1>5, <2>1, <2>3
    DEF StoreInv, VisibleRecorded, TypeOK, ContractTypeOK
  <2> QED BY <1>3, <2>2, <2>4, <2>5 DEF StoreInv
<1>9. CASE DbError(p)
  <2>1. UNCHANGED <<item, acked>> /\ interrupted' = interrupted \cup Unrecorded(p)
    BY <1>9 DEF DbError
  <2>2. TypeOK'
    BY <1>1, <1>5, <2>1 DEF StoreInv, TypeOK, ContractTypeOK
  <2>3. RowHasBlob' /\ AckedVisible'
    BY <1>1, <2>1 DEF StoreInv, RowHasBlob, AckedVisible
  <2>4. VisibleRecorded'
    BY <1>1, <1>4, <2>1 DEF StoreInv, VisibleRecorded
  <2> QED BY <1>3, <2>2, <2>3, <2>4 DEF StoreInv
<1> QED BY <1>6, <1>7, <1>8, <1>9

\* A row that is only a link or a SameAs mark needs no blob.
LEMMA AddItemStore ==
    ASSUME StoreInv, NEW c \in Chunk, NEW kind \in {"local_link", "same_as"},
           AddItem(c, kind)
    PROVE  StoreInv'
<1>1. /\ UNCHANGED <<visible, job, outcome, acked, removed, interrupted>>
      /\ item'[c] = kind /\ \A x \in Chunk \ {c} : item'[x] = item[x]
  BY DEF AddItem, contractVars, StoreInv, TypeOK
<1>2. TypeOK'
  BY <1>1 DEF AddItem, StoreInv, TypeOK, ContractTypeOK, ItemState
<1>3. WrittenVisible' /\ AckedVisible'
  BY <1>1 DEF StoreInv, WrittenVisible, AckedVisible
<1>4. RowHasBlob'
  BY <1>1 DEF StoreInv, RowHasBlob
<1>5. \A q \in Proc : Unrecorded(q)' = Unrecorded(q)
  BY <1>1 DEF Unrecorded
<1>6. VisibleRecorded'
  BY <1>1, <1>5 DEF StoreInv, VisibleRecorded, TypeOK, ContractTypeOK
<1> QED BY <1>2, <1>3, <1>4, <1>6 DEF StoreInv

\* A restart loses the calls in progress and marks what it interrupted.
LEMMA RestartStore ==
    ASSUME StoreInv, Restart
    PROVE  StoreInv'
<1>1. /\ UNCHANGED <<visible, item, acked, removed>>
      /\ job' = [p \in Proc |-> Idle] /\ outcome' = [p \in Proc |-> "none"]
      /\ interrupted' = interrupted \cup UNION {Unrecorded(p) : p \in Proc}
  BY DEF Restart, Crash
<1>2. \A p \in Proc : Unrecorded(p) \subseteq Chunk
  BY DEF Unrecorded, StoreInv, TypeOK, ContractTypeOK, Job, WriteJob, RemoveJob, Idle
<1>3. TypeOK'
  BY <1>1, <1>2 DEF StoreInv, TypeOK, ContractTypeOK, Outcome
<1>4. WrittenVisible' /\ AckedVisible' /\ RowHasBlob'
  BY <1>1 DEF StoreInv, WrittenVisible, AckedVisible, RowHasBlob
<1>5. VisibleRecorded'
  BY <1>1 DEF StoreInv, VisibleRecorded
<1> QED BY <1>3, <1>4, <1>5 DEF StoreInv

\* The inductive invariant of the chunk operations.
THEOREM StoreInvariant == Spec => []StoreInv
<1>1. Init => StoreInv
  BY DEF Init, ContractInit, StoreInv, TypeOK, ContractTypeOK, WrittenVisible,
         RowHasBlob, VisibleRecorded, AckedVisible, Outcome, ItemState
<1>2. StoreInv /\ [Next]_vars => StoreInv'
  <2> SUFFICES ASSUME StoreInv, [Next]_vars PROVE StoreInv'
    OBVIOUS
  <2>1. CASE UNCHANGED vars
    BY <2>1 DEF vars, contractVars, storeVars, StoreInv, TypeOK, ContractTypeOK,
      WrittenVisible, RowHasBlob, VisibleRecorded, AckedVisible, Unrecorded
  <2> QED
    BY <2>1, CallStore, BackendStore, ReturnStore, AddItemStore, RestartStore DEF Next
<1> QED BY <1>1, <1>2, PTL DEF Spec

\* A Completed row has its blob, unless remove_chunk was called on the chunk.
THEOREM RowHasBlobHolds == Spec => []RowHasBlob
<1>1. StoreInv => RowHasBlob
  BY DEF StoreInv
<1> QED BY <1>1, StoreInvariant, PTL

\* A put that returned Ok has a row or a concurrent writer about to add it,
\* unless the chunk was removed or a writer stopped half way.
THEOREM AckedRecordedHolds == Spec => []AckedRecorded
<1>1. StoreInv => AckedRecorded
  BY DEF StoreInv, AckedVisible, VisibleRecorded, AckedRecorded
<1> QED BY <1>1, StoreInvariant, PTL


-----------------------------------------------------------------------------
(* NamedDataMgr.                                                             *)

\* A nonempty set of numbers has a least member.
LEMMA LeastMember ==
    ASSUME NEW S \in SUBSET Nat, S # {}
    PROVE  /\ Min(S) \in S
           /\ \A y \in S : Min(S) <= y
<1> DEFINE R == OpToRel(<, Nat)
<1>1. IsWellFoundedOn(R, Nat)
  BY NatLessThanWellFounded
<1> HIDE DEF R
<1>2. PICK x \in S : \A y \in S : ~ (<<y, x>> \in R)
  BY <1>1, WFMin
<1>3. \A y \in S : ~ (y < x)
  BY <1>2 DEF R, OpToRel
<1>4. \A y \in S : x <= y
  BY <1>3
<1> QED
  BY <1>2, <1>4 DEF Min

\* An object is found exactly when the store of some layout has it.
LEMMA FoundByHit ==
    ASSUME NEW o, DOMAIN versions \subseteq Nat
    PROVE  (Get(o) # None) <=> (Hits(o) # {})
<1>1. CASE Hits(o) = {}
  BY <1>1 DEF Get
<1>2. CASE Hits(o) # {}
  <2>1. Hits(o) \in SUBSET Nat
    BY DEF Hits, Tried
  <2>2. Min(Hits(o)) \in Hits(o)
    BY <1>2, <2>1, LeastMember
  <2>3. At(o, Min(Hits(o))) # None
    BY <2>2 DEF Hits, Tried, At
  <2> QED
    BY <1>2, <2>3 DEF Get
<1> QED
  BY <1>1, <1>2
\* Layouts as they are built, newest first (add_layout).
Layout == [epoch : Nat, targets : Configs, table : {Table(t) : t \in Configs}]
Descending(vs) == \A i, j \in DOMAIN vs : i < j => vs[i].epoch > vs[j].epoch

\* A call goes to the store its layout selects for its object.
Routed(c) ==
    /\ c.obj \in Objs /\ c.store \in Stores /\ c.store # None
    /\ c.store = Target(c.under, c.obj)
    /\ c.what = "hold" => c.who \in Holders

\* A recorded put is still in the store its layout selects.
PutKept(o, wr) ==
    wr.store # None /\ wr.store = Target(wr.under, o) /\ <<wr.store, o>> \in has

LayoutsOK == versions \in Seq(Layout) /\ Descending(versions) /\ Len(versions) <= MaxVersions
StoresOK ==
    /\ regs \subseteq Stores /\ broken \subseteq Stores
    /\ has \subseteq Stores \X Objs /\ same \subseteq has
    /\ holds \subseteq Stores \X Objs \X Holders
CallsRouted == \A c \in calls : Routed(c)
PutsKept ==
    /\ wrote = [o \in Objs |-> wrote[o]]
    /\ \A o \in Objs : \A wr \in wrote[o] : PutKept(o, wr)
GoneMissed == \A o \in gone : o \in Objs /\ Rows(o) = {}

RouteInv == LayoutsOK /\ StoresOK /\ CallsRouted /\ PutsKept /\ GoneMissed

LEMMA LayoutsNat ==
    ASSUME versions \in Seq(Layout)
    PROVE  DOMAIN versions = 1 .. Len(versions) /\ Len(versions) \in Nat /\ DOMAIN versions \subseteq Nat
BY DEF Layout

\* add_layout keeps the layouts in descending order of epoch.
LEMMA OrderedOK ==
    ASSUME NEW vs \in Seq(Layout), Descending(vs), NEW v \in Layout
    PROVE  Ordered(vs, v) \in Seq(Layout) /\ Descending(Ordered(vs, v))
<1> DEFINE n == Len(vs)
           less == {k \in DOMAIN vs : vs[k].epoch < v.epoch} \cup {n + 1}
           pos == Min(less)
<1>1. n \in Nat /\ DOMAIN vs = 1 .. n /\ \A k \in 1 .. n : vs[k] \in Layout
  OBVIOUS
<1>2. /\ \A k \in 1 .. n : vs[k].epoch \in Nat
      /\ v.epoch \in Nat
  BY <1>1 DEF Layout
<1>3. \A i, j \in 1 .. n : i < j => vs[i].epoch > vs[j].epoch
  BY <1>1 DEF Descending
<1>4. CASE \E k \in DOMAIN vs : vs[k].epoch = v.epoch
  <2> DEFINE ws == [k \in 1 .. n |-> IF vs[k].epoch = v.epoch THEN v ELSE vs[k]]
  <2>1. Ordered(vs, v) = ws
    BY <1>1, <1>4 DEF Ordered
  <2>2. \A k \in 1 .. n : ws[k] \in Layout /\ ws[k].epoch = vs[k].epoch
    BY <1>1
  <2>3. DOMAIN ws = 1 .. n
    OBVIOUS
  <2>4. ws \in Seq(Layout)
    BY <1>1, <2>2
  <2> HIDE DEF ws
  <2>5. Descending(ws)
    BY <1>3, <2>2, <2>3 DEF Descending
  <2> QED
    BY <2>1, <2>4, <2>5
<1>5. CASE ~ \E k \in DOMAIN vs : vs[k].epoch = v.epoch
  <2> DEFINE ws == [k \in 1 .. n + 1 |-> IF k < pos THEN vs[k] ELSE IF k = pos THEN v ELSE vs[k - 1]]
  <2>1. Ordered(vs, v) = ws
    BY <1>1, <1>5 DEF Ordered
  <2>2. less \in SUBSET Nat /\ less # {} /\ less \subseteq 1 .. n + 1
    BY <1>1
  <2> HIDE DEF pos
  <2>3. pos \in less /\ \A y \in less : pos <= y
    BY <2>2, LeastMember DEF pos
  <2>4. pos \in 1 .. n + 1
    BY <2>2, <2>3
  <2>5. \A k \in 1 .. n : k < pos => vs[k].epoch > v.epoch
    <3> SUFFICES ASSUME NEW k \in 1 .. n, k < pos PROVE vs[k].epoch > v.epoch
      OBVIOUS
    <3>1. k \notin less
      BY <2>3, <2>4
    <3> QED
      BY <1>1, <1>2, <1>5, <3>1
  <2>6. \A k \in 1 .. n : k >= pos => vs[k].epoch < v.epoch
    <3> SUFFICES ASSUME NEW k \in 1 .. n, k >= pos PROVE vs[k].epoch < v.epoch
      OBVIOUS
    <3>1. pos \in 1 .. n /\ vs[pos].epoch < v.epoch
      BY <1>1, <2>3, <2>4
    <3> QED
      BY <1>2, <1>3, <3>1
  <2>7. \A k \in 1 .. n + 1 : ws[k] \in Layout
    BY <1>1, <2>4
  <2>8. ws \in Seq(Layout)
    BY <1>1, <2>7
  <2>9. \A i, j \in 1 .. n + 1 : i < j => ws[i].epoch > ws[j].epoch
    <3> SUFFICES ASSUME NEW i \in 1 .. n + 1, NEW j \in 1 .. n + 1, i < j
                 PROVE  ws[i].epoch > ws[j].epoch
      OBVIOUS
    <3>1. CASE j < pos
      BY <1>1, <1>3, <2>4, <3>1
    <3>2. CASE j = pos
      BY <1>1, <2>4, <2>5, <3>2
    <3>3. CASE j > pos
      <4>1. ws[j] = vs[j - 1] /\ j - 1 \in 1 .. n /\ vs[j - 1].epoch < v.epoch
        BY <1>1, <2>4, <2>6, <3>3
      <4>2. CASE i < pos
        <5>1. ws[i] = vs[i] /\ i \in 1 .. n /\ vs[i].epoch > v.epoch
          BY <1>1, <2>4, <2>5, <4>2
        <5> QED
          BY <1>2, <4>1, <5>1
      <4>3. CASE i = pos
        BY <1>1, <1>2, <4>1, <4>3
      <4>4. CASE i > pos
        <5>1. ws[i] = vs[i - 1] /\ i - 1 \in 1 .. n
          BY <1>1, <2>4, <4>4
        <5> QED
          BY <1>3, <4>1, <5>1
      <4> QED
        BY <2>4, <4>2, <4>3, <4>4
    <3> QED
      BY <2>4, <3>1, <3>2, <3>3
  <2> QED
    BY <1>1, <2>1, <2>8, <2>9 DEF Descending
<1> QED
  BY <1>4, <1>5
\* A layout can only be dropped or a copy lost for a search to miss more.
LEMMA MissedStays ==
    ASSUME NEW o, Rows(o) = {}, regs' = regs, broken' = broken,
           DOMAIN versions' \subseteq DOMAIN versions,
           \A k \in DOMAIN versions' : versions'[k] = versions[k],
           \A s : <<s, o>> \in has' => <<s, o>> \in has
    PROVE  Rows(o)' = {}
BY DEF Rows, Tried, At, Row

LEMMA RouteInit ==
    ASSUME MgrInit
    PROVE  RouteInv
<1>1. PICK t \in Configs : versions = <<[epoch |-> 0, targets |-> t, table |-> Table(t)]>>
  BY DEF MgrInit
<1>2. LayoutsOK
  <2>1. Len(versions) = 1 /\ versions[1] \in Layout
    BY <1>1 DEF Layout
  <2>2. versions \in Seq(Layout) /\ DOMAIN versions = {1}
    BY <1>1, <2>1
  <2> QED
    BY <2>1, <2>2, MgrAssumption DEF LayoutsOK, Descending
<1>3. \A o : WriteStore(o) # None =>
           WriteStore(o) = Target(versions[1], o) /\ WriteStore(o) \in Stores
  BY DEF WriteStore, MgrInit
<1>4. PICK S \in {{}, Objs} :
          /\ has = {<<WriteStore(o), o>> : o \in {x \in S : WriteStore(x) # None}}
          /\ wrote = [o \in Objs |-> IF o \in S /\ WriteStore(o) # None
                                     THEN {[under |-> versions[1], store |-> WriteStore(o)]} ELSE {}]
  BY DEF MgrInit
<1>5. StoresOK
  BY <1>3, <1>4 DEF MgrInit, StoresOK
<1>6. PutsKept
  <2>1. \A o \in Objs : \A wr \in wrote[o] : PutKept(o, wr)
    BY <1>3, <1>4 DEF PutKept
  <2> QED
    BY <1>4, <2>1 DEF PutsKept
<1>7. CallsRouted /\ GoneMissed
  BY DEF MgrInit, CallsRouted, GoneMissed
<1> QED
  BY <1>2, <1>5, <1>6, <1>7 DEF RouteInv

\* A new layout, a dropped one, a store that comes, goes or fails.
LEMMA RouteLayouts ==
    ASSUME RouteInv,
           \/ \E e \in 0 .. MaxEpoch, t \in Configs : AddLayout(e, t)
           \/ Compact
           \/ \E s \in Stores : Register(s) \/ Fault(s)
    PROVE  RouteInv'
<1>1. /\ UNCHANGED <<has, same, holds, calls, wrote>>
      /\ gone' = {} \/ (Compact /\ gone' = gone)
  BY DEF AddLayout, Compact, Register, Fault
<1>2. CallsRouted' /\ PutsKept'
  BY <1>1 DEF RouteInv, CallsRouted, PutsKept, PutKept, Routed
<1>3. StoresOK'
  BY <1>1 DEF RouteInv, StoresOK, AddLayout, Compact, Register, Fault
<1>4. LayoutsOK'
  <2>1. CASE \E e \in 0 .. MaxEpoch, t \in Configs : AddLayout(e, t)
    <3>1. PICK e \in 0 .. MaxEpoch, t \in Configs : AddLayout(e, t)
      BY <2>1
    <3> DEFINE v == [epoch |-> e, targets |-> t, table |-> Table(t)]
    <3>2. v \in Layout
      BY MgrAssumption DEF Layout
    <3>3. PICK all : all = Ordered(versions, v)
      OBVIOUS
    <3>4. all \in Seq(Layout) /\ Descending(all)
      BY <3>2, <3>3, OrderedOK DEF RouteInv, LayoutsOK
    <3>5. versions' = IF Len(all) > MaxVersions THEN SubSeq(all, 1, MaxVersions) ELSE all
      BY <3>1, <3>3 DEF AddLayout
    <3>6. CASE Len(all) > MaxVersions
      <4>1. PICK cut : cut = SubSeq(all, 1, MaxVersions)
        OBVIOUS
      <4>2. /\ cut \in Seq(Layout) /\ Len(cut) = MaxVersions
            /\ \A k \in 1 .. MaxVersions : cut[k] = all[k]
        BY <3>4, <3>6, <4>1, MgrAssumption
      <4>3. DOMAIN cut = 1 .. MaxVersions /\ DOMAIN cut \subseteq DOMAIN all
        BY <3>4, <3>6, <4>2, MgrAssumption
      <4>4. Descending(cut)
        BY <3>4, <4>2, <4>3 DEF Descending
      <4> QED
        BY <3>5, <3>6, <4>1, <4>2, <4>4, MgrAssumption DEF LayoutsOK
    <3>7. CASE ~ (Len(all) > MaxVersions)
      BY <3>4, <3>5, <3>7, MgrAssumption DEF LayoutsOK
    <3> QED
      BY <3>6, <3>7
  <2>2. CASE Compact
    <3>1. versions \in Seq(Layout) /\ Len(versions) > 1 /\ versions' = SubSeq(versions, 1, 1)
      BY <2>2 DEF Compact, RouteInv, LayoutsOK
    <3>2. versions' \in Seq(Layout) /\ Len(versions') = 1
      BY <3>1
    <3>3. DOMAIN versions' = {1}
      BY <3>2
    <3> QED
      BY <3>2, <3>3, MgrAssumption DEF LayoutsOK, Descending
  <2>3. CASE \E s \in Stores : Register(s) \/ Fault(s)
    BY <2>3 DEF Register, Fault, RouteInv, LayoutsOK, Descending
  <2> QED
    BY <2>1, <2>2, <2>3
<1>5. GoneMissed'
  <2>1. CASE gone' = {}
    BY <2>1 DEF GoneMissed
  <2>2. CASE Compact /\ gone' = gone
    <3>1. versions \in Seq(Layout) /\ Len(versions) > 1 /\ versions' = SubSeq(versions, 1, 1)
      BY <2>2 DEF Compact, RouteInv, LayoutsOK
    <3>2. /\ DOMAIN versions' \subseteq DOMAIN versions
          /\ \A k \in DOMAIN versions' : versions'[k] = versions[k]
      BY <3>1
    <3>3. regs' = regs /\ broken' = broken /\ has' = has
      BY <2>2 DEF Compact
    <3> QED
      BY <2>2, <3>2, <3>3, MissedStays DEF RouteInv, GoneMissed
  <2> QED
    BY <1>1, <2>1, <2>2
<1> QED
  BY <1>2, <1>3, <1>4, <1>5 DEF RouteInv

\* A call selects its store by the newest layout.
LEMMA RouteSelect ==
    ASSUME RouteInv, NEW o \in Objs, NEW what, NEW h, what = "hold" => h \in Holders,
           Select(what, o, h)
    PROVE  RouteInv'
<1>1. /\ UNCHANGED <<versions, regs, broken, has, same, holds, wrote, gone>>
      /\ WriteStore(o) # None
      /\ calls' = calls \cup {[what |-> what, obj |-> o, who |-> h, store |-> WriteStore(o), under |-> versions[1]]}
  BY DEF Select
<1>2. WriteStore(o) = Target(versions[1], o) /\ WriteStore(o) \in Stores
  BY <1>1 DEF WriteStore, RouteInv, StoresOK
<1>3. \A c \in calls' : Routed(c)
  BY <1>1, <1>2 DEF Routed, RouteInv, CallsRouted
<1>4. CallsRouted'
  BY <1>3 DEF CallsRouted, Routed
<1>5. LayoutsOK' /\ StoresOK' /\ PutsKept'
  BY <1>1 DEF RouteInv, LayoutsOK, StoresOK, PutsKept, PutKept, Descending
<1>6. GoneMissed'
  BY <1>1 DEF RouteInv, GoneMissed, Rows, Tried, At, Row
<1> QED
  BY <1>4, <1>5, <1>6 DEF RouteInv

\* A call that lands records the put with the layout that routed it.
LEMMA RouteLand ==
    ASSUME RouteInv, NEW c \in calls, Land(c)
    PROVE  RouteInv'
<1> DEFINE at == <<c.store, c.obj>>
           hold == <<c.store, c.obj, c.who>>
           put == c.what \in {"put", "same"} /\ c.store \notin broken
<1>1. Routed(c)
  BY DEF RouteInv, CallsRouted
<1>2. /\ UNCHANGED <<versions, regs, broken>>
      /\ calls' = calls \ {c}
      /\ has' = IF put THEN has \cup {at} ELSE has
      /\ same' = IF put /\ at \notin has /\ c.what = "same" THEN same \cup {at} ELSE same
      /\ wrote' = IF put THEN [wrote EXCEPT ![c.obj] = {[under |-> c.under, store |-> c.store]}] ELSE wrote
      /\ gone' = IF put THEN gone \ {c.obj} ELSE gone
  BY DEF Land
<1>3. holds' = holds \/ (c.what = "hold" /\ holds' = holds \cup {hold}) \/ holds' = holds \ {hold}
  BY DEF Land
<1>4. LayoutsOK' /\ CallsRouted'
  BY <1>2 DEF RouteInv, LayoutsOK, CallsRouted, Routed, Descending
<1>5. StoresOK'
  <2>1. holds' \subseteq Stores \X Objs \X Holders
    BY <1>1, <1>3 DEF RouteInv, StoresOK, Routed
  <2>2. has' \subseteq Stores \X Objs /\ same' \subseteq has'
    BY <1>1, <1>2 DEF RouteInv, StoresOK, Routed
  <2> QED
    BY <1>2, <2>1, <2>2 DEF RouteInv, StoresOK
<1>6. PutsKept'
  <2>1. CASE put
    <3>1. PICK w : w = {[under |-> c.under, store |-> c.store]}
      OBVIOUS
    <3>2. wrote' = [wrote EXCEPT ![c.obj] = w]
      BY <1>2, <2>1, <3>1
    <3>3. /\ wrote' = [o \in Objs |-> wrote'[o]]
          /\ \A o \in Objs : wrote'[o] = IF o = c.obj THEN w ELSE wrote[o]
      BY <1>1, <3>2 DEF RouteInv, PutsKept, Routed
    <3>4. \A wr \in w : wr.store # None /\ wr.store = Target(wr.under, c.obj) /\ <<wr.store, c.obj>> \in has'
      BY <1>1, <1>2, <2>1, <3>1 DEF Routed
    <3>5. has \subseteq has'
      BY <1>2
    <3>6. \A o \in Objs : \A wr \in wrote'[o] :
             wr.store # None /\ wr.store = Target(wr.under, o) /\ <<wr.store, o>> \in has'
      BY <3>3, <3>4, <3>5 DEF RouteInv, PutsKept, PutKept
    <3> QED
      BY <3>3, <3>6 DEF PutsKept, PutKept
  <2>2. CASE ~put
    BY <1>2, <2>2 DEF RouteInv, PutsKept, PutKept
  <2> QED
    BY <2>1, <2>2
<1>7. GoneMissed'
  <2> SUFFICES ASSUME NEW o \in gone' PROVE o \in Objs /\ Rows(o)' = {}
    BY DEF GoneMissed
  <2>1. o \in gone /\ \A s : <<s, o>> \in has' => <<s, o>> \in has
    BY <1>2
  <2> QED
    BY <1>2, <2>1, MissedStays DEF RouteInv, GoneMissed
<1> QED
  BY <1>4, <1>5, <1>6, <1>7 DEF RouteInv
\* remove_object cuts the copies of every store the layouts reach.
LEMMA RouteRemove ==
    ASSUME RouteInv, NEW o \in Handled, RemoveObject(o)
    PROVE  RouteInv'
<1>1. PICK cut : cut = {<<s, o>> : s \in Reached(o) \ broken}
  OBVIOUS
<1>2. /\ UNCHANGED <<versions, regs, broken, holds, calls>>
      /\ has' = has \ cut /\ same' = same \ cut
      /\ wrote' = [wrote EXCEPT ![o] = {wr \in @ : <<wr.store, o>> \notin cut}]
      /\ gone' = IF Reached(o) \cap broken = {} THEN gone \cup {o} ELSE gone
  BY <1>1 DEF RemoveObject
<1>3. o \in Objs
  BY HandledAssumption
<1>4. LayoutsOK' /\ StoresOK' /\ CallsRouted'
  BY <1>2 DEF RouteInv, LayoutsOK, StoresOK, CallsRouted, Routed, Descending
<1>5. PutsKept'
  <2>1. PICK w : w = {wr \in wrote[o] : <<wr.store, o>> \notin cut}
    OBVIOUS
  <2>2. /\ wrote' = [x \in Objs |-> wrote'[x]]
        /\ \A x \in Objs : wrote'[x] = IF x = o THEN w ELSE wrote[x]
    BY <1>2, <1>3, <2>1 DEF RouteInv, PutsKept
  <2>3. \A x \in Objs : \A wr \in wrote'[x] : wr \in wrote[x] /\ <<wr.store, x>> \notin cut
    BY <1>1, <2>1, <2>2
  <2>4. \A x \in Objs : \A wr \in wrote'[x] :
           wr.store # None /\ wr.store = Target(wr.under, x) /\ <<wr.store, x>> \in has'
    BY <1>2, <2>3 DEF RouteInv, PutsKept, PutKept
  <2> QED
    BY <2>2, <2>4 DEF PutsKept, PutKept
<1>6. GoneMissed'
  <2> SUFFICES ASSUME NEW x \in gone' PROVE x \in Objs /\ Rows(x)' = {}
    BY DEF GoneMissed
  <2>1. CASE x \in gone
    BY <1>2, <2>1, MissedStays DEF RouteInv, GoneMissed
  <2>2. CASE x \notin gone
    <3>1. x = o /\ Reached(o) \cap broken = {}
      BY <1>2, <2>2
    <3>2. \A k \in Tried(o) : At(o, k) \in regs => <<At(o, k), o>> \in cut
      BY <1>1, <3>1 DEF Reached
    <3>3. \A k \in Tried(o) : At(o, k) \in regs => <<At(o, k), o>> \notin has'
      BY <1>2, <3>2
    <3>4. Rows(o)' = {k \in Tried(o) : At(o, k) \in regs /\ At(o, k) \notin broken /\ <<At(o, k), o>> \in has'}
      BY <1>2 DEF Rows, Tried, At, Row
    <3> QED
      BY <1>3, <3>1, <3>3, <3>4
  <2> QED
    BY <2>1, <2>2
<1> QED
  BY <1>4, <1>5, <1>6 DEF RouteInv

\* A store collects one object nobody holds there.
LEMMA RouteCollect ==
    ASSUME RouteInv, NEW s \in Stores, NEW o \in Handled, Collect(s, o)
    PROVE  RouteInv'
<1>1. /\ UNCHANGED <<versions, regs, broken, holds, calls, gone>>
      /\ has' = has \ {<<s, o>>} /\ same' = same \ {<<s, o>>}
      /\ wrote' = [wrote EXCEPT ![o] = {wr \in @ : wr.store # s \/ \E h \in Holders : <<s, o, h>> \in holds}]
      /\ ~ \E h \in Holders : <<s, o, h>> \in holds
  BY DEF Collect, Evictable
<1>2. o \in Objs
  BY HandledAssumption
<1>3. LayoutsOK' /\ StoresOK' /\ CallsRouted'
  BY <1>1 DEF RouteInv, LayoutsOK, StoresOK, CallsRouted, Routed, Descending
<1>4. PutsKept'
  <2>1. PICK w : w = {wr \in wrote[o] : wr.store # s \/ \E h \in Holders : <<s, o, h>> \in holds}
    OBVIOUS
  <2>2. /\ wrote' = [x \in Objs |-> wrote'[x]]
        /\ \A x \in Objs : wrote'[x] = IF x = o THEN w ELSE wrote[x]
    BY <1>1, <1>2, <2>1 DEF RouteInv, PutsKept
  <2>3. \A x \in Objs : \A wr \in wrote'[x] : wr \in wrote[x] /\ <<wr.store, x>> # <<s, o>>
    BY <1>1, <2>1, <2>2
  <2>4. \A x \in Objs : \A wr \in wrote'[x] :
           wr.store # None /\ wr.store = Target(wr.under, x) /\ <<wr.store, x>> \in has'
    BY <1>1, <2>3 DEF RouteInv, PutsKept, PutKept
  <2> QED
    BY <2>2, <2>4 DEF PutsKept, PutKept
<1>5. GoneMissed'
  BY <1>1, MissedStays DEF RouteInv, GoneMissed
<1> QED
  BY <1>3, <1>4, <1>5 DEF RouteInv

\* Letting go of holds, and the cache of inner paths, leave the copies alone.
LEMMA RouteRest ==
    ASSUME RouteInv,
           \/ \E h \in Holders : LetGoAll(h)
           \/ \E o \in Objs, path \in Paths : Resolve(o, path)
           \/ \E r \in resolved : PutKeys(r)
           \/ UNCHANGED mvars
    PROVE  RouteInv'
<1>1. /\ UNCHANGED <<versions, regs, broken, has, same, calls, wrote, gone>>
      /\ holds' \subseteq holds
  BY DEF LetGoAll, Resolve, PutKeys, mvars
<1>2. LayoutsOK' /\ CallsRouted' /\ PutsKept'
  BY <1>1 DEF RouteInv, LayoutsOK, CallsRouted, Routed, PutsKept, PutKept, Descending
<1>3. StoresOK'
  BY <1>1 DEF RouteInv, StoresOK
<1>4. GoneMissed'
  BY <1>1, MissedStays DEF RouteInv, GoneMissed
<1> QED
  BY <1>2, <1>3, <1>4 DEF RouteInv

\* RouteInv is an invariant of the manager.
THEOREM RouteInvariant == MgrSpec => []RouteInv
<1>1. MgrInit => RouteInv
  BY RouteInit
<1>2. RouteInv /\ [MgrNext]_mvars => RouteInv'
  <2> SUFFICES ASSUME RouteInv, [MgrNext]_mvars PROVE RouteInv'
    OBVIOUS
  <2>1. CASE \/ \E e \in 0 .. MaxEpoch, t \in Configs : AddLayout(e, t)
             \/ Compact
             \/ \E s \in Stores : Register(s) \/ Fault(s)
    BY <2>1, RouteLayouts
  <2>2. CASE \E s \in Stores, o \in Handled : Collect(s, o)
    BY <2>2, RouteCollect
  <2>3. CASE \E o \in Handled : RemoveObject(o)
    BY <2>3, RouteRemove
  <2>4. CASE \E o \in Handled, h \in Holders : Select("hold", o, h) \/ Select("letgo", o, h)
    <3>1. PICK o \in Handled, h \in Holders : Select("hold", o, h) \/ Select("letgo", o, h)
      BY <2>4
    <3>2. o \in Objs
      BY HandledAssumption
    <3> QED
      BY <3>1, <3>2, RouteSelect
  <2>5. CASE \E o \in Objs : Select("put", o, None) \/ Select("same", o, None)
    <3>1. "put" # "hold" /\ "same" # "hold"
      OBVIOUS
    <3> QED
      BY <2>5, <3>1, RouteSelect
  <2>6. CASE \E o \in Objs, c \in Objs : GetDirChild(o, c)
    <3>1. PICK c \in Objs : Select("put", c, None)
      BY <2>6 DEF GetDirChild
    <3>2. "put" # "hold"
      OBVIOUS
    <3> QED
      BY <3>1, <3>2, RouteSelect
  <2>7. CASE \E c \in calls : Land(c)
    BY <2>7, RouteLand
  <2>8. CASE \/ \E h \in Holders : LetGoAll(h)
             \/ \E o \in Objs, path \in Paths : Resolve(o, path)
             \/ \E r \in resolved : PutKeys(r)
             \/ UNCHANGED mvars
    BY <2>8, RouteRest
  <2> QED
    BY <2>1, <2>2, <2>3, <2>4, <2>5, <2>6, <2>7, <2>8 DEF MgrNext
<1> QED
  BY <1>1, <1>2, PTL DEF MgrSpec

\* MgrTypeOK, for any configuration of layouts and stores: among the rest, the
\* layouts stay in descending order of epoch and within the bound, so the
\* first one is the newest (add_layout).
THEOREM LayoutsOrdered == MgrSpec => []MgrTypeOK
<1>1. RouteInv => MgrTypeOK
  BY DEF RouteInv, LayoutsOK, StoresOK, CallsRouted, Routed, Descending, MgrTypeOK
<1> QED
  BY <1>1, RouteInvariant, PTL

-----------------------------------------------------------------------------
(* is_object_stored.                                                         *)

\* A big chunk is stored as a link to its list, and nothing else is.
LinkedExact ==
    /\ \A x \in has : x \in same <=> SameAs(x[2]) # None
    /\ \A c \in calls : c.what \in {"put", "same"} => (c.what = "same" <=> SameAs(c.obj) # None)

\* Puts, removals and collections keep LinkedExact.
LEMMA NextLinked ==
    ASSUME RouteInv, LinkedExact, [MgrNext]_mvars
    PROVE  LinkedExact'
<1>1. CASE UNCHANGED <<has, same, calls>>
  BY <1>1 DEF LinkedExact
<1>2. ASSUME NEW what, NEW o, NEW h, Select(what, o, h) PROVE LinkedExact'
  <2>1. PICK c : c = [what |-> what, obj |-> o, who |-> h, store |-> WriteStore(o), under |-> versions[1]]
    OBVIOUS
  <2>2. c.what = what /\ c.obj = o
    BY <2>1
  <2>3. calls' = calls \cup {c} /\ UNCHANGED <<has, same>>
    BY <1>2, <2>1 DEF Select
  <2>4. what \in {"put", "same"} => (what = "same" <=> SameAs(o) # None)
    BY <1>2 DEF Select
  <2> QED BY <2>2, <2>3, <2>4 DEF LinkedExact
<1>3. ASSUME NEW c \in calls, Land(c) PROVE LinkedExact'
  <2>1. PICK at : at = <<c.store, c.obj>>
    OBVIOUS
  <2>2. at[2] = c.obj
    BY <2>1
  <2>3. calls' = calls \ {c}
    BY <1>3 DEF Land
  <2>4. CASE c.what \in {"put", "same"} /\ c.store \notin broken
    <3>1. /\ has' = has \cup {at}
          /\ same' = IF at \notin has /\ c.what = "same" THEN same \cup {at} ELSE same
      BY <1>3, <2>1, <2>4 DEF Land
    <3>2. c.what = "same" <=> SameAs(c.obj) # None
      BY <2>4 DEF LinkedExact
    <3>3. same \subseteq has
      BY DEF RouteInv, StoresOK
    <3> QED BY <2>2, <2>3, <3>1, <3>2, <3>3 DEF LinkedExact
  <2>5. CASE ~(c.what \in {"put", "same"} /\ c.store \notin broken)
    <3>1. has' = has /\ same' = same
      BY <1>3, <2>5 DEF Land
    <3> QED BY <2>3, <3>1 DEF LinkedExact
  <2> QED BY <2>4, <2>5
<1>4. ASSUME NEW cut, has' = has \ cut, same' = same \ cut, calls' = calls PROVE LinkedExact'
  BY <1>4 DEF LinkedExact
<1>5. CASE \/ \E e \in 0 .. MaxEpoch, t \in Configs : AddLayout(e, t)
           \/ Compact
           \/ \E s \in Stores : Register(s) \/ Fault(s)
           \/ \E h \in Holders : LetGoAll(h)
           \/ \E o \in Objs, path \in Paths : Resolve(o, path)
           \/ \E r \in resolved : PutKeys(r)
           \/ UNCHANGED mvars
  BY <1>1, <1>5 DEF AddLayout, Compact, Register, Fault, LetGoAll, Resolve, PutKeys, mvars
<1>6. CASE \E s \in Stores, o \in Handled : Collect(s, o)
  <2>1. PICK s \in Stores, o \in Handled : Collect(s, o)
    BY <1>6
  <2> QED BY <1>4, <2>1 DEF Collect
<1>7. CASE \E o \in Handled : RemoveObject(o)
  <2>1. PICK o \in Handled : RemoveObject(o)
    BY <1>7
  <2> QED BY <1>4, <2>1 DEF RemoveObject
<1>8. CASE \/ \E o \in Handled, h \in Holders : Select("hold", o, h) \/ Select("letgo", o, h)
           \/ \E o \in Objs : Select("put", o, None) \/ Select("same", o, None)
           \/ \E o \in Objs, c \in Objs : GetDirChild(o, c)
  BY <1>2, <1>8 DEF GetDirChild
<1> QED BY <1>3, <1>5, <1>6, <1>7, <1>8 DEF MgrNext

\* LinkedExact is an invariant of the manager.
THEOREM LinkedInvariant == MgrSpec => []LinkedExact
<1>1. MgrInit => LinkedExact
  <2> SUFFICES ASSUME MgrInit PROVE LinkedExact
    OBVIOUS
  <2>1. same = {x \in has : SameAs(x[2]) # None} /\ calls = {}
    BY DEF MgrInit
  <2> QED BY <2>1 DEF LinkedExact
<1>2. RouteInv /\ LinkedExact /\ [MgrNext]_mvars => LinkedExact'
  BY NextLinked
<1> QED BY <1>1, <1>2, RouteInvariant, PTL DEF MgrSpec

\* What a query says of an object, in terms of the rows and of what is read.
LEMMA QuerySays ==
    ASSUME RouteInv, LinkedExact, NEW o \in Objs
    PROVE  /\ Query(o) \in {"not_exist", "same_as", "completed"}
           /\ Query(o) = "same_as" => SameAs(o) # None
           /\ Query(o) = "completed" => SameAs(o) = None
           /\ Query(o) # "not_exist" <=> Rows(o) # {}
           /\ Met(o) <=> Rows(o) # {}
           /\ SameAs(o) = None => (Met(o) <=> Get(o) # None)
<1>1. DOMAIN versions \subseteq Nat
  BY LayoutsNat DEF RouteInv, LayoutsOK
<1>2. PICK rows : rows = Rows(o)
  OBVIOUS
<1>3. rows \in SUBSET Nat
  BY <1>1, <1>2 DEF Rows, Tried
<1>4. \A k \in rows : <<At(o, k), o>> \in has
  BY <1>2 DEF Rows, Row
<1>5. \A k \in rows : <<At(o, k), o>> \in same <=> SameAs(o) # None
  BY <1>4 DEF LinkedExact
<1>6. SameAs(o) = None => Hits(o) = rows
  BY <1>2, <1>5 DEF Hits, Rows, Hit
<1>7. SameAs(o) = None => (Get(o) # None <=> rows # {})
  BY <1>1, <1>6, FoundByHit
<1>8. CASE rows = {}
  <2>1. Query(o) = "not_exist"
    BY <1>2, <1>8 DEF Query
  <2> QED BY <1>2, <1>7, <1>8, <2>1 DEF Met
<1>9. CASE rows # {}
  <2>1. PICK k \in rows : k = Min(rows)
    BY <1>3, <1>9, LeastMember
  <2>2. Query(o) = IF <<At(o, k), o>> \in same THEN "same_as" ELSE "completed"
    BY <1>2, <1>9, <2>1 DEF Query
  <2>3. Query(o) = IF SameAs(o) # None THEN "same_as" ELSE "completed"
    BY <1>5, <2>1, <2>2
  <2> QED BY <1>2, <1>7, <1>9, <2>3 DEF Met
<1> QED BY <1>8, <1>9

\* Found, for any configuration of layouts and stores: what a put stored is
\* read, or for a big chunk told to be its list, while the layout it was
\* routed by is kept and its store is there, unless it was removed, or evicted
\* with no hold on it in that store (get_object, open_chunk_reader,
\* query_chunk_state, forced_gc_until).
THEOREM FoundHolds == MgrSpec => []Found
<1>1. RouteInv /\ LinkedExact => Found
  <2> SUFFICES ASSUME RouteInv, LinkedExact, NEW o \in Objs, NEW wr \in wrote[o],
                      wr.under \in Range(versions), wr.store \in regs \ broken
               PROVE  Met(o)
    BY DEF Found
  <2>1. PutKept(o, wr)
    BY DEF RouteInv, PutsKept
  <2>2. PICK k \in DOMAIN versions : versions[k] = wr.under
    BY DEF Range
  <2>3. k \in Rows(o)
    BY <2>1, <2>2 DEF PutKept, Rows, Tried, At, Row
  <2> QED
    BY <2>3, QuerySays
<1> QED
  BY <1>1, RouteInvariant, LinkedInvariant, PTL

\* GoneStays, for any configuration of layouts and stores: a removed object is
\* neither read nor told to exist until it is put, or the layouts or stores
\* change (remove_object, remove_chunk).
THEOREM GoneStaysHolds == MgrSpec => []GoneStays
<1>1. RouteInv => GoneStays
  <2> SUFFICES ASSUME RouteInv, NEW o \in gone PROVE Get(o) = None /\ Query(o) = "not_exist"
    BY DEF GoneStays
  <2>1. Rows(o) = {}
    BY DEF RouteInv, GoneMissed
  <2>2. Hits(o) = {}
    BY <2>1 DEF Hits, Rows, Hit
  <2> QED BY <2>1, <2>2 DEF Get, Query
<1> QED
  BY <1>1, RouteInvariant, PTL

Answer == {"yes", "no", "error"}

\* The worst of several answers is yes exactly when every one is.
LEMMA WorstSays ==
    ASSUME NEW said \in SUBSET Answer
    PROVE  Worst(said) \in Answer /\ (Worst(said) = "yes" <=> \A a \in said : a = "yes")
BY DEF Worst, Answer

\* Chunks, lists and contents: what they need besides themselves.
Body(c) ==
    {c} \cup Refs(c) \cup (IF SameAs(c) = None THEN {} ELSE {SameAs(c)} \cup Refs(SameAs(c)))

\* A list is there exactly when it and its chunks are.
LEMMA ListSays ==
    ASSUME RouteInv, LinkedExact, NEW l \in Objs, Kind(l) = "list"
    PROVE  /\ ListThere(l) \in Answer
           /\ ListThere(l) = "yes" => Met(l) /\ \A c \in Refs(l) : Met(c)
           /\ Met(l) /\ (\A c \in Refs(l) : Met(c)) => ListThere(l) = "yes"
<1>1. PICK said : said = {ChunkThere(c) : c \in Refs(l)}
  OBVIOUS
<1>2. ASSUME NEW c \in Refs(l)
      PROVE  /\ ChunkThere(c) \in Answer
             /\ ChunkThere(c) = "yes" => Met(c)
             /\ Met(c) => ChunkThere(c) = "yes"
  <2>1. c \in Objs
    BY GraphAssumption
  <2> QED BY <2>1, QuerySays DEF ChunkThere, Answer
<1>3. said \in SUBSET Answer
  BY <1>1, <1>2
<1>4. Worst(said) \in Answer /\ (Worst(said) = "yes" <=> \A c \in Refs(l) : ChunkThere(c) = "yes")
  BY <1>1, <1>3, WorstSays
<1>5. ListThere(l) = IF Get(l) = None THEN "error" ELSE Worst(said)
  BY <1>1 DEF ListThere
<1>6. SameAs(l) = None /\ (Met(l) <=> Get(l) # None)
  BY QuerySays, GraphAssumption DEF None
<1> QED BY <1>2, <1>4, <1>5, <1>6 DEF Answer

\* A content is there exactly when its body is.
LEMMA ContentSays ==
    ASSUME RouteInv, LinkedExact, NEW c \in Objs, Kind(c) \in {"chunk", "list"}
    PROVE  /\ ContentThere(c) \in Answer
           /\ ContentThere(c) = "yes" => \A x \in Body(c) : Met(x)
           /\ (\A x \in Body(c) : Met(x))
                => ContentThere(c) = "yes"
<1>1. CASE Kind(c) = "list"
  <2>1. c \notin Refs(c) /\ SameAs(c) = None
    BY <1>1, GraphAssumption DEF None
  <2>2. Body(c) = {c} \cup Refs(c)
    BY <2>1 DEF Body
  <2>3. ContentThere(c) = ListThere(c)
    BY <1>1 DEF ContentThere
  <2> QED BY <1>1, <2>1, <2>2, <2>3, ListSays
<1>2. CASE Kind(c) = "chunk" /\ SameAs(c) = None
  <2>1. Body(c) = {c}
    BY <1>2, GraphAssumption DEF Body
  <2>2. ContentThere(c) = ChunkThere(c)
    BY <1>2, QuerySays DEF ContentThere
  <2> QED BY <1>2, <2>1, <2>2, QuerySays DEF ChunkThere, Answer
<1>3. CASE Kind(c) = "chunk" /\ SameAs(c) # None
  <2>1. PICK l \in Objs : l = SameAs(c) /\ Kind(l) = "list"
    BY <1>3, GraphAssumption DEF None
  <2>2. Body(c) = {c, l} \cup Refs(l)
    BY <1>3, <2>1, GraphAssumption DEF Body
  <2>3. ContentThere(c) = IF Query(c) = "same_as" THEN ListThere(l) ELSE ChunkThere(c)
    BY <1>3, <2>1 DEF ContentThere
  <2>4. Query(c) # "completed"
    BY <1>3, QuerySays
  <2>5. /\ ListThere(l) \in Answer
        /\ ListThere(l) = "yes" => Met(l) /\ \A x \in Refs(l) : Met(x)
        /\ Met(l) /\ (\A x \in Refs(l) : Met(x))
             => ListThere(l) = "yes"
    BY <2>1, ListSays
  <2>6. CASE Query(c) = "same_as"
    <3>1. ContentThere(c) = ListThere(l)
      BY <2>3, <2>6
    <3>2. Met(c)
      BY <2>6, QuerySays
    <3> QED BY <1>3, <2>2, <2>5, <3>1, <3>2
  <2>7. CASE Query(c) # "same_as"
    <3>1. ContentThere(c) = ChunkThere(c) /\ Query(c) = "not_exist"
      BY <2>3, <2>4, <2>7, QuerySays
    <3>2. ContentThere(c) = "no"
      BY <3>1 DEF ChunkThere
    <3>3. ~ Met(c)
      BY <3>1, QuerySays
    <3> QED BY <1>3, <2>2, <3>2, <3>3 DEF Answer
  <2> QED BY <2>6, <2>7
<1> QED BY <1>1, <1>2, <1>3

\* A file or a content of a directory, with everything below it.
Item(c) == Body(c) \cup UNION {Body(x) : x \in Refs(c)}

LEMMA ItemSays ==
    ASSUME RouteInv, LinkedExact, NEW c \in Objs, Kind(c) # "dir",
           NEW hint \in BOOLEAN, hint => Kind(c) = "file"
    PROVE  /\ ItemThere(c, hint) \in Answer
           /\ ItemThere(c, hint) = "yes" => \A x \in Item(c) : Met(x) \/ (x = c /\ hint)
           /\ (\A x \in Item(c) : Met(x) \/ (x = c /\ hint))
                => ItemThere(c, hint) = "yes"
<1>1. CASE Kind(c) # "file"
  <2>1. Kind(c) \in {"chunk", "list"}
    BY <1>1, GraphAssumption
  <2>2. Item(c) = Body(c)
    <3> SUFFICES ASSUME NEW x \in Refs(c) PROVE Body(x) \subseteq Body(c)
      BY DEF Item
    <3>1. x \in Objs /\ Kind(x) = "chunk" /\ SameAs(x) = None
      BY <2>1, GraphAssumption DEF None
    <3>2. Body(x) = {x}
      BY <3>1, GraphAssumption DEF Body
    <3> QED BY <3>2 DEF Body
  <2>3. ItemThere(c, hint) = ContentThere(c)
    BY <1>1 DEF ItemThere
  <2> QED BY <2>1, <2>2, <2>3, ContentSays
<1>2. CASE Kind(c) = "file"
  <2>1. SameAs(c) = None /\ \A x \in Refs(c) : x \in Objs /\ Kind(x) \in {"chunk", "list"}
    BY <1>2, GraphAssumption DEF None
  <2>2. Item(c) = {c} \cup UNION {Body(x) : x \in Refs(c)}
    <3>1. Refs(c) \subseteq UNION {Body(x) : x \in Refs(c)}
      BY DEF Body
    <3> QED BY <2>1, <3>1 DEF Item, Body
  <2>3. ASSUME NEW x \in Refs(c)
        PROVE  /\ ContentThere(x) \in Answer
               /\ ContentThere(x) = "yes" => \A y \in Body(x) : Met(y)
               /\ (\A y \in Body(x) : Met(y))
                    => ContentThere(x) = "yes"
    BY <2>1, ContentSays
  <2>4. PICK said : said = {ContentThere(x) : x \in Refs(c)}
    OBVIOUS
  <2>5. Worst(said) \in Answer /\ (Worst(said) = "yes" <=> \A x \in Refs(c) : ContentThere(x) = "yes")
    <3>1. said \in SUBSET Answer
      BY <2>3, <2>4
    <3> QED BY <2>4, <3>1, WorstSays
  <2>6. ItemThere(c, hint) = IF hint \/ Query(c) = "completed" THEN Worst(said) ELSE "no"
    BY <1>2, <2>4 DEF ItemThere, FileThere
  <2>7. /\ Query(c) = "completed" => Met(c)
        /\ Met(c) => Query(c) = "completed"
    BY <2>1, QuerySays
  <2>8. \A y : y \in Item(c) <=> y = c \/ \E x \in Refs(c) : y \in Body(x)
    BY <2>2
  <2>9. \A x \in Refs(c) : c \notin Body(x)
    <3> SUFFICES ASSUME NEW x \in Refs(c), NEW y \in Body(x) PROVE Kind(y) # "file"
      BY <1>2
    <3> QED BY <2>1, GraphAssumption DEF Body, None
  <2>10. ItemThere(c, hint) \in Answer
    BY <2>5, <2>6 DEF Answer
  <2>11. ASSUME ItemThere(c, hint) = "yes", NEW y \in Item(c) PROVE Met(y) \/ (y = c /\ hint)
    <3>1. (hint \/ Query(c) = "completed") /\ Worst(said) = "yes"
      BY <2>6, <2>11
    <3> QED BY <2>3, <2>5, <2>7, <2>8, <3>1
  <2>12. ASSUME \A y \in Item(c) : Met(y) \/ (y = c /\ hint)
         PROVE  ItemThere(c, hint) = "yes"
    <3>1. hint \/ Query(c) = "completed"
      BY <2>7, <2>8, <2>12
    <3>2. \A x \in Refs(c) : \A y \in Body(x) : Met(y)
      BY <2>8, <2>9, <2>12
    <3> QED BY <2>3, <2>5, <2>6, <2>12, <3>1, <3>2
  <2> QED BY <2>10, <2>11, <2>12
<1> QED BY <1>1, <1>2

\* What an object needs is the object, what its members need, and its body.
LEMMA NeedsItems ==
    ASSUME NEW o \in Objs
    PROVE  Needs(o) = Item(o) \cup UNION {Item(c) : c \in Refs(o)}
<1> DEFINE step(S) == S \cup UNION {Refs(x) \cup (IF SameAs(x) = None THEN {} ELSE {SameAs(x)}) : x \in S}
           all == Item(o) \cup UNION {Item(c) : c \in Refs(o)}
<1>1. \A S, x : x \in S => x \in step(S) /\ Refs(x) \subseteq step(S) /\ (SameAs(x) # None => SameAs(x) \in step(S))
  OBVIOUS
<1>2. ASSUME NEW S, NEW T, S \subseteq T,
             \A x \in T : Refs(x) \subseteq T /\ (SameAs(x) # None => SameAs(x) \in T)
      PROVE  step(S) \subseteq T
  BY <1>2
<1>3. PICK one : one = step({o})
  OBVIOUS
<1>4. PICK two : two = step(one)
  OBVIOUS
<1>5. PICK three : three = step(two)
  OBVIOUS
<1>6. PICK four : four = step(three)
  OBVIOUS
<1>7. Needs(o) = four
  BY <1>3, <1>4, <1>5, <1>6 DEF Needs
<1>8. {o} \subseteq all
  BY DEF Item, Body
<1>9. \A x \in all : Refs(x) \subseteq all /\ (SameAs(x) # None => SameAs(x) \in all)
  <2>1. ASSUME NEW c \in Objs, Kind(c) # "dir", NEW x \in Item(c)
        PROVE  Refs(x) \subseteq Item(c) /\ (SameAs(x) # None => SameAs(x) \in Item(c))
    <3>1. ASSUME NEW d \in Objs, Kind(d) \in {"chunk", "list"}, NEW y \in Body(d)
          PROVE  Refs(y) \subseteq Body(d) /\ (SameAs(y) # None => SameAs(y) \in Body(d))
      BY <3>1, GraphAssumption DEF Body, None
    <3>2. CASE Kind(c) \in {"chunk", "list"}
      <4>1. \A y \in Refs(c) : y \in Objs /\ Kind(y) = "chunk"
        BY <3>2, GraphAssumption
      <4> QED BY <2>1, <3>1, <3>2, <4>1 DEF Item
    <3>3. CASE Kind(c) = "file"
      <4>1. SameAs(c) = None /\ \A y \in Refs(c) : y \in Objs /\ Kind(y) \in {"chunk", "list"}
        BY <3>3, GraphAssumption DEF None
      <4>2. \A y : y \in Item(c) <=> y = c \/ \E z \in Refs(c) : y \in Body(z)
        BY <4>1 DEF Item, Body
      <4>3. \A z \in Refs(c) : z \in Body(z)
        BY DEF Body
      <4> QED BY <2>1, <3>1, <4>1, <4>2, <4>3
    <3> QED BY <2>1, <3>2, <3>3, GraphAssumption
  <2>2. CASE Kind(o) # "dir"
    <3>1. \A c \in Refs(o) : c \in Objs /\ Kind(c) # "dir"
      BY <2>2, GraphAssumption
    <3> QED BY <2>1, <2>2, <3>1
  <2>3. CASE Kind(o) = "dir"
    <3>1. SameAs(o) = None /\ \A c \in Refs(o) : c \in Objs /\ Kind(c) # "dir"
      BY <2>3, GraphAssumption DEF None
    <3>2. \A c : Body(c) \subseteq Item(c) /\ c \in Item(c)
      BY DEF Item, Body
    <3>3. Item(o) \subseteq {o} \cup UNION {Item(c) : c \in Refs(o)}
      BY <3>1, <3>2 DEF Item, Body
    <3>4. \A x : x \in all <=> x = o \/ \E c \in Refs(o) : x \in Item(c)
      BY <3>2, <3>3
    <3> QED BY <2>1, <3>1, <3>2, <3>4
  <2> QED BY <2>2, <2>3
<1>10. \A x, S : x \in S => Body(x) \subseteq step(step(S))
  <2> SUFFICES ASSUME NEW x, NEW S, x \in S PROVE Body(x) \subseteq step(step(S))
    OBVIOUS
  <2>1. PICK T : T = step(S)
    OBVIOUS
  <2>2. x \in T /\ Refs(x) \subseteq T /\ (SameAs(x) # None => SameAs(x) \in T)
    BY <1>1, <2>1
  <2>3. T \subseteq step(T) /\ (SameAs(x) # None => Refs(SameAs(x)) \subseteq step(T))
    BY <1>1, <2>2
  <2> QED BY <2>1, <2>2, <2>3 DEF Body
<1> HIDE DEF step, all
<1>11. four \subseteq all
  BY <1>2, <1>3, <1>4, <1>5, <1>6, <1>8, <1>9
<1>12. {o} \cup Refs(o) \subseteq one
  BY <1>1, <1>3
<1>13. one \subseteq two /\ two \subseteq three /\ three \subseteq four
  BY <1>1, <1>4, <1>5, <1>6
<1>14. \A c \in one : Refs(c) \subseteq two /\ Body(c) \subseteq three
  BY <1>1, <1>4, <1>5, <1>10
<1>15. \A c \in two : Body(c) \subseteq four
  BY <1>5, <1>6, <1>10
<1>16. \A c \in one : Item(c) \subseteq four
  BY <1>13, <1>14, <1>15 DEF Item
<1>17. all \subseteq four
  BY <1>12, <1>16 DEF all
<1> QED BY <1>7, <1>11, <1>17 DEF all

\* is_object_stored says yes exactly when everything the object needs can be
\* read, in its stores or embedded in a directory that can be, for every graph,
\* every order of layout changes, puts, removals and collections
\* (is_object_fully_stored, query_object_by_id, query_chunk_state).
THEOREM StoredMeansAllHolds == MgrSpec => []StoredMeansAll
<1>1. RouteInv /\ LinkedExact => StoredMeansAll
  <2> SUFFICES ASSUME RouteInv, LinkedExact, NEW o \in Objs
               PROVE  (Full(o, FALSE) = "yes") <=>
                         \A x \in Needs(o) : Met(x) \/ \E d \in Needs(o) : Met(d) /\ x \in Embeds(d)
    BY DEF StoredMeansAll
  <2>1. \A x : x \in Needs(o) <=> x \in Item(o) \/ \E c \in Refs(o) : x \in Item(c)
    BY NeedsItems
  <2>2. \A c : c \in Item(c)
    BY DEF Item, Body
  <2>3. CASE Kind(o) # "dir"
    <3>1. \A c \in Refs(o) : Item(c) \subseteq Item(o)
      <4> SUFFICES ASSUME NEW c \in Refs(o), NEW x \in Item(c) PROVE x \in Item(o)
        OBVIOUS
      <4>1. c \in Objs /\ Kind(c) \in {"chunk", "list"}
        BY <2>3, GraphAssumption
      <4>2. ASSUME NEW y \in Refs(c) PROVE Body(y) = {y}
        BY <4>1, GraphAssumption DEF Body, None
      <4>3. x \in Body(c)
        BY <4>2 DEF Item, Body
      <4> QED BY <4>3 DEF Item
    <3>2. \A x : x \in Needs(o) <=> x \in Item(o)
      BY <2>1, <3>1
    <3>3. \A x \in Item(o) : Embeds(x) = {}
      <4> SUFFICES ASSUME NEW x \in Item(o) PROVE x \in Objs /\ Kind(x) # "dir"
        BY GraphAssumption
      <4>1. ASSUME NEW c \in Objs, Kind(c) \in {"chunk", "list"}, NEW y \in Body(c)
            PROVE  y \in Objs /\ Kind(y) # "dir"
        BY <4>1, GraphAssumption DEF Body, None
      <4>2. \A c \in Refs(o) : c \in Objs /\ Kind(c) \in {"chunk", "list"}
        BY <2>3, GraphAssumption
      <4>3. CASE Kind(o) = "file"
        <5>1. SameAs(o) = None
          BY <4>3, GraphAssumption DEF None
        <5>2. x = o \/ x \in Refs(o) \/ \E c \in Refs(o) : x \in Body(c)
          BY <5>1 DEF Item, Body
        <5> QED BY <4>1, <4>2, <4>3, <5>2
      <4>4. CASE Kind(o) \in {"chunk", "list"}
        BY <4>1, <4>2, <4>4 DEF Item
      <4> QED BY <2>3, <4>3, <4>4, GraphAssumption
    <3>4. Full(o, FALSE) = ItemThere(o, FALSE)
      BY <2>3 DEF Full
    <3> QED BY <2>3, <3>2, <3>3, <3>4, ItemSays
  <2>4. CASE Kind(o) = "dir"
    <3>1. SameAs(o) = None /\ \A c \in Refs(o) : c \in Objs /\ Kind(c) # "dir"
      BY <2>4, GraphAssumption DEF None
    <3>2. Item(o) \subseteq {o} \cup UNION {Item(c) : c \in Refs(o)}
      BY <3>1, <2>2 DEF Item, Body
    <3>3. \A x : x \in Needs(o) <=> x = o \/ \E c \in Refs(o) : x \in Item(c)
      BY <2>1, <2>2, <3>2
    <3>4. ASSUME NEW c \in Refs(o)
          PROVE  /\ ItemThere(c, c \in Embeds(o)) \in Answer
                 /\ ItemThere(c, c \in Embeds(o)) = "yes" =>
                      \A x \in Item(c) : Met(x) \/ (x = c /\ c \in Embeds(o))
                 /\ (\A x \in Item(c) : Met(x) \/ (x = c /\ c \in Embeds(o)))
                      => ItemThere(c, c \in Embeds(o)) = "yes"
      <4> DEFINE hint == c \in Embeds(o)
      <4>1. hint \in BOOLEAN
        OBVIOUS
      <4>2. hint => Kind(c) = "file"
        BY GraphAssumption
      <4>3. c \in Objs /\ Kind(c) # "dir"
        BY <3>1
      <4> QED BY <4>1, <4>2, <4>3, ItemSays
    <3>5. PICK said : said = {ItemThere(c, c \in Embeds(o)) : c \in Refs(o)}
      OBVIOUS
    <3>6. Worst(said) \in Answer /\ (Worst(said) = "yes" <=> \A c \in Refs(o) : ItemThere(c, c \in Embeds(o)) = "yes")
      <4>1. said \in SUBSET Answer
        BY <3>4, <3>5
      <4> QED BY <3>5, <4>1, WorstSays
    <3>7. Full(o, FALSE) = IF Query(o) = "completed" THEN Worst(said) ELSE "no"
      BY <2>4, <3>5 DEF Full
    <3>8. /\ Query(o) = "completed" => Met(o)
          /\ Met(o) => Query(o) = "completed"
      BY <3>1, QuerySays
    <3>9. \A x \in Needs(o), d \in Needs(o) : x \in Embeds(d) => d = o
      <4> SUFFICES ASSUME NEW c \in Refs(o), NEW d \in Item(c) PROVE Embeds(d) = {}
        BY <3>3
      <4>1. ASSUME NEW z \in Objs, Kind(z) \in {"chunk", "list"}, NEW y \in Body(z)
            PROVE  y \in Objs /\ Kind(y) # "dir"
        BY <4>1, GraphAssumption DEF Body, None
      <4>2. d \in Objs /\ Kind(d) # "dir"
        <5>1. CASE Kind(c) = "file"
          <6>1. SameAs(c) = None /\ \A z \in Refs(c) : z \in Objs /\ Kind(z) \in {"chunk", "list"}
            BY <3>1, <5>1, GraphAssumption DEF None
          <6>2. d = c \/ d \in Refs(c) \/ \E z \in Refs(c) : d \in Body(z)
            BY <6>1 DEF Item, Body
          <6> QED BY <3>1, <4>1, <6>1, <6>2
        <5>2. CASE Kind(c) \in {"chunk", "list"}
          <6>1. \A z \in Refs(c) : z \in Objs /\ Kind(z) \in {"chunk", "list"}
            BY <3>1, <5>2, GraphAssumption
          <6> QED BY <3>1, <4>1, <5>2, <6>1 DEF Item
        <5> QED BY <3>1, <5>1, <5>2, GraphAssumption
      <4> QED BY <4>2, GraphAssumption
    <3>10. ASSUME Full(o, FALSE) = "yes", NEW x \in Needs(o)
           PROVE  Met(x) \/ \E d \in Needs(o) : Met(d) /\ x \in Embeds(d)
      <4>1. Met(o) /\ \A c \in Refs(o) : ItemThere(c, c \in Embeds(o)) = "yes"
        BY <3>6, <3>7, <3>8, <3>10
      <4>2. o \in Needs(o)
        BY <3>3
      <4> QED BY <3>3, <3>4, <4>1, <4>2
    <3>11. ASSUME \A x \in Needs(o) : Met(x) \/ \E d \in Needs(o) : Met(d) /\ x \in Embeds(d)
           PROVE  Full(o, FALSE) = "yes"
      <4>1. o \in Needs(o) /\ o \notin Embeds(o)
        BY <2>4, <3>1, <3>3, GraphAssumption
      <4>2. Met(o)
        BY <3>9, <3>11, <4>1
      <4>3. \A c \in Refs(o) : \A x \in Item(c) : Met(x) \/ x \in Embeds(o)
        BY <3>3, <3>9, <3>11
      <4>4. ASSUME NEW c \in Refs(o), NEW x \in Item(c), x \in Embeds(o) PROVE x = c
        <5>1. \A z \in Objs : Kind(z) \in {"chunk", "list"} => \A y \in Body(z) : Kind(y) # "file"
          BY GraphAssumption DEF Body, None
        <5>2. Kind(x) = "file" /\ c \in Objs /\ Kind(c) # "dir"
          BY <3>1, <4>4, GraphAssumption
        <5>3. \A z \in Refs(c) : z \in Objs /\ Kind(z) \in {"chunk", "list"}
          BY <5>2, GraphAssumption
        <5>4. Kind(c) \in {"chunk", "list"} => x \in UNION {Body(z) : z \in {c} \cup Refs(c)}
          BY DEF Item
        <5>5. Kind(c) = "file" => SameAs(c) = None
          BY <5>2, GraphAssumption DEF None
        <5>6. Kind(c) = "file" => x = c \/ x \in Refs(c) \/ \E z \in Refs(c) : x \in Body(z)
          BY <5>5 DEF Item, Body
        <5> QED BY <5>1, <5>2, <5>3, <5>4, <5>6, GraphAssumption
      <4>5. ASSUME NEW c \in Refs(o) PROVE ItemThere(c, c \in Embeds(o)) = "yes"
        <5>1. \A x \in Item(c) : Met(x) \/ (x = c /\ c \in Embeds(o))
          BY <4>3, <4>4
        <5> QED BY <3>4, <3>11, <5>1
      <4> QED BY <3>6, <3>7, <3>8, <3>11, <4>2, <4>5
    <3> QED BY <3>10, <3>11
  <2> QED BY <2>3, <2>4
<1> QED BY <1>1, RouteInvariant, LinkedInvariant, PTL
=============================================================================
