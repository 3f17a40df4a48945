------------------------- MODULE FileSessionProofs -------------------------
(***************************************************************************)
(* The safety of a file's life, for any number of clients, stagers,        *)
(* buffers and flushes: whatever interleaves, a buffered file has its diff *)
(* file and a published object is in the store.  And the transactions of   *)
(* the same service, for any number of transactions and operations: they   *)
(* are isolated whatever outlives them, and the path cache keeps its books *)
(* (FsMetaTxn).                                                            *)
(***************************************************************************)
EXTENDS FileSession, FsMetaTxn, FiniteSetTheorems, WellFoundedInduction, TLAPS

USE FileSessionAssumption

---------------------------------------------------------------------------
(* What the operators on rows return.                                      *)

\* The values a handler writes into the state columns are states.
LEMMA StatesTyped ==
    ASSUME NEW h \in Handles, NEW t \in Time, NEW c \in Content
    PROVE  /\ Working(h, t) \in StateValue
           /\ Cooling(h, t) \in StateValue
           /\ Linked(c) \in StateValue
           /\ Finalized(c) \in StateValue
           /\ FileNormal \in StateValue
BY DEF Working, Cooling, Linked, Finalized, FileNormal, NodeState, StateValue,
       NodeStates, OptHandle, OptTime, OptContent

\* parse_node_state returns a state of the variant the row names.
LEMMA ParsedTyped ==
    ASSUME NEW r \in Row
    PROVE  /\ ParsedState(r) \in StateValue
           /\ ParsedState(r).state = r.state
           /\ r.state \in Buffered => ParsedState(r).fb = r.fb
           /\ r.state \in Published => ParsedState(r).obj = r.obj
BY DEF ParsedState, NodeState, Row, StateValue, OptHandle, OptTime, OptContent

\* An update of the state leaves a row whose state columns are the new ones.
LEMMA WithStateRow ==
    ASSUME NEW r \in Row, NEW s \in StateValue
    PROVE  /\ WithState(r, s) \in Row
           /\ WithState(r, s).state = s.state
           /\ WithState(r, s).fb = s.fb
           /\ WithState(r, s).obj = s.obj
BY DEF WithState, Row, StateValue

\* Taking the lease changes the lease columns only.
LEMMA WithLeaseRow ==
    ASSUME NEW r \in Row, now \in Time, now + LeaseTTL <= MaxTime
    PROVE  WithLease(r) \in Row
<1> DEFINE q == IF r.leased /\ r.expire > now THEN r.seq ELSE r.seq + 1
<1>1. now + LeaseTTL \in Time
  BY DEF Time
<1>2. q \in Nat
  <2>1. r.seq \in Nat
    BY DEF Row
  <2>2. QED
    BY <2>1
<1>3. ASSUME NEW e \in Time, NEW n \in Nat
      PROVE  [r EXCEPT !.leased = TRUE, !.expire = e, !.seq = n] \in Row
  BY DEF Row
<1> HIDE DEF q
<1>4. [r EXCEPT !.leased = TRUE, !.expire = now + LeaseTTL, !.seq = q] \in Row
  BY <1>1, <1>2, <1>3
<1>5. QED
  BY <1>4 DEF WithLease, q

\* What open_file_writer prepares before it replaces the state is a row.
LEMMA PreparedIsRow ==
    ASSUME row \in Row, now \in Time, now + LeaseTTL <= MaxTime, NEW flag
    PROVE  PreparedRow(flag) \in Row
<1>1. FileNormal \in StateValue
  BY DEF FileNormal, NodeState, StateValue, NodeStates, OptHandle, OptTime, OptContent
<1>2. OpenedRow \in Row
  BY <1>1, WithStateRow DEF OpenedRow
<1>3. WithLease(OpenedRow) \in Row
  BY <1>2, WithLeaseRow
<1>4. ASSUME NEW r \in Row PROVE Truncated(r) \in Row
  <2>1. WithState(r, ParsedState(r)) \in Row
    BY ParsedTyped, WithStateRow
  <2>2. QED
    BY <2>1 DEF Truncated, Row
<1>5. QED
  BY <1>3, <1>4 DEF PreparedRow

---------------------------------------------------------------------------
\* The initial states satisfy the inductive invariant.
LEMMA SessionInit == Init => SessionInv
<1> SUFFICES ASSUME Init PROVE SessionInv
  OBVIOUS
<1>1. row \in Row /\ row.state = "Absent"
  BY DEF Init, Row, NodeStates, OptHandle, OptTime, OptContent, Time
<1>2. FileNormal \in StateValue
  BY DEF FileNormal, NodeState, StateValue, NodeStates, OptHandle, OptTime, OptContent
<1>3. client \in [Clients -> Writer] /\ \A c \in Clients : client[c].pc = "idle"
  BY DEF Init, IdleClient, Writer, OptHandle
<1>4. stager \in [Stagers -> StageCall] /\ \A s \in Stagers : stager[s].pc = "idle"
  BY <1>2 DEF Init, IdleStager, StageCall, OptHandle
<1>5. DOMAIN bufs = {} /\ bufs \in [DOMAIN bufs -> Buffer]
  BY DEF Init
<1>6. items \in [Content -> {"NotExist", "LocalLink", "Completed"}]
      /\ \A c \in Content : items[c] = "NotExist"
  BY DEF Init
<1>7. now \in Time
  BY DEF Init, Time
<1>8. TypeOK
  BY <1>1, <1>3, <1>4, <1>5, <1>6, <1>7 DEF TypeOK
<1>9. QED
  BY <1>1, <1>3, <1>4, <1>6, <1>8
     DEF SessionInv, BufferAlive, PublishedStored, CallsInOrder, Buffered, Published

---------------------------------------------------------------------------
(* Steps that change the row and the client only, and steps that change    *)
(* one stager only.                                                        *)

\* A step on the row keeps the invariant if a buffered row keeps its buffer
\* and a published row its object.
LEMMA RowSteps ==
    ASSUME SessionInv, now' \in Time, row' \in Row,
           client' \in [Clients -> Writer],
           \A c \in Clients : client'[c].pc = "open" => client'[c].h \in DOMAIN bufs,
           UNCHANGED <<bufs, items, stager>>,
           row'.state \in Buffered => row.state \in Buffered /\ row'.fb = row.fb,
           row'.state \in Published => row.state = row'.state /\ row'.obj = row.obj
    PROVE  SessionInv'
<1>1. TypeOK'
  BY DEF SessionInv, TypeOK
<1>2. BufferAlive'
  BY DEF SessionInv, BufferAlive
<1>3. (row.state \in Published => row.obj \in Content)'
  BY DEF SessionInv, Content
<1>4. PublishedStored'
  BY DEF SessionInv, PublishedStored
<1>5. CallsInOrder'
  BY DEF SessionInv, CallsInOrder, Target, Content
<1>6. QED
  BY <1>1, <1>2, <1>3, <1>4, <1>5 DEF SessionInv

\* What the invariant says of one call of the stager.
CallInOrder(v) ==
    /\ v.pc # "idle" => v.h \in DOMAIN bufs
    /\ v.pc \in {"put", "mark", "read", "publish", "unlink"} => v.ver \in 0 .. MaxFlush
    /\ v.pc \in {"mark", "read", "publish"} =>
         /\ items[<<v.h, v.ver>>] # "NotExist"
         /\ v.ver <= DirectLimit => items[<<v.h, v.ver>>] = "Completed"
    /\ v.pc = "unlink" => ~(row.state \in Buffered /\ row.fb = v.h)

\* A step that only replaces one call by one in order keeps the invariant.
LEMMA StagerSteps ==
    ASSUME SessionInv, UNCHANGED <<now, row, bufs, items, client>>,
           NEW s \in Stagers, NEW v \in StageCall, CallInOrder(v),
           stager' = [stager EXCEPT ![s] = v]
    PROVE  SessionInv'
<1>1. stager' \in [Stagers -> StageCall]
  BY DEF SessionInv, TypeOK
<1>2. \A t \in Stagers : stager'[t] = v \/ stager'[t] = stager[t]
  BY DEF SessionInv, TypeOK
<1>3. TypeOK'
  BY <1>1 DEF SessionInv, TypeOK
<1>4. BufferAlive' /\ (row.state \in Published => row.obj \in Content)' /\ PublishedStored'
  BY DEF SessionInv, BufferAlive, PublishedStored, Content
<1>5. CallsInOrder'
  <2>1. \A c \in Clients : client'[c].pc = "open" => client'[c].h \in DOMAIN bufs'
    BY DEF SessionInv, CallsInOrder
  <2>2. \A c \in Content : c[2] <= DirectLimit => items'[c] # "LocalLink"
    BY DEF SessionInv, CallsInOrder
  <2>3. ASSUME NEW t \in Stagers
        PROVE  CallInOrder(stager'[t])
    <3>1. CallInOrder(stager[t])
      BY DEF SessionInv, CallsInOrder, CallInOrder, Target
    <3>2. QED
      BY <1>2, <3>1
  <2>4. QED
    BY <2>1, <2>2, <2>3 DEF CallsInOrder, CallInOrder, Target, Content
<1>6. QED
  BY <1>3, <1>4, <1>5 DEF SessionInv

---------------------------------------------------------------------------
(* One lemma per action.                                                   *)

\* The clock touches nothing else.
LEMMA TickStep == ASSUME SessionInv, Tick PROVE SessionInv'
<1>1. now' \in Time
  BY DEF Tick, SessionInv, TypeOK, Time
<1>2. QED
  BY <1>1, RowSteps DEF Tick, SessionInv, TypeOK, CallsInOrder

\* A reclaimed row keeps its buffer.
LEMMA ReclaimStep == ASSUME SessionInv, Reclaim PROVE SessionInv'
<1>1. row \in Row /\ now \in Time
  BY DEF SessionInv, TypeOK
<1>2. row' \in Row
  <2> DEFINE st == IF row.state = "Working" THEN "Cooling" ELSE row.state
             cl == IF row.state = "Working" THEN now ELSE row.closed
  <2>1. st \in NodeStates /\ cl \in OptTime
    BY <1>1 DEF Row, NodeStates, OptTime
  <2>2. 0 \in Time
    BY DEF Time
  <2>3. row' = [row EXCEPT !.leased = FALSE, !.expire = 0, !.state = st, !.closed = cl]
    BY DEF Reclaim
  <2> HIDE DEF st, cl
  <2>4. QED
    BY <1>1, <2>1, <2>2, <2>3 DEF Row
<1>3. /\ row'.fb = row.fb /\ row'.obj = row.obj
      /\ row'.state = row.state \/ (row.state = "Working" /\ row'.state = "Cooling")
  BY <1>1 DEF Reclaim, Row
<1>4. /\ row'.state \in Buffered => row.state \in Buffered
      /\ row'.state \in Published => row.state = row'.state
  BY <1>3 DEF Buffered, Published
<1>5. QED
  BY <1>1, <1>2, <1>3, <1>4, RowSteps DEF Reclaim, SessionInv, TypeOK, CallsInOrder

\* ContinueWrite takes up the buffer the row has.
LEMMA OpenContinueStep ==
    ASSUME SessionInv, NEW c \in Clients, OpenContinue(c) PROVE SessionInv'
<1>1. row \in Row /\ now \in Time /\ row.fb \in Handles /\ now + LeaseTTL <= MaxTime
  BY DEF SessionInv, TypeOK, OpenContinue, WithinBounds
<1>2. Working(row.fb, now) \in StateValue
  BY <1>1 DEF Working, NodeState, StateValue, NodeStates, OptHandle, OptTime, OptContent
<1>3. WithLease(row) \in Row
  BY <1>1, WithLeaseRow
<1>4. row' \in Row /\ row'.fb = row.fb /\ row'.state = "Working"
  BY <1>2, <1>3, WithStateRow DEF OpenContinue, Working, NodeState
<1>5. client' \in [Clients -> Writer]
  BY <1>1 DEF OpenContinue, SessionInv, TypeOK, Writer, OptHandle
<1>6. \A d \in Clients : client'[d].pc = "open" => client'[d].h \in DOMAIN bufs
  BY DEF OpenContinue, SessionInv, TypeOK, CallsInOrder
<1>7. row.state \in Buffered /\ "Working" \notin Published
  BY DEF OpenContinue, Published
<1>8. QED
  BY <1>1, <1>4, <1>5, <1>6, <1>7, RowSteps DEF OpenContinue

\* A close that goes through leaves the row Cooling on the same buffer.
LEMMA CloseCommitStep ==
    ASSUME SessionInv, NEW c \in Clients, CloseCommit(c) PROVE SessionInv'
<1>1. row \in Row /\ now \in Time /\ row.seq \in Nat
  BY DEF SessionInv, TypeOK, Row
<1>2. IdleClient \in Writer
  BY DEF IdleClient, Writer, OptHandle
<1>3. [pc |-> "release", h |-> None, seq |-> row.seq] \in Writer
  BY <1>1 DEF Writer, OptHandle
<1>4. client' \in [Clients -> Writer]
  BY <1>2, <1>3 DEF CloseCommit, SessionInv, TypeOK
<1>5. client'[c].pc # "open" /\ \A d \in Clients \ {c} : client'[d] = client[d]
  BY DEF CloseCommit, SessionInv, TypeOK, IdleClient
<1>6. \A d \in Clients : client'[d].pc = "open" => client'[d].h \in DOMAIN bufs
  BY <1>5 DEF SessionInv, CallsInOrder
<1>7. CASE row.state \in Buffered /\ row.fb \in DOMAIN bufs /\ StateMatches(row, ParsedState(row))
  <2>1. row' = WithState(row, Cooling(row.fb, now))
    BY <1>7 DEF CloseCommit
  <2>2. Cooling(row.fb, now) \in StateValue
    BY <1>1, <1>7 DEF SessionInv, TypeOK, Cooling, NodeState, StateValue, NodeStates,
                      OptHandle, OptTime, OptContent
  <2>3. row' \in Row /\ row'.fb = row.fb /\ row'.state = "Cooling"
    BY <1>1, <2>1, <2>2, WithStateRow DEF Cooling, NodeState
  <2>4. QED
    BY <1>1, <1>4, <1>6, <1>7, <2>3, RowSteps DEF CloseCommit, Published
<1>8. CASE ~(row.state \in Buffered /\ row.fb \in DOMAIN bufs /\ StateMatches(row, ParsedState(row)))
  <2>1. row' = row
    BY <1>8 DEF CloseCommit
  <2>2. QED
    BY <1>1, <1>4, <1>6, <2>1, RowSteps DEF CloseCommit
<1>9. QED
  BY <1>7, <1>8

\* The release touches lease columns only.
LEMMA CloseReleaseStep ==
    ASSUME SessionInv, NEW c \in Clients, CloseRelease(c) PROVE SessionInv'
<1>1. row \in Row /\ now \in Time
  BY DEF SessionInv, TypeOK
<1>2. row' \in Row /\ row'.state = row.state /\ row'.fb = row.fb /\ row'.obj = row.obj
  <2>1. 0 \in Time
    BY DEF Time
  <2>2. /\ [row EXCEPT !.leased = FALSE, !.expire = 0] \in Row
        /\ [row EXCEPT !.leased = FALSE, !.expire = 0].state = row.state
        /\ [row EXCEPT !.leased = FALSE, !.expire = 0].fb = row.fb
        /\ [row EXCEPT !.leased = FALSE, !.expire = 0].obj = row.obj
    BY <1>1, <2>1 DEF Row
  <2>3. row' = [row EXCEPT !.leased = FALSE, !.expire = 0] \/ row' = row
    BY DEF CloseRelease
  <2>4. QED
    BY <1>1, <2>2, <2>3
<1>3. IdleClient \in Writer /\ IdleClient.pc = "idle"
  BY DEF IdleClient, Writer, OptHandle
<1>4. client' \in [Clients -> Writer]
  BY <1>3 DEF CloseRelease, SessionInv, TypeOK
<1>5. \A d \in Clients : client'[d].pc = "open" => client'[d].h \in DOMAIN bufs
  BY <1>3 DEF CloseRelease, SessionInv, TypeOK, CallsInOrder
<1>6. QED
  BY <1>1, <1>2, <1>4, <1>5, RowSteps DEF CloseRelease

\* A client that goes away changes nothing but itself.
LEMMA ClientGoneStep ==
    ASSUME SessionInv, NEW c \in Clients, ClientGone(c) PROVE SessionInv'
<1>1. row \in Row /\ now \in Time
  BY DEF SessionInv, TypeOK
<1>2. IdleClient \in Writer /\ IdleClient.pc = "idle"
  BY DEF IdleClient, Writer, OptHandle
<1>3. client' \in [Clients -> Writer]
  BY <1>2 DEF ClientGone, SessionInv, TypeOK
<1>4. \A d \in Clients : client'[d].pc = "open" => client'[d].h \in DOMAIN bufs
  BY <1>2 DEF ClientGone, SessionInv, TypeOK, CallsInOrder
<1>5. QED
  BY <1>1, <1>3, <1>4, RowSteps DEF ClientGone

\* A fresh open works on a new buffer: no call in progress knows it.
LEMMA OpenFreshStep ==
    ASSUME SessionInv, NEW c \in Clients, NEW flag \in FreshFlags, OpenFresh(c, flag)
    PROVE  SessionInv'
<1>1. row \in Row /\ now \in Time /\ now + LeaseTTL <= MaxTime
  BY DEF SessionInv, TypeOK, OpenFresh, WithinBounds
<1>2. PICK h \in Handles \ DOMAIN bufs :
        /\ bufs' = [g \in DOMAIN bufs \cup {h} |-> IF g = h THEN FreshBuffer ELSE bufs[g]]
        /\ \/ /\ row' = WithState(PreparedRow(flag), Working(h, now))
              /\ client' = [client EXCEPT ![c] = [pc |-> "open", h |-> h, seq |-> None]]
           \/ UNCHANGED <<row, client>>
  BY DEF OpenFresh
<1>3. FreshBuffer \in Buffer /\ FreshBuffer.file
  BY DEF FreshBuffer, Buffer
<1>4. /\ DOMAIN bufs' = DOMAIN bufs \cup {h}
      /\ bufs' \in [DOMAIN bufs' -> Buffer]
      /\ bufs'[h].file
      /\ \A g \in DOMAIN bufs : bufs'[g] = bufs[g]
  BY <1>2, <1>3 DEF SessionInv, TypeOK
<1>5. /\ row' \in Row
      /\ \/ row'.state = "Working" /\ row'.fb = h
         \/ row' = row
  <2>1. CASE row' = row
    BY <1>1, <2>1
  <2>2. CASE row' = WithState(PreparedRow(flag), Working(h, now))
    <3>1. PreparedRow(flag) \in Row
      BY <1>1, PreparedIsRow
    <3>2. Working(h, now) \in StateValue
      BY <1>1 DEF Working, NodeState, StateValue, NodeStates, OptHandle, OptTime, OptContent
    <3>3. QED
      BY <2>2, <3>1, <3>2, WithStateRow DEF Working, NodeState
  <2>3. QED
    BY <1>2, <2>1, <2>2
<1>6. /\ client' \in [Clients -> Writer]
      /\ \A d \in Clients : client'[d].pc = "open" => client'[d].h \in DOMAIN bufs'
  BY <1>2, <1>4 DEF SessionInv, TypeOK, CallsInOrder, Writer, OptHandle
<1>7. items' = items /\ stager' = stager /\ now' = now
  BY DEF OpenFresh
<1>8. TypeOK'
  BY <1>4, <1>5, <1>6, <1>7 DEF SessionInv, TypeOK
<1>9. BufferAlive'
  BY <1>4, <1>5 DEF SessionInv, BufferAlive
<1>10. (row.state \in Published => row.obj \in Content)' /\ PublishedStored'
  BY <1>5, <1>7 DEF SessionInv, PublishedStored, Published, Content
<1>11. CallsInOrder'
  <2>1. \A s \in Stagers : stager[s].pc = "unlink" => ~(row'.state \in Buffered /\ row'.fb = stager[s].h)
    BY <1>5 DEF SessionInv, CallsInOrder
  <2>2. \A s \in Stagers : stager[s].pc # "idle" => stager[s].h \in DOMAIN bufs'
    BY <1>4 DEF SessionInv, CallsInOrder
  <2>3. QED
    BY <1>6, <1>7, <2>1, <2>2 DEF SessionInv, CallsInOrder, Target, Content
<1>12. QED
  BY <1>8, <1>9, <1>10, <1>11 DEF SessionInv

\* A step on one buffer that keeps it a buffer, and keeps the diff file unless
\* the row shows another one, keeps the invariant if the calls stay in order.
LEMMA BufferSteps ==
    ASSUME SessionInv, UNCHANGED <<now, row, items, client>>,
           NEW h \in DOMAIN bufs, NEW b \in Buffer,
           bufs' = [bufs EXCEPT ![h] = b],
           b.file \/ ~bufs[h].file \/ ~(row.state \in Buffered /\ row.fb = h),
           NEW s \in Stagers, NEW v \in StageCall, CallInOrder(v),
           stager' = [stager EXCEPT ![s] = v]
    PROVE  SessionInv'
<1>1. /\ DOMAIN bufs' = DOMAIN bufs
      /\ bufs' \in [DOMAIN bufs' -> Buffer]
      /\ bufs'[h] = b
      /\ \A g \in DOMAIN bufs : g # h => bufs'[g] = bufs[g]
  BY DEF SessionInv, TypeOK
<1>2. stager' \in [Stagers -> StageCall]
  BY DEF SessionInv, TypeOK
<1>3. \A t \in Stagers : stager'[t] = v \/ stager'[t] = stager[t]
  BY DEF SessionInv, TypeOK
<1>4. TypeOK'
  BY <1>1, <1>2 DEF SessionInv, TypeOK
<1>5. BufferAlive'
  BY <1>1 DEF SessionInv, BufferAlive
<1>6. (row.state \in Published => row.obj \in Content)' /\ PublishedStored'
  BY DEF SessionInv, PublishedStored, Content
<1>7. CallsInOrder'
  <2>1. \A c \in Clients : client'[c].pc = "open" => client'[c].h \in DOMAIN bufs'
    BY <1>1 DEF SessionInv, CallsInOrder
  <2>2. \A c \in Content : c[2] <= DirectLimit => items'[c] # "LocalLink"
    BY DEF SessionInv, CallsInOrder
  <2>3. ASSUME NEW t \in Stagers
        PROVE  CallInOrder(stager'[t])
    <3>1. CallInOrder(stager[t])
      BY DEF SessionInv, CallsInOrder, CallInOrder, Target
    <3>2. QED
      BY <1>3, <3>1
  <2>4. QED
    BY <1>1, <2>1, <2>2, <2>3 DEF CallsInOrder, CallInOrder, Target, Content
<1>8. QED
  BY <1>4, <1>5, <1>6, <1>7 DEF SessionInv

\* A flush leaves its buffer with a diff file.
LEMMA FlushStep ==
    ASSUME SessionInv, NEW c \in Clients, Flush(c) PROVE SessionInv'
<1> DEFINE h == client[c].h
           b == [file |-> TRUE, ver |-> bufs[h].ver + 1, linked |-> FALSE, finalized |-> FALSE]
<1>1. h \in DOMAIN bufs
  BY DEF Flush, SessionInv, CallsInOrder
<1>2. bufs[h] \in Buffer
  BY <1>1 DEF SessionInv, TypeOK
<1>3. bufs[h].ver + 1 \in 0 .. MaxFlush
  BY <1>2 DEF Flush, Buffer
<1>4. b \in Buffer /\ b.file
  BY <1>3 DEF Buffer
<1>5. bufs' = [bufs EXCEPT ![h] = b]
  BY DEF Flush
<1>6. UNCHANGED <<now, row, items, client, stager>>
  BY DEF Flush
<1> HIDE DEF h, b
<1>7. /\ DOMAIN bufs' = DOMAIN bufs
      /\ bufs' \in [DOMAIN bufs' -> Buffer]
      /\ \A g \in DOMAIN bufs : bufs[g].file => bufs'[g].file
  BY <1>1, <1>4, <1>5 DEF SessionInv, TypeOK
<1>8. TypeOK'
  BY <1>6, <1>7 DEF SessionInv, TypeOK
<1>9. BufferAlive'
  BY <1>6, <1>7 DEF SessionInv, BufferAlive
<1>10. (row.state \in Published => row.obj \in Content)' /\ PublishedStored'
  BY <1>6 DEF SessionInv, PublishedStored, Content
<1>11. CallsInOrder'
  BY <1>6, <1>7 DEF SessionInv, CallsInOrder, Target, Content
<1>12. QED
  BY <1>8, <1>9, <1>10, <1>11 DEF SessionInv

---------------------------------------------------------------------------
(* The steps of the stager.                                                *)

\* The call of a stager is one, and what it knows of itself holds.
LEMMA CallKnown ==
    ASSUME SessionInv, NEW s \in Stagers
    PROVE  /\ stager[s] \in StageCall
           /\ CallInOrder(stager[s])
           /\ stager[s].pc # "idle" => bufs[stager[s].h] \in Buffer
BY DEF SessionInv, TypeOK, CallsInOrder, CallInOrder, Target

\* No call in progress is always in order.
LEMMA IdleInOrder == IdleStager \in StageCall /\ CallInOrder(IdleStager)
<1>1. FileNormal \in StateValue
  BY DEF FileNormal, NodeState, StateValue, NodeStates, OptHandle, OptTime, OptContent
<1>2. QED
  BY <1>1 DEF IdleStager, StageCall, CallInOrder, OptHandle

\* A call begins on a known buffer.
LEMMA StageBeginStep ==
    ASSUME SessionInv, NEW s \in Stagers, NEW how \in {"cacl_name", "finalize"},
           NEW h \in Handles, StageBegin(s, how, h)
    PROVE  SessionInv'
<1> DEFINE v == [IdleStager EXCEPT !.pc = "compute", !.op = how, !.h = h]
<1>1. FileNormal \in StateValue
  BY DEF FileNormal, NodeState, StateValue, NodeStates, OptHandle, OptTime, OptContent
<1>2. v \in StageCall /\ v.pc = "compute" /\ v.h = h
  BY <1>1 DEF IdleStager, StageCall, OptHandle
<1>3. h \in DOMAIN bufs /\ stager' = [stager EXCEPT ![s] = v]
  BY DEF StageBegin
<1> HIDE DEF v
<1>4. CallInOrder(v)
  BY <1>2, <1>3 DEF CallInOrder
<1>5. QED
  BY <1>2, <1>3, <1>4, StagerSteps DEF StageBegin

\* The ids are computed of a version the buffer has had.
LEMMA StageComputeStep ==
    ASSUME SessionInv, NEW s \in Stagers, StageCompute(s) PROVE SessionInv'
<1> DEFINE v == [stager[s] EXCEPT !.pc = "put", !.ver = bufs[stager[s].h].ver]
<1>1. /\ stager[s] \in StageCall /\ stager[s].h \in DOMAIN bufs
      /\ bufs[stager[s].h] \in Buffer
  BY CallKnown DEF StageCompute, CallInOrder
<1>2. bufs[stager[s].h].ver \in 0 .. MaxFlush
  BY <1>1 DEF Buffer
<1>3. /\ v \in StageCall /\ v.pc = "put" /\ v.h = stager[s].h
      /\ v.ver \in 0 .. MaxFlush
  BY <1>1, <1>2 DEF StageCall
<1>4. stager' = [stager EXCEPT ![s] = v]
  BY DEF StageCompute, SessionInv, TypeOK
<1> HIDE DEF v
<1>5. CallInOrder(v)
  BY <1>1, <1>3 DEF CallInOrder
<1>6. QED
  BY <1>3, <1>4, <1>5, StagerSteps DEF StageCompute

\* The state the update will compare with is a state.
LEMMA StageReadStep ==
    ASSUME SessionInv, NEW s \in Stagers, StageRead(s) PROVE SessionInv'
<1> DEFINE v == [stager[s] EXCEPT !.pc = "publish", !.old = ParsedState(row)]
<1>1. stager[s] \in StageCall /\ CallInOrder(stager[s])
  BY CallKnown
<1>2. ParsedState(row) \in StateValue
  BY ParsedTyped DEF SessionInv, TypeOK
<1>3. /\ v \in StageCall /\ v.pc = "publish"
      /\ v.h = stager[s].h /\ v.ver = stager[s].ver
  BY <1>1, <1>2 DEF StageCall
<1>4. stager' = [stager EXCEPT ![s] = v]
  BY DEF StageRead, SessionInv, TypeOK
<1> HIDE DEF v
<1>5. CallInOrder(v)
  BY <1>1, <1>3 DEF CallInOrder, StageRead
<1>6. QED
  BY <1>3, <1>4, <1>5, StagerSteps DEF StageRead

\* A failed call leaves nothing in progress.
LEMMA StageFailStep ==
    ASSUME SessionInv, NEW s \in Stagers, StageFail(s) PROVE SessionInv'
BY IdleInOrder, StagerSteps DEF StageFail

\* The marks on the buffer do not touch its file.
LEMMA StageMarkStep ==
    ASSUME SessionInv, NEW s \in Stagers, StageMark(s) PROVE SessionInv'
<1> DEFINE v == [stager[s] EXCEPT !.pc = "read"]
           b == [bufs[stager[s].h] EXCEPT !.linked = TRUE, !.finalized = ~Links(s)]
<1>1. /\ stager[s] \in StageCall /\ CallInOrder(stager[s])
      /\ stager[s].h \in DOMAIN bufs
      /\ bufs[stager[s].h] \in Buffer
  BY CallKnown DEF StageMark, CallInOrder
<1>2. v \in StageCall /\ v.pc = "read" /\ v.h = stager[s].h /\ v.ver = stager[s].ver
  BY <1>1 DEF StageCall
<1>3. ASSUME NEW f \in BOOLEAN
      PROVE  /\ [bufs[stager[s].h] EXCEPT !.linked = TRUE, !.finalized = f] \in Buffer
             /\ [bufs[stager[s].h] EXCEPT !.linked = TRUE, !.finalized = f].file
                  = bufs[stager[s].h].file
  BY <1>1 DEF Buffer
<1>4. (~Links(s)) \in BOOLEAN
  OBVIOUS
<1>5. b \in Buffer /\ b.file = bufs[stager[s].h].file
  BY <1>3, <1>4
<1>6. stager' = [stager EXCEPT ![s] = v]
  BY DEF StageMark, SessionInv, TypeOK
<1>7. bufs' = [bufs EXCEPT ![stager[s].h] = b]
  BY <1>1 DEF StageMark, SessionInv, TypeOK
<1> HIDE DEF v, b
<1>8. CallInOrder(v)
  BY <1>1, <1>2 DEF CallInOrder, StageMark
<1>9. b.file \/ ~bufs[stager[s].h].file \/ ~(row.state \in Buffered /\ row.fb = stager[s].h)
  BY <1>5
<1>10. b \in Buffer
  BY <1>5
<1>11. UNCHANGED <<now, row, items, client>>
  BY DEF StageMark
<1>12. QED
  BY <1>1, <1>2, <1>6, <1>7, <1>8, <1>9, <1>10, <1>11, BufferSteps

\* The diff file that goes is not the one the row shows.
LEMMA StageUnlinkStep ==
    ASSUME SessionInv, NEW s \in Stagers, StageUnlink(s) PROVE SessionInv'
<1> DEFINE b == [bufs[stager[s].h] EXCEPT !.file = FALSE]
<1>1. /\ stager[s].h \in DOMAIN bufs
      /\ bufs[stager[s].h] \in Buffer
      /\ ~(row.state \in Buffered /\ row.fb = stager[s].h)
  BY CallKnown DEF StageUnlink, CallInOrder
<1>2. b \in Buffer
  BY <1>1 DEF Buffer
<1>3. bufs' = [bufs EXCEPT ![stager[s].h] = b]
  BY <1>1 DEF StageUnlink, SessionInv, TypeOK
<1> HIDE DEF b
<1>4. QED
  BY <1>1, <1>2, <1>3, IdleInOrder, BufferSteps DEF StageUnlink

\* What is put stays put: the store forgets no content, gains the one that is
\* about to be published, and records small contents as copies.
LEMMA StagePutStep ==
    ASSUME SessionInv, NEW s \in Stagers, StagePut(s) PROVE SessionInv'
<1> DEFINE v == [stager[s] EXCEPT !.pc = "mark"]
           c == Target(s)
<1>1. /\ stager[s] \in StageCall /\ CallInOrder(stager[s])
      /\ stager[s].h \in DOMAIN bufs /\ stager[s].ver \in 0 .. MaxFlush
  BY CallKnown DEF StagePut, CallInOrder
<1>2. c \in Content /\ c = <<stager[s].h, stager[s].ver>> /\ c[2] = stager[s].ver
  BY <1>1 DEF Target, Content, SessionInv, TypeOK
<1>3. v \in StageCall /\ v.pc = "mark" /\ v.h = stager[s].h /\ v.ver = stager[s].ver
  BY <1>1 DEF StageCall
<1>4. stager' = [stager EXCEPT ![s] = v]
  BY DEF StagePut, SessionInv, TypeOK
<1>5. \/ items' = [items EXCEPT ![c] = "LocalLink"] /\ c[2] > DirectLimit
      \/ items' = [items EXCEPT ![c] = "Completed"]
      \/ items' = items /\ items[c] # "NotExist"
  BY <1>2 DEF StagePut, PutLinks, PutChunks, Links, SessionInv, TypeOK
<1>6. UNCHANGED <<now, row, bufs, client>>
  BY DEF StagePut
<1> HIDE DEF v, c
<1>7. /\ items \in [Content -> {"NotExist", "LocalLink", "Completed"}]
      /\ \A d \in Content : d[2] <= DirectLimit => items[d] # "LocalLink"
  BY DEF SessionInv, TypeOK, CallsInOrder
<1>8. \A d \in Content : d[2] \in Nat
  BY DEF Content
<1>9. /\ items' \in [Content -> {"NotExist", "LocalLink", "Completed"}]
      /\ \A d \in Content : d[2] <= DirectLimit => items'[d] # "LocalLink"
      /\ items'[c] # "NotExist"
      /\ \A d \in Content : items[d] # "NotExist" => items'[d] # "NotExist"
  BY <1>2, <1>5, <1>7, <1>8
<1>10. \A d \in Content : d[2] <= DirectLimit /\ items'[d] # "NotExist" => items'[d] = "Completed"
  BY <1>9
<1>11. stager' \in [Stagers -> StageCall] /\ \A t \in Stagers : stager'[t] = v \/ stager'[t] = stager[t]
  BY <1>3, <1>4 DEF SessionInv, TypeOK
<1>12. TypeOK'
  BY <1>6, <1>9, <1>11 DEF SessionInv, TypeOK
<1>13. BufferAlive' /\ (row.state \in Published => row.obj \in Content)'
  BY <1>6 DEF SessionInv, BufferAlive, Content
<1>14. PublishedStored'
  BY <1>6, <1>9, <1>10 DEF SessionInv, PublishedStored
<1>15. CallsInOrder'
  <2>1. ASSUME NEW t \in Stagers, stager[t].pc \in {"mark", "read", "publish"}
        PROVE  <<stager[t].h, stager[t].ver>> \in Content
    BY <2>1 DEF SessionInv, TypeOK, CallsInOrder, Content
  <2>2. ASSUME NEW t \in Stagers, stager'[t].pc \in {"mark", "read", "publish"}
        PROVE  /\ items'[<<stager'[t].h, stager'[t].ver>>] # "NotExist"
               /\ stager'[t].ver <= DirectLimit =>
                    items'[<<stager'[t].h, stager'[t].ver>>] = "Completed"
    <3>1. CASE stager'[t] = v
      BY <1>2, <1>3, <1>9, <1>10, <3>1
    <3>2. CASE stager'[t] = stager[t]
      <4>1. items[<<stager[t].h, stager[t].ver>>] # "NotExist"
        BY <2>2, <3>2 DEF SessionInv, CallsInOrder, Target
      <4>2. QED
        BY <1>9, <1>10, <2>1, <2>2, <3>2, <4>1
    <3>3. QED
      BY <1>11, <3>1, <3>2
  <2>3. ASSUME NEW t \in Stagers
        PROVE  /\ stager'[t].pc # "idle" => stager'[t].h \in DOMAIN bufs
               /\ stager'[t].pc \in {"put", "mark", "read", "publish", "unlink"} =>
                    stager'[t].ver \in 0 .. MaxFlush
               /\ stager'[t].pc = "unlink" => ~(row.state \in Buffered /\ row.fb = stager'[t].h)
    BY <1>1, <1>3, <1>11 DEF SessionInv, CallsInOrder
  <2>4. \A d \in Clients : client[d].pc = "open" => client[d].h \in DOMAIN bufs
    BY DEF SessionInv, CallsInOrder
  <2>5. QED
    BY <1>6, <1>9, <2>2, <2>3, <2>4 DEF CallsInOrder, Target, Content
<1>16. QED
  BY <1>12, <1>13, <1>14, <1>15 DEF SessionInv

\* A published row shows the content that was put, and no buffer any more.
LEMMA StagePublishStep ==
    ASSUME SessionInv, NEW s \in Stagers, StagePublish(s) PROVE SessionInv'
<1> DEFINE v == [stager[s] EXCEPT !.pc = "unlink"]
<1>1. /\ stager[s] \in StageCall /\ CallInOrder(stager[s]) /\ row \in Row
      /\ stager[s].h \in DOMAIN bufs /\ stager[s].ver \in 0 .. MaxFlush
      /\ items[Target(s)] # "NotExist"
      /\ stager[s].ver <= DirectLimit => items[Target(s)] = "Completed"
  BY CallKnown DEF StagePublish, CallInOrder, Target, SessionInv, TypeOK
<1>2. Target(s) \in Content /\ Target(s)[2] = stager[s].ver
  BY <1>1 DEF Target, Content, SessionInv, TypeOK
<1>3. /\ v \in StageCall /\ v.pc = "unlink" /\ v.h = stager[s].h /\ v.ver = stager[s].ver
  BY <1>1 DEF StageCall
<1> HIDE DEF v
<1>4. CASE ~StateMatches(row, stager[s].old)
  BY <1>4, IdleInOrder, StagerSteps DEF StagePublish
<1>5. CASE StateMatches(row, stager[s].old)
  <2>1. /\ \/ row' = WithState(row, Linked(Target(s)))
           \/ row' = WithState(row, Finalized(Target(s)))
        /\ \/ stager' = [stager EXCEPT ![s] = IdleStager]
           \/ stager' = [stager EXCEPT ![s] = v]
    BY <1>5 DEF StagePublish, v
  <2>2. Linked(Target(s)) \in StateValue /\ Finalized(Target(s)) \in StateValue
    BY <1>2 DEF Linked, Finalized, NodeState, StateValue, NodeStates,
                OptHandle, OptTime, OptContent
  <2>3. row' \in Row /\ row'.state \in Published /\ row'.obj = Target(s)
    BY <1>1, <2>1, <2>2, WithStateRow DEF Linked, Finalized, NodeState, Published
  <2>4. row'.state \notin Buffered
    BY <2>3 DEF Published, Buffered
  <2>5. UNCHANGED <<now, bufs, items, client>>
    BY DEF StagePublish
  <2>6. /\ stager' \in [Stagers -> StageCall]
        /\ \A t \in Stagers : stager'[t] = v \/ stager'[t] = IdleStager \/ stager'[t] = stager[t]
    BY <1>3, <2>1, IdleInOrder DEF SessionInv, TypeOK
  <2>7. TypeOK'
    BY <2>3, <2>5, <2>6 DEF SessionInv, TypeOK
  <2>8. BufferAlive'
    BY <2>4 DEF BufferAlive
  <2>9. (row.state \in Published => row.obj \in Content)' /\ PublishedStored'
    BY <1>1, <1>2, <2>3, <2>5 DEF PublishedStored, Content
  <2>10. CallsInOrder'
    <3>1. ASSUME NEW t \in Stagers
          PROVE  /\ stager'[t].pc # "idle" => stager'[t].h \in DOMAIN bufs
                 /\ stager'[t].pc \in {"put", "mark", "read", "publish", "unlink"} =>
                      stager'[t].ver \in 0 .. MaxFlush
                 /\ stager'[t].pc \in {"mark", "read", "publish"} =>
                      /\ items[<<stager'[t].h, stager'[t].ver>>] # "NotExist"
                      /\ stager'[t].ver <= DirectLimit =>
                           items[<<stager'[t].h, stager'[t].ver>>] = "Completed"
      <4>1. CallInOrder(stager[t])
        BY CallKnown
      <4>2. QED
        BY <1>1, <1>3, <2>6, <4>1, IdleInOrder DEF CallInOrder
    <3>2. /\ \A d \in Clients : client[d].pc = "open" => client[d].h \in DOMAIN bufs
          /\ \A d \in Content : d[2] <= DirectLimit => items[d] # "LocalLink"
      BY DEF SessionInv, CallsInOrder
    <3>3. QED
      BY <2>4, <2>5, <3>1, <3>2 DEF CallsInOrder, Target, Content
  <2>11. QED
    BY <2>7, <2>8, <2>9, <2>10 DEF SessionInv
<1>6. QED
  BY <1>4, <1>5

---------------------------------------------------------------------------
\* Every step keeps the inductive invariant.
LEMMA SessionStep == SessionInv /\ [Next]_vars => SessionInv'
<1> SUFFICES ASSUME SessionInv, [Next]_vars PROVE SessionInv'
  OBVIOUS
<1>1. CASE Tick
  BY <1>1, TickStep
<1>2. CASE Reclaim
  BY <1>2, ReclaimStep
<1>3. ASSUME NEW c \in Clients, ClientStep(c) PROVE SessionInv'
  BY <1>3, OpenFreshStep, OpenContinueStep, FlushStep, CloseCommitStep,
     CloseReleaseStep, ClientGoneStep DEF ClientStep
<1>4. ASSUME NEW s \in Stagers, StagerStep(s) PROVE SessionInv'
  BY <1>4, StageBeginStep, StageComputeStep, StagePutStep, StageMarkStep,
     StageReadStep, StagePublishStep, StageUnlinkStep, StageFailStep DEF StagerStep
<1>5. CASE UNCHANGED vars
  <2>1. UNCHANGED <<now, row, bufs, items, client, stager>>
    BY <1>5 DEF vars
  <2>2. QED
    BY <2>1, RowSteps DEF SessionInv, TypeOK, CallsInOrder
<1>6. QED
  BY <1>1, <1>2, <1>3, <1>4, <1>5 DEF Next

\* The invariant of a file's life holds in every reachable state.
THEOREM SessionInvariant == Spec => []SessionInv
BY SessionInit, SessionStep, PTL DEF Spec

\* Type correctness.
THEOREM SessionTypeCorrect == Spec => []TypeOK
<1>1. SessionInv => TypeOK
  BY DEF SessionInv
<1>2. QED
  BY <1>1, SessionInvariant, PTL

\* A Working or Cooling file always has its diff file, for any number of
\* clients and stagers: no finalize takes it from under a reader or a writer.
THEOREM BufferAliveHolds == Spec => []BufferAlive
<1>1. SessionInv => BufferAlive
  BY DEF SessionInv
<1>2. QED
  BY <1>1, SessionInvariant, PTL

\* A Linked or Finalized row never shows an object the store does not know,
\* and a small Finalized file has its data inside the store.
THEOREM PublishedStoredHolds == Spec => []PublishedStored
<1>1. SessionInv => PublishedStored
  BY DEF SessionInv
<1>2. QED
  BY <1>1, SessionInvariant, PTL

---------------------------------------------------------------------------
(* Transactions.                                                           *)

TxnRec == [map : BOOLEAN, closing : BOOLEAN, conn : {"none", "tx", "auto"}, fly : Nat,
           idle : BOOLEAN, slow : BOOLEAN, by : {"-", "commit", "rollback", "invalidate"},
           clean : BOOLEAN, writes : [CacheEdges -> Dentry \cup {Keep}],
           touched : SUBSET CacheEdges, base : [CacheEdges -> Dentry]]
OpRec == [pc : {"free", "queued", "entered", "written"}, t : Txns \cup {AutoCommit},
          e : CacheEdges \cup {<<Root, "-">>}, v : Dentry]

TxnShape ==
    /\ rows \in [CacheEdges -> Dentry] /\ txn \in [Txns -> TxnRec] /\ op \in [Ops -> OpRec]
    /\ \A o \in Ops : op[o].pc # "free" => op[o].e \in CacheEdges
    /\ gaps \subseteq CacheEdges

\* BEGIN IMMEDIATE lets one transaction in at a time.
OneWriter == \A t, u \in Txns : txn[t].conn = "tx" /\ txn[u].conn = "tx" => t = u

\* The in-flight counter counts the operations between InFlightGuard::enter
\* and the end of their statement, for the transaction they were sent to.
Entered(t) == {o \in Ops : op[o].pc = "entered" /\ op[o].t = t}
FlyExact == \A t \in Txns : txn[t].fly = Cardinality(Entered(t))

\* A transaction that was not begun is in no map and has no operation.
NotBegun ==
    /\ \A t \in Txns : txn[t].conn = "none" => ~txn[t].map
    /\ \A o \in Ops : op[o].pc # "free" /\ op[o].t \in Txns => txn[op[o].t].conn # "none"

TxnInv == TxnShape /\ OneWriter /\ Isolated /\ FlyExact /\ NotBegun

LEMMA NewTxnTyped == NewTxn \in TxnRec /\ NoOp \in OpRec
<1>1. NoWrites \in [CacheEdges -> Dentry \cup {Keep}]
  BY DEF NoWrites
<1>2. InitRows \in [CacheEdges -> Dentry] /\ Missing \in Dentry
  BY TxnAssumption DEF Dentry
<1> QED
  BY <1>1, <1>2 DEF NewTxn, NoOp, TxnRec, OpRec

LEMMA TxnInvInit ==
    ASSUME TxnInit
    PROVE  TxnInv
<1>1. /\ rows = InitRows /\ txn = [t \in Txns |-> NewTxn] /\ op = [o \in Ops |-> NoOp] /\ gaps = {}
  BY DEF TxnInit
<1>2. NewTxn.conn = "none" /\ NewTxn.fly = 0 /\ NewTxn.map = FALSE /\ NoOp.pc = "free"
  BY DEF NewTxn, NoOp
<1>3. TxnShape
  BY <1>1, <1>2, NewTxnTyped, TxnAssumption DEF TxnShape
<1>4. OneWriter /\ Isolated /\ NotBegun
  BY <1>1, <1>2 DEF OneWriter, Isolated, NotBegun
<1>5. \A t \in Txns : Entered(t) = {}
  BY <1>1, <1>2 DEF Entered
<1>6. FlyExact
  BY <1>1, <1>2, <1>5, FS_EmptySet DEF FlyExact
<1> QED
  BY <1>3, <1>4, <1>6 DEF TxnInv

\* A step of one transaction: it opens only when nobody is open, on the rows
\* as they are, and only an open one that ends changes them.
LEMMA TxnMove ==
    ASSUME TxnInv, NEW t \in Txns, NEW r \in TxnRec,
           txn' = [txn EXCEPT ![t] = r], op' = op,
           gaps' \subseteq CacheEdges, rows' \in [CacheEdges -> Dentry],
           r.fly = txn[t].fly,
           r.conn = "none" => txn[t].conn = "none" /\ ~r.map,
           \/ rows' = rows /\ r.conn = txn[t].conn /\ r.base = txn[t].base
           \/ rows' = rows /\ ~Locked /\ r.base = rows
           \/ txn[t].conn = "tx" /\ r.conn # "tx"
    PROVE  TxnInv'
<1>1. txn \in [Txns -> TxnRec]
  BY DEF TxnInv, TxnShape
<1>2. \A u \in Txns : txn'[u] = IF u = t THEN r ELSE txn[u]
  BY <1>1
<1>3. TxnShape'
  BY <1>1 DEF TxnInv, TxnShape
<1>4. OneWriter'
  BY <1>2 DEF TxnInv, OneWriter, Locked
<1>5. Isolated'
  BY <1>2 DEF TxnInv, OneWriter, Isolated, Locked
<1>6. \A u \in Txns : Entered(u)' = Entered(u)
  BY DEF Entered
<1>7. FlyExact'
  BY <1>2, <1>6 DEF TxnInv, FlyExact
<1>8. NotBegun'
  BY <1>2 DEF TxnInv, NotBegun
<1> QED
  BY <1>3, <1>4, <1>5, <1>7, <1>8 DEF TxnInv

\* A step of one operation: it leaves every connection as it is, and changes a
\* committed row only while no transaction is open.
LEMMA OpMove ==
    ASSUME TxnInv, NEW o \in Ops, NEW q \in OpRec,
           op' = [op EXCEPT ![o] = q], q.pc # "free" => q.e \in CacheEdges,
           q.pc # "free" /\ q.t \in Txns => txn[q.t].conn # "none",
           txn' \in [Txns -> TxnRec], gaps' \subseteq CacheEdges, rows' \in [CacheEdges -> Dentry],
           \A t \in Txns : /\ txn'[t].conn = txn[t].conn /\ txn'[t].map = txn[t].map
                           /\ txn'[t].base = txn[t].base
                           /\ txn'[t].fly = Cardinality(Entered(t)'),
           rows' = rows \/ ~Locked
    PROVE  TxnInv'
<1>1. op \in [Ops -> OpRec]
  BY DEF TxnInv, TxnShape
<1>2. \A x \in Ops : op'[x] = IF x = o THEN q ELSE op[x]
  BY <1>1
<1>3. TxnShape'
  BY <1>1, <1>2 DEF TxnInv, TxnShape
<1>4. OneWriter' /\ Isolated'
  BY DEF TxnInv, OneWriter, Isolated, Locked
<1>5. FlyExact'
  BY DEF FlyExact
<1>6. NotBegun'
  BY <1>2 DEF TxnInv, NotBegun
<1> QED
  BY <1>3, <1>4, <1>5, <1>6 DEF TxnInv

\* The steps that only mark the entry.
LEMMA MarkStep ==
    ASSUME TxnInv, NEW t \in Txns,
           \/ MarkClosing(t, "commit") \/ MarkClosing(t, "rollback")
           \/ GiveUpWaiting(t) \/ CommitFails(t) \/ CommitFinish(t)
           \/ GoIdle(t) \/ CleanTake(t)
    PROVE  TxnInv'
<1>1. txn[t] \in TxnRec /\ txn[t].touched \subseteq CacheEdges
  BY DEF TxnInv, TxnShape, TxnRec
<1>2. rows' = rows /\ op' = op /\ gaps' \subseteq CacheEdges
  BY <1>1 DEF TxnInv, TxnShape, MarkClosing, GiveUpWaiting, CommitFails, CommitFinish,
              GoIdle, CleanTake, ReadByNow
<1>3. PICK r \in TxnRec :
          /\ txn' = [txn EXCEPT ![t] = r]
          /\ r.fly = txn[t].fly /\ r.conn = txn[t].conn /\ r.base = txn[t].base
          /\ r.map => txn[t].map
  <2>1. CASE MarkClosing(t, "commit") \/ MarkClosing(t, "rollback")
    <3>1. PICK how \in {"commit", "rollback"} : MarkClosing(t, how)
      BY <2>1
    <3>2. PICK r : r = [txn[t] EXCEPT !.closing = TRUE, !.by = how]
      OBVIOUS
    <3>3. /\ r \in TxnRec /\ r.fly = txn[t].fly /\ r.conn = txn[t].conn
          /\ r.base = txn[t].base /\ r.map = txn[t].map
      BY <1>1, <3>2 DEF TxnRec
    <3> QED
      BY <3>1, <3>2, <3>3 DEF MarkClosing, SetTxn
  <2>2. CASE GiveUpWaiting(t)
    <3>1. PICK r : r = [txn[t] EXCEPT !.slow = TRUE]
      OBVIOUS
    <3>2. /\ r \in TxnRec /\ r.fly = txn[t].fly /\ r.conn = txn[t].conn
          /\ r.base = txn[t].base /\ r.map = txn[t].map
      BY <1>1, <3>1 DEF TxnRec
    <3> QED
      BY <2>2, <3>1, <3>2 DEF GiveUpWaiting, SetTxn
  <2>3. CASE CommitFails(t)
    <3>1. PICK r : r = [txn[t] EXCEPT !.by = "-"]
      OBVIOUS
    <3>2. /\ r \in TxnRec /\ r.fly = txn[t].fly /\ r.conn = txn[t].conn
          /\ r.base = txn[t].base /\ r.map = txn[t].map
      BY <1>1, <3>1 DEF TxnRec
    <3> QED
      BY <2>3, <3>1, <3>2 DEF CommitFails, SetTxn
  <2>4. CASE CommitFinish(t)
    <3>1. PICK r : r = [txn[t] EXCEPT !.map = FALSE, !.by = "-"]
      OBVIOUS
    <3>2. /\ r \in TxnRec /\ r.fly = txn[t].fly /\ r.conn = txn[t].conn
          /\ r.base = txn[t].base /\ r.map = FALSE
      BY <1>1, <3>1 DEF TxnRec
    <3> QED
      BY <2>4, <3>1, <3>2 DEF CommitFinish, SetTxn
  <2>5. CASE GoIdle(t)
    <3>1. PICK r : r = [txn[t] EXCEPT !.idle = TRUE]
      OBVIOUS
    <3>2. /\ r \in TxnRec /\ r.fly = txn[t].fly /\ r.conn = txn[t].conn
          /\ r.base = txn[t].base /\ r.map = txn[t].map
      BY <1>1, <3>1 DEF TxnRec
    <3> QED
      BY <2>5, <3>1, <3>2 DEF GoIdle, SetTxn
  <2>6. CASE CleanTake(t)
    <3>1. PICK r : r = [txn[t] EXCEPT !.map = FALSE, !.closing = TRUE, !.clean = TRUE]
      OBVIOUS
    <3>2. /\ r \in TxnRec /\ r.fly = txn[t].fly /\ r.conn = txn[t].conn
          /\ r.base = txn[t].base /\ r.map = FALSE
      BY <1>1, <3>1 DEF TxnRec
    <3> QED
      BY <2>6, <3>1, <3>2 DEF CleanTake, SetTxn
  <2> QED
    BY <2>1, <2>2, <2>3, <2>4, <2>5, <2>6
<1>4. r.conn = "none" => txn[t].conn = "none" /\ ~r.map
  BY <1>3 DEF TxnInv, NotBegun
<1>5. rows' \in [CacheEdges -> Dentry]
  BY <1>2 DEF TxnInv, TxnShape
<1> QED
  BY <1>2, <1>3, <1>4, <1>5, TxnMove

\* handle_begin_txn: nobody is open, and the transaction starts on the rows as
\* they are.
LEMMA BeginStep ==
    ASSUME TxnInv, NEW t \in Txns, Begin(t)
    PROVE  TxnInv'
<1>1. PICK r : r = [NewTxn EXCEPT !.map = TRUE, !.conn = "tx", !.base = rows]
  OBVIOUS
<1>2. r \in TxnRec /\ r.fly = 0 /\ r.conn = "tx" /\ r.base = rows
  <2>1. rows \in [CacheEdges -> Dentry] /\ NewTxn.fly = 0
    BY DEF TxnInv, TxnShape, NewTxn
  <2> QED
    BY <1>1, <2>1, NewTxnTyped DEF TxnRec
<1>3. /\ txn' = [txn EXCEPT ![t] = r] /\ op' = op /\ gaps' = gaps /\ rows' = rows
      /\ ~Locked /\ txn[t].conn = "none"
  BY <1>1 DEF Begin, SetTxn
<1>4. Entered(t) = {}
  BY <1>3 DEF TxnInv, NotBegun, Entered
<1>5. txn[t].fly = 0
  BY <1>4, FS_EmptySet DEF TxnInv, FlyExact
<1>6. rows' \in [CacheEdges -> Dentry] /\ gaps' \subseteq CacheEdges
  BY <1>3 DEF TxnInv, TxnShape
<1> QED
  BY <1>2, <1>3, <1>5, <1>6, TxnMove

\* The end of a transaction: its connection is in autocommit mode afterwards.
LEMMA EndedTyped ==
    ASSUME NEW r \in TxnRec
    PROVE  /\ Ended(r) \in TxnRec /\ Ended(r).fly = r.fly /\ Ended(r).conn = "auto"
           /\ Ended(r).base = r.base
<1>1. NoWrites \in [CacheEdges -> Dentry \cup {Keep}]
  BY DEF NoWrites
<1> QED
  BY <1>1 DEF Ended, TxnRec

\* COMMIT, ROLLBACK and the cleanup's rollback.
LEMMA EndStep ==
    ASSUME TxnInv, NEW t \in Txns, CommitDo(t) \/ RollbackDo(t) \/ CleanDo(t)
    PROVE  TxnInv'
<1>1. txn[t] \in TxnRec
  BY DEF TxnInv, TxnShape
<1>2. rows \in [CacheEdges -> Dentry] /\ txn[t].writes \in [CacheEdges -> Dentry \cup {Keep}]
  BY <1>1 DEF TxnInv, TxnShape, TxnRec
<1>3. Overlay(txn[t].writes) \in [CacheEdges -> Dentry]
  BY <1>2 DEF Overlay
<1>4. op' = op /\ gaps' \subseteq CacheEdges /\ rows' \in [CacheEdges -> Dentry]
  BY <1>2, <1>3 DEF CommitDo, RollbackDo, CleanDo, WriteRows, TxnInv, TxnShape
<1>5. PICK e : e = Ended(txn[t])
  OBVIOUS
<1>6. e \in TxnRec /\ e.fly = txn[t].fly /\ e.conn = "auto" /\ e.base = txn[t].base
  BY <1>1, <1>5, EndedTyped
<1>7. CASE CommitDo(t) /\ txn[t].conn = "tx"
  <2>1. PICK r : r = [e EXCEPT !.by = "invalidate"]
    OBVIOUS
  <2>2. r \in TxnRec /\ r.fly = txn[t].fly /\ r.conn = "auto"
    BY <1>6, <2>1 DEF TxnRec
  <2>3. txn' = [txn EXCEPT ![t] = r]
    BY <1>5, <1>7, <2>1 DEF CommitDo, SetTxn
  <2> QED
    BY <1>4, <1>7, <2>2, <2>3, TxnMove
<1>8. CASE CommitDo(t) /\ txn[t].conn # "tx"
  <2>1. PICK r : r = [txn[t] EXCEPT !.by = "-"]
    OBVIOUS
  <2>2. /\ r \in TxnRec /\ r.fly = txn[t].fly /\ r.conn = txn[t].conn /\ r.base = txn[t].base
        /\ r.map = txn[t].map
    BY <1>1, <2>1 DEF TxnRec
  <2>3. txn' = [txn EXCEPT ![t] = r] /\ rows' = rows
    BY <1>8, <2>1 DEF CommitDo, SetTxn
  <2>4. r.conn = "none" => txn[t].conn = "none" /\ ~r.map
    BY <2>2 DEF TxnInv, NotBegun
  <2> QED
    BY <1>4, <2>2, <2>3, <2>4, TxnMove
<1>9. CASE RollbackDo(t) /\ txn[t].conn = "tx"
  <2>1. PICK r : r = [e EXCEPT !.map = FALSE, !.by = "-"]
    OBVIOUS
  <2>2. r \in TxnRec /\ r.fly = txn[t].fly /\ r.conn = "auto"
    BY <1>6, <2>1 DEF TxnRec
  <2>3. txn' = [txn EXCEPT ![t] = r]
    BY <1>5, <1>9, <2>1 DEF RollbackDo, SetTxn
  <2> QED
    BY <1>4, <1>9, <2>2, <2>3, TxnMove
<1>10. CASE RollbackDo(t) /\ txn[t].conn # "tx"
  <2>1. PICK r : r = [txn[t] EXCEPT !.by = "-"]
    OBVIOUS
  <2>2. /\ r \in TxnRec /\ r.fly = txn[t].fly /\ r.conn = txn[t].conn /\ r.base = txn[t].base
        /\ r.map = txn[t].map
    BY <1>1, <2>1 DEF TxnRec
  <2>3. txn' = [txn EXCEPT ![t] = r] /\ rows' = rows
    BY <1>10, <2>1 DEF RollbackDo, SetTxn
  <2>4. r.conn = "none" => txn[t].conn = "none" /\ ~r.map
    BY <2>2 DEF TxnInv, NotBegun
  <2> QED
    BY <1>4, <2>2, <2>3, <2>4, TxnMove
<1>11. CASE CleanDo(t) /\ txn[t].conn = "tx"
  <2>1. PICK r : r = [e EXCEPT !.clean = FALSE]
    OBVIOUS
  <2>2. r \in TxnRec /\ r.fly = txn[t].fly /\ r.conn = "auto"
    BY <1>6, <2>1 DEF TxnRec
  <2>3. txn' = [txn EXCEPT ![t] = r]
    BY <1>5, <1>11, <2>1 DEF CleanDo, SetTxn
  <2> QED
    BY <1>4, <1>11, <2>2, <2>3, TxnMove
<1>12. CASE CleanDo(t) /\ txn[t].conn # "tx"
  <2>1. PICK r : r = [txn[t] EXCEPT !.clean = FALSE]
    OBVIOUS
  <2>2. /\ r \in TxnRec /\ r.fly = txn[t].fly /\ r.conn = txn[t].conn /\ r.base = txn[t].base
        /\ r.map = txn[t].map
    BY <1>1, <2>1 DEF TxnRec
  <2>3. txn' = [txn EXCEPT ![t] = r] /\ rows' = rows
    BY <1>12, <2>1 DEF CleanDo, SetTxn
  <2>4. r.conn = "none" => txn[t].conn = "none" /\ ~r.map
    BY <2>2 DEF TxnInv, NotBegun
  <2> QED
    BY <1>4, <2>2, <2>3, <2>4, TxnMove
<1> QED
  BY <1>7, <1>8, <1>9, <1>10, <1>11, <1>12

\* The operations a transaction counts are finitely many.
LEMMA EnteredFinite ==
    ASSUME NEW t
    PROVE  IsFiniteSet(Entered(t)) /\ Cardinality(Entered(t)) \in Nat
           /\ IsFiniteSet(Entered(t)') /\ Cardinality(Entered(t)') \in Nat
<1>1. Entered(t) \in SUBSET Ops /\ Entered(t)' \in SUBSET Ops
  BY DEF Entered
<1> QED
  BY <1>1, TxnAssumption, FS_Subset, FS_CardinalityType

\* with_conn: an open entry was found and the task is queued.
LEMMA FetchStep ==
    ASSUME TxnInv, NEW o \in Ops, NEW t \in Txns \cup {AutoCommit}, NEW e \in CacheEdges,
           NEW v \in Targets[e], OpFetch(o, t, e, v)
    PROVE  TxnInv'
<1>1. PICK q : q = [pc |-> "queued", t |-> t, e |-> e, v |-> v]
  OBVIOUS
<1>2. v \in Dentry
  BY TxnAssumption
<1>3. q \in OpRec /\ q.pc = "queued" /\ q.t = t /\ q.e = e
  BY <1>1, <1>2 DEF OpRec
<1>4. /\ op[o].pc = "free" /\ op' = [op EXCEPT ![o] = q] /\ rows' = rows /\ gaps' = gaps
      /\ t # AutoCommit => txn[t].map
      /\ txn' = IF t = AutoCommit THEN txn ELSE [txn EXCEPT ![t].idle = FALSE]
  BY <1>1 DEF OpFetch
<1>5. /\ txn' \in [Txns -> TxnRec]
      /\ \A u \in Txns : /\ txn'[u].conn = txn[u].conn /\ txn'[u].map = txn[u].map
                         /\ txn'[u].base = txn[u].base /\ txn'[u].fly = txn[u].fly
  <2>1. CASE t = AutoCommit
    BY <1>4, <2>1 DEF TxnInv, TxnShape
  <2>2. CASE t # AutoCommit
    <3>1. t \in Txns /\ txn[t] \in TxnRec
      BY <2>2 DEF TxnInv, TxnShape
    <3>2. PICK r : r = [txn[t] EXCEPT !.idle = FALSE]
      OBVIOUS
    <3>3. /\ r \in TxnRec /\ r.conn = txn[t].conn /\ r.map = txn[t].map
          /\ r.base = txn[t].base /\ r.fly = txn[t].fly
      BY <3>1, <3>2 DEF TxnRec
    <3>4. txn' = [txn EXCEPT ![t] = r]
      BY <1>4, <2>2, <3>2
    <3> QED
      BY <3>1, <3>3, <3>4 DEF TxnInv, TxnShape
  <2> QED
    BY <2>1, <2>2
<1>6. \A u \in Txns : Entered(u)' = Entered(u)
  BY <1>3, <1>4 DEF Entered, TxnInv, TxnShape
<1>7. \A u \in Txns : txn'[u].fly = Cardinality(Entered(u)')
  BY <1>5, <1>6 DEF TxnInv, FlyExact
<1>8. q.pc # "free" /\ q.t \in Txns => txn[q.t].conn # "none"
  BY <1>3, <1>4, TxnAssumption DEF TxnInv, NotBegun
<1>9. rows' \in [CacheEdges -> Dentry] /\ gaps' \subseteq CacheEdges
  BY <1>4 DEF TxnInv, TxnShape
<1> QED
  BY <1>3, <1>4, <1>5, <1>7, <1>8, <1>9, OpMove

\* InFlightGuard::enter counts the operation.
LEMMA EnterStep ==
    ASSUME TxnInv, NEW o \in Ops, OpEnter(o)
    PROVE  TxnInv'
<1> DEFINE t == op[o].t
<1>1. op[o] \in OpRec /\ op[o].pc = "queued" /\ op[o].e \in CacheEdges
  BY DEF OpEnter, TxnInv, TxnShape
<1>2. PICK q : q = [op[o] EXCEPT !.pc = "entered"]
  OBVIOUS
<1>3. q \in OpRec /\ q.pc = "entered" /\ q.t = t /\ q.e = op[o].e
  BY <1>1, <1>2 DEF OpRec
<1>4. /\ op' = [op EXCEPT ![o] = q] /\ rows' = rows /\ gaps' = gaps
      /\ txn' = IF t = AutoCommit THEN txn ELSE [txn EXCEPT ![t].fly = @ + 1]
  BY <1>2 DEF OpEnter
<1>5. t \in Txns \cup {AutoCommit}
  BY <1>1 DEF OpRec
<1> HIDE DEF t
<1>6. /\ txn' \in [Txns -> TxnRec]
      /\ \A u \in Txns : /\ txn'[u].conn = txn[u].conn /\ txn'[u].map = txn[u].map
                         /\ txn'[u].base = txn[u].base
                         /\ txn'[u].fly = IF u = t THEN txn[u].fly + 1 ELSE txn[u].fly
  <2>1. CASE t = AutoCommit
    BY <1>4, <2>1, TxnAssumption DEF TxnInv, TxnShape
  <2>2. CASE t # AutoCommit
    <3>1. t \in Txns /\ txn[t] \in TxnRec /\ txn[t].fly \in Nat
      BY <1>5, <2>2 DEF TxnInv, TxnShape, TxnRec
    <3>2. PICK r : r = [txn[t] EXCEPT !.fly = txn[t].fly + 1]
      OBVIOUS
    <3>3. /\ r \in TxnRec /\ r.conn = txn[t].conn /\ r.map = txn[t].map
          /\ r.base = txn[t].base /\ r.fly = txn[t].fly + 1
      BY <3>1, <3>2 DEF TxnRec
    <3>4. txn' = [txn EXCEPT ![t] = r]
      BY <1>4, <2>2, <3>2
    <3> QED
      BY <3>1, <3>3, <3>4 DEF TxnInv, TxnShape
  <2> QED
    BY <2>1, <2>2
<1>7. \A u \in Txns : txn'[u].fly = Cardinality(Entered(u)')
  <2> SUFFICES ASSUME NEW u \in Txns PROVE txn'[u].fly = Cardinality(Entered(u)')
    OBVIOUS
  <2>1. CASE u = t
    <3>1. Entered(u)' = Entered(u) \cup {o} /\ o \notin Entered(u)
      BY <1>1, <1>3, <1>4, <2>1 DEF Entered, TxnInv, TxnShape
    <3>2. Cardinality(Entered(u)') = Cardinality(Entered(u)) + 1
      BY <3>1, EnteredFinite, FS_AddElement
    <3> QED
      BY <1>6, <2>1, <3>2 DEF TxnInv, FlyExact
  <2>2. CASE u # t
    <3>1. Entered(u)' = Entered(u)
      BY <1>1, <1>3, <1>4, <2>2 DEF Entered, TxnInv, TxnShape, t
    <3> QED
      BY <1>6, <2>2, <3>1 DEF TxnInv, FlyExact
  <2> QED
    BY <2>1, <2>2
<1>8. q.pc # "free" /\ q.t \in Txns => txn[q.t].conn # "none"
  BY <1>1, <1>3 DEF TxnInv, NotBegun, t
<1>9. rows' \in [CacheEdges -> Dentry] /\ gaps' \subseteq CacheEdges
  BY <1>4 DEF TxnInv, TxnShape
<1>10. q.pc # "free" => q.e \in CacheEdges
  BY <1>1, <1>3
<1> QED
  BY <1>3, <1>4, <1>6, <1>7, <1>8, <1>9, <1>10, OpMove

\* The statement: a row changes only while nobody is open, and the operation
\* leaves the count.
LEMMA WriteStep ==
    ASSUME TxnInv, NEW o \in Ops, OpWrite(o)
    PROVE  TxnInv'
<1>0. PICK t, e : t = op[o].t /\ e = op[o].e
  OBVIOUS
<1> DEFINE inTx == t # AutoCommit /\ txn[t].conn = "tx"
<1>1. /\ op[o] \in OpRec /\ op[o].pc = "entered" /\ e \in CacheEdges
      /\ t \in Txns \cup {AutoCommit} /\ op[o].v \in Dentry
  BY <1>0 DEF OpWrite, TxnInv, TxnShape, OpRec
<1>2. PICK q \in OpRec :
         /\ op' = [op EXCEPT ![o] = q] /\ q.pc # "entered"
         /\ q.pc # "free" => q.e = e /\ q.t = t
  <2>1. NoOp \in OpRec /\ NoOp.pc = "free"
    BY NewTxnTyped DEF NoOp
  <2>2. PICK w : w = [op[o] EXCEPT !.pc = "written"]
    OBVIOUS
  <2>3. w \in OpRec /\ w.pc = "written" /\ w.e = e /\ w.t = t
    BY <1>0, <1>1, <2>2 DEF OpRec
  <2>4. op' = [op EXCEPT ![o] = w] \/ op' = [op EXCEPT ![o] = NoOp]
    BY <2>2 DEF OpWrite
  <2> QED
    BY <2>1, <2>3, <2>4
<1>3. PICK out : out = IF t = AutoCommit THEN txn ELSE [txn EXCEPT ![t].fly = @ - 1]
  OBVIOUS
<1>4. \/ inTx /\ txn' = [out EXCEPT ![t].writes[e] = op[o].v]
      \/ txn' = out
  BY <1>0, <1>3 DEF OpWrite
<1>5. \/ rows' = rows /\ gaps' = gaps
      \/ /\ ~Locked
         /\ rows' = [rows EXCEPT ![e] = op[o].v]
         /\ gaps' \subseteq gaps \cup CacheEdges
  BY <1>0 DEF OpWrite, WriteRows
<1>6. /\ rows' = rows \/ ~Locked
      /\ rows' \in [CacheEdges -> Dentry] /\ gaps' \subseteq CacheEdges
  BY <1>1, <1>5 DEF TxnInv, TxnShape
<1>7. q.pc # "free" => q.e \in CacheEdges
  BY <1>1, <1>2
<1>8. q.pc # "free" /\ q.t \in Txns => txn[q.t].conn # "none"
  BY <1>0, <1>1, <1>2 DEF TxnInv, NotBegun
<1>9. \A u \in Txns : u # t => Entered(u)' = Entered(u)
  BY <1>0, <1>1, <1>2 DEF Entered, TxnInv, TxnShape
<1>10. t \in Txns => /\ Cardinality(Entered(t)') = txn[t].fly - 1
                     /\ txn[t].fly \in Nat /\ txn[t].fly - 1 \in Nat
  <2> SUFFICES ASSUME t \in Txns
               PROVE  /\ Cardinality(Entered(t)') = txn[t].fly - 1
                      /\ txn[t].fly \in Nat /\ txn[t].fly - 1 \in Nat
    OBVIOUS
  <2>1. Entered(t)' = Entered(t) \ {o} /\ o \in Entered(t)
    BY <1>0, <1>1, <1>2 DEF Entered, TxnInv, TxnShape
  <2>2. Cardinality(Entered(t)') = Cardinality(Entered(t)) - 1
    BY <2>1, EnteredFinite, FS_RemoveElement
  <2>3. Cardinality(Entered(t)) = txn[t].fly
    BY DEF TxnInv, FlyExact
  <2>4. Cardinality(Entered(t)) \in Nat /\ Cardinality(Entered(t)') \in Nat
    BY EnteredFinite
  <2> QED
    BY <2>2, <2>3, <2>4
<1>11. /\ out \in [Txns -> TxnRec]
       /\ \A u \in Txns : /\ out[u].conn = txn[u].conn /\ out[u].map = txn[u].map
                          /\ out[u].base = txn[u].base
                          /\ out[u].fly = IF u = t THEN txn[u].fly - 1 ELSE txn[u].fly
  <2>1. CASE t = AutoCommit
    BY <1>3, <2>1, TxnAssumption DEF TxnInv, TxnShape
  <2>2. CASE t # AutoCommit
    <3>1. t \in Txns /\ txn[t] \in TxnRec
      BY <1>1, <2>2 DEF TxnInv, TxnShape
    <3>2. PICK r : r = [txn[t] EXCEPT !.fly = txn[t].fly - 1]
      OBVIOUS
    <3>3. /\ r \in TxnRec /\ r.conn = txn[t].conn /\ r.map = txn[t].map
          /\ r.base = txn[t].base /\ r.fly = txn[t].fly - 1
      BY <1>10, <3>1, <3>2 DEF TxnRec
    <3>4. out = [txn EXCEPT ![t] = r]
      BY <1>3, <2>2, <3>2
    <3> QED
      BY <3>1, <3>3, <3>4 DEF TxnInv, TxnShape
  <2> QED
    BY <2>1, <2>2
<1>12. /\ txn' \in [Txns -> TxnRec]
       /\ \A u \in Txns : /\ txn'[u].conn = txn[u].conn /\ txn'[u].map = txn[u].map
                          /\ txn'[u].base = txn[u].base /\ txn'[u].fly = out[u].fly
  <2>1. CASE txn' = out
    BY <1>11, <2>1
  <2>2. CASE inTx /\ txn' = [out EXCEPT ![t].writes[e] = op[o].v]
    <3>1. t \in Txns /\ out[t] \in TxnRec
      BY <1>1, <1>11, <2>2
    <3>2. PICK ws : ws = [out[t].writes EXCEPT ![e] = op[o].v]
      OBVIOUS
    <3>3. ws \in [CacheEdges -> Dentry \cup {Keep}]
      BY <1>1, <3>1, <3>2 DEF TxnRec
    <3>4. PICK r : r = [out[t] EXCEPT !.writes = ws]
      OBVIOUS
    <3>5. /\ r \in TxnRec /\ r.conn = out[t].conn /\ r.map = out[t].map
          /\ r.base = out[t].base /\ r.fly = out[t].fly
      BY <3>1, <3>3, <3>4 DEF TxnRec
    <3>6. txn' = [out EXCEPT ![t] = r]
      BY <2>2, <3>2, <3>4
    <3> QED
      BY <1>11, <3>1, <3>5, <3>6
  <2> QED
    BY <1>4, <2>1, <2>2
<1>13. \A u \in Txns : txn'[u].fly = Cardinality(Entered(u)')
  <2> SUFFICES ASSUME NEW u \in Txns PROVE txn'[u].fly = Cardinality(Entered(u)')
    OBVIOUS
  <2>1. CASE u = t
    BY <1>10, <1>11, <1>12, <2>1
  <2>2. CASE u # t
    <3>1. txn[u].fly = Cardinality(Entered(u))
      BY DEF TxnInv, FlyExact
    <3> QED
      BY <1>9, <1>11, <1>12, <2>2, <3>1
  <2> QED
    BY <2>1, <2>2
<1> QED
  BY <1>2, <1>6, <1>7, <1>8, <1>12, <1>13, OpMove

\* The edge is noted in an entry that is still open, or told to the cache.
LEMMA NoteStep ==
    ASSUME TxnInv, NEW o \in Ops, OpNote(o)
    PROVE  TxnInv'
<1>1. PICK t, e : t = op[o].t /\ e = op[o].e
  OBVIOUS
<1>2. op[o].pc = "written" /\ e \in CacheEdges /\ t \in Txns \cup {AutoCommit}
  BY <1>1 DEF OpNote, TxnInv, TxnShape, OpRec
<1>3. /\ op' = [op EXCEPT ![o] = NoOp] /\ rows' = rows
      /\ gaps' \subseteq gaps \cup {e}
      /\ txn' = IF t # AutoCommit /\ txn[t].map /\ ~txn[t].closing
                THEN [txn EXCEPT ![t].touched = @ \cup {e}] ELSE txn
  BY <1>1 DEF OpNote, ReadByNow
<1>4. NoOp \in OpRec /\ NoOp.pc = "free"
  BY NewTxnTyped DEF NoOp
<1>5. /\ txn' \in [Txns -> TxnRec]
      /\ \A u \in Txns : /\ txn'[u].conn = txn[u].conn /\ txn'[u].map = txn[u].map
                         /\ txn'[u].base = txn[u].base /\ txn'[u].fly = txn[u].fly
  <2>1. CASE txn' = txn
    BY <2>1 DEF TxnInv, TxnShape
  <2>2. CASE t # AutoCommit /\ txn' = [txn EXCEPT ![t].touched = @ \cup {e}]
    <3>1. t \in Txns /\ txn[t] \in TxnRec
      BY <1>2, <2>2 DEF TxnInv, TxnShape
    <3>2. PICK r : r = [txn[t] EXCEPT !.touched = txn[t].touched \cup {e}]
      OBVIOUS
    <3>3. /\ r \in TxnRec /\ r.conn = txn[t].conn /\ r.map = txn[t].map
          /\ r.base = txn[t].base /\ r.fly = txn[t].fly
      BY <1>2, <3>1, <3>2 DEF TxnRec
    <3>4. txn' = [txn EXCEPT ![t] = r]
      BY <2>2, <3>2
    <3> QED
      BY <3>1, <3>3, <3>4 DEF TxnInv, TxnShape
  <2> QED
    BY <1>3, <2>1, <2>2
<1>6. \A u \in Txns : Entered(u)' = Entered(u)
  BY <1>2, <1>3, <1>4 DEF Entered, TxnInv, TxnShape
<1>7. \A u \in Txns : txn'[u].fly = Cardinality(Entered(u)')
  BY <1>5, <1>6 DEF TxnInv, FlyExact
<1>8. rows' \in [CacheEdges -> Dentry] /\ gaps' \subseteq CacheEdges
  BY <1>2, <1>3 DEF TxnInv, TxnShape
<1> QED
  BY <1>3, <1>4, <1>5, <1>7, <1>8, OpMove

\* Resolving a path reads rows and changes the cache only.
LEMMA ResolveOnlyReads ==
    ASSUME TxnInv,
           \/ \E r \in Resolvers, p \in ResolvePaths : ResolveCached(r, p)
           \/ \E r \in Resolvers : ResolveStep(r) \/ ResolvePut(r)
           \/ UNCHANGED tvars
    PROVE  TxnInv'
<1>1. rows' = rows /\ txn' = txn /\ op' = op
  BY DEF ResolveCached, ResolveStep, ResolvePut, tvars
<1>2. gaps' \subseteq gaps \cup CacheEdges
  BY DEF ResolveCached, ResolveStep, ResolvePut, Orphaned, tvars
<1>3. TxnShape' /\ OneWriter' /\ Isolated' /\ NotBegun'
  BY <1>1, <1>2 DEF TxnInv, TxnShape, OneWriter, Isolated, NotBegun
<1>4. FlyExact'
  BY <1>1 DEF TxnInv, FlyExact, Entered
<1> QED
  BY <1>3, <1>4 DEF TxnInv

\* TxnInv is an invariant of the transactions.
THEOREM TxnInvariant == TxnSpec => []TxnInv
<1>1. TxnInit => TxnInv
  BY TxnInvInit
<1>2. TxnInv /\ [TxnNext]_tvars => TxnInv'
  <2> SUFFICES ASSUME TxnInv, [TxnNext]_tvars PROVE TxnInv'
    OBVIOUS
  <2>1. ASSUME NEW t \in Txns,
               \/ Begin(t) \/ MarkClosing(t, "commit") \/ MarkClosing(t, "rollback")
               \/ GiveUpWaiting(t) \/ Closing(t) \/ CommitFails(t)
               \/ GoIdle(t) \/ CleanTake(t)
        PROVE  TxnInv'
    BY <2>1, BeginStep, MarkStep, EndStep DEF Closing
  <2>2. ASSUME NEW o \in Ops, NEW t \in Txns \cup {AutoCommit}, NEW e \in CacheEdges,
               NEW v \in Targets[e], OpFetch(o, t, e, v)
        PROVE  TxnInv'
    BY <2>2, FetchStep
  <2>3. ASSUME NEW o \in Ops, Running(o) PROVE TxnInv'
    BY <2>3, EnterStep, WriteStep, NoteStep DEF Running
  <2>4. CASE \/ \E r \in Resolvers, p \in ResolvePaths : ResolveCached(r, p)
             \/ \E r \in Resolvers : ResolveStep(r) \/ ResolvePut(r)
             \/ UNCHANGED tvars
    BY <2>4, ResolveOnlyReads
  <2> QED
    BY <2>1, <2>2, <2>3, <2>4 DEF TxnNext
<1> QED
  BY <1>1, <1>2, PTL DEF TxnSpec

\* Isolated, for any number of transactions and operations: while a
\* transaction is open nobody else changes a row, not even an operation whose
\* own transaction ended under it (BEGIN IMMEDIATE in open_txn_connection).
THEOREM IsolatedHolds == TxnSpec => []Isolated
<1>1. TxnInv => Isolated
  BY DEF TxnInv
<1> QED
  BY <1>1, TxnInvariant, PTL

\* What commit, rollback and cleanup wait for is exact: the in-flight counter
\* of a transaction is the number of operations between InFlightGuard::enter
\* and the end of their statement, however the entry was closed meanwhile.
THEOREM InFlightExact == TxnSpec => []FlyExact
<1>1. TxnInv => FlyExact
  BY DEF TxnInv
<1> QED
  BY <1>1, TxnInvariant, PTL

\* Type correctness of transactions: among the rest, the in-flight counter
\* never goes below zero nor above the number of operations.
THEOREM TxnTypeCorrect == TxnSpec => []TxnTypeOK
<1>1. TxnInv => TxnTypeOK
  <2> SUFFICES ASSUME TxnInv PROVE TxnTypeOK
    OBVIOUS
  <2>1. \A t \in Txns : txn[t].fly \in 0 .. Cardinality(Ops)
    <3> SUFFICES ASSUME NEW t \in Txns PROVE txn[t].fly \in 0 .. Cardinality(Ops)
      OBVIOUS
    <3>1. Entered(t) \in SUBSET Ops
      BY DEF Entered
    <3>2. Cardinality(Entered(t)) <= Cardinality(Ops)
      BY <3>1, TxnAssumption, FS_Subset
    <3>3. Cardinality(Entered(t)) \in Nat /\ Cardinality(Ops) \in Nat
      BY EnteredFinite, TxnAssumption, FS_CardinalityType
    <3>4. txn[t].fly = Cardinality(Entered(t))
      BY DEF TxnInv, FlyExact
    <3> QED
      BY <3>2, <3>3, <3>4
  <2>2. \A t \in Txns : txn[t] \in TxnRec
    BY DEF TxnInv, TxnShape
  <2>3. \A o \in Ops : op[o] \in OpRec
    BY DEF TxnInv, TxnShape
  <2>4. gaps \subseteq CacheEdges
    BY DEF TxnInv, TxnShape
  <2> QED
    BY <2>1, <2>2, <2>3, <2>4 DEF TxnTypeOK, TxnRec, OpRec
<1> QED
  BY <1>1, TxnInvariant, PTL

---------------------------------------------------------------------------
(* The path cache.                                                         *)

\* The LRU map and the entry ids of the trie nodes are inverse, ids are below
\* the next one, and entry_count counts the map.
CacheLinked(c) ==
    /\ DOMAIN c = {"val", "deep", "edge", "id", "lru", "count", "next"}
    /\ DOMAIN c.val = CachePaths /\ c.id \in [CachePaths -> Nat] /\ c.next \in Nat \ {0}
    /\ DOMAIN c.lru \subseteq 1 .. c.next - 1
    /\ \A i \in DOMAIN c.lru : c.lru[i] \in CachePaths /\ c.id[c.lru[i]] = i
    /\ \A p \in CachePaths : c.id[p] # NoId => c.id[p] \in DOMAIN c.lru /\ c.lru[c.id[p]] = p
    /\ c.count = Cardinality(DOMAIN c.lru)

\* A node holds a value exactly when it has an entry.
CacheValued(c) == \A p \in CachePaths : c.val[p] # NoValue <=> c.id[p] # NoId

CacheBooks(c) == CacheLinked(c) /\ CacheValued(c) /\ c.count <= MaxEntries

LEMMA SmallestExists ==
    ASSUME NEW S \in SUBSET Nat, S # {}
    PROVE  \E x \in S : \A y \in S : x <= y
<1> DEFINE R == OpToRel(<, Nat)
<1>1. IsWellFoundedOn(R, Nat)
  BY NatLessThanWellFounded
<1> HIDE DEF R
<1>2. PICK x \in S : \A y \in S : ~ (<<y, x>> \in R)
  BY <1>1, WFMin
<1>3. \A y \in S : ~ (y < x)
  BY <1>2 DEF R, OpToRel
<1> QED
  BY <1>3

LEMMA LargestExists ==
    ASSUME NEW n \in Nat, NEW S \in SUBSET (0 .. n), S # {}
    PROVE  \E x \in S : \A y \in S : y <= x
<1>1. PICK T : T = {n - y : y \in S}
  OBVIOUS
<1>2. T \in SUBSET Nat /\ T # {}
  BY <1>1
<1>3. PICK m \in T : \A y \in T : m <= y
  BY <1>2, SmallestExists
<1>4. PICK x \in S : m = n - x
  BY <1>1, <1>3
<1>5. \A y \in S : n - x <= n - y
  BY <1>1, <1>3, <1>4
<1> QED
  BY <1>4, <1>5

LEMMA LinkedFinite ==
    ASSUME NEW c, CacheLinked(c)
    PROVE  IsFiniteSet(DOMAIN c.lru) /\ c.count \in Nat
<1>1. IsFiniteSet(1 .. c.next - 1)
  <2>1. 1 \in Int /\ c.next - 1 \in Int
    BY DEF CacheLinked
  <2> QED
    BY <2>1, FS_Interval
<1>2. IsFiniteSet(DOMAIN c.lru)
  BY <1>1, FS_Subset DEF CacheLinked
<1> QED
  BY <1>2, FS_CardinalityType DEF CacheLinked

\* Another deepest inode is all that a recomputation of the ancestors changes.
LEMMA RecomputeKeeps ==
    ASSUME NEW c, CacheLinked(c), NEW Q
    PROVE  /\ CacheLinked(Recompute(c, Q))
           /\ CacheValued(c) => CacheValued(Recompute(c, Q))
           /\ Recompute(c, Q).count = c.count /\ Recompute(c, Q).id = c.id
           /\ Recompute(c, Q).val = c.val
<1>1. PICK f : Recompute(c, Q) = [c EXCEPT !.deep = f]
  BY DEF Recompute
<1>2. PICK d : d = Recompute(c, Q)
  OBVIOUS
<1>3. /\ DOMAIN d = DOMAIN c /\ d.val = c.val /\ d.id = c.id /\ d.next = c.next
      /\ d.lru = c.lru /\ d.count = c.count
  BY <1>1, <1>2 DEF CacheLinked
<1>4. CacheLinked(d) /\ (CacheValued(c) => CacheValued(d))
  BY <1>3 DEF CacheLinked, CacheValued
<1> QED
  BY <1>2, <1>3, <1>4

\* Entries leave the map with the ids of their nodes, and are counted out.
LEMMA ForgetLinks ==
    ASSUME NEW c, CacheLinked(c), NEW P \in SUBSET CachePaths
    PROVE  /\ CacheLinked(Forget(c, P)) /\ Forget(c, P).val = c.val
           /\ Forget(c, P).id = [p \in CachePaths |-> IF p \in P THEN NoId ELSE c.id[p]]
           /\ Forget(c, P).count <= c.count
           /\ (\E p \in P : c.id[p] # NoId) => Forget(c, P).count < c.count
<1>1. PICK gone : gone = {c.id[p] : p \in P} \ {NoId}
  OBVIOUS
<1>2. PICK ids : ids = [p \in CachePaths |-> IF p \in P THEN NoId ELSE c.id[p]]
  OBVIOUS
<1>3. PICK lru : lru = [i \in DOMAIN c.lru \ gone |-> c.lru[i]]
  OBVIOUS
<1>4. PICK n : n = SatSub(c.count, Cardinality(gone))
  OBVIOUS
<1>5. PICK d : d = Forget(c, P)
  OBVIOUS
<1>6. d = [c EXCEPT !.id = ids, !.lru = lru, !.count = n]
  BY <1>1, <1>2, <1>3, <1>4, <1>5 DEF Forget, Without
<1>7. /\ DOMAIN d = DOMAIN c /\ d.val = c.val /\ d.id = ids /\ d.next = c.next
      /\ d.lru = lru /\ d.count = n
  BY <1>6 DEF CacheLinked
<1>8. gone \subseteq DOMAIN c.lru
  BY <1>1 DEF CacheLinked
<1>9. /\ IsFiniteSet(gone) /\ Cardinality(gone) \in Nat /\ Cardinality(gone) <= c.count
      /\ c.count \in Nat
  BY <1>8, LinkedFinite, FS_Subset, FS_CardinalityType DEF CacheLinked
<1>10. n = c.count - Cardinality(gone)
  BY <1>4, <1>9 DEF SatSub
<1>11. Cardinality(DOMAIN c.lru \ gone) = c.count - Cardinality(gone)
  <2>1. (DOMAIN c.lru) \cap gone = gone
    BY <1>8
  <2>2. PICK D : D = DOMAIN c.lru
    OBVIOUS
  <2>3. IsFiniteSet(D) /\ Cardinality(D) = c.count
    BY <2>2, LinkedFinite DEF CacheLinked
  <2>4. Cardinality(D \ gone) = Cardinality(D) - Cardinality(D \cap gone)
    BY <2>3, FS_Difference
  <2> QED
    BY <2>1, <2>2, <2>3, <2>4
<1>12. DOMAIN lru = DOMAIN c.lru \ gone /\ \A i \in DOMAIN lru : lru[i] = c.lru[i]
  BY <1>3
<1>13. ids \in [CachePaths -> Nat] /\ \A p \in CachePaths : ids[p] = IF p \in P THEN NoId ELSE c.id[p]
  BY <1>2 DEF CacheLinked, NoId
<1>14. \A i \in DOMAIN lru : lru[i] \in CachePaths /\ ids[lru[i]] = i
  <2> SUFFICES ASSUME NEW i \in DOMAIN lru PROVE lru[i] \in CachePaths /\ ids[lru[i]] = i
    OBVIOUS
  <2>1. i \in DOMAIN c.lru /\ i \notin gone /\ lru[i] = c.lru[i] /\ i # NoId
    BY <1>12 DEF CacheLinked, NoId
  <2>2. c.lru[i] \in CachePaths /\ c.id[c.lru[i]] = i
    BY <2>1 DEF CacheLinked
  <2>3. c.lru[i] \notin P
    BY <1>1, <2>1, <2>2
  <2> QED
    BY <1>13, <2>1, <2>2, <2>3
<1>15. \A p \in CachePaths : ids[p] # NoId => ids[p] \in DOMAIN lru /\ lru[ids[p]] = p
  <2> SUFFICES ASSUME NEW p \in CachePaths, ids[p] # NoId PROVE ids[p] \in DOMAIN lru /\ lru[ids[p]] = p
    OBVIOUS
  <2>1. p \notin P /\ ids[p] = c.id[p] /\ c.id[p] \in DOMAIN c.lru /\ c.lru[c.id[p]] = p
    BY <1>13 DEF CacheLinked
  <2>2. c.id[p] \notin gone
    <3> SUFFICES ASSUME NEW q \in P, c.id[q] = c.id[p] PROVE FALSE
      BY <1>1
    <3>1. c.id[q] # NoId /\ q \in CachePaths
      BY <2>1
    <3>2. c.lru[c.id[q]] = q
      BY <3>1 DEF CacheLinked
    <3> QED
      BY <2>1, <3>2
  <2> QED
    BY <1>12, <2>1, <2>2
<1>16. CacheLinked(d)
  <2>1. DOMAIN lru \subseteq 1 .. d.next - 1
    BY <1>7, <1>12 DEF CacheLinked
  <2> QED
    BY <1>7, <1>10, <1>11, <1>12, <1>13, <1>14, <1>15, <2>1 DEF CacheLinked
<1>17. ASSUME NEW p \in P, c.id[p] # NoId PROVE n < c.count
  <2>1. c.id[p] \in gone
    BY <1>1, <1>17
  <2>2. Cardinality(gone) # 0
    BY <1>9, <2>1, FS_EmptySet
  <2> QED
    BY <1>9, <1>10, <2>2
<1> QED
  BY <1>2, <1>5, <1>7, <1>9, <1>10, <1>16, <1>17

\* A new id is the newest entry.
LEMMA EnterLinks ==
    ASSUME NEW c, CacheLinked(c), NEW p \in CachePaths, c.id[p] = NoId, NEW v
    PROVE  LET d == Insert(c, p, v)
           IN  /\ CacheLinked(d) /\ d.count = c.count + 1
               /\ d.val = [c.val EXCEPT ![p] = v] /\ d.id = [c.id EXCEPT ![p] = c.next]
<1>1. PICK ids : ids = [c.id EXCEPT ![p] = c.next]
  OBVIOUS
<1>2. PICK lru : lru = [i \in DOMAIN c.lru \cup {c.next} |-> IF i = c.next THEN p ELSE c.lru[i]]
  OBVIOUS
<1>3. PICK e : e = Enter(c, p)
  OBVIOUS
<1>4. e = [c EXCEPT !.id = ids, !.lru = lru, !.next = c.next + 1]
  BY <1>1, <1>2, <1>3 DEF Enter
<1>5. /\ DOMAIN e = DOMAIN c /\ e.val = c.val /\ e.id = ids /\ e.next = c.next + 1
      /\ e.lru = lru /\ e.count = c.count
  BY <1>4 DEF CacheLinked
<1>6. PICK val : val = [c.val EXCEPT ![p] = v]
  OBVIOUS
<1>7. PICK d : d = Insert(c, p, v)
  OBVIOUS
<1>8. d = [e EXCEPT !.val = val, !.count = c.count + 1]
  BY <1>3, <1>5, <1>6, <1>7 DEF Insert
<1>9. /\ DOMAIN d = DOMAIN c /\ d.val = val /\ d.id = ids /\ d.next = c.next + 1
      /\ d.lru = lru /\ d.count = c.count + 1
  BY <1>5, <1>8 DEF CacheLinked
<1>10. /\ ids \in [CachePaths -> Nat] /\ ids[p] = c.next
       /\ \A q \in CachePaths : q # p => ids[q] = c.id[q]
  BY <1>1 DEF CacheLinked
<1>11. /\ DOMAIN lru = DOMAIN c.lru \cup {c.next} /\ c.next \notin DOMAIN c.lru
       /\ lru[c.next] = p /\ \A i \in DOMAIN c.lru : lru[i] = c.lru[i]
  BY <1>2 DEF CacheLinked
<1>12. Cardinality(DOMAIN lru) = c.count + 1
  BY <1>11, LinkedFinite, FS_AddElement DEF CacheLinked
<1>13. DOMAIN lru \subseteq 1 .. (c.next + 1) - 1
  BY <1>11 DEF CacheLinked
<1>14. \A i \in DOMAIN lru : lru[i] \in CachePaths /\ ids[lru[i]] = i
  <2> SUFFICES ASSUME NEW i \in DOMAIN c.lru PROVE lru[i] \in CachePaths /\ ids[lru[i]] = i
    BY <1>10, <1>11
  <2>1. c.lru[i] \in CachePaths /\ c.id[c.lru[i]] = i /\ i # NoId
    BY DEF CacheLinked, NoId
  <2> QED
    BY <1>10, <1>11, <2>1
<1>15. \A q \in CachePaths : ids[q] # NoId => ids[q] \in DOMAIN lru /\ lru[ids[q]] = q
  BY <1>10, <1>11 DEF CacheLinked
<1>16. DOMAIN val = CachePaths
  BY <1>6 DEF CacheLinked
<1>17. CacheLinked(d)
  BY <1>9, <1>10, <1>12, <1>13, <1>14, <1>15, <1>16 DEF CacheLinked
<1> QED
  BY <1>1, <1>6, <1>7, <1>9, <1>17

\* Nodes that lose their values with their entries leave the books in order.
LEMMA CutKeeps ==
    ASSUME NEW c, CacheBooks(c), NEW P \in SUBSET CachePaths, NEW d,
           DOMAIN d = DOMAIN c, d.id = Forget(c, P).id, d.lru = Forget(c, P).lru,
           d.count = Forget(c, P).count, d.next = Forget(c, P).next,
           d.val = [q \in CachePaths |-> IF q \in P THEN NoValue ELSE c.val[q]]
    PROVE  CacheBooks(d) /\ d.count <= c.count
<1>1. CacheLinked(c)
  BY DEF CacheBooks
<1>2. PICK f : f = Forget(c, P)
  OBVIOUS
<1>3. /\ CacheLinked(f) /\ f.count <= c.count
      /\ f.id = [p \in CachePaths |-> IF p \in P THEN NoId ELSE c.id[p]]
  BY <1>1, <1>2, ForgetLinks
<1>4. CacheLinked(d)
  BY <1>1, <1>2, <1>3 DEF CacheLinked
<1>5. CacheValued(d)
  BY <1>2, <1>3 DEF CacheValued, CacheBooks
<1>6. c.count \in Nat /\ f.count \in Nat /\ c.count <= MaxEntries
  BY <1>1, <1>3, LinkedFinite DEF CacheBooks
<1> QED
  BY <1>2, <1>3, <1>4, <1>5, <1>6, CacheAssumption DEF CacheBooks

\* clear_shallow_values_on_path
LEMMA ClearShallowKeeps ==
    ASSUME NEW c, CacheBooks(c), NEW p \in CachePaths
    PROVE  CacheBooks(ClearShallow(c, p)) /\ ClearShallow(c, p).count <= c.count
           /\ ClearShallow(c, p).val[p] = c.val[p]
<1>1. PICK P : P = UpFrom(p) \ {p}
  OBVIOUS
<1>2. P \in SUBSET CachePaths /\ CacheLinked(c) /\ p \notin P
  BY <1>1 DEF UpFrom, CacheBooks
<1>3. PICK f : f = Forget(c, P)
  OBVIOUS
<1>4. CacheLinked(f) /\ f.val = c.val
  BY <1>2, <1>3, ForgetLinks
<1>5. PICK val : val = [q \in CachePaths |-> IF q \in P THEN NoValue ELSE c.val[q]]
  OBVIOUS
<1>6. PICK d : d = ClearShallow(c, p)
  OBVIOUS
<1>7. d = [f EXCEPT !.val = val]
  BY <1>1, <1>3, <1>4, <1>5, <1>6 DEF ClearShallow
<1>8. /\ DOMAIN d = DOMAIN c /\ d.id = f.id /\ d.lru = f.lru /\ d.count = f.count
      /\ d.next = f.next /\ d.val = val
  BY <1>2, <1>4, <1>7 DEF CacheLinked
<1>9. CacheBooks(d) /\ d.count <= c.count
  BY <1>2, <1>3, <1>5, <1>8, CutKeeps
<1>10. val[p] = c.val[p]
  BY <1>2, <1>5
<1> QED
  BY <1>6, <1>8, <1>9, <1>10

\* invalidate_by_edge, invalidate_prefix: the entries below a changed dentry
LEMMA InvalidateKeeps ==
    ASSUME NEW c, CacheBooks(c), NEW E
    PROVE  CacheBooks(InvalidateEdges(c, E))
<1>1. PICK tops : tops = {c.edge[e] : e \in E} \ {NoPath}
  OBVIOUS
<1>2. PICK P : P = {q \in CachePaths : \E p \in tops : Under(q, p)}
  OBVIOUS
<1>3. P \in SUBSET CachePaths /\ CacheLinked(c)
  BY <1>2 DEF CacheBooks
<1>4. PICK f : f = Forget(c, P)
  OBVIOUS
<1>5. CacheLinked(f) /\ f.val = c.val
  BY <1>3, <1>4, ForgetLinks
<1>6. PICK val : val = [q \in CachePaths |-> IF q \in P THEN NoValue ELSE c.val[q]]
  OBVIOUS
<1>7. PICK deep : deep = [q \in CachePaths |-> IF q \in P THEN <<>> ELSE f.deep[q]]
  OBVIOUS
<1>8. PICK edge : edge = [g \in CacheEdges |-> IF f.edge[g] \in P THEN NoPath ELSE f.edge[g]]
  OBVIOUS
<1>9. PICK d : d = [f EXCEPT !.val = val, !.deep = deep, !.edge = edge]
  OBVIOUS
<1>10. PICK Q : InvalidateEdges(c, E) = Recompute(d, Q)
  BY <1>1, <1>2, <1>4, <1>5, <1>6, <1>7, <1>8, <1>9 DEF InvalidateEdges
<1>11. /\ DOMAIN d = DOMAIN c /\ d.id = f.id /\ d.lru = f.lru /\ d.count = f.count
       /\ d.next = f.next /\ d.val = val
  BY <1>3, <1>5, <1>9 DEF CacheLinked
<1>12. CacheBooks(d)
  BY <1>3, <1>4, <1>6, <1>11, CutKeeps
<1> QED
  BY <1>10, <1>12, RecomputeKeeps DEF CacheBooks

\* The oldest entry goes, when there is one.
LEMMA EvictKeeps ==
    ASSUME NEW c, CacheBooks(c)
    PROVE  CacheBooks(EvictLru(c)) /\ (c.count > 0 => EvictLru(c).count = c.count - 1)
<1>1. CacheLinked(c) /\ CacheValued(c) /\ c.count <= MaxEntries /\ c.count \in Nat
  BY LinkedFinite DEF CacheBooks
<1>2. CASE DOMAIN c.lru = {}
  BY <1>1, <1>2, FS_EmptySet DEF EvictLru, CacheLinked
<1>3. CASE DOMAIN c.lru # {}
  <2>1. PICK k \in DOMAIN c.lru : k = CHOOSE i \in DOMAIN c.lru : \A j \in DOMAIN c.lru : i <= j
    <3>1. DOMAIN c.lru \in SUBSET Nat
      BY <1>1 DEF CacheLinked
    <3>2. \E i \in DOMAIN c.lru : \A j \in DOMAIN c.lru : i <= j
      BY <1>3, <3>1, SmallestExists
    <3> QED
      BY <3>2
  <2>2. PICK p : p = c.lru[k]
    OBVIOUS
  <2>3. p \in CachePaths /\ c.id[p] = k /\ k # NoId
    BY <1>1, <2>2 DEF CacheLinked, NoId
  <2>4. PICK f : f = Forget(c, {p})
    OBVIOUS
  <2>5. PICK lru : lru = Without(c.lru, {k})
    OBVIOUS
  <2>6. PICK a : a = [c EXCEPT !.lru = lru, !.count = SatSub(c.count, 1)]
    OBVIOUS
  <2>7. EvictLru(c) = RemoveSingle(a, p)
    BY <1>3, <2>1, <2>2, <2>5, <2>6 DEF EvictLru
  <2>8. /\ DOMAIN a = DOMAIN c /\ a.id = c.id /\ a.val = c.val /\ a.next = c.next
        /\ a.lru = lru /\ a.count = SatSub(c.count, 1)
    BY <1>1, <2>6 DEF CacheLinked
  <2>9. PICK val : val = [c.val EXCEPT ![p] = NoValue]
    OBVIOUS
  <2>10. PICK ids : ids = [c.id EXCEPT ![p] = NoId]
    OBVIOUS
  <2>11. PICK d, edge : /\ d = [a EXCEPT !.val = val, !.id = ids, !.edge = edge]
                        /\ RemoveSingle(a, p) = Recompute(d, UpFrom(p))
    BY <2>8, <2>9, <2>10 DEF RemoveSingle
  <2>12. /\ DOMAIN d = DOMAIN c /\ d.id = ids /\ d.val = val /\ d.next = c.next
         /\ d.lru = lru /\ d.count = SatSub(c.count, 1)
    BY <1>1, <2>8, <2>11 DEF CacheLinked
  <2>13. {c.id[q] : q \in {p}} \ {NoId} = {k}
    BY <2>3
  <2>14. Cardinality({k}) = 1
    BY FS_Singleton
  <2>15. PICK fid : fid = [q \in CachePaths |-> IF q \in {p} THEN NoId ELSE c.id[q]]
    OBVIOUS
  <2>16. f = [c EXCEPT !.id = fid, !.lru = lru, !.count = SatSub(c.count, 1)]
    BY <2>4, <2>5, <2>13, <2>14, <2>15 DEF Forget
  <2>17. f.id = fid /\ f.lru = lru /\ f.count = SatSub(c.count, 1) /\ f.next = c.next
    BY <1>1, <2>16 DEF CacheLinked
  <2>18. ids = fid
    BY <1>1, <2>10, <2>15 DEF CacheLinked
  <2>19. val = [q \in CachePaths |-> IF q \in {p} THEN NoValue ELSE c.val[q]]
    BY <1>1, <2>9 DEF CacheLinked
  <2>20. CacheBooks(d)
    BY <2>3, <2>4, <2>12, <2>17, <2>18, <2>19, CutKeeps
  <2>21. c.count > 0
    BY <1>1, <1>3, LinkedFinite, FS_EmptySet DEF CacheLinked
  <2>22. d.count = c.count - 1
    BY <1>1, <2>12, <2>21 DEF SatSub
  <2>23. PICK r : r = Recompute(d, UpFrom(p))
    OBVIOUS
  <2>24. CacheLinked(r) /\ CacheValued(r) /\ r.count = d.count
    BY <2>20, <2>23, RecomputeKeeps DEF CacheBooks
  <2>25. CacheBooks(r)
    BY <2>20, <2>24 DEF CacheBooks
  <2> QED
    BY <2>7, <2>11, <2>22, <2>23, <2>24, <2>25
<1> QED
  BY <1>2, <1>3

\* Before a path is put it has no entry, and there is room for one.
LEMMA MakeRoomKeeps ==
    ASSUME NEW c, CacheBooks(c), NEW p \in CachePaths
    PROVE  LET d == MakeRoom(c, p)
           IN  /\ CacheLinked(d) /\ d.id[p] = NoId /\ d.count < MaxEntries
               /\ \A q \in CachePaths \ {p} : d.val[q] # NoValue <=> d.id[q] # NoId
<1>1. PICK room : room = IF c.val[p] = NoValue /\ c.count >= MaxEntries THEN EvictLru(c) ELSE c
  OBVIOUS
<1>2. c.count \in Nat /\ c.count <= MaxEntries
  BY LinkedFinite DEF CacheBooks
<1>3. CacheBooks(room) /\ (room.count >= MaxEntries => room.val[p] # NoValue)
  <2>1. CASE c.val[p] = NoValue /\ c.count >= MaxEntries
    <3>1. c.count > 0 /\ room = EvictLru(c)
      BY <1>1, <1>2, <2>1, CacheAssumption
    <3>2. CacheBooks(room) /\ room.count = c.count - 1
      BY <3>1, EvictKeeps
    <3> QED
      BY <1>2, <3>2, CacheAssumption
  <2>2. CASE ~ (c.val[p] = NoValue /\ c.count >= MaxEntries)
    BY <1>1, <2>2
  <2> QED
    BY <2>1, <2>2
<1>4. PICK s : s = ClearShallow(room, p)
  OBVIOUS
<1>5. CacheBooks(s) /\ s.count <= room.count /\ s.val[p] = room.val[p]
  BY <1>3, <1>4, ClearShallowKeeps
<1>6. PICK d : d = MakeRoom(c, p)
  OBVIOUS
<1>7. d = Forget(s, {p})
  BY <1>1, <1>4, <1>6 DEF MakeRoom
<1>8. CacheLinked(s) /\ {p} \in SUBSET CachePaths
  BY <1>5 DEF CacheBooks
<1>9. /\ CacheLinked(d) /\ d.val = s.val /\ d.count <= s.count
      /\ d.id = [q \in CachePaths |-> IF q \in {p} THEN NoId ELSE s.id[q]]
      /\ s.id[p] # NoId => d.count < s.count
  BY <1>7, <1>8, ForgetLinks
<1>10. d.count \in Nat /\ s.count \in Nat /\ room.count \in Nat /\ room.count <= MaxEntries
  BY <1>3, <1>8, <1>9, LinkedFinite DEF CacheBooks
<1>11. d.count < MaxEntries
  <2>1. CASE room.count >= MaxEntries
    <3>1. s.id[p] # NoId
      BY <1>3, <1>5, <2>1 DEF CacheBooks, CacheValued
    <3> QED
      BY <1>5, <1>9, <1>10, <3>1, CacheAssumption
  <2>2. CASE ~ (room.count >= MaxEntries)
    BY <1>5, <1>9, <1>10, <2>2, CacheAssumption
  <2> QED
    BY <2>1, <2>2
<1>12. \A q \in CachePaths \ {p} : d.val[q] # NoValue <=> d.id[q] # NoId
  BY <1>5, <1>9 DEF CacheBooks, CacheValued
<1>13. d.id[p] = NoId
  BY <1>9
<1> QED
  BY <1>6, <1>9, <1>11, <1>12, <1>13

\* The entry that a put makes.
LEMMA InsertKeeps ==
    ASSUME NEW c, CacheBooks(c), NEW p \in CachePaths, NEW v, v # NoValue
    PROVE  CacheBooks(Insert(MakeRoom(c, p), p, v))
<1>1. PICK s : s = MakeRoom(c, p)
  OBVIOUS
<1>2. /\ CacheLinked(s) /\ s.id[p] = NoId /\ s.count < MaxEntries
      /\ \A q \in CachePaths \ {p} : s.val[q] # NoValue <=> s.id[q] # NoId
  BY <1>1, MakeRoomKeeps
<1>3. PICK d : d = Insert(s, p, v)
  OBVIOUS
<1>4. /\ CacheLinked(d) /\ d.count = s.count + 1
      /\ d.val = [s.val EXCEPT ![p] = v] /\ d.id = [s.id EXCEPT ![p] = s.next]
  BY <1>2, <1>3, EnterLinks
<1>5. /\ d.val[p] = v /\ d.id[p] = s.next /\ s.next # NoId
      /\ \A q \in CachePaths \ {p} : d.val[q] = s.val[q] /\ d.id[q] = s.id[q]
  BY <1>2, <1>4 DEF CacheLinked, NoId
<1>6. CacheValued(d)
  BY <1>2, <1>5 DEF CacheValued
<1>7. s.count \in Nat
  BY <1>2, LinkedFinite
<1>8. d.count <= MaxEntries
  BY <1>2, <1>4, <1>7, CacheAssumption
<1> QED
  BY <1>1, <1>3, <1>4, <1>6, <1>8 DEF CacheBooks

\* Nothing but the trie's entries, the map and the counter is in the books.
LEMMA OtherFields ==
    ASSUME NEW c, CacheBooks(c), NEW x
    PROVE  CacheBooks([c EXCEPT !.deep = x]) /\ CacheBooks([c EXCEPT !.edge = x])
<1>1. ASSUME NEW d, d = [c EXCEPT !.deep = x] \/ d = [c EXCEPT !.edge = x]
      PROVE  CacheBooks(d)
  <2>1. /\ DOMAIN d = DOMAIN c /\ d.id = c.id /\ d.val = c.val /\ d.next = c.next
        /\ d.lru = c.lru /\ d.count = c.count
    BY <1>1 DEF CacheBooks, CacheLinked
  <2> QED
    BY <2>1 DEF CacheBooks, CacheLinked, CacheValued
<1> QED
  BY <1>1

\* put_ids_for_path
LEMMA PutIdsKeeps ==
    ASSUME NEW c, CacheBooks(c), NEW p \in CachePaths, NEW ids
    PROVE  CacheBooks(PutIds(c, p, ids))
<1>1. CASE Len(ids) # Len(p) + 1
  BY <1>1 DEF PutIds
<1>2. CASE Len(ids) = Len(p) + 1
  <2>1. PICK a : a = Insert(MakeRoom(c, p), p, Ids(ids))
    OBVIOUS
  <2>2. CacheBooks(a)
    <3>1. Ids(ids) # NoValue
      BY DEF Ids, NoValue
    <3> QED
      BY <2>1, <3>1, InsertKeeps
  <2>3. PICK own : own = [a EXCEPT !.deep[p] = ids]
    OBVIOUS
  <2>4. own = [a EXCEPT !.deep = [a.deep EXCEPT ![p] = ids]]
    BY <2>3
  <2>5. CacheBooks(own)
    BY <2>2, <2>4, OtherFields
  <2>6. PICK up : up = [own EXCEPT !.deep = [q \in CachePaths |->
                       IF Under(p, q) /\ Len(ids) > Len(@[q]) THEN ids ELSE @[q]]]
    OBVIOUS
  <2>7. PICK deep : up = [own EXCEPT !.deep = deep]
    BY <2>6
  <2>8. CacheBooks(up)
    BY <2>5, <2>7, OtherFields
  <2>9. PICK edge : IndexEdges(up, p, ids) = [up EXCEPT !.edge = edge]
    BY DEF IndexEdges
  <2>10. CacheBooks(IndexEdges(up, p, ids))
    <3>1. CacheBooks([up EXCEPT !.edge = edge])
      BY <2>8, OtherFields
    <3> QED
      BY <2>9, <3>1
  <2> QED
    BY <1>2, <2>1, <2>3, <2>6, <2>10 DEF PutIds
<1> QED
  BY <1>1, <1>2

\* put_terminal_for_path
LEMMA PutTerminalKeeps ==
    ASSUME NEW c, CacheBooks(c), NEW p \in CachePaths, NEW parents, NEW t
    PROVE  CacheBooks(PutTerminal(c, p, parents, t))
<1>1. CASE Len(parents) # Len(p)
  BY <1>1 DEF PutTerminal
<1>2. CASE Len(parents) = Len(p)
  <2>1. PICK a : a = Insert(MakeRoom(c, p), p, Terminal(parents, t))
    OBVIOUS
  <2>2. CacheBooks(a)
    <3>1. Terminal(parents, t) # NoValue
      BY DEF Terminal, NoValue
    <3> QED
      BY <2>1, <3>1, InsertKeeps
  <2>3. PICK up : up = Recompute(a, UpFrom(p))
    OBVIOUS
  <2>4. CacheBooks(up)
    BY <2>2, <2>3, RecomputeKeeps DEF CacheBooks
  <2>5. PICK edge : IndexEdges(up, p, parents) = [up EXCEPT !.edge = edge]
    BY DEF IndexEdges
  <2>6. CacheBooks(IndexEdges(up, p, parents))
    <3>1. CacheBooks([up EXCEPT !.edge = edge])
      BY <2>4, OtherFields
    <3> QED
      BY <2>5, <3>1
  <2> QED
    BY <1>2, <2>1, <2>3, <2>6 DEF PutTerminal
<1> QED
  BY <1>1, <1>2

\* refresh_lru_for_path: the entry is forgotten and made anew, so to speak.
LEMMA TouchKeeps ==
    ASSUME NEW c, CacheBooks(c), NEW p \in CachePaths
    PROVE  CacheBooks(Touch(c, p))
<1>1. CASE c.id[p] \notin DOMAIN c.lru
  BY <1>1 DEF Touch
<1>2. CASE c.id[p] \in DOMAIN c.lru
  <2>1. CacheLinked(c) /\ CacheValued(c) /\ c.count <= MaxEntries /\ c.count \in Nat
    BY LinkedFinite DEF CacheBooks
  <2>2. PICK k : k = c.id[p]
    OBVIOUS
  <2>3. k \in DOMAIN c.lru /\ k # NoId /\ c.next # NoId /\ c.next \notin DOMAIN c.lru
    BY <1>2, <2>1, <2>2 DEF CacheLinked, NoId
  <2>4. PICK f : f = Forget(c, {p})
    OBVIOUS
  <2>5. PICK lru : lru = Without(c.lru, {k})
    OBVIOUS
  <2>6. {c.id[q] : q \in {p}} \ {NoId} = {k}
    BY <2>2, <2>3
  <2>7. PICK fid : fid = [q \in CachePaths |-> IF q \in {p} THEN NoId ELSE c.id[q]]
    OBVIOUS
  <2>8. Cardinality({k}) = 1
    BY FS_Singleton
  <2>9. f = [c EXCEPT !.id = fid, !.lru = lru, !.count = SatSub(c.count, 1)]
    BY <2>4, <2>5, <2>6, <2>7, <2>8 DEF Forget
  <2>10. c.count > 0
    BY <2>1, <2>3, LinkedFinite, FS_EmptySet DEF CacheLinked
  <2>11. /\ DOMAIN f = DOMAIN c /\ f.id = fid /\ f.lru = lru /\ f.next = c.next
         /\ f.val = c.val /\ f.count = c.count - 1
    BY <2>1, <2>9, <2>10 DEF CacheLinked, SatSub
  <2>12. CacheLinked(f) /\ f.id[p] = NoId
    BY <2>1, <2>4, <2>7, <2>11, ForgetLinks
  <2>13. PICK n : n = [i \in DOMAIN lru \cup {c.next} |-> IF i = c.next THEN p ELSE lru[i]]
    OBVIOUS
  <2>14. PICK ids : ids = [c.id EXCEPT ![p] = c.next]
    OBVIOUS
  <2>15. PICK a : a = [c EXCEPT !.lru = lru]
    OBVIOUS
  <2>16. /\ DOMAIN a = DOMAIN c /\ a.id = c.id /\ a.val = c.val /\ a.next = c.next
         /\ a.lru = lru /\ a.count = c.count
    BY <2>1, <2>15 DEF CacheLinked
  <2>17. PICK d : d = Touch(c, p)
    OBVIOUS
  <2>18. d = Enter(a, p)
    BY <1>2, <2>2, <2>5, <2>15, <2>17 DEF Touch
  <2>19. d = [a EXCEPT !.id = ids, !.lru = n, !.next = c.next + 1]
    BY <2>13, <2>14, <2>16, <2>18 DEF Enter
  <2>20. /\ DOMAIN d = DOMAIN c /\ d.id = ids /\ d.lru = n /\ d.next = c.next + 1
         /\ d.val = c.val /\ d.count = c.count
    BY <2>1, <2>16, <2>19 DEF CacheLinked
  <2>21. PICK g : g = Insert(f, p, c.val[p])
    OBVIOUS
  <2>22. /\ CacheLinked(g) /\ g.count = f.count + 1
         /\ g.val = [f.val EXCEPT ![p] = c.val[p]] /\ g.id = [f.id EXCEPT ![p] = f.next]
    BY <2>12, <2>21, EnterLinks
  <2>23. PICK e : e = Enter(f, p)
    OBVIOUS
  <2>24. e = [f EXCEPT !.id = [f.id EXCEPT ![p] = f.next], !.lru = n, !.next = f.next + 1]
    BY <2>11, <2>13, <2>23 DEF Enter
  <2>25. e.lru = n /\ e.next = c.next + 1 /\ DOMAIN e = DOMAIN c
    BY <2>1, <2>11, <2>24 DEF CacheLinked
  <2>26. g = [e EXCEPT !.val = [e.val EXCEPT ![p] = c.val[p]], !.count = e.count + 1]
    BY <2>21, <2>23 DEF Insert
  <2>27. g.lru = n /\ g.next = c.next + 1
    BY <2>1, <2>25, <2>26 DEF CacheLinked
  <2>28. g.count = c.count
    BY <2>1, <2>11, <2>22
  <2>29. g.id = ids
    BY <2>1, <2>7, <2>11, <2>14, <2>22 DEF CacheLinked
  <2>30. CacheLinked(d)
    BY <2>1, <2>20, <2>22, <2>27, <2>28, <2>29 DEF CacheLinked
  <2>31. CacheValued(d)
    <3>1. c.val[p] # NoValue
      BY <2>1, <2>2, <2>3 DEF CacheValued
    <3>2. ids[p] # NoId /\ \A q \in CachePaths : q # p => ids[q] = c.id[q]
      BY <2>1, <2>3, <2>14 DEF CacheLinked
    <3> QED
      BY <2>1, <2>20, <3>1, <3>2 DEF CacheValued
  <2> QED
    BY <2>1, <2>17, <2>20, <2>30, <2>31 DEF CacheBooks
<1> QED
  BY <1>1, <1>2

\* A prefix of a path is a path of its length.
LEMMA PrefixPath ==
    ASSUME NEW p \in CachePaths, NEW k \in 0 .. Len(p)
    PROVE  Prefix(p, k) \in CachePaths
<1>1. PICK n \in 0 .. MaxDepth : p \in [1 .. n -> CacheNames]
  BY DEF CachePaths
<1>2. Len(p) = n
  BY <1>1, CacheAssumption
<1>3. k \in 0 .. MaxDepth /\ Prefix(p, k) \in [1 .. k -> CacheNames]
  BY <1>1, <1>2, CacheAssumption DEF Prefix
<1> QED
  BY <1>3 DEF CachePaths

LEMMA PathLen == ASSUME NEW p \in CachePaths PROVE Len(p) \in Nat
  BY CacheAssumption DEF CachePaths

\* A prefix has its length, whatever it is a prefix of.
LEMMA PrefixLen ==
    ASSUME NEW s, NEW k \in Nat
    PROVE  /\ Len(Prefix(s, k)) = k
           /\ Prefix(s, k) \in Seq({s[i] : i \in 1 .. k})
<1>1. PICK S : S = {s[i] : i \in 1 .. k}
  OBVIOUS
<1>2. PICK q : q = Prefix(s, k)
  OBVIOUS
<1>3. q \in [1 .. k -> S]
  BY <1>1, <1>2 DEF Prefix
<1>4. q \in Seq(S) /\ Len(q) = k
  BY <1>3
<1> QED
  BY <1>1, <1>2, <1>4

\* A call of resolve_path that walks has read an inode for each component it
\* passed, and one more when the path ends in an inode.
ResolveOK(s) ==
    /\ DOMAIN s = {"pc", "p", "ids", "t"} /\ s.pc \in {"free", "walk", "ids", "term"}
    /\ s.p \in CachePaths /\ \E S : s.ids \in Seq(S)
    /\ s.pc \in {"walk", "term"} => Len(s.ids) \in 1 .. Len(s.p)

CacheInv ==
    /\ CacheBooks(cache)
    /\ DOMAIN res = Resolvers /\ \A r \in Resolvers : ResolveOK(res[r])

LEMMA FreeOK == ResolveOK(NoResolve)
<1>1. NoResolve.p \in CachePaths
  <2>1. <<>> \in [1 .. 0 -> CacheNames] /\ 0 \in 0 .. MaxDepth
    BY CacheAssumption
  <2> QED
    BY <2>1 DEF CachePaths, NoResolve
<1>2. NoResolve.ids \in Seq({})
  BY DEF NoResolve
<1> QED
  BY <1>1, <1>2 DEF ResolveOK, NoResolve

LEMMA CacheInvInit == ASSUME TxnInit PROVE CacheInv
<1>1. PICK c : c = cache
  OBVIOUS
<1>2. c = EmptyCache
  BY <1>1 DEF TxnInit
<1>3. /\ DOMAIN c = {"val", "deep", "edge", "id", "lru", "count", "next"}
      /\ c.val = [p \in CachePaths |-> NoValue] /\ c.id = [p \in CachePaths |-> NoId]
      /\ DOMAIN c.lru = {} /\ c.count = 0 /\ c.next = 1
  BY <1>2 DEF EmptyCache
<1>4. CacheLinked(c)
  BY <1>3, FS_EmptySet DEF CacheLinked, NoId
<1>5. CacheValued(c)
  BY <1>3 DEF CacheValued
<1>6. CacheBooks(c)
  BY <1>3, <1>4, <1>5, CacheAssumption DEF CacheBooks
<1>7. DOMAIN res = Resolvers /\ \A r \in Resolvers : ResolveOK(res[r])
  BY FreeOK DEF TxnInit
<1> QED
  BY <1>1, <1>6, <1>7 DEF CacheInv

\* The cached prefix a resolve starts from is never longer than its path needs.
LEMMA LongestLen ==
    ASSUME NEW c, NEW p \in CachePaths, NEW root
    PROVE  /\ \E S : LongestIds(c, p, root) \in Seq(S)
           /\ Len(LongestIds(c, p, root)) \in 1 .. Len(p) + 1
<1> DEFINE known(k) == IF c.val[Prefix(p, k)].k = "ids" THEN c.val[Prefix(p, k)].ids
                       ELSE c.deep[Prefix(p, k)]
           hits == {k \in 0 .. Len(p) : Len(known(k)) >= k + 1}
           top == CHOOSE k \in hits : \A j \in hits : j <= k
<1>1. LongestIds(c, p, root) = IF hits = {} THEN <<root>> ELSE Prefix(known(top), top + 1)
  BY DEF LongestIds
<1>2. Len(p) \in Nat /\ hits \in SUBSET (0 .. Len(p))
  BY PathLen
<1> HIDE DEF hits, known
<1>3. CASE hits = {}
  <2>1. <<root>> \in Seq({root}) /\ Len(<<root>>) = 1
    OBVIOUS
  <2>2. LongestIds(c, p, root) = <<root>>
    BY <1>1, <1>3
  <2>3. 1 \in 1 .. Len(p) + 1
    BY <1>2
  <2> QED
    BY <2>1, <2>2, <2>3
<1>4. CASE hits # {}
  <2>1. \E k \in hits : \A j \in hits : j <= k
    BY <1>2, <1>4, LargestExists
  <2>2. top \in hits
    BY <2>1
  <2>3. PICK n \in 0 .. Len(p) : n = top
    BY <1>2, <2>2
  <2>4. PICK s : s = known(top)
    OBVIOUS
  <2>5. n + 1 \in Nat /\ n + 1 \in 1 .. Len(p) + 1
    BY <1>2
  <2>6. Len(Prefix(s, n + 1)) = n + 1 /\ Prefix(s, n + 1) \in Seq({s[i] : i \in 1 .. n + 1})
    BY <2>5, PrefixLen
  <2>7. LongestIds(c, p, root) = Prefix(s, n + 1)
    BY <1>1, <1>4, <2>3, <2>4
  <2> QED
    BY <2>5, <2>6, <2>7
<1> QED
  BY <1>3, <1>4

LEMMA TerminalHit ==
    ASSUME NEW c, NEW p \in CachePaths, TerminalPrefix(c, p) # NoPath
    PROVE  TerminalPrefix(c, p) \in CachePaths
<1> DEFINE hits == {k \in 1 .. Len(p) : c.val[Prefix(p, k)].k = "term"}
           low == CHOOSE k \in hits : \A j \in hits : k <= j
<1>1. hits # {} /\ TerminalPrefix(c, p) = Prefix(p, low)
  BY DEF TerminalPrefix
<1>2. hits \in SUBSET Nat /\ hits \subseteq 0 .. Len(p)
  BY PathLen
<1> HIDE DEF hits
<1>3. \E k \in hits : \A j \in hits : k <= j
  BY <1>1, <1>2, SmallestExists
<1>4. PICK n \in 0 .. Len(p) : n = low
  BY <1>2, <1>3
<1> QED
  BY <1>1, <1>4, PrefixPath

\* One call changes, the others are as they were.
LEMMA ResolverMove ==
    ASSUME CacheInv, NEW r \in Resolvers, NEW s, ResolveOK(s), res' = [res EXCEPT ![r] = s],
           CacheBooks(cache')
    PROVE  CacheInv'
  BY DEF CacheInv

LEMMA ResolveCachedKeeps ==
    ASSUME CacheInv, NEW r \in Resolvers, NEW p \in ResolvePaths, ResolveCached(r, p)
    PROVE  CacheInv'
<1>1. p \in CachePaths
  BY TxnAssumption
<1>2. PICK hit : hit = TerminalPrefix(cache, p)
  OBVIOUS
<1>3. PICK ids : ids = LongestIds(cache, p, Root)
  OBVIOUS
<1>4. (\E S : ids \in Seq(S)) /\ Len(ids) \in 1 .. Len(p) + 1 /\ Len(p) \in Nat
  BY <1>1, <1>3, LongestLen, PathLen
<1>5. CacheBooks(cache')
  <2>1. cache' = IF hit # NoPath THEN Touch(cache, hit) ELSE cache
    BY <1>2 DEF ResolveCached
  <2>2. CASE hit # NoPath
    <3>1. hit \in CachePaths
      BY <1>1, <1>2, <2>2, TerminalHit
    <3>2. CacheBooks(Touch(cache, hit))
      BY <3>1, TouchKeeps DEF CacheInv
    <3> QED
      BY <2>1, <2>2, <3>2
  <2>3. CASE hit = NoPath
    BY <2>1, <2>3 DEF CacheInv
  <2> QED
    BY <2>2, <2>3
<1>6. PICK w : w = [pc |-> "walk", p |-> p, ids |-> ids, t |-> Missing]
  OBVIOUS
<1>7. PICK s : s = IF hit # NoPath \/ Len(ids) = Len(p) + 1 THEN NoResolve ELSE w
  OBVIOUS
<1>8. res' = [res EXCEPT ![r] = s]
  BY <1>2, <1>3, <1>6, <1>7 DEF ResolveCached
<1>9. ResolveOK(s)
  <2>1. ASSUME Len(ids) # Len(p) + 1 PROVE ResolveOK(w)
    <3>1. /\ DOMAIN w = {"pc", "p", "ids", "t"} /\ w.pc = "walk" /\ w.p = p /\ w.ids = ids
      BY <1>6
    <3>2. Len(ids) \in 1 .. Len(p)
      BY <1>4, <2>1
    <3> QED
      BY <1>1, <1>4, <3>1, <3>2 DEF ResolveOK
  <2> QED
    BY <1>7, <2>1, FreeOK
<1> QED
  BY <1>5, <1>8, <1>9, ResolverMove

LEMMA ResolveStepKeeps ==
    ASSUME CacheInv, NEW r \in Resolvers, ResolveStep(r)
    PROVE  CacheInv'
<1>1. PICK s : s = res[r]
  OBVIOUS
<1>2. ResolveOK(s) /\ s.pc = "walk" /\ cache' = cache /\ DOMAIN res = Resolvers
  BY <1>1 DEF CacheInv, ResolveStep
<1>3. PICK k, t, last : /\ k = Len(s.ids) /\ t = rows[<<s.ids[k], s.p[k]>>]
                        /\ last = Len(s.p)
  OBVIOUS
<1>4. PICK more : more = Append(s.ids, t.i)
  OBVIOUS
<1>5. PICK n : res' = [res EXCEPT ![r] = n] /\ n =
        CASE t.k = "inode" /\ ~(k = last) -> [s EXCEPT !.ids = more]
          [] t.k = "inode" /\ k = last -> [s EXCEPT !.ids = more, !.pc = "ids"]
          [] t.k = "obj" -> [s EXCEPT !.pc = "term", !.t = t]
          [] OTHER -> NoResolve
  BY <1>1, <1>2, <1>3, <1>4 DEF ResolveStep
<1>6. PICK S : s.ids \in Seq(S)
  BY <1>2 DEF ResolveOK
<1>7. Len(s.ids) \in 1 .. Len(s.p) /\ Len(s.p) \in Nat /\ s.p \in CachePaths
  BY <1>2, PathLen DEF ResolveOK
<1>8. more \in Seq(S \cup {t.i}) /\ Len(more) = Len(s.ids) + 1
  <2>1. s.ids \in Seq(S \cup {t.i})
    BY <1>6
  <2> QED
    BY <1>4, <2>1
<1>9. ResolveOK(n)
  <2>1. CASE t.k = "inode" /\ ~(k = last)
    <3>1. n = [s EXCEPT !.ids = more]
      BY <1>5, <2>1
    <3>2. DOMAIN n = DOMAIN s /\ n.pc = "walk" /\ n.p = s.p /\ n.ids = more
      BY <1>2, <3>1 DEF ResolveOK
    <3>3. Len(more) \in 1 .. Len(s.p)
      BY <1>3, <1>7, <1>8, <2>1
    <3> QED
      BY <1>2, <1>7, <1>8, <3>2, <3>3 DEF ResolveOK
  <2>2. CASE t.k = "inode" /\ k = last
    <3>1. n = [s EXCEPT !.ids = more, !.pc = "ids"]
      BY <1>5, <2>2
    <3>2. DOMAIN n = DOMAIN s /\ n.pc = "ids" /\ n.p = s.p /\ n.ids = more
      BY <1>2, <3>1 DEF ResolveOK
    <3> QED
      BY <1>2, <1>7, <1>8, <3>2 DEF ResolveOK
  <2>3. CASE t.k # "inode" /\ t.k = "obj"
    <3>1. n = [s EXCEPT !.pc = "term", !.t = t]
      BY <1>5, <2>3
    <3>2. DOMAIN n = DOMAIN s /\ n.pc = "term" /\ n.p = s.p /\ n.ids = s.ids
      BY <1>2, <3>1 DEF ResolveOK
    <3> QED
      BY <1>2, <1>7, <3>2 DEF ResolveOK
  <2>4. CASE t.k # "inode" /\ t.k # "obj"
    <3>1. n = NoResolve
      BY <1>5, <2>4
    <3> QED
      BY <3>1, FreeOK
  <2> QED
    BY <2>1, <2>2, <2>3, <2>4
<1> QED
  BY <1>2, <1>5, <1>9, ResolverMove DEF CacheInv

LEMMA ResolvePutKeeps ==
    ASSUME CacheInv, NEW r \in Resolvers, ResolvePut(r)
    PROVE  CacheInv'
<1>1. PICK s : s = res[r]
  OBVIOUS
<1>2. ResolveOK(s) /\ s.pc \in {"ids", "term"} /\ s.p \in CachePaths /\ CacheBooks(cache)
  BY <1>1 DEF CacheInv, ResolvePut, ResolveOK
<1>3. PICK p : p = Prefix(s.p, Len(s.ids))
  OBVIOUS
<1>4. /\ cache' = IF s.pc = "ids" THEN PutIds(cache, s.p, s.ids) ELSE PutTerminal(cache, p, s.ids, s.t)
      /\ res' = [res EXCEPT ![r] = NoResolve]
  BY <1>1, <1>3 DEF ResolvePut
<1>5. CASE s.pc = "ids"
  <2>1. CacheBooks(PutIds(cache, s.p, s.ids))
    BY <1>2, PutIdsKeeps
  <2> QED
    BY <1>4, <1>5, <2>1, FreeOK, ResolverMove
<1>6. CASE s.pc = "term"
  <2>1. Len(s.ids) \in 0 .. Len(s.p)
    BY <1>2, <1>6, PathLen DEF ResolveOK
  <2>2. p \in CachePaths
    BY <1>2, <1>3, <2>1, PrefixPath
  <2>3. CacheBooks(PutTerminal(cache, p, s.ids, s.t))
    BY <1>2, <2>2, PutTerminalKeeps
  <2> QED
    BY <1>4, <1>6, <2>3, FreeOK, ResolverMove
<1> QED
  BY <1>2, <1>5, <1>6

\* CacheInv is an invariant of the service: transactions touch the cache only
\* to invalidate it.
THEOREM CacheInvariant == TxnSpec => []CacheInv
<1>1. TxnInit => CacheInv
  BY CacheInvInit
<1>2. CacheInv /\ [TxnNext]_tvars => CacheInv'
  <2> SUFFICES ASSUME CacheInv, [TxnNext]_tvars PROVE CacheInv'
    OBVIOUS
  <2>1. ASSUME res' = res, cache' = cache \/ \E E : cache' = InvalidateEdges(cache, E)
        PROVE  CacheInv'
    BY <2>1, InvalidateKeeps DEF CacheInv
  <2>2. ASSUME NEW t \in Txns,
               \/ Begin(t) \/ MarkClosing(t, "commit") \/ MarkClosing(t, "rollback")
               \/ GiveUpWaiting(t) \/ CommitDo(t) \/ RollbackDo(t) \/ CleanDo(t) \/ CommitFails(t)
               \/ GoIdle(t) \/ CleanTake(t)
        PROVE  CacheInv'
    <3>1. res' = res /\ cache' = cache
      BY <2>2 DEF Begin, MarkClosing, GiveUpWaiting, CommitDo, RollbackDo, CleanDo, CommitFails,
                  GoIdle, CleanTake
    <3> QED
      BY <2>1, <3>1
  <2>3. ASSUME NEW t \in Txns, CommitFinish(t) PROVE CacheInv'
    BY <2>1, <2>3 DEF CommitFinish
  <2>4. ASSUME NEW o \in Ops, NEW t \in Txns \cup {AutoCommit}, NEW e \in CacheEdges,
               NEW v \in Targets[e], OpFetch(o, t, e, v)
        PROVE  CacheInv'
    BY <2>1, <2>4 DEF OpFetch
  <2>5. ASSUME NEW o \in Ops, OpEnter(o) \/ OpWrite(o) PROVE CacheInv'
    <3>1. res' = res /\ cache' = cache
      BY <2>5 DEF OpEnter, OpWrite
    <3> QED
      BY <2>1, <3>1
  <2>6. ASSUME NEW o \in Ops, OpNote(o) PROVE CacheInv'
    <3>1. res' = res /\ (cache' = cache \/ cache' = InvalidateEdges(cache, {op[o].e}))
      BY <2>6 DEF OpNote
    <3> QED
      BY <2>1, <3>1
  <2>7. ASSUME NEW r \in Resolvers, NEW p \in ResolvePaths, ResolveCached(r, p) PROVE CacheInv'
    BY <2>7, ResolveCachedKeeps
  <2>8. ASSUME NEW r \in Resolvers, ResolveStep(r) \/ ResolvePut(r) PROVE CacheInv'
    BY <2>8, ResolveStepKeeps, ResolvePutKeeps
  <2>9. CASE UNCHANGED tvars
    BY <2>1, <2>9 DEF tvars
  <2> QED
    BY <2>2, <2>3, <2>4, <2>5, <2>6, <2>7, <2>8, <2>9 DEF TxnNext, Closing, Running
<1> QED
  BY <1>1, <1>2, PTL DEF TxnSpec

\* BooksKept, for any number of transactions, operations and resolves, any
\* depth of paths and any limit: the in-flight counter counts operations, and
\* entry_count, the LRU map and the trie agree through put_ids_for_path,
\* put_terminal_for_path, hits, evictions and invalidations.
THEOREM BooksKeptHolds == TxnSpec => []BooksKept
<1>1. TxnTypeOK /\ CacheInv => BooksKept
  <2> SUFFICES ASSUME TxnTypeOK, CacheInv PROVE BooksKept
    OBVIOUS
  <2>1. LruMatchesTrie(cache)
    BY DEF CacheInv, CacheBooks, CacheLinked, CacheValued, LruMatchesTrie
  <2> QED
    BY <2>1 DEF BooksKept, CacheConsistent
<1> QED
  BY <1>1, TxnTypeCorrect, CacheInvariant, PTL

===========================================================================
