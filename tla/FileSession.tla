---------------------------- MODULE FileSession ----------------------------
(***************************************************************************)
(* The life of one file of the name space, from the first open for writing *)
(* to the object it becomes: the row of its inode in the nodes table of    *)
(* fs_meta (node state and write lease), the local file buffers of         *)
(* fs_buffer that hold its data, the stager that turns a closed buffer     *)
(* into a named object, and the named store that receives the content.     *)
(*                                                                         *)
(* Every handler of fs_meta that opens a transaction runs under BEGIN      *)
(* IMMEDIATE, so its reads and writes of the row are one step here.  What  *)
(* is not under that lock interleaves: the release of the lease after a    *)
(* close, the lease reclaimer, a writer's flush, and every step of the     *)
(* stager (LocalFileBufferService::cacl_name and finalize), which talks to *)
(* fs_meta through two separate calls, get_inode and update_inode_state.   *)
(*                                                                         *)
(* The content of buffer h after its n-th flush is the pair <<h, n>>; it   *)
(* stands for the file object and the chunks computed from these bytes.    *)
(* The number of the flush also stands for the size of the file: contents  *)
(* above DirectLimit are published as links first.                         *)
(***************************************************************************)
EXTENDS Naturals, FiniteSets

CONSTANTS
    Clients,       \* processes that open, write and close the file
    Stagers,       \* calls of cacl_name and finalize in progress
    Handles,       \* buffer handles next_handle_id may give out
    LeaseTTL,      \* WRITE_LEASE_TTL_SECS
    DirectLimit,   \* DIRECT_FINALIZE_FILE_SIZE, in flushes
    MaxTime,       \* bound: last value of the clock
    MaxFlush,      \* bound: flushes of one buffer
    MaxSeq,        \* bound: leases taken anew
    None

ASSUME FileSessionAssumption ==
    /\ LeaseTTL \in Nat \ {0}
    /\ DirectLimit \in Nat
    /\ MaxTime \in Nat
    /\ MaxFlush \in Nat
    /\ MaxSeq \in Nat
    /\ None \notin Handles \cup Nat \cup (Handles \X Nat)

VARIABLES
    now,      \* unix_timestamp()
    row,      \* the columns of the inode in nodes
    bufs,     \* the records of file_buffer.db and their diff files
    items,    \* what the named store records for a content
    client,   \* NfsFileWriter of each client, and its close in progress
    stager    \* the call in progress of each stager

vars == <<now, row, bufs, items, client, stager>>

Time == 0 .. MaxTime
Content == Handles \X (0 .. MaxFlush)

NodeStates == {"Absent", "FileNormal", "Working", "Cooling", "Linked", "Finalized"}
Buffered == {"Working", "Cooling"}
Published == {"Linked", "Finalized"}

---------------------------------------------------------------------------
(* A NodeState value, with None in the fields its variant does not have.   *)

NodeState(state, fb, lastWrite, closed, obj) ==
    [state |-> state, fb |-> fb, lastWrite |-> lastWrite, closed |-> closed, obj |-> obj]

Working(h, t) == NodeState("Working", h, t, None, None)
Cooling(h, t) == NodeState("Cooling", h, None, t, None)
Linked(c) == NodeState("Linked", None, None, None, c)
Finalized(c) == NodeState("Finalized", None, None, None, c)
FileNormal == NodeState("FileNormal", None, None, None, None)

\* The columns of the row that node_state_cols fills and the WHERE clause of
\* handle_update_inode_state compares.
Columns(r) == NodeState(r.state, r.fb, r.lastWrite, r.closed, r.obj)

\* parse_node_state: only the columns of the row's own variant are read.
ParsedState(r) ==
    NodeState(r.state,
              IF r.state \in Buffered THEN r.fb ELSE None,
              IF r.state = "Working" THEN r.lastWrite ELSE None,
              IF r.state = "Cooling" THEN r.closed ELSE None,
              IF r.state \in Published THEN r.obj ELSE None)

\* The compare of handle_update_inode_state against the state read before.
StateMatches(r, old) == Columns(r) = old

\* Its update: every state column is rewritten.
WithState(r, s) ==
    [r EXCEPT !.state = s.state, !.fb = s.fb, !.lastWrite = s.lastWrite,
              !.closed = s.closed, !.obj = s.obj]

\* acquire_file_lease_inner.  All sessions of the file carry the same name,
\* <instance>:<inode>, so a lease that has not expired is renewed with its
\* number and the conflict branch cannot be reached.
WithLease(r) ==
    [r EXCEPT !.leased = TRUE,
              !.expire = now + LeaseTTL,
              !.seq = IF r.leased /\ r.expire > now THEN @ ELSE @ + 1]

\* handle_set_inode with base_obj_id = None, as open calls it to truncate a
\* file with a base object: the state columns are written from the parsed
\* state, which also clears the columns of other variants.
Truncated(r) == [WithState(r, ParsedState(r)) EXCEPT !.base = FALSE]

---------------------------------------------------------------------------
IdleClient == [pc |-> "idle", h |-> None, seq |-> None]
IdleStager == [pc |-> "idle", op |-> None, h |-> None, ver |-> None, old |-> FileNormal]

FreshBuffer == [file |-> TRUE, ver |-> 0, linked |-> FALSE, finalized |-> FALSE]

Init ==
    /\ now = 0
    \* The name is free, or shows a committed object (an ObjId dentry or a
    \* child of the base directory object) without an inode of its own.
    /\ \E base \in BOOLEAN :
         row = [state |-> "Absent", fb |-> None, lastWrite |-> None, closed |-> None,
                obj |-> None, base |-> base, leased |-> FALSE, expire |-> 0, seq |-> 0]
    /\ bufs = [h \in {} |-> FreshBuffer]
    /\ items = [c \in Content |-> "NotExist"]
    /\ client = [c \in Clients |-> IdleClient]
    /\ stager = [s \in Stagers |-> IdleStager]

Tick ==
    /\ now < MaxTime
    /\ now' = now + 1
    /\ UNCHANGED <<row, bufs, items, client, stager>>

---------------------------------------------------------------------------
(* Opening for writing.                                                    *)

\* Bounds: a lease ends within the horizon of the clock, so that the runs see
\* it expire, and the lease number stays below MaxSeq.
WithinBounds == now + LeaseTTL <= MaxTime /\ WithLease(row).seq <= MaxSeq

FreshFlags == {"Append", "CreateExclusive", "CreateOrTruncate", "CreateOrAppend"}
Truncating == {"CreateExclusive", "CreateOrTruncate"}

FileExists == row.state # "Absent" \/ row.base

FlagAllows(flag) ==
    /\ flag = "Append" => FileExists
    /\ flag = "CreateExclusive" => ~FileExists

\* The row open_file_writer starts from: a name without an inode gets one.
OpenedRow == IF row.state = "Absent" THEN WithState(row, FileNormal) ELSE row

\* The row as it is when the state is about to be replaced: lease taken, and
\* the base object dropped if the flag truncates.
PreparedRow(flag) ==
    LET leased == WithLease(OpenedRow)
    IN  IF flag \in Truncating /\ leased.base THEN Truncated(leased) ELSE leased

\* handle_open_file_writer for every flag but ContinueWrite.  The buffer is
\* allocated before the update of the state: when that update meets a
\* conflict the transaction is rolled back and the buffer stays behind.
OpenFresh(c, flag) ==
    /\ client[c].pc = "idle"
    /\ WithinBounds
    /\ FlagAllows(flag)
    /\ row.state # "Working"
    /\ \E h \in Handles \ DOMAIN bufs :
         /\ bufs' = [g \in DOMAIN bufs \cup {h} |-> IF g = h THEN FreshBuffer ELSE bufs[g]]
         /\ LET ready == PreparedRow(flag)
            IN  IF StateMatches(ready, ParsedState(OpenedRow))
                THEN /\ row' = WithState(ready, Working(h, now))
                     /\ client' = [client EXCEPT ![c] = [pc |-> "open", h |-> h, seq |-> None]]
                ELSE UNCHANGED <<row, client>>
    /\ UNCHANGED <<now, items, stager>>

\* handle_open_file_writer with ContinueWrite: the buffer of the session is
\* taken up again, whether or not somebody is still writing to it.
OpenContinue(c) ==
    /\ client[c].pc = "idle"
    /\ WithinBounds
    /\ row.state \in Buffered
    /\ row.fb \in DOMAIN bufs
    /\ StateMatches(row, ParsedState(row))
    /\ row' = WithState(WithLease(row), Working(row.fb, now))
    /\ client' = [client EXCEPT ![c] = [pc |-> "open", h |-> row.fb, seq |-> None]]
    /\ UNCHANGED <<now, bufs, items, stager>>

---------------------------------------------------------------------------
(* Writing and closing.                                                    *)

\* NfsFileWriter::flush: DiffChunkListWriter::close creates the diff file
\* anew and writes the dirty chunks, and the diff_state of the buffer is
\* replaced by one without link and finalize marks.  No lease is checked.
Flush(c) ==
    LET h == client[c].h
    IN  /\ client[c].pc = "open"
        /\ bufs[h].ver < MaxFlush
        /\ bufs' = [bufs EXCEPT ![h] = [file |-> TRUE, ver |-> @.ver + 1,
                                        linked |-> FALSE, finalized |-> FALSE]]
        /\ UNCHANGED <<now, row, items, client, stager>>

\* handle_close_file_writer up to the commit.  The inode is all it is given:
\* it closes whatever session the row has, the caller's or a later one.  The
\* lease the row had in the transaction is remembered for the release.
CloseCommit(c) ==
    /\ client[c].pc = "open"
    /\ IF /\ row.state \in Buffered
          /\ row.fb \in DOMAIN bufs
          /\ StateMatches(row, ParsedState(row))
       THEN /\ row' = WithState(row, Cooling(row.fb, now))
            /\ client' = [client EXCEPT ![c] =
                            IF row.leased THEN [pc |-> "release", h |-> None, seq |-> row.seq]
                                          ELSE IdleClient]
       ELSE /\ client' = [client EXCEPT ![c] = IdleClient]
            /\ UNCHANGED row
    /\ UNCHANGED <<now, bufs, items, stager>>

\* The handle_release_file_lease that ends handle_close_file_writer.
CloseRelease(c) ==
    /\ client[c].pc = "release"
    /\ row' = IF row.leased /\ row.seq = client[c].seq
              THEN [row EXCEPT !.leased = FALSE, !.expire = 0] ELSE row
    /\ client' = [client EXCEPT ![c] = IdleClient]
    /\ UNCHANGED <<now, bufs, items, stager>>

\* The client, or the service in the middle of its close, goes away.
ClientGone(c) ==
    /\ client[c].pc # "idle"
    /\ client' = [client EXCEPT ![c] = IdleClient]
    /\ UNCHANGED <<now, row, bufs, items, stager>>

\* Mutant of Reclaim: only leases of Working files are looked at
ReclaimWorkingOnly ==
    /\ row.leased /\ row.expire <= now /\ row.state = "Working"
    /\ row' = [row EXCEPT !.leased = FALSE, !.expire = 0, !.state = "Cooling", !.closed = now]
    /\ UNCHANGED <<now, bufs, items, client, stager>>

\* reclaim_expired_write_leases, the periodic task: one UPDATE.
Reclaim ==
    /\ row.leased /\ row.expire <= now
    /\ row' = [row EXCEPT !.leased = FALSE,
                          !.expire = 0,
                          !.state = IF @ = "Working" THEN "Cooling" ELSE @,
                          !.closed = IF row.state = "Working" THEN now ELSE @]
    /\ UNCHANGED <<now, bufs, items, client, stager>>

---------------------------------------------------------------------------
(* The stager: LocalFileBufferService::cacl_name and finalize.             *)

\* Nothing in the repository calls the stager yet; its calls come as the
\* design has them: cacl_name for the buffer of a file found Cooling, and
\* finalize for a buffer marked linked.  The choice is made from what is read
\* then, everything later interleaves.
MayStage(op, h) ==
    \/ op = "cacl_name" /\ row.state = "Cooling" /\ row.fb = h
    \/ op = "finalize" /\ bufs[h].linked

\* The checks a call starts with: a finalized buffer is left alone, and
\* cacl_name also leaves a linked one.
StageBegin(s, op, h) ==
    /\ stager[s].pc = "idle"
    /\ h \in DOMAIN bufs
    /\ MayStage(op, h)
    /\ ~bufs[h].finalized
    /\ op = "cacl_name" => ~bufs[h].linked
    /\ stager' = [stager EXCEPT ![s] = [IdleStager EXCEPT !.pc = "compute", !.op = op, !.h = h]]
    /\ UNCHANGED <<now, row, bufs, items, client>>

\* build_finalize_data: the object and chunk ids of the bytes as they are.
StageCompute(s) ==
    LET h == stager[s].h
    IN  /\ stager[s].pc = "compute"
        /\ bufs[h].file
        /\ stager' = [stager EXCEPT ![s].pc = "put", ![s].ver = bufs[h].ver]
        /\ UNCHANGED <<now, row, bufs, items, client>>

Target(s) == <<stager[s].h, stager[s].ver>>

\* cacl_name of a large file publishes links; everything else copies.
Links(s) == stager[s].op = "cacl_name" /\ stager[s].ver > DirectLimit

\* put_chunks_to_store: what the store already has is not copied, and a link
\* counts as had (have_chunk).  put_chunk verifies the bytes, so a file that
\* has changed since the ids were computed is refused.
PutChunks(s) ==
    /\ bufs[stager[s].h].file
    /\ items[Target(s)] = "NotExist" => bufs[stager[s].h].ver = stager[s].ver
    /\ items' = [items EXCEPT ![Target(s)] = IF @ = "NotExist" THEN "Completed" ELSE @]

\* put_links_to_store: add_chunk_by_link_to_local_file replaces the item.
PutLinks(s) == items' = [items EXCEPT ![Target(s)] = "LocalLink"]

StagePut(s) ==
    /\ stager[s].pc = "put"
    /\ IF Links(s) THEN PutLinks(s) ELSE PutChunks(s)
    /\ stager' = [stager EXCEPT ![s].pc = "mark"]
    /\ UNCHANGED <<now, row, bufs, client>>

\* Mutant of StageMark: the diff file goes before the row is updated
StageMarkUnlinks(s) ==
    /\ stager[s].pc = "mark"
    /\ bufs' = [bufs EXCEPT ![stager[s].h].linked = TRUE,
                            ![stager[s].h].finalized = ~Links(s),
                            ![stager[s].h].file = Links(s)]
    /\ stager' = [stager EXCEPT ![s].pc = "read"]
    /\ UNCHANGED <<now, row, items, client>>

\* The buffer's own record of the outcome, in memory and in its database.
StageMark(s) ==
    /\ stager[s].pc = "mark"
    /\ bufs' = [bufs EXCEPT ![stager[s].h].linked = TRUE,
                            ![stager[s].h].finalized = ~Links(s)]
    /\ stager' = [stager EXCEPT ![s].pc = "read"]
    /\ UNCHANGED <<now, row, items, client>>

\* The get_inode of update_fsmeta_linked_state and of
\* update_fsmeta_finalized_state: the state to compare with is read here.
StageRead(s) ==
    /\ stager[s].pc = "read"
    /\ stager' = [stager EXCEPT ![s].pc = "publish", ![s].old = ParsedState(row)]
    /\ UNCHANGED <<now, row, bufs, items, client>>

\* Their update_inode_state.  A conflict ends the call with an error.
StagePublish(s) ==
    /\ stager[s].pc = "publish"
    /\ IF StateMatches(row, stager[s].old)
       THEN /\ row' = WithState(row, IF Links(s) THEN Linked(Target(s)) ELSE Finalized(Target(s)))
            /\ stager' = [stager EXCEPT ![s] =
                            IF Links(s) THEN IdleStager ELSE [@ EXCEPT !.pc = "unlink"]]
       ELSE /\ stager' = [stager EXCEPT ![s] = IdleStager]
            /\ UNCHANGED row
    /\ UNCHANGED <<now, bufs, items, client>>

\* The end of do_finalize: the diff file is removed.
StageUnlink(s) ==
    /\ stager[s].pc = "unlink"
    /\ bufs' = [bufs EXCEPT ![stager[s].h].file = FALSE]
    /\ stager' = [stager EXCEPT ![s] = IdleStager]
    /\ UNCHANGED <<now, row, items, client>>

\* Any call of the stager may fail, or the process stop.
StageFail(s) ==
    /\ stager[s].pc # "idle"
    /\ stager' = [stager EXCEPT ![s] = IdleStager]
    /\ UNCHANGED <<now, row, bufs, items, client>>

---------------------------------------------------------------------------
ClientStep(c) ==
    \/ \E flag \in FreshFlags : OpenFresh(c, flag)
    \/ OpenContinue(c)
    \/ Flush(c)
    \/ CloseCommit(c)
    \/ CloseRelease(c)
    \/ ClientGone(c)

StagerStep(s) ==
    \/ \E op \in {"cacl_name", "finalize"}, h \in Handles : StageBegin(s, op, h)
    \/ StageCompute(s)
    \/ StagePut(s)
    \/ StageMark(s)
    \/ StageRead(s)
    \/ StagePublish(s)
    \/ StageUnlink(s)
    \/ StageFail(s)

Next ==
    \/ Tick
    \/ Reclaim
    \/ \E c \in Clients : ClientStep(c)
    \/ \E s \in Stagers : StagerStep(s)

Spec == Init /\ [][Next]_vars

\* The clock runs and the reclaimer, started with the service, is woken by
\* its interval for ever; nothing is assumed of clients or stagers.
FairSpec == Spec /\ WF_vars(Tick) /\ WF_vars(Reclaim)

---------------------------------------------------------------------------
(* Properties.                                                             *)

OptHandle == Handles \cup {None}
OptTime == Time \cup {None}
OptContent == Content \cup {None}

StateValue == [state : NodeStates, fb : OptHandle, lastWrite : OptTime,
               closed : OptTime, obj : OptContent]
Row == [state : NodeStates, fb : OptHandle, lastWrite : OptTime, closed : OptTime,
        obj : OptContent, base : BOOLEAN, leased : BOOLEAN, expire : Time, seq : Nat]
Buffer == [file : BOOLEAN, ver : 0 .. MaxFlush, linked : BOOLEAN, finalized : BOOLEAN]
Writer == [pc : {"idle", "open", "release"}, h : OptHandle, seq : Nat \cup {None}]
StageCall == [pc : {"idle", "compute", "put", "mark", "read", "publish", "unlink"},
              op : {"cacl_name", "finalize", None}, h : OptHandle,
              ver : (0 .. MaxFlush) \cup {None}, old : StateValue]

\* Type invariant: the columns, records and program counters have the values
\* the schema and the code give them.
TypeOK ==
    /\ now \in Time
    /\ row \in Row
    /\ DOMAIN bufs \in SUBSET Handles
    /\ bufs \in [DOMAIN bufs -> Buffer]
    /\ items \in [Content -> {"NotExist", "LocalLink", "Completed"}]
    /\ client \in [Clients -> Writer]
    /\ stager \in [Stagers -> StageCall]

\* A file that is Working or Cooling is read from its buffer
\* (handle_open_file_reader) and taken up again by ContinueWrite, so its diff
\* file is there, whatever stagers, late writers and reclaims do: do_finalize
\* removes the file only after the row has left the buffer for good.
BufferAlive ==
    row.state \in Buffered => row.fb \in DOMAIN bufs /\ bufs[row.fb].file

\* The object a Linked or Finalized row points to is known to the store
\* before the row shows it, and a file that was never published as a link is
\* Finalized only with its data inside the store: cacl_name and finalize put
\* chunks and objects first and publish last.
PublishedStored ==
    row.state \in Published =>
        /\ items[row.obj] # "NotExist"
        /\ row.state = "Finalized" /\ row.obj[2] <= DirectLimit => items[row.obj] = "Completed"

\* A write lease never outlives its holder for ever: whoever crashed, closed
\* without releasing or lost its file to the stager, the reclaimer clears
\* the lease in the end.
LeaseLapses == row.leased ~> ~row.leased

\* What a step of a client or of a stager in progress relies on: its buffer is
\* known, the content it is about to publish is in the store, and the row no
\* longer shows the buffer whose file is about to go.
CallsInOrder ==
    /\ \A c \in Clients : client[c].pc = "open" => client[c].h \in DOMAIN bufs
    /\ \A s \in Stagers :
         /\ stager[s].pc # "idle" => stager[s].h \in DOMAIN bufs
         /\ stager[s].pc \in {"put", "mark", "read", "publish", "unlink"} =>
              stager[s].ver \in 0 .. MaxFlush
         /\ stager[s].pc \in {"mark", "read", "publish"} =>
              /\ items[Target(s)] # "NotExist"
              /\ stager[s].ver <= DirectLimit => items[Target(s)] = "Completed"
         /\ stager[s].pc = "unlink" => ~(row.state \in Buffered /\ row.fb = stager[s].h)
    /\ \A c \in Content : c[2] <= DirectLimit => items[c] # "LocalLink"

\* The inductive invariant behind BufferAlive and PublishedStored.  A row
\* that shows an object has one, and a row that shows a buffer has one.
SessionInv ==
    /\ TypeOK
    /\ BufferAlive
    /\ row.state \in Published => row.obj \in Content
    /\ PublishedStored
    /\ CallsInOrder

============================================================================
