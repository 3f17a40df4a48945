------------------------------ MODULE FsMetaTxn ------------------------------
(***************************************************************************)
(* Transactions of FSMetaService over one SQLite file, and the path cache   *)
(* that commits and autocommitted writes must keep fresh.                   *)
(*                                                                         *)
(* A row is the target of a dentry.  Every transaction has a connection of  *)
(* its own, in a transaction from BEGIN IMMEDIATE to COMMIT or ROLLBACK and  *)
(* in autocommit mode afterwards.  An operation looks its transaction up,   *)
(* is queued on the blocking pool, counts itself in flight, takes the       *)
(* connection and then notes the edge it touched: four steps.  A caller     *)
(* commits when its operations have returned; it may roll back (or drop its *)
(* guard, or vanish) with an operation still queued.                        *)
(***************************************************************************)
EXTENDS PathResolveCache

CONSTANTS Txns,         \* transaction ids, each begun at most once
          Ops,          \* calls of dentry operations in progress
          Resolvers,    \* calls of resolve_path in progress
          Targets,      \* Targets[e]: what a dentry may be set to
          InitRows,     \* the dentries at start
          ResolvePaths, \* the paths that are resolved
          Budgets       \* bounds on transactions, operations and resolves; a behaviour picks one


VARIABLES rows,     \* committed dentries
          txn,      \* TxnEntry and connection of each transaction
          op,       \* operations in progress
          res,      \* resolve_path calls in progress
          cache,    \* resolve_path_cache
          gaps,     \* history: edges whose invalidation the cache can have missed
          left      \* what is left of the bounds

tvars == <<rows, txn, op, res, cache, gaps, left>>

Root == 1
AutoCommit == "autocommit"
ToInode(i) == [k |-> "inode", i |-> i]
ToObj == [k |-> "obj", i |-> 0]
Missing == [k |-> "missing", i |-> 0]
Keep == [k |-> "keep", i |-> 0]

\* a dentry leads to an inode or an object, or there is none
Dentry == {ToInode(i) : i \in CacheInodes} \cup {ToObj, Missing}

ASSUME TxnAssumption ==
    /\ AutoCommit \notin Txns /\ IsFiniteSet(Ops)
    /\ InitRows \in [CacheEdges -> Dentry] /\ Targets \in [CacheEdges -> SUBSET Dentry]
    /\ ResolvePaths \subseteq CachePaths
    /\ Budgets \subseteq [begins : Nat, ops : Nat, res : Nat]

NoWrites == [e \in CacheEdges |-> Keep]
NewTxn == [map |-> FALSE, closing |-> FALSE, conn |-> "none", fly |-> 0, idle |-> FALSE,
           slow |-> FALSE, by |-> "-", clean |-> FALSE, writes |-> NoWrites, touched |-> {},
           base |-> InitRows]
NoOp == [pc |-> "free", t |-> AutoCommit, e |-> <<Root, "-">>, v |-> Missing]
NoResolve == [pc |-> "free", p |-> <<>>, ids |-> <<>>, t |-> Missing]

\* the reserved write lock of the SQLite file
Locked == \E t \in Txns : txn[t].conn = "tx"

Overlay(w) == [e \in CacheEdges |-> IF w[e] = Keep THEN rows[e] ELSE w[e]]

\* what a resolver has read so far, as edges
EdgesRead(r) == {<<r.ids[k], r.p[k]>> : k \in 1 .. (IF Len(r.ids) < Len(r.p) THEN Len(r.ids) ELSE Len(r.p))}

\* edges that resolvers have read and will still put into the cache
ReadByNow(E) == {e \in E : \E r \in Resolvers : res[r].pc # "free" /\ e \in EdgesRead(res[r])}

\* rows change; nobody tells the cache when the operation outlived its transaction
WriteRows(new, late) ==
    /\ rows' = new
    /\ gaps' = gaps \cup (IF late THEN {e \in CacheEdges : new[e] # rows[e]} ELSE {})

SetTxn(t, r) == txn' = [txn EXCEPT ![t] = r]

-----------------------------------------------------------------------------
(* Begin, commit, rollback, cleanup.                                        *)

\* Mutant of Begin: BEGIN DEFERRED takes no lock.
BeginDeferred(t) ==
    /\ txn[t].conn = "none" /\ left.begins > 0
    /\ SetTxn(t, [NewTxn EXCEPT !.map = TRUE, !.conn = "tx", !.base = rows])
    /\ left' = [left EXCEPT !.begins = @ - 1]
    /\ UNCHANGED <<rows, op, res, cache, gaps>>

\* handle_begin_txn, open_txn_connection
Begin(t) ==
    /\ txn[t].conn = "none" /\ ~Locked /\ left.begins > 0
    /\ SetTxn(t, [NewTxn EXCEPT !.map = TRUE, !.conn = "tx", !.base = rows])
    /\ left' = [left EXCEPT !.begins = @ - 1]
    /\ UNCHANGED <<rows, op, res, cache, gaps>>

Outstanding(t) == \E o \in Ops : op[o].pc # "free" /\ op[o].t = t

\* handle_commit and rollback_txn_by_arcs, step 1
MarkClosing(t, how) ==
    /\ txn[t].map /\ ~txn[t].closing
    /\ how = "commit" => ~Outstanding(t)
    /\ SetTxn(t, [txn[t] EXCEPT !.closing = TRUE, !.by = how])
    /\ UNCHANGED <<rows, op, res, cache, gaps, left>>

\* the wait for operations in flight gives up
GiveUpWaiting(t) ==
    /\ txn[t].by \in {"commit", "rollback"} \/ txn[t].clean
    /\ txn[t].fly > 0 /\ ~txn[t].slow
    /\ SetTxn(t, [txn[t] EXCEPT !.slow = TRUE])
    /\ UNCHANGED <<rows, op, res, cache, gaps, left>>

WaitOver(t) == txn[t].fly = 0 \/ txn[t].slow

Ended(r) == [r EXCEPT !.conn = "auto", !.writes = NoWrites]

\* COMMIT on the connection; it fails when the cleanup has rolled it back
CommitDo(t) ==
    /\ txn[t].by = "commit" /\ WaitOver(t)
    /\ IF txn[t].conn = "tx"
       THEN /\ WriteRows(Overlay(txn[t].writes), FALSE)
            /\ SetTxn(t, [Ended(txn[t]) EXCEPT !.by = "invalidate"])
       ELSE /\ SetTxn(t, [txn[t] EXCEPT !.by = "-"])
            /\ UNCHANGED <<rows, gaps>>
    /\ UNCHANGED <<op, res, cache, left>>

\* COMMIT fails and leaves the transaction open; the entry stays closing
CommitFails(t) ==
    /\ txn[t].by = "commit" /\ WaitOver(t) /\ txn[t].conn = "tx"
    /\ SetTxn(t, [txn[t] EXCEPT !.by = "-"])
    /\ UNCHANGED <<rows, op, res, cache, gaps, left>>

\* Mutant of CommitFinish: the touched edges are forgotten.
CommitFinishSilent(t) ==
    /\ txn[t].by = "invalidate"
    /\ SetTxn(t, [txn[t] EXCEPT !.map = FALSE, !.by = "-"])
    /\ UNCHANGED <<rows, op, res, cache, gaps, left>>

\* steps 4 and 5: out of the map, and every touched edge invalidated
CommitFinish(t) ==
    /\ txn[t].by = "invalidate"
    /\ SetTxn(t, [txn[t] EXCEPT !.map = FALSE, !.by = "-"])
    /\ cache' = InvalidateEdges(cache, txn[t].touched)
    /\ gaps' = gaps \cup ReadByNow(txn[t].touched)
    /\ UNCHANGED <<rows, op, res, left>>

\* ROLLBACK; it fails when the cleanup was first
RollbackDo(t) ==
    /\ txn[t].by = "rollback" /\ WaitOver(t)
    /\ SetTxn(t, IF txn[t].conn = "tx"
                 THEN [Ended(txn[t]) EXCEPT !.map = FALSE, !.by = "-"]
                 ELSE [txn[t] EXCEPT !.by = "-"])
    /\ UNCHANGED <<rows, op, res, cache, gaps, left>>

\* TXN_TIMEOUT_SECS pass without an operation
GoIdle(t) ==
    /\ txn[t].map /\ ~txn[t].idle
    /\ SetTxn(t, [txn[t] EXCEPT !.idle = TRUE])
    /\ UNCHANGED <<rows, op, res, cache, gaps, left>>

\* Mutant of CleanTake: entries that are already closing are left to their closer.
CleanTakeOpenOnly(t) ==
    /\ txn[t].map /\ txn[t].idle /\ ~txn[t].closing
    /\ SetTxn(t, [txn[t] EXCEPT !.map = FALSE, !.closing = TRUE, !.clean = TRUE])
    /\ UNCHANGED <<rows, op, res, cache, gaps, left>>

\* start_cleanup_task: stale entries leave the map, closing or not ...
CleanTake(t) ==
    /\ txn[t].map /\ txn[t].idle
    /\ SetTxn(t, [txn[t] EXCEPT !.map = FALSE, !.closing = TRUE, !.clean = TRUE])
    /\ UNCHANGED <<rows, op, res, cache, gaps, left>>

\* ... and are rolled back, an error ignored
CleanDo(t) ==
    /\ txn[t].clean /\ WaitOver(t)
    /\ SetTxn(t, [(IF txn[t].conn = "tx" THEN Ended(txn[t]) ELSE txn[t]) EXCEPT !.clean = FALSE])
    /\ UNCHANGED <<rows, op, res, cache, gaps, left>>

-----------------------------------------------------------------------------
(* Operations on a dentry, in a transaction or on the service's connection. *)

\* with_conn: get_txn_entry, last_used_at, and the task is queued
OpFetch(o, t, e, v) ==
    /\ op[o].pc = "free" /\ left.ops > 0
    /\ t # AutoCommit => txn[t].map /\ ~txn[t].closing /\ ~Outstanding(t)
    /\ op' = [op EXCEPT ![o] = [pc |-> "queued", t |-> t, e |-> e, v |-> v]]
    /\ left' = [left EXCEPT !.ops = @ - 1]
    /\ txn' = IF t = AutoCommit THEN txn ELSE [txn EXCEPT ![t].idle = FALSE]
    /\ UNCHANGED <<rows, res, cache, gaps>>

\* InFlightGuard::enter on a thread of the pool
OpEnter(o) ==
    /\ op[o].pc = "queued"
    /\ op' = [op EXCEPT ![o].pc = "entered"]
    /\ txn' = IF op[o].t = AutoCommit THEN txn ELSE [txn EXCEPT ![op[o].t].fly = @ + 1]
    /\ UNCHANGED <<rows, res, cache, gaps, left>>

\* the statement: in the transaction, or at once when there is none (any more);
\* it changes nothing, fails or finds the file locked, or it writes the row
OpWrite(o) ==
    LET t == op[o].t
        e == op[o].e
        inTx == t # AutoCommit /\ txn[t].conn = "tx"
        out == IF t = AutoCommit THEN txn ELSE [txn EXCEPT ![t].fly = @ - 1]
    IN  /\ op[o].pc = "entered"
        /\ \/ /\ inTx
              /\ Overlay(txn[t].writes)[e] # op[o].v
              /\ txn' = [out EXCEPT ![t].writes[e] = op[o].v]
              /\ op' = [op EXCEPT ![o].pc = "written"]
              /\ UNCHANGED <<rows, gaps>>
           \/ /\ ~inTx /\ ~Locked
              /\ rows[e] # op[o].v
              /\ txn' = out
              /\ op' = [op EXCEPT ![o].pc = "written"]
              /\ WriteRows([rows EXCEPT ![e] = op[o].v], t # AutoCommit)
           \/ /\ (IF inTx THEN Overlay(txn[t].writes)[e] = op[o].v ELSE Locked \/ rows[e] = op[o].v)
              /\ txn' = out
              /\ op' = [op EXCEPT ![o] = NoOp]
              /\ UNCHANGED <<rows, gaps>>
        /\ UNCHANGED <<res, cache, left>>

\* touched_edges through a second get_txn_entry, or the cache itself
OpNote(o) ==
    LET t == op[o].t
        e == op[o].e
    IN  /\ op[o].pc = "written"
        /\ op' = [op EXCEPT ![o] = NoOp]
        /\ cache' = IF t = AutoCommit THEN InvalidateEdges(cache, {e}) ELSE cache
        /\ gaps' = gaps \cup (IF t = AutoCommit THEN ReadByNow({e}) ELSE {})
        /\ txn' = IF t # AutoCommit /\ txn[t].map /\ ~txn[t].closing
                  THEN [txn EXCEPT ![t].touched = @ \cup {e}] ELSE txn
        /\ UNCHANGED <<rows, res, left>>

-----------------------------------------------------------------------------
(* handle_resolve_path_ex.  A link that is followed starts over with the    *)
(* path it names, which is another call of these steps.                     *)

\* the terminal cache, then the longest cached prefix of inode ids
ResolveCached(r, p) ==
    LET hit == TerminalPrefix(cache, p)
        ids == LongestIds(cache, p, Root)
    IN  /\ res[r].pc = "free" /\ left.res > 0
        /\ left' = [left EXCEPT !.res = @ - 1]
        /\ cache' = IF hit # NoPath THEN Touch(cache, hit) ELSE cache
        /\ res' = [res EXCEPT ![r] =
                     IF hit # NoPath \/ Len(ids) = Len(p) + 1 THEN NoResolve
                     ELSE [pc |-> "walk", p |-> p, ids |-> ids, t |-> Missing]]
        /\ UNCHANGED <<rows, txn, op, gaps>>

\* get_dentry of the next component
ResolveStep(r) ==
    LET ids == res[r].ids
        k == Len(ids)
        t == rows[<<ids[k], res[r].p[k]>>]
        last == k = Len(res[r].p)
    IN  /\ res[r].pc = "walk"
        /\ res' = [res EXCEPT ![r] =
                     CASE t.k = "inode" /\ ~last -> [@ EXCEPT !.ids = Append(ids, t.i)]
                       [] t.k = "inode" /\ last -> [@ EXCEPT !.ids = Append(ids, t.i), !.pc = "ids"]
                       [] t.k = "obj" -> [@ EXCEPT !.pc = "term", !.t = t]
                       [] OTHER -> NoResolve]
        /\ UNCHANGED <<rows, txn, op, cache, gaps, left>>

\* edges an eviction takes from the index although a cached path goes through them
Orphaned(c, d) ==
    {e \in CacheEdges :
        /\ c.edge[e] # NoPath /\ d.edge[e] = NoPath
        /\ \E p \in CachePaths : d.val[p] # NoValue /\ Under(p, c.edge[e])}

\* what was read is put into the cache
ResolvePut(r) ==
    LET s == res[r]
        p == Prefix(s.p, Len(s.ids))
        new == IF s.pc = "ids" THEN PutIds(cache, s.p, s.ids) ELSE PutTerminal(cache, p, s.ids, s.t)
    IN  /\ s.pc \in {"ids", "term"}
        /\ cache' = new
        /\ gaps' = gaps \cup Orphaned(cache, new)
        /\ res' = [res EXCEPT ![r] = NoResolve]
        /\ UNCHANGED <<rows, txn, op, left>>

-----------------------------------------------------------------------------
TxnInit ==
    /\ rows = InitRows
    /\ txn = [t \in Txns |-> NewTxn]
    /\ op = [o \in Ops |-> NoOp]
    /\ res = [r \in Resolvers |-> NoResolve]
    /\ cache = EmptyCache
    /\ gaps = {}
    /\ left \in Budgets

Closing(t) == CommitDo(t) \/ CommitFinish(t) \/ RollbackDo(t) \/ CleanDo(t)
Running(o) == OpEnter(o) \/ OpWrite(o) \/ OpNote(o)

TxnNext ==
    \/ \E t \in Txns :
         \/ Begin(t) \/ MarkClosing(t, "commit") \/ MarkClosing(t, "rollback")
         \/ GiveUpWaiting(t) \/ Closing(t) \/ CommitFails(t)
         \/ GoIdle(t) \/ CleanTake(t)
    \/ \E o \in Ops, t \in Txns \cup {AutoCommit}, e \in CacheEdges :
         \E v \in Targets[e] : OpFetch(o, t, e, v)
    \/ \E o \in Ops : Running(o)
    \/ \E r \in Resolvers, p \in ResolvePaths : ResolveCached(r, p)
    \/ \E r \in Resolvers : ResolveStep(r) \/ ResolvePut(r)

\* The pool runs what is queued, commit and rollback finish once begun, time
\* passes and the cleanup task runs; callers may stop for ever.
TxnFairness ==
    /\ \A t \in Txns : WF_tvars(Closing(t)) /\ WF_tvars(GoIdle(t)) /\ WF_tvars(CleanTake(t))
    /\ \A o \in Ops : WF_tvars(Running(o))

TxnSpec == TxnInit /\ [][TxnNext]_tvars /\ TxnFairness

-----------------------------------------------------------------------------
(* Properties.                                                              *)

\* Entries, operations and the in-flight counter keep their types.
TxnTypeOK ==
    /\ \A t \in Txns :
         /\ txn[t].conn \in {"none", "tx", "auto"}
         /\ txn[t].by \in {"-", "commit", "rollback", "invalidate"}
         /\ txn[t].fly \in 0 .. Cardinality(Ops)
         /\ txn[t].touched \subseteq CacheEdges
    /\ \A o \in Ops : op[o].pc \in {"free", "queued", "entered", "written"}
    /\ gaps \subseteq CacheEdges

\* While a transaction is open nobody else changes a row, not even an
\* operation whose own transaction ended under it: what it commits is laid
\* over the rows it began with (BEGIN IMMEDIATE in open_txn_connection).
Isolated == \A t \in Txns : txn[t].conn = "tx" => rows = txn[t].base

\* entry_count, the LRU map and the trie of the path cache agree.
CacheConsistent == LruMatchesTrie(cache)

\* A cached path was resolved through edge e, which led to v.
Believed(p, e, v) ==
    LET c == cache.val[p]
    IN  /\ c # NoValue
        /\ \E k \in 1 .. Len(p) :
              /\ e = <<c.via[k], p[k]>>
              /\ v = IF k < Len(c.via) THEN ToInode(c.via[k + 1]) ELSE c.t

\* A cached answer that the rows contradict is about to be invalidated by the
\* commit or the write that contradicted it, unless a resolve that had read
\* the edge was under way at that moment, the write came from an operation that outlived its
\* transaction, or an eviction had dropped the edge from the index.
CacheFresh ==
    \A p \in CachePaths, e \in CacheEdges :
        \A v \in {ToInode(i) : i \in CacheInodes} \cup {ToObj} :
            Believed(p, e, v) /\ rows[e] # v =>
                \/ e \in gaps
                \/ \E t \in Txns : txn[t].by = "invalidate" /\ e \in txn[t].touched
                \/ \E o \in Ops : op[o].pc = "written" /\ op[o].t = AutoCommit /\ op[o].e = e

\* A transaction does not keep the write lock for ever, whatever its caller
\* does and however its commit fails (start_cleanup_task).
LockFreed == \A t \in Txns : txn[t].conn = "tx" ~> txn[t].conn # "tx"

\* The bookkeeping of transactions and of the path cache: the in-flight counter
\* counts operations, and entry_count, the LRU map and the trie agree through
\* fills, hits, evictions and invalidations.
BooksKept == TxnTypeOK /\ CacheConsistent
=============================================================================
