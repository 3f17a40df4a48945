# A verification project for cyfs-ndn

TLA+ models of the core of cyfs-ndn (`src/src/`), the TLC runs that check them
on small instances, and TLAPS proofs of their main invariants for every
instance. `PROJECT.json` lists components, runs, mutants, the map from
definitions to source lines, findings, hazards and theorems; this file explains
them.

    tlc -workers 2 -config gc_roots.cfg MCNamedStoreGC     # one run
    tlapm RootsProofs.tla                                  # one proof module

## 1. The system

cyfs-ndn stores named data: content-addressed chunks and objects, and a mutable
file system on top of them.

| Component | State | Operations | Talks to |
|---|---|---|---|
| Store database (`named_store/src/store_db.rs`) | SQLite tables `objects` (with the GC columns `state`, `eviction_class`, `children_expanded`, `fs_anchor_count`), `chunk_items`, `pins`, `fs_anchors`, `incoming_refs`, `edge_outbox` | one transaction per call: put, remove, pin/unpin, anchor acquire/release, apply_edge, try_evict_object | called by NamedStore and by the sender |
| Garbage collection (`named_store.rs`, `outbox_sender.rs`) | batch fetched from the outbox, candidate list of a round | deliver, complete, retry with backoff; list, evict; expire pins; await_cascade_idle | databases of other buckets, locally or over HTTP |
| Chunk backend (`backend.rs`, `local_fs_backend.rs`) | final and temporary files | open_chunk_writer, remove_chunk, get_chunk_state | file system |
| Chunk operations (`named_store.rs`) | rows of `chunk_items` | put_chunk(_by_reader), remove_chunk, links, same-as | backend, then database |
| Named store manager, layout (`ndm.rs`, `store_layout.rs`) | layout versions with their Maglev tables, registered stores, cache of inner paths | select a store by the newest layout, try older ones on a miss, remove from all, check that a tree is stored, resolve inner paths | stores |
| fs_meta tree and sessions (`fs_meta_service.rs`) | `nodes` (state, write lease, revision, `ref_by`), `dentries`, object statistics | resolve, create, delete, move, link, open/close for writing, publish directories, lease reclaim | buffers, store, caches |
| fs_meta transactions and path cache (`fs_meta_service.rs`, `path_resolve_cache.rs`) | open transactions, each with a connection and a counter of operations in flight; trie, LRU map and edge index of resolved paths | begin, commit, rollback, idle cleanup; fill, hit, evict, invalidate an edge | SQLite, tree operations |
| fs_meta client (`fsmeta_client.rs`) | none | the walk that creates or materializes directories, the checks before a move | fs_meta by RPC |
| Local file buffer (`fs_buffer`) | records of `file_buffer.db`, diff files | alloc, append, flush, close, `cacl_name` (hash and publish), `finalize` (move into the store) | fs_meta by RPC, named store |
| Named file manager (`cyfs/src/named_file_mgr.rs`) | open writers and readers | read, write, flush, publish_dir | fs_meta, buffers, `diff_chunk_list.rs` |
| Diff chunk list, chunk list reader (`diff_chunk_list.rs`, `chunk_list_reader.rs`) | sizes, dirty chunks, position; diff file and saved state | seek, write, close, reopen, finalize; read across chunks | buffers, store |
| Zone gateway (`ndm_zone_gateway.rs`) | upload sessions, key index, LRU, quota, temporary files | create, PATCH, expire, invalidate; the store RPCs | named store manager |
| Node gateway and its client (`ndm_node_gateway.rs`, `ndn-toolkit/src/ndm_client.rs`) | calls and streamed bodies | RPCs, reads, pieces, writes | named store manager |
| ndn client (`ndn-toolkit/src/cyfs_ndn_client.rs`) | the local file, links | pull a file, a chunk or a chunk list into the store or a file | peers, named store |
| Directory server (`ndn-toolkit/src/cyfs_ndn_dir_server.rs`) | sidecars beside the files, local links | scan, hash, register, store and remove; answer by path and by id | file system, named store |
| Store gateway, HTTP backend, GC client (`store_http_gateway.rs`, `http_backend.rs`, `http_gc_client.rs`) | whether the GC plane is enabled | HEAD, GET, PUT and DELETE of chunks, the GC calls | named store manager of another machine |
| FUSE daemon, ndn-lib, package-lib | connections, object formats | framing, conversion, file I/O | all of the above |

What is hard in it, and where it bites (with lines: `hazards` in
`PROJECT.json`):

* **Lists kept across await points.** `gc_round` works through candidates and
  the sender through a batch that were read in earlier transactions.
* **Messages between databases.** Edges of an anchored tree travel through an
  outbox with retries; answers are lost, entries overtake each other, the
  process crashes between delivery and bookkeeping.
* **Cached columns.** `fs_anchor_count`, `eviction_class` and
  `children_expanded` summarise other tables and are kept up to date by a dozen
  transactions, in any order of content, pins, anchors and edges.
* **Two stores without a common transaction.** A chunk is a file and a row; a
  buffer is allocated inside a metadata transaction that may roll back.
* **Leases and late writers.** A lease expires under a live writer, a closed
  file is reopened while it is being hashed, a reclaimed file is resumed.
* **Compare-and-set with a state read too late.**
* **Operations that outlive their transaction.** An operation of fs_meta finds
  its transaction, waits for a thread and counts itself in flight only then; a
  rollback or the cleanup may come in between.
* **Caches filled from reads.** A path is resolved, its edge is invalidated, and
  the old answer is put into the cache afterwards.
* **Checks in the client.** The cycle check of a move compares path strings
  before the transaction that moves.
* **Locks given up and taken again.** A PATCH of an upload takes the state three
  times and waits for its body in between; the manager selects a store under its
  locks and calls it after releasing them, while layouts change.
* **Files that change under the server.** The directory server hashes, links,
  stores and removes files that users edit, and its sidecars are written in
  place.

What makes the components correct: nothing a root reaches is collected and
nothing else is kept for ever; a reference is never lost or invented by the
network; a visible chunk is complete and verified; an acknowledged put can be
read; a file always has its data, in its buffer or in the store; leases lapse;
names and `ref_by` tell the same story and the tree stays a tree; transactions
are isolated and the cache is not stale; chunks over a base are a flat file; a
client is told the truth by a gateway; an upload is complete only with its
bytes; what is published is stored.

## 2. The modules

    NamedStoreDB          tables and transactions of a store
      NamedStoreGC        + clients, outbox senders, eviction rounds, crashes
        MCNamedStoreGC    instances, fairness
        NamedStoreGCProofs -> RootsProofs
    ChunkCalls            the calls of a chunk backend
      ChunkContract       what NamedDataStoreBackend promises (abstract)
        ChunkStore        NamedStore's chunk calls over any such backend
      LocalFsBackend      the file system backend; implements ChunkContract
        LocalFsBackendProofs
    FileSession           one file: nodes row, lease, buffers, stager, store
      MCFileSession       FileSession | LocalFsBackend
    FsMetaTree            nodes, dentries, the client's walk, publish_dir
      MCFsMetaTree, FsMetaTreeProofs
    PathResolveCache      trie, LRU map and edge index (operators)
      FsMetaTxn           transactions, operations, resolves, the cache
        MCFsMetaTxn
    FileSessionProofs     FileSession | FsMetaTxn
    ChunkListReader       sizes, seeks and polls of a chunk list (operators)
      DiffChunkList       writer, diff file, reader, against a flat file
        MCDiffChunkList
    StoreLayout           the Maglev table (operators)
      DataMgr             the manager over several stores
    NdmProxy              the gateways' RPCs and streams, and NdmClient
      HttpStore           + the store gateway, the HTTP backend and GC client
    ZoneUpload            upload sessions of the zone gateway
    GatewayProofs         HttpStore | ZoneUpload
    NdnPull               CyfsNdnClient
    DirServer             NdnDirServer
    ChunkStoreProofs      ChunkStore | DataMgr
    ToolkitProofs         NdnPull | DirServer
    MCStores              ChunkStore | DataMgr
    MCGateways            HttpStore | ZoneUpload | FileSession
    MCToolkit             NdnPull | DirServer

Four MC modules (MCFileSession and the last three) put components that share no
state side by side (the proof modules of two components treat one after the
other). A variable
`part`, chosen in the initial state, names the one that moves; the others rest.
Every component is thus explored by itself, and a fairness condition of one is
guarded by its part.

### NamedStoreDB and NamedStoreGC

The connection of a store sits behind a mutex and each call is one SQLite
transaction, so a call is one action. A transaction touches rows of one bucket,
so the tables of all buckets are functions of the object; the outbox is per
bucket. `wiped`, `torn` and `overtaken` are history variables that name the
cases the invariants leave out: objects deleted by the explicit removals that
bypass the GC columns, objects evicted while expanded, and pairs whose edges
were applied out of order.

`Reconcile` is `reconcile_expand_state_tx`: it recomputes `children_expanded`
and files one outbox row per child on every change. `Fetch`, `Deliver`,
`Complete` and `Retry` are the loop of `OutboxSender`; `DeliverLostAck`,
`DeliverFail`, `BookkeepingFails` and `Crash` its faults. `GcList`, `GcEvict`
and `GcStop` are `gc_round`. Time is reduced to what the code compares: a pin or
an entry is past its time or not. `Tree`, what the roots ask to keep, is the least
set that holds them and is closed under the children a cascade reaches.

### ChunkContract, LocalFsBackend, ChunkStore

`ChunkContract` states the rules in the comments of `backend.rs`: two visible
states, every call takes effect at one instant, a failed call changes nothing.
`LocalFsBackend` has one action per await point of `open_chunk_writer` and
`remove_chunk` and is shown to implement it, with `visible` mapped to the chunks
whose final file is good. Every exit of a write is there: the ones that call
`cleanup_tmp`, which may fail (`unclean`), and the one after the temporary file was
made that does not call it, for a chunk whose type has no hasher (`Hashable`).
`ChunkStore` uses only the contract and adds the row:
backend call first, transaction second, with errors and restarts in between.

### FileSession

One file from the first open to the published object. Handlers of fs_meta run
under `BEGIN IMMEDIATE`, so open and close are one step each; the lease release
after a close, `reclaim_expired_write_leases`, a writer's flush and every await
point of `cacl_name`/`finalize` interleave with them. `row` has the columns of
`nodes`, not a tidy state: `ParsedState` is `parse_node_state`, `StateMatches`
the WHERE clause of `handle_update_inode_state`, and the two disagree when a
column is left over from another state. Content is a pair (buffer, number of
flush); the number stands for the size, so that contents above `DirectLimit`
take the link path of `cacl_name`. All sessions of a file carry the same name
(`<instance>:<inode>`), so a lease that has not expired is renewed, not refused.

Nothing in the repository calls `cacl_name` or `finalize` yet. `MayStage` is
therefore external: `cacl_name` for a file found Cooling, `finalize` for a
buffer marked linked, as the design documents have it.

### FsMetaTree

Every transaction of fs_meta begins with BEGIN IMMEDIATE, so the statements of
one transaction are one step, written as operators from database to database
(`CreateDentry`, `ReplaceTarget`, `DeleteDentry`, ...) that fail without effect.
What is read outside a transaction is a step of its own: each component of a
client's walk, the plan of a move, the revision a delete expects; what was read
stays in the client's record `cl[c]` until it is used. `Lookup` combines upper
dentries with a DirObject below them, as a walk does; the listing of a directory
is left out (section 5).
SQLite gives a new row the id after the largest in use, so the id of a deleted
inode can come back (`NextInode`); that nothing still names it is part of what is
proved. Objects are their content. Links point to a path that never exists, and no
directory is read-only: nothing outside the tests sets the flag.

### FsMetaTxn and PathResolveCache

An operation looks its transaction up, is queued on the blocking pool, counts
itself in flight, writes and then notes the edge it touched; each is a step,
and commit, rollback, a dropped guard, a failing COMMIT and the idle cleanup
come in between. A connection in autocommit mode after its transaction ended is
a state of its own (`conn = "auto"`). `resolve_path` reads one edge per step and
fills the cache at the end. The cache keeps what the code keeps: trie values,
the deepest inode of a subtree, the edge index, the entry ids, the LRU map from
ids to paths and a counter. A set of edges is invalidated at once: what the code
removes edge by edge does not depend on the order.
`gaps` is a history variable with the edges whose invalidation the cache can
have missed; it is what `CacheFresh` leaves out, and section 5 lists the cases.

### ChunkListReader and DiffChunkList

The sizes of chunks, the binary search for a position, seeks and polls are
operators that both readers share. The writer grows the last chunk, copies a
base chunk before it writes into it, and closes by writing a new diff file over
the old one and a state after it. `ref` is the same file as a flat sequence of
bytes, updated by the same writes and seeks. A reader is opened with the chunk
sizes of a saved state or of the chunks' ids, or with those that
`resolve_diff_chunk_sizes` infers from the base and the fixed size
(`InferredSizes`; `Inferable` is where it does not return Unsupported). A base chunk that the store cannot
open, a crash between file and state, and a file cut short are faults.

### StoreLayout and DataMgr

Each store is a set of objects and of holds. A call selects its store under the
manager's locks (`Select`) and reaches it later (`Land`), so layouts, registered
stores and their health may have changed. `Get`, `Query`, `Reached`, `Full` are
the loops over layouts from the newest to the oldest. A store that fails has, to
all of them, not the object: `open_chunk_reader` of the manager passes errors over
and `query_chunk_state` of the store turns them into NotExist. A chunk that is the
same as a list has a row (`Row`) and is refused by `open_chunk_reader` (`Hit`).
Inner paths are resolved and their keys put into the cache in two
steps. `wrote` and `gone` are history.

### NdmProxy

The manager is one chunk of `ChunkSize` units, its row (`item`, with every state of
a chunk) and its file (`blob`), and one record that the garbage collection calls
write. Every call may fail, and may have done part of its work; a forced collection
evicts the chunk; `add_chunk_by_same_as` replaces the row. `have_chunk` of the
manager and of the client take every error for a no. States and outcomes are
decoded from the fields of the answer. A request is taken, done and answered in separate steps;
the connection may break before or after it is done; a body is filled by a task
through a pipe and may end early. `via` is the gateway a call goes through: the
zone gateway serves the same RPCs with its own table of error codes and without
the restriction on GC calls. HttpStore adds the store gateway in front of a
manager on another machine, with its backend and GC client: HEAD looks twice, at
presence and then at size; an answer to HEAD has no body that could name an
error; the error codes differ from the other gateways'; the GC plane may be
disabled. Calls of all three gateways meet at the one chunk.

### ZoneUpload

A PATCH looks at its session twice under the read lock, waits for its body and
then takes the write lock; file append, completion and book-keeping are part of
that last step, with their failures. A client may send more than its chunk has
room for. `Drop` is the common part of eviction, expiry and invalidation; a
temporary file may resist its removal, which is only logged (`unclean`), or not be
created. Chunks leave the store by calls of the same gateway (`RemoveStored`).
`torn` and `lost` are history of a session: an append failed part of the way; its
chunk has been removed since. `updated_at` is modelled by the order it gives (`older`),
the bytes of a set of sessions by counting them. A restart forgets the sessions
and leaves the files.

### NdnPull and DirServer

A pull asks for the object, checks the answer's headers, then fetches one chunk
per step into the store or the file, links last. An answer is the object asked for
or, as NdnDirServer gives it to a path of a file, the content with the file inlined
as `parents-0`. The peer publishes anew, old object ids come from caches, bodies
arrive damaged or stop. The store has one row per chunk (`linked`): a link replaces
what was there, and storing a chunk whose file is there already leaves its row.

The directory server's scanner has one step per await point between looking at a
file and removing it; users edit, create, delete and replace files and templates
between any two of them; `policy` chooses between linking files and taking them
over. A file is read in two steps, open and the rest, and a reader may get the old
content, the new one or a mixture (`Mix`). A request finds its sidecar, checks the
link, opens the file and sends the body in separate steps. An entry that fails is
passed over; a listing that fails ends the pass. The store's collector evicts
chunks and objects, since nothing pins them.

## 3. The runs

| Run | Module | Shows |
|---|---|---|
| `gc_roots` | MCNamedStoreGC | With pins of every scope and lifetime, anchors, removals, stale eviction rounds and pin expiry, the GC columns agree with the tables (`RootsInv`), expansion is what the roots ask for and no cascade stays pending over content (`CascadesExact`). |
| `gc_delivery` | MCNamedStoreGC | Over a chain in two buckets with lost answers, failures and crashes: the edge ledger holds, eviction deletes no held row, the outboxes drain. |
| `gc_dag` | MCNamedStoreGC | Over a DAG with shared children and skeleton pins: once settled, exactly the trees below the roots are protected. |
| `file_session` | MCFileSession | Writers, reclaimer and stager on one file: data never disappears from under the row, and nothing is published before it is stored. The invariant checked is the inductive one of the proof. Beside it the file system backend implements its contract. |
| `meta_tree` | MCFsMetaTree | Two clients, one of which moves: `ref_by`, dentries and object statistics agree, no directory is below itself, a move commits only over the directories it planned with. |
| `meta_move_cycle` (violated) | MCFsMetaTree | Two movers detach a cycle of directories. |
| `meta_txn` | MCFsMetaTxn | Transactions stay isolated although operations outlive them, the cache's own records agree, a cached answer is stale only in the named cases, the write lock is always freed. |
| `diff_list` | MCDiffChunkList | The writer over chunks is a flat file, a state that is accepted after a crash gives the bytes before or after the close, readers deliver those bytes. |
| `stores` | MCStores | A Completed row has its blob and an acknowledged put its row; above the stores, what was put is found while its layout is kept, what was removed stays away, "stored" means all of it, layouts and cache keep their order. |
| `gateways` | MCGateways | Clients are told the truth and every call ends; uploads complete only with the client's bytes, their books agree and stuck sessions go away; write leases lapse. |
| `toolkit` | MCToolkit | A pull that ends well left what was signed and asked for; the directory server sends wrong bytes only in the named cases, publishes and removes only what was stored, and brings sidecars up to date. |
| `upload_panic` (violated) | MCGateways | A PATCH runs into `unreachable!()`. |

`RootsInv`, `CascadesExact`, `SessionInv`, `RecordsAgree`, `BooksKept`,
`WriterSound`, `MgrInv`, `RemoteTrue`, `UploadBooks`, `BackendInv`,
`PulledExact` and `SourcesKept` are conjunctions of invariants that have names
and comments of their own.

Every property of a passing run has a mutant: a plausible bug in a mapped
definition (a dropped guard, a wrong order, a missing reset) under which TLC
finds the property violated. The mutants stand beside the definition they
change.

**Bounds.** `MaxOps` bounds the client calls and `MaxFaults` the failures of a
GC run; senders, rounds and clocks are unbounded. Four calls put, anchor, release
and anchor again, or pin in two scopes and release one; two faults lose an
answer and then crash, which is what it takes to have a duplicate behind an
unknown outcome. Two owners and two tags make a counter larger than one and
roots that overlap. The DAG has a shared inner node and a leaf at two depths;
the chain alternates buckets so that a delivery creates entries in the other
outbox. In `file_session` three callers of the backend give two racing writers and
a remover, of a chunk that can be hashed and one that cannot. `ChunkStore` has no bounds besides its sets. In
`file_session` `MaxTime`, `MaxFlush`, `MaxSeq` and two handles give a second
session after an expired lease, a flush on either side of `DirectLimit`, and a
stager whose buffer is no longer the row's; two clients give the late writer.
Opens are taken only while the lease they get ends within `MaxTime`, so every
lease is seen to expire.

`meta_tree` starts from /a/a and /b/b, or from /a over a DirObject beside a file
being written, with six inodes, one of them free; three operations are a walk
that creates, a change below it and a move across both. `meta_txn` picks one of
four budgets, because transactions, operations and resolves multiply: two
transactions and an operation, one and two, a write among four resolves (a fill,
an eviction, a hit and a stale fill), one of each with two resolves; two cache
entries are one less than the paths, so the LRU evicts. `diff_list` has an empty
base, one chunk, and two chunks of unequal lengths either way, writes of up to
three bytes, so that a write spans two chunks and a partial third, and four
calls of writer and reader each: write, close, reopen, write. `stores` has two
stores, a table of five slots, so that a weight does not divide it, five objects
(a chunk, a list, a big chunk, a file, a directory), two layouts kept and four
operations: put, change, change again, look. In `gateways` two calls share a
chunk of two units through a buffer of one, with one broken connection or failing
read; the initial rows leave out `same_as`, which a call reaches, and `new` and
`disabled`, which are treated like a `same_as` without its list. Three uploads, a chunk with and without its
name and an empty one, share a path or a file, with two sessions, a quota of two
bytes, two PATCHes that race or repeat each other and one failure; leases have
three instants. In `toolkit` two pulls and two mishaps
give a second pull over the remains of a failed one; two edits and one fault put
an edit on either side of every step of the scanner and of a request; contents `x`
and `z` have the same quick hash and `s` is too short for one; users write `x`, `y`
and `s`, and `z` is what the tree holds at the start and what a reader gets of a
file that changes between `x` and `y`.

Deadlock is not checked where a bound on calls or the end of the clock stops the
behaviour.

**Fairness.** `gc_delivery` assumes that the sender, once spawned, keeps taking
steps and that the clock reaches every `next_try_at`; nothing of clients and
rounds, and faults are finitely many. `meta_txn` assumes that the blocking pool runs what is queued, that a commit or
rollback finishes once begun, and that the cleanup task,
an interval timer of the service, runs while idle times pass; nothing of
the callers, who may vanish. `gateways` assumes that a started call's tasks take
steps (they run on the executor, and a broken connection ends them), that
sessions age and the timer task that expires them runs, that the clock of the
leases ticks and the reclaimer runs; nothing of clients who send PATCHes or hold
leases. Its lease part has no stagers, whose steps do not touch the lease
columns. `toolkit` assumes that the scanner task runs; edits and faults are
finitely many.

## 4. The proofs

All theorems hold for every value of the constants under the named assumptions,
which the runs evaluate on their instances:

* `DBAssumption`, `BatchAssumption`: child and home are functions, inodes and
  tags finite, batch size positive. `AcyclicAssumption`: of any objects one is a
  child of none of them; an id is the hash of the object, which names its children.
* `FileSessionAssumption`: the time to live is positive, bounds are natural
  numbers, `None` is no value.
* `TxnAssumption`: the calls in progress are finitely many, the rows at start and
  the targets written are dentries, "autocommit" is no transaction, the paths
  resolved are paths of the cache. `CacheAssumption`: the cache has room for an
  entry (the service makes it with the default of 10000).
* `TreeAssumption`, `InitAssumption`: names are finitely many, paths are not
  empty, and a tree at start has `ref_by` and dentries that agree, blank free
  rows, entries in directories only, a path for every inode and no counted file
  objects yet.
* `MgrAssumption`, `HandledAssumption`: at least one layout is kept
  (`max_versions.max(1)`); what is held or removed is an object. `GraphAssumption`:
  what kinds of object name each other; directories are one deep.
* `ProxyAssumption`: the copy buffer is not empty. `UploadAssumption`: a chunk to
  upload is a sequence of bytes.
* `PullAssumption`: object ids carry their kind, so a file, a chunk list and a
  chunk never have the same id. `DirAssumption`: the directory entry is not one
  of the plain files, and a file that did not change is read as it is.
* `HashableAssumption`: the chunks that can be hashed are chunks.

The arguments:

* **Types** (`NamedStoreGCProofs`). The interest is `anchorCount \in [Obj ->
  Nat]`: the clamp of `fs_release` is needed after explicit removals.
* **Edge ledger** (`NamedStoreGCProofs`). `EdgeLedger` says that an edge at the
  child agrees with `children_expanded` at the parent or the newest outbox row
  of the pair will make it agree. It is not inductive: completing a row must not
  lose the newest information, so `LedgerInv` adds that what the sender holds is
  in the outbox, that an acknowledged entry is in effect and the oldest of its
  pair, that sequence numbers are fresh, and that only stored objects are
  expanded.
* **Roots** (`RootsProofs`). `RootsInv` joins the three column invariants and is
  inductive with them; an
  explicit cardinality argument shows that `fs_release_inode` subtracts what it
  deletes. With the ledger it gives `QuietProtected`, and with the re-check of
  `try_evict_object` the action property `NeverEvictHeld`. `CascadesExact` takes
  a second invariant, `CascadesInv`, one row per object: the promotion of a put
  turns waiting anchors and pins into active ones, which is exact only because
  every waiting anchor is an anchor and only recursive pins wait; `LedgerInv`
  supplies that what is expanded is stored.
* **Trees of the roots** (`RootsProofs`). No induction over the depth is needed,
  since `Tree` is a least set. For `TreeProtected`: once settled, an object is
  expanded exactly when a root or an edge asks for it (`CascadesExact`) and the
  edges are those of the expanded objects (`EdgeLedger`), so the objects that are
  held are a closed set, and `Tree` is inside it. For `NoLeak`: if some expanded
  object were outside `Tree`, one of these would be a child of none of them
  (`AcyclicAssumption`), so no edge could have asked for it.
* **Refinement** (`LocalFsBackendProofs`). `BackendInv` (only verified files are
  final, what is about to be renamed passed the hash, a call has its kind of job
  and is cleaned up once, at its end) gives `TmpCleaned`: the exits that leave a
  temporary file are the one without a hasher and a failed removal. It makes every step of `LocalFsBackend` a step or a stutter of `ChunkContract`:
  rename, unlink and the two existence checks are where calls take effect.
* **Chunk rows** (`ChunkStoreProofs`). `StoreInv` adds that a file which was
  written is still visible when its row is, and that every visible chunk is
  recorded, about to be, or interrupted.
* **File sessions** (`FileSessionProofs`). `SessionInv` adds to `BufferAlive`
  and `PublishedStored` what a call in progress relies on (`CallsInOrder`): the
  content between put and publish is in the store, small contents are never
  links, and when the diff file is about to go the row has left that buffer. The
  last part holds because no operation brings a row back to a buffer it left:
  open allocates a fresh handle and ContinueWrite keeps the row's own.
* **Transactions** (`FileSessionProofs`). `Isolated` needs that at most one
  connection is in a transaction (`OneWriter`), which BEGIN IMMEDIATE gives, and
  that a statement on a connection whose transaction has ended runs only while
  nobody is open. `FlyExact` counts the operations between
  `InFlightGuard::enter` and the end of their statement; with `NotBegun` (no
  operation belongs to a transaction that was not begun) it shows that the
  counter commit and cleanup wait for is exact and never goes below zero.
* **Path cache** (`FileSessionProofs`). `BooksKept` rests on `CacheInv`: entry ids
  are below the next one, ids and LRU map are inverse, and a node has an id exactly
  when it has a value. One lemma per operation of the trie shows that it keeps
  them, with the cardinality argument that `saturating_sub` never saturates and
  that the eviction before an insert makes room for it. A resolve in flight
  (`ResolveOK`) fills the cache with as many ids as its path has names.
* **Directory tree** (`FsMetaTreeProofs`). `TreeInv` has three parts. `Sound`:
  `ref_by` and the dentries name each other, free rows are blank, no directory
  has an entry for itself. `StatCovers`: `obj_stat` covers every entry for a file
  object. `CallsOK`: what a client read between its transactions still holds or
  the revisions tell. The last rests on one fact about every operator on the
  database (`Grown`): a directory whose entries change has a larger revision
  afterwards. It gives `MoveSeesItsPlan` for any number of clients and moves.
* **No cycles** (`FsMetaTreeProofs`). `AcyclicHolds` has the hypothesis `OneMover`:
  with two the property is false (`meta_move_cycle`). `PathInv` says that every
  inode has a path that its dentry extends, and that a move in flight stands where
  its strings say (`MoverAt`), from the walk to the commit. Other clients give new
  inodes new paths and take names away, which changes no path a move relies on;
  only a move gives paths to inodes that have one, and the one mover is then done.
  The client's comparison of strings is thus a comparison of places in the tree,
  and the shortest path in a set of inodes shows that the set is no circle.
* **Manager** (`ChunkStoreProofs`). `RouteInv`: a call goes to the store that the
  layout it read selects, however late it lands; a recorded put is still in that
  store; for a removed object no layout leads to a copy. With a least-number
  argument for "the first layout that has it" this gives `Found` and `GoneStays`.
  `StoredMeansAll` follows the recursion of `is_object_fully_stored` kind by kind:
  an answer "yes" of each helper means that what it looked at can be read, and an
  answer other than "yes" that something cannot, a failing store having nothing;
  `LayoutsOrdered` shows that inserting by epoch keeps the descending order.
* **Gateways** (`GatewayProofs`). `ProxyInv` states, for the stage each call is
  in, how what has been sent relates to what has been received (`CallOK`): bytes in
  the pipe continue those that were read, a size told in a header is the chunk's, a
  confirmed write has its bytes or its row and a "written" one both, a yes of
  `have_chunk` has its row, all unless the chunk was removed or replaced since;
  `WritesOK` bounds the answers "written" by the removals of the bytes. It implies all of `RemoteTrue`.
* **Uploads** (`GatewayProofs`). `UploadBooks` is inductive with `UploadInv`: an
  open session has its temporary file, a finished one its full offset
  (`SessionsOK`), a PATCH stays within its chunk although its session may be gone
  or replaced (`PatchesOK`), and keys and sessions are inverse (`KeysOK`). The quota
  is a statement about cardinalities: the bytes of open sessions are a finite set
  of pairs, of which eviction, expiry and completion remove their part, and
  `saturating_sub` takes away no less than that part is charged. `CompleteExact` adds
  `FilesOK`: the temporary file of an upload that was never torn is the prefix of
  the chunk as long as the offset, which the look at the offset under the write lock
  keeps. What is then reported is the client's chunk; a torn upload with a name is
  too, since the store verifies it. A torn one without a name may come to equal
  another chunk, which the property excepts, and then it names that one, which the
  store has. Removals mark the sessions that report the chunk (`lost`).
* **Pulls** (`ToolkitProofs`). `PullInv` follows one pull through its stages: what
  was verified is what the object names (`AboutOK`), whose file is the signed one
  unless it came inlined (`SignedOK`), and what is on disk, in the store or in the
  rows is the verified prefix (`LeftOK`). A chunk that occurs twice in a list is
  linked to the later of its units, which holds it as well (`LinkedTo`).
  `PulledExact` and `SignedWins` follow.
* **Directory server** (`ToolkitProofs`). `DirInv`: a row that links to a file has
  the quick hash of its content or is `torn` (`LinksOK`), the scanner holds what it
  stored (`ScanOK`), a readable sidecar names an object that was stored with all
  its chunks and has lost them to the collector only (`SideOK`), and nothing hashed
  is lost. `AskOK` follows a request: until an edit is noticed the file in its hand
  is the one that passed the check (`SendOK`). It implies `ServedTrue` and
  `SourcesKept`.

Only model-checked:

* Liveness (`OutboxDrains`, `LeaseLapses`, `LockFreed`, `CallEnds`, `StuckClears`,
  `Settles`), which the prover does not do under fairness.
* `WriterSound`, `ReopenSafe` and `ReaderExact`: offsets are sums over lists of
  chunks of any length, and what a recursive definition computes needs an
  induction over data.
* `MgrInv`: that the slots of a Maglev table are spread by weight counts the
  turns of a recursive function, and a resolution puts a list of keys into the
  cache by another. The part about layouts is `LayoutsOrdered`.
* `CacheFresh`: the edge index keeps one path per edge, so a proof would have to
  follow, for every cached path, which of the paths through an edge was put last.

## 5. Findings

With a run (`PROJECT.json` quotes the lines):

* `meta_move_cycle`: two moves in opposite directions pass the client's check of
  path strings and the service's check of revisions, and each directory ends
  below the other.
* `upload_panic`: a PATCH whose upload is completed between its two looks meets
  `unreachable!()`.

Met while modelling, without a run of their own. Garbage collection and chunks:

* Per-entry backoff lets a later edge of a pair overtake an earlier one
  (`outbox_sender.rs:169`, against `doc/GC/named_store_gc.md:563`). History
  variable `overtaken`.
* After a crash between file and row every retry of a chunk put is acknowledged
  and nothing can be read (`named_store.rs:415`, against
  `doc/GC/named_store_gc.md:858`). History variable `interrupted`.
* `try_evict_object` does not look at `children_expanded`
  (`store_db.rs:1261`): a recursive pin taken and expired between listing and
  eviction leaves its children referenced for ever, against
  `doc/GC/named_store_gc.md:750`. History variable `torn`.
* An anchored SameAs chunk does not cascade to its chunk list
  (`store_db.rs:782`, against `doc/GC/named_store_gc.md:930`): its row in
  `objects` never becomes present.
* After `remove_object` the anchor counter restarts at zero while anchors remain
  (`store_db.rs:597`, against `doc/GC/named_store_gc.md:1012`). This is why
  `AnchorCountExact` leaves `wiped` out and `AnchorCountBounded` does not.
* `remove_chunk` deletes the file first and the row second
  (`named_store.rs:336`, against `doc/GC/named_store_gc.md:860`), so a put in
  between is left as a row without a file.
* `open_chunk_writer` leaves its temporary file when the chunk's type has no hasher
  (`local_fs_backend.rs:396`): the `?` comes after the file was created and skips
  `cleanup_tmp`. A failing `cleanup_tmp` is logged only. `TmpCleaned` names both.
* `put_chunk_by_reader` leaves the row of a chunk alone when its file is there
  (`named_store.rs:409`): a chunk that was linked to a local file stays linked
  although the store has it. `StoreComplete` excepts these chunks (`had`).

Files:

* `finalize` of a file that `cacl_name` linked takes the links for stored chunks
  and deletes the only copy (`local_filebuffer.rs:671`).
* The stager's guard compares with a state read after its work
  (`local_filebuffer.rs:878`): a file reopened meanwhile is taken from its writer.
* A reclaimed file compares unequal with itself and cannot be resumed
  (`fs_meta_service.rs:462`).
* `handle_close_file_writer` releases the lease after its commit
  (`fs_meta_service.rs:4598`): a reopen in between has the same session name and
  number, loses its lease, and a crash then leaves a Working file that the
  reclaimer never looks at, although `doc/cyfs_v2.md:188` ties Working to an
  active lease.
* `do_finalize` marks the buffer finalized before the row is updated
  (`local_filebuffer.rs:945`): after a conflict every retry returns early.
* A reader of a diff chunk list that was opened before a later close reads the new
  diff file at the old offsets. `ReaderExact` leaves such readers out (`rd.stale`).
* `resolve_diff_chunk_sizes` infers sizes that were not saved from the base or the
  fixed size (`diff_chunk_list.rs:1527`): a base chunk that grew gets too small a
  size when another dirty chunk follows it, and an appended chunk before the last is
  Unsupported without a fixed size. The bytes a reader delivers are still the
  file's, since the diff file holds the chunks one after the other and the last one
  takes what is left; the boundaries between these chunks are not.

fs_meta:

* `publish_dir` drops symbolic links: the published object does not show them.
* A listing reads the dentries (`fs_meta_service.rs:1633`) and the object below them
  (`fs_meta_service.rs:1658`) without a lock. A directory published in between can
  miss names or bring deleted ones back. The listing is not modelled.
* An error path with `?` in a handler leaves the transaction open until the idle
  cleanup.
* Three ways in which the path cache stays stale, excused by `CacheFresh`: a
  resolve that had read the edge was under way at the invalidation
  (`fs_meta_service.rs:2462`); the write came from an operation that outlived its
  transaction (`fs_meta_service.rs:725`); an eviction dropped an edge that a
  deeper entry still depended on (`path_resolve_cache.rs:323`).

Manager and gateways:

* pin, unpin and anchors go to the store the newest layout selects
  (`ndm.rs:1210`): after a layout change an unpin misses its pin and a pin
  protects a store without the object.
* An inner path through a chunk list ends in `unimplemented!()` (`ndm.rs:1551`).
* The PATCH that completes a chunk subtracts bytes that were never added
  (`ndm_zone_gateway.rs:1189`): `bytes_in_use` is too low while other uploads run.
  `UsageNotLeaked` therefore states an upper bound only.
* Temporary files of uploads are orphaned by a restart, and by a removal that fails
  (`ndm_zone_gateway.rs:104`, logged only); `NoOrphanTemp` leaves both out.
* A finished session never leaves memory: an upload of a chunk that was removed from
  the store is answered "completed" from the old session. `CompleteExact` excuses it
  (`lost`).
* When an append fails half way and is repeated, the file of an upload without a
  name has other bytes than the client's. If they are those of a stored chunk,
  `put_chunk_by_reader` returns early (`local_fs_backend.rs:374`) and the gateway
  reports that chunk; otherwise the length check refuses it. `CompleteExact` excuses
  it (`torn`).
* `have_chunk` reads every error as no (`ndm_client.rs:176`, `ndm.rs:833`): a failing
  store, a broken connection and a missing chunk look the same. `YesTrue` is about
  the yes.
* The zone gateway reports a verification error with the code of an offset
  conflict and does not restrict the GC calls.
* HEAD of the store gateway answers "completed" with size zero for a chunk removed
  between its two looks (`store_http_gateway.rs:213`); `HeadTrue` excuses it.
* `map_http_error` (`http_backend.rs:487`) does not know the code `unsupported`: a
  deployment without GC plane looks like a remote failure to its callers.
  `StoreErrorKept` excepts it.
* `remove_chunk` of the manager passes over stores that fail (`ndm.rs:1104`) and
  reports success. `RemoveCall` may therefore leave the chunk in place.

Toolkit:

* `open_local_writer` does not truncate (`ndn-lib/src/lib.rs:250`): the tail of a
  longer old file stays; `FileExact` is about the pulled prefix.
* An answer that inlines a file of one chunk is taken for that file, which is
  compared neither with the signed target of the path nor with the object id
  (`cyfs_ndn_client.rs:997`, `1462`), against `doc/CYFS Protocol/CYFS
  Protocol.md:1617`. `SignedWins` leaves these answers out.
* NdnDirServer answers a path of a file whose content is a list with the bytes of
  the chunks, and the client asks for the list: a pull of such a file by its plain
  path fails.
* A file edited between its hash and its link is linked under the old id with the
  new quick hash (`cyfs_ndn_dir_server.rs:1218`); contents with equal quick hashes
  cannot be told apart; and a file edited between the check of its link
  (`named_store.rs:624`) and the end of the sending goes out under the wrong id.
  `ServedTrue` leaves these out, and evicted contents.
* The collector may evict the object or the chunks of a sidecar, and nothing restores
  them while the sidecar is current; between the put and the removal of the source
  this loses the file. `SidecarBacked` says what the store was given, `NothingLost`
  leaves evicted contents out.
* A file that is edited and edited back while it is hashed leaves a sidecar with the
  quick hash of one content and the object of the other, and the scanner takes it for
  current (history variable `raced`). A rewrite with the same size and time of a
  short file, or inside a marked directory, is never noticed: only plain files have a
  quick hash, and these `cyfs_tests.rs` tests. `Settles` leaves both out.
* A chunk the store already has is not linked again
  (`cyfs_ndn_dir_server.rs:1212`): when the first file changes, an identical
  second one is no longer served.
* A file edited or created between the put and the removal is deleted unstored
  (`cyfs_ndn_dir_server.rs:1024`), below the comment "Only now is it safe to
  delete the original". `NothingLost` is about what was hashed.
* Nothing pins what the server stored; a crash between sidecar and removal leaves
  the source; files too short for a quick hash are never linked.

## 6. What the models leave out

GC: the LRU order of candidates and sizes (`GcStop` may stop a round anywhere);
an edge applied by a remote bucket after the sender gave up the connection; the
several clock reads of a transaction; `put_object` with a chunk id; duplicate
references of one object to a child (sets).

Chunks: what becomes of temporary files left by a call or a crash, which have
unique names; verification of the external file of a local
link; the object files of the backend, which NamedStore does not use.

FsMetaTree: extended attributes, times, copies of subtrees, link resolution, the
listing of a directory; `resolve_path_ex` reads a dentry and its inode one after the
other (`fs_meta_service.rs:2401`, `2408`), one step here. FsMetaTxn: the content of
rows besides the target of a dentry. DiffChunkList: polls that return Pending.
DataMgr: object bodies, configuration files, remote stores, a store whose database
answers while its chunk files fail. NdmProxy and HttpStore: header formats, several
chunks, `put_object` and `remove_object`, whose objects are not kept, and the
observation queries of the GC plane. ZoneUpload: several applications, which share
nothing. NdnPull: signatures and URLs. DirServer: ranges, several layouts, resp=raw;
the template and its signature are read one after the other
(`cyfs_ndn_dir_server.rs:791`), one step here; a chunk file that the collector
cannot remove after its row; a request by object id is one whose sidecar was read
long ago.

FileSession: deletion of the file and the separate lease RPCs; `read_only` and
`append` of the buffer service; the capacity limit; a diff file cut short by a
crash; the overlay over a base chunk list, of which a file is one chunk here; a
file system failure during flush.

Not modelled at all, with reasons: the `not_modelled` components of
`PROJECT.json`.

## 7. Plan

Modelling: restart, capacity and append of the local file buffer; the task queue
of the background manager, once something calls it; version matching of the
package library as operators; the object handlers of the store gateway;
transactions over the full tree (FsMetaTxn with FsMetaTree's
rows); the listing of a directory as the several reads it is, against `publish_dir`.

Proofs: that one `CachePut` keeps the inner-path cache coherent, as a lemma below
`MgrInv`; `WriterSound` for lists of a fixed number of chunks; `StoredMeansAll` for
directories in directories, with a least set in place of the recursion, as `Tree`
has it.
