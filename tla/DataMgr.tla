------------------------------- MODULE DataMgr -------------------------------
(***************************************************************************)
(* NamedDataMgr: several named stores behind up to MaxVersions layouts.     *)
(* Writes go to the store the newest layout selects, reads try the layouts  *)
(* from the newest to the oldest.  Each store is what the other modules     *)
(* show a named store to be: a set of objects, and holds (pins and file     *)
(* system anchors) that keep an object from its garbage collection.         *)
(* Also the cache of resolved inner paths.                                  *)
(***************************************************************************)
EXTENDS StoreLayout, FiniteSetsExt, SequencesExt

CONSTANTS Stores, Objs,
          Kind(_),      \* "chunk", "list", "file", "dir"
          Refs(_),      \* objects an object names
          SameAs(_),    \* the chunk list a big chunk is made of, or "none"
          Embeds(_),    \* children a directory carries in itself
          Handled,      \* objects that are held, removed or evicted
          Holders,      \* owners of pins, inodes of anchors
          Paths,        \* inner paths, as the objects they lead through
          Configs,      \* target lists a layout is built from
          MaxVersions, MaxCache,
          MaxEpoch,     \* bound on epochs
          MaxMgrOps     \* bound on operations

ASSUME MgrAssumption == MaxVersions \in Nat \ {0} /\ MaxCache \in Nat /\ MaxEpoch \in Nat /\ MaxMgrOps \in Nat
ASSUME HandledAssumption == Handled \subseteq Objs

(***************************************************************************)
(* The graph, to a depth of four names: a directory embeds files            *)
(* (DirObject::add_file) and names files, lists and chunks; a file names    *)
(* its content, a list names chunks, and a big chunk is made of a list of   *)
(* chunks that are not big themselves.  A directory inside a directory      *)
(* (add_directory) is left out.                                             *)
(***************************************************************************)
ASSUME GraphAssumption ==
    \A o \in Objs :
        /\ Refs(o) \subseteq Objs /\ Embeds(o) \subseteq Refs(o)
        /\ Kind(o) \in {"chunk", "list", "file", "dir"}
        /\ Kind(o) = "chunk" => Refs(o) = {}
        /\ Kind(o) = "list" => \A c \in Refs(o) : Kind(c) = "chunk" /\ SameAs(c) = "none"
        /\ Kind(o) = "file" => \A c \in Refs(o) : Kind(c) \in {"chunk", "list"}
        /\ Kind(o) = "dir" => \A c \in Refs(o) : Kind(c) # "dir"
        /\ \A c \in Embeds(o) : Kind(o) = "dir" /\ Kind(c) = "file"
        /\ SameAs(o) # "none" => /\ Kind(o) = "chunk"
                                 /\ SameAs(o) \in Objs /\ Kind(SameAs(o)) = "list"

VARIABLES versions,  \* layouts, newest first
          regs,      \* registered stores
          broken,    \* stores whose disk or peer fails, database and files alike
          has,       \* (store, object) pairs stored
          same,      \* big chunks stored as a link to their chunk list
          holds,     \* (store, object, holder)
          cache,     \* resolve_next_obj_cache
          calls,     \* calls that selected their store and have not reached it
          resolved,  \* inner paths resolved, whose keys are not in the cache yet
          wrote,     \* history: the layout and the store of an object's last put
          gone,      \* history: objects removed, with nothing changed since
          ops        \* operations so far

mvars == <<versions, regs, broken, has, same, holds, cache, resolved, calls, wrote, gone, ops>>

Op == ops < MaxMgrOps /\ ops' = ops + 1
None == "none"

-----------------------------------------------------------------------------
(* Routing.                                                                 *)

Target(v, o) == Primary(v.table, o)

\* select_store_for_write
WriteStore(o) ==
    IF versions = <<>> \/ Target(versions[1], o) \notin regs THEN None ELSE Target(versions[1], o)

\* the layouts that select a store for an object; the one of layout k
Tried(o) == {k \in DOMAIN versions : Target(versions[k], o) # None}
At(o, k) == Target(versions[k], o)

\* the store's database answers with a row of the object
Row(s, o) == s \in regs /\ s \notin broken /\ <<s, o>> \in has

\* the store opens it: a big chunk kept as a link to its list is refused
\* (NamedStore::open_chunk_reader)
Hit(s, o) == Row(s, o) /\ <<s, o>> \notin same

\* Mutant of Get: a store that does not have the object ends the search.
GetNewestOnly(o) ==
    IF Tried(o) # {} /\ Hit(At(o, Min(Tried(o))), o) THEN At(o, Min(Tried(o))) ELSE None

\* the layouts whose store opens it; has a row of it
Hits(o) == {k \in Tried(o) : Hit(At(o, k), o)}
Rows(o) == {k \in Tried(o) : Row(At(o, k), o)}

\* get_object, open_chunk_reader: the first store that opens it, newest layout
\* first; errors are passed over
Get(o) == LET hits == Hits(o) IN IF hits = {} THEN None ELSE At(o, Min(hits))

\* query_object_by_id, query_chunk_state: a store turns its errors into
\* NotExist, so the search goes on to the first one with a row
Query(o) ==
    IF Rows(o) = {} THEN "not_exist"
    ELSE IF <<At(o, Min(Rows(o))), o>> \in same THEN "same_as" ELSE "completed"

-----------------------------------------------------------------------------
(* Objects and their children.                                              *)

\* Mutant of Full: a big chunk counts as stored without its chunk list.
FullShallow(o, hint) ==
    CASE Kind(o) = "chunk" -> IF Query(o) = "not_exist" THEN "no" ELSE "yes"
      [] OTHER -> IF hint \/ Get(o) # None THEN "yes" ELSE "no"

Worst(said) == IF "error" \in said THEN "error" ELSE IF "no" \in said THEN "no" ELSE "yes"

\* is_object_fully_stored of a chunk of a list, a list, the content of a file,
\* a file; a hint is an embedded object
ChunkThere(c) == IF Query(c) = "not_exist" THEN "no" ELSE "yes"
ListThere(l) == IF Get(l) = None THEN "error" ELSE Worst({ChunkThere(c) : c \in Refs(l)})
ContentThere(c) ==
    IF Kind(c) = "list" THEN ListThere(c)
    ELSE IF Query(c) = "same_as" THEN ListThere(SameAs(c)) ELSE ChunkThere(c)
FileThere(f, hint) ==
    IF hint \/ Query(f) = "completed" THEN Worst({ContentThere(c) : c \in Refs(f)}) ELSE "no"
ItemThere(c, hint) == IF Kind(c) = "file" THEN FileThere(c, hint) ELSE ContentThere(c)

\* is_object_fully_stored, to the depth of GraphAssumption
Full(o, hint) ==
    IF Kind(o) # "dir" THEN ItemThere(o, hint)
    ELSE IF Query(o) = "completed" THEN Worst({ItemThere(c, c \in Embeds(o)) : c \in Refs(o)}) ELSE "no"

\* resolve_next_obj_once; a path through a chunk list is unimplemented!()
StepInto(o, path) ==
    CASE Kind(o) = "chunk" -> "error"
      [] Kind(o) = "list" -> "panic"
      [] OTHER -> IF path[1] \in Refs(o) THEN path[1] ELSE "error"

-----------------------------------------------------------------------------
(* ResolveNextObjCache: entries by key, keys by age.                        *)

NoEntries == [k \in {} |-> <<>>]
Entry(k, v, id) == [key |-> k, val |-> v, id |-> id]

CacheGet(c, k) ==
    IF k \notin DOMAIN c.entries THEN c
    ELSE [entries |-> [c.entries EXCEPT ![k] = [@ EXCEPT !.id = c.next]],
          order |-> [i \in (DOMAIN c.order \ {c.entries[k].id}) \cup {c.next} |->
                        IF i = c.next THEN k ELSE c.order[i]],
          next |-> c.next + 1]

\* Mutant of CachePut: the old place in the order is kept.
CachePutKeepsOrder(c, k, v) ==
    LET entries == [x \in DOMAIN c.entries \cup {k} |-> IF x = k THEN Entry(k, v, c.next) ELSE c.entries[x]]
        order == [i \in DOMAIN c.order \cup {c.next} |-> IF i = c.next THEN k ELSE c.order[i]]
        oldest == Min(DOMAIN order)
    IN  IF MaxCache = 0 THEN c
        ELSE IF Cardinality(DOMAIN entries) <= MaxCache THEN [entries |-> entries, order |-> order, next |-> c.next + 1]
        ELSE [entries |-> [x \in DOMAIN entries \ {order[oldest]} |-> entries[x]],
              order |-> [i \in DOMAIN order \ {oldest} |-> order[i]], next |-> c.next + 1]

CachePut(c, k, v) ==
    LET kept == IF k \in DOMAIN c.entries THEN DOMAIN c.order \ {c.entries[k].id} ELSE DOMAIN c.order
        entries == [x \in DOMAIN c.entries \cup {k} |-> IF x = k THEN Entry(k, v, c.next) ELSE c.entries[x]]
        order == [i \in kept \cup {c.next} |-> IF i = c.next THEN k ELSE c.order[i]]
        oldest == Min(DOMAIN order)
    IN  IF MaxCache = 0 THEN c
        ELSE IF Cardinality(DOMAIN entries) <= MaxCache THEN [entries |-> entries, order |-> order, next |-> c.next + 1]
        ELSE [entries |-> [x \in DOMAIN entries \ {order[oldest]} |-> entries[x]],
              order |-> [i \in DOMAIN order \ {oldest} |-> order[i]], next |-> c.next + 1]

-----------------------------------------------------------------------------
(* Layouts and stores.                                                      *)

\* versions in descending order of epoch; the same epoch is replaced
Ordered(vs, v) ==
    LET pos == Min({k \in DOMAIN vs : vs[k].epoch < v.epoch} \cup {Len(vs) + 1})
    IN  IF \E k \in DOMAIN vs : vs[k].epoch = v.epoch
        THEN [k \in DOMAIN vs |-> IF vs[k].epoch = v.epoch THEN v ELSE vs[k]]
        ELSE [k \in 1 .. Len(vs) + 1 |-> IF k < pos THEN vs[k] ELSE IF k = pos THEN v ELSE vs[k - 1]]

\* add_layout
AddLayout(e, targets) ==
    LET all == Ordered(versions, [epoch |-> e, targets |-> targets, table |-> Table(targets)])
    IN  /\ Op
        /\ versions' = IF Len(all) > MaxVersions THEN SubSeq(all, 1, MaxVersions) ELSE all
        /\ gone' = {}
        /\ UNCHANGED <<regs, broken, has, same, holds, cache, resolved, calls, wrote>>

Compact ==
    /\ Op /\ Len(versions) > 1
    /\ versions' = SubSeq(versions, 1, 1)
    /\ UNCHANGED <<regs, broken, has, same, holds, cache, resolved, calls, wrote, gone>>

\* register_store, unregister_store
Register(s) ==
    /\ Op
    /\ \/ s \notin regs /\ regs' = regs \cup {s}
       \/ s \in regs /\ regs' = regs \ {s}
    /\ gone' = {}
    /\ UNCHANGED <<versions, broken, has, same, holds, cache, resolved, calls, wrote>>

\* the disk or the peer behind a store fails, or is back
Fault(s) ==
    /\ Op
    /\ broken' = IF s \in broken THEN broken \ {s} ELSE broken \cup {s}
    /\ gone' = {}
    /\ UNCHANGED <<versions, regs, has, same, holds, cache, resolved, calls, wrote>>

-----------------------------------------------------------------------------
(* Calls routed to one store: the store is selected under the locks, which   *)
(* are released before the store is called.                                  *)

\* put_object, put_chunk, put_chunk_by_reader, add_chunk_by_link_to_local_file,
\* add_chunk_by_same_as; pin, fs_acquire, apply_edge; unpin, fs_release
Select(what, o, h) ==
    /\ Op
    /\ WriteStore(o) # None
    /\ what \in {"put", "same"} => (what = "same") = (SameAs(o) # None)
    /\ calls' = calls \cup {[what |-> what, obj |-> o, who |-> h, store |-> WriteStore(o), under |-> versions[1]]}
    /\ UNCHANGED <<versions, regs, broken, has, same, holds, cache, resolved, wrote, gone>>

\* get_dir_child: a child embedded in the directory is put
GetDirChild(d, c) ==
    /\ Kind(d) = "dir" /\ Get(d) # None /\ c \in Embeds(d)
    /\ Select("put", c, None)

\* the call reaches the store it selected, registered or not
Land(c) ==
    LET at == <<c.store, c.obj>>
        hold == <<c.store, c.obj, c.who>>
        put == c.what \in {"put", "same"} /\ c.store \notin broken
    IN  /\ c \in calls
        /\ calls' = calls \ {c}
        /\ has' = IF put THEN has \cup {at} ELSE has
        /\ same' = IF put /\ at \notin has /\ c.what = "same" THEN same \cup {at} ELSE same
        /\ wrote' = IF put THEN [wrote EXCEPT ![c.obj] = {[under |-> c.under, store |-> c.store]}] ELSE wrote
        /\ gone' = IF put THEN gone \ {c.obj} ELSE gone
        /\ holds' = CASE c.store \in broken -> holds
                      [] c.what = "hold" -> holds \cup {hold}
                      [] c.what = "letgo" -> holds \ {hold}
                      [] OTHER -> holds
        /\ UNCHANGED <<versions, regs, broken, cache, resolved, ops>>

-----------------------------------------------------------------------------
(* Calls to several stores, under the locks.                                 *)

\* Mutant of Reached: only the store of the newest layout is asked.
ReachedNewest(o) == {WriteStore(o)}

\* the stores remove_object and remove_chunk ask
Reached(o) == {At(o, k) : k \in Tried(o)} \cap regs

\* remove_object, remove_chunk: best effort
RemoveObject(o) ==
    LET cut == {<<s, o>> : s \in Reached(o) \ broken}
    IN  /\ Op
        /\ has' = has \ cut /\ same' = same \ cut
        /\ wrote' = [wrote EXCEPT ![o] = {wr \in @ : <<wr.store, o>> \notin cut}]
        /\ gone' = IF Reached(o) \cap broken = {} THEN gone \cup {o} ELSE gone
        /\ UNCHANGED <<versions, regs, broken, holds, cache, resolved, calls>>

\* unpin_owner, fs_release_inode: every registered store, in the order of a
\* hash map, up to the first that fails
LetGoAll(h) ==
    \E done \in SUBSET (regs \ broken) :
        /\ Op
        /\ regs \cap broken = {} => done = regs
        /\ holds' = {x \in holds : ~(x[1] \in done /\ x[3] = h)}
        /\ UNCHANGED <<versions, regs, broken, has, same, cache, resolved, calls, wrote, gone>>

\* a store evicts what nobody holds there
Evictable(s, o) == \A h \in Holders : <<s, o, h>> \notin holds

\* forced_gc_until
Collect(s, o) ==
    /\ Op
    /\ s \in regs \ broken /\ <<s, o>> \in has /\ Evictable(s, o)
    /\ has' = has \ {<<s, o>>} /\ same' = same \ {<<s, o>>}
    /\ wrote' = [wrote EXCEPT ![o] = {wr \in @ : wr.store # s \/ \E h \in Holders : <<s, o, h>> \in holds}]
    /\ UNCHANGED <<versions, regs, broken, holds, cache, resolved, calls, gone>>

-----------------------------------------------------------------------------
(* Inner paths.                                                              *)

Tail1(path) == SubSeq(path, 2, Len(path))

\* resolve_next_obj as a run of steps: the keys met, and the object or error
\* at the end; objects on the way are read unless the one before embeds them
Walk(o, path) ==
    LET walk[n \in 0 .. Len(path)] ==
            IF n = 0 THEN [at |-> o, rest |-> path, keys |-> <<>>, hit |-> <<o, path>>, out |-> "go"]
            ELSE LET wr == walk[n - 1]
                     hit == <<wr.at, wr.rest>> \in DOMAIN cache.entries
                     next == StepInto(wr.at, wr.rest)
                 IN  CASE wr.out # "go" -> wr
                       [] hit -> [wr EXCEPT !.at = cache.entries[<<wr.at, wr.rest>>].val, !.hit = <<wr.at, wr.rest>>, !.out = "hit"]
                       [] ~hit /\ next \in {"error", "panic"} -> [wr EXCEPT !.out = next]
                       [] OTHER -> [wr EXCEPT !.at = next, !.rest = Tail1(wr.rest),
                                    !.keys = Append(wr.keys, <<wr.at, wr.rest>>),
                                    !.out = IF Len(wr.rest) = 1 THEN "end"
                                            ELSE IF next \in Embeds(wr.at) \/ Get(next) # None THEN "go" ELSE "error"]
    IN  walk[Len(path)]

\* resolve_next_obj, from open_object, is_object_stored and open_reader
Resolve(o, path) ==
    LET wr == Walk(o, path)
    IN  /\ Op
        /\ Get(o) # None
        /\ cache' = IF wr.out = "hit" THEN CacheGet(cache, wr.hit) ELSE cache
        /\ resolved' = IF wr.out \in {"hit", "end"} /\ wr.keys # <<>>
                       THEN resolved \cup {[keys |-> wr.keys, val |-> wr.at]} ELSE resolved
        /\ UNCHANGED <<versions, regs, broken, has, same, holds, calls, wrote, gone>>

\* the keys met are put under the lock, taken anew: others may have put them
PutKeys(r) ==
    LET puts[n \in 0 .. Len(r.keys)] == IF n = 0 THEN cache ELSE CachePut(puts[n - 1], r.keys[n], r.val)
    IN  /\ r \in resolved
        /\ resolved' = resolved \ {r}
        /\ cache' = puts[Len(r.keys)]
        /\ UNCHANGED <<versions, regs, broken, has, same, holds, calls, wrote, gone, ops>>

-----------------------------------------------------------------------------
\* a manager whose stores hold what was put under its first layout
MgrInit ==
    /\ \E t \in Configs : versions = <<[epoch |-> 0, targets |-> t, table |-> Table(t)]>>
    /\ regs = Stores /\ broken = {}
    /\ \E S \in {{}, Objs} :
          /\ has = {<<WriteStore(o), o>> : o \in {x \in S : WriteStore(x) # None}}
          /\ wrote = [o \in Objs |-> IF o \in S /\ WriteStore(o) # None
                                     THEN {[under |-> versions[1], store |-> WriteStore(o)]} ELSE {}]
    /\ same = {x \in has : SameAs(x[2]) # None}
    /\ holds = {} /\ calls = {} /\ resolved = {} /\ gone = {} /\ ops = 0
    /\ cache = [entries |-> NoEntries, order |-> NoEntries, next |-> 0]

MgrNext ==
    \/ \E e \in 0 .. MaxEpoch, t \in Configs : AddLayout(e, t)
    \/ Compact
    \/ \E s \in Stores : Register(s) \/ Fault(s) \/ \E o \in Handled : Collect(s, o)
    \/ \E o \in Handled : RemoveObject(o) \/ \E h \in Holders : Select("hold", o, h) \/ Select("letgo", o, h)
    \/ \E o \in Objs : \/ Select("put", o, None) \/ Select("same", o, None)
                       \/ \E c \in Objs : GetDirChild(o, c)
                       \/ \E path \in Paths : Resolve(o, path)
    \/ \E c \in calls : Land(c)
    \/ \E r \in resolved : PutKeys(r)
    \/ \E h \in Holders : LetGoAll(h)

MgrSpec == MgrInit /\ [][MgrNext]_mvars

-----------------------------------------------------------------------------
\* Types; the layouts are in descending order of epoch and no more than the
\* bound, so the first one is the newest (add_layout).
MgrTypeOK ==
    /\ \A i, j \in DOMAIN versions : i < j => versions[i].epoch > versions[j].epoch
    /\ Len(versions) <= MaxVersions
    /\ regs \subseteq Stores /\ broken \subseteq Stores
    /\ has \subseteq Stores \X Objs /\ same \subseteq has
    /\ holds \subseteq Stores \X Objs \X Holders
    /\ \A c \in calls : c.store \in Stores

\* In every layout, the slots of the active targets are as their weights, and
\* no other target has one (rebuild_maglev).
Spread == \A k \in DOMAIN versions : Fair(versions[k].targets, versions[k].table)

\* what the manager can give of an object: its bytes, or for a big chunk the
\* name of the list it is made of
Met(o) == IF SameAs(o) = None THEN Get(o) # None ELSE Query(o) = "same_as"

\* What a put stored is found while the layout it was routed by is still kept
\* and its store is there, however late it landed and whatever layouts came
\* after, unless it was evicted with no hold on it in that store: it is read,
\* or for a big chunk, which no reader opens, told to be its list (get_object,
\* open_chunk_reader, query_chunk_state, forced_gc_until).
Found ==
    \A o \in Objs :
        (\E wr \in wrote[o] : wr.under \in Range(versions) /\ wr.store \in regs \ broken) => Met(o)

\* A removed object is neither read nor told to exist from an older layout's
\* store until it is put, or the layouts or stores change (remove_object,
\* remove_chunk).
GoneStays == \A o \in gone : Get(o) = None /\ Query(o) = "not_exist"

Needs(o) ==
    LET step(S) == S \cup UNION {Refs(x) \cup (IF SameAs(x) = None THEN {} ELSE {SameAs(x)}) : x \in S}
        one == step({o})
        two == step(one)
        three == step(two)
    IN  step(three)

\* is_object_stored says yes exactly when everything the object needs can be
\* read, the list of a big chunk in place of the chunk, also while stores
\* fail: a member of a directory may be embedded instead.
StoredMeansAll ==
    \A o \in Objs :
        (Full(o, FALSE) = "yes") <=>
            \A x \in Needs(o) : Met(x) \/ \E d \in Needs(o) : Met(d) /\ x \in Embeds(d)

\* The cache of inner paths names the object the path leads to, keeps one age
\* per entry and stays within its bound (ResolveNextObjCache).
CacheCoherent ==
    /\ Cardinality(DOMAIN cache.entries) <= MaxCache
    /\ Cardinality(DOMAIN cache.order) = Cardinality(DOMAIN cache.entries)
    /\ \A k \in DOMAIN cache.entries :
          /\ cache.entries[k].id \in DOMAIN cache.order /\ cache.order[cache.entries[k].id] = k
          /\ cache.entries[k].val = k[2][Len(k[2])]

\* Layouts stay in order of epoch with slots as their weights, and the entries
\* and ages of the inner-path cache stay inverse, in any order of layout
\* changes and resolutions (add_layout, rebuild_maglev, ResolveNextObjCache).
MgrInv == MgrTypeOK /\ Spread /\ CacheCoherent
=============================================================================
