-------------------------- MODULE PathResolveCache --------------------------
(***************************************************************************)
(* The cache of resolved paths of FSMetaService: a trie whose nodes hold    *)
(* the inode ids of a path or the object or link it ends in, the edge index *)
(* that finds the trie prefix a changed dentry belongs to, and the LRU list.*)
(* A trie node that was never made and one that holds nothing are alike.    *)
(* A node that holds a value has an entry id, and the LRU map names its     *)
(* path by that id: a smaller id is an older entry.                         *)
(***************************************************************************)
EXTENDS Integers, Sequences, FiniteSets

CONSTANTS CacheNames,   \* components of paths
          CacheInodes,  \* inode ids
          MaxDepth,     \* longest path
          MaxEntries    \* max_entries

ASSUME CacheAssumption == MaxDepth \in Nat /\ MaxEntries \in Nat \ {0}

CachePaths == UNION {[1 .. k -> CacheNames] : k \in 0 .. MaxDepth}
CacheEdges == CacheInodes \X CacheNames
NoPath == <<"no path">>
NoId == 0     \* no entry id; ids count from one

\* The code keeps ids for inode paths only; via, the parents of a terminal, is
\* history that the properties of FsMetaTxn read.
NoValue == [k |-> "none", ids |-> <<>>, t |-> "-", via |-> <<>>]
Ids(ids) == [k |-> "ids", ids |-> ids, t |-> "-", via |-> ids]
Terminal(parents, t) == [k |-> "term", ids |-> <<>>, t |-> t, via |-> parents]

EmptyCache == [val   |-> [p \in CachePaths |-> NoValue],
               deep  |-> [p \in CachePaths |-> <<>>],
               edge  |-> [e \in CacheEdges |-> NoPath],
               id    |-> [p \in CachePaths |-> NoId],
               lru   |-> [i \in {} |-> <<>>],
               count |-> 0,
               next  |-> 1]

Prefix(p, k) == [i \in 1 .. k |-> p[i]]
Under(p, q) == Len(p) >= Len(q) /\ Prefix(p, Len(q)) = q
Without(lru, gone) == [i \in DOMAIN lru \ gone |-> lru[i]]
SatSub(n, k) == IF n > k THEN n - k ELSE 0

-----------------------------------------------------------------------------
\* recompute_deepest_inode: the node's own ids, or longer ones of a child
Best(val, deep, p) ==
    LET own == val[p].ids
        kids == {q \in CachePaths : Len(q) = Len(p) + 1 /\ Under(q, p)}
        longest == {q \in kids : \A r \in kids : Len(deep[r]) <= Len(deep[q])}
    IN  IF kids # {} /\ \A q \in longest : Len(deep[q]) > Len(own)
        THEN deep[CHOOSE q \in longest : TRUE] ELSE own

\* ... for every node of Q, the deepest first
Recompute(c, Q) ==
    LET up[k \in 0 .. MaxDepth] ==
            LET deep == IF k = 0 THEN c.deep ELSE up[k - 1]
            IN  [q \in CachePaths |-> IF q \in Q /\ Len(q) = MaxDepth - k THEN Best(c.val, deep, q)
                                      ELSE deep[q]]
    IN  [c EXCEPT !.deep = up[MaxDepth]]

\* the nodes on the way to a path, and the path
UpFrom(p) == {q \in CachePaths : Under(p, q)}

\* the entries of the paths in P leave the LRU map
Forget(c, P) ==
    LET gone == {c.id[p] : p \in P} \ {NoId}
    IN  [c EXCEPT !.id = [p \in CachePaths |-> IF p \in P THEN NoId ELSE @[p]],
                  !.lru = Without(@, gone),
                  !.count = SatSub(@, Cardinality(gone))]

\* the entry of a path gets a new id
Enter(c, p) ==
    [c EXCEPT !.id[p] = c.next,
              !.lru = [i \in DOMAIN @ \cup {c.next} |-> IF i = c.next THEN p ELSE @[i]],
              !.next = @ + 1]

\* refresh_lru_for_path
Touch(c, p) ==
    IF c.id[p] \notin DOMAIN c.lru THEN c
    ELSE Enter([c EXCEPT !.lru = Without(@, {c.id[p]})], p)

\* Mutant of RemoveSingle: the value stays in the trie.
RemoveSingleKeepsValue(c, p) ==
    Recompute([c EXCEPT !.edge = [e \in CacheEdges |-> IF @[e] = p THEN NoPath ELSE @[e]]], UpFrom(p))

\* remove_single_entry drops the edges that lead to exactly this path
RemoveSingle(c, p) ==
    Recompute([c EXCEPT !.val[p] = NoValue, !.id[p] = NoId,
                        !.edge = [e \in CacheEdges |-> IF @[e] = p THEN NoPath ELSE @[e]]], UpFrom(p))

EvictLru(c) ==
    LET oldest == CHOOSE i \in DOMAIN c.lru : \A j \in DOMAIN c.lru : i <= j
    IN  IF DOMAIN c.lru = {} THEN c
        ELSE RemoveSingle([c EXCEPT !.lru = Without(@, {oldest}), !.count = SatSub(@, 1)], c.lru[oldest])

\* clear_shallow_values_on_path: a deeper entry covers those above it
ClearShallow(c, p) ==
    LET above == UpFrom(p) \ {p}
    IN  [Forget(c, above) EXCEPT !.val = [q \in CachePaths |-> IF q \in above THEN NoValue ELSE @[q]]]

\* the edges of a path whose first inodes are ids now lead to its prefixes
IndexEdges(c, p, ids) ==
    [c EXCEPT !.edge = [e \in CacheEdges |->
        LET at == {k \in 1 .. Len(p) : e = <<ids[k], p[k]>>}
        IN  IF at = {} THEN @[e] ELSE Prefix(p, CHOOSE k \in at : \A j \in at : j <= k)]]

\* the part put_ids_for_path and put_terminal_for_path share
MakeRoom(c, p) ==
    LET room == IF c.val[p] = NoValue /\ c.count >= MaxEntries THEN EvictLru(c) ELSE c
    IN  Forget(ClearShallow(room, p), {p})

Insert(c, p, v) == [Enter(c, p) EXCEPT !.val[p] = v, !.count = @ + 1]

PutIds(c, p, ids) ==
    IF Len(ids) # Len(p) + 1 THEN c
    ELSE LET put == Insert(MakeRoom(c, p), p, Ids(ids))
             own == [put EXCEPT !.deep[p] = ids]
             up == [own EXCEPT !.deep = [q \in CachePaths |->
                       IF Under(p, q) /\ Len(ids) > Len(@[q]) THEN ids ELSE @[q]]]
         IN  IndexEdges(up, p, ids)

PutTerminal(c, p, parents, t) ==
    IF Len(parents) # Len(p) THEN c
    ELSE IndexEdges(Recompute(Insert(MakeRoom(c, p), p, Terminal(parents, t)), UpFrom(p)), p, parents)

\* invalidate_by_edge, invalidate_prefix for the edges of E, in any order: the
\* subtrees they lead to, with the edges and entries of these
InvalidateEdges(c, E) ==
    LET tops == {c.edge[e] : e \in E} \ {NoPath}
        below == {q \in CachePaths : \E p \in tops : Under(q, p)}
        cut == [Forget(c, below) EXCEPT
                  !.val = [q \in CachePaths |-> IF q \in below THEN NoValue ELSE @[q]],
                  !.deep = [q \in CachePaths |-> IF q \in below THEN <<>> ELSE @[q]],
                  !.edge = [f \in CacheEdges |-> IF @[f] \in below THEN NoPath ELSE @[f]]]
    IN  Recompute(cut, UNION {UpFrom(p) : p \in tops} \ below)

\* get_terminal_for_path: the shortest prefix that ends in a terminal, or NoPath
TerminalPrefix(c, p) ==
    LET hits == {k \in 1 .. Len(p) : c.val[Prefix(p, k)].k = "term"}
    IN  IF hits = {} THEN NoPath ELSE Prefix(p, CHOOSE k \in hits : \A j \in hits : k <= j)

\* get_longest_prefix_ids_for_path, or the root's id alone
LongestIds(c, p, root) ==
    LET known(k) == IF c.val[Prefix(p, k)].k = "ids" THEN c.val[Prefix(p, k)].ids
                    ELSE c.deep[Prefix(p, k)]
        hits == {k \in 0 .. Len(p) : Len(known(k)) >= k + 1}
    IN  IF hits = {} THEN <<root>>
        ELSE LET k == CHOOSE k \in hits : \A j \in hits : j <= k
             IN  Prefix(known(k), k + 1)

-----------------------------------------------------------------------------
(* Properties of a cache value.                                             *)

\* entry_count, the LRU map and the trie agree, and the limit holds: the nodes
\* that hold a value are the ones with an entry id, and the map and the ids of
\* the nodes are inverse.
LruMatchesTrie(c) ==
    /\ c.count = Cardinality(DOMAIN c.lru) /\ c.count <= MaxEntries
    /\ \A p \in CachePaths : /\ c.val[p] # NoValue <=> c.id[p] # NoId
                             /\ c.id[p] # NoId => c.id[p] \in DOMAIN c.lru /\ c.lru[c.id[p]] = p
    /\ \A i \in DOMAIN c.lru : c.id[c.lru[i]] = i
=============================================================================
