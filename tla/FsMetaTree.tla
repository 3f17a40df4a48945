----------------------------- MODULE FsMetaTree -----------------------------
(***************************************************************************)
(* The directory tree of fs_meta: the rows of `nodes` and `dentries`, the   *)
(* handlers of FSMetaService that change them, the path walk of             *)
(* FsMetaClient that precedes every handler, and NamedFileMgr::publish_dir. *)
(*                                                                         *)
(* Every transaction begins with BEGIN IMMEDIATE, so the statements of one  *)
(* transaction are one step.  What is read outside a transaction (a walk,   *)
(* the plan of a move, the revision a delete expects) is a step of its own, *)
(* and what was read is kept in the client's record until it is used.       *)
(* Links point to a path that never exists, and no directory is read-only:  *)
(* no code outside the tests sets the flag.                                *)
(***************************************************************************)
EXTENDS Integers, Sequences, FiniteSets

CONSTANTS Names,        \* components of paths
          MaxInode,     \* inode ids are 1 .. MaxInode
          Clients,      \* concurrent callers of FsMetaClient and NamedFileMgr
          Movers,       \* the clients that call move_path
          Calls,        \* the other operations the clients call
          Files,        \* file objects
          BaseDir,      \* a DirObject: what each name of it is
          Paths,        \* the paths the callers pass
          InitTrees,    \* the trees a run starts from
          MaxOps        \* bound on the operations a run starts

\* a path other than the root's, which every call but publish_dir refuses
ASSUME TreeAssumption ==
    /\ MaxInode \in Nat \ {0}
    /\ MaxOps \in Nat
    /\ Movers \subseteq Clients
    /\ IsFiniteSet(Names)
    /\ \A p \in Paths : p \in Seq(Names) /\ p # <<>>
    /\ Calls \subseteq {"create_dir", "set_file", "set_dir", "symlink", "delete", "publish"}

VARIABLES nodes,    \* rows of table nodes
          dent,     \* rows of table dentries
          stat,     \* obj_stat.ref_count
          cl,       \* the call each client is in
          ops       \* operations started

vars == <<nodes, dent, stat, cl, ops>>

Inodes == 1 .. MaxInode
Root == 1

-----------------------------------------------------------------------------
(* Objects are content-addressed: an id is the content it names.            *)

Obj(kind, id, children) == [k |-> kind, id |-> id, c |-> children]
NoObj == Obj("none", "-", <<>>)
FileObj(f) == Obj("file", f, <<>>)
DirObj(children) == Obj("dir", "-", children)

Target(kind, inode, obj) == [t |-> kind, i |-> inode, o |-> obj]
Absent == Target("absent", 0, NoObj)
Tombstone == Target("tomb", 0, NoObj)
SymLink == Target("link", 0, NoObj)
ToInode(i) == Target("inode", i, NoObj)
ToObj(o) == Target("obj", 0, o)

NoRef == <<0, "-">>
Node(state, base) == [state |-> state, base |-> base, rev |-> 0, ref |-> NoRef]
NoNode == Node("free", NoObj)
DirNormal == Node("dir", NoObj)
DirOverlay(base) == Node("overlay", base)

\* the rows over the objects of a set
Targets(objs) == {Absent, Tombstone, SymLink} \cup {ToInode(i) : i \in Inodes} \cup {ToObj(o) : o \in objs}
NodeRows(objs) == [state : {"free", "dir", "overlay", "working", "finalized"}, base : objs, rev : Nat,
                   ref : {NoRef} \cup (Inodes \X Names)]
Tables(objs) == [nodes : [Inodes -> NodeRows(objs)], dent : [Inodes -> [Names -> Targets(objs)]]]
ObjsOf(db) == {NoObj} \cup {db.nodes[i].base : i \in Inodes} \cup {db.dent[e[1]][e[2]].o : e \in Inodes \X Names}

\* ref_by and the dentries tell the same story: the dentry ref_by names targets
\* the inode, and a dentry that targets an inode is the one its ref_by names
RefsAgree(db) ==
    \A i \in Inodes :
        /\ db.nodes[i].ref # NoRef =>
             db.dent[db.nodes[i].ref[1]][db.nodes[i].ref[2]] = ToInode(i)
        /\ \A d \in Inodes, n \in Names :
             db.dent[d][n].t = "inode" /\ db.dent[d][n].i = i => db.nodes[i].ref = <<d, n>>

\* the entries that name a file object
FileEntries(dents, f) == {e \in Inodes \X Names : dents[e[1]][e[2]] = ToObj(FileObj(f))}

\* every inode has a path that its dentry extends, and the root's is empty
Named(dents, path) ==
    /\ path \in [Inodes -> Seq(Names)] /\ path[Root] = <<>>
    /\ \A d, i \in Inodes, n \in Names : dents[d][n] = ToInode(i) => path[i] = Append(path[d], n)

\* the paths that ref_by tells, from the root or from an inode without a name
PathsOf(db) ==
    LET to[k \in 0 .. MaxInode] ==
            [i \in Inodes |-> IF k = 0 \/ db.nodes[i].ref = NoRef THEN <<>>
                              ELSE Append(to[k - 1][db.nodes[i].ref[1]], db.nodes[i].ref[2])]
    IN  to[MaxInode]

\* directories hold the dentries, and the root is one
OnlyDirs(db) ==
    /\ db.nodes[Root].state \in {"dir", "overlay"}
    /\ \A d, i \in Inodes, n \in Names :
          db.dent[d][n] = ToInode(i) => db.nodes[d].state \in {"dir", "overlay"}

\* a tree to start from: its records agree, no directory is below itself, a row
\* that is not there is blank, and no file has been set yet
ASSUME InitAssumption ==
    \A tree \in InitTrees :
        /\ tree \in Tables(ObjsOf(tree)) /\ RefsAgree(tree)
        /\ \A i \in Inodes : tree.nodes[i].state = "free" => tree.nodes[i] = NoNode
        /\ \A i \in Inodes, n \in Names : tree.dent[i][n] # ToInode(i)
        /\ OnlyDirs(tree) /\ Named(tree.dent, PathsOf(tree))
        /\ \A f \in Files : FileEntries(tree.dent, f) = {}

Exists(db, i) == i \in Inodes /\ db.nodes[i].state # "free"
IsDir(db, i) == i \in Inodes /\ db.nodes[i].state \in {"dir", "overlay"}

-----------------------------------------------------------------------------
(* Statements on the two tables; db is the pair of tables inside a          *)
(* transaction, and a failing statement leaves it as it was.                *)

DB == [nodes |-> nodes, dent |-> dent]
Done(db) == [ok |-> TRUE, db |-> db]
Fail(db) == [ok |-> FALSE, db |-> db]

Bump(db, d) == [db EXCEPT !.nodes[d].rev = @ + 1]
Put(db, d, n, t) == [db EXCEPT !.dent[d][n] = t]

\* Mutant of Unref: ref_by is left behind.
UnrefNever(db, d, n, t) == db

\* ref_by of the inode a dentry lets go, when it is that dentry's
Unref(db, d, n, t) ==
    IF t.t = "inode" /\ db.nodes[t.i].ref = <<d, n>>
    THEN [db EXCEPT !.nodes[t.i].ref = NoRef]
    ELSE db

\* the row exists and no other dentry refers to it (uniq_inode_target too)
Linkable(db, d, n, t) ==
    t.t = "inode" =>
        /\ Exists(db, t.i)
        /\ db.nodes[t.i].ref \in {NoRef, <<d, n>>}
        /\ \A e \in Inodes, m \in Names :
              db.dent[e][m].t = "inode" /\ db.dent[e][m].i = t.i => <<e, m>> = <<d, n>>

Ref(db, d, n, t) ==
    IF t.t = "inode" THEN [db EXCEPT !.nodes[t.i].ref = <<d, n>>] ELSE db

\* Mutant of RevMatches: the expected revision is not compared.
RevIgnored(db, d, rev) == Exists(db, d)

RevMatches(db, d, rev) == Exists(db, d) /\ db.nodes[d].rev = rev

CreateDentry(db, d, n, t, rev) ==
    IF RevMatches(db, d, rev) /\ db.dent[d][n] = Absent /\ Linkable(db, d, n, t)
    THEN Done(Bump(Ref(Put(db, d, n, t), d, n, t), d))
    ELSE Fail(db)

ReplaceTarget(db, d, n, old, new, rev) ==
    LET freed == Unref(Put(db, d, n, new), d, n, old)
    IN  IF ~RevMatches(db, d, rev) \/ db.dent[d][n] = Absent \/ db.dent[d][n] # old
        THEN Fail(db)
        ELSE IF old = new THEN Done(db)
        ELSE IF Linkable(freed, d, n, new)
        THEN Done(Bump(Ref(freed, d, n, new), d))
        ELSE Fail(db)

DeleteDentry(db, d, n) ==
    IF db.dent[d][n] = Absent THEN db
    ELSE Bump(Unref(Put(db, d, n, Absent), d, n, db.dent[d][n]), d)

Upsert(db, d, n, t, rev) ==
    IF db.dent[d][n] = Absent
    THEN CreateDentry(db, d, n, t, rev)
    ELSE ReplaceTarget(db, d, n, db.dent[d][n], t, rev)

\* SQLite gives a new row the id after the largest one in use; none is left
\* when that one is MaxInode
NextInode(db) ==
    {new \in Inodes : /\ new = 1 \/ Exists(db, new - 1)
                      /\ \A i \in Inodes : Exists(db, i) => i < new}

AllocInode(db, new, node) == [db EXCEPT !.nodes[new] = node]

-----------------------------------------------------------------------------
(* What a directory shows: its dentries over its base DirObject.            *)

BaseChild(db, d, n) ==
    IF db.nodes[d].base.k = "dir" THEN db.nodes[d].base.c[n] ELSE NoObj

Lookup(db, d, n) ==
    IF db.dent[d][n] # Absent THEN db.dent[d][n]
    ELSE IF BaseChild(db, d, n) # NoObj THEN ToObj(BaseChild(db, d, n))
    ELSE Absent

NameAbsent(db, d, n) ==
    \/ db.dent[d][n] = Tombstone
    \/ db.dent[d][n] = Absent /\ BaseChild(db, d, n) = NoObj

\* what a name leads to from what the path before it led to; a link leads nowhere
StepDown(db, up, n) ==
    CASE up.t = "inode" /\ IsDir(db, up.i) -> Lookup(db, up.i, n)
      [] up.t = "obj" -> Target("inner", 0, up.o)
      [] up.t = "inner" -> up
      [] OTHER -> Absent

\* resolve_path_ex without its cache
ResolveTo(db, path) ==
    LET walk[k \in 0 .. Len(path)] ==
            IF k = 0 THEN ToInode(Root) ELSE StepDown(db, walk[k - 1], path[k])
        found == walk[Len(path)]
    IN  IF found.t \in {"tomb", "link"} THEN Absent ELSE found

-----------------------------------------------------------------------------
(* A client's call: where it is, the path still to walk, the directory it   *)
(* has reached, and what it has read.  The revisions and the target are the *)
(* OCC expectations of delete and move; seen is what both directories held  *)
(* when a move read their revisions.                                        *)

Idle == [pc |-> "idle", op |-> "-", path |-> <<>>, dst |-> <<>>, walk |-> <<>>, cur |-> Root,
         p1 |-> 0, r1 |-> 0, r2 |-> 0, t |-> Absent, seen |-> <<>>]

ParentPath(p) == SubSeq(p, 1, Len(p) - 1)
Name(p) == p[Len(p)]

\* Mutant of IsDescendant: the client does not compare the two paths.
NeverDescendant(p, q) == FALSE

IsDescendant(p, q) == Len(p) > Len(q) /\ SubSeq(p, 1, Len(q)) = q

\* what follows ensure_dir_inode once its last component is taken
Arrived(r) ==
    CASE r.op = "move" /\ r.p1 = 0 ->
             [r EXCEPT !.p1 = r.cur, !.walk = ParentPath(r.dst), !.cur = Root]
      [] r.op = "move" /\ r.p1 # 0 ->
             IF IsDescendant(r.dst, r.path) THEN Idle ELSE [r EXCEPT !.pc = "revs"]
      [] OTHER -> [r EXCEPT !.pc = "exec"]

Settle(r) ==
    LET once == IF r.walk = <<>> THEN Arrived(r) ELSE r
    IN  IF once.pc = "look" /\ once.walk = <<>> THEN Arrived(once) ELSE once

Advance(r, i) == Settle([r EXCEPT !.pc = "look", !.cur = i, !.walk = Tail(@), !.t = Absent])

\* the path walked so far, the component being taken included
WalkedPath(r) ==
    LET whole == ParentPath(IF r.op = "move" /\ r.p1 # 0 THEN r.dst ELSE r.path)
    IN  SubSeq(whole, 1, Len(whole) - Len(r.walk) + 1)

Call(c, op, p, q) ==
    /\ cl[c].pc = "idle" /\ ops < MaxOps
    /\ ops' = ops + 1
    /\ cl' = [cl EXCEPT ![c] =
                 IF op = "publish" THEN [Idle EXCEPT !.pc = "find", !.op = op, !.path = p]
                 ELSE Settle([Idle EXCEPT !.pc = "look", !.op = op, !.path = p, !.dst = q,
                                          !.walk = ParentPath(p)])]
    /\ UNCHANGED <<nodes, dent, stat>>

Become(c, r) == cl' = [cl EXCEPT ![c] = r]

\* one turn of ensure_dir_inode: get_dentry, and get_inode of what it names
WalkLook(c) ==
    LET r == cl[c]
        t == dent[r.cur][Head(r.walk)]
    IN  /\ r.pc = "look"
        /\ Become(c, CASE t.t = "inode" -> IF IsDir(DB, t.i) THEN Advance(r, t.i) ELSE Idle
                       [] t.t = "obj" -> IF t.o.k = "dir" THEN [r EXCEPT !.pc = "make", !.t = t] ELSE Idle
                       [] t.t = "tomb" -> [r EXCEPT !.pc = "make", !.t = Absent]
                       [] t.t = "link" -> Idle
                       [] t.t = "absent" -> [r EXCEPT !.pc = "resolve"])
        /\ UNCHANGED <<nodes, dent, stat, ops>>

\* no dentry: resolve_path_ex of the path so far, from the root
WalkResolve(c) ==
    LET r == cl[c]
        t == ResolveTo(DB, WalkedPath(r))
    IN  /\ r.pc = "resolve"
        /\ Become(c, CASE t.t = "inode" -> IF IsDir(DB, t.i) THEN Advance(r, t.i) ELSE Idle
                       [] t.t = "obj" -> IF t.o.k = "dir" THEN [r EXCEPT !.pc = "make", !.t = t] ELSE Idle
                       [] t.t = "inner" -> Idle
                       [] OTHER -> [r EXCEPT !.pc = "make", !.t = Absent])
        /\ UNCHANGED <<nodes, dent, stat, ops>>

\* the inode a walk makes: over the DirObject its dentry names or named, or empty
MadeNode(r, now) ==
    CASE now.t = "obj" -> DirOverlay(now.o)
      [] now.t # "obj" /\ r.t.t = "obj" -> DirOverlay(r.t.o)
      [] OTHER -> DirNormal

\* what the dentry has become in the meantime cannot be made a directory
MakeRefused(r, now) ==
    \/ now.t = "link"
    \/ now.t = "obj" /\ now.o.k # "dir"
    \/ now.t = "tomb" /\ r.t.t = "obj"

\* create_dir_under_parent (r.t is Absent) or materialize_dir_from_obj, in a
\* transaction that looks at the dentry again
WalkMake(c) ==
    LET r == cl[c]
        n == Head(r.walk)
        now == dent[r.cur][n]
        made(new) == Upsert(AllocInode(DB, new, MadeNode(r, now)), r.cur, n, ToInode(new), nodes[r.cur].rev)
    IN  /\ r.pc = "make"
        /\ UNCHANGED <<stat, ops>>
        /\ IF ~IsDir(DB, r.cur) \/ MakeRefused(r, now)
           THEN Become(c, Idle) /\ UNCHANGED <<nodes, dent>>
           ELSE IF now.t = "inode"
           THEN /\ Become(c, IF IsDir(DB, now.i) THEN Advance(r, now.i) ELSE Idle)
                /\ UNCHANGED <<nodes, dent>>
           ELSE \E new \in NextInode(DB) :
                  /\ nodes' = made(new).db.nodes /\ dent' = made(new).db.dent
                  /\ Become(c, Advance(r, new))

-----------------------------------------------------------------------------
(* The handlers.                                                            *)

\* the dentries handle_set_file, handle_set_dir and handle_symlink may put
SetFile == {ToObj(FileObj(f)) : f \in Files}
SetDir == {ToObj(DirObj(BaseDir))}
SetSymlink == {SymLink}

CreateTarget(op) ==
    CASE op = "create_dir" -> {ToInode(new) : new \in NextInode(DB)}
      [] op = "set_file" -> SetFile
      [] op = "set_dir" -> SetDir
      [] op = "symlink" -> SetSymlink

\* handle_obj_stat_bump, by one, for the object handle_set_file names
StatBump(op, t) ==
    IF op = "set_file" THEN [stat EXCEPT ![t.o.id] = @ + 1] ELSE stat

ExecCreate(c) ==
    LET r == cl[c]
        n == Name(r.path)
        db(t) == IF r.op = "create_dir" THEN AllocInode(DB, t.i, DirNormal) ELSE DB
    IN  /\ r.pc = "exec" /\ r.op \in {"create_dir", "set_file", "set_dir", "symlink"}
        /\ Become(c, Idle) /\ UNCHANGED ops
        /\ IF IsDir(DB, r.cur) /\ NameAbsent(DB, r.cur, n)
           THEN \E t \in CreateTarget(r.op) :
                  LET put == Upsert(db(t), r.cur, n, t, nodes[r.cur].rev)
                  IN  /\ nodes' = put.db.nodes /\ dent' = put.db.dent
                      /\ stat' = StatBump(r.op, t)
           ELSE UNCHANGED <<nodes, dent, stat>>

\* handle_delete: three statements, each its own
DeleteRev(c) ==
    LET r == cl[c]
    IN  /\ r.pc = "exec" /\ r.op = "delete"
        /\ Become(c, IF Exists(DB, r.cur)
                     THEN [r EXCEPT !.pc = "dlook", !.r1 = nodes[r.cur].rev] ELSE Idle)
        /\ UNCHANGED <<nodes, dent, stat, ops>>

DeleteLook(c) ==
    LET r == cl[c]
    IN  /\ r.pc = "dlook"
        /\ Become(c, [r EXCEPT !.pc = "dwrite", !.t = dent[r.cur][Name(r.path)]])
        /\ UNCHANGED <<nodes, dent, stat, ops>>

DeleteWrite(c) ==
    LET r == cl[c]
        n == Name(r.path)
        put == IF r.t = Absent THEN CreateDentry(DB, r.cur, n, Tombstone, r.r1)
               ELSE ReplaceTarget(DB, r.cur, n, r.t, Tombstone, r.r1)
    IN  /\ r.pc = "dwrite"
        /\ Become(c, Idle)
        /\ nodes' = put.db.nodes /\ dent' = put.db.dent
        /\ UNCHANGED <<stat, ops>>

\* handle_move_path: the revisions, then the dentry that moves, then the
\* transaction that checks both revisions again
MoveRevs(c) ==
    LET r == cl[c]
    IN  /\ r.pc = "revs"
        /\ Become(c, IF /\ <<r.p1, Name(r.path)>> # <<r.cur, Name(r.dst)>>
                        /\ IsDir(DB, r.p1) /\ IsDir(DB, r.cur)
                     THEN [r EXCEPT !.pc = "plan", !.r1 = nodes[r.p1].rev, !.r2 = nodes[r.cur].rev,
                                    !.seen = <<dent[r.p1], dent[r.cur]>>]
                     ELSE Idle)
        /\ UNCHANGED <<nodes, dent, stat, ops>>

MovePlan(c) ==
    LET r == cl[c]
        t == dent[r.p1][Name(r.path)]
    IN  /\ r.pc = "plan"
        /\ Become(c, IF \/ t.t \in {"absent", "tomb"}
                        \/ t.t = "inode" /\ (~Exists(DB, t.i) \/ (IsDir(DB, t.i) /\ t.i = r.cur))
                     THEN Idle ELSE [r EXCEPT !.pc = "apply", !.t = t])
        /\ UNCHANGED <<nodes, dent, stat, ops>>

\* apply_move_plan_txn: a tombstone at the source, the target at the destination
Moved(r) ==
    LET out == Upsert(DB, r.p1, Name(r.path), Tombstone, r.r1)
        in == Upsert(out.db, r.cur, Name(r.dst), r.t, IF r.p1 = r.cur THEN r.r1 + 1 ELSE r.r2)
    IN  IF RevMatches(DB, r.p1, r.r1) /\ RevMatches(DB, r.cur, r.r2) /\ out.ok /\ in.ok
        THEN Done(in.db) ELSE Fail(DB)

MoveApply(c) ==
    /\ cl[c].pc = "apply"
    /\ nodes' = Moved(cl[c]).db.nodes /\ dent' = Moved(cl[c]).db.dent
    /\ Become(c, Idle)
    /\ UNCHANGED <<stat, ops>>

-----------------------------------------------------------------------------
(* NamedFileMgr::publish_dir, and the file session that gives a file inode  *)
(* the object publish_dir asks it for (module FileSession).                 *)

PublishFind(c) ==
    LET r == cl[c]
        t == ResolveTo(DB, r.path)
    IN  /\ r.pc = "find"
        /\ Become(c, IF t.t = "inode" /\ IsDir(DB, t.i) THEN [r EXCEPT !.pc = "pub", !.cur = t.i]
                     ELSE Idle)
        /\ UNCHANGED <<nodes, dent, stat, ops>>

\* node_obj_id of a child, or the object a dentry names
ChildObj(db, t) ==
    CASE t.t = "obj" -> t.o
      [] t.t = "inode" -> db.nodes[t.i].base
      [] OTHER -> NoObj

\* the new DirObject: base children no dentry hides, then the dentries
Published(db, d) ==
    [n \in Names |-> IF db.dent[d][n] = Absent THEN BaseChild(db, d, n)
                     ELSE ChildObj(db, db.dent[d][n])]

\* every dentry is deleted, each at the revision the one before it left
DropDentries(db, d) ==
    LET gone == {n \in Names : db.dent[d][n] # Absent}
        kids == {i \in Inodes : \E n \in gone : db.dent[d][n] = ToInode(i)
                                                /\ db.nodes[i].ref = <<d, n>>}
    IN  [nodes |-> [i \in Inodes |->
                       IF i = d THEN [db.nodes[i] EXCEPT !.rev = @ + Cardinality(gone)]
                       ELSE IF i \in kids THEN [db.nodes[i] EXCEPT !.ref = NoRef]
                       ELSE db.nodes[i]],
         dent  |-> [db.dent EXCEPT ![d] = [n \in Names |-> Absent]]]

PublishCommit(c) ==
    LET d == cl[c].cur
        inodes == {n \in Names : dent[d][n].t = "inode"}
        node == [nodes[d] EXCEPT !.base = DirObj(Published(DB, d)), !.state = "overlay",
                                 !.rev = @ + 1]
        db == DropDentries([DB EXCEPT !.nodes[d] = node], d)
    IN  /\ cl[c].pc = "pub"
        /\ Become(c, Idle) /\ UNCHANGED <<stat, ops>>
        /\ IF IsDir(DB, d) /\ \A n \in inodes : ChildObj(DB, dent[d][n]) # NoObj
           THEN nodes' = db.nodes /\ dent' = db.dent
           ELSE UNCHANGED <<nodes, dent>>

FinalizeFile(i) ==
    /\ nodes[i].state = "working"
    /\ \E f \in Files : nodes' = [nodes EXCEPT ![i].state = "finalized", ![i].base = FileObj(f)]
    /\ UNCHANGED <<dent, stat, cl, ops>>

-----------------------------------------------------------------------------
Init ==
    /\ \E tree \in InitTrees : nodes = tree.nodes /\ dent = tree.dent
    /\ stat = [f \in Files |-> 0]
    /\ cl = [c \in Clients |-> Idle]
    /\ ops = 0

Next ==
    \/ \E c \in Clients, op \in Calls, p \in Paths : Call(c, op, p, <<>>)
    \/ \E c \in Movers, p \in Paths, q \in Paths : Call(c, "move", p, q)
    \/ \E c \in Clients :
         \/ WalkLook(c) \/ WalkResolve(c) \/ WalkMake(c)
         \/ ExecCreate(c)
         \/ DeleteRev(c) \/ DeleteLook(c) \/ DeleteWrite(c)
         \/ MoveRevs(c) \/ MovePlan(c) \/ MoveApply(c)
         \/ PublishFind(c) \/ PublishCommit(c)
    \/ \E i \in Inodes : FinalizeFile(i)

Spec == Init /\ [][Next]_vars

-----------------------------------------------------------------------------
(* Properties.                                                              *)

\* The rows keep their shapes.
TypeOK ==
    /\ \A i \in Inodes :
         /\ nodes[i].state \in {"free", "dir", "overlay", "working", "finalized"}
         /\ nodes[i].rev \in Nat
         /\ nodes[i].ref \in {NoRef} \cup (Inodes \X Names)
         /\ \A n \in Names : dent[i][n].t \in {"absent", "tomb", "link", "inode", "obj"}
    /\ stat \in [Files -> Nat]
    /\ ops \in 0 .. MaxOps

\* An inode's ref_by and the dentries tell the same story: the dentry it
\* names targets it, and a dentry that targets an inode is the one it names,
\* so no inode has two names (handle_create_dentry, handle_replace_target,
\* handle_delete_dentry, through every handler that uses them).
RefExact == RefsAgree(DB)

\* No directory is below itself: of any inodes, one has no name or has it in a
\* directory that is not among them, so ref_by never leads round in a circle
\* (handle_move_path and the path check of the client).
Acyclic ==
    \A S \in SUBSET Inodes : S # {} =>
        \E i \in S : nodes[i].ref[1] \notin S

\* Each file object's obj_stat covers the dentries that name it, whatever is
\* moved, overwritten or deleted in between (handle_set_file, handle_obj_stat_bump).
StatCovers ==
    \A f \in Files : Cardinality(FileEntries(dent, f)) <= stat[f]

\* A move that commits finds both directories as they were when it read
\* their revisions: nothing another client wrote in between is overwritten
\* or moved in its place (handle_move_path, apply_move_plan_txn).
MoveSeesItsPlan ==
    \A c \in Clients :
        cl[c].pc = "apply" /\ Moved(cl[c]).ok =>
            cl[c].seen = <<dent[cl[c].p1], dent[cl[c].cur]>>

\* The records that handlers keep by hand agree: ref_by with the dentries, and
\* obj_stat with the objects they name.
RecordsAgree == TypeOK /\ RefExact /\ StatCovers
=============================================================================
