-------------------------- MODULE FsMetaTreeProofs --------------------------
(***************************************************************************)
(* Theorems about the directory tree: the records the handlers keep by hand *)
(* agree, a listing shows what a path walk finds, a move that commits finds *)
(* both directories as it read them, and while one client moves no          *)
(* directory is below itself.                                               *)
(***************************************************************************)
EXTENDS FsMetaTree, FiniteSetTheorems, WellFoundedInduction, TLAPS

-----------------------------------------------------------------------------
(* The inductive invariant.                                                 *)

\* a client's call; what it holds of targets and directories is taken from vals
CallRows(vals) ==
    [pc : {"idle", "look", "resolve", "make", "exec", "dlook", "dwrite", "revs", "plan", "apply", "find", "pub"},
     op : {"-", "move", "create_dir", "set_file", "set_dir", "symlink", "delete", "publish"},
     path : Seq(Names), dst : Seq(Names), walk : Seq(Names), cur : Inodes, p1 : Inodes \cup {0},
     r1 : Nat, r2 : Nat, t : vals, seen : vals]

\* the shapes of the state, over objects objs and values vals
Shape(objs, vals) ==
    /\ DB \in Tables(objs)
    /\ cl \in [Clients -> CallRows(vals)]
    /\ stat \in [Files -> Nat] /\ ops \in 0 .. MaxOps

\* RefsAgree, read as one equivalence
Agree(db) == \A i, d \in Inodes, n \in Names : db.nodes[i].ref = <<d, n>> <=> db.dent[d][n] = ToInode(i)

\* the records agree, a row that is not there is blank, no directory is its
\* own child
Sound(db) ==
    /\ Agree(db)
    /\ \A i \in Inodes : db.nodes[i].state = "free" => db.nodes[i].ref = NoRef /\ db.nodes[i].rev = 0
    /\ \A i \in Inodes, n \in Names : db.dent[i][n] # ToInode(i)

\* where a call is in its path
PlaceOK(r) ==
    /\ r.pc # "idle" => r.path \in Paths /\ (r.op = "move" => r.dst \in Paths)
    /\ r.pc \in {"look", "resolve", "make"} => r.walk # <<>>
    /\ r.pc \in {"revs", "plan", "apply"} => r.op = "move"

\* what a move has read still holds, or the revisions tell
PlanOK(r, db) ==
    /\ r.pc \in {"plan", "apply"} =>
          /\ IsDir(db, r.p1) /\ IsDir(db, r.cur)
          /\ r.r1 <= db.nodes[r.p1].rev /\ r.r2 <= db.nodes[r.cur].rev
          /\ db.nodes[r.p1].rev = r.r1 /\ db.nodes[r.cur].rev = r.r2 => r.seen = <<db.dent[r.p1], db.dent[r.cur]>>
    /\ r.pc = "apply" =>
          /\ db.nodes[r.p1].rev = r.r1 => r.t = db.dent[r.p1][Name(r.path)]
          /\ r.t # ToInode(r.cur)

CallsOK == \A c \in Clients : PlaceOK(cl[c]) /\ PlanOK(cl[c], DB)

TreeParts == Sound(DB) /\ StatCovers /\ CallsOK

TreeInv == TreeParts /\ \E objs, vals : Shape(objs, vals)

-----------------------------------------------------------------------------
(* Rows.                                                                    *)

LEMMA TargetFacts ==
    /\ Absent.t = "absent" /\ Tombstone.t = "tomb" /\ SymLink.t = "link"
    /\ \A i : ToInode(i).t = "inode" /\ ToInode(i).i = i
    /\ \A o : ToObj(o).t = "obj" /\ ToObj(o).o = o
BY DEF Absent, Tombstone, SymLink, ToInode, ToObj, Target

LEMMA InodeTarget ==
    ASSUME NEW objs, NEW t \in Targets(objs), t.t = "inode"
    PROVE  t.i \in Inodes /\ t = ToInode(t.i)
<1>1. t \in {ToInode(i) : i \in Inodes}
  BY TargetFacts DEF Targets
<1>2. PICK i \in Inodes : t = ToInode(i)
  BY <1>1
<1> QED BY <1>2, TargetFacts

\* dentries with one of them put in place
Over(dents, d, n, t) == [dents EXCEPT ![d] = [@ EXCEPT ![n] = t]]

LEMMA OverIs ==
    ASSUME NEW objs, NEW db \in Tables(objs), NEW d \in Inodes, NEW n \in Names, NEW t \in Targets(objs)
    PROVE  /\ Over(db.dent, d, n, t)[d][n] = t
           /\ \A e \in Inodes, m \in Names : <<e, m>> # <<d, n>> => Over(db.dent, d, n, t)[e][m] = db.dent[e][m]
           /\ \A e \in Inodes : e # d => Over(db.dent, d, n, t)[e] = db.dent[e]
BY DEF Over, Tables

LEMMA BumpIs ==
    ASSUME NEW objs, NEW db \in Tables(objs), NEW d \in Inodes
    PROVE  /\ Bump(db, d) \in Tables(objs) /\ Bump(db, d).dent = db.dent
           /\ Bump(db, d).nodes[d].rev = db.nodes[d].rev + 1
           /\ \A i \in Inodes : i # d => Bump(db, d).nodes[i].rev = db.nodes[i].rev
           /\ \A i \in Inodes : /\ Bump(db, d).nodes[i].state = db.nodes[i].state
                                /\ Bump(db, d).nodes[i].base = db.nodes[i].base
                                /\ Bump(db, d).nodes[i].ref = db.nodes[i].ref
<1>1. db.nodes \in [Inodes -> NodeRows(objs)] /\ db.dent \in [Inodes -> [Names -> Targets(objs)]]
  BY DEF Tables
<1>2. PICK x \in NodeRows(objs) : x = [db.nodes[d] EXCEPT !.rev = @ + 1]
  <2>1. PICK y \in NodeRows(objs) : y = db.nodes[d]
    BY <1>1
  <2>2. PICK k \in Nat : k = y.rev + 1
    BY DEF NodeRows
  <2>3. PICK x : x = [y EXCEPT !.rev = k]
    OBVIOUS
  <2>4. x \in NodeRows(objs)
    BY <2>3 DEF NodeRows
  <2> QED BY <2>1, <2>2, <2>3, <2>4
<1>3. /\ x.rev = db.nodes[d].rev + 1 /\ x.state = db.nodes[d].state /\ x.base = db.nodes[d].base
      /\ x.ref = db.nodes[d].ref
  BY <1>1, <1>2 DEF NodeRows
<1>4. Bump(db, d) = [db EXCEPT !.nodes = [db.nodes EXCEPT ![d] = x]]
  BY <1>1, <1>2 DEF Bump, Tables
<1>5. Bump(db, d) = [nodes |-> [db.nodes EXCEPT ![d] = x], dent |-> db.dent]
  BY <1>4 DEF Tables
<1>6. [db.nodes EXCEPT ![d] = x] \in [Inodes -> NodeRows(objs)]
  BY <1>1
<1> QED BY <1>1, <1>3, <1>5, <1>6 DEF Tables

LEMMA PutIs ==
    ASSUME NEW objs, NEW db \in Tables(objs), NEW d \in Inodes, NEW n \in Names, NEW t \in Targets(objs)
    PROVE  /\ Put(db, d, n, t) \in Tables(objs) /\ Put(db, d, n, t).nodes = db.nodes
           /\ Put(db, d, n, t).dent = Over(db.dent, d, n, t)
<1>1. db.nodes \in [Inodes -> NodeRows(objs)] /\ db.dent \in [Inodes -> [Names -> Targets(objs)]]
  BY DEF Tables
<1>2. PICK x \in [Names -> Targets(objs)] : x = [db.dent[d] EXCEPT ![n] = t]
  BY <1>1
<1>3. Put(db, d, n, t) = [db EXCEPT !.dent = [db.dent EXCEPT ![d] = x]]
  BY <1>1, <1>2 DEF Put, Tables
<1>4. Put(db, d, n, t) = [nodes |-> db.nodes, dent |-> [db.dent EXCEPT ![d] = x]]
  BY <1>3 DEF Tables
<1> QED BY <1>1, <1>2, <1>4 DEF Tables, Over

\* two states of the tables with the same directories and files, at the same
\* revisions
SameRows(db, new) ==
    \A i \in Inodes : new.nodes[i].state = db.nodes[i].state /\ new.nodes[i].base = db.nodes[i].base
SameRevs(db, new) == \A i \in Inodes : new.nodes[i].rev = db.nodes[i].rev

SetRef(db, j, v) == [db EXCEPT !.nodes[j].ref = v]

LEMMA RefSet ==
    ASSUME NEW objs, NEW db \in Tables(objs), NEW j \in Inodes, NEW v \in {NoRef} \cup (Inodes \X Names)
    PROVE  /\ SetRef(db, j, v) \in Tables(objs) /\ SetRef(db, j, v).dent = db.dent
           /\ SameRows(db, SetRef(db, j, v)) /\ SameRevs(db, SetRef(db, j, v))
           /\ SetRef(db, j, v).nodes[j].ref = v
           /\ \A i \in Inodes : i # j => SetRef(db, j, v).nodes[i].ref = db.nodes[i].ref
<1>1. db.nodes \in [Inodes -> NodeRows(objs)] /\ db.dent \in [Inodes -> [Names -> Targets(objs)]]
  BY DEF Tables
<1>2. PICK x \in NodeRows(objs) : x = [db.nodes[j] EXCEPT !.ref = v]
  <2>1. PICK y \in NodeRows(objs) : y = db.nodes[j]
    BY <1>1
  <2>2. PICK x : x = [y EXCEPT !.ref = v]
    OBVIOUS
  <2>3. x \in NodeRows(objs)
    BY <2>2 DEF NodeRows
  <2> QED BY <2>1, <2>2, <2>3
<1>3. x.ref = v /\ x.state = db.nodes[j].state /\ x.base = db.nodes[j].base /\ x.rev = db.nodes[j].rev
  BY <1>1, <1>2 DEF NodeRows
<1>4. SetRef(db, j, v) = [db EXCEPT !.nodes = [db.nodes EXCEPT ![j] = x]]
  BY <1>1, <1>2 DEF Tables, SetRef
<1>5. SetRef(db, j, v) = [nodes |-> [db.nodes EXCEPT ![j] = x], dent |-> db.dent]
  BY <1>4 DEF Tables
<1>6. PICK rows \in [Inodes -> NodeRows(objs)] : rows = [db.nodes EXCEPT ![j] = x]
  BY <1>1
<1>7. rows[j] = x /\ \A i \in Inodes : i # j => rows[i] = db.nodes[i]
  BY <1>1, <1>6
<1>8. PICK new : new = SetRef(db, j, v) /\ new = [nodes |-> rows, dent |-> db.dent]
  BY <1>5, <1>6
<1>9. new \in Tables(objs) /\ new.nodes = rows /\ new.dent = db.dent
  BY <1>1, <1>8 DEF Tables
<1>10. SameRows(db, new) /\ SameRevs(db, new) /\ new.nodes[j].ref = v
  BY <1>3, <1>7, <1>9 DEF SameRows, SameRevs
<1> QED BY <1>7, <1>8, <1>9, <1>10

LEMMA UnrefIs ==
    ASSUME NEW objs, NEW db \in Tables(objs), NEW d \in Inodes, NEW n \in Names, NEW t \in Targets(objs)
    PROVE  /\ Unref(db, d, n, t) \in Tables(objs) /\ Unref(db, d, n, t).dent = db.dent
           /\ SameRows(db, Unref(db, d, n, t)) /\ SameRevs(db, Unref(db, d, n, t))
           /\ \A i \in Inodes : Unref(db, d, n, t).nodes[i].ref =
                 IF t = ToInode(i) /\ db.nodes[i].ref = <<d, n>> THEN NoRef ELSE db.nodes[i].ref
<1>1. CASE t.t = "inode" /\ db.nodes[t.i].ref = <<d, n>>
  <2>1. t.i \in Inodes /\ t = ToInode(t.i)
    BY <1>1, InodeTarget
  <2>2. Unref(db, d, n, t) = SetRef(db, t.i, NoRef)
    BY <1>1 DEF Unref, SetRef
  <2>3. \A i \in Inodes : t = ToInode(i) <=> i = t.i
    BY <2>1, TargetFacts
  <2>4. PICK new \in Tables(objs) :
           /\ new = SetRef(db, t.i, NoRef) /\ new.dent = db.dent
           /\ SameRows(db, new) /\ SameRevs(db, new) /\ new.nodes[t.i].ref = NoRef
           /\ \A i \in Inodes : i # t.i => new.nodes[i].ref = db.nodes[i].ref
    BY <2>1, RefSet
  <2> QED BY <1>1, <2>2, <2>3, <2>4
<1>2. CASE ~(t.t = "inode" /\ db.nodes[t.i].ref = <<d, n>>)
  <2>1. Unref(db, d, n, t) = db
    BY <1>2 DEF Unref
  <2>2. \A i \in Inodes : t = ToInode(i) => db.nodes[i].ref # <<d, n>>
    BY <1>2, TargetFacts
  <2> QED BY <2>1, <2>2 DEF SameRows, SameRevs
<1> QED BY <1>1, <1>2

LEMMA RefIs ==
    ASSUME NEW objs, NEW db \in Tables(objs), NEW d \in Inodes, NEW n \in Names, NEW t \in Targets(objs)
    PROVE  /\ Ref(db, d, n, t) \in Tables(objs) /\ Ref(db, d, n, t).dent = db.dent
           /\ SameRows(db, Ref(db, d, n, t)) /\ SameRevs(db, Ref(db, d, n, t))
           /\ \A i \in Inodes : Ref(db, d, n, t).nodes[i].ref =
                 IF t = ToInode(i) THEN <<d, n>> ELSE db.nodes[i].ref
<1>1. CASE t.t = "inode"
  <2>1. t.i \in Inodes /\ t = ToInode(t.i)
    BY <1>1, InodeTarget
  <2>2. Ref(db, d, n, t) = SetRef(db, t.i, <<d, n>>)
    BY <1>1 DEF Ref, SetRef
  <2>3. \A i \in Inodes : t = ToInode(i) <=> i = t.i
    BY <2>1, TargetFacts
  <2>4. PICK v \in {NoRef} \cup (Inodes \X Names) : v = <<d, n>>
    OBVIOUS
  <2>5. PICK new \in Tables(objs) :
           /\ new = SetRef(db, t.i, v) /\ new.dent = db.dent
           /\ SameRows(db, new) /\ SameRevs(db, new) /\ new.nodes[t.i].ref = v
           /\ \A i \in Inodes : i # t.i => new.nodes[i].ref = db.nodes[i].ref
    BY <2>1, RefSet
  <2> QED BY <2>2, <2>3, <2>4, <2>5
<1>2. CASE t.t # "inode"
  <2>1. Ref(db, d, n, t) = db
    BY <1>2 DEF Ref
  <2>2. \A i \in Inodes : t # ToInode(i)
    BY <1>2, TargetFacts
  <2> QED BY <2>1, <2>2 DEF SameRows, SameRevs
<1> QED BY <1>1, <1>2

-----------------------------------------------------------------------------
(* A dentry put over what was there, its inode's ref_by with it.            *)

Freed(db, d, n, t) == Unref(Put(db, d, n, t), d, n, db.dent[d][n])
Entered(db, d, n, t) == Bump(Ref(Freed(db, d, n, t), d, n, t), d)

LEMMA FreedIs ==
    ASSUME NEW objs, NEW db \in Tables(objs), NEW d \in Inodes, NEW n \in Names, NEW t \in Targets(objs)
    PROVE  /\ Freed(db, d, n, t) \in Tables(objs)
           /\ Freed(db, d, n, t).dent = Over(db.dent, d, n, t)
           /\ SameRows(db, Freed(db, d, n, t)) /\ SameRevs(db, Freed(db, d, n, t))
           /\ \A i \in Inodes : Freed(db, d, n, t).nodes[i].ref =
                 IF db.dent[d][n] = ToInode(i) /\ db.nodes[i].ref = <<d, n>> THEN NoRef ELSE db.nodes[i].ref
<1>1. PICK p \in Tables(objs) : /\ p = Put(db, d, n, t) /\ p.nodes = db.nodes
                                /\ p.dent = Over(db.dent, d, n, t)
  BY PutIs
<1>2. PICK old \in Targets(objs) : old = db.dent[d][n]
  BY DEF Tables
<1>3. Freed(db, d, n, t) = Unref(p, d, n, old)
  BY <1>1, <1>2 DEF Freed
<1>4. /\ Unref(p, d, n, old) \in Tables(objs) /\ Unref(p, d, n, old).dent = p.dent
      /\ SameRows(p, Unref(p, d, n, old)) /\ SameRevs(p, Unref(p, d, n, old))
      /\ \A i \in Inodes : Unref(p, d, n, old).nodes[i].ref =
            IF old = ToInode(i) /\ p.nodes[i].ref = <<d, n>> THEN NoRef ELSE p.nodes[i].ref
  BY UnrefIs
<1> QED BY <1>1, <1>2, <1>3, <1>4 DEF SameRows, SameRevs

Entry(db, new, d, n, t) ==
    /\ new.dent = Over(db.dent, d, n, t)
    /\ SameRows(db, new)
    /\ new.nodes[d].rev = db.nodes[d].rev + 1
    /\ \A i \in Inodes : i # d => new.nodes[i].rev = db.nodes[i].rev
    /\ \A i \in Inodes : new.nodes[i].ref =
          IF t = ToInode(i) THEN <<d, n>>
          ELSE IF db.dent[d][n] = ToInode(i) /\ db.nodes[i].ref = <<d, n>> THEN NoRef
          ELSE db.nodes[i].ref

LEMMA EnteredIs ==
    ASSUME NEW objs, NEW db \in Tables(objs), NEW d \in Inodes, NEW n \in Names, NEW t \in Targets(objs)
    PROVE  Entered(db, d, n, t) \in Tables(objs) /\ Entry(db, Entered(db, d, n, t), d, n, t)
<1>1. PICK f \in Tables(objs) :
         /\ f = Freed(db, d, n, t) /\ f.dent = Over(db.dent, d, n, t)
         /\ SameRows(db, f) /\ SameRevs(db, f)
         /\ \A i \in Inodes : f.nodes[i].ref =
               IF db.dent[d][n] = ToInode(i) /\ db.nodes[i].ref = <<d, n>> THEN NoRef ELSE db.nodes[i].ref
  BY FreedIs
<1>2. PICK g \in Tables(objs) :
         /\ g = Ref(f, d, n, t) /\ g.dent = f.dent /\ SameRows(f, g) /\ SameRevs(f, g)
         /\ \A i \in Inodes : g.nodes[i].ref = IF t = ToInode(i) THEN <<d, n>> ELSE f.nodes[i].ref
  BY RefIs
<1>3. PICK b \in Tables(objs) :
         /\ b = Bump(g, d) /\ b.dent = g.dent /\ b.nodes[d].rev = g.nodes[d].rev + 1
         /\ \A i \in Inodes : i # d => b.nodes[i].rev = g.nodes[i].rev
         /\ SameRows(g, b) /\ \A i \in Inodes : b.nodes[i].ref = g.nodes[i].ref
  BY BumpIs DEF SameRows
<1>4. Entered(db, d, n, t) = b
  BY <1>1, <1>2, <1>3 DEF Entered
<1>5. Entry(db, b, d, n, t)
  BY <1>1, <1>2, <1>3 DEF SameRows, SameRevs, Entry
<1> QED BY <1>4, <1>5

LEMMA AgreeForm ==
    ASSUME NEW objs, NEW db \in Tables(objs)
    PROVE  RefsAgree(db) <=> Agree(db)
<1>1. \A d \in Inodes, n \in Names : db.dent[d][n] \in Targets(objs)
  BY DEF Tables
<1>2. \A i, d \in Inodes, n \in Names : db.dent[d][n].t = "inode" /\ db.dent[d][n].i = i <=> db.dent[d][n] = ToInode(i)
  BY <1>1, InodeTarget, TargetFacts
<1>3. \A i \in Inodes : db.nodes[i].ref \in {NoRef} \cup (Inodes \X Names)
  BY DEF Tables, NodeRows
<1>4. \A d \in Inodes, n \in Names : <<d, n>> # NoRef
  BY TreeAssumption DEF NoRef, Inodes
<1>5. ASSUME RefsAgree(db) PROVE Agree(db)
  <2> SUFFICES ASSUME NEW i \in Inodes, NEW d \in Inodes, NEW n \in Names
               PROVE  db.nodes[i].ref = <<d, n>> <=> db.dent[d][n] = ToInode(i)
    BY DEF Agree
  <2>1. ASSUME db.nodes[i].ref = <<d, n>> PROVE db.dent[d][n] = ToInode(i)
    <3>1. db.nodes[i].ref # NoRef /\ db.nodes[i].ref[1] = d /\ db.nodes[i].ref[2] = n
      BY <1>4, <2>1
    <3>2. db.dent[db.nodes[i].ref[1]][db.nodes[i].ref[2]] = ToInode(i)
      BY <1>5, <3>1 DEF RefsAgree
    <3> QED BY <3>1, <3>2
  <2>2. ASSUME db.dent[d][n] = ToInode(i) PROVE db.nodes[i].ref = <<d, n>>
    <3>1. db.dent[d][n].t = "inode" /\ db.dent[d][n].i = i
      BY <1>2, <2>2
    <3> QED BY <1>5, <3>1 DEF RefsAgree
  <2> QED BY <2>1, <2>2
<1>6. ASSUME Agree(db) PROVE RefsAgree(db)
  <2> SUFFICES ASSUME NEW i \in Inodes
               PROVE  /\ db.nodes[i].ref # NoRef => db.dent[db.nodes[i].ref[1]][db.nodes[i].ref[2]] = ToInode(i)
                      /\ \A d \in Inodes, n \in Names :
                            db.dent[d][n].t = "inode" /\ db.dent[d][n].i = i => db.nodes[i].ref = <<d, n>>
    BY DEF RefsAgree
  <2>1. ASSUME db.nodes[i].ref # NoRef PROVE db.dent[db.nodes[i].ref[1]][db.nodes[i].ref[2]] = ToInode(i)
    <3>1. PICK d \in Inodes, n \in Names : db.nodes[i].ref = <<d, n>>
      BY <1>3, <2>1
    <3> QED BY <1>6, <3>1 DEF Agree
  <2> QED BY <1>2, <1>6, <2>1 DEF Agree
<1> QED BY <1>5, <1>6

\* the inode is there, and no other dentry targets it
LinkFree(db, d, n, t) ==
    \A i \in Inodes : t = ToInode(i) =>
        /\ Exists(db, i)
        /\ \A e \in Inodes, m \in Names : <<e, m>> # <<d, n>> => db.dent[e][m] # ToInode(i)

LEMMA EnteredAgrees ==
    ASSUME NEW objs, NEW db \in Tables(objs), NEW d \in Inodes, NEW n \in Names, NEW t \in Targets(objs),
           Agree(db), LinkFree(db, d, n, t)
    PROVE  Agree(Entered(db, d, n, t))
<1>1. PICK new \in Tables(objs) : new = Entered(db, d, n, t) /\ Entry(db, new, d, n, t)
  BY EnteredIs
<1>2. new.dent[d][n] = t /\ \A e \in Inodes, m \in Names : <<e, m>> # <<d, n>> => new.dent[e][m] = db.dent[e][m]
  BY <1>1, OverIs DEF Entry
<1>3. \A e \in Inodes, m \in Names : <<e, m>> # NoRef
  BY TreeAssumption DEF NoRef, Inodes
<1>4. ASSUME NEW i \in Inodes, NEW e \in Inodes, NEW m \in Names
      PROVE  new.nodes[i].ref = <<e, m>> <=> new.dent[e][m] = ToInode(i)
  <2>1. CASE t = ToInode(i)
    BY <1>1, <1>2, <2>1 DEF LinkFree, Entry
  <2>2. CASE t # ToInode(i) /\ db.dent[d][n] = ToInode(i)
    BY <1>1, <1>2, <1>3, <2>2 DEF Agree, Entry
  <2>3. CASE t # ToInode(i) /\ db.dent[d][n] # ToInode(i)
    BY <1>1, <1>2, <2>3 DEF Agree, Entry
  <2> QED BY <2>1, <2>2, <2>3
<1> QED BY <1>1, <1>4 DEF Agree

\* upsert_dentry_with_parent_rev: all or nothing
LEMMA UpsertIs ==
    ASSUME NEW objs, NEW db \in Tables(objs), NEW d \in Inodes, NEW n \in Names, NEW t \in Targets(objs), NEW rev
    PROVE  \/ Upsert(db, d, n, t, rev).db = db /\ (Upsert(db, d, n, t, rev).ok => db.dent[d][n] = t)
           \/ Upsert(db, d, n, t, rev).db = Entered(db, d, n, t) /\ LinkFree(db, d, n, t) /\ Exists(db, d)
<1> DEFINE old == db.dent[d][n]
<1>1. \A x : Done(x).ok /\ Done(x).db = x /\ Fail(x).db = x /\ ~Fail(x).ok
  BY DEF Done, Fail
<1>2. \A e \in Inodes, m \in Names : db.dent[e][m] \in Targets(objs)
  BY DEF Tables
<1>3. CASE old = Absent
  <2>1. Upsert(db, d, n, t, rev) = CreateDentry(db, d, n, t, rev)
    BY <1>3 DEF Upsert
  <2>2. CASE RevMatches(db, d, rev) /\ Linkable(db, d, n, t)
    <3>1. Upsert(db, d, n, t, rev) = Done(Bump(Ref(Put(db, d, n, t), d, n, t), d))
      BY <1>3, <2>1, <2>2 DEF CreateDentry
    <3>2. Freed(db, d, n, t) = Put(db, d, n, t)
      BY <1>3, TargetFacts DEF Freed, Unref
    <3>3. Upsert(db, d, n, t, rev).db = Entered(db, d, n, t)
      BY <1>1, <3>1, <3>2 DEF Entered
    <3>4. LinkFree(db, d, n, t)
      BY <2>2, TargetFacts DEF Linkable, LinkFree
    <3> QED BY <2>2, <3>3, <3>4 DEF RevMatches
  <2>3. CASE ~(RevMatches(db, d, rev) /\ Linkable(db, d, n, t))
    BY <1>1, <2>1, <2>3 DEF CreateDentry
  <2> QED BY <2>2, <2>3
<1>4. CASE old # Absent
  <2>1. Upsert(db, d, n, t, rev) = ReplaceTarget(db, d, n, old, t, rev)
    BY <1>4 DEF Upsert
  <2>2. CASE RevMatches(db, d, rev) /\ old # t /\ Linkable(Freed(db, d, n, t), d, n, t)
    <3>1. Upsert(db, d, n, t, rev) = Done(Entered(db, d, n, t))
      BY <1>4, <2>1, <2>2 DEF ReplaceTarget, Freed, Entered
    <3>2. Freed(db, d, n, t).dent = Over(db.dent, d, n, t)
      BY FreedIs
    <3>3. \A e \in Inodes, m \in Names : <<e, m>> # <<d, n>> => Freed(db, d, n, t).dent[e][m] = db.dent[e][m]
      BY <3>2, OverIs
    <3>4. \A i \in Inodes : Exists(Freed(db, d, n, t), i) => Exists(db, i)
      <4>1. SameRows(db, Freed(db, d, n, t))
        BY FreedIs
      <4> QED BY <4>1 DEF SameRows, Exists
    <3>5. LinkFree(db, d, n, t)
      BY <2>2, <3>3, <3>4, TargetFacts DEF Linkable, LinkFree
    <3> QED BY <1>1, <2>2, <3>1, <3>5 DEF RevMatches
  <2>3. CASE ~(RevMatches(db, d, rev) /\ old # t /\ Linkable(Freed(db, d, n, t), d, n, t))
    <3>1. Upsert(db, d, n, t, rev) = Fail(db) \/ (old = t /\ Upsert(db, d, n, t, rev) = Done(db))
      BY <1>4, <2>1, <2>3 DEF ReplaceTarget, Freed
    <3> QED BY <1>1, <3>1
  <2> QED BY <2>2, <2>3
<1> QED BY <1>3, <1>4

-----------------------------------------------------------------------------
(* How the tables may grow.                                                 *)

\* a directory that changes has a new revision
Grown(db, new) ==
    \A i \in Inodes :
        /\ new.nodes[i].rev >= db.nodes[i].rev
        /\ new.nodes[i].rev = db.nodes[i].rev => new.dent[i] = db.dent[i]
        /\ IsDir(db, i) => IsDir(new, i)

\* the inodes that dentries target are named as before, or not at all
Fewer(old, new) == \A d, i \in Inodes, n \in Names : new[d][n] = ToInode(i) => old[d][n] = ToInode(i)

\* a directory that was not there, and at most its dentry
Budded(new, d, n) ==
    /\ IsDir(DB, d) /\ n \in Names /\ ~Exists(DB, new) /\ IsDir(DB', new)
    /\ dent' \in {dent, Over(dent, d, n, ToInode(new))}

\* the inode t targets has its dentry at one place, every other where it was
Relinked(old, new, t, d, n) ==
    \A e, i \in Inodes, m \in Names : new[e][m] = ToInode(i) =>
        \/ t = ToInode(i) /\ <<e, m>> = <<d, n>>
        \/ t # ToInode(i) /\ old[e][m] = ToInode(i)

LEMMA FewerOver ==
    ASSUME NEW objs, NEW db \in Tables(objs), NEW d \in Inodes, NEW n \in Names, NEW t \in Targets(objs),
           \A i \in Inodes : t # ToInode(i), NEW dents \in {db.dent, Over(db.dent, d, n, t)}
    PROVE  Fewer(db.dent, dents)
<1>1. CASE dents = db.dent
  BY <1>1 DEF Fewer
<1>2. CASE dents = Over(db.dent, d, n, t)
  BY <1>2, OverIs DEF Fewer
<1> QED BY <1>1, <1>2

LEMMA GrownOnce ==
    ASSUME NEW objs, NEW db \in Tables(objs)
    PROVE  Grown(db, db)
BY DEF Grown, Tables, NodeRows

LEMMA GrownTwice ==
    ASSUME NEW objs, NEW a \in Tables(objs), NEW b \in Tables(objs), NEW c \in Tables(objs), Grown(a, b), Grown(b, c)
    PROVE  Grown(a, c)
<1>1. \A i \in Inodes : a.nodes[i].rev \in Nat /\ b.nodes[i].rev \in Nat /\ c.nodes[i].rev \in Nat
  BY DEF Tables, NodeRows
<1> QED BY <1>1 DEF Grown

LEMMA EnteredSound ==
    ASSUME NEW objs, NEW db \in Tables(objs), NEW d \in Inodes, NEW n \in Names, NEW t \in Targets(objs),
           Sound(db), LinkFree(db, d, n, t), Exists(db, d), t # ToInode(d)
    PROVE  Sound(Entered(db, d, n, t)) /\ Grown(db, Entered(db, d, n, t))
<1>1. PICK new \in Tables(objs) : new = Entered(db, d, n, t) /\ Entry(db, new, d, n, t)
  BY EnteredIs
<1>2. Agree(new)
  BY <1>1, EnteredAgrees DEF Sound
<1>3. \A i \in Inodes : new.nodes[i].state = "free" => new.nodes[i].ref = NoRef /\ new.nodes[i].rev = 0
  <2> SUFFICES ASSUME NEW i \in Inodes, new.nodes[i].state = "free"
               PROVE  new.nodes[i].ref = NoRef /\ new.nodes[i].rev = 0
    OBVIOUS
  <2>1. db.nodes[i].state = "free" /\ i # d /\ t # ToInode(i)
    BY <1>1 DEF SameRows, Exists, LinkFree, Entry
  <2>2. db.nodes[i].ref = NoRef /\ db.nodes[i].rev = 0
    BY <2>1 DEF Sound
  <2> QED BY <1>1, <2>1, <2>2 DEF Entry
<1>4. new.dent[d][n] = t /\ \A e \in Inodes, m \in Names : <<e, m>> # <<d, n>> => new.dent[e][m] = db.dent[e][m]
  BY <1>1, OverIs DEF Entry
<1>5. \A i \in Inodes, m \in Names : new.dent[i][m] # ToInode(i)
  BY <1>4 DEF Sound
<1>6. Grown(db, new)
  <2>1. \A i \in Inodes : db.nodes[i].rev \in Nat
    BY DEF Tables, NodeRows
  <2>2. \A i \in Inodes : i # d => new.dent[i] = db.dent[i]
    BY <1>1, OverIs DEF Entry
  <2> QED BY <1>1, <2>1, <2>2 DEF Grown, SameRows, IsDir, Entry
<1> QED BY <1>1, <1>2, <1>3, <1>5, <1>6 DEF Sound

\* What upserting a dentry does to tables that are sound.
LEMMA UpsertSound ==
    ASSUME NEW objs, NEW db \in Tables(objs), NEW d \in Inodes, NEW n \in Names, NEW t \in Targets(objs), NEW rev,
           Sound(db), t # ToInode(d)
    PROVE  /\ Upsert(db, d, n, t, rev).db \in Tables(objs)
           /\ Sound(Upsert(db, d, n, t, rev).db) /\ Grown(db, Upsert(db, d, n, t, rev).db)
           /\ Upsert(db, d, n, t, rev).db.dent \in {db.dent, Over(db.dent, d, n, t)}
           /\ Upsert(db, d, n, t, rev).ok => Upsert(db, d, n, t, rev).db.dent[d][n] = t
<1>1. PICK u : u = Upsert(db, d, n, t, rev)
  OBVIOUS
<1>2. \/ u.db = db /\ (u.ok => db.dent[d][n] = t)
      \/ u.db = Entered(db, d, n, t) /\ LinkFree(db, d, n, t) /\ Exists(db, d)
  BY <1>1, UpsertIs
<1>3. CASE u.db = db /\ (u.ok => db.dent[d][n] = t)
  BY <1>1, <1>3, GrownOnce
<1>4. CASE u.db = Entered(db, d, n, t) /\ LinkFree(db, d, n, t) /\ Exists(db, d)
  <2>1. Sound(u.db) /\ Grown(db, u.db)
    BY <1>4, EnteredSound
  <2>2. u.db \in Tables(objs) /\ u.db.dent = Over(db.dent, d, n, t)
    <3>1. /\ Entered(db, d, n, t) \in Tables(objs)
          /\ Entry(db, Entered(db, d, n, t), d, n, t)
      BY EnteredIs
    <3> QED BY <1>4, <3>1 DEF Entry
  <2>3. u.db.dent[d][n] = t
    BY <2>2, OverIs
  <2> QED BY <1>1, <2>1, <2>2, <2>3
<1> QED BY <1>2, <1>3, <1>4

\* A new row is one that was not there.
LEMMA AllocSound ==
    ASSUME NEW objs, NEW db \in Tables(objs), Sound(db), NEW new \in NextInode(db), NEW node \in NodeRows(objs),
           node.ref = NoRef, node.rev = 0, node.state # "free"
    PROVE  /\ new \in Inodes /\ ~Exists(db, new)
           /\ AllocInode(db, new, node) \in Tables(objs) /\ AllocInode(db, new, node).dent = db.dent
           /\ AllocInode(db, new, node).nodes[new] = node
           /\ Sound(AllocInode(db, new, node)) /\ Grown(db, AllocInode(db, new, node))
<1>1. new \in Inodes /\ db.nodes[new].state = "free"
  <2>1. new \in Inodes /\ (Exists(db, new) => new < new)
    BY DEF NextInode
  <2>2. new \in Nat
    BY <2>1 DEF Inodes
  <2> QED BY <2>1, <2>2 DEF Exists
<1>2. db.nodes \in [Inodes -> NodeRows(objs)] /\ db.dent \in [Inodes -> [Names -> Targets(objs)]]
  BY DEF Tables
<1>3. PICK rows \in [Inodes -> NodeRows(objs)] : rows = [db.nodes EXCEPT ![new] = node]
  BY <1>1, <1>2
<1>4. AllocInode(db, new, node) = [nodes |-> rows, dent |-> db.dent]
  BY <1>3 DEF AllocInode, Tables
<1>5. PICK a : a = AllocInode(db, new, node) /\ a = [nodes |-> rows, dent |-> db.dent]
  BY <1>4
<1>6. a \in Tables(objs) /\ a.nodes = rows /\ a.dent = db.dent
  BY <1>2, <1>5 DEF Tables
<1>7. rows[new] = node /\ \A i \in Inodes : i # new => rows[i] = db.nodes[i]
  BY <1>1, <1>2, <1>3
<1>8. db.nodes[new].ref = NoRef /\ db.nodes[new].rev = 0
  BY <1>1 DEF Sound
<1>9. Sound(a)
  <2>1. \A i \in Inodes : a.nodes[i].ref = db.nodes[i].ref
    BY <1>6, <1>7, <1>8
  <2>2. Agree(a)
    BY <1>6, <2>1 DEF Sound, Agree
  <2> QED BY <1>6, <1>7, <2>2 DEF Sound
<1>10. Grown(db, a)
  <2>1. \A i \in Inodes : a.nodes[i].rev = db.nodes[i].rev /\ db.nodes[i].rev \in Nat
    BY <1>2, <1>6, <1>7, <1>8 DEF NodeRows
  <2> QED BY <1>1, <1>6, <1>7, <2>1 DEF Grown, IsDir
<1> QED BY <1>1, <1>5, <1>6, <1>7, <1>9, <1>10 DEF Exists

-----------------------------------------------------------------------------
(* Calls.                                                                   *)

LEMMA TablesMore ==
    ASSUME NEW objs, NEW more, objs \subseteq more
    PROVE  Tables(objs) \subseteq Tables(more)
<1>1. NodeRows(objs) \subseteq NodeRows(more)
  BY DEF NodeRows
<1>2. Targets(objs) \subseteq Targets(more)
  BY DEF Targets
<1> QED BY <1>1, <1>2 DEF Tables

LEMMA CallsMore ==
    ASSUME NEW vals, NEW more, vals \subseteq more
    PROVE  CallRows(vals) \subseteq CallRows(more)
BY DEF CallRows

\* the sets of a shape may be taken to hold what a step adds
LEMMA ShapeWith ==
    ASSUME TreeInv, NEW o, NEW v, NEW w
    PROVE  \E objs, vals : Shape(objs, vals) /\ NoObj \in objs /\ o \in objs
                           /\ Absent \in vals /\ <<>> \in vals /\ v \in vals /\ w \in vals
<1>1. PICK objs, vals : Shape(objs, vals)
  BY DEF TreeInv
<1>2. PICK O : O = objs \cup {NoObj, o}
  OBVIOUS
<1>3. PICK V : V = vals \cup {Absent, <<>>, v, w}
  OBVIOUS
<1>4. Tables(objs) \subseteq Tables(O) /\ CallRows(vals) \subseteq CallRows(V)
  BY <1>2, <1>3, TablesMore, CallsMore
<1>5. Shape(O, V)
  BY <1>1, <1>4 DEF Shape
<1> QED BY <1>2, <1>3, <1>5

LEMMA IdleRow ==
    ASSUME NEW vals, Absent \in vals, <<>> \in vals, NEW db
    PROVE  Idle \in CallRows(vals) /\ PlaceOK(Idle) /\ PlanOK(Idle, db) /\ Idle.pc = "idle"
<1>1. Root \in Inodes
  BY TreeAssumption DEF Root, Inodes
<1>2. Idle.pc = "idle"
  BY DEF Idle
<1>3. Idle \in CallRows(vals)
  BY <1>1 DEF Idle, CallRows
<1> QED BY <1>2, <1>3 DEF PlaceOK, PlanOK

LEMMA PathFacts ==
    ASSUME NEW p \in Paths
    PROVE  p \in Seq(Names) /\ ParentPath(p) \in Seq(Names) /\ Name(p) \in Names
<1>1. p \in Seq(Names) /\ Len(p) >= 1
  BY TreeAssumption
<1>2. ParentPath(p) \in Seq(Names)
  BY <1>1 DEF ParentPath
<1>3. Name(p) \in Names
  BY <1>1 DEF Name
<1> QED BY <1>1, <1>2, <1>3

\* a call on its way, before it is known where it stands
OnItsWay(r) == r.pc = "look" /\ r.path \in Paths /\ (r.op = "move" => r.dst \in Paths)

\* where ensure_dir_inode leaves a call
LEMMA ArrivedOK ==
    ASSUME NEW vals, Absent \in vals, <<>> \in vals, NEW r \in CallRows(vals), OnItsWay(r)
    PROVE  /\ Arrived(r) \in CallRows(vals)
           /\ \/ Arrived(r).pc = "look" /\ OnItsWay(Arrived(r)) /\ r.p1 = 0 /\ Arrived(r).p1 # 0
              \/ Arrived(r).pc \in {"idle", "revs", "exec"} /\ PlaceOK(Arrived(r))
<1>1. Root \in Inodes /\ 0 \notin Inodes
  BY TreeAssumption DEF Root, Inodes
<1>2. CASE r.op = "move" /\ r.p1 = 0
  <2>1. PICK w \in Seq(Names) : w = ParentPath(r.dst)
    BY <1>2, PathFacts DEF OnItsWay
  <2>2. PICK x : x = [r EXCEPT !.p1 = r.cur, !.walk = w, !.cur = Root]
    OBVIOUS
  <2>3. x \in CallRows(vals)
    BY <1>1, <2>2 DEF CallRows
  <2>4. x.pc = r.pc /\ x.path = r.path /\ x.op = r.op /\ x.dst = r.dst /\ x.p1 = r.cur
    BY <2>2 DEF CallRows
  <2>5. Arrived(r) = x
    BY <1>2, <2>1, <2>2 DEF Arrived
  <2>6. r.cur # 0
    BY <1>1 DEF CallRows
  <2> QED BY <1>2, <2>3, <2>4, <2>5, <2>6 DEF OnItsWay
<1>3. CASE r.op = "move" /\ r.p1 # 0 /\ IsDescendant(r.dst, r.path)
  <2>1. Arrived(r) = Idle
    BY <1>3 DEF Arrived
  <2> QED BY <2>1, IdleRow
<1>4. CASE r.op = "move" /\ r.p1 # 0 /\ ~IsDescendant(r.dst, r.path)
  <2>1. PICK x : x = [r EXCEPT !.pc = "revs"]
    OBVIOUS
  <2>2. x \in CallRows(vals)
    BY <2>1 DEF CallRows
  <2>3. x.pc = "revs" /\ x.path = r.path /\ x.op = r.op /\ x.dst = r.dst
    BY <2>1 DEF CallRows
  <2>4. Arrived(r) = x
    BY <1>4, <2>1 DEF Arrived
  <2> QED BY <1>4, <2>2, <2>3, <2>4 DEF OnItsWay, PlaceOK
<1>5. CASE r.op # "move"
  <2>1. PICK x : x = [r EXCEPT !.pc = "exec"]
    OBVIOUS
  <2>2. x \in CallRows(vals)
    BY <2>1 DEF CallRows
  <2>3. x.pc = "exec" /\ x.path = r.path /\ x.op = r.op /\ x.dst = r.dst
    BY <2>1 DEF CallRows
  <2>4. Arrived(r) = x
    BY <1>5, <2>1 DEF Arrived
  <2> QED BY <1>5, <2>2, <2>3, <2>4 DEF OnItsWay, PlaceOK
<1> QED BY <1>2, <1>3, <1>4, <1>5

LEMMA SettleOK ==
    ASSUME NEW vals, Absent \in vals, <<>> \in vals, NEW r \in CallRows(vals), OnItsWay(r), NEW db
    PROVE  Settle(r) \in CallRows(vals) /\ PlaceOK(Settle(r)) /\ PlanOK(Settle(r), db)
<1>1. PICK once : once = IF r.walk = <<>> THEN Arrived(r) ELSE r
  OBVIOUS
<1>2. /\ once \in CallRows(vals)
      /\ \/ OnItsWay(once) /\ (once.walk = <<>> => once.p1 # 0)
         \/ once.pc \in {"idle", "revs", "exec"} /\ PlaceOK(once)
  BY <1>1, ArrivedOK
<1>3. PICK x : x = IF once.pc = "look" /\ once.walk = <<>> THEN Arrived(once) ELSE once
  OBVIOUS
<1>4. Settle(r) = x
  BY <1>1, <1>3 DEF Settle
<1>5. CASE once.pc = "look" /\ once.walk = <<>>
  <2>1. x = Arrived(once) /\ OnItsWay(once) /\ once.p1 # 0
    BY <1>2, <1>3, <1>5
  <2>2. x \in CallRows(vals) /\ x.pc \in {"idle", "revs", "exec"} /\ PlaceOK(x)
    BY <1>2, <2>1, ArrivedOK
  <2> QED BY <1>4, <2>2 DEF PlanOK
<1>6. CASE once.pc = "look" /\ once.walk # <<>>
  BY <1>2, <1>3, <1>4, <1>6 DEF PlaceOK, PlanOK, OnItsWay
<1>7. CASE once.pc # "look"
  BY <1>2, <1>3, <1>4, <1>7 DEF PlanOK, OnItsWay
<1> QED BY <1>5, <1>6, <1>7

LEMMA HeadTail ==
    ASSUME NEW p \in Seq(Names), p # <<>>
    PROVE  Head(p) \in Names /\ Tail(p) \in Seq(Names)
OBVIOUS

LEMMA AdvanceOK ==
    ASSUME NEW vals, Absent \in vals, <<>> \in vals, NEW r \in CallRows(vals), PlaceOK(r),
           r.pc \in {"look", "resolve", "make"}, NEW i \in Inodes, NEW db
    PROVE  Advance(r, i) \in CallRows(vals) /\ PlaceOK(Advance(r, i)) /\ PlanOK(Advance(r, i), db)
<1>1. PICK w \in Seq(Names) : w = Tail(r.walk)
  <2>1. r.walk \in Seq(Names) /\ r.walk # <<>>
    BY DEF PlaceOK, CallRows
  <2> QED BY <2>1, HeadTail
<1>2. PICK x : x = [r EXCEPT !.pc = "look", !.cur = i, !.walk = w, !.t = Absent]
  OBVIOUS
<1>3. x \in CallRows(vals)
  BY <1>2 DEF CallRows
<1>4. x.pc = "look" /\ x.path = r.path /\ x.op = r.op /\ x.dst = r.dst
  BY <1>2 DEF CallRows
<1>5. OnItsWay(x)
  BY <1>4 DEF OnItsWay, PlaceOK
<1>6. Advance(r, i) = Settle(x)
  BY <1>1, <1>2 DEF Advance
<1> QED BY <1>3, <1>5, <1>6, SettleOK

\* The plan of a move still holds, or the revisions tell.
LEMMA PlanKept ==
    ASSUME NEW objs, NEW old \in Tables(objs), NEW new \in Tables(objs), Grown(old, new),
           NEW vals, NEW r \in CallRows(vals), PlanOK(r, old)
    PROVE  PlanOK(r, new)
<1>1. /\ r.cur \in Inodes /\ r.r1 \in Nat /\ r.r2 \in Nat
      /\ \A i \in Inodes : old.nodes[i].rev \in Nat /\ new.nodes[i].rev \in Nat
  BY DEF CallRows, Tables, NodeRows
<1>2. CASE r.pc \in {"plan", "apply"}
  <2>1. r.p1 \in Inodes /\ IsDir(new, r.p1) /\ IsDir(new, r.cur)
    BY <1>1, <1>2 DEF PlanOK, Grown, IsDir
  <2>2. r.r1 <= new.nodes[r.p1].rev /\ r.r2 <= new.nodes[r.cur].rev
    BY <1>1, <1>2, <2>1 DEF PlanOK, Grown
  <2>3. new.nodes[r.p1].rev = r.r1 => old.nodes[r.p1].rev = r.r1 /\ new.dent[r.p1] = old.dent[r.p1]
    BY <1>1, <1>2, <2>1 DEF PlanOK, Grown
  <2>4. new.nodes[r.cur].rev = r.r2 => old.nodes[r.cur].rev = r.r2 /\ new.dent[r.cur] = old.dent[r.cur]
    BY <1>1, <1>2, <2>1 DEF PlanOK, Grown
  <2> QED BY <1>2, <2>1, <2>2, <2>3, <2>4 DEF PlanOK
<1>3. CASE r.pc \notin {"plan", "apply"}
  BY <1>3 DEF PlanOK
<1> QED BY <1>2, <1>3

\* A step of one call on the tables.
LEMMA CallStep ==
    ASSUME NEW objs, NEW vals, Shape(objs, vals), TreeParts, NEW c \in Clients, NEW x \in CallRows(vals),
           PlaceOK(x), PlanOK(x, DB'), Become(c, x), ops' \in 0 .. MaxOps,
           DB' \in Tables(objs), Sound(DB'), Grown(DB, DB'), stat' \in [Files -> Nat], StatCovers'
    PROVE  TreeInv'
<1>1. cl \in [Clients -> CallRows(vals)] /\ DB \in Tables(objs)
  BY DEF Shape
<1>2. cl' \in [Clients -> CallRows(vals)] /\ cl'[c] = x /\ \A e \in Clients : e # c => cl'[e] = cl[e]
  BY <1>1 DEF Become
<1>3. Shape(objs, vals)'
  BY <1>2 DEF Shape
<1>4. ASSUME NEW e \in Clients PROVE PlaceOK(cl[e]) /\ PlanOK(cl[e], DB')
  BY <1>1, PlanKept DEF TreeParts, CallsOK
<1>5. CallsOK'
  BY <1>2, <1>4 DEF CallsOK
<1> QED BY <1>3, <1>5 DEF TreeInv, TreeParts

LEMMA SameDB == UNCHANGED <<nodes, dent>> => DB' = DB
BY DEF DB

LEMMA StillGrown ==
    ASSUME TreeInv, UNCHANGED <<nodes, dent>>
    PROVE  Grown(DB, DB')
<1>1. PICK objs, vals : Shape(objs, vals)
  BY DEF TreeInv
<1>2. DB \in Tables(objs) /\ DB' = DB
  BY <1>1, SameDB DEF Shape
<1> QED BY <1>2, GrownOnce

\* A step of one call that only reads.
LEMMA ReadStep ==
    ASSUME NEW objs, NEW vals, Shape(objs, vals), TreeParts, NEW c \in Clients, NEW x \in CallRows(vals),
           PlaceOK(x), PlanOK(x, DB), Become(c, x), ops' \in 0 .. MaxOps, UNCHANGED <<nodes, dent, stat>>
    PROVE  TreeInv'
<1>1. DB' = DB /\ DB \in Tables(objs) /\ stat' \in [Files -> Nat]
  BY SameDB DEF Shape
<1>2. Grown(DB, DB')
  BY <1>1, GrownOnce
<1>3. Sound(DB') /\ StatCovers'
  BY <1>1 DEF TreeParts, StatCovers
<1> QED BY <1>1, <1>2, <1>3, CallStep

-----------------------------------------------------------------------------
(* Steps that only read.                                                    *)

LEMMA NewCallStep ==
    ASSUME TreeInv, NEW c \in Clients, NEW op, NEW p \in Paths, NEW q,
           (op \in Calls /\ q = <<>>) \/ (op = "move" /\ q \in Paths), Call(c, op, p, q)
    PROVE  TreeInv'
<1>1. PICK objs, vals : Shape(objs, vals) /\ Absent \in vals /\ <<>> \in vals
  BY ShapeWith
<1>2. /\ p \in Seq(Names) /\ ParentPath(p) \in Seq(Names) /\ q \in Seq(Names)
      /\ op \in {"move", "create_dir", "set_file", "set_dir", "symlink", "delete", "publish"}
      /\ op = "move" => q \in Paths
  <2>1. p \in Seq(Names) /\ ParentPath(p) \in Seq(Names)
    BY PathFacts
  <2>2. q \in Seq(Names)
    <3>1. <<>> \in Seq(Names)
      OBVIOUS
    <3>2. CASE q \in Paths
      BY <3>2, PathFacts
    <3> QED BY <3>1, <3>2
  <2>3. /\ op \in {"move", "create_dir", "set_file", "set_dir", "symlink", "delete", "publish"}
        /\ op = "move" => q \in Paths
    BY TreeAssumption
  <2> QED BY <2>1, <2>2, <2>3
<1>3. ops' \in 0 .. MaxOps
  BY <1>1, TreeAssumption DEF Call, Shape
<1>4. Idle \in CallRows(vals)
  BY <1>1, IdleRow
<1>5. CASE op = "publish"
  <2>1. PICK x : x = [Idle EXCEPT !.pc = "find", !.op = op, !.path = p]
    OBVIOUS
  <2>2. x \in CallRows(vals) /\ x.pc = "find" /\ x.op = op /\ x.path = p
    BY <1>2, <1>4, <2>1 DEF CallRows
  <2>3. PlaceOK(x) /\ PlanOK(x, DB)
    BY <1>5, <2>2 DEF PlaceOK, PlanOK
  <2>4. Become(c, x)
    BY <1>5, <2>1 DEF Call, Become
  <2> QED BY <1>1, <1>3, <2>2, <2>3, <2>4, ReadStep DEF Call, TreeInv
<1>6. CASE op # "publish"
  <2>1. PICK w \in Seq(Names) : w = ParentPath(p)
    BY <1>2
  <2>2. PICK r : r = [Idle EXCEPT !.pc = "look", !.op = op, !.path = p, !.dst = q, !.walk = w]
    OBVIOUS
  <2>3. r \in CallRows(vals) /\ r.pc = "look" /\ r.op = op /\ r.path = p /\ r.dst = q
    BY <1>2, <1>4, <2>2 DEF CallRows
  <2>4. OnItsWay(r)
    BY <1>2, <2>3 DEF OnItsWay
  <2>5. Settle(r) \in CallRows(vals) /\ PlaceOK(Settle(r)) /\ PlanOK(Settle(r), DB)
    BY <1>1, <2>3, <2>4, SettleOK
  <2>6. Become(c, Settle(r))
    BY <1>6, <2>1, <2>2 DEF Call, Become
  <2> QED BY <1>1, <1>3, <2>5, <2>6, ReadStep DEF Call, TreeInv
<1> QED BY <1>5, <1>6

\* a call's record with a new place and target
Standing(r, pc, t) == [r EXCEPT !.pc = pc, !.t = t]

LEMMA Placed ==
    ASSUME NEW vals, NEW r \in CallRows(vals), PlaceOK(r), r.pc # "idle", NEW pc \in {"make", "resolve", "dwrite"},
           pc \in {"make", "resolve"} => r.walk # <<>>, NEW t \in vals, NEW db
    PROVE  Standing(r, pc, t) \in CallRows(vals) /\ PlaceOK(Standing(r, pc, t)) /\ PlanOK(Standing(r, pc, t), db)
<1>1. PICK x : x = Standing(r, pc, t)
  OBVIOUS
<1>2. x \in CallRows(vals)
  BY <1>1 DEF CallRows, Standing
<1>3. x.pc = pc /\ x.path = r.path /\ x.op = r.op /\ x.dst = r.dst /\ x.walk = r.walk
  BY <1>1 DEF CallRows, Standing
<1>4. PlaceOK(x) /\ PlanOK(x, db)
  BY <1>3 DEF PlaceOK, PlanOK
<1> QED BY <1>1, <1>2, <1>4

\* what a turn of the walk makes of its call
Walked(r, t) == {Idle, Standing(r, "make", t), Standing(r, "make", Absent), Standing(r, "resolve", r.t)}
                   \cup {Advance(r, i) : i \in Inodes}

LEMMA WalkedOK ==
    ASSUME NEW vals, Absent \in vals, <<>> \in vals, NEW t \in vals, NEW r \in CallRows(vals), PlaceOK(r),
           r.pc \in {"look", "resolve"}, NEW x \in Walked(r, t), NEW db
    PROVE  x \in CallRows(vals) /\ PlaceOK(x) /\ PlanOK(x, db)
<1>1. r.walk # <<>> /\ r.t \in vals
  BY DEF PlaceOK, CallRows
<1>2. CASE x = Idle
  BY <1>2, IdleRow
<1>3. CASE x \in {Advance(r, i) : i \in Inodes}
  <2>1. PICK i \in Inodes : x = Advance(r, i)
    BY <1>3
  <2> QED BY <2>1, AdvanceOK
<1>4. CASE x \in {Standing(r, "make", t), Standing(r, "make", Absent), Standing(r, "resolve", r.t)}
  BY <1>1, <1>4, Placed
<1> QED BY <1>2, <1>3, <1>4 DEF Walked

LEMMA WalkStep ==
    ASSUME TreeInv, NEW c \in Clients, WalkLook(c) \/ WalkResolve(c)
    PROVE  TreeInv'
<1>1. PICK r : r = cl[c]
  OBVIOUS
<1>2. PICK t : t = IF WalkLook(c) THEN dent[r.cur][Head(r.walk)] ELSE ResolveTo(DB, WalkedPath(r))
  OBVIOUS
<1>3. PICK objs, vals : Shape(objs, vals) /\ Absent \in vals /\ <<>> \in vals /\ t \in vals
  BY ShapeWith
<1>4. /\ r \in CallRows(vals) /\ PlaceOK(r) /\ r.pc \in {"look", "resolve"} /\ ops' \in 0 .. MaxOps
      /\ UNCHANGED <<nodes, dent, stat>>
  BY <1>1, <1>3 DEF TreeInv, TreeParts, CallsOK, Shape, WalkLook, WalkResolve
<1>5. /\ [r EXCEPT !.pc = "make", !.t = t] = Standing(r, "make", t)
      /\ [r EXCEPT !.pc = "make", !.t = Absent] = Standing(r, "make", Absent)
  BY DEF Standing
<1>6. [r EXCEPT !.pc = "resolve"] = Standing(r, "resolve", r.t)
  BY <1>4 DEF Standing, CallRows
<1>7. IsDir(DB, t.i) => Advance(r, t.i) \in Walked(r, t)
  BY DEF IsDir, Walked
<1>8. CASE WalkLook(c)
  <2>1. t = dent[r.cur][Head(r.walk)]
    BY <1>2, <1>8
  <2>2. t.t \in {"absent", "tomb", "link", "inode", "obj"}
    <3>1. r.walk \in Seq(Names) /\ r.walk # <<>> /\ r.cur \in Inodes
      BY <1>4 DEF CallRows, PlaceOK
    <3>2. Head(r.walk) \in Names
      BY <3>1, HeadTail
    <3>3. t \in Targets(objs)
      BY <1>3, <2>1, <3>1, <3>2 DEF Shape, Tables, DB
    <3> QED BY <3>3, TargetFacts DEF Targets
  <2>3. PICK x \in Walked(r, t) : Become(c, x)
    <3>1. Become(c, CASE t.t = "inode" -> IF IsDir(DB, t.i) THEN Advance(r, t.i) ELSE Idle
                      [] t.t = "obj" -> IF t.o.k = "dir" THEN [r EXCEPT !.pc = "make", !.t = t] ELSE Idle
                      [] t.t = "tomb" -> [r EXCEPT !.pc = "make", !.t = Absent]
                      [] t.t = "link" -> Idle
                      [] t.t = "absent" -> [r EXCEPT !.pc = "resolve"])
      BY <1>1, <1>8, <2>1 DEF WalkLook
    <3> QED BY <1>5, <1>6, <1>7, <2>2, <3>1 DEF Walked
  <2> QED BY <1>3, <1>4, <2>3, WalkedOK, ReadStep DEF TreeInv
<1>9. CASE ~WalkLook(c)
  <2>1. t = ResolveTo(DB, WalkedPath(r)) /\ WalkResolve(c)
    BY <1>2, <1>9
  <2>2. PICK x \in Walked(r, t) : Become(c, x)
    <3>1. Become(c, CASE t.t = "inode" -> IF IsDir(DB, t.i) THEN Advance(r, t.i) ELSE Idle
                      [] t.t = "obj" -> IF t.o.k = "dir" THEN [r EXCEPT !.pc = "make", !.t = t] ELSE Idle
                      [] t.t = "inner" -> Idle
                      [] OTHER -> [r EXCEPT !.pc = "make", !.t = Absent])
      BY <1>1, <2>1 DEF WalkResolve
    <3> QED BY <1>5, <1>7, <3>1 DEF Walked
  <2> QED BY <1>3, <1>4, <2>2, WalkedOK, ReadStep DEF TreeInv
<1> QED BY <1>8, <1>9

LEMMA DeleteReadStep ==
    ASSUME TreeInv, NEW c \in Clients, DeleteRev(c) \/ DeleteLook(c)
    PROVE  TreeInv'
<1>1. PICK r : r = cl[c]
  OBVIOUS
<1>2. PICK t : t = dent[r.cur][Name(r.path)]
  OBVIOUS
<1>3. PICK objs, vals : Shape(objs, vals) /\ Absent \in vals /\ <<>> \in vals /\ t \in vals
  BY ShapeWith
<1>4. /\ r \in CallRows(vals) /\ PlaceOK(r) /\ r.pc \in {"exec", "dlook"} /\ ops' \in 0 .. MaxOps
      /\ UNCHANGED <<nodes, dent, stat>>
  BY <1>1, <1>3 DEF TreeInv, TreeParts, CallsOK, Shape, DeleteRev, DeleteLook
<1>5. CASE DeleteRev(c)
  <2>1. CASE Exists(DB, r.cur)
    <3>1. PICK k \in Nat : k = nodes[r.cur].rev
      BY <1>3, <1>4 DEF CallRows, Shape, Tables, NodeRows, DB
    <3>2. PICK x : x = [r EXCEPT !.pc = "dlook", !.r1 = k]
      OBVIOUS
    <3>3. x \in CallRows(vals)
      BY <1>4, <3>2 DEF CallRows
    <3>4. x.pc = "dlook" /\ x.path = r.path /\ x.op = r.op /\ x.dst = r.dst
      BY <1>4, <3>2 DEF CallRows
    <3>5. PlaceOK(x) /\ PlanOK(x, DB)
      BY <1>4, <3>4 DEF PlaceOK, PlanOK
    <3>6. Become(c, x)
      BY <1>1, <1>5, <2>1, <3>1, <3>2 DEF DeleteRev
    <3> QED BY <1>3, <1>4, <3>3, <3>5, <3>6, ReadStep DEF TreeInv
  <2>2. CASE ~Exists(DB, r.cur)
    <3>1. Become(c, Idle)
      BY <1>1, <1>5, <2>2 DEF DeleteRev
    <3> QED BY <1>3, <1>4, <3>1, IdleRow, ReadStep DEF TreeInv
  <2> QED BY <2>1, <2>2
<1>6. CASE DeleteLook(c)
  <2>1. Become(c, Standing(r, "dwrite", t))
    BY <1>1, <1>2, <1>6 DEF DeleteLook, Standing
  <2>2. /\ Standing(r, "dwrite", t) \in CallRows(vals) /\ PlaceOK(Standing(r, "dwrite", t))
        /\ PlanOK(Standing(r, "dwrite", t), DB)
    BY <1>3, <1>4, Placed
  <2> QED BY <1>3, <1>4, <2>1, <2>2, ReadStep DEF TreeInv
<1> QED BY <1>5, <1>6

\* The revisions a move takes down are those of the directories it sees.
LEMMA MoveRevsStep ==
    ASSUME TreeInv, NEW c \in Clients, MoveRevs(c)
    PROVE  TreeInv'
<1>1. PICK r : r = cl[c]
  OBVIOUS
<1>2. PICK seen : seen = <<dent[r.p1], dent[r.cur]>>
  OBVIOUS
<1>3. PICK objs, vals : Shape(objs, vals) /\ Absent \in vals /\ <<>> \in vals /\ seen \in vals
  BY ShapeWith
<1>4. /\ r \in CallRows(vals) /\ PlaceOK(r) /\ r.pc = "revs" /\ ops' \in 0 .. MaxOps
      /\ UNCHANGED <<nodes, dent, stat>>
  BY <1>1, <1>3 DEF TreeInv, TreeParts, CallsOK, Shape, MoveRevs
<1>5. CASE /\ <<r.p1, Name(r.path)>> # <<r.cur, Name(r.dst)>>
           /\ IsDir(DB, r.p1) /\ IsDir(DB, r.cur)
  <2>1. DB.nodes = nodes /\ DB.dent = dent /\ r.p1 \in Inodes /\ r.cur \in Inodes
    BY <1>5 DEF DB, IsDir
  <2>2. PICK k1 \in Nat, k2 \in Nat : k1 = nodes[r.p1].rev /\ k2 = nodes[r.cur].rev
    BY <1>3, <2>1 DEF Shape, Tables, NodeRows
  <2>3. PICK x : x = [r EXCEPT !.pc = "plan", !.r1 = k1, !.r2 = k2, !.seen = seen]
    OBVIOUS
  <2>4. x \in CallRows(vals)
    BY <1>3, <1>4, <2>3 DEF CallRows
  <2>5. /\ x.pc = "plan" /\ x.path = r.path /\ x.op = r.op /\ x.dst = r.dst /\ x.p1 = r.p1 /\ x.cur = r.cur
        /\ x.r1 = k1 /\ x.r2 = k2 /\ x.seen = seen
    BY <1>4, <2>3 DEF CallRows
  <2>6. PlaceOK(x)
    BY <1>4, <2>5 DEF PlaceOK
  <2>7. PlanOK(x, DB)
    BY <1>2, <1>5, <2>1, <2>2, <2>5 DEF PlanOK
  <2>8. Become(c, x)
    BY <1>1, <1>2, <1>5, <2>2, <2>3 DEF MoveRevs
  <2> QED BY <1>3, <1>4, <2>4, <2>6, <2>7, <2>8, ReadStep DEF TreeInv
<1>6. CASE ~(/\ <<r.p1, Name(r.path)>> # <<r.cur, Name(r.dst)>>
             /\ IsDir(DB, r.p1) /\ IsDir(DB, r.cur))
  <2>1. Become(c, Idle)
    BY <1>1, <1>6 DEF MoveRevs
  <2> QED BY <1>3, <1>4, <2>1, IdleRow, ReadStep DEF TreeInv
<1> QED BY <1>5, <1>6

\* The dentry a move takes down is the one of the revision it has, or the
\* revision is not there any more; a directory does not move into itself.
LEMMA MovePlanStep ==
    ASSUME TreeInv, NEW c \in Clients, MovePlan(c)
    PROVE  TreeInv'
<1>1. PICK r : r = cl[c]
  OBVIOUS
<1>2. PICK t : t = dent[r.p1][Name(r.path)]
  OBVIOUS
<1>3. PICK objs, vals : Shape(objs, vals) /\ Absent \in vals /\ <<>> \in vals /\ t \in vals
  BY ShapeWith
<1>4. /\ r \in CallRows(vals) /\ PlaceOK(r) /\ PlanOK(r, DB) /\ r.pc = "plan" /\ ops' \in 0 .. MaxOps
      /\ UNCHANGED <<nodes, dent, stat>>
  BY <1>1, <1>3 DEF TreeInv, TreeParts, CallsOK, Shape, MovePlan
<1>5. CASE \/ t.t \in {"absent", "tomb"}
           \/ t.t = "inode" /\ (~Exists(DB, t.i) \/ (IsDir(DB, t.i) /\ t.i = r.cur))
  <2>1. Become(c, Idle)
    BY <1>1, <1>2, <1>5 DEF MovePlan
  <2> QED BY <1>3, <1>4, <2>1, IdleRow, ReadStep DEF TreeInv
<1>6. CASE ~(\/ t.t \in {"absent", "tomb"}
             \/ t.t = "inode" /\ (~Exists(DB, t.i) \/ (IsDir(DB, t.i) /\ t.i = r.cur)))
  <2>1. PICK x : x = [r EXCEPT !.pc = "apply", !.t = t]
    OBVIOUS
  <2>2. x \in CallRows(vals)
    BY <1>3, <1>4, <2>1 DEF CallRows
  <2>3. /\ x.pc = "apply" /\ x.path = r.path /\ x.op = r.op /\ x.dst = r.dst /\ x.p1 = r.p1 /\ x.cur = r.cur
        /\ x.r1 = r.r1 /\ x.r2 = r.r2 /\ x.seen = r.seen /\ x.t = t
    BY <1>4, <2>1 DEF CallRows
  <2>4. PlaceOK(x)
    BY <1>4, <2>3 DEF PlaceOK
  <2>5. t # ToInode(r.cur)
    <3>1. IsDir(DB, r.cur)
      BY <1>4 DEF PlanOK
    <3> QED BY <1>6, <3>1, TargetFacts
  <2>6. DB.dent = dent
    BY DEF DB
  <2>7. PlanOK(x, DB)
    BY <1>2, <1>4, <2>3, <2>5, <2>6 DEF PlanOK
  <2>8. Become(c, x)
    BY <1>1, <1>2, <1>6, <2>1 DEF MovePlan
  <2> QED BY <1>3, <1>4, <2>2, <2>4, <2>7, <2>8, ReadStep DEF TreeInv
<1> QED BY <1>5, <1>6

LEMMA PublishFindStep ==
    ASSUME TreeInv, NEW c \in Clients, PublishFind(c)
    PROVE  TreeInv'
<1>1. PICK r : r = cl[c]
  OBVIOUS
<1>2. PICK t : t = ResolveTo(DB, r.path)
  OBVIOUS
<1>3. PICK objs, vals : Shape(objs, vals) /\ Absent \in vals /\ <<>> \in vals
  BY ShapeWith
<1>4. /\ r \in CallRows(vals) /\ PlaceOK(r) /\ r.pc = "find" /\ ops' \in 0 .. MaxOps
      /\ UNCHANGED <<nodes, dent, stat>>
  BY <1>1, <1>3 DEF TreeInv, TreeParts, CallsOK, Shape, PublishFind
<1>5. CASE t.t = "inode" /\ IsDir(DB, t.i)
  <2>1. PICK i \in Inodes : i = t.i
    BY <1>5 DEF IsDir
  <2>2. PICK x : x = [r EXCEPT !.pc = "pub", !.cur = i]
    OBVIOUS
  <2>3. x \in CallRows(vals)
    BY <1>4, <2>2 DEF CallRows
  <2>4. x.pc = "pub" /\ x.path = r.path /\ x.op = r.op /\ x.dst = r.dst
    BY <1>4, <2>2 DEF CallRows
  <2>5. PlaceOK(x) /\ PlanOK(x, DB)
    BY <1>4, <2>4 DEF PlaceOK, PlanOK
  <2>6. Become(c, x)
    BY <1>1, <1>2, <1>5, <2>1, <2>2 DEF PublishFind
  <2> QED BY <1>3, <1>4, <2>3, <2>5, <2>6, ReadStep DEF TreeInv
<1>6. CASE ~(t.t = "inode" /\ IsDir(DB, t.i))
  <2>1. Become(c, Idle)
    BY <1>1, <1>2, <1>6 DEF PublishFind
  <2> QED BY <1>3, <1>4, <2>1, IdleRow, ReadStep DEF TreeInv
<1> QED BY <1>5, <1>6

-----------------------------------------------------------------------------
(* Entries that name files, and their count.                                *)

LEMMA EntriesFinite ==
    ASSUME NEW dents, NEW f
    PROVE  IsFiniteSet(FileEntries(dents, f)) /\ Cardinality(FileEntries(dents, f)) \in Nat
<1>1. IsFiniteSet(Inodes)
  BY FS_Interval, TreeAssumption DEF Inodes
<1>2. IsFiniteSet(Inodes \X Names)
  BY <1>1, FS_Product, TreeAssumption
<1>3. IsFiniteSet(FileEntries(dents, f))
  BY <1>2, FS_Subset DEF FileEntries
<1> QED BY <1>3, FS_CardinalityType

LEMMA StatKept ==
    ASSUME StatCovers, stat \in [Files -> Nat], stat' = stat,
           \A f \in Files : FileEntries(dent', f) \subseteq FileEntries(dent, f)
    PROVE  StatCovers'
<1> SUFFICES ASSUME NEW f \in Files PROVE Cardinality(FileEntries(dent', f)) <= stat[f]
  BY DEF StatCovers
<1>1. Cardinality(FileEntries(dent', f)) <= Cardinality(FileEntries(dent, f))
  BY EntriesFinite, FS_Subset
<1>2. Cardinality(FileEntries(dent, f)) <= stat[f]
  BY DEF StatCovers
<1> QED BY <1>1, <1>2, EntriesFinite

\* One dentry put in place adds at most itself to the entries of a file.
LEMMA EntriesOver ==
    ASSUME NEW objs, NEW db \in Tables(objs), NEW d \in Inodes, NEW n \in Names, NEW t \in Targets(objs), NEW f
    PROVE  /\ FileEntries(Over(db.dent, d, n, t), f) \subseteq FileEntries(db.dent, f) \cup {<<d, n>>}
           /\ t # ToObj(FileObj(f)) =>
                 FileEntries(Over(db.dent, d, n, t), f) \subseteq FileEntries(db.dent, f) \ {<<d, n>>}
<1>1. ASSUME NEW e \in FileEntries(Over(db.dent, d, n, t), f)
      PROVE  /\ e # <<d, n>> => e \in FileEntries(db.dent, f)
             /\ e = <<d, n>> => t = ToObj(FileObj(f))
  <2>1. PICK i \in Inodes, m \in Names : e = <<i, m>> /\ Over(db.dent, d, n, t)[i][m] = ToObj(FileObj(f))
    BY <1>1 DEF FileEntries
  <2>2. CASE <<i, m>> # <<d, n>>
    <3>1. db.dent[i][m] = ToObj(FileObj(f))
      BY <2>1, <2>2, OverIs
    <3> QED BY <2>1, <2>2, <3>1 DEF FileEntries
  <2>3. CASE <<i, m>> = <<d, n>>
    BY <2>1, <2>3, OverIs
  <2> QED BY <2>1, <2>2, <2>3
<1> QED BY <1>1

LEMMA EntriesNoMore ==
    ASSUME NEW objs, NEW db \in Tables(objs), NEW d \in Inodes, NEW n \in Names, NEW t \in Targets(objs),
           NEW dents \in {db.dent, Over(db.dent, d, n, t)}, NEW f, t # ToObj(FileObj(f))
    PROVE  FileEntries(dents, f) \subseteq FileEntries(db.dent, f)
<1>1. CASE dents = db.dent
  BY <1>1
<1>2. CASE dents = Over(db.dent, d, n, t)
  <2>1. FileEntries(Over(db.dent, d, n, t), f) \subseteq FileEntries(db.dent, f) \ {<<d, n>>}
    BY EntriesOver
  <2> QED BY <1>2, <2>1
<1> QED BY <1>1, <1>2

LEMMA OneMore ==
    ASSUME NEW S, IsFiniteSet(S), NEW x
    PROVE  /\ IsFiniteSet(S \cup {x}) /\ Cardinality(S \cup {x}) \in Nat
           /\ Cardinality(S \cup {x}) <= Cardinality(S) + 1
<1>1. Cardinality(S) \in Nat
  BY FS_CardinalityType
<1>2. IsFiniteSet(S \cup {x}) /\ (Cardinality(S \cup {x}) = Cardinality(S) \/ Cardinality(S \cup {x}) = Cardinality(S) + 1)
  BY FS_AddElement
<1> QED BY <1>1, <1>2

-----------------------------------------------------------------------------
(* Steps that write.                                                        *)

LEMMA NewDB ==
    ASSUME NEW objs, NEW db \in Tables(objs), nodes' = db.nodes, dent' = db.dent
    PROVE  DB' = db
<1>1. db = [nodes |-> db.nodes, dent |-> db.dent]
  BY DEF Tables
<1> QED BY <1>1 DEF DB

LEMMA NodeRow ==
    ASSUME NEW objs, NEW state \in {"dir", "overlay"}, NEW base \in objs
    PROVE  /\ Node(state, base) \in NodeRows(objs) /\ Node(state, base).state = state
           /\ Node(state, base).base = base /\ Node(state, base).rev = 0 /\ Node(state, base).ref = NoRef
BY DEF Node, NodeRows

\* the directory a walk makes
LEMMA MadeRow ==
    ASSUME NEW r, NEW now, NEW objs, MadeNode(r, now).base \in objs
    PROVE  /\ MadeNode(r, now) \in NodeRows(objs) /\ MadeNode(r, now).state \in {"dir", "overlay"}
           /\ MadeNode(r, now).rev = 0 /\ MadeNode(r, now).ref = NoRef
<1>1. \E state \in {"dir", "overlay"} : \E base : MadeNode(r, now) = Node(state, base)
  BY DEF MadeNode, DirOverlay, DirNormal
<1>2. PICK state \in {"dir", "overlay"} : \E base : MadeNode(r, now) = Node(state, base)
  BY <1>1
<1>3. PICK base : MadeNode(r, now) = Node(state, base)
  BY <1>2
<1>4. base \in objs
  BY <1>3 DEF Node
<1>5. /\ Node(state, base) \in NodeRows(objs) /\ Node(state, base).state = state
      /\ Node(state, base).rev = 0 /\ Node(state, base).ref = NoRef
  BY <1>4, NodeRow
<1> QED BY <1>3, <1>5

\* A new directory and its dentry: create_dir_under_parent, materialize_dir_from_obj,
\* handle_create_dir.
LEMMA MakeDir ==
    ASSUME NEW objs, DB \in Tables(objs), Sound(DB), StatCovers, stat \in [Files -> Nat], NEW cur \in Inodes,
           IsDir(DB, cur), NEW n \in Names, NEW new \in NextInode(DB), NEW node \in NodeRows(objs), node.ref = NoRef,
           node.rev = 0, node.state \in {"dir", "overlay"}, NEW rev, stat' = stat,
           nodes' = Upsert(AllocInode(DB, new, node), cur, n, ToInode(new), rev).db.nodes,
           dent' = Upsert(AllocInode(DB, new, node), cur, n, ToInode(new), rev).db.dent
    PROVE  /\ new \in Inodes /\ DB' \in Tables(objs) /\ Sound(DB') /\ Grown(DB, DB') /\ StatCovers'
           /\ Budded(new, cur, n)
<1>1. PICK a \in Tables(objs) : /\ a = AllocInode(DB, new, node) /\ a.dent = DB.dent /\ Sound(a) /\ Grown(DB, a)
                                /\ new \in Inodes /\ ~Exists(DB, new) /\ a.nodes[new] = node
  BY AllocSound
<1>2. new # cur
  BY <1>1 DEF IsDir, Exists
<1>3. PICK t \in Targets(objs) : t = ToInode(new)
  BY <1>1 DEF Targets
<1>4. t # ToInode(cur)
  BY <1>2, <1>3, TargetFacts
<1>5. PICK b : b = Upsert(a, cur, n, t, rev).db
  OBVIOUS
<1>6. b \in Tables(objs) /\ Sound(b) /\ Grown(a, b) /\ b.dent \in {a.dent, Over(a.dent, cur, n, t)}
  BY <1>1, <1>4, <1>5, UpsertSound
<1>7. DB' = b
  BY <1>1, <1>3, <1>5, <1>6, NewDB
<1>8. Grown(DB, b)
  BY <1>1, <1>6, GrownTwice
<1>9. StatCovers'
  <2>1. dent' = b.dent /\ a.dent = dent
    BY <1>1, <1>7 DEF DB
  <2>2. \A f : t # ToObj(FileObj(f))
    BY <1>3, TargetFacts
  <2>3. \A f \in Files : FileEntries(b.dent, f) \subseteq FileEntries(a.dent, f)
    BY <1>6, <2>2, EntriesOver
  <2> QED BY <2>1, <2>3, StatKept
<1>10. Budded(new, cur, n)
  <2>1. dent' = b.dent /\ a.dent = dent
    BY <1>1, <1>7 DEF DB
  <2>2. IsDir(a, new) /\ IsDir(b, new)
    BY <1>1, <1>6 DEF IsDir, Grown
  <2> QED BY <1>1, <1>3, <1>6, <1>7, <2>1, <2>2 DEF Budded
<1> QED BY <1>1, <1>6, <1>7, <1>8, <1>9, <1>10

\* what a walk that makes a directory leaves: nothing new, or one directory
WalkMade(c, r, n) ==
    \/ UNCHANGED <<nodes, dent>> /\ Become(c, Idle)
    \/ /\ UNCHANGED <<nodes, dent>>
       /\ \E i \in Inodes : dent[r.cur][n] = ToInode(i) /\ IsDir(DB, i) /\ Become(c, Advance(r, i))
    \/ \E new : Budded(new, r.cur, n) /\ Become(c, Advance(r, new))

LEMMA WalkMakeStep ==
    ASSUME TreeInv, NEW c \in Clients, WalkMake(c)
    PROVE  TreeInv' /\ Grown(DB, DB') /\ WalkMade(c, cl[c], Head(cl[c].walk))
<1>1. PICK r : r = cl[c]
  OBVIOUS
<1>2. PICK n : n = Head(r.walk)
  OBVIOUS
<1>3. PICK now : now = dent[r.cur][n]
  OBVIOUS
<1>4. PICK node : node = MadeNode(r, now)
  OBVIOUS
<1>5. PICK objs, vals : Shape(objs, vals) /\ node.base \in objs /\ Absent \in vals /\ <<>> \in vals
  BY ShapeWith
<1>6. /\ r \in CallRows(vals) /\ PlaceOK(r) /\ r.pc = "make" /\ ops' \in 0 .. MaxOps /\ stat' = stat
  BY <1>1, <1>5 DEF TreeInv, TreeParts, CallsOK, Shape, WalkMake
<1>7. r.cur \in Inodes /\ n \in Names
  <2>1. r.walk \in Seq(Names) /\ r.walk # <<>> /\ r.cur \in Inodes
    BY <1>6 DEF CallRows, PlaceOK
  <2> QED BY <1>2, <2>1, HeadTail
<1>8. CASE ~IsDir(DB, r.cur) \/ MakeRefused(r, now)
  <2>1. Become(c, Idle) /\ UNCHANGED <<nodes, dent, stat>>
    BY <1>1, <1>2, <1>3, <1>8 DEF WalkMake
  <2>2. TreeInv'
    BY <1>5, <1>6, <2>1, IdleRow, ReadStep DEF TreeInv
  <2> QED BY <1>1, <2>1, <2>2, StillGrown DEF WalkMade
<1>9. CASE ~(~IsDir(DB, r.cur) \/ MakeRefused(r, now)) /\ now.t = "inode"
  <2>1. Become(c, IF IsDir(DB, now.i) THEN Advance(r, now.i) ELSE Idle) /\ UNCHANGED <<nodes, dent, stat>>
    BY <1>1, <1>2, <1>3, <1>9 DEF WalkMake
  <2>2. CASE IsDir(DB, now.i)
    <3>1. now.i \in Inodes
      BY <2>2 DEF IsDir
    <3>2. Advance(r, now.i) \in CallRows(vals) /\ PlaceOK(Advance(r, now.i)) /\ PlanOK(Advance(r, now.i), DB)
      BY <1>5, <1>6, <3>1, AdvanceOK
    <3>3. TreeInv'
      BY <1>5, <1>6, <2>1, <2>2, <3>2, ReadStep DEF TreeInv
    <3>4. now = ToInode(now.i)
      <4>1. now \in Targets(objs)
        BY <1>3, <1>5, <1>7 DEF Shape, Tables, DB
      <4> QED BY <1>9, <4>1, InodeTarget
    <3> QED BY <1>1, <1>2, <1>3, <2>1, <2>2, <3>1, <3>3, <3>4, StillGrown DEF WalkMade
  <2>3. CASE ~IsDir(DB, now.i)
    <3>1. TreeInv'
      BY <1>5, <1>6, <2>1, <2>3, IdleRow, ReadStep DEF TreeInv
    <3> QED BY <1>1, <2>1, <2>3, <3>1, StillGrown DEF WalkMade
  <2> QED BY <2>2, <2>3
<1>10. CASE ~(~IsDir(DB, r.cur) \/ MakeRefused(r, now)) /\ now.t # "inode"
  <2>1. PICK new \in NextInode(DB) :
           /\ nodes' = Upsert(AllocInode(DB, new, node), r.cur, n, ToInode(new), nodes[r.cur].rev).db.nodes
           /\ dent' = Upsert(AllocInode(DB, new, node), r.cur, n, ToInode(new), nodes[r.cur].rev).db.dent
           /\ Become(c, Advance(r, new))
    BY <1>1, <1>2, <1>3, <1>4, <1>10 DEF WalkMake
  <2>2. DB \in Tables(objs) /\ Sound(DB) /\ StatCovers /\ stat \in [Files -> Nat] /\ IsDir(DB, r.cur)
    BY <1>5, <1>10 DEF TreeInv, TreeParts, Shape
  <2>3. node \in NodeRows(objs) /\ node.ref = NoRef /\ node.rev = 0 /\ node.state \in {"dir", "overlay"}
    BY <1>4, <1>5, MadeRow
  <2>4. /\ new \in Inodes /\ DB' \in Tables(objs) /\ Sound(DB') /\ Grown(DB, DB') /\ StatCovers'
        /\ Budded(new, r.cur, n)
    BY <1>6, <1>7, <2>1, <2>2, <2>3, MakeDir
  <2>5. Advance(r, new) \in CallRows(vals) /\ PlaceOK(Advance(r, new)) /\ PlanOK(Advance(r, new), DB')
    BY <1>5, <1>6, <2>4, AdvanceOK
  <2>6. TreeInv'
    BY <1>5, <1>6, <2>1, <2>2, <2>4, <2>5, CallStep DEF TreeInv
  <2> QED BY <1>1, <1>2, <2>1, <2>4, <2>6 DEF WalkMade
<1> QED BY <1>8, <1>9, <1>10

\* handle_create_dir, handle_set_file, handle_set_dir, handle_symlink: a file
\* object that gains an entry is counted first.
LEMMA ExecCreateStep ==
    ASSUME TreeInv, NEW c \in Clients, ExecCreate(c)
    PROVE  /\ TreeInv' /\ Grown(DB, DB')
           /\ Fewer(dent, dent') \/ \E new, n : Budded(new, cl[c].cur, n)
<1>1. PICK r : r = cl[c]
  OBVIOUS
<1>2. PICK n : n = Name(r.path)
  OBVIOUS
<1>3. ops' = ops /\ Become(c, Idle)
  BY DEF ExecCreate
<1>4. CASE ~(IsDir(DB, r.cur) /\ NameAbsent(DB, r.cur, n))
  <2>1. UNCHANGED <<nodes, dent, stat>>
    BY <1>1, <1>2, <1>4 DEF ExecCreate
  <2>2. PICK objs, vals : Shape(objs, vals) /\ Absent \in vals /\ <<>> \in vals
    BY ShapeWith
  <2>3. TreeInv'
    BY <1>3, <2>1, <2>2, IdleRow, ReadStep DEF TreeInv, Shape
  <2> QED BY <2>1, <2>3, StillGrown DEF Fewer
<1>5. CASE IsDir(DB, r.cur) /\ NameAbsent(DB, r.cur, n)
  <2>1. PICK t \in CreateTarget(r.op) :
           /\ nodes' = Upsert(IF r.op = "create_dir" THEN AllocInode(DB, t.i, DirNormal) ELSE DB,
                              r.cur, n, t, nodes[r.cur].rev).db.nodes
           /\ dent' = Upsert(IF r.op = "create_dir" THEN AllocInode(DB, t.i, DirNormal) ELSE DB,
                             r.cur, n, t, nodes[r.cur].rev).db.dent
           /\ stat' = StatBump(r.op, t)
    BY <1>1, <1>2, <1>5 DEF ExecCreate
  <2>2. PICK objs, vals : Shape(objs, vals) /\ NoObj \in objs /\ t.o \in objs /\ Absent \in vals /\ <<>> \in vals
    BY ShapeWith
  <2>3. /\ r \in CallRows(vals) /\ PlaceOK(r) /\ r.pc = "exec" /\ r.op \in {"create_dir", "set_file", "set_dir", "symlink"}
        /\ ops' \in 0 .. MaxOps
        /\ DB \in Tables(objs) /\ Sound(DB) /\ StatCovers /\ stat \in [Files -> Nat]
    BY <1>1, <1>3, <2>2 DEF TreeInv, TreeParts, CallsOK, Shape, ExecCreate
  <2>4. r.cur \in Inodes /\ n \in Names
    BY <1>2, <2>3, PathFacts DEF CallRows, PlaceOK
  <2>5. /\ DB' \in Tables(objs) /\ Sound(DB') /\ Grown(DB, DB') /\ stat' \in [Files -> Nat] /\ StatCovers'
        /\ Fewer(dent, dent') \/ \E new : Budded(new, r.cur, n)
    <3>1. CASE r.op = "create_dir"
      <4>1. PICK new \in NextInode(DB) : t = ToInode(new)
        BY <2>1, <3>1 DEF CreateTarget
      <4>2. t.i = new /\ stat' = stat
        BY <2>1, <3>1, <4>1, TargetFacts DEF StatBump
      <4>3. DirNormal \in NodeRows(objs) /\ DirNormal.ref = NoRef /\ DirNormal.rev = 0 /\ DirNormal.state \in {"dir", "overlay"}
        BY <2>2, NodeRow DEF DirNormal
      <4>4. /\ nodes' = Upsert(AllocInode(DB, new, DirNormal), r.cur, n, ToInode(new), nodes[r.cur].rev).db.nodes
            /\ dent' = Upsert(AllocInode(DB, new, DirNormal), r.cur, n, ToInode(new), nodes[r.cur].rev).db.dent
        BY <2>1, <3>1, <4>1, <4>2
      <4> QED BY <1>5, <2>3, <2>4, <4>2, <4>3, <4>4, MakeDir
    <3>2. CASE r.op # "create_dir"
      <4>1. /\ t \in Targets(objs) /\ t # ToInode(r.cur)
            /\ r.op = "set_file" => \E f \in Files : t = ToObj(FileObj(f))
            /\ r.op # "set_file" => \A f \in Files : t # ToObj(FileObj(f))
        <5>1. CASE r.op = "set_file"
          <6>1. PICK f \in Files : t = ToObj(FileObj(f))
            BY <2>1, <5>1 DEF CreateTarget, SetFile
          <6>2. t.o = FileObj(f) /\ t.t = "obj"
            BY <6>1, TargetFacts
          <6> QED BY <2>2, <5>1, <6>1, <6>2, TargetFacts DEF Targets
        <5>2. CASE r.op = "set_dir"
          <6>1. t = ToObj(DirObj(BaseDir))
            BY <2>1, <5>2 DEF CreateTarget, SetDir
          <6>2. t.o = DirObj(BaseDir) /\ t.t = "obj"
            BY <6>1, TargetFacts
          <6>3. \A f : DirObj(BaseDir) # FileObj(f)
            BY DEF DirObj, FileObj, Obj
          <6> QED BY <2>2, <5>2, <6>1, <6>2, <6>3, TargetFacts DEF Targets
        <5>3. CASE r.op = "symlink"
          <6>1. t = SymLink
            BY <2>1, <5>3 DEF CreateTarget, SetSymlink
          <6> QED BY <5>3, <6>1, TargetFacts DEF Targets
        <5> QED BY <2>3, <3>2, <5>1, <5>2, <5>3
      <4>2. PICK b : b = Upsert(DB, r.cur, n, t, nodes[r.cur].rev).db
        OBVIOUS
      <4>3. b \in Tables(objs) /\ Sound(b) /\ Grown(DB, b) /\ b.dent \in {DB.dent, Over(DB.dent, r.cur, n, t)}
        BY <2>3, <2>4, <4>1, <4>2, UpsertSound
      <4>4. DB' = b /\ dent' = b.dent /\ DB.dent = dent
        BY <2>1, <3>2, <4>2, <4>3, NewDB DEF DB
      <4>7. Fewer(dent, dent')
        <5>1. \A i \in Inodes : t # ToInode(i)
          <6>1. t.t # "inode"
            BY <2>1, <2>3, <3>2, TargetFacts DEF CreateTarget, SetFile, SetDir, SetSymlink
          <6> QED BY <6>1, TargetFacts
        <5> QED BY <2>3, <2>4, <4>1, <4>3, <4>4, <5>1, FewerOver
      <4>5. CASE r.op # "set_file"
        <5>1. stat' = stat
          BY <2>1, <4>5 DEF StatBump
        <5>2. \A f \in Files : FileEntries(b.dent, f) \subseteq FileEntries(DB.dent, f)
          BY <2>3, <2>4, <4>1, <4>3, <4>5, EntriesNoMore
        <5>3. StatCovers'
          BY <2>3, <4>4, <5>1, <5>2, StatKept
        <5> QED BY <2>3, <4>3, <4>4, <4>7, <5>1, <5>3
      <4>6. CASE r.op = "set_file"
        <5>1. PICK g \in Files : t = ToObj(FileObj(g))
          BY <4>1, <4>6
        <5>2. t.o.id = g
          BY <5>1, TargetFacts DEF FileObj, Obj
        <5>3. stat' = [stat EXCEPT ![g] = @ + 1]
          BY <2>1, <4>6, <5>2 DEF StatBump
        <5>4. /\ stat' \in [Files -> Nat] /\ stat'[g] = stat[g] + 1 /\ stat[g] \in Nat
              /\ \A f \in Files : f # g => stat'[f] = stat[f]
          BY <2>3, <5>3
        <5>5. ASSUME NEW f \in Files PROVE Cardinality(FileEntries(dent', f)) <= stat'[f]
          <6>1. Cardinality(FileEntries(dent, f)) <= stat[f] /\ stat[f] \in Nat
            BY <2>3 DEF StatCovers
          <6>2. CASE f = g
            <7>1. FileEntries(b.dent, f) \subseteq FileEntries(dent, f) \cup {<<r.cur, n>>}
              BY <2>3, <2>4, <4>1, <4>3, <4>4, EntriesOver
            <7>2. /\ IsFiniteSet(FileEntries(dent, f) \cup {<<r.cur, n>>})
                  /\ Cardinality(FileEntries(dent, f) \cup {<<r.cur, n>>}) <= Cardinality(FileEntries(dent, f)) + 1
                  /\ Cardinality(FileEntries(dent, f) \cup {<<r.cur, n>>}) \in Nat
              BY EntriesFinite, OneMore
            <7>3. Cardinality(FileEntries(b.dent, f)) <= Cardinality(FileEntries(dent, f) \cup {<<r.cur, n>>})
              BY <7>1, <7>2, FS_Subset
            <7> QED BY <4>4, <5>4, <6>1, <6>2, <7>2, <7>3, EntriesFinite
          <6>3. CASE f # g
            <7>1. t # ToObj(FileObj(f))
              BY <5>1, <5>2, <6>3, TargetFacts DEF FileObj, Obj
            <7>2. FileEntries(b.dent, f) \subseteq FileEntries(dent, f)
              BY <2>3, <2>4, <4>1, <4>3, <4>4, <7>1, EntriesNoMore
            <7>3. Cardinality(FileEntries(b.dent, f)) <= Cardinality(FileEntries(dent, f))
              BY <7>2, EntriesFinite, FS_Subset
            <7> QED BY <4>4, <5>4, <6>1, <6>3, <7>3, EntriesFinite
          <6> QED BY <6>2, <6>3
        <5>6. StatCovers'
          BY <5>5 DEF StatCovers
        <5> QED BY <4>3, <4>4, <4>7, <5>4, <5>6
      <4> QED BY <4>5, <4>6
    <3> QED BY <3>1, <3>2
  <2>6. Idle \in CallRows(vals) /\ PlaceOK(Idle) /\ PlanOK(Idle, DB')
    BY <2>2, IdleRow
  <2>7. TreeInv'
    BY <1>3, <2>2, <2>3, <2>5, <2>6, CallStep DEF TreeInv
  <2> QED BY <1>1, <2>5, <2>7
<1> QED BY <1>4, <1>5

\* handle_delete: a tombstone over the dentry it looked at, or nothing.
LEMMA DeleteWriteStep ==
    ASSUME TreeInv, NEW c \in Clients, DeleteWrite(c)
    PROVE  TreeInv' /\ Grown(DB, DB') /\ Fewer(dent, dent')
<1>1. PICK r : r = cl[c]
  OBVIOUS
<1>2. PICK n : n = Name(r.path)
  OBVIOUS
<1>3. PICK objs, vals : Shape(objs, vals) /\ Absent \in vals /\ <<>> \in vals
  BY ShapeWith
<1>4. /\ r \in CallRows(vals) /\ PlaceOK(r) /\ r.pc = "dwrite" /\ ops' \in 0 .. MaxOps /\ stat' = stat
      /\ DB \in Tables(objs) /\ Sound(DB) /\ StatCovers /\ stat \in [Files -> Nat] /\ Become(c, Idle)
  BY <1>1, <1>3 DEF TreeInv, TreeParts, CallsOK, Shape, DeleteWrite
<1>5. r.cur \in Inodes /\ n \in Names
  BY <1>2, <1>4, PathFacts DEF CallRows, PlaceOK
<1>6. PICK put : /\ nodes' = put.db.nodes /\ dent' = put.db.dent
                 /\ put = IF r.t = Absent THEN CreateDentry(DB, r.cur, n, Tombstone, r.r1)
                          ELSE ReplaceTarget(DB, r.cur, n, r.t, Tombstone, r.r1)
  BY <1>1, <1>2 DEF DeleteWrite
<1>7. put.db = DB \/ put = Upsert(DB, r.cur, n, Tombstone, r.r1)
  <2>1. \A x : Fail(x).db = x
    BY DEF Fail
  <2>2. CASE r.t = Absent
    <3>1. CASE DB.dent[r.cur][n] = Absent
      BY <1>6, <2>2, <3>1 DEF Upsert
    <3>2. CASE DB.dent[r.cur][n] # Absent
      BY <1>6, <2>1, <2>2, <3>2 DEF CreateDentry
    <3> QED BY <3>1, <3>2
  <2>3. CASE r.t # Absent
    <3>1. CASE DB.dent[r.cur][n] = r.t
      BY <1>6, <2>3, <3>1 DEF Upsert
    <3>2. CASE DB.dent[r.cur][n] # r.t
      BY <1>6, <2>1, <2>3, <3>2 DEF ReplaceTarget
    <3> QED BY <3>1, <3>2
  <2> QED BY <2>2, <2>3
<1>8. PICK t \in Targets(objs) : t = Tombstone
  BY DEF Targets
<1>9. t # ToInode(r.cur) /\ \A f : t # ToObj(FileObj(f))
  BY <1>8, TargetFacts
<1>10. PICK b : b = put.db
  OBVIOUS
<1>11. b \in Tables(objs) /\ Sound(b) /\ Grown(DB, b) /\ b.dent \in {DB.dent, Over(DB.dent, r.cur, n, t)}
  <2>1. CASE b = DB
    BY <1>4, <2>1, GrownOnce
  <2>2. CASE b = Upsert(DB, r.cur, n, t, r.r1).db
    BY <1>4, <1>5, <1>9, <2>2, UpsertSound
  <2> QED BY <1>7, <1>8, <1>10, <2>1, <2>2
<1>12. DB' = b /\ dent' = b.dent /\ DB.dent = dent
  BY <1>6, <1>10, <1>11, NewDB DEF DB
<1>13. \A f \in Files : FileEntries(b.dent, f) \subseteq FileEntries(DB.dent, f)
  BY <1>4, <1>5, <1>9, <1>11, EntriesNoMore
<1>14. StatCovers'
  BY <1>4, <1>12, <1>13, StatKept
<1>15. Idle \in CallRows(vals) /\ PlaceOK(Idle) /\ PlanOK(Idle, DB')
  BY <1>3, IdleRow
<1>16. TreeInv'
  BY <1>3, <1>4, <1>11, <1>12, <1>14, <1>15, CallStep DEF TreeInv
<1>17. Fewer(dent, dent')
  <2>1. \A i \in Inodes : t # ToInode(i)
    BY <1>8, TargetFacts
  <2> QED BY <1>4, <1>5, <1>11, <1>12, <2>1, FewerOver
<1> QED BY <1>11, <1>12, <1>16, <1>17

\* apply_move_plan_txn: a file object that moves is counted once.
LEMMA MoveApplyStep ==
    ASSUME TreeInv, NEW c \in Clients, MoveApply(c)
    PROVE  /\ TreeInv' /\ Grown(DB, DB')
           /\ \/ Fewer(dent, dent')
              \/ Relinked(dent, dent', dent[cl[c].p1][Name(cl[c].path)], cl[c].cur, Name(cl[c].dst))
<1>1. PICK r : r = cl[c]
  OBVIOUS
<1>2. PICK n : n = Name(r.path)
  OBVIOUS
<1>3. PICK m : m = Name(r.dst)
  OBVIOUS
<1>4. PICK objs, vals : Shape(objs, vals) /\ Absent \in vals /\ <<>> \in vals
  BY ShapeWith
<1>5. /\ r \in CallRows(vals) /\ PlaceOK(r) /\ PlanOK(r, DB) /\ r.pc = "apply" /\ ops' \in 0 .. MaxOps /\ stat' = stat
      /\ DB \in Tables(objs) /\ Sound(DB) /\ StatCovers /\ stat \in [Files -> Nat] /\ Become(c, Idle)
  BY <1>1, <1>4 DEF TreeInv, TreeParts, CallsOK, Shape, MoveApply
<1>6. r.path \in Paths /\ r.dst \in Paths /\ n \in Names /\ m \in Names
  BY <1>2, <1>3, <1>5, PathFacts DEF PlaceOK
<1>7. r.p1 \in Inodes /\ r.cur \in Inodes
  BY <1>5 DEF PlanOK, IsDir
<1>8. PICK out : out = Upsert(DB, r.p1, n, Tombstone, r.r1)
  OBVIOUS
<1>9. PICK rev : rev = IF r.p1 = r.cur THEN r.r1 + 1 ELSE r.r2
  OBVIOUS
<1>10. PICK into : into = Upsert(out.db, r.cur, m, r.t, rev)
  OBVIOUS
<1>11. PICK moved : /\ moved = Moved(r) /\ nodes' = moved.db.nodes /\ dent' = moved.db.dent
                    /\ moved = IF RevMatches(DB, r.p1, r.r1) /\ RevMatches(DB, r.cur, r.r2) /\ out.ok /\ into.ok
                               THEN Done(into.db) ELSE Fail(DB)
  BY <1>1, <1>2, <1>3, <1>8, <1>9, <1>10 DEF MoveApply, Moved
<1>12. CASE ~(RevMatches(DB, r.p1, r.r1) /\ RevMatches(DB, r.cur, r.r2) /\ out.ok /\ into.ok)
  <2>1. moved.db = DB
    BY <1>11, <1>12 DEF Fail
  <2>2. UNCHANGED <<nodes, dent, stat>>
    BY <1>5, <1>11, <2>1 DEF DB
  <2>3. TreeInv'
    BY <1>4, <1>5, <2>2, IdleRow, ReadStep DEF TreeInv
  <2> QED BY <2>2, <2>3, StillGrown DEF Fewer
<1>13. CASE RevMatches(DB, r.p1, r.r1) /\ RevMatches(DB, r.cur, r.r2) /\ out.ok /\ into.ok
  <2>1. PICK t \in Targets(objs) : t = r.t /\ t = DB.dent[r.p1][n] /\ t # ToInode(r.cur)
    <3>1. DB.dent[r.p1][n] \in Targets(objs)
      BY <1>5, <1>6, <1>7 DEF Tables
    <3>2. r.t = DB.dent[r.p1][n] /\ r.t # ToInode(r.cur)
      BY <1>2, <1>5, <1>13 DEF PlanOK, RevMatches
    <3> QED BY <3>1, <3>2
  <2>2. PICK stone \in Targets(objs) : stone = Tombstone
    BY DEF Targets
  <2>3. stone # ToInode(r.p1) /\ \A f : stone # ToObj(FileObj(f))
    BY <2>2, TargetFacts
  <2>4. PICK a : a = out.db
    OBVIOUS
  <2>5. /\ a \in Tables(objs) /\ Sound(a) /\ Grown(DB, a) /\ a.dent \in {DB.dent, Over(DB.dent, r.p1, n, stone)}
        /\ a.dent[r.p1][n] = stone
    BY <1>5, <1>6, <1>7, <1>8, <1>13, <2>2, <2>3, <2>4, UpsertSound
  <2>6. PICK b : b = into.db
    OBVIOUS
  <2>7. b \in Tables(objs) /\ Sound(b) /\ Grown(a, b) /\ b.dent \in {a.dent, Over(a.dent, r.cur, m, t)}
    <3>1. b = Upsert(a, r.cur, m, t, rev).db
      BY <1>10, <2>1, <2>4, <2>6
    <3> QED BY <1>6, <1>7, <2>1, <2>5, <3>1, UpsertSound
  <2>8. Grown(DB, b)
    BY <1>5, <2>5, <2>7, GrownTwice
  <2>9. DB' = b /\ dent' = b.dent /\ DB.dent = dent
    <3>1. moved.db = b
      BY <1>11, <1>13, <2>6 DEF Done
    <3> QED BY <1>11, <2>7, <3>1, NewDB DEF DB
  <2>10. ASSUME NEW f \in Files PROVE Cardinality(FileEntries(b.dent, f)) <= Cardinality(FileEntries(dent, f))
    <3>1. FileEntries(a.dent, f) \subseteq FileEntries(dent, f)
      BY <1>5, <1>6, <1>7, <2>3, <2>5, <2>9, EntriesNoMore
    <3>2. CASE t # ToObj(FileObj(f))
      <4>1. FileEntries(b.dent, f) \subseteq FileEntries(a.dent, f)
        BY <1>6, <1>7, <2>5, <2>7, <3>2, EntriesNoMore
      <4> QED BY <3>1, <4>1, EntriesFinite, FS_Subset
    <3>3. CASE t = ToObj(FileObj(f))
      <4>1. <<r.p1, n>> \in FileEntries(dent, f)
        BY <1>6, <1>7, <2>1, <2>9, <3>3 DEF FileEntries
      <4>2. <<r.p1, n>> \notin FileEntries(a.dent, f)
        <5>1. a.dent[r.p1][n] # ToObj(FileObj(f))
          BY <2>3, <2>5
        <5> QED BY <5>1 DEF FileEntries
      <4>3. FileEntries(a.dent, f) \subseteq FileEntries(dent, f) \ {<<r.p1, n>>}
        BY <3>1, <4>2
      <4>4. /\ IsFiniteSet(FileEntries(dent, f) \ {<<r.p1, n>>})
            /\ Cardinality(FileEntries(dent, f) \ {<<r.p1, n>>}) = Cardinality(FileEntries(dent, f)) - 1
        BY <4>1, EntriesFinite, FS_RemoveElement
      <4>5. Cardinality(FileEntries(a.dent, f)) <= Cardinality(FileEntries(dent, f)) - 1
        BY <4>3, <4>4, FS_Subset
      <4>6. FileEntries(b.dent, f) \subseteq FileEntries(a.dent, f) \cup {<<r.cur, m>>}
        <5>1. FileEntries(Over(a.dent, r.cur, m, t), f) \subseteq FileEntries(a.dent, f) \cup {<<r.cur, m>>}
          BY <1>6, <1>7, <2>5, EntriesOver
        <5> QED BY <2>7, <5>1
      <4>7. /\ IsFiniteSet(FileEntries(a.dent, f) \cup {<<r.cur, m>>})
            /\ Cardinality(FileEntries(a.dent, f) \cup {<<r.cur, m>>}) \in Nat
            /\ Cardinality(FileEntries(a.dent, f) \cup {<<r.cur, m>>}) <= Cardinality(FileEntries(a.dent, f)) + 1
        BY EntriesFinite, OneMore
      <4>8. Cardinality(FileEntries(b.dent, f)) <= Cardinality(FileEntries(a.dent, f) \cup {<<r.cur, m>>})
        BY <4>6, <4>7, FS_Subset
      <4>9. /\ Cardinality(FileEntries(a.dent, f)) \in Nat /\ Cardinality(FileEntries(b.dent, f)) \in Nat
            /\ Cardinality(FileEntries(dent, f)) \in Nat
        BY EntriesFinite
      <4> QED BY <4>5, <4>7, <4>8, <4>9
    <3> QED BY <3>2, <3>3
  <2>11. StatCovers'
    <3> SUFFICES ASSUME NEW f \in Files PROVE Cardinality(FileEntries(b.dent, f)) <= stat[f]
      BY <1>5, <2>9 DEF StatCovers
    <3>1. Cardinality(FileEntries(dent, f)) <= stat[f] /\ stat[f] \in Nat
      BY <1>5 DEF StatCovers
    <3> QED BY <2>10, <3>1, EntriesFinite
  <2>12. Idle \in CallRows(vals) /\ PlaceOK(Idle) /\ PlanOK(Idle, DB')
    BY <1>4, IdleRow
  <2>13. TreeInv'
    BY <1>4, <1>5, <2>7, <2>8, <2>9, <2>11, <2>12, CallStep DEF TreeInv
  <2>14. Fewer(dent, a.dent) /\ \A e, i \in Inodes, k \in Names : a.dent[e][k] = ToInode(i) => t # ToInode(i)
    <3>1. Fewer(dent, a.dent)
      <4>1. \A i \in Inodes : stone # ToInode(i)
        BY <2>2, TargetFacts
      <4> QED BY <1>5, <1>6, <1>7, <2>5, <2>9, <4>1, FewerOver
    <3> SUFFICES ASSUME NEW e \in Inodes, NEW i \in Inodes, NEW k \in Names, a.dent[e][k] = ToInode(i), t = ToInode(i)
                 PROVE  FALSE
      BY <3>1
    <3>2. dent[e][k] = ToInode(i) /\ dent[r.p1][n] = ToInode(i)
      BY <2>1, <2>9, <3>1 DEF Fewer
    <3>3. <<e, k>> = <<r.p1, n>>
      BY <1>5, <1>6, <1>7, <2>9, <3>2 DEF Sound, Agree
    <3>4. a.dent[e][k] = stone
      BY <2>5, <3>3
    <3> QED BY <2>2, <3>4, TargetFacts
  <2>15. CASE b.dent = a.dent
    BY <2>8, <2>9, <2>13, <2>14, <2>15
  <2>16. CASE b.dent = Over(a.dent, r.cur, m, t)
    <3>1. Relinked(dent, b.dent, t, r.cur, m)
      <4> SUFFICES ASSUME NEW e \in Inodes, NEW i \in Inodes, NEW k \in Names, b.dent[e][k] = ToInode(i)
                   PROVE  \/ t = ToInode(i) /\ <<e, k>> = <<r.cur, m>>
                          \/ t # ToInode(i) /\ dent[e][k] = ToInode(i)
        BY DEF Relinked
      <4>1. CASE <<e, k>> = <<r.cur, m>>
        BY <1>6, <1>7, <2>5, <2>16, <4>1, OverIs
      <4>2. CASE <<e, k>> # <<r.cur, m>>
        <5>1. a.dent[e][k] = ToInode(i)
          BY <1>6, <1>7, <2>5, <2>16, <4>2, OverIs
        <5> QED BY <2>14, <5>1 DEF Fewer
      <4> QED BY <4>1, <4>2
    <3> QED BY <1>1, <1>2, <1>3, <2>1, <2>8, <2>9, <2>13, <3>1
  <2> QED BY <2>7, <2>15, <2>16
<1> QED BY <1>12, <1>13

\* publish_dir lets every dentry of the directory go, and ref_by of the inodes
\* they name with them.
LEMMA DropSound ==
    ASSUME NEW objs, NEW old \in Tables(objs), Sound(old), NEW d \in Inodes, IsDir(old, d),
           NEW node \in NodeRows(objs), node.state = "overlay", node.ref = old.nodes[d].ref,
           node.rev = old.nodes[d].rev + 1,
           NEW new, new = DropDentries([old EXCEPT !.nodes[d] = node], d)
    PROVE  /\ new \in Tables(objs) /\ Sound(new) /\ Grown(old, new)
           /\ \A e \in Inodes, n \in Names : new.dent[e][n] \in {old.dent[e][n], Absent}
<1>1. PICK db \in Tables(objs) :
         /\ db = [old EXCEPT !.nodes[d] = node] /\ db.dent = old.dent /\ db.nodes[d] = node
         /\ \A i \in Inodes : i # d => db.nodes[i] = old.nodes[i]
  <2>1. old.nodes \in [Inodes -> NodeRows(objs)] /\ old.dent \in [Inodes -> [Names -> Targets(objs)]]
    BY DEF Tables
  <2>2. PICK rs \in [Inodes -> NodeRows(objs)] : rs = [old.nodes EXCEPT ![d] = node]
    BY <2>1
  <2>3. [old EXCEPT !.nodes[d] = node] = [nodes |-> rs, dent |-> old.dent]
    <3>1. [old EXCEPT !.nodes[d] = node] = [old EXCEPT !.nodes = rs]
      BY <2>1, <2>2 DEF Tables
    <3> QED BY <3>1 DEF Tables
  <2>4. [nodes |-> rs, dent |-> old.dent] \in Tables(objs)
    BY <2>1, <2>2 DEF Tables
  <2> QED BY <2>1, <2>2, <2>3, <2>4
<1>2. PICK gone : gone = {n \in Names : db.dent[d][n] # Absent}
  OBVIOUS
<1>3. PICK k \in Nat : k = Cardinality(gone)
  <2>1. IsFiniteSet(gone)
    BY <1>2, TreeAssumption, FS_Subset
  <2> QED BY <2>1, FS_CardinalityType
<1>4. PICK kids : kids = {i \in Inodes : \E n \in gone : db.dent[d][n] = ToInode(i) /\ db.nodes[i].ref = <<d, n>>}
  OBVIOUS
<1>5. d \notin kids
  BY <1>1, <1>2, <1>4 DEF Sound
<1>6. PICK last \in NodeRows(objs) : /\ last = [node EXCEPT !.rev = @ + k] /\ last.rev = node.rev + k
                                     /\ last.state = "overlay" /\ last.ref = node.ref /\ last.rev \in Nat
  <2>1. PICK v \in Nat : v = node.rev + k
    BY <1>3 DEF NodeRows
  <2>2. PICK x : x = [node EXCEPT !.rev = v]
    OBVIOUS
  <2>3. x \in NodeRows(objs) /\ x.rev = v /\ x.state = "overlay" /\ x.ref = node.ref
    BY <2>2 DEF NodeRows
  <2> QED BY <2>1, <2>2, <2>3
<1>7. \A y \in NodeRows(objs) : /\ [y EXCEPT !.ref = NoRef] \in NodeRows(objs)
                                /\ [y EXCEPT !.ref = NoRef].ref = NoRef /\ [y EXCEPT !.ref = NoRef].rev = y.rev
                                /\ [y EXCEPT !.ref = NoRef].state = y.state
  <2> SUFFICES ASSUME NEW y \in NodeRows(objs), NEW x, x = [y EXCEPT !.ref = NoRef]
               PROVE  x \in NodeRows(objs) /\ x.ref = NoRef /\ x.rev = y.rev /\ x.state = y.state
    OBVIOUS
  <2> QED BY DEF NodeRows
<1>8. PICK rows : rows = [i \in Inodes |-> IF i = d THEN last
                                            ELSE IF i \in kids THEN [db.nodes[i] EXCEPT !.ref = NoRef]
                                            ELSE db.nodes[i]]
  OBVIOUS
<1>9. PICK dents \in [Inodes -> [Names -> Targets(objs)]] : dents = [db.dent EXCEPT ![d] = [n \in Names |-> Absent]]
  <2>1. [n \in Names |-> Absent] \in [Names -> Targets(objs)]
    BY DEF Targets
  <2> QED BY <2>1 DEF Tables
<1>10. rows \in [Inodes -> NodeRows(objs)]
  BY <1>1, <1>6, <1>7, <1>8 DEF Tables
<1>11. /\ rows[d] = last
       /\ \A i \in Inodes : i # d => rows[i].rev = old.nodes[i].rev /\ rows[i].state = old.nodes[i].state
       /\ \A i \in kids : rows[i].ref = NoRef
       /\ \A i \in Inodes : i \notin kids => rows[i].ref = old.nodes[i].ref
  <2>1. \A i \in Inodes : db.nodes[i] \in NodeRows(objs)
    BY DEF Tables
  <2>2. rows[d] = last /\ \A i \in Inodes : i # d /\ i \notin kids => rows[i] = old.nodes[i]
    BY <1>1, <1>8
  <2>3. \A i \in kids : i # d /\ i \in Inodes /\ rows[i] = [db.nodes[i] EXCEPT !.ref = NoRef] /\ db.nodes[i] = old.nodes[i]
    BY <1>1, <1>4, <1>5, <1>8
  <2>4. \A i \in kids : rows[i].ref = NoRef /\ rows[i].rev = old.nodes[i].rev /\ rows[i].state = old.nodes[i].state
    <3> SUFFICES ASSUME NEW i \in kids
                 PROVE  rows[i].ref = NoRef /\ rows[i].rev = old.nodes[i].rev /\ rows[i].state = old.nodes[i].state
      OBVIOUS
    <3>1. PICK y \in NodeRows(objs) : y = db.nodes[i] /\ y = old.nodes[i] /\ rows[i] = [y EXCEPT !.ref = NoRef]
      BY <2>1, <2>3
    <3> QED BY <1>7, <3>1
  <2>5. rows[d].ref = old.nodes[d].ref
    BY <1>6, <2>2
  <2>6. \A i \in Inodes : i # d => rows[i].rev = old.nodes[i].rev /\ rows[i].state = old.nodes[i].state
    BY <2>2, <2>4
  <2>7. \A i \in Inodes : i \notin kids => rows[i].ref = old.nodes[i].ref
    BY <2>2, <2>5
  <2> QED BY <2>2, <2>4, <2>6, <2>7
<1>12. \A n \in Names : dents[d][n] = Absent
  BY <1>9 DEF Tables
<1>13. \A e \in Inodes : e # d => dents[e] = old.dent[e]
  BY <1>1, <1>9 DEF Tables
<1>14. new = [nodes |-> rows, dent |-> dents]
  <2>1. last = [db.nodes[d] EXCEPT !.rev = @ + Cardinality(gone)]
    BY <1>1, <1>3, <1>6
  <2>2. rows = [i \in Inodes |-> IF i = d THEN [db.nodes[i] EXCEPT !.rev = @ + Cardinality(gone)]
                                 ELSE IF i \in kids THEN [db.nodes[i] EXCEPT !.ref = NoRef]
                                 ELSE db.nodes[i]]
    BY <1>8, <2>1
  <2>3. DropDentries(db, d) =
          [nodes |-> [i \in Inodes |-> IF i = d THEN [db.nodes[i] EXCEPT !.rev = @ + Cardinality(gone)]
                                       ELSE IF i \in kids THEN [db.nodes[i] EXCEPT !.ref = NoRef]
                                       ELSE db.nodes[i]],
           dent  |-> [db.dent EXCEPT ![d] = [n \in Names |-> Absent]]]
    BY <1>2, <1>4, Zenon DEF DropDentries
  <2> QED BY <1>1, <1>9, <2>2, <2>3
<1>15. new \in Tables(objs) /\ new.nodes = rows /\ new.dent = dents
  <2>1. [nodes |-> rows, dent |-> dents] \in Tables(objs)
    BY <1>9, <1>10 DEF Tables
  <2> QED BY <1>14, <2>1
<1>16. Grown(old, new)
  <2> SUFFICES ASSUME NEW i \in Inodes
               PROVE  /\ rows[i].rev >= old.nodes[i].rev
                      /\ rows[i].rev = old.nodes[i].rev => dents[i] = old.dent[i]
                      /\ IsDir(old, i) => rows[i].state \in {"dir", "overlay"}
    BY <1>15 DEF Grown, IsDir
  <2>1. old.nodes[i].rev \in Nat
    BY DEF Tables, NodeRows
  <2>2. CASE i = d
    <3>1. PICK v \in Nat : v = old.nodes[d].rev
      BY <2>1, <2>2
    <3>2. last.rev = v + 1 + k
      BY <1>6, <3>1
    <3>3. last.rev >= v /\ last.rev # v
      BY <1>3, <3>2
    <3> QED BY <1>6, <1>11, <2>2, <3>1, <3>3
  <2>3. CASE i # d
    BY <1>11, <1>13, <2>1, <2>3 DEF IsDir
  <2> QED BY <2>2, <2>3
<1>17. Agree(new)
  <2> SUFFICES ASSUME NEW i \in Inodes, NEW e \in Inodes, NEW n \in Names
               PROVE  rows[i].ref = <<e, n>> <=> dents[e][n] = ToInode(i)
    BY <1>15 DEF Agree
  <2>1. old.nodes[i].ref = <<e, n>> <=> old.dent[e][n] = ToInode(i)
    BY DEF Sound, Agree
  <2>2. NoRef # <<e, n>>
    BY TreeAssumption DEF NoRef, Inodes
  <2>3. CASE e = d
    <3>1. dents[e][n] # ToInode(i)
      BY <1>12, <2>3, TargetFacts
    <3>2. CASE i \in kids
      BY <1>11, <2>2, <3>1, <3>2
    <3>3. CASE i \notin kids
      <4>1. old.dent[d][n] # ToInode(i)
        <5>1. CASE i = d
          BY <5>1 DEF Sound
        <5>2. CASE i # d
          <6> SUFFICES ASSUME old.dent[d][n] = ToInode(i) PROVE FALSE
            OBVIOUS
          <6>1. n \in gone
            BY <1>1, <1>2, TargetFacts
          <6>2. db.nodes[i].ref = <<d, n>>
            BY <1>1, <2>1, <2>3, <5>2
          <6> QED BY <1>1, <1>4, <3>3, <6>1, <6>2
        <5> QED BY <5>1, <5>2
      <4> QED BY <1>11, <2>1, <2>3, <3>1, <3>3, <4>1
    <3> QED BY <3>2, <3>3
  <2>4. CASE e # d
    <3>1. dents[e][n] = old.dent[e][n]
      BY <1>13, <2>4
    <3>2. CASE i \in kids
      <4>1. PICK m \in gone : db.nodes[i].ref = <<d, m>>
        BY <1>4, <3>2
      <4>2. old.nodes[i].ref # <<e, n>>
        BY <1>1, <1>5, <2>4, <3>2, <4>1
      <4> QED BY <1>11, <2>1, <2>2, <3>1, <3>2, <4>2
    <3>3. CASE i \notin kids
      BY <1>11, <2>1, <3>1, <3>3
    <3> QED BY <3>2, <3>3
  <2> QED BY <2>3, <2>4
<1>18. Sound(new)
  <2>1. ASSUME NEW i \in Inodes, new.nodes[i].state = "free" PROVE new.nodes[i].ref = NoRef /\ new.nodes[i].rev = 0
    <3>1. i # d
      BY <1>6, <1>11, <1>15, <2>1
    <3>2. old.nodes[i].ref = NoRef /\ old.nodes[i].rev = 0
      BY <1>11, <1>15, <2>1, <3>1 DEF Sound
    <3> QED BY <1>11, <1>15, <3>1, <3>2
  <2>2. ASSUME NEW i \in Inodes, NEW n \in Names PROVE new.dent[i][n] # ToInode(i)
    <3>1. old.dent[i][n] # ToInode(i)
      BY DEF Sound
    <3> QED BY <1>12, <1>13, <1>15, <3>1, TargetFacts
  <2> QED BY <1>17, <2>1, <2>2 DEF Sound
<1>19. \A e \in Inodes, n \in Names : new.dent[e][n] \in {old.dent[e][n], Absent}
  BY <1>12, <1>13, <1>15
<1> QED BY <1>15, <1>16, <1>18, <1>19

LEMMA PublishCommitStep ==
    ASSUME TreeInv, NEW c \in Clients, PublishCommit(c)
    PROVE  TreeInv' /\ Grown(DB, DB') /\ Fewer(dent, dent')
<1>1. PICK d : d = cl[c].cur
  OBVIOUS
<1>2. PICK base : base = DirObj(Published(DB, d))
  OBVIOUS
<1>3. PICK objs, vals : Shape(objs, vals) /\ base \in objs /\ Absent \in vals /\ <<>> \in vals
  BY ShapeWith
<1>4. /\ DB \in Tables(objs) /\ Sound(DB) /\ StatCovers /\ stat \in [Files -> Nat] /\ d \in Inodes
      /\ Become(c, Idle) /\ ops' \in 0 .. MaxOps /\ stat' = stat
  BY <1>1, <1>3 DEF TreeInv, TreeParts, Shape, PublishCommit, CallRows
<1>5. CASE UNCHANGED <<nodes, dent>>
  <2>1. TreeInv'
    BY <1>3, <1>4, <1>5, IdleRow, ReadStep DEF TreeInv
  <2> QED BY <1>5, <2>1, StillGrown DEF Fewer
<1>6. CASE ~UNCHANGED <<nodes, dent>>
  <2>1. PICK node : node = [nodes[d] EXCEPT !.base = base, !.state = "overlay", !.rev = @ + 1]
    OBVIOUS
  <2>2. PICK b : b = DropDentries([DB EXCEPT !.nodes[d] = node], d)
    OBVIOUS
  <2>3. IsDir(DB, d) /\ nodes' = b.nodes /\ dent' = b.dent
    BY <1>1, <1>2, <1>6, <2>1, <2>2 DEF PublishCommit
  <2>4. /\ node \in NodeRows(objs) /\ node.state = "overlay" /\ node.ref = DB.nodes[d].ref
        /\ node.rev = DB.nodes[d].rev + 1
    <3>1. PICK y \in NodeRows(objs) : y = nodes[d] /\ y = DB.nodes[d]
      BY <1>4 DEF DB, Tables
    <3>2. PICK v \in Nat : v = y.rev + 1
      BY DEF NodeRows
    <3>3. PICK x : x = [y EXCEPT !.base = base, !.state = "overlay", !.rev = v]
      OBVIOUS
    <3>4. x \in NodeRows(objs) /\ x.state = "overlay" /\ x.ref = y.ref /\ x.rev = v
      BY <1>3, <3>3 DEF NodeRows
    <3> QED BY <2>1, <3>1, <3>2, <3>3, <3>4
  <2>5. /\ b \in Tables(objs) /\ Sound(b) /\ Grown(DB, b)
        /\ \A e \in Inodes, n \in Names : b.dent[e][n] \in {DB.dent[e][n], Absent}
    BY <1>4, <2>2, <2>3, <2>4, DropSound
  <2>6. DB' = b /\ DB.dent = dent
    BY <2>3, <2>5, NewDB DEF DB
  <2>7. \A f \in Files : FileEntries(dent', f) \subseteq FileEntries(dent, f)
    BY <2>3, <2>5, <2>6, TargetFacts DEF FileEntries
  <2>8. StatCovers'
    BY <1>4, <2>7, StatKept
  <2>9. Idle \in CallRows(vals) /\ PlaceOK(Idle) /\ PlanOK(Idle, DB')
    BY <1>3, IdleRow
  <2>10. TreeInv'
    BY <1>3, <1>4, <2>5, <2>6, <2>8, <2>9, CallStep DEF TreeInv
  <2>11. Fewer(dent, dent')
    BY <2>3, <2>5, <2>6, TargetFacts DEF Fewer
  <2> QED BY <2>5, <2>6, <2>10, <2>11
<1> QED BY <1>5, <1>6

\* The session that finishes a file changes its row and no directory.
LEMMA FinalizeFileStep ==
    ASSUME TreeInv, NEW i \in Inodes, FinalizeFile(i)
    PROVE  TreeInv' /\ Grown(DB, DB')
<1>1. PICK f \in Files : nodes' = [nodes EXCEPT ![i].state = "finalized", ![i].base = FileObj(f)]
  BY DEF FinalizeFile
<1>2. PICK objs, vals : Shape(objs, vals) /\ FileObj(f) \in objs
  BY ShapeWith
<1>3. nodes \in [Inodes -> NodeRows(objs)] /\ dent \in [Inodes -> [Names -> Targets(objs)]] /\ DB \in Tables(objs)
  BY <1>2 DEF Shape, DB, Tables
<1>4. PICK y \in NodeRows(objs) : y = nodes[i]
  BY <1>3
<1>5. PICK x : x = [y EXCEPT !.state = "finalized", !.base = FileObj(f)]
  OBVIOUS
<1>6. x \in NodeRows(objs) /\ x.state = "finalized" /\ x.rev = y.rev /\ x.ref = y.ref
  BY <1>2, <1>5 DEF NodeRows
<1>7. nodes' = [nodes EXCEPT ![i] = x]
  BY <1>1, <1>3, <1>4, <1>5
<1>8. /\ nodes' \in [Inodes -> NodeRows(objs)] /\ dent' = dent /\ nodes'[i] = x
      /\ \A j \in Inodes : j # i => nodes'[j] = nodes[j]
  BY <1>3, <1>6, <1>7 DEF FinalizeFile
<1>9. DB' \in Tables(objs) /\ DB'.nodes = nodes' /\ DB'.dent = dent /\ DB.nodes = nodes /\ DB.dent = dent
  BY <1>3, <1>8 DEF DB, Tables
<1>10. /\ \A j \in Inodes : DB'.nodes[j].rev = DB.nodes[j].rev /\ DB'.nodes[j].ref = DB.nodes[j].ref
       /\ \A j \in Inodes : j # i => DB'.nodes[j].state = DB.nodes[j].state
       /\ DB'.nodes[i].state = "finalized" /\ DB.nodes[i].state = "working"
  BY <1>4, <1>6, <1>8, <1>9 DEF FinalizeFile
<1>11. Grown(DB, DB')
  <2>1. \A j \in Inodes : DB.nodes[j].rev \in Nat
    BY <1>3 DEF Tables, NodeRows
  <2> QED BY <1>9, <1>10, <2>1 DEF Grown, IsDir
<1>12. Sound(DB')
  <2>1. Sound(DB)
    BY DEF TreeInv, TreeParts
  <2>2. Agree(DB')
    BY <1>9, <1>10, <2>1 DEF Agree, Sound
  <2> QED BY <1>9, <1>10, <2>1, <2>2 DEF Sound
<1>13. StatCovers'
  BY <1>8 DEF TreeInv, TreeParts, StatCovers, FinalizeFile
<1>14. CallsOK'
  <2> SUFFICES ASSUME NEW c \in Clients PROVE PlaceOK(cl[c]) /\ PlanOK(cl[c], DB')
    BY DEF CallsOK, FinalizeFile
  <2>1. PlaceOK(cl[c]) /\ PlanOK(cl[c], DB) /\ cl[c] \in CallRows(vals)
    BY <1>2 DEF TreeInv, TreeParts, CallsOK, Shape
  <2> QED BY <1>3, <1>9, <1>11, <2>1, PlanKept
<1>15. Shape(objs, vals)'
  BY <1>2, <1>9 DEF Shape, FinalizeFile
<1> QED BY <1>11, <1>12, <1>13, <1>14, <1>15 DEF TreeInv, TreeParts

-----------------------------------------------------------------------------
(* The invariant holds.                                                     *)

LEMMA TreeInitInv == Init => TreeInv
<1> SUFFICES ASSUME Init PROVE TreeInv
  OBVIOUS
<1>1. PICK tree \in InitTrees : nodes = tree.nodes /\ dent = tree.dent
  BY DEF Init
<1>2. PICK objs : objs = ObjsOf(tree)
  OBVIOUS
<1>3. /\ tree \in Tables(objs) /\ RefsAgree(tree)
      /\ \A i \in Inodes : tree.nodes[i].state = "free" => tree.nodes[i] = NoNode
      /\ \A i \in Inodes, n \in Names : tree.dent[i][n] # ToInode(i)
      /\ \A f \in Files : FileEntries(tree.dent, f) = {}
  BY <1>2, InitAssumption
<1>4. DB = tree
  BY <1>1, <1>3 DEF DB, Tables
<1>5. Sound(DB)
  <2>1. Agree(tree)
    BY <1>3, AgreeForm
  <2>2. NoNode.ref = NoRef /\ NoNode.rev = 0
    BY DEF NoNode, Node
  <2> QED BY <1>3, <1>4, <2>1, <2>2 DEF Sound
<1>6. StatCovers
  <2> SUFFICES ASSUME NEW f \in Files PROVE Cardinality(FileEntries(dent, f)) <= stat[f]
    BY DEF StatCovers
  <2>1. FileEntries(dent, f) = {}
    BY <1>1, <1>3
  <2>2. Cardinality(FileEntries(dent, f)) = 0
    BY <2>1, FS_EmptySet
  <2>3. stat[f] = 0
    BY DEF Init
  <2> QED BY <2>2, <2>3
<1>7. PICK vals : vals = {Absent, <<>>}
  OBVIOUS
<1>8. CallsOK /\ cl \in [Clients -> CallRows(vals)]
  BY <1>7, IdleRow DEF CallsOK, Init
<1>9. stat \in [Files -> Nat] /\ ops \in 0 .. MaxOps
  BY TreeAssumption DEF Init
<1>10. Shape(objs, vals)
  BY <1>3, <1>4, <1>8, <1>9 DEF Shape
<1> QED BY <1>5, <1>6, <1>8, <1>10 DEF TreeInv, TreeParts

LEMMA TreeNextInv == TreeInv /\ [Next]_vars => TreeInv'
<1> SUFFICES ASSUME TreeInv, [Next]_vars PROVE TreeInv'
  OBVIOUS
<1>1. ASSUME NEW c \in Clients, NEW op \in Calls, NEW p \in Paths, Call(c, op, p, <<>>) PROVE TreeInv'
  BY <1>1, NewCallStep
<1>2. ASSUME NEW c \in Movers, NEW p \in Paths, NEW q \in Paths, Call(c, "move", p, q) PROVE TreeInv'
  BY <1>2, TreeAssumption, NewCallStep
<1>3. ASSUME NEW c \in Clients, WalkLook(c) \/ WalkResolve(c) PROVE TreeInv'
  BY <1>3, WalkStep
<1>4. ASSUME NEW c \in Clients, WalkMake(c) PROVE TreeInv'
  BY <1>4, WalkMakeStep
<1>5. ASSUME NEW c \in Clients, ExecCreate(c) PROVE TreeInv'
  BY <1>5, ExecCreateStep
<1>6. ASSUME NEW c \in Clients, DeleteRev(c) \/ DeleteLook(c) PROVE TreeInv'
  BY <1>6, DeleteReadStep
<1>7. ASSUME NEW c \in Clients, DeleteWrite(c) PROVE TreeInv'
  BY <1>7, DeleteWriteStep
<1>8. ASSUME NEW c \in Clients, MoveRevs(c) PROVE TreeInv'
  BY <1>8, MoveRevsStep
<1>9. ASSUME NEW c \in Clients, MovePlan(c) PROVE TreeInv'
  BY <1>9, MovePlanStep
<1>10. ASSUME NEW c \in Clients, MoveApply(c) PROVE TreeInv'
  BY <1>10, MoveApplyStep
<1>11. ASSUME NEW c \in Clients, PublishFind(c) PROVE TreeInv'
  BY <1>11, PublishFindStep
<1>12. ASSUME NEW c \in Clients, PublishCommit(c) PROVE TreeInv'
  BY <1>12, PublishCommitStep
<1>13. ASSUME NEW i \in Inodes, FinalizeFile(i) PROVE TreeInv'
  BY <1>13, FinalizeFileStep
<1>14. CASE UNCHANGED vars
  BY <1>14 DEF vars, TreeInv, TreeParts, Sound, Agree, StatCovers, CallsOK, Shape, DB
<1> QED BY <1>1, <1>2, <1>3, <1>4, <1>5, <1>6, <1>7, <1>8, <1>9, <1>10, <1>11, <1>12, <1>13, <1>14 DEF Next

\* The invariant, for every set of names, clients and starting trees.
THEOREM TreeInvariant == Spec => []TreeInv
BY TreeInitInv, TreeNextInv, PTL DEF Spec

LEMMA TreeRecords == TreeInv => RecordsAgree
<1> SUFFICES ASSUME TreeInv PROVE RecordsAgree
  OBVIOUS
<1>1. PICK objs, vals : Shape(objs, vals)
  BY DEF TreeInv
<1>2. DB \in Tables(objs) /\ DB.nodes = nodes /\ DB.dent = dent
  BY <1>1 DEF Shape, DB
<1>3. TypeOK
  <2>1. ASSUME NEW i \in Inodes
        PROVE  /\ nodes[i].state \in {"free", "dir", "overlay", "working", "finalized"}
               /\ nodes[i].rev \in Nat
               /\ nodes[i].ref \in {NoRef} \cup (Inodes \X Names)
    BY <1>2 DEF Tables, NodeRows
  <2>2. ASSUME NEW i \in Inodes, NEW n \in Names
        PROVE  dent[i][n].t \in {"absent", "tomb", "link", "inode", "obj"}
    <3>1. dent[i][n] \in Targets(objs)
      BY <1>2 DEF Tables
    <3> QED BY <3>1, TargetFacts DEF Targets
  <2> QED BY <1>1, <2>1, <2>2 DEF TypeOK, Shape
<1>4. RefExact
  BY <1>2, AgreeForm DEF RefExact, TreeInv, TreeParts, Sound
<1> QED BY <1>3, <1>4 DEF RecordsAgree, TreeInv, TreeParts

\* The records that the handlers of fs_meta keep by hand agree, for every
\* number of inodes, names and concurrent clients: ref_by with the dentries
\* (handle_create_dentry, handle_replace_target, handle_delete_dentry,
\* publish_dir), and obj_stat with the file objects they name (handle_set_file,
\* handle_move_path).
THEOREM RecordsAgreeHolds == Spec => []RecordsAgree
BY TreeInvariant, TreeRecords, PTL

LEMMA PlanIsSeen == TreeInv => MoveSeesItsPlan
<1> SUFFICES ASSUME TreeInv, NEW c \in Clients, cl[c].pc = "apply", Moved(cl[c]).ok
             PROVE  cl[c].seen = <<dent[cl[c].p1], dent[cl[c].cur]>>
  BY DEF MoveSeesItsPlan
<1>1. PICK r : r = cl[c]
  OBVIOUS
<1>2. PlanOK(r, DB) /\ r.pc = "apply" /\ DB.dent = dent
  BY <1>1 DEF TreeInv, TreeParts, CallsOK, DB
<1>3. RevMatches(DB, r.p1, r.r1) /\ RevMatches(DB, r.cur, r.r2)
  <2>1. ~Fail(DB).ok
    BY DEF Fail
  <2> QED BY <1>1, <2>1 DEF Moved
<1> QED BY <1>1, <1>2, <1>3 DEF PlanOK, RevMatches

\* A move that commits finds both directories as they were when it read their
\* revisions, whatever the other clients did in between (handle_move_path,
\* apply_move_plan_txn).
THEOREM MoveSeesItsPlanHolds == Spec => []MoveSeesItsPlan
BY TreeInvariant, PlanIsSeen, PTL

-----------------------------------------------------------------------------
(* No directory is below itself, as long as one client moves at a time.     *)
(* Every inode has a path that its dentry extends; a move's directories are *)
(* where its paths say, so the path check of the client keeps a directory   *)
(* from being put below itself.  A subtree that moves takes new paths, which *)
(* is what a second mover in flight would not know.                         *)

\* one client calls move_path
OneMover == \A c, d \in Movers : c = d

\* a move stands where its paths say: the directory it walks through, the
\* parent it has reached, and the paths it has compared
MoverAt(r, db, path) ==
    r.op = "move" /\ r.pc # "idle" =>
        /\ IsDir(db, r.cur)
        /\ r.p1 # 0 => IsDir(db, r.p1) /\ path[r.p1] = ParentPath(r.path)
        /\ r.pc \in {"look", "resolve", "make"} =>
              path[r.cur] \o r.walk = ParentPath(IF r.p1 # 0 THEN r.dst ELSE r.path)
        /\ r.pc \in {"revs", "plan", "apply"} =>
              r.p1 # 0 /\ path[r.cur] = ParentPath(r.dst) /\ ~IsDescendant(r.dst, r.path)

PathsAre(path) == Named(dent, path) /\ \A c \in Clients : MoverAt(cl[c], DB, path)

PathInv ==
    /\ OnlyDirs(DB)
    /\ \A c \in Clients : cl[c].op = "move" => c \in Movers
    /\ \E path : PathsAre(path)

LEMMA LeastExists ==
    ASSUME NEW S \in SUBSET Nat, S # {}
    PROVE  \E x \in S : \A y \in S : x <= y
<1> DEFINE R == OpToRel(<, Nat)
<1>1. IsWellFoundedOn(R, Nat)
  BY NatLessThanWellFounded
<1> HIDE DEF R
<1>2. PICK x \in S : \A y \in S : ~(<<y, x>> \in R)
  BY <1>1, WFMin
<1>3. \A y \in S : ~(y < x)
  BY <1>2 DEF R, OpToRel
<1> QED BY <1>3

\* sequences of names
LEMMA WalkOn ==
    ASSUME NEW a \in Seq(Names), NEW w \in Seq(Names), w # <<>>
    PROVE  Append(a, Head(w)) \o Tail(w) = a \o w
<1>1. PICK h \in Names, v \in Seq(Names) : h = Head(w) /\ v = Tail(w)
  BY HeadTail
<1>2. PICK n \in Nat, k \in Nat \ {0} : n = Len(a) /\ k = Len(w) /\ Len(v) = k - 1
  BY <1>1
<1>3. PICK b \in Seq(Names) : b = Append(a, h)
  <2>1. Append(a, h) \in Seq(Names)
    OBVIOUS
  <2> QED BY <2>1
<1>4. Len(b) = n + 1 /\ b[n + 1] = h /\ \A i \in 1 .. n : b[i] = a[i]
  BY <1>2, <1>3
<1>5. w[1] = h /\ \A i \in 1 .. k - 1 : v[i] = w[i + 1]
  BY <1>1, <1>2
<1>6. /\ b \o v \in Seq(Names) /\ a \o w \in Seq(Names)
      /\ Len(b \o v) = n + k /\ Len(a \o w) = n + k
  BY <1>2, <1>4
<1>7. ASSUME NEW i \in 1 .. n + k PROVE (b \o v)[i] = (a \o w)[i]
  <2>1. CASE i <= n
    BY <1>2, <1>4, <2>1
  <2>2. CASE i = n + 1
    BY <1>2, <1>4, <1>5, <2>2
  <2>3. CASE i > n + 1
    <3>1. PICK j \in 1 .. k - 1 : j = i - (n + 1)
      BY <2>3
    <3>2. (b \o v)[i] = v[j]
      BY <1>2, <1>4, <2>3, <3>1
    <3>3. (a \o w)[i] = w[j + 1]
      BY <1>2, <2>3, <3>1
    <3> QED BY <1>5, <3>1, <3>2, <3>3
  <2>4. i <= n \/ i = n + 1 \/ i > n + 1
    <3>1. i \in Int /\ n \in Int
      OBVIOUS
    <3> QED BY <3>1
  <2> QED BY <2>1, <2>2, <2>3, <2>4
<1>8. b \o v = a \o w
  <2>1. PICK x \in Seq(Names), y \in Seq(Names) : x = b \o v /\ y = a \o w
    BY <1>6
  <2>2. Len(x) = Len(y) /\ \A i \in 1 .. Len(x) : x[i] = y[i]
    BY <1>2, <1>6, <1>7, <2>1
  <2>3. x = y
    BY <2>2
  <2> QED BY <2>1, <2>3
<1> QED BY <1>1, <1>3, <1>8

LEMMA WalkedSoFar ==
    ASSUME NEW a \in Seq(Names), NEW w \in Seq(Names), w # <<>>
    PROVE  SubSeq(a \o w, 1, Len(a \o w) - Len(w) + 1) = Append(a, Head(w))
<1>1. Len(w) \in Nat \ {0} /\ Len(a) \in Nat /\ Len(a \o w) = Len(a) + Len(w)
  OBVIOUS
<1>2. PICK k \in Nat : k = Len(a) + 1 /\ k = Len(a \o w) - Len(w) + 1
  BY <1>1
<1>3. PICK s : s = SubSeq(a \o w, 1, k)
  OBVIOUS
<1>4. s \in Seq(Names) /\ Len(s) = k /\ \A i \in 1 .. k : s[i] = (a \o w)[i]
  BY <1>1, <1>2, <1>3
<1>5. PICK h \in Names, b \in Seq(Names) : h = Head(w) /\ h = w[1] /\ b = Append(a, h)
  <2>1. PICK h \in Names : h = Head(w)
    BY HeadTail
  <2>2. Append(a, h) \in Seq(Names) /\ h = w[1]
    BY <2>1
  <2> QED BY <2>1, <2>2
<1>6. Len(b) = k /\ b[k] = h /\ \A i \in 1 .. Len(a) : b[i] = a[i]
  BY <1>2, <1>5
<1>7. ASSUME NEW i \in 1 .. k PROVE s[i] = b[i]
  <2>1. CASE i <= Len(a)
    BY <1>1, <1>2, <1>4, <1>6, <2>1
  <2>2. CASE i = k
    BY <1>1, <1>2, <1>4, <1>5, <1>6, <2>2
  <2> QED BY <1>1, <1>2, <2>1, <2>2
<1>8. s = b
  BY <1>4, <1>5, <1>6, <1>7
<1> QED BY <1>2, <1>3, <1>5, <1>8
\* what a walk of resolve_path_ex leads to, name by name
Steps(f, db, path, m) ==
    f = [k \in 0 .. m |-> IF k = 0 THEN ToInode(Root) ELSE StepDown(db, f[k - 1], path[k])]

LEMMA StepsExist ==
    ASSUME NEW db, NEW path, NEW m \in Nat
    PROVE  \E f : Steps(f, db, path, m)
<1> DEFINE bad == {k \in Nat : ~\E f : Steps(f, db, path, k)}
<1> SUFFICES ASSUME bad # {} PROVE FALSE
  OBVIOUS
<1>1. PICK k \in bad : \A j \in bad : k <= j
  <2>1. bad \in SUBSET Nat
    OBVIOUS
  <2> HIDE DEF bad
  <2> QED BY <2>1, LeastExists
<1>2. k \in Nat /\ ~\E f : Steps(f, db, path, k)
  OBVIOUS
<1>3. CASE k = 0
  <2>1. PICK f : f = [j \in 0 .. 0 |-> ToInode(Root)]
    OBVIOUS
  <2>2. Steps(f, db, path, 0)
    <3>1. \A j \in 0 .. 0 : j = 0
      OBVIOUS
    <3> QED BY <2>1, <3>1 DEF Steps
  <2> QED BY <1>2, <1>3, <2>2
<1>4. CASE k # 0
  <2>1. PICK i \in Nat : i = k - 1 /\ k = i + 1
    BY <1>2, <1>4
  <2>2. i \notin bad
    BY <1>1, <2>1
  <2>3. PICK f : Steps(f, db, path, i)
    BY <2>2
  <2>4. \A j \in 0 .. i : f[j] = IF j = 0 THEN ToInode(Root) ELSE StepDown(db, f[j - 1], path[j])
    BY <2>3 DEF Steps
  <2>5. PICK g : g = [j \in 0 .. k |-> IF j <= i THEN f[j] ELSE StepDown(db, f[i], path[k])]
    OBVIOUS
  <2>6. \A j \in 0 .. i : g[j] = f[j]
    BY <2>1, <2>5
  <2>7. ASSUME NEW j \in 0 .. k
        PROVE  g[j] = IF j = 0 THEN ToInode(Root) ELSE StepDown(db, g[j - 1], path[j])
    <3>1. CASE j = 0
      BY <2>1, <2>4, <2>6, <3>1
    <3>2. CASE j # 0 /\ j <= i
      <4>1. j \in 0 .. i /\ j - 1 \in 0 .. i
        BY <2>1, <3>2
      <4> QED BY <2>4, <2>6, <3>2, <4>1
    <3>3. CASE j = k
      <4>1. g[j] = StepDown(db, f[i], path[k]) /\ i \in 0 .. i /\ j - 1 = i
        BY <2>1, <2>5, <3>3
      <4> QED BY <1>4, <2>6, <3>3, <4>1
    <3>4. j = 0 \/ (j # 0 /\ j <= i) \/ j = k
      BY <2>1
    <3> QED BY <3>1, <3>2, <3>3, <3>4
  <2>8. Steps(g, db, path, k)
    <3>1. g = [j \in 0 .. k |-> g[j]]
      BY <2>5
    <3> QED BY <2>7, <3>1 DEF Steps
  <2> QED BY <1>2, <2>8
<1> QED BY <1>3, <1>4

\* An inode that a walk from the root leads to has the path walked.
LEMMA ResolveNamed ==
    ASSUME NEW objs, NEW db \in Tables(objs), NEW path, Named(db.dent, path), NEW p \in Seq(Names),
           ResolveTo(db, p).t = "inode"
    PROVE  ResolveTo(db, p).i \in Inodes /\ path[ResolveTo(db, p).i] = p
<1>1. PICK m \in Nat : m = Len(p)
  OBVIOUS
<1>2. PICK walk : Steps(walk, db, p, m) /\ ResolveTo(db, p) \in {walk[m], Absent}
  <2>1. PICK walk : walk = CHOOSE f : f = [k \in 0 .. Len(p) |-> IF k = 0 THEN ToInode(Root)
                                                                ELSE StepDown(db, f[k - 1], p[k])]
    OBVIOUS
  <2>2. Steps(walk, db, p, m)
    BY <1>1, <2>1, StepsExist DEF Steps
  <2>3. ResolveTo(db, p) = IF walk[Len(p)].t \in {"tomb", "link"} THEN Absent ELSE walk[Len(p)]
    BY <2>1 DEF ResolveTo
  <2> QED BY <1>1, <2>2, <2>3
<1>3. ResolveTo(db, p) = walk[m]
  BY <1>2, TargetFacts
<1>4. /\ walk[0] = ToInode(Root)
      /\ \A k \in 1 .. m : walk[k] = StepDown(db, walk[k - 1], p[k])
  BY <1>1, <1>2 DEF Steps
<1>5. Root \in Inodes /\ path[Root] = <<>> /\ path \in [Inodes -> Seq(Names)]
  BY TreeAssumption DEF Root, Inodes, Named
<1> DEFINE Right(k) == walk[k].t = "inode" => walk[k].i \in Inodes /\ path[walk[k].i] = SubSeq(p, 1, k)
           wrong == {k \in 0 .. m : ~Right(k)}
<1>6. wrong = {}
  <2> SUFFICES ASSUME wrong # {} PROVE FALSE
    OBVIOUS
  <2>1. PICK k \in wrong : \A j \in wrong : k <= j
    <3>1. wrong \in SUBSET Nat
      BY <1>1
    <3> HIDE DEF wrong
    <3> QED BY <3>1, LeastExists
  <2>2. k \in 0 .. m /\ walk[k].t = "inode" /\ ~(walk[k].i \in Inodes /\ path[walk[k].i] = SubSeq(p, 1, k))
    OBVIOUS
  <2>3. CASE k = 0
    <3>1. walk[k].i = Root
      BY <1>4, <2>3, TargetFacts
    <3>2. SubSeq(p, 1, 0) = <<>>
      OBVIOUS
    <3> QED BY <1>5, <2>2, <2>3, <3>1, <3>2
  <2>4. CASE k # 0
    <3>1. PICK j \in 0 .. m : j = k - 1 /\ k = j + 1 /\ k \in 1 .. m
      BY <1>1, <2>2, <2>4
    <3>2. Right(j)
      BY <1>1, <2>1, <3>1
    <3>3. walk[k] = StepDown(db, walk[j], p[k])
      BY <1>4, <3>1
    <3>4. PICK n \in Names : n = p[k]
      BY <1>1, <3>1
    <3>5. PICK up : up = walk[j]
      OBVIOUS
    <3>6. up.t = "inode" /\ IsDir(db, up.i) /\ walk[k] = Lookup(db, up.i, n)
      <4>1. \A o : Target("inner", 0, o).t # "inode"
        BY DEF Target
      <4> QED BY <2>2, <3>3, <3>4, <3>5, <4>1, TargetFacts DEF StepDown
    <3>7. up.i \in Inodes /\ path[up.i] = SubSeq(p, 1, j)
      BY <3>2, <3>5, <3>6
    <3>8. walk[k] = db.dent[up.i][n]
      BY <2>2, <3>6, TargetFacts DEF Lookup
    <3>9. PICK i \in Inodes : walk[k] = ToInode(i) /\ walk[k].i = i
      <4>1. db.dent[up.i][n] \in Targets(objs)
        BY <3>7 DEF Tables
      <4> QED BY <2>2, <3>8, <4>1, InodeTarget
    <3>10. path[i] = Append(SubSeq(p, 1, j), n)
      <4>1. PICK d \in Inodes : d = up.i
        BY <3>7
      <4>2. db.dent[d][n] = ToInode(i) /\ path[d] = SubSeq(p, 1, j)
        BY <3>7, <3>8, <3>9, <4>1
      <4>3. path[i] = Append(path[d], n)
        BY <4>2 DEF Named
      <4> QED BY <4>2, <4>3
    <3>11. Append(SubSeq(p, 1, j), p[j + 1]) = SubSeq(p, 1, j + 1)
      BY <1>1, <3>1
    <3> QED BY <2>2, <3>1, <3>4, <3>9, <3>10, <3>11
  <2> QED BY <2>3, <2>4
<1>7. Right(m)
  BY <1>1, <1>6
<1>8. SubSeq(p, 1, m) = p
  BY <1>1
<1> QED BY <1>3, <1>7, <1>8
-----------------------------------------------------------------------------
(* Where a call stands.                                                     *)

\* a call that is not a move, or is over, stands anywhere
LEMMA IdleAt ==
    ASSUME NEW db, NEW path
    PROVE  MoverAt(Idle, db, path) /\ Idle.op # "move"
BY DEF MoverAt, Idle

LEMMA EmptyWalk ==
    ASSUME NEW a \in Seq(Names)
    PROVE  a \o <<>> = a /\ <<>> \o a = a
OBVIOUS

LEMMA ArrivedAt ==
    ASSUME NEW vals, NEW r \in CallRows(vals), OnItsWay(r), r.walk = <<>>, NEW db, IsDir(db, Root),
           NEW path, path \in [Inodes -> Seq(Names)], path[Root] = <<>>, MoverAt(r, db, path)
    PROVE  MoverAt(Arrived(r), db, path) /\ (Arrived(r).op = "move" => r.op = "move")
<1>1. r.cur \in Inodes /\ path[r.cur] \o r.walk = path[r.cur]
  BY EmptyWalk DEF CallRows
<1>2. CASE r.op = "move" /\ r.p1 = 0
  <2>1. PICK w \in Seq(Names) : w = ParentPath(r.dst)
    BY <1>2, PathFacts DEF OnItsWay
  <2>2. PICK x : x = [r EXCEPT !.p1 = r.cur, !.walk = w, !.cur = Root]
    OBVIOUS
  <2>3. x.pc = "look" /\ x.path = r.path /\ x.op = r.op /\ x.dst = r.dst /\ x.p1 = r.cur /\ x.walk = w /\ x.cur = Root
    BY <2>2 DEF CallRows, OnItsWay
  <2>4. Arrived(r) = x
    BY <1>2, <2>1, <2>2 DEF Arrived
  <2>5. r.cur # 0
    BY <1>1 DEF Inodes
  <2>6. IsDir(db, r.cur) /\ path[r.cur] = ParentPath(r.path)
    BY <1>1, <1>2 DEF MoverAt, OnItsWay
  <2>7. path[Root] \o w = w
    BY EmptyWalk
  <2>8. MoverAt(x, db, path)
    BY <2>1, <2>3, <2>5, <2>6, <2>7 DEF MoverAt
  <2> QED BY <2>3, <2>4, <2>8
<1>3. CASE r.op = "move" /\ r.p1 # 0 /\ IsDescendant(r.dst, r.path)
  <2>1. Arrived(r) = Idle
    BY <1>3 DEF Arrived
  <2> QED BY <2>1, IdleAt
<1>4. CASE r.op = "move" /\ r.p1 # 0 /\ ~IsDescendant(r.dst, r.path)
  <2>1. PICK x : x = [r EXCEPT !.pc = "revs"]
    OBVIOUS
  <2>2. x.pc = "revs" /\ x.path = r.path /\ x.op = r.op /\ x.dst = r.dst /\ x.p1 = r.p1 /\ x.cur = r.cur
    BY <2>1 DEF CallRows
  <2>3. Arrived(r) = x
    BY <1>4, <2>1 DEF Arrived
  <2>4. IsDir(db, r.cur) /\ IsDir(db, r.p1) /\ path[r.p1] = ParentPath(r.path) /\ path[r.cur] = ParentPath(r.dst)
    BY <1>1, <1>4 DEF MoverAt, OnItsWay
  <2>5. MoverAt(x, db, path)
    BY <1>4, <2>2, <2>4 DEF MoverAt
  <2> QED BY <1>4, <2>3, <2>5
<1>5. CASE r.op # "move"
  <2>1. PICK x : x = [r EXCEPT !.pc = "exec"]
    OBVIOUS
  <2>2. x.op = r.op
    BY <2>1 DEF CallRows
  <2>3. Arrived(r) = x
    BY <1>5, <2>1 DEF Arrived
  <2> QED BY <1>5, <2>2, <2>3 DEF MoverAt
<1> QED BY <1>2, <1>3, <1>4, <1>5

LEMMA SettleAt ==
    ASSUME NEW vals, Absent \in vals, <<>> \in vals, NEW r \in CallRows(vals), OnItsWay(r), NEW db, IsDir(db, Root),
           NEW path, path \in [Inodes -> Seq(Names)], path[Root] = <<>>, MoverAt(r, db, path)
    PROVE  MoverAt(Settle(r), db, path) /\ (Settle(r).op = "move" => r.op = "move")
<1>1. PICK once : once = IF r.walk = <<>> THEN Arrived(r) ELSE r
  OBVIOUS
<1>2. /\ once \in CallRows(vals) /\ (once.pc = "look" => OnItsWay(once))
      /\ MoverAt(once, db, path) /\ (once.op = "move" => r.op = "move")
  <2>1. CASE r.walk = <<>>
    <3>1. once = Arrived(r)
      BY <1>1, <2>1
    <3>2. once \in CallRows(vals) /\ (once.pc = "look" => OnItsWay(once))
      BY <3>1, ArrivedOK
    <3>3. MoverAt(once, db, path) /\ (once.op = "move" => r.op = "move")
      BY <2>1, <3>1, ArrivedAt
    <3> QED BY <3>2, <3>3
  <2>2. CASE r.walk # <<>>
    BY <1>1, <2>2
  <2> QED BY <2>1, <2>2
<1>3. PICK x : x = IF once.pc = "look" /\ once.walk = <<>> THEN Arrived(once) ELSE once
  OBVIOUS
<1>4. Settle(r) = x
  BY <1>1, <1>3 DEF Settle
<1>5. CASE once.pc = "look" /\ once.walk = <<>>
  <2>1. x = Arrived(once) /\ OnItsWay(once)
    BY <1>2, <1>3, <1>5
  <2>2. MoverAt(x, db, path) /\ (x.op = "move" => once.op = "move")
    BY <1>2, <1>5, <2>1, ArrivedAt
  <2> QED BY <1>2, <1>4, <2>2
<1>6. CASE ~(once.pc = "look" /\ once.walk = <<>>)
  <2>1. x = once
    BY <1>3, <1>6
  <2> QED BY <1>2, <1>4, <2>1
<1> QED BY <1>5, <1>6

LEMMA AdvanceAt ==
    ASSUME NEW vals, Absent \in vals, <<>> \in vals, NEW r \in CallRows(vals), PlaceOK(r),
           r.pc \in {"look", "resolve", "make"}, NEW db, IsDir(db, Root), NEW i, IsDir(db, i),
           NEW path, path \in [Inodes -> Seq(Names)], path[Root] = <<>>, MoverAt(r, db, path),
           r.op = "move" => path[i] = Append(path[r.cur], Head(r.walk))
    PROVE  MoverAt(Advance(r, i), db, path) /\ (Advance(r, i).op = "move" => r.op = "move")
<1>1. r.walk \in Seq(Names) /\ r.walk # <<>> /\ r.cur \in Inodes /\ i \in Inodes
  BY DEF PlaceOK, CallRows, IsDir
<1>2. PICK w \in Seq(Names) : w = Tail(r.walk)
  BY <1>1, HeadTail
<1>3. PICK x : x = [r EXCEPT !.pc = "look", !.cur = i, !.walk = w, !.t = Absent]
  OBVIOUS
<1>4. x \in CallRows(vals)
  BY <1>1, <1>3 DEF CallRows
<1>5. x.pc = "look" /\ x.path = r.path /\ x.op = r.op /\ x.dst = r.dst /\ x.p1 = r.p1 /\ x.cur = i /\ x.walk = w
  BY <1>3 DEF CallRows
<1>6. OnItsWay(x)
  BY <1>5 DEF OnItsWay, PlaceOK
<1>7. MoverAt(x, db, path)
  <2> SUFFICES ASSUME r.op = "move" PROVE MoverAt(x, db, path)
    BY <1>5 DEF MoverAt
  <2>1. path[i] \o w = path[r.cur] \o r.walk
    <3>1. PICK a \in Seq(Names) : a = path[r.cur]
      BY <1>1
    <3>2. Append(a, Head(r.walk)) \o Tail(r.walk) = a \o r.walk
      BY <1>1, WalkOn
    <3> QED BY <1>2, <3>1, <3>2
  <2>2. path[r.cur] \o r.walk = ParentPath(IF r.p1 # 0 THEN r.dst ELSE r.path)
    BY DEF MoverAt
  <2>3. r.p1 # 0 => IsDir(db, r.p1) /\ path[r.p1] = ParentPath(r.path)
    BY DEF MoverAt
  <2> QED BY <1>5, <2>1, <2>2, <2>3 DEF MoverAt
<1>8. Advance(r, i) = Settle(x)
  BY <1>2, <1>3 DEF Advance
<1>9. MoverAt(Settle(x), db, path) /\ (Settle(x).op = "move" => x.op = "move")
  BY <1>4, <1>6, <1>7, SettleAt
<1> QED BY <1>5, <1>8, <1>9

\* Where a move stands does not change with the tables, while the directories
\* keep their paths.
LEMMA MoverKept ==
    ASSUME NEW old, NEW new, Grown(old, new), NEW vals, NEW r \in CallRows(vals), NEW path, NEW more,
           \A i \in Inodes : IsDir(old, i) => more[i] = path[i], MoverAt(r, old, path)
    PROVE  MoverAt(r, new, more)
<1> SUFFICES ASSUME r.op = "move", r.pc # "idle" PROVE MoverAt(r, new, more)
  BY DEF MoverAt
<1>1. IsDir(old, r.cur) /\ IsDir(new, r.cur) /\ more[r.cur] = path[r.cur]
  BY DEF MoverAt, IsDir, Grown
<1>2. r.p1 # 0 => IsDir(old, r.p1) /\ IsDir(new, r.p1) /\ more[r.p1] = path[r.p1]
  BY DEF MoverAt, IsDir, Grown
<1> QED BY <1>1, <1>2 DEF MoverAt

\* A step of one call.
LEMMA PathStep ==
    ASSUME TreeInv, PathInv, NEW path, PathsAre(path), NEW more, Named(dent', more),
           \A i \in Inodes : IsDir(DB, i) => more[i] = path[i], Grown(DB, DB'), OnlyDirs(DB'),
           NEW c \in Clients, NEW x, Become(c, x), x.op = "move" => c \in Movers, MoverAt(x, DB', more)
    PROVE  PathInv'
<1>1. PICK objs, vals : Shape(objs, vals)
  BY DEF TreeInv
<1>2. cl \in [Clients -> CallRows(vals)]
  BY <1>1 DEF Shape
<1>3. cl'[c] = x /\ \A e \in Clients : e # c => cl'[e] = cl[e]
  BY <1>2 DEF Become
<1>4. \A e \in Clients : cl'[e].op = "move" => e \in Movers
  BY <1>3 DEF PathInv
<1>5. ASSUME NEW e \in Clients PROVE MoverAt(cl'[e], DB', more)
  <2>1. MoverAt(cl[e], DB, path) /\ cl[e] \in CallRows(vals)
    BY <1>2 DEF PathsAre
  <2>2. MoverAt(cl[e], DB', more)
    BY <2>1, MoverKept
  <2> QED BY <1>3, <2>2
<1>6. PathsAre(more)'
  BY <1>5 DEF PathsAre
<1> QED BY <1>4, <1>6 DEF PathInv

\* the dentries of directories stay in directories
LEMMA OnlyDirsKept ==
    ASSUME NEW old, NEW new, OnlyDirs(old), Grown(old, new),
           \A d, i \in Inodes, n \in Names : new.dent[d][n] = ToInode(i) => old.dent[d][n] = ToInode(i) \/ IsDir(old, d)
    PROVE  OnlyDirs(new)
<1>1. Root \in Inodes
  BY TreeAssumption DEF Root, Inodes
<1>2. \A d \in Inodes : IsDir(old, d) => new.nodes[d].state \in {"dir", "overlay"}
  BY DEF Grown, IsDir
<1>3. new.nodes[Root].state \in {"dir", "overlay"}
  BY <1>1, <1>2 DEF OnlyDirs, IsDir
<1>4. ASSUME NEW d \in Inodes, NEW i \in Inodes, NEW n \in Names, new.dent[d][n] = ToInode(i)
      PROVE  new.nodes[d].state \in {"dir", "overlay"}
  <2>1. IsDir(old, d)
    BY <1>4 DEF OnlyDirs, IsDir
  <2> QED BY <1>2, <2>1
<1> QED BY <1>3, <1>4 DEF OnlyDirs

\* A step of one call that gives no inode a name.
LEMMA PathFewer ==
    ASSUME TreeInv, PathInv, NEW path, PathsAre(path), Fewer(dent, dent'), Grown(DB, DB'),
           NEW c \in Clients, NEW x, Become(c, x), x.op = "move" => c \in Movers, MoverAt(x, DB', path)
    PROVE  PathInv'
<1>1. DB.dent = dent /\ DB'.dent = dent'
  BY DEF DB
<1>2. OnlyDirs(DB')
  BY <1>1, OnlyDirsKept DEF PathInv, Fewer
<1>3. Named(dent', path)
  BY DEF PathsAre, Named, Fewer
<1> QED BY <1>2, <1>3, PathStep

LEMMA PathRead ==
    ASSUME TreeInv, PathInv, NEW path, PathsAre(path), UNCHANGED <<nodes, dent>>,
           NEW c \in Clients, NEW x, Become(c, x), x.op = "move" => c \in Movers, MoverAt(x, DB, path)
    PROVE  PathInv'
<1>1. Grown(DB, DB') /\ DB' = DB /\ Fewer(dent, dent')
  BY StillGrown, SameDB DEF Fewer
<1> QED BY <1>1, PathFewer

\* a step that ends its call
LEMMA PathEnd ==
    ASSUME TreeInv, PathInv, Fewer(dent, dent'), Grown(DB, DB'), NEW c \in Clients, Become(c, Idle)
    PROVE  PathInv'
<1>1. PICK path : PathsAre(path)
  BY DEF PathInv
<1> QED BY <1>1, IdleAt, PathFewer
-----------------------------------------------------------------------------
(* Steps that read, and steps that make a directory or drop dentries.       *)

LEMMA RootStands ==
    ASSUME PathInv, NEW path, PathsAre(path)
    PROVE  /\ IsDir(DB, Root) /\ Root \in Inodes /\ path \in [Inodes -> Seq(Names)] /\ path[Root] = <<>>
           /\ \A d, i \in Inodes, n \in Names : dent[d][n] = ToInode(i) => path[i] = Append(path[d], n)
<1>1. Root \in Inodes
  BY TreeAssumption DEF Root, Inodes
<1> QED BY <1>1 DEF PathInv, PathsAre, Named, OnlyDirs, IsDir

\* a call that stays where it is
LEMMA SameStand ==
    ASSUME NEW db, NEW path, NEW r, MoverAt(r, db, path), r.pc # "idle", NEW x,
           x.op = r.op, x.path = r.path, x.dst = r.dst, x.p1 = r.p1, x.cur = r.cur, x.walk = r.walk,
           x.pc \in {"look", "resolve", "make"} => r.pc \in {"look", "resolve", "make"},
           x.pc \in {"revs", "plan", "apply"} => r.pc \in {"revs", "plan", "apply"}
    PROVE  MoverAt(x, db, path)
BY DEF MoverAt

LEMMA NewCallPath ==
    ASSUME TreeInv, PathInv, NEW c \in Clients, NEW op, NEW p \in Paths, NEW q,
           (op \in Calls /\ q = <<>>) \/ (op = "move" /\ q \in Paths /\ c \in Movers), Call(c, op, p, q)
    PROVE  PathInv'
<1>1. PICK path : PathsAre(path)
  BY DEF PathInv
<1>2. PICK vals : vals = {Absent, <<>>}
  OBVIOUS
<1>3. /\ ParentPath(p) \in Seq(Names) /\ q \in Seq(Names) /\ p \in Seq(Names)
      /\ op \in {"move", "create_dir", "set_file", "set_dir", "symlink", "delete", "publish"}
      /\ op = "move" => q \in Paths /\ c \in Movers
  <2>1. \A s \in Paths : s \in Seq(Names) /\ ParentPath(s) \in Seq(Names)
    BY PathFacts
  <2>2. q \in Seq(Names)
    <3>1. <<>> \in Seq(Names)
      OBVIOUS
    <3> QED BY <2>1, <3>1
  <2> QED BY <2>1, <2>2, TreeAssumption
<1>4. Idle \in CallRows(vals)
  BY <1>2, IdleRow
<1>5. CASE op = "publish"
  <2>1. PICK x : x = [Idle EXCEPT !.pc = "find", !.op = op, !.path = p]
    OBVIOUS
  <2>2. x.op = "publish"
    BY <1>4, <1>5, <2>1 DEF CallRows
  <2>3. Become(c, x) /\ MoverAt(x, DB, path)
    BY <1>5, <2>1, <2>2 DEF Call, Become, MoverAt
  <2> QED BY <1>1, <2>2, <2>3, PathRead DEF Call
<1>6. CASE op # "publish"
  <2>1. PICK w \in Seq(Names) : w = ParentPath(p)
    BY <1>3
  <2>2. PICK r : r = [Idle EXCEPT !.pc = "look", !.op = op, !.path = p, !.dst = q, !.walk = w]
    OBVIOUS
  <2>3. /\ r \in CallRows(vals) /\ r.pc = "look" /\ r.op = op /\ r.path = p /\ r.dst = q /\ r.walk = w
        /\ r.cur = Root /\ r.p1 = 0
    <3>1. Idle.cur = Root /\ Idle.p1 = 0
      BY DEF Idle
    <3> QED BY <1>3, <1>4, <2>2, <3>1 DEF CallRows
  <2>4. OnItsWay(r)
    BY <1>3, <2>3 DEF OnItsWay
  <2>5. MoverAt(r, DB, path)
    <3>1. path[Root] \o w = w
      BY <1>1, RootStands, EmptyWalk
    <3> QED BY <1>1, <2>1, <2>3, <3>1, RootStands DEF MoverAt
  <2>6. MoverAt(Settle(r), DB, path) /\ (Settle(r).op = "move" => r.op = "move")
    BY <1>1, <1>2, <2>3, <2>4, <2>5, RootStands, SettleAt
  <2>7. Become(c, Settle(r))
    BY <1>6, <2>1, <2>2 DEF Call, Become
  <2> QED BY <1>1, <1>3, <2>3, <2>6, <2>7, PathRead DEF Call
<1> QED BY <1>5, <1>6

\* A turn of the walk leads to the inode of the path so far.
LEMMA WalkPath ==
    ASSUME TreeInv, PathInv, NEW c \in Clients, WalkLook(c) \/ WalkResolve(c)
    PROVE  PathInv'
<1>1. PICK path : PathsAre(path)
  BY DEF PathInv
<1>2. PICK r : r = cl[c]
  OBVIOUS
<1>3. PICK t : t = IF WalkLook(c) THEN dent[r.cur][Head(r.walk)] ELSE ResolveTo(DB, WalkedPath(r))
  OBVIOUS
<1>4. PICK objs, vals : Shape(objs, vals) /\ Absent \in vals /\ <<>> \in vals /\ t \in vals
  BY ShapeWith
<1>5. /\ r \in CallRows(vals) /\ PlaceOK(r) /\ r.pc \in {"look", "resolve"} /\ MoverAt(r, DB, path)
      /\ UNCHANGED <<nodes, dent>> /\ (r.op = "move" => c \in Movers) /\ DB \in Tables(objs) /\ DB.dent = dent
  BY <1>1, <1>2, <1>4 DEF TreeInv, TreeParts, CallsOK, Shape, WalkLook, WalkResolve, PathsAre, PathInv, DB
<1>6. PICK w \in Seq(Names), n \in Names : w = r.walk /\ w # <<>> /\ n = Head(w) /\ r.cur \in Inodes
  <2>1. r.walk \in Seq(Names) /\ r.walk # <<>> /\ r.cur \in Inodes
    BY <1>5 DEF PlaceOK, CallRows
  <2> QED BY <2>1, HeadTail
<1>7. ASSUME t.t = "inode", IsDir(DB, t.i), r.op = "move" PROVE path[t.i] = Append(path[r.cur], n)
  <2>1. CASE WalkLook(c)
    <3>1. t = dent[r.cur][n]
      BY <1>3, <1>6, <2>1
    <3>2. t \in Targets(objs)
      BY <1>5, <1>6, <3>1 DEF Tables
    <3>3. t.i \in Inodes /\ dent[r.cur][n] = ToInode(t.i)
      BY <1>7, <3>1, <3>2, InodeTarget
    <3>4. \A d, i \in Inodes, m \in Names : dent[d][m] = ToInode(i) => path[i] = Append(path[d], m)
      BY <1>1, RootStands
    <3> QED BY <1>6, <3>3, <3>4
  <2>2. CASE ~WalkLook(c)
    <3>1. t = ResolveTo(DB, WalkedPath(r)) /\ r.pc = "resolve"
      BY <1>2, <1>3, <2>2 DEF WalkResolve
    <3>2. PICK a \in Seq(Names) : a = path[r.cur]
      BY <1>1, <1>6, RootStands
    <3>3. a \o w = ParentPath(IF r.p1 # 0 THEN r.dst ELSE r.path)
      BY <1>5, <1>6, <1>7, <3>2 DEF MoverAt
    <3>4. WalkedPath(r) = SubSeq(a \o w, 1, Len(a \o w) - Len(w) + 1)
      BY <1>6, <1>7, <3>3 DEF WalkedPath
    <3>5. PICK p \in Seq(Names) : p = WalkedPath(r) /\ p = Append(a, n)
      <4>1. WalkedPath(r) = Append(a, n)
        BY <1>6, <3>4, WalkedSoFar
      <4>2. Append(a, n) \in Seq(Names)
        OBVIOUS
      <4> QED BY <4>1, <4>2
    <3>6. Named(DB.dent, path)
      BY <1>1, <1>5 DEF PathsAre
    <3>7. path[t.i] = p
      <4>1. ResolveTo(DB, p) = t /\ ResolveTo(DB, p).t = "inode"
        BY <1>7, <3>1, <3>5
      <4>2. path[ResolveTo(DB, p).i] = p
        BY <1>5, <3>6, <4>1, ResolveNamed
      <4> QED BY <4>1, <4>2
    <3> QED BY <3>2, <3>5, <3>7
  <2> QED BY <2>1, <2>2
<1>8. ASSUME t.t = "inode", IsDir(DB, t.i)
      PROVE  MoverAt(Advance(r, t.i), DB, path) /\ (Advance(r, t.i).op = "move" => r.op = "move")
  <2>1. PICK i : i = t.i
    OBVIOUS
  <2>2. IsDir(DB, i) /\ (r.op = "move" => path[i] = Append(path[r.cur], Head(r.walk)))
    BY <1>6, <1>7, <1>8, <2>1
  <2>3. IsDir(DB, Root) /\ path \in [Inodes -> Seq(Names)] /\ path[Root] = <<>>
    BY <1>1, RootStands
  <2>4. MoverAt(Advance(r, i), DB, path) /\ (Advance(r, i).op = "move" => r.op = "move")
    BY <1>4, <1>5, <2>2, <2>3, AdvanceAt
  <2> QED BY <2>1, <2>4
<1>9. ASSUME NEW pc \in {"make", "resolve"}, NEW v \in vals
      PROVE  MoverAt(Standing(r, pc, v), DB, path) /\ (Standing(r, pc, v).op = "move" => r.op = "move")
  <2>1. PICK x : x = Standing(r, pc, v)
    OBVIOUS
  <2>2. /\ x.pc = pc /\ x.op = r.op /\ x.path = r.path /\ x.dst = r.dst /\ x.p1 = r.p1 /\ x.cur = r.cur
        /\ x.walk = r.walk
    BY <1>5, <2>1 DEF Standing, CallRows
  <2>3. MoverAt(x, DB, path)
    BY <1>5, <2>2, SameStand
  <2> QED BY <2>1, <2>2, <2>3
<1>10. /\ [r EXCEPT !.pc = "make", !.t = t] = Standing(r, "make", t)
       /\ [r EXCEPT !.pc = "make", !.t = Absent] = Standing(r, "make", Absent)
       /\ [r EXCEPT !.pc = "resolve"] = Standing(r, "resolve", r.t) /\ r.t \in vals
  BY <1>5 DEF Standing, CallRows
<1>11. PICK x : Become(c, x) /\ MoverAt(x, DB, path) /\ (x.op = "move" => r.op = "move")
  <2>1. CASE WalkLook(c)
    <3>1. t = dent[r.cur][Head(r.walk)]
      BY <1>3, <2>1
    <3>2. t.t \in {"absent", "tomb", "link", "inode", "obj"}
      <4>1. t \in Targets(objs)
        BY <1>5, <1>6, <3>1 DEF Tables
      <4> QED BY <4>1, TargetFacts DEF Targets
    <3>3. PICK x : /\ Become(c, x)
                   /\ x = CASE t.t = "inode" -> IF IsDir(DB, t.i) THEN Advance(r, t.i) ELSE Idle
                            [] t.t = "obj" -> IF t.o.k = "dir" THEN [r EXCEPT !.pc = "make", !.t = t] ELSE Idle
                            [] t.t = "tomb" -> [r EXCEPT !.pc = "make", !.t = Absent]
                            [] t.t = "link" -> Idle
                            [] t.t = "absent" -> [r EXCEPT !.pc = "resolve"]
      BY <1>2, <2>1, <3>1 DEF WalkLook
    <3>4. \/ x = Idle
          \/ t.t = "inode" /\ IsDir(DB, t.i) /\ x = Advance(r, t.i)
          \/ x \in {Standing(r, "make", t), Standing(r, "make", Absent), Standing(r, "resolve", r.t)}
      BY <1>10, <3>2, <3>3
    <3> QED BY <1>4, <1>8, <1>9, <1>10, <3>3, <3>4, IdleAt
  <2>2. CASE ~WalkLook(c)
    <3>1. t = ResolveTo(DB, WalkedPath(r)) /\ WalkResolve(c)
      BY <1>3, <2>2
    <3>2. PICK x : /\ Become(c, x)
                   /\ x = CASE t.t = "inode" -> IF IsDir(DB, t.i) THEN Advance(r, t.i) ELSE Idle
                            [] t.t = "obj" -> IF t.o.k = "dir" THEN [r EXCEPT !.pc = "make", !.t = t] ELSE Idle
                            [] t.t = "inner" -> Idle
                            [] OTHER -> [r EXCEPT !.pc = "make", !.t = Absent]
      BY <1>2, <3>1 DEF WalkResolve
    <3>3. \/ x = Idle
          \/ t.t = "inode" /\ IsDir(DB, t.i) /\ x = Advance(r, t.i)
          \/ x \in {Standing(r, "make", t), Standing(r, "make", Absent)}
      BY <1>10, <3>2
    <3> QED BY <1>4, <1>8, <1>9, <3>2, <3>3, IdleAt
  <2> QED BY <2>1, <2>2
<1> QED BY <1>1, <1>5, <1>11, PathRead

\* A directory that is new takes the path its dentry gives it.
LEMMA PathBud ==
    ASSUME TreeInv, PathInv, NEW path, PathsAre(path), Grown(DB, DB'), NEW new, NEW d, NEW n, Budded(new, d, n)
    PROVE  /\ OnlyDirs(DB')
           /\ \E more : /\ Named(dent', more) /\ more[new] = Append(path[d], n)
                        /\ \A i \in Inodes : IsDir(DB, i) => more[i] = path[i]
<1>1. PICK objs, vals : Shape(objs, vals)
  BY DEF TreeInv
<1>2. /\ DB \in Tables(objs) /\ DB.dent = dent /\ DB'.dent = dent' /\ Sound(DB)
  BY <1>1 DEF Shape, DB, TreeInv, TreeParts
<1>3. d \in Inodes /\ new \in Inodes /\ n \in Names /\ new # d /\ new # Root
  BY RootStands DEF Budded, IsDir, Exists
<1>4. /\ path \in [Inodes -> Seq(Names)] /\ Append(path[d], n) \in Seq(Names) /\ path[Root] = <<>> /\ Root \in Inodes
      /\ \A e, i \in Inodes, m \in Names : dent[e][m] = ToInode(i) => path[i] = Append(path[e], m)
  <2>1. path \in [Inodes -> Seq(Names)] /\ path[Root] = <<>> /\ Root \in Inodes
    BY RootStands
  <2>2. PICK a \in Seq(Names) : a = path[d]
    BY <1>3, <2>1
  <2>3. Append(a, n) \in Seq(Names)
    BY <1>3
  <2> QED BY <2>1, <2>2, <2>3, RootStands
<1>5. PICK more \in [Inodes -> Seq(Names)] :
         more[new] = Append(path[d], n) /\ \A i \in Inodes : i # new => more[i] = path[i]
  <2>1. PICK s \in Seq(Names) : s = Append(path[d], n)
    BY <1>4
  <2>2. [path EXCEPT ![new] = s] \in [Inodes -> Seq(Names)]
    BY <1>3, <1>4
  <2> QED BY <1>3, <1>4, <2>1, <2>2
<1>6. \A e, i \in Inodes, m \in Names : dent[e][m] = ToInode(i) => e # new /\ i # new
  <2> SUFFICES ASSUME NEW e \in Inodes, NEW i \in Inodes, NEW m \in Names, dent[e][m] = ToInode(i)
               PROVE  e # new /\ i # new
    OBVIOUS
  <2>1. e # new
    BY <1>2 DEF PathInv, OnlyDirs, Budded, Exists
  <2>2. DB.nodes[i].ref = <<e, m>> /\ <<e, m>> # NoRef
    BY <1>2, TreeAssumption DEF Sound, Agree, NoRef, Inodes
  <2>3. i # new
    BY <1>2, <1>3, <2>2 DEF Sound, Budded, Exists
  <2> QED BY <2>1, <2>3
<1>7. \A e, i \in Inodes, m \in Names : dent'[e][m] = ToInode(i) =>
         dent[e][m] = ToInode(i) \/ (e = d /\ m = n /\ i = new)
  <2>1. PICK t \in Targets(objs) : t = ToInode(new)
    BY <1>3 DEF Targets
  <2>2. dent' = dent \/ dent' = Over(DB.dent, d, n, t)
    BY <1>2, <2>1 DEF Budded
  <2>3. CASE dent' = dent
    BY <2>3
  <2>4. CASE dent' = Over(DB.dent, d, n, t)
    <3>1. dent'[d][n] = t /\ \A e \in Inodes, m \in Names : <<e, m>> # <<d, n>> => dent'[e][m] = dent[e][m]
      BY <1>2, <1>3, <2>4, OverIs
    <3> QED BY <2>1, <3>1, TargetFacts
  <2> QED BY <2>2, <2>3, <2>4
<1>8. Named(dent', more)
  <2> SUFFICES ASSUME NEW e \in Inodes, NEW i \in Inodes, NEW m \in Names, dent'[e][m] = ToInode(i)
               PROVE  more[i] = Append(more[e], m)
    BY <1>3, <1>4, <1>5 DEF Named
  <2>1. CASE dent[e][m] = ToInode(i)
    <3>1. path[i] = Append(path[e], m)
      BY <1>4, <2>1
    <3>2. more[i] = path[i] /\ more[e] = path[e]
      BY <1>5, <1>6, <2>1
    <3> QED BY <3>1, <3>2
  <2>2. CASE e = d /\ m = n /\ i = new
    BY <1>3, <1>5, <2>2
  <2> QED BY <1>7, <2>1, <2>2
<1>9. OnlyDirs(DB')
  BY <1>2, <1>7, OnlyDirsKept DEF PathInv, Budded
<1>10. \A i \in Inodes : IsDir(DB, i) => more[i] = path[i]
  BY <1>5 DEF Budded, IsDir, Exists
<1> QED BY <1>5, <1>8, <1>9, <1>10

LEMMA WalkMakePath ==
    ASSUME TreeInv, PathInv, NEW c \in Clients, WalkMake(c)
    PROVE  PathInv'
<1>1. PICK path : PathsAre(path)
  BY DEF PathInv
<1>2. PICK r : r = cl[c]
  OBVIOUS
<1>3. PICK objs, vals : Shape(objs, vals) /\ Absent \in vals /\ <<>> \in vals
  BY ShapeWith
<1>4. /\ r \in CallRows(vals) /\ PlaceOK(r) /\ r.pc = "make" /\ MoverAt(r, DB, path)
      /\ (r.op = "move" => c \in Movers) /\ r.cur \in Inodes
  BY <1>1, <1>2, <1>3 DEF TreeInv, TreeParts, CallsOK, Shape, WalkMake, PathsAre, PathInv, CallRows
<1>5. PICK n \in Names : n = Head(r.walk)
  <2>1. r.walk \in Seq(Names) /\ r.walk # <<>>
    BY <1>4 DEF PlaceOK, CallRows
  <2> QED BY <2>1, HeadTail
<1>6. Grown(DB, DB') /\ WalkMade(c, r, n)
  BY <1>2, <1>5, WalkMakeStep
<1>7. CASE UNCHANGED <<nodes, dent>> /\ Become(c, Idle)
  <2>1. Fewer(dent, dent')
    BY <1>7 DEF Fewer
  <2> QED BY <1>6, <1>7, <2>1, PathEnd
<1>8. ASSUME UNCHANGED <<nodes, dent>>, NEW i \in Inodes, dent[r.cur][n] = ToInode(i), IsDir(DB, i),
             Become(c, Advance(r, i))
      PROVE  PathInv'
  <2>1. path[i] = Append(path[r.cur], Head(r.walk))
    BY <1>1, <1>4, <1>5, <1>8, RootStands
  <2>2. MoverAt(Advance(r, i), DB, path) /\ (Advance(r, i).op = "move" => r.op = "move")
    BY <1>1, <1>3, <1>4, <1>8, <2>1, RootStands, AdvanceAt
  <2> QED BY <1>1, <1>4, <1>8, <2>2, PathRead
<1>9. ASSUME NEW new, Budded(new, r.cur, n), Become(c, Advance(r, new)) PROVE PathInv'
  <2>1. PICK d : d = r.cur
    OBVIOUS
  <2>2. PICK more : /\ Named(dent', more) /\ OnlyDirs(DB') /\ \A i \in Inodes : IsDir(DB, i) => more[i] = path[i]
                    /\ more[new] = Append(path[r.cur], n)
    BY <1>1, <1>6, <1>9, <2>1, PathBud
  <2>3. IsDir(DB, r.cur) /\ IsDir(DB', new) /\ IsDir(DB', Root)
    BY <1>1, <1>6, <1>9, RootStands DEF Budded, Grown
  <2>4. more[r.cur] = path[r.cur] /\ more \in [Inodes -> Seq(Names)] /\ more[Root] = <<>>
    BY <1>4, <2>2, <2>3 DEF Named
  <2>5. MoverAt(r, DB', more)
    BY <1>4, <1>6, <2>2, MoverKept
  <2>6. MoverAt(Advance(r, new), DB', more) /\ (Advance(r, new).op = "move" => r.op = "move")
    BY <1>3, <1>4, <1>5, <2>2, <2>3, <2>4, <2>5, AdvanceAt
  <2> QED BY <1>1, <1>4, <1>6, <1>9, <2>2, <2>6, PathStep
<1> QED BY <1>6, <1>7, <1>8, <1>9 DEF WalkMade

LEMMA ExecCreatePath ==
    ASSUME TreeInv, PathInv, NEW c \in Clients, ExecCreate(c)
    PROVE  PathInv'
<1>1. PICK path : PathsAre(path)
  BY DEF PathInv
<1>2. Grown(DB, DB') /\ (Fewer(dent, dent') \/ \E new, n : Budded(new, cl[c].cur, n)) /\ Become(c, Idle)
  BY ExecCreateStep DEF ExecCreate
<1>3. CASE Fewer(dent, dent')
  BY <1>2, <1>3, PathEnd
<1>4. ASSUME NEW new, NEW n, Budded(new, cl[c].cur, n) PROVE PathInv'
  <2>1. PICK d : d = cl[c].cur
    OBVIOUS
  <2>2. PICK more : Named(dent', more) /\ OnlyDirs(DB') /\ \A i \in Inodes : IsDir(DB, i) => more[i] = path[i]
    BY <1>1, <1>2, <1>4, <2>1, PathBud
  <2> QED BY <1>1, <1>2, <2>2, IdleAt, PathStep
<1> QED BY <1>2, <1>3, <1>4
LEMMA DeleteReadPath ==
    ASSUME TreeInv, PathInv, NEW c \in Clients, DeleteRev(c) \/ DeleteLook(c)
    PROVE  PathInv'
<1>1. PICK path : PathsAre(path)
  BY DEF PathInv
<1>2. PICK r : r = cl[c]
  OBVIOUS
<1>3. PICK objs, vals : Shape(objs, vals)
  BY DEF TreeInv
<1>4. /\ r \in CallRows(vals) /\ r.pc \in {"exec", "dlook"} /\ MoverAt(r, DB, path)
      /\ (r.op = "move" => c \in Movers) /\ UNCHANGED <<nodes, dent>>
  BY <1>1, <1>2, <1>3 DEF Shape, DeleteRev, DeleteLook, PathsAre, PathInv
<1>5. PICK x : /\ Become(c, x)
               /\ x \in {Idle, [r EXCEPT !.pc = "dlook", !.r1 = nodes[r.cur].rev],
                         [r EXCEPT !.pc = "dwrite", !.t = dent[r.cur][Name(r.path)]]}
  BY <1>2 DEF DeleteRev, DeleteLook
<1>6. MoverAt(x, DB, path) /\ (x.op = "move" => r.op = "move")
  <2>1. CASE x = Idle
    BY <2>1, IdleAt
  <2>2. CASE x # Idle
    <3>1. /\ x.pc \in {"dlook", "dwrite"} /\ x.op = r.op /\ x.path = r.path /\ x.dst = r.dst /\ x.p1 = r.p1
          /\ x.cur = r.cur /\ x.walk = r.walk
      BY <1>4, <1>5, <2>2 DEF CallRows
    <3> QED BY <1>4, <3>1, SameStand
  <2> QED BY <2>1, <2>2
<1> QED BY <1>1, <1>4, <1>5, <1>6, PathRead

LEMMA MoveReadPath ==
    ASSUME TreeInv, PathInv, NEW c \in Clients, MoveRevs(c) \/ MovePlan(c)
    PROVE  PathInv'
<1>1. PICK path : PathsAre(path)
  BY DEF PathInv
<1>2. PICK r : r = cl[c]
  OBVIOUS
<1>3. PICK objs, vals : Shape(objs, vals)
  BY DEF TreeInv
<1>4. /\ r \in CallRows(vals) /\ r.pc \in {"revs", "plan"} /\ MoverAt(r, DB, path)
      /\ (r.op = "move" => c \in Movers) /\ UNCHANGED <<nodes, dent>>
  BY <1>1, <1>2, <1>3 DEF Shape, MoveRevs, MovePlan, PathsAre, PathInv
<1>5. PICK x : /\ Become(c, x)
               /\ x \in {Idle, [r EXCEPT !.pc = "plan", !.r1 = nodes[r.p1].rev, !.r2 = nodes[r.cur].rev,
                                         !.seen = <<dent[r.p1], dent[r.cur]>>],
                         [r EXCEPT !.pc = "apply", !.t = dent[r.p1][Name(r.path)]]}
  BY <1>2 DEF MoveRevs, MovePlan
<1>6. MoverAt(x, DB, path) /\ (x.op = "move" => r.op = "move")
  <2>1. CASE x = Idle
    BY <2>1, IdleAt
  <2>2. CASE x # Idle
    <3>1. /\ x.pc \in {"plan", "apply"} /\ x.op = r.op /\ x.path = r.path /\ x.dst = r.dst /\ x.p1 = r.p1
          /\ x.cur = r.cur /\ x.walk = r.walk
      BY <1>4, <1>5, <2>2 DEF CallRows
    <3> QED BY <1>4, <3>1, SameStand
  <2> QED BY <2>1, <2>2
<1> QED BY <1>1, <1>4, <1>5, <1>6, PathRead

LEMMA PublishFindPath ==
    ASSUME TreeInv, PathInv, NEW c \in Clients, PublishFind(c)
    PROVE  PathInv'
<1>1. PICK path : PathsAre(path)
  BY DEF PathInv
<1>2. PICK r : r = cl[c]
  OBVIOUS
<1>3. PICK objs, vals : Shape(objs, vals)
  BY DEF TreeInv
<1>4. /\ r \in CallRows(vals) /\ r.pc = "find" /\ MoverAt(r, DB, path)
      /\ (r.op = "move" => c \in Movers) /\ UNCHANGED <<nodes, dent>>
  BY <1>1, <1>2, <1>3 DEF Shape, PublishFind, PathsAre, PathInv
<1>5. PICK t : t = ResolveTo(DB, r.path)
  OBVIOUS
<1>6. PICK x : Become(c, x) /\ (x = Idle \/ (IsDir(DB, t.i) /\ x = [r EXCEPT !.pc = "pub", !.cur = t.i]))
  BY <1>2, <1>5 DEF PublishFind
<1>7. MoverAt(x, DB, path) /\ (x.op = "move" => r.op = "move")
  <2>1. CASE x = Idle
    BY <2>1, IdleAt
  <2>2. CASE x # Idle
    <3>1. IsDir(DB, t.i) /\ x.pc = "pub" /\ x.op = r.op /\ x.path = r.path /\ x.p1 = r.p1 /\ x.cur = t.i
      BY <1>4, <1>6, <2>2 DEF CallRows
    <3> QED BY <1>4, <3>1 DEF MoverAt
  <2> QED BY <2>1, <2>2
<1> QED BY <1>1, <1>4, <1>6, <1>7, PathRead

LEMMA FinalizeFilePath ==
    ASSUME TreeInv, PathInv, NEW f \in Inodes, FinalizeFile(f)
    PROVE  PathInv'
<1>1. PICK path : PathsAre(path)
  BY DEF PathInv
<1>2. PICK objs, vals : Shape(objs, vals)
  BY DEF TreeInv
<1>3. Grown(DB, DB') /\ dent' = dent /\ cl' = cl /\ DB.dent = dent /\ DB'.dent = dent
  BY FinalizeFileStep DEF FinalizeFile, DB
<1>4. OnlyDirs(DB')
  BY <1>3, OnlyDirsKept DEF PathInv
<1>5. ASSUME NEW c \in Clients PROVE MoverAt(cl[c], DB', path)
  <2>1. cl[c] \in CallRows(vals) /\ MoverAt(cl[c], DB, path)
    BY <1>1, <1>2 DEF Shape, PathsAre
  <2> QED BY <1>3, <2>1, MoverKept
<1>6. PathsAre(path)'
  BY <1>1, <1>3, <1>5 DEF PathsAre
<1> QED BY <1>3, <1>4, <1>6 DEF PathInv

-----------------------------------------------------------------------------
(* A move: the subtree takes new paths.                                     *)

LEMMA ParentAndName ==
    ASSUME NEW p \in Paths
    PROVE  /\ Append(ParentPath(p), Name(p)) = p /\ Len(p) \in Nat \ {0} /\ Len(ParentPath(p)) = Len(p) - 1
           /\ \A k \in 0 .. Len(p) - 1 : SubSeq(ParentPath(p), 1, k) = SubSeq(p, 1, k)
<1>1. p \in Seq(Names) /\ p # <<>>
  BY TreeAssumption
<1>2. PICK n \in Nat \ {0} : n = Len(p)
  BY <1>1
<1>3. PICK q \in Seq(Names) : q = SubSeq(p, 1, n - 1)
  <2>1. SubSeq(p, 1, n - 1) \in Seq(Names)
    BY <1>1, <1>2
  <2> QED BY <2>1
<1>4. q = ParentPath(p) /\ Len(q) = n - 1 /\ \A i \in 1 .. n - 1 : q[i] = p[i]
  BY <1>1, <1>2, <1>3 DEF ParentPath
<1>5. PICK l \in Names : l = Name(p) /\ l = p[n]
  BY <1>1, <1>2 DEF Name
<1>6. Append(q, l) = p
  <2>1. PICK s \in Seq(Names) : s = Append(q, l)
    <3>1. Append(q, l) \in Seq(Names)
      OBVIOUS
    <3> QED BY <3>1
  <2>2. Len(s) = n /\ s[n] = l /\ \A i \in 1 .. n - 1 : s[i] = q[i]
    BY <1>2, <1>4, <2>1
  <2>3. \A i \in 1 .. n : s[i] = p[i]
    BY <1>2, <1>4, <1>5, <2>2
  <2>4. s = p
    BY <1>1, <1>2, <2>2, <2>3
  <2> QED BY <2>1, <2>4
<1>7. ASSUME NEW k \in 0 .. n - 1 PROVE SubSeq(q, 1, k) = SubSeq(p, 1, k)
  <2>1. PICK a \in Seq(Names), b \in Seq(Names) : a = SubSeq(q, 1, k) /\ b = SubSeq(p, 1, k)
    <3>1. SubSeq(q, 1, k) \in Seq(Names)
      BY <1>2, <1>4
    <3>2. SubSeq(p, 1, k) \in Seq(Names)
      BY <1>1, <1>2
    <3> QED BY <3>1, <3>2
  <2>2. Len(a) = k /\ \A i \in 1 .. k : a[i] = q[i]
    BY <1>2, <1>4, <2>1
  <2>3. Len(b) = k /\ \A i \in 1 .. k : b[i] = p[i]
    BY <1>1, <1>2, <2>1
  <2>4. \A i \in 1 .. k : a[i] = b[i]
    BY <1>2, <1>4, <2>2, <2>3
  <2>5. a = b
    BY <2>2, <2>3, <2>4
  <2> QED BY <2>1, <2>5
<1> QED BY <1>2, <1>4, <1>5, <1>6, <1>7

\* q begins with s
Begins(q, s) == Len(s) <= Len(q) /\ SubSeq(q, 1, Len(s)) = s
\* what is left of it
Rest(q, s) == SubSeq(q, Len(s) + 1, Len(q))

LEMMA BeginsOn ==
    ASSUME NEW q \in Seq(Names), NEW s \in Seq(Names), NEW l \in Names, Begins(q, s)
    PROVE  Begins(Append(q, l), s) /\ Rest(Append(q, l), s) = Append(Rest(q, s), l) /\ Rest(q, s) \in Seq(Names)
<1>1. PICK m \in Nat, k \in Nat : m = Len(s) /\ k = Len(q) /\ m <= k /\ SubSeq(q, 1, m) = s
  <2>1. Len(s) \in Nat /\ Len(q) \in Nat
    OBVIOUS
  <2> QED BY <2>1 DEF Begins
<1>2. PICK z \in Seq(Names) : z = Append(q, l)
  <2>1. Append(q, l) \in Seq(Names)
    OBVIOUS
  <2> QED BY <2>1
<1>3. Len(z) = k + 1 /\ z[k + 1] = l /\ \A i \in 1 .. k : z[i] = q[i]
  BY <1>1, <1>2
<1>4. SubSeq(z, 1, m) = s
  <2>1. PICK a \in Seq(Names) : a = SubSeq(z, 1, m)
    <3>1. SubSeq(z, 1, m) \in Seq(Names)
      BY <1>1, <1>3
    <3> QED BY <3>1
  <2>2. Len(a) = m /\ \A i \in 1 .. m : a[i] = z[i]
    BY <1>1, <1>3, <2>1
  <2>3. \A i \in 1 .. m : s[i] = q[i]
    BY <1>1
  <2>4. \A i \in 1 .. m : a[i] = s[i]
    BY <1>1, <1>3, <2>2, <2>3
  <2>5. a = s
    BY <1>1, <2>2, <2>4
  <2> QED BY <2>1, <2>5
<1>5. PICK b \in Seq(Names) : b = Rest(q, s) /\ b = SubSeq(q, m + 1, k)
  <2>1. SubSeq(q, m + 1, k) \in Seq(Names)
    BY <1>1
  <2> QED BY <1>1, <2>1 DEF Rest
<1>6. Len(b) = k - m /\ \A i \in 1 .. k - m : b[i] = q[m + i]
  BY <1>1, <1>5
<1>7. PICK u \in Seq(Names) : u = Append(b, l)
  <2>1. Append(b, l) \in Seq(Names)
    OBVIOUS
  <2> QED BY <2>1
<1>8. Len(u) = k - m + 1 /\ u[k - m + 1] = l /\ \A i \in 1 .. k - m : u[i] = b[i]
  BY <1>1, <1>6, <1>7
<1>9. PICK v \in Seq(Names) : v = Rest(z, s) /\ v = SubSeq(z, m + 1, k + 1)
  <2>1. SubSeq(z, m + 1, k + 1) \in Seq(Names)
    BY <1>1, <1>3
  <2> QED BY <1>1, <1>3, <2>1 DEF Rest
<1>10. Len(v) = k - m + 1 /\ \A i \in 1 .. k - m + 1 : v[i] = z[m + i]
  BY <1>1, <1>3, <1>9
<1>11. ASSUME NEW i \in 1 .. k - m + 1 PROVE v[i] = u[i]
  <2>1. CASE i = k - m + 1
    <3>1. m + i = k + 1
      BY <1>1, <2>1
    <3> QED BY <1>3, <1>8, <1>10, <2>1, <3>1
  <2>2. CASE i # k - m + 1
    <3>1. i \in 1 .. k - m /\ m + i \in 1 .. k
      BY <1>1, <2>2
    <3> QED BY <1>3, <1>6, <1>8, <1>10, <3>1
  <2> QED BY <2>1, <2>2
<1>12. u = v
  <2>1. Len(u) = Len(v) /\ \A i \in 1 .. Len(u) : u[i] = v[i]
    BY <1>8, <1>10, <1>11
  <2> QED BY <2>1
<1>13. Begins(z, s)
  BY <1>1, <1>3, <1>4 DEF Begins
<1> QED BY <1>2, <1>5, <1>7, <1>9, <1>12, <1>13

LEMMA AppendOn ==
    ASSUME NEW a \in Seq(Names), NEW b \in Seq(Names), NEW l \in Names
    PROVE  a \o Append(b, l) = Append(a \o b, l)
<1>1. PICK w \in Seq(Names) : w = Append(b, l)
  <2>1. Append(b, l) \in Seq(Names)
    OBVIOUS
  <2> QED BY <2>1
<1>2. PICK m \in Nat, k \in Nat : m = Len(a) /\ k = Len(b)
  OBVIOUS
<1>3. Len(w) = k + 1 /\ w[k + 1] = l /\ \A i \in 1 .. k : w[i] = b[i]
  BY <1>1, <1>2
<1>4. PICK x \in Seq(Names) : x = a \o w
  <2>1. a \o w \in Seq(Names)
    OBVIOUS
  <2> QED BY <2>1
<1>5. PICK y \in Seq(Names) : y = a \o b
  <2>1. a \o b \in Seq(Names)
    OBVIOUS
  <2> QED BY <2>1
<1>6. PICK z \in Seq(Names) : z = Append(y, l)
  <2>1. Append(y, l) \in Seq(Names)
    OBVIOUS
  <2> QED BY <2>1
<1>7. Len(x) = m + k + 1 /\ Len(y) = m + k /\ Len(z) = m + k + 1
  <2>1. Len(x) = m + (k + 1)
    BY <1>2, <1>3, <1>4
  <2>2. Len(y) = m + k
    BY <1>2, <1>5
  <2>3. Len(z) = Len(y) + 1
    BY <1>6
  <2> QED BY <1>2, <2>1, <2>2, <2>3
<1>8. ASSUME NEW i \in 1 .. m + k + 1 PROVE x[i] = z[i]
  <2>1. CASE i <= m
    <3>1. x[i] = a[i] /\ y[i] = a[i]
      BY <1>2, <1>4, <1>5, <2>1
    <3>2. z[i] = y[i]
      BY <1>2, <1>6, <1>7, <2>1
    <3> QED BY <3>1, <3>2
  <2>2. CASE i > m /\ i <= m + k
    <3>1. PICK j \in 1 .. k : j = i - m
      <4>1. i \in Int /\ m \in Int /\ k \in Int
        OBVIOUS
      <4>2. i - m \in 1 .. k
        BY <2>2, <4>1
      <4> QED BY <4>2
    <3>2. x[i] = w[j] /\ y[i] = b[j]
      BY <1>2, <1>3, <1>4, <1>5, <2>2, <3>1
    <3>3. z[i] = y[i]
      BY <1>2, <1>6, <1>7, <2>2
    <3> QED BY <1>3, <3>1, <3>2, <3>3
  <2>3. CASE i = m + k + 1
    <3>1. x[i] = w[k + 1]
      BY <1>2, <1>3, <1>4, <2>3
    <3>2. z[i] = l
      BY <1>6, <1>7, <2>3
    <3> QED BY <1>3, <3>1, <3>2
  <2>4. i <= m \/ (i > m /\ i <= m + k) \/ i = m + k + 1
    <3>1. i \in Int /\ m \in Int /\ k \in Int
      OBVIOUS
    <3> QED BY <3>1
  <2> QED BY <2>1, <2>2, <2>3, <2>4
<1>9. x = z
  <2>1. Len(x) = Len(z) /\ \A i \in 1 .. Len(x) : x[i] = z[i]
    BY <1>7, <1>8
  <2> QED BY <2>1
<1> QED BY <1>1, <1>4, <1>5, <1>6, <1>9
\* k and what is below it: what is in every set with k that dentries do not leave
Downward(k, S) == k \in S /\ \A d \in S, i \in Inodes, n \in Names : dent[d][n] = ToInode(i) => i \in S
Below(k) == {x \in Inodes : \A S \in SUBSET Inodes : Downward(k, S) => x \in S}

LEMMA BelowIs ==
    ASSUME NEW k \in Inodes, Agree(DB)
    PROVE  /\ Downward(k, Below(k)) /\ Below(k) \subseteq Inodes
           /\ \A d, i \in Inodes, n \in Names : dent[d][n] = ToInode(i) /\ i \in Below(k) /\ i # k => d \in Below(k)
           /\ \A S \in SUBSET Inodes : Downward(k, S) => Below(k) \subseteq S
<1>1. Below(k) = {x \in Inodes : \A S \in SUBSET Inodes : Downward(k, S) => x \in S}
  BY DEF Below
<1>2. k \in Below(k) /\ Below(k) \subseteq Inodes
  BY <1>1 DEF Downward
<1>3. ASSUME NEW d \in Below(k), NEW i \in Inodes, NEW n \in Names, dent[d][n] = ToInode(i) PROVE i \in Below(k)
  <2> SUFFICES ASSUME NEW S \in SUBSET Inodes, Downward(k, S) PROVE i \in S
    BY <1>1
  <2>1. d \in S
    BY <1>1
  <2> QED BY <1>3, <2>1 DEF Downward
<1>4. ASSUME NEW d \in Inodes, NEW i \in Inodes, NEW n \in Names, dent[d][n] = ToInode(i), i \in Below(k), i # k,
             d \notin Below(k)
      PROVE  FALSE
  <2>1. PICK S \in SUBSET Inodes : Downward(k, S) /\ d \notin S
    BY <1>1, <1>4
  <2>2. PICK T \in SUBSET Inodes : T = S \ {i}
    OBVIOUS
  <2>3. ASSUME NEW e \in T, NEW j \in Inodes, NEW m \in Names, dent[e][m] = ToInode(j) PROVE j \in T
    <3>1. e \in S /\ e \in Inodes /\ j \in S
      BY <2>1, <2>2, <2>3 DEF Downward
    <3>2. j # i
      <4> SUFFICES ASSUME j = i PROVE FALSE
        OBVIOUS
      <4>1. DB.dent[e][m] = ToInode(i) /\ DB.dent[d][n] = ToInode(i)
        BY <1>4, <2>3 DEF DB
      <4>2. DB.nodes[i].ref = <<e, m>> /\ DB.nodes[i].ref = <<d, n>>
        BY <3>1, <4>1 DEF Agree
      <4>3. e = d
        BY <4>2
      <4> QED BY <2>1, <3>1, <4>3
    <3> QED BY <2>2, <3>1, <3>2
  <2>4. Downward(k, T)
    BY <1>4, <2>1, <2>2, <2>3 DEF Downward
  <2>5. i \in T
    BY <1>1, <1>4, <2>4
  <2> QED BY <2>2, <2>5
<1>5. ASSUME NEW S \in SUBSET Inodes, Downward(k, S) PROVE Below(k) \subseteq S
  BY <1>1, <1>5
<1>6. Downward(k, Below(k))
  BY <1>2, <1>3 DEF Downward
<1> QED BY <1>2, <1>4, <1>5, <1>6

\* The paths after a move: src, and what is below it, become dst and what is
\* below that.
LEMMA PathsMoved ==
    ASSUME Agree(DB), NEW path, Named(dent, path), NEW k \in Inodes, NEW src \in Paths, path[k] = src,
           NEW d \in Inodes, NEW dst \in Paths, path[d] = ParentPath(dst), ~IsDescendant(dst, src),
           NEW new, Relinked(dent, new, ToInode(k), d, Name(dst))
    PROVE  \E more : Named(new, more)
<1>1. /\ src \in Seq(Names) /\ dst \in Seq(Names) /\ Len(src) \in Nat \ {0} /\ Len(dst) \in Nat \ {0}
      /\ Append(ParentPath(dst), Name(dst)) = dst /\ Name(dst) \in Names
  BY TreeAssumption, ParentAndName, PathFacts
<1>2. /\ path \in [Inodes -> Seq(Names)] /\ path[Root] = <<>> /\ Root \in Inodes
      /\ \A e, i \in Inodes, n \in Names : dent[e][n] = ToInode(i) => path[i] = Append(path[e], n)
  <2>1. Root \in Inodes
    BY TreeAssumption DEF Root, Inodes
  <2> QED BY <2>1 DEF Named
<1>3. PICK D \in SUBSET Inodes :
         /\ Downward(k, D)
         /\ \A e, i \in Inodes, n \in Names : dent[e][n] = ToInode(i) /\ i \in D /\ i # k => e \in D
         /\ \A x \in D : Begins(path[x], src)
  <2>1. PICK S \in SUBSET Inodes : S = {x \in Inodes : Begins(path[x], src)}
    OBVIOUS
  <2>2. k \in S
    <3>1. SubSeq(src, 1, Len(src)) = src
      BY <1>1
    <3> QED BY <1>1, <2>1, <3>1 DEF Begins
  <2>3. ASSUME NEW e \in S, NEW i \in Inodes, NEW n \in Names, dent[e][n] = ToInode(i) PROVE i \in S
    <3>1. PICK q \in Seq(Names) : q = path[e] /\ Begins(q, src) /\ e \in Inodes
      BY <1>2, <2>1
    <3>2. path[i] = Append(q, n)
      BY <1>2, <2>3, <3>1
    <3>3. Begins(Append(q, n), src)
      BY <1>1, <3>1, BeginsOn
    <3> QED BY <2>1, <3>2, <3>3
  <2>4. Below(k) \subseteq S
    BY <2>2, <2>3, BelowIs DEF Downward
  <2> QED BY <2>1, <2>4, BelowIs
<1>4. d \notin D
  <2> SUFFICES ASSUME Begins(ParentPath(dst), src) PROVE FALSE
    BY <1>3
  <2>1. Len(src) <= Len(dst) - 1 /\ SubSeq(ParentPath(dst), 1, Len(src)) = src
    BY ParentAndName DEF Begins
  <2>2. Len(src) \in 0 .. Len(dst) - 1
    BY <1>1, <2>1
  <2>3. SubSeq(dst, 1, Len(src)) = src
    BY <2>1, <2>2, ParentAndName
  <2>4. Len(dst) > Len(src)
    BY <1>1, <2>1
  <2> QED BY <2>3, <2>4 DEF IsDescendant
<1>5. Root \notin D
  <2>1. Len(path[Root]) = 0
    BY <1>2
  <2> QED BY <1>1, <1>3, <2>1 DEF Begins
<1>6. \A x \in D : Rest(path[x], src) \in Seq(Names)
  <2> SUFFICES ASSUME NEW x \in D PROVE Rest(path[x], src) \in Seq(Names)
    OBVIOUS
  <2>1. path[x] \in Seq(Names) /\ Begins(path[x], src)
    BY <1>2, <1>3
  <2> QED BY <1>1, <2>1, BeginsOn
<1>7. PICK more : more = [x \in Inodes |-> IF x \in D THEN dst \o Rest(path[x], src) ELSE path[x]]
  OBVIOUS
<1>8. more \in [Inodes -> Seq(Names)]
  <2> SUFFICES ASSUME NEW x \in D PROVE dst \o Rest(path[x], src) \in Seq(Names)
    BY <1>2, <1>7
  <2>1. PICK q \in Seq(Names) : q = Rest(path[x], src)
    BY <1>6
  <2>2. dst \o q \in Seq(Names)
    BY <1>1
  <2> QED BY <2>1, <2>2
<1>9. /\ \A x \in D : more[x] = dst \o Rest(path[x], src)
      /\ \A x \in Inodes : x \notin D => more[x] = path[x]
  BY <1>3, <1>7
<1>10. ASSUME NEW e \in Inodes, NEW i \in Inodes, NEW n \in Names, new[e][n] = ToInode(i)
       PROVE  more[i] = Append(more[e], n)
  <2>1. \/ ToInode(k) = ToInode(i) /\ <<e, n>> = <<d, Name(dst)>>
        \/ ToInode(k) # ToInode(i) /\ dent[e][n] = ToInode(i)
    BY <1>10 DEF Relinked
  <2>2. CASE ToInode(k) = ToInode(i) /\ <<e, n>> = <<d, Name(dst)>>
    <3>1. i = k /\ e = d /\ n = Name(dst)
      BY <2>2, TargetFacts
    <3>2. Rest(src, src) = <<>>
      BY <1>1 DEF Rest
    <3>3. dst \o <<>> = dst
      BY <1>1
    <3>4. more[k] = dst
      BY <1>3, <1>9, <3>2, <3>3 DEF Downward
    <3>5. more[d] = ParentPath(dst)
      BY <1>4, <1>9
    <3> QED BY <1>1, <3>1, <3>4, <3>5
  <2>3. CASE ToInode(k) # ToInode(i) /\ dent[e][n] = ToInode(i)
    <3>1. i # k /\ path[i] = Append(path[e], n)
      BY <1>2, <2>3
    <3>2. CASE i \in D
      <4>1. e \in D
        BY <1>3, <2>3, <3>1, <3>2
      <4>2. PICK q \in Seq(Names), b \in Seq(Names) : q = path[e] /\ b = Rest(q, src) /\ Begins(q, src)
        BY <1>2, <1>3, <1>6, <4>1
      <4>3. Rest(Append(q, n), src) = Append(b, n)
        BY <1>1, <4>2, BeginsOn
      <4>4. dst \o Append(b, n) = Append(dst \o b, n)
        BY <1>1, AppendOn
      <4>5. more[i] = dst \o Append(b, n)
        BY <1>9, <3>1, <3>2, <4>2, <4>3
      <4>6. more[e] = dst \o b
        BY <1>9, <4>1, <4>2
      <4> QED BY <4>4, <4>5, <4>6
    <3>3. CASE i \notin D
      <4>1. e \notin D
        BY <1>3, <2>3, <3>3 DEF Downward
      <4> QED BY <1>9, <3>1, <3>3, <4>1
    <3> QED BY <3>2, <3>3
  <2> QED BY <2>1, <2>2, <2>3
<1>11. more[Root] = <<>>
  BY <1>2, <1>5, <1>9
<1>12. Named(new, more)
  BY <1>8, <1>10, <1>11 DEF Named
<1> QED BY <1>12

LEMMA MoveApplyPath ==
    ASSUME OneMover, TreeInv, PathInv, NEW c \in Clients, MoveApply(c)
    PROVE  PathInv'
<1>1. PICK path : PathsAre(path)
  BY DEF PathInv
<1>2. PICK r : r = cl[c]
  OBVIOUS
<1>3. PICK objs, vals : Shape(objs, vals)
  BY DEF TreeInv
<1>4. /\ r \in CallRows(vals) /\ PlaceOK(r) /\ PlanOK(r, DB) /\ r.pc = "apply" /\ MoverAt(r, DB, path)
      /\ (r.op = "move" => c \in Movers) /\ Become(c, Idle) /\ DB \in Tables(objs) /\ Sound(DB) /\ DB.dent = dent
      /\ cl \in [Clients -> CallRows(vals)] /\ DB'.dent = dent'
  BY <1>1, <1>2, <1>3 DEF TreeInv, TreeParts, CallsOK, Shape, MoveApply, PathsAre, PathInv, DB
<1>5. r.op = "move" /\ r.path \in Paths /\ r.dst \in Paths
  BY <1>4 DEF PlaceOK
<1>6. /\ IsDir(DB, r.p1) /\ IsDir(DB, r.cur) /\ r.p1 # 0 /\ path[r.p1] = ParentPath(r.path)
      /\ path[r.cur] = ParentPath(r.dst) /\ ~IsDescendant(r.dst, r.path)
  BY <1>4, <1>5 DEF MoverAt, PlanOK
<1>7. r.p1 \in Inodes /\ r.cur \in Inodes /\ Name(r.path) \in Names /\ Name(r.dst) \in Names
  BY <1>5, <1>6, PathFacts DEF IsDir
<1>8. PICK t \in Targets(objs) : t = dent[r.p1][Name(r.path)]
  BY <1>4, <1>7 DEF Tables
<1>9. Grown(DB, DB') /\ (Fewer(dent, dent') \/ Relinked(dent, dent', t, r.cur, Name(r.dst)))
  BY <1>2, <1>8, MoveApplyStep
<1>10. CASE Fewer(dent, dent')
  BY <1>4, <1>9, <1>10, PathEnd
<1>11. CASE Relinked(dent, dent', t, r.cur, Name(r.dst)) /\ \A k \in Inodes : t # ToInode(k)
  <2>1. Fewer(dent, dent')
    BY <1>11 DEF Fewer, Relinked
  <2> QED BY <1>4, <1>9, <2>1, PathEnd
<1>12. ASSUME NEW k \in Inodes, t = ToInode(k), Relinked(dent, dent', t, r.cur, Name(r.dst)) PROVE PathInv'
  <2>1. path[k] = r.path
    <3>1. path[k] = Append(path[r.p1], Name(r.path))
      <4>1. \A d, i \in Inodes, n \in Names : dent[d][n] = ToInode(i) => path[i] = Append(path[d], n)
        BY <1>1, RootStands
      <4>2. dent[r.p1][Name(r.path)] = ToInode(k)
        BY <1>8, <1>12
      <4> QED BY <1>7, <4>1, <4>2
    <3>2. Append(ParentPath(r.path), Name(r.path)) = r.path
      BY <1>5, ParentAndName
    <3> QED BY <1>6, <3>1, <3>2
  <2>2. PICK more : Named(dent', more)
    <3>1. Agree(DB) /\ Named(dent, path) /\ Relinked(dent, dent', ToInode(k), r.cur, Name(r.dst))
      BY <1>1, <1>4, <1>12 DEF Sound, PathsAre
    <3> QED BY <1>5, <1>6, <1>7, <2>1, <3>1, PathsMoved
  <2>3. OnlyDirs(DB')
    <3>1. \A e, i \in Inodes, n \in Names : dent'[e][n] = ToInode(i) => dent[e][n] = ToInode(i) \/ e = r.cur
      BY <1>12 DEF Relinked
    <3> QED BY <1>4, <1>6, <1>9, <3>1, OnlyDirsKept DEF PathInv
  <2>4. cl'[c] = Idle /\ \A e \in Clients : e # c => cl'[e] = cl[e]
    BY <1>4 DEF Become
  <2>5. ASSUME NEW e \in Clients PROVE cl'[e].op # "move"
    <3>1. CASE e = c
      BY <2>4, <3>1, IdleAt
    <3>2. CASE e # c
      <4>1. cl[e].op = "move" => e \in Movers
        BY DEF PathInv
      <4>2. c \in Movers
        BY <1>4, <1>5
      <4>3. cl[e].op # "move"
        BY <3>2, <4>1, <4>2 DEF OneMover
      <4> QED BY <2>4, <3>2, <4>3
    <3> QED BY <3>1, <3>2
  <2>6. PathsAre(more)'
    BY <2>2, <2>5 DEF PathsAre, MoverAt
  <2> QED BY <2>3, <2>5, <2>6 DEF PathInv
<1> QED BY <1>9, <1>10, <1>11, <1>12

LEMMA PathInitInv == Init => PathInv
<1> SUFFICES ASSUME Init PROVE PathInv
  OBVIOUS
<1>1. PICK tree \in InitTrees : nodes = tree.nodes /\ dent = tree.dent
  BY DEF Init
<1>2. OnlyDirs(tree) /\ Named(tree.dent, PathsOf(tree))
  BY InitAssumption
<1>3. OnlyDirs(DB)
  BY <1>1, <1>2 DEF OnlyDirs, DB
<1>4. \A c \in Clients : cl[c] = Idle
  BY DEF Init
<1>5. PathsAre(PathsOf(tree))
  BY <1>1, <1>2, <1>4, IdleAt DEF PathsAre
<1> QED BY <1>3, <1>4, <1>5, IdleAt DEF PathInv

LEMMA PathNextInv == OneMover /\ TreeInv /\ PathInv /\ [Next]_vars => PathInv'
<1> SUFFICES ASSUME OneMover, TreeInv, PathInv, [Next]_vars PROVE PathInv'
  OBVIOUS
<1>1. ASSUME NEW c \in Clients, NEW op \in Calls, NEW p \in Paths, Call(c, op, p, <<>>) PROVE PathInv'
  BY <1>1, NewCallPath
<1>2. ASSUME NEW c \in Movers, NEW p \in Paths, NEW q \in Paths, Call(c, "move", p, q) PROVE PathInv'
  BY <1>2, TreeAssumption, NewCallPath
<1>3. ASSUME NEW c \in Clients, WalkLook(c) \/ WalkResolve(c) PROVE PathInv'
  BY <1>3, WalkPath
<1>4. ASSUME NEW c \in Clients, WalkMake(c) PROVE PathInv'
  BY <1>4, WalkMakePath
<1>5. ASSUME NEW c \in Clients, ExecCreate(c) PROVE PathInv'
  BY <1>5, ExecCreatePath
<1>6. ASSUME NEW c \in Clients, DeleteRev(c) \/ DeleteLook(c) PROVE PathInv'
  BY <1>6, DeleteReadPath
<1>7. ASSUME NEW c \in Clients, DeleteWrite(c) PROVE PathInv'
  <2>1. Become(c, Idle)
    BY <1>7 DEF DeleteWrite
  <2> QED BY <1>7, <2>1, DeleteWriteStep, PathEnd
<1>8. ASSUME NEW c \in Clients, MoveRevs(c) \/ MovePlan(c) PROVE PathInv'
  BY <1>8, MoveReadPath
<1>9. ASSUME NEW c \in Clients, MoveApply(c) PROVE PathInv'
  BY <1>9, MoveApplyPath
<1>10. ASSUME NEW c \in Clients, PublishFind(c) PROVE PathInv'
  BY <1>10, PublishFindPath
<1>11. ASSUME NEW c \in Clients, PublishCommit(c) PROVE PathInv'
  <2>1. Become(c, Idle)
    BY <1>11 DEF PublishCommit
  <2> QED BY <1>11, <2>1, PublishCommitStep, PathEnd
<1>12. ASSUME NEW f \in Inodes, FinalizeFile(f) PROVE PathInv'
  BY <1>12, FinalizeFilePath
<1>13. CASE UNCHANGED vars
  BY <1>13 DEF vars, PathInv, PathsAre, OnlyDirs, DB
<1> QED BY <1>1, <1>2, <1>3, <1>4, <1>5, <1>6, <1>7, <1>8, <1>9, <1>10, <1>11, <1>12, <1>13 DEF Next

LEMMA PathsAscend == TreeInv /\ PathInv => Acyclic
<1> SUFFICES ASSUME TreeInv, PathInv, NEW S \in SUBSET Inodes, S # {}, \A i \in S : nodes[i].ref[1] \in S
             PROVE  FALSE
  BY DEF Acyclic
<1>1. PICK path : PathsAre(path)
  BY DEF PathInv
<1>2. PICK objs, vals : Shape(objs, vals)
  BY DEF TreeInv
<1>3. DB \in Tables(objs) /\ DB.nodes = nodes /\ DB.dent = dent /\ Agree(DB)
  BY <1>2 DEF Shape, DB, TreeInv, TreeParts, Sound
<1>4. PICK lens \in SUBSET Nat : lens = {Len(path[i]) : i \in S}
  <2>1. \A i \in S : Len(path[i]) \in Nat
    BY <1>1, RootStands
  <2> QED BY <2>1
<1>5. PICK m \in lens : \A y \in lens : m <= y
  <2>1. lens # {}
    BY <1>4
  <2> QED BY <2>1, LeastExists
<1>6. PICK i \in S : m = Len(path[i])
  BY <1>4, <1>5
<1>7. PICK d \in Inodes, n \in Names : nodes[i].ref = <<d, n>>
  <2>1. nodes[i].ref \in {NoRef} \cup (Inodes \X Names)
    BY <1>3 DEF Tables, NodeRows
  <2>2. NoRef[1] = 0 /\ 0 \notin Inodes
    BY DEF NoRef, Inodes
  <2> QED BY <2>1, <2>2
<1>8. d \in S
  BY <1>6, <1>7
<1>9. path[i] = Append(path[d], n)
  <2>1. dent[d][n] = ToInode(i)
    BY <1>3, <1>7 DEF Agree
  <2> QED BY <1>1, <2>1, RootStands
<1>10. PICK q \in Seq(Names) : q = path[d]
  BY <1>1, RootStands
<1>11. Len(Append(q, n)) = Len(q) + 1 /\ Len(q) \in Nat
  OBVIOUS
<1>12. m <= Len(q)
  BY <1>4, <1>5, <1>8, <1>10
<1> QED BY <1>6, <1>9, <1>10, <1>11, <1>12

\* No directory is ever below itself, for every number of inodes, names and
\* concurrent clients, as long as one of them calls move_path: the path check of
\* the client, made before the handler runs, still tells the truth when the move
\* commits, whatever the other clients create, delete and publish in between
\* (FsMetaClient::move_path, handle_move_path).  With two movers it does not: the
\* run meta_move_cycle shows the cycle.
THEOREM AcyclicHolds == OneMover => (Spec => []Acyclic)
<1> SUFFICES ASSUME OneMover PROVE Spec => []Acyclic
  OBVIOUS
<1>1. Init => TreeInv /\ PathInv
  BY TreeInitInv, PathInitInv
<1>2. TreeInv /\ PathInv /\ [Next]_vars => (TreeInv /\ PathInv)'
  BY TreeNextInv, PathNextInv
<1> QED BY <1>1, <1>2, PathsAscend, PTL DEF Spec
=============================================================================
