---------------------------- MODULE ToolkitProofs ----------------------------
(***************************************************************************)
(* Proofs about the two ends of ndn-toolkit: what the directory server      *)
(* publishes, sends and deletes, and what the client's pulls leave, for any *)
(* set of files and contents.                                               *)
(***************************************************************************)
EXTENDS NdnPull, DirServer, TLAPS

-----------------------------------------------------------------------------
(* The directory server: the shapes of its state.                            *)

Tree == Plain \cup Inside
FileRec == {Gone} \cup [there : {TRUE}, data : Contents, mtime : Nat]
Quicks == {Quick(c) : c \in Contents} \cup {NoQuick, ""}
Objects == SUBSET (Tree \X Contents)
Stats == SUBSET (Tree \X {Bytes(c) : c \in Contents} \X Nat)

RowRec == [kind : {"none", "link", "stored"}, path : Tree \cup {""}, quick : Quicks]
SideRec == [kind : {"none", "torn", "there"}, obj : Objects, quick : Quicks, stat : Stats, template : {0, 1}]
ScanRec == [at : {"idle", "walk", "check", "hash", "reading", "register", "object", "sidecar", "writing", "remove"},
            e : Entries \cup {""}, todo : SUBSET Entries, left : SUBSET Tree, p : Tree \cup {""},
            data : Contents \cup {""}, obj : Objects, quick : Quicks, stat : Stats, template : {0, 1}]
AskRec == [at : {"none", "found", "checked", "open"}, path : Tree \cup {""}, data : Contents \cup {""},
           file : Tree \cup {""}, held : Contents \cup {""}, edited : BOOLEAN]

DirType ==
    /\ policy \in {"link", "store"} /\ template \in {0, 1}
    /\ files \in [Tree -> FileRec]
    /\ side \in [Entries -> SideRec]
    /\ chunk \in [Contents -> RowRec]
    /\ scan \in ScanRec /\ ask \in AskRec

(* The inductive invariant.                                                  *)

\* every content of an object is in the store, unless it was evicted
Backed(obj) == \A o \in obj : chunk[o[2]].kind # "none" \/ o[2] \in evicted

\* a link was made by the link policy to a file that has a quick hash, the one
\* of the content it stands for unless the file had changed by then
LinksOK ==
    \A c \in Contents : chunk[c].kind = "link" =>
        /\ policy = "link" /\ chunk[c].path \in Tree /\ chunk[c].quick # NoQuick
        /\ chunk[c].quick = Quick(c) \/ c \in torn

Working == {"check", "hash", "reading", "register", "object", "sidecar", "writing", "remove"}

\* what the scanner has in hand is in the store, or was dropped since
ScanOK ==
    /\ scan.at \in Working => scan.e \in Entries /\ Backed(scan.obj)
    /\ scan.at \in {"reading", "register"} => scan.p \in Tree /\ scan.data \in Contents
    /\ scan.at \in {"sidecar", "writing"} => [obj |-> scan.obj, template |-> scan.template] \in named \cup dropped

SideOK ==
    \A e \in Entries : side[e].kind = "there" =>
        [obj |-> side[e].obj, template |-> side[e].template] \in named \cup dropped /\ Backed(side[e].obj)

\* from the check of a link to the end of its sending the file is the one checked
SendOK ==
    /\ ask.at = "checked" =>
          policy = "link" /\ files[ask.file].there /\ SentTrue(ask.data, files[ask.file].data)
    /\ ask.at = "open" =>
          /\ SentTrue(ask.data, ask.held)
          /\ ask.file # "" => policy = "link" /\ files[ask.file].there /\ ask.held = files[ask.file].data

AskOK ==
    ask.at # "none" =>
        /\ ask.data \in Contents /\ (chunk[ask.data].kind # "none" \/ ask.data \in evicted)
        /\ ask.at = "found" => ask.file = ""
        /\ ask.at = "checked" => ask.file \in Tree
        /\ ask.at = "open" => ask.held \in Contents
        /\ ~ask.edited /\ ask.data \notin evicted => SendOK

DirInv == DirType /\ LinksOK /\ ScanOK /\ SideOK /\ AskOK /\ NothingLost

-----------------------------------------------------------------------------
\* What is there has a content.
LEMMA ThereHasData ==
    ASSUME DirType, NEW p \in Tree, files[p].there
    PROVE  files[p].data \in Contents /\ files[p].mtime \in Nat /\ QuickNow(p) = Quick(files[p].data) /\ QuickNow(p) \in Quicks
<1>1. files[p] \in {Gone} \/ files[p] \in [there : {TRUE}, data : Contents, mtime : Nat]
  BY DEF DirType, FileRec
<1>2. files[p] # Gone
  BY DEF Gone
<1>3. files[p].data \in Contents /\ files[p].mtime \in Nat
  BY <1>1, <1>2
<1> QED BY <1>3 DEF QuickNow, Quicks

\* The quick hash of a file, there or not.
LEMMA QuickType ==
    ASSUME DirType, NEW p \in Tree
    PROVE  QuickNow(p) \in Quicks /\ (QuickNow(p) # NoQuick => files[p].there)
BY ThereHasData DEF QuickNow, Quicks

\* What follows from the invariant.
LEMMA DirInvServes == DirInv => ServedTrue
<1> SUFFICES ASSUME DirInv, ask.at = "open", ~ask.edited, ask.data \notin evicted, NEW got \in Bodies
             PROVE  SentTrue(ask.data, got)
  BY DEF ServedTrue
<1>1. /\ ask.held \in Contents /\ SentTrue(ask.data, ask.held)
      /\ ask.file # "" => files[ask.file].there /\ ask.held = files[ask.file].data
  BY DEF DirInv, AskOK, SendOK
<1>2. got = ask.held
  <2>1. Mix(ask.held, ask.held) = ask.held
    BY <1>1, DirAssumption
  <2>2. CASE ask.file = ""
    BY <2>2 DEF Bodies
  <2>3. CASE ask.file # ""
    BY <1>1, <2>1, <2>3 DEF Bodies, ReadSince
  <2> QED BY <2>2, <2>3
<1> QED BY <1>1, <1>2

LEMMA DirInvKeeps == DirInv => SourcesKept
BY DEF DirInv, SideOK, Backed, SourcesKept, SidecarBacked, HaveChunk

\* There is no request.
LEMMA NoAskType == NoAsk \in AskRec /\ NoAsk.at = "none" /\ NoAsk.path = "" /\ NoAsk.file = "" /\ ~NoAsk.edited
BY DEF NoAsk, NoData, AskRec

LEMMA DirInitInv == DirInit => DirInv
<1> SUFFICES ASSUME DirInit PROVE DirInv
  OBVIOUS
<1>1. NoRow \in RowRec
  BY DEF NoRow, RowRec, Quicks
<1>2. NoSide \in SideRec
  BY DEF NoSide, SideRec, Quicks, Objects, Stats
<1>3. Idle \in ScanRec /\ Idle.at = "idle"
  BY DEF Idle, ScanRec, Quicks, Objects, Stats
<1>4. NoAsk \in AskRec /\ NoAsk.at = "none"
  BY NoAskType
<1>5. files \in [Tree -> FileRec]
  BY DirAssumption DEF DirInit, Tree, FileRec
<1>6. DirType
  BY <1>1, <1>2, <1>3, <1>4, <1>5 DEF DirType, DirInit
<1>7. NoRow.kind = "none" /\ NoSide.kind = "none"
  BY DEF NoRow, NoSide
<1> QED BY <1>3, <1>4, <1>6, <1>7 DEF DirInv, DirInit, LinksOK, ScanOK, SideOK, AskOK, NothingLost, Working

\* What is in the store stays there or is evicted.
LEMMA BackedStays ==
    ASSUME DirInv, NEW obj \in Objects, Backed(obj), evicted \subseteq evicted',
           \A c \in Contents : chunk[c].kind # "none" => chunk'[c].kind # "none" \/ c \in evicted'
    PROVE  \A o \in obj : chunk'[o[2]].kind # "none" \/ o[2] \in evicted'
BY DEF Backed, Objects

\* A step of the server leaves the request as it is: only the files of a tree
\* whose store takes them over are removed.
LEMMA AskKeeps ==
    ASSUME DirInv, ask' = ask \/ ask' = NoAsk, policy' = policy, policy = "link" => files' = files,
           torn \subseteq torn', evicted \subseteq evicted',
           \A c \in Contents : chunk[c].kind # "none" => chunk'[c].kind # "none" \/ c \in evicted'
    PROVE  ask' \in AskRec /\ AskOK'
<1>1. CASE ask' = NoAsk
  BY <1>1, NoAskType DEF AskOK
<1>2. CASE ask' = ask
  <2>1. ask \in AskRec /\ AskOK
    BY DEF DirInv, DirType
  <2>2. ASSUME SendOK PROVE SendOK'
    BY <1>2, <2>2 DEF SendOK, SentTrue
  <2>3. ask.at # "none" => chunk'[ask.data].kind # "none" \/ ask.data \in evicted'
    BY <2>1 DEF AskOK
  <2> QED BY <1>2, <2>1, <2>2, <2>3 DEF AskOK
<1> QED BY <1>1, <1>2

\* An edit of the file that is being sent is remembered.
LEMMA AskNoticed ==
    ASSUME DirInv, NEW p \in Tree, Noticed(p), UNCHANGED <<policy, chunk, torn, evicted>>,
           \A q \in Tree : q # p => files'[q] = files[q]
    PROVE  ask' \in AskRec /\ AskOK'
<1>1. ask \in AskRec /\ AskOK
  BY DEF DirInv, DirType
<1>2. CASE ask.file = p
  <2>1. PICK a : a = [ask EXCEPT !.edited = TRUE]
    OBVIOUS
  <2>2. a \in AskRec
    BY <1>1, <2>1 DEF AskRec
  <2>3. /\ a.at = ask.at /\ a.data = ask.data /\ a.file = ask.file /\ a.held = ask.held
        /\ a.edited
    BY <1>1, <2>1 DEF AskRec
  <2>4. ask' = a
    BY <1>2, <2>1 DEF Noticed
  <2> QED BY <1>1, <2>2, <2>3, <2>4 DEF AskOK
<1>3. CASE ask.file # p
  <2>1. ask' = ask
    BY <1>3 DEF Noticed
  <2>2. ask.file \in Tree => files'[ask.file] = files[ask.file]
    BY <1>3
  <2>3. ask.at = "checked" \/ ask.file # "" => ask.file \in Tree
    BY <1>1 DEF AskOK, AskRec
  <2>4. ASSUME SendOK PROVE SendOK'
    BY <2>1, <2>2, <2>3, <2>4 DEF SendOK, SentTrue
  <2> QED BY <1>1, <2>1, <2>4 DEF AskOK
<1> QED BY <1>2, <1>3

\* Users change files and the template, never what the server holds.
LEMMA UserStep ==
    ASSUME DirInv,
           \/ \E p \in Tree : Unlink(p) \/ \E c \in Writes, m \in 0 .. 1 : Edit(p, c, m)
           \/ EditTemplate
    PROVE  DirInv'
<1>1. DirType /\ LinksOK /\ ScanOK /\ SideOK /\ AskOK /\ NothingLost
  BY DEF DirInv
<1>2. UNCHANGED <<policy, side, chunk, named, scan, torn, evicted, dropped, lost>>
  BY DEF Unlink, Edit, EditTemplate, gone
<1>3. files' \in [Tree -> FileRec] /\ ask' \in AskRec /\ AskOK'
  <2>1. CASE EditTemplate
    BY <1>1, <1>2, <2>1, AskKeeps DEF EditTemplate, DirType
  <2>2. ASSUME NEW p \in Tree, NEW x \in FileRec, files' = [files EXCEPT ![p] = x], Noticed(p)
        PROVE  files' \in [Tree -> FileRec] /\ ask' \in AskRec /\ AskOK'
    <3>1. files' \in [Tree -> FileRec] /\ \A q \in Tree : q # p => files'[q] = files[q]
      BY <1>1, <2>2 DEF DirType
    <3> QED BY <1>2, <2>2, <3>1, AskNoticed
  <2>3. Gone \in FileRec /\ \A c \in Writes, m \in 0 .. 1 : [there |-> TRUE, data |-> c, mtime |-> m] \in FileRec
    BY DirAssumption DEF FileRec
  <2> QED BY <2>1, <2>2, <2>3 DEF Unlink, Edit
<1>4. template' \in {0, 1}
  BY <1>1 DEF EditTemplate, Unlink, Edit, DirType
<1>5. DirType'
  BY <1>1, <1>2, <1>3, <1>4 DEF DirType
<1> QED BY <1>1, <1>2, <1>3, <1>5 DEF DirInv, LinksOK, ScanOK, SideOK, NothingLost, Backed

\* An evicted content is remembered as such.
LEMMA EvictChunkStep ==
    ASSUME DirInv, NEW c \in Contents, EvictChunk(c)
    PROVE  DirInv'
<1>1. DirType /\ LinksOK /\ ScanOK /\ SideOK /\ AskOK /\ NothingLost
  BY DEF DirInv
<1>2. UNCHANGED <<policy, files, template, side, named, scan, ask, torn, dropped, lost>>
  BY DEF EvictChunk, tree
<1>3. NoRow \in RowRec /\ NoRow.kind = "none"
  BY DEF NoRow, RowRec, Quicks
<1>4. chunk' = [chunk EXCEPT ![c] = NoRow] /\ evicted' = evicted \cup {c} /\ chunk \in [Contents -> RowRec]
  BY <1>1 DEF EvictChunk, DirType
<1>5. \A d \in Contents : chunk'[d] = IF d = c THEN NoRow ELSE chunk[d]
  BY <1>4
<1>6. DirType'
  BY <1>1, <1>2, <1>3, <1>4 DEF DirType
<1>7. evicted \subseteq evicted' /\ \A d \in Contents : chunk[d].kind # "none" => chunk'[d].kind # "none" \/ d \in evicted'
  BY <1>4, <1>5
<1>8. LinksOK'
  BY <1>1, <1>2, <1>3, <1>5 DEF LinksOK
<1>9. ScanOK'
  <2>1. scan.obj \in Objects
    BY <1>1 DEF DirType, ScanRec
  <2> QED BY <1>1, <1>2, <1>7, <2>1, BackedStays DEF ScanOK, Backed
<1>10. SideOK'
  <2>1. \A e \in Entries : side[e].obj \in Objects
    BY <1>1 DEF DirType, SideRec
  <2> QED BY <1>1, <1>2, <1>7, <2>1, BackedStays DEF SideOK, Backed
<1>11. AskOK'
  BY <1>2, <1>7, AskKeeps
<1> QED BY <1>1, <1>2, <1>6, <1>8, <1>9, <1>10, <1>11 DEF DirInv, NothingLost

\* So is a dropped object.
LEMMA EvictObjectStep ==
    ASSUME DirInv, NEW o \in named, EvictObject(o)
    PROVE  DirInv'
<1>1. DirType /\ LinksOK /\ ScanOK /\ SideOK /\ AskOK /\ NothingLost
  BY DEF DirInv
<1>2. UNCHANGED <<policy, files, template, side, chunk, scan, ask, torn, evicted, lost>>
  BY DEF EvictObject, tree
<1>3. named' \cup dropped' = named \cup dropped
  BY DEF EvictObject
<1>4. DirType'
  BY <1>1, <1>2 DEF DirType
<1>5. AskOK'
  BY <1>2, AskKeeps
<1> QED BY <1>1, <1>2, <1>3, <1>4, <1>5 DEF DirInv, LinksOK, ScanOK, SideOK, NothingLost, Backed

\* A step of the scanner that leaves store and sidecars alone.
LEMMA ScanOnly ==
    ASSUME DirInv, NEW r \in ScanRec, scan' = r,
           UNCHANGED <<policy, files, template, side, chunk, named, torn, evicted, dropped, lost>>,
           ask' = ask \/ ask' = NoAsk,
           r.at \in Working => r.e \in Entries /\ Backed(r.obj),
           r.at \in {"reading", "register"} => r.p \in Tree /\ r.data \in Contents,
           r.at \in {"sidecar", "writing"} => [obj |-> r.obj, template |-> r.template] \in named \cup dropped
    PROVE  DirInv'
<1>1. DirType /\ LinksOK /\ ScanOK /\ SideOK /\ AskOK /\ NothingLost
  BY DEF DirInv
<1>2. ask' \in AskRec /\ AskOK'
  BY AskKeeps
<1>3. DirType'
  BY <1>1, <1>2 DEF DirType
<1>4. ScanOK'
  BY DEF ScanOK, Backed
<1> QED BY <1>1, <1>2, <1>3, <1>4 DEF DirInv, LinksOK, SideOK, NothingLost, Backed

\* What an entry looks like to stat.
LEMMA StatType ==
    ASSUME DirType, NEW e \in Entries
    PROVE  FilesOf(e) \subseteq Tree /\ Stat(e) \in Stats
<1>1. FilesOf(e) \subseteq Tree
  BY DEF FilesOf, Entries, Tree
<1>2. ASSUME NEW p \in FilesOf(e), files[p].there
      PROVE  <<p, Bytes(files[p].data), files[p].mtime>> \in Tree \X {Bytes(c) : c \in Contents} \X Nat
  <2>1. files[p].data \in Contents /\ files[p].mtime \in Nat
    BY <1>1, <1>2, ThereHasData
  <2> QED BY <1>1, <2>1
<1> QED BY <1>1, <1>2 DEF Stat, Stats

\* The walk goes on to another entry.
LEMMA WalkOn ==
    ASSUME DirInv, NextEntry,
           UNCHANGED <<policy, files, template, side, chunk, named, ask, torn, evicted, dropped, lost>>
    PROVE  DirInv'
<1>1. PICK r : r = [scan EXCEPT !.at = "walk"]
  OBVIOUS
<1>2. r \in ScanRec /\ r.at = "walk"
  BY <1>1 DEF ScanRec, DirInv, DirType
<1> QED BY <1>1, <1>2, ScanOnly DEF NextEntry, Step, Working

\* The scanner starts, ends, dies, gives an entry up, looks at one and hashes
\* its files.
LEMMA WalkStep ==
    ASSUME DirInv, StartPass \/ EndPass \/ Die \/ EntryFails
    PROVE  DirInv'
<1>1. Idle \in ScanRec /\ Idle.at = "idle"
  BY DEF Idle, ScanRec, Quicks, Objects, Stats
<1>2. CASE EndPass \/ Die
  BY <1>1, <1>2, ScanOnly DEF EndPass, Die, Stay, Working, tree, gone
<1>3. CASE StartPass
  <2>1. PICK r : r = [Idle EXCEPT !.at = "walk", !.todo = {e \in Entries : Present(e)}, !.template = template]
    OBVIOUS
  <2>2. r \in ScanRec /\ r.at = "walk"
    BY <1>1, <2>1 DEF ScanRec, DirInv, DirType
  <2> QED BY <1>3, <2>1, <2>2, ScanOnly DEF StartPass, Stay, Working, gone
<1>4. CASE EntryFails
  BY <1>4, WalkOn DEF EntryFails, Stay, gone
<1> QED BY <1>2, <1>3, <1>4

LEMMA LookStep ==
    ASSUME DirInv, NEW e \in Entries, Look(e)
    PROVE  DirInv'
<1>1. PICK r : r = [scan EXCEPT !.at = IF Present(e) THEN "check" ELSE "walk", !.todo = @ \ {e}, !.e = e,
                            !.stat = Stat(e), !.obj = {}]
  OBVIOUS
<1>2. scan \in ScanRec /\ Stat(e) \in Stats
  BY StatType DEF DirInv, DirType
<1>3. {} \in Objects
  BY DEF Objects
<1>4. r \in ScanRec
  BY <1>1, <1>2, <1>3 DEF ScanRec
<1>5. r.at \in {"check", "walk"} /\ r.e = e /\ r.obj = {}
  BY <1>1, <1>2 DEF ScanRec
<1>6. Backed(r.obj)
  BY <1>5 DEF Backed
<1> QED BY <1>1, <1>4, <1>5, <1>6, ScanOnly DEF Look, Stay, gone

LEMMA CheckStep ==
    ASSUME DirInv, Check
    PROVE  DirInv'
<1>1. scan \in ScanRec /\ scan.e \in Entries /\ Backed(scan.obj) /\ DirType
  BY DEF DirInv, DirType, ScanOK, Check, Working
<1>2. PICK q : q = IF scan.e = TheDir THEN NoQuick ELSE QuickNow(scan.e)
  OBVIOUS
<1>3. q \in Quicks
  <2>1. CASE scan.e = TheDir
    BY <1>2, <2>1 DEF Quicks
  <2>2. CASE scan.e # TheDir
    <3>1. scan.e \in Tree
      BY <1>1, <2>2 DEF Entries, Tree
    <3> QED BY <1>1, <1>2, <2>2, <3>1, QuickType
  <2> QED BY <2>1, <2>2
<1>4. PICK l : l = IF scan.e = TheDir THEN {p \in Inside : files[p].there} ELSE {scan.e}
  OBVIOUS
<1>5. l \in SUBSET Tree
  BY <1>1, <1>4 DEF Entries, Tree
<1>6. PICK a \in {"walk", "object", "hash"} :
         a = CASE Current(scan.e, side[scan.e], q) -> "walk"
               [] ~Current(scan.e, side[scan.e], q) /\ l = {} -> "object"
               [] OTHER -> "hash"
  OBVIOUS
<1>7. PICK r : r = [scan EXCEPT !.at = a, !.quick = q, !.left = l]
  OBVIOUS
<1>8. r \in ScanRec
  BY <1>1, <1>3, <1>5, <1>7 DEF ScanRec
<1>9. r.at = a /\ r.e = scan.e /\ r.obj = scan.obj
  BY <1>1, <1>7 DEF ScanRec
<1>10. scan' = r
  BY <1>2, <1>4, <1>6, <1>7 DEF Check
<1> QED BY <1>1, <1>8, <1>9, <1>10, ScanOnly DEF Check, Stay, gone

LEMMA OpenSourceStep ==
    ASSUME DirInv, NEW p \in Tree, OpenSource(p)
    PROVE  DirInv'
<1>1. scan \in ScanRec /\ scan.e \in Entries /\ Backed(scan.obj) /\ DirType
  BY DEF DirInv, DirType, ScanOK, OpenSource, Working
<1>2. CASE NextEntry
  BY <1>2, WalkOn DEF OpenSource, Stay, gone
<1>3. CASE files[p].there /\ scan' = [scan EXCEPT !.at = "reading", !.p = p, !.data = files[p].data]
  <2>1. files[p].data \in Contents
    BY <1>1, <1>3, ThereHasData
  <2>2. PICK r : r = [scan EXCEPT !.at = "reading", !.p = p, !.data = files[p].data]
    OBVIOUS
  <2>3. r \in ScanRec
    BY <1>1, <2>1, <2>2 DEF ScanRec
  <2>4. r.at = "reading" /\ r.e = scan.e /\ r.obj = scan.obj /\ r.p = p /\ r.data = files[p].data
    BY <1>1, <2>2 DEF ScanRec
  <2> QED BY <1>1, <1>3, <2>1, <2>2, <2>3, <2>4, ScanOnly DEF OpenSource, Stay, gone
<1> QED BY <1>2, <1>3 DEF OpenSource

LEMMA HashStep ==
    ASSUME DirInv, Hash
    PROVE  DirInv'
<1>1. /\ scan \in ScanRec /\ scan.e \in Entries /\ Backed(scan.obj) /\ DirType
      /\ scan.p \in Tree /\ scan.data \in Contents
  BY DEF DirInv, DirType, ScanOK, Hash, Working
<1>2. CASE NextEntry
  BY <1>2, WalkOn DEF Hash, Stay, gone
<1>3. ASSUME NEW c \in ReadSince(scan.p, scan.data), scan' = [scan EXCEPT !.at = "register", !.data = c]
      PROVE  DirInv'
  <2>1. c \in Contents
    <3>1. files[scan.p].there => files[scan.p].data \in Contents
      BY <1>1, ThereHasData
    <3>2. files[scan.p].there => Mix(scan.data, files[scan.p].data) \in Contents
      BY <1>1, <3>1, DirAssumption
    <3> QED BY <1>1, <1>3, <3>1, <3>2 DEF ReadSince
  <2>2. PICK r : r = [scan EXCEPT !.at = "register", !.data = c]
    OBVIOUS
  <2>3. r \in ScanRec
    BY <1>1, <2>1, <2>2 DEF ScanRec
  <2>4. r.at = "register" /\ r.e = scan.e /\ r.obj = scan.obj /\ r.p = scan.p /\ r.data = c
    BY <1>1, <2>2 DEF ScanRec
  <2> QED BY <1>1, <1>3, <2>1, <2>2, <2>3, <2>4, ScanOnly DEF Hash, Stay, gone
<1> QED BY <1>2, <1>3 DEF Hash

\* The row of a chunk after its registration: the store has the chunk when it
\* was registered, and a link is to a file with a quick hash.
LEMMA RowAfterOK ==
    ASSUME DirInv, NEW p \in Tree, NEW c \in Contents
    PROVE  /\ RowAfter(p, c) \in RowRec
           /\ Registers(p, c) => RowAfter(p, c).kind # "none"
           /\ HaveChunk(c) => RowAfter(p, c) = chunk[c]
           /\ ~HaveChunk(c) /\ RowAfter(p, c).kind = "link" =>
                 /\ Linked(p, c) /\ policy = "link" /\ RowAfter(p, c).path = p
                 /\ RowAfter(p, c).quick = QuickNow(p) /\ QuickNow(p) # NoQuick
<1>1. chunk[c] \in RowRec /\ policy \in {"link", "store"} /\ QuickNow(p) \in Quicks
  BY QuickType DEF DirInv, DirType
<1>2. [kind |-> "link", path |-> p, quick |-> QuickNow(p)] \in RowRec
  BY <1>1 DEF RowRec
<1>3. NoRow \in RowRec /\ [NoRow EXCEPT !.kind = "stored"] \in RowRec
  BY DEF NoRow, RowRec, Quicks
<1>4. NoRow.kind = "none" /\ [NoRow EXCEPT !.kind = "stored"].kind = "stored"
  BY DEF NoRow
<1>5. CASE HaveChunk(c)
  BY <1>1, <1>5 DEF RowAfter, HaveChunk
<1>6. CASE ~HaveChunk(c) /\ Linked(p, c)
  BY <1>2, <1>6 DEF RowAfter, Linked
<1>7. CASE ~HaveChunk(c) /\ ~Linked(p, c)
  BY <1>1, <1>3, <1>4, <1>7 DEF RowAfter, Linked, Registers
<1> QED BY <1>5, <1>6, <1>7

LEMMA RegisterStep ==
    ASSUME DirInv, Register
    PROVE  DirInv'
<1>1. DirType /\ LinksOK /\ ScanOK /\ SideOK /\ AskOK /\ NothingLost
  BY DEF DirInv
<1>2. scan \in ScanRec /\ scan.e \in Entries /\ Backed(scan.obj) /\ scan.p \in Tree /\ scan.data \in Contents
  BY <1>1 DEF DirType, ScanOK, Register, Working
<1>3. PICK p \in Tree, c \in Contents : p = scan.p /\ c = scan.data
  BY <1>2
<1>4. UNCHANGED <<policy, files, template, ask, evicted, dropped, side, named, lost>>
  BY DEF Register, Stay, gone
<1>5. /\ chunk' = [chunk EXCEPT ![c] = RowAfter(p, c)] /\ chunk \in [Contents -> RowRec]
      /\ torn' = IF Linked(p, c) /\ files[p].data # c THEN torn \cup {c} ELSE torn
  BY <1>1, <1>3 DEF Register, DirType
<1>6. \A d \in Contents : chunk'[d] = IF d = c THEN RowAfter(p, c) ELSE chunk[d]
  BY <1>5
<1>7. evicted \subseteq evicted' /\ \A d \in Contents : chunk[d].kind # "none" => chunk'[d].kind # "none" \/ d \in evicted'
  BY <1>4, <1>6, RowAfterOK DEF HaveChunk
<1>8. LinksOK'
  <2> SUFFICES ASSUME NEW d \in Contents, chunk'[d].kind = "link"
               PROVE  /\ policy = "link" /\ chunk'[d].path \in Tree /\ chunk'[d].quick # NoQuick
                      /\ chunk'[d].quick = Quick(d) \/ d \in torn'
    BY <1>4 DEF LinksOK
  <2>1. CASE d # c \/ HaveChunk(c)
    <3>1. chunk'[d] = chunk[d]
      BY <1>6, <2>1, RowAfterOK
    <3> QED BY <1>1, <1>5, <3>1 DEF LinksOK
  <2>2. CASE d = c /\ ~HaveChunk(c)
    <3>1. /\ Linked(p, c) /\ policy = "link" /\ chunk'[d].path = p
          /\ chunk'[d].quick = QuickNow(p) /\ QuickNow(p) # NoQuick
      BY <1>6, <2>2, RowAfterOK
    <3>2. QuickNow(p) = Quick(files[p].data)
      BY <1>1, <3>1, QuickType, ThereHasData
    <3> QED BY <1>5, <2>2, <3>1, <3>2
  <2> QED BY <2>1, <2>2
<1>9. PICK r \in ScanRec :
         /\ scan' = r
         /\ r.at \in {"walk", "object", "hash"} /\ r.e = scan.e
         /\ r.at # "walk" => r.obj = scan.obj \cup {<<p, c>>} /\ Registers(p, c)
  <2>1. CASE Registers(p, c)
    <3>1. PICK r : r = [scan EXCEPT !.at = IF scan.left \ {p} = {} THEN "object" ELSE "hash",
                                    !.left = scan.left \ {p}, !.obj = @ \cup {<<p, c>>}]
      OBVIOUS
    <3>2. scan.obj \cup {<<p, c>>} \in Objects
      <4>1. scan.obj \subseteq Tree \X Contents
        BY <1>2 DEF ScanRec, Objects
      <4>2. <<p, c>> \in Tree \X Contents
        OBVIOUS
      <4> QED BY <4>1, <4>2 DEF Objects
    <3>3. r \in ScanRec
      BY <1>2, <3>1, <3>2 DEF ScanRec
    <3>4. r.at \in {"object", "hash"} /\ r.e = scan.e /\ r.obj = scan.obj \cup {<<p, c>>}
      BY <1>2, <3>1 DEF ScanRec
    <3>5. scan' = r
      BY <1>3, <2>1, <3>1 DEF Register
    <3> QED BY <2>1, <3>3, <3>4, <3>5
  <2>2. CASE ~Registers(p, c)
    <3>1. PICK r : r = [scan EXCEPT !.at = "walk"]
      OBVIOUS
    <3>2. r \in ScanRec /\ r.at = "walk" /\ r.e = scan.e
      BY <1>2, <3>1 DEF ScanRec
    <3>3. scan' = r
      BY <1>3, <2>2, <3>1 DEF Register, NextEntry, Step
    <3> QED BY <3>2, <3>3
  <2> QED BY <2>1, <2>2
<1>10. DirType'
  BY <1>1, <1>3, <1>4, <1>5, <1>9, RowAfterOK DEF DirType
<1>11. ScanOK'
  <2>1. ASSUME r.at # "walk" PROVE \A o \in r.obj : chunk'[o[2]].kind # "none" \/ o[2] \in evicted'
    <3>1. \A o \in scan.obj : chunk'[o[2]].kind # "none" \/ o[2] \in evicted'
      <4>1. scan.obj \in Objects
        BY <1>2 DEF ScanRec
      <4> QED BY <1>2, <1>7, <4>1, BackedStays
    <3>2. chunk'[c].kind # "none"
      BY <1>6, <1>9, <2>1, RowAfterOK
    <3> QED BY <1>9, <2>1, <3>1, <3>2
  <2> QED BY <1>2, <1>9, <2>1 DEF ScanOK, Backed, Working
<1>12. SideOK'
  <2>1. \A e \in Entries : side[e].obj \in Objects
    BY <1>1 DEF DirType, SideRec
  <2> QED BY <1>1, <1>4, <1>7, <2>1, BackedStays DEF SideOK, Backed
<1>13. AskOK'
  <2>1. torn \subseteq torn'
    BY <1>5
  <2> QED BY <1>4, <1>7, <2>1, AskKeeps
<1> QED BY <1>1, <1>4, <1>8, <1>10, <1>11, <1>12, <1>13 DEF DirInv, NothingLost

LEMMA PutObjectStep ==
    ASSUME DirInv, PutObject
    PROVE  DirInv'
<1>1. DirType /\ LinksOK /\ ScanOK /\ SideOK /\ AskOK /\ NothingLost
  BY DEF DirInv
<1>2. scan \in ScanRec /\ scan.e \in Entries /\ Backed(scan.obj)
  BY <1>1 DEF DirType, ScanOK, PutObject, Working
<1>3. UNCHANGED <<policy, files, template, ask, evicted, dropped, side, chunk, torn, lost>>
  BY DEF PutObject, Stay, gone
<1>4. named \subseteq named' /\ [obj |-> scan.obj, template |-> scan.template] \in named'
  BY DEF PutObject
<1>5. PICK r : r = [scan EXCEPT !.at = "sidecar"]
  OBVIOUS
<1>6. r \in ScanRec
  BY <1>2, <1>5 DEF ScanRec
<1>7. r.at = "sidecar" /\ r.e = scan.e /\ r.obj = scan.obj /\ r.template = scan.template
  BY <1>2, <1>5 DEF ScanRec
<1>8. scan' = r
  BY <1>5 DEF PutObject, Step
<1>9. DirType'
  BY <1>1, <1>3, <1>6, <1>8 DEF DirType
<1>10. ScanOK'
  BY <1>2, <1>3, <1>4, <1>7, <1>8 DEF ScanOK, Backed
<1>11. SideOK'
  BY <1>1, <1>3, <1>4 DEF SideOK, Backed
<1>12. AskOK'
  BY <1>3, AskKeeps
<1> QED BY <1>1, <1>3, <1>9, <1>10, <1>11, <1>12 DEF DirInv, LinksOK, NothingLost

\* A sidecar is truncated, and then names the object the store has by then.
LEMMA SidecarStep ==
    ASSUME DirInv, OpenSidecar \/ WriteSidecar
    PROVE  DirInv'
<1>1. DirType /\ LinksOK /\ ScanOK /\ SideOK /\ AskOK /\ NothingLost
  BY DEF DirInv
<1>2. /\ scan \in ScanRec /\ scan.e \in Entries /\ Backed(scan.obj)
      /\ [obj |-> scan.obj, template |-> scan.template] \in named \cup dropped
  BY <1>1 DEF DirType, ScanOK, OpenSidecar, WriteSidecar, Working
<1>3. UNCHANGED <<policy, files, template, ask, evicted, dropped, chunk, named, torn, lost>>
  BY DEF OpenSidecar, WriteSidecar, Stay, gone
<1>4. PICK r \in ScanRec :
         /\ scan' = r /\ r.at \in {"writing", "remove"} /\ r.e = scan.e /\ r.obj = scan.obj
         /\ r.template = scan.template
  <2>1. PICK a \in {"writing", "remove"} : scan' = [scan EXCEPT !.at = a]
    BY DEF OpenSidecar, WriteSidecar, Step
  <2>2. PICK r : r = [scan EXCEPT !.at = a]
    OBVIOUS
  <2>3. r \in ScanRec
    BY <1>2, <2>2 DEF ScanRec
  <2>4. r.at = a /\ r.e = scan.e /\ r.obj = scan.obj /\ r.template = scan.template
    BY <1>2, <2>2 DEF ScanRec
  <2> QED BY <2>1, <2>2, <2>3, <2>4
<1>5. /\ side' \in [Entries -> SideRec]
      /\ \A e \in Entries : side'[e].kind = "there" =>
            \/ side'[e] = side[e]
            \/ side'[e].obj = scan.obj /\ side'[e].template = scan.template
  <2>1. side \in [Entries -> SideRec]
    BY <1>1 DEF DirType
  <2>2. CASE side' = [side EXCEPT ![scan.e] = TornSide]
    <3>1. TornSide \in SideRec /\ TornSide.kind = "torn"
      BY DEF TornSide, NoSide, SideRec, Quicks, Objects, Stats
    <3> QED BY <1>2, <2>1, <2>2, <3>1
  <2>3. CASE side' = [side EXCEPT ![scan.e] = [kind |-> "there", obj |-> scan.obj, quick |-> scan.quick,
                                               stat |-> scan.stat, template |-> scan.template]]
    <3>1. PICK x \in SideRec :
             /\ x = [kind |-> "there", obj |-> scan.obj, quick |-> scan.quick,
                     stat |-> scan.stat, template |-> scan.template]
             /\ x.obj = scan.obj /\ x.template = scan.template
      <4>1. scan.obj \in Objects /\ scan.quick \in Quicks /\ scan.stat \in Stats /\ scan.template \in {0, 1}
        BY <1>2 DEF ScanRec
      <4>2. PICK x : x = [kind |-> "there", obj |-> scan.obj, quick |-> scan.quick,
                          stat |-> scan.stat, template |-> scan.template]
        OBVIOUS
      <4>3. x \in SideRec
        BY <4>1, <4>2 DEF SideRec
      <4> QED BY <4>2, <4>3
    <3> QED BY <1>2, <2>1, <2>3, <3>1
  <2> QED BY <2>2, <2>3 DEF OpenSidecar, WriteSidecar
<1>6. DirType'
  BY <1>1, <1>3, <1>4, <1>5 DEF DirType
<1>7. ScanOK'
  BY <1>2, <1>3, <1>4 DEF ScanOK, Backed
<1>8. SideOK'
  BY <1>1, <1>2, <1>3, <1>5 DEF SideOK, Backed
<1>9. AskOK'
  BY <1>3, AskKeeps
<1> QED BY <1>1, <1>3, <1>6, <1>7, <1>8, <1>9 DEF DirInv, LinksOK, NothingLost

\* What the scanner hashed is in the store when its source is removed.
LEMMA RemoveSourceStep ==
    ASSUME DirInv, RemoveSource
    PROVE  DirInv'
<1>1. DirType /\ LinksOK /\ ScanOK /\ SideOK /\ AskOK /\ NothingLost
  BY DEF DirInv
<1>2. scan \in ScanRec /\ scan.e \in Entries /\ Backed(scan.obj)
  BY <1>1 DEF DirType, ScanOK, RemoveSource, Working
<1>3. UNCHANGED <<policy, template, ask, evicted, dropped, side, chunk, named, torn>>
  BY DEF RemoveSource, Stay, gone
<1>4. PICK r \in ScanRec : scan' = r /\ r.at = "walk"
  <2>1. PICK r : r = [scan EXCEPT !.at = "walk"]
    OBVIOUS
  <2>2. r \in ScanRec /\ r.at = "walk"
    BY <1>2, <2>1 DEF ScanRec
  <2> QED BY <2>1, <2>2 DEF RemoveSource, NextEntry, Step
<1>5. PICK done \in SUBSET Removed :
         /\ files' = [p \in Tree |-> IF p \in done THEN Gone ELSE files[p]]
         /\ lost' = lost \cup {[data |-> files[p].data, hashed |-> <<p, files[p].data>> \in scan.obj] :
                                   p \in {p \in done : chunk[files[p].data].kind # "stored" /\ files[p].data \notin evicted}}
  BY Zenon DEF RemoveSource, Tree
<1>6. files' \in [Tree -> FileRec] /\ (policy = "link" => files' = files)
  <2>1. Gone \in FileRec /\ files \in [Tree -> FileRec]
    BY <1>1 DEF DirType, FileRec
  <2>2. files' \in [Tree -> FileRec]
    BY <1>5, <2>1
  <2>3. ASSUME policy = "link" PROVE files' = files
    <3>1. done = {}
      BY <2>3 DEF Removed
    <3> QED BY <1>5, <2>1, <3>1
  <2> QED BY <2>2, <2>3
<1>7. NothingLost'
  <2>1. ASSUME NEW p \in done, chunk[files[p].data].kind # "stored", files[p].data \notin evicted
        PROVE  <<p, files[p].data>> \notin scan.obj
    <3>1. policy = "store" /\ p \in Tree /\ files[p].there
      BY <1>1, <1>2, <2>1, StatType DEF Removed
    <3>2. files[p].data \in Contents
      BY <1>1, <3>1, ThereHasData
    <3>3. chunk[files[p].data].kind = "none"
      BY <1>1, <2>1, <3>1, <3>2 DEF LinksOK, DirType, RowRec
    <3> QED BY <1>2, <2>1, <3>3 DEF Backed
  <2>2. ASSUME NEW l \in lost' PROVE l \in lost \/ ~l.hashed
    <3>1. \/ l \in lost
          \/ \E p \in done :
                /\ chunk[files[p].data].kind # "stored" /\ files[p].data \notin evicted
                /\ l = [data |-> files[p].data, hashed |-> <<p, files[p].data>> \in scan.obj]
      BY <1>5, <2>2, Zenon
    <3>2. ASSUME NEW p \in done, chunk[files[p].data].kind # "stored", files[p].data \notin evicted,
                 l = [data |-> files[p].data, hashed |-> <<p, files[p].data>> \in scan.obj]
          PROVE  ~l.hashed
      <4>1. l.hashed = (<<p, files[p].data>> \in scan.obj)
        BY <3>2
      <4> QED BY <2>1, <3>2, <4>1
    <3> QED BY <3>1, <3>2
  <2> QED BY <1>1, <2>2 DEF NothingLost
<1>8. DirType'
  BY <1>1, <1>3, <1>4, <1>6 DEF DirType
<1>9. ScanOK'
  BY <1>4 DEF ScanOK, Working
<1>10. AskOK'
  BY <1>3, <1>6, AskKeeps
<1> QED BY <1>1, <1>3, <1>7, <1>8, <1>9, <1>10 DEF DirInv, LinksOK, SideOK, Backed

\* A step of a request changes nothing but the request.
LEMMA AskOnly ==
    ASSUME DirInv, AskStep, ask' \in AskRec, AskOK'
    PROVE  DirInv'
<1>1. UNCHANGED <<policy, files, template, side, chunk, named, scan, torn, evicted, dropped, lost>>
  BY DEF AskStep, history, tree, gone
<1>2. DirType'
  BY <1>1 DEF DirInv, DirType
<1> QED BY <1>1, <1>2 DEF DirInv, LinksOK, ScanOK, SideOK, NothingLost, Backed

\* A request is about a content that the sidecar of its path names.
LEMMA AskPathStep ==
    ASSUME DirInv, NEW p \in Tree, AskPath(p)
    PROVE  DirInv'
<1>1. DirType /\ SideOK /\ AskStep
  BY DEF DirInv, AskPath
<1>2. UNCHANGED <<chunk, evicted>>
  BY <1>1 DEF AskStep, history, gone
<1>3. RootOf(p) \in Entries
  BY DEF RootOf, Entries, Tree
<1>4. PICK x \in Tree \cup {""} : x = IF RootOf(p) = TheDir THEN "" ELSE p
  OBVIOUS
<1>5. PICK c \in Walked(side[RootOf(p)].obj, p) :
         ask' = [NoAsk EXCEPT !.at = "found", !.path = x, !.data = c]
  BY <1>4 DEF AskPath
<1>6. side[RootOf(p)].obj \in Objects
  BY <1>1, <1>3 DEF DirType, SideRec
<1>7. PICK o \in side[RootOf(p)].obj : c = o[2]
  BY <1>5 DEF Walked
<1>8. c \in Contents
  BY <1>6, <1>7 DEF Objects
<1>9. chunk[c].kind # "none" \/ c \in evicted
  BY <1>1, <1>3, <1>7 DEF SideOK, Backed, AskPath
<1>10. ask' \in AskRec /\ ask'.at = "found" /\ ask'.data = c /\ ask'.file = ""
  BY <1>5, <1>8, NoAskType DEF AskRec
<1>11. AskOK'
  BY <1>2, <1>8, <1>9, <1>10 DEF AskOK, SendOK
<1> QED BY <1>1, <1>10, <1>11, AskOnly

\* A link that holds is to a file with the content, as far as a quick hash tells.
LEMMA LinkTrue ==
    ASSUME DirInv, NEW c \in Contents, chunk[c].kind = "link", LinkHolds(chunk[c])
    PROVE  /\ policy = "link" /\ chunk[c].path \in Tree /\ files[chunk[c].path].there
           /\ SentTrue(c, files[chunk[c].path].data)
<1>1. /\ policy = "link" /\ chunk[c].path \in Tree /\ chunk[c].quick # NoQuick
      /\ chunk[c].quick = Quick(c) \/ c \in torn
  BY DEF DirInv, LinksOK
<1>2. files[chunk[c].path].there /\ QuickNow(chunk[c].path) = chunk[c].quick
  BY <1>1, QuickType DEF LinkHolds, DirInv
<1>3. Quick(files[chunk[c].path].data) = chunk[c].quick
  BY <1>1, <1>2, ThereHasData DEF DirInv
<1> QED BY <1>1, <1>2, <1>3 DEF SentTrue

\* The request has the body in its hand, or a file whose link was just checked.
LEMMA CheckLinkStep ==
    ASSUME DirInv, CheckLink
    PROVE  DirInv'
<1>1. /\ ask \in AskRec /\ ask.at = "found" /\ AskStep /\ ask.data \in Contents /\ ask.file = ""
      /\ chunk[ask.data].kind # "none" \/ ask.data \in evicted
  BY DEF DirInv, DirType, AskOK, CheckLink
<1>2. UNCHANGED <<policy, files, chunk, torn, evicted>>
  BY <1>1 DEF AskStep, history, tree, gone
<1>3. PICK c \in Contents : c = ask.data
  BY <1>1
<1>4. CASE ask' = NoAsk
  BY <1>1, <1>4, AskOnly, NoAskType DEF AskOK
<1>5. CASE ask' = [ask EXCEPT !.at = "open", !.held = c]
  <2>1. /\ ask' \in AskRec /\ ask'.at = "open" /\ ask'.held = c /\ ask'.data = c /\ ask'.file = ""
    BY <1>1, <1>3, <1>5 DEF AskRec
  <2>2. AskOK'
    BY <1>1, <1>2, <1>3, <2>1 DEF AskOK, SendOK, SentTrue
  <2> QED BY <1>1, <2>1, <2>2, AskOnly
<1>6. ASSUME NEW p \in Tree, ask' = [ask EXCEPT !.at = "checked", !.file = p],
             c \in evicted \/ (policy = "link" /\ files[p].there /\ SentTrue(c, files[p].data))
      PROVE  DirInv'
  <2>1. ask' \in AskRec /\ ask'.at = "checked" /\ ask'.file = p /\ ask'.data = c
    BY <1>1, <1>3, <1>6 DEF AskRec
  <2>2. ask'.data \notin evicted' => SendOK'
    BY <1>2, <1>6, <2>1 DEF SendOK, SentTrue
  <2>3. AskOK'
    BY <1>1, <1>2, <1>3, <2>1, <2>2 DEF AskOK
  <2> QED BY <1>1, <2>1, <2>3, AskOnly
<1>7. CASE chunk[c].kind = "stored"
  BY <1>3, <1>5, <1>7 DEF CheckLink
<1>8. CASE chunk[c].kind = "link" /\ LinkHolds(chunk[c])
  <2>1. ask' = [ask EXCEPT !.at = "checked", !.file = chunk[c].path]
    BY <1>3, <1>8 DEF CheckLink
  <2> QED BY <1>6, <1>8, <2>1, LinkTrue
<1>9. CASE chunk[c].kind = "none" /\ ask.path # "" /\ files[ask.path].there
  <2>1. ask' = [ask EXCEPT !.at = "checked", !.file = ask.path]
    BY <1>3, <1>9 DEF CheckLink
  <2>2. ask.path \in Tree
    BY <1>1, <1>9 DEF AskRec
  <2> QED BY <1>1, <1>3, <1>6, <1>9, <2>1, <2>2
<1>10. CASE /\ chunk[c].kind # "stored" /\ ~(chunk[c].kind = "link" /\ LinkHolds(chunk[c]))
            /\ ~(chunk[c].kind = "none" /\ ask.path # "" /\ files[ask.path].there)
  BY <1>3, <1>4, <1>10 DEF CheckLink
<1> QED BY <1>7, <1>8, <1>9, <1>10

\* The file is opened, and its content sent.
LEMMA OpenBodyStep ==
    ASSUME DirInv, OpenBody \/ Stream
    PROVE  DirInv'
<1>1. ask \in AskRec /\ AskOK /\ AskStep /\ DirType
  BY DEF DirInv, DirType, OpenBody, Stream
<1>2. UNCHANGED <<policy, files, chunk, torn, evicted>>
  BY <1>1 DEF AskStep, history, tree, gone
<1>3. CASE ask' = NoAsk
  BY <1>1, <1>3, AskOnly, NoAskType DEF AskOK
<1>4. CASE ask.at = "checked" /\ files[ask.file].there /\ ask' = [ask EXCEPT !.at = "open", !.held = files[ask.file].data]
  <2>1. ask.file \in Tree
    BY <1>1, <1>4 DEF AskOK
  <2>2. PICK h \in Contents : h = files[ask.file].data
    BY <1>1, <1>4, <2>1, ThereHasData
  <2>3. ask' = [ask EXCEPT !.at = "open", !.held = h]
    BY <1>4, <2>2
  <2>4. /\ ask' \in AskRec /\ ask'.at = "open" /\ ask'.held = h /\ ask'.data = ask.data
        /\ ask'.file = ask.file /\ ask'.edited = ask.edited
    BY <1>1, <2>3 DEF AskRec
  <2>5. ASSUME SendOK PROVE SendOK'
    <3>1. policy = "link" /\ SentTrue(ask.data, h)
      BY <1>4, <2>2, <2>5 DEF SendOK
    <3>2. SentTrue(ask.data, h)'
      BY <1>2, <2>4, <3>1 DEF SentTrue
    <3>3. policy' = "link" /\ files'[ask.file].there /\ h = files'[ask.file].data
      BY <1>2, <1>4, <2>2, <3>1
    <3>4. ask'.at = "open" /\ ask'.held = h /\ ask'.data = ask.data /\ ask'.file = ask.file
      BY <2>4
    <3> QED BY <3>2, <3>3, <3>4 DEF SendOK
  <2>6. /\ ask.data \in Contents /\ (chunk[ask.data].kind # "none" \/ ask.data \in evicted)
        /\ ~ask.edited /\ ask.data \notin evicted => SendOK
    BY <1>1, <1>4 DEF AskOK
  <2>7. AskOK'
    BY <1>2, <2>4, <2>5, <2>6 DEF AskOK
  <2> QED BY <1>1, <2>4, <2>7, AskOnly
<1> QED BY <1>3, <1>4 DEF OpenBody, Stream

LEMMA DirNextInv == DirInv /\ [DirNext]_dvars => DirInv'
<1> SUFFICES ASSUME DirInv, [DirNext]_dvars PROVE DirInv'
  OBVIOUS
<1>1. CASE UNCHANGED dvars
  BY <1>1 DEF dvars, tree, history, gone, DirInv, DirType, LinksOK, ScanOK, SideOK, AskOK, SendOK, SentTrue,
              NothingLost, Backed
<1>2. CASE Scanner
  BY <1>2, WalkStep, CheckStep, HashStep, RegisterStep, PutObjectStep, SidecarStep, RemoveSourceStep, LookStep,
     OpenSourceStep DEF Scanner, Tree
<1>3. CASE EditTemplate \/ Die \/ CheckLink \/ OpenBody \/ Stream
  BY <1>3, UserStep, WalkStep, CheckLinkStep, OpenBodyStep
<1>4. CASE \E p \in Tree : Unlink(p) \/ AskPath(p) \/ \E c \in Writes, m \in 0 .. 1 : Edit(p, c, m)
  BY <1>4, UserStep, AskPathStep
<1>5. CASE (\E c \in Contents : EvictChunk(c)) \/ \E o \in named : EvictObject(o)
  BY <1>5, EvictChunkStep, EvictObjectStep
<1> QED BY <1>1, <1>2, <1>3, <1>4, <1>5 DEF DirNext, Tree

\* A body sent for an object id is that object's, for any files and contents,
\* unless the file was edited between the check of its link and the end of the
\* sending (build_chunk_response, verify_local_link, chunk_reader_to_channel).
THEOREM ServedTrueHolds == DirSpec => []ServedTrue
BY DirInitInv, DirNextInv, DirInvServes, PTL DEF DirSpec

\* What the scanner published or removed is in the store until the collector
\* evicts it, for any files and contents, through crashes, failing calls and
\* edits (objectify_file, objectify_directory, register_chunk_in_store).
THEOREM SourcesKeptHolds == DirSpec => []SourcesKept
BY DirInitInv, DirNextInv, DirInvKeeps, PTL DEF DirSpec

-----------------------------------------------------------------------------
(* Pulls: the shapes of their state and the inductive invariant.             *)

Ids == Files \cup Lists \cup Chunks
Units == Chunks \cup {Damaged}

JobRec == [stage : {"idle", "asked", "object", "list", "listed", "members", "links", "metadata", "chunk", "report",
                    "ok", "failed"},
           mode : {"store", "file", "link", "none", Nothing}, mgr : BOOLEAN, ranged : BOOLEAN,
           url : Files \cup {"path", Nothing}, inner : BOOLEAN, signed : Files \cup {Nothing}, chained : BOOLEAN,
           file : Files \cup {Nothing}, want : Seq(Chunks), i : Nat, links : Seq(Chunks \X Nat),
           had : SUBSET Chunks, obj : Ids \cup {Nothing, "error"}]

\* the first n chunks wanted are at the start of the local file
Written(j, n, D) == n <= Len(D) /\ \A k \in 1 .. n : D[k] = j.want[k]

\* they are in the store, with rows that are no links or were left alone
Stored(j, n, K, L) == \A k \in 1 .. n : j.want[k] \in K /\ (L[j.want[k]] = 0 \/ j.want[k] \in j.had)

\* they are linked, each to a place where it is wanted
LinkedTo(j, n, L) ==
    \A k \in 1 .. n : L[j.want[k]] \in 1 .. Len(j.want) /\ j.want[L[j.want[k]]] = j.want[k]

\* the links to make for them are noted
Noted(j, n) ==
    /\ j.mode = "link" => Len(j.links) = n /\ \A k \in 1 .. n : j.links[k] = <<j.want[k], k>>
    /\ j.mode # "link" => j.links = <<>>

\* what a pull knows of the object it is about, before its chunks are fetched
AboutOK(j) ==
    /\ j.stage = "asked" => j.url # Nothing /\ j.file = Nothing /\ j.links = <<>>
    /\ j.stage = "object" => j.obj \in Files \cup Lists /\ j.file = Nothing /\ j.links = <<>>
    /\ j.stage = "list" => j.obj \in Lists /\ j.links = <<>>
    /\ j.stage = "listed" => j.links = <<>>
    /\ j.stage \in {"listed", "members", "links"} => j.obj \in Lists /\ ~j.ranged
    /\ j.stage \in {"list", "listed", "members", "links"} /\ j.file # Nothing => j.obj = Content(j.file)
    /\ j.stage \in {"metadata", "chunk"} =>
          (\E c \in Chunks : j.want = <<c>>) /\ (j.file # Nothing => Content(j.file) \notin Lists)

\* the object of a pull from a path is the signed one
SignedOK(j) ==
    j.url = "path" /\ j.stage \notin {"idle", "asked", "failed"} =>
        /\ j.signed \in Files
        /\ ~j.inner /\ ~j.chained => IF j.stage = "object" THEN j.obj = j.signed ELSE j.file = j.signed
        /\ j.chained /\ j.obj \in Lists /\ (IF j.stage = "object" THEN j.inner ELSE j.file = Nothing) =>
              j.obj = Content(j.signed)

\* what a pull has left so far in the store K, the links L and the local file D
LeftOK(j, K, L, D) ==
    /\ j.stage = "chunk" /\ j.mode = "store" => ~j.ranged
    /\ j.stage \in {"members", "links"} => j.i >= 1 /\ (j.mgr => j.obj \in K)
    /\ j.stage = "members" =>
          /\ j.i <= Len(j.want) + 1 /\ Noted(j, j.i - 1)
          /\ WritesFile(j.mode) => Written(j, j.i - 1, D)
          /\ j.mode = "store" => Stored(j, j.i - 1, K, L)
    /\ j.stage = "links" =>
          /\ j.i <= Len(j.links) + 1 /\ Noted(j, Len(j.want))
          /\ WritesFile(j.mode) => Written(j, Len(j.want), D)
          /\ j.mode = "store" => Stored(j, Len(j.want), K, L)
          /\ j.mode = "link" => LinkedTo(j, j.i - 1, L)
    /\ j.stage \in {"report", "ok"} =>
          /\ WritesFile(j.mode) /\ ~j.ranged => Written(j, Len(j.want), D)
          /\ j.mode = "store" => Stored(j, Len(j.want), K, L)
          /\ j.mode = "store" /\ j.file # Nothing /\ Content(j.file) \in Lists => Content(j.file) \in K
          /\ j.mode = "link" /\ ~j.ranged => LinkedTo(j, Len(j.want), L)
    /\ j.stage = "ok" /\ j.mode = "store" /\ j.file # Nothing => j.file \in K

JobOK(j, K, L, D) ==
    /\ j \in JobRec
    /\ j.stage \notin {"idle", "failed"} /\ NeedsMgr(j.mode) => j.mgr
    /\ AboutOK(j)
    /\ SignedOK(j)
    /\ LeftOK(j, K, L, D)

PullInv ==
    /\ bound \in Files /\ older \subseteq Files
    /\ kept \subseteq Ids
    /\ linked \in [Chunks -> Nat]
    /\ disk \in Seq(Units)
    /\ JobOK(job, kept, linked, disk)

-----------------------------------------------------------------------------
\* A prefix is read off its elements.
LEMMA PrefixIs ==
    ASSUME NEW S, NEW D \in Seq(S), NEW T, NEW w \in Seq(T), Len(w) <= Len(D),
           \A k \in 1 .. Len(w) : D[k] = w[k]
    PROVE  SubSeq(D, 1, Len(w)) = w
OBVIOUS

\* What follows from the invariant.
LEMMA PullInvExact == PullInv => PulledExact
<1> SUFFICES ASSUME PullInv PROVE PulledExact
  OBVIOUS
<1>1. job \in JobRec /\ job.want \in Seq(Chunks)
  BY DEF PullInv, JobOK, JobRec
<1>2. FileExact
  <2> SUFFICES ASSUME Pulled, WritesFile(job.mode), ~job.ranged
               PROVE  Len(disk) >= Len(job.want) /\ SubSeq(disk, 1, Len(job.want)) = job.want
    BY DEF FileExact
  <2>1. PICK w \in Seq(Chunks) : w = job.want
    BY <1>1
  <2>2. Len(w) <= Len(disk) /\ \A k \in 1 .. Len(w) : disk[k] = w[k]
    BY <2>1 DEF PullInv, JobOK, LeftOK, Pulled, Written
  <2>3. SubSeq(disk, 1, Len(w)) = w
    BY <2>2, PrefixIs DEF PullInv
  <2> QED BY <2>1, <2>2, <2>3 DEF PullInv
<1>3. StoreComplete
  BY <1>1 DEF PullInv, JobOK, LeftOK, Stored, Pulled, StoreComplete
<1>4. NothingDamaged
  BY PullAssumption DEF PullInv, NothingDamaged, Ids
<1>5. LinksTrue
  <2> SUFFICES ASSUME Pulled, job.mode = "link", ~job.ranged, NEW k \in DOMAIN job.want
               PROVE  linked[job.want[k]] \in DOMAIN disk /\ disk[linked[job.want[k]]] = job.want[k]
    BY DEF LinksTrue
  <2>1. k \in 1 .. Len(job.want)
    BY <1>1
  <2>2. PICK m \in 1 .. Len(job.want) : m = linked[job.want[k]] /\ job.want[m] = job.want[k]
    BY <2>1 DEF PullInv, JobOK, LeftOK, LinkedTo, Pulled
  <2>3. Len(job.want) <= Len(disk) /\ disk[m] = job.want[m]
    BY <2>2 DEF PullInv, JobOK, LeftOK, Pulled, Written, WritesFile
  <2>4. m \in DOMAIN disk
    BY <1>1, <2>2, <2>3 DEF PullInv
  <2> QED BY <2>2, <2>3, <2>4
<1> QED BY <1>2, <1>3, <1>4, <1>5 DEF PulledExact

LEMMA PullInvSigned == PullInv => SignedWins
<1> SUFFICES ASSUME PullInv, Pulled, job.url = "path"
             PROVE  /\ ~job.inner /\ ~job.chained => job.file = job.signed
                    /\ job.chained /\ job.file = Nothing /\ job.obj \in Lists => job.obj = Content(job.signed)
  BY DEF SignedWins
<1>1. SignedOK(job) /\ job.stage = "ok"
  BY DEF PullInv, JobOK, Pulled
<1> QED BY <1>1 DEF SignedOK

LEMMA RestingJob ==
    ASSUME NEW K, NEW L, NEW D
    PROVE  JobOK(NoJob, K, L, D)
<1>1. NoJob \in JobRec
  BY DEF NoJob, JobRec
<1>2. NoJob.stage = "idle"
  BY DEF NoJob
<1> QED BY <1>1, <1>2 DEF JobOK, AboutOK, SignedOK, LeftOK

LEMMA PullInitInv == PullInit => PullInv
<1> SUFFICES ASSUME PullInit PROVE PullInv
  OBVIOUS
<1>1. linked \in [Chunks -> Nat]
  BY DEF PullInit
<1> QED BY <1>1, RestingJob DEF PullInit, PullInv

\* A pull that failed promises nothing.
LEMMA FailedJob ==
    ASSUME PullInv, NEW K, NEW L, NEW D
    PROVE  JobOK([job EXCEPT !.stage = "failed"], K, L, D)
<1>1. job \in JobRec
  BY DEF PullInv, JobOK
<1>2. PICK r : r = [job EXCEPT !.stage = "failed"]
  OBVIOUS
<1>3. r \in JobRec /\ r.stage = "failed"
  BY <1>1, <1>2 DEF JobRec
<1>4. JobOK(r, K, L, D)
  BY <1>3 DEF JobOK, AboutOK, SignedOK, LeftOK
<1> QED BY <1>2, <1>4

\* What is written over the local file at a unit of it, or just after its end.
LEMMA OverwrittenIs ==
    ASSUME disk \in Seq(Units), NEW at \in Nat, at >= 1, at <= Len(disk) + 1, NEW unit \in Units
    PROVE  /\ Overwritten(at, unit) \in Seq(Units)
           /\ Len(Overwritten(at, unit)) >= at /\ Overwritten(at, unit)[at] = unit
           /\ \A k \in 1 .. at - 1 : Overwritten(at, unit)[k] = disk[k]
<1> DEFINE new == Overwritten(at, unit)
<1>1. PICK n \in Nat : n = (IF Len(disk) > at THEN Len(disk) ELSE at) /\ n >= at /\ n >= Len(disk)
  OBVIOUS
<1>2. new = [k \in 1 .. n |-> IF k = at THEN unit ELSE disk[k]]
  BY <1>1 DEF Overwritten
<1>3. \A k \in 1 .. n : (IF k = at THEN unit ELSE disk[k]) \in Units
  BY <1>1
<1>4. new \in Seq(Units) /\ Len(new) = n
  BY <1>2, <1>3
<1>5. at \in 1 .. n /\ \A k \in 1 .. at - 1 : k \in 1 .. n /\ k # at
  BY <1>1
<1> HIDE DEF new
<1>6. new \in Seq(Units) /\ Len(new) >= at /\ new[at] = unit /\ \A k \in 1 .. at - 1 : new[k] = disk[k]
  BY <1>1, <1>2, <1>4, <1>5
<1> QED BY <1>6 DEF new

\* A step of a pull to r, which leaves the peer alone.
LEMMA OneJob ==
    ASSUME PullInv, Rest, NEW r, job' = r, kept' \subseteq Ids, linked' \in [Chunks -> Nat], disk' \in Seq(Units),
           JobOK(r, kept', linked', disk')
    PROVE  PullInv'
BY DEF PullInv, Rest

\* A pull goes on with the object it is about.
LEMMA SignedKept ==
    ASSUME NEW j, NEW r, SignedOK(j), j.stage \notin {"idle", "asked", "failed", "object"}, r.stage # "object",
           r.url = j.url, r.inner = j.inner, r.signed = j.signed, r.chained = j.chained, r.file = j.file, r.obj = j.obj
    PROVE  SignedOK(r)
BY DEF SignedOK

LEMMA PublishStep ==
    ASSUME PullInv, NEW f \in Files, Publish(f)
    PROVE  PullInv'
BY DEF PullInv, Publish

\* A pull with two of its fields set.
LEMMA InnerSet == ASSUME NEW j \in JobRec, NEW x \in BOOLEAN PROVE [j EXCEPT !.inner = x] \in JobRec
BY Zenon DEF JobRec

LEMMA SignedSet == ASSUME NEW j \in JobRec, NEW x \in Files \cup {Nothing} PROVE [j EXCEPT !.signed = x] \in JobRec
BY Zenon DEF JobRec

LEMMA BeginStep ==
    ASSUME PullInv, NEW mode \in {"store", "file", "link", "none"}, NEW mgr \in BOOLEAN, NEW ranged \in BOOLEAN,
           NEW inner \in BOOLEAN, NEW url \in Files \cup {"path"}, Begin(mode, mgr, ranged, url, inner)
    PROVE  PullInv'
<1>1. NoJob \in JobRec
  BY RestingJob DEF JobOK
<1>2. PICK st \in {"failed", "asked"} : st = (IF NeedsMgr(mode) /\ ~mgr THEN "failed" ELSE "asked")
  OBVIOUS
<1>3. PICK q : q = [NoJob EXCEPT !.stage = st, !.mode = mode, !.url = url]
  OBVIOUS
<1>q. q \in JobRec
  BY <1>1, <1>3 DEF JobRec
<1>4. PICK r : r = [q EXCEPT !.mgr = mgr, !.ranged = ranged, !.inner = inner]
  OBVIOUS
<1>r. r \in JobRec
  <2>1. PICK x \in JobRec : x = [q EXCEPT !.mgr = mgr]
    BY <1>q DEF JobRec
  <2>2. PICK y \in JobRec : y = [x EXCEPT !.ranged = ranged]
    BY DEF JobRec
  <2>3. PICK z \in JobRec : z = [y EXCEPT !.inner = inner]
    BY InnerSet
  <2> QED BY <1>4, <2>1, <2>2, <2>3
<1>5. r.stage = st /\ r.mode = mode /\ r.mgr = mgr /\ r.url = url /\ r.file = Nothing /\ r.links = <<>>
  BY <1>3, <1>4 DEF JobRec, NoJob
<1>6. url # Nothing
  BY PullAssumption DEF Nothing
<1>7. JobOK(r, kept, linked, disk)
  BY <1>2, <1>r, <1>5, <1>6 DEF JobOK, AboutOK, SignedOK, LeftOK
<1>8. job' = r
  BY <1>2, <1>3, <1>4 DEF Begin, NoJob
<1> QED BY <1>7, <1>8 DEF Begin, PullInv

\* The pull stops, or the application goes on.
LEMMA StopStep ==
    ASSUME PullInv, Stop \/ Over
    PROVE  PullInv'
<1>1. CASE Stop
  BY <1>1, FailedJob, OneJob DEF Stop, Fail, PullInv
<1>2. CASE Over
  BY <1>2, RestingJob, OneJob DEF Over, PullInv
<1> QED BY <1>1, <1>2

\* A file's content that is no list is one chunk.
LEMMA ContentChunk ==
    ASSUME NEW f \in Files, Content(f) \notin Lists
    PROVE  Content(f) \in Chunks /\ Members(Content(f)) = <<Content(f)>>
<1>1. Members(Content(f)) = <<Content(f)>>
  BY PullAssumption
<1>2. Content(f) \in {Members(Content(f))[k] : k \in DOMAIN Members(Content(f))}
  BY <1>1
<1> QED BY <1>1, <1>2 DEF Chunks

\* The object a body under a file's name is about.
LEMMA ContentId ==
    ASSUME NEW f \in Files
    PROVE  Content(f) \in Lists \cup Chunks
BY ContentChunk

\* What an answer may say.
LEMMA AnswerShape ==
    ASSUME PullInv, job.stage = "asked", NEW a \in Answers(job.url, job.inner)
    PROVE  /\ a.path \in Files \cup {Nothing} /\ (job.url = "path" => a.path \in Files)
           /\ a.parents = <<>> \/ (\E f \in Files : a.parents = <<f>>)
           /\ a.hdr \in Ids \cup {Nothing}
<1>1. job.url \in Files \cup {"path"} /\ bound \in Files /\ older \subseteq Files
  BY DEF PullInv, JobOK, AboutOK, JobRec
<1>2. PICK pub \in SUBSET Files : pub = IF job.url = "path" THEN {bound} \cup older ELSE {job.url}
  BY <1>1
<1>3. PICK signed \in SUBSET (Files \cup {Nothing}) :
         signed = (IF job.url = "path" THEN pub ELSE {Nothing}) /\ (job.url = "path" => signed \subseteq Files)
  OBVIOUS
<1>4. PICK contents \in SUBSET Ids : contents = {Content(f) : f \in pub}
  <2>1. \A f \in pub : Content(f) \in Ids
    BY ContentId DEF Ids
  <2> QED BY <2>1
<1>5. \/ a \in [path : signed, hdr : {Nothing} \cup (IF job.inner THEN contents ELSE pub), parents : {<<>>}]
      \/ a \in [path : signed, hdr : contents, parents : {<<f>> : f \in pub}]
  BY <1>2, <1>3, <1>4, Zenon DEF Answers
<1>6. pub \subseteq Ids
  BY DEF Ids
<1>7. CASE a \in [path : signed, hdr : {Nothing} \cup (IF job.inner THEN contents ELSE pub), parents : {<<>>}]
  <2>1. a.path \in signed /\ a.parents = <<>> /\ a.hdr \in {Nothing} \cup contents \cup pub
    BY <1>7
  <2> QED BY <1>3, <1>4, <1>6, <2>1
<1>8. CASE a \in [path : signed, hdr : contents, parents : {<<f>> : f \in pub}]
  <2>1. a.path \in signed /\ a.parents \in {<<f>> : f \in pub} /\ a.hdr \in contents
    BY <1>8
  <2>2. \E f \in Files : a.parents = <<f>>
    BY <2>1
  <2> QED BY <1>3, <1>4, <2>1, <2>2
<1> QED BY <1>5, <1>7, <1>8

\* The id an answer is taken to be about.
LEMMA IdShape ==
    ASSUME PullInv, job.stage = "asked", NEW a \in Answers(job.url, job.inner)
    PROVE  EffectiveId(a, Nothing, job.url, job.inner) \in Ids \cup {"error"}
<1>1. a.path \in Files \cup {Nothing} /\ a.hdr \in Ids \cup {Nothing}
  BY AnswerShape
<1> QED BY <1>1 DEF EffectiveId, Ids

\* The signed target of a path decides what an answer without parents is about,
\* and under an inner path what one with parents is about.
LEMMA IdSigned ==
    ASSUME PullInv, job.stage = "asked", job.url = "path", NEW a \in Answers(job.url, job.inner),
           NEW id, id = EffectiveId(a, Nothing, job.url, job.inner), id # "error"
    PROVE  /\ ~job.inner /\ a.parents = <<>> => id = a.path
           /\ job.inner /\ a.parents # <<>> /\ ChainHolds(a, job.inner) => id = Content(a.path)
<1>1. /\ a.path \in Files /\ a.path # Nothing /\ job.url \notin Files
      /\ a.parents = <<>> \/ (\E f \in Files : a.parents = <<f>>)
  BY AnswerShape, PullAssumption
<1>2. ASSUME ~job.inner, a.parents = <<>> PROVE id = a.path
  BY <1>1, <1>2 DEF EffectiveId
<1>3. ASSUME job.inner, a.parents # <<>>, ChainHolds(a, job.inner) PROVE id = Content(a.path)
  <2>1. id = a.hdr /\ a.hdr # Nothing
    BY <1>1, <1>3 DEF EffectiveId
  <2>2. a.parents[1] = a.path /\ a.hdr = Content(a.parents[1])
    BY <1>1, <1>3, <2>1 DEF ChainHolds
  <2> QED BY <2>1, <2>2
<1> QED BY <1>2, <1>3

\* An inlined file is one of a single chunk.
LEMMA InlinedShape ==
    ASSUME PullInv, job.stage = "asked", NEW a \in Answers(job.url, job.inner), Inlined(a) # Nothing
    PROVE  Inlined(a) \in Files /\ Content(Inlined(a)) \notin Lists /\ a.parents # <<>>
<1>1. a.parents = <<>> \/ (\E f \in Files : a.parents = <<f>>)
  BY AnswerShape
<1>2. PICK f \in Files : a.parents = <<f>>
  BY <1>1 DEF Inlined
<1>3. Inlined(a) = f /\ Content(f) \notin Lists
  BY <1>2 DEF Inlined
<1> QED BY <1>2, <1>3

\* The list of one chunk.
LEMMA OneChunk ==
    ASSUME NEW S, NEW c \in S
    PROVE  <<c>> \in Seq(S)
OBVIOUS

\* The first answer.
LEMMA MetaStep ==
    ASSUME PullInv, Meta
    PROVE  PullInv'
<1>1. /\ JobOK(job, kept, linked, disk) /\ job \in JobRec /\ job.stage = "asked"
      /\ job.file = Nothing /\ job.links = <<>>
  BY DEF PullInv, JobOK, AboutOK, Meta
<1>2. PICK a \in Answers(job.url, job.inner) :
         LET id == EffectiveId(a, Nothing, job.url, job.inner)
             f == Inlined(a)
             told == [job EXCEPT !.signed = a.path, !.chained = a.parents # <<>>, !.obj = id]
         IN  job' = CASE f # Nothing -> [told EXCEPT !.stage = "metadata", !.file = f, !.want = Members(Content(f))]
                      [] f = Nothing /\ id \in Chunks -> [told EXCEPT !.stage = "metadata", !.want = <<id>>]
                      [] f = Nothing /\ id \in Files \cup Lists /\ ChainHolds(a, job.inner) -> [told EXCEPT !.stage = "object"]
                      [] OTHER -> [told EXCEPT !.stage = "failed"]
  BY DEF Meta
<1>3. PICK id \in Ids \cup {"error"} : id = EffectiveId(a, Nothing, job.url, job.inner)
  BY <1>1, IdShape
<1>4. PICK f : f = Inlined(a)
  OBVIOUS
<1>5. PICK b \in BOOLEAN : b = (a.parents # <<>>)
  OBVIOUS
<1>6. PICK s \in Files \cup {Nothing} : s = a.path /\ (job.url = "path" => s \in Files)
  BY <1>1, AnswerShape
<1>7. PICK t \in JobRec :
         /\ t = [job EXCEPT !.signed = s, !.chained = b, !.obj = id]
         /\ t.mode = job.mode /\ t.mgr = job.mgr /\ t.url = job.url /\ t.inner = job.inner
         /\ t.signed = s /\ t.chained = b /\ t.obj = id /\ t.file = Nothing /\ t.links = <<>>
  <2>1. PICK t : t = [job EXCEPT !.signed = s, !.chained = b, !.obj = id]
    OBVIOUS
  <2>p. PICK q : q = [job EXCEPT !.signed = s, !.obj = id]
    OBVIOUS
  <2>q. q \in JobRec
    <3>1. PICK x \in JobRec : x = [job EXCEPT !.signed = s]
      BY <1>1, SignedSet
    <3>2. PICK y \in JobRec : y = [x EXCEPT !.obj = id]
      BY DEF JobRec
    <3> QED BY <2>p, <3>1, <3>2
  <2>r. t = [q EXCEPT !.chained = b]
    BY <1>1, <2>1, <2>p DEF JobRec
  <2>2. t \in JobRec
    BY <2>q, <2>r DEF JobRec
  <2>3. /\ t.mode = job.mode /\ t.mgr = job.mgr /\ t.url = job.url /\ t.inner = job.inner
        /\ t.signed = s /\ t.chained = b /\ t.obj = id /\ t.file = Nothing /\ t.links = <<>>
    BY <1>1, <2>1 DEF JobRec
  <2> QED BY <2>1, <2>2, <2>3
<1>8. job' = CASE f # Nothing -> [t EXCEPT !.stage = "metadata", !.file = f, !.want = Members(Content(f))]
               [] f = Nothing /\ id \in Chunks -> [t EXCEPT !.stage = "metadata", !.want = <<id>>]
               [] f = Nothing /\ id \in Files \cup Lists /\ ChainHolds(a, job.inner) -> [t EXCEPT !.stage = "object"]
               [] OTHER -> [t EXCEPT !.stage = "failed"]
  BY <1>2, <1>3, <1>4, <1>5, <1>6, <1>7, Zenon
<1>9. Rest /\ kept' \subseteq Ids /\ linked' \in [Chunks -> Nat] /\ disk' \in Seq(Units) /\ UNCHANGED <<kept, linked, disk>>
  BY DEF Meta, PullInv
<1>10. NeedsMgr(job.mode) => job.mgr
  BY <1>1 DEF JobOK
<1>11. CASE f # Nothing
  <2>1. f \in Files /\ Content(f) \notin Lists /\ b = TRUE
    BY <1>1, <1>4, <1>5, <1>11, InlinedShape
  <2>2. PICK c \in Chunks : Members(Content(f)) = <<c>>
    BY <2>1, ContentChunk
  <2>3. PICK w \in Seq(Chunks) : w = <<c>>
    BY OneChunk
  <2>4. PICK r : r = [t EXCEPT !.stage = "metadata", !.file = f, !.want = w]
    OBVIOUS
  <2>5. r \in JobRec
    BY <2>1, <2>4 DEF JobRec
  <2>6. /\ r.stage = "metadata" /\ r.file = f /\ r.want = <<c>> /\ r.mode = job.mode /\ r.mgr = job.mgr
        /\ r.url = job.url /\ r.signed = s /\ r.chained = b
    BY <1>7, <2>3, <2>4 DEF JobRec
  <2>7. SignedOK(r)
    <3>1. f # Nothing /\ r.chained
      BY <1>11, <2>1, <2>6
    <3> QED BY <1>6, <2>6, <3>1 DEF SignedOK
  <2>8. JobOK(r, kept, linked, disk)
    BY <1>10, <2>1, <2>5, <2>6, <2>7 DEF JobOK, AboutOK, LeftOK
  <2>9. job' = r
    BY <1>8, <1>11, <2>2, <2>3, <2>4
  <2> QED BY <1>9, <2>8, <2>9, OneJob
<1>12. CASE f = Nothing /\ id \in Chunks
  <2>1. PICK w \in Seq(Chunks) : w = <<id>>
    BY <1>12, OneChunk
  <2>2. PICK r : r = [t EXCEPT !.stage = "metadata", !.want = w]
    OBVIOUS
  <2>3. r \in JobRec
    BY <2>2 DEF JobRec
  <2>4. /\ r.stage = "metadata" /\ r.file = Nothing /\ r.want = <<id>> /\ r.mode = job.mode /\ r.mgr = job.mgr
        /\ r.url = job.url /\ r.signed = s /\ r.chained = b /\ r.inner = job.inner /\ r.obj = id
    BY <1>7, <2>1, <2>2 DEF JobRec
  <2>5. SignedOK(r)
    <3> SUFFICES ASSUME r.url = "path" PROVE SignedOK(r)
      BY DEF SignedOK
    <3>1. s \in Files /\ id \notin Lists /\ id \notin Files /\ id # "error"
      BY <1>6, <1>12, <2>4, PullAssumption
    <3>2. ~(~r.inner /\ ~r.chained)
      BY <1>1, <1>3, <1>5, <1>6, <2>4, <3>1, IdSigned
    <3> QED BY <2>4, <3>1, <3>2 DEF SignedOK
  <2>6. JobOK(r, kept, linked, disk)
    BY <1>10, <1>12, <2>3, <2>4, <2>5 DEF JobOK, AboutOK, LeftOK
  <2>7. job' = [t EXCEPT !.stage = "metadata", !.want = <<id>>]
    BY <1>8, <1>12, PullAssumption
  <2>8. job' = r
    BY <2>1, <2>2, <2>7
  <2> QED BY <1>9, <2>6, <2>8, OneJob
<1>13. CASE f = Nothing /\ id \notin Chunks /\ id \in Files \cup Lists /\ ChainHolds(a, job.inner)
  <2>1. PICK r : r = [t EXCEPT !.stage = "object"]
    OBVIOUS
  <2>2. r \in JobRec
    BY <2>1 DEF JobRec
  <2>3. /\ r.stage = "object" /\ r.obj = id /\ r.file = Nothing /\ r.links = <<>>
        /\ r.mode = job.mode /\ r.mgr = job.mgr /\ r.url = job.url /\ r.signed = s /\ r.chained = b
        /\ r.inner = job.inner
    BY <1>7, <2>1 DEF JobRec
  <2>4. SignedOK(r)
    <3> SUFFICES ASSUME r.url = "path" PROVE SignedOK(r)
      BY DEF SignedOK
    <3>1. s \in Files /\ id # "error"
      BY <1>6, <1>13, <2>3, PullAssumption
    <3>2. /\ ~r.inner /\ ~r.chained => id = s
          /\ r.inner /\ r.chained => id = Content(s)
      BY <1>1, <1>3, <1>5, <1>6, <1>13, <2>3, <3>1, IdSigned
    <3> QED BY <2>3, <3>1, <3>2 DEF SignedOK
  <2>5. JobOK(r, kept, linked, disk)
    BY <1>10, <1>13, <2>2, <2>3, <2>4 DEF JobOK, AboutOK, LeftOK
  <2>6. job' = r
    BY <1>8, <1>13, <2>1
  <2> QED BY <1>9, <2>5, <2>6, OneJob
<1>14. CASE f = Nothing /\ id \notin Chunks /\ ~(id \in Files \cup Lists /\ ChainHolds(a, job.inner))
  <2>1. PICK r : r = [t EXCEPT !.stage = "failed"]
    OBVIOUS
  <2>2. r \in JobRec /\ r.stage = "failed"
    BY <2>1 DEF JobRec
  <2>3. JobOK(r, kept, linked, disk)
    BY <2>2 DEF JobOK, AboutOK, SignedOK, LeftOK
  <2>4. job' = r
    BY <1>8, <1>14, <2>1
  <2> QED BY <1>9, <2>3, <2>4, OneJob
<1> QED BY <1>11, <1>12, <1>13, <1>14

LEMMA ObjectStep ==
    ASSUME PullInv, Object
    PROVE  PullInv'
<1>1. /\ JobOK(job, kept, linked, disk) /\ job \in JobRec /\ job.stage \in {"object", "list"}
      /\ job.obj \in Files \cup Lists /\ (job.stage = "list" => job.obj \in Lists) /\ job.links = <<>>
      /\ job.file # Nothing => job.stage = "list" /\ job.obj = Content(job.file)
  BY DEF PullInv, JobOK, AboutOK, Object
<1>2. /\ Rest /\ kept' \subseteq Ids /\ linked' \in [Chunks -> Nat] /\ disk' \in Seq(Units)
      /\ UNCHANGED <<kept, linked, disk>>
  BY DEF Object, PullInv
<1>3. SignedOK(job) /\ (NeedsMgr(job.mode) => job.mgr)
  BY <1>1 DEF JobOK
<1>4. CASE Fail
  BY <1>2, <1>4, FailedJob, OneJob DEF Fail
<1>5. CASE /\ job.obj \in Lists /\ ~(job.stage = "object" /\ job.chained /\ ~job.inner)
           /\ job' = [job EXCEPT !.stage = "listed", !.ranged = FALSE, !.want = Members(job.obj)]
  <2>1. PICK w \in Seq(Chunks) : w = Members(job.obj)
    BY <1>5, PullAssumption
  <2>2. PICK r : r = [job EXCEPT !.stage = "listed", !.ranged = FALSE, !.want = w]
    OBVIOUS
  <2>3. r \in JobRec
    BY <1>1, <2>2 DEF JobRec
  <2>4. /\ r.stage = "listed" /\ r.obj = job.obj /\ r.file = job.file /\ r.links = <<>> /\ ~r.ranged
        /\ r.mode = job.mode /\ r.mgr = job.mgr
    BY <1>1, <2>2 DEF JobRec
  <2>5. r.url = job.url /\ r.inner = job.inner /\ r.signed = job.signed /\ r.chained = job.chained
    BY <1>1, <2>2 DEF JobRec
  <2>6. SignedOK(r)
    <3>1. CASE job.stage = "list"
      BY <1>3, <2>4, <2>5, <3>1, SignedKept
    <3>2. CASE job.stage = "object" /\ job.url = "path"
      <4>1. /\ job.signed \in Files
            /\ ~job.inner /\ ~job.chained => job.obj = job.signed
            /\ job.chained /\ job.inner => job.obj = Content(job.signed)
        BY <1>3, <1>5, <3>2 DEF SignedOK
      <4>2. job.inner \/ job.chained
        BY <1>5, <4>1, PullAssumption
      <4>3. job.chained => job.obj = Content(job.signed)
        BY <1>5, <3>2, <4>1
      <4> QED BY <2>4, <2>5, <4>1, <4>2, <4>3 DEF SignedOK
    <3>3. CASE job.url # "path"
      BY <2>5, <3>3 DEF SignedOK
    <3> QED BY <1>1, <3>1, <3>2, <3>3
  <2>7. JobOK(r, kept, linked, disk)
    BY <1>1, <1>3, <1>5, <2>3, <2>4, <2>6 DEF JobOK, AboutOK, LeftOK
  <2> QED BY <1>2, <1>5, <2>1, <2>2, <2>7, OneJob
<1>6. ASSUME job.obj \in Files, NEW r, r.stage \in {"list", "metadata"}, r.file = job.obj, ~job.inner,
             r.url = job.url, r.inner = job.inner, r.signed = job.signed, r.chained = job.chained
      PROVE  SignedOK(r)
  <2>1. job.stage = "object" /\ r.file # Nothing
    BY <1>1, <1>6, PullAssumption
  <2> QED BY <1>3, <1>6, <2>1 DEF SignedOK
<1>7. CASE /\ job.obj \in Files /\ Content(job.obj) \in Lists /\ ~job.inner
           /\ job' = [job EXCEPT !.stage = "list", !.file = job.obj, !.obj = Content(job.obj)]
  <2>1. PICK r : r = [job EXCEPT !.stage = "list", !.file = job.obj, !.obj = Content(job.obj)]
    OBVIOUS
  <2>2. r \in JobRec
    BY <1>1, <1>7, <2>1 DEF JobRec, Ids
  <2>3. /\ r.stage = "list" /\ r.obj = Content(job.obj) /\ r.file = job.obj /\ r.links = <<>>
        /\ r.mode = job.mode /\ r.mgr = job.mgr
    BY <1>1, <2>1 DEF JobRec
  <2>4. r.url = job.url /\ r.inner = job.inner /\ r.signed = job.signed /\ r.chained = job.chained
    BY <1>1, <2>1 DEF JobRec
  <2>5. SignedOK(r)
    BY <1>6, <1>7, <2>3, <2>4
  <2>6. JobOK(r, kept, linked, disk)
    BY <1>1, <1>3, <1>7, <2>2, <2>3, <2>5 DEF JobOK, AboutOK, LeftOK
  <2> QED BY <1>2, <1>7, <2>1, <2>6, OneJob
<1>8. CASE /\ job.obj \in Files /\ Content(job.obj) \notin Lists /\ ~job.inner
           /\ job' = [job EXCEPT !.stage = "metadata", !.file = job.obj, !.want = Members(Content(job.obj)),
                                 !.obj = Content(job.obj), !.ranged = FALSE]
  <2>1. PICK c \in Chunks : Members(Content(job.obj)) = <<c>> /\ Content(job.obj) = c
    BY <1>8, ContentChunk
  <2>2. PICK w \in Seq(Chunks) : w = <<c>>
    BY OneChunk
  <2>3. PICK r : r = [job EXCEPT !.stage = "metadata", !.file = job.obj, !.want = w, !.obj = c, !.ranged = FALSE]
    OBVIOUS
  <2>4. r \in JobRec
    BY <1>1, <1>8, <2>3 DEF JobRec, Ids
  <2>5. r.stage = "metadata" /\ r.file = job.obj /\ r.want = <<c>> /\ r.mode = job.mode /\ r.mgr = job.mgr
    BY <1>1, <2>2, <2>3 DEF JobRec
  <2>6. r.url = job.url /\ r.inner = job.inner /\ r.signed = job.signed /\ r.chained = job.chained
    BY <1>1, <2>3 DEF JobRec
  <2>7. SignedOK(r)
    BY <1>6, <1>8, <2>5, <2>6
  <2>8. JobOK(r, kept, linked, disk)
    BY <1>1, <1>3, <1>8, <2>4, <2>5, <2>7 DEF JobOK, AboutOK, LeftOK
  <2> QED BY <1>2, <1>8, <2>1, <2>2, <2>3, <2>8, OneJob
<1>9. job.obj \in Files <=> job.obj \notin Lists
  BY <1>1, PullAssumption
<1>10. PICK body \in ObjectBodies :
          CASE ~Verified(body) \/ (job.inner /\ job.obj \in Files) -> Fail
            [] Verified(body) /\ job.obj \in Lists ->
                  job' = [job EXCEPT !.stage = "listed", !.ranged = FALSE, !.want = Members(job.obj)]
            [] Verified(body) /\ job.obj \in Files /\ ~job.inner /\ Content(job.obj) \in Lists ->
                  job' = [job EXCEPT !.stage = "list", !.file = job.obj, !.obj = Content(job.obj)]
            [] OTHER ->
                  job' = [job EXCEPT !.stage = "metadata", !.file = job.obj, !.want = Members(Content(job.obj)),
                                     !.obj = Content(job.obj), !.ranged = FALSE]
  BY Zenon DEF Object
<1>11. Verified(body) => ~(job.stage = "object" /\ job.chained /\ ~job.inner)
  BY DEF ObjectBodies, Verified
<1>12. CASE ~Verified(body) \/ (job.inner /\ job.obj \in Files)
  BY <1>4, <1>9, <1>10, <1>12
<1>13. CASE Verified(body) /\ job.obj \in Lists
  BY <1>5, <1>9, <1>10, <1>11, <1>13
<1>14. CASE Verified(body) /\ job.obj \in Files /\ ~job.inner
  BY <1>7, <1>8, <1>9, <1>10, <1>14
<1> QED BY <1>9, <1>12, <1>13, <1>14

LEMMA MetadataStep ==
    ASSUME PullInv, Metadata
    PROVE  PullInv'
<1>1. /\ JobOK(job, kept, linked, disk) /\ job \in JobRec /\ job.stage = "metadata"
      /\ (\E c \in Chunks : job.want = <<c>>) /\ (job.file # Nothing => Content(job.file) \notin Lists)
  BY DEF PullInv, JobOK, AboutOK, Metadata
<1>2. /\ Rest /\ kept' \subseteq Ids /\ linked' \in [Chunks -> Nat] /\ disk' \in Seq(Units)
      /\ UNCHANGED <<linked, disk>>
  BY <1>1 DEF Metadata, PullInv, JobRec, Ids
<1>3. CASE job.mode = "store" /\ job.ranged
  <2>1. job' = [job EXCEPT !.stage = "failed"]
    BY <1>3 DEF Metadata
  <2> QED BY <1>2, <2>1, FailedJob, OneJob
<1>4. CASE ~(job.mode = "store" /\ job.ranged)
  <2>1. PICK r : r = [job EXCEPT !.stage = "chunk"]
    OBVIOUS
  <2>2. r \in JobRec
    BY <1>1, <2>1 DEF JobRec
  <2>3. /\ r.stage = "chunk" /\ r.file = job.file /\ r.want = job.want /\ r.mode = job.mode /\ r.mgr = job.mgr
        /\ r.ranged = job.ranged
    BY <1>1, <2>1 DEF JobRec
  <2>4. SignedOK(r)
    <3>1. /\ r.url = job.url /\ r.inner = job.inner /\ r.signed = job.signed /\ r.chained = job.chained
          /\ r.obj = job.obj
      BY <1>1, <2>1 DEF JobRec
    <3> QED BY <1>1, <2>3, <3>1, SignedKept DEF JobOK
  <2>5. JobOK(r, kept', linked', disk')
    BY <1>1, <1>4, <2>2, <2>3, <2>4 DEF JobOK, AboutOK, LeftOK
  <2>6. job' = r
    BY <1>4, <2>1 DEF Metadata
  <2> QED BY <1>2, <2>5, <2>6, OneJob
<1> QED BY <1>3, <1>4

\* The list of one chunk, read off.
LEMMA OneChunkRead ==
    ASSUME NEW S, NEW w \in Seq(S), NEW c, w = <<c>>
    PROVE  Len(w) <= 1 /\ Len(w) >= 1 /\ w[1] = c /\ \A k \in 1 .. Len(w) : k = 1
OBVIOUS

\* The row of a chunk that is stored or linked.
LEMMA RowsAre ==
    ASSUME linked \in [Chunks -> Nat], NEW c \in Chunks, NEW u \in Nat
    PROVE  /\ LinkRow(c, u) \in [Chunks -> Nat] /\ LinkRow(c, u)[c] = u
           /\ \A d \in Chunks : d # c => LinkRow(c, u)[d] = linked[d]
           /\ StoredRow(c) \in [Chunks -> Nat] /\ (c \in kept \/ StoredRow(c)[c] = 0)
           /\ \A d \in Chunks : StoredRow(c)[d] \in {linked[d], 0}
BY DEF LinkRow, StoredRow

LEMMA RawChunkStep ==
    ASSUME PullInv, RawChunk
    PROVE  PullInv'
<1>1. /\ JobOK(job, kept, linked, disk) /\ job \in JobRec /\ job.stage = "chunk" /\ job.want \in Seq(Chunks)
      /\ (\E c \in Chunks : job.want = <<c>>) /\ (job.file # Nothing => Content(job.file) \notin Lists)
      /\ job.mode = "store" => ~job.ranged
  BY DEF PullInv, JobOK, AboutOK, LeftOK, RawChunk, JobRec
<1>2. PICK c \in Chunks : job.want = <<c>>
  BY <1>1
<1>3. /\ Len(job.want) <= 1 /\ Len(job.want) >= 1 /\ job.want[1] = c
      /\ \A k \in 1 .. Len(job.want) : k = 1
  BY <1>1, <1>2, OneChunkRead
<1>4. PICK h \in SUBSET Chunks : h = {c} \cap kept
  OBVIOUS
<1>5. PICK body \in {c, Damaged} :
         LET good == Verified(body) \/ job.ranged
         IN  /\ disk' = IF WritesFile(job.mode) THEN Overwritten(1, body) ELSE disk
             /\ kept' = IF job.mode = "store" /\ good THEN kept \cup {body} ELSE kept
             /\ linked' = CASE job.mode = "link" /\ good /\ ~job.ranged -> LinkRow(c, 1)
                            [] job.mode = "store" /\ good -> StoredRow(c)
                            [] OTHER -> linked
             /\ job' = [job EXCEPT !.stage = IF good THEN "report" ELSE "failed", !.had = h]
  BY <1>3, <1>4 DEF RawChunk
<1>6. body \in Units /\ Rest /\ linked \in [Chunks -> Nat]
  BY DEF RawChunk, Units, PullInv
<1>7. PICK new \in Seq(Units) : new = Overwritten(1, body) /\ Len(new) >= 1 /\ new[1] = body
  BY <1>6, OverwrittenIs DEF PullInv
<1>8. disk' \in Seq(Units)
  BY <1>5, <1>7 DEF PullInv
<1>9. PICK lr \in [Chunks -> Nat] : lr = LinkRow(c, 1) /\ lr[c] = 1
  BY <1>6, RowsAre
<1>10. PICK sr \in [Chunks -> Nat] : sr = StoredRow(c) /\ (c \in kept \/ sr[c] = 0)
  BY <1>6, RowsAre
<1>11. linked' \in [Chunks -> Nat]
  BY <1>5, <1>6, <1>9, <1>10
<1>12. CASE Verified(body) \/ job.ranged
  <2>1. ~job.ranged => body = c
    BY <1>12 DEF Verified
  <2>2. kept' \subseteq Ids /\ (job.mode = "store" => c \in kept')
    BY <1>1, <1>5, <1>12, <2>1 DEF PullInv, Ids
  <2>3. WritesFile(job.mode) /\ ~job.ranged => Len(disk') >= 1 /\ disk'[1] = c
    BY <1>5, <1>7, <2>1
  <2>4. /\ job.mode = "link" /\ ~job.ranged => linked'[c] = 1
        /\ job.mode = "store" => linked'[c] = 0 \/ c \in h
    BY <1>4, <1>5, <1>9, <1>10, <1>12
  <2>5. PICK r : r = [job EXCEPT !.stage = "report", !.had = h]
    OBVIOUS
  <2>6. r \in JobRec
    BY <1>1, <2>5 DEF JobRec
  <2>7. /\ r.stage = "report" /\ r.file = job.file /\ r.want = job.want /\ r.mode = job.mode /\ r.mgr = job.mgr
        /\ r.ranged = job.ranged /\ r.had = h
    BY <1>1, <2>5 DEF JobRec
  <2>8. AboutOK(r) /\ (NeedsMgr(r.mode) => r.mgr)
    BY <1>1, <2>7 DEF JobOK, AboutOK
  <2>9. SignedOK(r)
    <3>1. /\ r.url = job.url /\ r.inner = job.inner /\ r.signed = job.signed /\ r.chained = job.chained
          /\ r.obj = job.obj
      BY <1>1, <2>5 DEF JobRec
    <3> QED BY <1>1, <2>7, <3>1, SignedKept DEF JobOK
  <2>10. LeftOK(r, kept', linked', disk')
    <3>1. WritesFile(job.mode) /\ ~job.ranged => Written(r, Len(r.want), disk')
      BY <1>3, <1>8, <2>3, <2>7 DEF Written
    <3>2. job.mode = "store" => Stored(r, Len(r.want), kept', linked')
      BY <1>3, <2>2, <2>4, <2>7 DEF Stored
    <3>3. job.mode = "link" /\ ~job.ranged => LinkedTo(r, Len(r.want), linked')
      <4>1. 1 \in 1 .. Len(job.want)
        BY <1>1, <1>3
      <4> QED BY <1>3, <2>4, <2>7, <4>1 DEF LinkedTo
    <3> QED BY <1>1, <2>7, <3>1, <3>2, <3>3 DEF LeftOK
  <2>11. job' = r
    BY <1>5, <1>12, <2>5
  <2> QED BY <1>6, <1>8, <1>11, <2>2, <2>6, <2>7, <2>8, <2>9, <2>10, <2>11, OneJob DEF JobOK
<1>13. CASE ~(Verified(body) \/ job.ranged)
  <2>1. job' = [job EXCEPT !.stage = "failed", !.had = h] /\ kept' = kept
    BY <1>5, <1>13
  <2>2. PICK r : r = [job EXCEPT !.stage = "failed", !.had = h]
    OBVIOUS
  <2>3. r \in JobRec /\ r.stage = "failed"
    BY <1>1, <2>2 DEF JobRec
  <2>4. JobOK(r, kept', linked', disk')
    BY <2>3 DEF JobOK, AboutOK, SignedOK, LeftOK
  <2> QED BY <1>6, <1>8, <1>11, <2>1, <2>2, <2>4, OneJob DEF PullInv
<1> QED BY <1>12, <1>13

LEMMA ListedStep ==
    ASSUME PullInv, Listed
    PROVE  PullInv'
<1>1. /\ JobOK(job, kept, linked, disk) /\ job \in JobRec /\ job.stage = "listed" /\ job.want \in Seq(Chunks)
      /\ job.obj \in Lists /\ ~job.ranged /\ job.links = <<>>
      /\ job.file # Nothing => job.obj = Content(job.file)
  BY DEF PullInv, JobOK, AboutOK, Listed, JobRec
<1>2. /\ Rest /\ kept' \subseteq Ids /\ linked' \in [Chunks -> Nat] /\ disk' \in Seq(Units)
      /\ UNCHANGED <<linked, disk>>
      /\ job.mgr => job.obj \in kept'
  BY <1>1 DEF Listed, PullInv, Ids
<1>3. PICK r : r = [job EXCEPT !.stage = "members", !.i = 1]
  OBVIOUS
<1>4. r \in JobRec
  BY <1>1, <1>3 DEF JobRec
<1>5. /\ r.stage = "members" /\ r.i = 1 /\ r.file = job.file /\ r.want = job.want /\ r.mode = job.mode
      /\ r.mgr = job.mgr /\ r.ranged = job.ranged /\ r.obj = job.obj /\ r.links = <<>>
  BY <1>1, <1>3 DEF JobRec
<1>6. AboutOK(r) /\ (NeedsMgr(r.mode) => r.mgr)
  BY <1>1, <1>5 DEF JobOK, AboutOK
<1>7. SignedOK(r)
  <2>1. r.url = job.url /\ r.inner = job.inner /\ r.signed = job.signed /\ r.chained = job.chained
    BY <1>1, <1>3 DEF JobRec
  <2> QED BY <1>1, <1>5, <2>1, SignedKept DEF JobOK
<1>8. /\ Written(r, r.i - 1, disk') /\ Stored(r, r.i - 1, kept', linked') /\ Noted(r, r.i - 1)
      /\ r.i <= Len(r.want) + 1
  BY <1>1, <1>2, <1>5 DEF Written, Stored, Noted
<1>9. LeftOK(r, kept', linked', disk')
  BY <1>2, <1>5, <1>8 DEF LeftOK
<1>10. job' = r
  BY <1>3 DEF Listed
<1> QED BY <1>2, <1>4, <1>5, <1>6, <1>7, <1>9, <1>10, OneJob DEF JobOK

\* One more link at the end of the links to write.
LEMMA LinkAdded ==
    ASSUME NEW S, NEW links \in Seq(S), NEW x \in S, NEW n \in Nat, Len(links) = n - 1, n >= 1,
           NEW more, more = Append(links, x)
    PROVE  /\ more \in Seq(S) /\ Len(more) = n /\ more[n] = x
           /\ \A k \in 1 .. n - 1 : more[k] = links[k]
OBVIOUS

LEMMA MemberStep ==
    ASSUME PullInv, Member
    PROVE  PullInv'
<1>1. /\ JobOK(job, kept, linked, disk) /\ job \in JobRec /\ job.stage = "members" /\ job.want \in Seq(Chunks)
      /\ job.obj \in Lists /\ ~job.ranged /\ job.links \in Seq(Chunks \X Nat) /\ job.i \in Nat
      /\ job.had \in SUBSET Chunks /\ linked \in [Chunks -> Nat]
      /\ job.file # Nothing => job.obj = Content(job.file)
      /\ job.i >= 1 /\ job.i <= Len(job.want)
      /\ job.mgr => job.obj \in kept
      /\ WritesFile(job.mode) => Written(job, job.i - 1, disk)
      /\ job.mode = "store" => Stored(job, job.i - 1, kept, linked)
      /\ Noted(job, job.i - 1)
  BY DEF PullInv, JobOK, AboutOK, LeftOK, Member, JobRec
<1>2. PICK i \in Nat : i = job.i
  BY <1>1
<1>3. PICK c \in Chunks : c = job.want[i]
  BY <1>1, <1>2
<1>4. PICK body \in {c, Damaged} :
         IF ~Verified(body) THEN Fail /\ UNCHANGED <<kept, linked, disk>>
         ELSE /\ disk' = IF WritesFile(job.mode) THEN Overwritten(i, body) ELSE disk
              /\ kept' = IF job.mode = "store" THEN kept \cup {body} ELSE kept
              /\ linked' = IF job.mode = "store" THEN StoredRow(body) ELSE linked
              /\ job' = [job EXCEPT !.i = @ + 1, !.had = @ \cup ({body} \cap kept),
                           !.links = IF job.mode = "link" THEN Append(@, <<body, i>>) ELSE @]
  BY <1>2, <1>3 DEF Member
<1>5. Rest
  BY DEF Member
<1>6. CASE ~Verified(body)
  BY <1>4, <1>5, <1>6, FailedJob, OneJob DEF PullInv, Fail
<1>7. CASE Verified(body)
  <2>1. body = c
    BY <1>7 DEF Verified
  <2>2. /\ disk' = IF WritesFile(job.mode) THEN Overwritten(i, c) ELSE disk
        /\ kept' = IF job.mode = "store" THEN kept \cup {c} ELSE kept
        /\ linked' = IF job.mode = "store" THEN StoredRow(c) ELSE linked
        /\ job' = [job EXCEPT !.i = @ + 1, !.had = @ \cup ({c} \cap kept),
                     !.links = IF job.mode = "link" THEN Append(@, <<c, i>>) ELSE @]
    BY <1>4, <1>7, <2>1
  <2>3. kept \subseteq kept' /\ kept' \subseteq Ids /\ (job.mode = "store" => c \in kept')
    BY <2>2 DEF PullInv, Ids
  <2>4. /\ disk' \in Seq(Units)
        /\ WritesFile(job.mode) => i <= Len(disk') /\ \A k \in 1 .. i : disk'[k] = job.want[k]
    <3>1. CASE WritesFile(job.mode)
      <4>1. i >= 1 /\ i <= Len(disk) + 1 /\ \A k \in 1 .. i - 1 : disk[k] = job.want[k]
        BY <1>1, <1>2, <3>1 DEF PullInv, Written
      <4>2. PICK new : new = Overwritten(i, c)
        OBVIOUS
      <4>3. /\ new \in Seq(Units) /\ Len(new) >= i /\ new[i] = c
            /\ \A k \in 1 .. i - 1 : new[k] = disk[k]
        <5>1. c \in Units /\ disk \in Seq(Units)
          BY DEF PullInv, Units
        <5>2. /\ Overwritten(i, c) \in Seq(Units)
              /\ Len(Overwritten(i, c)) >= i /\ Overwritten(i, c)[i] = c
              /\ \A k \in 1 .. i - 1 : Overwritten(i, c)[k] = disk[k]
          BY <4>1, <5>1, OverwrittenIs
        <5> QED BY <4>2, <5>2
      <4>4. \A k \in 1 .. i : new[k] = job.want[k]
        BY <1>3, <4>1, <4>3
      <4> QED BY <2>2, <3>1, <4>2, <4>3, <4>4
    <3>2. CASE ~WritesFile(job.mode)
      BY <2>2, <3>2 DEF PullInv
    <3> QED BY <3>1, <3>2
  <2>5. PICK more \in Seq(Chunks \X Nat) :
           /\ more = IF job.mode = "link" THEN Append(job.links, <<c, i>>) ELSE job.links
           /\ job.mode = "link" => Len(more) = i /\ \A k \in 1 .. i : more[k] = <<job.want[k], k>>
           /\ job.mode # "link" => more = <<>>
    <3>1. CASE job.mode = "link"
      <4>1. PICK x \in Chunks \X Nat : x = <<c, i>>
        OBVIOUS
      <4>2. PICK more : more = Append(job.links, x)
        OBVIOUS
      <4>3. Len(job.links) = i - 1 /\ i >= 1 /\ \A k \in 1 .. i - 1 : job.links[k] = <<job.want[k], k>>
        BY <1>1, <1>2, <3>1 DEF Noted
      <4>4. more \in Seq(Chunks \X Nat) /\ Len(more) = i /\ more[i] = x /\ \A k \in 1 .. i - 1 : more[k] = job.links[k]
        BY <1>1, <4>2, <4>3, LinkAdded
      <4>5. \A k \in 1 .. i : more[k] = <<job.want[k], k>>
        BY <1>3, <4>1, <4>3, <4>4
      <4> QED BY <3>1, <4>1, <4>2, <4>4, <4>5
    <3>2. CASE job.mode # "link"
      BY <1>1, <3>2 DEF Noted
    <3> QED BY <3>1, <3>2
  <2>6. PICK h \in SUBSET Chunks : h = job.had \cup ({c} \cap kept)
    BY <1>1
  <2>7. /\ linked' \in [Chunks -> Nat]
        /\ job.mode = "store" => \A k \in 1 .. i : linked'[job.want[k]] = 0 \/ job.want[k] \in h
    <3>1. CASE job.mode = "store"
      <4>1. PICK sr \in [Chunks -> Nat] :
               /\ sr = StoredRow(c) /\ (c \in kept \/ sr[c] = 0)
               /\ \A d \in Chunks : sr[d] \in {linked[d], 0}
        BY <1>1, RowsAre
      <4>2. sr[c] = 0 \/ c \in h
        BY <2>6, <4>1
      <4>3. \A k \in 1 .. i - 1 : job.want[k] \in Chunks /\ (linked[job.want[k]] = 0 \/ job.want[k] \in h)
        <5>1. PICK m \in Nat : m = Len(job.want) /\ i <= m
          BY <1>1, <1>2
        <5>2. \A k \in 1 .. i - 1 : k \in 1 .. m
          BY <5>1
        <5>3. \A k \in 1 .. i - 1 : job.want[k] \in Chunks
          BY <1>1, <5>1, <5>2
        <5>4. \A k \in 1 .. i - 1 : linked[job.want[k]] = 0 \/ job.want[k] \in job.had
          BY <1>1, <1>2, <3>1 DEF Stored
        <5> QED BY <2>6, <5>3, <5>4
      <4>4. \A k \in 1 .. i - 1 : sr[job.want[k]] = 0 \/ job.want[k] \in h
        BY <4>1, <4>3
      <4>5. \A k \in 1 .. i : k = i \/ k \in 1 .. i - 1
        OBVIOUS
      <4>6. \A k \in 1 .. i : sr[job.want[k]] = 0 \/ job.want[k] \in h
        BY <1>3, <4>2, <4>4, <4>5
      <4> QED BY <2>2, <3>1, <4>1, <4>6
    <3>2. CASE job.mode # "store"
      BY <1>1, <2>2, <3>2
    <3> QED BY <3>1, <3>2
  <2>8. PICK n \in Nat : n = i + 1
    OBVIOUS
  <2>9. PICK r : r = [job EXCEPT !.i = n, !.had = h, !.links = more]
    OBVIOUS
  <2>10. r \in JobRec
    BY <1>1, <2>9 DEF JobRec
  <2>11. /\ r.stage = "members" /\ r.i = n /\ r.file = job.file /\ r.want = job.want /\ r.mode = job.mode
         /\ r.mgr = job.mgr /\ r.ranged = job.ranged /\ r.obj = job.obj /\ r.links = more /\ r.had = h
    BY <1>1, <2>9 DEF JobRec
  <2>12. AboutOK(r) /\ (NeedsMgr(r.mode) => r.mgr)
    BY <1>1, <2>11 DEF JobOK, AboutOK
  <2>13. SignedOK(r)
    <3>1. r.url = job.url /\ r.inner = job.inner /\ r.signed = job.signed /\ r.chained = job.chained
      BY <1>1, <2>9 DEF JobRec
    <3> QED BY <1>1, <2>11, <3>1, SignedKept DEF JobOK
  <2>14. LeftOK(r, kept', linked', disk')
    <3>1. r.i - 1 = i /\ r.i >= 1 /\ r.i <= Len(r.want) + 1
      BY <1>1, <1>2, <2>8, <2>11
    <3>2. WritesFile(r.mode) => Written(r, i, disk')
      BY <2>4, <2>11 DEF Written
    <3>3. r.mode = "store" => Stored(r, i, kept', linked')
      <4>1. job.mode = "store" => \A k \in 1 .. i : job.want[k] \in kept'
        BY <1>1, <1>2, <1>3, <2>3 DEF Stored
      <4> QED BY <2>7, <2>11, <4>1 DEF Stored
    <3>4. Noted(r, i)
      BY <2>5, <2>11 DEF Noted
    <3>5. r.mgr => r.obj \in kept'
      BY <1>1, <2>3, <2>11
    <3> QED BY <2>11, <3>1, <3>2, <3>3, <3>4, <3>5 DEF LeftOK
  <2>15. job' = r
    BY <1>2, <2>2, <2>5, <2>6, <2>8, <2>9
  <2> QED BY <1>5, <2>3, <2>4, <2>7, <2>10, <2>11, <2>12, <2>13, <2>14, <2>15, OneJob DEF JobOK
<1> QED BY <1>6, <1>7

\* A pull that has all its chunks turns to its links.
LEMMA FlushStep ==
    ASSUME PullInv, Flush
    PROVE  PullInv'
<1>1. /\ JobOK(job, kept, linked, disk) /\ job \in JobRec /\ job.stage = "members" /\ job.want \in Seq(Chunks)
      /\ job.obj \in Lists /\ ~job.ranged /\ job.links \in Seq(Chunks \X Nat)
      /\ job.file # Nothing => job.obj = Content(job.file)
      /\ job.mgr => job.obj \in kept
      /\ job.i \in Nat /\ job.i <= Len(job.want) + 1
      /\ WritesFile(job.mode) => Written(job, job.i - 1, disk)
      /\ job.mode = "store" => Stored(job, job.i - 1, kept, linked)
      /\ Noted(job, job.i - 1)
  BY DEF PullInv, JobOK, AboutOK, LeftOK, Flush, JobRec
<1>2. /\ Rest /\ kept' \subseteq Ids /\ linked' \in [Chunks -> Nat] /\ disk' \in Seq(Units)
      /\ UNCHANGED <<kept, linked, disk>>
  BY DEF Flush, PullInv
<1>3. job.i - 1 = Len(job.want)
  <2>1. PICK n \in Nat : n = Len(job.want)
    BY <1>1
  <2>2. job.i > n /\ job.i <= n + 1
    BY <1>1, <2>1 DEF Flush
  <2> QED BY <1>1, <2>1, <2>2
<1>4. PICK r : r = [job EXCEPT !.stage = "links", !.i = 1]
  OBVIOUS
<1>5. r \in JobRec
  BY <1>1, <1>4 DEF JobRec
<1>6. /\ r.stage = "links" /\ r.i = 1 /\ r.file = job.file /\ r.want = job.want /\ r.mode = job.mode
      /\ r.mgr = job.mgr /\ r.ranged = job.ranged /\ r.obj = job.obj /\ r.links = job.links /\ r.had = job.had
  BY <1>1, <1>4 DEF JobRec
<1>7. AboutOK(r) /\ (NeedsMgr(r.mode) => r.mgr)
  BY <1>1, <1>6 DEF JobOK, AboutOK
<1>8. SignedOK(r)
  <2>1. r.url = job.url /\ r.inner = job.inner /\ r.signed = job.signed /\ r.chained = job.chained
    BY <1>1, <1>4 DEF JobRec
  <2> QED BY <1>1, <1>6, <2>1, SignedKept DEF JobOK
<1>9. LeftOK(r, kept', linked', disk')
  <2>1. WritesFile(r.mode) => Written(r, Len(r.want), disk')
    BY <1>1, <1>2, <1>3, <1>6 DEF Written
  <2>2. r.mode = "store" => Stored(r, Len(r.want), kept', linked')
    BY <1>1, <1>2, <1>3, <1>6 DEF Stored
  <2>3. Noted(r, Len(r.want))
    BY <1>1, <1>3, <1>6 DEF Noted
  <2>4. LinkedTo(r, r.i - 1, linked') /\ r.i >= 1 /\ r.i <= Len(r.links) + 1
    BY <1>1, <1>6 DEF LinkedTo
  <2>5. r.mgr => r.obj \in kept'
    BY <1>1, <1>2, <1>6
  <2> QED BY <1>6, <2>1, <2>2, <2>3, <2>4, <2>5 DEF LeftOK
<1>10. job' = r
  BY <1>4 DEF Flush
<1> QED BY <1>2, <1>5, <1>6, <1>7, <1>8, <1>9, <1>10, OneJob DEF JobOK

\* One link is written: a chunk that occurs twice is linked to its last place.
LEMMA LinkStep ==
    ASSUME PullInv, Link
    PROVE  PullInv'
<1>1. /\ JobOK(job, kept, linked, disk) /\ job \in JobRec /\ job.stage = "links" /\ job.want \in Seq(Chunks)
      /\ job.obj \in Lists /\ ~job.ranged /\ job.links \in Seq(Chunks \X Nat) /\ linked \in [Chunks -> Nat]
      /\ job.file # Nothing => job.obj = Content(job.file)
      /\ job.mgr => job.obj \in kept
      /\ job.i \in Nat /\ job.i >= 1 /\ job.i <= Len(job.links)
      /\ WritesFile(job.mode) => Written(job, Len(job.want), disk)
      /\ Noted(job, Len(job.want))
      /\ job.mode = "link" => LinkedTo(job, job.i - 1, linked)
  BY DEF PullInv, JobOK, AboutOK, LeftOK, Link, JobRec
<1>2. job.mode = "link"
  <2>1. job.links # <<>>
    BY <1>1
  <2> QED BY <1>1, <2>1 DEF Noted
<1>3. PICK i \in Nat : i = job.i
  BY <1>1
<1>4. i \in 1 .. Len(job.want) /\ job.links[i] = <<job.want[i], i>>
  <2>1. Len(job.links) = Len(job.want) /\ \A k \in 1 .. Len(job.want) : job.links[k] = <<job.want[k], k>>
    BY <1>1, <1>2 DEF Noted
  <2>2. PICK m \in Nat : m = Len(job.want)
    BY <1>1
  <2>3. i >= 1 /\ i <= m
    BY <1>1, <1>3, <2>1, <2>2
  <2> QED BY <2>1, <2>2, <2>3
<1>5. PICK c \in Chunks : c = job.want[i]
  BY <1>1, <1>4
<1>6. PICK lr \in [Chunks -> Nat] :
         lr = LinkRow(c, i) /\ lr[c] = i /\ \A d \in Chunks : d # c => lr[d] = linked[d]
  <2>1. linked \in [Chunks -> Nat]
    BY <1>1
  <2>2. /\ LinkRow(c, i) \in [Chunks -> Nat] /\ LinkRow(c, i)[c] = i
        /\ \A d \in Chunks : d # c => LinkRow(c, i)[d] = linked[d]
    BY <2>1, RowsAre
  <2> QED BY <2>2
<1>7. linked' = lr
  BY <1>3, <1>4, <1>5, <1>6 DEF Link
<1>8. /\ Rest /\ kept' \subseteq Ids /\ disk' \in Seq(Units) /\ UNCHANGED <<kept, disk>>
  BY DEF Link, PullInv
<1>9. \A k \in 1 .. i : lr[job.want[k]] \in 1 .. Len(job.want) /\ job.want[lr[job.want[k]]] = job.want[k]
  <2> SUFFICES ASSUME NEW k \in 1 .. i
               PROVE  lr[job.want[k]] \in 1 .. Len(job.want) /\ job.want[lr[job.want[k]]] = job.want[k]
    OBVIOUS
  <2>1. PICK d \in Chunks : d = job.want[k]
    <3>1. k \in 1 .. Len(job.want)
      BY <1>4
    <3>2. job.want \in Seq(Chunks)
      BY <1>1
    <3>3. job.want[k] \in Chunks
      BY <3>1, <3>2
    <3> QED BY <3>3
  <2>2. CASE d = c
    BY <1>4, <1>5, <1>6, <2>1, <2>2
  <2>3. CASE d # c
    <3>1. k \in 1 .. i - 1
      BY <1>5, <2>1, <2>3
    <3>2. linked[d] \in 1 .. Len(job.want) /\ job.want[linked[d]] = d
      BY <1>1, <1>2, <1>3, <2>1, <3>1 DEF LinkedTo
    <3> QED BY <1>6, <2>1, <2>3, <3>2
  <2> QED BY <2>2, <2>3
<1>10. PICK n \in Nat : n = i + 1
  OBVIOUS
<1>11. PICK r : r = [job EXCEPT !.i = n]
  OBVIOUS
<1>12. r \in JobRec
  BY <1>1, <1>11 DEF JobRec
<1>13. /\ r.stage = "links" /\ r.i = n /\ r.file = job.file /\ r.want = job.want /\ r.mode = job.mode
       /\ r.mgr = job.mgr /\ r.ranged = job.ranged /\ r.obj = job.obj /\ r.links = job.links /\ r.had = job.had
  BY <1>1, <1>11 DEF JobRec
<1>14. AboutOK(r) /\ (NeedsMgr(r.mode) => r.mgr)
  BY <1>1, <1>13 DEF JobOK, AboutOK
<1>15. SignedOK(r)
  <2>1. r.url = job.url /\ r.inner = job.inner /\ r.signed = job.signed /\ r.chained = job.chained
    BY <1>1, <1>11 DEF JobRec
  <2> QED BY <1>1, <1>13, <2>1, SignedKept DEF JobOK
<1>16. LeftOK(r, kept', linked', disk')
  <2>1. Written(r, Len(r.want), disk')
    BY <1>1, <1>2, <1>8, <1>13 DEF Written, WritesFile
  <2>2. Noted(r, Len(r.want))
    BY <1>1, <1>13 DEF Noted
  <2>3. r.i - 1 = i /\ r.i >= 1 /\ r.i <= Len(r.links) + 1
    <3>1. PICK m \in Nat : m = Len(job.links) /\ i <= m
      BY <1>1, <1>3
    <3>2. n - 1 = i /\ n >= 1 /\ n <= m + 1
      BY <1>10, <3>1
    <3> QED BY <1>13, <3>1, <3>2
  <2>4. LinkedTo(r, r.i - 1, linked')
    BY <1>7, <1>9, <1>13, <2>3 DEF LinkedTo
  <2>5. (r.mgr => r.obj \in kept') /\ r.mode # "store"
    BY <1>1, <1>2, <1>8, <1>13
  <2> QED BY <1>13, <2>1, <2>2, <2>3, <2>4, <2>5 DEF LeftOK
<1>17. job' = r
  BY <1>3, <1>10, <1>11 DEF Link
<1> QED BY <1>7, <1>8, <1>12, <1>13, <1>14, <1>15, <1>16, <1>17, OneJob DEF JobOK

\* All links are written.
LEMMA AllLinkedStep ==
    ASSUME PullInv, AllLinked
    PROVE  PullInv'
<1>1. /\ JobOK(job, kept, linked, disk) /\ job \in JobRec /\ job.stage = "links" /\ job.want \in Seq(Chunks)
      /\ job.obj \in Lists /\ ~job.ranged /\ job.links \in Seq(Chunks \X Nat)
      /\ job.file # Nothing => job.obj = Content(job.file)
      /\ job.mgr => job.obj \in kept
      /\ job.i \in Nat /\ job.i <= Len(job.links) + 1
      /\ WritesFile(job.mode) => Written(job, Len(job.want), disk)
      /\ job.mode = "store" => Stored(job, Len(job.want), kept, linked)
      /\ Noted(job, Len(job.want))
      /\ job.mode = "link" => LinkedTo(job, job.i - 1, linked)
  BY DEF PullInv, JobOK, AboutOK, LeftOK, AllLinked, JobRec
<1>2. /\ Rest /\ kept' \subseteq Ids /\ linked' \in [Chunks -> Nat] /\ disk' \in Seq(Units)
      /\ UNCHANGED <<kept, linked, disk>>
  BY DEF AllLinked, PullInv
<1>3. job.mode = "link" => job.i - 1 = Len(job.want)
  <2>1. PICK n \in Nat : n = Len(job.links)
    BY <1>1
  <2>2. job.i > n /\ job.i <= n + 1
    BY <1>1, <2>1 DEF AllLinked
  <2>3. job.i - 1 = n
    BY <1>1, <2>2
  <2> QED BY <1>1, <2>1, <2>3 DEF Noted
<1>4. PICK r : r = [job EXCEPT !.stage = "report"]
  OBVIOUS
<1>5. r \in JobRec
  BY <1>1, <1>4 DEF JobRec
<1>6. /\ r.stage = "report" /\ r.file = job.file /\ r.want = job.want /\ r.mode = job.mode
      /\ r.mgr = job.mgr /\ r.ranged = job.ranged /\ r.obj = job.obj /\ r.had = job.had
  BY <1>1, <1>4 DEF JobRec
<1>7. AboutOK(r) /\ (NeedsMgr(r.mode) => r.mgr)
  BY <1>1, <1>6 DEF JobOK, AboutOK
<1>8. SignedOK(r)
  <2>1. r.url = job.url /\ r.inner = job.inner /\ r.signed = job.signed /\ r.chained = job.chained
    BY <1>1, <1>4 DEF JobRec
  <2> QED BY <1>1, <1>6, <2>1, SignedKept DEF JobOK
<1>9. LeftOK(r, kept', linked', disk')
  <2>1. WritesFile(r.mode) => Written(r, Len(r.want), disk')
    BY <1>1, <1>2, <1>6 DEF Written
  <2>2. r.mode = "store" => Stored(r, Len(r.want), kept', linked')
    BY <1>1, <1>2, <1>6 DEF Stored
  <2>3. r.mode = "store" /\ r.file # Nothing => Content(r.file) \in kept'
    BY <1>1, <1>2, <1>6, <1>7 DEF NeedsMgr
  <2>4. r.mode = "link" => LinkedTo(r, Len(r.want), linked')
    BY <1>1, <1>2, <1>3, <1>6 DEF LinkedTo
  <2> QED BY <1>6, <2>1, <2>2, <2>3, <2>4 DEF LeftOK
<1>10. job' = r
  BY <1>4 DEF AllLinked
<1> QED BY <1>2, <1>5, <1>6, <1>7, <1>8, <1>9, <1>10, OneJob DEF JobOK

LEMMA ReportStep ==
    ASSUME PullInv, Report
    PROVE  PullInv'
<1>1. JobOK(job, kept, linked, disk) /\ job \in JobRec /\ job.stage = "report"
  BY DEF PullInv, JobOK, Report
<1>2. /\ Rest /\ kept' \subseteq Ids /\ linked' \in [Chunks -> Nat] /\ disk' \in Seq(Units)
      /\ UNCHANGED <<linked, disk>>
      /\ kept \subseteq kept' /\ (job.mgr /\ job.file # Nothing => job.file \in kept')
  BY <1>1 DEF Report, Last, PullInv, JobRec, Ids
<1>3. PICK r : r = [job EXCEPT !.stage = "ok"]
  OBVIOUS
<1>4. r \in JobRec
  BY <1>1, <1>3 DEF JobRec
<1>5. /\ r.stage = "ok" /\ r.file = job.file /\ r.want = job.want /\ r.mode = job.mode
      /\ r.mgr = job.mgr /\ r.ranged = job.ranged /\ r.had = job.had
  BY <1>1, <1>3 DEF JobRec
<1>6. AboutOK(r) /\ (NeedsMgr(r.mode) => r.mgr)
  BY <1>1, <1>5 DEF JobOK, AboutOK
<1>7. SignedOK(r)
  <2>1. /\ r.url = job.url /\ r.inner = job.inner /\ r.signed = job.signed /\ r.chained = job.chained
        /\ r.obj = job.obj
    BY <1>1, <1>3 DEF JobRec
  <2> QED BY <1>1, <1>5, <2>1, SignedKept DEF JobOK
<1>8. LeftOK(r, kept', linked', disk')
  BY <1>1, <1>2, <1>5, <1>6 DEF LeftOK, JobOK, NeedsMgr, Written, Stored, LinkedTo
<1>9. job' = r
  BY <1>3 DEF Report
<1> QED BY <1>2, <1>4, <1>5, <1>6, <1>7, <1>8, <1>9, OneJob DEF JobOK

LEMMA PullNextInv == PullInv /\ [PullNext]_nvars => PullInv'
<1> SUFFICES ASSUME PullInv, [PullNext]_nvars PROVE PullInv'
  OBVIOUS
<1>1. CASE UNCHANGED nvars
  BY <1>1 DEF nvars, PullInv
<1>2. CASE \E f \in Files : Publish(f)
  BY <1>2, PublishStep
<1>3. CASE \E mode \in {"store", "file", "link", "none"}, mgr, ranged, inner \in BOOLEAN, url \in Files \cup {"path"} :
              Begin(mode, mgr, ranged, url, inner)
  BY <1>3, BeginStep
<1>4. CASE PullStep
  BY <1>4, MetaStep, ObjectStep, MetadataStep, RawChunkStep, ListedStep, MemberStep, FlushStep, LinkStep,
     AllLinkedStep, ReportStep, StopStep
  DEF PullStep
<1>5. CASE Stop
  BY <1>5, StopStep
<1> QED BY <1>1, <1>2, <1>3, <1>4, <1>5 DEF PullNext

\* A pull that ends well left the chunks asked for in the local file, in the
\* store and in the links, and no damaged bytes are stored: for any files,
\* lists and number of pulls (pull_raw_chunk, pull_chunk_list_by_object,
\* finalize_local_links, pull_file_object).
THEOREM PulledExactHolds == PullSpec => []PulledExact
BY PullInitInv, PullNextInv, PullInvExact, PTL DEF PullSpec

\* A pull from a path that ends well is of what the publisher signed, whatever
\* a stale answer says beside it, for any files, lists and number of
\* publications; only an inlined file of one chunk is not compared with the
\* signed target (effective_obj_id, verify_inner_path_chain).
THEOREM SignedWinsHolds == PullSpec => []SignedWins
BY PullInitInv, PullNextInv, PullInvSigned, PTL DEF PullSpec
=============================================================================
