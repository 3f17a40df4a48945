------------------------------ MODULE DirServer ------------------------------
(***************************************************************************)
(* NdnDirServer: a directory tree served by name.  A scanner turns files    *)
(* into objects of a named store and leaves a sidecar (.cyobj) beside each; *)
(* a directory with a marker becomes one object.  Meanwhile users edit the  *)
(* files, requests are answered, and the process may die.  One layout, one  *)
(* store.  An object is the set of its <<path, content>> pairs; contents    *)
(* stand for their chunk ids.                                               *)
(***************************************************************************)
EXTENDS Naturals, FiniteSets

CONSTANTS Plain,          \* files of the tree
          Inside,         \* files in the one directory that has a marker
          Contents,
          Writes,         \* contents that users write
          Quick(_),       \* quick hash of a content: samples of it; NoQuick when it is too short
          Bytes(_),       \* size of a content
          Mix(_, _),      \* what a reader gets of a file that changes from one content to the other
          InitFiles,      \* what the tree holds when the server starts
          MaxEdits,       \* bound on what users do
          MaxDirFaults    \* bound on crashes, failing calls and evictions

NoQuick == "too short"
NoData == ""
TheDir == "dir"
Entries == Plain \cup {TheDir}
FilesOf(e) == IF e = TheDir THEN Inside ELSE {e}

Gone == [there |-> FALSE, data |-> NoData, mtime |-> 0]

ASSUME DirAssumption == /\ TheDir \notin Plain /\ Plain \cap Inside = {}
                        /\ InitFiles \subseteq [Plain \cup Inside -> {Gone} \cup [there : {TRUE}, data : Contents, mtime : Nat]]
                        /\ Writes \subseteq Contents
                        /\ \A c, d \in Contents : Mix(c, d) \in Contents /\ Mix(c, c) = c
                        /\ MaxEdits \in Nat /\ MaxDirFaults \in Nat

VARIABLES policy,     \* "link": the store links to the files; "store": it takes the files over
          files,    \* [Plain \cup Inside -> file]
          dir,      \* the marked directory is there
          template, \* the object template of the root
          side,     \* [Entries -> sidecar]
          chunk,    \* [Contents -> chunk row of the store]
          named,    \* objects in the store
          scan,     \* the scanner's step
          ask,      \* the request being answered
          torn,     \* contents linked to a file that held something else by then
          evicted,  \* contents the store's collector dropped
          dropped,  \* objects it dropped
          stirred,  \* the entry in the scanner's hand was edited since its stat
          raced,    \* entries whose sidecar was made while they were edited
          lost,     \* what the scanner deleted and the store does not hold
          edits, faults

tree == <<policy, files, dir, template>>
gone == <<evicted, dropped>>
seen == <<stirred, raced>>
history == <<torn, gone, seen, lost, edits, faults>>
dvars == <<tree, side, chunk, named, scan, ask, history>>

NoRow == [kind |-> "none", path |-> "", quick |-> ""]
NoSide == [kind |-> "none", obj |-> {}, quick |-> "", stat |-> {}, template |-> 0]
TornSide == [NoSide EXCEPT !.kind = "torn"]
Idle == [at |-> "idle", e |-> "", todo |-> {}, left |-> {}, p |-> "", data |-> "", obj |-> {},
         quick |-> "", stat |-> {}, template |-> 0]
NoAsk == [at |-> "none", path |-> "", data |-> NoData, file |-> "", held |-> NoData, edited |-> FALSE]

Present(e) == IF e = TheDir THEN dir ELSE files[e].there
\* size and modification time in seconds
Stat(e) == {<<p, Bytes(files[p].data), files[p].mtime>> : p \in {p \in FilesOf(e) : files[p].there}}
QuickNow(p) == IF files[p].there THEN Quick(files[p].data) ELSE NoQuick

-----------------------------------------------------------------------------
(* Users, the store's collector, and crashes.                               *)

Fault == faults < MaxDirFaults /\ faults' = faults + 1
User == edits < MaxEdits /\ edits' = edits + 1

\* what a change of a file means to who is reading it
Noticed(p) ==
    /\ stirred' = (stirred \/ (scan.at \notin {"idle", "walk"} /\ p \in FilesOf(scan.e)))
    /\ ask' = IF ask.file = p THEN [ask EXCEPT !.edited = TRUE] ELSE ask

Edit(p, c, m) ==
    /\ User /\ files[p].data # c
    /\ files' = [files EXCEPT ![p] = [there |-> TRUE, data |-> c, mtime |-> m]]
    /\ dir' = (dir \/ p \in Inside)
    /\ Noticed(p)
    /\ UNCHANGED <<policy, template, side, chunk, named, scan, torn, gone, raced, lost, faults>>

\* the directory and its marker stay
Unlink(p) ==
    /\ User /\ files[p].there
    /\ files' = [files EXCEPT ![p] = Gone]
    /\ Noticed(p)
    /\ UNCHANGED <<policy, dir, template, side, chunk, named, scan, torn, gone, raced, lost, faults>>

EditTemplate ==
    /\ User /\ template' = 1 - template
    /\ UNCHANGED <<policy, files, dir, side, chunk, named, scan, ask, torn, gone, seen, lost, faults>>

\* gc_round, try_evict_object: nothing pins what the scanner stores, so every
\* object and every chunk with bytes of its own is a candidate; a link has none
EvictChunk(c) ==
    /\ Fault /\ chunk[c].kind = "stored"
    /\ chunk' = [chunk EXCEPT ![c] = NoRow] /\ evicted' = evicted \cup {c}
    /\ UNCHANGED <<tree, side, named, scan, ask, torn, dropped, seen, lost, edits>>

EvictObject(o) ==
    /\ Fault /\ o \in named
    /\ named' = named \ {o} /\ dropped' = dropped \cup {o}
    /\ UNCHANGED <<tree, side, chunk, scan, ask, torn, evicted, seen, lost, edits>>

Die ==
    /\ Fault /\ scan.at # "idle"
    /\ scan' = Idle /\ ask' = NoAsk
    /\ UNCHANGED <<tree, side, chunk, named, torn, gone, seen, lost, edits>>

-----------------------------------------------------------------------------
(* The scanner: spawn_scanner, scan_and_objectify, walk_and_objectify.      *)

Stay == UNCHANGED <<policy, template, ask, gone, edits>>
Step(at) == scan' = [scan EXCEPT !.at = at]
NextEntry == Step("walk")

\* the template is read once for the whole pass
StartPass ==
    /\ scan.at = "idle"
    /\ scan' = [Idle EXCEPT !.at = "walk", !.todo = {e \in Entries : Present(e)}, !.template = template]
    /\ Stay /\ UNCHANGED <<files, dir, side, chunk, named, torn, seen, lost, faults>>

\* at the end of the tree, or when the tree cannot be listed
EndPass ==
    /\ scan.at = "walk" /\ IF scan.todo = {} THEN UNCHANGED faults ELSE Fault
    /\ scan' = Idle
    /\ Stay /\ UNCHANGED <<files, dir, side, chunk, named, torn, seen, lost>>

\* objectify_file up to stat, and the signature of objectify_directory
Look(e) ==
    /\ scan.at = "walk" /\ e \in scan.todo
    /\ scan' = [scan EXCEPT !.at = IF Present(e) THEN "check" ELSE "walk", !.todo = @ \ {e}, !.e = e,
                            !.stat = Stat(e), !.obj = {}]
    /\ stirred' = FALSE
    /\ Stay /\ UNCHANGED <<files, dir, side, chunk, named, torn, raced, lost, faults>>

\* Mutant of Current: the template is not compared.
CurrentAnyTemplate(e, s, quick) ==
    s.kind = "there" /\ (IF e # TheDir /\ s.quick # NoQuick THEN s.quick = quick ELSE s.stat = scan.stat)

\* the sidecar describes the source: by quick hash when there is one, else by stat
Current(e, s, quick) ==
    /\ s.kind = "there" /\ s.template = scan.template
    /\ IF e # TheDir /\ s.quick # NoQuick THEN s.quick = quick ELSE s.stat = scan.stat

\* the sidecar against the source; then a directory is listed, which may be empty
Check ==
    /\ scan.at = "check"
    /\ LET quick == IF scan.e = TheDir THEN NoQuick ELSE QuickNow(scan.e)
           left == IF scan.e = TheDir THEN {p \in Inside : files[p].there} ELSE {scan.e}
       IN  scan' = [scan EXCEPT !.at = CASE Current(scan.e, side[scan.e], quick) -> "walk"
                                         [] ~Current(scan.e, side[scan.e], quick) /\ left = {} -> "object"
                                         [] OTHER -> "hash",
                                !.quick = quick, !.left = left]
    /\ Stay /\ UNCHANGED <<files, dir, side, chunk, named, torn, seen, lost, faults>>

\* calculate_file_chunk_id: the file is opened and then read piece by piece
OpenSource(p) ==
    /\ scan.at = "hash" /\ p \in scan.left
    /\ IF ~files[p].there THEN NextEntry
       ELSE scan' = [scan EXCEPT !.at = "reading", !.p = p, !.data = files[p].data]
    /\ Stay /\ UNCHANGED <<files, dir, side, chunk, named, torn, seen, lost, faults>>

\* what a reader gets that opened the file when it held c
ReadSince(p, c) == {c} \cup (IF files[p].there THEN {files[p].data, Mix(c, files[p].data)} ELSE {})

\* a plain file must still have the size stat saw
Drifted(c) == scan.e # TheDir /\ \A s \in scan.stat : s[2] # Bytes(c)

Hash ==
    /\ scan.at = "reading"
    /\ \E c \in ReadSince(scan.p, scan.data) :
          IF Drifted(c) THEN NextEntry ELSE scan' = [scan EXCEPT !.at = "register", !.data = c]
    /\ Stay /\ UNCHANGED <<files, dir, side, chunk, named, torn, seen, lost, faults>>

HaveChunk(c) == chunk[c].kind # "none"

\* Mutant of Registers: an error of the store is dropped.
RegistersAnyway(p, c) == TRUE

\* register_chunk_in_store succeeds; the store verifies what it takes over
Registers(p, c) ==
    \/ HaveChunk(c)
    \/ policy = "link" /\ QuickNow(p) # NoQuick
    \/ policy = "store" /\ files[p].there /\ files[p].data = c

Linked(p, c) == policy = "link" /\ ~HaveChunk(c) /\ QuickNow(p) # NoQuick
\* the row of the chunk afterwards; a chunk the store knows is not looked at
RowAfter(p, c) ==
    IF HaveChunk(c) THEN chunk[c]
    ELSE IF Linked(p, c) THEN [kind |-> "link", path |-> p, quick |-> QuickNow(p)]
    ELSE IF policy = "store" /\ files[p].there /\ files[p].data = c THEN [NoRow EXCEPT !.kind = "stored"]
    ELSE NoRow

Register ==
    /\ scan.at = "register"
    /\ LET p == scan.p  c == scan.data  left == scan.left \ {p}
       IN  /\ chunk' = [chunk EXCEPT ![c] = RowAfter(p, c)]
           /\ torn' = IF Linked(p, c) /\ files[p].data # c THEN torn \cup {c} ELSE torn
           /\ IF Registers(p, c)
              THEN scan' = [scan EXCEPT !.at = IF left = {} THEN "object" ELSE "hash",
                                        !.left = left, !.obj = @ \cup {<<p, c>>}]
              ELSE NextEntry
    /\ Stay /\ UNCHANGED <<files, dir, side, named, seen, lost, faults>>

PutObject ==
    /\ scan.at = "object" /\ Step("sidecar")
    /\ named' = named \cup {[obj |-> scan.obj, template |-> scan.template]}
    /\ Stay /\ UNCHANGED <<files, dir, side, chunk, torn, seen, lost, faults>>

\* write_to: the file is truncated, then written
OpenSidecar ==
    /\ scan.at = "sidecar" /\ Step("writing")
    /\ side' = [side EXCEPT ![scan.e] = TornSide]
    /\ Stay /\ UNCHANGED <<files, dir, chunk, named, torn, seen, lost, faults>>

WriteSidecar ==
    /\ scan.at = "writing" /\ Step("remove")
    /\ side' = [side EXCEPT ![scan.e] = [kind |-> "there", obj |-> scan.obj, quick |-> scan.quick,
                                         stat |-> scan.stat, template |-> scan.template]]
    /\ raced' = IF stirred THEN raced \cup {scan.e} ELSE raced \ {scan.e}
    /\ Stay /\ UNCHANGED <<files, dir, chunk, named, torn, stirred, lost, faults>>

\* an error of any of these steps is logged and the walk goes on
EntryFails ==
    /\ Fault /\ scan.at \in {"check", "hash", "reading", "register", "object", "sidecar", "writing"} /\ NextEntry
    /\ Stay /\ UNCHANGED <<files, dir, side, chunk, named, torn, seen, lost>>

\* remove_file or remove_dir_all of whatever is there by now
Removed == IF policy = "store" THEN {p \in FilesOf(scan.e) : files[p].there} ELSE {}

\* a removal may stop halfway
RemoveSource ==
    /\ scan.at = "remove" /\ NextEntry
    /\ \E done \in SUBSET Removed :
          /\ IF done = Removed THEN UNCHANGED faults ELSE Fault
          /\ files' = [p \in Plain \cup Inside |-> IF p \in done THEN Gone ELSE files[p]]
          /\ dir' = (dir /\ ~(policy = "store" /\ scan.e = TheDir /\ done = Removed))
          /\ lost' = lost \cup {[data |-> files[p].data, hashed |-> <<p, files[p].data>> \in scan.obj] :
                                   p \in {p \in done : chunk[files[p].data].kind # "stored" /\ files[p].data \notin evicted}}
    /\ Stay /\ UNCHANGED <<side, chunk, named, torn, seen>>

-----------------------------------------------------------------------------
(* Requests: route_request, then the body.                                  *)

AskStep == UNCHANGED <<tree, side, chunk, named, scan, history>>

\* the sidecar is beside the file, or beside the directory around it
RootOf(p) == IF p \in Inside THEN TheDir ELSE p

\* walk_inner_path, serve_inner_path_final: what the object has at the path
Walked(obj, p) == {o[2] : o \in {x \in obj : x[1] = p}}

\* load_root_from_semantic: the content that the sidecar of the file or directory
\* names.  A torn sidecar is an error; without one the file is sent without an
\* id.  A request by id (load_root_from_store) is one that has read a sidecar
\* long ago, and under an inner path the file is no substitute for it either.
AskPath(p) ==
    LET e == RootOf(p)
    IN  /\ ask = NoAsk /\ side[e].kind = "there"
        /\ \E c \in Walked(side[e].obj, p) :
              ask' = [NoAsk EXCEPT !.at = "found", !.path = IF e = TheDir THEN "" ELSE p, !.data = c]
        /\ AskStep

\* Mutant of LinkHolds: the link is followed unseen.
LinkHoldsUnseen(r) == files[r.path].there

\* verify_local_link
LinkHolds(r) == QuickNow(r.path) = r.quick

\* build_chunk_response, open_chunk_reader: the store's own chunk file is opened;
\* a link is checked first; when the store has no row, a request by path gets
\* the file.  Anything else is an error.
CheckLink ==
    /\ ask.at = "found"
    /\ LET r == chunk[ask.data]
       IN  ask' = CASE r.kind = "stored" -> [ask EXCEPT !.at = "open", !.held = ask.data]
                    [] r.kind = "link" /\ LinkHolds(r) -> [ask EXCEPT !.at = "checked", !.file = r.path]
                    [] r.kind = "none" /\ ask.path # "" /\ files[ask.path].there -> [ask EXCEPT !.at = "checked", !.file = ask.path]
                    [] OTHER -> NoAsk
    /\ AskStep

\* open_local_link_reader after the check
OpenBody ==
    /\ ask.at = "checked"
    /\ ask' = IF files[ask.file].there THEN [ask EXCEPT !.at = "open", !.held = files[ask.file].data] ELSE NoAsk
    /\ AskStep

\* what can be sent from the open file
Bodies == IF ask.file = "" THEN {ask.held} ELSE ReadSince(ask.file, ask.held)

\* chunk_reader_to_channel
Stream ==
    /\ ask.at = "open" /\ ask' = NoAsk
    /\ AskStep

-----------------------------------------------------------------------------

DirInit ==
    /\ policy \in {"link", "store"}
    /\ files \in InitFiles /\ dir \in BOOLEAN /\ template = 0
    /\ (\E p \in Inside : files[p].there) => dir
    /\ side = [e \in Entries |-> NoSide] /\ chunk = [c \in Contents |-> NoRow] /\ named = {}
    /\ scan = Idle /\ ask = NoAsk
    /\ torn = {} /\ evicted = {} /\ dropped = {} /\ stirred = FALSE /\ raced = {}
    /\ lost = {} /\ edits = 0 /\ faults = 0

Scanner ==
    \/ StartPass \/ EndPass \/ Check \/ Hash \/ Register \/ PutObject
    \/ OpenSidecar \/ WriteSidecar \/ EntryFails \/ RemoveSource
    \/ \E e \in Entries : Look(e)
    \/ \E p \in Plain \cup Inside : OpenSource(p)

DirNext ==
    \/ Scanner \/ EditTemplate \/ Die \/ CheckLink \/ OpenBody \/ Stream
    \/ \E p \in Plain \cup Inside : Unlink(p) \/ AskPath(p) \/ \E c \in Writes, m \in 0..1 : Edit(p, c, m)
    \/ \E c \in Contents : EvictChunk(c)
    \/ \E o \in named : EvictObject(o)

DirFair == WF_dvars(Scanner)
DirSpec == DirInit /\ [][DirNext]_dvars /\ DirFair

-----------------------------------------------------------------------------
(* Properties.                                                              *)

\* as far as the quick hash of a link can tell
SentTrue(c, got) == got = c \/ (Quick(got) = Quick(c) /\ Quick(c) # NoQuick) \/ c \in torn

\* A body sent for an object id is that object's, asked for by id or by a path
\* whose sidecar was read some time ago: a link is checked again whenever it is
\* opened, so that only a file edited between this check and the end of the
\* sending goes out under a wrong id.  Left out besides: contents with equal
\* quick hashes, a file that changed between its hash and its link, and a file
\* sent by path for a chunk the store has evicted.
ServedTrue ==
    ask.at = "open" => \A got \in Bodies : SentTrue(ask.data, got) \/ ask.edited \/ ask.data \in evicted

\* A sidecar that can be read names an object the store has, with all its
\* chunks, whatever died or failed in between and in whichever order files
\* were edited: chunks, object and sidecar are written in this order.  Only
\* the collector takes them away again: nothing pins them, and the scanner
\* does not look whether the store still has what a sidecar names.
SidecarBacked ==
    \A e \in Entries : side[e].kind = "there" =>
        /\ [obj |-> side[e].obj, template |-> side[e].template] \in named \cup dropped
        /\ \A o \in side[e].obj : HaveChunk(o[2]) \/ o[2] \in evicted

\* What the scanner hashed it deletes only when the store holds it.
NothingLost == \A l \in lost : ~l.hashed

\* a file the scanner can process: the store cannot link short files
Processable(e) == policy = "link" => \A p \in FilesOf(e) :
    files[p].there => Quick(files[p].data) # NoQuick \/ HaveChunk(files[p].data)

\* the scanner would leave the sidecar as it is
Fresh(e) ==
    /\ side[e].kind = "there" /\ side[e].template = template
    /\ IF e # TheDir /\ side[e].quick # NoQuick THEN side[e].quick = QuickNow(e) ELSE side[e].stat = Stat(e)

\* the object a sidecar names is the source's, as far as quick hash or size tell
Alike(e) ==
    /\ {o[1] : o \in side[e].obj} = {p \in FilesOf(e) : files[p].there}
    /\ \A o \in side[e].obj :
          /\ Bytes(o[2]) = Bytes(files[o[1]].data)
          /\ e # TheDir => Quick(o[2]) = Quick(files[o[1]].data)

\* When users leave the tree alone the scanner brings every sidecar up to date,
\* after crashes, failed calls, torn sidecars and template edits too, and the
\* object it names is the one of the source.  Left out is the object of a
\* source that was edited while the scanner had it in hand: its sidecar may
\* pair the quick hash of one content with the object of another.
Settles == <>[](\A e \in Entries : Present(e) /\ Processable(e) => Fresh(e) /\ (Alike(e) \/ e \in raced))

\* What the scanner published is in the store, and what it removed too.
SourcesKept == SidecarBacked /\ NothingLost
=============================================================================
