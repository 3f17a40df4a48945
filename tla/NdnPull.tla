------------------------------- MODULE NdnPull -------------------------------
(***************************************************************************)
(* CyfsNdnClient: objects and files pulled from a peer into a named store,  *)
(* a local file, or a local file the store links to.  The peer publishes a  *)
(* file at a path, may publish another one at any time, and its answers may *)
(* mix headers of old and new publications; requests fail and bodies arrive *)
(* damaged.  A chunk is one unit of a local file.                           *)
(***************************************************************************)
EXTENDS Naturals, Sequences, FiniteSets

CONSTANTS Files,          \* file objects the peer publishes
          Content(_),     \* the chunk or chunk list of a file
          Members(_),     \* the chunks of a list; <<c>> for a chunk c
          Lists,          \* chunk lists
          MaxPulls,       \* bound on pulls
          MaxMishaps      \* bound on failures, damaged bodies and new publications

Nothing == "nothing"
Damaged == "damaged"
Raw == "raw"            \* the bytes of a list's chunks, where the list itself is wanted
Chunks == UNION {{Members(Content(f))[i] : i \in DOMAIN Members(Content(f))} : f \in Files}

\* object ids carry their kind, and none is a marker; a content is a list or a chunk
ASSUME PullAssumption ==
    /\ MaxPulls \in Nat /\ MaxMishaps \in Nat
    /\ {Nothing, Damaged, Raw, "error", "path"} \cap (Files \cup Lists \cup Chunks) = {}
    /\ Files \cap Lists = {} /\ (Files \cup Lists) \cap Chunks = {}
    /\ \A l \in Lists : Members(l) \in Seq(Chunks)
    /\ \A f \in Files : Content(f) \in Lists \/ Members(Content(f)) = <<Content(f)>>

VARIABLES bound,     \* the file published at the path: target of its signed path object
          older,     \* files published there before
          job,       \* the pull that runs
          kept,      \* objects and chunk files in the named store
          linked,    \* [Chunks -> unit]: where the store's row of a chunk links to; 0 when it is no link
          disk,      \* units of the local file
          pulls, mishaps

nvars == <<bound, older, job, kept, linked, disk, pulls, mishaps>>

NoJob == [stage |-> "idle", mode |-> Nothing, mgr |-> FALSE, ranged |-> FALSE, url |-> Nothing, inner |-> FALSE,
          signed |-> Nothing, chained |-> FALSE, file |-> Nothing, want |-> <<>>, i |-> 0, links |-> <<>>,
          had |-> {}, obj |-> Nothing]

Mishap == mishaps < MaxMishaps /\ mishaps' = mishaps + 1
Calm == UNCHANGED mishaps

-----------------------------------------------------------------------------
(* The peer.                                                                *)

Publish(f) ==
    /\ Mishap
    /\ f # bound
    /\ bound' = f /\ older' = older \cup {bound}
    /\ UNCHANGED <<job, kept, linked, disk, pulls>>

\* the headers of an answer: the signed target of the path, the unsigned object
\* id and the inlined parents, each of the publication of today or of an older
\* one.  A server answers with the object asked for, or (NdnDirServer) with the
\* content of the file and the file itself as parent, inner path or not.
Answers(url, inner) ==
    LET named == IF url = "path" THEN {bound} \cup older ELSE {url}
        signed == IF url = "path" THEN named ELSE {Nothing}
        contents == {Content(f) : f \in named}
    IN  [path : signed, hdr : {Nothing} \cup (IF inner THEN contents ELSE named), parents : {<<>>}]
        \cup [path : signed, hdr : contents, parents : {<<f>> : f \in named}]

-----------------------------------------------------------------------------
(* What an answer is about.                                                 *)

\* Mutant of EffectiveId: the unsigned header comes first.
EffectiveIdHeader(a, known, url, inner) ==
    IF a.hdr # Nothing THEN a.hdr ELSE IF url \in Files THEN url ELSE "error"

\* effective_obj_id; "error" also stands for an answer without any id
EffectiveId(a, known, url, inner) ==
    CASE known # Nothing -> known
      [] known = Nothing /\ a.path # Nothing /\ ~inner /\ a.parents = <<>> ->
            IF a.hdr \in {Nothing, a.path} THEN a.path ELSE "error"
      [] OTHER -> IF a.hdr # Nothing THEN a.hdr ELSE IF url \in Files THEN url ELSE "error"

\* verify_inner_path_chain: under an inner path the inlined parents lead from
\* the signed target to the object id
ChainHolds(a, inner) ==
    inner /\ a.parents # <<>> => a.path \in {Nothing, a.parents[1]} /\ a.hdr \in {Nothing, Content(a.parents[1])}

\* describe_from_inner_path_chain: the inlined file, when its content is a chunk;
\* it is compared neither with the signed target nor with the object id
Inlined(a) ==
    IF a.parents # <<>> /\ Content(a.parents[Len(a.parents)]) \notin Lists THEN a.parents[Len(a.parents)] ELSE Nothing

-----------------------------------------------------------------------------
(* Pulls.                                                                   *)

Fail == job' = [job EXCEPT !.stage = "failed"]
Rest == UNCHANGED <<bound, older, pulls>>

\* resolve_target_store_mgr
NeedsMgr(mode) == mode \in {"store", "link"}

\* local_file_path, open_local_writer_if_needed
WritesFile(mode) == mode \in {"file", "link"}

\* send, pull
Begin(mode, mgr, ranged, url, inner) ==
    /\ job.stage = "idle"
    /\ pulls < MaxPulls /\ pulls' = pulls + 1
    /\ job' = [NoJob EXCEPT !.stage = IF NeedsMgr(mode) /\ ~mgr THEN "failed" ELSE "asked",
                            !.mode = mode, !.mgr = mgr, !.ranged = ranged, !.url = url, !.inner = inner]
    /\ Calm /\ UNCHANGED <<bound, older, kept, linked, disk>>

\* the first answer: its headers are checked and tell what the body is
\* (from_response, describe_raw_pull)
Meta ==
    /\ job.stage = "asked"
    /\ \E a \in Answers(job.url, job.inner) :
          LET id == EffectiveId(a, Nothing, job.url, job.inner)
              f == Inlined(a)
              told == [job EXCEPT !.signed = a.path, !.chained = a.parents # <<>>, !.obj = id]
          IN  job' = CASE f # Nothing -> [told EXCEPT !.stage = "metadata", !.file = f, !.want = Members(Content(f))]
                       [] f = Nothing /\ id \in Chunks -> [told EXCEPT !.stage = "metadata", !.want = <<id>>]
                       [] f = Nothing /\ id \in Files \cup Lists /\ ChainHolds(a, job.inner) -> [told EXCEPT !.stage = "object"]
                       [] OTHER -> [told EXCEPT !.stage = "failed"]
    /\ Calm /\ Rest /\ UNCHANGED <<kept, linked, disk>>

\* into_verified_object, verify_chunk_bytes, copy_chunk: the body is what its id says
Verified(body) == body \notin {Damaged, Raw}

\* NdnDirServer answers with the chunks of a list to a path of a file or to the
\* list's id, and with the list itself under an inner path
ObjectBodies ==
    IF job.stage = "list" THEN {job.obj, Raw, Damaged} ELSE IF job.chained /\ ~job.inner THEN {Raw} ELSE {job.obj, Damaged}

\* into_verified_object, then pull_file_object up to the content, or the list itself;
\* the body under an inner path is the content, not the file
Object ==
    /\ job.stage \in {"object", "list"}
    /\ \E body \in ObjectBodies :
          /\ IF body = Damaged THEN Mishap ELSE Calm
          /\ CASE ~Verified(body) \/ (job.inner /\ job.obj \in Files) -> Fail
               [] Verified(body) /\ job.obj \in Lists ->
                     job' = [job EXCEPT !.stage = "listed", !.ranged = FALSE, !.want = Members(job.obj)]
               [] Verified(body) /\ job.obj \in Files /\ ~job.inner /\ Content(job.obj) \in Lists ->
                     job' = [job EXCEPT !.stage = "list", !.file = job.obj, !.obj = Content(job.obj)]
               [] OTHER ->
                     job' = [job EXCEPT !.stage = "metadata", !.file = job.obj, !.want = Members(Content(job.obj)),
                                        !.obj = Content(job.obj), !.ranged = FALSE]
    /\ Rest /\ UNCHANGED <<kept, linked, disk>>

\* pull_raw_chunk: the file object is stored first; a range cannot be stored
Metadata ==
    /\ job.stage = "metadata"
    /\ kept' = IF job.mgr /\ job.file # Nothing THEN kept \cup {job.file} ELSE kept
    /\ job' = [job EXCEPT !.stage = IF job.mode = "store" /\ job.ranged THEN "failed" ELSE "chunk"]
    /\ Calm /\ Rest /\ UNCHANGED <<linked, disk>>

\* Mutant of Overwritten: the writer appends.
OverwrittenAppends(at, unit) == Append(disk, unit)

\* open_local_writer: from the start of the file, which is not truncated
Overwritten(at, unit) == [k \in 1 .. (IF Len(disk) > at THEN Len(disk) ELSE at) |-> IF k = at THEN unit ELSE disk[k]]

\* add_chunk_by_link_to_local_file: a chunk has one row, which the link replaces
LinkRow(c, unit) == [linked EXCEPT ![c] = unit]

\* put_chunk_by_reader: a chunk file that is there already is left alone, and its row too
StoredRow(c) == IF c \in kept THEN linked ELSE [linked EXCEPT ![c] = 0]

\* pull_raw_chunk: the store verifies what it is given; the local file is
\* written before the hash is known, and a range is not verified
RawChunk ==
    /\ job.stage = "chunk"
    /\ \E body \in {job.want[1], Damaged} :
          LET good == Verified(body) \/ job.ranged
          IN  /\ IF body = Damaged THEN Mishap ELSE Calm
              /\ disk' = IF WritesFile(job.mode) THEN Overwritten(1, body) ELSE disk
              /\ kept' = IF job.mode = "store" /\ good THEN kept \cup {body} ELSE kept
              /\ linked' = CASE job.mode = "link" /\ good /\ ~job.ranged -> LinkRow(job.want[1], 1)
                             [] job.mode = "store" /\ good -> StoredRow(job.want[1])
                             [] OTHER -> linked
              /\ job' = [job EXCEPT !.stage = IF good THEN "report" ELSE "failed", !.had = {job.want[1]} \cap kept]
    /\ Rest

-----------------------------------------------------------------------------
(* Chunk lists.                                                             *)

\* pull_chunk_list_by_object: the list is stored first
Listed ==
    /\ job.stage = "listed"
    /\ kept' = IF job.mgr THEN kept \cup {job.obj} ELSE kept
    /\ job' = [job EXCEPT !.stage = "members", !.i = 1]
    /\ Calm /\ Rest /\ UNCHANGED <<linked, disk>>

\* one chunk of the list: fetched whole, verified, written, stored
Member ==
    /\ job.stage = "members" /\ job.i <= Len(job.want)
    /\ \E body \in {job.want[job.i], Damaged} :
          IF ~Verified(body) THEN Mishap /\ Fail /\ UNCHANGED <<kept, linked, disk>>
          ELSE /\ Calm
               /\ disk' = IF WritesFile(job.mode) THEN Overwritten(job.i, body) ELSE disk
               /\ kept' = IF job.mode = "store" THEN kept \cup {body} ELSE kept
               /\ linked' = IF job.mode = "store" THEN StoredRow(body) ELSE linked
               /\ job' = [job EXCEPT !.i = @ + 1, !.had = @ \cup ({body} \cap kept),
                            !.links = IF job.mode = "link" THEN Append(@, <<body, job.i>>) ELSE @]
    /\ Rest

\* the file is flushed
Flush ==
    /\ job.stage = "members" /\ job.i > Len(job.want)
    /\ job' = [job EXCEPT !.stage = "links", !.i = 1]
    /\ Calm /\ Rest /\ UNCHANGED <<kept, linked, disk>>

\* finalize_local_links: one chunk after the other
Link ==
    /\ job.stage = "links" /\ job.i <= Len(job.links)
    /\ linked' = LinkRow(job.links[job.i][1], job.links[job.i][2])
    /\ job' = [job EXCEPT !.i = @ + 1]
    /\ Calm /\ Rest /\ UNCHANGED <<kept, disk>>

AllLinked ==
    /\ job.stage = "links" /\ job.i > Len(job.links)
    /\ job' = [job EXCEPT !.stage = "report"]
    /\ Calm /\ Rest /\ UNCHANGED <<kept, linked, disk>>

\* pull_file_object after the chunks of a list
Last == IF job.mgr /\ job.file # Nothing THEN kept \cup {job.file} ELSE kept

Report ==
    /\ job.stage = "report"
    /\ kept' = Last
    /\ job' = [job EXCEPT !.stage = "ok"]
    /\ Calm /\ Rest /\ UNCHANGED <<linked, disk>>

-----------------------------------------------------------------------------
\* a request fails, the callback breaks off, the store refuses
Stop ==
    /\ job.stage \notin {"idle", "ok", "failed"}
    /\ Mishap /\ Fail
    /\ Rest /\ UNCHANGED <<kept, linked, disk>>

\* the application looks at the result, and may pull again
Over ==
    /\ job.stage \in {"ok", "failed"}
    /\ job' = NoJob
    /\ Calm /\ Rest /\ UNCHANGED <<kept, linked, disk>>

PullInit ==
    /\ bound \in Files /\ older = {}
    /\ job = NoJob /\ kept = {} /\ linked = [c \in Chunks |-> 0] /\ disk = <<>>
    /\ pulls = 0 /\ mishaps = 0

PullStep == Meta \/ Object \/ Metadata \/ RawChunk \/ Listed \/ Member \/ Flush \/ Link \/ AllLinked \/ Report \/ Over

PullNext ==
    \/ \E f \in Files : Publish(f)
    \/ \E mode \in {"store", "file", "link", "none"}, mgr, ranged, inner \in BOOLEAN, url \in Files \cup {"path"} :
          Begin(mode, mgr, ranged, url, inner)
    \/ PullStep \/ Stop

PullSpec == PullInit /\ [][PullNext]_nvars

-----------------------------------------------------------------------------
Pulled == job.stage = "ok"

\* A pull that ends well left the file's chunks, in order and undamaged, at
\* the start of the local file (copy_chunk, pull_chunk_list_by_object).
FileExact ==
    Pulled /\ WritesFile(job.mode) /\ ~job.ranged =>
        Len(disk) >= Len(job.want) /\ SubSeq(disk, 1, Len(job.want)) = job.want

\* A pull into the store that ends well leaves nothing of the file missing
\* there, whatever earlier pulls left behind (pull_file_object), and the store
\* reads its own chunk files, not the local file of an earlier pull; left out
\* is a chunk file the store had already, whose row put_chunk_by_reader leaves
\* as it is.
StoreComplete ==
    Pulled /\ job.mode = "store" =>
        /\ \A k \in DOMAIN job.want : job.want[k] \in kept /\ (linked[job.want[k]] = 0 \/ job.want[k] \in job.had)
        /\ job.file # Nothing => job.file \in kept /\ (Content(job.file) \in Lists => Content(job.file) \in kept)

\* Damaged bytes never reach the store (verify_chunk_bytes, put_chunk).
NothingDamaged == Damaged \notin kept

\* In the pull that makes them, links name units that hold just that chunk, a
\* chunk that occurs twice too (finalize_local_links).
LinksTrue ==
    Pulled /\ job.mode = "link" /\ ~job.ranged =>
        \A k \in DOMAIN job.want : linked[job.want[k]] \in DOMAIN disk /\ disk[linked[job.want[k]]] = job.want[k]

\* A pull from a path that ends well is of the file whose signed target came
\* with the answer, however stale the unsigned object id beside it, and a list
\* under an inner path is of that file (effective_obj_id,
\* verify_inner_path_chain).  Left out is an answer that inlines a file of one
\* chunk: the client takes that file and never compares it with the target.
SignedWins ==
    Pulled /\ job.url = "path" =>
        /\ ~job.inner /\ ~job.chained => job.file = job.signed
        /\ job.chained /\ job.file = Nothing /\ job.obj \in Lists => job.obj = Content(job.signed)

\* A pull that ends well left what was asked for, in the file, in the store
\* and in the links, and no pull stores damaged bytes.
PulledExact == FileExact /\ StoreComplete /\ NothingDamaged /\ LinksTrue
=============================================================================
