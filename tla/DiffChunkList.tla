---------------------------- MODULE DiffChunkList ----------------------------
(***************************************************************************)
(* A file being written as a base chunk list and a diff file: the copy-on-  *)
(* write of DiffChunkListWriter, what its close leaves on disk, reopening   *)
(* from that state, the merged chunk list, and readers over it.             *)
(*                                                                         *)
(* Bytes of the base are numbered, every write has its own byte value, and  *)
(* 0 is the fill of a resized chunk.  ref is the same file as a flat        *)
(* sequence of bytes, the reference all of this is compared with.           *)
(***************************************************************************)
EXTENDS ChunkListReader

CONSTANTS Bases,      \* base chunk lists
          Fixed,      \* values of fixed_chunk_size, 0 for none
          MaxWrites,  \* bound on writes and seeks of the writer
          MaxLen,     \* longest write
          MaxPolls    \* bound on the reader's calls

ASSUME DiffAssumption == MaxWrites \in Nat /\ MaxLen \in Nat /\ MaxPolls \in Nat

VARIABLES base,     \* contents of the base chunks
          lost,     \* base chunks the store cannot open
          opt,      \* fixed_chunk_size and append_merge_last_chunk
          w,        \* the writer
          file,     \* the diff file
          saved,    \* the writer state of the last close, or the final diff chunk list
          rd,       \* a reader of the saved state, and the file it should see
          ref,      \* reference: the bytes of the file
          hist,     \* history: the reference at the last close, and what went wrong
          count     \* operations so far

dvars == <<base, lost, opt, w, file, saved, rd, ref, hist, count>>

NoDirty == [k \in {} |-> <<>>]
NewWriter(b) == [open |-> TRUE, sizes |-> Sizes(b), dirty |-> NoDirty, pos |-> 0, total |-> Total(Sizes(b))]
NoState == [kind |-> "none", indices |-> <<>>, diff |-> <<>>, sizes |-> <<>>, pos |-> 0, total |-> 0]
Resize(s, n) == [k \in 1 .. n |-> IF k <= Len(s) THEN s[k] ELSE 0]

-----------------------------------------------------------------------------
(* The writer.                                                              *)

PreferredSize(remaining) ==
    LET n == Len(base)
        largest == Max({0} \cup {Len(base[k]) : k \in 1 .. n - 1})
    IN  IF opt.fixed > 0 THEN opt.fixed
        ELSE IF n > 1 /\ largest > 0 THEN largest
        ELSE IF n > 0 /\ Len(base[n]) > 0 THEN Len(base[n])
        ELSE remaining

\* the last chunk grows up to the preferred size, or a new chunk is added
ExtendForAppend(s, remaining) ==
    LET n == Len(s.sizes)
        want == PreferredSize(remaining)
        grow == MinOf(want - s.sizes[n], remaining)
        added == MinOf(remaining, want)
    IN  IF n > 0 /\ opt.merge /\ s.sizes[n] < want
        THEN [s EXCEPT !.sizes[n] = @ + grow, !.total = @ + grow,
                       !.dirty = IF n \in DOMAIN @ THEN [@ EXCEPT ![n] = Resize(@, s.sizes[n] + grow)] ELSE @]
        ELSE [s EXCEPT !.sizes = Append(@, added), !.total = @ + added]

\* Mutant of EnsureDirty: a fresh dirty chunk starts as zeros.
EnsureDirtyBlank(s, k) ==
    LET now == IF k \in DOMAIN s.dirty THEN s.dirty[k] ELSE <<>>
    IN  [s EXCEPT !.dirty = [j \in DOMAIN @ \cup {k} |-> IF j = k THEN Resize(now, s.sizes[k]) ELSE @[j]]]

\* ensure_dirty_chunk: copy on write of a base chunk, cut or filled to its size
EnsureDirty(s, k) ==
    LET now == CASE k \in DOMAIN s.dirty -> s.dirty[k]
                 [] k \notin DOMAIN s.dirty /\ k <= Len(base) -> base[k]
                 [] OTHER -> <<>>
    IN  [s EXCEPT !.dirty = [j \in DOMAIN @ \cup {k} |-> IF j = k THEN Resize(now, s.sizes[k]) ELSE @[j]]]

Unreadable(s, k) == k \notin DOMAIN s.dirty /\ k \in lost

\* one turn of the loop in write; left is what is still to be written
WriteTurn(s, left, byte) ==
    LET ext == IF s.pos = s.total THEN ExtendForAppend(s, left) ELSE s
        at == Locate(ext.sizes, ext.pos)
        len == MinOf(ext.sizes[at[1]] - at[2], left)
        own == EnsureDirty(ext, at[1])
        data == [k \in 1 .. Len(own.dirty[at[1]]) |->
                    IF k > at[2] /\ k <= at[2] + len THEN byte ELSE own.dirty[at[1]][k]]
    IN  IF Unreadable(ext, at[1]) THEN [s |-> ext, left |-> left, ok |-> FALSE]
        ELSE [s |-> [own EXCEPT !.dirty[at[1]] = data, !.pos = @ + len], left |-> left - len, ok |-> TRUE]

Written(s, n, byte) ==
    LET turn[k \in 0 .. n] ==
            IF k = 0 THEN [s |-> s, left |-> n, ok |-> TRUE]
            ELSE LET p == turn[k - 1] IN IF p.left = 0 \/ ~p.ok THEN p ELSE WriteTurn(p.s, p.left, byte)
    IN  turn[n]

\* what the writer holds: its dirty chunks over the base
Merged(s) == [k \in 1 .. Len(s.sizes) |-> IF k \in DOMAIN s.dirty THEN s.dirty[k] ELSE base[k]]
Content(chunks) == FoldLeft(LAMBDA a, b : a \o b, <<>>, chunks)

Step == count.w < MaxWrites /\ count' = [count EXCEPT !.w = @ + 1]

WSeek(whence, d) ==
    LET t == SeekTarget(whence, d, w.pos, w.total)
    IN  /\ w.open /\ Step
        /\ t # -1 /\ w' = [w EXCEPT !.pos = t]
        /\ UNCHANGED <<base, lost, opt, file, saved, rd, ref, hist>>

\* write; a base chunk that cannot be read ends it half way
WWrite(n) ==
    LET byte == 100 + count.w
        out == Written(w, n, byte)
        done == n - out.left
        len == Len(ref)
    IN  /\ w.open /\ Step
        /\ w' = out.s
        /\ ref' = [k \in 1 .. (IF w.pos + done > len THEN w.pos + done ELSE len) |->
                      IF k > w.pos /\ k <= w.pos + done THEN byte ELSE Resize(ref, k)[k]]
        /\ hist' = [hist EXCEPT !.cut = @ \/ ~out.ok]
        /\ UNCHANGED <<base, lost, opt, file, saved, rd>>

DirtyOrder(s) == SelectSeq([k \in 1 .. Len(s.sizes) |-> k], LAMBDA k : k \in DOMAIN s.dirty)

DiffBytes(s) == Content([k \in 1 .. Len(DirtyOrder(s)) |-> s.dirty[DirtyOrder(s)[k]]])

StateOf(s) ==
    [kind |-> "state", indices |-> DirtyOrder(s), sizes |-> s.sizes, pos |-> s.pos, total |-> s.total,
     diff |-> [k \in 1 .. Len(DirtyOrder(s)) |-> Len(s.dirty[DirtyOrder(s)[k]])]]

\* persist_dirty_chunks_to_diff_file rejects a dirty chunk of the wrong length
Persistable(s) == \A k \in DOMAIN s.dirty : k <= Len(s.sizes) /\ Len(s.dirty[k]) = s.sizes[k]

\* close: the diff file is written anew, then the state
WClose ==
    /\ w.open /\ Step
    /\ Persistable(w)
    /\ file' = DiffBytes(w)
    /\ saved' = StateOf(w)
    /\ hist' = [hist EXCEPT !.saved = ref, !.torn = FALSE, !.grown = hist.cut]
    /\ rd' = [rd EXCEPT !.stale = TRUE]
    /\ UNCHANGED <<base, lost, opt, w, ref>>

\* finalize: the same diff file, a chunk list instead of the state file
WFinalize ==
    /\ w.open /\ Step
    /\ Persistable(w)
    /\ file' = DiffBytes(w)
    /\ saved' = [StateOf(w) EXCEPT !.kind = "list"]
    /\ hist' = [hist EXCEPT !.saved = ref, !.torn = FALSE, !.grown = hist.cut]
    /\ rd' = [rd EXCEPT !.stale = TRUE]
    /\ w' = [w EXCEPT !.open = FALSE]
    /\ UNCHANGED <<base, lost, opt, ref>>

\* the process stops inside close: the diff file is new, or cut short
WCrash ==
    /\ w.open /\ Step
    /\ Persistable(w)
    /\ \E n \in 0 .. Len(DiffBytes(w)) :
          /\ file' = SubSeq(DiffBytes(w), 1, n)
          /\ hist' = [hist EXCEPT !.torn = @ \/ n < Len(DiffBytes(w)), !.grown = hist.cut]
    /\ rd' = [rd EXCEPT !.stale = TRUE]
    /\ w' = [w EXCEPT !.open = FALSE]
    /\ UNCHANGED <<base, lost, opt, saved, ref>>

-----------------------------------------------------------------------------
(* From the saved state: writer, merged list, reader.                       *)

DiffOffset(st, j) == StartOf(st.diff, j)
DiffChunk(st, j) == SubSeq(file, DiffOffset(st, j) + 1, DiffOffset(st, j) + st.diff[j])

\* Mutant of StateAccepted: the length of the diff file is not compared.
StateAcceptedAnyLength(st) ==
    /\ st.kind = "state" /\ st.pos <= st.total /\ Total(st.sizes) = st.total
    /\ Len(file) >= Total(st.diff)

\* open_from_state and rebuild_merged_state_from_writer_state check the same
StateAccepted(st) ==
    /\ st.kind = "state" /\ st.pos <= st.total /\ Total(st.sizes) = st.total
    /\ Len(st.indices) = Len(st.diff)
    /\ Total(st.diff) = Len(file)
    /\ Cardinality({st.indices[j] : j \in DOMAIN st.indices}) = Len(st.indices)
    /\ \A j \in DOMAIN st.indices :
          st.indices[j] <= Len(st.sizes) /\ st.diff[j] = st.sizes[st.indices[j]]

Reopened(st) ==
    [open |-> TRUE, sizes |-> st.sizes, pos |-> st.pos, total |-> st.total,
     dirty |-> [k \in {st.indices[j] : j \in DOMAIN st.indices} |->
                   DiffChunk(st, CHOOSE j \in DOMAIN st.indices : st.indices[j] = k)]]

WReopen ==
    /\ ~w.open /\ Step
    /\ StateAccepted(saved)
    /\ w' = Reopened(saved)
    /\ ref' = Content(Merged(Reopened(saved)))
    /\ UNCHANGED <<base, lost, opt, file, saved, rd, hist>>

\* resolve_diff_chunk_sizes of a list that names no chunks and was given no
\* sizes: that of the base chunk, else the fixed size (0: none), and what is
\* left of the file for the last one
InferredSizes(st, fixed) ==
    LET n == Len(st.indices)
        guess == [j \in 1 .. n |-> IF st.indices[j] <= Len(base) THEN Len(base[st.indices[j]]) ELSE fixed]
    IN  [j \in 1 .. n |-> IF j < n THEN guess[j] ELSE Max({0, Len(file) - StartOf(guess, n)})]

\* without a fixed size an appended chunk before the last is Unsupported
Inferable(st, fixed) == fixed > 0 \/ \A j \in 1 .. Len(st.indices) - 1 : st.indices[j] <= Len(base)

\* the sizes a reader may go by: a saved state has them, and so have the ids of
\* a list finalized as named; otherwise the caller may pass the writer's fixed size
DiffSizes(st) ==
    {st.diff} \cup (IF st.kind = "state" THEN {}
                    ELSE {InferredSizes(st, f) : f \in {g \in {0, opt.fixed} : Inferable(st, g)}})

\* build_diff_entries and build_merged_chunks: base chunks, then each diff
\* entry in its place or behind the last; each chunk is in the base or the file
MergedSources(st, sizes) ==
    LET touched == {st.indices[j] : j \in DOMAIN st.indices}
        Entry(k) == CHOOSE j \in DOMAIN st.indices : st.indices[j] = k
    IN  [k \in 1 .. Max({Len(base)} \cup touched) |->
            IF k \in touched
            THEN [size |-> sizes[Entry(k)], at |-> StartOf(sizes, Entry(k)), base |-> 0]
            ELSE [size |-> Len(base[k]), at |-> -1, base |-> k]]

NoGap(st) == \A j \in DOMAIN st.indices : st.indices[j] <= Max({Len(base)} \cup {st.indices[i] : i \in 1 .. j - 1}) + 1

ReaderBytes(s) ==
    IF s.base > 0 THEN base[s.base] ELSE SubSeq(file, s.at + 1, MinOf(s.at + s.size, Len(file)))

Poll == count.r < MaxPolls /\ count' = [count EXCEPT !.r = @ + 1]

\* from_writer_state, with_options; the base's sizes are known, by its ids or
\* the store
ROpen ==
    /\ Poll /\ saved.kind # "none" /\ NoGap(saved)
    /\ \E sizes \in DiffSizes(saved) :
          LET src == MergedSources(saved, sizes)
          IN  /\ Total(sizes) = Len(file)
              /\ rd' = [r |-> OpenReader([k \in DOMAIN src |-> src[k].size], src, 0), stale |-> FALSE,
                         want |-> Content(Merged(Reopened(saved)))]
    /\ UNCHANGED <<base, lost, opt, w, file, saved, ref, hist>>

RSeek(whence, d) ==
    LET t == SeekTarget(whence, d, rd.r.pos, Total(rd.r.sizes))
    IN  /\ Poll /\ t # -1
        /\ rd' = [rd EXCEPT !.r = PollComplete(StartSeek(@, t))]
        /\ UNCHANGED <<base, lost, opt, w, file, saved, ref, hist>>

\* poll_read: through chunks that end, to one that has bytes or to the end
RLoad ==
    /\ Poll /\ rd.r.active = 0 /\ ~AtEnd(rd.r)
    /\ rd.r.src[rd.r.next].base \notin lost
    /\ rd' = [rd EXCEPT !.r = Loaded(@, ReaderBytes(rd.r.src[rd.r.next]))]
    /\ UNCHANGED <<base, lost, opt, w, file, saved, ref, hist>>

RRead ==
    /\ Poll /\ rd.r.active # 0
    /\ IF rd.r.cur = <<>> THEN rd' = [rd EXCEPT !.r = AfterEof(@)]
       ELSE \E n \in 1 .. Len(rd.r.cur) : rd' = [rd EXCEPT !.r = Delivered(@, n)]
    /\ UNCHANGED <<base, lost, opt, w, file, saved, ref, hist>>

-----------------------------------------------------------------------------
DiffInit ==
    /\ base \in Bases
    /\ lost \in {{}} \cup {{k} : k \in DOMAIN base}
    /\ opt \in [fixed : Fixed, merge : BOOLEAN]
    /\ w = NewWriter(base)
    /\ file = <<>> /\ saved = NoState
    /\ rd = [r |-> NoReader, stale |-> TRUE, want |-> <<>>]
    /\ ref = Content(base)
    /\ hist = [saved |-> <<>>, cut |-> FALSE, torn |-> FALSE, grown |-> FALSE]
    /\ count = [w |-> 0, r |-> 0]

Whences == {<<"start", 0>>, <<"start", 1>>, <<"current", -1>>, <<"end", 0>>, <<"end", 1>>}

DiffNext ==
    \/ \E s \in Whences : WSeek(s[1], s[2]) \/ RSeek(s[1], s[2])
    \/ \E n \in 1 .. MaxLen : WWrite(n)
    \/ WClose \/ WFinalize \/ WCrash \/ WReopen
    \/ ROpen \/ RLoad \/ RRead

DiffSpec == DiffInit /\ [][DiffNext]_dvars

-----------------------------------------------------------------------------
(* Properties.                                                              *)

\* The writer and the reader keep their shapes: positions within the file.
DiffTypeOK ==
    /\ w.pos \in 0 .. w.total /\ w.total = Total(w.sizes)
    /\ rd.r.pos \in 0 .. Total(rd.r.sizes)
    /\ DOMAIN w.dirty \subseteq 1 .. Len(w.sizes)

\* The dirty chunks over the base are the bytes a flat file would hold after
\* the same writes and seeks, whatever the chunk sizes, unless a write was
\* cut off because a base chunk could not be read (DiffChunkListWriter::write).
WriterExact == w.open /\ ~hist.cut => Content(Merged(w)) = ref

\* A list written with a fixed chunk size and merging appends can be opened by
\* that fixed size alone: the sizes resolve_fixed_chunk_sizes derives, those the
\* store reports and those the writer kept are the same (DiffChunkListOptions).
FixedSizesAgree ==
    LET uniform == \A k \in DOMAIN base : Len(base[k]) <= opt.fixed /\ (k < Len(base) => Len(base[k]) = opt.fixed)
        list == Merged(w)
    IN  w.open /\ ~hist.cut /\ opt.fixed > 0 /\ opt.merge /\ uniform /\ list # <<>> =>
            /\ ResolveSizes(list, Error, FALSE, {}, FALSE, opt.fixed, w.total) = w.sizes
            /\ ResolveSizes(list, Error, TRUE, DOMAIN list, FALSE, -1, 0) = w.sizes

\* A state that open_from_state accepts gives the bytes of the last close or
\* those being saved when the process stopped: the dirty chunks only grow, so
\* a diff file newer than its state never has the length the state expects
\* unless it fits.  A file cut short is not covered: it may fit by its length.
ReopenSafe ==
    StateAccepted(saved) /\ ~hist.torn /\ ~hist.grown =>
        Content(Merged(Reopened(saved))) \in {hist.saved, ref}

\* What a reader is about to deliver is the byte at its position of the file
\* that the writer's own sizes rebuild from the same diff file, through every
\* seek and chunk boundary, until the diff file is written again, and it ends
\* where that file ends: also when the sizes were guessed from the base and a
\* fixed size, which a grown last chunk of the base does not have, because the
\* chunks that follow it are behind it in the diff file too
\* (resolve_diff_chunk_sizes, DiffChunkListReader::poll_read).
ReaderExact ==
    ~rd.stale =>
        /\ rd.r.active # 0 /\ rd.r.cur # <<>> => Head(rd.r.cur) = rd.want[rd.r.pos + 1]
        /\ rd.r.active # 0 => rd.r.pos + Len(rd.r.cur) = StartOf(rd.r.sizes, rd.r.active + 1)
        /\ rd.r.active = 0 /\ AtEnd(rd.r) => rd.r.pos = Len(rd.want)

\* The writer over chunks is a flat file, and its chunk sizes are those a
\* reader derives from the list.
WriterSound == DiffTypeOK /\ WriterExact /\ FixedSizesAgree
=============================================================================
