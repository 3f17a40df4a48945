--------------------------- MODULE ChunkListReader ---------------------------
(***************************************************************************)
(* Reading a list of chunks as one stream: how the sizes of the chunks are  *)
(* found, how a position is located, and the state of a reader between the  *)
(* polls of AsyncRead and AsyncSeek.  ChunkListReader and                   *)
(* DiffChunkListReader share all of it.  A chunk is the sequence of its      *)
(* bytes; an unknown size is -1 and an error is the sequence <<"error">>.   *)
(***************************************************************************)
EXTENDS Integers, Sequences, FiniteSets, SequencesExt, FiniteSetsExt

Error == <<"error">>
MinOf(a, b) == IF a < b THEN a ELSE b
Sizes(chunks) == [k \in DOMAIN chunks |-> Len(chunks[k])]
Total(sizes) == FoldLeft(LAMBDA a, b : a + b, 0, sizes)
StartOf(sizes, k) == Total(SubSeq(sizes, 1, k - 1))

\* resolve_fixed_chunk_sizes
FixedSizes(n, total, fixed) ==
    LET before == [k \in 1 .. n |-> MinOf(total, fixed * (k - 1))]
    IN  IF n = 0 THEN <<>>
        ELSE IF fixed = 0 THEN Error
        ELSE IF total = 0 THEN [k \in 1 .. n |-> fixed]
        ELSE IF \E k \in 1 .. n : before[k] = total THEN Error
        ELSE [k \in 1 .. n |-> IF k = n THEN total - before[k] ELSE MinOf(fixed, total - before[k])]

\* resolve_chunk_sizes: explicit sizes, then the store's, then those in the ids,
\* then fixed ones; `have` are the chunks the local store can open
ResolveSizes(chunks, explicit, local, have, mixed, fixed, total) ==
    LET n == Len(chunks)
        all == \A k \in 1 .. n : k \in have
    IN  CASE explicit # Error ->
                 IF Len(explicit) # n \/ (local /\ (~all \/ explicit # Sizes(chunks)))
                 THEN Error ELSE explicit
          [] explicit = Error /\ local -> IF all THEN Sizes(chunks) ELSE Error
          [] explicit = Error /\ ~local /\ mixed -> Sizes(chunks)
          [] explicit = Error /\ ~local /\ ~mixed -> IF fixed = -1 THEN Error ELSE FixedSizes(n, total, fixed)

\* locate_position: binary search for the chunk, and the offset in it
Locate(sizes, pos) ==
    LET n == Len(sizes)
        search[l \in 1 .. n + 1, r \in 1 .. n + 1] ==
            IF l >= r THEN l
            ELSE LET mid == l + (r - l) \div 2
                 IN  IF StartOf(sizes, mid) + sizes[mid] <= pos THEN search[mid + 1, r] ELSE search[l, mid]
        at == search[1, n + 1]
    IN  IF pos >= Total(sizes) \/ n = 0 THEN <<n + 1, 0>> ELSE <<at, pos - StartOf(sizes, at)>>

\* calc_seek_target, or -1
SeekTarget(whence, d, pos, total) ==
    LET t == CASE whence = "start" -> d [] whence = "current" -> pos + d [] whence = "end" -> total + d
    IN  IF t < 0 \/ t > total THEN -1 ELSE t

-----------------------------------------------------------------------------
(* A reader: the chunk and offset it would load next, the chunk it has open *)
(* (0: none) with what that chunk still holds, and a seek not yet completed.*)

NoReader == [sizes |-> <<>>, src |-> <<>>, pos |-> 0, next |-> 1, off |-> 0, active |-> 0,
             cur |-> <<>>, seek |-> -1]

\* apply_seek_target
SeekApplied(r, pos) ==
    [r EXCEPT !.pos = pos, !.next = Locate(r.sizes, pos)[1], !.off = Locate(r.sizes, pos)[2],
              !.active = 0, !.cur = <<>>, !.seek = -1]

\* with_options; src says where each chunk is read from
OpenReader(sizes, src, pos) == SeekApplied([NoReader EXCEPT !.sizes = sizes, !.src = src], pos)

StartSeek(r, target) == [r EXCEPT !.seek = target]
PollComplete(r) == IF r.seek = -1 THEN r ELSE SeekApplied(r, r.seek)

\* advance_after_chunk_eof
AfterEof(r) == [r EXCEPT !.next = r.active + 1, !.off = 0, !.active = 0, !.cur = <<>>]

AtEnd(r) == r.pos >= Total(r.sizes) \/ r.next > Len(r.sizes)

\* start_loading_current_chunk and the poll that finds it loaded
Loaded(r, bytes) ==
    [r EXCEPT !.active = r.next, !.cur = SubSeq(bytes, r.off + 1, Len(bytes))]

\* Mutant of Delivered: the position is left to the caller.
DeliveredNoPosition(r, n) == [r EXCEPT !.cur = SubSeq(@, n + 1, Len(@))]

\* poll_read finds n bytes in the open chunk
Delivered(r, n) == [r EXCEPT !.pos = @ + n, !.cur = SubSeq(@, n + 1, Len(@))]
=============================================================================
