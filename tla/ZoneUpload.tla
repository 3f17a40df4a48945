------------------------------ MODULE ZoneUpload ------------------------------
(***************************************************************************)
(* The upload protocol of the zone gateway: sessions in memory, one         *)
(* temporary file each, a byte count per application, and PATCH handlers    *)
(* that take the lock of the upload state three times and wait for their    *)
(* body in between.                                                         *)
(*                                                                         *)
(* One application is modelled: no state is shared between two.  A client   *)
(* sends the bytes of its chunk, but may send any part of it at any time,   *)
(* twice, with an offset that is out of date, or more than there is.  The   *)
(* store's chunks are removed by calls of the same gateway and of others.   *)
(***************************************************************************)
EXTENDS Naturals, Sequences, FiniteSets

CONSTANTS Uploads,      \* chunks uploaded: records path, file, data, named
          Quota,        \* quota_bytes
          Patches,      \* PATCH requests that may be in flight
          MaxSessions,  \* bound on sessions created
          MaxPatches,   \* bound on PATCH requests sent
          MaxFaults     \* bound on failed file or store operations

ASSUME UploadAssumption ==
    /\ Quota \in Nat /\ MaxSessions \in Nat /\ MaxPatches \in Nat /\ MaxFaults \in Nat
    /\ \A u \in Uploads : u.data \in Seq(Nat) /\ u.named \in BOOLEAN

VARIABLES sessions,  \* session id -> session
          keyIndex,  \* (path, file, index) -> session id
          usage,     \* bytes_in_use
          temp,      \* session id -> bytes in its temporary file
          older,     \* pairs of sessions, the updated_at of the first is less
          aged,      \* sessions not updated for longer than the TTL
          unclean,   \* sessions whose temporary file could not be removed, which is only logged
          chunks,    \* chunks in the store
          patch,     \* the PATCH handlers
          panicked,  \* a handler ended in unreachable!()
          cnt        \* counters of the bounds

uvars == <<sessions, keyIndex, usage, temp, older, aged, unclean, chunks, patch, panicked, cnt>>

Live == DOMAIN sessions
Active(s) == sessions[s].st \in {"pending", "uploading"}
Size(s) == Len(sessions[s].up.data)
Without(f, S) == [x \in DOMAIN f \ S |-> f[x]]
With(f, x, v) == [y \in DOMAIN f \cup {x} |-> IF y = x THEN v ELSE f[y]]
\* saturating_sub
Less(a, b) == IF a > b THEN a - b ELSE 0
\* the bytes the sessions S received, one by one, and their number
Received(f, S) == UNION {{s} \X (1 .. f[s].off) : s \in S}
Bytes(S) == Cardinality(Received(sessions, S))
NoPatch == [pc |-> "idle", sid |-> 0, off |-> 0, len |-> 0]
Among(S) == older \cap (S \X S)
Touch(s) == Among(Live \ {s}) \cup {<<r, s>> : r \in Live \ {s}}

\* a session of the application, by its key
Key(u) == [path |-> u.path, file |-> u.file]

\* Mutant of Drop: the keys stay.
DropKeepsKeys(S) ==
    /\ sessions' = Without(sessions, S) /\ temp' = Without(temp, S) /\ UNCHANGED unclean
    /\ older' = Among(Live \ S)
    /\ aged' = aged \ S
    /\ UNCHANGED keyIndex

\* failures the bound leaves
Spare == Less(MaxFaults, cnt.faults + Cardinality(unclean))

\* remove_temp_cache_file, remove_temp_cache_file_async: of the files, those of
\* the sessions S go; a file that cannot be removed stays and nobody is told
RemoveTemp(files, S) ==
    \E kept \in SUBSET (S \cap DOMAIN files) :
        /\ Cardinality(kept) <= Spare
        /\ temp' = Without(files, S \ kept)
        /\ unclean' = unclean \cup kept

\* sessions S leave the state with their keys and temporary files
Drop(S) ==
    /\ sessions' = Without(sessions, S)
    /\ keyIndex' = Without(keyIndex, {Key(sessions[s].up) : s \in S})
    /\ RemoveTemp(temp, S)
    /\ older' = Among(Live \ S)
    /\ aged' = aged \ S

-----------------------------------------------------------------------------
(* POST /ndm/v1/uploads.                                                    *)

\* invalidate_stale_sessions: unfinished uploads of the path for another file
Stale(u) == {s \in Live : Active(s) /\ sessions[s].up.path = u.path /\ sessions[s].up.file # u.file}

\* evict_lru_for_app: the longest unused sessions until `needed` bytes are free
Evicted(needed, gone) ==
    LET old == {s \in Live \ gone : Active(s)}
    IN  {s \in old : Bytes({r \in old : <<r, s>> \in older}) < needed}

\* torn: an append failed part of the way; lost: its chunk has been removed since
Session(u, st, off) ==
    [up |-> u, st |-> st, off |-> off, obj |-> IF st = "skipped" THEN u.data ELSE <<>>, torn |-> FALSE, lost |-> FALSE]

\* a session s beside those in base
Insert(u, base, s) ==
    LET id == cnt.made + 1
    IN  /\ sessions' = With(base, id, s)
        /\ keyIndex' = With(Without(keyIndex, {Key(sessions[x].up) : x \in Live \ DOMAIN base}), Key(u), id)
        /\ older' = Among(DOMAIN base) \cup {<<r, id>> : r \in DOMAIN base}
        /\ aged' = aged \cap DOMAIN base
        /\ cnt' = [cnt EXCEPT !.made = id]

\* a new upload with its temporary file; an empty chunk is complete at once,
\* stays unnamed, and its file goes again
Allocate(u, gone) ==
    LET base == Without(sessions, gone)
        files == With(temp, cnt.made + 1, <<>>)
    IN  IF u.data = <<>>
        THEN Insert(u, base, Session(u, "completed", 0)) /\ RemoveTemp(files, gone \cup {cnt.made + 1})
        ELSE Insert(u, base, Session(u, "pending", 0)) /\ RemoveTemp(files, gone)

Fault == Spare > 0 /\ cnt' = [cnt EXCEPT !.faults = @ + 1]

\* handle_create_upload
Create(u) ==
    LET stale == Stale(u)
        used == Less(usage, Bytes(stale))
        size == Len(u.data)
        out == IF used + size > Quota THEN Evicted(used + size - Quota, stale) ELSE {}
        free == Less(used, Bytes(out))
        gone == stale \cup out
    IN  /\ cnt.made < MaxSessions
        /\ \* the session there is, whatever its state
           \/ /\ Key(u) \in DOMAIN keyIndex /\ stale # {}
              /\ Drop(stale) /\ usage' = used
              /\ UNCHANGED cnt
           \* a chunk the store has needs no upload; have_chunk takes an error for a no
           \/ /\ Key(u) \notin DOMAIN keyIndex /\ u.named /\ u.data \in chunks
              /\ Insert(u, Without(sessions, stale), Session(u, "skipped", size))
              /\ RemoveTemp(temp, stale) /\ usage' = used
           \/ /\ Key(u) \notin DOMAIN keyIndex /\ free + size <= Quota
              /\ Allocate(u, gone) /\ usage' = free
           \* no room, or no temporary file: what was evicted stays evicted
           \/ /\ Key(u) \notin DOMAIN keyIndex
              /\ IF free + size > Quota THEN gone # {} /\ UNCHANGED cnt ELSE Fault
              /\ Drop(gone) /\ usage' = free
        /\ UNCHANGED <<chunks, patch, panicked>>

-----------------------------------------------------------------------------
(* PATCH /ndm/v1/uploads/{session_id}.                                      *)

End(p) == patch' = [patch EXCEPT ![p] = NoPatch]

Send(p, s, off, len) ==
    /\ patch[p].pc = "idle" /\ cnt.sent < MaxPatches
    /\ patch' = [patch EXCEPT ![p] = [pc |-> "sent", sid |-> s, off |-> off, len |-> len]]
    /\ cnt' = [cnt EXCEPT !.sent = @ + 1]
    /\ UNCHANGED <<sessions, keyIndex, usage, temp, older, aged, unclean, chunks, panicked>>

\* the first read lock: a finished session is answered at once
FirstLook(p) ==
    LET s == patch[p].sid
    IN  /\ patch[p].pc = "sent"
        /\ IF s \in Live /\ Active(s) THEN patch' = [patch EXCEPT ![p].pc = "looked"] ELSE End(p)
        /\ UNCHANGED <<sessions, keyIndex, usage, temp, older, aged, unclean, chunks, panicked, cnt>>

\* the second read lock: a session finished since then is unreachable!()
SecondLook(p) ==
    LET s == patch[p].sid
        ok == s \in Live /\ Active(s) /\ s \notin aged /\ patch[p].off = sessions[s].off
    IN  /\ patch[p].pc = "looked"
        /\ IF ok THEN patch' = [patch EXCEPT ![p].pc = "body"] ELSE End(p)
        /\ panicked' = (panicked \/ (s \in Live /\ ~Active(s)))
        /\ UNCHANGED <<sessions, keyIndex, usage, temp, older, aged, unclean, chunks, cnt>>

Body(p) == SubSeq(sessions[patch[p].sid].up.data, patch[p].off + 1, patch[p].off + patch[p].len)

\* Mutant of Fits: the offset is not compared again under the write lock.
FitsUnchecked(p) == patch[p].sid \in Live /\ sessions[patch[p].sid].off + patch[p].len <= Size(patch[p].sid)

\* under the write lock the session and the offset are looked at again, and the
\* body may not exceed the chunk
Fits(p) ==
    /\ patch[p].sid \in Live
    /\ patch[p].off = sessions[patch[p].sid].off
    /\ patch[p].off + patch[p].len <= Size(patch[p].sid)

Refused(p) ==
    /\ patch[p].pc = "body" /\ ~Fits(p) /\ End(p)
    /\ UNCHANGED <<sessions, keyIndex, usage, temp, older, aged, unclean, chunks, panicked, cnt>>

\* the append fails part of the way: the file may have grown, the offset has not
AppendFails(p) ==
    LET s == patch[p].sid
    IN  /\ patch[p].pc = "body" /\ Fits(p) /\ Fault /\ End(p)
        /\ \E j \in 0 .. patch[p].len :
              /\ temp' = [temp EXCEPT ![s] = @ \o SubSeq(Body(p), 1, j)]
              /\ sessions' = [sessions EXCEPT ![s].torn = @ \/ j > 0]
        /\ UNCHANGED <<keyIndex, usage, older, aged, unclean, chunks, panicked>>

Patched(s, len) == [sessions EXCEPT ![s].off = @ + len, ![s].st = "uploading"]

\* an append that leaves the chunk unfinished
AppendMore(p) ==
    LET s == patch[p].sid
    IN  /\ patch[p].pc = "body" /\ Fits(p) /\ End(p)
        /\ sessions[s].off + patch[p].len < Size(s)
        /\ sessions' = Patched(s, patch[p].len)
        /\ temp' = [temp EXCEPT ![s] = @ \o Body(p)]
        /\ older' = Touch(s) /\ aged' = aged \ {s}
        /\ usage' = usage + patch[p].len
        /\ UNCHANGED <<keyIndex, unclean, chunks, panicked, cnt>>

\* put_chunk_by_reader under the id given, or the id of the bytes
Stored(s, content) ==
    LET id == IF sessions[s].up.named THEN sessions[s].up.data ELSE content
    IN  id \in chunks \/ (content = id /\ Len(content) = Size(s))

\* the last append: the chunk goes to the store and the file away
AppendLast(p) ==
    LET s == patch[p].sid
        content == temp[s] \o Body(p)
        id == IF sessions[s].up.named THEN sessions[s].up.data ELSE content
    IN  /\ patch[p].pc = "body" /\ Fits(p) /\ End(p)
        /\ sessions[s].off + patch[p].len = Size(s) /\ Stored(s, content)
        /\ sessions' = [Patched(s, patch[p].len) EXCEPT ![s].st = "completed", ![s].obj = id]
        /\ RemoveTemp([temp EXCEPT ![s] = content], {s})
        /\ older' = Touch(s) /\ aged' = aged \ {s}
        /\ usage' = Less(usage, Size(s))
        /\ chunks' = chunks \cup {id}
        /\ UNCHANGED <<keyIndex, panicked, cnt>>

\* the last append, and the store does not take the chunk
PersistFails(p) ==
    LET s == patch[p].sid
        content == temp[s] \o Body(p)
    IN  /\ patch[p].pc = "body" /\ Fits(p) /\ End(p)
        /\ sessions[s].off + patch[p].len = Size(s)
        /\ IF Stored(s, content) THEN Fault ELSE UNCHANGED cnt
        /\ sessions' = Patched(s, patch[p].len)
        /\ temp' = [temp EXCEPT ![s] = content]
        /\ older' = Touch(s) /\ aged' = aged \ {s}
        /\ UNCHANGED <<keyIndex, usage, unclean, chunks, panicked>>

-----------------------------------------------------------------------------
(* Removals from the store, time, and a restart of the gateway.              *)

\* remove_chunk and forced_gc_until of this gateway, or anyone's: the sessions
\* that report the chunk stay as they are
RemoveStored(c) ==
    /\ c \in chunks /\ chunks' = chunks \ {c}
    /\ sessions' = [s \in Live |-> [sessions[s] EXCEPT !.lost = @ \/ (~Active(s) /\ sessions[s].obj = c)]]
    /\ UNCHANGED <<keyIndex, usage, temp, older, aged, unclean, patch, panicked, cnt>>

Age(s) ==
    /\ s \in Live /\ Active(s) /\ s \notin aged
    /\ aged' = aged \cup {s}
    /\ UNCHANGED <<sessions, keyIndex, usage, temp, older, unclean, chunks, patch, panicked, cnt>>

\* Mutant of Expire: only sessions without data expire.
ExpirePendingOnly ==
    LET S == {s \in aged : sessions[s].st = "pending"}
    IN  /\ S # {} /\ Drop(S)
        /\ usage' = Less(usage, Bytes(S))
        /\ UNCHANGED <<chunks, patch, panicked, cnt>>

\* expire_sessions, every GC_INTERVAL
Expire ==
    /\ aged # {} /\ Drop(aged)
    /\ usage' = Less(usage, Bytes(aged))
    /\ UNCHANGED <<chunks, patch, panicked, cnt>>

\* the upload state is lost, the temporary files are not
Restart ==
    /\ cnt.epoch = 0 /\ cnt.made > 0
    /\ sessions' = Without(sessions, Live) /\ keyIndex' = Without(keyIndex, DOMAIN keyIndex)
    /\ usage' = 0 /\ older' = {} /\ aged' = {}
    /\ patch' = [p \in Patches |-> NoPatch]
    /\ cnt' = [cnt EXCEPT !.epoch = cnt.made]
    /\ UNCHANGED <<temp, unclean, chunks, panicked>>

-----------------------------------------------------------------------------
UploadInit ==
    /\ sessions = [s \in {} |-> <<>>] /\ keyIndex = [k \in {} |-> 0] /\ temp = [s \in {} |-> <<>>]
    /\ usage = 0 /\ older = {} /\ aged = {} /\ unclean = {} /\ chunks = {}
    /\ patch = [p \in Patches |-> NoPatch] /\ panicked = FALSE
    /\ cnt = [made |-> 0, sent |-> 0, faults |-> 0, epoch |-> 0]

UploadNext ==
    \/ \E u \in Uploads : Create(u)
    \/ \E p \in Patches, s \in Live : \E off \in 0 .. Size(s), len \in 1 .. Size(s) : Send(p, s, off, len)
    \/ \E p \in Patches :
          \/ FirstLook(p) \/ SecondLook(p) \/ Refused(p)
          \/ AppendFails(p) \/ AppendMore(p) \/ AppendLast(p) \/ PersistFails(p)
    \/ \E c \in chunks : RemoveStored(c)
    \/ \E s \in Live : Age(s)
    \/ Expire \/ Restart

UploadSpec ==
    /\ UploadInit /\ [][UploadNext]_uvars
    /\ WF_uvars(\E s \in Live : Age(s)) /\ WF_uvars(Expire)

-----------------------------------------------------------------------------
(* Properties.                                                              *)

UploadTypeOK ==
    /\ \A s \in Live : sessions[s].off \in 0 .. Size(s)
    /\ aged \subseteq Live
    /\ older \subseteq Live \X Live
    /\ \A r, s \in Live : r # s => (<<r, s>> \in older) # (<<s, r>> \in older)
    /\ usage \in Nat

\* A client that asks for the upload of a chunk it already uploads is led to
\* its session: keys and live sessions are in one-to-one correspondence through
\* eviction, expiry and invalidation (UploadStateManager).
IndexExact ==
    /\ \A s \in Live : Key(sessions[s].up) \in DOMAIN keyIndex /\ keyIndex[Key(sessions[s].up)] = s
    /\ \A k \in DOMAIN keyIndex : keyIndex[k] \in Live

\* A chunk is reported complete only when the store has taken exactly the
\* client's bytes, whatever parts were sent twice, late, concurrently or half
\* written, and unless it was removed since the store has them.  The exception
\* is an upload without a name whose append failed part of the way and was
\* repeated: its file may have become another chunk of the store, which is then
\* what the store has (handle_patch_upload).
CompleteExact ==
    \A s \in Live : sessions[s].st \in {"completed", "skipped"} /\ Size(s) > 0 =>
        /\ sessions[s].up.named \/ ~sessions[s].torn => sessions[s].obj = sessions[s].up.data
        /\ ~sessions[s].lost => sessions[s].obj \in chunks

\* The application is never charged for bytes it does not hold, so its quota
\* cannot fill up for good (bytes_in_use).
UsageNotLeaked == usage <= Bytes({s \in Live : Active(s)})

\* A temporary file belongs to an unfinished session, which cannot be without
\* one, or it could not be removed, or is from before a restart
\* (remove_temp_cache_file).
NoOrphanTemp ==
    /\ \A s \in DOMAIN temp : s <= cnt.epoch \/ s \in unclean \/ (s \in Live /\ Active(s))
    /\ \A s \in Live : Active(s) => s \in DOMAIN temp

\* A session whose chunk the store refused, or whose file was half written,
\* cannot be finished by any PATCH; it is gone in the end and the client can
\* start over (expire_sessions).
StuckClears ==
    \A s \in 1 .. MaxSessions :
        (s \in Live /\ Active(s) /\ sessions[s].off = Size(s)) ~> (s \notin Live)

\* "completed/skipped sessions are handled before validation"
NoPanic == ~panicked

\* The index, the order of use, the quota and the temporary files describe the same
\* sessions through creation, PATCHes, eviction, expiry and invalidation.
UploadBooks == UploadTypeOK /\ IndexExact /\ UsageNotLeaked /\ NoOrphanTemp
=============================================================================
