------------------------------ MODULE NdmProxy ------------------------------
(***************************************************************************)
(* The proxies of a NamedDataMgr: NdmClient in an application, the node     *)
(* gateway in front of the manager, and the HTTP connection between them,   *)
(* which may break before or after the gateway has done the request.  The   *)
(* RPC methods of the manager are also served by the zone gateway, to       *)
(* clients outside this repository.  The manager is seen through one chunk  *)
(* of ChunkSize units, its row and its file, and one record the garbage     *)
(* collection calls write; of the objects only their queries are here.      *)
(* HttpStore adds the store gateway.                                        *)
(***************************************************************************)
EXTENDS Naturals, Sequences, FiniteSets

CONSTANTS Callers,
          ChunkSize,            \* units of the chunk
          Buf,             \* STREAM_BUF_SIZE, in units
          MaxCalls,        \* bound on calls
          MaxTrouble       \* bound on broken connections and failing reads

ASSUME ProxyAssumption == ChunkSize \in Nat /\ Buf \in Nat \ {0} /\ MaxCalls \in Nat /\ MaxTrouble \in Nat

VARIABLES restricted_enabled,  \* the gateway's configuration
          item,      \* the state of the chunk in the store's database
          blob,     \* the backend has the chunk's bytes
          marked,   \* the record a restricted call writes
          call,     \* the call of each caller
          late,     \* writes whose client is gone, which the gateway still does
          removals, writes,     \* history: removals done, "written" answers given
          made, trouble

chunkVars == <<item, blob>>
pvars == <<restricted_enabled, chunkVars, marked, call, late, removals, writes, made, trouble>>

\* the states of a chunk; no call leaves one "new" or "disabled", a database
\* of an older version may
States == {"not_exist", "new", "disabled", "completed", "local_link", "same_as"}

\* the store has the chunk, by its row or at least by its bytes
Held == item \in {"completed", "local_link", "same_as"}
Has  == Held \/ blob

\* errors the gateway names to its client, and those it does not
Named == {"not_found", "invalid_param", "invalid_data", "invalid_id", "invalid_obj_type", "verify_error",
          "permission_denied", "already_exists", "offset_too_large", "unsupported"}
Raised == {"not_found", "verify_error", "io"}
\* a request that cannot be parsed, one named error for them all, or not be read
BadRequest == {"invalid_param", "io"}

\* gap: the chunk was removed or replaced, or a look at it failed, meanwhile
NoCall == [op |-> "none", via |-> "node", at |-> 0, len |-> 0, stage |-> "idle", err |-> "none", out |-> "none", said |-> "none",
           sent |-> 0, pipe |-> <<>>, got |-> <<>>, gap |-> FALSE, cut |-> FALSE]

Start(c, op, via, at, len) ==
    /\ made < MaxCalls /\ made' = made + 1
    /\ call[c].stage = "idle"
    /\ call' = [call EXCEPT ![c] = [NoCall EXCEPT !.op = op, !.via = via, !.at = at, !.len = len, !.stage = "request"]]
    /\ UNCHANGED <<restricted_enabled, late, chunkVars, marked, removals, writes, trouble>>

\* the queries of objects, query_chunk_state, have_chunk, remove_chunk,
\* add_chunk_by_same_as and the restricted calls, at either gateway;
\* open_chunk_reader and open_reader, get_chunk_piece, put_chunk
Invoke(c) ==
    \/ \E op \in {"ask", "state", "have", "remove", "same_as", "restricted"}, via \in {"node", "zone"} :
          Start(c, op, via, 0, 0)
    \/ Start(c, "write", "node", 0, 0)
    \/ \E at \in 0 .. ChunkSize + 1 : Start(c, "read", "node", at, 0)
    \/ \E at \in 0 .. ChunkSize + 1, len \in 1 .. ChunkSize : Start(c, "piece", "node", at, len)

-----------------------------------------------------------------------------
(* The error of a response.                                                 *)

\* ndm_error_to_status, build_error_response
Encoded(e) == IF e \in Named THEN e ELSE "internal_error"

\* ndm_error_to_status of the zone gateway: a verification error shares the code
\* of an upload's wrong offset, and an invalid type has none
ZoneEncoded(e) ==
    CASE e = "verify_error" -> "offset_conflict"
      [] e \in Named \ {"verify_error", "invalid_obj_type"} -> e
      [] OTHER -> "internal_error"

\* chunk_store_state_to_json: the fields of the answer; a link's path is not
\* among those of its local_info
StateJson(st) == [state |-> st, chunk_size |-> TRUE, local_info |-> st = "local_link", same_as |-> st = "same_as"]

\* parse_chunk_store_state
StateSeen(v) ==
    IF /\ v.state \in States
       /\ v.chunk_size \/ v.state = "not_exist"
       /\ v.local_info \/ v.state # "local_link"
       /\ v.same_as \/ v.state # "same_as"
    THEN v.state
    ELSE "invalid_data"

\* object_state_to_json and parse_object_state; the other queries of objects
\* answer with a string or a Boolean of their own
ObjectJson(found) == [state |-> IF found THEN "object" ELSE "not_exist", obj_data |-> found]
ObjectSeen(v) ==
    IF v.state = "not_exist" \/ (v.state = "object" /\ v.obj_data) THEN v.state ELSE "invalid_data"

\* put_chunk_by_reader of the client: the outcome in the response's header
OutcomeSeen(v) == IF v \in {"written", "already_exists"} THEN v ELSE "invalid_data"

\* map_http_error
Decoded(code) == IF code \in Named THEN code ELSE "remote"

-----------------------------------------------------------------------------
(* The gateway.                                                             *)

Answer(c, out) == call' = [call EXCEPT ![c].stage = "response", ![c].out = out]
Fail(c, e) == call' = [call EXCEPT ![c].stage = "response", ![c].out = "error", ![c].err = e]
Quiet == UNCHANGED <<restricted_enabled, late, chunkVars, marked, removals, writes, made, trouble>>

\* an answer that tells the state st
Tell(c, st) == call' = [call EXCEPT ![c].stage = "response", ![c].out = "state", ![c].said = st]

\* get_object, open_object, get_dir_child, is_object_stored, is_object_exist and
\* query_object_by_id; the objects are not kept, an answer is any
Ask(c) ==
    /\ call[c].op = "ask"
    /\ \/ \E found \in BOOLEAN : Tell(c, ObjectJson(found).state)
       \/ \E e \in Raised \cup BadRequest : Fail(c, e)
    /\ Quiet

\* query_chunk_state: a database that fails has no such chunk
AskState(c) ==
    /\ call[c].op = "state"
    /\ \/ \E st \in {item, "not_exist"} : Tell(c, st)
       \/ \E e \in BadRequest : Fail(c, e)
    /\ Quiet

\* is_object_stored of a chunk whose state is st: a chunk that is the same as a
\* list is there if the list and its chunks are
Whole(st) ==
    CASE st \in {"completed", "local_link"} -> {TRUE}
      [] st = "same_as" -> BOOLEAN
      [] OTHER -> {FALSE}

\* Mutant of HaveChunk: an error is taken for yes.
HaveOnError == Whole(item) \cup BOOLEAN

\* have_chunk of the manager: an error is taken for no
HaveChunk == Whole(item) \cup {FALSE}

AskHave(c) ==
    /\ call[c].op = "have"
    /\ \/ \E yes \in HaveChunk : Answer(c, IF yes THEN "true" ELSE "false")
       \/ \E e \in BadRequest : Fail(c, e)
    /\ Quiet

\* the calls of others may have seen the chunk before it was removed or replaced
Disturb(c, r) == call' = [d \in Callers |-> IF d = c THEN r ELSE [call[d] EXCEPT !.gap = TRUE]]
Told(c) == [call[c] EXCEPT !.stage = "response", !.out = "done"]
Denied(c, e) == [call[c] EXCEPT !.stage = "response", !.out = "error", !.err = e]

\* remove_chunk: the file, then the row; the manager passes over a store that
\* fails at either
RemoveCall(c) ==
    /\ call[c].op = "remove"
    /\ \/ /\ Disturb(c, Told(c))
          /\ \/ UNCHANGED chunkVars
             \/ blob' = FALSE /\ item' \in {item, "not_exist"}
          /\ removals' = removals + 1
          /\ UNCHANGED <<restricted_enabled, late, marked, writes, made, trouble>>
       \/ (\E e \in BadRequest : Fail(c, e)) /\ Quiet

\* add_chunk_by_same_as: set_chunk_item replaces the item, whatever it was
SameAs(c) ==
    /\ call[c].op = "same_as"
    /\ \/ /\ Disturb(c, Told(c)) /\ item' = "same_as"
          /\ UNCHANGED <<restricted_enabled, late, blob, marked, removals, writes, made, trouble>>
       \/ (\E e \in BadRequest \cup {"not_found"} : Fail(c, e)) /\ Quiet

\* apply_edge, pin, fs_acquire and the other restricted calls: a call that
\* fails at one store has changed the ones before it
Mark(c) ==
    /\ call[c].op = "restricted"
    /\ \/ Answer(c, "done") /\ marked' = TRUE
       \/ (\E e \in BadRequest \cup {"not_found"} : Fail(c, e)) /\ marked' \in {marked, TRUE}
    /\ UNCHANGED <<restricted_enabled, late, chunkVars, removals, writes, made, trouble>>

\* forced_gc_until: the row of an evicted chunk, then its file, the error of
\* which is passed over; too few bytes freed is an error
ForcedGc(c) ==
    /\ call[c].op = "restricted" /\ item = "completed"
    /\ \E r \in {Told(c), Denied(c, "io")} : Disturb(c, r)
    /\ item' = "not_exist" /\ blob' \in {FALSE, blob} /\ removals' = removals + 1
    /\ UNCHANGED <<restricted_enabled, late, marked, writes, made, trouble>>

\* ensure_restricted
EnsureRestricted(c) == restricted_enabled \/ call[c].op # "restricted"

\* handle_rpc; ensure_restricted comes before the call
HandleRpc(c) ==
    /\ call[c].stage = "request" /\ call[c].via = "node"
    /\ IF EnsureRestricted(c)
       THEN \/ Ask(c) \/ AskState(c) \/ AskHave(c) \/ RemoveCall(c) \/ SameAs(c)
            \/ Mark(c) \/ ForcedGc(c)
       ELSE Fail(c, "permission_denied") /\ Quiet

\* handle_store_rpc of the zone gateway
HandleStoreRpc(c) ==
    /\ call[c].stage = "request" /\ call[c].via = "zone"
    /\ Ask(c) \/ AskState(c) \/ AskHave(c) \/ RemoveCall(c) \/ SameAs(c)

\* its garbage collection calls, which it restricts to nobody
HandleStoreGc(c) ==
    /\ call[c].stage = "request" /\ call[c].via = "zone"
    /\ Mark(c) \/ ForcedGc(c)

\* a store can open the chunk: its file or the file it is linked to
Readable == item = "local_link" \/ (item = "completed" /\ blob)

\* open_chunk_reader: no row or no file, an offset past the end, a state that
\* cannot be read, or a link, file or database that fails
OpenFails(c) ==
    \/ (item = "not_exist" \/ (item = "completed" /\ ~blob)) /\ Fail(c, "not_found")
    \/ Readable /\ call[c].at > ChunkSize /\ Fail(c, "offset_too_large")
    \/ Fail(c, "io")

\* the chunk from an offset, or an error
OpenStream(c) ==
    /\ \/ OpenFails(c)
       \/ /\ Readable /\ call[c].at <= ChunkSize
          /\ call' = [call EXCEPT ![c].stage = "stream", ![c].sent = call[c].at]
    /\ Quiet

\* handle_read: chunk/open, chunk/data, chunklist/open, object/open
HandleOpen(c) ==
    /\ call[c].stage = "request" /\ call[c].op = "read" /\ call[c].via = "node"
    /\ OpenStream(c)

\* handle_read: chunk/piece asks for the state, then for the piece; the rest of
\* a chunk that is shorter than the piece is an error
HandlePiece(c) ==
    /\ call[c].op = "piece"
    /\ \/ call[c].stage = "request" /\ Fail(c, "not_found")   \* no item, or none found
       \/ call[c].stage = "request" /\ item # "not_exist" /\ call' = [call EXCEPT ![c].stage = "piece"]
       \/ /\ call[c].stage = "piece"
          /\ \/ OpenFails(c)
             \/ /\ Readable /\ call[c].at + call[c].len <= ChunkSize
                /\ call' = [call EXCEPT ![c].stage = "response", ![c].out = "piece",
                                        ![c].got = [i \in 1 .. call[c].len |-> call[c].at + i]]
    /\ Quiet

\* a chunk that have_chunk knows is not written again
UnlessKnown(c) ==
    /\ \E yes \in HaveChunk :
          IF yes THEN Answer(c, "already_exists")
          ELSE call' = [call EXCEPT ![c].stage = "body"]
    /\ Quiet

\* handle_write_chunk: have_chunk first
HandleWrite(c) ==
    /\ call[c].stage = "request" /\ call[c].op = "write" /\ call[c].via = "node"
    /\ UnlessKnown(c)

\* put_chunk_by_reader under the lock of the store: the file, unless it is there
\* already, and then the item, which may fail
Put == blob' = TRUE /\ item' = IF blob THEN item ELSE "completed"
PutNoRow == ~blob /\ blob' = TRUE /\ UNCHANGED item

\* the outcome of put_chunk_by_reader
WriteOutcome(there) == IF there THEN "already_exists" ELSE "written"

\* handle_write_chunk: put_chunk_by_reader
HandleBody(c) ==
    /\ call[c].stage = "body"
    /\ \/ (\E e \in {"verify_error", "io", "not_found"} : Fail(c, e)) /\ Quiet
       \/ /\ Fail(c, "io") /\ PutNoRow
          /\ UNCHANGED <<restricted_enabled, late, marked, removals, writes, made, trouble>>
       \/ /\ Answer(c, WriteOutcome(blob)) /\ Put
          /\ writes' = IF WriteOutcome(blob) = "written" THEN writes + 1 ELSE writes
          /\ UNCHANGED <<restricted_enabled, late, marked, removals, made, trouble>>

-----------------------------------------------------------------------------
(* The task that fills a response body through a channel of two frames.      *)

\* Mutant of EndOfFile: the task tries to read again.
EndOfFileIgnored(c) == call[c]

\* an early end of the chunk breaks the body, and with it the connection
EndOfFile(c) == [call[c] EXCEPT !.stage = "broken"]

\* chunk_reader_to_channel
Frame(c) ==
    /\ call[c].stage = "stream" /\ call[c].sent < ChunkSize /\ Len(call[c].pipe) < 2 /\ ~call[c].cut
    /\ \E n \in 1 .. (IF ChunkSize - call[c].sent < Buf THEN ChunkSize - call[c].sent ELSE Buf) :
          call' = [call EXCEPT ![c].sent = @ + n,
                               ![c].pipe = Append(@, [i \in 1 .. n |-> call[c].sent + i])]
    /\ Quiet

\* the reader returns no more units
ReadZero(c) ==
    /\ call[c].stage = "stream" /\ call[c].sent < ChunkSize /\ Len(call[c].pipe) < 2 /\ call[c].cut
    /\ call' = [call EXCEPT ![c] = EndOfFile(c)]
    /\ Quiet

\* what backs the chunk is cut short or fails while it is read
Truncate(c) ==
    /\ call[c].stage = "stream" /\ ~call[c].cut
    /\ trouble < MaxTrouble /\ trouble' = trouble + 1
    /\ call' = [call EXCEPT ![c].cut = TRUE]
    /\ UNCHANGED <<restricted_enabled, late, chunkVars, marked, removals, writes, made>>

-----------------------------------------------------------------------------
(* The client.                                                              *)

\* the next frame of a body; the body ends at its content-length
Receive(c) ==
    /\ call[c].stage = "stream" /\ call[c].pipe # <<>>
    /\ call' = [call EXCEPT ![c].got = @ \o Head(call[c].pipe), ![c].pipe = Tail(@)]
    /\ Quiet

EndOfBody(c) ==
    /\ call[c].stage = "stream" /\ Len(call[c].got) = ChunkSize - call[c].at
    /\ call' = [call EXCEPT ![c].stage = "done", ![c].out = "read"]
    /\ Quiet

\* the frames already in the channel are lost with the connection
BrokenBody(c) ==
    /\ call[c].stage = "broken"
    /\ call' = [call EXCEPT ![c].stage = "done", ![c].out = "error", ![c].err = "io", ![c].pipe = <<>>]
    /\ Quiet

\* have_chunk of the client: an error, whatever it is, is a no
HaveSeen(out) == IF out = "true" THEN "true" ELSE "false"

\* the error of the answer, as the client of either gateway has it
ErrorOf(c) == IF call[c].via = "node" THEN Decoded(Encoded(call[c].err)) ELSE ZoneEncoded(call[c].err)

\* the answer without an error, as the client decodes it
SeenOf(c) ==
    CASE call[c].op = "state" -> StateSeen(StateJson(call[c].said))
      [] call[c].op = "ask" -> ObjectSeen(ObjectJson(call[c].said = "object"))
      [] call[c].op = "write" -> OutcomeSeen(call[c].out)
      [] OTHER -> call[c].out

\* rpc_call, rpc_call_no_content, read_request, put_chunk: the answer is decoded;
\* a client of the zone gateway has the code as it is
CallReturns(c) ==
    /\ call[c].stage = "response" /\ call[c].via \in {"node", "zone"}
    /\ call' = [call EXCEPT ![c].stage = "done",
                            ![c].out = CASE call[c].op = "have" /\ call[c].via = "node" -> HaveSeen(@)
                                         [] @ = "error" /\ ~(call[c].op = "have" /\ call[c].via = "node") -> ErrorOf(c)
                                         [] OTHER -> SeenOf(c)]
    /\ Quiet

\* the connection breaks before the gateway took the request, or after
Disconnect(c) ==
    /\ call[c].stage \in {"request", "body", "piece", "head", "stream", "response"}
    /\ trouble < MaxTrouble /\ trouble' = trouble + 1
    /\ call' = [call EXCEPT ![c].stage = "done", ![c].err = "none", ![c].pipe = <<>>,
                            ![c].out = IF call[c].op = "have" /\ call[c].via = "node"
                                       THEN HaveSeen("remote") ELSE "remote"]
    /\ late' = IF call[c].stage = "body" THEN late + 1 ELSE late
    /\ UNCHANGED <<restricted_enabled, chunkVars, marked, removals, writes, made>>

\* the body had arrived: the gateway goes on with put_chunk_by_reader
LateBody ==
    /\ late > 0 /\ late' = late - 1
    /\ \/ Put /\ writes' = IF WriteOutcome(blob) = "written" THEN writes + 1 ELSE writes
       \/ PutNoRow /\ UNCHANGED writes
       \/ UNCHANGED <<chunkVars, writes>>
    /\ UNCHANGED <<restricted_enabled, marked, call, removals, made, trouble>>

\* the application goes on with its next call
Next1(c) ==
    /\ call[c].stage = "done"
    /\ call' = [call EXCEPT ![c] = NoCall]
    /\ Quiet

-----------------------------------------------------------------------------
ProxyInit ==
    /\ restricted_enabled \in BOOLEAN /\ item \in States /\ blob = (item = "completed") /\ marked = FALSE /\ late = 0
    /\ call = [c \in Callers |-> NoCall]
    /\ removals = 0 /\ writes = 0 /\ made = 0 /\ trouble = 0

CallSteps(c) ==
    \/ HandleRpc(c) \/ HandleStoreRpc(c) \/ HandleStoreGc(c) \/ HandleOpen(c) \/ HandlePiece(c) \/ HandleWrite(c) \/ HandleBody(c)
    \/ Frame(c) \/ ReadZero(c) \/ Receive(c) \/ EndOfBody(c) \/ BrokenBody(c) \/ CallReturns(c)

ProxyNext == LateBody \/ \E c \in Callers : Invoke(c) \/ CallSteps(c) \/ Disconnect(c) \/ Truncate(c) \/ Next1(c)

\* the runtime runs every task, and the client awaits its answer
ProxyFairness == \A c \in Callers : WF_pvars(CallSteps(c))

ProxySpec == ProxyInit /\ [][ProxyNext]_pvars /\ ProxyFairness

-----------------------------------------------------------------------------
Done(c) == call[c].stage = "done"

\* A read that ends well delivered the chunk from the offset to its end, a
\* piece exactly the units asked for; a chunk that ends early is an error to
\* the client, never a short body (chunk_reader_to_channel, get_chunk_piece).
BodyExact ==
    \A c \in Callers :
        /\ Done(c) /\ call[c].out = "read" => call[c].got = [i \in 1 .. ChunkSize - call[c].at |-> call[c].at + i]
        /\ Done(c) /\ call[c].out = "piece" => call[c].got = [i \in 1 .. call[c].len |-> call[c].at + i]

\* A write the client sees confirmed is of a chunk whose bytes or whose row the
\* store has, and one it sees as "written" of a chunk with both, unless the
\* chunk was removed or replaced meanwhile (handle_write_chunk).
WriteConfirmed ==
    \A c \in Callers :
        Done(c) /\ ~call[c].gap =>
            /\ call[c].out \in {"written", "already_exists"} => Has
            /\ call[c].out = "written" => blob /\ Held

\* Of any number of concurrent or repeated writes, one is answered "written"
\* for each time the bytes were absent (handle_write_chunk).
WrittenOnce == writes <= removals + 1

\* A chunk that have_chunk knows is in the store, unless it was removed
\* meanwhile.  A no may as well be an error (have_chunk of the client and of
\* the manager).
YesTrue == \A c \in Callers : Done(c) /\ call[c].op = "have" /\ call[c].out = "true" /\ ~call[c].gap => Held

\* A client of the node gateway sees the state the manager told, and, of every
\* call but have_chunk, the error it raised if the protocol names it
\* (ndm_error_to_status, map_http_error, chunk_store_state_to_json,
\* parse_chunk_store_state).
ErrorKept ==
    \A c \in Callers :
        Done(c) /\ call[c].via = "node" =>
            /\ call[c].err \in Named /\ call[c].op # "have" => call[c].out = call[c].err
            /\ call[c].said # "none" => call[c].out \in {call[c].said, "remote"}

\* Every call ends, whatever the chunk's reader or the connection does (the
\* task of chunk_reader_to_channel stops with them).
CallEnds == \A c \in Callers : call[c].stage # "idle" ~> call[c].stage \in {"done", "idle"}

\* What a client is told is true: bodies are whole, confirmed writes are stored
\* and confirmed once, a yes of have_chunk is one, states and errors arrive as
\* they were raised.
AnswersTrue == BodyExact /\ WriteConfirmed /\ WrittenOnce /\ YesTrue /\ ErrorKept
=============================================================================
