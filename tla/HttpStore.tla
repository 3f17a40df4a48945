----------------------------- MODULE HttpStore ------------------------------
(***************************************************************************)
(* The store gateway: the manager of another machine behind                 *)
(* NamedStoreMgrHttpGateway, reached by NamedStoreHttpBackend, the HTTP     *)
(* implementation of a chunk backend, and by HttpGcClient.  Bodies stream   *)
(* and connections break as in NdmProxy, whose calls it extends.            *)
(***************************************************************************)
EXTENDS NdmProxy

VARIABLE gc_enabled  \* FALSE: a data-only deployment

hvars == <<pvars, gc_enabled>>

\* get_chunk_state, open_chunk_reader, open_chunk_writer, remove_chunk
BackendCall(c) ==
    \/ \E op \in {"head", "write", "remove"} : Start(c, op, "store", 0, 0)
    \/ \E at \in 0 .. ChunkSize + 1 : Start(c, "read", "store", at, 0)

\* apply_edge, pin, unpin, fs_acquire, fs_release, forced_gc and so on; same_as
GcCall(c) == \E op \in {"restricted", "same_as"} : Start(c, op, "store", 0, 0)

-----------------------------------------------------------------------------
(* The gateway.                                                             *)

AtStore(c, op) == call[c].stage = "request" /\ call[c].via = "store" /\ call[c].op = op

\* handle_head_chunk: have_chunk, and then the size of what is there by now; the
\* size of a chunk removed in between, or that the database cannot find, is zero
HandleHeadChunk(c) ==
    /\ \/ /\ AtStore(c, "head")
          /\ \E yes \in HaveChunk :
                IF yes THEN call' = [call EXCEPT ![c].stage = "head"] ELSE Answer(c, "not_exist")
       \/ /\ call[c].stage = "head"
          /\ \/ call' = [call EXCEPT ![c].stage = "response", ![c].out = "completed",
                                     ![c].len = IF item # "not_exist" THEN ChunkSize ELSE 0]
             \/ call' = [call EXCEPT ![c].stage = "response", ![c].out = "completed",
                                     ![c].len = 0, ![c].gap = TRUE]
    /\ Quiet

\* handle_get_chunk; its task just stops at an early end of the chunk, and a body
\* shorter than its content-length breaks the connection all the same
HandleGetChunk(c) == AtStore(c, "read") /\ OpenStream(c)

HandlePutChunk(c) == AtStore(c, "write") /\ UnlessKnown(c)

HandleDeleteChunk(c) == AtStore(c, "remove") /\ RemoveCall(c)

\* the handlers under /_gc/ of the garbage collection
GcHandlers(c) == Mark(c) \/ ForcedGc(c)

\* route_gc_request
RouteGcRequest(c) ==
    /\ AtStore(c, "restricted") \/ AtStore(c, "same_as")
    /\ IF gc_enabled THEN GcHandlers(c) \/ SameAs(c) ELSE Fail(c, "unsupported") /\ Quiet

-----------------------------------------------------------------------------
(* The clients.                                                             *)

\* ndn_error_to_status
StoreEncoded(e) ==
    CASE e = "verify_error" -> "verify_failed"
      [] e \in Named \ {"verify_error"} -> e
      [] OTHER -> "internal_error"

\* map_http_error of the backend: it does not know "unsupported"
StoreDecoded(code) ==
    CASE code = "verify_failed" -> "verify_error"
      [] code \in Named \ {"unsupported", "verify_error"} -> code
      [] OTHER -> "remote"

ErrorSeen(c) == StoreDecoded(StoreEncoded(call[c].err))

\* get_chunk_state: an answer to HEAD has no body, its status must do
HeadSeen(c) == IF call[c].out # "error" THEN call[c].out ELSE "remote"

\* open_chunk_reader, open_chunk_writer
BodySeen(c) == IF call[c].out # "error" THEN call[c].out ELSE ErrorSeen(c)

\* remove_chunk: what is not found is removed
DeleteSeen(c) == IF call[c].out # "error" \/ call[c].err = "not_found" THEN "done" ELSE ErrorSeen(c)

\* check_no_content, map_gc_error
GcSeen(c) == IF call[c].out # "error" THEN "done" ELSE ErrorSeen(c)

StoreReturns(c) ==
    /\ call[c].stage = "response" /\ call[c].via = "store"
    /\ call' = [call EXCEPT ![c].stage = "done",
                            ![c].out = CASE call[c].op = "head" -> HeadSeen(c)
                                         [] call[c].op \in {"read", "write"} -> BodySeen(c)
                                         [] call[c].op = "remove" -> DeleteSeen(c)
                                         [] OTHER -> GcSeen(c)]
    /\ Quiet

-----------------------------------------------------------------------------
HttpInit == ProxyInit /\ gc_enabled \in BOOLEAN

\* route_request and the steps of the clients
StoreSteps(c) ==
    \/ HandleHeadChunk(c) \/ HandleGetChunk(c) \/ HandlePutChunk(c) \/ HandleDeleteChunk(c)
    \/ RouteGcRequest(c) \/ StoreReturns(c)

HttpNext ==
    /\ ProxyNext \/ \E c \in Callers : BackendCall(c) \/ GcCall(c) \/ StoreSteps(c)
    /\ UNCHANGED gc_enabled

HttpSpec ==
    /\ HttpInit /\ [][HttpNext]_hvars
    /\ \A c \in Callers : WF_hvars((CallSteps(c) \/ StoreSteps(c)) /\ UNCHANGED gc_enabled)

-----------------------------------------------------------------------------
\* A backend that is told of a completed chunk is told its size, unless the
\* chunk was removed between the two looks or the second one failed
\* (handle_head_chunk, get_chunk_state).
HeadTrue ==
    \A c \in Callers :
        Done(c) /\ call[c].op = "head" /\ call[c].out = "completed" /\ ~call[c].gap =>
            Held /\ call[c].len = ChunkSize

\* Through the store gateway too an error keeps its name, except "unsupported"
\* and the errors of HEAD (ndn_error_to_status against map_http_error).
StoreErrorKept ==
    \A c \in Callers :
        Done(c) /\ call[c].via = "store" /\ call[c].op \in {"read", "write", "restricted", "same_as"}
            /\ call[c].err \in Named \ {"unsupported"} => call[c].out = call[c].err

\* What a client of any gateway is told is true: bodies are whole, sizes right,
\* confirmed writes are stored and confirmed once, a yes of have_chunk is one,
\* states and errors arrive as they were raised (but those of have_chunk),
\* whatever breaks, fails, is retried or removed in between.
RemoteTrue == AnswersTrue /\ HeadTrue /\ StoreErrorKept
=============================================================================
