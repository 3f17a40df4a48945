----------------------------- MODULE MCStores -------------------------------
(***************************************************************************)
(* One store and the manager above several, which share no state here,      *)
(* checked side by side: each behaviour is one of the component named by    *)
(* part, the other rests in its initial state.  The chunk operations of a   *)
(* store; and the manager with two stores, a directory d that embeds a file *)
(* f, whose content is a big chunk b, made of the list l of one chunk c.    *)
(***************************************************************************)
EXTENDS ChunkStore, DataMgr

VARIABLE part

MCKind(o) == CASE o \in {"c", "b"} -> "chunk" [] o = "l" -> "list" [] o = "f" -> "file" [] OTHER -> "dir"
MCRefs(o) == CASE o = "l" -> {"c"} [] o = "f" -> {"b"} [] o = "d" -> {"f"} [] OTHER -> {}
MCSameAs(o) == IF o = "b" THEN "l" ELSE "none"
MCEmbeds(o) == IF o = "d" THEN {"f"} ELSE {}
MCPaths == {<<"f">>, <<"f", "b">>, <<"b">>, <<"b", "c">>}
MCOffset(s) == IF s = "s1" THEN 1 ELSE 4
MCSkip(s) == IF s = "s1" THEN 2 ELSE 3
MCSlot(o) == CASE o = "c" -> 0 [] o = "b" -> 1 [] o = "l" -> 2 [] o = "f" -> 3 [] OTHER -> 4
MCTarget(s, wt, e) == [store |-> s, weight |-> wt, enabled |-> e, readonly |-> FALSE]
MCConfigs == {<<MCTarget("s1", 1, TRUE), MCTarget("s2", 1, FALSE)>>,
              <<MCTarget("s1", 1, TRUE), MCTarget("s2", 3, TRUE)>>}

StoresInit ==
    /\ part \in {"chunks", "mgr"} /\ Init /\ MgrInit
    /\ part # "mgr" => has = {} /\ versions[1].targets[2].enabled

StoresNext ==
    /\ UNCHANGED part
    /\ \/ part = "chunks" /\ Next /\ UNCHANGED mvars
       \/ part = "mgr" /\ MgrNext /\ UNCHANGED vars

StoresSpec == StoresInit /\ [][StoresNext]_<<part, vars, mvars>>
=============================================================================
