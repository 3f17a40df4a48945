--------------------------- MODULE MCFileSession ---------------------------
(***************************************************************************)
(* Two components without common state, checked side by side: a behaviour   *)
(* is one of the component named by part.  The writer sessions, and the     *)
(* chunk files of a local backend.  Symmetry, as only safety is checked.    *)
(***************************************************************************)
EXTENDS FileSession, LocalFsBackend, TLC

VARIABLE part

Symmetry == Permutations(Clients) \cup Permutations(Stagers) \cup Permutations(Handles)

SessionsInit ==
    /\ part \in {"session", "backend"}
    /\ Init /\ BackendInit
    /\ part = "backend" => ~row.base

SessionsNext ==
    /\ UNCHANGED part
    /\ \/ part = "session" /\ Next /\ UNCHANGED backendVars
       \/ part = "backend" /\ BackendNext /\ UNCHANGED vars

SessionsSpec == SessionsInit /\ [][SessionsNext]_<<part, vars, backendVars>>
============================================================================
