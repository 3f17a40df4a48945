----------------------------- MODULE MCGateways -----------------------------
(***************************************************************************)
(* Three components that share no state, checked side by side: each         *)
(* behaviour is one of the component named by part, the others rest in      *)
(* their initial states.  The gateways with their clients, the upload       *)
(* sessions of the zone gateway, and the leases of writer sessions.         *)
(***************************************************************************)
EXTENDS HttpStore, ZoneUpload, FileSession

VARIABLE part

\* a chunk uploaded at two paths, with and without its name, and an empty file
\* that comes to one of them
MCUploads == {[path |-> "p", file |-> "f", data |-> <<1, 2>>, named |-> TRUE],
              [path |-> "q", file |-> "f", data |-> <<1, 2>>, named |-> FALSE],
              [path |-> "p", file |-> "e", data |-> <<>>, named |-> FALSE]}

GatewaysInit ==
    /\ part \in {"proxy", "upload", "lease"}
    /\ HttpInit /\ UploadInit /\ Init
    /\ part # "proxy" => ~restricted_enabled /\ item = "not_exist"
    /\ item \notin {"new", "disabled", "same_as"}   \* the first two are treated as SameAs without its list
    /\ ~restricted_enabled => item = "not_exist"   \* a refusal does not depend on the chunk
    /\ gc_enabled = restricted_enabled   \* each is looked at by calls of its own gateway only
    /\ part # "lease" => ~row.base

\* "a" is an application, of the node or the zone gateway; "b" is another machine,
\* at the store gateway, or a second writer at the node gateway
Deployed ==
    /\ call'["a"].via # "store" /\ call'["b"].via # "zone"
    /\ call'["b"].via = "node" => call'["b"].op \in {"none", "write"}

\* the handlers of PATCH are alike: the first idle one takes a request
InTurn == patch[2].pc = "idle" /\ patch'[2].pc # "idle" => patch[1].pc # "idle"

GatewaysNext ==
    /\ UNCHANGED part
    /\ \/ part = "proxy" /\ HttpNext /\ Deployed /\ UNCHANGED <<uvars, vars>>
       \/ part = "upload" /\ UploadNext /\ InTurn /\ UNCHANGED <<hvars, vars>>
       \/ part = "lease" /\ Next /\ UNCHANGED <<hvars, uvars>>

\* the fairness of each component
GatewaysFair ==
    /\ \A c \in Callers : WF_hvars(part = "proxy" /\ (CallSteps(c) \/ StoreSteps(c)) /\ UNCHANGED gc_enabled)
    /\ WF_uvars(part = "upload" /\ \E s \in Live : Age(s)) /\ WF_uvars(part = "upload" /\ Expire)
    /\ WF_vars(part = "lease" /\ Tick) /\ WF_vars(part = "lease" /\ Reclaim)

GatewaysSpec == GatewaysInit /\ [][GatewaysNext]_<<part, hvars, uvars, vars>> /\ GatewaysFair
=============================================================================
