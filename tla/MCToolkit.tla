----------------------------- MODULE MCToolkit ------------------------------
(***************************************************************************)
(* The two ends of ndn-toolkit, checked side by side: each behaviour is one *)
(* of the component named by part, the other rests in its initial state.    *)
(* The client pulls F, a file with a chunk list, and G, a file of one       *)
(* chunk.  In the tree that the directory server serves, x and z differ     *)
(* outside of what the quick hash samples, and s is too short for it.       *)
(***************************************************************************)
EXTENDS NdnPull, DirServer

VARIABLE part

MCContent(f) == IF f = "F" THEN "L" ELSE "c3"
MCMembers(x) == IF x = "L" THEN <<"c1", "c2">> ELSE <<x>>

MCQuick(c) == CASE c \in {"x", "z"} -> "qx" [] c = "y" -> "qy" [] OTHER -> NoQuick
MCBytes(c) == IF c = "s" THEN 1 ELSE 2
\* half of x and half of y look like x to the quick hash
MCMix(c, d) == IF {c, d} = {"x", "y"} THEN "z" ELSE d
MCFiles == {[q \in {"p", "i"} |-> Gone],
            [q \in {"p", "i"} |-> IF q = "p" THEN [there |-> TRUE, data |-> "z", mtime |-> 0] ELSE Gone]}

ToolkitInit ==
    /\ part \in {"pull", "dir"} /\ PullInit /\ DirInit
    /\ part = "pull" => policy = "link" /\ ~dir /\ files["p"] = Gone
    /\ part = "dir" => files["p"] # Gone /\ ~dir /\ bound = "F"

ToolkitNext ==
    /\ UNCHANGED part
    /\ \/ part = "pull" /\ PullNext /\ UNCHANGED dvars
       \/ part = "dir" /\ DirNext /\ UNCHANGED nvars

\* the scanner task keeps running
ToolkitSpec == ToolkitInit /\ [][ToolkitNext]_<<part, nvars, dvars>> /\ WF_dvars(part = "dir" /\ Scanner)
=============================================================================
