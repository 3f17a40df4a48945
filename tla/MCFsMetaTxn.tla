---------------------------- MODULE MCFsMetaTxn ----------------------------
(* /a is inode 2 or an object, /a/a and /b are objects or missing.          *)
EXTENDS FsMetaTxn

MCNames == {"a", "b"}
MCInodes == {1, 2}
MCTargets == [e \in CacheEdges |->
    CASE e = <<1, "a">> -> {ToInode(2), ToObj}
      [] e = <<2, "a">> -> {ToObj, Missing}
      [] OTHER -> {}]
MCRows == [e \in CacheEdges |->
    CASE e = <<1, "a">> -> ToInode(2)
      [] e \in {<<2, "a">>, <<1, "b">>} -> ToObj
      [] OTHER -> Missing]
\* two transactions and one write, one transaction and two; one write among resolves
MCBudgets == {[begins |-> 2, ops |-> 1, res |-> 0], [begins |-> 1, ops |-> 2, res |-> 0],
              [begins |-> 0, ops |-> 1, res |-> 4], [begins |-> 1, ops |-> 1, res |-> 2]}
MCPaths == {<<"a">>, <<"a", "a">>, <<"b">>}
=============================================================================
