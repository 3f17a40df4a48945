---------------------------- MODULE MCFsMetaTree ----------------------------
(* A tree /a/a, /b/b of directories, /a/a empty or holding a file that is   *)
(* being written, and one free inode; one of two clients moves.             *)
EXTENDS FsMetaTree

MCNames == {"a", "b"}
MCFiles == {"f"}
MCBaseDir == [n \in MCNames |-> IF n = "a" THEN FileObj("f") ELSE NoObj]
MCPaths == {<<"a">>, <<"a", "a">>, <<"b", "b">>, <<"a", "a", "b">>}
DeepPaths == {<<"a", "a">>, <<"b", "b">>, <<"a", "a", "b">>, <<"b", "b", "a">>}

Under(d, n) == <<d, n>>
At(node, ref) == [node EXCEPT !.ref = ref]

NoDent == [n \in MCNames |-> Absent]

\* 1 = /, 2 = /a, 3 = /b, 4 = /a/a, 5 = /b/b
TwoDirs ==
    [nodes |-> [i \in Inodes |->
                   CASE i = 1 -> DirNormal
                     [] i = 2 -> At(DirNormal, Under(1, "a"))
                     [] i = 3 -> At(DirNormal, Under(1, "b"))
                     [] i = 4 -> At(DirNormal, Under(2, "a"))
                     [] i = 5 -> At(DirNormal, Under(3, "b"))
                     [] OTHER -> NoNode],
     dent  |-> [i \in Inodes |->
                   CASE i = 1 -> [n \in MCNames |-> IF n = "a" THEN ToInode(2) ELSE ToInode(3)]
                     [] i = 2 -> [NoDent EXCEPT !["a"] = ToInode(4)]
                     [] i = 3 -> [NoDent EXCEPT !["b"] = ToInode(5)]
                     [] OTHER -> NoDent]]

\* 1 = /, 2 = /a over a DirObject, 3 = /a/b a file being written
OneFile ==
    [nodes |-> [i \in Inodes |->
                   CASE i = 1 -> DirNormal
                     [] i = 2 -> At(DirOverlay(DirObj(MCBaseDir)), Under(1, "a"))
                     [] i = 3 -> At(Node("working", NoObj), Under(2, "b"))
                     [] OTHER -> NoNode],
     dent  |-> [i \in Inodes |->
                   CASE i = 1 -> [NoDent EXCEPT !["a"] = ToInode(2)]
                     [] i = 2 -> [NoDent EXCEPT !["b"] = ToInode(3)]
                     [] OTHER -> NoDent]]

MCInitTrees == {TwoDirs, OneFile}
MCTwoDirs == {TwoDirs}
MCCalls == {"create_dir", "set_file", "set_dir", "symlink", "delete", "publish"}
=============================================================================
