----------------------------- MODULE MCMetaStore -----------------------------
(* A small flist for TLC: the file /f, the special /n, the directory /s    *)
(* and the file /e in the root, the link /s/g under it.  The rights of the *)
(* directories have a row with a name, those of the files of the root a    *)
(* row with a number, those of /s/g none.                                  *)
EXTENDS MetaStore, TLC

CONSTANTS t1, t2

F == <<"f">>
N == <<"n">>
S == <<"s">>
E == <<"e">>
G == <<"s", "g">>

ContentsOf == <<>> :> <<F, N, S, E>> @@ S :> <<G>>
KindMap == F :> "file" @@ N :> "special" @@ S :> "dir" @@ E :> "file" @@ G :> "link"
AskedFor == {S, E, G, N, <<"f", "g">>}
AclOf == [p \in {F, N, E} |-> "file"] @@ [p \in {<<>>, S} |-> "dirs"] @@ G :> "gone"
AciOf == "dirs" :> "name" @@ "file" :> "id" @@ "gone" :> "norow"
ThreadSymmetry == Permutations(Threads)
=============================================================================
