----------------------------- MODULE MCDirSync -----------------------------
(***************************************************************************)
(* Trees of two items a and b, and an item x in a if a is a directory.  A  *)
(* destination file may have the source's contents, others of the same     *)
(* size or of another, with the source's time or another.                  *)
(***************************************************************************)
EXTENDS DirSync

MCPath == {<<>>, <<"a">>, <<"b">>, <<"a", "x">>}

MCSize == [d \in {"cut", "text", "same_size", "longer"} |->
              CASE d = "cut" -> 0 [] d = "longer" -> 2 [] OTHER -> 1]

MCUmask == [m \in {"group", "owner"} |-> "owner"]

File(d, t, m) == [kind |-> "file", data |-> d, mtime |-> t, mode |-> m]

Dir(t, m) == [kind |-> "dir", data |-> "cut", mtime |-> t, mode |-> m]

Trees(items) ==
    {t \in [MCPath -> items] :
        /\ t[<<>>].kind = "dir"
        /\ t[<<"a">>].kind = "dir" \/ t[<<"a", "x">>] = None}

MCSrcTrees == Trees({None, File("text", 1, "owner"), Dir(1, "group")})

MCDstTrees ==
    {t \in Trees({None, File("text", 1, "owner"), File("same_size", 1, "owner"),
                  File("same_size", 2, "group"), File("longer", 1, "owner"), Dir(1, "owner")}) :
        t[<<>>] = Dir(1, "owner")}
=============================================================================
