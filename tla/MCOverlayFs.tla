----------------------------- MODULE MCOverlayFs -----------------------------
EXTENDS OverlayFs

MCPaths ==
    {<<>>, <<"a">>, <<"b">>, <<"a", "a">>, <<"b", "a">>, <<"a", "a", "a">>, <<"b", "a", "a">>}
MCData == {<<>>, <<"w">>}

(* Every real file has contents of its own.                                *)
Own(p) == <<FoldLeft(LAMBDA text, name : text \o name, "", p)>>
N(kind, content) == [kind |-> kind, content |-> content]
Holding(dirs, files, links) ==
    [p \in MCPaths |-> IF p \in dirs \cup {<<>>} THEN N("dir", <<>>)
                       ELSE IF p \in files THEN N("file", Own(p))
                       ELSE IF p \in links THEN N("link", <<>>) ELSE N("none", <<>>)]
(* A directory in a directory with a file in it; two directories, with a   *)
(* file in one and a link in the other; a file and an empty directory.     *)
MCBases ==
    {Holding({<<"a">>, <<"a", "a">>}, {<<"a", "a", "a">>}, {}),
     Holding({<<"a">>, <<"b">>}, {<<"a", "a">>}, {<<"b", "a">>}),
     Holding({<<"b">>, <<"b", "a">>}, {<<"a">>}, {})}
==============================================================================
