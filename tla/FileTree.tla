------------------------------ MODULE FileTree ------------------------------
(***************************************************************************)
(* What a mount promises: a tree of files that one request after another   *)
(* reads and changes, as the calls of Python's pathlib on a directory of   *)
(* the host would.  A request is served completely, is refused and changes *)
(* nothing, or does not fit a limit and changes nothing.  Symbolic links   *)
(* are there to be listed; no request goes through one or moves one.       *)
(***************************************************************************)
EXTENDS Integers, Sequences, SequencesExt, FiniteSets

CONSTANTS
    Paths,          \* sequences of names, <<>> is the mount's root
    Data            \* what programs write

Node(kind, content) == [kind |-> kind, content |-> content]
Nothing == Node("none", <<>>)
Dir == Node("dir", <<>>)
Link == Node("link", <<>>)
FileOf(content) == Node("file", content)

Requests ==
    [op : {"write", "append"}, path : Paths, data : Data]
        \cup [op : {"open_append", "create_exclusive", "unlink", "rmdir"}, path : Paths]
        \cup [op : {"mkdir"}, path : Paths, parents : BOOLEAN, exist_ok : BOOLEAN]
        \cup [op : {"rename"}, path : Paths, dst : Paths]
Answers == [op : {"ok", "error", "limit"}]

VARIABLES
    tree,           \* the node at each path
    request         \* what the program asks for, or the last answer

Parent(p) == Front(p)
Above(p) == {SubSeq(p, 1, i) : i \in 1 .. Len(p) - 1}
Below(p) == {q \in Paths : IsStrictPrefix(p, q)}
Children(p) == {q \in Paths : q # <<>> /\ Parent(q) = p}
Is(p, kind) == tree[p].kind = kind

CanHold(p) == p = <<>> \/ Is(Parent(p), "dir")
Empty(p) == \A q \in Children(p) : Is(q, "none")
Rest(p, q) == SubSeq(q, Len(p) + 1, Len(q))

(* Whether the request can be served, by the tree alone.                   *)
Allowed(r) ==
    LET p == r.path IN
    CASE r.op \in {"write", "append", "open_append"} ->
            CanHold(p) /\ tree[p].kind \in {"none", "file"}
      [] r.op = "create_exclusive" -> CanHold(p) /\ Is(p, "none")
      [] r.op = "unlink" -> Is(p, "file")
      [] r.op = "rmdir" -> p # <<>> /\ Is(p, "dir") /\ Empty(p)
      [] r.op = "mkdir" ->
            \/ Is(p, "dir") /\ r.exist_ok
            \/ /\ Is(p, "none")
               /\ IF r.parents THEN \A q \in Above(p) : tree[q].kind \in {"none", "dir"}
                               ELSE CanHold(p)
      [] r.op = "rename" ->
            /\ p # <<>> /\ r.dst # <<>> /\ CanHold(r.dst)
            /\ tree[p].kind \in {"file", "dir"}
            /\ Is(r.dst, "none") \/ (Is(r.dst, tree[p].kind) /\ Empty(r.dst))
            /\ ~IsStrictPrefix(p, r.dst)
            /\ \A q \in Below(p) : ~Is(q, "link")

(* The tree afterwards.                                                    *)
Effect(r) ==
    LET p == r.path IN
    CASE r.op = "write" -> [tree EXCEPT ![p] = FileOf(r.data)]
      [] r.op = "append" -> [tree EXCEPT ![p] = FileOf(@.content \o r.data)]
      [] r.op = "open_append" -> [tree EXCEPT ![p] = FileOf(@.content)]
      [] r.op = "create_exclusive" -> [tree EXCEPT ![p] = FileOf(<<>>)]
      [] r.op \in {"unlink", "rmdir"} -> [tree EXCEPT ![p] = Nothing]
      [] r.op = "mkdir" -> [q \in Paths |-> IF q = p \/ q \in Above(p) THEN Dir ELSE tree[q]]
      [] r.op = "rename" ->
            [q \in Paths |-> IF IsPrefix(r.dst, q)
                             THEN IF p \o Rest(r.dst, q) \in Paths
                                  THEN tree[p \o Rest(r.dst, q)] ELSE Nothing
                             ELSE IF IsPrefix(p, q) THEN Nothing ELSE tree[q]]

Ask == request \in Answers /\ request' \in Requests /\ UNCHANGED tree
Serve ==
    /\ request \in Requests
    /\ \/ /\ Allowed(request) /\ tree' = Effect(request)
          /\ request' = [op |-> "ok"]
       \/ ~Allowed(request) /\ UNCHANGED tree /\ request' = [op |-> "error"]
       \/ UNCHANGED tree /\ request' = [op |-> "limit"]

Next == Serve \/ Ask

WellFormed ==
    /\ Is(<<>>, "dir")
    /\ \A p \in Paths : p # <<>> /\ ~Is(p, "none") => Is(Parent(p), "dir")
Init == WellFormed /\ request = [op |-> "ok"]
Spec == Init /\ [][Next]_<<tree, request>>
=============================================================================
