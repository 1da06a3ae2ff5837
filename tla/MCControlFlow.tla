--------------------------- MODULE MCControlFlow ---------------------------
(* Programs of one loop with a spine of constructs in it, each inside the  *)
(* one before, and a leaf at the end of the spine; each construct has      *)
(* leaves of its own beside the spine.  Every spine of two constructs with *)
(* every leaf, the same leaves beside both or calls beside one; and every  *)
(* spine of three with returns beside it and every exit at its end.        *)
EXTENDS ControlFlow

Leaves == {"call", "break", "continue", "return", "raise"}
(* Where the spine goes on: in the body, or in the clause after it.        *)
Constructs == {"for", "while", "with", "finally_body", "finally", "except_body", "except", "all_body"}

Stmt(op, body) ==
    [op |-> op, call |-> FALSE, body |-> body, handlers |-> <<>>, orelse |-> <<>>, finally |-> <<>>]

(* A leaf at nodes n .. n + 2: a call, a bare `raise`, or an exit taken or *)
(* not, with a call after it.                                              *)
LeafBlock(leaf, n) == IF leaf \in {"call", "raise"} THEN <<n>> ELSE <<n, n + 1>>
LeafNodes(leaf, n) ==
    IF leaf \in {"call", "raise"} THEN n :> Stmt(leaf, <<>>)
    ELSE n :> Stmt("if", <<n + 2>>) @@ (n + 1) :> Stmt("call", <<>>)
         @@ (n + 2) :> [Stmt(leaf, <<>>) EXCEPT !.call = n > 30]

(* The construct around `inner`, with a leaf of nodes n .. n + 5 beside.   *)
Handler(typed, named, body) == [typed |-> typed, named |-> named, body |-> body]
Construct(kind, inner, leaf, n) ==
    LET side == LeafBlock(leaf, n)
        other == LeafBlock(leaf, n + 3)
    IN
    CASE kind \in {"for", "while"} -> [Stmt(kind, inner) EXCEPT !.orelse = side]
      [] kind = "with" -> Stmt("with", inner \o side)
      [] kind = "finally_body" -> [Stmt("try", inner) EXCEPT !.finally = side]
      [] kind = "finally" -> [Stmt("try", side) EXCEPT !.finally = inner]
      [] kind = "except_body" ->
            [Stmt("try", inner) EXCEPT !.handlers = <<Handler(TRUE, TRUE, side)>>, !.orelse = other]
      [] kind = "except" ->
            [Stmt("try", side) EXCEPT !.handlers = <<Handler(TRUE, TRUE, inner), Handler(FALSE, FALSE, other)>>]
      [] kind = "all_body" ->
            [Stmt("try", inner) EXCEPT !.handlers = <<Handler(FALSE, TRUE, side)>>, !.finally = other]
SideNodes(leaf, n) == LeafNodes(leaf, n) @@ LeafNodes(leaf, n + 3)

Spines(m) == [1 .. m -> Constructs]
Sides(m) == {f \in [1 .. m -> Leaves] : \A i, j \in 1 .. m : f[i] # f[j] => "call" \in {f[i], f[j]}}
MCNames ==
    [spine : Spines(2), sides : Sides(2), leaf : Leaves]
    \cup [spine : Spines(3), sides : {[i \in 1 .. 3 |-> "return"]}, leaf : Leaves \ {"call"}]
MCProgram(k) ==
    LET m == Len(k.spine)
        Inner(i) == IF i < m THEN <<4 + i>> ELSE LeafBlock(k.leaf, 40)
        spine == [n \in 4 .. 3 + m |-> Construct(k.spine[n - 3], Inner(n - 3), k.sides[n - 3], 10 * (n - 3))]
    IN 1 :> Stmt("body", <<2, 3>>) @@ 2 :> Stmt("for", <<4>>) @@ 3 :> Stmt("call", <<>>)
       @@ spine @@ LeafNodes(k.leaf, 40)
       @@ FoldLeft(LAMBDA f, i : f @@ SideNodes(k.sides[i], 10 * i), <<>>, [i \in 1 .. m |-> i])
=============================================================================
