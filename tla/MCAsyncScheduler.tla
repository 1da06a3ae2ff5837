-------------------------- MODULE MCAsyncScheduler --------------------------
(* AsyncScheduler with every choice of gather items up to a length.        *)
EXTENDS AsyncScheduler, TLC

CONSTANT MaxItems

ItemsUpTo(n, S) == UNION {[1..k -> S] : k \in 0..n}

AllItems ==
    {it \in [Gathers -> ItemsUpTo(MaxItems, Awaitables)] :
        \A g \in Gathers : Range(it[g]) \subseteq Coros \cup Exts \cup 1..(g - 1)}

Symmetry == Permutations(Coros) \cup Permutations(Exts)
====
