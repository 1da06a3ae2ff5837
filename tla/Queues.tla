------------------------------- MODULE Queues -------------------------------
(***************************************************************************)
(* What the components do with the queues and stacks they keep.  The       *)
(* operators are those of SequencesExt, whose bags and sets of sequences   *)
(* no component needs and every proof obligation would carry along.        *)
(***************************************************************************)
EXTENDS Integers, Sequences, Functions

(* The top of a stack, and the stack without it.                           *)
Last(s) == s[Len(s)]
Front(s) == SubSeq(s, 1, Len(s) - 1)

(* The queue without the entry at place i.                                 *)
RemoveAt(s, i) == SubSeq(s, 1, i - 1) \o SubSeq(s, i + 1, Len(s))

(* The queue without its first entry for e, if it has one.  The ready      *)
(* queue's retain would drop them all; it never has two (ReadyQueueSound). *)
RemoveFirst(s, e) ==
    LET at == {i \in DOMAIN s : s[i] = e}
    IN  IF at = {} THEN s ELSE RemoveAt(s, CHOOSE i \in at : \A j \in at : i <= j)
=============================================================================
