------------------------------- MODULE MCHeap -------------------------------
(* Instances of Heap for TLC.                                              *)
EXTENDS Heap, TLC

RootSymmetry == Permutations(Roots)

=============================================================================
