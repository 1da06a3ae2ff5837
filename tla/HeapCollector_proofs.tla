------------------------ MODULE HeapCollector_proofs ------------------------
(***************************************************************************)
(* A collection keeps the heap's invariant, phase by phase: mark takes the *)
(* edges below the candidates off the counts, scan condemns what no count  *)
(* keeps alive, mark_black puts the edges below a survivor back, and       *)
(* collect_white frees what was condemned.  The theorems about the whole   *)
(* heap follow, and that it implements ObjectGraph.                        *)
(***************************************************************************)
EXTENDS Heap_proofs

(* A leaf that names no prover is for Zenon.                               *)
USE ZenonT(60)

(* Library theorems that no proof here cites.                              *)
HIDE DEF AppendInjective, AppendIsConcat, AppendProperties,
         ConcatAdjacentSubSeq, ConcatAssociative, ConcatEmptySeq,
         ConcatEqualIffEmpty, ConcatProperties, ConcatSimplifications,
         DownwardNatInduction, EmptyIsWellFounded, EmptySeq, ExceptSeq,
         FS_AddElement, FS_Bijection, FS_BoundedSetOfNaturals,
         FS_CardinalityType, FS_CountingElements, FS_Difference,
         FS_FiniteSubsetsOfFinite, FS_Image, FS_Induction, FS_Injection,
         FS_Intersection, FS_Interval, FS_MajoritiesIntersect,
         FS_NatBijection, FS_NatSurjection, FS_PigeonHole, FS_Product,
         FS_RemoveElement, FS_SUBSET, FS_SameCardinalityBij, FS_Singleton,
         FS_StrictSubsetOrderingWellFounded, FS_Subset,
         FS_SurjCardinalityBound, FS_SurjSameCardinalityImpliesInj,
         FS_Surjection, FS_UNION, FS_Union, FS_WFInduction,
         FiniteNatInductiveDef, FiniteNatInductiveDefType,
         FiniteNatInductiveUnique, GeneralNatInduction, HeadTailAppend,
         HeadTailOfSubSeq, HeadTailProperties, IsASeq,
         IsWellFoundedOnSubrelation, IsWellFoundedOnSubset, MinWF,
         NatInduction, NatInductiveDef, NatInductiveDefType,
         NatInductiveUnique, NatLessThanWellFounded, PreImageWellFounded,
         RTCTC, RangeConcatenation, RangeEquality, RangeOfSeq,
         RecursiveFcnOfNat, RecursiveFcnOfNatType, RecursiveFcnOfNatUnique,
         SeqDef, SeqEqual, SeqMonotonic, SeqOfRange, SequenceEmptyOrAppend,
         SequencesInductionAppend, SequencesInductionTail, SetLessTransitive,
         SmallestNatural, SubSeqEmpty, SubSeqFull, SubSeqOfConcat1,
         SubSeqOfConcat2, SubSeqOfSubSeq, SubSeqProperties,
         SubSeqRecursiveFirst, SubSeqRecursiveSecond, SubSeqRestrict, TCRTC,
         TCTCTC, TailIsSubSeq, TransitiveClosureChopLast,
         TransitiveClosureMinimal, TransitiveClosureThm, TransitiveClosureWF,
         WFDefOnUnique, WFInduction, WFInductiveDef, WFInductiveDefLemma,
         WFInductiveDefType, WFLexPairOrdering, WFLexProductOrdering, WFMin,
         WFSetLessThanIrreflexive, WellFoundedIsAsymmetric,
         WellFoundedIsIrreflexive

-----------------------------------------------------------------------------
(* A step that takes one edge off, or puts one back, and the count of the  *)
(* entry the edge names with it.                                           *)
OneEdge(q, j, c) ==
    /\ q \in Ids /\ j \in DOMAIN data[q] /\ c = data[q][j]
    /\ \A p \in Ids : \A i \in DOMAIN data[p] :
         p # q \/ i # j => (TakenOff(p, i)' <=> TakenOff(p, i))

(* mark_gray takes an edge off.                                            *)
LEMMA EdgeTakenOff ==
    ASSUME HeapInv, pc \in Collecting, data' = data, NEW q, NEW j, NEW c \in LiveIds,
           OneEdge(q, j, c), ~TakenOff(q, j), TakenOff(q, j)',
           refcount' = [refcount EXCEPT ![c] = @ - 1]
    PROVE  \A e \in LiveIds :
             refcount'[e] = Cardinality(RootRefs(e)) + Cardinality(EdgeRefs(e)')
<1>1. ASSUME NEW e \in LiveIds
      PROVE  refcount'[e] = Cardinality(RootRefs(e)) + Cardinality(EdgeRefs(e)')
  <2>1. /\ refcount[e] = Cardinality(RootRefs(e)) + Cardinality(EdgeRefs(e))
        /\ IsFiniteSet(EdgeRefs(e)) /\ Cardinality(EdgeRefs(e)) \in Nat
        /\ Cardinality(RootRefs(e)) \in Nat /\ e \in Ids /\ refcount \in [Ids -> Int]
    BY CollectFacts DEF LiveIds, TypeOK
  <2>2. q \in Ids /\ j \in 1..Width
    <3>1. q \in Ids /\ j \in DOMAIN data[q]
      BY DEF OneEdge
    <3> QED BY SMTT(30), <3>1, CollectFacts, SizeAssumption
  <2>3. CASE e = c
    <3>1. EdgeRefs(e)' = EdgeRefs(e) \ {<<q, j>>} /\ <<q, j>> \in EdgeRefs(e)
      BY SMTT(30), <2>2, <2>3 DEF EdgeRefs, OneEdge
    <3>2. Cardinality(EdgeRefs(e)') = Cardinality(EdgeRefs(e)) - 1
      BY <2>1, <3>1, Shrunk
    <3> QED BY SMTT(30), <2>1, <2>3, <3>2
  <2>4. CASE e # c
    <3>1. EdgeRefs(e)' = EdgeRefs(e)
      BY <2>2, <2>4 DEF EdgeRefs, OneEdge
    <3>2. Cardinality(EdgeRefs(e)') = Cardinality(EdgeRefs(e))
      BY <3>1
    <3> QED BY <2>1, <2>4, <3>2
  <2> QED BY <2>3, <2>4
<1> QED BY <1>1

(* mark_black puts it back.                                                *)
LEMMA EdgePutBack ==
    ASSUME HeapInv, pc \in Collecting, data' = data, NEW q, NEW j, NEW c \in LiveIds,
           OneEdge(q, j, c), TakenOff(q, j), ~TakenOff(q, j)',
           refcount' = [refcount EXCEPT ![c] = @ + 1]
    PROVE  \A e \in LiveIds :
             refcount'[e] = Cardinality(RootRefs(e)) + Cardinality(EdgeRefs(e)')
<1>1. ASSUME NEW e \in LiveIds
      PROVE  refcount'[e] = Cardinality(RootRefs(e)) + Cardinality(EdgeRefs(e)')
  <2>1. /\ refcount[e] = Cardinality(RootRefs(e)) + Cardinality(EdgeRefs(e))
        /\ IsFiniteSet(EdgeRefs(e)) /\ Cardinality(EdgeRefs(e)) \in Nat
        /\ Cardinality(RootRefs(e)) \in Nat /\ e \in Ids /\ refcount \in [Ids -> Int]
    BY CollectFacts DEF LiveIds, TypeOK
  <2>2. q \in Ids /\ j \in 1..Width
    <3>1. q \in Ids /\ j \in DOMAIN data[q]
      BY DEF OneEdge
    <3> QED BY SMTT(30), <3>1, CollectFacts, SizeAssumption
  <2>3. CASE e = c
    <3>1. EdgeRefs(e)' = EdgeRefs(e) \cup {<<q, j>>} /\ <<q, j>> \notin EdgeRefs(e)
      BY SMTT(30), <2>2, <2>3 DEF EdgeRefs, OneEdge
    <3>2. Cardinality(EdgeRefs(e)') = Cardinality(EdgeRefs(e)) + 1
      BY <2>1, <3>1, Grown
    <3> QED BY SMTT(30), <2>1, <2>3, <3>2
  <2>4. CASE e # c
    <3>1. EdgeRefs(e)' = EdgeRefs(e)
      BY <2>2, <2>4 DEF EdgeRefs, OneEdge
    <3>2. Cardinality(EdgeRefs(e)') = Cardinality(EdgeRefs(e))
      BY <3>1
    <3> QED BY <2>1, <2>4, <3>2
  <2> QED BY <2>3, <2>4
<1> QED BY <1>1

(* One edge of mark_gray: the child is gray from now on and waits once.    *)
LEMMA MarkEdgeInv ==
    ASSUME HeapInv, MarkEdge
    PROVE  HeapInv'
<1>0. /\ pc = "mark" /\ edge <= Len(data[cur]) /\ TypeOK /\ edge' = edge + 1
      /\ UNCHANGED <<len, free, kind, readers, data, key, purple_count,
                     allocations_since_gc, weak, root, pc, black_stack, cur, seeds, cursor,
                     pinned>>
  BY DEF MarkEdge, arena, counters, HeapInv
<1>1. /\ pc \in Collecting /\ black_stack = <<>> /\ Distinct(work_stack)
      /\ Members(work_stack) \subseteq Colored("gray")
      /\ cur \in Colored("gray") \ Members(work_stack)
      /\ Colored("white") = {} /\ (\A e \in Colored("purple") : e >= cursor)
      /\ Reached(color, data, Members(seeds), "gray", Colored("gray"))
      /\ \A e \in Members(seeds) : Live(e)
      /\ \A e \in Members(work_stack) : Live(e)
  BY <1>0 DEF HeapInv, Shape, ColorsOK, StacksOK, ReachOK, Collecting, NoDangling
<1>2. /\ cur \in Ids /\ edge \in DOMAIN data[cur] /\ edge \in Nat /\ work_stack \in Seq(Ids)
      /\ color \in [Ids -> Colors] /\ refcount \in [Ids -> Int]
  <2>1. cur \in Ids
    BY <1>1 DEF Colored
  <2>2. /\ edge \in Nat \ {0} /\ work_stack \in Seq(Ids)
        /\ color \in [Ids -> Colors] /\ refcount \in [Ids -> Int]
    BY <1>0 DEF TypeOK
  <2>3. DOMAIN data[cur] = 1..Len(data[cur]) /\ Len(data[cur]) \in Nat
    BY SMTT(30), <1>1, <2>1, CollectFacts
  <2> QED BY SMTT(30), <1>0, <2>1, <2>2, <2>3
<1>3. PICK c \in LiveIds : c = data[cur][edge]
  BY <1>0, <1>1, <1>2, CollectFacts DEF Members, LiveIds
<1>4. /\ refcount' = [refcount EXCEPT ![c] = @ - 1]
      /\ color' = [color EXCEPT ![c] = "gray"]
      /\ work_stack' = IF color[c] = "gray" THEN work_stack ELSE Append(work_stack, c)
      /\ c \in Ids /\ Live(c)
  BY <1>3 DEF MarkEdge, LiveIds
<1>5. /\ color'[c] = "gray" /\ \A e \in Ids : e # c => color'[e] = color[e]
      /\ Colored("gray")' = Colored("gray") \cup {c} /\ Colored("white")' = {}
      /\ Colored("purple")' \subseteq Colored("purple")
  BY <1>1, <1>2, <1>4 DEF Colored
<1>6. /\ work_stack' \in Seq(Ids) /\ Distinct(work_stack')
      /\ Members(work_stack') = Members(work_stack) \cup (IF color[c] = "gray" THEN {} ELSE {c})
  <2>1. CASE color[c] = "gray"
    BY <1>1, <1>2, <1>4, <2>1
  <2>2. CASE color[c] # "gray"
    <3>1. c \notin Members(work_stack) /\ work_stack' = Append(work_stack, c)
      BY <1>1, <1>4, <2>2 DEF Colored
    <3> QED BY SMTT(30), <1>1, <1>2, <1>4, <2>2, <3>1, PushFacts
  <2> QED BY <2>1, <2>2
<1>7. TypeOK'
  <2>1. color' \in [Ids -> Colors] /\ refcount' \in [Ids -> Int] /\ edge' \in Nat \ {0}
    BY SMTT(30), <1>0, <1>2, <1>4 DEF Colors
  <2> QED BY <1>0, <1>6, <2>1 DEF TypeOK
<1>8. ColorsOK' /\ StacksOK'
  <2>1. color[cur] = "gray"
    BY <1>1 DEF Colored
  <2>2. cur \notin Members(work_stack')
    BY <1>1, <1>6, <2>1
  <2>3. Members(work_stack') \subseteq Colored("gray")'
    BY <1>1, <1>5, <1>6
  <2> QED BY <1>0, <1>1, <1>5, <1>6, <2>2, <2>3 DEF ColorsOK, StacksOK, Live
<1>9. ReachOK'
  <2>1. Reached(color', data, Members(seeds), "gray", Colored("gray")')
    <3>1. \A p \in Ids : color[p] = "gray" => color'[p] = "gray"
      BY <1>5
    <3>2. Colored("gray") \in SUBSET Ids
      BY DEF Colored
    <3>3. color'[cur] = "gray" /\ c \in Members(data[cur])
      BY <1>1, <1>2, <1>3, <1>5 DEF Colored, Members
    <3>4. \A t \in Colored("gray")' : t \in Colored("gray")
            \/ \E p \in Colored("gray") : color'[p] = "gray" /\ t \in Members(data[p])
      BY <1>1, <1>5, <3>3
    <3> QED BY <1>1, <3>1, <3>2, <3>4, ReachMore
  <2> QED BY <1>0, <2>1 DEF ReachOK
<1>10. \A e \in LiveIds : refcount'[e] = Cardinality(RootRefs(e)) + Cardinality(EdgeRefs(e)')
  <2>0. PICK q \in Ids, j \in Nat : q = cur /\ j = edge
    BY <1>2
  <2>1. ~TakenOff(q, j) /\ TakenOff(q, j)'
    <3>1. ~TakenOff(q, j)
      BY SMTT(30), <1>0, <1>2, <2>0 DEF TakenOff
    <3>2. color'[q] = "gray" /\ q \notin Members(work_stack') /\ cur' = q /\ j < edge'
      BY SMTT(30), <1>0, <1>1, <1>2, <1>5, <1>6, <2>0 DEF Colored
    <3>3. TakenOff(q, j)'
      BY <1>0, <3>2 DEF TakenOff
    <3> QED BY <3>1, <3>3
  <2>2. ASSUME NEW p \in Ids, NEW i \in DOMAIN data[p], p # cur \/ i # edge
        PROVE  TakenOff(p, i)' <=> TakenOff(p, i)
    <3>1. i \in Nat
      BY SMTT(30), <1>1, CollectFacts
    <3>2. TakenOff(p, i) <=> /\ color[p] = "gray" /\ p \notin Members(work_stack)
                             /\ p = cur => i < edge
      BY <1>0 DEF TakenOff
    <3>3. TakenOff(p, i)' <=> /\ color'[p] = "gray" /\ p \notin Members(work_stack')
                              /\ p = cur => i < edge + 1
      BY <1>0 DEF TakenOff
    <3>4. color[p] = "gray" /\ p \notin Members(work_stack)
            <=> color'[p] = "gray" /\ p \notin Members(work_stack')
      BY <1>1, <1>5, <1>6
    <3>5. p = cur => (i < edge <=> i < edge + 1)
      BY SMTT(30), <1>2, <2>2, <3>1
    <3> QED BY <3>2, <3>3, <3>4, <3>5
  <2>3. OneEdge(q, j, c)
    BY <1>2, <1>3, <2>0, <2>2 DEF OneEdge
  <2>4. data' = data
    BY <1>0
  <2> QED BY <1>1, <1>4, <2>1, <2>3, <2>4, EdgeTakenOff
<1>11. \A e \in Ids : ~Live(e) => color'[e] = "black"
  BY <1>1, <1>4, <1>5, CollectFacts
<1>12. \A e \in Members(work_stack') : Live(e)
  BY <1>1, <1>4, <1>6
<1> QED BY <1>0, <1>1, <1>7, <1>8, <1>9, <1>10, <1>11, <1>12, CollectorStep

(* mark_gray goes on to the next entry, or back to the pass.               *)
LEMMA MarkNextInv ==
    ASSUME HeapInv, MarkNext
    PROVE  HeapInv'
<1>0. /\ pc = "mark" /\ edge > Len(data[cur]) /\ TypeOK /\ edge' = 1
      /\ UNCHANGED <<len, free, kind, refcount, readers, color, data, key, purple_count,
                     allocations_since_gc, weak, root, black_stack, seeds, cursor, pinned>>
  BY DEF MarkNext, arena, entries, counters, HeapInv
<1>1. /\ pc \in Collecting /\ black_stack = <<>> /\ Distinct(work_stack)
      /\ Members(work_stack) \subseteq Colored("gray")
      /\ cur \in Colored("gray") \ Members(work_stack)
      /\ Colored("white") = {} /\ (\A e \in Colored("purple") : e >= cursor)
      /\ Reached(color, data, Members(seeds), "gray", Colored("gray"))
      /\ \A e \in Members(seeds) : Live(e)
      /\ \A e \in Members(work_stack) : Live(e)
  BY <1>0 DEF HeapInv, Shape, ColorsOK, StacksOK, ReachOK, Collecting, NoDangling
<1>2. /\ cur \in Ids /\ edge \in Nat /\ work_stack \in Seq(Ids)
      /\ \A p \in Ids : \A i \in DOMAIN data[p] : i \in Nat /\ i >= 1 /\ (p = cur => i < edge)
  <2>1. cur \in Ids
    BY <1>1 DEF Colored
  <2>2. /\ edge \in Nat \ {0} /\ work_stack \in Seq(Ids)
    BY <1>0 DEF TypeOK
  <2>3. \A p \in Ids : DOMAIN data[p] = 1..Len(data[p]) /\ Len(data[p]) \in Nat
    BY SMTT(30), <1>1, CollectFacts
  <2> QED BY SMTT(30), <1>0, <2>1, <2>2, <2>3
<1>3. \A e \in Ids : ~Live(e) => color'[e] = "black"
  BY <1>0, <1>1, CollectFacts
<1>4. ASSUME pc' \in {"find", "mark"} PROVE ReachOK' /\ ColorsOK'
  BY <1>0, <1>1, <1>4 DEF ReachOK, ColorsOK, Colored
<1>5. CASE work_stack = <<>> /\ pc' = "find" /\ cur' = Nil /\ work_stack' = work_stack
  <2>1. TypeOK'
    BY SMTT(30), <1>0, <1>5 DEF TypeOK
  <2>2. StacksOK'
    BY <1>0, <1>1, <1>5 DEF StacksOK, Live
  <2>3. \A p \in Ids : \A i \in DOMAIN data[p] : TakenOff(p, i)' <=> TakenOff(p, i)
    BY SMTT(30), <1>0, <1>2, <1>5 DEF TakenOff, Members
  <2>4. \A e \in LiveIds : refcount'[e] = Cardinality(RootRefs(e)) + Cardinality(EdgeRefs(e)')
    BY <1>0, <1>1, <2>3, SameEdges
  <2>5. pc' \in Collecting
    BY <1>5 DEF Collecting
  <2> QED BY <1>0, <1>1, <1>3, <1>4, <1>5, <2>1, <2>2, <2>4, <2>5, CollectorStep
<1>6. CASE /\ work_stack # <<>> /\ cur' = Last(work_stack) /\ work_stack' = Pop(work_stack)
           /\ pc' = pc
  <2>0. /\ cur' \in Ids /\ work_stack' \in Seq(Ids) /\ Distinct(work_stack')
        /\ Members(work_stack) = Members(work_stack') \cup {cur'}
        /\ cur' \notin Members(work_stack')
    <3>1. PICK x : x = Last(work_stack)
      OBVIOUS
    <3>2. PICK w : w = Pop(work_stack)
      OBVIOUS
    <3>3. /\ x \in Ids /\ w \in Seq(Ids) /\ Distinct(w)
          /\ Members(work_stack) = Members(w) \cup {x} /\ x \notin Members(w)
      BY <1>1, <1>2, <1>6, <3>1, <3>2, PopFacts
    <3> QED BY <1>6, <3>1, <3>2, <3>3
  <2>1. TypeOK'
    <3>1. cur' \in Ids \cup {Nil} /\ edge' \in Nat \ {0} /\ work_stack' \in Seq(Ids) /\ pc' = "mark"
      BY SMTT(30), <1>0, <1>6, <2>0
    <3> QED BY <1>0, <3>1 DEF TypeOK
  <2>2. StacksOK'
    BY <1>0, <1>1, <1>6, <2>0 DEF StacksOK, Live, Colored
  <2>3. ASSUME NEW p \in Ids, NEW i \in DOMAIN data[p] PROVE TakenOff(p, i)' <=> TakenOff(p, i)
    <3>1. TakenOff(p, i) <=> color[p] = "gray" /\ p \notin Members(work_stack)
      BY <1>0, <1>2 DEF TakenOff
    <3>2. TakenOff(p, i)' <=> color[p] = "gray" /\ p \notin Members(work_stack') /\ p # cur'
      BY SMTT(30), <1>0, <1>2, <1>6 DEF TakenOff
    <3> QED BY <2>0, <3>1, <3>2
  <2>4. \A e \in LiveIds : refcount'[e] = Cardinality(RootRefs(e)) + Cardinality(EdgeRefs(e)')
    BY <1>0, <1>1, <2>3, SameEdges
  <2>5. \A e \in Members(work_stack') : Live(e)
    BY <1>1, <2>0
  <2> QED BY <1>0, <1>1, <1>3, <1>4, <1>6, <2>1, <2>2, <2>4, <2>5, CollectorStep
<1> QED BY <1>5, <1>6 DEF MarkNext

-----------------------------------------------------------------------------
(* What the invariant says in scan and mark_black.                         *)
LEMMA ScanFacts ==
    ASSUME HeapInv, pc \in {"scan", "black"}
    PROVE  /\ TypeOK /\ pc \in Collecting /\ Colored("purple") = {}
           /\ \A e \in Colored("white") : refcount[e] = 0 /\ readers[e] = 0
           /\ \A e \in Members(seeds) : Live(e)
           /\ \A e \in Members(work_stack) : Live(e)
           /\ work_stack \in Seq(Ids) /\ black_stack \in Seq(Ids) /\ edge \in Nat \ {0}
           /\ color \in [Ids -> Colors] /\ refcount \in [Ids -> Int]
           /\ Members(work_stack) \subseteq Ids
           /\ Reached(color, data, Members(work_stack) \cup Pending, "gray", Colored("gray"))
           /\ Reached(color, data, Members(seeds) \cup (IF pc = "black" THEN Pending ELSE {}),
                      "white",
                      Colored("white") \cup (Colored("gray") \cap Members(work_stack)))
           /\ \A e \in Ids : color[e] # "black" => Live(e)
           /\ \A p \in Ids : \A i \in DOMAIN data[p] : i \in Nat /\ i >= 1 /\ i <= Len(data[p])
<1>1. pc \in Collecting
  BY DEF Collecting
<1>2. /\ TypeOK /\ Colored("purple") = {}
      /\ \A e \in Colored("white") : refcount[e] = 0 /\ readers[e] = 0
      /\ \A e \in Members(seeds) : Live(e)
      /\ \A e \in Members(work_stack) : Live(e)
  BY DEF HeapInv, ColorsOK, StacksOK, NoDangling
<1>3. /\ Reached(color, data, Members(work_stack) \cup Pending, "gray", Colored("gray"))
      /\ Reached(color, data, Members(seeds) \cup (IF pc = "black" THEN Pending ELSE {}),
                 "white",
                 Colored("white") \cup (Colored("gray") \cap Members(work_stack)))
  BY DEF HeapInv, ReachOK
<1>4. /\ work_stack \in Seq(Ids) /\ black_stack \in Seq(Ids) /\ edge \in Nat \ {0}
      /\ color \in [Ids -> Colors] /\ refcount \in [Ids -> Int]
  BY <1>2 DEF TypeOK
<1>5. Members(work_stack) \subseteq Ids
  BY SMTT(30), <1>4, LenProperties, ElementOfSeq DEF Members
<1>6. \A p \in Ids : \A i \in DOMAIN data[p] : i \in Nat /\ i >= 1 /\ i <= Len(data[p])
  BY SMTT(30), <1>1, CollectFacts
<1>7. \A e \in Ids : color[e] # "black" => Live(e)
  BY <1>1, CollectFacts
<1> QED BY <1>1, <1>2, <1>3, <1>4, <1>5, <1>6, <1>7

(* One pop of scan: let go, condemned or resurrected.                      *)
LEMMA ScanPopInv ==
    ASSUME HeapInv, ScanPop
    PROVE  HeapInv'
<1>0. /\ pc = "scan" /\ cur = Nil /\ work_stack # <<>> /\ work_stack' = Pop(work_stack)
      /\ UNCHANGED <<len, free, kind, refcount, readers, data, key, purple_count,
                     allocations_since_gc, weak, root, black_stack, seeds, cursor, pinned>>
  BY DEF ScanPop, arena, counters
<1>1. black_stack = <<>> /\ Pending = {} /\ black_stack' = <<>>
  <2>1. black_stack = <<>>
    BY <1>0 DEF HeapInv, Shape
  <2> QED BY SMTT(30), <1>0, <2>1 DEF Pending, Members
<1>2. PICK x \in Ids : x = Last(work_stack)
  BY <1>0, ScanFacts, PopFacts
<1>3. PICK w \in Seq(Ids) : w = work_stack' /\ Members(work_stack) = Members(w) \cup {x}
  BY <1>0, <1>2, ScanFacts, PopFacts
<1>4. /\ TypeOK /\ pc \in Collecting /\ Colored("purple") = {}
      /\ \A e \in Colored("white") : refcount[e] = 0 /\ readers[e] = 0
      /\ \A e \in Members(seeds) : Live(e)
      /\ \A e \in Members(w) : Live(e)
      /\ Live(x) /\ color \in [Ids -> Colors]
      /\ \A e \in Ids : color[e] # "black" => Live(e)
      /\ Reached(color, data, Members(work_stack), "gray", Colored("gray"))
      /\ Reached(color, data, Members(seeds), "white",
                 Colored("white") \cup (Colored("gray") \cap Members(work_stack)))
  BY <1>0, <1>1, <1>3, ScanFacts
<1>5. CASE color[x] # "gray" /\ UNCHANGED <<color, pc, cur, edge>>
  <2>1. TypeOK'
    BY <1>0, <1>3, <1>4, <1>5 DEF TypeOK
  <2>2. ColorsOK' /\ StacksOK'
    BY <1>0, <1>4, <1>5 DEF ColorsOK, StacksOK, Colored, Live
  <2>3. Pending' = {}
    BY SMTT(30), <1>0, <1>1, <1>5 DEF Pending, Members
  <2>4. Reached(color, data, Members(w), "gray", Colored("gray"))
    <3>1. x \notin Colored("gray") /\ Members(work_stack) \subseteq Members(w) \cup {x}
      BY <1>3, <1>5 DEF Colored
    <3> QED BY SMTT(30), <1>4, <1>5, <3>1, ReachWithout
  <2>5. Reached(color, data, Members(seeds), "white",
                Colored("white") \cup (Colored("gray") \cap Members(w)))
    <3>1. PICK S \in SUBSET Ids :
            S = Colored("white") \cup (Colored("gray") \cap Members(work_stack))
      BY DEF Colored
    <3>2. PICK S2 : S2 = Colored("white") \cup (Colored("gray") \cap Members(w))
      OBVIOUS
    <3>3. \A t \in S2 : t \in S
      BY <1>3, <3>1, <3>2
    <3>4. Reached(color, data, Members(seeds), "white", S)
      BY <1>4, <3>1
    <3>5. Reached(color, data, Members(seeds), "white", S2)
      BY <3>3, <3>4, ReachMore
    <3> QED BY <3>2, <3>5
  <2>6. ReachOK'
    BY <1>0, <1>3, <1>5, <2>3, <2>4, <2>5 DEF ReachOK, Colored
  <2>7. \A p \in Ids : \A i \in DOMAIN data[p] : TakenOff(p, i)' <=> TakenOff(p, i)
    BY <1>0, <1>5 DEF TakenOff
  <2>8. \A e \in LiveIds : refcount'[e] = Cardinality(RootRefs(e)) + Cardinality(EdgeRefs(e)')
    BY <1>0, <1>4, <2>7, SameEdges
  <2>9. \A e \in Ids : ~Live(e) => color'[e] = "black"
    BY <1>4, <1>5
  <2> QED BY <1>0, <1>1, <1>3, <1>4, <1>5, <2>1, <2>2, <2>6, <2>8, <2>9, CollectorStep
(* Condemned or resurrected: the entry's edges take its place.             *)
<1>6. ASSUME NEW k \in {"white", "black"}, color[x] = "gray",
             color' = [color EXCEPT ![x] = k], cur' = x, edge' = 1,
             k = "white" => pc' = "scan" /\ refcount[x] = 0 /\ readers[x] = 0,
             k = "black" => pc' = "black"
      PROVE  HeapInv'
  <2>0. /\ color'[x] = k /\ \A e \in Ids : e # x => color'[e] = color[e]
        /\ Colored("gray")' = Colored("gray") \ {x} /\ Colored("purple")' = {}
        /\ k = "white" => Colored("white")' = Colored("white") \cup {x}
        /\ k = "black" => Colored("white")' = Colored("white")
    BY <1>4, <1>6 DEF Colored
  <2>1. TypeOK' /\ pc' \in Collecting
    <3>1. /\ color' \in [Ids -> Colors] /\ cur' \in Ids \cup {Nil} /\ edge' \in Nat \ {0}
          /\ pc' \in {"scan", "black"}
      BY SMTT(30), <1>4, <1>6 DEF Colors
    <3> QED BY <1>0, <1>3, <1>4, <3>1 DEF TypeOK, Collecting
  <2>2. ColorsOK'
    <3>1. \A e \in Colored("white")' : refcount'[e] = 0 /\ readers'[e] = 0
      BY <1>0, <1>4, <1>6, <2>0
    <3> QED BY <1>6, <2>0, <3>1 DEF ColorsOK
  <2>3. StacksOK'
    <3>1. \A e \in Members(seeds') : Live(e)'
      BY <1>0, <1>4 DEF Live
    <3>2. k = "black" => /\ Distinct(black_stack') /\ Members(black_stack') = {}
                         /\ cur' \in Colored("black")' /\ Live(cur)'
      BY SMTT(30), <1>0, <1>1, <1>4, <1>6, <2>0 DEF Distinct, Members, Colored, Live
    <3>3. k = "white" => cur' \in Colored("white")'
      BY <1>6, <2>0
    <3> QED BY <1>6, <3>1, <3>2, <3>3 DEF StacksOK
  <2>4. Pending' = Members(data[x])
    <3>1. cur' = x /\ x # Nil /\ data' = data /\ Members(black_stack') = {} /\ edge' = 1
      BY SMTT(30), <1>0, <1>1, <1>6, NilAssumption DEF Members, Ids
    <3>2. \A i \in DOMAIN data[x] : i >= 1
      BY <1>0, ScanFacts
    <3>3. Members(data[x]) \subseteq Ids
      BY <1>4, CollectFacts
    <3> QED BY <3>1, <3>2, <3>3 DEF Pending, Members
  <2>5. Reached(color', data, Members(w) \cup Members(data[x]), "gray", Colored("gray")')
    <3>1. \A p \in Ids : p # x /\ color[p] = "gray" => color'[p] = "gray" /\ data[p] = data[p]
      BY <2>0
    <3>2. Members(work_stack) \subseteq (Members(w) \cup Members(data[x])) \cup {x}
      BY <1>3
    <3>3. Colored("gray")' \subseteq Colored("gray") /\ x \notin Colored("gray")'
      BY <2>0
    <3>4. Members(data[x]) \subseteq Members(w) \cup Members(data[x])
      OBVIOUS
    <3> QED BY SMTT(30), <1>4, <3>1, <3>2, <3>3, <3>4, ReachWithout
  <2>6. PICK b : /\ b = Members(seeds) \cup (IF k = "black" THEN Members(data[x]) ELSE {})
    OBVIOUS
  <2>7. Reached(color', data, b, "white",
                Colored("white")' \cup (Colored("gray")' \cap Members(w)))
    <3>1. PICK S \in SUBSET Ids :
            S = Colored("white") \cup (Colored("gray") \cap Members(work_stack))
      BY DEF Colored
    <3>s. PICK S2 : S2 = Colored("white")' \cup (Colored("gray")' \cap Members(w))
      OBVIOUS
    <3>2. \A t \in S2 : t \in S
      BY <1>3, <1>6, <2>0, <3>1, <3>s DEF Colored
    <3>3. \A p \in Ids : color[p] = "white" => color'[p] = "white"
      BY <1>6, <2>0
    <3>4. Members(seeds) \subseteq b
      BY <2>6
    <3>5. Reached(color, data, Members(seeds), "white", S)
      BY <1>4, <3>1
    <3>6. Reached(color', data, b, "white", S2)
      BY <3>2, <3>3, <3>4, <3>5, ReachMore
    <3> QED BY <3>s, <3>6
  <2>8. ReachOK'
    <3>1. data' = data /\ seeds' = seeds
      BY <1>0
    <3>2. b = Members(seeds') \cup (IF pc' = "black" THEN Pending' ELSE {})
      BY <1>6, <2>4, <2>6, <3>1
    <3> QED BY <1>3, <1>6, <2>4, <2>5, <2>7, <3>1, <3>2 DEF ReachOK
  <2>9. \A p \in Ids : \A i \in DOMAIN data[p] : TakenOff(p, i)' <=> TakenOff(p, i)
    <3>1. ASSUME NEW p \in Ids, NEW i \in DOMAIN data[p] PROVE TakenOff(p, i)' <=> TakenOff(p, i)
      <4>1. i >= 1
        BY <1>0, ScanFacts
      <4>2. TakenOff(p, i) <=> color[p] \in {"gray", "white"}
        BY <1>0 DEF TakenOff
      <4>3. k = "white" => (TakenOff(p, i)' <=> color'[p] \in {"gray", "white"})
        BY <1>6 DEF TakenOff
      <4>4. k = "black" => (TakenOff(p, i)' <=> color'[p] \in {"gray", "white"} \/ p = x)
        BY SMTT(30), <1>0, <1>1, <1>6, <4>1 DEF TakenOff, Members
      <4> QED BY <1>6, <2>0, <4>2, <4>3, <4>4
    <3> QED BY <3>1
  <2>10. \A e \in LiveIds : refcount'[e] = Cardinality(RootRefs(e)) + Cardinality(EdgeRefs(e)')
    BY <1>0, <1>4, <2>9, SameEdges
  <2>11. \A e \in Ids : ~Live(e) => color'[e] = "black"
    BY <1>4, <2>0
  <2> QED BY <1>0, <1>1, <1>3, <1>4, <1>6, <2>1, <2>2, <2>3, <2>8, <2>10, <2>11, CollectorStep
<1>7. \/ color[x] # "gray" /\ UNCHANGED <<color, pc, cur, edge>>
      \/ /\ color[x] = "gray" /\ refcount[x] = 0 /\ readers[x] = 0
         /\ color' = [color EXCEPT ![x] = "white"] /\ cur' = x /\ edge' = 1 /\ pc' = pc
      \/ /\ color[x] = "gray" /\ color' = [color EXCEPT ![x] = "black"]
         /\ cur' = x /\ edge' = 1 /\ pc' = "black"
  BY <1>2 DEF ScanPop
<1> QED BY <1>0, <1>5, <1>6, <1>7

(* One edge of a condemned entry: an undecided child is decided later.     *)
LEMMA ScanEdgeInv ==
    ASSUME HeapInv, ScanEdge
    PROVE  HeapInv'
<1>0. /\ pc = "scan" /\ pc' = "scan" /\ cur # Nil
      /\ UNCHANGED <<len, free, kind, refcount, readers, color, data, key, purple_count,
                     allocations_since_gc, weak, root, black_stack, seeds, cursor, pinned>>
  BY DEF ScanEdge, arena, entries, counters
<1>1. /\ black_stack = <<>> /\ cur \in Colored("white") /\ cur \in Ids /\ color[cur] = "white"
  BY <1>0 DEF HeapInv, Shape, StacksOK, Colored
<1>2. /\ TypeOK /\ pc \in Collecting /\ Colored("purple") = {}
      /\ \A e \in Colored("white") : refcount[e] = 0 /\ readers[e] = 0
      /\ \A e \in Members(seeds) : Live(e)
      /\ \A e \in Members(work_stack) : Live(e)
      /\ work_stack \in Seq(Ids) /\ edge \in Nat \ {0}
      /\ \A e \in Ids : color[e] # "black" => Live(e)
      /\ Reached(color, data, Members(work_stack) \cup Pending, "gray", Colored("gray"))
      /\ Reached(color, data, Members(seeds), "white",
                 Colored("white") \cup (Colored("gray") \cap Members(work_stack)))
  BY <1>0, ScanFacts
<1>3. \A e \in LiveIds : refcount'[e] = Cardinality(RootRefs(e)) + Cardinality(EdgeRefs(e)')
  <2>1. \A p \in Ids : \A i \in DOMAIN data[p] : TakenOff(p, i)' <=> TakenOff(p, i)
    BY <1>0 DEF TakenOff
  <2> QED BY <1>0, <1>2, <2>1, SameEdges
<1>4. \A e \in Ids : ~Live(e) => color'[e] = "black"
  BY <1>0, <1>2
<1>5. ColorsOK'
  BY <1>0, <1>2 DEF ColorsOK, Colored
<1>6. Pending = {c \in Ids : \E i \in DOMAIN data[cur] : i >= edge /\ data[cur][i] = c}
  BY SMTT(30), <1>0, <1>1 DEF Pending, Members
<1>7. DOMAIN data[cur] = 1..Len(data[cur]) /\ Len(data[cur]) \in Nat
  BY SMTT(30), <1>1, <1>2, CollectFacts
<1>8. CASE edge <= Len(data[cur])
  <2>1. edge \in DOMAIN data[cur]
    BY SMTT(30), <1>2, <1>7, <1>8
  <2>2. PICK c \in Ids : c = data[cur][edge] /\ Live(c) /\ c \in Members(data[cur])
    BY SMTT(30), <1>0, <1>1, <1>2, <2>1, CollectFacts DEF Members
  <2>3. /\ edge' = edge + 1 /\ cur' = cur
        /\ work_stack' = IF color[c] = "gray" THEN Append(work_stack, c) ELSE work_stack
    BY SMTT(30), <1>2, <1>7, <1>8, <2>2 DEF ScanEdge
  <2>4. /\ work_stack' \in Seq(Ids)
        /\ Members(work_stack') = Members(work_stack) \cup (IF color[c] = "gray" THEN {c} ELSE {})
    BY SMTT(30), <1>2, <2>3, PushFacts
  <2>5. TypeOK'
    <3>1. edge' \in Nat \ {0}
      BY SMTT(30), <1>2, <2>3
    <3> QED BY <1>0, <1>2, <2>3, <2>4, <3>1 DEF TypeOK
  <2>6. StacksOK'
    BY <1>0, <1>1, <1>2, <2>3 DEF StacksOK, Colored, Live
  <2>7. Pending \subseteq Pending' \cup {c}
    <3>1. Pending' = {e \in Ids : \E i \in DOMAIN data[cur] : i >= edge + 1 /\ data[cur][i] = e}
      BY SMTT(30), <1>0, <1>1, <2>3 DEF Pending, Members
    <3> QED BY SMTT(30), <1>2, <1>6, <1>7, <2>2, <3>1
  <2>8. Reached(color, data, Members(work_stack') \cup Pending', "gray", Colored("gray"))
    <3>1. PICK b : b = Members(work_stack) \cup Pending
      OBVIOUS
    <3>2. PICK b2 : b2 = Members(work_stack') \cup Pending'
      OBVIOUS
    <3>3. Reached(color, data, b, "gray", Colored("gray"))
      BY <1>2, <3>1
    <3>4. CASE color[c] = "gray"
      <4>1. b \subseteq b2
        BY <2>4, <2>7, <3>1, <3>2, <3>4
      <4>2. Colored("gray") \in SUBSET Ids
        BY DEF Colored
      <4>3. Reached(color, data, b2, "gray", Colored("gray"))
        BY <3>3, <4>1, <4>2, ReachMore
      <4> QED BY <3>2, <4>3
    <3>5. CASE color[c] # "gray"
      <4>1. b \subseteq b2 \cup {c}
        BY <2>4, <2>7, <3>1, <3>2
      <4>2. c \notin Colored("gray")
        BY <3>5 DEF Colored
      <4>3. Reached(color, data, b2, "gray", Colored("gray"))
        BY <3>3, <3>5, <4>1, <4>2, ReachWithout
      <4> QED BY <3>2, <4>3
    <3> QED BY <3>4, <3>5
  <2>9. Reached(color, data, Members(seeds), "white",
                Colored("white") \cup (Colored("gray") \cap Members(work_stack')))
    <3>1. PICK S \in SUBSET Ids :
            S = Colored("white") \cup (Colored("gray") \cap Members(work_stack))
      BY DEF Colored
    <3>2. PICK S2 : S2 = Colored("white") \cup (Colored("gray") \cap Members(work_stack'))
      OBVIOUS
    <3>3. Reached(color, data, Members(seeds), "white", S)
      BY <1>2, <3>1
    <3>4. cur \in S /\ color[cur] = "white"
      BY <1>1, <3>1
    <3>5. \A t \in S2 : t \in S \/ \E p \in S : color[p] = "white" /\ t \in Members(data[p])
      BY <2>2, <2>4, <3>1, <3>2, <3>4
    <3>6. Reached(color, data, Members(seeds), "white", S2)
      BY <3>3, <3>5, ReachMore
    <3> QED BY <3>2, <3>6
  <2>10. ReachOK'
    BY <1>0, <2>8, <2>9 DEF ReachOK, Colored
  <2>11. \A e \in Members(work_stack') : Live(e)
    BY <1>2, <2>2, <2>4
  <2> QED BY <1>0, <1>1, <1>2, <1>3, <1>4, <1>5, <2>3, <2>5, <2>6, <2>10, <2>11, CollectorStep
<1>9. CASE edge > Len(data[cur])
  <2>1. cur' = Nil /\ edge' = 1 /\ work_stack' = work_stack
    BY SMTT(30), <1>2, <1>7, <1>9 DEF ScanEdge
  <2>2. TypeOK'
    BY SMTT(30), <1>0, <1>2, <2>1 DEF TypeOK
  <2>3. StacksOK'
    BY <1>0, <1>2, <2>1 DEF StacksOK, Live
  <2>4. Pending = {} /\ Pending' = {}
    <3>1. Pending = {}
      BY SMTT(30), <1>2, <1>6, <1>7, <1>9
    <3>2. Pending' = {}
      BY SMTT(30), <1>0, <1>1, <2>1 DEF Pending, Members
    <3> QED BY <3>1, <3>2
  <2>5. ReachOK'
    BY <1>0, <1>2, <2>1, <2>4 DEF ReachOK, Colored
  <2> QED BY <1>0, <1>1, <1>2, <1>3, <1>4, <1>5, <2>1, <2>2, <2>3, <2>5, CollectorStep
<1> QED BY SMTT(30), <1>2, <1>7, <1>8, <1>9

(* scan ends: no entry is undecided, and collect_white has its seeds.      *)
LEMMA StartCollectWhiteInv ==
    ASSUME HeapInv, StartCollectWhite
    PROVE  HeapInv'
<1>0. /\ pc = "scan" /\ cur = Nil /\ work_stack = <<>> /\ pc' = "white" /\ work_stack' = seeds
      /\ UNCHANGED <<len, free, kind, refcount, readers, color, data, key, purple_count,
                     allocations_since_gc, weak, root, black_stack, cur, edge, seeds, cursor,
                     pinned>>
  BY DEF StartCollectWhite, arena, entries, counters
<1>1. black_stack = <<>> /\ Pending = {} /\ Members(work_stack) = {}
  <2>1. black_stack = <<>>
    BY <1>0 DEF HeapInv, Shape
  <2> QED BY SMTT(30), <1>0, <2>1 DEF Pending, Members
<1>2. /\ TypeOK /\ pc \in Collecting /\ Colored("purple") = {}
      /\ \A e \in Colored("white") : refcount[e] = 0 /\ readers[e] = 0
      /\ \A e \in Ids : color[e] # "black" => Live(e)
      /\ Reached(color, data, {}, "gray", Colored("gray"))
      /\ Reached(color, data, Members(seeds), "white", Colored("white"))
  <2>1. /\ Members(work_stack) \cup Pending = {}
        /\ Colored("white") \cup (Colored("gray") \cap Members(work_stack)) = Colored("white")
        /\ Members(seeds) \cup {} = Members(seeds)
    BY <1>1
  <2> QED BY <1>0, <2>1, ScanFacts
<1>3. Colored("gray") = {}
  BY <1>2, ReachNothing
<1>4. TypeOK' /\ pc' \in Collecting
  BY <1>0, <1>2 DEF TypeOK, Collecting
<1>5. ColorsOK' /\ StacksOK'
  BY <1>0, <1>2, <1>3 DEF ColorsOK, StacksOK, Colored
<1>6. ReachOK'
  BY <1>0, <1>2 DEF ReachOK, Colored
<1>7. \A e \in LiveIds : refcount'[e] = Cardinality(RootRefs(e)) + Cardinality(EdgeRefs(e)')
  <2>1. \A p \in Ids : \A i \in DOMAIN data[p] : TakenOff(p, i)' <=> TakenOff(p, i)
    BY <1>0 DEF TakenOff
  <2> QED BY <1>0, <1>2, <2>1, SameEdges
<1>8. \A e \in Ids : ~Live(e) => color'[e] = "black"
  BY <1>0, <1>2
<1> QED BY <1>0, <1>1, <1>2, <1>4, <1>5, <1>6, <1>7, <1>8, CollectorStep

-----------------------------------------------------------------------------
(* What the invariant says in mark_black.                                  *)
LEMMA BlackFacts ==
    ASSUME HeapInv, pc = "black"
    PROVE  /\ TypeOK /\ pc \in Collecting /\ Colored("purple") = {}
           /\ \A e \in Colored("white") : refcount[e] = 0 /\ readers[e] = 0
           /\ \A e \in Members(seeds) : Live(e)
           /\ \A e \in Members(work_stack) : Live(e)
           /\ black_stack \in Seq(Ids) /\ edge \in Nat \ {0}
           /\ color \in [Ids -> Colors] /\ refcount \in [Ids -> Int]
           /\ \A e \in Ids : color[e] # "black" => Live(e)
           /\ Reached(color, data, Members(work_stack) \cup Pending, "gray", Colored("gray"))
           /\ Reached(color, data, Members(seeds) \cup Pending, "white",
                      Colored("white") \cup (Colored("gray") \cap Members(work_stack)))
           /\ Distinct(black_stack) /\ Members(black_stack) \subseteq Colored("black")
           /\ cur \in Colored("black") \ Members(black_stack)
           /\ cur \in Ids /\ color[cur] = "black" /\ cur # Nil
           /\ \A e \in Members(black_stack) \cup {cur} : Live(e)
           /\ DOMAIN data[cur] = 1..Len(data[cur]) /\ Len(data[cur]) \in Nat
<1>1. /\ TypeOK /\ pc \in Collecting /\ Colored("purple") = {}
      /\ \A e \in Colored("white") : refcount[e] = 0 /\ readers[e] = 0
      /\ \A e \in Members(seeds) : Live(e)
      /\ \A e \in Members(work_stack) : Live(e)
      /\ black_stack \in Seq(Ids) /\ edge \in Nat \ {0}
      /\ color \in [Ids -> Colors] /\ refcount \in [Ids -> Int]
      /\ \A e \in Ids : color[e] # "black" => Live(e)
      /\ Reached(color, data, Members(work_stack) \cup Pending, "gray", Colored("gray"))
      /\ Reached(color, data, Members(seeds) \cup Pending, "white",
                 Colored("white") \cup (Colored("gray") \cap Members(work_stack)))
  BY ScanFacts
<1>2. /\ Distinct(black_stack) /\ Members(black_stack) \subseteq Colored("black")
      /\ cur \in Colored("black") \ Members(black_stack)
      /\ \A e \in Members(black_stack) \cup {cur} : Live(e)
  BY DEF HeapInv, StacksOK
<1>3. cur \in Ids /\ color[cur] = "black"
  BY <1>2 DEF Colored
<1>4. cur # Nil
  BY SMTT(30), <1>3, NilAssumption DEF Ids
<1>5. DOMAIN data[cur] = 1..Len(data[cur]) /\ Len(data[cur]) \in Nat
  BY SMTT(30), <1>1, <1>3, CollectFacts
<1> QED BY <1>1, <1>2, <1>3, <1>4, <1>5

(* One edge of mark_black: the child is black and waits if it was not.     *)
LEMMA BlackEdgeInv ==
    ASSUME HeapInv, BlackEdge
    PROVE  HeapInv'
<1>0. /\ pc = "black" /\ edge <= Len(data[cur]) /\ edge' = edge + 1
      /\ UNCHANGED <<len, free, kind, readers, data, key, purple_count,
                     allocations_since_gc, weak, root, pc, work_stack, cur, seeds, cursor,
                     pinned>>
  BY DEF BlackEdge, arena, counters
<1>1. /\ TypeOK /\ pc \in Collecting /\ Colored("purple") = {}
      /\ \A e \in Colored("white") : refcount[e] = 0 /\ readers[e] = 0
      /\ \A e \in Members(seeds) : Live(e)
      /\ \A e \in Members(work_stack) : Live(e)
      /\ black_stack \in Seq(Ids) /\ edge \in Nat \ {0}
      /\ color \in [Ids -> Colors] /\ refcount \in [Ids -> Int]
      /\ \A e \in Ids : color[e] # "black" => Live(e)
      /\ cur \in Ids /\ color[cur] = "black" /\ cur # Nil
      /\ DOMAIN data[cur] = 1..Len(data[cur]) /\ Len(data[cur]) \in Nat
  BY <1>0, BlackFacts
<1>2. /\ Distinct(black_stack) /\ Members(black_stack) \subseteq Colored("black")
      /\ cur \in Colored("black") \ Members(black_stack)
      /\ \A e \in Members(black_stack) \cup {cur} : Live(e)
  BY <1>0, BlackFacts
<1>3. edge \in DOMAIN data[cur]
  BY SMTT(30), <1>0, <1>1
<1>4. PICK c \in LiveIds : c = data[cur][edge] /\ c \in Ids /\ Live(c)
  <2>1. data[cur][edge] \in Members(data[cur])
    BY <1>3 DEF Members
  <2>2. Members(data[cur]) \subseteq Ids /\ \A e \in Members(data[cur]) : Live(e)
    BY <1>0, <1>1, CollectFacts
  <2> QED BY <2>1, <2>2 DEF LiveIds
<1>5. /\ refcount' = [refcount EXCEPT ![c] = @ + 1]
      /\ color' = [color EXCEPT ![c] = "black"]
      /\ black_stack' = IF color[c] = "black" THEN black_stack ELSE Append(black_stack, c)
  BY <1>4 DEF BlackEdge
<1>6. /\ color'[c] = "black" /\ \A e \in Ids : e # c => color'[e] = color[e]
      /\ Colored("gray")' = Colored("gray") \ {c} /\ Colored("white")' = Colored("white") \ {c}
      /\ Colored("purple")' = {} /\ Colored("black")' = Colored("black") \cup {c}
  BY <1>1, <1>4, <1>5 DEF Colored
<1>7. /\ black_stack' \in Seq(Ids) /\ Distinct(black_stack')
      /\ Members(black_stack') = Members(black_stack) \cup (IF color[c] = "black" THEN {} ELSE {c})
  <2>1. CASE color[c] = "black"
    BY <1>1, <1>2, <1>5, <2>1
  <2>2. CASE color[c] # "black"
    <3>1. c \notin Members(black_stack) /\ black_stack' = Append(black_stack, c)
      BY <1>2, <1>5, <2>2 DEF Colored
    <3> QED BY SMTT(30), <1>1, <1>2, <1>4, <2>2, <3>1, PushFacts
  <2> QED BY <2>1, <2>2
<1>8. TypeOK'
  <2>0. edge' \in Nat \ {0}
    BY SMTT(30), <1>0, <1>1
  <2>1. color \in [Ids -> Colors] /\ refcount \in [Ids -> Int]
    BY <1>1
  <2>2. color' \in [Ids -> Colors] /\ refcount' \in [Ids -> Int]
    BY SMTT(30), <1>4, <1>5, <2>1 DEF Colors
  <2> QED BY <1>0, <1>1, <1>7, <2>0, <2>2 DEF TypeOK
<1>9. ColorsOK'
  <2>1. ASSUME NEW e \in Colored("white")' PROVE refcount'[e] = 0 /\ readers'[e] = 0
    <3>1. e \in Colored("white") /\ e # c /\ e \in Ids
      BY <1>6 DEF Colored
    <3> QED BY <1>0, <1>1, <1>5, <3>1
  <2> QED BY <1>0, <1>6, <2>1 DEF ColorsOK
<1>10. StacksOK'
  <2>1. cur \notin Members(black_stack') /\ cur \in Colored("black")'
    BY <1>1, <1>2, <1>6, <1>7
  <2>2. Members(black_stack') \subseteq Colored("black")'
    BY <1>2, <1>6, <1>7
  <2>3. \A e \in Members(black_stack') \cup {cur} : Live(e)
    BY <1>2, <1>4, <1>7
  <2> QED BY <1>0, <1>1, <1>7, <2>1, <2>2, <2>3 DEF StacksOK, Live
<1>11. Pending \subseteq Pending' \cup {c} /\ (color[c] # "black" => Members(data[c]) \subseteq Pending')
  <2>1. Pending' = {e \in Ids : \/ \E p \in Members(black_stack') : e \in Members(data[p])
                               \/ \E i \in DOMAIN data[cur] : i >= edge + 1 /\ data[cur][i] = e}
    BY <1>0, <1>1 DEF Pending
  <2>2. Pending = {e \in Ids : \/ \E p \in Members(black_stack) : e \in Members(data[p])
                              \/ \E i \in DOMAIN data[cur] : i >= edge /\ data[cur][i] = e}
    BY <1>0, <1>1 DEF Pending
  <2>3. ASSUME NEW e \in Pending, e # c PROVE e \in Pending'
    <3>1. CASE \E p \in Members(black_stack) : e \in Members(data[p])
      BY <1>7, <2>1, <2>2, <3>1
    <3>2. CASE \E i \in DOMAIN data[cur] : i >= edge /\ data[cur][i] = e
      <4>1. PICK i \in DOMAIN data[cur] : i >= edge /\ data[cur][i] = e
        BY <3>2
      <4>2. i >= edge + 1
        BY SMTT(30), <1>1, <1>4, <2>3, <4>1
      <4> QED BY <2>1, <2>2, <4>1, <4>2
    <3> QED BY <2>2, <3>1, <3>2
  <2>4. Members(data[c]) \subseteq Ids
    BY <1>1, <1>4, CollectFacts
  <2>5. color[c] # "black" => Members(data[c]) \subseteq Pending'
    BY <1>7, <2>1, <2>4
  <2> QED BY <2>3, <2>5
<1>12. ReachOK'
  <2>1. PICK b : b = Members(work_stack) \cup Pending
    OBVIOUS
  <2>2. PICK b2 : b2 = Members(work_stack) \cup Pending'
    OBVIOUS
  <2>3. Reached(color', data, b2, "gray", Colored("gray")')
    <3>1. Reached(color, data, b, "gray", Colored("gray"))
      BY <1>0, <2>1, BlackFacts
    <3>2. b \subseteq b2 \cup {c}
      BY <1>11, <2>1, <2>2
    <3>3. color[c] = "gray" => Members(data[c]) \subseteq b2
      BY <1>11, <2>2
    <3>4. \A p \in Ids : p # c /\ color[p] = "gray" => color'[p] = "gray" /\ data[p] = data[p]
      BY <1>6
    <3>5. Colored("gray")' \subseteq Colored("gray") /\ c \notin Colored("gray")'
      BY <1>6
    <3> QED BY SMTT(30), <1>4, <3>1, <3>2, <3>3, <3>4, <3>5, ReachWithout
  <2>4. PICK a : a = Members(seeds) \cup Pending
    OBVIOUS
  <2>5. PICK a2 : a2 = Members(seeds) \cup Pending'
    OBVIOUS
  <2>6. PICK S : S = Colored("white") \cup (Colored("gray") \cap Members(work_stack))
    OBVIOUS
  <2>7. PICK S2 : S2 = Colored("white")' \cup (Colored("gray")' \cap Members(work_stack))
    OBVIOUS
  <2>8. Reached(color', data, a2, "white", S2)
    <3>1. Reached(color, data, a, "white", S)
      BY <1>0, <2>4, <2>6, BlackFacts
    <3>2. a \subseteq a2 \cup {c}
      BY <1>11, <2>4, <2>5
    <3>3. color[c] = "white" => Members(data[c]) \subseteq a2
      BY <1>11, <2>5
    <3>4. \A p \in Ids : p # c /\ color[p] = "white" => color'[p] = "white" /\ data[p] = data[p]
      BY <1>6
    <3>5. S2 \subseteq S /\ c \notin S2
      BY <1>6, <2>6, <2>7
    <3> QED BY SMTT(30), <1>4, <3>1, <3>2, <3>3, <3>4, <3>5, ReachWithout
  <2> QED BY <1>0, <2>2, <2>3, <2>5, <2>7, <2>8 DEF ReachOK
<1>13. \A e \in LiveIds : refcount'[e] = Cardinality(RootRefs(e)) + Cardinality(EdgeRefs(e)')
  <2>0. PICK q \in Ids, j \in Nat : q = cur /\ j = edge
    BY <1>1
  <2>1. TakenOff(q, j)
    BY SMTT(30), <1>0, <1>1, <2>0 DEF TakenOff
  <2>2. ~TakenOff(q, j)'
    <3>1. color'[q] = "black" /\ q \notin Members(black_stack') /\ cur' = q /\ ~(j >= edge')
      BY SMTT(30), <1>0, <1>1, <1>2, <1>6, <1>7, <2>0
    <3> QED BY <1>0, <3>1 DEF TakenOff
  <2>3. ASSUME NEW p \in Ids, NEW i \in DOMAIN data[p], p # q \/ i # j
        PROVE  TakenOff(p, i)' <=> TakenOff(p, i)
    <3>1. i \in Nat
      BY <1>0, ScanFacts
    <3>2. TakenOff(p, i) <=> \/ color[p] \in {"gray", "white"} \/ p \in Members(black_stack)
                             \/ (p = cur /\ i >= edge)
      BY <1>0 DEF TakenOff
    <3>3. TakenOff(p, i)' <=> \/ color'[p] \in {"gray", "white"} \/ p \in Members(black_stack')
                              \/ (p = cur /\ i >= edge + 1)
      BY <1>0 DEF TakenOff
    <3>4. color[p] \in {"black", "gray", "white"}
      BY <1>1 DEF Colored, Colors
    <3>5. color[p] \in {"gray", "white"} \/ p \in Members(black_stack)
            <=> color'[p] \in {"gray", "white"} \/ p \in Members(black_stack')
      <4>1. CASE p = c
        BY <1>6, <1>7, <3>4, <4>1
      <4>2. CASE p # c
        BY <1>6, <1>7, <4>2
      <4> QED BY <4>1, <4>2
    <3>6. p = cur => (i >= edge <=> i >= edge + 1)
      BY SMTT(30), <1>1, <2>0, <2>3, <3>1
    <3> QED BY <3>2, <3>3, <3>5, <3>6
  <2>4. OneEdge(q, j, c)
    BY <1>3, <1>4, <2>0, <2>3 DEF OneEdge
  <2>5. data' = data
    BY <1>0
  <2> QED BY <1>1, <1>5, <2>1, <2>2, <2>4, <2>5, EdgePutBack
<1>14. \A e \in Ids : ~Live(e) => color'[e] = "black"
  BY <1>1, <1>4, <1>6
<1> QED BY <1>0, <1>1, <1>8, <1>9, <1>10, <1>12, <1>13, <1>14, CollectorStep

(* mark_black goes on to the next entry, or back to scan.                  *)
LEMMA BlackNextInv ==
    ASSUME HeapInv, BlackNext
    PROVE  HeapInv'
<1>0. /\ pc = "black" /\ edge > Len(data[cur]) /\ edge' = 1
      /\ UNCHANGED <<len, free, kind, refcount, readers, color, data, key, purple_count,
                     allocations_since_gc, weak, root, work_stack, seeds, cursor, pinned>>
  BY DEF BlackNext, arena, entries, counters
<1>1. /\ TypeOK /\ pc \in Collecting /\ Colored("purple") = {}
      /\ \A e \in Colored("white") : refcount[e] = 0 /\ readers[e] = 0
      /\ \A e \in Members(seeds) : Live(e)
      /\ \A e \in Members(work_stack) : Live(e)
      /\ black_stack \in Seq(Ids) /\ edge \in Nat \ {0}
      /\ \A e \in Ids : color[e] # "black" => Live(e)
      /\ cur \in Ids /\ color[cur] = "black" /\ cur # Nil
      /\ DOMAIN data[cur] = 1..Len(data[cur]) /\ Len(data[cur]) \in Nat
  BY <1>0, BlackFacts
<1>2. /\ Distinct(black_stack) /\ Members(black_stack) \subseteq Colored("black")
      /\ \A e \in Members(black_stack) : Live(e)
  BY <1>0, BlackFacts
<1>3. /\ Reached(color, data, Members(work_stack) \cup Pending, "gray", Colored("gray"))
      /\ Reached(color, data, Members(seeds) \cup Pending, "white",
                 Colored("white") \cup (Colored("gray") \cap Members(work_stack)))
  BY <1>0, BlackFacts
<1>4. Pending = {e \in Ids : \E p \in Members(black_stack) : e \in Members(data[p])}
  <2>1. ~\E i \in DOMAIN data[cur] : i >= edge
    BY SMTT(30), <1>0, <1>1
  <2> QED BY <2>1 DEF Pending
<1>5. \A p \in Ids : \A i \in DOMAIN data[p] : i \in Nat /\ i >= 1 /\ i <= Len(data[p])
  BY <1>0, ScanFacts
<1>6. ASSUME NEW p \in Ids, NEW i \in DOMAIN data[p]
      PROVE  TakenOff(p, i) <=> color[p] \in {"gray", "white"} \/ p \in Members(black_stack)
  <2>1. ~(p = cur /\ i >= edge)
    BY SMTT(30), <1>0, <1>1, <1>5
  <2> QED BY <1>0, <2>1 DEF TakenOff
<1>7. \A e \in Ids : ~Live(e) => color'[e] = "black"
  BY <1>0, <1>1
<1>8. CASE black_stack = <<>> /\ pc' = "scan" /\ cur' = Nil /\ black_stack' = black_stack
  <2>1. TypeOK' /\ pc' \in Collecting
    BY SMTT(30), <1>0, <1>1, <1>8 DEF TypeOK, Collecting
  <2>2. ColorsOK' /\ StacksOK'
    BY <1>0, <1>1, <1>8 DEF ColorsOK, StacksOK, Colored, Live
  <2>3. Members(black_stack) = {} /\ Pending = {} /\ Pending' = {}
    BY SMTT(30), <1>4, <1>8 DEF Members, Pending
  <2>4. ReachOK'
    <3>1. /\ Colored("gray")' = Colored("gray") /\ Colored("white")' = Colored("white")
          /\ color' = color /\ data' = data /\ seeds' = seeds /\ work_stack' = work_stack
      BY <1>0 DEF Colored
    <3> QED BY <1>3, <1>8, <2>3, <3>1 DEF ReachOK
  <2>5. \A p \in Ids : \A i \in DOMAIN data[p] : TakenOff(p, i)' <=> TakenOff(p, i)
    BY <1>0, <1>6, <1>8, <2>3 DEF TakenOff
  <2>6. \A e \in LiveIds : refcount'[e] = Cardinality(RootRefs(e)) + Cardinality(EdgeRefs(e)')
    BY <1>0, <1>1, <2>5, SameEdges
  <2> QED BY <1>0, <1>1, <1>7, <1>8, <2>1, <2>2, <2>4, <2>6, CollectorStep
<1>9. CASE /\ black_stack # <<>> /\ cur' = Last(black_stack) /\ black_stack' = Pop(black_stack)
           /\ pc' = pc
  <2>1. PICK x \in Ids : x = Last(black_stack)
    BY <1>1, <1>9, PopFacts
  <2>2. PICK w \in Seq(Ids) : /\ w = Pop(black_stack) /\ Distinct(w) /\ x \notin Members(w)
                              /\ Members(black_stack) = Members(w) \cup {x}
    BY <1>1, <1>2, <1>9, <2>1, PopFacts
  <2>3. cur' = x /\ black_stack' = w /\ x # Nil /\ pc' = "black"
    BY SMTT(30), <1>0, <1>9, <2>1, <2>2, NilAssumption DEF Ids
  <2>4. TypeOK'
    <3>1. cur' \in Ids \cup {Nil} /\ edge' \in Nat \ {0} /\ black_stack' \in Seq(Ids)
      BY SMTT(30), <1>0, <2>1, <2>2, <2>3
    <3> QED BY <1>0, <1>1, <2>3, <3>1 DEF TypeOK
  <2>5. ColorsOK' /\ StacksOK'
    <3>1. /\ Members(w) \subseteq Colored("black") /\ x \in Colored("black") \ Members(w)
          /\ \A e \in Members(w) \cup {x} : Live(e)
      BY <1>2, <2>2
    <3>2. ColorsOK'
      BY <1>0, <1>1, <2>3 DEF ColorsOK, Colored
    <3>3. StacksOK'
      BY <1>0, <1>1, <2>2, <2>3, <3>1 DEF StacksOK, Colored, Live
    <3> QED BY <3>2, <3>3
  <2>6. Pending' = Pending
    <3>1. Members(data[x]) = {data[x][i] : i \in {j \in DOMAIN data[x] : j >= 1}}
      BY <1>5, <2>1 DEF Members
    <3>2. Pending' = {e \in Ids : \/ \E p \in Members(w) : e \in Members(data[p])
                                  \/ e \in Members(data[x])}
      BY <1>0, <2>3, <3>1 DEF Pending
    <3> QED BY <1>4, <2>2, <3>2
  <2>7. ReachOK'
    <3>1. /\ Colored("gray")' = Colored("gray") /\ Colored("white")' = Colored("white")
          /\ color' = color /\ data' = data /\ seeds' = seeds /\ work_stack' = work_stack
      BY <1>0 DEF Colored
    <3> QED BY <1>3, <2>3, <2>6, <3>1 DEF ReachOK
  <2>8. ASSUME NEW p \in Ids, NEW i \in DOMAIN data[p] PROVE TakenOff(p, i)' <=> TakenOff(p, i)
    <3>1. TakenOff(p, i)' <=> color[p] \in {"gray", "white"} \/ p \in Members(w) \/ p = x
      BY <1>0, <1>5, <2>3 DEF TakenOff
    <3> QED BY <1>6, <2>2, <3>1
  <2>9. \A e \in LiveIds : refcount'[e] = Cardinality(RootRefs(e)) + Cardinality(EdgeRefs(e)')
    BY <1>0, <1>1, <2>8, SameEdges
  <2> QED BY <1>0, <1>1, <1>7, <2>3, <2>4, <2>5, <2>7, <2>9, CollectorStep
<1> QED BY <1>8, <1>9 DEF BlackNext

-----------------------------------------------------------------------------
(* What the invariant says in collect_white.                               *)
LEMMA WhiteFacts ==
    ASSUME HeapInv, pc = "white"
    PROVE  /\ TypeOK /\ pc \in Collecting /\ Colored("purple") = {} /\ Colored("gray") = {}
           /\ \A e \in Colored("white") : refcount[e] = 0 /\ readers[e] = 0
           /\ work_stack \in Seq(Ids) /\ black_stack = <<>> /\ cur = Nil
           /\ color \in [Ids -> Colors] /\ refcount \in [Ids -> Int]
           /\ Reached(color, data, Members(work_stack), "white", Colored("white"))
           /\ \A e \in Ids : color[e] # "black" => Live(e)
           /\ \A p, i : TakenOff(p, i) <=> color[p] \in {"gray", "white"}
<1>1. pc \in Collecting
  BY DEF Collecting
<1>2. /\ TypeOK /\ Colored("purple") = {} /\ Colored("gray") = {}
      /\ \A e \in Colored("white") : refcount[e] = 0 /\ readers[e] = 0
      /\ Reached(color, data, Members(work_stack), "white", Colored("white"))
      /\ black_stack = <<>> /\ cur = Nil
  BY DEF HeapInv, ColorsOK, ReachOK, Shape
<1>3. /\ work_stack \in Seq(Ids) /\ color \in [Ids -> Colors] /\ refcount \in [Ids -> Int]
  BY <1>2 DEF TypeOK
<1>4. \A e \in Ids : color[e] # "black" => Live(e)
  BY <1>1, CollectFacts
<1>5. \A p, i : TakenOff(p, i) <=> color[p] \in {"gray", "white"}
  BY DEF TakenOff
<1> QED BY <1>1, <1>2, <1>3, <1>4, <1>5

(* A condemned entry is named by condemned entries only.                   *)
LEMMA CondemnedUnreferenced ==
    ASSUME HeapInv, pc \in {"scan", "white"}, Colored("gray") = {},
           NEW x \in Ids, color[x] = "white"
    PROVE  /\ \A r \in Roots : root[r] # x
           /\ \A p \in Ids : x \in Members(data[p]) => color[p] = "white"
<1>a. pc \in Collecting /\ x \in Colored("white")
  BY DEF Collecting, Colored
<1>b. Live(x) /\ x \in LiveIds
  BY <1>a, CollectFacts DEF LiveIds
<1>c. refcount[x] = 0
  BY <1>a DEF HeapInv, ColorsOK
<1>d. \A p, i : TakenOff(p, i) <=> color[p] \in {"gray", "white"}
  BY DEF TakenOff
<1>1. /\ Live(x) /\ x \in LiveIds /\ pc \in Collecting /\ Colored("gray") = {}
      /\ refcount[x] = 0
      /\ \A p, i : TakenOff(p, i) <=> color[p] \in {"gray", "white"}
  BY <1>a, <1>b, <1>c, <1>d
<1>2. /\ refcount[x] = Cardinality(RootRefs(x)) + Cardinality(EdgeRefs(x))
      /\ IsFiniteSet(EdgeRefs(x)) /\ Cardinality(EdgeRefs(x)) \in Nat
      /\ IsFiniteSet(RootRefs(x)) /\ Cardinality(RootRefs(x)) \in Nat
  BY <1>1, CollectFacts
<1>3. Cardinality(EdgeRefs(x)) = 0 /\ Cardinality(RootRefs(x)) = 0
  BY SMTT(30), <1>1, <1>2
<1>4. EdgeRefs(x) = {} /\ RootRefs(x) = {}
  BY <1>2, <1>3, FS_EmptySet
<1>5. \A r \in Roots : root[r] # x
  BY <1>4 DEF RootRefs
<1>6. ASSUME NEW p \in Ids, x \in Members(data[p]) PROVE color[p] = "white"
  <2>1. PICK i \in DOMAIN data[p] : data[p][i] = x
    BY <1>6 DEF Members
  <2>2. i \in 1..Width
    BY SMTT(30), <1>1, <2>1, CollectFacts, SizeAssumption
  <2>3. ASSUME ~TakenOff(p, i) PROVE FALSE
    <3>1. <<p, i>> \in EdgeRefs(x)
      BY <2>1, <2>2, <2>3 DEF EdgeRefs
    <3> QED BY <1>4, <3>1
  <2> QED BY <1>1, <2>3 DEF Colored
<1> QED BY <1>5, <1>6

(* One pop of collect_white.                                               *)
LEMMA CollectWhiteInv ==
    ASSUME HeapInv, CollectWhite
    PROVE  HeapInv'
<1>0. /\ pc = "white" /\ pc' = "white" /\ work_stack # <<>>
      /\ UNCHANGED <<purple_count, allocations_since_gc, root, black_stack, cur, edge, seeds,
                     cursor>>
  BY DEF CollectWhite, counters
<1>1. /\ TypeOK /\ pc \in Collecting /\ Colored("purple") = {} /\ Colored("gray") = {}
      /\ \A e \in Colored("white") : refcount[e] = 0 /\ readers[e] = 0
      /\ work_stack \in Seq(Ids) /\ black_stack = <<>> /\ cur = Nil
      /\ color \in [Ids -> Colors] /\ refcount \in [Ids -> Int]
      /\ Reached(color, data, Members(work_stack), "white", Colored("white"))
      /\ \A e \in Ids : color[e] # "black" => Live(e)
  BY <1>0, WhiteFacts
<1>2. PICK x \in Ids : x = Last(work_stack)
  BY <1>0, <1>1, PopFacts
<1>3. PICK w \in Seq(Ids) : w = Pop(work_stack) /\ Members(work_stack) = Members(w) \cup {x}
  BY <1>0, <1>1, <1>2, PopFacts
<1>4. CASE /\ color[x] # "white" /\ work_stack' = w
           /\ UNCHANGED <<len, free, kind, refcount, readers, color, data, key, weak, pinned>>
  <2>1. TypeOK'
    BY <1>0, <1>1, <1>3, <1>4 DEF TypeOK
  <2>2. ColorsOK' /\ StacksOK'
    BY <1>0, <1>1, <1>4 DEF ColorsOK, StacksOK, Colored
  <2>3. Reached(color, data, Members(w), "white", Colored("white"))
    <3>1. x \notin Colored("white") /\ Members(work_stack) \subseteq Members(w) \cup {x}
      BY <1>3, <1>4 DEF Colored
    <3> QED BY SMTT(30), <1>1, <1>4, <3>1, ReachWithout
  <2>4. ReachOK'
    BY <1>0, <1>4, <2>3 DEF ReachOK, Colored
  <2>5. \A p \in Ids : \A i \in DOMAIN data[p] : TakenOff(p, i)' <=> TakenOff(p, i)
    BY <1>0, <1>4 DEF TakenOff
  <2>6. \A e \in LiveIds : refcount'[e] = Cardinality(RootRefs(e)) + Cardinality(EdgeRefs(e)')
    BY <1>1, <1>4, <2>5, SameEdges
  <2>7. \A e \in Ids : ~Live(e) => color'[e] = "black"
    BY <1>1, <1>4
  <2>8. pc' \in Collecting
    BY <1>0, <1>1
  <2> QED BY <1>0, <1>1, <1>4, <2>1, <2>2, <2>4, <2>6, <2>7, <2>8, CollectorStep
<1>5. CASE /\ Live(x) /\ color[x] = "white" /\ FreeEntry(x) /\ readers' = readers
           /\ refcount' = [refcount EXCEPT ![x] = 0] /\ color' = [color EXCEPT ![x] = "black"]
           /\ work_stack' = w \o data[x]
  <2>1. /\ free' \in Seq(Ids) /\ FreeListExact' /\ WeakIndexExact'
        /\ \A e \in Ids : Live(e)' <=> Live(e) /\ e # x
        /\ \A e \in Ids : data'[e] = IF e = x THEN <<>> ELSE data[e]
        /\ \A e \in Ids : key'[e] = IF e = x THEN Nil ELSE key[e]
        /\ kind' \in [Ids -> AllKinds \cup {Nil}] /\ data' \in [Ids -> Seq(Ids)]
        /\ key' \in [Ids -> Names \cup {Nil}] /\ weak' \in [Names -> Ids \cup {Nil}]
        /\ pinned' \subseteq Ids /\ len' = len
    BY <1>5, FreedFacts
  <2>2. /\ work_stack' \in Seq(Ids) /\ Members(work_stack') = Members(w) \cup Members(data[x])
        /\ Members(data[x]) \subseteq Ids
    <3>1. PICK d \in Seq(Ids) : d = data[x] /\ Members(d) \subseteq Ids /\ work_stack' = w \o d
      BY <1>1, <1>2, <1>5, CollectFacts
    <3>2. work_stack' \in Seq(Ids)
      BY <1>3, <3>1, ConcatFacts
    <3>3. \A e : e \in Members(work_stack') <=> e \in Members(w) \cup Members(d)
      BY <1>3, <3>1, ConcatMembers
    <3> QED BY <3>1, <3>2, <3>3
  <2>3. /\ color'[x] = "black" /\ \A e \in Ids : e # x => color'[e] = color[e]
        /\ Colored("gray")' = {} /\ Colored("purple")' = {}
        /\ Colored("white")' = Colored("white") \ {x}
    BY <1>1, <1>5 DEF Colored
  <2>4. TypeOK'
    <3>1. color' \in [Ids -> Colors] /\ refcount' \in [Ids -> Int]
      BY SMTT(30), <1>1, <1>5 DEF Colors
    <3> QED BY <1>0, <1>1, <1>5, <2>1, <2>2, <3>1 DEF TypeOK
  <2>5. Shape'
    <3>1. /\ \A e \in Ids : Len(data[e]) <= Width
          /\ \A e \in Ids : ~Live(e) => data[e] = <<>> /\ color[e] = "black" /\ key[e] = Nil
      BY DEF HeapInv, Shape
    <3>2. Len(<<>>) <= Width
      BY SMTT(30), SizeAssumption
    <3>3. \A e \in Ids : Len(data'[e]) <= Width
      BY <2>1, <3>1, <3>2
    <3>4. \A e \in Ids : ~Live(e)' => data'[e] = <<>> /\ color'[e] = "black" /\ key'[e] = Nil
      BY <2>1, <2>3, <3>1
    <3> QED BY <1>0, <1>1, <3>3, <3>4 DEF Shape
  <2>6. /\ \A r \in Roots : root[r] # x
        /\ \A p \in Ids : x \in Members(data[p]) => color[p] = "white"
    BY <1>0, <1>1, <1>5, CondemnedUnreferenced
  <2>7. NoDangling'
    <3>1. ASSUME NEW r \in Roots, root'[r] # Nil PROVE Live(root[r])'
      <4>1. root[r] \in Ids /\ Live(root[r]) /\ root[r] # x /\ root'[r] = root[r]
        BY <1>0, <1>1, <2>6, <3>1 DEF HeapInv, NoDangling, TypeOK
      <4>2. Live(root[r])' <=> kind'[root[r]] # Nil
        BY <4>1 DEF Live
      <4> QED BY <2>1, <4>1, <4>2 DEF Live
    <3>2. ASSUME NEW p \in LiveIds', NEW c \in Members(data'[p])
          PROVE  Live(c)' \/ (pc' = "white" /\ color'[p] = "white")
      <4>1. p \in LiveIds /\ p # x /\ p \in Ids /\ data'[p] = data[p] /\ color'[p] = color[p]
        BY <2>1, <2>3 DEF LiveIds
      <4>2. c \in Members(data[p]) /\ c \in Ids
        BY <1>1, <3>2, <4>1, CollectFacts
      <4>3. Live(c) \/ color[p] = "white"
        BY <4>1, <4>2 DEF HeapInv, NoDangling
      <4> QED BY <1>0, <2>1, <2>6, <4>1, <4>2, <4>3
    <3>3. ASSUME NEW e \in Ids, readers'[e] > 0 PROVE Live(e)'
      <4>1. Live(e)
        BY <1>5, <3>3 DEF HeapInv, NoDangling
      <4>2. readers[x] = 0
        BY <1>1, <1>5 DEF Colored
      <4>3. e # x
        BY SMTT(30), <1>5, <3>3, <4>2
      <4> QED BY <2>1, <4>1, <4>3
    <3> QED BY <1>0, <3>1, <3>2, <3>3 DEF NoDangling
  <2>8. CountsExact'
    <3>1. ASSUME NEW e \in LiveIds' PROVE refcount'[e] = Count(e)'
      <4>1. e \in LiveIds /\ e \in Ids /\ e # x
        BY <2>1 DEF LiveIds
      <4>2. RootRefs(e)' = RootRefs(e) /\ DyingRefs(e)' = DyingRefs(e)
        BY <1>0 DEF RootRefs, DyingRefs
      <4>3. \A p \in Ids, i \in Nat : p # x => (TakenOff(p, i)' <=> TakenOff(p, i))
        BY <1>0, <2>3 DEF TakenOff
      <4>4. \A i : TakenOff(x, i)
        BY <1>0, <1>5, WhiteFacts
      <4>5. EdgeRefs(e)' = EdgeRefs(e)
        <5>1. ASSUME NEW p \in Ids, NEW i \in 1..Width
              PROVE  (i \in DOMAIN data'[p] /\ data'[p][i] = e /\ ~TakenOff(p, i)')
                       <=> (i \in DOMAIN data[p] /\ data[p][i] = e /\ ~TakenOff(p, i))
          <6>1. CASE p = x
            BY SMTT(30), <2>1, <4>4, <6>1
          <6>2. CASE p # x
            BY SMTT(30), <2>1, <4>3, <6>2, SizeAssumption
          <6> QED BY <6>1, <6>2
        <5> QED BY <5>1 DEF EdgeRefs
      <4>6. Count(e)' = Count(e)
        BY <4>2, <4>5 DEF Count
      <4>7. refcount'[e] = refcount[e]
        BY <1>1, <1>5, <4>1
      <4> QED BY <4>1, <4>6, <4>7 DEF HeapInv, CountsExact
    <3> QED BY <3>1 DEF CountsExact
  <2>9. ColorsOK' /\ StacksOK'
    <3>1. \A e \in Colored("white")' : refcount'[e] = 0 /\ readers'[e] = 0
      BY <1>1, <1>5, <2>3 DEF Colored
    <3> QED BY <1>0, <2>3, <3>1 DEF ColorsOK, StacksOK
  <2>10. ReachOK'
    <3>1. PICK b2 : b2 = Members(w) \cup Members(data[x])
      OBVIOUS
    <3>2. Members(work_stack) \subseteq b2 \cup {x} /\ Members(data[x]) \subseteq b2
      BY <1>3, <3>1
    <3>3. \A p \in Ids : p # x /\ color[p] = "white" => color'[p] = "white" /\ data'[p] = data[p]
      BY <2>1, <2>3
    <3>4. Colored("white")' \subseteq Colored("white") /\ x \notin Colored("white")'
      BY <2>3
    <3>5. Reached(color', data', b2, "white", Colored("white")')
      BY SMTT(30), <1>1, <3>2, <3>3, <3>4, ReachWithout
    <3> QED BY <1>0, <2>2, <3>1, <3>5 DEF ReachOK
  <2> QED BY <2>1, <2>4, <2>5, <2>7, <2>8, <2>9, <2>10 DEF HeapInv
<1>6. \/ /\ (~Live(x) \/ color[x] # "white") /\ work_stack' = w
         /\ UNCHANGED <<len, free, kind, refcount, readers, color, data, key, weak, pinned>>
      \/ /\ Live(x) /\ color[x] = "white" /\ FreeEntry(x) /\ readers' = readers
         /\ refcount' = [refcount EXCEPT ![x] = 0] /\ color' = [color EXCEPT ![x] = "black"]
         /\ work_stack' = w \o data[x]
  BY <1>2, <1>3 DEF CollectWhite, PyDecRefIds, arena, entries
<1> QED BY <1>1, <1>4, <1>5, <1>6

(* When collect_white ends no entry is gray or white: every edge that was  *)
(* taken off was put back or went with the entry that held it.             *)
LEMMA FinishCollectionInv ==
    ASSUME HeapInv, FinishCollection
    PROVE  HeapInv'
<1>0. /\ pc = "white" /\ work_stack = <<>> /\ pc' = "vm" /\ purple_count' = 0
      /\ allocations_since_gc' = 0 /\ seeds' = <<>> /\ cursor' = 1
      /\ pinned' \subseteq pinned \cup LiveIds
      /\ UNCHANGED <<len, free, kind, refcount, readers, color, data, key, weak, root,
                     work_stack, black_stack, cur, edge>>
  BY DEF FinishCollection, Garbage, arena, entries
<1>1. /\ TypeOK /\ Colored("gray") = {} /\ black_stack = <<>> /\ cur = Nil /\ pc \in Collecting
      /\ Reached(color, data, Members(work_stack), "white", Colored("white"))
      /\ \A p, i : TakenOff(p, i) <=> color[p] \in {"gray", "white"}
  BY <1>0, WhiteFacts
<1>2. Colored("white") = {}
  <2>1. Members(work_stack) = {}
    BY SMTT(30), <1>0 DEF Members
  <2> QED BY <1>1, <2>1, ReachNothing
<1>3. TypeOK'
  <2>1. pinned' \subseteq Ids
    BY <1>0, <1>1 DEF TypeOK, LiveIds
  <2> QED BY SMTT(30), <1>0, <1>1, <2>1 DEF TypeOK
<1>4. LiveIds' = LiveIds /\ FreeListExact' /\ WeakIndexExact' /\ \A e : Live(e)' <=> Live(e)
  BY <1>0, SameLive
<1>5. Shape'
  BY <1>0, <1>1, <1>4 DEF HeapInv, Shape
<1>6. \A e \in Ids : color[e] \notin {"gray", "white"}
  BY <1>1, <1>2 DEF Colored
<1>7. NoDangling'
  <2>1. /\ \A r \in Roots : root[r] # Nil => Live(root[r])
        /\ \A p \in LiveIds : \A c \in Members(data[p]) : Live(c)
        /\ \A e \in Ids : readers[e] > 0 => Live(e)
    BY <1>6 DEF HeapInv, NoDangling, LiveIds
  <2> QED BY SMTT(30), <1>0, <1>4, <2>1 DEF NoDangling, Members, Live
<1>8. CountsExact'
  <2>1. ASSUME NEW e PROVE Count(e)' = Count(e)
    <3>1. /\ RootRefs(e)' = RootRefs(e) /\ DyingRefs(e)' = DyingRefs(e)
      BY <1>0 DEF RootRefs, DyingRefs
    <3>2. \A p \in Ids : \A i : ~TakenOff(p, i) /\ ~TakenOff(p, i)'
      BY <1>0, <1>1, <1>6 DEF TakenOff
    <3>3. EdgeRefs(e)' = EdgeRefs(e)
      BY <1>0, <3>2 DEF EdgeRefs
    <3> QED BY <3>1, <3>3 DEF Count
  <2> QED BY <1>0, <1>4, <2>1 DEF HeapInv, CountsExact
<1>9. Colored("gray")' = {} /\ Colored("white")' = {}
  BY <1>0, <1>1, <1>2 DEF Colored
<1> QED BY <1>0, <1>3, <1>4, <1>5, <1>7, <1>8, <1>9, NotCollectingNext DEF HeapInv

-----------------------------------------------------------------------------
(* The invariant holds in every state of every run of the heap: between    *)
(* the steps of dec_ref and of the collector too.                          *)
THEOREM HeapInvariant == Spec => []HeapInv
<1>1. Init => HeapInv
  BY InitInv
<1>2. HeapInv /\ [Next]_vars => HeapInv'
  <2> SUFFICES ASSUME HeapInv, [Next]_vars PROVE HeapInv'
    OBVIOUS
  <2>1. CASE Interpreter
    BY <2>1, InterpreterInv
  <2>2. CASE DecRef \/ DecRefPanics
    BY <2>2, DecRefInv
  <2>3. CASE Collector
    BY <2>3, StartCollectionInv, FindRootInv, StartScanInv, MarkEdgeInv, MarkNextInv,
       ScanPopInv, ScanEdgeInv, BlackEdgeInv, BlackNextInv, StartCollectWhiteInv,
       CollectWhiteInv, FinishCollectionInv DEF Collector
  <2>4. CASE UNCHANGED vars
    <3>1. UNCHANGED <<len, free, kind, refcount, readers, color, data, key, purple_count,
                      allocations_since_gc, weak, root, pc, work_stack, black_stack, cur,
                      edge, seeds, cursor, pinned>>
      BY <2>4 DEF vars, arena, entries, counters, loop
    <3>2. /\ TypeOK' /\ Shape' /\ FreeListExact' /\ WeakIndexExact' /\ ColorsOK'
      BY <3>1, SameLive DEF HeapInv, TypeOK, Shape, ColorsOK, Colored, Live
    <3>3. NoDangling' /\ StacksOK'
      <4>1. NoDangling'
        BY <3>1 DEF HeapInv, NoDangling, Live, LiveIds
      <4>2. StacksOK'
        BY <3>1 DEF HeapInv, StacksOK, Colored, Live
      <4> QED BY <4>1, <4>2
    <3>4. CountsExact'
      <4>1. ASSUME NEW e PROVE Count(e)' = Count(e)
        BY <3>1 DEF Count, RootRefs, EdgeRefs, DyingRefs, TakenOff
      <4>2. LiveIds' = LiveIds
        BY <3>1, SameLive
      <4> QED BY <3>1, <4>1, <4>2 DEF HeapInv, CountsExact
    <3>5. ReachOK'
      BY <3>1 DEF HeapInv, ReachOK, Colored, Pending
    <3> QED BY <3>2, <3>3, <3>4, <3>5 DEF HeapInv
  <2> QED BY <2>1, <2>2, <2>3, <2>4 DEF Next
<1> QED BY <1>1, <1>2, PTL DEF Spec

(* dec_ref and collect_cycles never miscount: the count of every live      *)
(* entry is the number of references to it, less those trial deletion has  *)
(* taken off, at every step and for every object graph.                    *)
THEOREM HeapCountsExact == Spec => []CountsExact
<1>1. HeapInv => CountsExact
  BY DEF HeapInv
<1> QED BY <1>1, HeapInvariant, PTL

(* No root, no stack of a loop, no reader and no edge of an entry that     *)
(* survives ever names a freed slot, so the heap's get never panics.       *)
THEOREM HeapNoDangling == Spec => []NoDangling
<1>1. HeapInv => NoDangling
  BY DEF HeapInv
<1> QED BY <1>1, HeapInvariant, PTL

(* StableHeap's free list is exactly the freed slots, each once.           *)
THEOREM HeapFreeListExact == Spec => []FreeListExact
<1>1. HeapInv => FreeListExact
  BY DEF HeapInv
<1> QED BY <1>1, HeapInvariant, PTL

(* The weak indexes never name a slot another object has been given.       *)
THEOREM HeapWeakIndexExact == Spec => []WeakIndexExact
<1>1. HeapInv => WeakIndexExact
  BY DEF HeapInv
<1> QED BY <1>1, HeapInvariant, PTL

-----------------------------------------------------------------------------
(* The heap implements ObjectGraph: reference counting and trial deletion  *)
(* take back only what nothing that stays refers to, and nothing else they *)
(* do can be seen by the interpreter.                                      *)

(* Outside collect_white the interpreter sees the whole heap as it is.     *)
LEMMA SeenWhole ==
    ASSUME HeapInv, pc # "white"
    PROVE  Kept = LiveIds /\ KeptData = data /\ KeptWeak = weak
<1>1. /\ data \in [Ids -> Seq(Ids)] /\ weak \in [Names -> Ids \cup {Nil}]
      /\ \A e \in Ids : ~Live(e) => data[e] = <<>>
      /\ \A k \in Names, e \in Ids : weak[k] = e => Live(e)
  BY DEF HeapInv, TypeOK, Shape, WeakIndexExact
<1>2. Kept = LiveIds
  BY DEF Kept
<1>3. \A e \in Ids : KeptData[e] = data[e]
  BY <1>1, <1>2 DEF KeptData, LiveIds
<1>4. KeptData = data
  BY <1>1, <1>3 DEF KeptData
<1>5. Nil \notin Ids
  BY SMTT(30), NilAssumption DEF Ids
<1>6. \A k \in Names : KeptWeak[k] = weak[k]
  BY <1>1, <1>2, <1>5 DEF KeptWeak, LiveIds
<1>7. KeptWeak = weak
  BY <1>1, <1>6 DEF KeptWeak
<1> QED BY <1>2, <1>4, <1>7

(* The same of the state after a step.                                     *)
LEMMA SeenWholeNext ==
    ASSUME HeapInv', pc' # "white"
    PROVE  Kept' = LiveIds' /\ KeptData' = data' /\ KeptWeak' = weak'
<1>1. /\ data' \in [Ids -> Seq(Ids)] /\ weak' \in [Names -> Ids \cup {Nil}]
      /\ \A e \in Ids : ~Live(e)' => data'[e] = <<>>
      /\ \A k \in Names, e \in Ids : weak'[k] = e => Live(e)'
  BY DEF HeapInv, TypeOK, Shape, WeakIndexExact
<1>2. Kept' = LiveIds'
  BY DEF Kept
<1>3. \A e \in Ids : KeptData'[e] = data'[e]
  BY <1>1, <1>2 DEF KeptData, LiveIds
<1>4. KeptData' = data'
  BY <1>1, <1>3 DEF KeptData
<1>5. Nil \notin Ids
  BY SMTT(30), NilAssumption DEF Ids
<1>6. \A k \in Names : KeptWeak'[k] = weak'[k]
  BY <1>1, <1>2, <1>5 DEF KeptWeak, LiveIds
<1>7. KeptWeak' = weak'
  BY <1>1, <1>6 DEF KeptWeak
<1> QED BY <1>2, <1>4, <1>7

(* A step that only moves a loop along cannot be seen.                     *)
LEMMA Unseen ==
    ASSUME HeapInv, HeapInv', pc # "white", pc' # "white",
           UNCHANGED <<kind, data, weak, root, readers>>
    PROVE  UNCHANGED Graph!graph
<1>1. LiveIds' = LiveIds
  BY DEF LiveIds, Live
<1>2. Kept' = Kept /\ KeptData' = KeptData /\ KeptWeak' = KeptWeak
  BY <1>1, SeenWhole, SeenWholeNext
<1> QED BY <1>2 DEF Graph!graph

LEMMA GraphInit == Init => Graph!Init
<1> SUFFICES ASSUME Init PROVE Graph!Init
  OBVIOUS
<1>1. LiveIds = {}
  BY DEF Init, LiveIds, Live
<1>2. Kept = LiveIds /\ KeptData = data /\ KeptWeak = weak
  <2>1. HeapInv /\ pc # "white"
    BY InitInv DEF Init
  <2> QED BY <2>1, SeenWhole
<1> QED BY <1>1, <1>2 DEF Graph!Init, Init

-----------------------------------------------------------------------------
(* A step of the interpreter: before and after it the graph is the heap.   *)
Whole == Kept = LiveIds /\ KeptData = data /\ KeptWeak = weak
LEMMA AllocateSeen ==
    ASSUME HeapInv, Whole, Whole', NEW r \in Roots, NEW k \in AllKinds,
           NEW n \in Names \cup {Nil}, NewEntry(k, n), root[r] = Nil,
           root' = [root EXCEPT ![r] = NextId]
    PROVE  NextId \in Ids /\ Graph!Make(r, NextId)
<1>1. PICK x \in Ids : x = NextId /\ ~Live(x)
  BY SlotFacts DEF NewEntry
<1>2. /\ kind' = [kind EXCEPT ![x] = k] /\ data' = [data EXCEPT ![x] = <<>>]
      /\ readers' = [readers EXCEPT ![x] = 0]
  BY <1>1 DEF NewEntry
<1>3. /\ kind \in [Ids -> AllKinds \cup {Nil}] /\ data \in [Ids -> Seq(Ids)]
      /\ readers \in [Ids -> Nat] /\ data[x] = <<>> /\ ~(readers[x] > 0)
  BY <1>1 DEF HeapInv, TypeOK, Shape, NoDangling
<1>4. k # Nil
  BY NilAssumption
<1>5. LiveIds' = LiveIds \cup {x} /\ x \notin LiveIds
  BY <1>1, <1>2, <1>3, <1>4 DEF LiveIds, Live
<1>6. data' = data
  BY <1>2, <1>3
<1>7. readers' = readers
  BY SMTT(30), <1>2, <1>3
<1> QED BY <1>1, <1>5, <1>6, <1>7 DEF Graph!Make, Whole

(* A copied reference.                                                     *)
LEMMA CopySeen ==
    ASSUME Whole, Whole', NEW r \in Roots, NEW x, root[r] = Nil,
           root' = [root EXCEPT ![r] = x], UNCHANGED <<kind, data, weak, readers>>
    PROVE  Graph!Copy(r, x)
<1>1. LiveIds' = LiveIds
  BY DEF LiveIds, Live
<1> QED BY <1>1 DEF Graph!Copy, Whole

LEMMA InterpreterSeen ==
    ASSUME HeapInv, HeapInv', Interpreter
    PROVE  Graph!Next \/ UNCHANGED Graph!graph
<1>1. pc = "vm" /\ pc' \in {"vm", "dec_ref"}
  BY DEF Interpreter, Allocate, GetByName, Clone, Store, Take, Load, OpenReader, Drop,
         CloseReader, Restore, Idle
<1>2. Whole /\ Whole'
  BY <1>1, SeenWhole, SeenWholeNext DEF Whole
<1>3. CASE \E r \in Roots, k \in Kinds : Allocate(r, k)
  <2>1. PICK r \in Roots, k \in Kinds : Allocate(r, k)
    BY <1>3
  <2>2. /\ k \in AllKinds /\ NewEntry(k, Nil) /\ root[r] = Nil /\ weak' = weak
        /\ root' = [root EXCEPT ![r] = NextId]
    BY <2>1, KindAssumption DEF Allocate
  <2>3. NextId \in Ids /\ Graph!Make(r, NextId)
    BY <1>2, <2>2, AllocateSeen
  <2>4. Graph!New(r, NextId)
    BY <1>2, <2>2, <2>3 DEF Graph!New, Whole
  <2> QED BY <2>3, <2>4 DEF Graph!Next
<1>4. CASE \E r \in Roots, n \in Names : GetByName(r, n)
  <2>1. PICK r \in Roots, n \in Names : GetByName(r, n)
    BY <1>4
  <2>2. CASE weak[n] # Nil
    <3>1. /\ root[r] = Nil /\ root' = [root EXCEPT ![r] = weak[n]]
          /\ UNCHANGED <<kind, data, weak, readers>>
      BY <2>1, <2>2 DEF GetByName
    <3>2. Graph!Copy(r, weak[n])
      BY <1>2, <3>1, CopySeen
    <3>3. Graph!CopyNamed(r, n)
      BY <1>2, <2>2, <3>2 DEF Graph!CopyNamed, Whole
    <3> QED BY <3>3 DEF Graph!Next
  <2>3. CASE weak[n] = Nil
    <3>1. /\ NewEntry("container", n) /\ root[r] = Nil
          /\ weak' = [weak EXCEPT ![n] = NextId]
          /\ root' = [root EXCEPT ![r] = NextId]
      BY <2>1, <2>3 DEF GetByName
    <3>2. NextId \in Ids /\ Graph!Make(r, NextId)
      BY <1>2, <3>1, AllocateSeen DEF AllKinds
    <3>3. Graph!NewNamed(r, NextId, n)
      BY <1>2, <2>3, <3>1, <3>2 DEF Graph!NewNamed, Whole
    <3> QED BY <3>2, <3>3 DEF Graph!Next
  <2> QED BY <2>2, <2>3
<1>5. CASE \E r \in Roots, q \in Roots : Clone(r, q)
  <2>1. PICK r \in Roots, q \in Roots : Clone(r, q)
    BY <1>5
  <2>2. Graph!Copy(q, root[r]) /\ root[r] # Nil
    BY <1>2, <2>1, CopySeen DEF Clone
  <2>3. Graph!CopyHeld(q, r)
    BY <2>2 DEF Graph!CopyHeld
  <2> QED BY <2>3 DEF Graph!Next
<1>6. CASE \E r \in Roots, q \in Roots, i \in 1..Width : Load(r, q, i)
  <2>1. PICK r \in Roots, q \in Roots, i \in 1..Width : Load(r, q, i)
    BY <1>6
  <2>2. /\ root[r] = Nil /\ root[q] # Nil /\ i \in DOMAIN data[root[q]]
        /\ root' = [root EXCEPT ![r] = data[root[q]][i]]
        /\ UNCHANGED <<kind, data, weak, readers>>
    BY <2>1 DEF Load
  <2>3. Graph!Copy(r, data[root[q]][i])
    BY <1>2, <2>2, CopySeen
  <2>4. Graph!CopyOut(r, q)
    BY <1>2, <2>2, <2>3 DEF Graph!CopyOut, Whole
  <2> QED BY <2>4 DEF Graph!Next
<1>7. CASE \E r \in Roots, q \in Roots : Store(r, q)
  <2>1. PICK r \in Roots, q \in Roots : Store(r, q)
    BY <1>7
  <2>2. LiveIds' = LiveIds
    BY <2>1 DEF LiveIds, Live, Store
  <2>3. Graph!Put(r, q)
    BY <1>2, <2>1, <2>2 DEF Graph!Put, Whole, Store
  <2> QED BY <2>3 DEF Graph!Next
<1>8. CASE \E r \in Roots, q \in Roots : Take(r, q)
  <2>1. PICK r \in Roots, q \in Roots : Take(r, q)
    BY <1>8
  <2>2. LiveIds' = LiveIds
    BY <2>1 DEF LiveIds, Live, Take
  <2>3. data \in [Ids -> Seq(Ids)] /\ root[q] \in Ids
    BY <1>1, <2>1, VmFacts DEF Take, HeapInv, TypeOK
  <2>4. Graph!TakeOut(r, q)
    BY <1>2, <2>1, <2>2, <2>3 DEF Graph!TakeOut, Whole, Take, Last, Pop
  <2> QED BY <2>4 DEF Graph!Next
<1>9. CASE (\E r \in Roots : OpenReader(r)) \/ (\E e \in Ids : CloseReader(e))
  <2>1. CASE \E r \in Roots : OpenReader(r)
    <3>1. PICK r \in Roots : OpenReader(r)
      BY <2>1
    <3>2. LiveIds' = LiveIds
      BY <3>1 DEF LiveIds, Live, OpenReader
    <3>3. Graph!Open(r)
      BY <1>2, <3>1, <3>2 DEF Graph!Open, Whole, OpenReader
    <3> QED BY <3>3 DEF Graph!Next
  <2>2. CASE \E e \in Ids : CloseReader(e)
    <3>1. PICK e \in Ids : CloseReader(e)
      BY <2>2
    <3>2. LiveIds' = LiveIds /\ e \in LiveIds
      BY <3>1 DEF LiveIds, Live, CloseReader
    <3>3. Graph!Close(e)
      BY <1>2, <3>1, <3>2 DEF Graph!Close, Whole, CloseReader
    <3> QED BY <3>3 DEF Graph!Next
  <2> QED BY <1>9, <2>1, <2>2
<1>10. CASE \E r \in Roots : Drop(r)
  <2>1. PICK r \in Roots : Drop(r)
    BY <1>10
  <2>2. LiveIds' = LiveIds /\ UNCHANGED <<data, weak, readers>>
    BY <2>1 DEF LiveIds, Live, Drop, entries
  <2>3. Graph!Forget(r)
    BY <1>2, <2>1, <2>2 DEF Graph!Forget, Whole, Drop
  <2> QED BY <2>3 DEF Graph!Next
<1>11. CASE Restore
  <2>1. UNCHANGED <<kind, data, key, root, readers>>
    BY <1>11 DEF Restore, entries
  <2>2. /\ weak \in [Names -> Ids \cup {Nil}] /\ weak' \in [Names -> Ids \cup {Nil}]
        /\ \A k \in Names, e \in Ids : weak[k] = e <=> Live(e) /\ key[e] = k
        /\ \A k \in Names, e \in Ids : weak'[k] = e <=> Live(e)' /\ key'[e] = k
    BY DEF HeapInv, TypeOK, WeakIndexExact
  <2>3. \A e \in Ids : Live(e)' <=> Live(e)
    BY <2>1 DEF Live
  <2>4. \A k \in Names : weak'[k] = weak[k]
    BY SMTT(30), <2>1, <2>2, <2>3
  <2>5. weak' = weak
    BY SMTT(30), <2>2, <2>4
  <2> QED BY <1>1, <2>1, <2>5, Unseen
<1> QED BY <1>3, <1>4, <1>5, <1>6, <1>7, <1>8, <1>9, <1>10, <1>11 DEF Interpreter

-----------------------------------------------------------------------------
(* The weak index loses the object that is freed and nothing else.         *)
LEMMA WeakFreed ==
    ASSUME HeapInv, NEW x \in Ids, Live(x), FreeEntry(x)
    PROVE  \A k \in Names : weak'[k] = IF weak[k] = x THEN Nil ELSE weak[k]
<1>1. /\ weak \in [Names -> Ids \cup {Nil}]
      /\ \A k \in Names, e \in Ids : weak[k] = e <=> Live(e) /\ key[e] = k
  BY DEF HeapInv, TypeOK, WeakIndexExact
<1>2. /\ weak' \in [Names -> Ids \cup {Nil}]
      /\ \A e \in Ids : Live(e)' <=> Live(e) /\ e # x
      /\ \A e \in Ids : key'[e] = IF e = x THEN Nil ELSE key[e]
      /\ WeakIndexExact'
  BY FreedFacts
<1>3. \A k \in Names, e \in Ids : weak'[k] = e <=> Live(e)' /\ key'[e] = k
  BY <1>2 DEF WeakIndexExact
<1>4. \A k \in Names, e \in Ids : weak'[k] = e <=> weak[k] = e /\ e # x
  BY SMTT(30), <1>1, <1>2, <1>3
<1> QED BY SMTT(30), <1>1, <1>2, <1>4

(* dec_ref frees an entry that only the dropped reference still named.     *)
LEMMA DecRefSeen ==
    ASSUME HeapInv, HeapInv', DecRef
    PROVE  Graph!Next \/ UNCHANGED Graph!graph
<1>1. pc = "dec_ref" /\ pc' \in {"vm", "dec_ref"} /\ work_stack # <<>> /\ UNCHANGED <<root, readers>>
  BY DEF DecRef
<1>2. Whole /\ Whole'
  BY <1>1, SeenWhole, SeenWholeNext DEF Whole
<1>3. CASE DecRefSurvives(Last(work_stack))
  <2>1. UNCHANGED <<kind, data, weak, root, readers>>
    BY <1>1, <1>3 DEF DecRefSurvives
  <2> QED BY <1>1, <2>1, Unseen
<1>4. CASE DecRefFrees(Last(work_stack))
  <2>1. PICK x \in Ids : x = Last(work_stack) /\ Live(x) /\ x \in Members(work_stack)
    BY <1>1, DecRefFacts, PopFacts
  <2>2. refcount[x] <= 1 /\ readers[x] = 0 /\ FreeEntry(x)
    BY <1>4, <2>1 DEF DecRefFrees
  <2>3. refcount[x] = Cardinality(RootRefs(x)) + Cardinality(EdgesTo(x))
                        + Cardinality(DyingRefs(x))
    BY <1>1, <2>1, DecRefFacts DEF LiveIds
  <2>4. /\ IsFiniteSet(RootRefs(x)) /\ Cardinality(RootRefs(x)) \in Nat
        /\ IsFiniteSet(EdgesTo(x)) /\ Cardinality(EdgesTo(x)) \in Nat
        /\ IsFiniteSet(DyingRefs(x)) /\ Cardinality(DyingRefs(x)) \in Nat
    BY <1>1, DecRefFacts, RefsFinite, AllEdgesCount
  <2>5. Cardinality(DyingRefs(x)) # 0
    <3>1. DyingRefs(x) # {}
      BY <1>1, <2>1 DEF DyingRefs, Members
    <3> QED BY <2>4, <3>1, FS_EmptySet
  <2>6. Cardinality(RootRefs(x)) = 0 /\ Cardinality(EdgesTo(x)) = 0
    BY SMTT(30), <2>2, <2>3, <2>4, <2>5
  <2>7. RootRefs(x) = {} /\ EdgesTo(x) = {}
    BY <2>4, <2>6, FS_EmptySet
  <2>8. \A p \in Ids : \A i \in DOMAIN data[p] : data[p][i] # x
    <3>1. SUFFICES ASSUME NEW p \in Ids, NEW i \in DOMAIN data[p], data[p][i] = x
                   PROVE  FALSE
      OBVIOUS
    <3>2. data[p] \in Seq(Ids) /\ Len(data[p]) <= Width
      BY DEF HeapInv, TypeOK, Shape
    <3>3. i \in 1..Width
      BY SMTT(30), <3>2, LenProperties, SizeAssumption
    <3>4. <<p, i>> \in EdgesTo(x)
      BY <3>1, <3>3 DEF EdgesTo
    <3> QED BY <2>7, <3>4
  <2>9. \A r \in Roots : root[r] # x
    BY <2>7 DEF RootRefs
  <2>10. /\ \A e \in Ids : Live(e)' <=> Live(e) /\ e # x
         /\ \A e \in Ids : data'[e] = IF e = x THEN <<>> ELSE data[e]
         /\ data' \in [Ids -> Seq(Ids)] /\ weak' \in [Names -> Ids \cup {Nil}]
    BY <2>1, <2>2, FreedFacts
  <2>11. LiveIds' = LiveIds \ {x} /\ {x} \subseteq LiveIds
    BY <2>1, <2>10 DEF LiveIds
  <2>12. data' = [e \in Ids |-> IF e \in {x} THEN <<>> ELSE data[e]]
    BY <2>10
  <2>13. weak' = [k \in Names |-> IF weak[k] \in {x} THEN Nil ELSE weak[k]]
    BY <2>1, <2>2, <2>10, WeakFreed
  <2>14. Graph!Unreferenced({x})
    BY <1>2, <2>2, <2>8, <2>9 DEF Graph!Unreferenced, Whole, LiveIds
  <2>15. Graph!Reclaim({x})
    BY <1>1, <1>2, <2>11, <2>12, <2>13, <2>14 DEF Graph!Reclaim, Whole
  <2>16. {x} \in SUBSET Ids
    BY <2>1
  <2> QED BY <2>15, <2>16 DEF Graph!Next
<1> QED BY <1>3, <1>4 DEF DecRef

(* scan has decided: what it condemned goes, in one step.                  *)
LEMMA CondemnSeen ==
    ASSUME HeapInv, HeapInv', StartCollectWhite
    PROVE  Graph!Next \/ UNCHANGED Graph!graph
<1>1. /\ pc = "scan" /\ pc' = "white"
      /\ UNCHANGED <<kind, refcount, readers, color, data, weak, root>>
  BY DEF StartCollectWhite, entries
<1>2. Whole
  BY <1>1, SeenWhole DEF Whole
<1>3. PICK S \in SUBSET Ids : S = Colored("white")
  BY DEF Colored
<1>4. /\ data \in [Ids -> Seq(Ids)] /\ weak \in [Names -> Ids \cup {Nil}]
      /\ Colored("gray") = {} /\ \A e \in S : readers[e] = 0
  BY <1>1, <1>3 DEF HeapInv, TypeOK, ColorsOK, Colored
<1>5. S \subseteq LiveIds
  <2>1. pc \in Collecting
    BY <1>1 DEF Collecting
  <2> QED BY <1>3, <2>1, CollectFacts DEF Colored, LiveIds
<1>6. Kept' = LiveIds \ S
  BY <1>1, <1>3 DEF Kept, LiveIds, Live, Colored
<1>7. KeptData' = [e \in Ids |-> IF e \in S THEN <<>> ELSE data[e]]
  <2>1. \A e \in Ids : e \notin LiveIds => data[e] = <<>>
    BY DEF HeapInv, Shape, LiveIds
  <2> QED BY <1>1, <1>5, <1>6, <2>1 DEF KeptData
<1>8. KeptWeak' = [k \in Names |-> IF weak[k] \in S THEN Nil ELSE weak[k]]
  <2>1. \A k \in Names : weak[k] \in LiveIds \/ weak[k] = Nil
    BY <1>4 DEF HeapInv, WeakIndexExact, LiveIds
  <2>2. Nil \notin Ids
    BY SMTT(30), NilAssumption DEF Ids
  <2>3. \A k \in Names : (IF weak[k] \in LiveIds \ S THEN weak[k] ELSE Nil)
                           = IF weak[k] \in S THEN Nil ELSE weak[k]
    BY <1>3, <2>1, <2>2
  <2> QED BY <1>1, <1>6, <2>3 DEF KeptWeak
<1>9. CASE S = {}
  <2>1. Kept' = Kept
    BY <1>2, <1>6, <1>9 DEF Whole
  <2>2. KeptData' = KeptData
    BY <1>2, <1>4, <1>7, <1>9 DEF Whole
  <2>3. KeptWeak' = KeptWeak
    BY <1>2, <1>4, <1>8, <1>9 DEF Whole
  <2> QED BY <1>1, <2>1, <2>2, <2>3 DEF Graph!graph
<1>10. CASE S # {}
  <2>1. \A x \in S : /\ \A r \in Roots : root[r] # x
                     /\ \A p \in Ids : x \in Members(data[p]) => color[p] = "white"
    BY <1>1, <1>3, <1>4, CondemnedUnreferenced DEF Colored
  <2>2. \A p \in LiveIds \ S : \A i \in DOMAIN data[p] : data[p][i] \notin S
    BY <1>3, <2>1 DEF Colored, LiveIds, Members
  <2>3. Graph!Unreferenced(S)
    BY <1>2, <1>4, <2>1, <2>2 DEF Graph!Unreferenced, Whole
  <2>4. Graph!Reclaim(S)
    BY <1>1, <1>2, <1>5, <1>6, <1>7, <1>8, <1>10, <2>3 DEF Graph!Reclaim, Whole
  <2> QED BY <2>4 DEF Graph!Next
<1> QED BY <1>9, <1>10

(* collect_white frees what is gone already.                               *)
LEMMA CollectWhiteSeen ==
    ASSUME HeapInv, HeapInv', CollectWhite
    PROVE  UNCHANGED Graph!graph
<1>1. pc = "white" /\ pc' = "white" /\ work_stack # <<>> /\ UNCHANGED root
  BY DEF CollectWhite
<1>2. PICK x \in Ids : x = Last(work_stack)
  BY <1>1, WhiteFacts, PopFacts
<1>3. CASE UNCHANGED <<arena, entries, weak, pinned>>
  <2>1. UNCHANGED <<kind, color, data, weak, readers>>
    BY <1>3 DEF entries
  <2>2. Kept' = Kept
    BY <1>1, <2>1 DEF Kept, LiveIds, Live
  <2> QED BY <1>1, <2>1, <2>2 DEF Graph!graph, KeptData, KeptWeak
<1>4. CASE /\ Live(x) /\ color[x] = "white" /\ FreeEntry(x) /\ readers' = readers
           /\ color' = [color EXCEPT ![x] = "black"]
  <2>1. /\ \A e \in Ids : Live(e)' <=> Live(e) /\ e # x
        /\ \A e \in Ids : data'[e] = IF e = x THEN <<>> ELSE data[e]
    BY <1>4, FreedFacts
  <2>2. \A e \in Ids : e # x => color'[e] = color[e]
    BY <1>4, WhiteFacts, <1>1
  <2>3. x \notin Kept /\ Kept' = Kept
    BY <1>1, <1>4, <2>1, <2>2 DEF Kept, LiveIds
  <2>4. KeptData' = KeptData
    BY <2>1, <2>3 DEF KeptData
  <2>5. \A k \in Names : weak'[k] = IF weak[k] = x THEN Nil ELSE weak[k]
    BY <1>4, WeakFreed
  <2>6. Nil \notin Kept
    BY SMTT(30), NilAssumption DEF Kept, LiveIds, Ids
  <2>7. KeptWeak' = KeptWeak
    BY <2>3, <2>5, <2>6 DEF KeptWeak
  <2> QED BY <1>1, <1>4, <2>3, <2>4, <2>7 DEF Graph!graph
<1> QED BY <1>2, <1>3, <1>4 DEF CollectWhite

LEMMA CollectorSeen ==
    ASSUME HeapInv, HeapInv', Collector
    PROVE  Graph!Next \/ UNCHANGED Graph!graph
<1>1. CASE StartCollection \/ FindRoot \/ MarkEdge \/ MarkNext \/ StartScan \/ ScanPop
             \/ ScanEdge \/ BlackEdge \/ BlackNext
  <2>1. UNCHANGED <<kind, data, weak, root, readers>>
    BY <1>1 DEF StartCollection, FindRoot, MarkEdge, MarkNext, StartScan, ScanPop, ScanEdge,
                BlackEdge, BlackNext, entries
  <2>2. pc # "white" /\ pc' # "white"
    BY <1>1 DEF StartCollection, FindRoot, MarkEdge, MarkNext, StartScan, ScanPop, ScanEdge,
                BlackEdge, BlackNext
  <2> QED BY <2>1, <2>2, Unseen
<1>2. CASE StartCollectWhite
  BY <1>2, CondemnSeen
<1>3. CASE CollectWhite
  BY <1>3, CollectWhiteSeen
<1>4. CASE FinishCollection
  <2>1. pc' = "vm" /\ UNCHANGED <<kind, color, data, weak, root, readers>>
    BY <1>4 DEF FinishCollection, entries
  <2>2. Colored("white") = {}
    BY <2>1 DEF HeapInv, ColorsOK, Colored
  <2>3. Kept' = Kept
    BY <2>1, <2>2 DEF Kept, LiveIds, Live, Colored
  <2> QED BY <2>1, <2>3 DEF Graph!graph, KeptData, KeptWeak
<1> QED BY <1>1, <1>2, <1>3, <1>4 DEF Collector

(* For every heap size and every program: whatever dec_ref and the cycle   *)
(* collector do, the interpreter sees an object graph in which objects     *)
(* keep their contents until no place, no reader and no object that stays  *)
(* refers to them.                                                         *)
THEOREM HeapImplementsGraph == Spec => ImplementsGraph
<1>1. HeapInv /\ HeapInv' /\ [Next]_vars => [Graph!Next]_(Graph!graph)
  <2> SUFFICES ASSUME HeapInv, HeapInv', [Next]_vars
               PROVE  Graph!Next \/ UNCHANGED Graph!graph
    OBVIOUS
  <2>1. CASE Interpreter
    BY <2>1, InterpreterSeen
  <2>2. CASE DecRef
    BY <2>2, DecRefSeen
  <2>3. CASE DecRefPanics
    <3>1. pc # "white" /\ pc' # "white" /\ UNCHANGED <<kind, data, weak, root, readers>>
      BY <2>3 DEF DecRefPanics, entries
    <3> QED BY <3>1, Unseen
  <2>4. CASE Collector
    BY <2>4, CollectorSeen
  <2>5. CASE UNCHANGED vars
    <3>1. UNCHANGED <<kind, color, data, weak, root, readers, pc>>
      BY <2>5 DEF vars, entries
    <3>2. Kept' = Kept
      BY <3>1 DEF Kept, LiveIds, Live
    <3> QED BY <3>1, <3>2 DEF Graph!graph, KeptData, KeptWeak
  <2> QED BY <2>1, <2>2, <2>3, <2>4, <2>5 DEF Next
<1>2. Spec => [][Next]_vars /\ Init
  BY PTL DEF Spec
<1>3. Init => Graph!Init
  BY GraphInit
<1> QED BY <1>1, <1>2, <1>3, HeapInvariant, PTL DEF ImplementsGraph, Graph!Spec
=============================================================================
