---------------------------- MODULE Heap_proofs -----------------------------
(***************************************************************************)
(* The heap between collections, and how a collection starts: what the    *)
(* interpreter does, each step of the loop of dec_ref, finding the roots   *)
(* of a collection and turning from marking to scanning keep the heap's    *)
(* invariant.  HeapCollector_proofs does the same for the rest of the      *)
(* collector.                                                              *)
(***************************************************************************)
EXTENDS Heap, FiniteSetTheorems, SequenceTheorems, TLAPS

(* A leaf that names no prover is for Zenon.                               *)
USE ZenonT(60)

(* Library theorems that no proof here cites.                              *)
HIDE DEF AppendInjective, AppendIsConcat, ConcatAdjacentSubSeq,
         ConcatAssociative, ConcatEmptySeq, ConcatEqualIffEmpty,
         ConcatSimplifications, DownwardNatInduction, EmptyIsWellFounded,
         ExceptSeq, FS_BoundedSetOfNaturals, FS_CountingElements,
         FS_Difference, FS_FiniteSubsetsOfFinite, FS_Image, FS_Induction,
         FS_Intersection, FS_MajoritiesIntersect, FS_NatBijection,
         FS_NatSurjection, FS_PigeonHole, FS_SUBSET, FS_SameCardinalityBij,
         FS_StrictSubsetOrderingWellFounded, FS_SurjCardinalityBound,
         FS_SurjSameCardinalityImpliesInj, FS_Surjection, FS_UNION,
         FS_WFInduction, FiniteNatInductiveDef, FiniteNatInductiveDefType,
         FiniteNatInductiveUnique, GeneralNatInduction, HeadTailAppend,
         HeadTailOfSubSeq, HeadTailProperties, IsWellFoundedOnSubrelation,
         IsWellFoundedOnSubset, MinWF, NatInduction, NatInductiveDef,
         NatInductiveDefType, NatInductiveUnique, NatLessThanWellFounded,
         PreImageWellFounded, RTCTC, RangeConcatenation, RangeEquality,
         RangeOfSeq, RecursiveFcnOfNat, RecursiveFcnOfNatType,
         RecursiveFcnOfNatUnique, SeqDef, SeqEqual, SeqMonotonic, SeqOfRange,
         SequenceEmptyOrAppend, SequencesInductionAppend,
         SequencesInductionTail, SetLessTransitive, SmallestNatural,
         SubSeqEmpty, SubSeqFull, SubSeqOfConcat1, SubSeqOfConcat2,
         SubSeqOfSubSeq, SubSeqRecursiveFirst, SubSeqRecursiveSecond,
         SubSeqRestrict, TCRTC, TCTCTC, TailIsSubSeq,
         TransitiveClosureChopLast, TransitiveClosureMinimal,
         TransitiveClosureThm, TransitiveClosureWF, WFDefOnUnique,
         WFInduction, WFInductiveDef, WFInductiveDefLemma,
         WFInductiveDefType, WFLexPairOrdering, WFLexProductOrdering, WFMin,
         WFSetLessThanIrreflexive, WellFoundedIsAsymmetric,
         WellFoundedIsIrreflexive

-----------------------------------------------------------------------------
(* Sequences used as stacks.                                               *)
LEMMA PopFacts ==
    ASSUME NEW S, NEW s \in Seq(S), s # <<>>
    PROVE  /\ Len(s) \in Nat \ {0} /\ Last(s) \in S /\ Last(s) \in Members(s)
           /\ Pop(s) \in Seq(S) /\ Len(Pop(s)) = Len(s) - 1
           /\ DOMAIN s = 1..Len(s) /\ DOMAIN Pop(s) = 1..(Len(s) - 1)
           /\ \A i \in 1..(Len(s) - 1) : Pop(s)[i] = s[i]
           /\ Members(s) = Members(Pop(s)) \cup {Last(s)}
           /\ Distinct(s) => Distinct(Pop(s)) /\ Last(s) \notin Members(Pop(s))
<1>1. Len(s) \in Nat \ {0} /\ DOMAIN s = 1..Len(s) /\ \A i \in 1..Len(s) : s[i] \in S
  BY EmptySeq, LenProperties
<1>2. /\ Pop(s) \in Seq(S) /\ Len(Pop(s)) = Len(s) - 1
      /\ \A i \in 1..(Len(s) - 1) : Pop(s)[i] = s[i]
  BY SMTT(30), <1>1, SubSeqProperties DEF Pop
<1>3. DOMAIN Pop(s) = 1..(Len(s) - 1)
  BY <1>2, LenProperties
<1>4. Members(s) = Members(Pop(s)) \cup {Last(s)}
  BY SMTT(30), <1>1, <1>2, <1>3 DEF Members, Last
<1>5. Distinct(s) => Distinct(Pop(s)) /\ Last(s) \notin Members(Pop(s))
  BY SMTT(30), <1>1, <1>2, <1>3 DEF Members, Last, Distinct
<1> QED BY SMTT(30), <1>1, <1>2, <1>3, <1>4, <1>5 DEF Last

(* A stack with one more element.                                          *)
LEMMA PushFacts ==
    ASSUME NEW S, NEW s \in Seq(S), NEW x \in S
    PROVE  /\ Append(s, x) \in Seq(S) /\ Len(Append(s, x)) = Len(s) + 1
           /\ Len(s) \in Nat
           /\ DOMAIN s = 1..Len(s) /\ DOMAIN Append(s, x) = 1..(Len(s) + 1)
           /\ \A i \in 1..Len(s) : Append(s, x)[i] = s[i]
           /\ Append(s, x)[Len(s) + 1] = x
           /\ Members(Append(s, x)) = Members(s) \cup {x}
           /\ Distinct(s) /\ x \notin Members(s) => Distinct(Append(s, x))
<1>1. /\ Append(s, x) \in Seq(S) /\ Len(Append(s, x)) = Len(s) + 1
      /\ \A i \in 1..Len(s) : Append(s, x)[i] = s[i]
      /\ Append(s, x)[Len(s) + 1] = x
  BY SMTT(30), AppendProperties
<1>2. /\ Len(s) \in Nat
      /\ DOMAIN s = 1..Len(s) /\ DOMAIN Append(s, x) = 1..(Len(s) + 1)
  BY <1>1, LenProperties
<1>3. Members(Append(s, x)) = Members(s) \cup {x}
  BY SMTT(30), <1>1, <1>2 DEF Members
<1>4. Distinct(s) /\ x \notin Members(s) => Distinct(Append(s, x))
  BY SMTT(30), <1>1, <1>2 DEF Members, Distinct
<1> QED BY <1>1, <1>2, <1>3, <1>4

(* A stack with the elements of another on top.                            *)
LEMMA ConcatFacts ==
    ASSUME NEW S, NEW s \in Seq(S), NEW t \in Seq(S), NEW u, u = s \o t
    PROVE  /\ u \in Seq(S) /\ Len(s) \in Nat /\ Len(t) \in Nat
           /\ DOMAIN s = 1..Len(s) /\ DOMAIN t = 1..Len(t)
           /\ DOMAIN u = 1..(Len(s) + Len(t))
           /\ \A i \in 1..Len(s) : u[i] = s[i]
           /\ \A i \in 1..Len(t) : u[Len(s) + i] = t[i]
<1>1. /\ u \in Seq(S) /\ Len(s) \in Nat /\ Len(t) \in Nat
      /\ DOMAIN s = 1..Len(s) /\ DOMAIN t = 1..Len(t)
      /\ DOMAIN u = 1..(Len(s) + Len(t))
  BY SMTT(30), ConcatProperties, LenProperties
<1>2. /\ \A i \in 1..Len(s) : u[i] = s[i]
      /\ \A i \in 1..Len(t) : u[Len(s) + i] = t[i]
  BY SMTT(30), <1>1, ConcatProperties
<1> QED BY <1>1, <1>2

LEMMA ConcatMembers ==
    ASSUME NEW S, NEW s \in Seq(S), NEW t \in Seq(S), NEW u, u = s \o t
    PROVE  \A x : x \in Members(u) <=> x \in Members(s) \cup Members(t)
<1>1. /\ Len(s) \in Nat /\ Len(t) \in Nat /\ DOMAIN s = 1..Len(s) /\ DOMAIN t = 1..Len(t)
      /\ DOMAIN u = 1..(Len(s) + Len(t))
  BY SMTT(30), ConcatFacts
<1>2. /\ \A i \in 1..Len(s) : u[i] = s[i]
      /\ \A i \in 1..Len(t) : u[Len(s) + i] = t[i]
  BY SMTT(30), ConcatFacts
<1>3. Members(u) = Members(s) \cup Members(t)
  <2>1. ASSUME NEW x \in Members(u) PROVE x \in Members(s) \cup Members(t)
    <3>1. PICK i \in 1..(Len(s) + Len(t)) : x = u[i]
      BY <1>1 DEF Members
    <3>2. CASE i <= Len(s)
      BY SMTT(30), <1>1, <1>2, <3>1, <3>2 DEF Members
    <3>3. CASE i > Len(s)
      <4>1. i - Len(s) \in 1..Len(t) /\ Len(s) + (i - Len(s)) = i
        BY SMTT(30), <1>1, <3>3
      <4>2. x = t[i - Len(s)]
        BY <1>2, <3>1, <4>1
      <4> QED BY <1>1, <4>1, <4>2 DEF Members
    <3> QED BY SMTT(30), <1>1, <3>2, <3>3
  <2>2. ASSUME NEW x \in Members(s) PROVE x \in Members(u)
    BY SMTT(30), <1>1, <1>2, <2>2 DEF Members
  <2>3. ASSUME NEW x \in Members(t) PROVE x \in Members(u)
    <3>1. PICK i \in 1..Len(t) : x = t[i]
      BY <1>1 DEF Members
    <3>2. Len(s) + i \in 1..(Len(s) + Len(t)) /\ x = u[Len(s) + i]
      BY SMTT(30), <1>1, <1>2, <3>1
    <3> QED BY <1>1, <3>2 DEF Members
  <2> QED BY <2>1, <2>2, <2>3
<1> QED BY <1>3

(* A set that gains or loses one element.                                  *)
LEMMA Grown ==
    ASSUME NEW S, NEW T, NEW x, IsFiniteSet(S), x \notin S, T = S \cup {x}
    PROVE  IsFiniteSet(T) /\ Cardinality(T) = Cardinality(S) + 1
  BY FS_AddElement

(* The same for one element less.                                          *)
LEMMA Shrunk ==
    ASSUME NEW S, NEW T, NEW x, IsFiniteSet(S), x \in S, T = S \ {x}
    PROVE  IsFiniteSet(T) /\ Cardinality(T) = Cardinality(S) - 1
  BY FS_RemoveElement

(* The references to an entry can be counted.                              *)
LEMMA RefsFinite ==
    ASSUME NEW e, work_stack \in Seq(Ids)
    PROVE  /\ IsFiniteSet(RootRefs(e)) /\ Cardinality(RootRefs(e)) \in Nat
           /\ IsFiniteSet(EdgeRefs(e)) /\ Cardinality(EdgeRefs(e)) \in Nat
           /\ IsFiniteSet(DyingRefs(e)) /\ Cardinality(DyingRefs(e)) \in Nat
<1>1. IsFiniteSet(RootRefs(e))
  BY RootsFinite, FS_Subset DEF RootRefs
<1>2. IsFiniteSet(EdgeRefs(e))
  <2>1. IsFiniteSet(Ids \X (1..Width))
    <3>1. IsFiniteSet(Ids) /\ IsFiniteSet(1..Width)
      BY SMTT(30), SizeAssumption, FS_Interval DEF Ids
    <3> QED BY <3>1, FS_Product
  <2>2. EdgeRefs(e) \in SUBSET (Ids \X (1..Width))
    BY DEF EdgeRefs
  <2> QED BY <2>1, <2>2, FS_Subset
<1>3. IsFiniteSet(DyingRefs(e))
  <2>1. IsFiniteSet(DOMAIN work_stack)
    BY SMTT(30), LenProperties, FS_Interval
  <2>2. DyingRefs(e) \in SUBSET (DOMAIN work_stack)
    BY DEF DyingRefs
  <2> QED BY <2>1, <2>2, FS_Subset
<1> QED BY <1>1, <1>2, <1>3, FS_CardinalityType

-----------------------------------------------------------------------------
(* Between collections no entry is gray or white, which is all the         *)
(* collector's part of the invariant asks for.                             *)
LEMMA NotCollecting ==
    ASSUME pc \in {"vm", "dec_ref", "panicked"},
           Colored("gray") = {}, Colored("white") = {}
    PROVE  /\ ColorsOK /\ StacksOK /\ ReachOK
           /\ \A p, i : ~TakenOff(p, i)
  BY DEF ColorsOK, StacksOK, ReachOK, TakenOff

(* The same of the state after a step.                                     *)
LEMMA NotCollectingNext ==
    ASSUME pc' \in {"vm", "dec_ref", "panicked"},
           Colored("gray")' = {}, Colored("white")' = {}
    PROVE  /\ ColorsOK' /\ StacksOK' /\ ReachOK'
           /\ \A p, i : ~TakenOff(p, i)'
  BY DEF ColorsOK, StacksOK, ReachOK, TakenOff

(* The edges to an entry, which all count between collections.             *)
EdgesTo(e) == {pi \in Ids \X (1..Width) :
                 pi[2] \in DOMAIN data[pi[1]] /\ data[pi[1]][pi[2]] = e}

(* No edge is taken off between collections.                               *)
LEMMA AllEdgesCount ==
    ASSUME NEW e
    PROVE  /\ pc \in {"vm", "dec_ref", "panicked"} => EdgeRefs(e) = EdgesTo(e)
           /\ pc' \in {"vm", "dec_ref", "panicked"} => EdgeRefs(e)' = EdgesTo(e)'
  BY DEF EdgeRefs, EdgesTo, TakenOff

(* What the invariant says while the interpreter runs.                     *)
LEMMA VmFacts ==
    ASSUME HeapInv, pc = "vm"
    PROVE  /\ work_stack = <<>> /\ black_stack = <<>> /\ cur = Nil
           /\ Colored("gray") = {} /\ Colored("white") = {}
           /\ \A e : DyingRefs(e) = {} /\ EdgeRefs(e) = EdgesTo(e)
           /\ \A e \in LiveIds : refcount[e] = Cardinality(RootRefs(e))
                                              + Cardinality(EdgesTo(e))
           /\ \A p \in Ids : \A c \in Members(data[p]) : Live(p) /\ Live(c)
           /\ \A r \in Roots : root[r] # Nil => root[r] \in Ids /\ Live(root[r])
<1> USE DEF HeapInv
<1>1. /\ work_stack = <<>> /\ black_stack = <<>> /\ cur = Nil
      /\ Colored("gray") = {} /\ Colored("white") = {}
  BY DEF Shape, ColorsOK
<1>2. \A e : DyingRefs(e) = {} /\ EdgeRefs(e) = EdgesTo(e)
  BY AllEdgesCount DEF DyingRefs
<1>3. \A e \in LiveIds : refcount[e] = Cardinality(RootRefs(e))
                                       + Cardinality(EdgesTo(e))
  <2>1. TAKE e \in LiveIds
  <2>2. refcount[e] = Cardinality(RootRefs(e)) + Cardinality(EdgesTo(e)) + 0
    BY <1>2, FS_EmptySet DEF CountsExact, Count
  <2>3. Cardinality(RootRefs(e)) \in Nat /\ Cardinality(EdgesTo(e)) \in Nat
    BY <1>2, RefsFinite DEF TypeOK
  <2> QED BY SMTT(30), <2>2, <2>3
<1>4. \A p \in Ids : \A c \in Members(data[p]) : Live(p) /\ Live(c)
  BY SMTT(30) DEF NoDangling, Shape, Members, LiveIds
<1>5. \A r \in Roots : root[r] # Nil => root[r] \in Ids /\ Live(root[r])
  BY DEF NoDangling, TypeOK
<1> QED BY <1>1, <1>2, <1>3, <1>4, <1>5

(* A step of the interpreter that keeps the counts, the free list and the  *)
(* references it owns right, and colours nothing, keeps the invariant.     *)
LEMMA VmStep ==
    ASSUME HeapInv, Idle, TypeOK', FreeListExact', WeakIndexExact',
           pc' = "vm", work_stack' = <<>>,
           Colored("gray")' = {}, Colored("white")' = {},
           \A e \in Ids : Len(data'[e]) <= Width,
           \A e \in Ids : ~Live(e)' => data'[e] = <<>> /\ color'[e] = "black" /\ key'[e] = Nil,
           \A r \in Roots : root'[r] # Nil => Live(root[r])',
           \A p \in Ids : \A c \in Members(data'[p]) : Live(c)',
           \A e \in Ids : readers'[e] > 0 => Live(e)',
           \A e \in LiveIds' : refcount'[e] = Cardinality(RootRefs(e)') + Cardinality(EdgesTo(e)')
    PROVE  HeapInv'
<1>1. Shape'
  BY VmFacts DEF Shape, Idle
<1>2. NoDangling'
  BY SMTT(30) DEF NoDangling, LiveIds, Members
<1>3. CountsExact'
  <2>1. ASSUME NEW e \in LiveIds' PROVE refcount'[e] = Count(e)'
    <3>1. Cardinality(DyingRefs(e)') = 0 /\ EdgeRefs(e)' = EdgesTo(e)'
      BY AllEdgesCount, FS_EmptySet DEF DyingRefs
    <3>2. refcount'[e] \in Int
      BY <2>1 DEF TypeOK, LiveIds
    <3>3. Cardinality(RootRefs(e)') + Cardinality(EdgesTo(e)') \in Int
      BY <3>2, <2>1
    <3>4. Cardinality(RootRefs(e)') + Cardinality(EdgesTo(e)') + 0
            = Cardinality(RootRefs(e)') + Cardinality(EdgesTo(e)')
      BY SMTT(30), <3>3
    <3> QED BY <2>1, <3>1, <3>4 DEF Count
  <2> QED BY <2>1 DEF CountsExact
<1>4. ColorsOK' /\ StacksOK' /\ ReachOK'
  BY NotCollectingNext
<1> QED BY <1>1, <1>2, <1>3, <1>4 DEF HeapInv

(* A new heap is empty.                                                    *)
LEMMA InitInv == Init => HeapInv
<1> SUFFICES ASSUME Init PROVE HeapInv
  OBVIOUS
<1>1. TypeOK
  BY SMTT(30), SizeAssumption DEF Init, TypeOK, Colors, Ids
<1>2. LiveIds = {} /\ FreeSlots = {}
  BY SMTT(30), SizeAssumption DEF Init, LiveIds, FreeSlots, Live, Ids
<1>3. Shape
  BY SMTT(30), SizeAssumption DEF Init, Shape, Live
<1>4. FreeListExact /\ CountsExact
  BY SMTT(30), <1>2 DEF Init, FreeListExact, CountsExact, Members
<1>5. NoDangling /\ WeakIndexExact
  BY SMTT(30), <1>2, NilAssumption DEF Init, NoDangling, WeakIndexExact, Members, Live, Ids
<1>6. ColorsOK /\ StacksOK /\ ReachOK
  BY NotCollecting DEF Init, Colored
<1> QED BY <1>1, <1>3, <1>4, <1>5, <1>6 DEF HeapInv

-----------------------------------------------------------------------------
(* StableHeap::allocate_with_slot returns a slot that is not in use and    *)
(* keeps the free list exact.                                              *)
LEMMA SlotFacts ==
    ASSUME HeapInv, CanAllocate
    PROVE  NextId \in Ids /\ ~Live(NextId)
<1> USE DEF HeapInv
<1>1. CASE free # <<>>
  <2>1. Last(free) \in FreeSlots
    BY <1>1, PopFacts DEF FreeListExact, TypeOK
  <2> QED BY <1>1, <2>1, PopFacts DEF NextId, FreeSlots, TypeOK
<1>2. CASE free = <<>>
  <2>1. len + 1 \in Ids
    BY SMTT(30), <1>2, SizeAssumption DEF CanAllocate, TypeOK, Ids
  <2> QED BY SMTT(30), <1>2, <2>1 DEF NextId, FreeListExact, LiveIds, TypeOK
<1> QED BY <1>1, <1>2

(* What is left of the free list once a slot is taken.                     *)
LEMMA TakeSlotFacts ==
    ASSUME HeapInv, CanAllocate, TakeSlot, NEW k, k # Nil,
           kind' = [kind EXCEPT ![NextId] = k]
    PROVE  /\ len' \in 0..MaxLen /\ free' \in Seq(Ids)
           /\ FreeListExact'
<1> USE DEF HeapInv
<1>0. NextId \in Ids /\ ~Live(NextId)
  BY SlotFacts
<1>a. \A e \in Ids : Live(e)' <=> Live(e) \/ e = NextId
  BY <1>0 DEF TypeOK, Live
<1>1. CASE free # <<>>
  <2>1. len' = len /\ free' = Pop(free) /\ NextId = Last(free)
    BY <1>1 DEF TakeSlot, NextId
  <2>2. /\ Pop(free) \in Seq(Ids) /\ Members(free) = Members(Pop(free)) \cup {Last(free)}
        /\ Distinct(Pop(free)) /\ Last(free) \notin Members(Pop(free))
    BY <1>1, PopFacts DEF TypeOK, FreeListExact, Distinct
  <2>3. FreeSlots' = FreeSlots \ {NextId}
    BY SMTT(30), SizeAssumption, <1>a, <2>1 DEF FreeSlots, TypeOK, Ids
  <2>4. Members(free)' = FreeSlots'
    BY <2>1, <2>2, <2>3 DEF FreeListExact
  <2>5. NextId <= len
    BY SMTT(30), <1>1, <2>1, <2>2 DEF FreeListExact, FreeSlots
  <2> QED BY <1>a, <2>1, <2>2, <2>4, <2>5 DEF FreeListExact, Distinct, LiveIds, TypeOK
<1>2. CASE free = <<>>
  <2>1. len' = len + 1 /\ free' = free /\ NextId = len + 1 /\ len < MaxLen
    BY <1>2 DEF TakeSlot, NextId, CanAllocate
  <2>2. Members(free) = {}
    BY SMTT(30), <1>2 DEF Members
  <2>3. FreeSlots' = {}
    <3>1. FreeSlots = {} /\ len \in Nat /\ MaxLen \in Nat
      BY SMTT(30), <2>2, SizeAssumption DEF FreeListExact, TypeOK
    <3>2. ASSUME NEW e \in 1..(len + 1) PROVE Live(e)'
      BY SMTT(30), <1>a, <2>1, <3>1 DEF FreeSlots, Ids
    <3> QED BY <2>1, <3>2 DEF FreeSlots
  <2> QED BY SMTT(30), <1>a, <1>2, <2>1, <2>2, <2>3, SizeAssumption
          DEF FreeListExact, LiveIds, TypeOK, Ids, Members
<1> QED BY <1>1, <1>2

(* A step that frees and allocates nothing keeps the free list and the     *)
(* weak index.                                                             *)
LEMMA SameLive ==
    ASSUME HeapInv, UNCHANGED <<len, free, kind, key, weak>>
    PROVE  /\ (\A e : Live(e)' <=> Live(e)) /\ LiveIds' = LiveIds
           /\ FreeListExact' /\ WeakIndexExact'
<1>1. \A e : Live(e)' <=> Live(e)
  BY DEF Live
<1>2. LiveIds' = LiveIds /\ FreeSlots' = FreeSlots
  BY <1>1 DEF LiveIds, FreeSlots
<1>3. FreeListExact'
  BY <1>2 DEF HeapInv, FreeListExact, Members
<1>4. WeakIndexExact'
  BY <1>1 DEF HeapInv, WeakIndexExact
<1> QED BY <1>1, <1>2, <1>3, <1>4

(* A new entry has the caller's reference and no other.                    *)
LEMMA NewEntryInv ==
    ASSUME HeapInv, Idle, NEW r \in Roots, NEW k \in AllKinds, NEW n \in Names \cup {Nil},
           NewEntry(k, n), root[r] = Nil, root' = [root EXCEPT ![r] = NextId],
           IF n = Nil THEN weak' = weak
                      ELSE weak[n] = Nil /\ weak' = [weak EXCEPT ![n] = NextId],
           pinned' = pinned, UNCHANGED <<pc, work_stack>>
    PROVE  HeapInv'
<1> DEFINE x == NextId
<1>0. TypeOK /\ Shape /\ pc = "vm" /\ Nil \notin Ids /\ k # Nil
  BY SMTT(30), NilAssumption DEF HeapInv, Idle, Ids, AllKinds
<1>1. x \in Ids /\ ~Live(x)
  BY SlotFacts DEF NewEntry
<1>2. len' \in 0..MaxLen /\ free' \in Seq(Ids) /\ FreeListExact'
  BY <1>0, TakeSlotFacts DEF NewEntry
<1>3. data' = data
  BY <1>0, <1>1 DEF NewEntry, TypeOK, Shape
<1>4. \A e \in Ids : Live(e)' <=> Live(e) \/ e = x
  BY <1>0, <1>1 DEF NewEntry, Live, TypeOK
<1>5. TypeOK'
  <2>1. allocations_since_gc' \in Nat
    BY SMTT(30), <1>0 DEF NewEntry, TypeOK
  <2>2. root' \in [Roots -> Ids \cup {Nil}]
    BY <1>0, <1>1 DEF TypeOK
  <2>3. /\ kind' \in [Ids -> AllKinds \cup {Nil}] /\ refcount' \in [Ids -> Int]
        /\ readers' \in [Ids -> Nat] /\ color' \in [Ids -> Colors]
        /\ key' \in [Ids -> Names \cup {Nil}]
    BY SMTT(30), <1>0, <1>1 DEF TypeOK, NewEntry, Colors
  <2>4. weak' \in [Names -> Ids \cup {Nil}]
    BY <1>0, <1>1 DEF TypeOK
  <2> QED BY <1>0, <1>2, <1>3, <2>1, <2>2, <2>3, <2>4 DEF TypeOK, NewEntry, Idle
<1>13. WeakIndexExact'
  <2>1. ASSUME NEW m \in Names, NEW e \in Ids
        PROVE  weak'[m] = e <=> Live(e)' /\ key'[e] = m
    <3>1. weak[m] = e <=> Live(e) /\ key[e] = m
      BY DEF HeapInv, WeakIndexExact
    <3>2. m # Nil /\ weak[m] # x
      BY <1>1, NilAssumption DEF HeapInv, WeakIndexExact
    <3>3. key'[e] = IF e = x THEN n ELSE key[e]
      BY <1>0, <1>1 DEF NewEntry, TypeOK
    <3>4. weak'[m] = IF m = n THEN x ELSE weak[m]
      BY <1>0, <3>2 DEF TypeOK
    <3>5. m = n => weak[m] = Nil
      BY <3>2
    <3> QED BY <1>0, <1>4, <3>1, <3>2, <3>3, <3>4, <3>5
  <2> QED BY <2>1 DEF WeakIndexExact
<1>6. Colored("gray")' = {} /\ Colored("white")' = {}
  BY <1>0, <1>1, VmFacts DEF NewEntry, Colored, TypeOK
<1>7. ASSUME NEW e \in LiveIds'
      PROVE  refcount'[e] = Cardinality(RootRefs(e)') + Cardinality(EdgesTo(e)')
  <2>1. EdgesTo(e)' = EdgesTo(e)
    BY <1>3 DEF EdgesTo
  <2>2. CASE e = x
    <3>1. RootRefs(e)' = {r}
      BY SMTT(30), <1>0, <1>1, <2>2, VmFacts DEF RootRefs, TypeOK
    <3>2. EdgesTo(e) = {}
      BY SMTT(30), <1>0, <1>1, <2>2, VmFacts DEF EdgesTo, Members
    <3>3. refcount'[e] = 1
      BY <1>0, <1>1, <2>2 DEF NewEntry, TypeOK
    <3>4. Cardinality(RootRefs(e)') = 1 /\ Cardinality(EdgesTo(e)') = 0
      BY <2>1, <3>1, <3>2, FS_EmptySet, FS_Singleton
    <3> QED BY SMTT(30), <3>3, <3>4
  <2>3. CASE e # x
    <3>1. e \in LiveIds
      BY <1>4, <2>3, <1>7 DEF LiveIds
    <3>2. RootRefs(e)' = RootRefs(e)
      BY <1>0, <2>3, <3>1 DEF RootRefs, TypeOK, LiveIds
    <3>3. refcount'[e] = refcount[e]
      BY <1>0, <2>3, <3>1 DEF NewEntry, TypeOK, LiveIds
    <3> QED BY <1>0, <2>1, <3>1, <3>2, <3>3, VmFacts
  <2> QED BY <2>2, <2>3
<1>8. \A e \in Ids : ~Live(e)' => data'[e] = <<>> /\ color'[e] = "black" /\ key'[e] = Nil
  BY <1>0, <1>3, <1>4 DEF Shape, NewEntry, TypeOK
<1>9. \A q \in Roots : root'[q] # Nil => Live(root[q])'
  <2>1. TAKE q \in Roots
  <2>2. CASE q = r
    BY <1>0, <1>1, <1>4, <2>2 DEF TypeOK, Live
  <2>3. CASE q # r
    BY <1>0, <1>4, <2>3, VmFacts DEF TypeOK, Live
  <2> QED BY <2>2, <2>3
<1>10. \A p \in Ids : \A c \in Members(data'[p]) : Live(c)'
  BY SMTT(30), <1>0, <1>3, <1>4, VmFacts DEF Members, TypeOK
<1>11. \A e \in Ids : readers'[e] > 0 => Live(e)'
  BY <1>0, <1>1, <1>4 DEF NewEntry, TypeOK, HeapInv, NoDangling
<1>12. \A e \in Ids : Len(data'[e]) <= Width
  BY <1>0, <1>3 DEF Shape
<1> QED
  BY <1>0, <1>2, <1>5, <1>6, <1>7, <1>8, <1>9, <1>10, <1>11, <1>12, <1>13, VmFacts, VmStep

(* A copied reference is counted.                                          *)
LEMMA CopiedInv ==
    ASSUME HeapInv, Idle, NEW r \in Roots, NEW x \in Ids, Live(x),
           root[r] = Nil, root' = [root EXCEPT ![r] = x], IncRef(x),
           weak' = weak, pinned' \subseteq Ids,
           UNCHANGED <<arena, kind, readers, color, data, key, counters, pc, work_stack>>
    PROVE  HeapInv'
<1> USE DEF arena, counters
<1>0. TypeOK /\ Shape /\ pc = "vm" /\ Nil \notin Ids
  BY SMTT(30), NilAssumption DEF HeapInv, Idle, Ids
<1>1. \A e : Live(e)' <=> Live(e)
  BY DEF Live
<1>2. TypeOK'
  BY SMTT(30), <1>0 DEF TypeOK, IncRef, Idle
<1>3. FreeListExact' /\ LiveIds' = LiveIds /\ WeakIndexExact'
  BY SameLive
<1>4. ASSUME NEW e \in LiveIds'
      PROVE  refcount'[e] = Cardinality(RootRefs(e)') + Cardinality(EdgesTo(e)')
  <2>1. EdgesTo(e)' = EdgesTo(e)
    BY DEF EdgesTo
  <2>2. refcount[e] = Cardinality(RootRefs(e)) + Cardinality(EdgesTo(e))
    BY <1>0, <1>3, <1>4, VmFacts
  <2>3. /\ IsFiniteSet(RootRefs(e)) /\ Cardinality(RootRefs(e)) \in Nat
        /\ Cardinality(EdgesTo(e)) \in Nat
    BY <1>0, RefsFinite, VmFacts DEF TypeOK
  <2>4. CASE e = x
    <3>1. RootRefs(e)' = RootRefs(e) \cup {r} /\ r \notin RootRefs(e)
      BY SMTT(30), <1>0, <2>4 DEF RootRefs, TypeOK
    <3>2. refcount'[e] = refcount[e] + 1
      BY <1>0, <2>4 DEF IncRef, TypeOK
    <3>3. Cardinality(RootRefs(e)') = Cardinality(RootRefs(e)) + 1
      BY <2>3, <3>1, Grown
    <3> QED BY SMTT(30), <2>1, <2>2, <2>3, <3>2, <3>3
  <2>5. CASE e # x
    <3>1. RootRefs(e)' = RootRefs(e)
      BY <1>0, <1>3, <1>4, <2>5 DEF RootRefs, TypeOK, LiveIds
    <3>2. refcount'[e] = refcount[e]
      BY <1>0, <1>3, <1>4, <2>5 DEF IncRef, TypeOK, LiveIds
    <3> QED BY <2>1, <2>2, <3>1, <3>2
  <2> QED BY <2>4, <2>5
<1>5. Colored("gray")' = {} /\ Colored("white")' = {}
  BY <1>0, VmFacts DEF Colored
<1>6. /\ \A e \in Ids : Len(data'[e]) <= Width
      /\ \A e \in Ids : ~Live(e)' => data'[e] = <<>> /\ color'[e] = "black" /\ key'[e] = Nil
      /\ \A e \in Ids : readers'[e] > 0 => Live(e)'
  BY <1>0, <1>1 DEF Shape, HeapInv, NoDangling
<1>7. \A q \in Roots : root'[q] # Nil => Live(root[q])'
  BY <1>0, VmFacts DEF TypeOK, Live
<1>8. \A p \in Ids : \A c \in Members(data'[p]) : Live(c)'
  BY <1>0, <1>1, VmFacts DEF Members
<1> QED BY <1>0, <1>2, <1>3, <1>4, <1>5, <1>6, <1>7, <1>8, VmFacts, VmStep

(* One edge more, or one edge fewer, at the end of an entry's references.   *)
LastEdge(p, n, x, short, long) ==
    /\ \A e \in Ids \ {p} : long[e] = short[e]
    /\ DOMAIN short[p] = 1..(n - 1) /\ DOMAIN long[p] = 1..n
    /\ \A i \in 1..(n - 1) : long[p][i] = short[p][i]
    /\ long[p][n] = x

(* The edges to an entry, when one is appended to p.                       *)
LEMMA EdgeAdded ==
    ASSUME NEW p \in Ids, NEW n \in 1..Width, NEW x, LastEdge(p, n, x, data, data'), NEW d
    PROVE  /\ d = x => /\ EdgesTo(d)' = EdgesTo(d) \cup {<<p, n>>}
                       /\ <<p, n>> \notin EdgesTo(d)
           /\ d # x => EdgesTo(d)' = EdgesTo(d)
<1>0. n \in Int /\ n \notin 1..(n - 1) /\ 1..n = (1..(n - 1)) \cup {n}
  BY SMTT(30), SizeAssumption
<1>1. ASSUME NEW e, NEW a \in Ids, NEW b \in 1..Width
      PROVE  (b \in DOMAIN data'[a] /\ data'[a][b] = e)
                <=> \/ b \in DOMAIN data[a] /\ data[a][b] = e
                    \/ a = p /\ b = n /\ e = x
  BY <1>0 DEF LastEdge
<1>2. ~(n \in DOMAIN data[p])
  BY <1>0 DEF LastEdge
<1> QED BY SMTT(30), <1>1, <1>2 DEF EdgesTo

(* The edges to an entry, when the last of p is removed.                   *)
LEMMA EdgeRemoved ==
    ASSUME NEW p \in Ids, NEW n \in 1..Width, NEW x, LastEdge(p, n, x, data', data), NEW d
    PROVE  /\ d = x => /\ EdgesTo(d)' = EdgesTo(d) \ {<<p, n>>}
                       /\ <<p, n>> \in EdgesTo(d)
           /\ d # x => EdgesTo(d)' = EdgesTo(d)
<1>0. n \in Int /\ n \notin 1..(n - 1) /\ 1..n = (1..(n - 1)) \cup {n}
  BY SMTT(30), SizeAssumption
<1>1. ASSUME NEW e, NEW a \in Ids, NEW b \in 1..Width
      PROVE  (b \in DOMAIN data[a] /\ data[a][b] = e)
                <=> \/ b \in DOMAIN data'[a] /\ data'[a][b] = e
                    \/ a = p /\ b = n /\ e = x
  BY <1>0 DEF LastEdge
<1>2. ~(n \in DOMAIN data'[p])
  BY <1>0 DEF LastEdge
<1> QED BY SMTT(30), <1>1, <1>2 DEF EdgesTo

(* A reference that moves into a container is counted as before.           *)
LEMMA StoreInv ==
    ASSUME HeapInv, NEW r \in Roots, NEW q \in Roots, Store(r, q)
    PROVE  HeapInv'
<1> USE DEF arena, counters
<1>0. TypeOK /\ Shape /\ pc = "vm" /\ Nil \notin Ids /\ Idle
  BY SMTT(30), NilAssumption DEF HeapInv, Store, Idle, Ids
<1>a. root \in [Roots -> Ids \cup {Nil}] /\ root[r] # Nil
  BY <1>0 DEF TypeOK, Store
<1>b. PICK x \in Ids : x = root[r] /\ Live(x)
  BY <1>0, VmFacts DEF Store
<1>1. PICK p \in Ids : p = root[q] /\ Live(p) /\ data[p] \in Seq(Ids)
  BY <1>0, VmFacts DEF Store, TypeOK
<1>c. PICK n \in Nat \ {0} : n = Len(data[p]) + 1
  BY SMTT(30), <1>1, LenProperties
<1>2. /\ data' = [data EXCEPT ![p] = Append(data[p], x)]
      /\ root' = [root EXCEPT ![r] = Nil]
  BY <1>0, <1>b, <1>1 DEF Store, TypeOK
<1>3. /\ data'[p] \in Seq(Ids) /\ Len(data'[p]) = n
      /\ DOMAIN data[p] = 1..(n - 1) /\ DOMAIN data'[p] = 1..n
      /\ \A i \in 1..(n - 1) : data'[p][i] = data[p][i]
      /\ data'[p][n] = x /\ Members(data'[p]) = Members(data[p]) \cup {x}
      /\ \A e \in Ids \ {p} : data'[e] = data[e]
  <2>1. data'[p] = Append(data[p], x) /\ \A e \in Ids \ {p} : data'[e] = data[e]
    BY <1>0, <1>2 DEF TypeOK
  <2>2. n - 1 = Len(data[p])
    BY SMTT(30), <1>1, <1>c, LenProperties
  <2>3. x \in Ids /\ Len(data[p]) + 1 = n
    BY <1>c
  <2>4. /\ data'[p] \in Seq(Ids) /\ Len(data'[p]) = n
        /\ DOMAIN data[p] = 1..(n - 1) /\ DOMAIN data'[p] = 1..n
        /\ \A i \in 1..(n - 1) : data'[p][i] = data[p][i]
        /\ data'[p][n] = x
    BY SMTT(30), <1>1, <2>1, <2>2, <2>3, PushFacts
  <2>5. Members(data'[p]) = Members(data[p]) \cup {x}
    BY SMTT(30), <1>1, <2>1, <2>3, PushFacts
  <2> QED BY <2>1, <2>4, <2>5
<1>4. n <= Width /\ n \in 1..Width
  BY SMTT(30), <1>1, <1>c, SizeAssumption, LenProperties DEF Store
<1>d. LastEdge(p, n, x, data, data')
  BY <1>3 DEF LastEdge
<1>5. TypeOK'
  BY <1>0, <1>2, <1>3 DEF TypeOK, Store, Idle
<1>6. (\A e : Live(e)' <=> Live(e)) /\ LiveIds' = LiveIds
      /\ FreeListExact' /\ WeakIndexExact'
  BY SameLive DEF Store
<1>7. ASSUME NEW e \in LiveIds'
      PROVE  refcount'[e] = Cardinality(RootRefs(e)') + Cardinality(EdgesTo(e)')
  <2>1. refcount'[e] = Cardinality(RootRefs(e)) + Cardinality(EdgesTo(e))
    BY <1>0, <1>6, <1>7, VmFacts DEF Store
  <2>2. /\ IsFiniteSet(RootRefs(e)) /\ Cardinality(RootRefs(e)) \in Nat
        /\ IsFiniteSet(EdgesTo(e)) /\ Cardinality(EdgesTo(e)) \in Nat
    BY SMTT(30), <1>0, RefsFinite, VmFacts DEF TypeOK
  <2>3. CASE e = x
    <3>1. RootRefs(e)' = RootRefs(e) \ {r} /\ r \in RootRefs(e)
      BY <1>0, <1>a, <1>b, <1>2, <2>3 DEF RootRefs
    <3>2. EdgesTo(e)' = EdgesTo(e) \cup {<<p, n>>} /\ <<p, n>> \notin EdgesTo(e)
      BY <1>d, <1>4, <2>3, EdgeAdded
    <3>3. /\ Cardinality(RootRefs(e)') = Cardinality(RootRefs(e)) - 1
          /\ Cardinality(EdgesTo(e)') = Cardinality(EdgesTo(e)) + 1
      BY <2>2, <3>1, <3>2, Grown, Shrunk
    <3> QED BY SMTT(30), <2>1, <2>2, <3>3
  <2>4. CASE e # x
    <3>1. RootRefs(e)' = RootRefs(e)
      BY <1>0, <1>a, <1>b, <1>2, <1>6, <1>7, <2>4 DEF RootRefs, LiveIds
    <3>2. EdgesTo(e)' = EdgesTo(e)
      BY <1>d, <1>4, <2>4, EdgeAdded
    <3> QED BY <2>1, <3>1, <3>2
  <2> QED BY <2>3, <2>4
<1>8. Colored("gray")' = {} /\ Colored("white")' = {}
  BY <1>0, VmFacts DEF Colored, Store
<1>9. /\ \A e \in Ids : Len(data'[e]) <= Width
      /\ \A e \in Ids : ~Live(e)' => data'[e] = <<>> /\ color'[e] = "black" /\ key'[e] = Nil
      /\ \A e \in Ids : readers'[e] > 0 => Live(e)'
  BY <1>0, <1>1, <1>3, <1>4, <1>6 DEF Shape, HeapInv, NoDangling, Store
<1>10. \A s \in Roots : root'[s] # Nil => Live(root[s])'
  BY SMTT(30), <1>0, <1>2, VmFacts DEF TypeOK, Live, Store
<1>11. \A e \in Ids : \A c \in Members(data'[e]) : Live(c)'
  BY <1>0, <1>b, <1>3, <1>6, VmFacts
<1> QED BY <1>0, <1>5, <1>6, <1>7, <1>8, <1>9, <1>10, <1>11, VmFacts, VmStep DEF Store

(* And so is one that moves out of it.                                     *)
LEMMA TakeInv ==
    ASSUME HeapInv, NEW r \in Roots, NEW q \in Roots, Take(r, q)
    PROVE  HeapInv'
<1> USE DEF arena, counters
<1>0. TypeOK /\ Shape /\ pc = "vm" /\ Nil \notin Ids /\ Idle
  BY SMTT(30), NilAssumption DEF HeapInv, Take, Idle, Ids
<1>1. PICK p \in Ids : /\ p = root[q] /\ Live(p)
                       /\ data[p] \in Seq(Ids) /\ data[p] # <<>>
  BY <1>0, VmFacts DEF Take, TypeOK
<1>c. root \in [Roots -> Ids \cup {Nil}] /\ root[r] = Nil
  BY <1>0 DEF TypeOK, Take
<1>a. PICK n \in Nat \ {0} : n = Len(data[p])
  BY <1>1, PopFacts
<1>b. PICK x \in Ids : x = Last(data[p])
  BY <1>1, PopFacts
<1>2. /\ data' = [data EXCEPT ![p] = Pop(data[p])]
      /\ root' = [root EXCEPT ![r] = x] /\ root[r] = Nil
  BY <1>0, <1>1, <1>b DEF Take, TypeOK
<1>3. /\ data'[p] \in Seq(Ids) /\ Len(data'[p]) = n - 1
      /\ DOMAIN data[p] = 1..n /\ DOMAIN data'[p] = 1..(n - 1)
      /\ \A i \in 1..(n - 1) : data'[p][i] = data[p][i]
      /\ data[p][n] = x /\ Members(data[p]) = Members(data'[p]) \cup {x}
      /\ \A e \in Ids \ {p} : data'[e] = data[e]
  <2>1. data'[p] = Pop(data[p]) /\ \A e \in Ids \ {p} : data'[e] = data[e]
    BY <1>0, <1>2 DEF TypeOK
  <2>2. data[p][n] = x
    BY <1>a, <1>b DEF Last
  <2> QED BY SMTT(30), <1>1, <1>a, <1>b, <2>1, <2>2, PopFacts
<1>4. n <= Width /\ n \in 1..Width /\ Live(x)
  <2>1. n <= Width /\ n \in 1..Width
    BY SMTT(30), <1>0, <1>a, SizeAssumption DEF Shape
  <2>2. Live(x)
    BY <1>0, <1>3, VmFacts
  <2> QED BY <2>1, <2>2
<1>d. LastEdge(p, n, x, data', data)
  BY <1>3 DEF LastEdge
<1>5. TypeOK'
  BY SMTT(30), <1>0, <1>2, <1>3 DEF TypeOK, Take, Idle
<1>6. (\A e : Live(e)' <=> Live(e)) /\ LiveIds' = LiveIds
      /\ FreeListExact' /\ WeakIndexExact'
  BY SameLive DEF Take
<1>7. ASSUME NEW e \in LiveIds'
      PROVE  refcount'[e] = Cardinality(RootRefs(e)') + Cardinality(EdgesTo(e)')
  <2>1. refcount'[e] = Cardinality(RootRefs(e)) + Cardinality(EdgesTo(e))
    BY <1>0, <1>6, <1>7, VmFacts DEF Take
  <2>2. /\ IsFiniteSet(RootRefs(e)) /\ Cardinality(RootRefs(e)) \in Nat
        /\ IsFiniteSet(EdgesTo(e)) /\ Cardinality(EdgesTo(e)) \in Nat
    BY SMTT(30), <1>0, RefsFinite, VmFacts DEF TypeOK
  <2>3. CASE e = x
    <3>1. RootRefs(e)' = RootRefs(e) \cup {r} /\ r \notin RootRefs(e)
      BY <1>0, <1>c, <1>2, <2>3 DEF RootRefs
    <3>2. EdgesTo(e)' = EdgesTo(e) \ {<<p, n>>} /\ <<p, n>> \in EdgesTo(e)
      BY SMTT(30), <1>d, <1>4, <2>3, EdgeRemoved
    <3>3. /\ Cardinality(RootRefs(e)') = Cardinality(RootRefs(e)) + 1
          /\ Cardinality(EdgesTo(e)') = Cardinality(EdgesTo(e)) - 1
      BY <2>2, <3>1, <3>2, Grown, Shrunk
    <3> QED BY SMTT(30), <2>1, <2>2, <3>3
  <2>4. CASE e # x
    <3>1. RootRefs(e)' = RootRefs(e)
      BY <1>0, <1>c, <1>2, <1>6, <1>7, <2>4 DEF RootRefs, LiveIds
    <3>2. EdgesTo(e)' = EdgesTo(e)
      BY <1>d, <1>4, <2>4, EdgeRemoved
    <3> QED BY <2>1, <3>1, <3>2
  <2> QED BY <2>3, <2>4
<1>8. Colored("gray")' = {} /\ Colored("white")' = {}
  BY <1>0, VmFacts DEF Colored, Take
<1>9. /\ \A e \in Ids : Len(data'[e]) <= Width
      /\ \A e \in Ids : ~Live(e)' => data'[e] = <<>> /\ color'[e] = "black" /\ key'[e] = Nil
      /\ \A e \in Ids : readers'[e] > 0 => Live(e)'
  <2>1. ASSUME NEW e \in Ids PROVE Len(data'[e]) <= Width
    <3>1. CASE e = p
      BY SMTT(30), <1>3, <1>4, <3>1, SizeAssumption
    <3>2. CASE e # p
      BY <1>0, <1>3, <3>2 DEF Shape
    <3> QED BY <3>1, <3>2
  <2>2. \A e \in Ids : ~Live(e)' => data'[e] = <<>> /\ color'[e] = "black" /\ key'[e] = Nil
    BY <1>0, <1>1, <1>3, <1>6 DEF Shape, Take
  <2>3. \A e \in Ids : readers'[e] > 0 => Live(e)'
    BY <1>6 DEF HeapInv, NoDangling, Take
  <2> QED BY <2>1, <2>2, <2>3
<1>10. \A s \in Roots : root'[s] # Nil => Live(root[s])'
  BY <1>0, <1>c, <1>2, <1>4, <1>6, VmFacts DEF Live
<1>11. \A e \in Ids : \A c \in Members(data'[e]) : Live(c)'
  BY <1>0, <1>1, <1>3, <1>6, VmFacts
<1> QED BY <1>0, <1>5, <1>6, <1>7, <1>8, <1>9, <1>10, <1>11, VmFacts, VmStep DEF Take

(* Readers change nothing but their own counts.                            *)
LEMMA ReaderInv ==
    ASSUME HeapInv, (\E r \in Roots : OpenReader(r)) \/ (\E e \in Ids : CloseReader(e))
    PROVE  HeapInv'
<1> USE DEF arena, counters
<1>0. TypeOK /\ Shape /\ pc = "vm" /\ Idle
      /\ UNCHANGED <<len, free, kind, refcount, color, data, key, purple_count,
                     allocations_since_gc, weak, root, pc, work_stack, pinned>>
  BY DEF HeapInv, OpenReader, CloseReader, Idle
<1>a. readers \in [Ids -> Nat] /\ \A e \in Ids : readers[e] > 0 => Live(e)
  BY DEF HeapInv, TypeOK, NoDangling
<1>1. \A e \in Ids : /\ readers'[e] \in Nat
                     /\ readers'[e] > 0 => Live(e)
  <2>1. ASSUME NEW r \in Roots, OpenReader(r), NEW e \in Ids
        PROVE  readers'[e] \in Nat /\ (readers'[e] > 0 => Live(e))
    BY SMTT(30), <1>0, <1>a, <2>1, VmFacts DEF OpenReader
  <2>2. ASSUME NEW x \in Ids, CloseReader(x), NEW e \in Ids
        PROVE  readers'[e] \in Nat /\ (readers'[e] > 0 => Live(e))
    BY SMTT(30), <1>a, <2>2 DEF CloseReader
  <2> QED BY <2>1, <2>2
<1>2. readers' \in [Ids -> Nat]
  BY <1>0, <1>1 DEF OpenReader, CloseReader, TypeOK
<1>3. TypeOK'
  BY <1>0, <1>2 DEF TypeOK, Idle
<1>4. (\A e : Live(e)' <=> Live(e)) /\ LiveIds' = LiveIds
      /\ FreeListExact' /\ WeakIndexExact'
  BY <1>0, SameLive
<1>5. ASSUME NEW e \in LiveIds'
      PROVE  refcount'[e] = Cardinality(RootRefs(e)') + Cardinality(EdgesTo(e)')
  BY SMTT(30), <1>0, <1>4, <1>5, VmFacts DEF RootRefs, EdgesTo
<1>6. Colored("gray")' = {} /\ Colored("white")' = {}
  BY <1>0, VmFacts DEF Colored
<1>7. /\ \A e \in Ids : Len(data'[e]) <= Width
      /\ \A e \in Ids : ~Live(e)' => data'[e] = <<>> /\ color'[e] = "black" /\ key'[e] = Nil
      /\ \A e \in Ids : readers'[e] > 0 => Live(e)'
  BY <1>0, <1>1, <1>4 DEF Shape
<1>8. \A r \in Roots : root'[r] # Nil => Live(root[r])'
  BY <1>0, <1>4, VmFacts DEF Live
<1>9. \A p \in Ids : \A c \in Members(data'[p]) : Live(c)'
  BY <1>0, <1>4, VmFacts DEF Members
<1> QED BY <1>0, <1>3, <1>4, <1>5, <1>6, <1>7, <1>8, <1>9, VmFacts, VmStep

(* Enumerating a set in order names each of its elements once.             *)
LEMMA InOrderFacts ==
    ASSUME NEW S \in SUBSET Ids, NEW s \in InOrder(S)
    PROVE  s \in Seq(Ids) /\ Members(s) = S /\ Distinct(s)
<1>1. IsFiniteSet(S) /\ Cardinality(S) \in Nat
  <2>1. IsFiniteSet(Ids)
    BY SMTT(30), SizeAssumption, FS_Interval DEF Ids
  <2> QED BY <2>1, FS_Subset, FS_CardinalityType
<1>2. PICK n \in Nat : n = Cardinality(S)
  BY <1>1
<1>3. s \in [1..n -> S] /\ \A i, j \in 1..n : i < j => s[i] < s[j]
  BY <1>2 DEF InOrder
<1>4. \A i \in 1..n : s[i] \in Int
  <2>1. \A e \in S : e \in Int
    BY SMTT(30), SizeAssumption DEF Ids
  <2> QED BY <1>3, <2>1
<1>5. ASSUME NEW i \in 1..n, NEW j \in 1..n, s[i] = s[j] PROVE i = j
  <2>1. ~(i < j) /\ ~(j < i)
    BY SMTT(30), <1>3, <1>4, <1>5
  <2> QED BY SMTT(30), <2>1
<1>6. s \in Injection(1..n, S)
  BY <1>3, <1>5 DEF Injection, IsInjective
<1>7. IsFiniteSet(1..n) /\ Cardinality(1..n) = n
  BY SMTT(30), FS_Interval
<1>8. s \in Surjection(1..n, S)
  BY <1>1, <1>2, <1>6, <1>7, FS_Injection
<1>9. Members(s) = S
  BY <1>3, <1>8 DEF Surjection, Members
<1>10. s \in Seq(Ids)
  BY SMTT(30), <1>3, IsASeq
<1> QED BY <1>3, <1>5, <1>9, <1>10 DEF Distinct

(* A restored heap has the free list rebuilt.                              *)
LEMMA RestoreInv ==
    ASSUME HeapInv, Restore
    PROVE  HeapInv'
<1>0. TypeOK /\ Shape /\ pc = "vm" /\ Idle
      /\ UNCHANGED <<len, kind, refcount, readers, color, data, key, purple_count,
                     allocations_since_gc, root, pc, work_stack, pinned>>
  BY DEF HeapInv, Restore, Idle, entries, counters
<1>1. (\A e : Live(e)' <=> Live(e)) /\ LiveIds' = LiveIds /\ FreeSlots' = FreeSlots
  BY <1>0 DEF LiveIds, FreeSlots, Live
<1>2. FreeSlots \in SUBSET Ids
  BY SMTT(30), <1>0, SizeAssumption DEF FreeSlots, TypeOK, Ids
<1>3. free' \in Seq(Ids) /\ Members(free') = FreeSlots /\ Distinct(free')
  BY <1>2, InOrderFacts DEF Restore
<1>4. weak' = weak
  <2>1. ASSUME NEW k \in Names PROVE weak'[k] = weak[k]
    <3>1. PICK S \in SUBSET Ids : S = {e \in LiveIds : key[e] = k}
      BY DEF LiveIds
    <3>2. weak'[k] = IF S = {} THEN Nil ELSE CHOOSE e \in S : \A f \in S : f <= e
      BY SMTT(30), <3>1 DEF Restore
    <3>3. weak[k] \in Ids \cup {Nil} /\ \A e \in Ids : e \in S <=> weak[k] = e
      BY <1>0, <3>1 DEF TypeOK, HeapInv, WeakIndexExact, LiveIds
    <3>4. CASE S = {}
      BY <3>2, <3>3, <3>4
    <3>5. CASE S # {}
      <4>1. weak[k] \in S /\ \A e \in S : e = weak[k]
        BY <3>3, <3>5
      <4>2. weak[k] <= weak[k]
        <5>1. weak[k] \in Ids
          BY <4>1
        <5> QED BY SMTT(30), <5>1, SizeAssumption DEF Ids
      <4> QED BY <3>2, <3>5, <4>1, <4>2
    <3> QED BY <3>4, <3>5
  <2>2. weak \in [Names -> Ids \cup {Nil}] /\ DOMAIN weak' = Names
    BY <1>0 DEF TypeOK, Restore
  <2>3. weak' = [k \in Names |-> weak'[k]]
    BY SMTT(30) DEF Restore
  <2> QED BY <2>1, <2>2, <2>3
<1>5. TypeOK'
  BY <1>0, <1>3, <1>4 DEF TypeOK, Idle
<1>6. FreeListExact' /\ WeakIndexExact'
  BY <1>0, <1>1, <1>3, <1>4 DEF FreeListExact, WeakIndexExact, Distinct, HeapInv
<1>7. ASSUME NEW e \in LiveIds'
      PROVE  refcount'[e] = Cardinality(RootRefs(e)') + Cardinality(EdgesTo(e)')
  BY <1>0, <1>1, <1>7, VmFacts DEF RootRefs, EdgesTo
<1>8. Colored("gray")' = {} /\ Colored("white")' = {}
  BY <1>0, VmFacts DEF Colored
<1>9. /\ \A e \in Ids : Len(data'[e]) <= Width
      /\ \A e \in Ids : ~Live(e)' => data'[e] = <<>> /\ color'[e] = "black" /\ key'[e] = Nil
      /\ \A e \in Ids : readers'[e] > 0 => Live(e)'
  BY <1>0, <1>1 DEF Shape, HeapInv, NoDangling
<1>10. \A r \in Roots : root'[r] # Nil => Live(root[r])'
  BY <1>0, <1>1, VmFacts DEF Live
<1>11. \A p \in Ids : \A c \in Members(data'[p]) : Live(c)'
  BY <1>0, <1>1, VmFacts DEF Members
<1> QED BY <1>0, <1>5, <1>6, <1>7, <1>8, <1>9, <1>10, <1>11, VmFacts, VmStep

(* A dropped reference is the one dec_ref is about to take off the count.  *)
LEMMA DropInv ==
    ASSUME HeapInv, NEW r \in Roots, Drop(r)
    PROVE  HeapInv'
<1> USE DEF arena, entries, counters
<1>a. TypeOK /\ Shape /\ NoDangling
  BY DEF HeapInv
<1>b. pc = "vm"
  BY DEF Drop, Idle
<1>c. Nil \notin Ids
  BY SMTT(30), NilAssumption DEF Ids
<1>d. root \in [Roots -> Ids \cup {Nil}]
  BY <1>a DEF TypeOK
<1>0. /\ TypeOK /\ Shape /\ NoDangling /\ pc = "vm" /\ Nil \notin Ids
      /\ root \in [Roots -> Ids \cup {Nil}]
  BY <1>a, <1>b, <1>c, <1>d
<1>1. PICK x \in Ids : x = root[r] /\ Live(x)
  BY <1>0, VmFacts DEF Drop
<1>2. /\ root' = [root EXCEPT ![r] = Nil] /\ work_stack' = <<x>> /\ pc' = "dec_ref"
      /\ UNCHANGED <<len, free, kind, refcount, readers, color, data, key,
                     purple_count, allocations_since_gc, weak, pinned,
                     black_stack, cur, edge, seeds, cursor>>
  BY <1>1 DEF Drop, Idle
<1>3. TypeOK'
  <2>1. <<x>> \in Seq(Ids)
    BY SMTT(30)
  <2> QED BY <1>0, <1>2, <2>1 DEF TypeOK
<1>4. (\A e : Live(e)' <=> Live(e)) /\ LiveIds' = LiveIds
      /\ FreeListExact' /\ WeakIndexExact'
  BY <1>2, SameLive
<1>5. Shape'
  BY <1>0, <1>2, <1>4, VmFacts DEF Shape
<1>6. NoDangling'
  <2>1. \A q \in Roots : root'[q] # Nil => Live(root[q])'
    BY <1>0, <1>2, <1>4, VmFacts DEF Live
  <2>2. \A e \in Members(work_stack') : Live(e)'
    BY SMTT(30), <1>1, <1>2, <1>4 DEF Members
  <2>3. \A p \in LiveIds' : \A c \in Members(data'[p]) : Live(c)'
    BY <1>0, <1>2, <1>4, VmFacts DEF LiveIds
  <2>4. \A e \in Ids : readers'[e] > 0 => Live(e)'
    BY <1>0, <1>2, <1>4 DEF NoDangling
  <2> QED BY <2>1, <2>2, <2>3, <2>4 DEF NoDangling, Members
<1>7. CountsExact'
  <2>1. ASSUME NEW e \in LiveIds' PROVE refcount'[e] = Count(e)'
    <3>1. /\ refcount'[e] = Cardinality(RootRefs(e)) + Cardinality(EdgesTo(e))
          /\ EdgeRefs(e)' = EdgesTo(e)' /\ EdgesTo(e)' = EdgesTo(e)
      BY <1>0, <1>2, <1>4, <2>1, VmFacts, AllEdgesCount DEF EdgesTo
    <3>2. /\ IsFiniteSet(RootRefs(e)) /\ Cardinality(RootRefs(e)) \in Nat
          /\ Cardinality(EdgesTo(e)) \in Nat
      BY <1>0, RefsFinite, VmFacts DEF TypeOK
    <3>3. CASE e = x
      <4>1. RootRefs(e)' = RootRefs(e) \ {r} /\ r \in RootRefs(e)
        BY <1>0, <1>1, <1>2, <3>3 DEF RootRefs
      <4>2. DyingRefs(e)' = {1}
        BY SMTT(30), <1>2, <3>3 DEF DyingRefs
      <4>3. /\ Cardinality(RootRefs(e)') = Cardinality(RootRefs(e)) - 1
            /\ Cardinality(DyingRefs(e)') = 1
        BY <3>2, <4>1, <4>2, Shrunk, FS_Singleton
      <4> QED BY SMTT(30), <3>1, <3>2, <4>3 DEF Count
    <3>4. CASE e # x
      <4>1. RootRefs(e)' = RootRefs(e)
        BY <1>0, <1>1, <1>2, <1>4, <2>1, <3>4 DEF RootRefs, LiveIds
      <4>2. DyingRefs(e)' = {}
        BY SMTT(30), <1>2, <3>4 DEF DyingRefs
      <4>3. Cardinality(DyingRefs(e)') = 0
        BY <4>2, FS_EmptySet
      <4> QED BY SMTT(30), <3>1, <3>2, <4>1, <4>3 DEF Count
    <3> QED BY <3>3, <3>4
  <2> QED BY <2>1 DEF CountsExact
<1>8. ColorsOK' /\ StacksOK' /\ ReachOK'
  <2>1. Colored("gray")' = {} /\ Colored("white")' = {}
    BY <1>0, <1>2, VmFacts DEF Colored
  <2> QED BY <1>2, <2>1, NotCollectingNext
<1> QED BY <1>3, <1>4, <1>5, <1>6, <1>7, <1>8 DEF HeapInv

(* Every step of the interpreter keeps the invariant.                      *)
LEMMA InterpreterInv ==
    ASSUME HeapInv, Interpreter
    PROVE  HeapInv'
<1> USE DEF arena, counters
<1>1. ASSUME NEW r \in Roots, NEW k \in Kinds, Allocate(r, k) PROVE HeapInv'
  <2>1. k \in AllKinds /\ Nil \in Names \cup {Nil}
    BY KindAssumption
  <2> QED BY <1>1, <2>1, NewEntryInv DEF Allocate
<1>2. ASSUME NEW r \in Roots, NEW n \in Names, GetByName(r, n) PROVE HeapInv'
  <2>0. n # Nil /\ "container" \in AllKinds /\ Idle /\ root[r] = Nil
        /\ UNCHANGED <<pc, work_stack>>
    BY <1>2, NilAssumption DEF AllKinds, GetByName
  <2>1. CASE weak[n] # Nil
    <3>1. weak[n] \in Ids /\ Live(weak[n])
      BY <2>1 DEF HeapInv, TypeOK, WeakIndexExact
    <3>2. /\ IncRef(weak[n]) /\ root' = [root EXCEPT ![r] = weak[n]]
          /\ pinned' = pinned \ ReachFrom({weak[n]})
          /\ UNCHANGED <<arena, kind, readers, color, data, key, counters, weak>>
      BY <1>2, <2>1 DEF GetByName
    <3>3. pinned' \subseteq Ids
      BY <3>2 DEF HeapInv, TypeOK
    <3> QED BY <2>0, <3>1, <3>2, <3>3, CopiedInv
  <2>2. CASE weak[n] = Nil
    <3>1. /\ NewEntry("container", n) /\ root' = [root EXCEPT ![r] = NextId]
          /\ weak' = [weak EXCEPT ![n] = NextId] /\ pinned' = pinned
      BY <1>2, <2>2 DEF GetByName
    <3> QED BY <2>0, <2>2, <3>1, NewEntryInv
  <2> QED BY <2>1, <2>2
<1>3. ASSUME NEW r \in Roots, NEW q \in Roots, Clone(r, q) PROVE HeapInv'
  <2>1. root[r] \in Ids /\ Live(root[r])
    BY <1>3, VmFacts DEF Clone, Idle
  <2>2. pinned' \subseteq Ids
    BY <1>3 DEF Clone, HeapInv, TypeOK
  <2> QED BY <1>3, <2>1, <2>2, CopiedInv DEF Clone
<1>4. ASSUME NEW r \in Roots, NEW q \in Roots, NEW i \in 1..Width, Load(r, q, i)
      PROVE  HeapInv'
  <2>0. pc = "vm" /\ root[q] # Nil /\ i \in DOMAIN data[root[q]]
    BY <1>4 DEF Load, Idle
  <2>1. root[q] \in Ids
    BY <2>0, VmFacts
  <2>2. data[root[q]][i] \in Members(data[root[q]]) /\ data[root[q]] \in Seq(Ids)
    BY <2>0, <2>1 DEF Members, HeapInv, TypeOK
  <2>3. data[root[q]][i] \in Ids /\ Live(data[root[q]][i])
    BY SMTT(30), <2>0, <2>1, <2>2, VmFacts, LenProperties
  <2>4. pinned' \subseteq Ids
    BY <1>4 DEF Load, HeapInv, TypeOK
  <2> QED BY <1>4, <2>3, <2>4, CopiedInv DEF Load
<1> QED
  BY <1>1, <1>2, <1>3, <1>4, StoreInv, TakeInv, ReaderInv, DropInv, RestoreInv
  DEF Interpreter

-----------------------------------------------------------------------------
(* Freeing an entry puts its slot on the free list, once, and takes its    *)
(* name out of the weak index.                                             *)
LEMMA FreedFacts ==
    ASSUME HeapInv, NEW x \in Ids, Live(x), FreeEntry(x)
    PROVE  /\ free' \in Seq(Ids) /\ FreeListExact' /\ WeakIndexExact'
           /\ \A e \in Ids : Live(e)' <=> Live(e) /\ e # x
           /\ \A e \in Ids : data'[e] = IF e = x THEN <<>> ELSE data[e]
           /\ \A e \in Ids : key'[e] = IF e = x THEN Nil ELSE key[e]
           /\ kind' \in [Ids -> AllKinds \cup {Nil}] /\ data' \in [Ids -> Seq(Ids)]
           /\ key' \in [Ids -> Names \cup {Nil}] /\ weak' \in [Names -> Ids \cup {Nil}]
           /\ pinned' \subseteq Ids /\ len' = len
<1>0. TypeOK
  BY DEF HeapInv
<1>1. /\ \A e \in Ids : Live(e)' <=> Live(e) /\ e # x
      /\ \A e \in Ids : data'[e] = IF e = x THEN <<>> ELSE data[e]
      /\ \A e \in Ids : key'[e] = IF e = x THEN Nil ELSE key[e]
  BY <1>0 DEF FreeEntry, TypeOK, Live
<1>2. /\ kind' \in [Ids -> AllKinds \cup {Nil}] /\ data' \in [Ids -> Seq(Ids)]
      /\ key' \in [Ids -> Names \cup {Nil}] /\ weak' \in [Names -> Ids \cup {Nil}]
      /\ pinned' \subseteq Ids /\ len' = len
  BY SMTT(30), <1>0 DEF FreeEntry, TypeOK
<1>3. /\ Members(free) = FreeSlots /\ Distinct(free) /\ free \in Seq(Ids)
      /\ \A e \in Ids : Live(e) => e <= len
  BY <1>0 DEF HeapInv, FreeListExact, Distinct, LiveIds, TypeOK
<1>4. x \notin Members(free) /\ FreeSlots' = FreeSlots \cup {x}
  <2>1. x \notin FreeSlots
    BY DEF FreeSlots
  <2>2. 1..len \subseteq Ids /\ x \in 1..len
    BY SMTT(30), <1>0, <1>3, SizeAssumption DEF TypeOK, Ids
  <2> QED BY <1>1, <1>2, <1>3, <2>1, <2>2 DEF FreeSlots
<1>5. /\ free' \in Seq(Ids) /\ Members(free') = Members(free) \cup {x}
      /\ Distinct(free')
  BY SMTT(30), <1>3, <1>4, PushFacts DEF FreeEntry
<1>6. FreeListExact'
  BY <1>1, <1>2, <1>3, <1>4, <1>5 DEF FreeListExact, Distinct, LiveIds
<1>7. WeakIndexExact'
  <2>1. ASSUME NEW n \in Names, NEW e \in Ids
        PROVE  weak'[n] = e <=> Live(e)' /\ key'[e] = n
    <3>1. (weak[n] = e <=> Live(e) /\ key[e] = n) /\ (weak[n] = x <=> key[x] = n)
      BY DEF HeapInv, WeakIndexExact
    <3>2. n # Nil /\ e # Nil
      BY SMTT(30), NilAssumption DEF Ids
    <3>3. CASE key[x] # Nil /\ weak[key[x]] = x
      <4>1. weak'[n] = IF n = key[x] THEN Nil ELSE weak[n]
        BY <1>0, <3>3 DEF FreeEntry, TypeOK
      <4> QED BY <1>1, <3>1, <3>2, <4>1
    <3>4. CASE ~(key[x] # Nil /\ weak[key[x]] = x)
      <4>1. weak' = weak
        BY <3>4 DEF FreeEntry
      <4>2. key[x] # n
        BY <3>1, <3>2, <3>4
      <4> QED BY <1>1, <3>1, <3>2, <4>1, <4>2
    <3> QED BY <3>3, <3>4
  <2> QED BY <2>1 DEF WeakIndexExact
<1> QED BY <1>1, <1>2, <1>5, <1>6, <1>7

(* As many positions in one numbering as in another.                       *)
Tagged(x, D) == {<<x, i>> : i \in D}
Shifted(m, D) == {m + i : i \in D}

(* Tagging and shifting keep the number of positions.                      *)
LEMMA SameNumber ==
    ASSUME NEW D \in SUBSET Nat, IsFiniteSet(D), NEW x, NEW m \in Nat,
           NEW X, X = Tagged(x, D), NEW Y, Y = Shifted(m, D)
    PROVE  /\ IsFiniteSet(X) /\ Cardinality(X) = Cardinality(D)
           /\ IsFiniteSet(Y) /\ Cardinality(Y) = Cardinality(D)
<1>1. ExistsBijection(D, {<<x, i>> : i \in D})
  <2>1. [i \in D |-> <<x, i>>] \in Bijection(D, {<<x, i>> : i \in D})
    BY DEF Bijection, Injection, Surjection, IsInjective
  <2> QED BY <2>1 DEF ExistsBijection
<1>2. ExistsBijection(D, {m + i : i \in D})
  <2>1. [i \in D |-> m + i] \in Bijection(D, {m + i : i \in D})
    <3>1. \A i, j \in D : m + i = m + j => i = j
      BY SMTT(30)
    <3> QED BY <3>1 DEF Bijection, Injection, Surjection, IsInjective
  <2> QED BY <2>1 DEF ExistsBijection
<1>3. ExistsBijection(D, X) /\ ExistsBijection(D, Y)
  BY <1>1, <1>2 DEF Tagged, Shifted
<1> QED BY <1>3, FS_Bijection

(* Two sets with nothing in common.                                        *)
LEMMA Disjoint ==
    ASSUME NEW A, NEW B, NEW C, IsFiniteSet(A), IsFiniteSet(B), A \cap B = {}, C = A \cup B
    PROVE  Cardinality(C) = Cardinality(A) + Cardinality(B)
<1>1. Cardinality(A) \in Nat /\ Cardinality(B) \in Nat /\ Cardinality({}) = 0
  BY FS_CardinalityType, FS_EmptySet
<1>2. Cardinality(A \cup B) = Cardinality(A) + Cardinality(B) - Cardinality(A \cap B)
  BY FS_Union
<1>3. Cardinality(A \cap B) = 0 /\ Cardinality(C) = Cardinality(A \cup B)
  BY <1>1
<1> QED BY SMTT(30), <1>1, <1>2, <1>3

(* What the invariant says in dec_ref.                                     *)
LEMMA DecRefFacts ==
    ASSUME HeapInv, pc = "dec_ref", work_stack # <<>>
    PROVE  /\ work_stack \in Seq(Ids) /\ Last(work_stack) \in Ids /\ Live(Last(work_stack))
           /\ black_stack = <<>> /\ cur = Nil
           /\ Colored("gray") = {} /\ Colored("white") = {}
           /\ \A e \in LiveIds : refcount[e] = Cardinality(RootRefs(e))
                                   + Cardinality(EdgesTo(e)) + Cardinality(DyingRefs(e))
           /\ \A p \in Ids : \A c \in Members(data[p]) : Live(p) /\ Live(c)
           /\ \A r \in Roots : root[r] # Nil => root[r] \in Ids /\ Live(root[r])
           /\ \A e \in Members(work_stack) : Live(e)
<1>1. TypeOK /\ work_stack \in Seq(Ids) /\ NoDangling /\ Shape /\ ColorsOK
  BY DEF HeapInv, TypeOK
<1>2. \A e \in Members(work_stack) : Live(e)
  BY <1>1 DEF NoDangling
<1>3. Last(work_stack) \in Ids /\ Live(Last(work_stack))
  BY <1>1, <1>2, PopFacts
<1>4. \A e \in LiveIds : refcount[e] = Cardinality(RootRefs(e))
                          + Cardinality(EdgesTo(e)) + Cardinality(DyingRefs(e))
  BY AllEdgesCount DEF HeapInv, CountsExact, Count
<1>5. \A p \in Ids : \A c \in Members(data[p]) : Live(p) /\ Live(c)
  <2>1. ASSUME NEW p \in Ids, NEW c \in Members(data[p])
        PROVE  Live(p)
    <3>1. data[p] # <<>>
      BY SMTT(30), <2>1 DEF Members
    <3> QED BY <1>1, <3>1 DEF Shape
  <2>2. ASSUME NEW p \in Ids, NEW c \in Members(data[p]), Live(p)
        PROVE  Live(c)
    BY <1>1, <2>2 DEF NoDangling, LiveIds
  <2> QED BY <2>1, <2>2
<1>6. \A r \in Roots : root[r] # Nil => root[r] \in Ids /\ Live(root[r])
  BY <1>1 DEF NoDangling, TypeOK
<1> QED BY <1>1, <1>2, <1>3, <1>4, <1>5, <1>6 DEF Shape, ColorsOK

(* What is left to show of a step of dec_ref.                              *)
LEMMA DecRefStep ==
    ASSUME HeapInv, pc = "dec_ref", work_stack # <<>>, TypeOK', FreeListExact', WeakIndexExact',
           pc' = IF work_stack' = <<>> THEN "vm" ELSE pc,
           UNCHANGED <<black_stack, cur>>,
           Colored("gray")' = {}, Colored("white")' = {},
           \A e \in Ids : Len(data'[e]) <= Width,
           \A e \in Ids : ~Live(e)' => data'[e] = <<>> /\ color'[e] = "black" /\ key'[e] = Nil,
           \A r \in Roots : root'[r] # Nil => Live(root[r])',
           \A e \in Members(work_stack') : Live(e)',
           \A p \in Ids : \A c \in Members(data'[p]) : Live(c)',
           \A e \in Ids : readers'[e] > 0 => Live(e)',
           \A e \in LiveIds' :
             refcount'[e] = Cardinality(RootRefs(e)') + Cardinality(EdgesTo(e)')
                + Cardinality({i \in DOMAIN work_stack' : work_stack'[i] = e})
    PROVE  HeapInv'
<1>0. pc' \in {"vm", "dec_ref"} /\ (pc' = "vm" => work_stack' = <<>>)
  OBVIOUS
<1>1. Shape'
  BY <1>0, DecRefFacts DEF Shape
<1>2. NoDangling'
  BY DEF NoDangling, LiveIds, Members
<1>3. CountsExact'
  <2>1. ASSUME NEW e \in LiveIds' PROVE refcount'[e] = Count(e)'
    <3>1. EdgeRefs(e)' = EdgesTo(e)'
      BY <1>0, AllEdgesCount
    <3>2. DyingRefs(e)' = {i \in DOMAIN work_stack' : work_stack'[i] = e}
      <4>1. CASE pc' = "vm"
        <5>1. {i \in DOMAIN work_stack' : work_stack'[i] = e} = {}
          BY SMTT(30), <1>0, <4>1
        <5>2. DyingRefs(e)' = {}
          BY <4>1 DEF DyingRefs
        <5> QED BY <5>1, <5>2
      <4>2. CASE pc' = "dec_ref"
        BY <4>2 DEF DyingRefs
      <4> QED BY <1>0, <4>1, <4>2
    <3> QED BY <2>1, <3>1, <3>2 DEF Count
  <2> QED BY <2>1 DEF CountsExact
<1>4. ColorsOK' /\ StacksOK' /\ ReachOK'
  BY <1>0, NotCollectingNext
<1> QED BY <1>1, <1>2, <1>3, <1>4 DEF HeapInv

(* A count that survives loses the reference dec_ref takes off.            *)
LEMMA DecRefSurvivesInv ==
    ASSUME HeapInv, DecRef, DecRefSurvives(Last(work_stack))
    PROVE  HeapInv'
<1>0. /\ TypeOK /\ Shape /\ NoDangling /\ pc = "dec_ref" /\ work_stack # <<>>
      /\ work_stack \in Seq(Ids)
  BY DEF HeapInv, DecRef, TypeOK
<1>1. PICK x \in Ids : x = Last(work_stack) /\ Live(x)
  BY <1>0, DecRefFacts
<1>2. PICK n \in Nat \ {0} : n = Len(work_stack)
  BY <1>0, PopFacts
<1>3. /\ refcount' = [refcount EXCEPT ![x] = refcount[x] - 1]
      /\ color' \in {color, [color EXCEPT ![x] = "purple"]}
      /\ purple_count' \in {purple_count, purple_count + 1}
      /\ work_stack' = Pop(work_stack)
      /\ pc' = IF work_stack' = <<>> THEN "vm" ELSE pc
      /\ UNCHANGED <<len, free, kind, data, key, weak, pinned, readers,
                     allocations_since_gc, root, black_stack, cur, edge, seeds, cursor>>
  BY <1>0, <1>1 DEF DecRef, DecRefSurvives, arena, TypeOK
<1>4. /\ work_stack' \in Seq(Ids) /\ DOMAIN work_stack = 1..n
      /\ DOMAIN work_stack' = 1..(n - 1) /\ work_stack[n] = x
      /\ \A i \in 1..(n - 1) : work_stack'[i] = work_stack[i]
      /\ Members(work_stack') \subseteq Members(work_stack)
  BY SMTT(30), <1>0, <1>1, <1>2, <1>3, PopFacts DEF Last
<1>5. TypeOK'
  <2>1. refcount' \in [Ids -> Int] /\ color' \in [Ids -> Colors] /\ purple_count' \in Int
    <3>1. refcount \in [Ids -> Int] /\ color \in [Ids -> Colors] /\ purple_count \in Int
      BY <1>0 DEF TypeOK
    <3>2. refcount' \in [Ids -> Int]
      BY SMTT(30), <1>3, <3>1
    <3>3. color' \in [Ids -> Colors]
      BY <1>3, <3>1 DEF Colors
    <3>4. purple_count' \in Int
      BY SMTT(30), <1>3, <3>1
    <3> QED BY <3>2, <3>3, <3>4
  <2>2. pc' \in {"vm", "dec_ref"}
    BY <1>0, <1>3
  <2> QED BY <1>0, <1>3, <1>4, <2>1, <2>2 DEF TypeOK
<1>6. (\A e : Live(e)' <=> Live(e)) /\ LiveIds' = LiveIds
      /\ FreeListExact' /\ WeakIndexExact'
  BY <1>3, SameLive
<1>7. /\ Colored("gray")' = {} /\ Colored("white")' = {}
      /\ \A e \in Ids : ~Live(e) => color'[e] = "black"
  BY SMTT(30), <1>0, <1>1, <1>3, DecRefFacts DEF Colored, TypeOK, Shape
<1>8. /\ \A e \in Ids : Len(data'[e]) <= Width
      /\ \A e \in Ids : ~Live(e)' => data'[e] = <<>> /\ color'[e] = "black" /\ key'[e] = Nil
      /\ \A e \in Ids : readers'[e] > 0 => Live(e)'
  BY <1>0, <1>3, <1>6, <1>7 DEF Shape, NoDangling
<1>9. \A r \in Roots : root'[r] # Nil => Live(root[r])'
  BY <1>0, <1>3, <1>6, DecRefFacts DEF Live
<1>10. /\ \A e \in Members(work_stack') : Live(e)'
       /\ \A p \in Ids : \A c \in Members(data'[p]) : Live(c)'
  BY <1>0, <1>3, <1>4, <1>6, DecRefFacts
<1>11. ASSUME NEW e \in LiveIds'
       PROVE  refcount'[e] = Cardinality(RootRefs(e)') + Cardinality(EdgesTo(e)')
                + Cardinality({i \in DOMAIN work_stack' : work_stack'[i] = e})
  <2> DEFINE D == {i \in DOMAIN work_stack' : work_stack'[i] = e}
  <2>1. /\ RootRefs(e)' = RootRefs(e) /\ EdgesTo(e)' = EdgesTo(e)
        /\ DyingRefs(e) = {i \in DOMAIN work_stack : work_stack[i] = e}
    BY <1>0, <1>3 DEF RootRefs, EdgesTo, DyingRefs
  <2>2. refcount[e] = Cardinality(RootRefs(e)) + Cardinality(EdgesTo(e))
                        + Cardinality(DyingRefs(e))
    BY <1>0, <1>6, <1>11, DecRefFacts
  <2>3. /\ Cardinality(RootRefs(e)) \in Nat /\ Cardinality(EdgesTo(e)) \in Nat
        /\ IsFiniteSet(DyingRefs(e)) /\ Cardinality(DyingRefs(e)) \in Nat
    BY <1>0, RefsFinite, AllEdgesCount
  <2>4. CASE e = x
    <3>1. D = DyingRefs(e) \ {n} /\ n \in DyingRefs(e)
      BY SMTT(30), <1>4, <2>1, <2>4
    <3>2. Cardinality(D) = Cardinality(DyingRefs(e)) - 1
      BY <2>3, <3>1, Shrunk
    <3>3. refcount'[e] = refcount[e] - 1
      BY <1>0, <1>3, <2>4 DEF TypeOK
    <3> QED BY SMTT(30), <2>1, <2>2, <2>3, <3>2, <3>3
  <2>5. CASE e # x
    <3>1. D = DyingRefs(e)
      BY SMTT(30), <1>4, <2>1, <2>5
    <3>2. refcount'[e] = refcount[e]
      BY <1>0, <1>3, <1>6, <1>11, <2>5 DEF TypeOK, LiveIds
    <3> QED BY <2>1, <2>2, <3>1, <3>2
  <2> QED BY <2>4, <2>5
<1> QED BY <1>0, <1>3, <1>5, <1>6, <1>7, <1>8, <1>9, <1>10, <1>11, DecRefStep

(* An entry whose last reference goes is referred to by nothing else, and  *)
(* its own references become the ones dec_ref is to take off next.         *)
LEMMA DecRefFreesInv ==
    ASSUME HeapInv, DecRef, DecRefFrees(Last(work_stack))
    PROVE  HeapInv'
<1>0. /\ TypeOK /\ Shape /\ NoDangling /\ pc = "dec_ref" /\ work_stack # <<>>
      /\ work_stack \in Seq(Ids)
  BY DEF HeapInv, DecRef, TypeOK
<1>1. PICK x \in Ids : x = Last(work_stack) /\ Live(x)
  BY <1>0, DecRefFacts
<1>2. PICK m \in Nat : m = Len(work_stack) - 1
  BY <1>0, PopFacts
<1>3. /\ refcount[x] <= 1 /\ readers[x] = 0
      /\ refcount' = [refcount EXCEPT ![x] = 0]
      /\ color' = [color EXCEPT ![x] = "black"]
      /\ purple_count' \in {purple_count, purple_count - 1}
      /\ work_stack' = Pop(work_stack) \o data[x]
      /\ pc' = IF work_stack' = <<>> THEN "vm" ELSE pc
      /\ FreeEntry(x)
      /\ UNCHANGED <<readers, allocations_since_gc, root, black_stack, cur,
                     edge, seeds, cursor>>
  BY <1>0, <1>1 DEF DecRef, DecRefFrees, PyDecRefIds
<1>4. /\ free' \in Seq(Ids) /\ FreeListExact' /\ WeakIndexExact'
      /\ \A e \in Ids : Live(e)' <=> Live(e) /\ e # x
      /\ \A e \in Ids : data'[e] = IF e = x THEN <<>> ELSE data[e]
      /\ \A e \in Ids : key'[e] = IF e = x THEN Nil ELSE key[e]
      /\ kind' \in [Ids -> AllKinds \cup {Nil}] /\ data' \in [Ids -> Seq(Ids)]
      /\ key' \in [Ids -> Names \cup {Nil}] /\ weak' \in [Names -> Ids \cup {Nil}]
      /\ pinned' \subseteq Ids /\ len' = len
  BY <1>1, <1>3, FreedFacts
<1>5. PICK d \in Seq(Ids) : d = data[x] /\ Len(d) <= Width /\ Len(d) \in Nat /\ DOMAIN d = 1..Len(d)
  BY <1>0, LenProperties DEF TypeOK, Shape
<1>6. /\ Pop(work_stack) \in Seq(Ids) /\ Len(Pop(work_stack)) = m
      /\ DOMAIN work_stack = 1..(m + 1) /\ work_stack[m + 1] = x
      /\ \A i \in 1..m : Pop(work_stack)[i] = work_stack[i]
      /\ Members(Pop(work_stack)) \subseteq Members(work_stack)
  BY SMTT(30), <1>0, <1>1, <1>2, PopFacts DEF Last
<1>7. /\ work_stack' \in Seq(Ids) /\ DOMAIN work_stack' = 1..(m + Len(d))
      /\ \A i \in 1..m : work_stack'[i] = work_stack[i]
      /\ \A i \in 1..Len(d) : work_stack'[m + i] = d[i]
      /\ Members(work_stack') = Members(Pop(work_stack)) \cup Members(d)
  <2>1. PICK s \in Seq(Ids) : s = Pop(work_stack) /\ Len(s) = m /\ work_stack' = s \o d
    BY <1>3, <1>5, <1>6
  <2>2. /\ work_stack' \in Seq(Ids) /\ DOMAIN work_stack' = 1..(Len(s) + Len(d))
        /\ \A i \in 1..Len(s) : work_stack'[i] = s[i]
        /\ \A i \in 1..Len(d) : work_stack'[Len(s) + i] = d[i]
    BY SMTT(30), <1>5, <2>1, ConcatFacts
  <2>3. \A e : e \in Members(work_stack') <=> e \in Members(s) \cup Members(d)
    BY <1>5, <2>1, ConcatMembers
  <2> QED BY <1>6, <2>1, <2>2, <2>3
<1>8. TypeOK'
  <2>1. refcount' \in [Ids -> Int] /\ color' \in [Ids -> Colors] /\ purple_count' \in Int
    <3>1. refcount \in [Ids -> Int] /\ color \in [Ids -> Colors] /\ purple_count \in Int
      BY <1>0 DEF TypeOK
    <3>2. refcount' \in [Ids -> Int] /\ purple_count' \in Int
      BY SMTT(30), <1>3, <3>1
    <3>3. color' \in [Ids -> Colors]
      BY <1>3, <3>1 DEF Colors
    <3> QED BY <3>2, <3>3
  <2>2. pc' \in {"vm", "dec_ref"}
    BY <1>0, <1>3
  <2> QED BY <1>0, <1>3, <1>4, <1>7, <2>1, <2>2 DEF TypeOK
(* Nothing else refers to x.                                               *)
<1>9. RootRefs(x) = {} /\ EdgesTo(x) = {} /\ DyingRefs(x) = {m + 1}
  <2>1. refcount[x] = Cardinality(RootRefs(x)) + Cardinality(EdgesTo(x))
                        + Cardinality(DyingRefs(x))
    BY <1>0, <1>1, DecRefFacts DEF LiveIds
  <2>2. /\ IsFiniteSet(RootRefs(x)) /\ Cardinality(RootRefs(x)) \in Nat
        /\ IsFiniteSet(EdgesTo(x)) /\ Cardinality(EdgesTo(x)) \in Nat
        /\ IsFiniteSet(DyingRefs(x)) /\ Cardinality(DyingRefs(x)) \in Nat
    BY <1>0, RefsFinite, AllEdgesCount
  <2>3. m + 1 \in DyingRefs(x)
    BY SMTT(30), <1>0, <1>6 DEF DyingRefs
  <2>4. Cardinality(DyingRefs(x)) # 0
    BY <2>2, <2>3, FS_EmptySet
  <2>5. /\ Cardinality(RootRefs(x)) = 0 /\ Cardinality(EdgesTo(x)) = 0
        /\ Cardinality(DyingRefs(x)) = 1
    BY SMTT(30), <1>3, <2>1, <2>2, <2>4
  <2>6. RootRefs(x) = {} /\ EdgesTo(x) = {} /\ \E y : DyingRefs(x) = {y}
    BY <2>2, <2>5, FS_EmptySet, FS_Singleton
  <2> QED BY <2>3, <2>6
<1>10. \A p \in Ids : x \notin Members(data[p])
  <2>1. ASSUME NEW p \in Ids, NEW i \in DOMAIN data[p], data[p][i] = x PROVE FALSE
    <3>1. i \in 1..Width
      <4>1. data[p] \in Seq(Ids) /\ Len(data[p]) <= Width
        BY <1>0 DEF Shape, TypeOK
      <4> QED BY SMTT(30), <2>1, <4>1, SizeAssumption, LenProperties
    <3>2. <<p, i>> \in EdgesTo(x)
      BY <2>1, <3>1 DEF EdgesTo
    <3> QED BY <1>9, <3>2
  <2> QED BY <2>1 DEF Members
<1>11. x \notin Members(work_stack')
  <2>1. x \notin Members(Pop(work_stack))
    <3>1. ASSUME NEW i \in 1..m, work_stack[i] = x PROVE FALSE
      <4>1. i \in DyingRefs(x)
        BY SMTT(30), <1>0, <1>6, <3>1 DEF DyingRefs
      <4> QED BY SMTT(30), <1>9, <4>1
    <3>2. DOMAIN Pop(work_stack) = 1..m
      BY <1>6, LenProperties
    <3> QED BY <1>6, <3>1, <3>2 DEF Members
  <2> QED BY <1>5, <1>7, <1>10, <2>1
<1>12. /\ Colored("gray")' = {} /\ Colored("white")' = {}
       /\ \A e \in Ids : ~Live(e)' => color'[e] = "black"
  <2>1. \A e \in Ids : color'[e] = IF e = x THEN "black" ELSE color[e]
    <3>1. color \in [Ids -> Colors]
      BY <1>0 DEF TypeOK
    <3> QED BY <1>3, <3>1
  <2>2. \A e \in Ids : color[e] # "gray" /\ color[e] # "white"
    BY <1>0, DecRefFacts DEF Colored
  <2>3. \A e \in Ids : ~Live(e) => color[e] = "black"
    BY <1>0 DEF Shape
  <2>4. Colored("gray")' = {} /\ Colored("white")' = {}
    BY <2>1, <2>2 DEF Colored
  <2>5. \A e \in Ids : ~Live(e)' => color'[e] = "black"
    BY <1>4, <2>1, <2>3
  <2> QED BY <2>4, <2>5
<1>13. /\ \A e \in Ids : Len(data'[e]) <= Width
       /\ \A e \in Ids : ~Live(e)' => data'[e] = <<>> /\ color'[e] = "black" /\ key'[e] = Nil
  <2>1. Len(<<>>) <= Width
    BY SMTT(30), SizeAssumption
  <2> QED BY <1>0, <1>4, <1>12, <2>1 DEF Shape
<1>14. \A e \in Ids : readers'[e] > 0 => Live(e)'
  BY SMTT(30), <1>0, <1>3, <1>4, SizeAssumption DEF NoDangling, TypeOK
<1>15. \A r \in Roots : root'[r] # Nil => Live(root[r])'
  <2>1. TAKE r \in Roots
  <2>2. root[r] # x
    BY <1>9 DEF RootRefs
  <2>3. root[r] # Nil => root[r] \in Ids /\ Live(root[r])
    BY <1>0, DecRefFacts
  <2>4. root[r] # Nil => Live(root[r])'
    BY <1>3, <1>4, <2>2, <2>3 DEF Live
  <2> QED BY <1>3, <2>4
<1>16. \A e \in Members(work_stack') : Live(e)'
  <2>1. \A e \in Members(Pop(work_stack)) \cup Members(d) : e \in Ids /\ Live(e)
    <3>1. Members(work_stack) \subseteq Ids /\ Members(d) \subseteq Ids
      BY SMTT(30), <1>0, <1>5, LenProperties DEF Members
    <3> QED BY <1>0, <1>5, <1>6, <3>1, DecRefFacts
  <2> QED BY <1>4, <1>7, <1>11, <2>1
<1>17. \A p \in Ids : \A c \in Members(data'[p]) : Live(c)'
  <2>1. TAKE p \in Ids
  <2>2. CASE p = x
    BY SMTT(30), <1>4, <2>2 DEF Members
  <2>3. CASE p # x
    <3>1. Members(data[p]) \subseteq Ids /\ data[p] = data'[p]
      BY SMTT(30), <1>0, <1>4, <2>3, LenProperties DEF Members, TypeOK
    <3> QED BY <1>0, <1>4, <1>10, <3>1, DecRefFacts
  <2> QED BY <2>2, <2>3
<1>18. ASSUME NEW e \in LiveIds'
       PROVE  refcount'[e] = Cardinality(RootRefs(e)') + Cardinality(EdgesTo(e)')
                + Cardinality({i \in DOMAIN work_stack' : work_stack'[i] = e})
  <2>d. PICK D : D = {i \in 1..Len(d) : d[i] = e}
    OBVIOUS
  <2>s. PICK S : S = {i \in DOMAIN work_stack' : work_stack'[i] = e}
    OBVIOUS
  <2>x. PICK X : X = Tagged(x, D)
    OBVIOUS
  <2>y. PICK Y : Y = Shifted(m, D)
    OBVIOUS
  <2>e. PICK E : E = EdgesTo(e)'
    OBVIOUS
  <2>0. e \in LiveIds /\ e # x /\ e \in Ids
    BY <1>4, <1>18 DEF LiveIds
  <2>1. RootRefs(e)' = RootRefs(e) /\ refcount'[e] = refcount[e]
    BY <1>0, <1>3, <2>0 DEF RootRefs, TypeOK
  <2>2. refcount[e] = Cardinality(RootRefs(e)) + Cardinality(EdgesTo(e))
                        + Cardinality(DyingRefs(e))
    BY <1>0, <2>0, DecRefFacts
  <2>3. /\ Cardinality(RootRefs(e)) \in Nat
        /\ IsFiniteSet(EdgesTo(e)) /\ Cardinality(EdgesTo(e)) \in Nat
        /\ IsFiniteSet(DyingRefs(e)) /\ Cardinality(DyingRefs(e)) \in Nat
    BY <1>0, RefsFinite, AllEdgesCount
  <2>4. D \in SUBSET Nat /\ IsFiniteSet(D)
    <3>1. IsFiniteSet(1..Len(d)) /\ D \subseteq 1..Len(d)
      BY SMTT(30), <1>5, <2>d, FS_Interval
    <3>2. IsFiniteSet(D)
      BY <3>1, FS_Subset
    <3> QED BY SMTT(30), <1>5, <3>1, <3>2
  <2>5. /\ IsFiniteSet(X) /\ Cardinality(X) = Cardinality(D)
        /\ IsFiniteSet(Y) /\ Cardinality(Y) = Cardinality(D) /\ Cardinality(D) \in Nat
    <3>1. Cardinality(D) \in Nat
      BY <2>4, FS_CardinalityType
    <3> QED BY <2>4, <2>x, <2>y, <3>1, SameNumber
  <2>6. E \cup X = EdgesTo(e) /\ E \cap X = {}
    BY SMTT(30), <1>4, <1>5, <2>d, <2>e, <2>x, SizeAssumption DEF EdgesTo, Tagged
  <2>7. S = DyingRefs(e) \cup Y /\ DyingRefs(e) \cap Y = {}
    <3>1. DyingRefs(e) = {i \in 1..m : work_stack[i] = e}
      BY SMTT(30), <1>0, <1>6, <2>0 DEF DyingRefs
    <3>2. ASSUME NEW i \in S PROVE i \in DyingRefs(e) \cup Y
      <4>1. CASE i <= m
        BY SMTT(30), <1>7, <2>s, <3>1, <4>1
      <4>2. CASE i > m
        <5>1. i - m \in 1..Len(d) /\ m + (i - m) = i
          BY SMTT(30), <1>5, <1>7, <2>s, <4>2
        <5>2. i - m \in D
          BY <1>7, <2>d, <2>s, <5>1
        <5> QED BY <2>y, <5>1, <5>2 DEF Shifted
      <4> QED BY SMTT(30), <1>7, <2>s, <4>1, <4>2
    <3>3. ASSUME NEW i \in DyingRefs(e) PROVE i \in S
      BY SMTT(30), <1>5, <1>7, <2>s, <3>1
    <3>4. ASSUME NEW j \in D PROVE m + j \in S /\ m + j \notin DyingRefs(e)
      BY SMTT(30), <1>5, <1>7, <2>d, <2>s, <3>1
    <3> QED BY <2>y, <3>2, <3>3, <3>4 DEF Shifted
  <2>8. IsFiniteSet(E)
    BY <2>3, <2>6, FS_Subset
  <2>9. Cardinality(EdgesTo(e)) = Cardinality(E) + Cardinality(D) /\ Cardinality(E) \in Nat
    <3>1. Cardinality(E) \in Nat
      BY <2>8, FS_CardinalityType
    <3>2. Cardinality(EdgesTo(e)) = Cardinality(E) + Cardinality(X)
      BY <2>5, <2>6, <2>8, Disjoint
    <3> QED BY <2>5, <3>1, <3>2
  <2>10. Cardinality(S) = Cardinality(DyingRefs(e)) + Cardinality(D)
    <3>1. Cardinality(S) = Cardinality(DyingRefs(e)) + Cardinality(Y)
      BY <2>3, <2>5, <2>7, Disjoint
    <3> QED BY <2>5, <3>1
  <2>11. refcount[e] = Cardinality(RootRefs(e)) + Cardinality(E) + Cardinality(S)
    BY SMTT(30), <2>2, <2>3, <2>5, <2>9, <2>10
  <2> QED BY <2>1, <2>11, <2>e, <2>s
<1> QED
  BY <1>0, <1>3, <1>4, <1>8, <1>12, <1>13, <1>14, <1>15, <1>16, <1>17, <1>18, DecRefStep

(* Every step of dec_ref keeps the invariant.                              *)
LEMMA DecRefInv ==
    ASSUME HeapInv, DecRef \/ DecRefPanics
    PROVE  HeapInv'
<1>1. CASE DecRef
  BY <1>1, DecRefSurvivesInv, DecRefFreesInv DEF DecRef
<1>2. CASE DecRefPanics
  <2>1. /\ pc = "dec_ref" /\ pc' = "panicked" /\ TypeOK /\ NoDangling /\ CountsExact
        /\ UNCHANGED <<len, free, kind, refcount, readers, color, data, key, purple_count,
                       allocations_since_gc, weak, root, work_stack, black_stack, cur,
                       edge, seeds, cursor, pinned>>
    BY <1>2 DEF DecRefPanics, HeapInv, arena, entries, counters, loop
  <2>2. TypeOK' /\ Shape'
    BY <2>1 DEF HeapInv, TypeOK, Shape, Live
  <2>3. LiveIds' = LiveIds /\ FreeListExact' /\ WeakIndexExact'
    BY <2>1, SameLive
  <2>4. NoDangling'
    BY SMTT(30), <2>1, <2>3 DEF NoDangling, Live, Members
  <2>5. CountsExact'
    <3>1. ASSUME NEW e PROVE Count(e)' = Count(e)
      BY <2>1 DEF Count, RootRefs, EdgeRefs, DyingRefs, TakenOff
    <3> QED BY <2>1, <2>3, <3>1 DEF CountsExact
  <2>6. Colored("gray")' = {} /\ Colored("white")' = {}
    BY <2>1 DEF HeapInv, ColorsOK, Colored
  <2> QED BY <2>1, <2>2, <2>3, <2>4, <2>5, <2>6, NotCollectingNext DEF HeapInv
<1> QED BY <1>1, <1>2

-----------------------------------------------------------------------------
Collecting == {"find", "mark", "scan", "black", "white"}

-----------------------------------------------------------------------------
(* Reached, when the base grows or entries take on the colour.             *)
LEMMA ReachMore ==
    ASSUME NEW col, NEW col2, NEW d, NEW base, NEW base2, NEW k,
           NEW S \in SUBSET Ids, NEW S2,
           Reached(col, d, base, k, S), base \subseteq base2,
           \A p \in Ids : col[p] = k => col2[p] = k,
           \A t \in S2 : \/ t \in S \/ t \in base2
                         \/ \E p \in S : col2[p] = k /\ t \in Members(d[p])
    PROVE  Reached(col2, d, base2, k, S2)
<1>1. SUFFICES ASSUME NEW X \in SUBSET Ids, base2 \subseteq X,
                      \A p \in X : col2[p] = k => Members(d[p]) \subseteq X
               PROVE  S2 \subseteq X
  BY DEF Reached
<1>2. S \subseteq X
  <2>1. base \subseteq X /\ \A p \in X : col[p] = k => Members(d[p]) \subseteq X
    BY <1>1
  <2> QED BY <2>1 DEF Reached
<1> QED BY <1>1, <1>2

(* Reached, when one entry c is done with: it leaves the base or loses the *)
(* colour, and its edges stand in for it.                                  *)
LEMMA ReachWithout ==
    ASSUME NEW col, NEW col2, NEW d, NEW d2, NEW base, NEW base2, NEW k,
           NEW S, NEW S2, NEW c \in Ids,
           Reached(col, d, base, k, S), base \subseteq base2 \cup {c},
           col[c] = k => Members(d[c]) \subseteq base2,
           \A p \in Ids : p # c /\ col[p] = k => col2[p] = k /\ d2[p] = d[p],
           S2 \subseteq S, c \notin S2
    PROVE  Reached(col2, d2, base2, k, S2)
<1>1. SUFFICES ASSUME NEW X \in SUBSET Ids, base2 \subseteq X,
                      \A p \in X : col2[p] = k => Members(d2[p]) \subseteq X
               PROVE  S2 \subseteq X
  BY DEF Reached
<1>2. PICK Y \in SUBSET Ids : Y = X \cup {c}
  OBVIOUS
<1>3. base \subseteq Y
  BY <1>1, <1>2
<1>4. ASSUME NEW p \in Y, col[p] = k PROVE Members(d[p]) \subseteq Y
  <2>1. CASE p = c
    BY <1>1, <1>2, <1>4, <2>1
  <2>2. CASE p # c
    BY <1>1, <1>2, <1>4, <2>2
  <2> QED BY <2>1, <2>2
<1>5. S \subseteq Y
  BY <1>3, <1>4 DEF Reached
<1> QED BY <1>2, <1>5

(* What is reached from nothing.                                           *)
LEMMA ReachNothing ==
    ASSUME NEW col, NEW d, NEW k, NEW S, Reached(col, d, {}, k, S)
    PROVE  S = {}
<1>1. {} \in SUBSET Ids /\ {} \subseteq {} /\ \A p \in {} : col[p] = k => Members(d[p]) \subseteq {}
  OBVIOUS
<1>2. S \subseteq {}
  BY <1>1 DEF Reached
<1> QED BY <1>2

-----------------------------------------------------------------------------
(* What the invariant says during a collection.                            *)
LEMMA CollectFacts ==
    ASSUME HeapInv, pc \in Collecting
    PROVE  /\ TypeOK /\ NilAssumption
           /\ \A e \in LiveIds : refcount[e] = Cardinality(RootRefs(e)) + Cardinality(EdgeRefs(e))
           /\ \A e \in Ids : /\ IsFiniteSet(EdgeRefs(e)) /\ Cardinality(EdgeRefs(e)) \in Nat
                             /\ IsFiniteSet(RootRefs(e)) /\ Cardinality(RootRefs(e)) \in Nat
           /\ \A p \in Ids : /\ data[p] \in Seq(Ids) /\ Len(data[p]) \in 0..Width
                             /\ DOMAIN data[p] = 1..Len(data[p])
                             /\ Members(data[p]) \subseteq Ids
           /\ pc # "white" => \A p \in Ids : \A c \in Members(data[p]) : Live(c)
           /\ \A e \in Ids : color[e] # "black" => Live(e)
<1>1. TypeOK /\ Shape /\ NoDangling /\ CountsExact /\ work_stack \in Seq(Ids)
  BY DEF HeapInv, TypeOK
<1>2. \A e \in Ids : /\ IsFiniteSet(EdgeRefs(e)) /\ Cardinality(EdgeRefs(e)) \in Nat
                     /\ IsFiniteSet(RootRefs(e)) /\ Cardinality(RootRefs(e)) \in Nat
  BY <1>1, RefsFinite
<1>3. ASSUME NEW e \in LiveIds
      PROVE  refcount[e] = Cardinality(RootRefs(e)) + Cardinality(EdgeRefs(e))
  <2>1. DyingRefs(e) = {} /\ e \in Ids
    BY DEF DyingRefs, Collecting, LiveIds
  <2>2. Cardinality(DyingRefs(e)) = 0
    BY <2>1, FS_EmptySet
  <2>3. refcount[e] = Count(e)
    BY <1>1 DEF CountsExact
  <2>4. /\ Cardinality(RootRefs(e)) \in Nat /\ Cardinality(EdgeRefs(e)) \in Nat
    BY <1>2, <2>1
  <2> QED BY SMTT(30), <2>2, <2>3, <2>4 DEF Count
<1>4. ASSUME NEW p \in Ids
      PROVE  /\ data[p] \in Seq(Ids) /\ Len(data[p]) \in 0..Width
             /\ DOMAIN data[p] = 1..Len(data[p]) /\ Members(data[p]) \subseteq Ids
  <2>1. data[p] \in Seq(Ids) /\ Len(data[p]) <= Width
    BY <1>1 DEF TypeOK, Shape
  <2>2. Len(data[p]) \in Nat /\ DOMAIN data[p] = 1..Len(data[p])
        /\ \A i \in 1..Len(data[p]) : data[p][i] \in Ids
    BY <2>1, LenProperties, ElementOfSeq
  <2> QED BY SMTT(30), <2>1, <2>2, SizeAssumption DEF Members
<1>5. pc # "white" => \A p \in Ids : \A c \in Members(data[p]) : Live(c)
  <2>1. ASSUME NEW p \in Ids, NEW c \in Members(data[p]), pc # "white" PROVE Live(c)
    <3>1. p \in LiveIds
      BY SMTT(30), <1>1, <2>1 DEF Shape, LiveIds, Members
    <3> QED BY <1>1, <2>1, <3>1 DEF NoDangling
  <2> QED BY <2>1
<1>6. \A e \in Ids : color[e] # "black" => Live(e)
  BY <1>1 DEF Shape
<1> QED BY <1>1, <1>2, <1>3, <1>4, <1>5, <1>6, NilAssumption

(* The edges that count can be counted in the state after a step too.      *)
LEMMA RefsFiniteNext ==
    ASSUME NEW e
    PROVE  IsFiniteSet(EdgeRefs(e)') /\ Cardinality(EdgeRefs(e)') \in Nat
<1>1. IsFiniteSet(Ids \X (1..Width))
  <2>1. IsFiniteSet(Ids) /\ IsFiniteSet(1..Width)
    BY SMTT(30), SizeAssumption, FS_Interval DEF Ids
  <2> QED BY <2>1, FS_Product
<1>2. EdgeRefs(e)' \in SUBSET (Ids \X (1..Width))
  BY DEF EdgeRefs
<1>3. IsFiniteSet(EdgeRefs(e)')
  BY <1>1, <1>2, FS_Subset
<1> QED BY <1>3, FS_CardinalityType

(* A step of the collector that frees nothing keeps the invariant if it    *)
(* keeps the counts and the collector's own part.                          *)
LEMMA CollectorStep ==
    ASSUME HeapInv, pc \in Collecting, pc' \in Collecting, TypeOK',
           UNCHANGED <<len, free, kind, readers, data, key, weak, root>>,
           pc = "white" => pc' = "white" /\ color' = color,
           pc' = "find" => work_stack' = <<>>,
           pc' # "black" => black_stack' = <<>>,
           pc' \in {"find", "white"} => cur' = Nil,
           \A e \in Ids : ~Live(e) => color'[e] = "black",
           pc' # "white" => \A e \in Members(work_stack') : Live(e),
           \A e \in LiveIds :
             refcount'[e] = Cardinality(RootRefs(e)) + Cardinality(EdgeRefs(e)'),
           ColorsOK', StacksOK', ReachOK'
    PROVE  HeapInv'
<1>1. /\ (\A e : Live(e)' <=> Live(e)) /\ LiveIds' = LiveIds
      /\ FreeListExact' /\ WeakIndexExact'
  BY SameLive
<1>2. Shape'
  BY <1>1 DEF HeapInv, Shape, Collecting
<1>3. NoDangling'
  <2>1. /\ \A r \in Roots : root[r] # Nil => Live(root[r])
        /\ \A p \in LiveIds : \A c \in Members(data[p]) :
             Live(c) \/ (pc = "white" /\ color[p] = "white")
        /\ \A e \in Ids : readers[e] > 0 => Live(e)
    BY DEF HeapInv, NoDangling
  <2>2. \A r \in Roots : root'[r] # Nil => Live(root[r])'
    BY <1>1, <2>1 DEF Live
  <2>3. \A p \in LiveIds' : \A c \in Members(data[p])' :
           Live(c)' \/ (pc' = "white" /\ color'[p] = "white")
    BY <1>1, <2>1 DEF Members
  <2>4. \A e \in Ids : readers'[e] > 0 => Live(e)'
    BY <1>1, <2>1
  <2>5. pc' # "white" => \A e \in Members(work_stack') : Live(e)'
    BY <1>1
  <2> QED BY <2>2, <2>3, <2>4, <2>5 DEF NoDangling
<1>4. CountsExact'
  <2>1. ASSUME NEW e \in LiveIds PROVE refcount'[e] = Count(e)'
    <3>1. RootRefs(e)' = RootRefs(e) /\ DyingRefs(e)' = {} /\ e \in Ids
      BY DEF RootRefs, DyingRefs, Collecting, LiveIds
    <3>2. Cardinality(DyingRefs(e)') = 0
      BY <3>1, FS_EmptySet
    <3>4. IsFiniteSet(EdgeRefs(e)') /\ Cardinality(EdgeRefs(e)') \in Nat
      BY RefsFiniteNext
    <3>5. Cardinality(RootRefs(e)) \in Nat
      BY <3>1, CollectFacts
    <3>6. Count(e)' = Cardinality(RootRefs(e)') + Cardinality(EdgeRefs(e)')
                        + Cardinality(DyingRefs(e)')
      BY DEF Count
    <3>7. Cardinality(RootRefs(e)') = Cardinality(RootRefs(e))
      BY <3>1
    <3> QED BY SMTT(30), <3>2, <3>4, <3>5, <3>6, <3>7
  <2> QED BY <1>1, <2>1 DEF CountsExact
<1> QED BY <1>1, <1>2, <1>3, <1>4 DEF HeapInv

(* A step that takes no edge off and puts none back keeps the counts.      *)
LEMMA SameEdges ==
    ASSUME HeapInv, pc \in Collecting, data' = data, refcount' = refcount,
           \A p \in Ids : \A i \in DOMAIN data[p] : TakenOff(p, i)' <=> TakenOff(p, i)
    PROVE  \A e \in LiveIds :
             refcount'[e] = Cardinality(RootRefs(e)) + Cardinality(EdgeRefs(e)')
<1>1. ASSUME NEW e \in LiveIds
      PROVE  refcount'[e] = Cardinality(RootRefs(e)) + Cardinality(EdgeRefs(e)')
  <2>1. EdgeRefs(e)' = EdgeRefs(e)
    BY DEF EdgeRefs
  <2>2. Cardinality(EdgeRefs(e)') = Cardinality(EdgeRefs(e))
    BY <2>1
  <2>3. refcount[e] = Cardinality(RootRefs(e)) + Cardinality(EdgeRefs(e))
    BY CollectFacts
  <2> QED BY <2>2, <2>3
<1> QED BY <1>1

-----------------------------------------------------------------------------
(* The linear pass that finds the candidates, and mark_gray.               *)
LEMMA StartCollectionInv ==
    ASSUME HeapInv, StartCollection
    PROVE  HeapInv'
<1>1. /\ pc = "vm" /\ pc' = "find" /\ cursor' = 1 /\ seeds' = <<>>
      /\ UNCHANGED <<len, free, kind, refcount, readers, color, data, key, purple_count,
                     allocations_since_gc, weak, root, work_stack, black_stack, cur,
                     edge, pinned>>
  BY DEF StartCollection, arena, entries, counters
<1>2. /\ work_stack = <<>> /\ black_stack = <<>> /\ cur = Nil
      /\ Colored("gray") = {} /\ Colored("white") = {} /\ TypeOK
  BY <1>1, VmFacts DEF HeapInv
<1>3. TypeOK'
  BY SMTT(30), <1>1, <1>2 DEF TypeOK
<1>4. LiveIds' = LiveIds /\ FreeListExact' /\ WeakIndexExact' /\ \A e : Live(e)' <=> Live(e)
  BY <1>1, SameLive
<1>5. Shape'
  BY <1>1, <1>2, <1>4 DEF HeapInv, Shape
<1>6. NoDangling'
  BY SMTT(30), <1>1, <1>2, <1>4 DEF HeapInv, NoDangling, Members, Live
<1>7. CountsExact'
  <2>1. ASSUME NEW e PROVE Count(e)' = Count(e)
    <3>1. /\ RootRefs(e)' = RootRefs(e) /\ DyingRefs(e)' = DyingRefs(e)
      BY <1>1 DEF RootRefs, DyingRefs
    <3>2. EdgeRefs(e)' = EdgeRefs(e)
      BY <1>1, <1>2 DEF EdgeRefs, TakenOff, Colored
    <3> QED BY <3>1, <3>2 DEF Count
  <2> QED BY <1>1, <1>4, <2>1 DEF HeapInv, CountsExact
<1>8. ColorsOK' /\ StacksOK'
  BY SMTT(30), <1>1, <1>2 DEF ColorsOK, StacksOK, Colored, Ids, Members
<1>9. ReachOK'
  <2>1. Colored("gray")' = {}
    BY <1>1, <1>2 DEF Colored
  <2> QED BY <1>1, <2>1 DEF ReachOK, Reached
<1> QED BY <1>3, <1>4, <1>5, <1>6, <1>7, <1>8, <1>9 DEF HeapInv

(* One slot of the pass.                                                   *)
LEMMA FindRootInv ==
    ASSUME HeapInv, FindRoot
    PROVE  HeapInv'
<1>0. /\ pc = "find" /\ cursor <= len /\ cursor' = cursor + 1 /\ TypeOK
      /\ UNCHANGED <<len, free, kind, refcount, readers, data, key, purple_count,
                     allocations_since_gc, weak, root, work_stack, black_stack, pinned>>
  BY DEF FindRoot, arena, counters, HeapInv
<1>1. /\ pc \in Collecting /\ work_stack = <<>> /\ black_stack = <<>> /\ cur = Nil
      /\ Colored("white") = {} /\ (\A e \in Colored("purple") : e >= cursor)
      /\ Reached(color, data, Members(seeds), "gray", Colored("gray"))
      /\ \A e \in Members(seeds) : Live(e)
  BY <1>0 DEF HeapInv, Shape, ColorsOK, StacksOK, ReachOK, Collecting
<1>2. /\ cursor \in Ids /\ seeds \in Seq(Ids) /\ color \in [Ids -> Colors]
      /\ cursor' \in Nat \ {0} /\ Members(<<>>) = {} /\ len \in Nat
  BY SMTT(30), <1>0, SizeAssumption DEF TypeOK, Ids, Members
<1>3. \A e \in Ids : color[e] # "black" => Live(e)
  BY <1>1, CollectFacts
<1>4. CASE /\ ~(Live(cursor) /\ color[cursor] = "purple")
           /\ UNCHANGED <<pc, cur, edge, color, seeds>>
  <2>1. TypeOK'
    BY <1>0, <1>2, <1>4 DEF TypeOK
  <2>2. ColorsOK' /\ StacksOK'
    <3>1. color[cursor] # "purple"
      BY <1>2, <1>3, <1>4
    <3>2. \A e \in Colored("purple") : e \in Nat /\ e >= cursor + 1
      BY SMTT(30), <1>1, <1>2, <3>1 DEF Colored, Ids
    <3> QED BY <1>0, <1>1, <1>4, <3>2 DEF ColorsOK, StacksOK, Colored, Live
  <2>3. ReachOK'
    BY <1>0, <1>1, <1>4 DEF ReachOK, Colored
  <2>4. \A p \in Ids : \A i \in DOMAIN data[p] : TakenOff(p, i)' <=> TakenOff(p, i)
    BY <1>0, <1>4 DEF TakenOff
  <2>5. \A e \in LiveIds : refcount'[e] = Cardinality(RootRefs(e)) + Cardinality(EdgeRefs(e)')
    BY <1>0, <1>1, <2>4, SameEdges
  <2>6. \A e \in Ids : ~Live(e) => color'[e] = "black"
    BY <1>3, <1>4
  <2> QED BY <1>0, <1>1, <1>2, <1>4, <2>1, <2>2, <2>3, <2>5, <2>6, CollectorStep
<1>5. CASE /\ color[cursor] = "purple" /\ color' = [color EXCEPT ![cursor] = "black"]
           /\ UNCHANGED <<pc, cur, edge, seeds>>
  <2>0. /\ Colored("gray")' = Colored("gray") /\ Colored("white")' = {}
        /\ \A e \in Ids : e # cursor => color'[e] = color[e]
        /\ color'[cursor] = "black"
    BY <1>1, <1>2, <1>5 DEF Colored
  <2>1. TypeOK'
    <3>1. color' \in [Ids -> Colors]
      BY <1>2, <1>5 DEF Colors
    <3> QED BY <1>0, <1>2, <1>5, <3>1 DEF TypeOK
  <2>2. ColorsOK' /\ StacksOK'
    <3>1. \A e \in Colored("purple")' : e >= cursor'
      BY SMTT(30), <1>0, <1>1, <1>2, <2>0 DEF Colored, Ids
    <3> QED BY <1>0, <1>1, <1>5, <2>0, <3>1 DEF ColorsOK, StacksOK, Live
  <2>3. ReachOK'
    <3>1. Reached(color', data, Members(seeds), "gray", Colored("gray"))
      <4>1. \A p \in Ids : color[p] = "gray" => color'[p] = "gray"
        BY <1>5, <2>0
      <4>2. Colored("gray") \in SUBSET Ids
        BY DEF Colored
      <4> QED BY <1>1, <4>1, <4>2, ReachMore
    <3> QED BY <1>0, <1>5, <2>0, <3>1 DEF ReachOK
  <2>4. \A p \in Ids : \A i \in DOMAIN data[p] : TakenOff(p, i)' <=> TakenOff(p, i)
    BY <1>0, <1>2, <1>5 DEF TakenOff
  <2>5. \A e \in LiveIds : refcount'[e] = Cardinality(RootRefs(e)) + Cardinality(EdgeRefs(e)')
    BY <1>0, <1>1, <2>4, SameEdges
  <2>6. \A e \in Ids : ~Live(e) => color'[e] = "black"
    BY <1>3, <2>0
  <2> QED BY <1>0, <1>1, <1>2, <1>5, <2>1, <2>2, <2>3, <2>5, <2>6, CollectorStep
<1>6. CASE /\ Live(cursor) /\ color[cursor] = "purple"
           /\ color' = [color EXCEPT ![cursor] = "gray"]
           /\ seeds' = Append(seeds, cursor)
           /\ pc' = "mark" /\ cur' = cursor /\ edge' = 1
  <2>0. /\ Colored("gray")' = Colored("gray") \cup {cursor} /\ Colored("white")' = {}
        /\ \A e \in Ids : e # cursor => color'[e] = color[e]
        /\ color'[cursor] = "gray"
    BY <1>1, <1>2, <1>6 DEF Colored
  <2>1. seeds' \in Seq(Ids) /\ Members(seeds') = Members(seeds) \cup {cursor}
    BY SMTT(30), <1>2, <1>6, PushFacts
  <2>2. TypeOK'
    <3>1. color' \in [Ids -> Colors]
      BY <1>2, <1>6 DEF Colors
    <3>2. /\ pc' = "mark" /\ cur' \in Ids \cup {Nil} /\ edge' \in Nat \ {0}
          /\ cursor' \in Nat \ {0} /\ seeds' \in Seq(Ids)
      BY SMTT(30), <1>2, <1>6, <2>1
    <3> QED BY <1>0, <3>1, <3>2 DEF TypeOK
  <2>3. ColorsOK' /\ StacksOK'
    <3>1. \A e \in Colored("purple")' : e >= cursor'
      BY SMTT(30), <1>0, <1>1, <1>2, <2>0 DEF Colored, Ids
    <3>2. \A e \in Members(seeds') : Live(e)'
      BY <1>0, <1>1, <1>6, <2>1 DEF Live
    <3>3. Distinct(<<>>)
      BY SMTT(30) DEF Distinct
    <3> QED BY <1>0, <1>1, <1>2, <1>6, <2>0, <3>1, <3>2, <3>3 DEF ColorsOK, StacksOK
  <2>4. ReachOK'
    <3>1. Reached(color', data, Members(seeds'), "gray", Colored("gray")')
      <4>1. \A p \in Ids : color[p] = "gray" => color'[p] = "gray"
        BY <1>6, <2>0
      <4>2. Colored("gray") \in SUBSET Ids
        BY DEF Colored
      <4>3. \A t \in Colored("gray")' : t \in Colored("gray") \/ t \in Members(seeds')
        BY <2>0, <2>1
      <4>4. Members(seeds) \subseteq Members(seeds')
        BY <2>1
      <4> QED BY <1>1, <4>1, <4>2, <4>3, <4>4, ReachMore
    <3> QED BY <1>0, <1>6, <3>1 DEF ReachOK
  <2>5. \A p \in Ids : \A i \in DOMAIN data[p] : TakenOff(p, i)' <=> TakenOff(p, i)
    <3>1. ASSUME NEW p \in Ids, NEW i \in DOMAIN data[p] PROVE TakenOff(p, i)' <=> TakenOff(p, i)
      <4>1. i \in Nat /\ i >= 1
        BY SMTT(30), <1>1, CollectFacts
      <4>2. TakenOff(p, i) <=> color[p] = "gray"
        BY <1>0 DEF TakenOff
      <4>3. TakenOff(p, i)' <=> color'[p] = "gray" /\ p # cursor
        BY SMTT(30), <1>0, <1>1, <1>2, <1>6, <4>1 DEF TakenOff
      <4> QED BY <1>6, <2>0, <4>2, <4>3
    <3> QED BY <3>1
  <2>6. \A e \in LiveIds : refcount'[e] = Cardinality(RootRefs(e)) + Cardinality(EdgeRefs(e)')
    BY <1>0, <1>1, <2>5, SameEdges
  <2>7. \A e \in Ids : ~Live(e) => color'[e] = "black"
    BY <1>3, <1>6, <2>0
  <2>8. pc' \in Collecting
    BY <1>6 DEF Collecting
  <2> QED BY <1>0, <1>1, <1>2, <1>6, <2>2, <2>3, <2>4, <2>6, <2>7, <2>8, CollectorStep
<1> QED BY <1>0, <1>4, <1>5, <1>6 DEF FindRoot

(* The pass ends: no candidate is left, and scan starts from the seeds.    *)
LEMMA StartScanInv ==
    ASSUME HeapInv, StartScan
    PROVE  HeapInv'
<1>0. /\ pc = "find" /\ cursor > len /\ TypeOK /\ pc' = "scan" /\ work_stack' = seeds
      /\ cur' = Nil
      /\ UNCHANGED <<len, free, kind, refcount, readers, color, data, key, purple_count,
                     allocations_since_gc, weak, root, black_stack, edge, seeds, cursor,
                     pinned>>
  BY DEF StartScan, arena, entries, counters, HeapInv
<1>1. /\ pc \in Collecting /\ pc' \in Collecting /\ black_stack = <<>>
      /\ Colored("white") = {} /\ (\A e \in Colored("purple") : e >= cursor)
      /\ Reached(color, data, Members(seeds), "gray", Colored("gray"))
      /\ \A e \in Members(seeds) : Live(e)
  BY <1>0 DEF HeapInv, Shape, ColorsOK, StacksOK, ReachOK, Collecting
<1>2. \A e \in Ids : color[e] # "black" => Live(e)
  BY <1>1, CollectFacts
<1>3. TypeOK'
  BY <1>0 DEF TypeOK
<1>4. Colored("purple") = {}
  <2>1. ASSUME NEW e \in Colored("purple") PROVE FALSE
    <3>1. e \in LiveIds /\ e \in Nat
      BY SMTT(30), <1>2 DEF Colored, LiveIds, Ids
    <3>2. e <= len
      BY <3>1 DEF HeapInv, FreeListExact
    <3> QED BY SMTT(30), <1>0, <1>1, <3>1, <3>2 DEF TypeOK
  <2> QED BY <2>1
<1>5. ColorsOK' /\ StacksOK'
  BY <1>0, <1>1, <1>4 DEF ColorsOK, StacksOK, Colored, Live
<1>6. Pending' = {}
  BY SMTT(30), <1>0, <1>1 DEF Pending, Members
<1>7. ReachOK'
  <2>1. Reached(color', data', Members(work_stack') \cup Pending', "gray", Colored("gray")')
    BY <1>0, <1>1, <1>6 DEF Colored
  <2>2. Reached(color', data', Members(seeds'), "white",
                Colored("white")' \cup (Colored("gray")' \cap Members(work_stack')))
    BY <1>0, <1>1 DEF Reached, Colored
  <2> QED BY <1>0, <2>1, <2>2 DEF ReachOK
<1>8. \A p \in Ids : \A i \in DOMAIN data[p] : TakenOff(p, i)' <=> TakenOff(p, i)
  BY <1>0, <1>1 DEF TakenOff, Colored
<1>9. \A e \in LiveIds : refcount'[e] = Cardinality(RootRefs(e)) + Cardinality(EdgeRefs(e)')
  BY <1>0, <1>1, <1>8, SameEdges
<1> QED BY <1>0, <1>1, <1>2, <1>3, <1>5, <1>7, <1>9, CollectorStep

=============================================================================
