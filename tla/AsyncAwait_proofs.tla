------------------------- MODULE AsyncAwait_proofs --------------------------
(***************************************************************************)
(* Awaiting, for every number of coroutines, calls and gathers: the walk   *)
(* over a gather's items and the slots it accounts for, that a gather      *)
(* settles once, and who reports to whom, so that every blocked task has   *)
(* one source that will wake it.                                           *)
(***************************************************************************)
EXTENDS AsyncScheduler_proofs

(* A leaf that names no prover is for Zenon.                               *)
USE ZenonT(60)

(* Library theorems that no proof here cites.                              *)
HIDE DEF AppendInjective, AppendIsConcat, ConcatAdjacentSubSeq,
         ConcatAssociative, ConcatEmptySeq, ConcatEqualIffEmpty,
         ConcatProperties, ConcatSimplifications, DownwardNatInduction,
         ElementOfSeq, EmptyIsWellFounded, EmptySeq, ExceptSeq,
         FS_AddElement, FS_Bijection, FS_BoundedSetOfNaturals,
         FS_CardinalityType, FS_CountingElements, FS_Difference, FS_EmptySet,
         FS_FiniteSubsetsOfFinite, FS_Image, FS_Induction, FS_Injection,
         FS_Intersection, FS_Interval, FS_MajoritiesIntersect,
         FS_NatBijection, FS_NatSurjection, FS_PigeonHole, FS_Product,
         FS_RemoveElement, FS_SUBSET, FS_SameCardinalityBij, FS_Singleton,
         FS_StrictSubsetOrderingWellFounded, FS_Subset,
         FS_SurjCardinalityBound, FS_SurjSameCardinalityImpliesInj,
         FS_Surjection, FS_UNION, FS_Union, FS_WFInduction,
         FiniteNatInductiveDef, FiniteNatInductiveDefType,
         FiniteNatInductiveUnique, GeneralNatInduction, HeadTailAppend,
         HeadTailOfSubSeq, HeadTailProperties, IsASeq,
         IsWellFoundedOnSubrelation, IsWellFoundedOnSubset, MinWF,
         NatInduction, NatInductiveDef, NatInductiveDefType,
         NatInductiveUnique, NatLessThanWellFounded, PreImageWellFounded,
         RTCTC, RangeConcatenation, RangeEquality, RangeOfSeq,
         RecursiveFcnOfNat, RecursiveFcnOfNatType, RecursiveFcnOfNatUnique,
         SeqDef, SeqEqual, SeqMonotonic, SeqOfRange, SequenceEmptyOrAppend,
         SequencesInductionAppend, SequencesInductionTail, SetLessTransitive,
         SmallestNatural, SubSeqEmpty, SubSeqFull, SubSeqOfConcat1,
         SubSeqOfConcat2, SubSeqOfSubSeq, SubSeqProperties,
         SubSeqRecursiveFirst, SubSeqRecursiveSecond, SubSeqRestrict, TCRTC,
         TCTCTC, TailIsSubSeq, TransitiveClosureChopLast,
         TransitiveClosureMinimal, TransitiveClosureThm, TransitiveClosureWF,
         WFDefOnUnique, WFInduction, WFInductiveDef, WFInductiveDefLemma,
         WFInductiveDefType, WFLexPairOrdering, WFLexProductOrdering, WFMin,
         WFSetLessThanIrreflexive, WellFoundedIsAsymmetric,
         WellFoundedIsIrreflexive

(* The open frames of a walk, innermost last, and the slots of a gather.   *)
Slots(s) == {p[2] : p \in s}
Accounts(g, pending, filled, n) ==
    /\ \A p \in pending : p[2] \in DOMAIN items[g] /\ items[g][p[2]] = p[1]
    /\ filled \cup Slots(pending) = 1..n
    /\ filled \cap Slots(pending) = {}

FrameOK(f) ==
    /\ gather[f.gather] = "Pending"
    /\ f.next \in 1..(Len(items[f.gather]) + 1)
    /\ Accounts(f.gather, f.pending, f.results, f.next - 1)
Nested(f, h) ==
    /\ f.next <= Len(items[f.gather]) /\ items[f.gather][f.next] = h.gather
    /\ h.awaiter = ToSlot(f.gather, h.gather)

WalkInv ==
    \A i \in DOMAIN commits :
        /\ FrameOK(commits[i])
        /\ i = 1 => commits[i].awaiter = ToTask(current_task)
        /\ i < Len(commits) => Nested(commits[i], commits[i + 1])
        /\ \A j \in DOMAIN commits : i < j => commits[j].gather < commits[i].gather

SlotInv ==
    \A g \in Gathers :
        /\ gather[g] \in {"Awaited", "Completed"} =>
              Accounts(g, pending_children[g], results[g], Len(items[g]))
        /\ gather[g] = "Awaited" <=> pending_children[g] # {}

Walk == WalkInv /\ SlotInv

(* gather() takes awaitables that exist: a nested gather is an older one.  *)
LEMMA ItemFacts ==
    ASSUME TypeOK, NEW g \in Gathers
    PROVE  /\ items[g] \in Seq(Awaitables) /\ Len(items[g]) \in Nat /\ g \in Nat
           /\ DOMAIN items[g] = 1..Len(items[g])
           /\ \A i \in 1..Len(items[g]) :
                 items[g][i] \in Awaitables /\ (items[g][i] \in Gathers => items[g][i] < g)
<1>1. items \in ItemChoices
  BY DEF TypeOK
<1>2. /\ items[g] \in Seq(Awaitables)
      /\ \A i \in DOMAIN items[g] : items[g][i] \in Coros \cup Exts \cup 1..(g - 1)
  BY <1>1, ItemsAssumption
<1>3. Len(items[g]) \in Nat /\ DOMAIN items[g] = 1..Len(items[g])
  BY <1>2, LenProperties
<1>4. g \in Nat /\ \A h \in 1..(g - 1) : h < g
  BY SMTT(30), ItemsAssumption DEF Gathers
<1> QED BY SMTT(30), <1>2, <1>3, <1>4, KindsAssumption

(* The walk goes on to the next item of a frame.                           *)
LEMMA Advances ==
    ASSUME TypeOK, NEW f \in CommitFrames, FrameOK(f), f.next <= Len(items[f.gather])
    PROVE  /\ FrameOK(Ready(f))
           /\ \A x \in Awaitables : x = items[f.gather][f.next] => FrameOK(Pends(f, x))
<1>1. PICK n \in Nat, m \in Nat : n = f.next /\ m = Len(items[f.gather]) /\ n \in 1..m
  BY SMTT(30), FrameFacts, ItemFacts DEF FrameOK
<1>2. DOMAIN items[f.gather] = 1..m
  BY <1>1, FrameFacts, ItemFacts
<1>3. /\ \A p \in f.pending : p[2] \in 1..m /\ items[f.gather][p[2]] = p[1]
      /\ f.results \cup Slots(f.pending) = 1..(n - 1)
      /\ f.results \cap Slots(f.pending) = {}
  BY <1>1, <1>2 DEF FrameOK, Accounts
<1>4. n + 1 \in 1..(m + 1) /\ n + 1 - 1 = n /\ 1..n = 1..(n - 1) \cup {n} /\ n \notin 1..(n - 1)
  BY SMTT(30), <1>1
<1>5. FrameOK(Ready(f))
  <2>1. /\ Ready(f).gather = f.gather /\ Ready(f).next = n + 1
        /\ Ready(f).pending = f.pending /\ Ready(f).results = f.results \cup {n}
    BY <1>1, FrameFacts
  <2>2. /\ (f.results \cup {n}) \cup Slots(f.pending) = 1..n
        /\ (f.results \cup {n}) \cap Slots(f.pending) = {}
    BY <1>3, <1>4
  <2> QED BY SMTT(30), <1>1, <1>2, <1>3, <1>4, <2>1, <2>2 DEF FrameOK, Accounts
<1>6. ASSUME NEW x \in Awaitables, x = items[f.gather][f.next]
      PROVE  FrameOK(Pends(f, x))
  <2>1. /\ Pends(f, x).gather = f.gather /\ Pends(f, x).next = n + 1
        /\ Pends(f, x).pending = f.pending \cup {<<x, n>>} /\ Pends(f, x).results = f.results
    BY <1>1, FrameFacts
  <2>2. Slots(f.pending \cup {<<x, n>>}) = Slots(f.pending) \cup {n}
    <3>1. <<x, n>>[2] = n
      OBVIOUS
    <3> QED BY <3>1 DEF Slots
  <2>3. /\ f.results \cup Slots(f.pending \cup {<<x, n>>}) = 1..n
        /\ f.results \cap Slots(f.pending \cup {<<x, n>>}) = {}
    BY <1>3, <1>4, <2>2
  <2>4. \A p \in f.pending \cup {<<x, n>>} : p[2] \in 1..m /\ items[f.gather][p[2]] = p[1]
    BY SMTT(30), <1>1, <1>3, <1>6
  <2>5. Accounts(f.gather, f.pending \cup {<<x, n>>}, f.results, n)
    BY <1>2, <2>3, <2>4 DEF Accounts
  <2>6. gather[f.gather] = "Pending"
    BY DEF FrameOK
  <2> QED BY SMTT(30), <1>1, <1>4, <2>1, <2>5, <2>6 DEF FrameOK
<1> QED BY <1>5, <1>6

(* The top of the walk's stack is replaced, pushed or popped.              *)
LEMMA ReplaceFacts ==
    ASSUME NEW S, NEW s \in Seq(S), s # <<>>, NEW e \in S
    PROVE  /\ Append(Front(s), e) \in Seq(S) /\ Len(Append(Front(s), e)) = Len(s)
           /\ Append(Front(s), e)[Len(s)] = e
           /\ \A i \in 1..(Len(s) - 1) : Append(Front(s), e)[i] = s[i]
<1>1. PICK n \in Nat \ {0} : n = Len(s)
  BY PopFacts
<1>2. /\ Front(s) \in Seq(S) /\ Len(Front(s)) = n - 1 /\ \A i \in 1..(n - 1) : Front(s)[i] = s[i]
  BY <1>1, PopFacts
<1>3. /\ Append(Front(s), e) \in Seq(S) /\ Len(Append(Front(s), e)) = (n - 1) + 1
      /\ \A i \in 1..(n - 1) : Append(Front(s), e)[i] = Front(s)[i]
      /\ Append(Front(s), e)[(n - 1) + 1] = e
  BY SMTT(30), <1>2, AppendProperties
<1> QED BY SMTT(30), <1>1, <1>2, <1>3

LEMMA WalkOn ==
    ASSUME TypeOK, WalkInv, commits # <<>>, NEW h \in CommitFrames, FrameOK(h), Replace(h),
           h.gather = Last(commits).gather, h.awaiter = Last(commits).awaiter,
           UNCHANGED <<gather, items, current_task>>
    PROVE  WalkInv'
<1>1. commits \in Seq(CommitFrames)
  BY DEF TypeOK
<1>2. PICK n \in Nat \ {0} : n = Len(commits) /\ Last(commits) = commits[n]
  BY <1>1, PopFacts
<1>3. /\ commits' \in Seq(CommitFrames) /\ Len(commits') = n /\ commits'[n] = h
      /\ \A i \in 1..(n - 1) : commits'[i] = commits[i]
  BY SMTT(30), <1>1, <1>2, ReplaceFacts DEF Replace
<1>4. DOMAIN commits = 1..n /\ DOMAIN commits' = 1..n
  BY <1>1, <1>2, <1>3, LenProperties
<1>5. (\A f : FrameOK(f)' = FrameOK(f)) /\ (\A f, k : Nested(f, k)' = Nested(f, k))
  BY DEF FrameOK, Nested, Accounts
<1>6. ASSUME NEW i \in 1..n
      PROVE  /\ FrameOK(commits'[i])
             /\ commits'[i].gather = commits[i].gather /\ commits'[i].awaiter = commits[i].awaiter
             /\ i < n => Nested(commits'[i], commits'[i + 1])
  <2>1. CASE i = n
    BY SMTT(30), <1>2, <1>3, <2>1
  <2>2. CASE i < n
    <3>1. i \in 1..(n - 1) /\ (i + 1 = n \/ i + 1 \in 1..(n - 1))
      BY SMTT(30), <2>2
    <3>2. commits'[i] = commits[i] /\ FrameOK(commits[i]) /\ Nested(commits[i], commits[i + 1])
      BY <1>2, <1>3, <1>4, <2>2, <3>1 DEF WalkInv
    <3>3. /\ commits'[i + 1].gather = commits[i + 1].gather
          /\ commits'[i + 1].awaiter = commits[i + 1].awaiter
      BY <1>2, <1>3, <3>1
    <3> QED BY <3>2, <3>3 DEF Nested
  <2> QED BY SMTT(30), <2>1, <2>2
<1> QED BY <1>2, <1>3, <1>4, <1>5, <1>6 DEF WalkInv

LEMMA WalkDown ==
    ASSUME TypeOK, WalkInv, commits # <<>>, NEW g \in Gathers, gather[g] = "Pending",
           Last(commits).next <= Len(items[Last(commits).gather]),
           items[Last(commits).gather][Last(commits).next] = g,
           commits' = Append(commits, OpenGatherCommit(g, ToSlot(Last(commits).gather, g))),
           UNCHANGED <<gather, items, current_task>>
    PROVE  WalkInv'
<1>1. commits \in Seq(CommitFrames)
  BY DEF TypeOK
<1>2. PICK n \in Nat \ {0} :
         n = Len(commits) /\ Last(commits) = commits[n] /\ commits[n] \in CommitFrames
  BY <1>1, PopFacts
<1>3. PICK h : h = OpenGatherCommit(g, ToSlot(Last(commits).gather, g))
  OBVIOUS
<1>4. /\ h \in CommitFrames /\ h.gather = g /\ h.awaiter = ToSlot(commits[n].gather, g)
      /\ h.next = 1 /\ h.pending = {} /\ h.results = {}
  BY SMTT(30), <1>2, <1>3, OpenFacts, FrameFacts, AwaiterFacts, NoneFacts
<1>5. /\ Len(commits') = n + 1 /\ commits'[n + 1] = h
      /\ \A i \in 1..n : commits'[i] = commits[i] /\ commits' \in Seq(CommitFrames)
  BY SMTT(30), <1>1, <1>2, <1>3, <1>4, AppendProperties
<1>6. DOMAIN commits = 1..n /\ DOMAIN commits' = 1..(n + 1)
  BY SMTT(30), <1>1, <1>2, <1>5, LenProperties
<1>7. (\A f : FrameOK(f)' = FrameOK(f)) /\ (\A f, k : Nested(f, k)' = Nested(f, k))
  BY DEF FrameOK, Nested, Accounts
<1>8. FrameOK(h)
  <2>1. Slots({}) = {} /\ 1..0 = {}
    BY SMTT(30) DEF Slots
  <2>2. 1 \in 1..(Len(items[g]) + 1) /\ 1 - 1 = 0
    BY SMTT(30), ItemFacts
  <2> QED BY <1>4, <2>1, <2>2 DEF FrameOK, Accounts
<1>9. g < commits[n].gather /\ commits[n].gather \in Nat
  <2>1. FrameOK(commits[n])
    BY SMTT(30), <1>2, <1>6 DEF WalkInv
  <2>2. PICK x \in Gathers, k \in Nat : x = commits[n].gather /\ k = commits[n].next
    BY <1>2, FrameFacts
  <2>3. k \in 1..Len(items[x]) /\ items[x][k] = g
    BY SMTT(30), <1>2, <2>1, <2>2, ItemFacts DEF FrameOK
  <2> QED BY <2>2, <2>3, ItemFacts
<1>10. \A i \in 1..n : g < commits[i].gather
  <2>1. \A i \in 1..n : commits[i].gather \in Nat
    BY SMTT(30), <1>1, <1>6, FrameFacts, ItemFacts
  <2>2. \A i \in 1..n : i < n => commits[n].gather < commits[i].gather
    BY SMTT(30), <1>6 DEF WalkInv
  <2>3. g \in Nat
    BY ItemFacts
  <2> QED BY SMTT(30), <1>9, <2>1, <2>2, <2>3
<1>11. Nested(commits[n], h)
  BY <1>2, <1>4 DEF Nested
<1>12. ASSUME NEW i \in 1..(n + 1)
       PROVE  /\ FrameOK(commits'[i]) /\ (i = 1 => commits'[i].awaiter = ToTask(current_task))
              /\ i < n + 1 => Nested(commits'[i], commits'[i + 1])
              /\ \A j \in 1..(n + 1) : i < j => commits'[j].gather < commits'[i].gather
  <2>1. CASE i = n + 1
    BY SMTT(30), <1>5, <1>8, <2>1
  <2>2. CASE i \in 1..n
    <3>1. commits'[i] = commits[i]
      BY <1>5, <2>2
    <3>2. /\ FrameOK(commits[i]) /\ (i = 1 => commits[i].awaiter = ToTask(current_task))
          /\ i < n => Nested(commits[i], commits[i + 1])
          /\ \A j \in 1..n : i < j => commits[j].gather < commits[i].gather
      BY <1>2, <1>6, <2>2 DEF WalkInv
    <3>3. i < n + 1 => Nested(commits[i], commits'[i + 1])
      BY SMTT(30), <1>5, <1>11, <2>2, <3>2
    <3>4. \A j \in 1..(n + 1) : i < j => commits'[j].gather < commits[i].gather
      BY SMTT(30), <1>4, <1>5, <1>10, <2>2, <3>2
    <3> QED BY <3>1, <3>2, <3>3, <3>4
  <2> QED BY SMTT(30), <1>2, <2>1, <2>2
<1> QED BY SMTT(30), <1>5, <1>6, <1>7, <1>12 DEF WalkInv

(* A nested gather is settled: the frame below goes on.                    *)
LEMMA WalkUp ==
    ASSUME TypeOK, WalkInv, commits # <<>>, Front(commits) # <<>>,
           NEW g \in Gathers, g = Last(commits).gather, NEW v, gather' = [gather EXCEPT ![g] = v],
           commits' \in {Append(Front(Front(commits)), Ready(Last(Front(commits)))),
                         Append(Front(Front(commits)), Pends(Last(Front(commits)), g))},
           UNCHANGED <<items, current_task>>
    PROVE  WalkInv'
<1>1. commits \in Seq(CommitFrames)
  BY DEF TypeOK
<1>2. PICK n \in Nat \ {0} : n + 1 = Len(commits)
  <2>1. Len(commits) \in Nat \ {0} /\ Len(Front(commits)) = Len(commits) - 1
    BY <1>1, PopFacts
  <2>2. Len(Front(commits)) \in Nat \ {0}
    BY <1>1, PopFacts
  <2> QED BY SMTT(30), <2>1, <2>2
<1>3. PICK r \in Seq(CommitFrames) : r = Front(commits) /\ r # <<>>
  BY <1>1, PopFacts
<1>4. /\ Len(r) = n /\ (\A i \in 1..n : r[i] = commits[i]) /\ g = commits[n + 1].gather
      /\ Last(r) = r[n]
  <2>1. Len(commits) - 1 = n
    BY SMTT(30), <1>2
  <2>3. /\ Len(r) = Len(commits) - 1 /\ Last(commits) = commits[Len(commits)]
        /\ \A i \in 1..(Len(commits) - 1) : r[i] = commits[i]
    BY <1>1, <1>3, PopFacts
  <2>2. /\ Len(r) = n /\ (\A i \in 1..n : r[i] = commits[i]) /\ g = commits[n + 1].gather
    BY <1>2, <2>1, <2>3
  <2> QED BY <1>3, <2>2, PopFacts
<1>5. DOMAIN commits = 1..(n + 1)
  BY <1>1, <1>2, LenProperties
<1>6. PICK f \in CommitFrames : f = commits[n]
  BY SMTT(30), <1>1, <1>5
<1>7. FrameOK(f) /\ f.next <= Len(items[f.gather]) /\ items[f.gather][f.next] = g
  BY SMTT(30), <1>2, <1>4, <1>5, <1>6 DEF WalkInv, Nested
<1>8. PICK h \in CommitFrames : /\ FrameOK(h) /\ h.gather = f.gather /\ h.awaiter = f.awaiter
                                /\ commits' = Append(Front(r), h)
  <2>1. Last(r) = f
    BY SMTT(30), <1>4, <1>6
  <2>2. commits' \in {Append(Front(r), Ready(f)), Append(Front(r), Pends(f, g))}
    BY <1>3, <2>1
  <2>3. /\ Ready(f) \in CommitFrames /\ FrameOK(Ready(f))
        /\ Ready(f).gather = f.gather /\ Ready(f).awaiter = f.awaiter
    BY <1>7, FrameFacts, Advances
  <2>4. /\ Pends(f, g) \in CommitFrames /\ FrameOK(Pends(f, g))
        /\ Pends(f, g).gather = f.gather /\ Pends(f, g).awaiter = f.awaiter
    BY <1>7, FrameFacts, Advances, NoneFacts
  <2> QED BY <2>2, <2>3, <2>4
<1>9. /\ Len(commits') = n /\ commits'[n] = h /\ commits' \in Seq(CommitFrames)
      /\ \A i \in 1..(n - 1) : commits'[i] = commits[i]
  BY SMTT(30), <1>2, <1>3, <1>4, <1>8, ReplaceFacts
<1>10. DOMAIN commits' = 1..n
  BY <1>9, LenProperties
<1>11. \A i \in 1..n : g < commits[i].gather /\ commits[i].gather \in Gathers /\ g # commits[i].gather
  <2>1. \A i \in 1..n : commits[i].gather \in Gathers /\ commits[i].gather \in Nat
    BY SMTT(30), <1>1, <1>5, FrameFacts, ItemFacts
  <2>2. \A i \in 1..n : g < commits[i].gather
    BY SMTT(30), <1>4, <1>5 DEF WalkInv
  <2>3. g \in Nat
    BY ItemFacts
  <2> QED BY SMTT(30), <2>1, <2>2, <2>3
<1>12. \A k : k.gather \in Gathers /\ k.gather # g /\ FrameOK(k) => FrameOK(k)'
  BY DEF FrameOK, Accounts, TypeOK
<1>13. \A k, l : Nested(k, l)' = Nested(k, l)
  BY DEF Nested
<1>14. ASSUME NEW i \in 1..n
       PROVE  /\ FrameOK(commits'[i]) /\ commits'[i].gather = commits[i].gather
              /\ commits'[i].awaiter = commits[i].awaiter
              /\ i < n => Nested(commits'[i], commits'[i + 1])
  <2>1. CASE i = n
    BY SMTT(30), <1>6, <1>8, <1>9, <2>1
  <2>2. CASE i < n
    <3>1. i \in 1..(n - 1) /\ (i + 1 = n \/ i + 1 \in 1..(n - 1))
      BY SMTT(30), <2>2
    <3>2. commits'[i] = commits[i] /\ FrameOK(commits[i]) /\ Nested(commits[i], commits[i + 1])
      <4>1. \A k \in 1..(n + 1) :
               FrameOK(commits[k]) /\ (k < n + 1 => Nested(commits[k], commits[k + 1]))
        BY <1>2, <1>5 DEF WalkInv
      <4>2. i \in 1..(n + 1) /\ i < n + 1
        BY SMTT(30), <1>2, <2>2
      <4> QED BY <1>9, <3>1, <4>1, <4>2
    <3>3. /\ commits'[i + 1].gather = commits[i + 1].gather
          /\ commits'[i + 1].awaiter = commits[i + 1].awaiter
      BY <1>6, <1>8, <1>9, <3>1
    <3> QED BY <3>2, <3>3 DEF Nested
  <2> QED BY SMTT(30), <2>1, <2>2
<1>15. \A i \in 1..n : commits'[i].gather \in Gathers /\ commits'[i].gather # g
  BY <1>11, <1>14
<1>16. \A i \in 1..n : /\ i = 1 => commits[i].awaiter = ToTask(current_task)
                       /\ \A j \in 1..n : i < j => commits[j].gather < commits[i].gather
  BY SMTT(30), <1>5 DEF WalkInv
<1> QED BY <1>9, <1>10, <1>12, <1>13, <1>14, <1>15, <1>16 DEF WalkInv

-----------------------------------------------------------------------------
(* What a settled gather may never do again.                               *)
KeepsOutcomes ==
    \A g \in Gathers : gather[g] \in {"Completed", "Failed"} => gather'[g] = gather[g]

LEMMA UnwindWalk ==
    ASSUME TypeOK, Walk, UnwindGatherCommits, UNCHANGED <<items, pending_children, results>>
    PROVE  Walk' /\ KeepsOutcomes
<1>1. commits' = <<>>
  BY DEF UnwindGatherCommits
<1>2. WalkInv'
  BY SMTT(30), <1>1 DEF WalkInv
<1>3. \A g \in Gathers : \/ gather'[g] = gather[g]
                         \/ gather[g] = "Pending" /\ gather'[g] = "Failed"
  BY DEF UnwindGatherCommits, Walk, WalkInv, FrameOK
<1>4. SlotInv'
  BY <1>3 DEF Walk, SlotInv, Accounts
<1> QED BY <1>2, <1>3, <1>4 DEF Walk, KeepsOutcomes

LEMMA SettleSlots ==
    ASSUME TypeOK, Sched, Walk, NEW g \in Gathers, CommitSettles(g)
    PROVE  SlotInv' /\ KeepsOutcomes
<1>1. commits \in Seq(CommitFrames) /\ commits # <<>>
  BY DEF TypeOK, CommitSettles, Sched, ThreadInv
<1>2. PICK f \in CommitFrames : f = Last(commits) /\ FrameOK(f)
  <2>1. PICK n \in Nat \ {0} : n = Len(commits) /\ Last(commits) = commits[n]
    BY <1>1, PopFacts
  <2>2. n \in DOMAIN commits
    BY SMTT(30), <1>1, <2>1, LenProperties
  <2> QED BY SMTT(30), <1>1, <2>1, <2>2 DEF Walk, WalkInv
<1>3. /\ f.gather = g /\ gather[g] = "Pending" /\ f.next > Len(items[g])
      /\ f.next \in 1..(Len(items[g]) + 1) /\ Accounts(g, f.pending, f.results, f.next - 1)
  BY <1>2 DEF CommitSettles, FrameOK
<1>4. Accounts(g, f.pending, f.results, Len(items[g])) /\ pending_children[g] = {}
  <2>1. f.next - 1 = Len(items[g])
    BY SMTT(30), <1>3, ItemFacts
  <2>2. pending_children[g] = {}
    BY <1>3 DEF Walk, SlotInv
  <2> QED BY <1>3, <2>1, <2>2
<1>5. /\ \/ f.pending = {} /\ gather'[g] = "Completed" /\ pending_children'[g] = {}
         \/ f.pending # {} /\ gather'[g] = "Awaited" /\ pending_children'[g] = f.pending
      /\ results'[g] = f.results /\ items' = items
      /\ \A h \in Gathers \ {g} : /\ gather'[h] = gather[h] /\ results'[h] = results[h]
                                  /\ pending_children'[h] = pending_children[h]
  BY SMTT(30), <1>2, <1>4 DEF CommitSettles, TypeOK
<1>6. ASSUME NEW h \in Gathers
      PROVE  /\ gather'[h] \in {"Awaited", "Completed"} =>
                   Accounts(h, pending_children'[h], results'[h], Len(items[h]))
             /\ gather'[h] = "Awaited" <=> pending_children'[h] # {}
  <2>1. CASE h = g
    BY <1>4, <1>5, <2>1
  <2>2. CASE h # g
    BY <1>5, <2>2 DEF Walk, SlotInv
  <2> QED BY <2>1, <2>2
<1>7. SlotInv'
  BY <1>5, <1>6 DEF SlotInv, Accounts
<1>8. KeepsOutcomes
  BY <1>3, <1>5 DEF KeepsOutcomes
<1> QED BY <1>7, <1>8

(* A child's value fills its slots.                                        *)
LEMMA FillSlots ==
    ASSUME NEW g \in Gathers, NEW pending, NEW filled, NEW n, Accounts(g, pending, filled, n),
           NEW x, NEW mine, mine = {p \in pending : p[1] = x}
    PROVE  Accounts(g, pending \ mine, filled \cup Slots(mine), n)
<1>1. /\ \A p \in pending : p[2] \in DOMAIN items[g] /\ items[g][p[2]] = p[1]
      /\ filled \cup Slots(pending) = 1..n /\ filled \cap Slots(pending) = {}
  BY DEF Accounts
<1>2. \A p \in mine : \A q \in pending \ mine : p[2] # q[2]
  BY <1>1
<1>3. /\ Slots(pending) = Slots(mine) \cup Slots(pending \ mine)
      /\ Slots(mine) \cap Slots(pending \ mine) = {}
  BY SMTT(30), <1>2 DEF Slots
<1>4. /\ (filled \cup Slots(mine)) \cup Slots(pending \ mine) = 1..n
      /\ (filled \cup Slots(mine)) \cap Slots(pending \ mine) = {}
  BY <1>1, <1>3
<1>5. \A p \in pending \ mine : p[2] \in DOMAIN items[g] /\ items[g][p[2]] = p[1]
  BY <1>1
<1> QED BY <1>4, <1>5 DEF Accounts

LEMMA DeliverySlots ==
    ASSUME TypeOK, Walk, NEW g \in Gathers, NEW x \in Awaitables,
           ResolveChild(g, x) \/ FailGather(g, x)
    PROVE  SlotInv' /\ KeepsOutcomes
<1>1. \A h \in Gathers \ {g} : /\ gather'[h] = gather[h] /\ results'[h] = results[h]
                               /\ pending_children'[h] = pending_children[h]
  BY DEF ResolveChild, FailGather, TypeOK, gatherVars
<1>2. items' = items
  BY DEF ResolveChild, FailGather, gatherVars
<1>3. /\ gather'[g] \in {"Awaited", "Completed"} =>
            Accounts(g, pending_children'[g], results'[g], Len(items[g]))
      /\ gather'[g] = "Awaited" <=> pending_children'[g] # {}
      /\ gather[g] = "Awaited" \/ gather'[g] = gather[g]
  <2>1. CASE gather[g] # "Awaited"
    <3>1. UNCHANGED <<gather, pending_children, results>>
      BY <2>1 DEF ResolveChild, FailGather, gatherVars
    <3> QED BY <2>1, <3>1 DEF Walk, SlotInv
  <2>2. CASE gather[g] = "Awaited" /\ FailGather(g, x)
    <3>1. gather'[g] = "Failed" /\ pending_children'[g] = {}
      BY <2>2 DEF FailGather, TypeOK
    <3> QED BY <2>2, <3>1
  <2>3. CASE gather[g] = "Awaited" /\ ResolveChild(g, x)
    <3>1. PICK mine : mine = {p \in pending_children[g] : p[1] = x}
      OBVIOUS
    <3>2. Accounts(g, pending_children[g] \ mine, results[g] \cup Slots(mine), Len(items[g]))
      <4>1. Accounts(g, pending_children[g], results[g], Len(items[g]))
        BY <2>3 DEF Walk, SlotInv
      <4> QED BY <3>1, <4>1, FillSlots
    <3>3. /\ pending_children'[g] = pending_children[g] \ mine
          /\ results'[g] = results[g] \cup Slots(mine)
      BY <2>3, <3>1 DEF ResolveChild, TypeOK, Slots
    <3>4. \/ pending_children'[g] # {} /\ gather'[g] = "Awaited"
          \/ pending_children'[g] = {} /\ gather'[g] = "Completed"
      BY <2>3 DEF ResolveChild, TypeOK
    <3>5. Accounts(g, pending_children'[g], results'[g], Len(items[g]))
      BY <3>2, <3>3
    <3> QED BY <2>3, <3>4, <3>5
  <2> QED BY <2>1, <2>2, <2>3
<1>4. \A h \in Gathers : /\ gather'[h] \in {"Awaited", "Completed"} =>
                              Accounts(h, pending_children'[h], results'[h], Len(items[h]))
                         /\ gather'[h] = "Awaited" <=> pending_children'[h] # {}
  BY <1>1, <1>3 DEF Walk, SlotInv
<1>5. SlotInv'
  BY <1>2, <1>4 DEF SlotInv, Accounts
<1>6. KeepsOutcomes
  BY <1>1, <1>3 DEF KeepsOutcomes
<1> QED BY <1>5, <1>6

(* Only a commit and a delivery touch gathers.                             *)
LEMMA OtherWalk ==
    ASSUME Walk, UNCHANGED gatherVars, commits' = <<>>
    PROVE  Walk' /\ KeepsOutcomes
<1>1. WalkInv'
  BY SMTT(30) DEF WalkInv
<1>2. SlotInv' /\ KeepsOutcomes
  BY DEF Walk, SlotInv, Accounts, KeepsOutcomes, gatherVars
<1> QED BY <1>1, <1>2 DEF Walk

LEMMA OpenWalk ==
    ASSUME TypeOK, Walk, NEW t \in Tasks, NEW g \in Gathers, gather[g] = "Pending",
           current_task = t, commits' = <<OpenGatherCommit(g, ToTask(t))>>,
           UNCHANGED <<gatherVars, current_task>>
    PROVE  Walk' /\ KeepsOutcomes
<1>1. SlotInv' /\ KeepsOutcomes
  BY DEF Walk, SlotInv, Accounts, KeepsOutcomes, gatherVars
<1>2. PICK h : h = OpenGatherCommit(g, ToTask(t))
  OBVIOUS
<1>3. h.gather = g /\ h.awaiter = ToTask(t) /\ h.next = 1 /\ h.pending = {} /\ h.results = {}
  BY SMTT(30), <1>2, OpenFacts, AwaiterFacts
<1>4. FrameOK(h)
  <2>1. Slots({}) = {} /\ 1..0 = {}
    BY SMTT(30) DEF Slots
  <2>2. 1 \in 1..(Len(items[g]) + 1) /\ 1 - 1 = 0
    BY SMTT(30), ItemFacts
  <2> QED BY <1>3, <2>1, <2>2 DEF FrameOK, Accounts
<1>5. \A f : FrameOK(f)' = FrameOK(f)
  BY DEF FrameOK, Accounts, gatherVars
<1>6. commits' = <<h>> /\ DOMAIN commits' = {1} /\ Len(commits') = 1 /\ commits'[1] = h
  BY SMTT(30), <1>2
<1>7. WalkInv'
  BY SMTT(30), <1>3, <1>4, <1>5, <1>6 DEF WalkInv
<1> QED BY <1>1, <1>7 DEF Walk

LEMMA CommitWalk ==
    ASSUME TypeOK, Sched, Walk, Commit
    PROVE  Walk' /\ KeepsOutcomes
<1> USE DEF schedVars, taskVars, extVars, gatherVars, vmVars
<1>0. ctl.mode = "commit"
  BY DEF Commit, CommitDuplicate, CommitCoroutine, CommitExternal, CommitNested,
         CommitSettles, FirstSeen, Committing
<1>1. commits \in Seq(CommitFrames) /\ commits # <<>>
  BY <1>0 DEF TypeOK, Sched, ThreadInv
<1>2. PICK f \in CommitFrames : f = Last(commits) /\ FrameOK(f)
  <2>1. PICK n \in Nat \ {0} : n = Len(commits) /\ Last(commits) = commits[n]
    BY <1>1, PopFacts
  <2>2. n \in DOMAIN commits
    BY SMTT(30), <1>1, <2>1, LenProperties
  <2> QED BY SMTT(30), <1>1, <2>1, <2>2 DEF Walk, WalkInv
<1>3. ASSUME UNCHANGED <<gatherVars, current_task>>, f.next <= Len(items[f.gather]),
             NEW x \in Awaitables, items[f.gather][f.next] = x,
             Replace(Ready(f)) \/ Replace(Pends(f, x))
      PROVE  Walk' /\ KeepsOutcomes
  <2>1. /\ Ready(f) \in CommitFrames /\ FrameOK(Ready(f))
        /\ Ready(f).gather = f.gather /\ Ready(f).awaiter = f.awaiter
    BY <1>2, <1>3, FrameFacts, Advances
  <2>2. /\ Pends(f, x) \in CommitFrames /\ FrameOK(Pends(f, x))
        /\ Pends(f, x).gather = f.gather /\ Pends(f, x).awaiter = f.awaiter
    BY <1>2, <1>3, FrameFacts, Advances
  <2>3. PICK h \in CommitFrames : /\ Replace(h) /\ FrameOK(h)
                                  /\ h.gather = f.gather /\ h.awaiter = f.awaiter
    BY <1>3, <2>1, <2>2
  <2>4. WalkInv'
    BY <1>1, <1>2, <1>3, <2>3, WalkOn DEF Walk
  <2>5. SlotInv' /\ KeepsOutcomes
    BY <1>3 DEF Walk, SlotInv, Accounts, KeepsOutcomes
  <2> QED BY <2>4, <2>5 DEF Walk
<1>4. ASSUME NEW x, Committing(x)
      PROVE  f.next <= Len(items[f.gather]) /\ items[f.gather][f.next] = x
  BY <1>2, <1>4 DEF Committing
<1>5. ASSUME NEW x \in Awaitables, CommitDuplicate(x)
      PROVE  Walk' /\ KeepsOutcomes
  BY <1>2, <1>3, <1>4, <1>5 DEF CommitDuplicate
<1>6. ASSUME NEW c \in Coros, CommitCoroutine(c)
      PROVE  Walk' /\ KeepsOutcomes
  <2>1. CASE UnwindGatherCommits
    BY <1>6, <2>1, UnwindWalk DEF CommitCoroutine
  <2>2. CASE Replace(Pends(f, c)) /\ UNCHANGED gather
    <3>1. Committing(c) /\ UNCHANGED <<gatherVars, current_task>> /\ c \in Awaitables
      BY <1>6, <2>2, NoneFacts DEF CommitCoroutine, FirstSeen
    <3> QED BY <1>3, <1>4, <2>2, <3>1
  <2> QED BY <1>2, <1>6, <2>1, <2>2 DEF CommitCoroutine
<1>7. ASSUME NEW e \in Exts, CommitExternal(e)
      PROVE  Walk' /\ KeepsOutcomes
  <2>1. CASE UnwindGatherCommits
    BY <1>7, <2>1, UnwindWalk DEF CommitExternal
  <2>2. CASE (Replace(Ready(f)) \/ Replace(Pends(f, e))) /\ UNCHANGED gather
    <3>1. Committing(e) /\ UNCHANGED <<gatherVars, current_task>> /\ e \in Awaitables
      BY <1>7, <2>2, NoneFacts DEF CommitExternal, FirstSeen
    <3> QED BY <1>3, <1>4, <2>2, <3>1
  <2> QED BY <1>2, <1>7, <2>1, <2>2 DEF CommitExternal
<1>8. ASSUME NEW g \in Gathers, CommitNested(g)
      PROVE  Walk' /\ KeepsOutcomes
  <2>1. CASE UnwindGatherCommits
    BY <1>8, <2>1, UnwindWalk DEF CommitNested
  <2>2. CASE Replace(Ready(f)) /\ UNCHANGED gather
    <3>1. Committing(g) /\ UNCHANGED <<gatherVars, current_task>> /\ g \in Awaitables
      BY <1>8, <2>2, NoneFacts DEF CommitNested, FirstSeen
    <3> QED BY <1>3, <1>4, <2>2, <3>1
  <2>3. CASE /\ gather[g] = "Pending" /\ UNCHANGED gather
             /\ commits' = Append(commits, OpenGatherCommit(g, ToSlot(f.gather, g)))
    <3>1. Committing(g) /\ UNCHANGED <<gatherVars, current_task>>
      BY <1>8, <2>3 DEF CommitNested, FirstSeen
    <3>2. f.next <= Len(items[f.gather]) /\ items[f.gather][f.next] = g
      BY <1>4, <3>1
    <3>3. WalkInv'
      BY <1>1, <1>2, <2>3, <3>1, <3>2, WalkDown DEF Walk
    <3>4. SlotInv' /\ KeepsOutcomes
      BY <3>1 DEF Walk, SlotInv, Accounts, KeepsOutcomes
    <3> QED BY <3>3, <3>4 DEF Walk
  <2> QED BY <1>2, <1>8, <2>1, <2>2, <2>3 DEF CommitNested
<1>9. ASSUME NEW g \in Gathers, CommitSettles(g)
      PROVE  Walk' /\ KeepsOutcomes
  <2>1. SlotInv' /\ KeepsOutcomes
    BY <1>9, SettleSlots
  <2>2. CASE Front(commits) = <<>>
    <3>1. commits' = <<>>
      BY <1>9, <2>2 DEF CommitSettles
    <3> QED BY SMTT(30), <2>1, <3>1 DEF WalkInv, Walk
  <2>3. CASE Front(commits) # <<>>
    <3>1. /\ commits' \in {Append(Front(Front(commits)), Ready(Last(Front(commits)))),
                           Append(Front(Front(commits)), Pends(Last(Front(commits)), g))}
          /\ UNCHANGED <<items, current_task>> /\ g = Last(commits).gather
      BY <1>9, <2>3 DEF CommitSettles
    <3>2. \E v : gather' = [gather EXCEPT ![g] = v]
      BY <1>9 DEF CommitSettles
    <3>3. WalkInv'
      BY <1>1, <2>3, <3>1, <3>2, WalkUp DEF Walk
    <3> QED BY <2>1, <3>3 DEF Walk
  <2> QED BY <2>2, <2>3
<1> QED BY <1>5, <1>6, <1>7, <1>8, <1>9 DEF Commit

LEMMA StepWalk == TypeOK /\ Sched /\ Walk /\ [Next]_vars => Walk' /\ KeepsOutcomes
<1> SUFFICES ASSUME TypeOK, Sched, Walk, [Next]_vars PROVE Walk' /\ KeepsOutcomes
  OBVIOUS
<1> USE DEF schedVars, taskVars, extVars, gatherVars, vmVars
<1>1. ASSUME NEW t \in Tasks, Bytecode(t)
      PROVE  Walk' /\ KeepsOutcomes
  <2>1. ASSUME NEW g \in Gathers, AwaitGather(t, g), gather[g] = "Pending"
        PROVE  Walk' /\ KeepsOutcomes
    BY <2>1, OpenWalk DEF AwaitGather, Executing
  <2>2. ASSUME \A g \in Gathers : AwaitGather(t, g) => gather[g] # "Pending"
        PROVE  Walk' /\ KeepsOutcomes
    <3>1. UNCHANGED <<gatherVars, commits>> /\ ctl.mode = "run"
      BY <1>1, <2>2 DEF Bytecode, ValueArrives, FrameReturns, Raises, CallFuture, CallEager,
                    AwaitExternal, AwaitCoroutine, AwaitGather, Executing
    <3>2. commits = <<>>
      BY <3>1 DEF Sched, ThreadInv
    <3> QED BY <3>1, <3>2, OtherWalk
  <2> QED BY <2>1, <2>2
<1>2. CASE Commit
  BY <1>2, CommitWalk
<1>3. CASE Delivery
  <2>1. commits' = commits /\ ctl.mode = "deliver"
    BY <1>3 DEF Delivery, DeliverToTask, ResolveChild, FailGather, Delivering
  <2>2. commits' = <<>>
    BY <2>1 DEF Sched, ThreadInv
  <2>3. ASSUME NEW t \in Tasks, DeliverToTask(t)
        PROVE  Walk' /\ KeepsOutcomes
    BY <2>2, <2>3, OtherWalk DEF DeliverToTask
  <2>4. ASSUME NEW g \in Gathers, NEW x \in Awaitables, ResolveChild(g, x) \/ FailGather(g, x)
        PROVE  Walk' /\ KeepsOutcomes
    BY SMTT(30), <2>2, <2>4, DeliverySlots DEF Walk, WalkInv
  <2> QED BY <1>3, <2>3, <2>4 DEF Delivery
<1>4. CASE Exits
  <2>1. UNCHANGED <<gatherVars, commits>> /\ ctl.mode # "commit"
    BY <1>4 DEF Exits, MainReturns, RunFails, TaskExits, TaskReturns, TaskFails, Caught, Executing
  <2>2. commits' = <<>>
    BY <2>1 DEF Sched, ThreadInv
  <2> QED BY <2>1, <2>2, OtherWalk
<1>5. CASE Selection
  <2>1. UNCHANGED <<gatherVars, commits>> /\ ctl.mode # "commit"
    BY <1>5 DEF Selection, NothingToRun, RerunsModule, ActivateLoaded, ActivateSaved,
                ActivateNew, ActivateStale, Selected
  <2>2. commits' = <<>>
    BY <2>1 DEF Sched, ThreadInv
  <2> QED BY <2>1, <2>2, OtherWalk
<1>6. CASE Host
  <2>1. UNCHANGED <<gatherVars, commits>> /\ ctl.mode # "commit"
    BY <1>6 DEF Host, ResolveFuture, FailFuture, Settle, HostResumes, HostAborts
  <2>2. commits' = <<>>
    BY <2>1 DEF Sched, ThreadInv
  <2> QED BY <2>1, <2>2, OtherWalk
<1>7. CASE UNCHANGED vars
  <2>1. UNCHANGED <<gatherVars, commits, current_task>>
    BY <1>7 DEF vars
  <2>2. (\A f : FrameOK(f)' = FrameOK(f)) /\ (\A f, k : Nested(f, k)' = Nested(f, k))
    BY <2>1 DEF FrameOK, Nested, Accounts
  <2>3. WalkInv'
    BY <2>1, <2>2 DEF Walk, WalkInv
  <2> QED BY <2>1, <2>3 DEF Walk, SlotInv, Accounts, KeepsOutcomes
<1> QED BY <1>1, <1>2, <1>3, <1>4, <1>5, <1>6, <1>7 DEF Next

LEMMA AlwaysWalk == Spec => [](TypeOK /\ Sched /\ Walk)
<1>1. Init => Walk
  <2> SUFFICES ASSUME Init PROVE Walk
    OBVIOUS
  <2>1. WalkInv
    BY SMTT(30) DEF Init, WalkInv
  <2> QED BY <2>1 DEF Init, Walk, SlotInv
<1>2. TypeOK /\ Sched /\ Walk /\ [Next]_vars => Walk'
  BY StepWalk
<1> QED BY <1>1, <1>2, AlwaysSched, PTL DEF Spec

(* A gather never loses a slot and never fills one twice: `commit` hands   *)
(* every item a slot, `resolve_child` fills all slots of a repeated item,  *)
(* and a gather completes with every slot filled.                          *)
THEOREM SlotsAreAccounted == Spec => []SlotsAccounted
<1>1. TypeOK /\ Walk => SlotsAccounted
  <2> SUFFICES ASSUME TypeOK, Walk, NEW g \in Gathers
               PROVE  LET waited == {p[2] : p \in pending_children[g]} IN
                      /\ gather[g] = "Completed" => results[g] = DOMAIN items[g] /\ waited = {}
                      /\ gather[g] = "Awaited" => /\ results[g] \cup waited = DOMAIN items[g]
                                                  /\ results[g] \cap waited = {}
    BY DEF SlotsAccounted
  <2>1. DOMAIN items[g] = 1..Len(items[g])
    BY ItemFacts
  <2>2. gather[g] \in {"Awaited", "Completed"} =>
            Accounts(g, pending_children[g], results[g], Len(items[g]))
    BY DEF Walk, SlotInv
  <2>3. gather[g] = "Completed" => pending_children[g] = {}
    BY DEF Walk, SlotInv
  <2>4. Slots({}) = {} /\ Slots(pending_children[g]) = {p[2] : p \in pending_children[g]}
    BY DEF Slots
  <2>5. gather[g] = "Completed" => {p[2] : p \in pending_children[g]} = {}
    BY <2>3
  <2> QED BY <2>1, <2>2, <2>4, <2>5 DEF Accounts
<1> QED BY <1>1, AlwaysWalk, PTL

(* A settled gather keeps its outcome: only the gathers of a walk, which   *)
(* are Pending, and an Awaited gather change state.                        *)
THEOREM GathersSettleOnce == Spec => GatherSettlesOnce
<1>1. TypeOK /\ Sched /\ Walk /\ [Next]_vars =>
        [\A g \in Gathers : gather[g] \in {"Completed", "Failed"} => gather'[g] = gather[g]]_vars
  BY StepWalk DEF KeepsOutcomes
<1> QED BY <1>1, AlwaysWalk, PTL DEF Spec, GatherSettlesOnce

-----------------------------------------------------------------------------
(* Who reports to whom.  t waits for the awaitable on[t], or its result is *)
(* being delivered.                                                        *)
Delivered(a) == ctl.mode = "deliver" /\ ctl.awaiter = a

CallsOK ==
    \A e \in Exts : /\ e \in pending_externals <=> ext[e] = "Pending"
                    /\ extAwaiter[e] # NoAwaiter => ext[e] = "Pending"
AwaitedOK == \A g \in Gathers : gather[g] = "Awaited" <=> gatherAwaiter[g] # NoAwaiter
WakeOK(t) ==
    /\ \A e \in Exts : extAwaiter[e] = ToTask(t) => state[t] = "blocked" /\ on[t] = e
    /\ \A g \in Gathers : gatherAwaiter[g] = ToTask(t) => state[t] = "blocked" /\ on[t] = g
    /\ Delivered(ToTask(t)) =>
         /\ state[t] = "blocked" /\ ctl.value \in {None, on[t]}
         /\ \A e \in Exts : extAwaiter[e] # ToTask(t)
         /\ \A g \in Gathers : gatherAwaiter[g] # ToTask(t)
    /\ state[t] = "blocked" =>
         \/ Delivered(ToTask(t))
         \/ on[t] \in Exts /\ extAwaiter[on[t]] = ToTask(t)
         \/ on[t] \in Gathers /\ gatherAwaiter[on[t]] = ToTask(t)
WakeInv == CallsOK /\ AwaitedOK /\ \A t \in Tasks : WakeOK(t)

Reports(x, g) ==
    \/ x \in Coros /\ state[x] \in {"ready", "raise", "blocked"} /\ under[x] = g
    \/ x \in Exts /\ extAwaiter[x] = ToSlot(g, x)
    \/ x \in Gathers /\ gatherAwaiter[x] = ToSlot(g, x)

(* x was committed for a gather of the walk; an awaited gather waits for x.*)
Promised(x, g) ==
    \E i \in DOMAIN commits : commits[i].gather = g /\ \E p \in commits[i].pending : p[1] = x
AwaitsChild(g, x) == \E p \in pending_children[g] : p[1] = x

ChildInv ==
    \A g \in Gathers, x \in Awaitables :
        /\ Promised(x, g) => Reports(x, g) /\ (x \in Coros => x \in Queued)
        /\ AwaitsChild(g, x) => Reports(x, g) \/ Delivered(ToSlot(g, x))
        /\ Leaving /\ current_task = x /\ AwaitsChild(g, x) => Delivered(ToSlot(g, x))

Wake == WakeInv /\ ChildInv

(* No delivery before or after: what has to be looked at.                  *)
LEMMA WakeKept ==
    ASSUME WakeInv, ctl.mode # "deliver", ctl'.mode # "deliver", CallsOK', AwaitedOK',
           \A e \in Exts : \/ extAwaiter'[e] = extAwaiter[e]
                           \/ \A t \in Tasks : extAwaiter'[e] # ToTask(t) /\ extAwaiter[e] # ToTask(t),
           \A g \in Gathers : \/ gatherAwaiter'[g] = gatherAwaiter[g]
                              \/ \A t \in Tasks : /\ gatherAwaiter'[g] # ToTask(t)
                                                  /\ gatherAwaiter[g] # ToTask(t),
           \A t \in Tasks : /\ state'[t] = "blocked" <=> state[t] = "blocked"
                            /\ state[t] = "blocked" => on'[t] = on[t]
    PROVE  WakeInv'
<1>1. ASSUME NEW t \in Tasks
      PROVE  WakeOK(t)'
  <2>1. ~Delivered(ToTask(t)) /\ ~Delivered(ToTask(t))'
    BY DEF Delivered
  <2>2. /\ \A e \in Exts : extAwaiter'[e] = ToTask(t) <=> extAwaiter[e] = ToTask(t)
        /\ \A g \in Gathers : gatherAwaiter'[g] = ToTask(t) <=> gatherAwaiter[g] = ToTask(t)
    OBVIOUS
  <2> QED BY <2>1, <2>2 DEF WakeInv, WakeOK
<1> QED BY <1>1 DEF WakeInv

LEMMA ChildKept ==
    ASSUME ChildInv, ctl.mode # "deliver", ~Leaving',
           \A g \in Gathers, x \in Awaitables :
              /\ Reports(x, g) => Reports(x, g)'
              /\ AwaitsChild(g, x)' => AwaitsChild(g, x) \/ Reports(x, g)'
              /\ Promised(x, g)' => \/ Promised(x, g) /\ Queued \subseteq Queued'
                                    \/ Reports(x, g)' /\ (x \in Coros => x \in Queued')
    PROVE  ChildInv'
<1>1. \A a : ~Delivered(a)
  BY DEF Delivered
<1> QED BY <1>1 DEF ChildInv

(* A child goes on reporting to its gather as long as its task lives and   *)
(* its awaiter stays.                                                      *)
LEMMA ReportsKept ==
    ASSUME \A c \in Coros : state[c] \in {"ready", "raise", "blocked"} =>
                state'[c] \in {"ready", "raise", "blocked"} /\ under'[c] = under[c],
           \A e \in Exts : extAwaiter[e] # NoAwaiter => extAwaiter'[e] = extAwaiter[e],
           \A g \in Gathers : gatherAwaiter[g] # NoAwaiter => gatherAwaiter'[g] = gatherAwaiter[g]
    PROVE  \A g \in Gathers : \A x : Reports(x, g) => Reports(x, g)'
  BY SMTT(30), AwaiterFacts DEF Reports

LEMMA NoPromises ==
    ASSUME \/ commits' = <<>>
           \/ \E g \in Gathers, t \in Tasks : commits' = <<OpenGatherCommit(g, ToTask(t))>>
    PROVE  \A x, g : ~Promised(x, g)'
<1>1. CASE commits' = <<>>
  BY SMTT(30), <1>1 DEF Promised
<1>2. ASSUME NEW g \in Gathers, NEW t \in Tasks, commits' = <<OpenGatherCommit(g, ToTask(t))>>
      PROVE  \A x, h : ~Promised(x, h)'
  <2>1. OpenGatherCommit(g, ToTask(t)).pending = {}
    BY OpenFacts, AwaiterFacts
  <2>2. DOMAIN commits' = {1} /\ commits'[1] = OpenGatherCommit(g, ToTask(t))
    BY SMTT(30), <1>2
  <2> QED BY <2>1, <2>2 DEF Promised
<1> QED BY <1>1, <1>2

(* What a step of the walk promises.                                       *)
LEMMA PromiseFacts ==
    ASSUME TypeOK, NEW s \in Seq(CommitFrames), s # <<>>, Len(s) <= Len(commits),
           \A i \in 1..Len(s) : s[i] = commits[i], NEW x \in Awaitables, NEW h,
           h = Ready(Last(s)) \/ h = Pends(Last(s), x), commits' = Append(Front(s), h)
    PROVE  \A y, g : Promised(y, g)' =>
              \/ Promised(y, g)
              \/ y = x /\ g = Last(s).gather /\ h # Ready(Last(s))
<1>1. PICK n \in Nat \ {0}, m \in Nat : n = Len(s) /\ m = Len(commits) /\ n <= m
  <2>1. Len(s) \in Nat \ {0}
    BY PopFacts
  <2>2. commits \in Seq(CommitFrames)
    BY DEF TypeOK
  <2>3. Len(commits) \in Nat
    BY <2>2, LenProperties
  <2> QED BY <2>1, <2>3
<1>2. DOMAIN commits = 1..m /\ 1..n \subseteq 1..m
  <2>1. commits \in Seq(CommitFrames)
    BY DEF TypeOK
  <2> QED BY SMTT(30), <1>1, <2>1, LenProperties
<1>3. PICK f \in CommitFrames : f = Last(s) /\ f = s[n]
  BY <1>1, PopFacts
<1>4. f = commits[n]
  BY SMTT(30), <1>1, <1>3
<1>5. /\ h \in CommitFrames /\ h.gather = f.gather
      /\ h.pending = f.pending \/ h.pending = f.pending \cup {<<x, f.next>>}
      /\ h.pending # f.pending => h # Ready(f)
  <2>1. CASE h = Ready(f)
    BY <2>1, FrameFacts
  <2>2. CASE h = Pends(f, x)
    <3>1. Ready(f).pending = f.pending
      BY FrameFacts
    <3> QED BY <2>2, <3>1, FrameFacts
  <2> QED BY <1>3, <2>1, <2>2
<1>6. /\ commits' \in Seq(CommitFrames) /\ Len(commits') = n /\ commits'[n] = h
      /\ \A i \in 1..(n - 1) : commits'[i] = s[i]
  BY SMTT(30), <1>1, <1>5, ReplaceFacts
<1>7. DOMAIN commits' = 1..n
  BY <1>6, LenProperties
<1>8. \A i \in 1..(n - 1) : commits'[i] = commits[i]
  BY SMTT(30), <1>1, <1>6
<1>9. ASSUME NEW y, NEW g, NEW i \in 1..n, commits'[i].gather = g,
             NEW p \in commits'[i].pending, p[1] = y
      PROVE  \/ Promised(y, g)
             \/ y = x /\ g = f.gather /\ h # Ready(f)
  <2>1. CASE i \in 1..(n - 1)
    BY <1>1, <1>2, <1>8, <1>9, <2>1 DEF Promised
  <2>2. CASE i = n /\ p \in f.pending
    BY <1>1, <1>2, <1>4, <1>5, <1>6, <1>9, <2>2 DEF Promised
  <2>3. CASE i = n /\ p \notin f.pending
    <3>1. h # Ready(f) /\ p = <<x, f.next>> /\ h.gather = g
      BY <1>5, <1>6, <1>9, <2>3
    <3> QED BY <1>5, <1>9, <3>1
  <2> QED BY SMTT(30), <1>1, <2>1, <2>2, <2>3
<1>10. ASSUME NEW y, NEW g, Promised(y, g)'
       PROVE  \/ Promised(y, g)
              \/ y = x /\ g = f.gather /\ h # Ready(f)
  <2>1. PICK i \in 1..n : commits'[i].gather = g /\ \E p \in commits'[i].pending : p[1] = y
    BY <1>7, <1>10 DEF Promised
  <2>2. PICK p \in commits'[i].pending : p[1] = y
    BY <2>1
  <2> QED BY <1>9, <2>1, <2>2
<1> QED BY <1>3, <1>10

(* The loaded task blocks on x.                                            *)
LEMMA BlockWake ==
    ASSUME TypeOK, Sched, WakeInv, Running, NEW x \in Exts \cup Gathers,
           BlockCurrentOn(current_task, x), ctl'.mode # "deliver", CallsOK', AwaitedOK',
           \/ /\ x \in Exts /\ extAwaiter[x] = NoAwaiter /\ gatherAwaiter' = gatherAwaiter
              /\ extAwaiter' = [extAwaiter EXCEPT ![x] = ToTask(current_task)]
           \/ /\ x \in Gathers /\ gatherAwaiter[x] = NoAwaiter /\ extAwaiter' = extAwaiter
              /\ gatherAwaiter' = [gatherAwaiter EXCEPT ![x] = ToTask(current_task)]
    PROVE  WakeInv'
<1>1. PICK t \in Tasks : /\ t = current_task /\ state[t] = "ready"
                         /\ state'[t] = "blocked" /\ on'[t] = x
                         /\ \A u \in Tasks \ {t} : state'[u] = state[u] /\ on'[u] = on[u]
  BY DEF Sched, ThreadInv, BlockCurrentOn, TypeOK
<1>2. \A u \in Tasks : ~Delivered(ToTask(u)) /\ ~Delivered(ToTask(u))'
  BY DEF Delivered, Running
<1>3. /\ \A e \in Exts : \/ extAwaiter'[e] = extAwaiter[e] /\ extAwaiter'[e] # ToTask(t)
                         \/ e = x /\ extAwaiter'[e] = ToTask(t) /\ extAwaiter[e] = NoAwaiter
      /\ \A g \in Gathers : \/ gatherAwaiter'[g] = gatherAwaiter[g] /\ gatherAwaiter'[g] # ToTask(t)
                            \/ /\ g = x /\ gatherAwaiter'[g] = ToTask(t)
                               /\ gatherAwaiter[g] = NoAwaiter
      /\ \/ x \in Exts /\ extAwaiter'[x] = ToTask(t)
         \/ x \in Gathers /\ gatherAwaiter'[x] = ToTask(t)
  BY SMTT(30), <1>1 DEF WakeInv, WakeOK, TypeOK
<1>4. WakeOK(t)'
  BY <1>1, <1>2, <1>3 DEF WakeOK
<1>5. ASSUME NEW u \in Tasks \ {t}
      PROVE  WakeOK(u)'
  <2>1. ToTask(u) # ToTask(t)
    BY AwaiterFacts
  <2>2. WakeOK(u) /\ state'[u] = state[u] /\ on'[u] = on[u]
    BY <1>1 DEF WakeInv
  <2>3. /\ \A e \in Exts : extAwaiter'[e] = ToTask(u) => extAwaiter[e] = ToTask(u)
        /\ \A g \in Gathers : gatherAwaiter'[g] = ToTask(u) => gatherAwaiter[g] = ToTask(u)
    BY <1>3, <2>1
  <2>4. /\ \A e \in Exts : extAwaiter[e] = ToTask(u) => extAwaiter'[e] = ToTask(u)
        /\ \A g \in Gathers : gatherAwaiter[g] = ToTask(u) => gatherAwaiter'[g] = ToTask(u)
    BY <1>3, AwaiterFacts
  <2> QED BY <1>2, <2>2, <2>3, <2>4 DEF WakeOK
<1> QED BY <1>4, <1>5 DEF WakeInv

(* The task c ends and reports to the gather it was spawned under.         *)
LEMMA LeaveWake ==
    ASSUME TypeOK, Wake, ctl.mode # "deliver", NEW c \in Coros, state[c] = "ready",
           ctl'.mode = "deliver", ctl'.awaiter = ToSlot(under[c], c),
           commits' = <<>>, current_task' \in {c, None},
           state'[c] \in {"ready", "gone"}, \A t \in Tasks \ {c} : state'[t] = state[t],
           UNCHANGED <<on, under, extVars, pending_externals, gatherVars>>
    PROVE  Wake'
<1>1. UNCHANGED <<ext, extAwaiter, gather, gatherAwaiter, pending_children>>
  BY DEF extVars, gatherVars
<1>2. \A t \in Tasks : ~Delivered(ToTask(t)) /\ ~Delivered(ToTask(t))'
  BY AwaiterFacts DEF Delivered
<1>3. \A t \in Tasks : state'[t] = "blocked" <=> state[t] = "blocked"
  OBVIOUS
<1>4. CallsOK' /\ AwaitedOK'
  BY <1>1 DEF Wake, WakeInv, CallsOK, AwaitedOK
<1>5. ASSUME NEW t \in Tasks
      PROVE  WakeOK(t)'
  BY <1>1, <1>2, <1>3 DEF Wake, WakeInv, WakeOK
<1>6. \A x, g : ~Promised(x, g)'
  BY NoPromises
<1>7. ASSUME NEW g \in Gathers, NEW x \in Awaitables, AwaitsChild(g, x)'
      PROVE  /\ Reports(x, g)' \/ Delivered(ToSlot(g, x))'
             /\ x = current_task' => Delivered(ToSlot(g, x))'
  <2>1. AwaitsChild(g, x)
    BY <1>1, <1>7 DEF AwaitsChild
  <2>2. Reports(x, g)
    BY <2>1 DEF Wake, ChildInv, Delivered
  <2>3. CASE x = c
    <3>1. under[c] = g
      BY <2>2, <2>3, KindsAssumption DEF Reports
    <3> QED BY <2>3, <3>1 DEF Delivered
  <2>4. CASE x # c
    <3>1. Reports(x, g)'
      BY <1>1, <2>2, <2>4, NoneFacts DEF Reports
    <3> QED BY <2>4, <3>1, NoneFacts
  <2> QED BY <2>3, <2>4
<1> QED BY <1>4, <1>5, <1>6, <1>7 DEF Wake, WakeInv, ChildInv

(* The host's answer starts the delivery to whoever awaits the call.       *)
LEMMA SettleWake ==
    ASSUME TypeOK, Sched, Wake, NEW e \in Exts, NEW o \in {"Resolved", "Failed"}, Settle(e, o)
    PROVE  Wake'
<1> USE DEF taskVars, gatherVars
<1>1. /\ UNCHANGED <<state, on, under, gather, gatherAwaiter, pending_children, commits, current_task>>
      /\ ctl.mode = "host" /\ e \in pending_externals
      /\ ext' = [ext EXCEPT ![e] = o] /\ pending_externals' = pending_externals \ {e}
      /\ extAwaiter'[e] = NoAwaiter /\ \A d \in Exts \ {e} : extAwaiter'[d] = extAwaiter[d]
  BY DEF Settle, TypeOK
<1>2. CallsOK' /\ AwaitedOK'
  BY <1>1 DEF Wake, WakeInv, CallsOK, AwaitedOK, TypeOK
<1>3. commits = <<>> /\ \A x, g : ~Promised(x, g)'
  BY <1>1, NoPromises DEF Sched, ThreadInv
<1>4. \A a : ~Delivered(a)
  BY <1>1 DEF Delivered
<1>5. CASE extAwaiter[e] = NoAwaiter
  <2>1. ctl' = ctl /\ \A d \in Exts : extAwaiter'[d] = extAwaiter[d]
    BY <1>1, <1>5 DEF Settle
  <2>2. WakeInv'
    BY <1>1, <1>2, <2>1, WakeKept DEF Wake
  <2>3. ~Leaving'
    BY <1>1, <2>1 DEF Leaving
  <2>4. \A g \in Gathers : \A x : Reports(x, g) => Reports(x, g)'
    BY <1>1, <2>1 DEF Reports
  <2>5. \A g \in Gathers, x \in Awaitables : AwaitsChild(g, x)' => AwaitsChild(g, x)
    BY <1>1 DEF AwaitsChild
  <2>6. ChildInv'
    BY <1>1, <1>3, <2>3, <2>4, <2>5, ChildKept DEF Wake
  <2> QED BY <2>2, <2>6 DEF Wake
<1>6. CASE extAwaiter[e] # NoAwaiter
  <2>1. PICK a \in Awaiters : a = extAwaiter[e]
    BY <1>6 DEF TypeOK
  <2>2. PICK v \in {e, None} : ctl' = Deliver(a, v, "host", "resume")
    BY <1>6, <2>1 DEF Settle
  <2>3. ctl'.mode = "deliver" /\ ctl'.awaiter = a /\ ctl'.value = v /\ ctl'.after = "host"
    BY SMTT(30), <2>2, ControlFacts, NoneFacts
  <2>4. \A b : Delivered(b)' <=> b = a
    BY <2>3 DEF Delivered
  <2>5. ~Leaving'
    BY <2>3 DEF Leaving
  <2>6. ASSUME NEW t \in Tasks
        PROVE  WakeOK(t)'
    <3>1. WakeOK(t)
      BY DEF Wake, WakeInv
    <3>2. CASE a = ToTask(t)
      <4>1. state[t] = "blocked" /\ on[t] = e /\ e \notin Gathers
        BY <2>1, <3>1, <3>2, KindsAssumption DEF WakeOK
      <4>2. /\ \A d \in Exts : extAwaiter'[d] # ToTask(t)
            /\ \A g \in Gathers : gatherAwaiter'[g] # ToTask(t)
        BY <1>1, <3>1, <4>1, AwaiterFacts DEF WakeOK
      <4> QED BY <1>1, <2>3, <2>4, <3>2, <4>1, <4>2 DEF WakeOK
    <3>3. CASE a # ToTask(t)
      <4>1. \A d \in Exts : extAwaiter'[d] = ToTask(t) <=> extAwaiter[d] = ToTask(t)
        BY <1>1, <2>1, <3>3, AwaiterFacts
      <4> QED BY <1>1, <1>4, <2>4, <3>1, <3>3, <4>1 DEF WakeOK
    <3> QED BY <3>2, <3>3
  <2>7. ASSUME NEW g \in Gathers, NEW x \in Awaitables, AwaitsChild(g, x)'
        PROVE  Reports(x, g)' \/ Delivered(ToSlot(g, x))'
    <3>1. Reports(x, g)
      BY <1>1, <1>4, <2>7 DEF AwaitsChild, Wake, ChildInv
    <3>2. CASE x = e
      BY <2>1, <2>4, <3>1, <3>2, KindsAssumption DEF Reports
    <3>3. CASE x # e
      BY <1>1, <3>1, <3>3 DEF Reports
    <3> QED BY <3>2, <3>3
  <2> QED BY <1>2, <1>3, <2>5, <2>6, <2>7 DEF Wake, WakeInv, ChildInv
<1> QED BY <1>5, <1>6

(* A blocked task receives its result; nothing else points at it.          *)
LEMMA ArriveWake ==
    ASSUME TypeOK, Sched, Wake, NEW t \in Tasks, DeliverToTask(t)
    PROVE  Wake'
<1> USE DEF extVars, gatherVars
<1>1. /\ UNCHANGED <<on, under, gather, gatherAwaiter, pending_children, commits, current_task>>
      /\ UNCHANGED <<ext, extAwaiter, pending_externals>>
      /\ ctl.mode = "deliver" /\ ctl.awaiter = ToTask(t)
  BY DEF DeliverToTask, Delivering
<1>2. /\ WakeOK(t) /\ state[t] = "blocked"
      /\ \A e \in Exts : extAwaiter[e] # ToTask(t)
      /\ \A g \in Gathers : gatherAwaiter[g] # ToTask(t)
  BY <1>1 DEF Wake, WakeInv, WakeOK, Delivered
<1>3. /\ state'[t] \in {"ready", "raise"} /\ \A u \in Tasks \ {t} : state'[u] = state[u]
      /\ DeliveryEnds(t)
  BY <1>2 DEF DeliverToTask, MakeReady, TypeOK
<1>4. ctl'.mode = ctl.after /\ ctl'.mode \in {"exit", "host"}
  <2>1. ctl.after \in {"exit", "host"}
    BY <1>1 DEF Sched, ThreadInv, Quiet, Leaving
  <2>2. ctl'.mode = ctl.after
    BY <1>3 DEF DeliveryEnds, TypeOK, Controls
  <2> QED BY <2>1, <2>2
<1>5. \A a : ~Delivered(a)'
  BY <1>4 DEF Delivered
<1>6. CallsOK' /\ AwaitedOK'
  BY <1>1 DEF Wake, WakeInv, CallsOK, AwaitedOK
<1>7. ASSUME NEW u \in Tasks
      PROVE  WakeOK(u)'
  <2>1. CASE u = t
    BY <1>1, <1>2, <1>3, <1>5, <2>1 DEF WakeOK
  <2>2. CASE u # t
    <3>1. ~Delivered(ToTask(u))
      BY <1>1, <2>2, AwaiterFacts DEF Delivered
    <3> QED BY <1>1, <1>3, <1>5, <2>2, <3>1 DEF Wake, WakeInv, WakeOK
  <2> QED BY <2>1, <2>2
<1>8. \A x, g : ~Promised(x, g)'
  BY <1>1, NoPromises DEF Sched, ThreadInv
<1>9. \A g, x : ~Delivered(ToSlot(g, x))
  BY <1>1, AwaiterFacts DEF Delivered
<1>10. ASSUME NEW g \in Gathers, NEW x \in Awaitables, AwaitsChild(g, x)'
       PROVE  Reports(x, g)' /\ ~(Leaving' /\ x = current_task')
  <2>1. AwaitsChild(g, x) /\ (Leaving' => Leaving)
    BY <1>1, <1>4, <1>10 DEF AwaitsChild, Leaving
  <2>2. Reports(x, g) /\ ~(Leaving' /\ x = current_task')
    BY <1>1, <1>9, <2>1 DEF Wake, ChildInv
  <2>3. Reports(x, g)'
    BY <1>1, <1>2, <1>3, <2>2, NoneFacts DEF Reports
  <2> QED BY <2>2, <2>3
<1> QED BY <1>6, <1>7, <1>8, <1>10 DEF Wake, WakeInv, ChildInv

(* A gather takes a child's result and waits on, or dropped out before: it *)
(* no longer waits for the child.                                          *)
LEMMA StopWake ==
    ASSUME TypeOK, Sched, Wake, NEW g \in Gathers, NEW x \in Awaitables,
           Delivered(ToSlot(g, x)), DeliveryEnds(None),
           \A h \in Gathers, y \in Awaitables :
              AwaitsChild(h, y)' => AwaitsChild(h, y) /\ ~(h = g /\ y = x),
           UNCHANGED <<state, on, under, gather, gatherAwaiter, commits, current_task>>,
           UNCHANGED <<extVars, pending_externals>>
    PROVE  Wake'
<1>1. ctl.mode = "deliver" /\ ctl.awaiter = ToSlot(g, x) /\ UNCHANGED <<ext, extAwaiter>>
  BY DEF Delivered, extVars
<1>2. ctl'.mode = ctl.after /\ ctl'.mode \in {"exit", "host"}
  <2>1. ctl.after \in {"exit", "host"}
    BY <1>1 DEF Sched, ThreadInv, Quiet, Leaving
  <2>2. ctl'.mode = ctl.after
    BY DEF DeliveryEnds, TypeOK, Controls
  <2> QED BY <2>1, <2>2
<1>3. \A a : ~Delivered(a)'
  BY <1>2 DEF Delivered
<1>4. CallsOK' /\ AwaitedOK'
  BY <1>1 DEF Wake, WakeInv, CallsOK, AwaitedOK
<1>5. ASSUME NEW u \in Tasks
      PROVE  WakeOK(u)'
  <2>1. ~Delivered(ToTask(u))
    BY <1>1, AwaiterFacts DEF Delivered
  <2> QED BY <1>1, <1>3, <2>1 DEF Wake, WakeInv, WakeOK
<1>6. \A y, h : ~Promised(y, h)'
  BY <1>1, NoPromises DEF Sched, ThreadInv
<1>7. ASSUME NEW h \in Gathers, NEW y \in Awaitables, AwaitsChild(h, y)'
      PROVE  Reports(y, h)' /\ ~(Leaving' /\ y = current_task')
  <2>1. AwaitsChild(h, y) /\ (Leaving' => Leaving) /\ ~(h = g /\ y = x)
    BY <1>1, <1>2, <1>7 DEF Leaving
  <2>2. ~Delivered(ToSlot(h, y))
    BY <1>1, <2>1, AwaiterFacts DEF Delivered
  <2>3. Reports(y, h) /\ ~(Leaving' /\ y = current_task')
    BY <2>1, <2>2 DEF Wake, ChildInv
  <2>4. Reports(y, h)'
    BY <1>1, <2>3 DEF Reports
  <2> QED BY <2>3, <2>4
<1> QED BY <1>4, <1>5, <1>6, <1>7 DEF Wake, WakeInv, ChildInv

(* A gather settles in the course of a delivery, which goes on to the      *)
(* gather's own awaiter.                                                   *)
LEMMA ChainWake ==
    ASSUME TypeOK, Sched, Wake, NEW g \in Gathers, NEW x \in Awaitables,
           Delivered(ToSlot(g, x)), NEW v \in {g, None},
           ctl' = [ctl EXCEPT !.awaiter = gatherAwaiter[g], !.value = v],
           gather[g] = "Awaited", gather'[g] # "Awaited",
           gatherAwaiter' = [gatherAwaiter EXCEPT ![g] = NoAwaiter], pending_children'[g] = {},
           \A h \in Gathers \ {g} : /\ gather'[h] = gather[h]
                                    /\ pending_children'[h] = pending_children[h],
           UNCHANGED <<state, on, under, commits, current_task, extVars, pending_externals>>
    PROVE  Wake'
<1>1. ctl.mode = "deliver" /\ ctl.awaiter = ToSlot(g, x) /\ UNCHANGED <<ext, extAwaiter>>
  BY DEF Delivered, extVars
<1>2. PICK a \in Awaiters : a = gatherAwaiter[g]
  BY DEF Wake, WakeInv, AwaitedOK, TypeOK
<1>3. /\ ctl'.mode = "deliver" /\ ctl'.awaiter = a /\ ctl'.value = v /\ ctl'.after = ctl.after
  BY <1>1, <1>2 DEF TypeOK, Controls
<1>4. \A b : Delivered(b)' <=> b = a
  BY <1>3 DEF Delivered
<1>5. /\ gatherAwaiter'[g] = NoAwaiter
      /\ \A h \in Gathers \ {g} : gatherAwaiter'[h] = gatherAwaiter[h]
  BY DEF TypeOK
<1>6. CallsOK' /\ AwaitedOK'
  BY <1>1, <1>5 DEF Wake, WakeInv, CallsOK, AwaitedOK
<1>7. ASSUME NEW t \in Tasks
      PROVE  WakeOK(t)'
  <2>1. WakeOK(t) /\ ~Delivered(ToTask(t))
    BY <1>1, AwaiterFacts DEF Delivered, Wake, WakeInv
  <2>2. CASE a = ToTask(t)
    <3>1. state[t] = "blocked" /\ on[t] = g /\ g \notin Exts
      BY <1>2, <2>1, <2>2, KindsAssumption DEF WakeOK
    <3>2. /\ \A d \in Exts : extAwaiter'[d] # ToTask(t)
          /\ \A h \in Gathers : gatherAwaiter'[h] # ToTask(t)
      BY SMTT(30), <1>1, <1>5, <2>1, <3>1, AwaiterFacts DEF WakeOK
    <3> QED BY <1>1, <1>3, <1>4, <2>2, <3>1, <3>2 DEF WakeOK
  <2>3. CASE a # ToTask(t)
    <3>1. \A h \in Gathers : gatherAwaiter'[h] = ToTask(t) <=> gatherAwaiter[h] = ToTask(t)
      BY <1>2, <1>5, <2>3, AwaiterFacts
    <3> QED BY <1>1, <1>4, <2>1, <2>3, <3>1 DEF WakeOK
  <2> QED BY <2>2, <2>3
<1>8. \A y, h : ~Promised(y, h)'
  BY <1>1, NoPromises DEF Sched, ThreadInv
<1>9. ASSUME NEW h \in Gathers, NEW y \in Awaitables, AwaitsChild(h, y)'
      PROVE  /\ Reports(y, h)' \/ Delivered(ToSlot(h, y))'
             /\ ~(Leaving' /\ y = current_task')
  <2>1. h # g /\ AwaitsChild(h, y) /\ (Leaving' => Leaving)
    BY <1>1, <1>3, <1>9 DEF AwaitsChild, Leaving
  <2>2. ~Delivered(ToSlot(h, y))
    BY SMTT(30), <1>1, <2>1, AwaiterFacts DEF Delivered
  <2>3. Reports(y, h) /\ ~(Leaving' /\ y = current_task')
    BY <2>1, <2>2 DEF Wake, ChildInv
  <2>4. CASE y = g
    <3>1. a = ToSlot(h, g)
      BY <1>2, <2>3, <2>4, KindsAssumption DEF Reports
    <3> QED BY <1>4, <2>3, <2>4, <3>1
  <2>5. CASE y # g
    BY <1>1, <1>5, <2>3, <2>5 DEF Reports
  <2> QED BY <2>3, <2>4, <2>5
<1> QED BY <1>6, <1>7, <1>8, <1>9 DEF Wake, WakeInv, ChildInv

LEMMA DeliveryWake ==
    ASSUME TypeOK, Sched, Walk, Wake, Delivery
    PROVE  Wake'
<1>1. ASSUME NEW t \in Tasks, DeliverToTask(t)
      PROVE  Wake'
  BY <1>1, ArriveWake
<1>2. ASSUME NEW g \in Gathers, NEW x \in Awaitables, ResolveChild(g, x) \/ FailGather(g, x)
      PROVE  Wake'
  <2>1. /\ UNCHANGED <<state, on, under, commits, current_task, extVars, pending_externals>>
        /\ Delivered(ToSlot(g, x))
    BY <1>2 DEF ResolveChild, FailGather, Delivering, Delivered, schedVars, taskVars
  <2>2. CASE gather[g] # "Awaited"
    <3>1. DeliveryEnds(None) /\ UNCHANGED <<gather, gatherAwaiter, pending_children>>
      BY <1>2, <2>2 DEF ResolveChild, FailGather, gatherVars
    <3>2. pending_children[g] = {}
      BY <2>2 DEF Walk, SlotInv
    <3>3. \A h \in Gathers, y \in Awaitables :
             AwaitsChild(h, y)' => AwaitsChild(h, y) /\ ~(h = g /\ y = x)
      BY <3>1, <3>2 DEF AwaitsChild
    <3> QED BY <2>1, <3>1, <3>3, StopWake
  <2>3. CASE gather[g] = "Awaited" /\ DeliveryEnds(None) /\ UNCHANGED <<gather, gatherAwaiter>>
             /\ pending_children' = [pending_children EXCEPT ![g] =
                                       @ \ {p \in pending_children[g] : p[1] = x}]
    <3>1. \A h \in Gathers, y \in Awaitables :
             AwaitsChild(h, y)' => AwaitsChild(h, y) /\ ~(h = g /\ y = x)
      BY <2>3 DEF AwaitsChild, TypeOK
    <3> QED BY <2>1, <2>3, <3>1, StopWake
  <2>4. CASE /\ gather[g] = "Awaited" /\ gatherAwaiter' = [gatherAwaiter EXCEPT ![g] = NoAwaiter]
             /\ pending_children'[g] = {}
             /\ \/ /\ gather' = [gather EXCEPT ![g] = "Completed"]
                   /\ ctl' = [ctl EXCEPT !.awaiter = gatherAwaiter[g], !.value = g]
                \/ /\ gather' = [gather EXCEPT ![g] = "Failed"] /\ ctl.value = None
                   /\ ctl' = [ctl EXCEPT !.awaiter = gatherAwaiter[g]]
    <3>1. \A h \in Gathers \ {g} : pending_children'[h] = pending_children[h]
      BY <1>2 DEF ResolveChild, FailGather, gatherVars, TypeOK
    <3>2. /\ gather'[g] # "Awaited" /\ \A h \in Gathers \ {g} : gather'[h] = gather[h]
      BY <2>4 DEF TypeOK
    <3>3. PICK v \in {g, None} : ctl' = [ctl EXCEPT !.awaiter = gatherAwaiter[g], !.value = v]
      <4>1. CASE ctl' = [ctl EXCEPT !.awaiter = gatherAwaiter[g], !.value = g]
        BY <4>1
      <4>2. CASE ctl.value = None /\ ctl' = [ctl EXCEPT !.awaiter = gatherAwaiter[g]]
        <5>1. ctl' = [ctl EXCEPT !.awaiter = gatherAwaiter[g], !.value = None]
          BY <4>2 DEF TypeOK, Controls
        <5> QED BY <5>1
      <4> QED BY <2>4, <4>1, <4>2
    <3> QED BY <2>1, <2>4, <3>1, <3>2, <3>3, ChainWake
  <2>5. CASE gather[g] = "Awaited" /\ ResolveChild(g, x)
    BY <2>3, <2>4, <2>5 DEF ResolveChild
  <2>6. CASE gather[g] = "Awaited" /\ FailGather(g, x)
    <3>1. pending_children'[g] = {}
      BY <2>6 DEF FailGather, TypeOK
    <3> QED BY <2>4, <2>6, <3>1 DEF FailGather
  <2> QED BY <1>2, <2>2, <2>5, <2>6
<1> QED BY <1>1, <1>2 DEF Delivery

(* Everything that leaves awaiters, walks and live tasks alone.            *)
LEMMA QuietWake ==
    ASSUME TypeOK, Wake, ctl.mode # "deliver", ctl'.mode \notin {"deliver", "exit"},
           commits' = <<>> \/ \E g \in Gathers, t \in Tasks : commits' = <<OpenGatherCommit(g, ToTask(t))>>,
           CallsOK', UNCHANGED <<under, extAwaiter, gatherVars>>,
           \A t \in Tasks : /\ state'[t] = "blocked" <=> state[t] = "blocked"
                            /\ state[t] = "blocked" => on'[t] = on[t]
                            /\ state[t] \in Alive => state'[t] \in Alive
    PROVE  Wake'
<1>1. UNCHANGED <<gather, gatherAwaiter, pending_children>>
  BY DEF gatherVars
<1>2. AwaitedOK'
  BY <1>1 DEF Wake, WakeInv, AwaitedOK
<1>3. WakeInv'
  BY <1>1, <1>2, WakeKept DEF Wake
<1>4. \A c \in Coros : state[c] \in {"ready", "raise", "blocked"} =>
                state'[c] \in {"ready", "raise", "blocked"} /\ under'[c] = under[c]
  BY NoneFacts DEF Alive
<1>5. \A g \in Gathers : \A x : Reports(x, g) => Reports(x, g)'
  BY <1>1, <1>4, ReportsKept
<1>6. \A g, x : ~Promised(x, g)'
  BY NoPromises
<1>7. \A g, x : AwaitsChild(g, x)' => AwaitsChild(g, x)
  BY <1>1 DEF AwaitsChild
<1>8. ~Leaving'
  BY DEF Leaving
<1>9. ChildInv'
  BY <1>5, <1>6, <1>7, <1>8, ChildKept DEF Wake
<1> QED BY <1>3, <1>9 DEF Wake

LEMMA BytecodeWake ==
    ASSUME TypeOK, Sched, Wake, NEW t \in Tasks, Bytecode(t)
    PROVE  Wake'
<1> USE DEF schedVars, taskVars, extVars, gatherVars
<1>1. ctl.mode = "run" /\ ~is_parked /\ current_task = t
  BY DEF Bytecode, ValueArrives, FrameReturns, Raises, CallFuture, CallEager, AwaitExternal,
         AwaitCoroutine, AwaitGather, Executing
<1>2. Running /\ commits = <<>> /\ state[t] = "ready"
  BY <1>1 DEF Running, Sched, ThreadInv
<1>3. Go("raise").mode = "raise" /\ Go("commit").mode = "commit" /\ Select("yield").mode = "select"
  BY ControlFacts DEF Modes
<1>4. ASSUME NEW e \in Exts, AwaitExternal(t, e), state' # state
      PROVE  Wake'
  <2>1. /\ ext[e] = "Pending" /\ extAwaiter[e] = NoAwaiter /\ BlockCurrentOn(current_task, e)
        /\ extAwaiter' = [extAwaiter EXCEPT ![e] = ToTask(current_task)]
        /\ ctl' = Select("yield")
        /\ UNCHANGED <<ext, pending_externals, under, commits, gather, gatherAwaiter,
                       pending_children, ready_queue, current_task>>
    BY <1>1, <1>4 DEF AwaitExternal
  <2>2. CallsOK' /\ AwaitedOK'
    BY <2>1 DEF Wake, WakeInv, CallsOK, AwaitedOK, TypeOK
  <2>3. WakeInv'
    BY <1>2, <1>3, <2>1, <2>2, BlockWake DEF Wake
  <2>4. \A c \in Coros : state[c] \in {"ready", "raise", "blocked"} =>
                state'[c] \in {"ready", "raise", "blocked"} /\ under'[c] = under[c]
    BY <2>1, NoneFacts DEF BlockCurrentOn, TypeOK
  <2>5. \A g \in Gathers : \A x : Reports(x, g) => Reports(x, g)'
    BY <2>1, <2>4, ReportsKept DEF TypeOK
  <2>6. (\A g, x : ~Promised(x, g)') /\ ~Leaving'
    BY <1>2, <1>3, <2>1, NoPromises DEF Leaving
  <2>7. \A g, x : AwaitsChild(g, x)' => AwaitsChild(g, x)
    BY <2>1 DEF AwaitsChild
  <2>8. ChildInv'
    BY <1>1, <2>5, <2>6, <2>7, ChildKept DEF Wake
  <2> QED BY <2>3, <2>8 DEF Wake
<1>5. ASSUME \A e \in Exts : AwaitExternal(t, e) => state' = state
      PROVE  Wake'
  <2>1. /\ UNCHANGED <<state, under, extAwaiter, gatherVars>>
        /\ ctl'.mode \notin {"deliver", "exit"}
        /\ \A u \in Tasks \ {t} : on'[u] = on[u]
    <3>1. \/ ValueArrives(t) \/ FrameReturns(t) \/ Raises(t)
          \/ \E e \in Exts : CallFuture(t, e) \/ CallEager(t, e)
          \/ \E e \in Exts : AwaitExternal(t, e) /\ state' = state
          \/ \E c \in Coros : AwaitCoroutine(t, c)
          \/ \E g \in Gathers : AwaitGather(t, g)
      BY <1>5 DEF Bytecode
    <3>2. ASSUME NEW e \in Exts, AwaitExternal(t, e), state' = state
          PROVE  UNCHANGED <<state, on, under, extAwaiter, gatherVars>> /\ ctl' \in {ctl, Go("raise")}
      <4>1. state # [state EXCEPT ![t] = "blocked"]
        BY <1>2 DEF TypeOK
      <4> QED BY <3>2, <4>1 DEF AwaitExternal, BlockCurrentOn
    <3> QED BY <1>1, <1>3, <3>1, <3>2 DEF ValueArrives, FrameReturns, Raises, CallFuture, CallEager,
                AwaitCoroutine, AwaitGather, TypeOK
  <2>2. CallsOK'
    BY SMTT(30) DEF Bytecode, ValueArrives, FrameReturns, Raises, CallFuture, CallEager, AwaitExternal,
           AwaitCoroutine, AwaitGather, Wake, WakeInv, CallsOK, TypeOK
  <2>3. commits' = <<>> \/ \E g \in Gathers, u \in Tasks : commits' = <<OpenGatherCommit(g, ToTask(u))>>
    BY <1>2 DEF Bytecode, ValueArrives, FrameReturns, Raises, CallFuture, CallEager, AwaitExternal,
           AwaitCoroutine, AwaitGather
  <2> QED BY <1>1, <1>2, <2>1, <2>2, <2>3, QuietWake
<1> QED BY <1>4, <1>5

LEMMA ExitsWake ==
    ASSUME TypeOK, Sched, Wake, Exits
    PROVE  Wake'
<1> USE DEF schedVars, taskVars, extVars, gatherVars
<1>1. UNCHANGED <<extAwaiter, ext, gatherVars, commits, under, pending_externals>> /\ ctl.mode \in {"run", "raise", "exit"}
  BY DEF Exits, MainReturns, RunFails, TaskExits, TaskReturns, TaskFails, Caught, Executing
<1>2. commits = <<>>
  BY <1>1 DEF Sched, ThreadInv
<1>3. CallsOK'
  BY <1>1 DEF Wake, WakeInv, CallsOK
<1>4. Go("done").mode = "done" /\ Go("run").mode = "run" /\ Go("select").mode = "select"
  BY ControlFacts DEF Modes
<1>5. CASE MainReturns \/ RunFails
  <2>1. UNCHANGED <<state, on>> /\ ctl'.mode = "done"
    BY <1>4, <1>5 DEF MainReturns, RunFails
  <2> QED BY <1>1, <1>2, <1>3, <2>1, QuietWake
<1>6. ASSUME NEW t \in Tasks, NEW k \in 1..(RecursionLimit + 1), Caught(t, k)
      PROVE  Wake'
  <2>1. /\ UNCHANGED state /\ ctl'.mode = "run" /\ ctl.mode = "raise" /\ current_task = t
        /\ \A u \in Tasks \ {t} : on'[u] = on[u]
    BY <1>4, <1>6 DEF Caught, TypeOK
  <2>2. state[t] = "ready"
    BY <2>1 DEF Sched, ThreadInv, Running
  <2> QED BY <1>1, <1>2, <1>3, <2>1, <2>2, QuietWake
<1>7. ASSUME NEW c \in Coros, TaskReturns(c) \/ TaskFails(c)
      PROVE  Wake'
  <2>1. current_task = c /\ Running
    BY <1>7 DEF TaskReturns, TaskFails, Executing, Running, Sched, ThreadInv
  <2>2. state[c] = "ready" /\ ToSlot(under[c], c) \in Awaiters
    BY <2>1, AwaiterFacts, NoneFacts DEF Sched, ThreadInv, TaskInv
  <2>3. /\ current_task' \in {c, None} /\ on' = on
        /\ state'[c] \in {"ready", "gone"} /\ \A t \in Tasks \ {c} : state'[t] = state[t]
    BY <1>7, <2>1, <2>2, NoneFacts DEF TaskReturns, TaskFails, TypeOK
  <2>4. ctl'.mode = "deliver" /\ ctl'.awaiter = ToSlot(under[c], c)
    BY SMTT(30), <1>7, <2>2, ControlFacts, NoneFacts DEF TaskReturns, TaskFails
  <2> QED BY <1>1, <1>2, <2>2, <2>3, <2>4, LeaveWake
<1>8. CASE TaskExits
  <2>1. /\ ctl.mode = "exit" /\ ctl'.mode = "select" /\ Leaving
        /\ UNCHANGED <<gather, gatherAwaiter, pending_children>>
    BY <1>4, <1>8 DEF TaskExits, Leaving
  <2>2. \A t \in Tasks : \/ state'[t] = state[t] /\ on'[t] = on[t]
                         \/ t = current_task /\ state[t] = "ready" /\ state'[t] = "gone"
    BY <1>8, <2>1 DEF TaskExits, Sched, ThreadInv, TypeOK
  <2>3. AwaitedOK'
    BY <2>1 DEF Wake, WakeInv, AwaitedOK
  <2>4. WakeInv'
    BY <1>1, <1>3, <2>1, <2>2, <2>3, WakeKept DEF Wake
  <2>5. ASSUME NEW g \in Gathers, NEW x \in Awaitables, AwaitsChild(g, x)'
        PROVE  Reports(x, g)'
    <3>1. AwaitsChild(g, x) /\ ~Delivered(ToSlot(g, x))
      BY <2>1, <2>5 DEF AwaitsChild, Delivered
    <3>2. Reports(x, g) /\ x # current_task
      BY <2>1, <3>1 DEF Wake, ChildInv
    <3> QED BY <1>1, <2>1, <2>2, <3>2, NoneFacts DEF Reports
  <2>6. (\A g, x : ~Promised(x, g)') /\ ~Leaving'
    BY <1>1, <1>2, <2>1, NoPromises DEF Leaving
  <2> QED BY <2>4, <2>5, <2>6 DEF Wake, ChildInv
<1> QED BY <1>5, <1>6, <1>7, <1>8 DEF Exits

LEMMA SelectionWake ==
    ASSUME TypeOK, Sched, Wake, Selection
    PROVE  Wake'
<1> USE DEF schedVars, taskVars, extVars, gatherVars
<1>1. /\ UNCHANGED <<extAwaiter, ext, gatherVars, commits, under, on, pending_externals>>
      /\ ctl.mode \in {"run", "select"}
  BY DEF Selection, NothingToRun, RerunsModule, ActivateLoaded, ActivateSaved, ActivateNew,
         ActivateStale, Selected
<1>2. commits = <<>>
  BY <1>1 DEF Sched, ThreadInv
<1>3. CallsOK'
  BY <1>1 DEF Wake, WakeInv, CallsOK
<1>4. CASE NothingToRun \/ RerunsModule
  <2>1. \A m \in Modes : Go(m).mode = m
    BY SMTT(30), ControlFacts
  <2>2. UNCHANGED state /\ ctl'.mode \in {"run", "host", "stalled", "done", "panic"}
    BY <1>4, <2>1 DEF NothingToRun, RerunsModule, Modes
  <2> QED BY <1>1, <1>2, <1>3, <2>2, QuietWake
<1>5. ASSUME NEW t \in Tasks, ActivateLoaded(t) \/ ActivateSaved(t)
      PROVE  Wake'
  <2>1. t \in Queued /\ state[t] \in Alive
    BY <1>5, Dequeues DEF ActivateLoaded, ActivateSaved, Sched, QueueInv
  <2>2. state'[t] = "ready" /\ \A u \in Tasks \ {t} : state'[u] = state[u]
    BY <1>5 DEF ActivateLoaded, ActivateSaved, TypeOK
  <2>3. ctl'.mode \in {"run", "raise"}
    BY <1>5 DEF ActivateLoaded, ActivateSaved, Select
  <2> QED BY <1>1, <1>2, <1>3, <2>1, <2>2, <2>3, QuietWake DEF Alive
<1>6. ASSUME NEW c \in Coros, ActivateNew(c)
      PROVE  Wake'
  <2>1. UNCHANGED state /\ ctl'.mode = "run"
    BY <1>6 DEF ActivateNew, Select
  <2> QED BY <1>1, <1>2, <1>3, <2>1, QuietWake
<1>7. ASSUME NEW c \in Coros, ActivateStale(c)
      PROVE  Wake'
  <2>1. state[c] = "ready" /\ ToSlot(under[c], c) \in Awaiters
    BY <1>7, NewSched
  <2>2. current_task' = c /\ UNCHANGED state
    BY <1>7 DEF ActivateStale, SwitchContext
  <2>3. ctl'.mode = "deliver" /\ ctl'.awaiter = ToSlot(under[c], c)
    BY SMTT(30), <1>7, <2>1, ControlFacts, NoneFacts DEF ActivateStale
  <2>4. ctl.mode # "deliver"
    BY <1>1
  <2> QED BY <1>1, <1>2, <2>1, <2>2, <2>3, <2>4, LeaveWake
<1> QED BY <1>4, <1>5, <1>6, <1>7 DEF Selection

LEMMA HostWake ==
    ASSUME TypeOK, Sched, Wake, Host
    PROVE  Wake'
<1> USE DEF schedVars, taskVars, extVars, gatherVars
<1>1. ASSUME NEW e \in Exts, ResolveFuture(e) \/ FailFuture(e)
      PROVE  Wake'
  BY <1>1, SettleWake DEF ResolveFuture, FailFuture
<1>2. CASE HostResumes \/ HostAborts
  <2>1. /\ UNCHANGED <<state, extAwaiter, ext, gatherVars, commits, under, on, pending_externals>>
        /\ ctl.mode = "host" /\ ctl'.mode \in {"select", "done"}
    BY SMTT(30), <1>2, ControlFacts DEF HostResumes, HostAborts, Modes
  <2>2. commits = <<>>
    BY <2>1 DEF Sched, ThreadInv
  <2>3. CallsOK'
    BY <2>1 DEF Wake, WakeInv, CallsOK
  <2> QED BY <2>1, <2>2, <2>3, QuietWake
<1> QED BY <1>1, <1>2 DEF Host

(* What a walk does short of blocking: it keeps the awaiters there are,    *)
(* and what it adds are slots.                                             *)
LEMMA WalkWake ==
    ASSUME TypeOK, Wake, ctl.mode = "commit", ctl'.mode \in {"commit", "raise", "run"},
           AwaitedOK',
           \A e \in Exts : \/ extAwaiter'[e] = extAwaiter[e]
                           \/ /\ extAwaiter[e] = NoAwaiter /\ ext[e] = "Pending"
                              /\ \E g \in Gathers : extAwaiter'[e] = ToSlot(g, e),
           \A g \in Gathers : \/ gatherAwaiter'[g] = gatherAwaiter[g]
                              \/ /\ gatherAwaiter[g] = NoAwaiter
                                 /\ \E h \in Gathers : gatherAwaiter'[g] = ToSlot(h, g),
           \A t \in Tasks : \/ state'[t] = state[t] /\ under'[t] = under[t]
                            \/ state[t] \in {"none", "gone"} /\ state'[t] = "ready",
           UNCHANGED <<on, ext, pending_externals>>,
           \A g \in Gathers, x \in Awaitables :
              /\ AwaitsChild(g, x)' => AwaitsChild(g, x) \/ Promised(x, g)
              /\ Promised(x, g)' => \/ Promised(x, g) /\ Queued \subseteq Queued'
                                    \/ Reports(x, g)' /\ (x \in Coros => x \in Queued')
    PROVE  Wake'
<1>1. ~Leaving'
  BY DEF Leaving
<1>2. CallsOK'
  BY DEF CallsOK, Wake, WakeInv
<1>3. \A e \in Exts : \/ extAwaiter'[e] = extAwaiter[e]
                      \/ \A t \in Tasks : extAwaiter'[e] # ToTask(t) /\ extAwaiter[e] # ToTask(t)
  BY SMTT(30), AwaiterFacts
<1>4. \A g \in Gathers : \/ gatherAwaiter'[g] = gatherAwaiter[g]
                         \/ \A t \in Tasks : /\ gatherAwaiter'[g] # ToTask(t)
                                             /\ gatherAwaiter[g] # ToTask(t)
  BY SMTT(30), AwaiterFacts
<1>5. \A t \in Tasks : /\ state'[t] = "blocked" <=> state[t] = "blocked"
                       /\ state[t] = "blocked" => on'[t] = on[t]
  OBVIOUS
<1>6. WakeInv'
  BY <1>2, <1>3, <1>4, <1>5, WakeKept DEF Wake
<1>7. \A c \in Coros : state[c] \in {"ready", "raise", "blocked"} =>
                state'[c] \in {"ready", "raise", "blocked"} /\ under'[c] = under[c]
  BY NoneFacts
<1>8. \A g \in Gathers : \A x : Reports(x, g) => Reports(x, g)'
  BY <1>7, ReportsKept
<1>9. \A g \in Gathers, x \in Awaitables :
              /\ Reports(x, g) => Reports(x, g)'
              /\ AwaitsChild(g, x)' => AwaitsChild(g, x) \/ Reports(x, g)'
              /\ Promised(x, g)' => \/ Promised(x, g) /\ Queued \subseteq Queued'
                                    \/ Reports(x, g)' /\ (x \in Coros => x \in Queued')
  BY <1>8 DEF Wake, ChildInv
<1>10. ChildInv'
  BY <1>1, <1>9, ChildKept DEF Wake
<1> QED BY <1>6, <1>10 DEF Wake

LEMMA CommitWake ==
    ASSUME TypeOK, Sched, Walk, Wake, Commit, ~(\E g \in Gathers : CommitSettles(g))
    PROVE  Wake'
<1> USE DEF schedVars, taskVars, extVars, gatherVars
<1>1. ctl.mode = "commit"
  BY DEF Commit, CommitDuplicate, CommitCoroutine, CommitExternal, CommitNested,
         FirstSeen, Committing
<1>2. commits \in Seq(CommitFrames) /\ commits # <<>>
  BY <1>1 DEF TypeOK, Sched, ThreadInv
<1>3. PICK n \in Nat \ {0} : n = Len(commits) /\ Last(commits) = commits[n]
  BY <1>2, PopFacts
<1>4. PICK f \in CommitFrames : f = Last(commits) /\ f = commits[n] /\ n \in DOMAIN commits
  BY SMTT(30), <1>2, <1>3, LenProperties
<1>5. f.gather \in Gathers
  BY FrameFacts
<1>6. UNCHANGED <<on, ext, pending_externals, pending_children, gatherAwaiter>>
  BY DEF Commit, CommitDuplicate, CommitCoroutine, CommitExternal, CommitNested
<1>7. \A g, x : AwaitsChild(g, x)' = AwaitsChild(g, x)
  BY <1>6 DEF AwaitsChild
<1>8. ASSUME NEW x \in Awaitables, NEW h, h = Ready(f) \/ h = Pends(f, x), Replace(h)
      PROVE  \A y, g : Promised(y, g)' =>
                \/ Promised(y, g)
                \/ y = x /\ g = f.gather /\ h # Ready(f)
  <2>1. Len(commits) <= Len(commits) /\ \A i \in 1..Len(commits) : commits[i] = commits[i]
    BY SMTT(30), <1>3
  <2> QED BY <1>2, <1>4, <1>8, <2>1, PromiseFacts DEF Replace
<1>9. ASSUME UNCHANGED <<state, under, ready_queue, extAwaiter>>, UnwindGatherCommits
      PROVE  Wake'
  <2>1. commits' = <<>> /\ ctl'.mode = "raise"
    BY <1>9, ControlFacts DEF UnwindGatherCommits, Modes
  <2>2. \A g \in Gathers : gather'[g] = "Awaited" <=> gather[g] = "Awaited"
    BY <1>9 DEF UnwindGatherCommits, Walk, WalkInv, FrameOK
  <2>3. AwaitedOK'
    BY <1>6, <2>2 DEF Wake, WakeInv, AwaitedOK
  <2>4. \A g, x : ~Promised(x, g)'
    BY <2>1, NoPromises
  <2> QED BY <1>1, <1>6, <1>7, <1>9, <2>1, <2>3, <2>4, WalkWake
<1>10. ASSUME UNCHANGED <<state, under, ready_queue, extAwaiter, gather, ctl>>,
              NEW x \in Awaitables, NEW h, Replace(h),
              \/ h = Ready(f)
              \/ h = Pends(f, x) /\ \E p \in f.pending : p[1] = x
       PROVE  Wake'
  <2>1. AwaitedOK' /\ Queued' = Queued
    BY <1>6, <1>10 DEF Wake, WakeInv, AwaitedOK, Queued
  <2>2. h = Pends(f, x) /\ h # Ready(f) => Promised(x, f.gather)
    BY <1>4, <1>10 DEF Promised
  <2>3. \A y, g : Promised(y, g)' => Promised(y, g)
    BY <1>8, <1>10, <2>2
  <2> QED BY <1>1, <1>6, <1>7, <1>10, <2>1, <2>3, WalkWake
<1>11. ASSUME NEW x \in Awaitables, CommitDuplicate(x)
       PROVE  Wake'
  BY <1>4, <1>10, <1>11 DEF CommitDuplicate
<1>12. ASSUME NEW c \in Coros, CommitCoroutine(c), state' # state
       PROVE  Wake'
  <2>1. /\ state[c] \in {"none", "gone"} /\ Spawn(c, f.gather) /\ Replace(Pends(f, c))
        /\ UNCHANGED <<gather, ctl, extAwaiter>>
    BY <1>4, <1>12 DEF CommitCoroutine
  <2>2. /\ c \in Tasks /\ state'[c] = "ready" /\ under'[c] = f.gather
        /\ \A t \in Tasks \ {c} : state'[t] = state[t] /\ under'[t] = under[t]
    BY <2>1, NoneFacts DEF Spawn, TypeOK
  <2>3. Queued' = Queued \cup {c}
    BY <2>1, <2>2, Enqueues DEF Spawn, Alive, Sched
  <2>4. AwaitedOK'
    BY <1>6, <2>1 DEF Wake, WakeInv, AwaitedOK
  <2>5. Reports(c, f.gather)'
    BY <2>2 DEF Reports
  <2>6. \A y, g : Promised(y, g)' => Promised(y, g) \/ (y = c /\ g = f.gather)
    BY <1>8, <2>1, NoneFacts
  <2>7. \A g \in Gathers, x \in Awaitables :
            Promised(x, g)' => \/ Promised(x, g) /\ Queued \subseteq Queued'
                               \/ Reports(x, g)' /\ (x \in Coros => x \in Queued')
    BY <2>3, <2>5, <2>6
  <2>8. \A t \in Tasks : \/ state'[t] = state[t] /\ under'[t] = under[t]
                         \/ state[t] \in {"none", "gone"} /\ state'[t] = "ready"
    BY <2>1, <2>2
  <2> QED BY <1>1, <1>6, <1>7, <2>1, <2>4, <2>7, <2>8, WalkWake
<1>13. ASSUME NEW c \in Coros, CommitCoroutine(c), state' = state
       PROVE  Wake'
  <2>1. ~Spawn(c, f.gather) \/ state[c] = "ready"
    BY <1>13, NoneFacts DEF Spawn, TypeOK
  <2>2. UnwindGatherCommits /\ UNCHANGED <<state, under, ready_queue, extAwaiter>>
    BY <1>4, <1>13, <2>1 DEF CommitCoroutine
  <2> QED BY <1>9, <2>2
<1>14. ASSUME NEW e \in Exts, CommitExternal(e)
       PROVE  Wake'
  <2>0. e \in Awaitables /\ UNCHANGED <<state, under, ready_queue>>
    BY <1>14, NoneFacts DEF CommitExternal
  <2>1. CASE UnwindGatherCommits /\ extAwaiter' = extAwaiter
    BY <1>9, <2>0, <2>1
  <2>2. CASE Replace(Ready(f)) /\ UNCHANGED <<extAwaiter, gather, ctl>>
    BY <1>10, <2>0, <2>2
  <2>3. CASE /\ ext[e] = "Pending" /\ extAwaiter[e] = NoAwaiter
             /\ extAwaiter' = [extAwaiter EXCEPT ![e] = ToSlot(f.gather, e)]
             /\ Replace(Pends(f, e)) /\ UNCHANGED <<gather, ctl>>
    <3>1. AwaitedOK' /\ Queued' = Queued
      BY <1>6, <2>0, <2>3 DEF Wake, WakeInv, AwaitedOK, Queued
    <3>2. Reports(e, f.gather)' /\ e \notin Coros
      BY <2>3, KindsAssumption DEF Reports, TypeOK
    <3>3. \A y, g : Promised(y, g)' => Promised(y, g) \/ (y = e /\ g = f.gather)
      BY <1>8, <2>0, <2>3
    <3>4. \A d \in Exts : \/ extAwaiter'[d] = extAwaiter[d]
                          \/ /\ extAwaiter[d] = NoAwaiter /\ ext[d] = "Pending"
                             /\ \E g \in Gathers : extAwaiter'[d] = ToSlot(g, d)
      BY <1>5, <2>3 DEF TypeOK
    <3> QED BY <1>1, <1>6, <1>7, <2>0, <2>3, <3>1, <3>2, <3>3, <3>4, WalkWake
  <2> QED BY <1>4, <1>14, <2>1, <2>2, <2>3 DEF CommitExternal
<1>15. ASSUME NEW g \in Gathers, CommitNested(g)
       PROVE  Wake'
  <2>0. g \in Awaitables /\ UNCHANGED <<state, under, ready_queue, extAwaiter>>
    BY <1>15, NoneFacts DEF CommitNested
  <2>1. CASE UnwindGatherCommits
    BY <1>9, <2>0, <2>1
  <2>2. CASE Replace(Ready(f)) /\ UNCHANGED <<gather, ctl>>
    BY <1>10, <2>0, <2>2
  <2>3. CASE /\ commits' = Append(commits, OpenGatherCommit(g, ToSlot(f.gather, g)))
             /\ UNCHANGED <<gather, ctl>>
    <3>1. AwaitedOK' /\ Queued' = Queued
      BY <1>6, <2>0, <2>3 DEF Wake, WakeInv, AwaitedOK, Queued
    <3>2. PICK k \in CommitFrames : k = OpenGatherCommit(g, ToSlot(f.gather, g)) /\ k.pending = {}
      BY <1>5, <2>0, OpenFacts, AwaiterFacts
    <3>3. /\ DOMAIN commits' = 1..(n + 1) /\ commits'[n + 1] = k
          /\ \A i \in 1..n : commits'[i] = commits[i]
      BY SMTT(30), <1>2, <1>3, <2>3, <3>2, AppendProperties, LenProperties
    <3>4. DOMAIN commits = 1..n
      BY <1>2, <1>3, LenProperties
    <3>5. ASSUME NEW y, NEW h, Promised(y, h)'
          PROVE  Promised(y, h)
      <4>1. PICK i \in 1..(n + 1) : /\ commits'[i].gather = h
                                    /\ \E p \in commits'[i].pending : p[1] = y
        BY <3>3, <3>5 DEF Promised
      <4>2. i \in 1..n
        BY SMTT(30), <3>2, <3>3, <4>1
      <4> QED BY <3>3, <3>4, <4>1, <4>2 DEF Promised
    <3> QED BY <1>1, <1>6, <1>7, <2>0, <2>3, <3>1, <3>5, WalkWake
  <2> QED BY <1>4, <1>15, <2>1, <2>2, <2>3 DEF CommitNested
<1> QED BY <1>11, <1>12, <1>13, <1>14, <1>15 DEF Commit

(* The innermost gather of the walk settles: its children report to it,    *)
(* and it reports to the gather below or to the task that awaits it.       *)
LEMMA SettlesWake ==
    ASSUME TypeOK, Sched, Walk, Wake, NEW g \in Gathers, CommitSettles(g)
    PROVE  Wake'
<1> USE DEF extVars
<1>1. /\ ctl.mode = "commit" /\ Last(commits).gather = g
      /\ UNCHANGED <<ready_queue, current_task, pending_externals, under, ext, extAwaiter>>
  BY DEF CommitSettles
<1>2. commits \in Seq(CommitFrames) /\ commits # <<>>
  BY <1>1 DEF TypeOK, Sched, ThreadInv
<1>3. PICK n \in Nat \ {0} : /\ n = Len(commits) /\ Last(commits) = commits[n]
                             /\ Front(commits) \in Seq(CommitFrames)
                             /\ Len(Front(commits)) = n - 1
                             /\ \A i \in 1..(n - 1) : Front(commits)[i] = commits[i]
  BY <1>2, PopFacts
<1>4. DOMAIN commits = 1..n /\ n \in 1..n
  BY SMTT(30), <1>2, <1>3, LenProperties
<1>5. PICK f \in CommitFrames : f = Last(commits) /\ f = commits[n] /\ f.gather = g
  BY SMTT(30), <1>1, <1>2, <1>3, <1>4
<1>6. f.awaiter \in Awaiters /\ f.pending \subseteq Awaitables \X Nat
  BY FrameFacts
<1>7. gather[g] = "Pending" /\ gatherAwaiter[g] = NoAwaiter
  BY SMTT(30), <1>3, <1>4, <1>5 DEF Walk, WalkInv, FrameOK, Wake, WakeInv, AwaitedOK
<1>8. \A x : (\E p \in f.pending : p[1] = x) => Promised(x, g)
  BY <1>4, <1>5 DEF Promised
<1>9. \/ /\ f.pending = {} /\ gather' = [gather EXCEPT ![g] = "Completed"]
         /\ UNCHANGED <<gatherAwaiter, pending_children>>
      \/ /\ f.pending # {} /\ gather' = [gather EXCEPT ![g] = "Awaited"]
         /\ gatherAwaiter' = [gatherAwaiter EXCEPT ![g] = f.awaiter]
         /\ pending_children' = [pending_children EXCEPT ![g] = f.pending]
  BY <1>5 DEF CommitSettles
<1>10. NoAwaiter \notin Awaiters
  BY SMTT(30), AwaiterFacts DEF Awaiters
<1>11. AwaitedOK'
  BY <1>6, <1>7, <1>9, <1>10 DEF Wake, WakeInv, AwaitedOK, TypeOK
<1>12. \A h \in Gathers, x \in Awaitables : AwaitsChild(h, x)' => AwaitsChild(h, x) \/ Promised(x, h)
  <2>1. \A h \in Gathers : \/ pending_children'[h] = pending_children[h]
                           \/ h = g /\ pending_children'[h] = f.pending
    BY <1>9 DEF TypeOK
  <2> QED BY <1>8, <2>1 DEF AwaitsChild
<1>13. CASE Front(commits) # <<>>
  <2>1. UNCHANGED <<state, on, ctl>>
    BY <1>13 DEF CommitSettles
  <2>2. PICK m \in Nat \ {0} : m = n - 1 /\ m = Len(Front(commits)) /\ m <= Len(commits)
    <3>1. Len(Front(commits)) \in Nat \ {0}
      BY <1>3, <1>13, PopFacts
    <3> QED BY SMTT(30), <1>3, <3>1
  <2>3. PICK k \in CommitFrames : k = Last(Front(commits)) /\ k = commits[m]
    <3>1. Last(Front(commits)) \in CommitFrames /\ Last(Front(commits)) = Front(commits)[m]
      BY <1>3, <1>13, <2>2, PopFacts
    <3>2. Front(commits)[m] = commits[m]
      BY SMTT(30), <1>3, <2>2
    <3> QED BY <3>1, <3>2
  <2>4. f.awaiter = ToSlot(k.gather, g) /\ k.gather \in Gathers
    <3>1. m \in DOMAIN commits /\ m < Len(commits) /\ m + 1 = n
      BY SMTT(30), <1>3, <1>4, <2>2
    <3>2. Nested(commits[m], commits[n])
      BY <3>1 DEF Walk, WalkInv
    <3> QED BY <1>5, <2>3, <3>2, FrameFacts DEF Nested
  <2>5. PICK h : /\ h = IF f.pending = {} THEN Ready(k) ELSE Pends(k, g)
                 /\ commits' = Append(Front(Front(commits)), h)
    BY <1>5, <1>13, <2>3 DEF CommitSettles
  <2>6. g \in Awaitables /\ Queued' = Queued /\ g \notin Coros
    BY <1>1, NoneFacts, KindsAssumption DEF Queued
  <2>7. \A y, d : Promised(y, d)' => \/ Promised(y, d)
                                     \/ y = g /\ d = k.gather /\ h # Ready(k)
    <3>1. \A i \in 1..Len(Front(commits)) : Front(commits)[i] = commits[i]
      BY <1>3, <2>2
    <3>2. h = Ready(Last(Front(commits))) \/ h = Pends(Last(Front(commits)), g)
      BY <2>3, <2>5
    <3>3. \A y, d : Promised(y, d)' => \/ Promised(y, d)
                                       \/ /\ y = g /\ d = Last(Front(commits)).gather
                                          /\ h # Ready(Last(Front(commits)))
      BY <1>3, <1>13, <2>2, <2>5, <2>6, <3>1, <3>2, PromiseFacts
    <3> QED BY <2>3, <3>3
  <2>8. h # Ready(k) => Reports(g, k.gather)'
    BY <1>9, <2>4, <2>5 DEF Reports, TypeOK
  <2>9. \A d \in Gathers : \/ gatherAwaiter'[d] = gatherAwaiter[d]
                           \/ /\ gatherAwaiter[d] = NoAwaiter
                              /\ \E b \in Gathers : gatherAwaiter'[d] = ToSlot(b, d)
    BY <1>7, <1>9, <2>4 DEF TypeOK
  <2>10. \A d \in Gathers, x \in Awaitables :
            Promised(x, d)' => \/ Promised(x, d) /\ Queued \subseteq Queued'
                               \/ Reports(x, d)' /\ (x \in Coros => x \in Queued')
    BY <2>6, <2>7, <2>8
  <2> QED BY <1>1, <1>11, <1>12, <2>1, <2>9, <2>10, WalkWake
<1>14. CASE Front(commits) = <<>>
  <2>1. commits' = <<>> /\ \A x, h : ~Promised(x, h)'
    BY <1>14, NoPromises DEF CommitSettles
  <2>2. CASE f.pending = {}
    <3>1. UNCHANGED <<state, on>> /\ ctl'.mode = "run"
      BY SMTT(30), <1>5, <1>14, <2>2, ControlFacts DEF CommitSettles, Modes
    <3>2. UNCHANGED gatherAwaiter
      BY <1>9, <2>2
    <3> QED BY <1>1, <1>11, <1>12, <2>1, <3>1, <3>2, WalkWake
  <2>3. CASE f.pending # {}
    <3>1. ctl' = Select("yield") /\ BlockCurrentOn(current_task, g)
      BY <1>5, <1>14, <2>3 DEF CommitSettles
    <3>2. ctl'.mode = "select" /\ ~Leaving'
      BY <3>1, ControlFacts DEF Leaving
    <3>3. f.awaiter = ToTask(current_task)
      <4>0. Len(Front(commits)) = 0
        BY SMTT(30), <1>14
      <4>1. n \in Nat /\ n - 1 = 0
        BY <1>3, <4>0
      <4>2. n = 1
        BY SMTT(30), <4>1
      <4> QED BY <1>4, <1>5, <4>2 DEF Walk, WalkInv
    <3>4. gatherAwaiter' = [gatherAwaiter EXCEPT ![g] = ToTask(current_task)]
      BY <1>9, <2>3, <3>3
    <3>5. Running /\ CallsOK'
      BY <1>1 DEF Running, Sched, ThreadInv, Wake, WakeInv, CallsOK
    <3>6. WakeInv'
      BY <1>1, <1>7, <1>11, <3>1, <3>2, <3>4, <3>5, BlockWake DEF Wake
    <3>7. \A c \in Coros : state[c] \in {"ready", "raise", "blocked"} =>
                state'[c] \in {"ready", "raise", "blocked"} /\ under'[c] = under[c]
      BY <1>1, <3>1, NoneFacts DEF BlockCurrentOn, TypeOK
    <3>8. \A h \in Gathers : \A x : Reports(x, h) => Reports(x, h)'
      BY <1>1, <1>7, <3>4, <3>7, ReportsKept DEF TypeOK
    <3>9. \A h \in Gathers, x \in Awaitables : AwaitsChild(h, x)' => AwaitsChild(h, x) \/ Reports(x, h)'
      BY <1>12, <3>8 DEF Wake, ChildInv
    <3>10. ChildInv'
      BY <1>1, <2>1, <3>2, <3>8, <3>9, ChildKept DEF Wake
    <3> QED BY <3>6, <3>10 DEF Wake
  <2> QED BY <2>2, <2>3
<1> QED BY <1>13, <1>14

LEMMA StepWake == TypeOK /\ Sched /\ Walk /\ Wake /\ [Next]_vars => Wake'
<1> SUFFICES ASSUME TypeOK, Sched, Walk, Wake, [Next]_vars PROVE Wake'
  OBVIOUS
<1>1. CASE UNCHANGED vars
  <2>1. UNCHANGED <<state, ready_queue, current_task, pending_externals, on, under, ext, extAwaiter>>
    BY <1>1 DEF vars, schedVars, taskVars, extVars
  <2>2. UNCHANGED <<gather, gatherAwaiter, pending_children, commits, ctl>>
    BY <1>1 DEF vars, gatherVars
  <2>3. WakeInv'
    BY <2>1, <2>2 DEF Wake, WakeInv, CallsOK, AwaitedOK, WakeOK, Delivered
  <2>4. ChildInv'
    BY SMTT(30), <2>1, <2>2 DEF Wake, ChildInv, Promised, Reports, AwaitsChild, Delivered, Leaving, Queued
  <2> QED BY <2>3, <2>4 DEF Wake
<1>2. CASE Commit
  BY <1>2, CommitWake, SettlesWake
<1> QED BY <1>1, <1>2, BytecodeWake, DeliveryWake, ExitsWake, SelectionWake, HostWake DEF Next

LEMMA AlwaysWake == Spec => [](TypeOK /\ Sched /\ Walk /\ Wake)
<1>1. Init => Wake
  <2> SUFFICES ASSUME Init PROVE Wake
    OBVIOUS
  <2>1. ctl.mode = "run"
    BY DEF Init, Select
  <2>2. \A a : ~Delivered(a)
    BY <2>1 DEF Delivered
  <2>3. WakeInv
    BY <2>2, AwaiterFacts DEF Init, WakeInv, CallsOK, AwaitedOK, WakeOK
  <2>4. ChildInv
    BY SMTT(30), <2>1 DEF Init, ChildInv, Promised, AwaitsChild, Leaving
  <2> QED BY <2>3, <2>4 DEF Wake
<1>2. TypeOK /\ Sched /\ Walk /\ Wake /\ [Next]_vars => Wake'
  BY StepWake
<1> QED BY <1>1, <1>2, AlwaysWalk, PTL DEF Spec

(* A blocked task has exactly one thing that will wake it, whatever order  *)
(* calls are answered, tasks end and gathers settle in; make_ready's       *)
(* assertion never fires.                                                  *)
THEOREM TasksHaveOneWakeSource == Spec => []OneWakeSource
<1>1. ASSUME TypeOK, Wake
      PROVE  OneWakeSource
  <2>1. ASSUME NEW t \in Tasks
        PROVE  WakeSources(t) = IF state[t] = "blocked" THEN {on[t]} ELSE {}
    <3>1. WakeOK(t) /\ CallsOK /\ AwaitedOK
      BY <1>1 DEF Wake, WakeInv
    <3>2. /\ \A e \in Exts : extAwaiter[e] = ToTask(t) => ext[e] = "Pending"
          /\ \A g \in Gathers : gatherAwaiter[g] = ToTask(t) => gather[g] = "Awaited"
      BY <3>1, AwaiterFacts DEF CallsOK, AwaitedOK
    <3>3. WakeSources(t) = {e \in Exts : extAwaiter[e] = ToTask(t)}
                           \cup {g \in Gathers : gatherAwaiter[g] = ToTask(t)}
                           \cup {x \in {on[t]} : Delivered(ToTask(t))}
      BY <3>2 DEF WakeSources, Delivered
    <3>4. CASE state[t] # "blocked"
      BY <3>1, <3>3, <3>4 DEF WakeOK
    <3>5. CASE state[t] = "blocked"
      <4>1. \A x \in WakeSources(t) : x = on[t]
        BY <3>1, <3>3 DEF WakeOK
      <4>2. on[t] \in WakeSources(t)
        BY <3>1, <3>3, <3>5 DEF WakeOK
      <4> QED BY <3>5, <4>1, <4>2
    <3> QED BY <3>4, <3>5
  <2> QED BY <2>1 DEF OneWakeSource
<1> QED BY <1>1, AlwaysWake, PTL

(* Every child an awaited gather waits for will report to it: a task that  *)
(* leaves the scheduler has delivered its result or its failure first.     *)
THEOREM GathersTrackTheirChildren == Spec => []ChildrenTracked
<1>1. ASSUME TypeOK, Wake
      PROVE  ChildrenTracked
  <2>1. ASSUME NEW g \in Gathers, gather[g] = "Awaited", NEW p \in pending_children[g]
        PROVE  \/ ctl.mode = "deliver" /\ ctl.awaiter = ToSlot(g, p[1])
               \/ p[1] \in Coros /\ state[p[1]] \in {"ready", "raise", "blocked"} /\ under[p[1]] = g
               \/ p[1] \in Exts /\ ext[p[1]] = "Pending" /\ extAwaiter[p[1]] = ToSlot(g, p[1])
               \/ /\ p[1] \in Gathers /\ gather[p[1]] = "Awaited"
                  /\ gatherAwaiter[p[1]] = ToSlot(g, p[1])
    <3>1. PICK x \in Awaitables : x = p[1]
      BY SMTT(30), <1>1 DEF TypeOK
    <3>2. AwaitsChild(g, x)
      BY <3>1 DEF AwaitsChild
    <3>3. Reports(x, g) \/ Delivered(ToSlot(g, x))
      BY <1>1, <3>2 DEF Wake, ChildInv
    <3>4. /\ \A e \in Exts : extAwaiter[e] = ToSlot(g, e) => ext[e] = "Pending"
          /\ \A h \in Gathers : gatherAwaiter[h] = ToSlot(g, h) => gather[h] = "Awaited"
      BY <1>1, AwaiterFacts DEF Wake, WakeInv, CallsOK, AwaitedOK
    <3> QED BY <3>1, <3>3, <3>4 DEF Reports, Delivered
  <2> QED BY <2>1 DEF ChildrenTracked
<1> QED BY <1>1, AlwaysWake, PTL
=============================================================================
