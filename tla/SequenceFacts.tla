--------------------------- MODULE SequenceFacts ----------------------------
(***************************************************************************)
(* Facts about numbers and about sequences without repetitions, which the  *)
(* queues and stacks of the components are.                                *)
(***************************************************************************)
EXTENDS Integers, Sequences, Queues, FiniteSets,
        FiniteSetTheorems, SequenceTheorems, WellFoundedInduction, TLAPS

(* A leaf that names no prover is for Zenon.                               *)
USE ZenonT(60)

(* The order of the natural numbers as a relation.                         *)
Below == {ss \in Nat \X Nat : ss[1] < ss[2]}

(* Every set of natural numbers that is not empty has a least element.     *)
LEMMA LeastNumber ==
    ASSUME NEW T \in SUBSET Nat, T # {}
    PROVE  \E x \in T : \A y \in T : x <= y
<1>1. IsWellFoundedOn(Below, Nat)
  BY NatLessThanWellFounded DEF OpToRel, Below
<1>2. PICK x \in T : \A y \in T : ~(<<y, x>> \in Below)
  BY <1>1, WFMin
<1>3. ASSUME NEW y \in T PROVE x <= y
  <2>1. <<y, x>> \in Nat \X Nat /\ <<y, x>>[1] = y /\ <<y, x>>[2] = x
    OBVIOUS
  <2> QED BY SMTT(30), <2>1, <1>2 DEF Below
<1> QED BY <1>3

(* Induction, with the property given as the set of numbers that have it.  *)
LEMMA SetInduction ==
    ASSUME NEW Q \in SUBSET Nat, 0 \in Q, \A n \in Q : n + 1 \in Q
    PROVE  Q = Nat
<1>1. SUFFICES ASSUME Nat \ Q # {} PROVE FALSE
  OBVIOUS
<1>2. PICK n \in Nat \ Q : \A m \in Nat \ Q : n <= m
  BY <1>1, LeastNumber
<1>3. n # 0 /\ n - 1 \in Nat
  BY SMTT(30)
<1>4. n - 1 \in Q
  BY SMTT(30), <1>2, <1>3
<1> QED BY SMTT(30), <1>4, <1>3

-----------------------------------------------------------------------------
(* The top of a stack and what is below it.                                *)
LEMMA PopFacts ==
    ASSUME NEW S, NEW s \in Seq(S), s # <<>>
    PROVE  /\ Len(s) \in Nat \ {0} /\ Last(s) \in S /\ Last(s) = s[Len(s)]
           /\ Front(s) \in Seq(S) /\ Len(Front(s)) = Len(s) - 1
           /\ \A i \in 1..(Len(s) - 1) : Front(s)[i] = s[i]
<1>1. Len(s) \in Nat \ {0} /\ DOMAIN s = 1..Len(s) /\ Last(s) \in S /\ Last(s) = s[Len(s)]
  BY SMTT(30), EmptySeq, LenProperties DEF Last
<1>2. /\ Front(s) \in Seq(S) /\ Len(Front(s)) = Len(s) - 1
      /\ \A i \in 1..(Len(s) - 1) : Front(s)[i] = s[i]
  BY SMTT(30), <1>1 DEF Front
<1> QED BY <1>1, <1>2

(* Popping the end of a stack takes that element out of it.                *)
LEMMA FrontFacts ==
    ASSUME NEW S, NEW s \in Seq(S), s # <<>>, IsInjective(s)
    PROVE  /\ Last(s) \in S /\ Front(s) \in Seq(S) /\ IsInjective(Front(s))
           /\ Range(Front(s)) = Range(s) \ {Last(s)} /\ Last(s) \in Range(s)
<1>1. Len(s) \in Nat \ {0} /\ DOMAIN s = 1..Len(s) /\ Last(s) \in S
  BY SMTT(30), EmptySeq, LenProperties DEF Last
<1>2. /\ Front(s) \in Seq(S) /\ Len(Front(s)) = Len(s) - 1
      /\ DOMAIN Front(s) = 1..(Len(s) - 1)
      /\ \A i \in 1..(Len(s) - 1) : Front(s)[i] = s[i]
  BY SMTT(30), <1>1 DEF Front
<1>3. IsInjective(Front(s))
  BY SMTT(30), <1>1, <1>2 DEF IsInjective
<1>4. Range(Front(s)) = Range(s) \ {Last(s)} /\ Last(s) \in Range(s)
  BY SMTT(30), <1>1, <1>2 DEF Range, Last, IsInjective
<1> QED BY <1>1, <1>2, <1>3, <1>4

(* Taking the head of a queue takes that element out of it.                *)
LEMMA TailFacts ==
    ASSUME NEW S, NEW s \in Seq(S), s # <<>>, IsInjective(s)
    PROVE  /\ Head(s) \in S /\ Tail(s) \in Seq(S) /\ IsInjective(Tail(s))
           /\ Range(Tail(s)) = Range(s) \ {Head(s)} /\ Head(s) \in Range(s)
<1>1. /\ Len(s) \in Nat \ {0} /\ DOMAIN s = 1..Len(s) /\ Head(s) = s[1] /\ Head(s) \in S
      /\ Tail(s) \in Seq(S) /\ DOMAIN Tail(s) = 1..(Len(s) - 1)
      /\ \A i \in 1..(Len(s) - 1) : Tail(s)[i] = s[i + 1]
  BY SMTT(30), EmptySeq, LenProperties, HeadTailProperties
<1>2. IsInjective(Tail(s))
  BY SMTT(30), <1>1 DEF IsInjective
<1>3. Head(s) \in Range(s) /\ Range(Tail(s)) \subseteq Range(s) \ {Head(s)}
  BY SMTT(30), <1>1 DEF Range, IsInjective
<1>4. ASSUME NEW x \in Range(s) \ {Head(s)} PROVE x \in Range(Tail(s))
  <2>1. PICK k \in 1..Len(s) : x = s[k] /\ k # 1
    BY <1>1, <1>4 DEF Range
  <2>2. k - 1 \in 1..(Len(s) - 1) /\ Tail(s)[k - 1] = s[k]
    BY SMTT(30), <1>1, <2>1
  <2> QED BY <1>1, <2>1, <2>2 DEF Range
<1> QED BY <1>1, <1>2, <1>3, <1>4

(* Pushing a new element adds it, once.                                    *)
LEMMA AppendFacts ==
    ASSUME NEW S, NEW s \in Seq(S), NEW e \in S, IsInjective(s), e \notin Range(s)
    PROVE  /\ Append(s, e) \in Seq(S) /\ IsInjective(Append(s, e))
           /\ Range(Append(s, e)) = Range(s) \cup {e}
           /\ Append(s, e) # <<>>
<1>1. /\ Append(s, e) \in Seq(S) /\ Append(s, e) # <<>>
      /\ DOMAIN Append(s, e) = 1..(Len(s) + 1) /\ DOMAIN s = 1..Len(s) /\ Len(s) \in Nat
      /\ \A i \in 1..Len(s) : Append(s, e)[i] = s[i]
      /\ Append(s, e)[Len(s) + 1] = e
  BY SMTT(30), AppendProperties, LenProperties
<1>2. IsInjective(Append(s, e))
  BY SMTT(30), <1>1 DEF IsInjective, Range
<1>3. Range(Append(s, e)) = Range(s) \cup {e}
  BY SMTT(30), <1>1 DEF Range
<1> QED BY <1>1, <1>2, <1>3

(* Splicing an element out of a queue.                                     *)
LEMMA RemoveAtFacts ==
    ASSUME NEW S, NEW s \in Seq(S), NEW i \in 1..Len(s), IsInjective(s)
    PROVE  /\ RemoveAt(s, i) \in Seq(S) /\ IsInjective(RemoveAt(s, i))
           /\ Range(RemoveAt(s, i)) = Range(s) \ {s[i]}
<1>1. PICK n \in Nat : n = Len(s)
  BY LenProperties
<1>2. DOMAIN s = 1..n /\ i \in 1..n
  BY <1>1, LenProperties
<1>3. PICK a : a = SubSeq(s, 1, i - 1)
  OBVIOUS
<1>4. PICK b : b = SubSeq(s, i + 1, n)
  OBVIOUS
<1>5. PICK r : r = RemoveAt(s, i)
  OBVIOUS
<1>6. a \in Seq(S) /\ Len(a) = i - 1 /\ \A j \in 1..(i - 1) : a[j] = s[j]
  <2>1. \A j \in 1..(i - 1) : s[j] \in S
    BY SMTT(30), <1>1, <1>2, ElementOfSeq
  <2> QED BY SMTT(30), <1>2, <1>3, <2>1, SubSeqProperties
<1>7. b \in Seq(S) /\ Len(b) = n - i /\ \A j \in 1..(n - i) : b[j] = s[i + j]
  <2>1. \A j \in (i + 1)..n : s[j] \in S
    BY SMTT(30), <1>1, <1>2, ElementOfSeq
  <2> QED BY SMTT(30), <1>2, <1>4, <2>1, SubSeqProperties
<1>8. r = a \o b
  BY <1>1, <1>3, <1>4, <1>5 DEF RemoveAt
<1>9. /\ r \in Seq(S) /\ DOMAIN r = 1..(n - 1)
      /\ \A j \in 1..(n - 1) : r[j] = IF j <= i - 1 THEN a[j] ELSE b[j - (i - 1)]
  <2>1. Len(a) + Len(b) = n - 1
    BY SMTT(30), <1>2, <1>6, <1>7
  <2>2. /\ r \in Seq(S) /\ Len(r) = Len(a) + Len(b)
        /\ \A j \in 1..(Len(a) + Len(b)) : r[j] = IF j <= Len(a) THEN a[j] ELSE b[j - Len(a)]
    BY <1>6, <1>7, <1>8, ConcatProperties
  <2>3. DOMAIN r = 1..Len(r)
    BY <2>2, LenProperties
  <2> QED BY <1>6, <2>1, <2>2, <2>3
<1> DEFINE at(j) == IF j < i THEN j ELSE j + 1
<1>10. ASSUME NEW j \in 1..(n - 1) PROVE r[j] = s[at(j)]
  <2>1. CASE j < i
    <3>1. j \in 1..(i - 1)
      BY SMTT(30), <1>2, <2>1
    <3> QED BY SMTT(30), <1>6, <1>9, <2>1, <3>1
  <2>2. CASE ~(j < i)
    <3>1. j - (i - 1) \in 1..(n - i) /\ i + (j - (i - 1)) = j + 1 /\ ~(j <= i - 1)
      BY SMTT(30), <1>2, <2>2
    <3> QED BY <1>7, <1>9, <2>2, <3>1
  <2> QED BY <2>1, <2>2
<1>11. \A j \in 1..(n - 1) : at(j) \in 1..n /\ at(j) # i
  BY SMTT(30), <1>2
<1>12. \A j, k \in 1..(n - 1) : at(j) = at(k) => j = k
  BY SMTT(30), <1>2
<1>13. \A k \in 1..n : k # i => \E j \in 1..(n - 1) : at(j) = k
  <2> SUFFICES ASSUME NEW k \in 1..n, k # i PROVE \E j \in 1..(n - 1) : at(j) = k
    OBVIOUS
  <2>1. CASE k < i
    BY SMTT(30), <1>2, <2>1
  <2>2. CASE k > i
    <3>1. k - 1 \in 1..(n - 1) /\ at(k - 1) = k
      BY SMTT(30), <1>2, <2>2
    <3> QED BY <3>1
  <2> QED BY SMTT(30), <1>2, <2>1, <2>2
<1> HIDE DEF at
<1>14. IsInjective(r)
  BY SMTT(30), <1>2, <1>9, <1>10, <1>11, <1>12 DEF IsInjective
<1>15. ASSUME NEW x \in Range(r) PROVE x \in Range(s) \ {s[i]}
  <2>1. PICK j \in 1..(n - 1) : x = r[j]
    BY <1>9 DEF Range
  <2>2. x = s[at(j)] /\ at(j) \in 1..n /\ at(j) # i
    BY <2>1, <1>10, <1>11
  <2> QED BY <2>2, <1>2 DEF Range, IsInjective
<1>16. ASSUME NEW x \in Range(s) \ {s[i]} PROVE x \in Range(r)
  <2>1. PICK k \in 1..n : x = s[k] /\ k # i
    BY <1>2 DEF Range
  <2>2. PICK j \in 1..(n - 1) : at(j) = k
    BY <2>1, <1>13
  <2> QED BY <2>1, <2>2, <1>9, <1>10 DEF Range
<1> QED BY <1>5, <1>9, <1>14, <1>15, <1>16

(* The first n elements of a queue are n, and dropping them leaves the     *)
(* others.                                                                 *)
FirstOf(s, n) == {s[i] : i \in 1..n}
RestOf(s, n) == SubSeq(s, n + 1, Len(s))
LEMMA DropFacts ==
    ASSUME NEW S, NEW s \in Seq(S), IsInjective(s), NEW n \in 0..Len(s)
    PROVE  /\ RestOf(s, n) \in Seq(S) /\ IsInjective(RestOf(s, n))
           /\ Range(RestOf(s, n)) = Range(s) \ FirstOf(s, n)
           /\ FirstOf(s, n) \subseteq Range(s)
           /\ IsFiniteSet(FirstOf(s, n)) /\ Cardinality(FirstOf(s, n)) = n
           /\ n = Len(s) => RestOf(s, n) = <<>>
<1>0. PICK r, served : r = RestOf(s, n) /\ served = FirstOf(s, n)
  OBVIOUS
<1> USE <1>0 DEF RestOf, FirstOf
<1>1. PICK m \in Nat : m = Len(s)
  BY LenProperties
<1>2. DOMAIN s = 1..m /\ n \in 0..m /\ \A i \in 1..m : s[i] \in S
  BY <1>1, LenProperties, ElementOfSeq
<1>3. r \in Seq(S) /\ Len(r) = m - n /\ \A i \in 1..(m - n) : r[i] = s[n + i]
  <2>1. \A i \in (n + 1)..m : s[i] \in S
    BY SMTT(30), <1>2
  <2> QED BY SMTT(30), <1>1, <1>2, <2>1, SubSeqProperties
<1>4. DOMAIN r = 1..(m - n)
  BY <1>3, LenProperties
<1>5. IsInjective(r)
  BY SMTT(30), <1>2, <1>3, <1>4 DEF IsInjective
<1>6. ASSUME NEW x \in Range(r) PROVE x \in Range(s) \ served
  <2>1. PICK i \in 1..(m - n) : x = s[n + i]
    BY <1>3, <1>4 DEF Range
  <2>2. n + i \in 1..m /\ n + i \notin 1..n
    BY SMTT(30), <1>2
  <2>3. PICK k \in 1..m : k \notin 1..n /\ x = s[k]
    BY <2>1, <2>2
  <2>4. x \in Range(s)
    BY <1>2, <2>3 DEF Range
  <2>5. ASSUME NEW j \in 1..n PROVE x # s[j]
    <3>1. j \in 1..m /\ j # k
      BY SMTT(30), <1>2, <2>3
    <3> QED BY <1>2, <2>3, <3>1 DEF IsInjective
  <2> QED BY <2>4, <2>5
<1>7. ASSUME NEW x \in Range(s) \ served PROVE x \in Range(r)
  <2>1. PICK k \in 1..m : x = s[k] /\ k \notin 1..n
    BY <1>2 DEF Range
  <2>2. k - n \in 1..(m - n) /\ n + (k - n) = k
    BY SMTT(30), <1>2, <2>1
  <2> QED BY <1>3, <1>4, <2>1, <2>2 DEF Range
<1>8. served \subseteq Range(s)
  BY SMTT(30), <1>2 DEF Range
<1>9. ExistsBijection(1..n, served)
  <2> DEFINE f == [i \in 1..n |-> s[i]]
  <2>1. f \in [1..n -> served] /\ \A i \in 1..n : f[i] = s[i]
    OBVIOUS
  <2> HIDE DEF f
  <2>2. IsInjective(f)
    BY SMTT(30), <1>2, <2>1 DEF IsInjective
  <2>3. \A t \in served : \E i \in 1..n : f[i] = t
    BY <2>1
  <2> QED BY <2>1, <2>2, <2>3 DEF ExistsBijection, Bijection, Injection, Surjection
<1>10. IsFiniteSet(served) /\ Cardinality(served) = n
  BY SMTT(30), <1>2, <1>9, FS_NatBijection, FS_CountingElements
<1>11. n = Len(s) => r = <<>>
  BY SMTT(30), <1>1, <1>3, EmptySeq
<1> QED BY <1>3, <1>5, <1>6, <1>7, <1>8, <1>10, <1>11

(* A sequence has as many elements as places exactly if none repeats.      *)
LEMMA CountRange ==
    ASSUME NEW S, NEW s \in Seq(S)
    PROVE  /\ IsFiniteSet(Range(s))
           /\ IsInjective(s) <=> Cardinality(Range(s)) = Len(s)
<1>1. PICK m \in Nat : m = Len(s)
  BY LenProperties
<1>2. DOMAIN s = 1..m /\ IsFiniteSet(1..m) /\ Cardinality(1..m) = m
  <2>1. IsFiniteSet(1..m) /\ Cardinality(1..m) = IF 1 > m THEN 0 ELSE m - 1 + 1
    <3>1. 1 \in Int /\ m \in Int
      BY SMTT(30)
    <3> QED BY <3>1, FS_Interval
  <2> QED BY SMTT(30), <1>1, <2>1, LenProperties
<1>3. s \in [1..m -> Range(s)] /\ s \in Surjection(1..m, Range(s))
  <2>1. s \in [1..m -> S]
    BY <1>1, LenProperties
  <2>2. s \in [1..m -> Range(s)] /\ \A t \in Range(s) : \E i \in 1..m : s[i] = t
    BY <1>2, <2>1 DEF Range
  <2> QED BY <2>2 DEF Surjection
<1>4. /\ IsFiniteSet(Range(s))
      /\ Cardinality(Range(s)) = m <=> s \in Injection(1..m, Range(s))
  BY <1>2, <1>3, FS_Surjection
<1> QED BY <1>1, <1>3, <1>4 DEF Injection
=============================================================================
