------------------------ MODULE JsWorkerPool_proofs ------------------------
(***************************************************************************)
(* The capacity of the JavaScript pool is exact and no checkout is left    *)
(* in the queue beside capacity, for every pool size and any number of     *)
(* callers.                                                                *)
(***************************************************************************)
EXTENDS JsWorkerPool, SequenceFacts

(* A leaf that names no prover is for Zenon.                               *)
USE ZenonT(60)

TypeOK ==
    /\ idle \in Seq(Workers) /\ waiters \in Seq(Clients)
    /\ configuring \subseteq Workers /\ retiring \subseteq Workers
    /\ total \in Nat /\ closed \in BOOLEAN
    /\ up \subseteq Workers /\ alive \subseteq Workers
    /\ checkouts \in [Workers -> Nat]
    /\ pc \in [Clients -> PC] /\ slot \in [Clients -> Workers \cup {None}]
    /\ awaited \subseteq Clients \cup Workers /\ close_done \in BOOLEAN

(* The queue names each waiting call once.                                 *)
Queued ==
    /\ IsInjective(waiters)
    /\ Range(waiters) = {c \in Clients : pc[c] = "waiting"}

(* A running worker is in one place: idle, being configured, retiring, or  *)
(* with the one call that was given it.                                    *)
Pooled ==
    /\ IsInjective(idle)
    /\ Range(idle) \subseteq up /\ configuring \subseteq up /\ retiring \subseteq up
    /\ Range(idle) \cap configuring = {} /\ Range(idle) \cap retiring = {}
    /\ configuring \cap retiring = {}

(* Where the slot of a call is, by the place the call stands at.  close    *)
(* retires slots that are being configured, under the call's feet.         *)
SlotFree == {"out", "discarded", "waiting", "spawning", "spawn_failed", "failed"}
SlotPlace(c) ==
    /\ slot[c] \notin Range(idle)
    /\ slot[c] # None => slot[c] \in up
    /\ pc[c] \in SlotFree => slot[c] = None
    /\ pc[c] \in {"spawned", "unlisted", "session"} =>
         slot[c] \in up /\ slot[c] \notin configuring /\ slot[c] \notin retiring
    /\ pc[c] \in {"spawn_discards", "discarding", "dropping"} => slot[c] \in retiring
    /\ pc[c] \in {"granted", "configure"} =>
         slot[c] \in configuring \/ (closed /\ (slot[c] \in retiring \/ slot[c] = None))
Owned ==
    /\ \A c, d \in Clients : slot[c] = slot[d] /\ slot[c] # None => c = d
    /\ \A c \in Clients : SlotPlace(c)

Spawning == {c \in Clients : pc[c] = "spawning"}
IInv == TypeOK /\ Queued /\ Pooled /\ Owned /\ CapacityExact

-----------------------------------------------------------------------------
(* The sets that are counted are finite.                                   *)
LEMMA Finite ==
    ASSUME TypeOK
    PROVE  /\ IsFiniteSet(up) /\ Cardinality(up) \in Nat
           /\ IsFiniteSet(Spawning) /\ Cardinality(Spawning) \in Nat
<1>1. up \in SUBSET Workers /\ Spawning \in SUBSET Clients
  BY DEF TypeOK, Spawning
<1>2. IsFiniteSet(up) /\ IsFiniteSet(Spawning)
  BY <1>1, NamesAssumption, FS_Subset
<1> QED BY <1>2, FS_CardinalityType

(* The capacity is exact as long as no worker and no spawn comes or goes.  *)
LEMMA SameCount ==
    ASSUME CapacityExact, up' = up, Spawning' = Spawning, total' = total
    PROVE  CapacityExact'
  BY DEF CapacityExact, Spawning

(* One spawn more, one unit of capacity more.                              *)
LEMMA OneSpawnMore ==
    ASSUME TypeOK, CapacityExact, NEW c \in Clients, pc[c] # "spawning", total < MaxWorkers,
           up' = up, Spawning' = Spawning \cup {c}, total' = total + 1
    PROVE  CapacityExact'
<1>1. c \notin Spawning
  BY DEF Spawning
<1>2. Cardinality(Spawning') = Cardinality(Spawning) + 1
  BY <1>1, Finite, FS_AddElement
<1>3. total = Cardinality(up) + Cardinality(Spawning)
  BY DEF CapacityExact, Spawning
<1>4. total' = Cardinality(up') + Cardinality(Spawning') /\ total' <= MaxWorkers
  BY SMTT(30), <1>2, <1>3, Finite, SizesAssumption DEF TypeOK
<1> QED BY <1>4 DEF CapacityExact, Spawning

-----------------------------------------------------------------------------
LEMMA InitInv == Init => IInv /\ NoneStranded
<1> SUFFICES ASSUME Init PROVE IInv /\ NoneStranded
  OBVIOUS
<1> DEFINE S == Range(idle)
<1>1. idle \in Injection(1..MinWorkers, Workers) /\ up = S /\ alive = S
  BY DEF Init
<1>0. /\ waiters = <<>> /\ configuring = {} /\ retiring = {} /\ total = MinWorkers /\ closed = FALSE
      /\ checkouts = [w \in Workers |-> 0]
      /\ pc = [c \in Clients |-> "out"] /\ slot = [c \in Clients |-> None]
      /\ awaited = {} /\ close_done = FALSE
  BY DEF Init
<1>3. idle \in [1..MinWorkers -> S] /\ IsInjective(idle)
  BY <1>1 DEF Injection, Range
<1>2. S \subseteq Workers /\ Cardinality(S) = MinWorkers /\ IsFiniteSet(S)
  <2>1. S \subseteq Workers /\ IsFiniteSet(S)
    BY SMTT(30), <1>1, NamesAssumption, FS_Subset DEF Injection, Range
  <2>2. idle \in Bijection(1..MinWorkers, S)
    BY <1>3 DEF Bijection, Injection, Surjection, Range
  <2>3. ExistsBijection(1..MinWorkers, S)
    BY <2>2 DEF ExistsBijection
  <2> HIDE DEF S
  <2> QED BY <2>1, <2>3, SizesAssumption, FS_NatBijection, FS_CountingElements
<1>4. idle \in Seq(Workers) /\ Range(idle) \subseteq S
  <2>1. idle \in [1..MinWorkers -> Workers] /\ DOMAIN idle = 1..MinWorkers
    BY <1>2, <1>3
  <2>2. idle \in Seq(Workers)
    BY <2>1, SizesAssumption, SeqDef
  <2> QED BY <1>3, <2>1, <2>2 DEF Range
<1>5. waiters \in Seq(Clients) /\ IsInjective(waiters) /\ Range(waiters) = {}
  BY SMTT(30) DEF Init, IsInjective, Range
<1>6. TypeOK
  <2>1. waiters \in Seq(Clients) /\ pc \in [Clients -> PC]
    BY <1>0, <1>5 DEF PC
  <2> QED BY <1>0, <1>1, <1>2, <1>4, <2>1, SizesAssumption DEF TypeOK
<1>7. Queued /\ NoneStranded
  BY <1>5 DEF Init, Queued, NoneStranded
<1>8. Pooled
  BY <1>1, <1>3, <1>4 DEF Init, Pooled
<1>9. Owned
  BY <1>0, <1>2, <1>4, NamesAssumption DEF Owned, SlotPlace, SlotFree
<1>10. CapacityExact
  <2>1. Spawning = {}
    BY DEF Init, Spawning
  <2>2. Cardinality(Spawning) = 0
    BY <2>1, FS_EmptySet
  <2> QED BY SMTT(30), <1>1, <1>2, <2>2, SizesAssumption DEF Init, CapacityExact, Spawning
<1> QED BY <1>6, <1>7, <1>8, <1>9, <1>10 DEF IInv

-----------------------------------------------------------------------------
(* acquire: an idle slot is claimed, a dead one discarded, a worker        *)
(* spawned, or the call queued.                                            *)
LEMMA AcquireInv ==
    ASSUME IInv, NEW c \in Clients, pc[c] \in {"out", "discarded"}, Acquire(c),
           UNCHANGED <<closed, workers, awaited, close_done>>
    PROVE  IInv'
<1> USE DEF workers
<1>0. TypeOK /\ Queued /\ Pooled /\ Owned /\ CapacityExact
  BY DEF IInv
<1>1. c \notin Range(waiters) /\ slot[c] = None /\ c \notin Spawning
  BY <1>0 DEF Queued, Owned, SlotPlace, SlotFree, Spawning
<1>2. ASSUME idle # <<>>, idle' = Front(idle),
             slot' = [slot EXCEPT ![c] = Last(idle)], waiters' = waiters, total' = total,
             \/ /\ configuring' = configuring \cup {Last(idle)} /\ retiring' = retiring
                /\ pc' = [pc EXCEPT ![c] = "granted"]
             \/ /\ Discard({Last(idle)}) /\ pc' = [pc EXCEPT ![c] = "discarding"]
      PROVE  IInv'
  <2>1. /\ Last(idle) \in Workers /\ Front(idle) \in Seq(Workers) /\ IsInjective(Front(idle))
        /\ Range(Front(idle)) = Range(idle) \ {Last(idle)} /\ Last(idle) \in Range(idle)
    BY <1>0, <1>2, FrontFacts DEF TypeOK, Pooled
  <2> DEFINE w == Last(idle)
             rest == Front(idle)
  <2> HIDE DEF w, rest
  <2>2. /\ w \in Workers /\ rest \in Seq(Workers) /\ IsInjective(rest)
        /\ Range(rest) = Range(idle) \ {w} /\ w \in Range(idle)
        /\ idle' = rest /\ slot' = [slot EXCEPT ![c] = w]
        /\ \/ /\ configuring' = configuring \cup {w} /\ retiring' = retiring
              /\ pc' = [pc EXCEPT ![c] = "granted"]
           \/ /\ configuring' = configuring \ {w} /\ retiring' = retiring \cup {w}
              /\ pc' = [pc EXCEPT ![c] = "discarding"]
    BY <1>2, <2>1 DEF w, rest, Discard
  <2>3. TypeOK'
    <3>1. pc' \in [Clients -> PC]
      BY <1>0, <2>2 DEF TypeOK, PC
    <3> QED BY SMTT(30), <1>0, <1>2, <2>2, <3>1 DEF TypeOK
  <2>4. Queued'
    BY SMTT(30), <1>0, <1>1, <1>2, <2>2 DEF TypeOK, Queued
  <2>5. Pooled'
    BY <1>0, <2>2 DEF Pooled
  <2>6. Owned'
    <3>1. w \in up /\ w # None /\ \A d \in Clients : slot[d] # w
      BY <1>0, <2>2, NamesAssumption DEF Pooled, Owned, SlotPlace
    <3>2. ASSUME NEW d \in Clients, NEW e \in Clients, slot'[d] = slot'[e], slot'[d] # None
          PROVE  d = e
      BY <1>0, <1>1, <2>2, <3>1, <3>2 DEF TypeOK, Owned
    <3>3. ASSUME NEW d \in Clients PROVE SlotPlace(d)'
      <4>1. CASE d = c
        BY <1>0, <2>2, <3>1, <4>1 DEF TypeOK, SlotPlace, SlotFree, Pooled
      <4>2. CASE d # c
        BY <1>0, <2>2, <3>1, <4>2 DEF TypeOK, SlotPlace, SlotFree, Owned
      <4> QED BY <4>1, <4>2
    <3> QED BY <3>2, <3>3 DEF Owned
  <2>7. CapacityExact'
    <3>1. Spawning' = Spawning
      BY <1>0, <1>1, <2>2 DEF TypeOK, Spawning
    <3> QED BY <1>0, <1>2, <3>1, SameCount
  <2> QED BY <2>3, <2>4, <2>5, <2>6, <2>7 DEF IInv
<1>3. ASSUME idle = <<>>, closed, pc' = [pc EXCEPT ![c] = "out"],
             UNCHANGED <<idle, waiters, configuring, retiring, total, slot>>
      PROVE  IInv'
  <2>1. TypeOK' /\ Queued' /\ Pooled'
    BY <1>0, <1>1, <1>3 DEF TypeOK, PC, Queued, Pooled
  <2>2. Owned'
    BY <1>0, <1>1, <1>3 DEF TypeOK, Owned, SlotPlace, SlotFree
  <2>3. CapacityExact'
    <3>1. Spawning' = Spawning
      BY <1>0, <1>1, <1>3 DEF TypeOK, Spawning
    <3> QED BY <1>0, <1>3, <3>1, SameCount
  <2> QED BY <2>1, <2>2, <2>3 DEF IInv
<1>4. ASSUME idle = <<>>, total < MaxWorkers, Spawns(c),
             UNCHANGED <<idle, waiters, configuring, retiring, slot>>
      PROVE  IInv'
  <2>1. TypeOK' /\ Queued' /\ Pooled'
    BY SMTT(30), <1>0, <1>1, <1>4 DEF TypeOK, PC, Listed, Queued, Pooled, Spawns
  <2>2. Owned'
    BY <1>0, <1>1, <1>4 DEF TypeOK, Owned, SlotPlace, SlotFree, Spawns
  <2>3. CapacityExact'
    <3>1. Spawning' = Spawning \cup {c} /\ total' = total + 1 /\ pc[c] # "spawning"
      BY <1>0, <1>1, <1>4 DEF TypeOK, Spawning, Spawns
    <3> QED BY <1>0, <1>4, <3>1, OneSpawnMore
  <2> QED BY <2>1, <2>2, <2>3 DEF IInv
<1>5. ASSUME idle = <<>>, waiters' = Append(waiters, c), pc' = [pc EXCEPT ![c] = "waiting"],
             UNCHANGED <<idle, configuring, retiring, total, slot>>
      PROVE  IInv'
  <2>1. /\ waiters' \in Seq(Clients) /\ IsInjective(waiters')
        /\ Range(waiters') = Range(waiters) \cup {c}
    BY SMTT(30), <1>0, <1>1, <1>5, AppendFacts DEF TypeOK, Queued
  <2>2. TypeOK' /\ Queued' /\ Pooled'
    BY SMTT(30), <1>0, <1>5, <2>1 DEF TypeOK, PC, Queued, Pooled
  <2>3. Owned'
    BY <1>0, <1>1, <1>5 DEF TypeOK, Owned, SlotPlace, SlotFree
  <2>4. CapacityExact'
    <3>1. Spawning' = Spawning
      BY <1>0, <1>1, <1>5 DEF TypeOK, Spawning
    <3> QED BY <1>0, <1>5, <3>1, SameCount
  <2> QED BY <2>2, <2>3, <2>4 DEF IInv
<1> QED BY <1>2, <1>3, <1>4, <1>5 DEF Acquire

(* The deadline of a queued call.                                          *)
LEMMA TimesOutInv ==
    ASSUME IInv, NEW c \in Clients, TimesOut(c)
    PROVE  IInv'
<1> USE DEF workers
<1>0. TypeOK /\ Queued /\ Pooled /\ Owned /\ CapacityExact
  BY DEF IInv
<1>1. PICK i \in DOMAIN waiters : waiters[i] = c /\ waiters' = RemoveAt(waiters, i)
  BY DEF TimesOut
<1>2. i \in 1..Len(waiters)
  BY <1>0, LenProperties DEF TypeOK
<1>3. /\ waiters' \in Seq(Clients) /\ IsInjective(waiters')
      /\ Range(waiters') = Range(waiters) \ {c}
  BY <1>0, <1>1, <1>2, RemoveAtFacts DEF TypeOK, Queued
<1>4. TypeOK'
  BY <1>0, <1>3 DEF TypeOK, PC, TimesOut
<1>5. Queued' /\ Pooled'
  BY <1>0, <1>3 DEF TypeOK, Queued, Pooled, TimesOut
<1>6. Owned'
  BY <1>0 DEF TypeOK, Owned, SlotPlace, SlotFree, TimesOut
<1>7. CapacityExact'
  <2>1. Spawning' = Spawning /\ up' = up /\ total' = total
    BY <1>0 DEF TypeOK, Spawning, TimesOut
  <2> QED BY <1>0, <2>1, SameCount
<1> QED BY <1>4, <1>5, <1>6, <1>7 DEF IInv

-----------------------------------------------------------------------------
(* A worker that comes up takes the place of the spawn that was counted.   *)
LEMMA FactoryResolvesInv ==
    ASSUME IInv, NEW c \in Clients, FactoryResolves(c)
    PROVE  IInv'
<1>0. TypeOK /\ Queued /\ Pooled /\ Owned /\ CapacityExact
  BY DEF IInv
<1>1. PICK w \in Workers \ up :
          /\ up' = up \cup {w} /\ alive' = alive \cup {w}
          /\ checkouts' = [checkouts EXCEPT ![w] = 0]
          /\ slot' = [slot EXCEPT ![c] = w]
          /\ \/ ~closed /\ pc' = [pc EXCEPT ![c] = "spawned"] /\ UNCHANGED <<configuring, retiring>>
             \/ closed /\ pc' = [pc EXCEPT ![c] = "spawn_discards"] /\ Discard({w})
  BY DEF FactoryResolves
<1>2. /\ pc[c] = "spawning" /\ slot[c] = None
      /\ UNCHANGED <<idle, waiters, total, closed, awaited, close_done>>
  BY <1>0 DEF FactoryResolves, Owned, SlotPlace, SlotFree
<1>3. /\ w \in Workers /\ w \notin up /\ w # None
      /\ \/ ~closed /\ pc' = [pc EXCEPT ![c] = "spawned"] /\ UNCHANGED <<configuring, retiring>>
         \/ /\ closed /\ pc' = [pc EXCEPT ![c] = "spawn_discards"]
            /\ configuring' = configuring /\ retiring' = retiring \cup {w}
  BY <1>0, <1>1, NamesAssumption DEF Discard, Pooled
<1>4. TypeOK'
  <2>1. pc' \in [Clients -> PC]
    BY <1>0, <1>3 DEF TypeOK, PC, Listed
  <2> QED BY <1>0, <1>1, <1>2, <1>3, <2>1 DEF TypeOK
<1>5. Queued'
  BY <1>0, <1>2, <1>3 DEF TypeOK, Queued
<1>6. Pooled'
  BY <1>0, <1>1, <1>2, <1>3 DEF Pooled
<1>7. Owned'
  <2>1. \A d \in Clients : slot[d] # w
    BY <1>0, <1>3 DEF Owned, SlotPlace
  <2>2. ASSUME NEW d \in Clients, NEW e \in Clients, slot'[d] = slot'[e], slot'[d] # None
        PROVE  d = e
    BY <1>0, <1>1, <2>1, <2>2 DEF TypeOK, Owned
  <2>3. ASSUME NEW d \in Clients PROVE SlotPlace(d)'
    <3>1. CASE d = c
      BY <1>0, <1>1, <1>2, <1>3, <3>1 DEF TypeOK, SlotPlace, SlotFree, Pooled
    <3>2. CASE d # c
      BY <1>0, <1>1, <1>2, <1>3, <2>1, <3>2 DEF TypeOK, SlotPlace, SlotFree, Owned
    <3> QED BY <3>1, <3>2
  <2> QED BY <2>2, <2>3 DEF Owned
<1>8. CapacityExact'
  <2>1. Spawning' = Spawning \ {c} /\ c \in Spawning
    BY <1>0, <1>2, <1>3 DEF TypeOK, Spawning
  <2>2. Cardinality(Spawning') = Cardinality(Spawning) - 1
    BY <1>0, <2>1, Finite, FS_RemoveElement
  <2>3. Cardinality(up') = Cardinality(up) + 1
    BY <1>0, <1>1, <1>3, Finite, FS_AddElement
  <2>4. total = Cardinality(up) + Cardinality(Spawning) /\ total <= MaxWorkers
    BY <1>0 DEF CapacityExact, Spawning
  <2>5. total' = Cardinality(up') + Cardinality(Spawning') /\ total' <= MaxWorkers
    BY SMTT(30), <1>0, <1>2, <2>2, <2>3, <2>4, Finite
  <2> QED BY <2>5 DEF CapacityExact, Spawning
<1> QED BY <1>4, <1>5, <1>6, <1>7, <1>8 DEF IInv

(* A spawn that fails gives its capacity back.                             *)
LEMMA FactoryRejectsInv ==
    ASSUME IInv, NEW c \in Clients, FactoryRejects(c)
    PROVE  IInv'
<1> USE DEF workers
<1>0. TypeOK /\ Queued /\ Pooled /\ Owned /\ CapacityExact
  BY DEF IInv
<1>1. /\ pc[c] = "spawning" /\ slot[c] = None /\ total' = total - 1
      /\ pc' = [pc EXCEPT ![c] = "spawn_failed"]
      /\ UNCHANGED <<idle, waiters, configuring, retiring, closed, workers, slot, awaited, close_done>>
  BY <1>0 DEF FactoryRejects, Owned, SlotPlace, SlotFree
<1>2. CapacityExact' /\ total' \in Nat
  <2>1. Spawning' = Spawning \ {c} /\ c \in Spawning
    BY <1>0, <1>1 DEF TypeOK, Spawning
  <2>2. Cardinality(Spawning') = Cardinality(Spawning) - 1 /\ Cardinality(Spawning') \in Nat
    BY <1>0, <2>1, Finite, FS_RemoveElement, FS_CardinalityType
  <2>3. total = Cardinality(up) + Cardinality(Spawning) /\ total <= MaxWorkers
    BY <1>0 DEF CapacityExact, Spawning
  <2>4. /\ total' = Cardinality(up') + Cardinality(Spawning') /\ total' <= MaxWorkers
        /\ total' \in Nat
    BY SMTT(30), <1>0, <1>1, <2>2, <2>3, Finite, SizesAssumption DEF TypeOK
  <2> QED BY <2>4 DEF CapacityExact, Spawning
<1>3. TypeOK'
  <2>1. pc' \in [Clients -> PC]
    BY <1>0, <1>1 DEF TypeOK, PC, Listed
  <2> QED BY <1>0, <1>1, <1>2, <2>1 DEF TypeOK
<1>4. Queued' /\ Pooled'
  BY <1>0, <1>1 DEF TypeOK, Queued, Pooled
<1>5. Owned'
  BY <1>0, <1>1 DEF TypeOK, Owned, SlotPlace, SlotFree
<1> QED BY <1>2, <1>3, <1>4, <1>5 DEF IInv

LEMMA UnlistInv ==
    ASSUME IInv, NEW c \in Clients, Unlist(c)
    PROVE  IInv'
<1> USE DEF workers, pool
<1>0. TypeOK /\ Queued /\ Pooled /\ Owned /\ CapacityExact
  BY DEF IInv
<1>1. /\ \/ pc[c] = "spawned" /\ pc' = [pc EXCEPT ![c] = "unlisted"]
         \/ pc[c] = "spawn_failed" /\ pc' = [pc EXCEPT ![c] = "failed"]
      /\ awaited' = awaited \ {c} /\ UNCHANGED <<pool, workers, slot, close_done>>
  BY <1>0 DEF Unlist, TypeOK
<1>2. TypeOK'
  <2>1. pc' \in [Clients -> PC]
    BY <1>0, <1>1 DEF TypeOK, PC
  <2> QED BY <1>0, <1>1, <2>1 DEF TypeOK
<1>3. Queued' /\ Pooled'
  BY <1>0, <1>1 DEF TypeOK, Queued, Pooled
<1>4. Owned'
  BY <1>0, <1>1 DEF TypeOK, Owned, SlotPlace, SlotFree
<1>5. CapacityExact'
  <2>1. Spawning' = Spawning /\ up' = up /\ total' = total
    BY <1>0, <1>1 DEF TypeOK, Spawning
  <2> QED BY <1>0, <2>1, SameCount
<1> QED BY <1>2, <1>3, <1>4, <1>5 DEF IInv

LEMMA SpawnGrantsInv ==
    ASSUME IInv, NEW c \in Clients, SpawnGrants(c)
    PROVE  IInv'
<1> USE DEF workers
<1>0. TypeOK /\ Queued /\ Pooled /\ Owned /\ CapacityExact
  BY DEF IInv
<1>1. PICK w : w = slot[c]
  OBVIOUS
<1>2. /\ pc[c] = "unlisted" /\ w \in up /\ w \notin configuring /\ w \notin retiring
      /\ w \notin Range(idle) /\ w \in Workers /\ w # None
      /\ configuring' = configuring \cup {w} /\ pc' = [pc EXCEPT ![c] = "granted"]
      /\ UNCHANGED <<idle, waiters, retiring, total, closed, workers, slot, awaited, close_done>>
  BY <1>0, <1>1, NamesAssumption DEF SpawnGrants, Owned, SlotPlace, TypeOK
<1>3. TypeOK'
  <2>1. pc' \in [Clients -> PC]
    BY <1>0, <1>2 DEF TypeOK, PC
  <2> QED BY <1>0, <1>2, <2>1 DEF TypeOK
<1>4. Queued' /\ Pooled'
  BY <1>0, <1>2 DEF TypeOK, Queued, Pooled
<1>5. Owned'
  <2>1. ASSUME NEW d \in Clients PROVE SlotPlace(d)'
    <3>1. CASE d = c
      BY <1>0, <1>1, <1>2, <3>1 DEF TypeOK, SlotPlace, SlotFree
    <3>2. CASE d # c
      BY <1>0, <1>1, <1>2, <3>2 DEF TypeOK, SlotPlace, SlotFree, Owned
    <3> QED BY <3>1, <3>2
  <2> QED BY <1>0, <1>2, <2>1 DEF Owned
<1>6. CapacityExact'
  <2>1. Spawning' = Spawning /\ up' = up /\ total' = total
    BY <1>0, <1>2 DEF TypeOK, Spawning
  <2> QED BY <1>0, <2>1, SameCount
<1> QED BY <1>3, <1>4, <1>5, <1>6 DEF IInv

-----------------------------------------------------------------------------
(* What pump does: some of those that wait start to spawn, as many as      *)
(* capacity is taken, and a queue is left over only when there is none.    *)
LEMMA PumpFacts ==
    ASSUME waiters \in Seq(Clients), IsInjective(waiters), NEW calls, NEW count \in Nat,
           count <= MaxWorkers, closed \in BOOLEAN, Pump(calls, count)
    PROVE  \E served \in SUBSET Range(waiters) :
              /\ waiters' \in Seq(Clients) /\ IsInjective(waiters')
              /\ Range(waiters') = Range(waiters) \ served
              /\ IsFiniteSet(served) /\ total' = count + Cardinality(served)
              /\ total' \in Nat /\ total' <= MaxWorkers
              /\ pc' = [c \in Clients |-> IF c \in served THEN "spawning" ELSE calls[c]]
              /\ ~closed /\ waiters' # <<>> => total' = MaxWorkers
              /\ waiters = <<>> => waiters' = <<>>
<1>1. PICK n : n = IF closed THEN 0 ELSE Min({Len(waiters), MaxWorkers - count})
  OBVIOUS
<1>2. PICK served : served = {waiters[i] : i \in 1..n}
  OBVIOUS
<1>3. PICK m \in Nat : m = Len(waiters)
  BY LenProperties
<1>4. /\ n \in 0..m /\ count + n <= MaxWorkers
      /\ ~closed => n = m \/ count + n = MaxWorkers
  <2>1. MaxWorkers - count \in Nat
    BY SMTT(30), SizesAssumption
  <2>2. Min({m, MaxWorkers - count}) = IF m <= MaxWorkers - count THEN m ELSE MaxWorkers - count
    BY SMTT(30), <1>3, <2>1 DEF Min
  <2> QED BY SMTT(30), <1>1, <1>3, <2>1, <2>2, SizesAssumption
<1>5. /\ waiters' = SubSeq(waiters, n + 1, Len(waiters)) /\ total' = count + n
      /\ pc' = [c \in Clients |-> IF c \in served THEN "spawning" ELSE calls[c]]
  BY <1>1, <1>2 DEF Pump
<1>6. /\ waiters' \in Seq(Clients) /\ IsInjective(waiters')
      /\ Range(waiters') = Range(waiters) \ served
      /\ served \subseteq Range(waiters) /\ IsFiniteSet(served) /\ Cardinality(served) = n
      /\ n = m => waiters' = <<>>
  <2>1. n \in 0..Len(waiters)
    BY <1>3, <1>4
  <2>2. waiters' = RestOf(waiters, n) /\ served = FirstOf(waiters, n)
    BY <1>2, <1>5 DEF RestOf, FirstOf
  <2> QED BY <1>3, <2>1, <2>2, DropFacts
<1>7. waiters = <<>> => waiters' = <<>>
  BY SMTT(30), <1>3, <1>4, <1>6, EmptySeq
<1>8. total' \in Nat /\ total' <= MaxWorkers /\ (~closed /\ waiters' # <<>> => total' = MaxWorkers)
  BY SMTT(30), <1>4, <1>5, <1>6
<1> QED BY <1>5, <1>6, <1>7, <1>8

(* A reaction to a failed spawn hands capacity on.                         *)
LEMMA SpawnFailsInv ==
    ASSUME IInv, NEW c \in Clients, SpawnFails(c)
    PROVE  IInv'
<1> USE DEF workers
<1>0. TypeOK /\ Queued /\ Pooled /\ Owned /\ CapacityExact
  BY DEF IInv
<1>1. /\ pc[c] = "failed" /\ slot[c] = None /\ slot' = slot
      /\ UNCHANGED <<idle, configuring, retiring, closed, workers, awaited, close_done>>
  BY <1>0 DEF SpawnFails, Owned, SlotPlace, SlotFree, TypeOK
<1>2. PICK calls : calls = [pc EXCEPT ![c] = "out"]
  OBVIOUS
<1>3. Pump(calls, total)
  BY <1>2 DEF SpawnFails
<1>4. PICK served \in SUBSET Range(waiters) :
              /\ waiters' \in Seq(Clients) /\ IsInjective(waiters')
              /\ Range(waiters') = Range(waiters) \ served
              /\ IsFiniteSet(served) /\ total' = total + Cardinality(served)
              /\ total' \in Nat /\ total' <= MaxWorkers
              /\ pc' = [d \in Clients |-> IF d \in served THEN "spawning" ELSE calls[d]]
  BY <1>0, <1>3, PumpFacts DEF TypeOK, Queued, CapacityExact
<1>5. \A d \in served : d \in Clients /\ pc[d] = "waiting" /\ d # c
  BY <1>0, <1>1 DEF Queued
<1>6. TypeOK'
  <2>1. pc' \in [Clients -> PC]
    BY <1>0, <1>2, <1>4 DEF TypeOK, PC, Listed
  <2> QED BY <1>0, <1>1, <1>4, <2>1 DEF TypeOK
<1>7. Queued' /\ Pooled'
  BY <1>0, <1>1, <1>2, <1>4, <1>5 DEF TypeOK, Queued, Pooled
<1>8. Owned'
  BY <1>0, <1>1, <1>2, <1>4, <1>5 DEF TypeOK, Owned, SlotPlace, SlotFree
<1>9. CapacityExact'
  <2>1. Spawning' = Spawning \cup served /\ Spawning \cap served = {}
    BY <1>0, <1>1, <1>2, <1>4, <1>5 DEF TypeOK, Spawning
  <2>2. Cardinality(Spawning') = Cardinality(Spawning) + Cardinality(served)
    <3>1. Cardinality(Spawning \cap served) = 0 /\ Cardinality(served) \in Nat
      BY <1>4, <2>1, FS_EmptySet, FS_CardinalityType
    <3>2. Cardinality(Spawning \cup served)
            = Cardinality(Spawning) + Cardinality(served) - Cardinality(Spawning \cap served)
      BY <1>0, <1>4, Finite, FS_Union
    <3> QED BY SMTT(30), <1>0, <2>1, <3>1, <3>2, Finite
  <2>3. total = Cardinality(up) + Cardinality(Spawning) /\ up' = up
    BY <1>0, <1>1 DEF CapacityExact, Spawning
  <2>4. total' = Cardinality(up') + Cardinality(Spawning')
    BY SMTT(30), <1>0, <1>4, <2>2, <2>3, Finite, FS_CardinalityType
  <2> QED BY <1>4, <2>4 DEF CapacityExact, Spawning
<1> QED BY <1>6, <1>7, <1>8, <1>9 DEF IInv

-----------------------------------------------------------------------------
(* A call lets go of its slot, which close may have retired already.       *)
LEMMA DropInv ==
    ASSUME IInv, NEW c \in Clients, pc[c] \in {"granted", "configure", "session"}, Drop(c),
           checkouts' \in [Workers -> Nat],
           UNCHANGED <<idle, waiters, total, closed, up, alive, slot, awaited, close_done>>
    PROVE  IInv'
<1>0. TypeOK /\ Queued /\ Pooled /\ Owned /\ CapacityExact
  BY DEF IInv
<1>1. PICK w : w = slot[c]
  OBVIOUS
<1>2. \/ /\ w # None /\ w \in up /\ w \in Workers /\ w \notin Range(idle)
         /\ configuring' = configuring \ {w} /\ retiring' = retiring \cup {w}
         /\ pc' = [pc EXCEPT ![c] = "dropping"]
      \/ /\ w = None /\ configuring' = configuring /\ retiring' = retiring
         /\ pc' = [pc EXCEPT ![c] = "out"]
  BY <1>0, <1>1 DEF Drop, Discard, Owned, SlotPlace, TypeOK
<1>3. TypeOK'
  <2>1. pc' \in [Clients -> PC]
    BY <1>0, <1>2 DEF TypeOK, PC
  <2> QED BY <1>0, <1>2, <2>1 DEF TypeOK
<1>4. Queued' /\ Pooled'
  BY <1>0, <1>2 DEF TypeOK, Queued, Pooled
<1>5. Owned'
  <2>1. ASSUME NEW d \in Clients PROVE SlotPlace(d)'
    <3>1. CASE d = c
      BY <1>0, <1>1, <1>2, <3>1 DEF TypeOK, SlotPlace, SlotFree, Owned
    <3>2. CASE d # c
      BY <1>0, <1>1, <1>2, <3>2 DEF TypeOK, SlotPlace, SlotFree, Owned
    <3> QED BY <3>1, <3>2
  <2> QED BY <1>0, <2>1 DEF Owned
<1>6. CapacityExact'
  <2>1. Spawning' = Spawning
    BY <1>0, <1>2 DEF TypeOK, Spawning
  <2> QED BY <1>0, <2>1, SameCount
<1> QED BY <1>3, <1>4, <1>5, <1>6 DEF IInv

LEMMA GrantedInv ==
    ASSUME IInv, NEW c \in Clients, Granted(c)
    PROVE  IInv'
<1> USE DEF workers
<1>0. TypeOK /\ Queued /\ Pooled /\ Owned /\ CapacityExact
  BY DEF IInv
<1>1. CASE closed
  BY <1>0, <1>1, DropInv DEF Granted, TypeOK
<1>2. CASE ~closed
  <2>1. /\ pc[c] = "granted" /\ pc' = [pc EXCEPT ![c] = "configure"]
        /\ UNCHANGED <<idle, waiters, configuring, retiring, total, closed, workers, slot, awaited, close_done>>
    BY <1>2 DEF Granted
  <2>2. TypeOK' /\ Queued' /\ Pooled'
    BY <1>0, <2>1 DEF TypeOK, PC, Queued, Pooled
  <2>3. Owned'
    BY <1>0, <2>1 DEF TypeOK, Owned, SlotPlace, SlotFree
  <2>4. CapacityExact'
    <3>1. Spawning' = Spawning
      BY <1>0, <2>1 DEF TypeOK, Spawning
    <3> QED BY <1>0, <2>1, <3>1, SameCount
  <2> QED BY <2>2, <2>3, <2>4 DEF IInv
<1> QED BY <1>1, <1>2

LEMMA ConfiguredInv ==
    ASSUME IInv, NEW c \in Clients, Configured(c) \/ ConfigureFails(c)
    PROVE  IInv'
<1> USE DEF workers
<1>0. TypeOK /\ Queued /\ Pooled /\ Owned /\ CapacityExact
  BY DEF IInv
<1>1. CASE Drop(c)
  BY <1>0, <1>1, DropInv DEF Configured, ConfigureFails, TypeOK
<1>2. CASE Configured(c) /\ ~closed
  <2>1. PICK w : w = slot[c]
    OBVIOUS
  <2>2. /\ pc[c] = "configure" /\ pc' = [pc EXCEPT ![c] = "session"]
        /\ w \in configuring /\ configuring' = configuring \ {w}
        /\ UNCHANGED <<idle, waiters, retiring, total, closed, workers, slot, awaited, close_done>>
    BY <1>0, <1>2, <2>1 DEF Configured, Owned, SlotPlace
  <2>3. TypeOK' /\ Queued' /\ Pooled'
    BY <1>0, <2>2 DEF TypeOK, PC, Queued, Pooled
  <2>4. Owned'
    <3>1. w \in up /\ w \notin retiring /\ w # None
      BY <1>0, <2>2, NamesAssumption DEF Pooled, TypeOK
    <3>2. ASSUME NEW d \in Clients PROVE SlotPlace(d)'
      <4>1. CASE d = c
        BY <1>0, <2>1, <2>2, <3>1, <4>1 DEF TypeOK, SlotPlace, SlotFree, Owned
      <4>2. CASE d # c
        BY <1>0, <2>1, <2>2, <3>1, <4>2 DEF TypeOK, SlotPlace, SlotFree, Owned
      <4> QED BY <4>1, <4>2
    <3> QED BY <1>0, <2>2, <3>2 DEF Owned
  <2>5. CapacityExact'
    <3>1. Spawning' = Spawning
      BY <1>0, <2>2 DEF TypeOK, Spawning
    <3> QED BY <1>0, <2>2, <3>1, SameCount
  <2> QED BY <2>3, <2>4, <2>5 DEF IInv
<1> QED BY <1>1, <1>2 DEF Configured, ConfigureFails

-----------------------------------------------------------------------------
(* release: the slot is retired, handed to the longest waiter, or kept.    *)
LEMMA ReleaseInv ==
    ASSUME IInv, NEW c \in Clients, NEW reusable \in BOOLEAN, Release(c, reusable)
    PROVE  IInv'
<1>0. TypeOK /\ Queued /\ Pooled /\ Owned /\ CapacityExact
  BY DEF IInv
<1>1. PICK w : w = slot[c]
  OBVIOUS
<1>2. /\ pc[c] = "session" /\ w \in up /\ w \notin configuring /\ w \notin retiring
      /\ w \notin Range(idle) /\ w \in Workers /\ w # None
      /\ UNCHANGED <<total, closed, up, alive, awaited, close_done>>
      /\ checkouts' = [checkouts EXCEPT ![w] = checkouts[w] + 1]
  BY SMTT(30), <1>0, <1>1, NamesAssumption DEF Release, Owned, SlotPlace, TypeOK
<1>3. checkouts' \in [Workers -> Nat]
  BY SMTT(30), <1>0, <1>2 DEF TypeOK
<1>4. CASE Drop(c) /\ UNCHANGED <<idle, waiters, slot>>
  BY <1>2, <1>3, <1>4, DropInv
<1>5. ASSUME waiters # <<>>, NEW h, h = Head(waiters), waiters' = Tail(waiters),
             configuring' = configuring \cup {w},
             pc' = [pc EXCEPT ![c] = "out", ![h] = "granted"],
             slot' = [slot EXCEPT ![c] = None, ![h] = w],
             idle' = idle, retiring' = retiring
      PROVE  IInv'
  <2>1. /\ h \in Clients /\ waiters' \in Seq(Clients) /\ IsInjective(waiters')
        /\ Range(waiters') = Range(waiters) \ {h} /\ h \in Range(waiters)
    BY <1>0, <1>5, TailFacts DEF TypeOK, Queued
  <2>2. pc[h] = "waiting" /\ h # c /\ slot[h] = None
    BY <1>0, <1>2, <2>1 DEF Queued, Owned, SlotPlace, SlotFree
  <2>3. TypeOK'
    <3>1. pc' \in [Clients -> PC] /\ slot' \in [Clients -> Workers \cup {None}]
      BY <1>0, <1>2, <1>5, <2>1 DEF TypeOK, PC
    <3> QED BY <1>0, <1>2, <1>3, <1>5, <2>1, <3>1 DEF TypeOK
  <2>4. Queued' /\ Pooled'
    BY <1>0, <1>2, <1>5, <2>1, <2>2 DEF TypeOK, Queued, Pooled
  <2>5. Owned'
    <3>1. /\ slot'[c] = None /\ slot'[h] = w /\ pc'[c] = "out" /\ pc'[h] = "granted"
          /\ \A d \in Clients \ {c, h} : slot'[d] = slot[d] /\ pc'[d] = pc[d] /\ slot[d] # w
      BY <1>0, <1>1, <1>2, <1>5, <2>1, <2>2 DEF TypeOK, Owned
    <3>2. ASSUME NEW d \in Clients, NEW e \in Clients, slot'[d] = slot'[e], slot'[d] # None
          PROVE  d = e
      BY <1>0, <3>1, <3>2 DEF Owned
    <3>3. ASSUME NEW d \in Clients PROVE SlotPlace(d)'
      <4>1. CASE d \in {c, h}
        BY SMTT(30), <1>0, <1>2, <1>5, <3>1, <4>1, NamesAssumption DEF SlotPlace, SlotFree, Pooled, TypeOK, Owned
      <4>2. CASE d \notin {c, h}
        <5>1. SlotPlace(d) /\ slot'[d] = slot[d] /\ pc'[d] = pc[d] /\ slot[d] # w
          BY <1>0, <3>1, <4>2 DEF Owned
        <5> QED BY SMTT(30), <1>2, <1>5, <5>1 DEF SlotPlace, SlotFree
      <4> QED BY <4>1, <4>2
    <3> QED BY <3>2, <3>3 DEF Owned
  <2>6. CapacityExact'
    <3>1. Spawning' = Spawning
      BY <1>0, <1>2, <1>5, <2>1, <2>2 DEF TypeOK, Spawning
    <3> QED BY <1>0, <1>2, <3>1, SameCount
  <2> QED BY <2>3, <2>4, <2>5, <2>6 DEF IInv
<1>6. ASSUME idle' = Append(idle, w), pc' = [pc EXCEPT ![c] = "out"],
             slot' = [slot EXCEPT ![c] = None],
             UNCHANGED <<waiters, configuring, retiring>>
      PROVE  IInv'
  <2>1. idle' \in Seq(Workers) /\ IsInjective(idle') /\ Range(idle') = Range(idle) \cup {w}
    BY SMTT(30), <1>0, <1>2, <1>6, AppendFacts DEF TypeOK, Pooled
  <2>2. TypeOK' /\ Queued' /\ Pooled'
    BY SMTT(30), <1>0, <1>2, <1>3, <1>6, <2>1 DEF TypeOK, PC, Queued, Pooled
  <2>3. Owned'
    <3>1. /\ slot'[c] = None /\ pc'[c] = "out"
          /\ \A d \in Clients \ {c} : slot'[d] = slot[d] /\ pc'[d] = pc[d] /\ slot[d] # w
      BY <1>0, <1>1, <1>2, <1>6 DEF TypeOK, Owned
    <3>2. ASSUME NEW d \in Clients, NEW e \in Clients, slot'[d] = slot'[e], slot'[d] # None
          PROVE  d = e
      BY <1>0, <3>1, <3>2 DEF Owned
    <3>3. ASSUME NEW d \in Clients PROVE SlotPlace(d)'
      <4>1. None \notin Range(idle')
        BY <1>0, <1>2, <2>1, NamesAssumption DEF Pooled, TypeOK
      <4> QED BY SMTT(30), <1>0, <1>2, <1>6, <2>1, <3>1, <4>1 DEF SlotPlace, SlotFree, Owned
    <3> QED BY <3>2, <3>3 DEF Owned
  <2>4. CapacityExact'
    <3>1. Spawning' = Spawning
      BY <1>0, <1>2, <1>6 DEF TypeOK, Spawning
    <3> QED BY <1>0, <1>2, <3>1, SameCount
  <2> QED BY <2>2, <2>3, <2>4 DEF IInv
<1>7. PICK h : h = Head(waiters)
  OBVIOUS
<1>8. \/ Drop(c) /\ UNCHANGED <<idle, waiters, slot>>
      \/ /\ waiters # <<>> /\ waiters' = Tail(waiters) /\ configuring' = configuring \cup {w}
         /\ pc' = [pc EXCEPT ![c] = "out", ![h] = "granted"]
         /\ slot' = [slot EXCEPT ![c] = None, ![h] = w]
         /\ idle' = idle /\ retiring' = retiring
      \/ /\ idle' = Append(idle, w) /\ pc' = [pc EXCEPT ![c] = "out"]
         /\ slot' = [slot EXCEPT ![c] = None] /\ UNCHANGED <<waiters, configuring, retiring>>
  BY <1>1, <1>7 DEF Release
<1> QED BY <1>4, <1>5, <1>6, <1>7, <1>8

-----------------------------------------------------------------------------
(* Who awaited the end of a worker goes on without it.                     *)
LEMMA TerminatedInv ==
    ASSUME IInv, NEW w \in Workers, Terminated(w)
    PROVE  IInv'
<1>0. TypeOK /\ Queued /\ Pooled /\ Owned /\ CapacityExact
  BY DEF IInv
<1>1. /\ w \in retiring /\ retiring' = retiring \ {w} /\ up' = up \ {w} /\ alive' = alive \ {w}
      /\ slot' = [c \in Clients |-> IF slot[c] = w THEN None ELSE slot[c]]
      /\ awaited' = awaited \ {w}
      /\ UNCHANGED <<idle, configuring, closed, checkouts, close_done>>
  BY DEF Terminated
<1>2. PICK calls : calls = [c \in Clients |-> Woken(c, w)]
  OBVIOUS
<1>3. Pump(calls, total - 1)
  BY <1>2 DEF Terminated
<1>4. ASSUME NEW c \in Clients
      PROVE  \/ slot[c] = w /\ pc[c] = "discarding" /\ calls[c] = "discarded"
             \/ slot[c] = w /\ pc[c] = "spawn_discards" /\ calls[c] = "spawn_failed"
             \/ slot[c] = w /\ pc[c] = "dropping" /\ calls[c] = "out"
             \/ /\ slot[c] # w \/ pc[c] \notin {"discarding", "spawn_discards", "dropping"}
                /\ calls[c] = pc[c]
  <2>1. calls[c] = Woken(c, w)
    BY <1>2
  <2>2. CASE slot[c] = w /\ pc[c] = "discarding"
    BY <2>1, <2>2 DEF Woken
  <2>3. CASE slot[c] = w /\ pc[c] = "spawn_discards"
    BY <2>1, <2>3 DEF Woken
  <2>4. CASE slot[c] = w /\ pc[c] = "dropping"
    BY <2>1, <2>4 DEF Woken
  <2>5. CASE slot[c] # w \/ pc[c] \notin {"discarding", "spawn_discards", "dropping"}
    BY <2>1, <2>5 DEF Woken
  <2> QED BY <2>2, <2>3, <2>4, <2>5
<1>5. /\ total = Cardinality(up) + Cardinality(Spawning)
      /\ Cardinality(up') = Cardinality(up) - 1 /\ Cardinality(up') \in Nat
  <2>1. w \in up
    BY <1>0, <1>1 DEF Pooled
  <2>2. Cardinality(up \ {w}) = Cardinality(up) - 1 /\ Cardinality(up \ {w}) \in Nat
    BY <1>0, <2>1, Finite, FS_RemoveElement, FS_CardinalityType
  <2> QED BY <1>0, <1>1, <2>2 DEF CapacityExact, Spawning
<1>6. PICK count \in Nat : count = total - 1 /\ count <= MaxWorkers
  <2>1. total - 1 \in Nat /\ total - 1 <= MaxWorkers
    BY SMTT(30), <1>0, <1>5, Finite, SizesAssumption DEF TypeOK, CapacityExact
  <2> QED BY <2>1
<1>7. PICK served \in SUBSET Range(waiters) :
              /\ waiters' \in Seq(Clients) /\ IsInjective(waiters')
              /\ Range(waiters') = Range(waiters) \ served
              /\ IsFiniteSet(served) /\ total' = count + Cardinality(served)
              /\ total' \in Nat /\ total' <= MaxWorkers
              /\ pc' = [d \in Clients |-> IF d \in served THEN "spawning" ELSE calls[d]]
  <2>1. Pump(calls, count)
    BY <1>3, <1>6 DEF Pump
  <2> QED BY SMTT(30), <1>0, <1>6, <2>1, PumpFacts DEF TypeOK, Queued
<1>8. \A d \in served : d \in Clients /\ pc[d] = "waiting"
  BY <1>0 DEF Queued
<1>9. TypeOK'
  <2>1. \A d \in Clients : calls[d] \in PC
    BY <1>0, <1>4 DEF TypeOK, PC, Listed
  <2>2. "spawning" \in PC
    BY DEF PC, Listed
  <2>3. pc' \in [Clients -> PC] /\ slot' \in [Clients -> Workers \cup {None}]
    BY <1>0, <1>1, <1>7, <2>1, <2>2 DEF TypeOK
  <2> QED BY <1>0, <1>1, <1>7, <2>3 DEF TypeOK
<1>10. \A d \in Clients : calls[d] = "waiting" <=> pc[d] = "waiting"
  BY <1>4
<1>11. Queued'
  BY <1>0, <1>7, <1>8, <1>10 DEF Queued
<1>12. Pooled'
  BY <1>0, <1>1 DEF Pooled
<1>13. Owned'
  <2>1. ASSUME NEW d \in Clients PROVE SlotPlace(d)'
    <3>1. pc'[d] = IF d \in served THEN "spawning" ELSE calls[d]
      BY <1>7
    <3>2. slot'[d] = IF slot[d] = w THEN None ELSE slot[d]
      BY <1>1
    <3>3. SlotPlace(d) /\ w # None /\ None \notin Range(idle)
      BY <1>0, NamesAssumption DEF Owned, Pooled, TypeOK
    <3>4. CASE slot[d] = w
      <4>1. /\ pc[d] \in {"granted", "configure"} => closed
            /\ pc[d] \notin SlotFree /\ pc[d] \notin {"spawned", "unlisted", "session"}
        BY <1>0, <1>1, <3>3, <3>4 DEF SlotPlace, Pooled
      <4> QED BY <1>0, <1>1, <1>4, <1>8, <3>1, <3>2, <3>3, <3>4, <4>1 DEF SlotPlace, SlotFree, TypeOK, PC, Listed
    <3>5. CASE slot[d] # w
      <4>1. calls[d] = pc[d]
        BY <1>4, <3>5
      <4> QED BY <1>1, <1>8, <3>1, <3>2, <3>3, <3>5, <4>1 DEF SlotPlace, SlotFree
    <3> QED BY <3>4, <3>5
  <2>2. ASSUME NEW d \in Clients, NEW e \in Clients, slot'[d] = slot'[e], slot'[d] # None
        PROVE  d = e
    BY <1>0, <1>1, <2>2 DEF Owned
  <2> QED BY <2>1, <2>2 DEF Owned
<1>14. CapacityExact'
  <2>1. Spawning' = Spawning \cup served /\ Spawning \cap served = {}
    <3>1. \A d \in Clients : calls[d] = "spawning" <=> pc[d] = "spawning"
      BY <1>4
    <3> QED BY <1>7, <1>8, <3>1 DEF Spawning
  <2>2. Cardinality(Spawning') = Cardinality(Spawning) + Cardinality(served)
    <3>1. Cardinality(Spawning \cap served) = 0 /\ Cardinality(served) \in Nat
      BY <1>7, <2>1, FS_EmptySet, FS_CardinalityType
    <3>2. Cardinality(Spawning \cup served)
            = Cardinality(Spawning) + Cardinality(served) - Cardinality(Spawning \cap served)
      BY <1>0, <1>7, Finite, FS_Union
    <3> QED BY SMTT(30), <1>0, <2>1, <3>1, <3>2, Finite
  <2>3. total' = Cardinality(up') + Cardinality(Spawning')
    BY SMTT(30), <1>0, <1>5, <1>6, <1>7, <2>2, Finite, FS_CardinalityType
  <2> QED BY <1>7, <2>3 DEF CapacityExact, Spawning
<1> QED BY <1>9, <1>11, <1>12, <1>13, <1>14 DEF IInv

(* close retires every slot outside a session, also one that a checkout    *)
(* is configuring.                                                         *)
LEMMA CloseInv ==
    ASSUME IInv, Close
    PROVE  IInv'
<1> USE DEF workers
<1>0. TypeOK /\ Queued /\ Pooled /\ Owned /\ CapacityExact
  BY DEF IInv
<1>1. PICK R : R = Range(idle)
  OBVIOUS
<1>2. /\ closed' = TRUE /\ waiters' = <<>> /\ idle' = <<>>
      /\ configuring' = {} /\ retiring' = retiring \cup R \cup configuring
      /\ pc' = [c \in Clients |-> IF pc[c] = "waiting" THEN "out" ELSE pc[c]]
      /\ awaited' = {c \in Clients : pc[c] \in Listed} \cup retiring'
      /\ UNCHANGED <<total, up, alive, checkouts, slot, close_done>>
  BY <1>1 DEF Close, Discard
<1>3. /\ waiters' \in Seq(Clients) /\ IsInjective(waiters') /\ Range(waiters') = {}
      /\ idle' \in Seq(Workers) /\ IsInjective(idle') /\ Range(idle') = {}
  BY SMTT(30), <1>2 DEF IsInjective, Range
<1>4. R \subseteq up /\ configuring \subseteq up /\ retiring \subseteq up /\ up \subseteq Workers
  BY <1>0, <1>1 DEF Pooled, TypeOK
<1>5. TypeOK'
  <2>1. pc' \in [Clients -> PC]
    BY <1>0, <1>2 DEF TypeOK, PC
  <2> QED BY <1>0, <1>2, <1>3, <1>4, <2>1 DEF TypeOK
<1>6. Queued'
  BY <1>2, <1>3 DEF Queued
<1>7. Pooled'
  BY <1>2, <1>3, <1>4 DEF Pooled
<1>8. Owned'
  <2>1. ASSUME NEW d \in Clients PROVE SlotPlace(d)'
    <3>1. SlotPlace(d) /\ slot'[d] = slot[d] /\ slot[d] \notin R
      BY <1>0, <1>1, <1>2 DEF Owned, SlotPlace
    <3>2. pc'[d] = IF pc[d] = "waiting" THEN "out" ELSE pc[d]
      BY <1>2
    <3> QED BY <1>2, <1>3, <3>1, <3>2 DEF SlotPlace, SlotFree
  <2> QED BY <1>0, <1>2, <2>1 DEF Owned
<1>9. CapacityExact'
  <2>1. Spawning' = Spawning
    BY <1>2 DEF Spawning
  <2> QED BY <1>0, <1>2, <2>1, SameCount
<1> QED BY <1>5, <1>6, <1>7, <1>8, <1>9 DEF IInv

LEMMA OtherInv ==
    ASSUME IInv, CloseResolves \/ (\E w \in Workers : Dies(w)) \/ UNCHANGED vars
    PROVE  IInv'
<1> USE DEF vars, pool, workers
<1>0. TypeOK /\ Queued /\ Pooled /\ Owned /\ CapacityExact
  BY DEF IInv
<1>1. /\ UNCHANGED <<pool, up, checkouts, pc, slot, awaited>>
      /\ alive' \subseteq alive /\ close_done' \in BOOLEAN
  BY <1>0 DEF CloseResolves, Dies, TypeOK
<1>2. TypeOK' /\ Queued' /\ Pooled'
  BY <1>0, <1>1 DEF TypeOK, Queued, Pooled
<1>3. Owned'
  BY <1>0, <1>1 DEF Owned, SlotPlace
<1>4. CapacityExact'
  BY <1>0, <1>1 DEF CapacityExact
<1> QED BY <1>2, <1>3, <1>4 DEF IInv

LEMMA StepInv ==
    ASSUME IInv, [Next]_vars
    PROVE  IInv'
<1>1. ASSUME NEW c \in Clients, Checkout(c) \/ AcquireAgain(c) PROVE IInv'
  BY <1>1, AcquireInv DEF Checkout, AcquireAgain
<1>2. ASSUME NEW c \in Clients, Continues(c) PROVE IInv'
  BY <1>1, <1>2, FactoryResolvesInv, FactoryRejectsInv, UnlistInv, SpawnGrantsInv,
     SpawnFailsInv, GrantedInv, ConfiguredInv DEF Continues
<1> QED BY <1>1, <1>2, TimesOutInv, ReleaseInv, TerminatedInv, CloseInv, OtherInv DEF Next

(* `total` counts each running worker and each spawn under way once, and   *)
(* never passes maxWorkers, whatever calls, deaths and failures interleave.*)
THEOREM CapacityIsExact == Spec => []CapacityExact
<1>1. IInv => CapacityExact
  BY DEF IInv
<1>2. IInv /\ [Next]_vars => IInv'
  BY StepInv
<1> QED BY InitInv, <1>1, <1>2, PTL DEF Spec

-----------------------------------------------------------------------------
(* Calls whose spawn failed and that have not looked at the queue yet.     *)
Failed == {"spawn_failed", "failed"}

(* Steps that take nothing, queue nobody and leave the failed spawns.      *)
LEMMA StillNoneStranded ==
    ASSUME NoneStranded, idle' = idle \/ waiters = <<>>, total' = total, closed' = closed,
           waiters' = waiters,
           \A d \in Clients : pc[d] \in Failed => pc'[d] \in Failed
    PROVE  NoneStranded'
  BY DEF NoneStranded, Failed

LEMMA AcquireStranded ==
    ASSUME IInv, NoneStranded, NEW c \in Clients, pc[c] \in {"out", "discarded"}, Acquire(c),
           closed' = closed
    PROVE  NoneStranded'
<1>0. TypeOK /\ CapacityExact
  BY DEF IInv
<1>1. \A d \in Clients : pc[d] \in Failed => pc'[d] = pc[d]
  BY <1>0 DEF Acquire, Spawns, TypeOK, Failed
<1>2. CASE idle # <<>>
  <2>1. waiters' = waiters /\ (waiters = <<>> \/ closed)
    BY <1>2 DEF Acquire, NoneStranded
  <2> QED BY <2>1 DEF NoneStranded
<1>3. CASE idle = <<>> /\ (closed \/ total < MaxWorkers)
  <2>1. idle' = idle /\ waiters' = waiters
    BY SMTT(30), <1>0, <1>3, SizesAssumption DEF Acquire, TypeOK
  <2> QED BY SMTT(30), <1>0, <1>1, <1>3, <2>1, SizesAssumption DEF NoneStranded, Failed, TypeOK
<1>4. CASE idle = <<>> /\ total = MaxWorkers /\ ~closed
  <2>1. idle' = idle /\ total' = total
    BY SMTT(30), <1>0, <1>4, SizesAssumption DEF Acquire, TypeOK
  <2> QED BY <1>4, <2>1 DEF NoneStranded
<1> QED BY SMTT(30), <1>0, <1>2, <1>3, <1>4, SizesAssumption DEF TypeOK, CapacityExact

LEMMA ContinuesStranded ==
    ASSUME IInv, NoneStranded, NEW c \in Clients, Continues(c)
    PROVE  NoneStranded'
<1> USE DEF workers
<1>0. TypeOK /\ Queued /\ CapacityExact
  BY DEF IInv
<1>1. CASE AcquireAgain(c)
  BY <1>1, AcquireStranded DEF AcquireAgain
<1>2. CASE FactoryResolves(c)
  <2>1. \A d \in Clients : pc[d] \in Failed => pc'[d] \in Failed
    BY <1>0, <1>2 DEF FactoryResolves, TypeOK, Failed
  <2> QED BY <1>2, <2>1, StillNoneStranded DEF FactoryResolves
<1>3. CASE FactoryRejects(c)
  <2>1. pc'[c] = "spawn_failed" /\ waiters' = waiters /\ closed' = closed /\ idle' = idle
    BY <1>0, <1>3 DEF FactoryRejects, TypeOK
  <2> QED BY <2>1 DEF NoneStranded
<1>4. CASE Unlist(c)
  <2>1. \A d \in Clients : pc[d] \in Failed => pc'[d] \in Failed
    BY <1>0, <1>4 DEF Unlist, TypeOK, Failed
  <2> QED BY <1>4, <2>1, StillNoneStranded DEF Unlist, pool
<1>5. CASE SpawnGrants(c)
  <2>1. \A d \in Clients : pc[d] \in Failed => pc'[d] \in Failed
    BY <1>0, <1>5 DEF SpawnGrants, TypeOK, Failed
  <2> QED BY <1>5, <2>1, StillNoneStranded DEF SpawnGrants
<1>6. CASE SpawnFails(c)
  <2>1. PICK calls : Pump(calls, total)
    BY <1>6 DEF SpawnFails
  <2>2. /\ ~closed /\ waiters' # <<>> => total' = MaxWorkers
        /\ waiters = <<>> => waiters' = <<>>
    BY <1>0, <2>1, PumpFacts DEF TypeOK, Queued, CapacityExact
  <2> QED BY <1>6, <2>2 DEF SpawnFails, NoneStranded
<1>7. CASE Granted(c) \/ Configured(c) \/ ConfigureFails(c)
  <2>1. \A d \in Clients : pc[d] \in Failed => pc'[d] \in Failed
    BY <1>0, <1>7 DEF Granted, Configured, ConfigureFails, Drop, TypeOK, Failed
  <2> QED BY <1>7, <2>1, StillNoneStranded DEF Granted, Configured, ConfigureFails
<1> QED BY <1>1, <1>2, <1>3, <1>4, <1>5, <1>6, <1>7 DEF Continues

LEMMA StrandedStep ==
    ASSUME IInv, NoneStranded, [Next]_vars
    PROVE  NoneStranded'
<1> USE DEF workers
<1>0. TypeOK /\ Queued /\ CapacityExact /\ IInv'
  BY StepInv DEF IInv
<1>1. ASSUME NEW c \in Clients, Checkout(c) PROVE NoneStranded'
  BY <1>1, AcquireStranded DEF Checkout
<1>2. ASSUME NEW c \in Clients, TimesOut(c) PROVE NoneStranded'
  <2>1. waiters # <<>> /\ idle' = idle /\ closed' = closed /\ total' = total
    BY SMTT(30), <1>2 DEF TimesOut
  <2>2. \A d \in Clients : pc[d] \in Failed => pc'[d] \in Failed
    BY <1>0, <1>2 DEF TimesOut, TypeOK, Failed
  <2> QED BY <2>1, <2>2 DEF NoneStranded, Failed
<1>3. ASSUME NEW c \in Clients, NEW reusable \in BOOLEAN, Release(c, reusable)
      PROVE  NoneStranded'
  <2>1. CASE Drop(c) /\ UNCHANGED <<idle, waiters, slot>>
    <3>1. \A d \in Clients : pc[d] \in Failed => pc'[d] \in Failed
      BY <1>0, <1>3, <2>1 DEF Release, Drop, TypeOK, Failed
    <3> QED BY <1>3, <2>1, <3>1, StillNoneStranded DEF Release
  <2>2. ASSUME waiters # <<>>, waiters' = Tail(waiters), idle' = idle,
               pc' = [pc EXCEPT ![c] = "out", ![Head(waiters)] = "granted"]
        PROVE  NoneStranded'
    <3>1. pc[Head(waiters)] = "waiting"
      BY <1>0, <2>2, TailFacts DEF TypeOK, Queued
    <3>2. \A d \in Clients : pc[d] \in Failed => pc'[d] \in Failed
      BY <1>0, <1>3, <2>2, <3>1 DEF Release, TypeOK, Failed
    <3> QED BY <1>3, <2>2, <3>2 DEF Release, NoneStranded, Failed
  <2>3. CASE waiters = <<>> /\ waiters' = waiters
    BY <2>3 DEF NoneStranded
  <2> QED BY <1>3, <2>1, <2>2, <2>3 DEF Release
<1>4. ASSUME NEW w \in Workers, Terminated(w) PROVE NoneStranded'
  <2>1. PICK calls : Pump(calls, total - 1) /\ idle' = idle /\ closed' = closed /\ w \in up
    BY <1>4 DEF Terminated, IInv, Pooled
  <2>2. PICK count : count = total - 1
    OBVIOUS
  <2>3. count \in Nat /\ count <= MaxWorkers
    <3>1. Cardinality(up) # 0
      BY <1>0, <2>1, Finite, FS_EmptySet
    <3> QED BY SMTT(30), <1>0, <2>2, <3>1, Finite, SizesAssumption DEF TypeOK, CapacityExact, Spawning
  <2>4. Pump(calls, count)
    BY <2>1, <2>2 DEF Pump
  <2>5. /\ ~closed /\ waiters' # <<>> => total' = MaxWorkers
        /\ waiters = <<>> => waiters' = <<>>
    BY SMTT(30), <1>0, <2>3, <2>4, PumpFacts DEF TypeOK, Queued
  <2> QED BY <2>1, <2>5 DEF NoneStranded
<1>5. CASE Close
  BY <1>5 DEF Close, NoneStranded
<1>6. ASSUME CloseResolves \/ (\E w \in Workers : Dies(w)) \/ UNCHANGED vars
      PROVE  NoneStranded'
  BY <1>6 DEF NoneStranded, CloseResolves, Dies, vars, pool
<1> QED BY <1>1, <1>2, <1>3, <1>4, <1>5, <1>6, ContinuesStranded DEF Next

(* No checkout waits beside an idle worker or beside capacity that nobody  *)
(* is about to hand on.                                                    *)
THEOREM NoneIsStranded == Spec => []NoneStranded
<1>1. IInv /\ NoneStranded /\ [Next]_vars => IInv' /\ NoneStranded'
  BY StepInv, StrandedStep
<1> QED BY InitInv, <1>1, PTL DEF Spec
=============================================================================
