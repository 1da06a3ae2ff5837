-------------------------- MODULE WorkerPool_proofs --------------------------
(***************************************************************************)
(* The worker pool is type correct, its slot count is exact, at most one   *)
(* retry sleeps, the floor is never forgotten and no wakeup is lost, for   *)
(* every pool size and every number of clients.                            *)
(***************************************************************************)
EXTENDS WorkerPool, SequenceFacts

(* A leaf that names no prover is for Zenon.                               *)
USE ZenonT(60)

(* What the handles say about the background work: a dropped Pool is not   *)
(* closing, and once the Arc is gone nobody is inside the pool.            *)
HandlesOK ==
    /\ dropped => closing = 0
    /\ ~inner => dropped /\ OnThread = 0 /\ \A c \in Clients : pc[c] = "out"

IInv == TypeOK /\ HandlesOK /\ SlotAccounting

(* Dropping a Notified leaves a sequence of clients in the wait list.      *)
LEMMA WithoutType ==
    ASSUME NEW S, NEW s \in Seq(S), NEW c
    PROVE  Without(s, c) \in Seq(S)
<1>1. CASE c \notin Members(s)
  BY <1>1 DEF Without
<1>2. CASE c \in Members(s)
  <2>1. PICK i \in DOMAIN s : i = CHOOSE j \in DOMAIN s : s[j] = c
    BY <1>2 DEF Members
  <2>2. Without(s, c) = SubSeq(s, 1, i - 1) \o SubSeq(s, i + 1, Len(s))
    BY <1>2, <2>1 DEF Without
  <2>3. SubSeq(s, 1, i - 1) \in Seq(S) /\ SubSeq(s, i + 1, Len(s)) \in Seq(S)
    BY SMTT(30)
  <2> QED BY SMTT(30), <2>2, <2>3
<1> QED BY <1>1, <1>2

(* The head and the tail of a wait list that is not empty.                 *)
LEMMA HeadTailTypes ==
    ASSUME NEW S, NEW s \in Seq(S), s # <<>>
    PROVE  Head(s) \in S /\ Tail(s) \in Seq(S)
  BY HeadTailProperties

(* notify_one keeps the Notify's state well typed.                         *)
LEMMA NotifyOneTypes ==
    ASSUME TypeOK, NotifyOne
    PROVE  /\ waiters' \in Seq(Clients) /\ permit' \in BOOLEAN
           /\ notified' \subseteq Clients /\ ready' \subseteq Clients
<1>1. CASE waiters = <<>>
  BY <1>1 DEF TypeOK, NotifyOne
<1>2. CASE waiters # <<>>
  BY <1>2, HeadTailTypes DEF TypeOK, NotifyOne
<1> QED BY <1>1, <1>2

(* The three operations of the Notify keep its state well typed.           *)
LEMMA NotifyTypes ==
    ASSUME TypeOK, NEW c \in Clients,
           NotifyOne \/ Enable(c) \/ DropNotified(c) \/ UNCHANGED notifyState
    PROVE  /\ waiters' \in Seq(Clients) /\ permit' \in BOOLEAN
           /\ notified' \subseteq Clients /\ ready' \subseteq Clients
<1>1. CASE NotifyOne
  BY <1>1, NotifyOneTypes
<1>2. CASE Enable(c)
  <2>1. CASE permit
    <3>1. /\ permit' = FALSE /\ ready' = ready \cup {c}
          /\ notified' = notified \ {c} /\ waiters' = waiters
      BY <1>2, <2>1 DEF Enable
    <3> QED BY <3>1 DEF TypeOK
  <2>2. CASE ~permit
    BY SMTT(30), <1>2, <2>2 DEF TypeOK, Enable
  <2> QED BY <2>1, <2>2
<1>3. CASE DropNotified(c)
  <2>1. Without(waiters, c) \in Seq(Clients)
    BY WithoutType DEF TypeOK
  <2>2. CASE waiters = <<>> \/ c \notin notified
    BY <1>3, <2>1, <2>2 DEF TypeOK, DropNotified
  <2>3. CASE waiters # <<>> /\ c \in notified
    BY SMTT(30), <1>3, <2>3, HeadTailTypes DEF TypeOK, DropNotified
  <2> QED BY <2>2, <2>3
<1>4. CASE UNCHANGED notifyState
  BY <1>4 DEF TypeOK, notifyState
<1> QED BY <1>1, <1>2, <1>3, <1>4

(* The number of slot owners is a natural number.                          *)
LEMMA OwnersFinite ==
    /\ IsFiniteSet(Owners) /\ Cardinality(Owners) \in Nat
    /\ (\E c \in Clients : pc[c] \in OwnerPC) => Cardinality(Owners) >= 1
<1>1. IsFiniteSet(Owners) /\ Cardinality(Owners) \in Nat
  BY ClientsFinite, FS_Subset, FS_CardinalityType DEF Owners
<1>2. ASSUME NEW c \in Clients, pc[c] \in OwnerPC
      PROVE  Cardinality(Owners) >= 1
  <2>1. Owners # {}
    BY <1>2 DEF Owners
  <2> QED BY SMTT(30), <1>1, <2>1, FS_EmptySet
<1> QED BY <1>1, <1>2

(* How the number of owners changes when one client takes a step.          *)
LEMMA OwnersStep ==
    ASSUME TypeOK, NEW c \in Clients, NEW x, pc' = [pc EXCEPT ![c] = x]
    PROVE  /\ pc[c] \notin OwnerPC /\ x \in OwnerPC
                => Cardinality(Owners') = Cardinality(Owners) + 1
           /\ pc[c] \in OwnerPC /\ x \notin OwnerPC
                => Cardinality(Owners') = Cardinality(Owners) - 1
           /\ (pc[c] \in OwnerPC <=> x \in OwnerPC)
                => Cardinality(Owners') = Cardinality(Owners)
<1>0. IsFiniteSet(Owners)
  BY OwnersFinite
<1>1. ASSUME pc[c] \notin OwnerPC, x \in OwnerPC
      PROVE  Cardinality(Owners') = Cardinality(Owners) + 1
  <2>1. Owners' = Owners \cup {c} /\ c \notin Owners
    BY <1>1 DEF Owners, TypeOK
  <2> QED BY <1>0, <2>1, FS_AddElement
<1>2. ASSUME pc[c] \in OwnerPC, x \notin OwnerPC
      PROVE  Cardinality(Owners') = Cardinality(Owners) - 1
  <2>1. Owners' = Owners \ {c} /\ c \in Owners
    BY <1>2 DEF Owners, TypeOK
  <2> QED BY <1>0, <2>1, FS_RemoveElement
<1>3. ASSUME pc[c] \in OwnerPC <=> x \in OwnerPC
      PROVE  Cardinality(Owners') = Cardinality(Owners)
  <2>1. Owners' = Owners
    BY <1>3 DEF Owners, TypeOK
  <2> QED BY <2>1
<1> QED BY <1>1, <1>2, <1>3

-----------------------------------------------------------------------------
(* The background slots are a natural number too.                          *)
LEMMA InFlightType ==
    ASSUME TypeOK
    PROVE  InFlight \in Nat /\ OnThread \in Nat /\ InFlight >= bgDec /\ InFlight >= closing
  BY SMTT(30) DEF TypeOK, InFlight, OnThread

(* The floor is within max_processes; the transport is chosen at the start *)
(* and no step changes it.                                                 *)
LEMMA FloorType == Floor \in Nat /\ Floor <= MaxProcesses
<1>1. CASE Remote
  BY SMTT(30), <1>1, SizeAssumption DEF Floor
<1>2. CASE ~Remote
  BY SMTT(30), <1>2, SizeAssumption DEF Floor
<1> QED BY <1>1, <1>2

LEMMA TransportFixed ==
    ASSUME [Next]_vars
    PROVE  Remote' = Remote /\ Floor' = Floor
<1> SUFFICES transport' = transport
  BY DEF Remote, Floor
<1> USE DEF handles
<1>1. ASSUME NEW c \in Clients, NewCheckout(c) \/ Acquire(c) \/ GiveUp(c)
      PROVE  transport' = transport
  BY <1>1 DEF NewCheckout, Acquire, Reuse, Reserve, Full, TopUp, SpawnOk, SpawnFail, Wake,
              GiveUp, Exhausted, Cancel
<1>2. ASSUME NEW c \in Clients, Leave(c) \/ Release(c)
      PROVE  transport' = transport
  BY <1>2 DEF Leave, FinishIdle, FinishRecycle, FinishRemote, Discard, Release, ReleaseDec,
              ReleaseNotify, ReleaseReplenish
<1>3. CASE Background
  BY <1>3 DEF Background, RefillOk, RefillErr, RefillFailed, RetryFires, StreamEnded, Orphaned,
              BgDec, BgNotify, BgPushed, BgReplenish, Reaped
<1>4. CASE Close \/ DropPool \/ DropInner \/ \E i \in DOMAIN idle : IdleDeath(i)
  BY <1>4 DEF Close, DropPool, DropInner, IdleDeath
<1>5. CASE UNCHANGED vars
  BY <1>5 DEF vars
<1> QED BY <1>1, <1>2, <1>3, <1>4, <1>5 DEF Next

(* A new pool has reserved exactly the slots its first refills hold.       *)
LEMMA InitIInv == Init => IInv
<1> SUFFICES ASSUME Init PROVE IInv
  OBVIOUS
<1>0. Floor \in Nat /\ Floor <= MaxProcesses
  BY FloorType
<1>1. idle \in Seq(Worker) /\ Len(idle) = Floor
  BY SMTT(30), <1>0 DEF Init, Fresh, Worker
<1>2. TypeOK
  <2>1. pc \in [Clients -> PC] /\ held \in [Clients -> Worker]
    BY DEF Init, PC, NoWorker, Worker
  <2>2. waiters \in Seq(Clients) /\ notified \subseteq Clients /\ ready \subseteq Clients
    BY SMTT(30) DEF Init
  <2>3. total \in 0..MaxProcesses
    BY SMTT(30), <1>0, SizeAssumption DEF Init
  <2> QED BY <1>1, <2>1, <2>2, <2>3 DEF Init, TypeOK
<1>3. Owners = {}
  BY DEF Init, Owners, OwnerPC
<1>4. Cardinality(Owners) = 0
  BY <1>3, FS_EmptySet
<1>5. SlotAccounting
  BY SMTT(30), <1>0, <1>1, <1>4 DEF Init, SlotAccounting, Slots, InFlight
<1> QED BY <1>2, <1>5 DEF Init, IInv, HandlesOK

(* Some client is not "out", or some background release is under way, only *)
(* while the Arc is alive; then the count is exact.                        *)
LEMMA Busy ==
    ASSUME IInv, (\E c \in Clients : pc[c] # "out") \/ OnThread > 0 \/ closing > 0 \/ inner
    PROVE  /\ inner /\ total = Slots
           /\ Len(idle) \in Nat /\ Cardinality(Owners) \in Nat
  BY SMTT(30), OwnersFinite, LenProperties DEF IInv, HandlesOK, SlotAccounting, TypeOK, OnThread

(* A step that only moves one client, without changing who owns a slot.    *)
LEMMA ClientMove ==
    ASSUME IInv, NEW c \in Clients, NEW x \in PC,
           pc' = [pc EXCEPT ![c] = x], pc[c] \in OwnerPC <=> x \in OwnerPC,
           pc[c] # "out" \/ ~dropped,
           held' \in [Clients -> Worker],
           NotifyOne \/ Enable(c) \/ DropNotified(c) \/ UNCHANGED notifyState,
           UNCHANGED <<poolState, bgState, handles>>
    PROVE  IInv'
<1>0. TypeOK /\ HandlesOK
  BY DEF IInv
<1>1. TypeOK'
  BY <1>0, NotifyTypes DEF TypeOK, poolState, bgState, handles
<1>2. Cardinality(Owners') = Cardinality(Owners)
  BY <1>0, OwnersStep
<1>3. SlotAccounting'
  BY <1>2 DEF IInv, SlotAccounting, Slots, InFlight, poolState, bgState, handles
<1>4. HandlesOK'
  BY <1>0 DEF HandlesOK, OnThread, TypeOK, bgState, handles
<1> QED BY <1>1, <1>3, <1>4 DEF IInv

(* Popping the last live idle worker, and the dead ones above it.          *)
LEMMA ReuseIInv ==
    ASSUME IInv, NEW c \in Clients, Reuse(c)
    PROVE  IInv'
<1> USE DEF IInv
<1>0. inner /\ total = Slots /\ Len(idle) \in Nat /\ Cardinality(Owners) \in Nat
  BY Busy DEF Reuse
<1>a. DOMAIN idle = 1..Len(idle)
  BY SMTT(30) DEF TypeOK
<1>1. PICK k \in 1..Len(idle) :
          /\ idle' = SubSeq(idle, 1, k - 1)
          /\ total' = total - (Len(idle) - k)
          /\ held' = [held EXCEPT ![c] = idle[k]]
          /\ IF k < Len(idle)
             THEN pc' = [pc EXCEPT ![c] = "topup"] /\ UNCHANGED notifyState
             ELSE pc' = [pc EXCEPT ![c] = "holding"] /\ DropNotified(c)
  BY <1>a DEF Reuse
<1>2. k \in 1..Len(idle) /\ idle[k] \in Worker
      /\ SubSeq(idle, 1, k - 1) \in Seq(Worker) /\ Len(idle') = k - 1
  BY SMTT(30), <1>1 DEF TypeOK
<1>3. PICK x \in {"topup", "holding"} : pc' = [pc EXCEPT ![c] = x]
  BY <1>1
<1>4. Cardinality(Owners') = Cardinality(Owners) + 1
  BY <1>3, OwnersStep DEF Reuse, OwnerPC
<1>5. total' \in 0..MaxProcesses /\ total' = Slots'
  <2>1. InFlight' = InFlight /\ InFlight \in Nat
    BY InFlightType DEF Reuse, bgState, InFlight
  <2>2. Slots' = (k - 1) + (Cardinality(Owners) + 1) + InFlight
    BY <1>2, <1>4, <2>1 DEF Slots
  <2>3. total = Len(idle) + Cardinality(Owners) + InFlight
    BY <1>0 DEF Slots
  <2>4. total \in 0..MaxProcesses
    BY DEF TypeOK
  <2>5. total' = total - (Len(idle) - k) /\ k \in 1..Len(idle)
    BY <1>1, <1>2
  <2> QED BY SMTT(30), <1>0, <2>1, <2>2, <2>3, <2>4, <2>5, SizeAssumption
<1>6. waiters' \in Seq(Clients) /\ permit' \in BOOLEAN
      /\ notified' \subseteq Clients /\ ready' \subseteq Clients
  BY <1>1, NotifyTypes
<1>7. TypeOK'
  BY <1>1, <1>2, <1>3, <1>5, <1>6 DEF Reuse, TypeOK, bgState, handles, PC
<1>8. HandlesOK'
  BY <1>0 DEF Reuse, HandlesOK, bgState, handles
<1> QED BY <1>5, <1>7, <1>8 DEF SlotAccounting

(* How far a step moves the idle, owned and background slots, with `total` *)
(* following.                                                              *)
Shift(a, b, f) ==
    /\ a \in Int /\ b \in Int /\ f \in Int
    /\ Len(idle') = Len(idle) + a
    /\ Cardinality(Owners') = Cardinality(Owners) + b
    /\ InFlight' = InFlight + f
    /\ total' = total + (a + b + f)

(* Such a step keeps the count exact.                                      *)
LEMMA CountStep ==
    ASSUME IInv, inner, TypeOK', HandlesOK', NEW a, NEW b, NEW f, Shift(a, b, f)
    PROVE  IInv'
<1>1. total = Slots /\ Len(idle) \in Nat /\ Cardinality(Owners) \in Nat
  BY Busy
<1>2. InFlight \in Nat
  BY InFlightType DEF IInv
<1>3. total = Len(idle) + Cardinality(Owners) + InFlight
  BY <1>1 DEF Slots
<1>4. Slots' = (Len(idle) + a) + (Cardinality(Owners) + b) + (InFlight + f)
  BY DEF Slots, Shift
<1>5. total' = Slots'
  BY SMTT(30), <1>1, <1>2, <1>3, <1>4 DEF Shift
<1> QED BY <1>5 DEF IInv, SlotAccounting

(* Reserving a slot under max_processes for a spawn of one's own.          *)
LEMMA ReserveIInv ==
    ASSUME IInv, NEW c \in Clients, Reserve(c)
    PROVE  IInv'
<1>0. /\ TypeOK /\ HandlesOK /\ inner
      /\ Len(idle) \in Nat /\ Cardinality(Owners) \in Nat /\ total = Slots
  BY Busy DEF Reserve, IInv
<1>1. PICK d \in {0, Len(idle)} :
          /\ total - d < MaxProcesses /\ total' = total - d + 1
          /\ idle' \in {idle, <<>>} /\ Len(idle') = Len(idle) - d
          /\ \E x \in {"topup", "spawning"} : pc' = [pc EXCEPT ![c] = x]
  <2>1. CASE Remote
    BY SMTT(30), <1>0, <2>1 DEF Reserve
  <2>2. CASE ~Remote
    <3>1. idle' = <<>> /\ Len(idle') = Len(idle) - Len(idle)
      BY SMTT(30), <1>0, <2>2 DEF Reserve
    <3> QED BY <1>0, <2>2, <3>1 DEF Reserve
  <2> QED BY <2>1, <2>2
<1>2. PICK x \in {"topup", "spawning"} : pc' = [pc EXCEPT ![c] = x]
  BY <1>1
<1>3. Cardinality(Owners') = Cardinality(Owners) + 1
  BY <1>0, <1>2, OwnersStep DEF Reserve, OwnerPC
<1>4. InFlight' = InFlight /\ InFlight \in Nat
  BY <1>0, InFlightType DEF Reserve, bgState, InFlight
<1>5. total' \in 0..MaxProcesses
  <2>1. total = Len(idle) + Cardinality(Owners) + InFlight /\ InFlight \in Nat
    BY <1>0, InFlightType DEF Slots
  <2>2. total \in Nat /\ total >= Len(idle)
    BY SMTT(30), <1>0, <2>1
  <2> QED BY SMTT(30), <1>0, <1>1, <2>2, SizeAssumption
<1>6. TypeOK'
  <2>1. idle' \in Seq(Worker)
    <3>1. <<>> \in Seq(Worker) /\ idle \in Seq(Worker)
      BY SMTT(30), <1>0 DEF TypeOK
    <3> QED BY <1>1, <3>1
  <2>2. pc' \in [Clients -> PC]
    BY <1>0, <1>2 DEF TypeOK, PC
  <2> QED BY <1>0, <1>5, <2>1, <2>2 DEF Reserve, TypeOK, notifyState, bgState, handles
<1>7. HandlesOK'
  BY <1>0 DEF Reserve, HandlesOK, bgState, handles
<1>8. Shift(0 - d, 1, 0)
  <2>1. total \in Nat
    BY SMTT(30), <1>0 DEF TypeOK
  <2> QED BY SMTT(30), <1>0, <1>1, <1>3, <1>4, <2>1 DEF Shift
<1> QED BY <1>0, <1>6, <1>7, <1>8, CountStep

(* replenish reserves up to the floor, which is within max_processes.      *)
LEMMA ReplenishStep ==
    ASSUME TypeOK, Replenish, UNCHANGED <<failing, closing, draining, bgDec>>
    PROVE  /\ Wanted \in Nat /\ total' = total + Wanted /\ InFlight' = InFlight + Wanted
           /\ total' \in 0..MaxProcesses /\ refilling' \in Nat
<1>1. Wanted \in Nat /\ total + Wanted \in 0..MaxProcesses
  BY SMTT(30), SizeAssumption DEF TypeOK, Wanted
<1>2. InFlight' = InFlight + Wanted
  BY SMTT(30), <1>1 DEF TypeOK, Replenish, InFlight
<1> QED BY SMTT(30), <1>1, <1>2 DEF TypeOK, Replenish

(* The replenish that follows the popping of dead workers.                 *)
LEMMA TopUpIInv ==
    ASSUME IInv, NEW c \in Clients, TopUp(c)
    PROVE  IInv'
<1>0. TypeOK /\ HandlesOK /\ inner /\ Len(idle) \in Nat /\ Cardinality(Owners) \in Nat
  BY Busy DEF TopUp, IInv
<1>1. PICK x \in {"holding", "spawning"} : pc' = [pc EXCEPT ![c] = x]
  BY DEF TopUp
<1>2. Cardinality(Owners') = Cardinality(Owners)
  BY <1>0, <1>1, OwnersStep DEF TopUp, OwnerPC
<1>3. /\ Wanted \in Nat /\ total' = total + Wanted /\ InFlight' = InFlight + Wanted
      /\ total' \in 0..MaxProcesses /\ refilling' \in Nat
  BY <1>0, ReplenishStep DEF TopUp
<1>4. TypeOK'
  BY <1>0, <1>1, <1>3, NotifyTypes DEF TopUp, TypeOK, handles, PC
<1>5. HandlesOK'
  BY <1>0 DEF TopUp, HandlesOK, handles
<1>6. total \in Nat /\ InFlight \in Nat /\ Len(idle') = Len(idle)
  BY SMTT(30), <1>0, InFlightType DEF TopUp, TypeOK
<1>7. Shift(0, 0, Wanted)
  BY SMTT(30), <1>0, <1>2, <1>3, <1>6 DEF Shift
<1> QED BY <1>0, <1>4, <1>5, <1>7, CountStep

(* Every step of acquire_worker_inner keeps the invariant.                 *)
LEMMA AcquireIInv ==
    ASSUME IInv, NEW c \in Clients, NewCheckout(c) \/ Acquire(c) \/ GiveUp(c)
    PROVE  IInv'
<1>1. CASE NewCheckout(c)
  BY <1>1, ClientMove DEF NewCheckout, PC, OwnerPC, IInv, TypeOK
<1>2. CASE Full(c)
  BY <1>2, ClientMove DEF Full, PC, OwnerPC, IInv, TypeOK
<1>3. CASE SpawnOk(c)
  <2>1. held' \in [Clients -> Worker]
    BY <1>3 DEF SpawnOk, IInv, TypeOK, Fresh, Worker
  <2> QED BY <1>3, <2>1, ClientMove DEF SpawnOk, PC, OwnerPC
<1>4. CASE SpawnFail(c)
  BY <1>4, ClientMove DEF SpawnFail, PC, OwnerPC, IInv, TypeOK
<1>5. CASE Wake(c)
  BY <1>5, ClientMove DEF Wake, PC, OwnerPC, IInv, TypeOK
<1>6. CASE GiveUp(c)
  BY <1>6, ClientMove DEF GiveUp, Exhausted, Cancel, PC, OwnerPC, IInv, TypeOK
<1> QED BY <1>1, <1>2, <1>3, <1>4, <1>5, <1>6, ReuseIInv, ReserveIInv, TopUpIInv DEF Acquire

(* The worker goes back to the idle queue, or its slot to a stream.        *)
LEMMA LeaveIInv ==
    ASSUME IInv, NEW c \in Clients, Leave(c)
    PROVE  IInv'
<1>0. /\ TypeOK /\ HandlesOK /\ inner /\ Len(idle) \in Nat /\ Cardinality(Owners) \in Nat
      /\ InFlight \in Nat /\ total \in Nat /\ draining \in Nat
  BY SMTT(30), Busy, InFlightType DEF Leave, FinishIdle, FinishRecycle, FinishRemote, Discard, IInv, TypeOK
<1>1. held' \in [Clients -> Worker]
  <2>1. held' = [held EXCEPT ![c] = NoWorker] /\ NoWorker \in Worker
    BY DEF Leave, FinishIdle, FinishRecycle, FinishRemote, Discard, NoWorker, Worker
  <2> QED BY <1>0, <2>1 DEF TypeOK
<1>2. CASE FinishIdle(c)
  <2>1. Served(held[c]) \in Nat /\ held[c] \in Worker
    BY SMTT(30), <1>0 DEF TypeOK, Served, Worker
  <2>2. [held[c] EXCEPT !.served = Served(held[c])] \in Worker
    BY <2>1 DEF Worker
  <2>3. idle' \in Seq(Worker) /\ Len(idle') = Len(idle) + 1
    BY SMTT(30), <1>0, <1>2, <2>2 DEF FinishIdle, TypeOK
  <2>4. Cardinality(Owners') = Cardinality(Owners) - 1
    <3>1. pc' = [pc EXCEPT ![c] = "pushed"] /\ pc[c] \in OwnerPC /\ "pushed" \notin OwnerPC
      BY <1>2 DEF FinishIdle, OwnerPC
    <3> QED BY <1>0, <3>1, OwnersStep
  <2>5. InFlight' = InFlight /\ total' = total
    BY <1>2 DEF FinishIdle, InFlight, bgState
  <2>6. Shift(1, -1, 0)
    BY SMTT(30), <1>0, <2>3, <2>4, <2>5 DEF Shift
  <2>7. TypeOK'
    BY <1>0, <1>1, <1>2, <2>3 DEF FinishIdle, TypeOK, PC, notifyState, bgState, handles
  <2>8. HandlesOK'
    BY <1>0, <1>2 DEF FinishIdle, HandlesOK, bgState, handles
  <2> QED BY <1>0, <2>6, <2>7, <2>8, CountStep
<1>3. CASE FinishRemote(c)
  <2>1. Cardinality(Owners') = Cardinality(Owners) - 1
    <3>1. pc' = [pc EXCEPT ![c] = "out"] /\ pc[c] \in OwnerPC /\ "out" \notin OwnerPC
      BY <1>3 DEF FinishRemote, OwnerPC
    <3> QED BY <1>0, <3>1, OwnersStep
  <2>2. InFlight' = InFlight + 1 /\ total' = total /\ idle' = idle
    BY SMTT(30), <1>0, <1>3 DEF FinishRemote, InFlight, poolState, TypeOK
  <2>3. Shift(0, -1, 1)
    BY SMTT(30), <1>0, <2>1, <2>2 DEF Shift
  <2>4. TypeOK'
    BY SMTT(30), <1>0, <1>1, <1>3 DEF FinishRemote, TypeOK, PC, poolState, notifyState, handles
  <2>5. HandlesOK'
    BY <1>0, <1>3 DEF FinishRemote, HandlesOK, handles
  <2> QED BY <1>0, <2>3, <2>4, <2>5, CountStep
<1>4. CASE FinishRecycle(c) \/ Discard(c)
  BY <1>1, <1>4, ClientMove DEF FinishRecycle, Discard, PC, OwnerPC
<1> QED BY <1>2, <1>3, <1>4 DEF Leave

(* release_capacity on a client's thread.                                  *)
LEMMA ReleaseIInv ==
    ASSUME IInv, NEW c \in Clients, Release(c)
    PROVE  IInv'
<1>0. /\ TypeOK /\ HandlesOK /\ inner /\ Len(idle) \in Nat /\ Cardinality(Owners) \in Nat
      /\ InFlight \in Nat /\ total \in Nat /\ total = Slots
  BY SMTT(30), Busy, InFlightType DEF Release, ReleaseDec, ReleaseNotify, ReleaseReplenish, IInv, TypeOK
<1>1. CASE ReleaseDec(c)
  <2>1. Cardinality(Owners') = Cardinality(Owners) - 1
    <3>1. pc' = [pc EXCEPT ![c] = "notify"] /\ pc[c] \in OwnerPC /\ "notify" \notin OwnerPC
      BY <1>1 DEF ReleaseDec, OwnerPC
    <3> QED BY <1>0, <3>1, OwnersStep
  <2>2. InFlight' = InFlight /\ total' = total - 1 /\ idle' = idle
    BY <1>0, <1>1 DEF ReleaseDec, InFlight, bgState
  <2>3. Shift(0, -1, 0)
    BY SMTT(30), <1>0, <2>1, <2>2 DEF Shift
  <2>4. Cardinality(Owners) >= 1
    BY <1>1, OwnersFinite DEF ReleaseDec, OwnerPC
  <2>5. total' \in 0..MaxProcesses
    <3>1. total >= 1 /\ total <= MaxProcesses
      BY SMTT(30), <1>0, <2>4 DEF Slots, TypeOK
    <3> QED BY SMTT(30), <1>0, <2>2, <3>1, SizeAssumption
  <2>6. TypeOK'
    BY <1>0, <1>1, <2>5 DEF ReleaseDec, TypeOK, PC, notifyState, bgState, handles
  <2>7. HandlesOK'
    BY <1>0, <1>1 DEF ReleaseDec, HandlesOK, bgState, handles
  <2> QED BY <1>0, <2>3, <2>6, <2>7, CountStep
<1>2. CASE ReleaseNotify(c)
  <2>1. PICK x \in {"replenish", "out"} : pc' = [pc EXCEPT ![c] = x]
    BY <1>2 DEF ReleaseNotify
  <2> QED BY <1>0, <1>2, <2>1, ClientMove DEF ReleaseNotify, PC, OwnerPC, TypeOK
<1>3. CASE ReleaseReplenish(c)
  <2>1. /\ Wanted \in Nat /\ total' = total + Wanted /\ InFlight' = InFlight + Wanted
        /\ total' \in 0..MaxProcesses /\ refilling' \in Nat
    BY <1>0, <1>3, ReplenishStep DEF ReleaseReplenish
  <2>2. Cardinality(Owners') = Cardinality(Owners)
    <3>1. pc' = [pc EXCEPT ![c] = "out"] /\ pc[c] \notin OwnerPC /\ "out" \notin OwnerPC
      BY <1>3 DEF ReleaseReplenish, OwnerPC
    <3> QED BY <1>0, <3>1, OwnersStep
  <2>3. Shift(0, 0, Wanted)
    BY SMTT(30), <1>0, <1>3, <2>1, <2>2 DEF ReleaseReplenish, Shift
  <2>4. TypeOK'
    BY <1>0, <1>3, <2>1, NotifyTypes DEF ReleaseReplenish, TypeOK, PC, handles
  <2>5. HandlesOK'
    BY <1>0, <1>3 DEF ReleaseReplenish, HandlesOK, handles
  <2> QED BY <1>0, <2>3, <2>4, <2>5, CountStep
<1> QED BY <1>1, <1>2, <1>3 DEF Release

(* Background steps: no client moves, and only an open Arc is at work.     *)
LEMMA BackgroundIInv ==
    ASSUME IInv, Background
    PROVE  IInv'
<1>0. /\ TypeOK /\ HandlesOK /\ Len(idle) \in Nat /\ InFlight \in Nat /\ total \in Nat
      /\ Cardinality(Owners) \in Nat
  BY SMTT(30), OwnersFinite, InFlightType, LenProperties DEF IInv, TypeOK
<1>1. Cardinality(Owners') = Cardinality(Owners) /\ UNCHANGED <<pc, handles>>
  <2>1. UNCHANGED <<pc, handles>>
    BY DEF Background, RefillOk, RefillErr, RefillFailed, RetryFires, StreamEnded, Orphaned,
           BgDec, BgNotify, BgPushed, BgReplenish, Reaped, clientState
  <2> QED BY <2>1 DEF Owners
<1>2. ASSUME inner, TypeOK', closing' <= closing, NEW a, NEW f, Shift(a, 0, f)
      PROVE  IInv'
  <2>1. HandlesOK'
    BY SMTT(30), <1>0, <1>1, <1>2 DEF HandlesOK, handles, TypeOK
  <2> QED BY <1>2, <2>1, CountStep
<1>3. CASE RefillOk
  <2>1. CASE closed
    <3>1. InFlight' = InFlight /\ total' = total /\ idle' = idle
      BY SMTT(30), <1>0, <1>3, <2>1 DEF RefillOk, InFlight, TypeOK
    <3>2. Shift(0, 0, 0)
      BY SMTT(30), <1>0, <1>1, <3>1 DEF Shift
    <3>3. TypeOK'
      BY SMTT(30), <1>0, <1>3, <2>1 DEF RefillOk, TypeOK, notifyState, clientState, handles
    <3>4. inner /\ closing' <= closing
      BY SMTT(30), <1>0, <1>3 DEF RefillOk, TypeOK
    <3> QED BY <1>2, <3>2, <3>3, <3>4
  <2>2. CASE ~closed
    <3>0. Fresh \in Worker
      BY DEF Fresh, Worker
    <3>1. InFlight' = InFlight + (-1) /\ total' = total
      BY SMTT(30), <1>0, <1>3, <2>2 DEF RefillOk, InFlight, TypeOK
    <3>2. idle' \in Seq(Worker) /\ Len(idle') = Len(idle) + 1
      <4>1. idle' = Append(idle, Fresh) /\ idle \in Seq(Worker)
        BY <1>0, <1>3, <2>2 DEF RefillOk, TypeOK
      <4> QED BY SMTT(30), <3>0, <4>1
    <3>3. Shift(1, 0, -1)
      BY SMTT(30), <1>0, <1>1, <3>1, <3>2 DEF Shift
    <3>4. TypeOK'
      BY SMTT(30), <1>0, <1>3, <2>2, <3>2 DEF RefillOk, TypeOK, notifyState, clientState, handles
    <3>5. inner /\ closing' <= closing
      BY SMTT(30), <1>0, <1>3 DEF RefillOk, TypeOK
    <3> QED BY <1>2, <3>3, <3>4, <3>5
  <2> QED BY <2>1, <2>2
<1>4. CASE RefillErr \/ RefillFailed \/ StreamEnded \/ Reaped \/ RetryFires \/ BgNotify \/ BgPushed
  <2>1. InFlight' = InFlight /\ total' = total /\ idle' = idle
    <3>1. CASE RefillErr
      <4>1. CASE closed
        BY SMTT(30), <1>0, <3>1, <4>1 DEF RefillErr, InFlight, TypeOK, poolState
      <4>2. CASE ~closed
        BY SMTT(30), <1>0, <3>1, <4>2 DEF RefillErr, InFlight, TypeOK, poolState
      <4> QED BY <4>1, <4>2
    <3>2. CASE RefillFailed
      BY SMTT(30), <1>0, <3>2 DEF RefillFailed, InFlight, TypeOK
    <3>3. CASE StreamEnded
      BY SMTT(30), <1>0, <3>3 DEF StreamEnded, InFlight, TypeOK, poolState
    <3>4. CASE Reaped
      BY SMTT(30), <1>0, <3>4 DEF Reaped, InFlight, TypeOK, poolState
    <3>5. CASE RetryFires
      BY <1>0, <3>5 DEF RetryFires, InFlight, TypeOK
    <3>6. CASE BgNotify
      BY <1>0, <3>6 DEF BgNotify, InFlight, TypeOK, poolState
    <3>7. CASE BgPushed
      BY <1>0, <3>7 DEF BgPushed, InFlight, TypeOK, poolState
    <3> QED BY <1>4, <3>1, <3>2, <3>3, <3>4, <3>5, <3>6, <3>7
  <2>2. Shift(0, 0, 0)
    BY SMTT(30), <1>0, <1>1, <2>1 DEF Shift
  <2>3. TypeOK'
    <3>1. CASE RefillErr
      BY SMTT(30), <1>0, <3>1 DEF RefillErr, TypeOK, poolState, notifyState, clientState, handles
    <3>2. CASE RefillFailed
      BY SMTT(30), <1>0, <3>2 DEF RefillFailed, TypeOK, notifyState, clientState, handles
    <3>3. CASE StreamEnded
      BY SMTT(30), <1>0, <3>3 DEF StreamEnded, TypeOK, poolState, notifyState, clientState, handles
    <3>4. CASE Reaped
      BY SMTT(30), <1>0, <3>4 DEF Reaped, TypeOK, poolState, notifyState, clientState, handles
    <3>5. CASE RetryFires
      <4>1. retry_at' \in BOOLEAN
        BY <3>5 DEF RetryFires
      <4>2. armed' \in Nat /\ bgReplenish' \in Nat
        BY SMTT(30), <1>0, <3>5 DEF RetryFires, TypeOK
      <4> QED BY <1>0, <3>5, <4>1, <4>2 DEF RetryFires, TypeOK, notifyState, clientState, handles
    <3>6. CASE BgNotify
      <4>1. /\ waiters' \in Seq(Clients) /\ permit' \in BOOLEAN
            /\ notified' \subseteq Clients /\ ready' \subseteq Clients
        BY <1>0, <3>6, NotifyOneTypes DEF BgNotify
      <4> QED BY SMTT(30), <1>0, <3>6, <4>1 DEF BgNotify, TypeOK, poolState, clientState, handles
    <3>7. CASE BgPushed
      <4>1. /\ waiters' \in Seq(Clients) /\ permit' \in BOOLEAN
            /\ notified' \subseteq Clients /\ ready' \subseteq Clients
        BY <1>0, <3>7, NotifyOneTypes DEF BgPushed
      <4> QED BY SMTT(30), <1>0, <3>7, <4>1 DEF BgPushed, TypeOK, poolState, clientState, handles
    <3> QED BY <1>4, <3>1, <3>2, <3>3, <3>4, <3>5, <3>6, <3>7
  <2>4. closing' <= closing
    BY SMTT(30), <1>0, <1>4 DEF RefillErr, RefillFailed, StreamEnded, Reaped, RetryFires, BgNotify, BgPushed, TypeOK
  <2>5. inner
    <3>1. OnThread > 0 \/ closing > 0 \/ inner
      BY SMTT(30), <1>0, <1>4 DEF RefillErr, RefillFailed, StreamEnded, Reaped, RetryFires, BgNotify, BgPushed,
                        TypeOK, OnThread
    <3> QED BY <3>1, Busy
  <2> QED BY <1>2, <2>2, <2>3, <2>4, <2>5
<1>5. CASE BgDec
  <2>1. OnThread > 0 /\ bgDec \in Nat /\ bgDec > 0
    BY SMTT(30), <1>0, <1>5 DEF BgDec, TypeOK, OnThread
  <2>2. inner /\ total = Len(idle) + Cardinality(Owners) + InFlight
    BY <2>1, Busy DEF Slots
  <2>3. InFlight' = InFlight + (-1) /\ InFlight >= 1 /\ total' = total - 1 /\ idle' = idle
    BY SMTT(30), <1>0, <1>5 DEF BgDec, InFlight, TypeOK
  <2>4. Shift(0, 0, -1)
    BY SMTT(30), <1>0, <1>1, <2>3 DEF Shift
  <2>5. total' \in 0..MaxProcesses
    <3>1. total >= 1 /\ total <= MaxProcesses
      BY SMTT(30), <1>0, <2>2, <2>3 DEF TypeOK
    <3> QED BY SMTT(30), <1>0, <2>3, <3>1, SizeAssumption
  <2>6. TypeOK'
    BY SMTT(30), <1>0, <1>5, <2>5 DEF BgDec, TypeOK, notifyState, clientState, handles
  <2>7. closing' <= closing
    BY SMTT(30), <1>0, <1>5 DEF BgDec, TypeOK
  <2> QED BY <1>2, <2>2, <2>4, <2>6, <2>7
<1>6. CASE BgReplenish
  <2>1. /\ Wanted \in Nat /\ total' = total + Wanted /\ InFlight' = InFlight + Wanted
        /\ total' \in 0..MaxProcesses /\ refilling' \in Nat
    BY <1>0, <1>6, ReplenishStep DEF BgReplenish
  <2>2. Shift(0, 0, Wanted)
    BY SMTT(30), <1>0, <1>1, <1>6, <2>1 DEF BgReplenish, Shift
  <2>3. TypeOK'
    BY SMTT(30), <1>0, <1>6, <2>1 DEF BgReplenish, TypeOK, notifyState, clientState, handles
  <2>4. closing' <= closing
    BY SMTT(30), <1>0, <1>6 DEF BgReplenish, TypeOK
  <2>5. inner
    <3>1. OnThread > 0
      BY SMTT(30), <1>0, <1>6 DEF BgReplenish, TypeOK, OnThread
    <3> QED BY <3>1, Busy
  <2> QED BY <1>2, <2>2, <2>3, <2>4, <2>5
<1>7. CASE Orphaned
  <2>1. TypeOK'
    BY SMTT(30), <1>0, <1>7 DEF Orphaned, TypeOK, poolState, notifyState, clientState, handles
  <2>2. HandlesOK' /\ SlotAccounting'
    BY <1>0, <1>7 DEF Orphaned, HandlesOK, SlotAccounting, OnThread, clientState, handles
  <2> QED BY <2>1, <2>2 DEF IInv
<1> QED BY <1>3, <1>4, <1>5, <1>6, <1>7 DEF Background

(* Idle deaths, close and the two drops.                                   *)
LEMMA HandlesIInv ==
    ASSUME IInv, (\E i \in DOMAIN idle : IdleDeath(i)) \/ Close \/ DropPool \/ DropInner
    PROVE  IInv'
<1>0. /\ TypeOK /\ HandlesOK /\ SlotAccounting /\ Len(idle) \in Nat /\ InFlight \in Nat
      /\ total \in Nat /\ idle \in Seq(Worker) /\ Cardinality(Owners) \in Nat
  BY SMTT(30), OwnersFinite, InFlightType, LenProperties DEF IInv, TypeOK
<1>1. Cardinality(Owners') = Cardinality(Owners) /\ pc' = pc
  <2>1. pc' = pc
    BY DEF IdleDeath, Close, DropPool, DropInner, clientState
  <2> QED BY <2>1 DEF Owners
<1>2. ASSUME NEW i \in DOMAIN idle, IdleDeath(i)
      PROVE  IInv'
  <2>1. idle' = [idle EXCEPT ![i] = [idle[i] EXCEPT !.alive = FALSE]]
    BY <1>2 DEF IdleDeath
  <2>2. [idle[i] EXCEPT !.alive = FALSE] \in Worker
    <3>1. idle[i] \in Worker
      BY SMTT(30), <1>0
    <3> QED BY <3>1 DEF Worker
  <2>3. idle' \in Seq(Worker) /\ Len(idle') = Len(idle)
    BY SMTT(30), <1>0, <2>1, <2>2
  <2>4. TypeOK'
    BY <1>0, <1>2, <2>3 DEF IdleDeath, TypeOK, notifyState, clientState, bgState, handles
  <2>5. SlotAccounting'
    BY <1>0, <1>1, <1>2, <2>3 DEF IdleDeath, SlotAccounting, Slots, InFlight, bgState, handles
  <2>6. HandlesOK'
    BY <1>0, <1>1, <1>2 DEF IdleDeath, HandlesOK, OnThread, bgState, handles
  <2> QED BY <2>4, <2>5, <2>6 DEF IInv
<1>3. CASE Close
  <2>1. inner
    BY <1>0, <1>3 DEF Close, HandlesOK
  <2>2. Len(idle') = Len(idle) + (0 - Len(idle)) /\ idle' = <<>> /\ total' = total
    BY SMTT(30), <1>0, <1>3 DEF Close
  <2>3. InFlight' = InFlight + Len(idle)
    BY SMTT(30), <1>0, <1>3 DEF Close, InFlight, TypeOK
  <2>4. Shift(0 - Len(idle), 0, Len(idle))
    BY SMTT(30), <1>0, <1>1, <2>2, <2>3 DEF Shift
  <2>5. TypeOK'
    <3>1. idle' \in Seq(Worker)
      BY SMTT(30), <2>2
    <3>2. closed' \in BOOLEAN
      BY <1>3 DEF Close
    <3>3. closing' \in Nat
      BY SMTT(30), <1>0, <1>3 DEF Close, TypeOK
    <3> QED BY <1>0, <1>3, <3>1, <3>2, <3>3 DEF Close, TypeOK, notifyState, clientState, handles
  <2>6. HandlesOK'
    BY <1>0, <1>1, <1>3, <2>1 DEF Close, HandlesOK, handles
  <2> QED BY <2>1, <2>4, <2>5, <2>6, CountStep
<1>4. CASE DropPool
  <2>1. TypeOK'
    <3>1. closed' \in BOOLEAN /\ dropped' \in BOOLEAN
      BY <1>4 DEF DropPool
    <3> QED BY <1>0, <1>4, <3>1 DEF DropPool, TypeOK, notifyState, clientState, bgState
  <2>2. SlotAccounting'
    BY <1>0, <1>1, <1>4 DEF DropPool, SlotAccounting, Slots, InFlight, bgState
  <2>3. HandlesOK'
    BY <1>0, <1>1, <1>4 DEF DropPool, HandlesOK, OnThread, bgState
  <2> QED BY <2>1, <2>2, <2>3 DEF IInv
<1>5. CASE DropInner
  <2>1. TypeOK'
    <3>1. inner' \in BOOLEAN
      BY <1>5 DEF DropInner
    <3>2. idle' \in Seq(Worker)
      BY SMTT(30), <1>5 DEF DropInner
    <3> QED BY <1>0, <1>5, <3>1, <3>2 DEF DropInner, TypeOK, notifyState, clientState, bgState
  <2>2. SlotAccounting'
    BY <1>5 DEF DropInner, SlotAccounting
  <2>3. HandlesOK'
    BY <1>0, <1>1, <1>5 DEF DropInner, HandlesOK, OnThread, bgState
  <2> QED BY <2>1, <2>2, <2>3 DEF IInv
<1> QED BY <1>2, <1>3, <1>4, <1>5

(* Every step of the pool keeps the invariant.                             *)
LEMMA NextIInv == IInv /\ [Next]_vars => IInv'
<1> SUFFICES ASSUME IInv, [Next]_vars PROVE IInv'
  OBVIOUS
<1>1. CASE UNCHANGED vars
  BY <1>1 DEF IInv, TypeOK, HandlesOK, SlotAccounting, Slots, InFlight, Owners, OnThread, vars,
              poolState, notifyState, clientState, bgState, handles
<1> QED BY <1>1, AcquireIInv, LeaveIInv, ReleaseIInv, BackgroundIInv, HandlesIInv DEF Next

(* The inductive invariant holds in every reachable state.                 *)
LEMMA SpecIInv == Spec => []IInv
  BY InitIInv, NextIInv, PTL DEF Spec

-----------------------------------------------------------------------------
(* Every reachable state of the pool is well typed; in particular `total`  *)
(* stays within 0..max_processes whatever acquire_worker_inner,            *)
(* release_capacity and replenish do at the same time.                     *)
THEOREM PoolTypeOK == Spec => []TypeOK
<1>1. IInv => TypeOK
  BY DEF IInv
<1> QED BY <1>1, SpecIInv, PTL

(* PoolState::total counts every live slot exactly once and never passes   *)
(* max_processes: no interleaving of checkouts, releases, refills, closes  *)
(* and drops leaks a slot or releases one twice.                           *)
THEOREM PoolSlotsExact == Spec => []SlotsExact
<1>1. IInv => SlotsExact
  <2>1. IInv => SlotAccounting /\ total \in 0..MaxProcesses
    BY DEF IInv, TypeOK
  <2> QED BY SMTT(30), <2>1, SizeAssumption DEF SlotsExact
<1> QED BY <1>1, SpecIInv, PTL

(* Only a failed refill, the retry task and the end of the pool touch the  *)
(* retry deadline.                                                         *)
LEMMA RetryFrame ==
    ASSUME [Next]_vars
    PROVE  \/ UNCHANGED <<armed, retry_at, inner>>
           \/ RefillFailed \/ RetryFires \/ Orphaned \/ DropInner
<1>1. ASSUME NEW c \in Clients, NewCheckout(c) \/ Acquire(c) \/ GiveUp(c)
      PROVE  UNCHANGED <<armed, retry_at, inner>>
  BY <1>1 DEF NewCheckout, Acquire, Reuse, Reserve, Full, TopUp, SpawnOk, SpawnFail, Wake,
              GiveUp, Exhausted, Cancel, poolState, bgState, handles
<1>2. ASSUME NEW c \in Clients, Leave(c) \/ Release(c)
      PROVE  UNCHANGED <<armed, retry_at, inner>>
  BY <1>2 DEF Leave, FinishIdle, FinishRecycle, FinishRemote, Discard, Release, ReleaseDec,
              ReleaseNotify, ReleaseReplenish, poolState, bgState, handles
<1>3. CASE RefillOk \/ RefillErr \/ StreamEnded \/ BgDec \/ BgNotify \/ BgPushed \/ BgReplenish \/ Reaped
  BY <1>3 DEF RefillOk, RefillErr, StreamEnded, BgDec, BgNotify, BgPushed, BgReplenish, Reaped,
              poolState, handles
<1>4. CASE Close \/ DropPool \/ \E i \in DOMAIN idle : IdleDeath(i)
  BY <1>4 DEF Close, DropPool, IdleDeath, bgState, handles
<1>5. CASE UNCHANGED vars
  BY <1>5 DEF vars, poolState, bgState, handles
<1> QED BY <1>1, <1>2, <1>3, <1>4, <1>5 DEF Next, Background

(* retry_at is set exactly while one retry task sleeps, so refills are     *)
(* never suspended for good and retries never pile up.                     *)
THEOREM PoolOneRetry == Spec => []OneRetry
<1>1. Init => OneRetry
  BY DEF Init, OneRetry
<1>2. IInv /\ OneRetry /\ [Next]_vars => OneRetry'
  <2> SUFFICES ASSUME IInv, OneRetry, [Next]_vars PROVE OneRetry'
    OBVIOUS
  <2>0. TypeOK
    BY DEF IInv
  <2>1. CASE UNCHANGED <<armed, retry_at, inner>>
    BY <2>1 DEF OneRetry
  <2>2. CASE RefillFailed
    <3>1. OnThread > 0
      BY SMTT(30), <2>0, <2>2 DEF RefillFailed, OnThread, TypeOK
    <3>2. inner
      BY <3>1, Busy
    <3> QED BY SMTT(30), <2>0, <2>2, <3>2 DEF RefillFailed, OneRetry, TypeOK
  <2>3. CASE RetryFires
    <3>1. armed = 1
      BY SMTT(30), <2>3 DEF RetryFires, OneRetry
    <3>2. armed' = 0 /\ ~retry_at'
      BY SMTT(30), <2>3, <3>1 DEF RetryFires
    <3> QED BY <3>2 DEF OneRetry
  <2>4. CASE Orphaned \/ DropInner
    BY <2>4 DEF Orphaned, DropInner, OneRetry, handles
  <2> QED BY <2>1, <2>2, <2>3, <2>4, RetryFrame
<1> QED BY <1>1, <1>2, SpecIInv, PTL DEF Spec

-----------------------------------------------------------------------------
(* A thread is on its way to replenish.                                    *)
ReplenishPC == {"notify", "replenish", "topup"}

(* replenish itself leaves the pool at its floor, closed or backing off.   *)
LEMMA FloorReplenish ==
    ASSUME TypeOK, Replenish, Floor' = Floor, UNCHANGED <<closed, retry_at>>
    PROVE  FloorKept'
<1>1. total' >= Floor \/ closed \/ retry_at
  <2>1. CASE Remote
    BY SMTT(30), <2>1, SizeAssumption DEF Replenish, Wanted, Floor, TypeOK
  <2>2. CASE ~Remote
    BY SMTT(30), <2>2, SizeAssumption DEF Replenish, Wanted, Floor, TypeOK
  <2> QED BY <2>1, <2>2
<1> QED BY <1>1 DEF FloorKept

(* A client step that lowers `total` goes on to replenish, and only that   *)
(* client gives up its own promise to.                                     *)
LEMMA FloorMove ==
    ASSUME TypeOK, FloorKept, Floor' = Floor, NEW c \in Clients, NEW x, pc' = [pc EXCEPT ![c] = x],
           x \in ReplenishPC \/ (pc[c] \notin ReplenishPC /\ total' >= total),
           total' \in Nat, UNCHANGED <<closed, retry_at, bgNotify, bgReplenish>>
    PROVE  FloorKept'
<1>1. CASE x \in ReplenishPC
  <2>1. pc'[c] \in ReplenishPC
    BY <1>1 DEF TypeOK
  <2> QED BY <2>1 DEF FloorKept, ReplenishPC
<1>2. CASE pc[c] \notin ReplenishPC /\ total' >= total
  <2>1. CASE \E d \in Clients : pc[d] \in ReplenishPC
    <3>1. PICK d \in Clients : pc[d] \in ReplenishPC
      BY <2>1
    <3>2. pc'[d] \in ReplenishPC
      BY <1>2, <3>1 DEF TypeOK
    <3> QED BY <3>2 DEF FloorKept, ReplenishPC
  <2>2. CASE total >= Floor
    <3>1. total' >= Floor
      BY SMTT(30), <1>2, <2>2, FloorType DEF TypeOK
    <3> QED BY <3>1 DEF FloorKept
  <2>3. CASE closed \/ retry_at \/ bgNotify + bgReplenish > 0
    BY <2>3 DEF FloorKept
  <2> QED BY <2>1, <2>2, <2>3 DEF FloorKept, ReplenishPC
<1> QED BY <1>1, <1>2

(* Every step of a checkout keeps the floor or promises to.                *)
LEMMA FloorClient ==
    ASSUME TypeOK, TypeOK', FloorKept, Floor' = Floor, NEW c \in Clients,
           NewCheckout(c) \/ Acquire(c) \/ GiveUp(c) \/ Leave(c) \/ Release(c)
    PROVE  FloorKept'
<1>0. total \in Nat /\ total' \in Nat /\ Len(idle) \in Nat
  BY SMTT(30), LenProperties DEF TypeOK
<1>1. CASE TopUp(c) \/ ReleaseReplenish(c)
  BY <1>1, FloorReplenish DEF TopUp, ReleaseReplenish
<1>2. CASE Reuse(c)
  <2>1. DOMAIN idle = 1..Len(idle)
    BY SMTT(30) DEF TypeOK
  <2>2. PICK k \in 1..Len(idle) :
            /\ total' = total - (Len(idle) - k)
            /\ IF k < Len(idle) THEN pc' = [pc EXCEPT ![c] = "topup"]
                               ELSE pc' = [pc EXCEPT ![c] = "holding"]
    BY <1>2, <2>1 DEF Reuse
  <2>3. CASE pc' = [pc EXCEPT ![c] = "topup"]
    BY <1>0, <1>2, <2>3, FloorMove DEF Reuse, ReplenishPC, bgState
  <2>4. CASE ~(k < Len(idle)) /\ pc' = [pc EXCEPT ![c] = "holding"]
    <3>1. total' >= total
      BY SMTT(30), <1>0, <2>2, <2>4
    <3> QED BY <1>0, <1>2, <2>4, <3>1, FloorMove DEF Reuse, ReplenishPC, bgState
  <2> QED BY <2>2, <2>3, <2>4
<1>3. CASE Reserve(c)
  <2>1. \/ pc' = [pc EXCEPT ![c] = "topup"]
        \/ pc' = [pc EXCEPT ![c] = "spawning"] /\ total' >= total
    <3>1. CASE Remote
      BY SMTT(30), <1>0, <1>3, <3>1 DEF Reserve
    <3>2. CASE ~Remote /\ Len(idle) > 0
      BY <1>3, <3>2 DEF Reserve
    <3>3. CASE ~Remote /\ ~(Len(idle) > 0)
      <4>1. Len(idle) = 0
        BY SMTT(30), <1>0, <3>3
      <4>2. total' = total - 0 + 1 /\ pc' = [pc EXCEPT ![c] = "spawning"]
        BY <1>3, <3>3, <4>1 DEF Reserve
      <4> QED BY SMTT(30), <1>0, <4>2
    <3> QED BY <3>1, <3>2, <3>3
  <2> QED BY <1>0, <1>3, <2>1, FloorMove DEF Reserve, ReplenishPC, bgState
<1>4. CASE ReleaseDec(c)
  BY <1>0, <1>4, FloorMove DEF ReleaseDec, ReplenishPC, bgState
<1>5. CASE ReleaseNotify(c)
  <2>1. total' = total /\ UNCHANGED <<closed, retry_at, bgNotify, bgReplenish>>
    BY <1>5 DEF ReleaseNotify, poolState, bgState
  <2>2. \/ pc[c] = "notify" /\ pc' = [pc EXCEPT ![c] = "replenish"]
        \/ pc[c] = "pushed" /\ pc' = [pc EXCEPT ![c] = "out"]
    BY <1>5 DEF ReleaseNotify
  <2> QED BY SMTT(30), <1>0, <2>1, <2>2, FloorMove DEF ReplenishPC
<1>6. CASE NewCheckout(c) \/ Full(c) \/ SpawnOk(c) \/ SpawnFail(c) \/ Wake(c) \/ GiveUp(c) \/ Leave(c)
  <2>1. total' = total /\ UNCHANGED <<closed, retry_at, bgNotify, bgReplenish>>
    BY <1>6 DEF NewCheckout, Full, SpawnOk, SpawnFail, Wake, GiveUp, Exhausted, Cancel, Leave,
                FinishIdle, FinishRecycle, FinishRemote, Discard, poolState, bgState
  <2>2. pc[c] \notin ReplenishPC /\ \E x \in PC : pc' = [pc EXCEPT ![c] = x]
    BY <1>6 DEF NewCheckout, Full, SpawnOk, SpawnFail, Wake, GiveUp, Exhausted, Cancel, Leave,
                FinishIdle, FinishRecycle, FinishRemote, Discard, PC, ReplenishPC
  <2>3. total' >= total
    BY SMTT(30), <1>0, <2>1
  <2> QED BY <1>0, <2>1, <2>2, <2>3, FloorMove
<1> QED BY <1>1, <1>2, <1>3, <1>4, <1>5, <1>6 DEF Acquire, Release

(* So does every step of the background work and of the handles.           *)
LEMMA FloorBackground ==
    ASSUME TypeOK, FloorKept, Floor' = Floor, Background
    PROVE  FloorKept'
<1>0. bgNotify \in Nat /\ bgReplenish \in Nat /\ bgDec \in Nat
  BY DEF TypeOK
<1>1. CASE BgReplenish
  BY <1>1, FloorReplenish DEF BgReplenish
<1>2. CASE BgDec \/ BgNotify \/ RetryFires
  <2>1. bgNotify' + bgReplenish' > 0
    BY SMTT(30), <1>0, <1>2 DEF BgDec, BgNotify, RetryFires
  <2> QED BY <2>1 DEF FloorKept
<1>3. CASE RefillFailed
  BY <1>3 DEF RefillFailed, FloorKept
<1>4. CASE RefillOk \/ RefillErr \/ StreamEnded \/ Orphaned \/ BgPushed \/ Reaped
  <2>1. UNCHANGED <<total, closed, retry_at, bgNotify, bgReplenish, pc>>
    BY <1>4 DEF RefillOk, RefillErr, StreamEnded, Orphaned, BgPushed, Reaped, poolState, clientState
  <2> QED BY <2>1 DEF FloorKept
<1> QED BY <1>1, <1>2, <1>3, <1>4 DEF Background

(* An open pool below min_processes that is not backing off always has a   *)
(* thread about to replenish it, so the floor is never forgotten.          *)
THEOREM PoolFloorKept == Spec => []FloorKept
<1>1. Init => FloorKept
  BY SMTT(30), FloorType DEF Init, FloorKept
<1>2. TypeOK /\ TypeOK' /\ FloorKept /\ [Next]_vars => FloorKept'
  <2> SUFFICES ASSUME TypeOK, TypeOK', FloorKept, [Next]_vars PROVE FloorKept'
    OBVIOUS
  <2>0. Floor' = Floor
    BY TransportFixed
  <2>1. CASE Close \/ DropPool
    BY <2>1 DEF Close, DropPool, FloorKept
  <2>2. CASE DropInner \/ (\E i \in DOMAIN idle : IdleDeath(i)) \/ UNCHANGED vars
    <3>1. UNCHANGED <<total, closed, retry_at, bgNotify, bgReplenish, pc>>
      BY <2>2 DEF DropInner, IdleDeath, vars, poolState, clientState, bgState
    <3> QED BY <2>0, <3>1 DEF FloorKept
  <2> QED BY <2>0, <2>1, <2>2, FloorClient, FloorBackground DEF Next
<1> QED BY <1>1, <1>2, PoolTypeOK, PTL DEF Spec

-----------------------------------------------------------------------------
(* No wakeup is lost.  NoLostWakeup only says that some notification is    *)
(* under way; the invariant that carries it counts them: as long as a      *)
(* checkout is parked, there are at least as many notifications, or        *)
(* clients about to look, as there are workers and slots to be had.        *)

(* The Notify: a client has one Notified, which is queued, notified or     *)
(* ready, and has one exactly while its checkout is in the loop.           *)
NotifyOK ==
    /\ IsInjective(waiters)
    /\ Range(waiters) \cap notified = {} /\ Range(waiters) \cap ready = {}
    /\ notified \cap ready = {}
    /\ \A c \in Clients :
         /\ c \in Range(waiters) \cup notified \cup ready
              => pc[c] \notin {"out", "holding", "pushed"}
         /\ pc[c] \in {"looking", "waiting"} => c \in Range(waiters) \cup notified \cup ready

(* Workers and slots to be had, and those who will look or tell.           *)
Supply == MaxProcesses - total + (IF Remote THEN 0 ELSE Len(idle))
AlertPC == {"looking", "notify", "pushed"}
Alert == {c \in Clients : pc[c] \in AlertPC}
Due == bgNotify + bgPushed + Cardinality(notified) + Cardinality(Alert)
SomeParked == \E c \in Clients : Parked(c)
WakeInv == SomeParked => Supply <= Due

(* One client's call moves.                                                *)
MovesTo(c, x) == pc' = [pc EXCEPT ![c] = x]

-----------------------------------------------------------------------------
(* Removing a client from the wait list that it is in once.                *)
LEMMA WithoutFacts ==
    ASSUME NEW S, NEW s \in Seq(S), NEW c, IsInjective(s)
    PROVE  IsInjective(Without(s, c)) /\ Range(Without(s, c)) = Range(s) \ {c}
<1>0. Members(s) = Range(s)
  BY DEF Members, Range
<1>1. CASE c \notin Range(s)
  BY <1>0, <1>1 DEF Without
<1>2. CASE c \in Range(s)
  <2>1. PICK i \in DOMAIN s : i = CHOOSE j \in DOMAIN s : s[j] = c
    BY <1>2 DEF Range
  <2>2. s[i] = c /\ i \in 1..Len(s)
    BY <1>2, <2>1, LenProperties DEF Range
  <2>3. Without(s, c) = RemoveAt(s, i)
    BY <1>0, <1>2, <2>1 DEF Without, RemoveAt
  <2> QED BY SMTT(30), <2>2, <2>3, RemoveAtFacts
<1> QED BY <1>1, <1>2

(* The clients that count are finitely many.                               *)
LEMMA Counted ==
    ASSUME TypeOK
    PROVE  /\ IsFiniteSet(notified) /\ Cardinality(notified) \in Nat
           /\ IsFiniteSet(Alert) /\ Cardinality(Alert) \in Nat
           /\ Supply \in Nat /\ Due \in Nat
<1>1. notified \in SUBSET Clients /\ Alert \in SUBSET Clients
  BY DEF TypeOK, Alert
<1>2. IsFiniteSet(notified) /\ IsFiniteSet(Alert)
  BY <1>1, ClientsFinite, FS_Subset
<1>3. Cardinality(notified) \in Nat /\ Cardinality(Alert) \in Nat
  BY <1>2, FS_CardinalityType
<1>4. Due \in Nat
  BY SMTT(30), <1>3 DEF TypeOK, Due
<1>5. Supply \in Nat
  <2>1. Len(idle) \in Nat /\ MaxProcesses - total \in Nat
    BY SMTT(30), LenProperties, SizeAssumption DEF TypeOK
  <2> QED BY SMTT(30), <2>1 DEF Supply
<1> QED BY <1>2, <1>3, <1>4, <1>5

(* How the alert clients change when one client takes a step.              *)
LEMMA AlertStep ==
    ASSUME TypeOK, NEW c \in Clients, NEW x, MovesTo(c, x)
    PROVE  /\ pc[c] \notin AlertPC /\ x \in AlertPC
                => Cardinality(Alert') = Cardinality(Alert) + 1
           /\ pc[c] \in AlertPC /\ x \notin AlertPC
                => Cardinality(Alert') = Cardinality(Alert) - 1
           /\ (pc[c] \in AlertPC <=> x \in AlertPC)
                => Cardinality(Alert') = Cardinality(Alert)
<1>0. IsFiniteSet(Alert)
  BY Counted
<1>1. ASSUME pc[c] \notin AlertPC, x \in AlertPC
      PROVE  Cardinality(Alert') = Cardinality(Alert) + 1
  <2>1. Alert' = Alert \cup {c} /\ c \notin Alert
    BY <1>1 DEF MovesTo, Alert, TypeOK
  <2> QED BY <1>0, <2>1, FS_AddElement
<1>2. ASSUME pc[c] \in AlertPC, x \notin AlertPC
      PROVE  Cardinality(Alert') = Cardinality(Alert) - 1
  <2>1. Alert' = Alert \ {c} /\ c \in Alert
    BY <1>2 DEF MovesTo, Alert, TypeOK
  <2> QED BY <1>0, <2>1, FS_RemoveElement
<1>3. ASSUME pc[c] \in AlertPC <=> x \in AlertPC
      PROVE  Cardinality(Alert') = Cardinality(Alert)
  <2>1. Alert' = Alert
    BY <1>3 DEF MovesTo, Alert, TypeOK
  <2> QED BY <2>1
<1> QED BY <1>1, <1>2, <1>3

(* A parked checkout is in the wait list.                                  *)
LEMMA ParkedQueued ==
    ASSUME NotifyOK, NEW c \in Clients, Parked(c)
    PROVE  c \in Range(waiters)
  BY DEF NotifyOK, Parked

-----------------------------------------------------------------------------
(* notify_one with and without somebody in the list.                       *)
LEMMA NotifyOneFacts ==
    ASSUME TypeOK, NotifyOK, NotifyOne
    PROVE  /\ ready' = ready /\ IsInjective(waiters')
           /\ \/ waiters = <<>> /\ waiters' = <<>> /\ notified' = notified
              \/ \E h \in Range(waiters) :
                    /\ Range(waiters') = Range(waiters) \ {h} /\ notified' = notified \cup {h}
                    /\ Cardinality(notified') = Cardinality(notified) + 1
<1>1. CASE waiters = <<>>
  BY <1>1 DEF NotifyOne, NotifyOK
<1>2. CASE waiters # <<>>
  <2>1. /\ IsInjective(Tail(waiters)) /\ Range(Tail(waiters)) = Range(waiters) \ {Head(waiters)}
        /\ Head(waiters) \in Range(waiters)
    BY <1>2, TailFacts DEF TypeOK, NotifyOK
  <2>2. Head(waiters) \notin notified
    BY <2>1 DEF NotifyOK
  <2>3. Cardinality(notified \cup {Head(waiters)}) = Cardinality(notified) + 1
    BY <2>2, Counted, FS_AddElement
  <2> QED BY <1>2, <2>1, <2>3 DEF NotifyOne
<1> QED BY <1>1, <1>2

(* enable() takes the permit or queues, and forgets an old notification.   *)
LEMMA EnableFacts ==
    ASSUME TypeOK, NotifyOK, NEW c \in Clients, c \notin Range(waiters), Enable(c)
    PROVE  /\ notified' = notified \ {c} /\ IsInjective(waiters')
           /\ \/ Range(waiters') = Range(waiters) /\ ready' = ready \cup {c}
              \/ Range(waiters') = Range(waiters) \cup {c} /\ ready' = ready \ {c}
<1>1. CASE permit
  BY <1>1 DEF Enable, NotifyOK
<1>2. CASE ~permit
  <2>1. /\ IsInjective(Append(waiters, c))
        /\ Range(Append(waiters, c)) = Range(waiters) \cup {c}
    BY SMTT(30), AppendFacts DEF TypeOK, NotifyOK
  <2> QED BY <1>2, <2>1 DEF Enable
<1> QED BY <1>1, <1>2

(* Dropping a Notified passes an unreceived notification on.               *)
LEMMA DropNotifiedFacts ==
    ASSUME TypeOK, NotifyOK, NEW c \in Clients, DropNotified(c)
    PROVE  /\ ready' = ready \ {c} /\ IsInjective(waiters')
           /\ \/ /\ c \notin notified /\ notified' = notified
                 /\ Range(waiters') = Range(waiters) \ {c}
              \/ c \in notified /\ waiters = <<>> /\ waiters' = <<>> /\ notified' = notified \ {c}
              \/ /\ c \in notified
                 /\ \E h \in Range(waiters) :
                       /\ Range(waiters') = Range(waiters) \ {h}
                       /\ notified' = (notified \ {c}) \cup {h}
                       /\ Cardinality(notified') = Cardinality(notified)
<1>1. CASE c \notin notified
  <2>1. /\ IsInjective(Without(waiters, c))
        /\ Range(Without(waiters, c)) = Range(waiters) \ {c}
    BY WithoutFacts DEF TypeOK, NotifyOK
  <2> QED BY <1>1, <2>1 DEF DropNotified
<1>2. CASE c \in notified /\ waiters = <<>>
  BY <1>2 DEF DropNotified, NotifyOK
<1>3. CASE c \in notified /\ waiters # <<>>
  <2>1. /\ IsInjective(Tail(waiters)) /\ Range(Tail(waiters)) = Range(waiters) \ {Head(waiters)}
        /\ Head(waiters) \in Range(waiters)
    BY <1>3, TailFacts DEF TypeOK, NotifyOK
  <2>2. Head(waiters) \notin notified
    BY <2>1 DEF NotifyOK
  <2>3. Cardinality((notified \ {c}) \cup {Head(waiters)}) = Cardinality(notified)
    <3>1. IsFiniteSet(notified \ {c}) /\ Cardinality(notified \ {c}) = Cardinality(notified) - 1
      BY <1>3, Counted, FS_RemoveElement
    <3>2. Cardinality((notified \ {c}) \cup {Head(waiters)}) = Cardinality(notified \ {c}) + 1
      BY <2>2, <3>1, FS_AddElement
    <3> QED BY SMTT(30), <3>1, <3>2, Counted
  <2> QED BY <1>3, <2>1, <2>3 DEF DropNotified
<1> QED BY <1>1, <1>2, <1>3

-----------------------------------------------------------------------------
(* A checkout that ends drops its Notified: a notification it had is still *)
(* under way, unless nobody is left to be woken.                           *)
LEMMA DropMove ==
    ASSUME TypeOK, NotifyOK, NEW c \in Clients, NEW x \in {"out", "holding"},
           MovesTo(c, x), DropNotified(c)
    PROVE  /\ NotifyOK'
           /\ SomeParked' => SomeParked /\ Cardinality(notified') = Cardinality(notified)
<1>0. pc'[c] = x /\ \A d \in Clients \ {c} : pc'[d] = pc[d]
  BY DEF MovesTo, TypeOK
<1>1. ready' = ready \ {c} /\ IsInjective(waiters')
  BY DropNotifiedFacts
<1>2. CASE /\ c \notin notified /\ notified' = notified
           /\ Range(waiters') = Range(waiters) \ {c}
  <2>1. NotifyOK'
    BY <1>0, <1>1, <1>2 DEF NotifyOK
  <2>2. SomeParked' => SomeParked
    BY <1>0, <1>1, <1>2 DEF SomeParked, Parked
  <2> QED BY <1>2, <2>1, <2>2
<1>3. CASE c \in notified /\ waiters = <<>> /\ waiters' = <<>> /\ notified' = notified \ {c}
  <2>1. Range(waiters) = {} /\ Range(waiters') = {}
    BY SMTT(30), <1>3 DEF Range
  <2>2. NotifyOK'
    BY <1>0, <1>1, <1>3, <2>1 DEF NotifyOK
  <2>3. ~SomeParked'
    BY <2>1, <2>2 DEF SomeParked, Parked, NotifyOK
  <2> QED BY <2>2, <2>3
<1>4. ASSUME c \in notified, NEW h \in Range(waiters), Range(waiters') = Range(waiters) \ {h},
             notified' = (notified \ {c}) \cup {h}, Cardinality(notified') = Cardinality(notified)
      PROVE  NotifyOK' /\ (SomeParked' => SomeParked /\ Cardinality(notified') = Cardinality(notified))
  <2>1. h # c /\ h \notin notified /\ h \notin ready /\ h \in Clients
    BY SMTT(30), <1>4 DEF NotifyOK, TypeOK, Range
  <2>2. NotifyOK'
    BY <1>0, <1>1, <1>4, <2>1 DEF NotifyOK
  <2>3. SomeParked' => SomeParked
    BY <1>0, <1>1, <1>4, <2>1 DEF SomeParked, Parked
  <2> QED BY <1>4, <2>2, <2>3
<1> QED BY <1>2, <1>3, <1>4, DropNotifiedFacts

(* A step that leaves the Notify alone.                                    *)
LEMMA QuietMove ==
    ASSUME TypeOK, NotifyOK, NEW c \in Clients, NEW x, MovesTo(c, x),
           UNCHANGED notifyState, x # "looking",
           x \in {"out", "holding", "pushed"} => pc[c] = "holding",
           x = "waiting" => pc[c] = "looking"
    PROVE  /\ NotifyOK' /\ notified' = notified
           /\ x # "waiting" => (SomeParked' => SomeParked)
<1>0. pc'[c] = x /\ \A d \in Clients \ {c} : pc'[d] = pc[d]
  BY DEF MovesTo, TypeOK
<1>1. NotifyOK'
  BY <1>0 DEF NotifyOK, notifyState
<1>2. x # "waiting" => (SomeParked' => SomeParked)
  BY <1>0 DEF SomeParked, Parked, notifyState
<1> QED BY <1>1, <1>2 DEF notifyState

(* A checkout enters the loop, or goes round it with its notification.     *)
LEMMA EnableMove ==
    ASSUME TypeOK, NotifyOK, NEW c \in Clients, Enable(c),
           pc[c] = "out" \/ (pc[c] = "waiting" /\ c \in notified \cup ready),
           MovesTo(c, "looking")
    PROVE  /\ NotifyOK' /\ (SomeParked' => SomeParked)
           /\ Cardinality(notified') \in {Cardinality(notified), Cardinality(notified) - 1}
<1>0. pc'[c] = "looking" /\ \A d \in Clients \ {c} : pc'[d] = pc[d]
  BY DEF MovesTo, TypeOK
<1>1. c \notin Range(waiters)
  BY DEF NotifyOK
<1>2. /\ notified' = notified \ {c} /\ IsInjective(waiters')
      /\ \/ Range(waiters') = Range(waiters) /\ ready' = ready \cup {c}
         \/ Range(waiters') = Range(waiters) \cup {c} /\ ready' = ready \ {c}
  BY <1>1, EnableFacts
<1>3. NotifyOK'
  BY <1>0, <1>1, <1>2 DEF NotifyOK
<1>4. SomeParked' => SomeParked
  BY <1>0, <1>2 DEF SomeParked, Parked
<1>5. Cardinality(notified') \in {Cardinality(notified), Cardinality(notified) - 1}
  BY <1>2, Counted, FS_RemoveElement
<1> QED BY <1>3, <1>4, <1>5

(* A notify_one adds a notification, unless nobody waits.                  *)
LEMMA NotifyMove ==
    ASSUME TypeOK, NotifyOK, NotifyOne,
           \A d \in Clients : \/ pc'[d] = pc[d]
                              \/ pc[d] = "notify" /\ pc'[d] = "replenish"
                              \/ pc[d] = "pushed" /\ pc'[d] = "out"
    PROVE  /\ NotifyOK'
           /\ SomeParked' => SomeParked /\ Cardinality(notified') = Cardinality(notified) + 1
<1>1. ready' = ready /\ IsInjective(waiters')
  BY NotifyOneFacts
<1>2. CASE waiters = <<>> /\ waiters' = <<>> /\ notified' = notified
  <2>1. Range(waiters) = {} /\ Range(waiters') = {}
    BY SMTT(30), <1>2 DEF Range
  <2>2. NotifyOK'
    BY <1>1, <1>2, <2>1 DEF NotifyOK
  <2>3. ~SomeParked'
    BY <2>1, <2>2 DEF SomeParked, Parked, NotifyOK
  <2> QED BY <2>2, <2>3
<1>3. ASSUME NEW h \in Range(waiters), Range(waiters') = Range(waiters) \ {h},
             notified' = notified \cup {h}, Cardinality(notified') = Cardinality(notified) + 1
      PROVE  NotifyOK' /\ (SomeParked' => SomeParked /\ Cardinality(notified') = Cardinality(notified) + 1)
  <2>1. NotifyOK'
    BY <1>1, <1>3 DEF NotifyOK
  <2>2. SomeParked' => SomeParked
    BY <1>1, <1>3 DEF SomeParked, Parked
  <2> QED BY <1>3, <2>1, <2>2
<1> QED BY <1>2, <1>3, NotifyOneFacts

(* The invariant is kept when what is to be had grows by no more than the  *)
(* notifications do.                                                       *)
LEMMA WakeStep ==
    ASSUME TypeOK, WakeInv,
           SomeParked' => /\ SomeParked
                          /\ \E a, p \in Int : a <= p /\ Supply' = Supply + a /\ Due' = Due + p
    PROVE  WakeInv'
<1> SUFFICES ASSUME SomeParked' PROVE Supply' <= Due'
  BY DEF WakeInv
<1>1. PICK a, p \in Int : a <= p /\ Supply' = Supply + a /\ Due' = Due + p
  OBVIOUS
<1>2. Supply \in Nat /\ Due \in Nat /\ Supply <= Due
  BY Counted DEF WakeInv
<1> QED BY SMTT(30), <1>1, <1>2

-----------------------------------------------------------------------------
(* A reused worker is one less to be had, and one client less that looks.  *)
LEMMA ReuseWake ==
    ASSUME TypeOK, Remote' = Remote, NotifyOK, WakeInv, NEW c \in Clients, Reuse(c)
    PROVE  NotifyOK' /\ WakeInv'
<1>0. /\ Len(idle) \in Nat /\ DOMAIN idle = 1..Len(idle) /\ total \in Nat
      /\ bgNotify' = bgNotify /\ bgPushed' = bgPushed
  BY SMTT(30), LenProperties DEF TypeOK, Reuse, bgState
<1>1. PICK k \in 1..Len(idle) :
          /\ idle' = SubSeq(idle, 1, k - 1) /\ total' = total - (Len(idle) - k)
          /\ \/ MovesTo(c, "topup") /\ UNCHANGED notifyState
             \/ MovesTo(c, "holding") /\ DropNotified(c)
  BY <1>0 DEF Reuse, MovesTo
<1>2. /\ pc[c] = "looking" /\ ~Remote /\ Len(idle') = k - 1
  BY SMTT(30), <1>0, <1>1 DEF Reuse, TypeOK
<1>3. Supply' = Supply + (-1)
  BY SMTT(30), <1>0, <1>1, <1>2, SizeAssumption DEF Supply
<1>4. PICK x \in {"topup", "holding"} : MovesTo(c, x)
  BY <1>1
<1>5. Cardinality(Alert') = Cardinality(Alert) - 1
  BY <1>2, <1>4, AlertStep DEF AlertPC
<1>6. NotifyOK' /\ (SomeParked' => SomeParked /\ Cardinality(notified') = Cardinality(notified))
  BY SMTT(30), <1>1, <1>2, DropMove, QuietMove
<1>7. SomeParked' => Due' = Due + (-1)
  BY SMTT(30), <1>0, <1>5, <1>6, Counted DEF Due, TypeOK
<1> QED BY SMTT(30), <1>3, <1>6, <1>7, WakeStep

(* So is a reserved slot, after the dead idle workers gave theirs back.    *)
LEMMA ReserveWake ==
    ASSUME TypeOK, Remote' = Remote, NotifyOK, WakeInv, NEW c \in Clients, Reserve(c)
    PROVE  NotifyOK' /\ WakeInv'
<1>0. /\ Len(idle) \in Nat /\ total \in Nat /\ pc[c] = "looking" /\ UNCHANGED notifyState
      /\ bgNotify' = bgNotify /\ bgPushed' = bgPushed
  BY SMTT(30), LenProperties DEF TypeOK, Reserve, bgState
<1>1. PICK x \in {"topup", "spawning"} : MovesTo(c, x)
  BY DEF Reserve, MovesTo
<1>2. Supply' = Supply + (-1)
  <2>1. CASE Remote
    BY SMTT(30), <1>0, <2>1, SizeAssumption DEF Reserve, Supply
  <2>2. CASE ~Remote
    <3>1. Len(idle') = 0 /\ total' = total - Len(idle) + 1
      BY <2>2 DEF Reserve
    <3> QED BY SMTT(30), <1>0, <2>2, <3>1, SizeAssumption DEF Supply
  <2> QED BY <2>1, <2>2
<1>3. Cardinality(Alert') = Cardinality(Alert) - 1
  BY <1>0, <1>1, AlertStep DEF AlertPC
<1>4. NotifyOK' /\ notified' = notified /\ (SomeParked' => SomeParked)
  BY <1>0, <1>1, QuietMove
<1>5. Due' = Due + (-1)
  BY SMTT(30), <1>0, <1>3, <1>4, Counted DEF Due, TypeOK
<1> QED BY SMTT(30), <1>2, <1>4, <1>5, WakeStep

(* replenish takes slots, at most what is free.                            *)
LEMMA ReplenishSupply ==
    ASSUME TypeOK, Remote' = Remote, Replenish, idle' = idle
    PROVE  \E a \in Int : a <= 0 /\ Supply' = Supply + a
<1>1. Wanted \in Nat /\ total \in Nat /\ total' = total + Wanted /\ Len(idle) \in Nat
  <2>1. Wanted \in Nat /\ total \in Nat
    BY SMTT(30), SizeAssumption DEF TypeOK, Wanted
  <2> QED BY <2>1, LenProperties DEF TypeOK, Replenish
<1>2. Supply' = Supply + (0 - Wanted)
  <2>1. CASE Remote
    BY SMTT(30), <1>1, <2>1, SizeAssumption DEF Supply
  <2>2. CASE ~Remote
    BY SMTT(30), <1>1, <2>2, SizeAssumption DEF Supply
  <2> QED BY <2>1, <2>2
<1> QED BY SMTT(30), <1>1, <1>2

(* Checkouts that end, or go on to spawn, without touching what is to be   *)
(* had.                                                                    *)
LEMMA AcquireWake ==
    ASSUME TypeOK, Remote' = Remote, NotifyOK, WakeInv, NEW c \in Clients,
           NewCheckout(c) \/ Acquire(c) \/ GiveUp(c)
    PROVE  NotifyOK' /\ WakeInv'
<1> USE DEF poolState, bgState
<1>0. Supply \in Nat /\ Due \in Nat /\ Cardinality(notified) \in Nat /\ Cardinality(Alert) \in Nat
  BY Counted
<1>1. CASE Reuse(c) \/ Reserve(c)
  BY <1>1, ReuseWake, ReserveWake
<1>2. CASE NewCheckout(c) \/ Wake(c)
  <2>1. /\ pc[c] = "out" \/ (pc[c] = "waiting" /\ c \in notified \cup ready)
        /\ Enable(c) /\ MovesTo(c, "looking")
        /\ UNCHANGED <<idle, total, bgNotify, bgPushed>>
    BY <1>2 DEF NewCheckout, Wake, MovesTo
  <2>2. /\ NotifyOK' /\ (SomeParked' => SomeParked)
        /\ Cardinality(notified') \in {Cardinality(notified), Cardinality(notified) - 1}
    BY <2>1, EnableMove
  <2>3. Cardinality(Alert') = Cardinality(Alert) + 1
    BY <2>1, AlertStep DEF AlertPC
  <2>4. Due' = Due + 1 \/ Due' = Due + 0
    BY SMTT(30), <1>0, <2>1, <2>2, <2>3 DEF Due, TypeOK
  <2>5. Supply' = Supply + 0
    BY SMTT(30), <1>0, <2>1 DEF Supply
  <2>6. \E a, p \in Int : a <= p /\ Supply' = Supply + a /\ Due' = Due + p
    BY SMTT(30), <2>4, <2>5
  <2>7. WakeInv'
    BY <2>2, <2>6, WakeStep
  <2> QED BY <2>2, <2>7
<1>3. CASE Full(c)
  <2>1. /\ pc[c] = "looking" /\ MovesTo(c, "waiting") /\ UNCHANGED notifyState
        /\ total' = total /\ idle' = idle /\ bgNotify' = bgNotify /\ bgPushed' = bgPushed
    BY <1>3 DEF Full, MovesTo
  <2>2. NotifyOK' /\ notified' = notified
    BY <2>1, QuietMove
  <2>3. Supply' = 0
    <3>1. CASE Remote
      BY SMTT(30), <1>3, <2>1, <3>1, SizeAssumption DEF Full, Supply, TypeOK
    <3>2. CASE ~Remote
      BY SMTT(30), <1>3, <2>1, <3>2, SizeAssumption DEF Full, Supply, TypeOK
    <3> QED BY <3>1, <3>2
  <2>4. c \in Alert /\ Cardinality(Alert') = Cardinality(Alert) - 1
    BY SMTT(30), <2>1, AlertStep DEF AlertPC, Alert
  <2>5. Cardinality(Alert) # 0
    BY <2>4, Counted, FS_EmptySet
  <2>6. Due' >= 0
    BY SMTT(30), <1>0, <2>1, <2>2, <2>4, <2>5 DEF Due, TypeOK
  <2> QED BY <2>2, <2>3, <2>6 DEF WakeInv
<1>4. CASE TopUp(c)
  <2>1. PICK a \in Int : a <= 0 /\ Supply' = Supply + a
    BY <1>4, ReplenishSupply DEF TopUp
  <2>2. PICK x \in {"spawning", "holding"} :
            /\ MovesTo(c, x)
            /\ x = "spawning" => UNCHANGED notifyState
            /\ x = "holding" => DropNotified(c)
    BY <1>4 DEF TopUp, MovesTo
  <2>3. pc[c] = "topup" /\ bgNotify' = bgNotify /\ bgPushed' = bgPushed
    BY <1>4 DEF TopUp
  <2>4. NotifyOK' /\ (SomeParked' => SomeParked /\ Cardinality(notified') = Cardinality(notified))
    BY <2>2, <2>3, DropMove, QuietMove
  <2>5. Cardinality(Alert') = Cardinality(Alert)
    BY <2>2, <2>3, AlertStep DEF AlertPC
  <2>6. SomeParked' => Due' = Due + 0
    BY SMTT(30), <1>0, <2>3, <2>4, <2>5 DEF Due, TypeOK
  <2> QED BY SMTT(30), <2>1, <2>4, <2>6, WakeStep
<1>5. CASE SpawnOk(c) \/ GiveUp(c)
  <2>1. PICK x \in {"out", "holding"} : MovesTo(c, x)
    BY <1>5 DEF SpawnOk, GiveUp, Exhausted, Cancel, MovesTo
  <2>2. /\ pc[c] \notin AlertPC /\ DropNotified(c)
        /\ UNCHANGED <<idle, total, bgNotify, bgPushed>>
    BY <1>5 DEF SpawnOk, GiveUp, Exhausted, Cancel, AlertPC
  <2>3. NotifyOK' /\ (SomeParked' => SomeParked /\ Cardinality(notified') = Cardinality(notified))
    BY <2>1, <2>2, DropMove
  <2>4. Cardinality(Alert') = Cardinality(Alert)
    BY <2>1, <2>2, AlertStep DEF AlertPC
  <2>5. Supply' = Supply + 0 /\ (SomeParked' => Due' = Due + 0)
    BY SMTT(30), <1>0, <2>2, <2>3, <2>4 DEF Supply, Due, TypeOK
  <2> QED BY SMTT(30), <2>3, <2>5, WakeStep
<1>6. CASE SpawnFail(c)
  <2>1. /\ MovesTo(c, "dec") /\ pc[c] = "spawning" /\ UNCHANGED notifyState
        /\ UNCHANGED <<idle, total, bgNotify, bgPushed>>
    BY <1>6 DEF SpawnFail, MovesTo
  <2>2. NotifyOK' /\ notified' = notified /\ (SomeParked' => SomeParked)
    BY SMTT(30), <2>1, QuietMove
  <2>3. Cardinality(Alert') = Cardinality(Alert)
    BY SMTT(30), <2>1, AlertStep DEF AlertPC
  <2>4. Supply' = Supply + 0 /\ Due' = Due + 0
    BY SMTT(30), <1>0, <2>1, <2>2, <2>3 DEF Supply, Due, TypeOK
  <2> QED BY SMTT(30), <2>2, <2>4, WakeStep
<1> QED BY <1>1, <1>2, <1>3, <1>4, <1>5, <1>6 DEF Acquire

-----------------------------------------------------------------------------
(* A worker given back to the idle queue is one more to be had, and its    *)
(* client is about to tell.                                                *)
LEMMA LeaveWake ==
    ASSUME TypeOK, Remote' = Remote, NotifyOK, WakeInv, NEW c \in Clients, Leave(c)
    PROVE  NotifyOK' /\ WakeInv'
<1> USE DEF poolState, bgState
<1>0. Supply \in Nat /\ Due \in Nat /\ Cardinality(notified) \in Nat /\ Cardinality(Alert) \in Nat
  BY Counted
<1>1. PICK x \in {"out", "dec", "pushed"} :
          /\ MovesTo(c, x)
          /\ x = "pushed" <=> FinishIdle(c)
  <2>1. CASE FinishIdle(c)
    BY <2>1 DEF FinishIdle, MovesTo
  <2>2. CASE FinishRemote(c) /\ ~FinishIdle(c)
    BY <2>2 DEF FinishRemote, MovesTo
  <2>3. CASE (FinishRecycle(c) \/ Discard(c)) /\ ~FinishIdle(c)
    BY <2>3 DEF FinishRecycle, Discard, MovesTo
  <2> QED BY <2>1, <2>2, <2>3 DEF Leave
<1>2. /\ pc[c] = "holding" /\ UNCHANGED notifyState /\ bgNotify' = bgNotify
      /\ bgPushed' = bgPushed /\ total' = total
  BY DEF Leave, FinishIdle, FinishRemote, FinishRecycle, Discard
<1>3. NotifyOK' /\ notified' = notified /\ (SomeParked' => SomeParked)
  BY <1>1, <1>2, QuietMove
<1>4. CASE FinishIdle(c)
  <2>1. Cardinality(Alert') = Cardinality(Alert) + 1
    BY <1>1, <1>2, <1>4, AlertStep DEF AlertPC
  <2>2. Due' = Due + 1
    BY SMTT(30), <1>0, <1>2, <1>3, <2>1 DEF Due, TypeOK
  <2>3. ~Remote /\ Len(idle) \in Nat /\ Len(idle') = Len(idle) + 1
    BY SMTT(30), <1>4, LenProperties DEF FinishIdle, TypeOK
  <2>4. Supply' = Supply + 1
    BY SMTT(30), <1>2, <2>3, SizeAssumption DEF Supply, TypeOK
  <2> QED BY SMTT(30), <1>3, <2>2, <2>4, WakeStep
<1>5. CASE ~FinishIdle(c)
  <2>1. Cardinality(Alert') = Cardinality(Alert)
    BY <1>1, <1>2, <1>5, AlertStep DEF AlertPC
  <2>2. idle' = idle
    BY <1>5 DEF Leave, FinishRemote, FinishRecycle, Discard
  <2>3. Supply' = Supply + 0 /\ Due' = Due + 0
    BY SMTT(30), <1>0, <1>2, <1>3, <2>1, <2>2 DEF Due, Supply, TypeOK
  <2> QED BY SMTT(30), <1>3, <2>3, WakeStep
<1> QED BY <1>4, <1>5

(* release_capacity: the freed slot is announced before anything else      *)
(* happens to it.                                                          *)
LEMMA ReleaseWake ==
    ASSUME TypeOK, Remote' = Remote, NotifyOK, WakeInv, NEW c \in Clients, Release(c)
    PROVE  NotifyOK' /\ WakeInv'
<1> USE DEF poolState, bgState
<1>0. Supply \in Nat /\ Due \in Nat /\ Cardinality(notified) \in Nat /\ Cardinality(Alert) \in Nat
  BY Counted
<1>1. CASE ReleaseDec(c)
  <2>1. /\ pc[c] = "dec" /\ MovesTo(c, "notify") /\ UNCHANGED notifyState
        /\ total' = total - 1 /\ UNCHANGED <<idle, bgNotify, bgPushed>>
    BY <1>1 DEF ReleaseDec, MovesTo
  <2>2. NotifyOK' /\ notified' = notified /\ (SomeParked' => SomeParked)
    BY SMTT(30), <2>1, QuietMove
  <2>3. Cardinality(Alert') = Cardinality(Alert) + 1
    BY <2>1, AlertStep DEF AlertPC
  <2>4. Due' = Due + 1
    BY SMTT(30), <1>0, <2>1, <2>2, <2>3 DEF Due, TypeOK
  <2>5. Supply' = Supply + 1
    <3>1. CASE Remote
      BY SMTT(30), <2>1, <3>1, SizeAssumption DEF Supply, TypeOK
    <3>2. CASE ~Remote
      BY SMTT(30), <2>1, <3>2, LenProperties, SizeAssumption DEF Supply, TypeOK
    <3> QED BY <3>1, <3>2
  <2> QED BY SMTT(30), <2>2, <2>4, <2>5, WakeStep
<1>2. CASE ReleaseNotify(c)
  <2>1. PICK x \in {"replenish", "out"} :
            /\ MovesTo(c, x)
            /\ \/ pc[c] = "notify" /\ x = "replenish"
               \/ pc[c] = "pushed" /\ x = "out"
    <3>1. CASE pc[c] = "notify"
      <4>1. MovesTo(c, "replenish")
        BY <1>2, <3>1 DEF ReleaseNotify, MovesTo
      <4> QED BY <3>1, <4>1
    <3>2. CASE pc[c] = "pushed"
      <4>1. MovesTo(c, "out")
        BY <1>2, <3>2 DEF ReleaseNotify, MovesTo
      <4> QED BY <3>2, <4>1
    <3> QED BY <1>2, <3>1, <3>2 DEF ReleaseNotify
  <2>2. NotifyOne /\ UNCHANGED <<idle, total, bgNotify, bgPushed>>
    BY <1>2 DEF ReleaseNotify
  <2>3. \A d \in Clients : \/ pc'[d] = pc[d]
                           \/ pc[d] = "notify" /\ pc'[d] = "replenish"
                           \/ pc[d] = "pushed" /\ pc'[d] = "out"
    BY <2>1 DEF MovesTo, TypeOK
  <2>4. /\ NotifyOK'
        /\ SomeParked' => SomeParked /\ Cardinality(notified') = Cardinality(notified) + 1
    BY <2>2, <2>3, NotifyMove
  <2>5. Cardinality(Alert') = Cardinality(Alert) - 1
    BY <2>1, AlertStep DEF AlertPC
  <2>6. Supply' = Supply + 0 /\ (SomeParked' => Due' = Due + 0)
    BY SMTT(30), <1>0, <2>2, <2>4, <2>5 DEF Due, Supply, TypeOK
  <2> QED BY SMTT(30), <2>4, <2>6, WakeStep
<1>3. CASE ReleaseReplenish(c)
  <2>1. PICK a \in Int : a <= 0 /\ Supply' = Supply + a
    BY <1>3, ReplenishSupply DEF ReleaseReplenish
  <2>2. /\ pc[c] = "replenish" /\ MovesTo(c, "out") /\ DropNotified(c)
        /\ bgNotify' = bgNotify /\ bgPushed' = bgPushed
    BY <1>3 DEF ReleaseReplenish, MovesTo
  <2>3. NotifyOK' /\ (SomeParked' => SomeParked /\ Cardinality(notified') = Cardinality(notified))
    BY <2>2, DropMove
  <2>4. Cardinality(Alert') = Cardinality(Alert)
    BY SMTT(30), <2>2, AlertStep DEF AlertPC
  <2>5. SomeParked' => Due' = Due + 0
    BY SMTT(30), <1>0, <2>2, <2>3, <2>4 DEF Due, TypeOK
  <2> QED BY SMTT(30), <2>1, <2>3, <2>5, WakeStep
<1> QED BY <1>1, <1>2, <1>3 DEF Release

-----------------------------------------------------------------------------
(* Steps after which the same clients are parked, alert and notified.      *)
LEMMA SameClients ==
    ASSUME TypeOK, NotifyOK, UNCHANGED <<pc, notifyState>>
    PROVE  /\ NotifyOK' /\ SomeParked' = SomeParked
           /\ notified' = notified /\ Alert' = Alert
  BY DEF NotifyOK, SomeParked, Parked, Alert, notifyState

(* Background releases and refills announce what they add; replenish only  *)
(* takes.                                                                  *)
LEMMA BackgroundWake ==
    ASSUME TypeOK, Remote' = Remote, NotifyOK, WakeInv, Background
    PROVE  NotifyOK' /\ WakeInv'
<1> USE DEF poolState, bgState, clientState
<1>0. Supply \in Nat /\ Due \in Nat /\ Cardinality(notified) \in Nat /\ Cardinality(Alert) \in Nat
  BY Counted
<1>1. CASE RefillOk /\ ~closed
  <2>1. /\ UNCHANGED <<pc, notifyState>> /\ total' = total /\ idle' = Append(idle, Fresh)
        /\ bgNotify' = bgNotify /\ bgPushed' = bgPushed + 1
    BY <1>1 DEF RefillOk
  <2>2. Due' = Due + 1
    BY SMTT(30), <1>0, <2>1, SameClients DEF Due, TypeOK
  <2>3. Len(idle) \in Nat /\ Len(idle') = Len(idle) + 1
    BY SMTT(30), <2>1, LenProperties DEF TypeOK
  <2>4. Supply' = Supply + 1 \/ Supply' = Supply + 0
    <3>1. CASE Remote
      BY SMTT(30), <1>0, <2>1, <3>1 DEF Supply
    <3>2. CASE ~Remote
      BY SMTT(30), <2>1, <2>3, <3>2, SizeAssumption DEF Supply, TypeOK
    <3> QED BY <3>1, <3>2
  <2>5. \E a, p \in Int : a <= p /\ Supply' = Supply + a /\ Due' = Due + p
    BY SMTT(30), <2>2, <2>4
  <2> QED BY SMTT(30), <2>1, <2>5, SameClients, WakeStep
<1>2. CASE BgDec
  <2>1. /\ UNCHANGED <<pc, notifyState>> /\ total' = total - 1 /\ idle' = idle
        /\ bgNotify' = bgNotify + 1 /\ bgPushed' = bgPushed
    BY <1>2 DEF BgDec
  <2>2. Due' = Due + 1
    BY SMTT(30), <1>0, <2>1, SameClients DEF Due, TypeOK
  <2>3. Supply' = Supply + 1
    <3>1. CASE Remote
      BY SMTT(30), <2>1, <3>1, SizeAssumption DEF Supply, TypeOK
    <3>2. CASE ~Remote
      BY SMTT(30), <2>1, <3>2, LenProperties, SizeAssumption DEF Supply, TypeOK
    <3> QED BY <3>1, <3>2
  <2> QED BY SMTT(30), <2>1, <2>2, <2>3, SameClients, WakeStep
<1>3. CASE BgNotify \/ BgPushed
  <2>1. NotifyOne /\ pc' = pc /\ idle' = idle /\ total' = total
    BY <1>3 DEF BgNotify, BgPushed
  <2>2. bgNotify' + bgPushed' = bgNotify + bgPushed - 1
    BY SMTT(30), <1>3 DEF BgNotify, BgPushed, TypeOK
  <2>3. /\ NotifyOK'
        /\ SomeParked' => SomeParked /\ Cardinality(notified') = Cardinality(notified) + 1
    BY <2>1, NotifyMove
  <2>4. Alert' = Alert /\ Supply' = Supply + 0
    BY SMTT(30), <1>0, <2>1 DEF Alert, Supply
  <2>5. bgNotify' \in Nat /\ bgPushed' \in Nat
    BY SMTT(30), <1>3 DEF BgNotify, BgPushed, TypeOK
  <2>6. SomeParked' => Due' = Due + 0
    <3> SUFFICES ASSUME SomeParked' PROVE Due' = Due + 0
      OBVIOUS
    <3>1. Cardinality(notified') = Cardinality(notified) + 1 /\ Cardinality(Alert') = Cardinality(Alert)
      BY <2>3, <2>4
    <3>2. bgNotify \in Nat /\ bgPushed \in Nat
      BY DEF TypeOK
    <3>3. Due' = (bgNotify + bgPushed - 1) + (Cardinality(notified) + 1) + Cardinality(Alert)
      BY <2>2, <3>1 DEF Due
    <3> QED BY SMTT(30), <1>0, <3>2, <3>3 DEF Due
  <2> QED BY SMTT(30), <2>3, <2>4, <2>6, WakeStep
<1>4. CASE BgReplenish
  <2>1. PICK a \in Int : a <= 0 /\ Supply' = Supply + a
    BY <1>4, ReplenishSupply DEF BgReplenish
  <2>2. UNCHANGED <<pc, notifyState, bgNotify, bgPushed>>
    BY <1>4 DEF BgReplenish
  <2>3. Due' = Due + 0
    BY SMTT(30), <1>0, <2>2, SameClients DEF Due
  <2> QED BY SMTT(30), <2>1, <2>2, <2>3, SameClients, WakeStep
<1>5. CASE \/ RefillOk /\ closed
           \/ RefillErr \/ RefillFailed \/ RetryFires \/ StreamEnded \/ Orphaned \/ Reaped
  <2>1. UNCHANGED <<pc, notifyState, idle, total, bgNotify, bgPushed>>
    BY <1>5 DEF RefillOk, RefillErr, RefillFailed, RetryFires, StreamEnded, Orphaned, Reaped
  <2>2. Supply' = Supply + 0 /\ Due' = Due + 0
    BY SMTT(30), <1>0, <2>1, SameClients DEF Due, Supply
  <2> QED BY SMTT(30), <2>1, <2>2, SameClients, WakeStep
<1> QED BY <1>1, <1>2, <1>3, <1>4, <1>5 DEF Background

(* Close, drops and deaths only take idle workers away or leave as many.   *)
LEMMA HandleWake ==
    ASSUME TypeOK, Remote' = Remote, NotifyOK, WakeInv,
           \/ \E i \in DOMAIN idle : IdleDeath(i)
           \/ Close \/ DropPool \/ DropInner \/ UNCHANGED vars
    PROVE  NotifyOK' /\ WakeInv'
<1> USE DEF poolState, bgState, clientState, vars
<1>0. Supply \in Nat /\ Due \in Nat /\ Len(idle) \in Nat
  BY Counted, LenProperties DEF TypeOK
<1>1. UNCHANGED <<pc, notifyState, total, bgNotify, bgPushed>>
  BY DEF IdleDeath, Close, DropPool, DropInner
<1>2. Len(idle') \in Nat /\ Len(idle') <= Len(idle)
  <2>1. CASE \E i \in DOMAIN idle : IdleDeath(i)
    <3>1. PICK i \in DOMAIN idle : idle' = [idle EXCEPT ![i].alive = FALSE]
      BY <2>1 DEF IdleDeath
    <3>2. DOMAIN idle' = 1..Len(idle)
      BY <3>1, LenProperties DEF TypeOK
    <3> QED BY SMTT(30), <1>0, <3>1, <3>2 DEF TypeOK
  <2>2. CASE Close \/ DropInner
    BY SMTT(30), <1>0, <2>2 DEF Close, DropInner
  <2>3. CASE DropPool \/ UNCHANGED vars
    BY SMTT(30), <1>0, <2>3 DEF DropPool
  <2> QED BY <2>1, <2>2, <2>3
<1>3. \E a, p \in Int : a <= p /\ Supply' = Supply + a /\ Due' = Due + p
  <2>1. Due' = Due + 0
    BY SMTT(30), <1>0, <1>1, SameClients DEF Due
  <2>2. CASE Remote
    <3>1. Supply' = Supply + 0
      BY SMTT(30), <1>0, <1>1, <2>2 DEF Supply
    <3> QED BY SMTT(30), <2>1, <3>1
  <2>3. CASE ~Remote
    <3>1. Supply' = Supply + (Len(idle') - Len(idle))
      BY SMTT(30), <1>0, <1>1, <1>2, <2>3, SizeAssumption DEF Supply, TypeOK
    <3>2. Len(idle') - Len(idle) \in Int /\ Len(idle') - Len(idle) <= 0
      BY SMTT(30), <1>0, <1>2
    <3> QED BY SMTT(30), <2>1, <3>1, <3>2
  <2> QED BY <2>2, <2>3
<1> QED BY SMTT(30), <1>1, <1>3, SameClients, WakeStep

(* A checkout never stays parked beside an idle worker or a free slot      *)
(* unless a notification is under way: acquire_worker_inner, release_      *)
(* worker, release_capacity and refill_one lose no wakeup, for any number  *)
(* of clients, any pool size and either transport.                         *)
THEOREM PoolNoLostWakeup == Spec => []NoLostWakeup
<1>1. Init => NotifyOK /\ WakeInv
  <2>1. ASSUME Init PROVE NotifyOK
    <3>1. /\ waiters = <<>> /\ notified = {} /\ ready = {}
          /\ \A c \in Clients : pc[c] = "out"
      BY <2>1 DEF Init
    <3>2. Range(waiters) = {} /\ IsInjective(waiters)
      BY SMTT(30), <3>1 DEF Range, IsInjective
    <3> QED BY <3>1, <3>2 DEF NotifyOK
  <2>2. ASSUME Init PROVE WakeInv
    BY <2>2 DEF Init, WakeInv, SomeParked, Parked
  <2> QED BY <2>1, <2>2
<1>2. TypeOK /\ NotifyOK /\ WakeInv /\ [Next]_vars => NotifyOK' /\ WakeInv'
  BY TransportFixed, AcquireWake, LeaveWake, ReleaseWake, BackgroundWake, HandleWake DEF Next
<1>3. TypeOK /\ NotifyOK /\ WakeInv => NoLostWakeup
  <2> SUFFICES ASSUME TypeOK, NotifyOK, WakeInv, SomeParked, Available
               PROVE  \/ NotifyPending \/ notified # {}
                      \/ \E c \in Clients : pc[c] = "looking" \/ (pc[c] = "waiting" /\ c \in ready)
    BY DEF NoLostWakeup, SomeParked
  <2>1. Supply > 0
    <3>1. Len(idle) \in Nat /\ (idle # <<>> => Len(idle) > 0)
      BY SMTT(30), LenProperties, EmptySeq DEF TypeOK
    <3> QED BY SMTT(30), <3>1, SizeAssumption DEF Available, Supply, TypeOK
  <2>2. Due > 0
    BY SMTT(30), <2>1, Counted DEF WakeInv
  <2>3. CASE notified = {} /\ Alert = {}
    BY SMTT(30), <2>2, <2>3, FS_EmptySet DEF Due, NotifyPending, TypeOK
  <2>4. CASE notified # {} \/ Alert # {}
    BY <2>4 DEF Alert, AlertPC, NotifyPending
  <2> QED BY <2>3, <2>4
<1> QED BY <1>1, <1>2, <1>3, PoolTypeOK, PTL DEF Spec
=============================================================================
