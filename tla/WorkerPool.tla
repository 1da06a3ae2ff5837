----------------------------- MODULE WorkerPool -----------------------------
(***************************************************************************)
(* The worker pool of crates/monty-pool/src/pool.rs: how `Pool` and        *)
(* `PoolInner` hand workers to checkouts, take them back, refill towards   *)
(* `min_processes` in the background, back off when refills fail, close    *)
(* and go away.  Every critical section of the state mutex is one step,    *)
(* and so is every call of the `Notify` between two of them, so a handler  *)
(* such as release_capacity (decrement, notify, replenish) is three steps  *)
(* that other threads interleave with.                                     *)
(*                                                                         *)
(* What a worker does while a session holds it is not modelled here; a     *)
(* session either finishes (the worker comes back) or loses its worker.    *)
(***************************************************************************)
EXTENDS Integers, Sequences, FiniteSets

CONSTANTS
    Clients,        \* host tasks that check a worker out
    MinProcesses,   \* PoolConfig::min_processes
    MaxProcesses,   \* PoolConfig::max_processes
    RecycleLimit,   \* PoolConfig::max_checkouts_per_worker, or NoLimit
    NoLimit,
    Transports,     \* the kinds of pool checked: "subprocess", "remote"
    HasTimeout,     \* PoolConfig::checkout_timeout is set
    Threads         \* runtime threads: background releases under way at once

(* Pool::new refuses any other size.                                       *)
ASSUME SizeAssumption ==
    /\ MinProcesses \in Nat /\ MaxProcesses \in Nat \ {0}
    /\ MinProcesses <= MaxProcesses
    /\ Transports \subseteq {"subprocess", "remote"} /\ HasTimeout \in BOOLEAN
    /\ Threads \in Nat \ {0}
ASSUME ClientsFinite == IsFiniteSet(Clients)
ASSUME RecycleAssumption == RecycleLimit \in Nat \cup {NoLimit} /\ NoLimit \notin Nat

VARIABLES
    \* PoolState
    idle, total, closed, retry_at,
    \* the Notify `available`
    waiters,        \* enabled, not notified, first come first woken
    permit,         \* the one stored permit
    notified,       \* woken by notify_one, not yet polled
    ready,          \* took the permit in enable()
    \* one checkout per client
    pc, held,
    \* background work: how many tasks or threads are at each point
    refilling,      \* refill_one is in Worker::new
    failing,        \* refill_one saw an error and an open pool
    armed,          \* retry tasks asleep
    closing,        \* guards of workers taken by close()
    draining,       \* remote streams ending in the background
    bgDec, bgNotify, bgReplenish,   \* inside release_capacity
    bgPushed,       \* pushed an idle worker, notify_one comes next
    \* handles
    dropped,        \* Drop for Pool ran
    inner,          \* the Arc<PoolInner> is still alive
    transport       \* PoolConfig::transport

poolState == <<idle, total, closed, retry_at>>
notifyState == <<waiters, permit, notified, ready>>
clientState == <<pc, held>>
bgState == <<refilling, failing, armed, closing, draining, bgDec, bgNotify, bgReplenish, bgPushed>>
handles == <<dropped, inner, transport>>
vars == <<poolState, notifyState, clientState, bgState, handles>>

(* Remote streams are never idle: Pool::new and replenish make none ahead  *)
(* of a checkout.                                                          *)
Remote == transport = "remote"
Floor == IF Remote THEN 0 ELSE MinProcesses

NoWorker == [served |-> 0, alive |-> FALSE]
Fresh == [served |-> 0, alive |-> TRUE]
Worker == [served : Nat, alive : BOOLEAN]
Members(s) == {s[i] : i \in DOMAIN s}
Without(s, c) ==
    IF c \notin Members(s) THEN s
    ELSE LET i == CHOOSE j \in DOMAIN s : s[j] = c
         IN  SubSeq(s, 1, i - 1) \o SubSeq(s, i + 1, Len(s))

(* The client's place in checkout or in giving its worker up.              *)
PC == {"out", "looking", "topup", "spawning", "waiting", "holding",
       "dec", "notify", "replenish", "pushed"}

(* A background release runs without an await, so it occupies a thread.    *)
OnThread == failing + bgDec + bgNotify + bgReplenish + bgPushed
ThreadFree == OnThread < Threads

InAcquire(c) == c \in Members(waiters) \cup notified \cup ready

-----------------------------------------------------------------------------
(* tokio::sync::Notify, as pool.rs uses it.                                *)

(* notify_one wakes the longest-enabled waiter, or stores the one permit.  *)
NotifyOne ==
    IF waiters = <<>>
    THEN /\ permit' = TRUE
         /\ UNCHANGED <<waiters, notified, ready>>
    ELSE /\ waiters' = Tail(waiters)
         /\ notified' = notified \cup {Head(waiters)}
         /\ UNCHANGED <<permit, ready>>

(* enable() takes the permit or queues.  A client that re-enters the loop  *)
(* drops its old, received Notified first.                                 *)
Enable(c) ==
    IF permit
    THEN /\ permit' = FALSE
         /\ ready' = ready \cup {c}
         /\ notified' = notified \ {c}
         /\ UNCHANGED waiters
    ELSE /\ waiters' = Append(waiters, c)
         /\ ready' = ready \ {c}
         /\ notified' = notified \ {c}
         /\ UNCHANGED permit

(* Mutant: a dropped Notified keeps the notify_one it never received.      *)
DropNotifiedSilently(c) ==
    /\ waiters' = Without(waiters, c)
    /\ notified' = notified \ {c}
    /\ ready' = ready \ {c}
    /\ UNCHANGED permit

(* Dropping a Notified: an unreceived notify_one goes to the next waiter;  *)
(* a permit taken by enable() is gone.                                     *)
DropNotified(c) ==
    /\ ready' = ready \ {c}
    /\ IF c \notin notified
       THEN /\ waiters' = Without(waiters, c)
            /\ UNCHANGED <<permit, notified>>
       ELSE IF waiters = <<>>
       THEN /\ permit' = TRUE
            /\ notified' = notified \ {c}
            /\ UNCHANGED waiters
       ELSE /\ waiters' = Tail(waiters)
            /\ notified' = (notified \ {c}) \cup {Head(waiters)}
            /\ UNCHANGED permit

-----------------------------------------------------------------------------
Init ==
    /\ transport \in Transports
    /\ idle = [i \in 1..Floor |-> Fresh]
    /\ total = Floor
    /\ closed = FALSE /\ retry_at = FALSE
    /\ waiters = <<>> /\ permit = FALSE /\ notified = {} /\ ready = {}
    /\ pc = [c \in Clients |-> "out"]
    /\ held = [c \in Clients |-> NoWorker]
    /\ refilling = 0 /\ failing = 0 /\ armed = 0 /\ closing = 0 /\ draining = 0
    /\ bgDec = 0 /\ bgNotify = 0 /\ bgReplenish = 0 /\ bgPushed = 0
    /\ dropped = FALSE /\ inner = TRUE

(* Mutant: replenish does not look at `closed`.                            *)
WantedWhenClosed ==
    IF Remote \/ retry_at \/ total >= MinProcesses THEN 0 ELSE MinProcesses - total

(* PoolInner::replenish, one critical section: reserve up to the floor and *)
(* start one refill task per reserved slot.                                *)
Wanted ==
    IF Remote \/ closed \/ retry_at \/ total >= MinProcesses
    THEN 0 ELSE MinProcesses - total
Replenish ==
    /\ total' = total + Wanted
    /\ refilling' = refilling + Wanted

-----------------------------------------------------------------------------
(* acquire_worker_inner *)

(* A new checkout enters the loop: the Notified is enabled before the lock.*)
NewCheckout(c) ==
    /\ pc[c] = "out" /\ ~dropped
    /\ Enable(c)
    /\ pc' = [pc EXCEPT ![c] = "looking"]
    /\ UNCHANGED <<poolState, held, bgState, handles>>

(* Dead workers are popped off the end of `idle` down to the last live one.*)
LiveIdle == {i \in DOMAIN idle : idle[i].alive}
LastLive(k) == k \in LiveIdle /\ \A i \in LiveIdle : i <= k

(* The lock section finds a live idle worker; without dead ones the        *)
(* checkout returns at once and its Notified is dropped.                   *)
Reuse(c) ==
    /\ pc[c] = "looking" /\ ~Remote
    /\ \E k \in DOMAIN idle :
        /\ LastLive(k)
        /\ idle' = SubSeq(idle, 1, k - 1)
        /\ total' = total - (Len(idle) - k)
        /\ held' = [held EXCEPT ![c] = idle[k]]
        /\ IF k < Len(idle)
           THEN pc' = [pc EXCEPT ![c] = "topup"] /\ UNCHANGED notifyState
           ELSE pc' = [pc EXCEPT ![c] = "holding"] /\ DropNotified(c)
    /\ UNCHANGED <<closed, retry_at, bgState, handles>>

(* The lock section finds no live idle worker and reserves a slot.         *)
Reserve(c) ==
    /\ pc[c] = "looking" /\ (Remote \/ LiveIdle = {})
    /\ LET died == IF Remote THEN 0 ELSE Len(idle) IN
       /\ total - died < MaxProcesses
       /\ total' = total - died + 1
       /\ idle' = IF Remote THEN idle ELSE <<>>
       /\ pc' = [pc EXCEPT ![c] = IF died > 0 THEN "topup" ELSE "spawning"]
    /\ UNCHANGED <<closed, retry_at, notifyState, held, bgState, handles>>

(* The lock section finds neither: wait for a notification.                *)
Full(c) ==
    /\ pc[c] = "looking" /\ (Remote \/ idle = <<>>)
    /\ total >= MaxProcesses
    /\ pc' = [pc EXCEPT ![c] = "waiting"]
    /\ UNCHANGED <<poolState, notifyState, held, bgState, handles>>

(* Mutant: dead idle workers are popped and not replaced.                  *)
TopUpNothing(c) ==
    /\ pc[c] = "topup"
    /\ IF held[c] = NoWorker
       THEN pc' = [pc EXCEPT ![c] = "spawning"] /\ UNCHANGED notifyState
       ELSE pc' = [pc EXCEPT ![c] = "holding"] /\ DropNotified(c)
    /\ UNCHANGED <<poolState, held, bgState, handles>>

(* died_idle > 0: replenish, then return the reused worker or spawn.       *)
TopUp(c) ==
    /\ pc[c] = "topup"
    /\ Replenish
    /\ IF held[c] = NoWorker
       THEN pc' = [pc EXCEPT ![c] = "spawning"] /\ UNCHANGED notifyState
       ELSE pc' = [pc EXCEPT ![c] = "holding"] /\ DropNotified(c)
    /\ UNCHANGED <<idle, closed, retry_at, held, failing, armed, closing, draining,
                   bgDec, bgNotify, bgReplenish, bgPushed, handles>>

(* Worker::new succeeds: the guard is disarmed, the Notified dropped.      *)
SpawnOk(c) ==
    /\ pc[c] = "spawning"
    /\ pc' = [pc EXCEPT ![c] = "holding"]
    /\ held' = [held EXCEPT ![c] = Fresh]
    /\ DropNotified(c)
    /\ UNCHANGED <<poolState, bgState, handles>>

(* Worker::new fails, or the host drops a remote dial: the guard releases  *)
(* the slot, and only then is the Notified dropped.                        *)
SpawnFail(c) ==
    /\ pc[c] = "spawning"
    /\ pc' = [pc EXCEPT ![c] = "dec"]
    /\ UNCHANGED <<poolState, notifyState, held, bgState, handles>>

(* A notified waiter goes round the loop.                                  *)
Wake(c) ==
    /\ pc[c] = "waiting" /\ c \in notified \cup ready
    /\ Enable(c)
    /\ pc' = [pc EXCEPT ![c] = "looking"]
    /\ UNCHANGED <<poolState, held, bgState, handles>>

(* timeout_at polls the notification first, so only an unnotified waiter   *)
(* fails with Exhausted.                                                   *)
Exhausted(c) ==
    /\ HasTimeout
    /\ pc[c] = "waiting" /\ c \notin notified \cup ready
    /\ DropNotified(c)
    /\ pc' = [pc EXCEPT ![c] = "out"]
    /\ UNCHANGED <<poolState, held, bgState, handles>>

(* The host drops the checkout future while it waits.                      *)
Cancel(c) ==
    /\ pc[c] = "waiting"
    /\ DropNotified(c)
    /\ pc' = [pc EXCEPT ![c] = "out"]
    /\ UNCHANGED <<poolState, held, bgState, handles>>

-----------------------------------------------------------------------------
(* Leaving a session *)

Served(w) == IF RecycleLimit = NoLimit THEN w.served ELSE w.served + 1
Recycled(w) == RecycleLimit # NoLimit /\ Served(w) >= RecycleLimit

(* Checkout::finish, release_worker: back to the idle queue.  `closed` is  *)
(* not consulted.                                                          *)
FinishIdle(c) ==
    /\ pc[c] = "holding" /\ ~Remote /\ ~Recycled(held[c])
    /\ idle' = Append(idle, [held[c] EXCEPT !.served = Served(held[c])])
    /\ held' = [held EXCEPT ![c] = NoWorker]
    /\ pc' = [pc EXCEPT ![c] = "pushed"]
    /\ UNCHANGED <<total, closed, retry_at, notifyState, bgState, handles>>

(* release_worker retires a worker that served its last checkout.          *)
FinishRecycle(c) ==
    /\ pc[c] = "holding" /\ ~Remote /\ Recycled(held[c])
    /\ held' = [held EXCEPT ![c] = NoWorker]
    /\ pc' = [pc EXCEPT ![c] = "dec"]
    /\ UNCHANGED <<poolState, notifyState, bgState, handles>>

(* release_worker on a remote stream: the slot stays taken until the       *)
(* server has ended the stream.                                            *)
FinishRemote(c) ==
    /\ pc[c] = "holding" /\ Remote
    /\ held' = [held EXCEPT ![c] = NoWorker]
    /\ pc' = [pc EXCEPT ![c] = "out"]
    /\ draining' = draining + 1
    /\ UNCHANGED <<poolState, notifyState, refilling, failing, armed, closing,
                   bgDec, bgNotify, bgReplenish, bgPushed, handles>>

(* Crash, timeout, protocol violation, terminate or an abandoned checkout: *)
(* the worker is dropped and its slot released.                            *)
Discard(c) ==
    /\ pc[c] = "holding"
    /\ held' = [held EXCEPT ![c] = NoWorker]
    /\ pc' = [pc EXCEPT ![c] = "dec"]
    /\ UNCHANGED <<poolState, notifyState, bgState, handles>>

(* release_capacity on the client's own thread. *)
ReleaseDec(c) ==
    /\ pc[c] = "dec"
    /\ total' = total - 1
    /\ pc' = [pc EXCEPT ![c] = "notify"]
    /\ UNCHANGED <<idle, closed, retry_at, notifyState, held, bgState, handles>>

(* Mutant: nobody is told about the released worker or slot.               *)
ReleaseQuietly(c) ==
    /\ pc[c] \in {"notify", "pushed"}
    /\ pc' = [pc EXCEPT ![c] = IF pc[c] = "notify" THEN "replenish" ELSE "out"]
    /\ UNCHANGED <<poolState, notifyState, held, bgState, handles>>

ReleaseNotify(c) ==
    /\ pc[c] \in {"notify", "pushed"}
    /\ NotifyOne
    /\ pc' = [pc EXCEPT ![c] = IF pc[c] = "notify" THEN "replenish" ELSE "out"]
    /\ UNCHANGED <<poolState, held, bgState, handles>>

(* The last step of release_capacity; a failed spawn then drops its        *)
(* Notified, a session has none.                                           *)
ReleaseReplenish(c) ==
    /\ pc[c] = "replenish"
    /\ Replenish
    /\ DropNotified(c)
    /\ pc' = [pc EXCEPT ![c] = "out"]
    /\ UNCHANGED <<idle, closed, retry_at, held, failing, armed, closing, draining,
                   bgDec, bgNotify, bgReplenish, bgPushed, handles>>

-----------------------------------------------------------------------------
(* Background work *)

(* A worker process dies while it is idle; nothing notices until it is     *)
(* popped.                                                                 *)
IdleDeath(i) ==
    /\ idle[i].alive
    /\ idle' = [idle EXCEPT ![i].alive = FALSE]
    /\ UNCHANGED <<total, closed, retry_at, notifyState, clientState, bgState, handles>>

(* refill_one after Worker::new succeeded.                                 *)
RefillOk ==
    /\ refilling > 0 /\ inner /\ ThreadFree
    /\ refilling' = refilling - 1
    /\ IF closed
       THEN bgDec' = bgDec + 1 /\ UNCHANGED <<idle, bgPushed>>
       ELSE idle' = Append(idle, Fresh) /\ bgPushed' = bgPushed + 1 /\ UNCHANGED bgDec
    /\ UNCHANGED <<total, closed, retry_at, notifyState, clientState, failing, armed,
                   closing, draining, bgNotify, bgReplenish, handles>>

(* refill_one after Worker::new failed; `closed` is read in one critical   *)
(* section and refill_failed takes the lock again.                         *)
RefillErr ==
    /\ refilling > 0 /\ inner /\ ThreadFree
    /\ refilling' = refilling - 1
    /\ IF closed
       THEN bgDec' = bgDec + 1 /\ UNCHANGED failing
       ELSE failing' = failing + 1 /\ UNCHANGED bgDec
    /\ UNCHANGED <<poolState, notifyState, clientState, armed, closing, draining,
                   bgNotify, bgReplenish, bgPushed, handles>>

(* Mutant: a failed refill arms no retry task.                             *)
RefillFailedNoRetry ==
    /\ failing > 0
    /\ failing' = failing - 1
    /\ retry_at' = TRUE
    /\ bgDec' = bgDec + 1
    /\ UNCHANGED <<idle, total, closed, notifyState, clientState, refilling, armed, closing,
                   draining, bgNotify, bgReplenish, bgPushed, handles>>

(* refill_failed: suspend refills, arm the retry task if none is, then     *)
(* release the slot.                                                       *)
RefillFailed ==
    /\ failing > 0
    /\ failing' = failing - 1
    /\ retry_at' = TRUE
    /\ armed' = IF retry_at THEN armed ELSE armed + 1
    /\ bgDec' = bgDec + 1
    /\ UNCHANGED <<idle, total, closed, notifyState, clientState, refilling, closing,
                   draining, bgNotify, bgReplenish, bgPushed, handles>>

(* The retry task wakes: clear the deadline, then replenish.               *)
RetryFires ==
    /\ armed > 0 /\ inner /\ ThreadFree
    /\ armed' = armed - 1
    /\ retry_at' = FALSE
    /\ bgReplenish' = bgReplenish + 1
    /\ UNCHANGED <<idle, total, closed, notifyState, clientState, refilling, failing,
                   closing, draining, bgDec, bgNotify, bgPushed, handles>>

(* A remote stream has ended: its close callback releases the slot.        *)
StreamEnded ==
    /\ draining > 0 /\ inner /\ ThreadFree
    /\ draining' = draining - 1
    /\ bgDec' = bgDec + 1
    /\ UNCHANGED <<poolState, notifyState, clientState, refilling, failing, armed, closing,
                   bgNotify, bgReplenish, bgPushed, handles>>

(* A refill, retry or stream callback that finds the pool gone returns.    *)
Orphaned ==
    /\ ~inner
    /\ \/ refilling > 0 /\ refilling' = refilling - 1 /\ UNCHANGED <<armed, draining>>
       \/ armed > 0 /\ armed' = armed - 1 /\ UNCHANGED <<refilling, draining>>
       \/ draining > 0 /\ draining' = draining - 1 /\ UNCHANGED <<refilling, armed>>
    /\ UNCHANGED <<poolState, notifyState, clientState, failing, closing,
                   bgDec, bgNotify, bgReplenish, bgPushed, handles>>

(* release_capacity on a background thread, and the notify after a push.   *)
BgDec ==
    /\ bgDec > 0
    /\ bgDec' = bgDec - 1 /\ bgNotify' = bgNotify + 1
    /\ total' = total - 1
    /\ UNCHANGED <<idle, closed, retry_at, notifyState, clientState, refilling, failing,
                   armed, closing, draining, bgReplenish, bgPushed, handles>>

BgNotify ==
    /\ bgNotify > 0
    /\ bgNotify' = bgNotify - 1 /\ bgReplenish' = bgReplenish + 1
    /\ NotifyOne
    /\ UNCHANGED <<poolState, clientState, refilling, failing, armed, closing, draining,
                   bgDec, bgPushed, handles>>

BgPushed ==
    /\ bgPushed > 0
    /\ bgPushed' = bgPushed - 1
    /\ NotifyOne
    /\ UNCHANGED <<poolState, clientState, refilling, failing, armed, closing, draining,
                   bgDec, bgNotify, bgReplenish, handles>>

BgReplenish ==
    /\ bgReplenish > 0
    /\ bgReplenish' = bgReplenish - 1
    /\ Replenish
    /\ UNCHANGED <<idle, closed, retry_at, notifyState, clientState, failing, armed, closing,
                   draining, bgDec, bgNotify, bgPushed, handles>>

-----------------------------------------------------------------------------
(* Closing and dropping *)

(* Mutant: close takes the idle workers without a guard for their slots.   *)
CloseUnguarded ==
    /\ ~dropped
    /\ closed' = TRUE
    /\ idle' = <<>>
    /\ UNCHANGED <<total, retry_at, notifyState, clientState, bgState, handles>>

(* Pool::close takes the idle workers, each under a capacity guard.        *)
Close ==
    /\ ~dropped
    /\ closed' = TRUE
    /\ idle' = <<>>
    /\ closing' = closing + Len(idle)
    /\ UNCHANGED <<total, retry_at, notifyState, clientState, refilling, failing, armed,
                   draining, bgDec, bgNotify, bgReplenish, bgPushed, handles>>

(* A closed worker is reaped, or the close future is dropped: either way   *)
(* its guard releases the slot.                                            *)
Reaped ==
    /\ closing > 0 /\ ThreadFree
    /\ closing' = closing - 1
    /\ bgDec' = bgDec + 1
    /\ UNCHANGED <<poolState, notifyState, clientState, refilling, failing, armed, draining,
                   bgNotify, bgReplenish, bgPushed, handles>>

(* Drop for Pool; checkout and close borrow the Pool, so none is running.  *)
DropPool ==
    /\ ~dropped /\ closing = 0
    /\ \A c \in Clients : ~InAcquire(c)
    /\ dropped' = TRUE
    /\ closed' = TRUE
    /\ UNCHANGED <<idle, total, retry_at, notifyState, clientState, bgState, inner, transport>>

(* Mutant: worker handles without kill-on-drop outlive the pool.           *)
DropInnerLeaky ==
    /\ dropped /\ inner
    /\ \A c \in Clients : pc[c] = "out"
    /\ OnThread = 0
    /\ inner' = FALSE
    /\ UNCHANGED <<poolState, notifyState, clientState, bgState, dropped, transport>>

(* The last Arc goes: the idle workers are killed on drop.                 *)
DropInner ==
    /\ dropped /\ inner
    /\ \A c \in Clients : pc[c] = "out"
    /\ OnThread = 0
    /\ inner' = FALSE
    /\ idle' = <<>>
    /\ UNCHANGED <<total, closed, retry_at, notifyState, clientState, bgState, dropped, transport>>

-----------------------------------------------------------------------------
Acquire(c) ==
    Reuse(c) \/ Reserve(c) \/ Full(c) \/ TopUp(c) \/ SpawnOk(c) \/ SpawnFail(c) \/ Wake(c)
GiveUp(c) == Exhausted(c) \/ Cancel(c)
Leave(c) == FinishIdle(c) \/ FinishRecycle(c) \/ FinishRemote(c) \/ Discard(c)
Release(c) == ReleaseDec(c) \/ ReleaseNotify(c) \/ ReleaseReplenish(c)
Background ==
    RefillOk \/ RefillErr \/ RefillFailed \/ RetryFires \/ StreamEnded \/ Orphaned
    \/ BgDec \/ BgNotify \/ BgPushed \/ BgReplenish \/ Reaped

Next ==
    \/ \E c \in Clients : NewCheckout(c) \/ Acquire(c) \/ GiveUp(c) \/ Leave(c) \/ Release(c)
    \/ \E i \in DOMAIN idle : IdleDeath(i)
    \/ Background \/ Close \/ DropPool \/ DropInner

Spec == Init /\ [][Next]_vars

(* The runtime keeps polling every task that can make progress, a session  *)
(* ends in the end, and spawning a worker fails only finitely often in a   *)
(* row.  A woken task waits in the run queue for a thread, so it is not    *)
(* passed over for ever while threads come free.  Nothing makes hosts      *)
(* start, cancel, close or drop.                                           *)
Fairness ==
    /\ \A c \in Clients : WF_vars(Acquire(c)) /\ WF_vars(Leave(c)) /\ WF_vars(Release(c))
    /\ WF_vars(RefillOk \/ RefillErr) /\ SF_vars(RefillOk)
    /\ WF_vars(RefillFailed) /\ SF_vars(RetryFires) /\ SF_vars(StreamEnded)
    /\ WF_vars(BgDec) /\ WF_vars(BgNotify) /\ WF_vars(BgPushed) /\ WF_vars(BgReplenish)
    /\ SF_vars(Reaped) /\ WF_vars(Orphaned) /\ WF_vars(DropInner)
FairSpec == Spec /\ Fairness

-----------------------------------------------------------------------------
TypeOK ==
    /\ idle \in Seq(Worker) /\ total \in 0..MaxProcesses
    /\ closed \in BOOLEAN /\ retry_at \in BOOLEAN
    /\ waiters \in Seq(Clients) /\ permit \in BOOLEAN
    /\ notified \subseteq Clients /\ ready \subseteq Clients
    /\ pc \in [Clients -> PC] /\ held \in [Clients -> Worker]
    /\ refilling \in Nat /\ failing \in Nat /\ armed \in Nat /\ closing \in Nat
    /\ draining \in Nat /\ bgDec \in Nat /\ bgNotify \in Nat /\ bgReplenish \in Nat
    /\ bgPushed \in Nat
    /\ dropped \in BOOLEAN /\ inner \in BOOLEAN /\ transport \in Transports

(* Clients that own a slot, slots in the hands of background work, and all *)
(* the slots in use.                                                       *)
OwnerPC == {"topup", "spawning", "holding", "dec"}
Owners == {c \in Clients : pc[c] \in OwnerPC}
InFlight == refilling + failing + closing + draining + bgDec
Slots == Len(idle) + Cardinality(Owners) + InFlight

SlotAccounting == inner => total = Slots

(* PoolState::total counts every live slot exactly once (pool.rs:62: "idle *)
(* + checked out + currently being spawned") and never passes              *)
(* max_processes, through racing checkouts, refills, failures, closes and  *)
(* cancelled spawns: no slot leaks, none is released twice.                *)
SlotsExact == SlotAccounting /\ total <= MaxProcesses

(* While the pool is open and refills are not backing off, the pool is at  *)
(* its floor or some thread is still on its way to replenish it            *)
(* (release_capacity, the retry task and the dead-idle path all end there).*)
FloorKept ==
    \/ total >= Floor \/ closed \/ retry_at
    \/ bgNotify + bgReplenish > 0
    \/ \E c \in Clients : pc[c] \in {"notify", "replenish", "topup"}

(* retry_at is set exactly while the one retry task sleeps (pool.rs:71):   *)
(* otherwise refills would stay suspended for good, or retries pile up.    *)
OneRetry == inner => armed = IF retry_at THEN 1 ELSE 0

Parked(c) == pc[c] = "waiting" /\ c \notin notified \cup ready
Available == total < MaxProcesses \/ (~Remote /\ idle # <<>>)
NotifyPending ==
    bgNotify + bgPushed > 0 \/ \E c \in Clients : pc[c] \in {"notify", "pushed"}

(* No lost wakeup: a checkout never stays parked beside an idle worker or  *)
(* a free slot unless a notification is still under way, in the hands of a *)
(* client that will look again or pass it on when it drops its Notified.   *)
NoLostWakeup ==
    (\E c \in Clients : Parked(c)) /\ Available =>
        \/ NotifyPending \/ notified # {}
        \/ \E c \in Clients : pc[c] = "looking" \/ (pc[c] = "waiting" /\ c \in ready)

(* If new checkouts stop arriving, every blocked checkout gets out of the  *)
(* wait: with a worker, or with its own spawn's error.                     *)
BlockedServed ==
    <>[][~\E c \in Clients : NewCheckout(c)]_vars
        => \A c \in Clients : pc[c] = "waiting" ~> pc[c] \in {"out", "holding"}

(* If new checkouts stop arriving, an open pool gets back to min_processes *)
(* workers and stays there, after any crashes, failed refills and backoffs.*)
FloorRestored ==
    <>[][~\E c \in Clients : NewCheckout(c)]_vars
        => <>[](closed \/ Len(idle) + Cardinality({c \in Clients : pc[c] = "holding"}) >= Floor)

(* A closed pool stops replacing workers for good: the refills under way at *)
(* the close come to an end, also the retry that refill_failed arms after   *)
(* the close from a reading of `closed` before it (pool.rs:523: "a closed   *)
(* pool will not refill again, so it must not arm a retry"), and no retry,  *)
(* release or checkout that follows starts another.                         *)
ClosedQuiesces == closed ~> [](refilling + failing + armed = 0)

(* Once the Pool and every session are gone, no worker process survives in *)
(* the idle queue, in a refill or in a stream that is ending.              *)
DropReapsAll ==
    (dropped /\ \A c \in Clients : pc[c] = "out")
        ~> (idle = <<>> /\ refilling + draining + armed = 0)
=============================================================================
