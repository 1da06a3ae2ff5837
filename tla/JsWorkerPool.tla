---------------------------- MODULE JsWorkerPool ----------------------------
(***************************************************************************)
(* The JavaScript pool of WebAssembly workers                              *)
(* (monty-js/ts/worker/pool.ts).  Nothing runs in parallel, but every      *)
(* await, and every `.then` of a promise, is a point where other calls on  *)
(* the same pool run; an action here is what runs between two of them.     *)
(* Continuations that are ready at the same time may run in any order,     *)
(* which allows more than the FIFO order of JavaScript's microtasks.       *)
(*                                                                         *)
(* A worker's own protocol, ids and error texts are left out.              *)
(***************************************************************************)
EXTENDS Integers, Sequences, Queues, FiniteSets, FiniteSetsExt

CONSTANTS
    Clients,        \* callers of checkout, one call at a time each
    Workers,        \* names for worker slots, reused once terminated
    MinWorkers, MaxWorkers,
    MaxCheckouts,   \* checkouts after which a worker is recycled
    None

(* WorkerPool.create refuses any other size.                               *)
ASSUME SizesAssumption ==
    MinWorkers \in Nat /\ MaxWorkers \in Nat \ {0} /\ MinWorkers <= MaxWorkers
ASSUME NamesAssumption ==
    /\ IsFiniteSet(Clients) /\ IsFiniteSet(Workers)
    /\ None \notin Workers /\ Clients \cap Workers = {}

VARIABLES
    idle,           \* a stack of slots
    waiters,        \* clients queued for a slot
    configuring,    \* slots claimed by a checkout, not yet a session
    retiring,       \* slots with a retirement promise that is not settled
    total, closed,
    up,             \* workers that run
    alive,          \* those of them that have not died by themselves
    checkouts,      \* WorkerSlot::checkouts
    pc, slot,       \* where each client's call stands, the slot it was given
    awaited, close_done     \* what closeIdle still waits for, whether it resolved

pool == <<idle, waiters, configuring, retiring, total, closed>>
workers == <<up, alive, checkouts>>
vars == <<pool, workers, pc, slot, awaited, close_done>>

(* The call of a client: "spawning" to "unlisted" is the promise of        *)
(* spawn(), which stays in the map `spawning` until its `finally` ran;     *)
(* "granted" is `await this.acquire()` about to go on with a slot.         *)
Listed == {"spawning", "spawned", "spawn_discards", "spawn_failed"}
PC == Listed \cup {"out", "discarding", "discarded", "waiting", "unlisted", "failed",
                   "granted", "configure", "dropping", "session"}

Init ==
    /\ idle \in Injection(1..MinWorkers, Workers)
    /\ up = Range(idle) /\ alive = up
    /\ waiters = <<>> /\ configuring = {} /\ retiring = {}
    /\ total = MinWorkers /\ closed = FALSE
    /\ checkouts = [w \in Workers |-> 0]
    /\ pc = [c \in Clients |-> "out"] /\ slot = [c \in Clients |-> None]
    /\ awaited = {} /\ close_done = FALSE

-----------------------------------------------------------------------------
(* discard: a slot is retired once, whoever asks.  `W` is a set of slots.  *)
Discard(W) ==
    /\ configuring' = configuring \ W
    /\ retiring' = retiring \cup W

(* `await this.discard(slot)` by the caller that holds the slot, which may *)
(* already be gone: close discards the slots being configured.             *)
Drop(c) ==
    \/ /\ slot[c] # None
       /\ Discard({slot[c]}) /\ pc' = [pc EXCEPT ![c] = "dropping"]
    \/ /\ slot[c] = None
       /\ pc' = [pc EXCEPT ![c] = "out"] /\ UNCHANGED <<configuring, retiring>>

(* spawn: capacity is taken before the worker exists.                      *)
Spawns(c) == total' = total + 1 /\ pc' = [pc EXCEPT ![c] = "spawning"]

(* pump: freed capacity goes to the longest waiters.  `calls` is pc after  *)
(* the rest of the step, `count` is total.                                 *)
Pump(calls, count) ==
    LET n == IF closed THEN 0 ELSE Min({Len(waiters), MaxWorkers - count})
        served == {waiters[i] : i \in 1..n}
    IN /\ waiters' = SubSeq(waiters, n + 1, Len(waiters))
       /\ total' = count + n
       /\ pc' = [c \in Clients |-> IF c \in served THEN "spawning" ELSE calls[c]]

(* acquire, up to its first await.                                         *)
Acquire(c) ==
    \/ /\ idle # <<>> /\ Last(idle) \in alive
       /\ idle' = Front(idle) /\ configuring' = configuring \cup {Last(idle)}
       /\ pc' = [pc EXCEPT ![c] = "granted"] /\ slot' = [slot EXCEPT ![c] = Last(idle)]
       /\ UNCHANGED <<waiters, retiring, total>>
    \/ /\ idle # <<>> /\ Last(idle) \notin alive
       /\ idle' = Front(idle) /\ Discard({Last(idle)})
       /\ pc' = [pc EXCEPT ![c] = "discarding"] /\ slot' = [slot EXCEPT ![c] = Last(idle)]
       /\ UNCHANGED <<waiters, total>>
    \/ /\ idle = <<>> /\ closed
       /\ pc' = [pc EXCEPT ![c] = "out"]
       /\ UNCHANGED <<idle, waiters, configuring, retiring, total, slot>>
    \/ /\ idle = <<>> /\ ~closed /\ total < MaxWorkers
       /\ Spawns(c)
       /\ UNCHANGED <<idle, waiters, configuring, retiring, slot>>
    \/ /\ idle = <<>> /\ ~closed /\ total >= MaxWorkers
       /\ waiters' = Append(waiters, c) /\ pc' = [pc EXCEPT ![c] = "waiting"]
       /\ UNCHANGED <<idle, configuring, retiring, total, slot>>

Checkout(c) ==
    /\ pc[c] = "out" /\ ~closed /\ Acquire(c)
    /\ UNCHANGED <<closed, workers, awaited, close_done>>
(* The loop of acquire goes on after a dead idle worker was reaped.        *)
AcquireAgain(c) ==
    /\ pc[c] = "discarded" /\ Acquire(c)
    /\ UNCHANGED <<closed, workers, awaited, close_done>>

(* The deadline of a queued checkout; a waiter that was shifted off the    *)
(* queue had its timer cancelled.                                          *)
TimesOut(c) ==
    /\ pc[c] = "waiting"
    /\ \E i \in DOMAIN waiters :
          waiters[i] = c /\ waiters' = RemoveAt(waiters, i)
    /\ pc' = [pc EXCEPT ![c] = "out"]
    /\ UNCHANGED <<idle, configuring, retiring, total, closed, workers, slot, awaited, close_done>>

-----------------------------------------------------------------------------
(* spawn, after its await of the factory.                                  *)

(* A worker that comes up after the close is discarded at once.            *)
FactoryResolves(c) ==
    /\ pc[c] = "spawning"
    /\ \E w \in Workers \ up :
          /\ up' = up \cup {w} /\ alive' = alive \cup {w}
          /\ checkouts' = [checkouts EXCEPT ![w] = 0]
          /\ slot' = [slot EXCEPT ![c] = w]
          /\ \/ ~closed /\ pc' = [pc EXCEPT ![c] = "spawned"] /\ UNCHANGED <<configuring, retiring>>
             \/ closed /\ pc' = [pc EXCEPT ![c] = "spawn_discards"] /\ Discard({w})
    /\ UNCHANGED <<idle, waiters, total, closed, awaited, close_done>>
(* Mutant of FactoryRejects: the capacity is not given back.               *)
FactoryRejectsKeepsTotal(c) ==
    /\ pc[c] = "spawning"
    /\ pc' = [pc EXCEPT ![c] = "spawn_failed"]
    /\ UNCHANGED <<idle, waiters, configuring, retiring, total, closed, workers, slot, awaited, close_done>>
FactoryRejects(c) ==
    /\ pc[c] = "spawning"
    /\ total' = total - 1 /\ pc' = [pc EXCEPT ![c] = "spawn_failed"]
    /\ UNCHANGED <<idle, waiters, configuring, retiring, closed, workers, slot, awaited, close_done>>

(* finally: the promise leaves the map before its own reactions run.       *)
Unlist(c) ==
    /\ pc[c] \in {"spawned", "spawn_failed"}
    /\ pc' = [pc EXCEPT ![c] = IF @ = "spawned" THEN "unlisted" ELSE "failed"]
    /\ awaited' = awaited \ {c}
    /\ UNCHANGED <<pool, workers, slot, close_done>>

(* The reactions of acquire and of pump to a spawn are the same.           *)
SpawnGrants(c) ==
    /\ pc[c] = "unlisted"
    /\ configuring' = configuring \cup {slot[c]} /\ pc' = [pc EXCEPT ![c] = "granted"]
    /\ UNCHANGED <<idle, waiters, retiring, total, closed, workers, slot, awaited, close_done>>
(* Mutant of SpawnFails: the queue is not looked at.                       *)
SpawnFailsNoPump(c) ==
    /\ pc[c] = "failed"
    /\ pc' = [pc EXCEPT ![c] = "out"]
    /\ slot' = [slot EXCEPT ![c] = None]
    /\ UNCHANGED <<idle, waiters, configuring, retiring, total, closed, workers, awaited, close_done>>
SpawnFails(c) ==
    /\ pc[c] = "failed"
    /\ Pump([pc EXCEPT ![c] = "out"], total)
    /\ slot' = [slot EXCEPT ![c] = None]
    /\ UNCHANGED <<idle, configuring, retiring, closed, workers, awaited, close_done>>

-----------------------------------------------------------------------------
(* checkout, after acquire.                                                *)

Granted(c) ==
    /\ pc[c] = "granted"
    /\ IF closed THEN Drop(c)
                 ELSE pc' = [pc EXCEPT ![c] = "configure"] /\ UNCHANGED <<configuring, retiring>>
    /\ UNCHANGED <<idle, waiters, total, closed, workers, slot, awaited, close_done>>

(* Configure succeeds; the pool may have been closed meanwhile.            *)
Configured(c) ==
    /\ pc[c] = "configure" /\ slot[c] \in alive
    /\ IF closed
       THEN Drop(c)
       ELSE /\ configuring' = configuring \ {slot[c]} /\ pc' = [pc EXCEPT ![c] = "session"]
            /\ UNCHANGED retiring
    /\ UNCHANGED <<idle, waiters, total, closed, workers, slot, awaited, close_done>>
ConfigureFails(c) ==
    /\ pc[c] = "configure"
    /\ Drop(c)
    /\ UNCHANGED <<idle, waiters, total, closed, workers, slot, awaited, close_done>>

-----------------------------------------------------------------------------
(* release, called when the session ends.                                  *)
(* Mutant of MustRetire: the close is not seen.                            *)
MustRetireUnlessClosed(w, reusable, count) ==
    ~reusable \/ w \notin alive \/ count >= MaxCheckouts
MustRetire(w, reusable, count) ==
    closed \/ ~reusable \/ w \notin alive \/ count >= MaxCheckouts
Release(c, reusable) ==
    LET w == slot[c]
        count == checkouts[w] + 1
    IN
    /\ pc[c] = "session"
    /\ checkouts' = [checkouts EXCEPT ![w] = count]
    /\ \/ /\ MustRetire(w, reusable, count)
          /\ Drop(c)
          /\ UNCHANGED <<idle, waiters, slot>>
       \/ /\ ~MustRetire(w, reusable, count)
          /\ \/ /\ waiters # <<>>
                /\ waiters' = Tail(waiters) /\ configuring' = configuring \cup {w}
                /\ pc' = [pc EXCEPT ![c] = "out", ![Head(waiters)] = "granted"]
                /\ slot' = [slot EXCEPT ![c] = None, ![Head(waiters)] = w]
                /\ UNCHANGED idle
             \/ /\ waiters = <<>>
                /\ idle' = Append(idle, w)
                /\ pc' = [pc EXCEPT ![c] = "out"] /\ slot' = [slot EXCEPT ![c] = None]
                /\ UNCHANGED <<waiters, configuring>>
          /\ UNCHANGED retiring
    /\ UNCHANGED <<total, closed, up, alive, awaited, close_done>>

(* The end of a retirement: capacity comes back, and whoever awaited it    *)
(* goes on.                                                                *)
Woken(c, w) ==
    CASE slot[c] = w /\ pc[c] = "discarding" -> "discarded"
      [] slot[c] = w /\ pc[c] = "spawn_discards" -> "spawn_failed"
      [] slot[c] = w /\ pc[c] = "dropping" -> "out"
      [] OTHER -> pc[c]
Terminated(w) ==
    /\ w \in retiring
    /\ retiring' = retiring \ {w} /\ up' = up \ {w} /\ alive' = alive \ {w}
    /\ Pump([c \in Clients |-> Woken(c, w)], total - 1)
    /\ slot' = [c \in Clients |-> IF slot[c] = w THEN None ELSE slot[c]]
    /\ awaited' = awaited \ {w}
    /\ UNCHANGED <<idle, configuring, closed, checkouts, close_done>>

Dies(w) ==
    /\ w \in alive
    /\ alive' = alive \ {w}
    /\ UNCHANGED <<pool, up, checkouts, pc, slot, awaited, close_done>>

(* close and closeIdle, up to the await of everything under way.           *)
Close ==
    /\ ~closed
    /\ closed' = TRUE /\ waiters' = <<>> /\ idle' = <<>>
    /\ Discard(Range(idle) \cup configuring)
    /\ pc' = [c \in Clients |-> IF pc[c] = "waiting" THEN "out" ELSE pc[c]]
    /\ awaited' = {c \in Clients : pc[c] \in Listed} \cup retiring'
    /\ UNCHANGED <<total, workers, slot, close_done>>
CloseResolves ==
    /\ closed /\ awaited = {} /\ ~close_done
    /\ close_done' = TRUE
    /\ UNCHANGED <<pool, workers, pc, slot, awaited>>

-----------------------------------------------------------------------------
Continues(c) ==
    \/ AcquireAgain(c) \/ FactoryResolves(c) \/ FactoryRejects(c) \/ Unlist(c)
    \/ SpawnGrants(c) \/ SpawnFails(c) \/ Granted(c) \/ Configured(c) \/ ConfigureFails(c)
Next ==
    \/ \E c \in Clients : \/ Checkout(c) \/ TimesOut(c) \/ Continues(c)
                          \/ \E reusable \in BOOLEAN : Release(c, reusable)
    \/ \E w \in Workers : Terminated(w) \/ Dies(w)
    \/ Close \/ CloseResolves
Spec == Init /\ [][Next]_vars

(* The event loop runs what is ready, a factory settles (an abort makes it *)
(* reject), so does Configure, and a terminated worker ends.               *)
FairSpec ==
    /\ Spec
    /\ \A c \in Clients : WF_vars(Continues(c))
    /\ \A w \in Workers : WF_vars(Terminated(w))
    /\ WF_vars(CloseResolves)

-----------------------------------------------------------------------------
(* `total` counts each running worker and each spawn under way once, and   *)
(* never passes maxWorkers: close, a checkout and a release may all        *)
(* discard the same slot, and a replacement starts only when the worker it *)
(* replaces is gone.                                                       *)
CapacityExact ==
    /\ total = Cardinality(up) + Cardinality({c \in Clients : pc[c] = "spawning"})
    /\ total <= MaxWorkers

(* A checkout queues only while nothing is to be had: no idle worker, and  *)
(* no capacity but what a failed spawn is about to hand on.                *)
NoneStranded ==
    waiters # <<>> /\ ~closed =>
        /\ idle = <<>>
        /\ \/ total = MaxWorkers
           \/ \E c \in Clients : pc[c] \in {"spawn_failed", "failed"}

(* After close() every worker outside a session is terminated, also one    *)
(* whose spawn or checkout was under way, and close() resolves.            *)
ClosedReaps ==
    closed ~> /\ close_done
              /\ \A w \in up : \E c \in Clients : pc[c] = "session" /\ slot[c] = w
=============================================================================
