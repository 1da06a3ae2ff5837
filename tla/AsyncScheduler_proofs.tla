----------------------- MODULE AsyncScheduler_proofs ------------------------
(***************************************************************************)
(* The scheduler's types and its ready queue, for every number of          *)
(* coroutines, calls and gathers and every recursion limit: where the      *)
(* thread is, which tasks are queued and which one is loaded.              *)
(***************************************************************************)
EXTENDS AsyncScheduler, SequenceFacts

(* A leaf that names no prover is for Zenon.                               *)
USE ZenonT(60)

Alive == {"ready", "raise"}
Queued == Range(ready_queue)

(* A task's bytecode runs; a suspended task, or none, is loaded; a task    *)
(* that ended is on its way out.                                           *)
Running == ctl.mode \in {"run", "raise", "commit"} /\ ~is_parked
Quiet == ctl.mode \in {"select", "host"} \/ (ctl.mode = "deliver" /\ ctl.after = "host")
Leaving == ctl.mode = "exit" \/ (ctl.mode = "deliver" /\ ctl.after = "exit")

(* The thread and the queue.                                               *)
QueueInv ==
    /\ IsInjective(ready_queue)
    /\ \A t \in Queued : state[t] \in Alive
    /\ \A t \in Tasks : state[t] \in Alive /\ t # current_task => t \in Queued
    /\ \A t \in Tasks : t = current_task /\ Quiet /\ state[t] \in Alive => t \in Queued

ThreadInv ==
    /\ ctl.mode \in {"raise", "commit"} => ~is_parked
    /\ ctl.mode = "commit" <=> commits # <<>>
    /\ ctl.mode = "deliver" => Quiet \/ Leaving
    /\ Running => /\ current_task \in Tasks \ Queued
                  /\ state[current_task] = "ready"
    /\ Quiet => (is_parked <=> current_task = None)
    /\ Leaving /\ current_task # None =>
            current_task \in Coros \ Queued /\ state[current_task] = "ready"
    /\ ctl.mode = "select" /\ ctl.idle = "run" => is_parked
    /\ ctl.mode = "select" /\ ctl.woken # None => current_task = None
    /\ ctl.mode \in {"select", "exit"} /\ ctl.woken # None => ctl.woken \in Queued

TaskInv ==
    /\ \A c \in Coros : state[c] \in {"ready", "raise", "blocked"} => under[c] \in Gathers
    /\ \A t \in Tasks : /\ state[t] \in {"blocked", "raise"} => on[t] # None
                        /\ state[t] \in {"none", "gone"} => on[t] = None
                        /\ t # current_task /\ on[t] # None => frames[t] # <<>>
    /\ (Running \/ Quiet) /\ current_task # None => vmFrames # <<>>
    /\ state[Main] \in {"ready", "raise", "blocked"}

-----------------------------------------------------------------------------
(* Awaiters are told apart.                                                *)
LEMMA AwaiterFacts ==
    /\ \A t, u : ToTask(t) = ToTask(u) => t = u
    /\ \A g, x, h, y : ToSlot(g, x) = ToSlot(h, y) => g = h /\ x = y
    /\ \A t \in Tasks : ToTask(t) # NoAwaiter /\ ToTask(t) \in Awaiters
    /\ \A g \in Gathers, x \in Awaitables : ToSlot(g, x) \in Awaiters
    /\ \A g \in Gathers : \A x : ToSlot(g, x) # NoAwaiter
    /\ \A t \in Tasks : \A g, x : ToTask(t) # ToSlot(g, x)
<1>1. \A t, u : ToTask(t) = ToTask(u) => t = u
  BY DEF ToTask
<1>2. \A g, x, h, y : ToSlot(g, x) = ToSlot(h, y) => g = h /\ x = y
  BY DEF ToSlot
<1>3. None \notin Tasks /\ None \notin Gathers
  BY KindsAssumption DEF Tasks, Awaitables
<1>4. \A t \in Tasks : ToTask(t) # NoAwaiter /\ ToTask(t) \in Awaiters
  BY SMTT(30), <1>3 DEF ToTask, NoAwaiter, Awaiters
<1>5. \A g \in Gathers, x \in Awaitables : ToSlot(g, x) \in Awaiters
  BY SMTT(30) DEF Awaiters
<1>6. \A g \in Gathers : \A x : ToSlot(g, x) # NoAwaiter
  BY <1>3 DEF ToSlot, NoAwaiter
<1>7. \A t \in Tasks : \A g, x : ToTask(t) # ToSlot(g, x)
  BY <1>3 DEF ToTask, ToSlot
<1> QED BY <1>1, <1>2, <1>4, <1>5, <1>6, <1>7

(* None is no task and no awaitable.                                       *)
LEMMA NoneFacts ==
    /\ None \notin Tasks /\ None \notin Awaitables /\ Main \notin Coros
    /\ Coros \subseteq Tasks /\ Coros \subseteq Awaitables /\ Main \in Tasks
    /\ Exts \subseteq Awaitables /\ Gathers \subseteq Awaitables
  BY KindsAssumption DEF Tasks, Awaitables

(* Taking a task out of the queue, wherever it stands.                     *)
LEMMA RemoveFirstFacts ==
    ASSUME NEW S, NEW s \in Seq(S), NEW e, IsInjective(s)
    PROVE  /\ RemoveFirst(s, e) \in Seq(S) /\ IsInjective(RemoveFirst(s, e))
           /\ Range(RemoveFirst(s, e)) = Range(s) \ {e}
<1>0. DOMAIN s = 1..Len(s) /\ Len(s) \in Nat
  BY LenProperties
<1> DEFINE at == {i \in DOMAIN s : s[i] = e}
<1>1. CASE at # {}
  <2>1. PICK k \in at : \A j \in at : k <= j
    <3>1. at \in SUBSET Nat
      BY SMTT(30), <1>0
    <3> HIDE DEF at
    <3> QED BY <3>1, <1>1, LeastNumber
  <2>2. PICK n \in at : n = CHOOSE i \in at : \A j \in at : i <= j
    BY <2>1
  <2>3. n \in 1..Len(s) /\ s[n] = e
    BY <1>0, <2>2
  <2>4. RemoveFirst(s, e) = RemoveAt(s, n)
    BY <1>1, <2>2 DEF RemoveFirst
  <2>5. /\ RemoveAt(s, n) \in Seq(S) /\ IsInjective(RemoveAt(s, n))
        /\ Range(RemoveAt(s, n)) = Range(s) \ {s[n]}
    BY <2>3, RemoveAtFacts
  <2> HIDE DEF at
  <2> QED BY <2>3, <2>4, <2>5
<1>2. CASE at = {}
  <2>1. RemoveFirst(s, e) = s /\ e \notin Range(s)
    BY <1>0, <1>2 DEF RemoveFirst, Range
  <2> QED BY <2>1
<1> QED BY <1>1, <1>2

(* Where the thread goes.                                                  *)
LEMMA ControlFacts ==
    ASSUME TypeOK
    PROVE  /\ \A m \in Modes : /\ Go(m) \in Controls /\ Go(m).mode = m
                               /\ Go(m).awaiter = ctl.awaiter /\ Go(m).value = ctl.value
                               /\ Go(m).after = ctl.after /\ Go(m).woken = ctl.woken
                               /\ Go(m).idle = ctl.idle
           /\ \A i \in {"yield", "check", "run", "resume"} :
                 /\ Select(i) \in Controls /\ Select(i).mode = "select" /\ Select(i).idle = i
                 /\ Select(i).woken = None
           /\ \A a \in Awaiters, v \in Awaitables \cup {None}, f \in {"exit", "host"},
                 i \in {"yield", "check", "run", "resume"} :
                 /\ Deliver(a, v, f, i) \in Controls /\ Deliver(a, v, f, i).mode = "deliver"
                 /\ Deliver(a, v, f, i).awaiter = a /\ Deliver(a, v, f, i).value = v
                 /\ Deliver(a, v, f, i).after = f /\ Deliver(a, v, f, i).woken = None
<1>1. ctl \in Controls
  BY DEF TypeOK
<1>2. \A m \in Modes : /\ Go(m) \in Controls /\ Go(m).mode = m
                       /\ Go(m).awaiter = ctl.awaiter /\ Go(m).value = ctl.value
                       /\ Go(m).after = ctl.after /\ Go(m).woken = ctl.woken
                       /\ Go(m).idle = ctl.idle
  BY <1>1 DEF Go, Controls
<1>3. \A i \in {"yield", "check", "run", "resume"} :
                 /\ Select(i) \in Controls /\ Select(i).mode = "select" /\ Select(i).idle = i
                 /\ Select(i).woken = None
  BY DEF Select, Controls, Modes
<1>4. \A a \in Awaiters, v \in Awaitables \cup {None}, f \in {"exit", "host"},
         i \in {"yield", "check", "run", "resume"} :
         /\ Deliver(a, v, f, i) \in Controls /\ Deliver(a, v, f, i).mode = "deliver"
         /\ Deliver(a, v, f, i).awaiter = a /\ Deliver(a, v, f, i).value = v
         /\ Deliver(a, v, f, i).after = f /\ Deliver(a, v, f, i).woken = None
  BY SMTT(30) DEF Deliver, Controls, Modes
<1> QED BY <1>2, <1>3, <1>4

-----------------------------------------------------------------------------
Sched == QueueInv /\ ThreadInv /\ TaskInv

(* The loaded task runs on, or the run ends.                               *)
LEMMA KeepsRunning ==
    ASSUME TypeOK, Sched, Running,
           UNCHANGED <<state, ready_queue, current_task, is_parked, frames, under>>,
           ctl'.mode \in {"run", "raise", "commit", "done"},
           ctl'.mode = "commit" <=> commits' # <<>>, vmFrames' # <<>>,
           on' \in {on, [on EXCEPT ![current_task] = None]}
    PROVE  Sched'
<1>1. Queued' = Queued /\ ~Quiet' /\ ~Leaving'
  BY DEF Queued, Quiet, Leaving
<1>2. /\ current_task \in Tasks /\ state[current_task] = "ready"
      /\ \A t \in Tasks : on'[t] = on[t] \/ (t = current_task /\ on'[t] = None)
  BY DEF Sched, ThreadInv, TypeOK
<1>3. QueueInv'
  BY <1>1 DEF Sched, QueueInv
<1>4. ThreadInv'
  BY <1>1, <1>2 DEF Sched, ThreadInv, Running
<1>5. TaskInv'
  BY <1>1, <1>2 DEF Sched, TaskInv
<1> QED BY <1>3, <1>4, <1>5 DEF Sched

(* The loaded task is suspended.                                           *)
LEMMA Suspends ==
    ASSUME TypeOK, Sched, Running, NEW x \in Awaitables,
           BlockCurrentOn(current_task, x), ctl' = Select("yield"), commits' = <<>>,
           UNCHANGED <<ready_queue, current_task, is_parked, frames, under, vmFrames>>
    PROVE  Sched'
<1>1. /\ ctl'.mode = "select" /\ ctl'.idle = "yield" /\ ctl'.woken = None
      /\ Queued' = Queued /\ Quiet' /\ ~Leaving' /\ ~Running'
  BY ControlFacts DEF Queued, Quiet, Leaving, Running
<1>2. /\ current_task \in Tasks /\ current_task # None /\ current_task \notin Queued
      /\ state[current_task] = "ready"
      /\ state'[current_task] = "blocked" /\ on'[current_task] = x /\ x # None
      /\ \A t \in Tasks \ {current_task} : state'[t] = state[t] /\ on'[t] = on[t]
  BY NoneFacts DEF Sched, ThreadInv, TypeOK, BlockCurrentOn
<1>3. Queued \subseteq Tasks
  BY SMTT(30) DEF Queued, Range, TypeOK
<1>4. QueueInv'
  BY <1>1, <1>2, <1>3 DEF Sched, QueueInv, Alive
<1>5. ThreadInv'
  BY <1>1, <1>2 DEF Sched, ThreadInv, Running
<1>6. TaskInv'
  <2>1. \A c \in Coros : state'[c] \in {"ready", "raise", "blocked"} => under'[c] \in Gathers
    BY <1>2, NoneFacts DEF Sched, TaskInv
  <2>2. \A t \in Tasks : /\ state'[t] \in {"blocked", "raise"} => on'[t] # None
                         /\ state'[t] \in {"none", "gone"} => on'[t] = None
                         /\ t # current_task' /\ on'[t] # None => frames'[t] # <<>>
    BY <1>2 DEF Sched, TaskInv
  <2>3. vmFrames' # <<>> /\ state'[Main] \in {"ready", "raise", "blocked"}
    BY <1>2, NoneFacts DEF Sched, TaskInv
  <2> QED BY <2>1, <2>2, <2>3 DEF TaskInv
<1> QED BY <1>4, <1>5, <1>6 DEF Sched

(* A task joins the queue, or is taken from it to run next.                *)
LEMMA Enqueues ==
    ASSUME TypeOK, QueueInv, NEW t \in Tasks, state[t] \notin Alive,
           ready_queue' = Append(ready_queue, t)
    PROVE  /\ t \notin Queued /\ Queued' = Queued \cup {t}
           /\ IsInjective(ready_queue') /\ ready_queue' \in Seq(Tasks)
<1>1. t \notin Queued /\ ready_queue \in Seq(Tasks) /\ IsInjective(ready_queue)
  BY DEF QueueInv, TypeOK
<1> QED BY <1>1, AppendFacts DEF Queued

LEMMA Dequeues ==
    ASSUME TypeOK, Sched, NEW t \in Tasks, Selected(t)
    PROVE  /\ t \in Queued /\ Queued' = Queued \ {t}
           /\ IsInjective(ready_queue') /\ ready_queue' \in Seq(Tasks)
<1>1. ready_queue \in Seq(Tasks) /\ IsInjective(ready_queue)
  BY DEF Sched, QueueInv, TypeOK
<1>2. CASE ctl.woken = t /\ ready_queue' = RemoveFirst(ready_queue, t)
  <2>1. t \in Queued
    BY <1>2, NoneFacts DEF Selected, Sched, ThreadInv
  <2> QED BY <1>1, <1>2, <2>1, RemoveFirstFacts DEF Queued
<1>3. CASE ready_queue # <<>> /\ Head(ready_queue) = t /\ ready_queue' = Tail(ready_queue)
  BY <1>1, <1>3, TailFacts DEF Queued
<1> QED BY <1>2, <1>3 DEF Selected

(* A coroutine becomes a task.                                             *)
LEMMA Spawns ==
    ASSUME TypeOK, Sched, ctl.mode = "commit", NEW c \in Coros, state[c] \in {"none", "gone"},
           NEW g \in Gathers, Spawn(c, g), ctl' = ctl, commits' # <<>>,
           UNCHANGED <<current_task, is_parked, on, frames, vmFrames>>
    PROVE  Sched' /\ ready_queue' \in Seq(Tasks)
<1>1. c \in Tasks /\ Queued \subseteq Tasks
  BY SMTT(30), NoneFacts DEF Queued, Range, TypeOK
<1>2. /\ c \notin Queued /\ Queued' = Queued \cup {c}
      /\ IsInjective(ready_queue') /\ ready_queue' \in Seq(Tasks)
  BY <1>1, Enqueues DEF Sched, Spawn, Alive
<1>3. /\ state'[c] = "ready" /\ under'[c] = g
      /\ \A t \in Tasks \ {c} : state'[t] = state[t] /\ under'[t] = under[t]
  BY <1>1 DEF Spawn, TypeOK
<1>4. /\ Running /\ Running' /\ ~Quiet' /\ ~Leaving' /\ current_task # c
      /\ current_task \in Tasks \ Queued /\ state[current_task] = "ready"
  BY DEF Sched, ThreadInv, Running, Quiet, Leaving
<1>5. QueueInv'
  BY <1>1, <1>2, <1>3, <1>4 DEF Sched, QueueInv, Alive
<1>6. ThreadInv'
  BY <1>2, <1>3, <1>4 DEF Sched, ThreadInv
<1>7. TaskInv'
  <2>1. \A d \in Coros : state'[d] \in {"ready", "raise", "blocked"} => under'[d] \in Gathers
    BY <1>3, NoneFacts DEF Sched, TaskInv
  <2>2. \A t \in Tasks : /\ state'[t] \in {"blocked", "raise"} => on'[t] # None
                         /\ state'[t] \in {"none", "gone"} => on'[t] = None
                         /\ t # current_task' /\ on'[t] # None => frames'[t] # <<>>
    BY <1>3 DEF Sched, TaskInv
  <2>3. vmFrames' # <<>> /\ state'[Main] \in {"ready", "raise", "blocked"}
    BY <1>3, <1>4, NoneFacts DEF Sched, TaskInv
  <2> QED BY <2>1, <2>2, <2>3 DEF TaskInv
<1> QED BY <1>2, <1>5, <1>6, <1>7 DEF Sched

(* A delivery goes on, or ends without a task to wake.                     *)
LEMMA ChainSched ==
    ASSUME TypeOK, Sched, ctl.mode = "deliver", ctl'.after = ctl.after, commits' = commits,
           ctl'.mode = "deliver" \/ (ctl'.mode = ctl.after /\ ctl'.woken = None),
           UNCHANGED <<state, ready_queue, current_task, is_parked, on, frames, under, vmFrames>>
    PROVE  Sched'
<1>1. ctl.after \in {"exit", "host"}
  BY DEF Sched, ThreadInv, Quiet, Leaving
<1>2. Queued' = Queued /\ Quiet' = Quiet /\ Leaving' = Leaving /\ ~Running /\ ~Running'
  BY <1>1 DEF Queued, Quiet, Leaving, Running
<1>3. QueueInv'
  BY <1>2 DEF Sched, QueueInv
<1>4. ThreadInv'
  BY <1>1, <1>2 DEF Sched, ThreadInv
<1>5. TaskInv'
  BY <1>2 DEF Sched, TaskInv
<1> QED BY <1>3, <1>4, <1>5 DEF Sched

(* A blocked task is woken.                                                *)
LEMMA WakeSched ==
    ASSUME TypeOK, Sched, ctl.mode = "deliver", NEW t \in Tasks, state[t] = "blocked",
           NEW s \in Alive, MakeReady(t, s), ctl'.mode = ctl.after, ctl'.after = ctl.after,
           ctl'.woken = t, commits' = commits,
           UNCHANGED <<current_task, is_parked, on, frames, under, vmFrames>>
    PROVE  Sched' /\ ready_queue' \in Seq(Tasks)
<1>1. ctl.after \in {"exit", "host"} /\ Queued \subseteq Tasks
  BY SMTT(30) DEF Sched, ThreadInv, Quiet, Leaving, Queued, Range, TypeOK
<1>2. /\ t \notin Queued /\ Queued' = Queued \cup {t}
      /\ IsInjective(ready_queue') /\ ready_queue' \in Seq(Tasks)
  BY Enqueues DEF Sched, MakeReady, Alive
<1>3. state'[t] = s /\ \A u \in Tasks \ {t} : state'[u] = state[u]
  BY DEF MakeReady, TypeOK
<1>4. Quiet' = Quiet /\ Leaving' = Leaving /\ ~Running /\ ~Running'
  BY <1>1 DEF Quiet, Leaving, Running
<1>5. QueueInv'
  BY <1>1, <1>2, <1>3, <1>4 DEF Sched, QueueInv
<1>6. ThreadInv'
  BY <1>1, <1>2, <1>3, <1>4, NoneFacts DEF Sched, ThreadInv
<1>7. TaskInv'
  <2>1. \A c \in Coros : state'[c] \in {"ready", "raise", "blocked"} => under'[c] \in Gathers
    BY <1>3, NoneFacts DEF Sched, TaskInv
  <2>2. \A u \in Tasks : /\ state'[u] \in {"blocked", "raise"} => on'[u] # None
                         /\ state'[u] \in {"none", "gone"} => on'[u] = None
                         /\ u # current_task' /\ on'[u] # None => frames'[u] # <<>>
    BY <1>3 DEF Sched, TaskInv, Alive
  <2>3. state'[Main] \in {"ready", "raise", "blocked"}
    BY <1>3, NoneFacts DEF Sched, TaskInv, Alive
  <2> QED BY <1>4, <2>1, <2>2, <2>3 DEF Sched, TaskInv
<1> QED BY <1>2, <1>5, <1>6, <1>7 DEF Sched

-----------------------------------------------------------------------------
(* A task ends.                                                            *)
LEMMA ReturnSched ==
    ASSUME TypeOK, Sched, NEW c \in Coros, TaskReturns(c)
    PROVE  Sched' /\ ToSlot(under[c], c) \in Awaiters
<1> USE DEF taskVars, vmVars
<1>1. /\ Running /\ c \in Tasks /\ current_task = c /\ on[c] = None /\ state[c] = "ready"
      /\ c \notin Queued /\ under[c] \in Gathers /\ c # Main
  BY NoneFacts DEF TaskReturns, Executing, Sched, ThreadInv, TaskInv, Running
<1>2. ToSlot(under[c], c) \in Awaiters
  BY <1>1, AwaiterFacts, NoneFacts
<1>3. /\ ctl'.mode = "deliver" /\ ctl'.after = "exit" /\ ctl'.woken = None
      /\ current_task' = None /\ Queued' = Queued /\ Queued \subseteq Tasks
  BY SMTT(30), <1>2, ControlFacts, NoneFacts DEF TaskReturns, Queued, Range, TypeOK
<1>4. Leaving' /\ ~Quiet' /\ ~Running'
  BY <1>3 DEF Leaving, Quiet, Running
<1>5. state'[c] = "gone" /\ \A t \in Tasks \ {c} : state'[t] = state[t]
  BY <1>1 DEF TaskReturns, TypeOK
<1>6. QueueInv'
  BY <1>1, <1>3, <1>4, <1>5 DEF TaskReturns, Sched, QueueInv, Alive
<1>7. ThreadInv'
  BY <1>1, <1>3, <1>4 DEF TaskReturns, Executing, Sched, ThreadInv
<1>8. TaskInv'
  BY <1>1, <1>4, <1>5, NoneFacts DEF TaskReturns, Sched, TaskInv
<1> QED BY <1>2, <1>6, <1>7, <1>8 DEF Sched

LEMMA FailSched ==
    ASSUME TypeOK, Sched, NEW c \in Coros, TaskFails(c)
    PROVE  Sched' /\ ToSlot(under[c], c) \in Awaiters
<1> USE DEF schedVars, taskVars, vmVars
<1>1. /\ Running /\ c \in Tasks /\ current_task = c /\ state[c] = "ready"
      /\ c \notin Queued /\ under[c] \in Gathers
  BY NoneFacts DEF TaskFails, Sched, ThreadInv, TaskInv, Running
<1>2. ToSlot(under[c], c) \in Awaiters
  BY <1>1, AwaiterFacts, NoneFacts
<1>3. ctl'.mode = "deliver" /\ ctl'.after = "exit" /\ ctl'.woken = None /\ Queued' = Queued
  BY SMTT(30), <1>2, ControlFacts DEF TaskFails, Queued
<1>4. Leaving' /\ ~Quiet' /\ ~Running'
  BY <1>3 DEF Leaving, Quiet, Running
<1>5. QueueInv'
  BY <1>3, <1>4 DEF TaskFails, Sched, QueueInv
<1>6. ThreadInv'
  BY <1>1, <1>3, <1>4 DEF TaskFails, Sched, ThreadInv, Running
<1>7. TaskInv'
  BY <1>4 DEF TaskFails, Sched, TaskInv
<1> QED BY <1>2, <1>5, <1>6, <1>7 DEF Sched

LEMMA ExitSched ==
    ASSUME TypeOK, Sched, TaskExits
    PROVE  Sched' /\ ready_queue' \in Seq(Tasks)
<1>1. /\ ctl'.mode = "select" /\ ctl'.woken = ctl.woken /\ current_task' = None
      /\ is_parked' = TRUE /\ commits = <<>> /\ commits' = commits /\ frames' = frames
      /\ under' = under /\ ctl.mode = "exit"
  BY ControlFacts DEF TaskExits, Modes, Sched, ThreadInv
<1>2. Quiet' /\ ~Leaving' /\ ~Running' /\ Leaving /\ Queued \subseteq Tasks
  BY SMTT(30), <1>1 DEF Leaving, Quiet, Running, Queued, Range, TypeOK
<1>3. /\ Queued' = Queued /\ IsInjective(ready_queue') /\ ready_queue' \in Seq(Tasks)
      /\ \A t \in Tasks : \/ state'[t] = state[t] /\ on'[t] = on[t] /\ t # current_task
                          \/ /\ t = current_task /\ state'[t] = "gone" /\ on'[t] = None
                             /\ t \notin Queued /\ t # Main
  <2>1. CASE current_task = None /\ UNCHANGED <<state, ready_queue, current_task, on>>
    BY <2>1, NoneFacts DEF Sched, QueueInv, TypeOK, Queued
  <2>2. CASE /\ current_task # None
             /\ state' = [state EXCEPT ![current_task] = "gone"]
             /\ ready_queue' = RemoveFirst(ready_queue, current_task)
             /\ on' = [on EXCEPT ![current_task] = None]
    <3>1. current_task \in Coros \ Queued
      BY <1>2, <2>2 DEF Sched, ThreadInv
    <3>2. ready_queue \in Seq(Tasks) /\ IsInjective(ready_queue)
      BY DEF Sched, QueueInv, TypeOK
    <3>3. Queued' = Queued /\ IsInjective(ready_queue') /\ ready_queue' \in Seq(Tasks)
      <4>1. /\ IsInjective(ready_queue') /\ ready_queue' \in Seq(Tasks)
            /\ Queued' = Queued \ {current_task}
        BY <2>2, <3>2, RemoveFirstFacts DEF Queued
      <4> QED BY <3>1, <4>1
    <3>4. \A t \in Tasks : \/ state'[t] = state[t] /\ on'[t] = on[t] /\ t # current_task
                           \/ /\ t = current_task /\ state'[t] = "gone" /\ on'[t] = None
                              /\ t \notin Queued /\ t # Main
      BY SMTT(30), <2>2, <3>1, NoneFacts DEF TypeOK
    <3> QED BY <3>3, <3>4
  <2> QED BY <2>1, <2>2 DEF TaskExits
<1>4. QueueInv'
  BY <1>1, <1>2, <1>3, NoneFacts DEF Sched, QueueInv, Alive
<1>5. ThreadInv'
  BY <1>1, <1>2, <1>3 DEF Sched, ThreadInv
<1>6. TaskInv'
  BY <1>1, <1>2, <1>3, NoneFacts DEF Sched, TaskInv
<1> QED BY <1>3, <1>4, <1>5, <1>6 DEF Sched

-----------------------------------------------------------------------------
(* A task is loaded.                                                       *)
LEMMA LoadedSched ==
    ASSUME TypeOK, Sched, NEW t \in Tasks, ActivateLoaded(t)
    PROVE  Sched' /\ ready_queue' \in Seq(Tasks)
<1> USE DEF taskVars, vmVars
<1>1. /\ t \in Queued /\ Queued' = Queued \ {t}
      /\ IsInjective(ready_queue') /\ ready_queue' \in Seq(Tasks)
  BY Dequeues DEF ActivateLoaded
<1>2. /\ ctl.mode = "select" /\ current_task = t /\ t # None /\ commits = <<>> /\ Quiet
      /\ Queued \subseteq Tasks
  BY SMTT(30), NoneFacts DEF ActivateLoaded, Selected, Sched, ThreadInv, Quiet, Queued, Range, TypeOK
<1>3. ~is_parked /\ vmFrames # <<>>
  BY <1>2 DEF Sched, ThreadInv, TaskInv
<1>4. ctl'.mode \in {"run", "raise"}
  BY DEF ActivateLoaded, Select
<1>5. Running' /\ ~Quiet' /\ ~Leaving'
  BY <1>3, <1>4 DEF ActivateLoaded, Running, Quiet, Leaving
<1>6. state'[t] = "ready" /\ \A u \in Tasks \ {t} : state'[u] = state[u]
  BY DEF ActivateLoaded, TypeOK
<1>7. QueueInv'
  BY <1>1, <1>2, <1>5, <1>6 DEF ActivateLoaded, Sched, QueueInv
<1>8. ThreadInv'
  BY <1>1, <1>2, <1>3, <1>4, <1>5, <1>6 DEF ActivateLoaded, Sched, ThreadInv
<1>9. TaskInv'
  <2>1. state[t] \in Alive
    BY <1>1 DEF Sched, QueueInv
  <2> QED BY <1>2, <1>3, <1>6, <2>1, NoneFacts DEF ActivateLoaded, Sched, TaskInv, Alive
<1> QED BY <1>1, <1>7, <1>8, <1>9 DEF Sched

(* What a task switch does to the task that was loaded.                    *)
LEMMA SwitchFacts ==
    ASSUME TypeOK, Sched, ctl.mode = "select", NEW t \in Tasks, Selected(t),
           t # current_task, SwitchContext(t)
    PROVE  /\ current_task' = t /\ t # None /\ commits = <<>>
           /\ \A u \in Tasks \ {t} : state[u] \in Alive => u \in Queued'
           /\ \A u \in Tasks \ {t} : on[u] # None => frames'[u] # <<>>
           /\ t \in Queued /\ Queued' = Queued \ {t} /\ Queued \subseteq Tasks
           /\ IsInjective(ready_queue') /\ ready_queue' \in Seq(Tasks)
<1>1. /\ t \in Queued /\ Queued' = Queued \ {t}
      /\ IsInjective(ready_queue') /\ ready_queue' \in Seq(Tasks)
  BY Dequeues
<1>2. /\ current_task' = t /\ t # None /\ commits = <<>> /\ Quiet /\ Queued \subseteq Tasks
      /\ \A u \in Tasks \ {t} : frames'[u] = IF u = current_task THEN vmFrames ELSE frames[u]
  BY SMTT(30), NoneFacts DEF SwitchContext, Sched, ThreadInv, Quiet, Queued, Range, TypeOK
<1>3. \A u \in Tasks \ {t} : state[u] \in Alive => u \in Queued'
  BY <1>1, <1>2 DEF Sched, QueueInv
<1>4. \A u \in Tasks \ {t} : on[u] # None => frames'[u] # <<>>
  BY <1>2, NoneFacts DEF Sched, TaskInv
<1> QED BY <1>1, <1>2, <1>3, <1>4

LEMMA SavedSched ==
    ASSUME TypeOK, Sched, NEW t \in Tasks, ActivateSaved(t)
    PROVE  Sched' /\ ready_queue' \in Seq(Tasks)
<1>1. /\ current_task' = t /\ t # None /\ commits = <<>>
      /\ \A u \in Tasks \ {t} : state[u] \in Alive => u \in Queued'
      /\ \A u \in Tasks \ {t} : on[u] # None => frames'[u] # <<>>
      /\ t \in Queued /\ Queued' = Queued \ {t} /\ Queued \subseteq Tasks
      /\ IsInjective(ready_queue') /\ ready_queue' \in Seq(Tasks)
  BY SwitchFacts DEF ActivateSaved, Selected
<1>2. ctl'.mode \in {"run", "raise"} /\ is_parked' = FALSE /\ vmFrames' # <<>>
  BY DEF ActivateSaved, Select
<1>3. Running' /\ ~Quiet' /\ ~Leaving'
  BY <1>2 DEF Running, Quiet, Leaving
<1>4. state'[t] = "ready" /\ \A u \in Tasks \ {t} : state'[u] = state[u]
  BY DEF ActivateSaved, TypeOK
<1>5. QueueInv'
  BY <1>1, <1>3, <1>4 DEF Sched, QueueInv
<1>6. ThreadInv'
  BY <1>1, <1>2, <1>3, <1>4 DEF ActivateSaved, Sched, ThreadInv
<1>7. TaskInv'
  <2>1. state[t] \in Alive
    BY <1>1 DEF Sched, QueueInv
  <2> QED BY <1>1, <1>2, <1>4, <2>1, NoneFacts DEF ActivateSaved, Sched, TaskInv, Alive
<1> QED BY <1>1, <1>5, <1>6, <1>7 DEF Sched

LEMMA NewSched ==
    ASSUME TypeOK, Sched, NEW c \in Coros, ActivateNew(c) \/ ActivateStale(c)
    PROVE  /\ Sched' /\ ready_queue' \in Seq(Tasks)
           /\ ToSlot(under[c], c) \in Awaiters /\ on[c] = None /\ state[c] = "ready"
<1>0. c \in Tasks
  BY NoneFacts
<1>1. /\ current_task' = c /\ c # None /\ commits = <<>>
      /\ \A u \in Tasks \ {c} : state[u] \in Alive => u \in Queued'
      /\ \A u \in Tasks \ {c} : on[u] # None => frames'[u] # <<>>
      /\ c \in Queued /\ Queued' = Queued \ {c} /\ Queued \subseteq Tasks
      /\ IsInjective(ready_queue') /\ ready_queue' \in Seq(Tasks)
  BY <1>0, SwitchFacts DEF ActivateNew, ActivateStale, Selected
<1>2. /\ on[c] = None /\ state[c] = "ready" /\ under[c] \in Gathers
      /\ state' = state /\ on' = on /\ under' = under /\ commits' = commits
  BY <1>0, <1>1 DEF ActivateNew, ActivateStale, Sched, QueueInv, TaskInv, Alive
<1>3. ToSlot(under[c], c) \in Awaiters
  BY <1>2, AwaiterFacts, NoneFacts
<1>4. QueueInv'
  <2>1. ~Quiet'
    <3>1. CASE ActivateNew(c)
      BY <3>1 DEF ActivateNew, Select, Quiet
    <3>2. CASE ActivateStale(c)
      <4>1. ctl'.mode = "deliver" /\ ctl'.after = "exit"
        BY <1>3, <3>2 DEF ActivateStale, Deliver
      <4> QED BY <4>1 DEF Quiet
    <3> QED BY <3>1, <3>2
  <2> QED BY <1>1, <1>2, <2>1 DEF Sched, QueueInv
<1>5. CASE ActivateNew(c)
  <2>1. ctl'.mode = "run" /\ is_parked' = FALSE /\ vmFrames' # <<>>
    BY <1>5 DEF ActivateNew, Select
  <2>2. Running' /\ ~Quiet' /\ ~Leaving'
    BY <2>1 DEF Running, Quiet, Leaving
  <2>3. ThreadInv'
    BY <1>0, <1>1, <1>2, <2>1, <2>2 DEF Sched, ThreadInv
  <2>4. TaskInv'
    BY <1>1, <1>2, <2>1 DEF Sched, TaskInv
  <2> QED BY <1>1, <1>2, <1>3, <1>4, <2>3, <2>4 DEF Sched
<1>6. CASE ActivateStale(c)
  <2>1. ctl'.mode = "deliver" /\ ctl'.after = "exit" /\ ctl'.woken = None
    BY <1>6 DEF ActivateStale, Deliver
  <2>2. Leaving' /\ ~Quiet' /\ ~Running'
    BY <2>1 DEF Running, Quiet, Leaving
  <2>3. ThreadInv'
    BY <1>1, <1>2, <2>1, <2>2 DEF Sched, ThreadInv
  <2>4. TaskInv'
    BY <1>1, <1>2, <2>2 DEF Sched, TaskInv
  <2> QED BY <1>1, <1>2, <1>3, <1>4, <2>3, <2>4 DEF Sched
<1> QED BY <1>5, <1>6

LEMMA IdleSched ==
    ASSUME TypeOK, Sched, NothingToRun \/ RerunsModule \/ HostResumes
    PROVE  Sched'
<1> USE DEF schedVars, taskVars, vmVars
<1>1. Queued' = Queued /\ ctl.mode # "commit" /\ commits' = <<>>
  BY DEF NothingToRun, RerunsModule, HostResumes, Queued, Sched, ThreadInv
<1>2. CASE NothingToRun
  <2>1. ctl.mode = "select" /\ Quiet
    BY <1>2 DEF NothingToRun, Quiet
  <2>2. \/ ctl'.mode = "run" /\ is_parked
        \/ ctl'.mode \in {"host", "stalled"}
    BY SMTT(30), <1>2, ControlFacts DEF NothingToRun, Modes, Sched, ThreadInv
  <2>3. ~Running' /\ ~Leaving' /\ (Quiet' => Quiet)
    BY <1>2, <2>1, <2>2 DEF NothingToRun, Running, Leaving, Quiet
  <2>4. QueueInv' /\ ThreadInv'
    BY <1>1, <1>2, <2>1, <2>2, <2>3 DEF NothingToRun, Sched, QueueInv, ThreadInv
  <2>5. TaskInv'
    BY <1>2, <2>3 DEF NothingToRun, Sched, TaskInv
  <2> QED BY <2>4, <2>5 DEF Sched
<1>3. CASE RerunsModule
  <2>1. ctl'.mode \in {"done", "panic"}
    BY SMTT(30), <1>3, ControlFacts DEF RerunsModule, Modes
  <2>2. ~Running' /\ ~Leaving' /\ ~Quiet'
    BY <2>1 DEF Running, Leaving, Quiet
  <2>3. QueueInv' /\ ThreadInv'
    BY <1>1, <1>3, <2>1, <2>2 DEF RerunsModule, Sched, QueueInv, ThreadInv
  <2>4. TaskInv'
    BY <1>3, <2>2 DEF RerunsModule, Sched, TaskInv
  <2> QED BY <2>3, <2>4 DEF Sched
<1>4. CASE HostResumes
  <2>1. ctl'.mode = "select" /\ ctl'.idle = "resume" /\ ctl'.woken = None /\ ctl.mode = "host"
    BY <1>4, ControlFacts DEF HostResumes
  <2>2. ~Running' /\ ~Leaving' /\ Quiet
    BY <2>1 DEF Running, Leaving, Quiet
  <2>3. QueueInv' /\ ThreadInv'
    BY <1>1, <1>4, <2>1, <2>2 DEF HostResumes, Sched, QueueInv, ThreadInv
  <2>4. TaskInv'
    BY <1>4, <2>2 DEF HostResumes, Sched, TaskInv
  <2> QED BY <2>3, <2>4 DEF Sched
<1> QED BY <1>2, <1>3, <1>4

LEMMA HostSched ==
    ASSUME TypeOK, Sched,
           HostAborts \/ (\E e \in Exts, o \in {"Resolved", "Failed"} : Settle(e, o))
    PROVE  Sched'
<1> USE DEF taskVars, vmVars
<1>1. Queued' = Queued /\ Quiet /\ commits = <<>> /\ commits' = commits /\ ctl.mode = "host"
  BY DEF HostAborts, Settle, Queued, Sched, ThreadInv, Quiet
<1>2. CASE HostAborts
  <2>1. ctl'.mode = "done"
    BY <1>2, ControlFacts DEF HostAborts, Modes
  <2>2. ~Running' /\ ~Leaving' /\ ~Quiet'
    BY <2>1 DEF Running, Leaving, Quiet
  <2>3. /\ \A t \in Tasks : t # current_task' => t # current_task \/ Quiet
        /\ \A t \in Tasks : t # current_task' => frames'[t] = frames[t]
    BY <1>1, <1>2, NoneFacts DEF HostAborts, SwitchContext, Sched, ThreadInv
  <2>4. QueueInv' /\ ThreadInv'
    BY <1>1, <1>2, <2>1, <2>2, <2>3 DEF HostAborts, Sched, QueueInv, ThreadInv
  <2>5. TaskInv'
    <3>1. \A t \in Tasks : t # current_task' => t # current_task
      BY <1>1, <1>2, NoneFacts DEF HostAborts, SwitchContext, Sched, ThreadInv
    <3> QED BY <1>2, <2>2, <2>3, <3>1 DEF HostAborts, Sched, TaskInv
  <2> QED BY <2>4, <2>5 DEF Sched
<1>3. ASSUME NEW e \in Exts, NEW o \in {"Resolved", "Failed"}, Settle(e, o)
      PROVE  Sched'
  <2>1. \/ ctl' = ctl
        \/ ctl'.mode = "deliver" /\ ctl'.after = "host" /\ ctl'.woken = None
    BY <1>3 DEF Settle, Deliver
  <2>2. ~Running' /\ ~Leaving' /\ Quiet' /\ ctl'.mode \in {"host", "deliver"}
    BY <1>1, <2>1 DEF Running, Leaving, Quiet
  <2>3. QueueInv' /\ ThreadInv'
    BY <1>1, <1>3, <2>2 DEF Settle, Sched, QueueInv, ThreadInv
  <2>4. TaskInv'
    BY <1>1, <1>3, <2>2 DEF Settle, Sched, TaskInv
  <2> QED BY <2>3, <2>4 DEF Sched
<1> QED BY <1>2, <1>3

-----------------------------------------------------------------------------
(* The records of a walk and of a delivery.                                *)
LEMMA FrameFacts ==
    ASSUME NEW f \in CommitFrames
    PROVE  /\ f.gather \in Gathers /\ f.awaiter \in Awaiters /\ f.next \in Nat
           /\ f.pending \subseteq Awaitables \X Nat /\ f.results \subseteq Nat
           /\ Ready(f) \in CommitFrames
           /\ Ready(f).gather = f.gather /\ Ready(f).awaiter = f.awaiter
           /\ Ready(f).next = f.next + 1 /\ Ready(f).pending = f.pending
           /\ Ready(f).results = f.results \cup {f.next}
           /\ \A x \in Awaitables :
                /\ Pends(f, x) \in CommitFrames
                /\ Pends(f, x).gather = f.gather /\ Pends(f, x).awaiter = f.awaiter
                /\ Pends(f, x).next = f.next + 1 /\ Pends(f, x).results = f.results
                /\ Pends(f, x).pending = f.pending \cup {<<x, f.next>>}
<1>1. /\ f.gather \in Gathers /\ f.awaiter \in Awaiters /\ f.next \in Nat
      /\ f.pending \subseteq Awaitables \X Nat /\ f.results \subseteq Nat
  BY DEF CommitFrames
<1>2. f.next + 1 \in Nat /\ f.results \cup {f.next} \subseteq Nat
  BY SMTT(30), <1>1
<1>3. /\ Ready(f) \in CommitFrames
      /\ Ready(f).gather = f.gather /\ Ready(f).awaiter = f.awaiter
      /\ Ready(f).next = f.next + 1 /\ Ready(f).pending = f.pending
      /\ Ready(f).results = f.results \cup {f.next}
  BY <1>1, <1>2 DEF CommitFrames, Ready
<1>4. ASSUME NEW x \in Awaitables
      PROVE  /\ Pends(f, x) \in CommitFrames
             /\ Pends(f, x).gather = f.gather /\ Pends(f, x).awaiter = f.awaiter
             /\ Pends(f, x).next = f.next + 1 /\ Pends(f, x).results = f.results
             /\ Pends(f, x).pending = f.pending \cup {<<x, f.next>>}
  <2>1. f.pending \cup {<<x, f.next>>} \subseteq Awaitables \X Nat
    BY SMTT(30), <1>1
  <2> QED BY <1>1, <1>2, <2>1 DEF CommitFrames, Pends
<1> QED BY <1>1, <1>3, <1>4

LEMMA OpenFacts ==
    ASSUME NEW g \in Gathers, NEW a \in Awaiters
    PROVE  /\ OpenGatherCommit(g, a) \in CommitFrames
           /\ OpenGatherCommit(g, a).gather = g /\ OpenGatherCommit(g, a).awaiter = a
           /\ OpenGatherCommit(g, a).next = 1 /\ OpenGatherCommit(g, a).pending = {}
           /\ OpenGatherCommit(g, a).results = {}
  BY DEF OpenGatherCommit, CommitFrames

LEMMA DeliveryFacts ==
    ASSUME TypeOK, ctl.mode = "deliver"
    PROVE  /\ \A t \in Tasks \cup {None} : DeliveryEnds(t) =>
                 /\ ctl' \in Controls /\ ctl'.mode = ctl.after /\ ctl'.after = ctl.after
                 /\ ctl'.woken = t /\ ctl'.idle = ctl.idle
           /\ \A a \in Awaiters \cup {NoAwaiter}, v \in Awaitables \cup {None} :
                 LET next == [ctl EXCEPT !.awaiter = a, !.value = v] IN
                 /\ next \in Controls /\ next.mode = "deliver" /\ next.after = ctl.after
                 /\ next.awaiter = a /\ next.value = v
                 /\ next.woken = ctl.woken /\ next.idle = ctl.idle
           /\ \A a \in Awaiters \cup {NoAwaiter} :
                 LET next == [ctl EXCEPT !.awaiter = a] IN
                 /\ next \in Controls /\ next.mode = "deliver" /\ next.after = ctl.after
                 /\ next.awaiter = a /\ next.value = ctl.value
                 /\ next.woken = ctl.woken /\ next.idle = ctl.idle
<1>1. ctl \in Controls
  BY DEF TypeOK
<1>2. \A t \in Tasks \cup {None} : DeliveryEnds(t) =>
                 /\ ctl' \in Controls /\ ctl'.mode = ctl.after /\ ctl'.after = ctl.after
                 /\ ctl'.woken = t /\ ctl'.idle = ctl.idle
  BY <1>1 DEF DeliveryEnds, Controls, Modes
<1>3. \A a \in Awaiters \cup {NoAwaiter}, v \in Awaitables \cup {None} :
                 LET next == [ctl EXCEPT !.awaiter = a, !.value = v] IN
                 /\ next \in Controls /\ next.mode = "deliver" /\ next.after = ctl.after
                 /\ next.awaiter = a /\ next.value = v
                 /\ next.woken = ctl.woken /\ next.idle = ctl.idle
  BY <1>1 DEF Controls
<1>4. \A a \in Awaiters \cup {NoAwaiter} :
                 LET next == [ctl EXCEPT !.awaiter = a] IN
                 /\ next \in Controls /\ next.mode = "deliver" /\ next.after = ctl.after
                 /\ next.awaiter = a /\ next.value = ctl.value
                 /\ next.woken = ctl.woken /\ next.idle = ctl.idle
  BY <1>1 DEF Controls
<1> QED BY <1>2, <1>3, <1>4

-----------------------------------------------------------------------------
(* Every step keeps it.                                                    *)
LEMMA UpdateType ==
    ASSUME NEW S, NEW T, NEW f \in [S -> T], NEW x, NEW v \in T
    PROVE  [f EXCEPT ![x] = v] \in [S -> T]
  OBVIOUS

LEMMA BlockType ==
    ASSUME TypeOK, NEW t, NEW x \in Awaitables, BlockCurrentOn(t, x)
    PROVE  /\ state' \in [Tasks -> {"none", "ready", "raise", "blocked", "gone"}]
           /\ on' \in [Tasks -> Awaitables \cup {None}]
  BY DEF BlockCurrentOn, TypeOK

LEMMA BytecodeSched ==
    ASSUME TypeOK, Sched, NEW t \in Tasks, Bytecode(t)
    PROVE  TypeOK' /\ Sched'
<1> USE DEF schedVars, taskVars, extVars, gatherVars, vmVars
<1>1. /\ ctl.mode = "run" /\ ~is_parked /\ current_task = t /\ Running /\ t \notin Queued
      /\ t # None /\ vmFrames # <<>> /\ commits = <<>> /\ ctl \in Controls
      /\ vmFrames \in Seq(Tasks) /\ ToTask(t) \in Awaiters
  BY NoneFacts, AwaiterFacts
     DEF Bytecode, ValueArrives, FrameReturns, Raises, CallFuture, CallEager, AwaitExternal,
         AwaitCoroutine, AwaitGather, Executing, Running, Sched, ThreadInv, TaskInv, TypeOK
<1>2. /\ \A m \in {"raise", "commit"} : Go(m) \in Controls /\ Go(m).mode = m
      /\ Select("yield") \in Controls
  BY SMTT(30), ControlFacts DEF Modes
<1>3. CASE ValueArrives(t)
  <2>0. vmStack # <<>> /\ vmStack \in Seq(Awaitables) /\ on \in [Tasks -> Awaitables \cup {None}]
    BY <1>3 DEF ValueArrives, TypeOK
  <2>1. vmStack' \in Seq(Awaitables) /\ on' \in [Tasks -> Awaitables \cup {None}]
    BY <1>3, <2>0, PopFacts DEF ValueArrives
  <2>2. TypeOK'
    BY <1>3, <2>1 DEF ValueArrives, TypeOK
  <2>3. Sched'
    BY <1>1, <1>3, KeepsRunning DEF ValueArrives
  <2> QED BY <2>2, <2>3
<1>4. CASE FrameReturns(t)
  <2>1. /\ Front(vmFrames) \in Seq(Tasks) /\ Len(Front(vmFrames)) = Len(vmFrames) - 1
        /\ Len(vmFrames) \in Nat
    BY <1>1, PopFacts, LenProperties
  <2>2. Front(vmFrames) # <<>>
    BY SMTT(30), <1>4, <2>1 DEF FrameReturns
  <2>3. TypeOK'
    <3>1. Len(vmFrames') <= RecursionLimit + 1 /\ vmFrames' \in Seq(Tasks)
      BY SMTT(30), <1>4, <2>1, ItemsAssumption DEF FrameReturns, TypeOK
    <3> QED BY <1>4, <3>1 DEF FrameReturns, TypeOK
  <2>4. Sched'
    BY <1>1, <1>4, <2>2, KeepsRunning DEF FrameReturns
  <2> QED BY <2>3, <2>4
<1>5. CASE Raises(t)
  <2>1. TypeOK'
    BY <1>2, <1>5 DEF Raises, TypeOK
  <2>2. Sched'
    BY <1>1, <1>2, <1>5, KeepsRunning DEF Raises
  <2> QED BY <2>1, <2>2
<1>6. ASSUME NEW e \in Exts, CallFuture(t, e) \/ CallEager(t, e)
      PROVE  TypeOK' /\ Sched'
  <2>1. TypeOK'
    <3>1. /\ ext' \in [Exts -> {"unborn", "Pending", "Resolved", "Failed"}]
          /\ pending_externals' \subseteq Exts /\ ctl' \in Controls
      BY <1>1, <1>2, <1>6 DEF CallFuture, CallEager, TypeOK
    <3> QED BY SMTT(30), <1>6, <3>1 DEF CallFuture, CallEager, TypeOK
  <2>2. Sched'
    BY <1>1, <1>2, <1>6, KeepsRunning DEF CallFuture, CallEager
  <2> QED BY <2>1, <2>2
<1>7. ASSUME NEW e \in Exts, AwaitExternal(t, e)
      PROVE  TypeOK' /\ Sched'
  <2>1. TypeOK'
    <3>1. \/ UNCHANGED <<state, on>>
          \/ BlockCurrentOn(t, e)
      BY <1>7 DEF AwaitExternal
    <3>2. /\ state' \in [Tasks -> {"none", "ready", "raise", "blocked", "gone"}]
          /\ on' \in [Tasks -> Awaitables \cup {None}]
      BY <3>1, BlockType, NoneFacts DEF TypeOK
    <3>3. extAwaiter' \in [Exts -> Awaiters \cup {NoAwaiter}] /\ ctl' \in Controls
      BY <1>1, <1>2, <1>7 DEF AwaitExternal, TypeOK
    <3> QED BY <1>7, <3>2, <3>3 DEF AwaitExternal, TypeOK
  <2>2. Sched'
    BY <1>1, <1>2, <1>7, KeepsRunning, Suspends, NoneFacts DEF AwaitExternal
  <2> QED BY <2>1, <2>2
<1>8. ASSUME NEW c \in Coros, AwaitCoroutine(t, c)
      PROVE  TypeOK' /\ Sched'
  <2>1. /\ Append(vmFrames, c) \in Seq(Tasks) /\ Append(vmFrames, c) # <<>>
        /\ Len(Append(vmFrames, c)) = Len(vmFrames) + 1 /\ Len(vmFrames) \in Nat
    BY SMTT(30), <1>1, NoneFacts, AppendProperties, LenProperties
  <2>2. TypeOK'
    <3>0. /\ Len(vmFrames) <= RecursionLimit + 1 /\ RecursionLimit \in Nat
          /\ \/ vmFrames' = vmFrames
             \/ ~(Len(vmFrames) > RecursionLimit) /\ vmFrames' = Append(vmFrames, c)
      BY <1>8, ItemsAssumption DEF AwaitCoroutine, TypeOK
    <3>1. Len(vmFrames') <= RecursionLimit + 1 /\ vmFrames' \in Seq(Tasks)
      BY SMTT(30), <1>1, <2>1, <3>0
    <3>2. coro' \in [Coros -> {"New", "Running", "Completed"}] /\ ctl' \in Controls
      BY <1>1, <1>2, <1>8 DEF AwaitCoroutine, TypeOK
    <3> QED BY <1>8, <3>1, <3>2 DEF AwaitCoroutine, TypeOK
  <2>3. Sched'
    BY <1>1, <1>2, <1>8, <2>1, KeepsRunning DEF AwaitCoroutine
  <2> QED BY <2>2, <2>3
<1>9. ASSUME NEW g \in Gathers, AwaitGather(t, g)
      PROVE  TypeOK' /\ Sched'
  <2>1. /\ <<OpenGatherCommit(g, ToTask(t))>> \in Seq(CommitFrames)
        /\ <<OpenGatherCommit(g, ToTask(t))>> # <<>>
    BY SMTT(30), <1>1, OpenFacts
  <2>2. /\ commits' \in Seq(CommitFrames) /\ ctl' \in Controls
        /\ ctl'.mode \in {"run", "raise", "commit"} /\ (ctl'.mode = "commit" <=> commits' # <<>>)
    BY <1>1, <1>2, <1>9, <2>1 DEF AwaitGather, TypeOK
  <2>3. TypeOK'
    BY <1>9, <2>2 DEF AwaitGather, TypeOK
  <2>4. Sched'
    BY <1>1, <1>9, <2>2, KeepsRunning DEF AwaitGather
  <2> QED BY <2>3, <2>4
<1> QED BY <1>3, <1>4, <1>5, <1>6, <1>7, <1>8, <1>9 DEF Bytecode

LEMMA CommitSched ==
    ASSUME TypeOK, Sched, Commit
    PROVE  TypeOK' /\ Sched'
<1> USE DEF schedVars, taskVars, extVars, gatherVars, vmVars
<1>0. ctl.mode = "commit"
  BY DEF Commit, CommitDuplicate, CommitCoroutine, CommitExternal, CommitNested,
         CommitSettles, FirstSeen, Committing
<1>1. /\ ctl.mode = "commit" /\ ~is_parked /\ Running /\ commits # <<>> /\ ctl \in Controls
      /\ commits \in Seq(CommitFrames)
  BY <1>0 DEF Running, Sched, ThreadInv, TypeOK
<1>2. /\ current_task \in Tasks \ Queued /\ current_task # None /\ vmFrames # <<>>
  BY <1>1, NoneFacts DEF Sched, ThreadInv, TaskInv
<1>3. /\ \A m \in {"raise", "run"} : Go(m) \in Controls /\ Go(m).mode = m
      /\ Select("yield") \in Controls
  BY SMTT(30), ControlFacts DEF Modes
<1>4. PICK f \in CommitFrames : f = Last(commits)
  BY <1>1, PopFacts
<1>5. PICK r \in Seq(CommitFrames) : r = Front(commits)
  BY <1>1, PopFacts
<1>6. \A h \in CommitFrames, q \in Seq(CommitFrames) :
         Append(q, h) \in Seq(CommitFrames) /\ Append(q, h) # <<>>
  BY SMTT(30), AppendProperties
<1>7. ASSUME NEW h \in CommitFrames, Replace(h)
      PROVE  commits' \in Seq(CommitFrames) /\ commits' # <<>>
  BY <1>5, <1>6, <1>7 DEF Replace
<1>8. ASSUME UnwindGatherCommits
      PROVE  /\ gather' \in [Gathers -> {"Pending", "Awaited", "Completed", "Failed"}]
             /\ commits' = <<>> /\ commits' \in Seq(CommitFrames)
             /\ ctl' \in Controls /\ ctl'.mode = "raise"
  <2>1. gather' \in [Gathers -> {"Pending", "Awaited", "Completed", "Failed"}]
    BY <1>8 DEF UnwindGatherCommits, TypeOK
  <2> QED BY SMTT(30), <1>3, <1>8, <2>1 DEF UnwindGatherCommits
<1>9. Ready(f) \in CommitFrames /\ \A x \in Awaitables : Pends(f, x) \in CommitFrames
  BY FrameFacts
<1>10. ASSUME NEW x \in Awaitables, CommitDuplicate(x)
       PROVE  TypeOK' /\ Sched'
  <2>1. commits' \in Seq(CommitFrames) /\ commits' # <<>>
    BY <1>4, <1>7, <1>9, <1>10 DEF CommitDuplicate
  <2>2. TypeOK'
    BY <1>10, <2>1 DEF CommitDuplicate, TypeOK
  <2>3. Sched'
    BY <1>1, <1>2, <1>10, <2>1, KeepsRunning DEF CommitDuplicate
  <2> QED BY <2>2, <2>3
<1>11. ASSUME NEW c \in Coros, CommitCoroutine(c)
       PROVE  TypeOK' /\ Sched'
  <2>1. CASE UnwindGatherCommits /\ UNCHANGED <<state, under, ready_queue>>
    <3>1. TypeOK'
      BY <1>8, <1>11, <2>1 DEF CommitCoroutine, TypeOK
    <3>2. Sched'
      BY <1>1, <1>2, <1>8, <1>11, <2>1, KeepsRunning DEF CommitCoroutine
    <3> QED BY <3>1, <3>2
  <2>2. CASE /\ coro[c] = "New" /\ state[c] \in {"none", "gone"} /\ Spawn(c, f.gather)
             /\ Replace(Pends(f, c)) /\ UNCHANGED <<gather, ctl>>
    <3>1. commits' \in Seq(CommitFrames) /\ commits' # <<>> /\ f.gather \in Gathers
      BY <1>7, <1>9, <2>2, NoneFacts, FrameFacts
    <3>2. Sched' /\ ready_queue' \in Seq(Tasks)
      BY <1>1, <1>11, <2>2, <3>1, Spawns DEF CommitCoroutine
    <3>3. TypeOK'
      BY <1>11, <2>2, <3>1, <3>2, NoneFacts DEF CommitCoroutine, Spawn, TypeOK
    <3> QED BY <3>2, <3>3
  <2> QED BY <1>4, <1>11, <2>1, <2>2 DEF CommitCoroutine
<1>12. ASSUME NEW e \in Exts, CommitExternal(e)
       PROVE  TypeOK' /\ Sched'
  <2>1. CASE UnwindGatherCommits /\ extAwaiter' = extAwaiter
    <3>1. TypeOK'
      BY <1>8, <1>12, <2>1 DEF CommitExternal, TypeOK
    <3>2. Sched'
      BY <1>1, <1>2, <1>8, <1>12, <2>1, KeepsRunning DEF CommitExternal
    <3> QED BY <3>1, <3>2
  <2>2. CASE /\ Replace(Ready(f)) \/ Replace(Pends(f, e))
             /\ extAwaiter' \in {extAwaiter, [extAwaiter EXCEPT ![e] = ToSlot(f.gather, e)]}
             /\ UNCHANGED <<gather, ctl>>
    <3>1. commits' \in Seq(CommitFrames) /\ commits' # <<>> /\ ToSlot(f.gather, e) \in Awaiters
      BY <1>7, <1>9, <2>2, NoneFacts, FrameFacts, AwaiterFacts
    <3>2. Sched'
      BY <1>1, <1>2, <1>12, <2>2, <3>1, KeepsRunning DEF CommitExternal
    <3>3. TypeOK'
      <4>1. extAwaiter' \in [Exts -> Awaiters \cup {NoAwaiter}]
        BY <2>2, <3>1 DEF TypeOK
      <4> QED BY <1>12, <2>2, <3>1, <4>1 DEF CommitExternal, TypeOK
    <3> QED BY <3>2, <3>3
  <2> QED BY <1>4, <1>12, <2>1, <2>2 DEF CommitExternal
<1>13. ASSUME NEW g \in Gathers, CommitNested(g)
       PROVE  TypeOK' /\ Sched'
  <2>1. CASE UnwindGatherCommits
    <3>1. TypeOK'
      BY <1>8, <1>13, <2>1 DEF CommitNested, TypeOK
    <3>2. Sched'
      BY <1>1, <1>2, <1>8, <1>13, <2>1, KeepsRunning DEF CommitNested
    <3> QED BY <3>1, <3>2
  <2>2. CASE /\ \/ Replace(Ready(f))
                \/ commits' = Append(commits, OpenGatherCommit(g, ToSlot(f.gather, g)))
             /\ UNCHANGED <<gather, ctl>>
    <3>1. OpenGatherCommit(g, ToSlot(f.gather, g)) \in CommitFrames
      BY NoneFacts, FrameFacts, AwaiterFacts, OpenFacts
    <3>2. commits' \in Seq(CommitFrames) /\ commits' # <<>>
      BY <1>1, <1>6, <1>7, <1>9, <2>2, <3>1
    <3>3. Sched'
      BY <1>1, <1>2, <1>13, <2>2, <3>2, KeepsRunning DEF CommitNested
    <3>4. TypeOK'
      BY <1>13, <2>2, <3>2 DEF CommitNested, TypeOK
    <3> QED BY <3>3, <3>4
  <2> QED BY <1>4, <1>13, <2>1, <2>2 DEF CommitNested
<1>14. ASSUME NEW g \in Gathers, CommitSettles(g)
       PROVE  TypeOK' /\ Sched'
  <2>1. f.awaiter \in Awaiters /\ f.pending \subseteq Awaitables \X Nat /\ f.results \subseteq Nat
    BY FrameFacts
  <2>2. /\ gather' \in [Gathers -> {"Pending", "Awaited", "Completed", "Failed"}]
        /\ gatherAwaiter' \in [Gathers -> Awaiters \cup {NoAwaiter}]
        /\ pending_children' \in [Gathers -> SUBSET (Awaitables \X Nat)]
        /\ results' \in [Gathers -> SUBSET Nat]
    <3>1. /\ gather' \in {[gather EXCEPT ![g] = "Completed"], [gather EXCEPT ![g] = "Awaited"]}
          /\ gatherAwaiter' \in {gatherAwaiter, [gatherAwaiter EXCEPT ![g] = f.awaiter]}
          /\ pending_children' \in {pending_children, [pending_children EXCEPT ![g] = f.pending]}
          /\ results' = [results EXCEPT ![g] = f.results]
      BY <1>4, <1>14 DEF CommitSettles
    <3>2. gather' \in [Gathers -> {"Pending", "Awaited", "Completed", "Failed"}]
      BY <3>1 DEF TypeOK
    <3>3. gatherAwaiter' \in [Gathers -> Awaiters \cup {NoAwaiter}]
      BY <2>1, <3>1 DEF TypeOK
    <3>4. pending_children' \in [Gathers -> SUBSET (Awaitables \X Nat)]
      <4>1. /\ pending_children \in [Gathers -> SUBSET (Awaitables \X Nat)]
            /\ f.pending \in SUBSET (Awaitables \X Nat)
        BY <2>1 DEF TypeOK
      <4>2. [pending_children EXCEPT ![g] = f.pending] \in [Gathers -> SUBSET (Awaitables \X Nat)]
        BY <4>1, UpdateType
      <4> QED BY <3>1, <4>1, <4>2
    <3>5. results' \in [Gathers -> SUBSET Nat]
      BY <2>1, <3>1 DEF TypeOK
    <3> QED BY <3>2, <3>3, <3>4, <3>5
  <2>3. CASE r # <<>>
    <3>1. PICK h \in CommitFrames, q \in Seq(CommitFrames) : h = Last(r) /\ q = Front(r)
      BY <2>3, PopFacts
    <3>2. Ready(h) \in CommitFrames /\ Pends(h, g) \in CommitFrames
      BY NoneFacts, FrameFacts
    <3>3. /\ commits' \in {Append(q, Ready(h)), Append(q, Pends(h, g))}
          /\ UNCHANGED <<state, on, ctl>>
      BY <1>5, <1>14, <2>3, <3>1 DEF CommitSettles
    <3>6. commits' \in Seq(CommitFrames) /\ commits' # <<>>
      BY <1>6, <3>2, <3>3
    <3>4. Sched'
      BY <1>1, <1>2, <1>14, <3>3, <3>6, KeepsRunning DEF CommitSettles
    <3>5. TypeOK'
      BY <1>14, <2>2, <3>3, <3>6 DEF CommitSettles, TypeOK
    <3> QED BY <3>4, <3>5
  <2>4. CASE r = <<>>
    <3>1. commits' = <<>> /\ commits' \in Seq(CommitFrames)
      BY <1>5, <1>14, <2>4 DEF CommitSettles
    <3>2. \/ ctl' = Go("run") /\ UNCHANGED <<state, on>>
          \/ ctl' = Select("yield") /\ BlockCurrentOn(current_task, g)
      BY <1>5, <1>14, <2>4 DEF CommitSettles
    <3>3. Sched'
      <4>1. CASE ctl' = Go("run") /\ UNCHANGED <<state, on>>
        BY <1>1, <1>2, <1>3, <1>14, <3>1, <4>1, KeepsRunning DEF CommitSettles
      <4>2. CASE ctl' = Select("yield") /\ BlockCurrentOn(current_task, g)
        BY <1>1, <1>14, <3>1, <4>2, Suspends, NoneFacts DEF CommitSettles
      <4> QED BY <3>2, <4>1, <4>2
    <3>4. TypeOK'
      <4>1. /\ state' \in [Tasks -> {"none", "ready", "raise", "blocked", "gone"}]
            /\ on' \in [Tasks -> Awaitables \cup {None}] /\ ctl' \in Controls
        BY <1>3, <3>2, BlockType, NoneFacts DEF TypeOK
      <4> QED BY <1>14, <2>2, <3>1, <4>1 DEF CommitSettles, TypeOK
    <3> QED BY <3>3, <3>4
  <2> QED BY <2>3, <2>4
<1> QED BY <1>10, <1>11, <1>12, <1>13, <1>14 DEF Commit

LEMMA DeliverySched ==
    ASSUME TypeOK, Sched, Delivery
    PROVE  TypeOK' /\ Sched'
<1> USE DEF schedVars, taskVars, extVars, gatherVars, vmVars
<1>1. ctl.mode = "deliver" /\ commits = <<>>
  <2>1. ctl.mode = "deliver"
    BY DEF Delivery, DeliverToTask, ResolveChild, FailGather, Delivering
  <2> QED BY <2>1 DEF Sched, ThreadInv
<1>2. ctl.after \in {"exit", "host"} /\ ctl.value \in Awaitables \cup {None} /\ ctl \in Controls
  BY <1>1 DEF Sched, ThreadInv, Quiet, Leaving, TypeOK, Controls
<1>3. ASSUME NEW t \in Tasks, DeliverToTask(t)
      PROVE  TypeOK' /\ Sched'
  <2>1. CASE state[t] # "blocked"
    <3>1. /\ ctl' \in Controls /\ ctl'.mode = ctl.after /\ ctl'.after = ctl.after
          /\ ctl'.woken = None
      BY <1>1, <1>3, <2>1, DeliveryFacts DEF DeliverToTask
    <3>2. TypeOK'
      BY <1>3, <2>1, <3>1 DEF DeliverToTask, TypeOK
    <3>3. Sched'
      BY <1>1, <1>3, <2>1, <3>1, ChainSched DEF DeliverToTask
    <3> QED BY <3>2, <3>3
  <2>2. CASE state[t] = "blocked"
    <3>1. /\ ctl' \in Controls /\ ctl'.mode = ctl.after /\ ctl'.after = ctl.after
          /\ ctl'.woken = t
      BY <1>1, <1>3, <2>2, DeliveryFacts DEF DeliverToTask
    <3>2. PICK s \in Alive : MakeReady(t, s)
      BY <1>3, <2>2 DEF DeliverToTask, Alive
    <3>3. Sched' /\ ready_queue' \in Seq(Tasks)
      BY <1>1, <1>3, <2>2, <3>1, <3>2, WakeSched DEF DeliverToTask
    <3>4. state' \in [Tasks -> {"none", "ready", "raise", "blocked", "gone"}]
      BY <3>2 DEF MakeReady, Alive, TypeOK
    <3>5. vmStack' \in Seq(Awaitables) /\ stack' \in [Tasks -> Seq(Awaitables)]
      <4>1. CASE ctl.value = None
        BY <1>3, <2>2, <4>1 DEF DeliverToTask, TypeOK
      <4>2. CASE ctl.value # None
        <5>1. PICK v \in Awaitables : v = ctl.value
          BY <1>2, <4>2
        <5>2. vmStack \in Seq(Awaitables) /\ stack \in [Tasks -> Seq(Awaitables)]
          BY DEF TypeOK
        <5>3. Append(vmStack, v) \in Seq(Awaitables) /\ Append(stack[t], v) \in Seq(Awaitables)
          BY <5>2, AppendProperties
        <5>4. [stack EXCEPT ![t] = Append(stack[t], v)] \in [Tasks -> Seq(Awaitables)]
          BY <5>2, <5>3, UpdateType
        <5>5. PushValue(t)
          BY <1>3, <2>2, <4>2 DEF DeliverToTask
        <5> QED BY <5>1, <5>2, <5>3, <5>4, <5>5 DEF PushValue
      <4> QED BY <4>1, <4>2
    <3>6. TypeOK'
      BY <1>3, <3>1, <3>3, <3>4, <3>5 DEF DeliverToTask, TypeOK
    <3> QED BY <3>3, <3>6
  <2> QED BY <2>1, <2>2
<1>4. ASSUME NEW g \in Gathers, NEW x \in Awaitables, ResolveChild(g, x) \/ FailGather(g, x)
      PROVE  TypeOK' /\ Sched'
  <2>1. gatherAwaiter[g] \in Awaiters \cup {NoAwaiter} /\ g \in Awaitables \cup {None}
    BY NoneFacts DEF TypeOK
  <2>2. /\ UNCHANGED <<schedVars, taskVars, coro, extVars, vmVars, commits, items>>
        /\ \/ DeliveryEnds(None)
           \/ ctl' = [ctl EXCEPT !.awaiter = gatherAwaiter[g], !.value = g]
           \/ ctl' = [ctl EXCEPT !.awaiter = gatherAwaiter[g]]
        /\ \/ UNCHANGED <<gather, gatherAwaiter>>
           \/ /\ gatherAwaiter' = [gatherAwaiter EXCEPT ![g] = NoAwaiter]
              /\ \/ gather' = [gather EXCEPT ![g] = "Completed"]
                 \/ gather' = [gather EXCEPT ![g] = "Failed"]
    BY <1>4 DEF ResolveChild, FailGather
  <2>3. /\ ctl' \in Controls /\ ctl'.after = ctl.after
        /\ ctl'.mode = "deliver" \/ (ctl'.mode = ctl.after /\ ctl'.woken = None)
    <3>1. CASE DeliveryEnds(None)
      BY <1>1, <3>1, DeliveryFacts
    <3>2. CASE ctl' = [ctl EXCEPT !.awaiter = gatherAwaiter[g], !.value = g]
      BY <1>1, <2>1, <3>2, DeliveryFacts
    <3>3. CASE ctl' = [ctl EXCEPT !.awaiter = gatherAwaiter[g]]
      BY <1>1, <1>2, <2>1, <3>3, DeliveryFacts
    <3> QED BY <2>2, <3>1, <3>2, <3>3
  <2>4. Sched'
    BY <1>1, <2>2, <2>3, ChainSched
  <2>5. /\ gather' \in [Gathers -> {"Pending", "Awaited", "Completed", "Failed"}]
        /\ gatherAwaiter' \in [Gathers -> Awaiters \cup {NoAwaiter}]
    BY <2>2 DEF TypeOK
  <2>6. /\ pending_children' \in [Gathers -> SUBSET (Awaitables \X Nat)]
        /\ results' \in [Gathers -> SUBSET Nat]
    <3>1. /\ pending_children \in [Gathers -> SUBSET (Awaitables \X Nat)]
          /\ results \in [Gathers -> SUBSET Nat]
          /\ pending_children[g] \subseteq Awaitables \X Nat /\ results[g] \subseteq Nat
      BY DEF TypeOK
    <3>2. PICK gone \in SUBSET pending_children[g], fill \in SUBSET Nat :
             \/ UNCHANGED <<pending_children, results>>
             \/ /\ pending_children' = [pending_children EXCEPT ![g] = @ \ gone]
                /\ results' = [results EXCEPT ![g] = @ \cup fill]
             \/ /\ pending_children' = [pending_children EXCEPT ![g] = {}]
                /\ results' = [results EXCEPT ![g] = {}]
      <4> DEFINE mine == {p \in pending_children[g] : p[1] = x}
      <4>1. mine \in SUBSET pending_children[g] /\ {p[2] : p \in mine} \in SUBSET Nat
        BY <3>1
      <4>2. \/ UNCHANGED <<pending_children, results>>
            \/ /\ pending_children' = [pending_children EXCEPT ![g] = @ \ mine]
               /\ results' = [results EXCEPT ![g] = @ \cup {p[2] : p \in mine}]
            \/ /\ pending_children' = [pending_children EXCEPT ![g] = {}]
               /\ results' = [results EXCEPT ![g] = {}]
        BY <1>4 DEF ResolveChild, FailGather
      <4> QED BY <4>1, <4>2
    <3>3. /\ pending_children[g] \ gone \in SUBSET (Awaitables \X Nat)
          /\ results[g] \cup fill \in SUBSET Nat
          /\ {} \in SUBSET (Awaitables \X Nat) /\ {} \in SUBSET Nat
      BY <3>1
    <3>4. \A v \in SUBSET (Awaitables \X Nat) :
             [pending_children EXCEPT ![g] = v] \in [Gathers -> SUBSET (Awaitables \X Nat)]
      BY <3>1, UpdateType
    <3>5. \A v \in SUBSET Nat : [results EXCEPT ![g] = v] \in [Gathers -> SUBSET Nat]
      BY <3>1, UpdateType
    <3> QED BY SMTT(30), <3>1, <3>2, <3>3, <3>4, <3>5
  <2>7. TypeOK'
    BY <2>2, <2>3, <2>5, <2>6 DEF TypeOK
  <2> QED BY <2>4, <2>7
<1> QED BY <1>3, <1>4 DEF Delivery

LEMMA ExitsSched ==
    ASSUME TypeOK, Sched, Exits
    PROVE  TypeOK' /\ Sched'
<1> USE DEF schedVars, taskVars, extVars, gatherVars, vmVars
<1>1. \A m \in {"run", "done", "select"} : Go(m) \in Controls /\ Go(m).mode = m
  BY SMTT(30), ControlFacts DEF Modes
<1>2. Executing(Main) \/ ctl.mode = "raise" =>
         Running /\ vmFrames # <<>> /\ commits = <<>>
  BY NoneFacts DEF Executing, Running, Sched, ThreadInv, TaskInv
<1>3. CASE MainReturns \/ RunFails
  <2>1. TypeOK'
    BY <1>1, <1>3 DEF MainReturns, RunFails, TypeOK
  <2>2. Sched'
    BY <1>1, <1>2, <1>3, KeepsRunning DEF MainReturns, RunFails
  <2> QED BY <2>1, <2>2
<1>4. CASE TaskExits
  <2>1. Sched' /\ ready_queue' \in Seq(Tasks)
    BY <1>4, ExitSched
  <2>2. /\ state' \in [Tasks -> {"none", "ready", "raise", "blocked", "gone"}]
        /\ on' \in [Tasks -> Awaitables \cup {None}]
    BY <1>4 DEF TaskExits, TypeOK
  <2>3. /\ vmFrames' \in Seq(Tasks) /\ Len(vmFrames') <= RecursionLimit + 1
        /\ vmStack' \in Seq(Awaitables) /\ current_task' \in Tasks \cup {None}
    BY SMTT(30), <1>4, ItemsAssumption DEF TaskExits
  <2>4. TypeOK'
    BY <1>1, <1>4, <2>1, <2>2, <2>3 DEF TaskExits, TypeOK
  <2> QED BY <2>1, <2>4
<1>5. ASSUME NEW c \in Coros, TaskReturns(c)
      PROVE  TypeOK' /\ Sched'
  <2>1. Sched' /\ ToSlot(under[c], c) \in Awaiters
    BY <1>5, ReturnSched
  <2>2. ctl' \in Controls
    BY <1>5, <2>1, ControlFacts, NoneFacts DEF TaskReturns
  <2>3. /\ state' \in [Tasks -> {"none", "ready", "raise", "blocked", "gone"}]
        /\ coro' \in [Coros -> {"New", "Running", "Completed"}]
    BY <1>5 DEF TaskReturns, TypeOK
  <2>4. TypeOK'
    BY <1>5, <2>2, <2>3 DEF TaskReturns, TypeOK
  <2> QED BY <2>1, <2>4
<1>6. ASSUME NEW c \in Coros, TaskFails(c)
      PROVE  TypeOK' /\ Sched'
  <2>1. Sched' /\ ToSlot(under[c], c) \in Awaiters
    BY <1>6, FailSched
  <2>2. ctl' \in Controls
    BY <1>6, <2>1, ControlFacts DEF TaskFails
  <2>3. TypeOK'
    BY <1>6, <2>2 DEF TaskFails, TypeOK
  <2> QED BY <2>1, <2>3
<1>7. ASSUME NEW t \in Tasks, NEW k \in 1..(RecursionLimit + 1), Caught(t, k)
      PROVE  TypeOK' /\ Sched'
  <2>1. Running /\ commits = <<>> /\ vmFrames \in Seq(Tasks) /\ k \in 1..Len(vmFrames)
    <3>1. Running /\ commits = <<>>
      BY <1>2, <1>7 DEF Caught
    <3>2. vmFrames \in Seq(Tasks) /\ Len(vmFrames) \in Nat /\ k <= Len(vmFrames)
      BY <1>7, LenProperties DEF Caught, TypeOK
    <3>3. k \in 1..Len(vmFrames)
      BY SMTT(30), <3>2, ItemsAssumption
    <3> QED BY <3>1, <3>2, <3>3
  <2>2. /\ SubSeq(vmFrames, 1, k) \in Seq(Tasks) /\ Len(SubSeq(vmFrames, 1, k)) = k
        /\ SubSeq(vmFrames, 1, k) # <<>>
    BY SMTT(30), <2>1, ItemsAssumption, LenProperties
  <2>3. TypeOK'
    <3>1. vmFrames' \in Seq(Tasks) /\ Len(vmFrames') <= RecursionLimit + 1
      BY SMTT(30), <1>7, <2>2, ItemsAssumption DEF Caught
    <3>2. on' \in [Tasks -> Awaitables \cup {None}]
      BY <1>7 DEF Caught, TypeOK
    <3>3. vmStack' \in Seq(Awaitables)
      BY SMTT(30), <1>7 DEF Caught
    <3> QED BY <1>1, <1>7, <3>1, <3>2, <3>3 DEF Caught, TypeOK
  <2>4. Sched'
    BY <1>1, <1>7, <2>1, <2>2, KeepsRunning DEF Caught
  <2> QED BY <2>3, <2>4
<1> QED BY <1>3, <1>4, <1>5, <1>6, <1>7 DEF Exits

LEMMA SwitchType ==
    ASSUME TypeOK, NEW t \in Tasks, SwitchContext(t)
    PROVE  /\ current_task' \in Tasks \cup {None}
           /\ frames' \in [Tasks -> Seq(Tasks)] /\ stack' \in [Tasks -> Seq(Awaitables)]
           /\ \A u \in Tasks : Len(frames'[u]) <= RecursionLimit + 1
<1>1. /\ <<>> \in Seq(Tasks) /\ <<>> \in Seq(Awaitables) /\ Len(<<>>) <= RecursionLimit + 1
  BY SMTT(30), ItemsAssumption
<1>2. \A u \in Tasks : /\ frames'[u] \in {<<>>, vmFrames, frames[u]}
                       /\ stack'[u] \in {<<>>, vmStack, stack[u]}
  BY DEF SwitchContext
<1>3. \A u \in Tasks : /\ frames'[u] \in Seq(Tasks) /\ stack'[u] \in Seq(Awaitables)
                       /\ Len(frames'[u]) <= RecursionLimit + 1
  BY <1>1, <1>2 DEF TypeOK
<1>4. DOMAIN frames' = Tasks /\ DOMAIN stack' = Tasks
  BY DEF SwitchContext
<1>5. /\ frames' = [u \in Tasks |-> frames'[u]] /\ stack' = [u \in Tasks |-> stack'[u]]
  BY DEF SwitchContext
<1> QED BY <1>3, <1>5 DEF SwitchContext

LEMMA SelectionSched ==
    ASSUME TypeOK, Sched, Selection
    PROVE  TypeOK' /\ Sched'
<1> USE DEF schedVars, taskVars, extVars, gatherVars, vmVars
<1>1. \A m \in Modes : Go(m) \in Controls
  BY ControlFacts
<1>2. \A m \in {"run", "raise"} : [Select("yield") EXCEPT !.mode = m] \in Controls
  BY DEF Select, Controls, Modes
<1>3. CASE NothingToRun \/ RerunsModule
  <2>1. Sched'
    BY <1>3, IdleSched
  <2>2. ctl' \in Controls
    BY <1>1, <1>3 DEF NothingToRun, RerunsModule, Modes
  <2>3. TypeOK'
    BY <1>3, <2>2 DEF NothingToRun, RerunsModule, TypeOK
  <2> QED BY <2>1, <2>3
<1>4. ASSUME NEW t \in Tasks, ActivateLoaded(t)
      PROVE  TypeOK' /\ Sched'
  <2>1. Sched' /\ ready_queue' \in Seq(Tasks)
    BY <1>4, LoadedSched
  <2>2. state' \in [Tasks -> {"none", "ready", "raise", "blocked", "gone"}]
    BY <1>4 DEF ActivateLoaded, TypeOK
  <2>3. ctl' \in Controls
    BY <1>2, <1>4 DEF ActivateLoaded
  <2>4. TypeOK'
    BY <1>4, <2>1, <2>2, <2>3 DEF ActivateLoaded, TypeOK
  <2> QED BY <2>1, <2>4
<1>5. ASSUME NEW t \in Tasks, ActivateSaved(t)
      PROVE  TypeOK' /\ Sched'
  <2>1. Sched' /\ ready_queue' \in Seq(Tasks)
    BY <1>5, SavedSched
  <2>2. state' \in [Tasks -> {"none", "ready", "raise", "blocked", "gone"}]
    BY <1>5 DEF ActivateSaved, TypeOK
  <2>3. ctl' \in Controls
    BY <1>2, <1>5 DEF ActivateSaved
  <2>4. /\ vmFrames' \in Seq(Tasks) /\ Len(vmFrames') <= RecursionLimit + 1
        /\ vmStack' \in Seq(Awaitables) /\ is_parked' \in BOOLEAN
    BY <1>5 DEF ActivateSaved, TypeOK
  <2>5. /\ current_task' \in Tasks \cup {None}
        /\ frames' \in [Tasks -> Seq(Tasks)] /\ stack' \in [Tasks -> Seq(Awaitables)]
        /\ \A u \in Tasks : Len(frames'[u]) <= RecursionLimit + 1
    BY <1>5, SwitchType DEF ActivateSaved
  <2>6. TypeOK'
    BY <1>5, <2>1, <2>2, <2>3, <2>4, <2>5 DEF ActivateSaved, TypeOK
  <2> QED BY <2>1, <2>6
<1>6. ASSUME NEW c \in Coros, ActivateNew(c) \/ ActivateStale(c)
      PROVE  TypeOK' /\ Sched'
  <2>1. Sched' /\ ready_queue' \in Seq(Tasks) /\ ToSlot(under[c], c) \in Awaiters
    BY <1>6, NewSched
  <2>2. ctl' \in Controls
    <3>1. Deliver(ToSlot(under[c], c), None, "exit", IF ctl.idle = "check" THEN "check" ELSE "run")
             \in Controls
      BY <2>1, ControlFacts
    <3> QED BY <1>2, <1>6, <3>1 DEF ActivateNew, ActivateStale
  <2>3. /\ vmFrames' \in Seq(Tasks) /\ Len(vmFrames') <= RecursionLimit + 1
        /\ vmStack' \in Seq(Awaitables) /\ is_parked' \in BOOLEAN
    <3>1. /\ vmFrames' = <<>> \/ vmFrames' = <<c>>
          /\ vmStack' = <<>> /\ (is_parked' = is_parked \/ is_parked' = FALSE)
      BY <1>6 DEF ActivateNew, ActivateStale
    <3>2. /\ <<>> \in Seq(Tasks) /\ <<c>> \in Seq(Tasks) /\ <<>> \in Seq(Awaitables)
          /\ Len(<<>>) = 0 /\ Len(<<c>>) = 1
      BY SMTT(30), NoneFacts
    <3>3. is_parked \in BOOLEAN /\ 0 <= RecursionLimit + 1 /\ 1 <= RecursionLimit + 1
      BY SMTT(30), ItemsAssumption DEF TypeOK
    <3> QED BY <3>1, <3>2, <3>3
  <2>4. coro' \in [Coros -> {"New", "Running", "Completed"}]
    BY <1>6 DEF ActivateNew, ActivateStale, TypeOK
  <2>5. /\ current_task' \in Tasks \cup {None}
        /\ frames' \in [Tasks -> Seq(Tasks)] /\ stack' \in [Tasks -> Seq(Awaitables)]
        /\ \A u \in Tasks : Len(frames'[u]) <= RecursionLimit + 1
    BY <1>6, SwitchType, NoneFacts DEF ActivateNew, ActivateStale
  <2>6. TypeOK'
    BY <1>6, <2>1, <2>2, <2>3, <2>4, <2>5 DEF ActivateNew, ActivateStale, TypeOK
  <2> QED BY <2>1, <2>6
<1> QED BY <1>3, <1>4, <1>5, <1>6 DEF Selection

LEMMA AnyHostSched ==
    ASSUME TypeOK, Sched, Host
    PROVE  TypeOK' /\ Sched'
<1> USE DEF schedVars, taskVars, extVars, gatherVars, vmVars
<1>1. Go("done") \in Controls /\ Select("resume") \in Controls /\ ctl \in Controls
  BY ControlFacts DEF Modes, TypeOK
<1>2. ASSUME NEW e \in Exts, NEW o \in {"Resolved", "Failed"}, Settle(e, o)
      PROVE  TypeOK' /\ Sched'
  <2>1. Sched'
    BY <1>2, HostSched
  <2>2. extAwaiter[e] \in Awaiters \cup {NoAwaiter} /\ e \in Awaitables
    BY NoneFacts DEF TypeOK
  <2>3. ctl' \in Controls
    <3>1. CASE extAwaiter[e] = NoAwaiter
      BY <1>1, <1>2, <3>1 DEF Settle
    <3>2. CASE extAwaiter[e] # NoAwaiter
      <4>1. Deliver(extAwaiter[e], IF o = "Resolved" THEN e ELSE None, "host", "resume") \in Controls
        BY <2>2, <3>2, ControlFacts
      <4> QED BY <1>2, <3>2, <4>1 DEF Settle
    <3> QED BY <3>1, <3>2
  <2>4. /\ ext' \in [Exts -> {"unborn", "Pending", "Resolved", "Failed"}]
        /\ extAwaiter' \in [Exts -> Awaiters \cup {NoAwaiter}]
        /\ pending_externals' \subseteq Exts
    BY <1>2 DEF Settle, TypeOK
  <2>5. TypeOK'
    BY <1>2, <2>3, <2>4 DEF Settle, TypeOK
  <2> QED BY <2>1, <2>5
<1>3. CASE HostResumes
  <2>1. TypeOK'
    BY <1>1, <1>3 DEF HostResumes, TypeOK
  <2> QED BY <1>3, <2>1, IdleSched
<1>4. CASE HostAborts
  <2>1. Sched'
    BY <1>4, HostSched
  <2>2. TypeOK'
    <3>1. CASE UNCHANGED <<current_task, frames, stack, vmVars>>
      BY <1>1, <1>4, <3>1 DEF HostAborts, TypeOK
    <3>2. CASE /\ SwitchContext(Main) /\ vmFrames' = frames[Main]
               /\ vmStack' = stack[Main] /\ is_parked' = FALSE
      <4>1. /\ current_task' \in Tasks \cup {None}
            /\ frames' \in [Tasks -> Seq(Tasks)] /\ stack' \in [Tasks -> Seq(Awaitables)]
            /\ \A u \in Tasks : Len(frames'[u]) <= RecursionLimit + 1
        BY <3>2, SwitchType, NoneFacts
      <4>2. /\ vmFrames' \in Seq(Tasks) /\ Len(vmFrames') <= RecursionLimit + 1
            /\ vmStack' \in Seq(Awaitables) /\ is_parked' \in BOOLEAN
        BY <3>2, NoneFacts DEF TypeOK
      <4> QED BY <1>1, <1>4, <4>1, <4>2 DEF HostAborts, TypeOK
    <3> QED BY <1>4, <3>1, <3>2 DEF HostAborts
  <2> QED BY <2>1, <2>2
<1> QED BY <1>2, <1>3, <1>4 DEF Host, ResolveFuture, FailFuture

LEMMA InitSched == Init => TypeOK /\ Sched
<1> SUFFICES ASSUME Init PROVE TypeOK /\ Sched
  OBVIOUS
<1>1. TypeOK
  <2>1. ctl \in Controls
    BY DEF Init, Select, Controls, Modes
  <2>2. /\ \A t \in Tasks : Len(frames[t]) <= RecursionLimit + 1
        /\ vmFrames \in Seq(Tasks) /\ Len(vmFrames) <= RecursionLimit + 1
        /\ frames \in [Tasks -> Seq(Tasks)] /\ stack \in [Tasks -> Seq(Awaitables)]
        /\ vmStack \in Seq(Awaitables) /\ ready_queue \in Seq(Tasks) /\ commits \in Seq(CommitFrames)
    BY SMTT(30), ItemsAssumption, NoneFacts DEF Init
  <2>3. /\ state \in [Tasks -> {"none", "ready", "raise", "blocked", "gone"}]
        /\ coro \in [Coros -> {"New", "Running", "Completed"}]
        /\ ext \in [Exts -> {"unborn", "Pending", "Resolved", "Failed"}]
        /\ gather \in [Gathers -> {"Pending", "Awaited", "Completed", "Failed"}]
    BY DEF Init
  <2>4. /\ pending_children \in [Gathers -> SUBSET (Awaitables \X Nat)]
        /\ results \in [Gathers -> SUBSET Nat]
    BY DEF Init
  <2> QED BY <2>1, <2>2, <2>3, <2>4, NoneFacts DEF Init, TypeOK
<1>2. ctl.mode = "run" /\ Running /\ ~Quiet /\ ~Leaving /\ Queued = {}
  BY SMTT(30) DEF Init, Select, Running, Quiet, Leaving, Queued, Range
<1>3. IsInjective(ready_queue)
  BY SMTT(30) DEF Init, IsInjective
<1>4. QueueInv /\ ThreadInv
  BY <1>2, <1>3, NoneFacts DEF Init, QueueInv, ThreadInv, Alive
<1>5. TaskInv
  BY <1>2, NoneFacts DEF Init, TaskInv
<1> QED BY <1>1, <1>4, <1>5 DEF Sched

LEMMA StepSched == TypeOK /\ Sched /\ [Next]_vars => TypeOK' /\ Sched'
<1> SUFFICES ASSUME TypeOK, Sched, [Next]_vars PROVE TypeOK' /\ Sched'
  OBVIOUS
<1>1. CASE Next
  BY <1>1, BytecodeSched, CommitSched, DeliverySched, ExitsSched, SelectionSched, AnyHostSched
     DEF Next
<1>2. CASE UNCHANGED vars
  <2>1. TypeOK'
    BY <1>2 DEF TypeOK, vars, schedVars, taskVars, extVars, gatherVars, vmVars
  <2>2. Sched'
    BY <1>2 DEF Sched, QueueInv, ThreadInv, TaskInv, Queued, Running, Quiet, Leaving,
                vars, schedVars, taskVars, vmVars
  <2> QED BY <2>1, <2>2
<1> QED BY <1>1, <1>2

LEMMA AlwaysSched == Spec => [](TypeOK /\ Sched)
<1>1. Init => TypeOK /\ Sched
  BY InitSched
<1>2. TypeOK /\ Sched /\ [Next]_vars => (TypeOK /\ Sched)'
  BY StepSched
<1> QED BY <1>1, <1>2, PTL DEF Spec

(* The variables keep their types, and no task stacks more frames than the *)
(* recursion limit allows.                                                 *)
THEOREM SchedulerTypes == Spec => []TypeOK
  BY AlwaysSched, PTL

(* A task that can run is loaded or queued, once, and nothing else is      *)
(* queued: `spawn` and `make_ready` append only tasks that are not queued, *)
(* and every path that leaves the loaded task makes it wait or end.        *)
THEOREM QueueIsSound == Spec => []ReadyQueueSound
<1>1. TypeOK /\ Sched => ReadyQueueSound
  <2> SUFFICES ASSUME TypeOK, Sched PROVE ReadyQueueSound
    OBVIOUS
  <2>1. ready_queue \in Seq(Tasks) /\ IsInjective(ready_queue)
    BY DEF TypeOK, Sched, QueueInv
  <2>2. Cardinality(Range(ready_queue)) = Len(ready_queue)
    BY <2>1, CountRange
  <2>3. Running <=> ctl.mode \in {"run", "raise", "commit"} /\ ~is_parked
    BY DEF Running
  <2> QED BY <2>2, <2>3 DEF ReadyQueueSound, Sched, QueueInv, ThreadInv, Queued, Alive
<1> QED BY <1>1, AlwaysSched, PTL
=============================================================================
