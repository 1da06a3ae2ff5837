--------------------------- MODULE AsyncScheduler ---------------------------
(***************************************************************************)
(* The cooperative scheduler of the interpreter: bytecode/vm/scheduler.rs  *)
(* (tasks, ready queue, pending external calls), bytecode/vm/async_exec.rs *)
(* (await, gather, task switching, delivery of results) and the awaitables *)
(* of asyncio.rs.                                                          *)
(*                                                                         *)
(* One thread runs everything, so the steps below never interleave with    *)
(* each other; `ctl` says where in the code the thread is.  What varies is *)
(* the program (which awaitable is awaited when, what raises, what is      *)
(* caught) and the host (which calls it answers, in which order, how).     *)
(* Bytecode that touches no awaitable is left out, and values are          *)
(* represented by the awaitable that produced them.                        *)
(*                                                                         *)
(* A coroutine is spawned as a task at most once, so the task is named by  *)
(* its coroutine.  A gather is created by the program some time before it  *)
(* is awaited; creating it changes nothing else, so the gathers of a run   *)
(* are picked at the start.                                                *)
(***************************************************************************)
EXTENDS Integers, Sequences, Queues, FiniteSets

CONSTANTS
    Coros,          \* coroutine objects
    Exts,           \* external calls the host may answer with a future
    NGathers,       \* gather objects, numbered so that items come first
    ItemChoices,    \* the `items` vectors a program may build
    Main,           \* the main task, and its module frame
    None,
    RecursionLimit  \* frames a task may stack up on its root frame

Gathers == 1..NGathers
Awaitables == Coros \cup Exts \cup Gathers
Tasks == Coros \cup {Main}

(* gather() only takes awaitables that exist already.                      *)
ASSUME ItemsAssumption ==
    /\ NGathers \in Nat /\ RecursionLimit \in Nat
    /\ ItemChoices \subseteq [Gathers -> Seq(Awaitables)]
    /\ \A it \in ItemChoices : \A g \in Gathers : \A i \in DOMAIN it[g] :
        it[g][i] \in Coros \cup Exts \cup 1..(g - 1)

(* The kinds of awaitables, the main task and None are told apart.         *)
ASSUME KindsAssumption ==
    /\ Coros \cap Exts = {} /\ Coros \cap Gathers = {} /\ Exts \cap Gathers = {}
    /\ Main \notin Awaitables /\ None \notin Awaitables \cup {Main}

VARIABLES
    \* Scheduler
    state,              \* TaskState, "none" before spawn, "gone" once removed
    ready_queue, current_task, pending_externals,
    \* Task
    on,                 \* the awaitable at whose `await` the task stands
    frames, stack,      \* saved context: frames, values delivered by awaits
    under,              \* Task::awaiter: the gather a task was spawned under
    \* Coroutine, ExternalFuture, GatherFuture
    coro, ext, extAwaiter,
    items, gather, gatherAwaiter, pending_children, results,
    \* the loaded context of the VM
    vmFrames, vmStack, is_parked,
    \* where the thread is
    commits,            \* the stack of commit_gather_tree
    ctl

schedVars == <<state, ready_queue, current_task, pending_externals>>
taskVars == <<on, frames, stack, under>>
extVars == <<ext, extAwaiter>>
gatherVars == <<items, gather, gatherAwaiter, pending_children, results>>
vmVars == <<vmFrames, vmStack, is_parked>>
vars == <<schedVars, taskVars, coro, extVars, gatherVars, vmVars, commits, ctl>>

(* Awaiter: where a result goes.  None until somebody awaits.              *)
ToTask(t) == [task |-> t, gather |-> None, source |-> None]
ToSlot(g, x) == [task |-> None, gather |-> g, source |-> x]
NoAwaiter == [task |-> None, gather |-> None, source |-> None]
Awaiters == {ToTask(t) : t \in Tasks} \cup {ToSlot(g, x) : g \in Gathers, x \in Awaitables}

(* ctl.mode is what the thread does; a delivery carries its awaiter, its   *)
(* value (None for a failure) and what comes after it; a selection carries *)
(* the awakened task and what happens when no task can run.                *)
Modes == {"run", "raise", "commit", "deliver", "exit", "select", "host",
          "done", "stalled", "panic"}
Go(mode) == [ctl EXCEPT !.mode = mode]
Deliver(a, v, after, idle) ==
    [mode |-> "deliver", awaiter |-> a, value |-> v, after |-> after,
     woken |-> None, idle |-> idle]
Select(idle) ==
    [mode |-> "select", awaiter |-> NoAwaiter, value |-> None, after |-> "run",
     woken |-> None, idle |-> idle]

Init ==
    /\ state = [t \in Tasks |-> IF t = Main THEN "ready" ELSE "none"]
    /\ ready_queue = <<>> /\ current_task = Main /\ pending_externals = {}
    /\ on = [t \in Tasks |-> None]
    /\ frames = [t \in Tasks |-> <<>>] /\ stack = [t \in Tasks |-> <<>>]
    /\ under = [t \in Tasks |-> None]
    /\ coro = [c \in Coros |-> "New"]
    /\ ext = [e \in Exts |-> "unborn"] /\ extAwaiter = [e \in Exts |-> NoAwaiter]
    /\ items \in ItemChoices
    /\ gather = [g \in Gathers |-> "Pending"]
    /\ gatherAwaiter = [g \in Gathers |-> NoAwaiter]
    /\ pending_children = [g \in Gathers |-> {}] /\ results = [g \in Gathers |-> {}]
    /\ vmFrames = <<Main>> /\ vmStack = <<>> /\ is_parked = FALSE
    /\ commits = <<>>
    /\ ctl = [Select("yield") EXCEPT !.mode = "run"]

-----------------------------------------------------------------------------
(* Bytecode of the loaded task                                             *)

(* The task whose bytecode runs, past any `await` it was suspended at.     *)
Executing(t) ==
    /\ ctl.mode = "run" /\ ~is_parked
    /\ current_task = t /\ on[t] = None

(* The resumed frame finds the awaited value on its stack.                 *)
ValueArrives(t) ==
    /\ ctl.mode = "run" /\ ~is_parked
    /\ current_task = t /\ on[t] # None /\ vmStack # <<>>
    /\ on' = [on EXCEPT ![t] = None]
    /\ vmStack' = Front(vmStack)
    /\ UNCHANGED <<schedVars, frames, stack, under, coro, extVars, gatherVars,
                   vmFrames, is_parked, commits, ctl>>

(* The program calls the host, which answers with a future.                *)
CallFuture(t, e) ==
    /\ Executing(t) /\ ext[e] = "unborn"
    /\ ext' = [ext EXCEPT ![e] = "Pending"]
    /\ pending_externals' = pending_externals \cup {e}
    /\ UNCHANGED <<state, ready_queue, current_task, taskVars, coro, extAwaiter,
                   gatherVars, vmVars, commits, ctl>>

(* A call that is awaited at once, with nothing else to run: the host may  *)
(* answer it eagerly, and the Await that follows reads the cached result.  *)
EagerAllowed == ready_queue = <<>> /\ pending_externals = {}

CallEager(t, e) ==
    /\ Executing(t) /\ ext[e] = "unborn"
    /\ EagerAllowed
    /\ \/ ext' = [ext EXCEPT ![e] = "Resolved"] /\ ctl' = ctl
       \/ ext' = [ext EXCEPT ![e] = "Failed"] /\ ctl' = Go("raise")
    /\ UNCHANGED <<schedVars, taskVars, coro, extAwaiter, gatherVars, vmVars, commits>>

(* A coroutine runs in the awaiting task, on a frame of its own.  It is    *)
(* Running even if the frame does not fit under the recursion limit.       *)
AwaitCoroutine(t, c) ==
    /\ Executing(t)
    /\ IF coro[c] # "New"
       THEN ctl' = Go("raise") /\ UNCHANGED <<coro, vmFrames>>
       ELSE /\ coro' = [coro EXCEPT ![c] = "Running"]
            /\ IF Len(vmFrames) > RecursionLimit
               THEN ctl' = Go("raise") /\ vmFrames' = vmFrames
               ELSE ctl' = ctl /\ vmFrames' = Append(vmFrames, c)
    /\ UNCHANGED <<schedVars, taskVars, extVars, gatherVars, vmStack, is_parked, commits>>

(* block_current_on: the loaded context stays loaded until another task is *)
(* activated.                                                              *)
BlockCurrentOn(t, x) ==
    /\ state' = [state EXCEPT ![t] = "blocked"]
    /\ on' = [on EXCEPT ![t] = x]

(* Mutant: a second await takes the future over from the first.            *)
AwaitExternalTakesOver(t, e) ==
    /\ Executing(t) /\ ext[e] = "Pending"
    /\ extAwaiter' = [extAwaiter EXCEPT ![e] = ToTask(t)]
    /\ BlockCurrentOn(t, e)
    /\ ctl' = Select("yield")
    /\ UNCHANGED <<ready_queue, current_task, pending_externals, frames, stack, under,
                   coro, ext, gatherVars, vmVars, commits>>

AwaitExternal(t, e) ==
    /\ Executing(t) /\ ext[e] # "unborn"
    /\ \/ /\ ext[e] = "Resolved"
          /\ UNCHANGED <<state, on, extAwaiter, ctl>>
       \/ /\ ext[e] = "Failed" \/ (ext[e] = "Pending" /\ extAwaiter[e] # NoAwaiter)
          /\ ctl' = Go("raise")
          /\ UNCHANGED <<state, on, extAwaiter>>
       \/ /\ ext[e] = "Pending" /\ extAwaiter[e] = NoAwaiter
          /\ extAwaiter' = [extAwaiter EXCEPT ![e] = ToTask(t)]
          /\ BlockCurrentOn(t, e)
          /\ ctl' = Select("yield")
    /\ UNCHANGED <<ready_queue, current_task, pending_externals, frames, stack, under,
                   coro, ext, gatherVars, vmVars, commits>>

(* The calls a gather waits for, directly or through nested gathers, were  *)
(* made before the gather was built.                                       *)
CallsOf[g \in Gathers] ==
    UNION {IF x \in Gathers THEN CallsOf[x] ELSE {x} \cap Exts : x \in Range(items[g])}

OpenGatherCommit(g, a) ==
    [gather |-> g, awaiter |-> a, next |-> 1, pending |-> {}, results |-> {}]

AwaitGather(t, g) ==
    /\ Executing(t)
    /\ \A e \in CallsOf[g] : ext[e] # "unborn"
    /\ \/ /\ gather[g] = "Completed"
          /\ UNCHANGED <<commits, ctl>>
       \/ /\ gather[g] \in {"Failed", "Awaited"}
          /\ ctl' = Go("raise") /\ commits' = commits
       \/ /\ gather[g] = "Pending"
          /\ commits' = <<OpenGatherCommit(g, ToTask(t))>>
          /\ ctl' = Go("commit")
    /\ UNCHANGED <<schedVars, taskVars, coro, extVars, gatherVars, vmVars>>

(* A coroutine that was awaited directly returns to the frame below.       *)
FrameReturns(t) ==
    /\ Executing(t) /\ Len(vmFrames) > 1
    /\ vmFrames' = Front(vmFrames)
    /\ UNCHANGED <<schedVars, taskVars, coro, extVars, gatherVars, vmStack,
                   is_parked, commits, ctl>>

MainReturns ==
    /\ Executing(Main) /\ Len(vmFrames) = 1
    /\ ctl' = Go("done")
    /\ UNCHANGED <<schedVars, taskVars, coro, extVars, gatherVars, vmVars, commits>>

Raises(t) ==
    /\ Executing(t)
    /\ ctl' = Go("raise")
    /\ UNCHANGED <<schedVars, taskVars, coro, extVars, gatherVars, vmVars, commits>>

-----------------------------------------------------------------------------
(* commit_gather_tree: one step per item of the innermost open gather      *)

Committing(x) ==
    /\ ctl.mode = "commit"
    /\ LET f == Last(commits) IN f.next <= Len(items[f.gather]) /\ items[f.gather][f.next] = x

(* The slot is ready, or x joins the children the gather waits for.        *)
Ready(f) == [f EXCEPT !.results = @ \cup {f.next}, !.next = @ + 1]
Pends(f, x) == [f EXCEPT !.pending = @ \cup {<<x, f.next>>}, !.next = @ + 1]
Replace(f) == commits' = Append(Front(commits), f)

(* An error fails every gather of the walk; children it already committed  *)
(* keep running.                                                           *)
UnwindGatherCommits ==
    /\ gather' = [g \in Gathers |->
                    IF \E i \in DOMAIN commits : commits[i].gather = g THEN "Failed" ELSE gather[g]]
    /\ commits' = <<>>
    /\ ctl' = Go("raise")

(* Mutant: the second slot of a repeated item is skipped.                  *)
CommitDuplicateSkips(x) ==
    /\ Committing(x)
    /\ LET f == Last(commits)
       IN  (\E p \in f.pending : p[1] = x) /\ Replace([f EXCEPT !.next = @ + 1])
    /\ UNCHANGED <<schedVars, taskVars, coro, extVars, gatherVars, vmVars, ctl>>

CommitDuplicate(x) ==
    /\ Committing(x)
    /\ LET f == Last(commits) IN (\E p \in f.pending : p[1] = x) /\ Replace(Pends(f, x))
    /\ UNCHANGED <<schedVars, taskVars, coro, extVars, gatherVars, vmVars, ctl>>

FirstSeen(x) == Committing(x) /\ \A p \in Last(commits).pending : p[1] # x

Spawn(c, g) ==
    /\ state' = [state EXCEPT ![c] = "ready"]
    /\ under' = [under EXCEPT ![c] = g]
    /\ ready_queue' = Append(ready_queue, c)

CommitCoroutine(c) ==
    /\ FirstSeen(c)
    /\ LET f == Last(commits)
       IN  \/ /\ coro[c] = "New" /\ state[c] \in {"none", "gone"}
              /\ Spawn(c, f.gather)
              /\ Replace(Pends(f, c))
              /\ UNCHANGED <<gather, ctl>>
           \/ /\ coro[c] # "New" \/ state[c] \notin {"none", "gone"}
              /\ UnwindGatherCommits
              /\ UNCHANGED <<state, under, ready_queue>>
    /\ UNCHANGED <<current_task, pending_externals, on, frames, stack, coro, extVars,
                   items, gatherAwaiter, pending_children, results, vmVars>>

(* Mutant: the commit takes a future over from whoever awaits it.          *)
CommitExternalTakesOver(e) ==
    /\ FirstSeen(e) /\ ext[e] = "Pending"
    /\ LET f == Last(commits)
       IN  /\ extAwaiter' = [extAwaiter EXCEPT ![e] = ToSlot(f.gather, e)]
           /\ Replace(Pends(f, e))
    /\ UNCHANGED <<schedVars, taskVars, coro, ext, gatherVars, vmVars, ctl>>

CommitExternal(e) ==
    /\ FirstSeen(e)
    /\ LET f == Last(commits)
       IN  \/ /\ ext[e] = "Resolved"
              /\ Replace(Ready(f))
              /\ UNCHANGED <<extAwaiter, gather, ctl>>
           \/ /\ ext[e] = "Failed" \/ (ext[e] = "Pending" /\ extAwaiter[e] # NoAwaiter)
              /\ UnwindGatherCommits
              /\ extAwaiter' = extAwaiter
           \/ /\ ext[e] = "Pending" /\ extAwaiter[e] = NoAwaiter
              /\ extAwaiter' = [extAwaiter EXCEPT ![e] = ToSlot(f.gather, e)]
              /\ Replace(Pends(f, e))
              /\ UNCHANGED <<gather, ctl>>
    /\ UNCHANGED <<schedVars, taskVars, coro, ext, items, gatherAwaiter,
                   pending_children, results, vmVars>>

CommitNested(g) ==
    /\ FirstSeen(g)
    /\ LET f == Last(commits)
       IN  \/ /\ gather[g] = "Completed"
              /\ Replace(Ready(f))
              /\ UNCHANGED <<gather, ctl>>
           \/ /\ gather[g] \in {"Failed", "Awaited"}
              /\ UnwindGatherCommits
           \/ /\ gather[g] = "Pending"
              /\ commits' = Append(commits, OpenGatherCommit(g, ToSlot(f.gather, g)))
              /\ UNCHANGED <<gather, ctl>>
    /\ UNCHANGED <<schedVars, taskVars, coro, extVars, items, gatherAwaiter,
                   pending_children, results, vmVars>>

(* settle_gather_commit and resume_after_child: with nothing in flight the *)
(* gather completes, otherwise it is Awaited; then the frame above goes on *)
(* after the slot, or the await site gets the value or blocks.             *)
CommitSettles(g) ==
    /\ ctl.mode = "commit"
    /\ Last(commits).gather = g /\ Last(commits).next > Len(items[g])
    /\ LET f == Last(commits)
           rest == Front(commits)
           t == current_task
       IN  /\ \/ /\ f.pending = {}
                 /\ gather' = [gather EXCEPT ![g] = "Completed"]
                 /\ results' = [results EXCEPT ![g] = f.results]
                 /\ UNCHANGED <<gatherAwaiter, pending_children>>
              \/ /\ f.pending # {}
                 /\ gather' = [gather EXCEPT ![g] = "Awaited"]
                 /\ gatherAwaiter' = [gatherAwaiter EXCEPT ![g] = f.awaiter]
                 /\ pending_children' = [pending_children EXCEPT ![g] = f.pending]
                 /\ results' = [results EXCEPT ![g] = f.results]
           /\ \/ /\ rest # <<>>
                 /\ commits' = Append(Front(rest), IF f.pending = {} THEN Ready(Last(rest))
                                                   ELSE Pends(Last(rest), g))
                 /\ UNCHANGED <<state, on, ctl>>
              \/ /\ rest = <<>> /\ commits' = <<>>
                 /\ IF f.pending = {}
                    THEN ctl' = Go("run") /\ UNCHANGED <<state, on>>
                    ELSE ctl' = Select("yield") /\ BlockCurrentOn(t, g)
    /\ UNCHANGED <<ready_queue, current_task, pending_externals, frames, stack, under,
                   coro, extVars, items, vmVars>>

-----------------------------------------------------------------------------
(* Delivering a result: deliver_awaiter_success, deliver_awaiter_failure   *)

Delivering(a) == ctl.mode = "deliver" /\ ctl.awaiter = a

(* The chain ends here; after a task's exit its awakened waiter runs next. *)
DeliveryEnds(t) == ctl' = [ctl EXCEPT !.mode = ctl.after, !.woken = t]

(* Mutant: the value always goes to the saved stack.                       *)
PushValueSaved(t) ==
    stack' = [stack EXCEPT ![t] = Append(@, ctl.value)] /\ vmStack' = vmStack

(* A value goes on the stack of the blocked task, loaded or saved.         *)
PushValue(t) ==
    IF current_task = t /\ ~is_parked
    THEN vmStack' = Append(vmStack, ctl.value) /\ stack' = stack
    ELSE stack' = [stack EXCEPT ![t] = Append(@, ctl.value)] /\ vmStack' = vmStack

(* Mutant: the awakened task is not queued.                                *)
MakeReadyUnqueued(t, s) ==
    state' = [state EXCEPT ![t] = s] /\ ready_queue' = ready_queue

MakeReady(t, s) ==
    /\ state' = [state EXCEPT ![t] = s]
    /\ ready_queue' = Append(ready_queue, t)

DeliverToTask(t) ==
    /\ Delivering(ToTask(t))
    /\ \/ /\ state[t] # "blocked"
          /\ DeliveryEnds(None)
          /\ UNCHANGED <<state, ready_queue, stack, vmStack>>
       \/ /\ state[t] = "blocked"
          /\ IF ctl.value # None
             THEN PushValue(t) /\ MakeReady(t, "ready")
             ELSE MakeReady(t, "raise") /\ UNCHANGED <<stack, vmStack>>
          /\ DeliveryEnds(t)
    /\ UNCHANGED <<current_task, pending_externals, on, frames, under, coro, extVars,
                   gatherVars, vmFrames, is_parked, commits>>

(* Mutant: a settled gather still takes a late child's value.              *)
ResolveChildLate(g, x) ==
    /\ Delivering(ToSlot(g, x)) /\ ctl.value # None
    /\ LET mine == {p \in pending_children[g] : p[1] = x}
       IN  /\ pending_children' = [pending_children EXCEPT ![g] = @ \ mine]
           /\ results' = [results EXCEPT ![g] = @ \cup {p[2] : p \in mine}]
    /\ gather' = IF pending_children'[g] = {} THEN [gather EXCEPT ![g] = "Completed"] ELSE gather
    /\ DeliveryEnds(None)
    /\ UNCHANGED <<schedVars, taskVars, coro, extVars, items, gatherAwaiter, vmVars, commits>>

(* resolve_child: fills the child's slots; the last child completes the    *)
(* gather and the chain goes on to its awaiter.  A gather that settled     *)
(* already drops the value.                                                *)
ResolveChild(g, x) ==
    /\ Delivering(ToSlot(g, x)) /\ ctl.value # None
    /\ \/ /\ gather[g] # "Awaited"
          /\ DeliveryEnds(None)
          /\ UNCHANGED gatherVars
       \/ /\ gather[g] = "Awaited"
          /\ LET mine == {p \in pending_children[g] : p[1] = x}
             IN  /\ pending_children' = [pending_children EXCEPT ![g] = @ \ mine]
                 /\ results' = [results EXCEPT ![g] = @ \cup {p[2] : p \in mine}]
          /\ \/ /\ pending_children'[g] # {}
                /\ DeliveryEnds(None)
                /\ UNCHANGED <<gather, gatherAwaiter>>
             \/ /\ pending_children'[g] = {}
                /\ gather' = [gather EXCEPT ![g] = "Completed"]
                /\ gatherAwaiter' = [gatherAwaiter EXCEPT ![g] = NoAwaiter]
                /\ ctl' = [ctl EXCEPT !.awaiter = gatherAwaiter[g], !.value = g]
          /\ items' = items
    /\ UNCHANGED <<schedVars, taskVars, coro, extVars, vmVars, commits>>

(* Mutant: the failure stops at the gather.                                *)
FailGatherStops(g, x) ==
    /\ Delivering(ToSlot(g, x)) /\ ctl.value = None
    /\ gather' = [gather EXCEPT ![g] = "Failed"]
    /\ DeliveryEnds(None)
    /\ UNCHANGED <<schedVars, taskVars, coro, extVars, items, gatherAwaiter,
                   pending_children, results, vmVars, commits>>

(* fail: the first failure settles the gather and goes on to its awaiter.  *)
FailGather(g, x) ==
    /\ Delivering(ToSlot(g, x)) /\ ctl.value = None
    /\ \/ /\ gather[g] # "Awaited"
          /\ DeliveryEnds(None)
          /\ UNCHANGED gatherVars
       \/ /\ gather[g] = "Awaited"
          /\ gather' = [gather EXCEPT ![g] = "Failed"]
          /\ pending_children' = [pending_children EXCEPT ![g] = {}]
          /\ results' = [results EXCEPT ![g] = {}]
          /\ gatherAwaiter' = [gatherAwaiter EXCEPT ![g] = NoAwaiter]
          /\ ctl' = [ctl EXCEPT !.awaiter = gatherAwaiter[g]]
          /\ items' = items
    /\ UNCHANGED <<schedVars, taskVars, coro, extVars, vmVars, commits>>

-----------------------------------------------------------------------------
(* A task ends: handle_task_completion, handle_exception, and              *)
(* handle_task_failure                                                     *)

(* A finished task leaves the scheduler before its value is delivered, a   *)
(* failed one after.                                                       *)
TaskReturns(c) ==
    /\ Executing(c) /\ Len(vmFrames) = 1
    /\ coro' = [coro EXCEPT ![c] = "Completed"]
    /\ state' = [state EXCEPT ![c] = "gone"]
    /\ current_task' = None
    /\ ctl' = Deliver(ToSlot(under[c], c), c, "exit", "yield")
    /\ UNCHANGED <<ready_queue, pending_externals, taskVars, extVars, gatherVars,
                   vmVars, commits>>

(* Some frame k has a handler: the frames above go, with the await.        *)
Caught(t, k) ==
    /\ ctl.mode = "raise" /\ current_task = t
    /\ k <= Len(vmFrames)
    /\ vmFrames' = SubSeq(vmFrames, 1, k)
    /\ vmStack' = <<>>
    /\ on' = [on EXCEPT ![t] = None]
    /\ ctl' = Go("run")
    /\ UNCHANGED <<schedVars, frames, stack, under, coro, extVars, gatherVars,
                   is_parked, commits>>

(* No handler in the main task, or an error no handler may catch.          *)
RunFails ==
    /\ ctl.mode = "raise"
    /\ ctl' = Go("done")
    /\ UNCHANGED <<schedVars, taskVars, coro, extVars, gatherVars, vmVars, commits>>

TaskFails(c) ==
    /\ ctl.mode = "raise" /\ current_task = c
    /\ ctl' = Deliver(ToSlot(under[c], c), None, "exit", "check")
    /\ UNCHANGED <<schedVars, taskVars, coro, extVars, gatherVars, vmVars, commits>>

(* cleanup_current_task leaves the parked frame; cancel_task removes a     *)
(* failed task (a finished one is gone).                                   *)
TaskExits ==
    /\ ctl.mode = "exit"
    /\ vmFrames' = <<>> /\ vmStack' = <<>> /\ is_parked' = TRUE
    /\ \/ current_task = None /\ UNCHANGED <<state, ready_queue, current_task, on>>
       \/ /\ current_task # None
          /\ state' = [state EXCEPT ![current_task] = "gone"]
          /\ ready_queue' = RemoveFirst(ready_queue, current_task)
          /\ current_task' = None
          /\ on' = [on EXCEPT ![current_task] = None]
    /\ ctl' = Go("select")
    /\ UNCHANGED <<pending_externals, frames, stack, under, coro, extVars, gatherVars, commits>>

-----------------------------------------------------------------------------
(* Choosing the next task: switch_or_yield, resume_after_task_exit and     *)
(* resume_with_resolved_futures                                            *)

(* Mutant: the awakened task keeps its queue entry.                        *)
SelectedKeepsEntry(t) ==
    /\ ctl.mode = "select"
    /\ \/ ctl.woken = t /\ ready_queue' = ready_queue
       \/ /\ ctl.woken = None /\ ready_queue # <<>> /\ Head(ready_queue) = t
          /\ ready_queue' = Tail(ready_queue)

(* The awakened task if there is one, else the head of the queue.  The     *)
(* code's `retain` removes one entry: a task is queued at most once        *)
(* (ReadyQueueSound).                                                      *)
Selected(t) ==
    /\ ctl.mode = "select"
    /\ \/ /\ ctl.woken = t
          /\ ready_queue' = RemoveFirst(ready_queue, t)
       \/ /\ ctl.woken = None /\ ready_queue # <<>> /\ Head(ready_queue) = t
          /\ ready_queue' = Tail(ready_queue)

(* activate_task: the task blocked last, still loaded, runs on.            *)
ActivateLoaded(t) ==
    /\ Selected(t) /\ current_task = t
    /\ state' = [state EXCEPT ![t] = "ready"]
    /\ ctl' = [Select("yield") EXCEPT !.mode = IF state[t] = "raise" THEN "raise" ELSE "run"]
    /\ UNCHANGED <<current_task, pending_externals, taskVars, coro, extVars,
                   gatherVars, vmVars, commits>>

(* save_task_context, unless no task is loaded; t's saved context is taken.*)
SwitchContext(t) ==
    /\ current_task' = t
    /\ frames' = [u \in Tasks |-> IF u = t THEN <<>>
                                  ELSE IF u = current_task THEN vmFrames ELSE frames[u]]
    /\ stack' = [u \in Tasks |-> IF u = t THEN <<>>
                                 ELSE IF u = current_task THEN vmStack ELSE stack[u]]

ActivateSaved(t) ==
    /\ Selected(t) /\ current_task # t /\ frames[t] # <<>>
    /\ SwitchContext(t)
    /\ state' = [state EXCEPT ![t] = "ready"]
    /\ vmFrames' = frames[t] /\ vmStack' = stack[t] /\ is_parked' = FALSE
    /\ ctl' = [Select("yield") EXCEPT !.mode = IF state[t] = "raise" THEN "raise" ELSE "run"]
    /\ UNCHANGED <<pending_externals, on, under, coro, extVars, gatherVars, commits>>

(* Mutant: a task starts its coroutine without looking at its state.       *)
ActivateNewUnchecked(c) ==
    /\ Selected(c) /\ current_task # c /\ frames[c] = <<>>
    /\ SwitchContext(c)
    /\ coro' = [coro EXCEPT ![c] = "Running"]
    /\ vmFrames' = <<c>> /\ vmStack' = <<>> /\ is_parked' = FALSE
    /\ ctl' = [Select("yield") EXCEPT !.mode = "run"]
    /\ UNCHANGED <<state, pending_externals, on, under, extVars, gatherVars, commits>>

(* init_task_from_coroutine: the task's first turn.                        *)
ActivateNew(c) ==
    /\ Selected(c) /\ current_task # c /\ frames[c] = <<>> /\ coro[c] = "New"
    /\ SwitchContext(c)
    /\ coro' = [coro EXCEPT ![c] = "Running"]
    /\ vmFrames' = <<c>> /\ vmStack' = <<>> /\ is_parked' = FALSE
    /\ ctl' = [Select("yield") EXCEPT !.mode = "run"]
    /\ UNCHANGED <<state, pending_externals, on, under, extVars, gatherVars, commits>>

(* The coroutine was awaited directly before its task got a turn: the task *)
(* fails at once.  handle_task_failure drops resume_after_task_exit's      *)
(* answer, so outside exception handling the caller goes on as if a task   *)
(* had been loaded.                                                        *)
ActivateStale(c) ==
    /\ Selected(c) /\ current_task # c /\ frames[c] = <<>> /\ coro[c] # "New"
    /\ SwitchContext(c)
    /\ vmFrames' = <<>> /\ vmStack' = <<>>
    /\ ctl' = Deliver(ToSlot(under[c], c), None, "exit",
                      IF ctl.idle = "check" THEN "check" ELSE "run")
    /\ UNCHANGED <<state, pending_externals, on, under, coro, extVars, gatherVars,
                   is_parked, commits>>

(* Nothing to run.  "yield" hands the pending calls to the host, "check"   *)
(* (yield_if_parked) and "resume" report a stall when there are none, and  *)
(* "run" goes on dispatching.                                              *)
NothingToRun ==
    /\ ctl.mode = "select" /\ ctl.woken = None /\ ready_queue = <<>>
    /\ ctl' = Go(CASE ctl.idle = "run" -> "run"
                   [] ctl.idle = "yield" -> "host"
                   [] OTHER -> IF pending_externals = {} THEN "stalled" ELSE "host")
    /\ UNCHANGED <<schedVars, taskVars, coro, extVars, gatherVars, vmVars, commits>>

(* Dispatch runs the parked frame: the module from its start, with no      *)
(* current task.  It may return, or reach an await and panic.              *)
RerunsModule ==
    /\ ctl.mode = "run" /\ is_parked
    /\ ctl' \in {Go("done"), Go("panic")}
    /\ UNCHANGED <<schedVars, taskVars, coro, extVars, gatherVars, vmVars, commits>>

-----------------------------------------------------------------------------
(* The host, at a ResolveFutures suspension                                *)

(* resolve_future and fail_future: settle the call, tell its awaiter.      *)
Settle(e, outcome) ==
    /\ ctl.mode = "host" /\ e \in pending_externals
    /\ pending_externals' = pending_externals \ {e}
    /\ ext' = [ext EXCEPT ![e] = outcome]
    /\ extAwaiter' = [extAwaiter EXCEPT ![e] = NoAwaiter]
    /\ ctl' = IF extAwaiter[e] = NoAwaiter THEN ctl
              ELSE Deliver(extAwaiter[e], IF outcome = "Resolved" THEN e ELSE None,
                           "host", "resume")
    /\ UNCHANGED <<state, ready_queue, current_task, taskVars, coro, gatherVars,
                   vmVars, commits>>

ResolveFuture(e) == Settle(e, "Resolved")
FailFuture(e) == Settle(e, "Failed")

(* The batch is ingested; any task it made ready is selected.              *)
HostResumes ==
    /\ ctl.mode = "host"
    /\ ctl' = Select("resume")
    /\ UNCHANGED <<schedVars, taskVars, coro, extVars, gatherVars, vmVars, commits>>

(* abort, or a result that cannot be converted: the run ends with an error *)
(* no handler catches.  abort reloads the main task if nothing is loaded.  *)
HostAborts ==
    /\ ctl.mode = "host"
    /\ \/ /\ is_parked /\ frames[Main] # <<>>
          /\ SwitchContext(Main)
          /\ vmFrames' = frames[Main] /\ vmStack' = stack[Main] /\ is_parked' = FALSE
       \/ /\ ~(is_parked /\ frames[Main] # <<>>)
          /\ UNCHANGED <<current_task, frames, stack, vmVars>>
    /\ ctl' = Go("done")
    /\ UNCHANGED <<state, ready_queue, pending_externals, on, under, coro, extVars,
                   gatherVars, commits>>

-----------------------------------------------------------------------------
Bytecode(t) ==
    \/ ValueArrives(t) \/ FrameReturns(t) \/ Raises(t)
    \/ \E e \in Exts : CallFuture(t, e) \/ CallEager(t, e) \/ AwaitExternal(t, e)
    \/ \E c \in Coros : AwaitCoroutine(t, c)
    \/ \E g \in Gathers : AwaitGather(t, g)

Commit ==
    \/ \E x \in Awaitables : CommitDuplicate(x)
    \/ \E c \in Coros : CommitCoroutine(c)
    \/ \E e \in Exts : CommitExternal(e)
    \/ \E g \in Gathers : CommitNested(g) \/ CommitSettles(g)

Delivery ==
    \/ \E t \in Tasks : DeliverToTask(t)
    \/ \E g \in Gathers, x \in Awaitables : ResolveChild(g, x) \/ FailGather(g, x)

Exits ==
    \/ MainReturns \/ RunFails \/ TaskExits
    \/ \E c \in Coros : TaskReturns(c) \/ TaskFails(c)
    \/ \E t \in Tasks, k \in 1..(RecursionLimit + 1) : Caught(t, k)

Selection ==
    \/ NothingToRun \/ RerunsModule
    \/ \E t \in Tasks : ActivateLoaded(t) \/ ActivateSaved(t)
    \/ \E c \in Coros : ActivateNew(c) \/ ActivateStale(c)

Host ==
    \/ \E e \in Exts : ResolveFuture(e) \/ FailFuture(e)
    \/ HostResumes \/ HostAborts

Next == (\E t \in Tasks : Bytecode(t)) \/ Commit \/ Delivery \/ Exits \/ Selection \/ Host

Spec == Init /\ [][Next]_vars

(* The host answers every call and resumes, and the program is one whose   *)
(* bodies end: a body that can return again and again does.  The           *)
(* interpreter itself only has to take its next step.                      *)
Fairness ==
    /\ WF_vars(Next)
    /\ \A e \in Exts : SF_vars(ResolveFuture(e) \/ FailFuture(e))
    /\ SF_vars(HostResumes)
    /\ SF_vars(MainReturns)
    /\ \A t \in Tasks : SF_vars(FrameReturns(t))
    /\ \A c \in Coros : SF_vars(TaskReturns(c))

FairSpec == Spec /\ Fairness

-----------------------------------------------------------------------------
(* Properties                                                              *)

CommitFrames ==
    [gather : Gathers, awaiter : Awaiters, next : Nat,
     pending : SUBSET (Awaitables \X Nat), results : SUBSET Nat]

Controls ==
    [mode : Modes, awaiter : Awaiters \cup {NoAwaiter}, value : Awaitables \cup {None},
     after : {"run", "exit", "host"}, woken : Tasks \cup {None},
     idle : {"yield", "check", "run", "resume"}]

(* Every piece of scheduler, task, awaitable and VM state has the type its *)
(* Rust declaration gives it, and a task stacks at most RecursionLimit     *)
(* frames on its root.                                                     *)
TypeOK ==
    /\ state \in [Tasks -> {"none", "ready", "raise", "blocked", "gone"}]
    /\ ready_queue \in Seq(Tasks)
    /\ current_task \in Tasks \cup {None} /\ pending_externals \subseteq Exts
    /\ on \in [Tasks -> Awaitables \cup {None}]
    /\ frames \in [Tasks -> Seq(Tasks)] /\ stack \in [Tasks -> Seq(Awaitables)]
    /\ \A t \in Tasks : Len(frames[t]) <= RecursionLimit + 1
    /\ under \in [Tasks -> Gathers \cup {None}]
    /\ coro \in [Coros -> {"New", "Running", "Completed"}]
    /\ ext \in [Exts -> {"unborn", "Pending", "Resolved", "Failed"}]
    /\ extAwaiter \in [Exts -> Awaiters \cup {NoAwaiter}]
    /\ items \in ItemChoices
    /\ gather \in [Gathers -> {"Pending", "Awaited", "Completed", "Failed"}]
    /\ gatherAwaiter \in [Gathers -> Awaiters \cup {NoAwaiter}]
    /\ pending_children \in [Gathers -> SUBSET (Awaitables \X Nat)]
    /\ results \in [Gathers -> SUBSET Nat]
    /\ vmFrames \in Seq(Tasks) /\ Len(vmFrames) <= RecursionLimit + 1
    /\ vmStack \in Seq(Awaitables) /\ is_parked \in BOOLEAN
    /\ commits \in Seq(CommitFrames)
    /\ ctl \in Controls

(* What will wake t: the future or gather that names it as its awaiter, or *)
(* the delivery under way.                                                 *)
WakeSources(t) ==
    {e \in Exts : ext[e] = "Pending" /\ extAwaiter[e] = ToTask(t)}
    \cup {g \in Gathers : gather[g] = "Awaited" /\ gatherAwaiter[g] = ToTask(t)}
    \cup {x \in {on[t]} : ctl.mode = "deliver" /\ ctl.awaiter = ToTask(t)}

(* A blocked task has exactly one thing that will wake it, the awaitable   *)
(* it is blocked on, and nothing points at a task that is not blocked:     *)
(* make_ready's assertion holds, no task is forgotten (block_current_on,   *)
(* make_ready).                                                            *)
OneWakeSource ==
    \A t \in Tasks : WakeSources(t) = IF state[t] = "blocked" THEN {on[t]} ELSE {}

(* Every child an awaited gather still waits for will report to it: its    *)
(* task is alive, its future or gather names the slot, or the report is    *)
(* under way (step_gather_commit, resolve_child's `expect`).               *)
ChildrenTracked ==
    \A g \in Gathers : gather[g] = "Awaited" =>
        \A p \in pending_children[g] :
            LET x == p[1] IN
            \/ ctl.mode = "deliver" /\ ctl.awaiter = ToSlot(g, x)
            \/ x \in Coros /\ state[x] \in {"ready", "raise", "blocked"} /\ under[x] = g
            \/ x \in Exts /\ ext[x] = "Pending" /\ extAwaiter[x] = ToSlot(g, x)
            \/ x \in Gathers /\ gather[x] = "Awaited" /\ gatherAwaiter[x] = ToSlot(g, x)

(* A gather's slots are filled or waited for, never both, and a completed  *)
(* gather has filled all of them (`expect("all results filled ...")`).     *)
SlotsAccounted ==
    \A g \in Gathers :
        LET waited == {p[2] : p \in pending_children[g]} IN
        /\ gather[g] = "Completed" => results[g] = DOMAIN items[g] /\ waited = {}
        /\ gather[g] = "Awaited" => /\ results[g] \cup waited = DOMAIN items[g]
                                   /\ results[g] \cap waited = {}

(* The ready queue holds each ready task that is not loaded exactly once,  *)
(* and no task that is blocked or gone; the task whose bytecode runs is    *)
(* ready and not queued (spawn, make_ready, next_ready_task,               *)
(* remove_from_ready_queue).                                               *)
ReadyQueueSound ==
    /\ Cardinality(Range(ready_queue)) = Len(ready_queue)
    /\ \A t \in Range(ready_queue) : state[t] \in {"ready", "raise"}
    /\ \A t \in Tasks :
        (state[t] \in {"ready", "raise"} /\ t # current_task) => t \in Range(ready_queue)
    /\ (ctl.mode \in {"run", "raise", "commit"} /\ ~is_parked) =>
        /\ current_task \in Tasks /\ state[current_task] = "ready"
        /\ current_task \notin Range(ready_queue)

(* When control is with the host something can still happen: a call is     *)
(* pending or a task was made ready, and the main task is alive with a     *)
(* context that can be reloaded, as abort assumes.  The two "asyncio       *)
(* scheduler stalled" errors are never raised.                             *)
NoStall ==
    /\ ctl.mode # "stalled"
    /\ ctl.mode = "host" => pending_externals # {} \/ ready_queue # <<>>
    /\ (ctl.mode = "host" /\ is_parked) =>
        /\ state[Main] \in {"blocked", "ready", "raise"}
        /\ frames[Main] # <<>> /\ frames[Main][1] = Main

(* A task that resumes finds exactly the value of the awaitable it was     *)
(* blocked on, whether it was loaded or saved when the value came; a       *)
(* blocked task has none yet (deliver_value_to_task, load_or_init_task).   *)
AwaitValue ==
    /\ (ctl.mode = "run" /\ ~is_parked) =>
        vmStack = (IF on[current_task] = None THEN <<>> ELSE <<on[current_task]>>)
    /\ \A t \in Tasks \ {current_task} :
        stack[t] = (IF state[t] = "ready" /\ on[t] # None THEN <<on[t]>> ELSE <<>>)

(* A coroutine body runs on at most one frame of all tasks together, none  *)
(* before it started or after its task completed (await_coroutine,         *)
(* init_task_from_coroutine, and spawn's one-task-per-coroutine check).    *)
FramesOf(c) ==
    {p \in Tasks \X (1..(RecursionLimit + 1)) :
        p[2] <= Len(frames[p[1]]) /\ frames[p[1]][p[2]] = c}
    \cup {<<None, i>> : i \in {j \in DOMAIN vmFrames : vmFrames[j] = c}}

RunsOnce ==
    \A c \in Coros :
        /\ Cardinality(FramesOf(c)) <= 1
        /\ coro[c] = "New" => FramesOf(c) = {}

(* A settled gather keeps its outcome, so a later await replays it: late   *)
(* children and failures stop at it (resolve_child, fail, and the unwind   *)
(* of a commit).                                                           *)
GatherSettlesOnce ==
    [][\A g \in Gathers : gather[g] \in {"Completed", "Failed"} => gather'[g] = gather[g]]_vars

(* With a host that answers and bodies that end, every run ends: no task   *)
(* waits for a result that was delivered elsewhere or dropped, and the     *)
(* walks over gathers and tasks terminate.                                 *)
RunEnds == <>(ctl.mode \in {"done", "panic"})

(* vm/mod.rs: "Dispatch must not execute that frame."                      *)
DispatchNeverParked == ctl.mode = "run" => ~is_parked
====
