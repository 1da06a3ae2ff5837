# A TLA+ model of Monty

Monty is a sandboxed Python interpreter written in Rust. Hosts (Rust, Python,
JavaScript) run untrusted snippets in it, usually in worker processes handed out
by a pool, and answer the calls the snippet makes to the outside. This directory
models the parts of it whose correctness depends on the order in which things
happen, checks them with TLC and proves part of the results with TLAPS.

## 1. The system

| Part | Source | State | Operations | What makes it hard |
|---|---|---|---|---|
| Worker pool | `crates/monty-pool/src/pool.rs` | idle queue, slot count `total`, `closed`, `retry_at`, a tokio `Notify` | checkout, finish, discard, refill, retry, close, drop | every release is three steps (count, notify, replenish) other threads run between; cancellation at any await; refills racing close and drop |
| Checkout (session) | `crates/monty-pool/src/checkout.rs`, `worker.rs` | pending suspension, session budget, poisoned / dead worker | feed, resume, dump, restore, install, raw turns, terminate, finish | one request in flight at a time, timeouts racing late answers, a worker that dies mid-turn, transparent re-creation after a shutdown |
| Remote transport | `crates/monty-pool/src/remote.rs` | stream, admission, event reader | connect, send, recv, close | streams that end at any point |
| Child protocol | `crates/monty-proto/src/worker.rs` | `SessionState`: Configured, Ready, Suspended, AwaitingStubs | configure, feed, resume, abort, dump, load, reset, shutdown | one request in, exactly one turn-ending event out; requests in the wrong state |
| Worker process | `crates/monty-runtime` | stdin/stdout loop, memory limit | serve | I/O only |
| Async scheduler | `crates/monty/src/bytecode/vm/{scheduler,async_exec}.rs`, `asyncio.rs` | tasks, ready queue, pending calls, coroutines, futures, gathers, the loaded VM context | await, gather commit, deliver, fail, task exit, task switch, host resolution, abort | results arrive in any order, gathers nest and share children, a commit may fail half way, tasks die while others point at their gather |
| Compiler and bytecode VM | `crates/monty/src/bytecode/**` | code, exception table, frames, operand stack, exception stack | compile a statement; one step per opcode | a `return` through nested `finally`, `with` and loops runs cleanup code in the right order, outside the regions it leaves; otherwise size: a Python semantics |
| Heap and cycle collector | `crates/monty/src/heap/**` | reference counts, readers, colours, free list, weak indexes | allocate, inc_ref, dec_ref, collect_cycles, restore | iterative loops leave the heap half done at every step; trial deletion must not free what an outside reference reaches |
| Resource tracker | `crates/monty-types/src/resource.rs` | limits, clocks, counters | check_*, on_turn_start, tighten | clocks stop and start at suspensions |
| REPL and snapshots | `crates/monty/src/{repl,run_progress}.rs` | suspended VM | feed, resume, dump, load | a resume may be refused after the VM was restored |
| File system | `crates/monty-fs/src/**` | mounts, overlay entries, byte accounting | read, write, rename, rmdir, iterdir | an overlay must look like one tree; partial failures |
| JavaScript pool | `crates/monty-js/ts/worker/pool.ts` | idle, waiters, retiring, total, closed | checkout, release, discard, close | awaits inside every operation |
| Python and JavaScript bindings, CLI, WASM runtime | `crates/monty-{python,js,wasm-runtime,runtime}` | none of their own beyond the above | conversions | glue |
| Parser, type checker, stubs, tests, fuzzing, benchmarks | `crates/monty/src/{parse,prepare}*`, `monty-type-checking`, `monty-typeshed`, `monty-datatest`, `fuzz`, ... | none that lives across calls | pure translations | not a matter of order |

How they interact: a host checks a worker out of the pool; the checkout sends one
request at a time to the child, which drives the REPL; the REPL runs the VM until
the program ends or calls the host. The scheduler decides, inside the VM, which
task runs and when control goes back to the host with the set of calls still
pending. The host's answers travel the same way back.

## 2. Modules

| Module | Models | Size of the code |
|---|---|---|
| `WorkerPool` | the pool: `Pool`, `PoolInner`, `CapacityGuard`, the release path of a checkout | ~480 lines |
| `AsyncScheduler` | tasks, awaitables, gathers, deliveries, task switches, host resolutions | ~1300 lines |
| `SessionProtocol` | one session: the `Checkout`, the worker's `Child`, the stream between them | ~2300 lines |
| `Heap` | the arena, reference counts, readers, weak indexes, `dec_ref`, the cycle collector | ~1700 lines |
| `ObjectGraph` | what the heap promises the interpreter; `Heap` implements it | (abstract) |
| `OverlayFs` | the in-memory overlay of a mount | ~1700 lines |
| `FileTree` | what a mount promises; `OverlayFs` implements it | (abstract) |
| `JsWorkerPool` | the JavaScript pool | ~170 lines |
| `ControlFlow` | how statements that move control are compiled, and how the VM runs the result | ~1700 lines |
| `PythonControl` | what the source says such a program does | (abstract) |
| `Queues` | the queue and stack operators of the scheduler and the JavaScript pool | |
| `WorkerPool_proofs` | the pool's theorems | |
| `JsWorkerPool_proofs` | the JavaScript pool's theorems | |
| `AsyncScheduler_proofs`, `AsyncAwait_proofs`, `AsyncProgress_proofs` | the scheduler's theorems, in the order they rest on each other | |
| `Heap_proofs`, `HeapCollector_proofs` | the heap's theorems | |
| `SequenceFacts` | lemmas on numbers and on sequences without repetitions | |
| `MC*` | instances for TLC | |

### WorkerPool

State: `PoolState` field by field (`idle`, `total`, `closed`, `retry_at`), the
`Notify` (its wait list, its one stored permit, who was notified and has not been
polled), the program counter and worker of every client, and how many background
tasks are at each point of `refill_one`, `refill_failed` and `release_capacity`.
One action is one critical section of the state mutex or one call of the
`Notify`; what the code does between two of them other threads may interleave
with. `acquire_worker_inner` is `Reuse`/`Reserve`/`Full` (the critical section),
`TopUp`, `SpawnOk`, `SpawnFail`, `Wake`; dropping its future at an await is
`Cancel`, and running into `checkout_timeout` is `Exhausted`. `release_worker` is
`FinishIdle`/`FinishRecycle`/`FinishRemote`; a session that lost its worker is
`Discard`; both go on through `ReleaseDec`, `ReleaseNotify`, `ReleaseReplenish`.
`Close` takes the idle workers with a guard each, `Reaped` returns their slots.
`IdleDeath` is a worker process that dies while idle. `NotifyOne`, `Enable` and
`DropNotified` are tokio's `Notify` as the pool uses it: a notification wakes the
longest waiter or is stored, and one that was handed to a future that is dropped
before it sees it is passed on.

Whether the workers are subprocesses or remote streams is state that never changes
(`transport`, one of the constant `Transports`), so that one run covers both.
Remote streams are never idle: `Floor` is `min_processes` for subprocesses and
zero for them.

A refill that fails reads `closed` in one critical section (`RefillErr`, in
`refill_one`) and arms the retry in a later one (`RefillFailed`), so a retry may be
armed after a close. `OneRetry` says that `retry_at` then still
stands for exactly one sleeping task, and `ClosedQuiesces` that such a retry, like
every refill under way at the close, comes to nothing and is not followed by
another. `FloorKept` counts slots, as the code does: a worker that died while idle
keeps its slot until a checkout pops it (`IdleDeath`), so an unnoticed death is
not a breach of it.

Left out: worker ids, the length of the backoff delay (a retry fires at some
time), telemetry, and what a session does with its worker.

### AsyncScheduler

State: `TaskState` per task (`raise` is `Ready(Err)`), the saved frames and the
values on the saved stack, the ready queue, the current task, the pending calls;
the state of each coroutine, external future and gather, with their awaiters; the
VM's loaded frames and stack and whether the frame is parked; the stack of
`commit_gather_tree`. The interpreter is one thread: `ctl` says what it is doing,
and only the program (which awaitable is awaited, what raises, which frame has a
handler) and the host (which call is answered, how, when it resumes or aborts)
are free. The loops of the code take one step per iteration: one item of a gather
in `commit_gather_tree`, one awaiter of a chain in `deliver_awaiter_success` and
`deliver_awaiter_failure`, one task in `handle_exception`.

`AwaitCoroutine`, `AwaitExternal`, `AwaitGather` are `exec_get_awaitable`;
`Commit*` are `step_gather_commit`, `settle_gather_commit`,
`resume_after_child` and `unwind_gather_commits`; `DeliverToTask`,
`ResolveChild`, `FailGather` are the two delivery loops; `TaskReturns`,
`TaskFails`, `TaskExits` are `handle_task_completion` and `handle_task_failure`;
`Activate*` and `NothingToRun` are `switch_or_yield`, `resume_after_task_exit`,
`activate_task`, `load_or_init_task` and the callers' reaction when no task can
run; `ResolveFuture`, `FailFuture`, `HostResumes`, `HostAborts` are the host's
side of `ResolveFutures`.

A value is represented by the awaitable that produced it, a task by its
coroutine (`spawn` makes at most one task per coroutine), and the gathers of a
program are picked at the start, each over awaitables that exist before it.
Left out: values themselves and their reference counts, resource errors in the
middle of a commit (they end the run whatever was committed), call ids, ordinary
function frames.

### SessionProtocol

State: `checkout` has the fields of `Checkout` (`pending` with the retained
`os_call`, `turn_in_flight`, `abort_in_flight`, `budget`, `pending_load_budget`,
`session_id`, `redial`, `feed_mounts`, `cwd_set`); `op` is the call in progress
and the await it stands at (`turn_io`'s read, the blocking mount task, the dial,
the `Configure`, `Load` and re-sent request of a reload); `child` is the worker's
`SessionState` with the session's limits and working directory; `inbox` and
`outbox` are the two directions of the stream. `ran`, `forfeit`, `delivered` and
`slept` are history: the requests whose code was started, with the kind of
suspension each answered; how the host gave up the suspension the worker holds
(`"load"`, `"frame"`, or `"no"` if it did not); and the suspensions and system
sleeps the host was handed since the last dump adopted.

The child's handlers are one action each (`HandleFeed` is `handle_repl_feed`,
`HandleResume` the three resume handlers, and so on): it takes the request,
changes the session and writes the turn's events, stamped as
`stamp_session_budget` does. What the interpreter does in between is any outcome
`drive` can report. `RejectFrame` is the serve loop's answer to a frame that does
not decode, which carries no stamp; `ChildDies` is a death before, during or
after a request, announced or not. A worker or relay that does not run this code
takes `Misbehaves` instead of the handlers: it puts any event on the stream,
asked for or not, at most `MaxLies` at a time.

The checkout's calls (`Feed`, `Resume`, `ResumeFromMounts`, `Restore`, `Dump`,
`Finish`, ...) prepare the checkout and send, or fail on a frame too large.
Reading a reply is one action per way a turn can go on: `CallReturns`,
`AbortOverBudget`, `ReceiveInvalid`, `MountAnswerRefused`, `ReceiveFatal`,
`WorkerGone`, `DeadlineExpires`; `Budgeted` is `abort_if_over_budget` up to its
decision and `Classified` the match of `turn_io`. `ReceiveShutdown`, `Redial`,
`Reload`, `SendAgain` and `ReloadFails` are `after_shutdown`,
`resume_after_shutdown` and `reload_session`. `Cancel` drops the future of a
call at any of its awaits. `RawTurn` is `turn_raw`, for a checkout that a relay
drives with the requests of its own client and no typed call: the reply goes
through the same budget and abort, but is forwarded as it is (`Rejects`,
`RawAdvances`), a `Shutdown` ends the session and nothing is resumed.

A suspension is its kind, the key `PendingKey` compares, and a `serial` that no
other suspension of the session has, by which properties can tell two that the
code cannot. The key of a call is its id, which is never used again; that of a
lookup, or of a wait for futures, is one of the constant `Names`, so that a program
may look the same name up twice. Time is left out: a deadline may expire whenever a turn is being
awaited, and a system sleep costs one unit of `MaxSleep`. Also left out:
payloads, telemetry, the duration budgets. A write to
the stream succeeds while the worker lives and its death is noticed by the read.
The relay is external and is modelled by what the checkout expects of it: it
names sessions, and when it drains it drops the request at hand and names the
session as the worker last had it.

### Heap

State: the arena slot by slot (`data`, `refcount`, `readers`, `color`, `key`), the
free list, the weak index, the collector's counters, and the references the
interpreter owns (`root`). The interpreter is reduced to the operations it
performs on the heap. `dec_ref`, `mark_gray`, `scan`, `mark_black` and
`collect_white` take one step per iteration of their loops, with the explicit work
stacks of the code in variables; the interpreter waits meanwhile (`pc`). `Restore`
is loading a snapshot, which rebuilds the free list and the weak index.

`ObjectGraph` has none of this: objects exist, hold references, and a set of them
may disappear in one step if nothing outside the set refers into it. The
refinement mapping drops counts and colours and takes what the collector has
condemned as gone from the moment `scan` ends, although `collect_white` frees it
entry by entry.

Left out: the contents of objects other than their references, byte accounting,
page layout. An object is a container (tracked by the collector) or an exception
(not tracked, see `heap_exceptions`).

### OverlayFs

State: the real directory (`real`, never changed), `OverlayState::entries` and
`memory_usage`, `MountContext::write_bytes_used`, and the request being served.
One action per request: `WriteBytes`, `AppendBytes`, `OpenAppend`,
`CreateExclusive`, `Mkdir`, `Unlink`, `Rmdir`, `Rename`; a rename computes the
entries it moves and the tombstones it leaves in one list, as the code does.
The memory total is kept in five ways, each a definition of its own: `Inserted`
and `InsertedAll` subtract the old entry and add the new one, `Removed` only
subtracts, `Appended` adds the growth of a file in place (`append_file`), a
rename removes its sources and then inserts without a test (`Renamed`), on the
strength of an earlier forecast from remembered costs (`ReplacementsUsage`, which
is `check_replacements`), and a single write is admitted by
`FileReplacementUsage`. `MemoryExact` compares all of them with the sum over the
entries, and the forecast with what the rename comes to. A write tests the write
limit before anything else.
Reads (`Lookup`, `IterDir`) are operators, used by the properties. `FileTree` is a
plain tree served by the same requests; each is served, is refused, or does not
fit a limit, and in the last two cases changes nothing.

Left out: times, permissions, text encoding, the option of having no limit. Links
of the real directory lead to something inside the mount. The host does not change
the directory meanwhile. The memory the plan of a directory rename takes while it
is built is a refusal that may or may not happen. One difference from POSIX is
part of the specification, as `OverlayFs` shows it to be the code's: a directory
renamed onto itself is refused unless it is empty, where POSIX does nothing.

### JsWorkerPool

State: the fields of the class (`idle`, `waiters`, `configuring`, `retiring`,
`total`, `closed`), the workers that run, and where each caller's `checkout`
stands. An action is what runs between two awaits. Continuations that are ready
together may run in any order, which allows more than JavaScript's microtask
queue does. `Close` collects what `close()` awaits in `awaited`. A worker whose
spawn has left `spawning` and not yet entered `configuring` is in neither list
`close()` reads: `close()` does not await it, and the `closed` test after
`acquire` discards it (`ClosedReaps` includes it).

Left out: `create()` whose prewarming fails, pools without `maxCheckouts`, the
worker's own protocol.

### ControlFlow

A compilation is a record (code, exception table, operand depth, the stack of
`FBlock`s); a `compile_` function of the compiler is the list of steps it makes,
`Emit`, `Label`, `Patch`, `Interrupt`, `Entries` are the builder's and `Region`'s
methods. `Compile` runs the steps. The VM then runs the code: `Eventful` is any
instruction that may do something visible (a call, `next`, `__enter__`,
`__exit__`, a match of exception types) and returns or raises as it likes;
`MovesOperands`, `Jumps`, `Reraises`, `Returns`, ... are the others; `Raise` is
`handle_exception_step` with the table lookup. `PythonControl` steps through the
source statement by statement with a stack of what is still to do. Both run side
by side, and the properties compare them.

Left out: expressions (one `Call` may do anything, one `Load` nothing), the size of
instructions and the limits of their operands, truth tests that fail, `raise` with
an operand (a call that fails), generators, comprehensions and `match`. Also left
out are the errors no handler may catch (`UncatchableExc`: resource limits and
aborts; `Internal`), which `handle_exception_step` carries past every handler and
which run no `finally`; and
the binding of a `with` or `for` target, a store that here always succeeds. A called
function is not entered: it returns, or its exception arrives, at the instruction
or at the place where the caller would resume.

## 3. Runs

Every system here may stop (a host stops calling, a program ends), so
`CHECK_DEADLOCK` is off everywhere; a system that stops too early is what the
liveness properties and `NoStall` are for.

| Run | Shows | Bounds |
|---|---|---|
| `pool_local` | The slot count is exact, the floor is never forgotten, no wakeup is lost and `retry_at` stands for one sleeping retry, with racing refills, crashes, cancellation, timeouts, close and drop | 3 clients, `min_processes` = `max_processes` = 2, both transports, recycling after 2 sessions, 2 runtime threads, one background release on each |
| `pool_live` | Blocked checkouts are served, the floor is restored, refills and retries of a closed pool come to an end for good, everything is reaped after the drop | 2 clients, `min_processes` = `max_processes` = 1, both transports, 1 runtime thread, no `checkout_timeout` |
| `async_sched` | The wake-up, gather, queue, value and frame invariants of the scheduler over every program with two coroutines, two calls and two gathers of up to two items each (nested, shared and repeated items included) | 2 coroutines, 2 calls, 2 gathers, one frame above the root |
| `async_live` | Every run ends if the host answers and bodies end | 2 coroutines, 1 call, 1 gather |
| `session` | Between calls the checkout offers only what the worker waits at, and loses a suspension in two named ways only; a call reads only its own replies; no honest reply is taken for a violation; answers meet the suspension they were given for, or one with the same key; what runs again is bounded; limits, mounts and the state of a released worker are right; every turn ends | five setups, below; limits of 2 suspensions and 1 sleep; 4 dumps; 2 names |
| `heap` | Counts, free list, weak index and candidates are exact and nothing dangles at every step of `dec_ref` and of a collection; a collection leaves no garbage; the heap implements `ObjectGraph` | 3 slots, 2 references per object, 3 references, readers and names at once (`MaxLinks`), 2 roots (symmetric), 1 reader, 1 host class, a collection due at every allocation |
| `overlay` | The overlay implements `FileTree`; listing and lookup agree; the memory total is exact | 7 paths of up to 3 names, 3 real directories, 21 units of memory, 2 of writes |
| `js_pool` | Capacity is exact, no waiter is stranded, a closed pool reaps its workers | 3 callers, 2 workers, 1 prewarmed, recycled after 2 checkouts |
| `control_flow` | Compiled code does what the source says, at the operand depths the compiler counted | 6,208 programs |

The setups of `session`: a local worker in CPU mode with type checking (4 calls of
the host, 3 suspensions); one behind a relay that may shut down at any request (3
and 4); one behind a relay that says anything at any time, with looser limits (2
calls); a local worker driven by raw turns (4 and 3); and the untrusted one driven
by raw turns (2 calls). In every setup hosts restore in mid-feed, and in the
trusted ones they send values the worker's decoder rejects. What concerns agreement
is claimed of workers that run `worker.rs`: replies carry no request id, so a
worker that answers twice can have its second answer read as the reply to the
next call. `LimitsHold` and `TurnEnds` are claimed of all.

Why these bounds are enough to be interesting: three clients on two processes
make every conflict over a slot (one blocks, one releases, a refill comes
between), and two slots let one refill fail while another is under way; two gathers allow nesting, a child shared by two gathers, a
repeated child, a commit that fails after it spawned a child, and a gather that
fails while its other child runs on; two calls can be answered in both orders, in
one batch or in two. A session of three or four calls that may suspend three
or four times can feed, be suspended, be refused, dumped, aborted or shut down,
and be answered after it; the limits are reached and passed; the dumps a host
restores cover an idle session, both kinds of suspended ones (one answerable
eagerly, one with limits tighter than the configured) and a completed one. Three
objects make rings of one, two and three, a ring with a tail, a ring held from
outside by a root or a reader, and two rings that meet in an object; slots are
reused. In the overlay 21 units are what renaming a real directory with
a directory and a file in it costs, so that the limit is also hit; the three
directories hold every kind of node. Three callers on two workers leave one
waiting when a spawn fails. The programs of `control_flow` are a loop with two
constructs nested in it in every combination of `for`, `while`, `with`,
`try`/`except`/`else`, `try`/`finally` and all three, the inner in the body, a
handler or the `finally` of the outer, with a call, `break`, `continue`, `return`
or `raise` at the end, and the same beside both or calls beside one; and with
three constructs nested, returns beside them and any exit at the end.

`SidesAgree` names the two ways in which a suspension the worker holds is lost to
the host: a `restore` sent in mid-feed (`forfeit` is `"load"`) and a request the
worker could not decode (`"frame"`). The notes below quote what the source says of
them. `AnswersOwnSuspension` and `ResendIsBounded` are what holds in place of the
sentence `session_resend` refutes: only the answer of a lookup or of futures is
ever run again, once, and at a suspension with its own key.

Fairness. `pool_live`: the runtime keeps polling tasks that can make progress
(weak fairness of every step of an acquisition, a release and the background
tasks), sessions end, and a spawn that is tried again and again succeeds in the
end (strong fairness of `RefillOk`). A retry whose time has come, and the release
of a worker that was reaped or whose stream ended, need a runtime thread. They
wait for it in the runtime's run queue, which serves tasks in turn, so a task is
not passed over for ever while threads come free (strong fairness of `RetryFires`,
`Reaped` and `StreamEnded`). Nothing makes a host start a checkout, cancel, close
or drop. `BlockedServed` and `FloorRestored` are stated for runs in which new
checkouts stop arriving, as a stream of new ones may overtake a blocked one for
ever. `async_live`: the interpreter takes its next step, the host answers
every call and resumes, and the program's bodies end. That is an assumption on
the program and the host, not on the scheduler. `session`: a turn's deadline
expires in the end and dialling a relay succeeds or fails in the end; nothing is
assumed of the worker, the relay or the host. It is the case of a pool with a
`request_timeout`, which is `None` by default: without one a worker that never
answers blocks its turn for ever. `TurnEnds` says nothing of the blocking mount
task, which the code gives no deadline. `js_pool`: the event loop runs what is
ready, a factory and a `Configure` settle (an abort makes the factory reject), and
a terminated worker ends; nothing makes a caller check out, release or close.

Runs that refute a sentence of the source:

| Run | Sentence | What happens |
|---|---|---|
| `async_parked` | `vm/mod.rs:89` "Yields when an unhandled task exception leaves `cleanup_current_task`'s parked frame with no successor. Dispatch must not execute that frame." | See below |
| `heap_exceptions` | `modules/gc.rs:73` "every unreachable entry is reclaimed (Monty has no equivalent of CPython's `gc.garbage` for objects with finalizers, so nothing survives the sweep)" | An exception owns its `__cause__` and `__context__` but `is_gc_tracked` leaves it out; one that is its own cause (`raise e from e`), or a ring of them, never becomes a candidate and no collection frees it |
| `session_resend` | `checkout.rs:1617` "re-sends `request`, which the relay reported it did not run", and `checkout.rs:2150` of `Shutdown`: "dropped this request unexecuted" | The answer of a lookup runs to a second lookup of the same name, which is over the suspension limit; the relay answers the `AbortFeed` sent in its name with `Shutdown`. The keys agree, and the old answer is sent and run again, as the answer to the new lookup |

Sentences that do not hold in the model as they stand, each with a small
consequence and no run of its own:

- `pool.rs:50` "Signalled whenever a worker returns to the idle queue or capacity
  is released, waking blocked `checkout` calls." The one notification may go to a
  checkout that found a slot on its own and is spawning while it holds its
  `Notified`; a blocked checkout waits beside free capacity until that spawn ends.
  `NoLostWakeup` is what does hold.
- `pool.rs:523` "a closed pool will not refill again, so it must not arm a retry".
  `closed` is read in one critical section and the retry armed in the next, so a
  close in between leaves a retry armed. It does nothing when it fires
  (`ClosedQuiesces`).
- `pool.rs:34` "merely dropping the pool kills them instead". A session keeps
  `PoolInner` alive, and the idle workers with it; `DropReapsAll` is what holds.
- `lib.rs:211` "The worker and its session remain alive and usable", of
  `PoolError::Runtime`. `restore` clears `pending` before it sends, so a restore
  refused mid-feed leaves a suspension that cannot be answered.
- `monty.proto:865` "Parents must preserve an outstanding suspension when unknown."
  The reply to a frame the worker cannot decode has no `feed_suspended`; `turn_io`
  clears `pending` unless it is `Some(true)`, and the worker's suspension can no
  longer be answered.
- `checkout.rs:965` "so once the request reached it every reply means it took
  effect". A first feed whose inputs do not convert, or whose source is nested too
  deeply, is refused before `set_cwd`; `cwd_set` is set and later feeds send no
  directory.

`async_parked`: a gather's commit fails after it spawned a child task; the main
task catches the error, awaits that child's coroutine directly, and the coroutine
awaits a call. Now only the spawned task is ready, and its coroutine is no longer
`New`: `load_or_init_task` calls `handle_task_failure`, which removes the task,
finds no successor and drops that answer (`async_exec.rs:482`). The caller,
`switch_or_yield`, returns `FramePushed`, and dispatch executes the parked frame:
the module's code from its first instruction, with no current task. The two other
callers outside exception handling (`handle_task_completion` and
`resume_with_resolved_futures`) do the same.

## 4. Theorems

### The pool

`WorkerPool_proofs` proves, for every number of clients and every pool size that
`Pool::new` accepts, and for both transports: `PoolTypeOK`, `PoolSlotsExact`,
`PoolOneRetry`, `PoolFloorKept`, `PoolNoLostWakeup`. Assumptions:
`SizeAssumption` (what `Pool::new` checks), `ClientsFinite`, `RecycleAssumption`.

The inductive invariant is `IInv == TypeOK /\ HandlesOK /\ SlotAccounting`.
`SlotAccounting` alone is not inductive: after the last `Arc` is gone `total` no
longer means anything, so the induction has to know that nobody is inside the
pool by then (`HandlesOK`), and the bound `total <= max_processes` in `TypeOK` is
what makes the reservations of `acquire_worker_inner` and `replenish` safe. Each
action changes the number of owners by at most one client (`OwnersStep`) and the
slots in background hands by at most one counter (`CountStep`), except `Replenish`
and `Close`, which move several at once. `PoolFloorKept` follows each decrement
of `total` to the replenish that comes after it.

`NoLostWakeup` says that some notification is under way; one may be used up while
a second worker comes free, so what carries it has to count. `WakeInv` says that
while a checkout is parked there are at least as many notifications under way and
clients about to look as there are workers and slots to be had. `NotifyOK` is the
shape of the `Notify`: a client's `Notified` is queued, notified or ready, and
exists exactly while its checkout is in the loop.

### The JavaScript pool

`JsWorkerPool_proofs` proves `CapacityIsExact` and `NoneIsStranded` for any number
of callers and workers and every size `create` accepts (`SizesAssumption`,
`NamesAssumption`). The inductive invariant adds to the count where every running
worker is: idle, being configured, retiring, or with the one call it was given
(`Pooled`, `Owned`), by the await the call stands at (`SlotPlace`); `close` and a
discard move slots under a call's feet, and without it nothing says that a slot is
given back once.

### The scheduler

All eight invariants and action properties of `async_sched` are theorems, for any
number of coroutines, calls and gathers, gathers of any length and nesting, and
every recursion limit. Assumptions: `ItemsAssumption` (a gather is over awaitables
that exist before it) and `KindsAssumption` (a coroutine is not a call, and so on).
The inductive invariant comes in layers, each preserved given those before it:

| Layer | Says | Gives |
|---|---|---|
| `Sched` (`AsyncScheduler_proofs`) | what the thread is doing agrees with the queue: a task whose bytecode runs is loaded, ready and not queued; every other runnable task is queued once; a task that was woken by an exit is in the queue until it is selected | `SchedulerTypes`, `QueueIsSound` |
| `Walk` (`AsyncAwait_proofs`) | the frames of `commit_gather_tree` are nested, each over an older gather, and account for the items behind them; so do the slots of a gather after the walk | `SlotsAreAccounted`, `GathersSettleOnce` |
| `Wake` (`AsyncAwait_proofs`) | who reports to whom: awaiters of calls and gathers, the delivery under way, and the children promised to gathers the walk still has open | `TasksHaveOneWakeSource`, `GathersTrackTheirChildren` |
| `ValueInv` (`AsyncProgress_proofs`) | the values on the loaded and the saved stacks, also while a value is being delivered | `AwaitsGetTheirValue` |
| `FramesInv` (`AsyncProgress_proofs`) | a coroutine is on one frame, and the module's frame is below the main task's others | `BodiesRunOnce` |
| `OrderInv` (`AsyncProgress_proofs`) | nobody waits in a circle | `SchedulerNeverStalls` |

`OrderInv` is what makes the last one provable. The scheduler stalls when tasks
wait, none is ready and no call is pending; then every waiting task or gather
waits for another that waits, a set without a way out. The invariant forbids such
sets: no non-empty set of waiting tasks and gathers has each member waiting for a
member. It is stated with sets, as the reachability of the heap is, and needs no
chain and no induction. A step could close a circle only where it adds an edge. A
task that blocks on a call or on a gather is running, so nothing that waits can be
ahead of it on the way; a gather whose commit ends is awaited by the walk, and its
children are calls, tasks that did not run yet and gathers of the same walk. That
is the second conjunct: a set `R` of gathers, awaited by this walk, that is closed
in this sense (`Fresh`).

### The heap

The heap's theorems hold for every arena size, every object graph and every number
of roots, readers and host classes: `HeapCountsExact`, `HeapNoDangling`,
`HeapFreeListExact`, `HeapWeakIndexExact` and `HeapImplementsGraph`, the refinement
of `ObjectGraph`. Assumptions: `SizeAssumption`, `RootsFinite`, `KindAssumption`,
`NilAssumption`.

Their inductive invariant is `HeapInv`. Between operations the four properties
would carry themselves; inside a collection they do not. `CountsExact` says that
a count is the number of references less those `mark_gray` has taken off and
`mark_black` has not given back (`TakenOff`), which follows the two loops only if
an entry is on a work stack once and not while its edges are being visited
(`StacksOK`) and each phase meets the colours it expects (`ColorsOK`).
`NoDangling` through `collect_white` needs to know that all condemned entries are
reached by it: otherwise one would survive with edges to freed slots. That is
`ReachOK`: whatever is gray is reached from the seeds through gray entries,
whatever is white from the seeds through white ones or through what `mark_black`
still has to visit. Reachability is written without paths: S is reached from a
base if every set that contains the base and is closed under the edges contains S
(`Reached`), so that a step is proved by exhibiting the right closed set and no
induction over paths is needed. `HeapInv` has one preservation lemma per action:
`Heap_proofs` has the lemmas on sums and sequences, the interpreter's actions and
`dec_ref`; `HeapCollector_proofs` the loops of the collector, the theorems and the
refinement. In the refinement a step of `dec_ref` that frees an entry is `Reclaim`
of that entry, and every step of the collector is a stutter but
`StartCollectWhite`: that one is `Reclaim` of the white entries, and `ColorsOK`
with `CountsExact` says nothing outside refers to them.

### Checked by TLC only

- All liveness (`BlockedServed`, `FloorRestored`, `DropReapsAll`, `ClosedQuiesces`,
  `RunEnds`, `TurnEnds`, `ClosedReaps`): fairness is out of the prover's reach.
- `GarbageFindable` and `NothingSurvives`, that garbage is found, as opposed to
  nothing else being freed.
- Everything about the session protocol, the overlay and its refinement of
  `FileTree`.
- Control flow: `Steps` compiles a program by recursion on it, and what a recursive
  definition computes for every program cannot be proved here. Where the proofs
  above need an induction on numbers it is an argument on the least element of a
  set (`LeastNumber`, `SetInduction` in `SequenceFacts`), from the library's theorem
  that `<` on the natural numbers is well-founded.

## 5. Not modelled, and why

The models cover the parts of Monty in which state outlives a call and the order
of steps matters. By lines they are a small share of the repository: most of it is
a Python in Rust (parser, built-in types and modules, formatting, conversions), its
tests and its bindings, sequential code whose difficulty is size.

- Resource tracker: counters and clocks compared with limits, each in one
  sequential step; the value a clock returns would be a free choice. The parent's
  side of the limits is in `SessionProtocol`.
- Remote transport: what the pool and the checkout see of a stream is modelled;
  framing, admission and the TLS and WebSocket layers are I/O.
- REPL and snapshots: the suspension and what a resume may answer are in
  `AsyncScheduler` and `SessionProtocol`; the snapshot format is a conversion.
- File system: direct mounts hand requests to the host's file system; path
  resolution and the mount table are pure functions of strings; a walk that
  returns many entries is a read.
- Bytecode: opcodes that compute values; generators, comprehensions, `match` and
  expressions of the compiler; optimisations of single instructions.
- Duration limits and the CPU monitor of a checkout: a deadline that may expire at
  any await stands for both.
- Type checker (external), language bindings, CLI, WASM runtime, telemetry: glue
  around the parts above.
