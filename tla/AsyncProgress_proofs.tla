----------------------- MODULE AsyncProgress_proofs -----------------------
(***************************************************************************)
(* What a resumed task finds on its stack (AwaitValue), that a coroutine   *)
(* body runs on one frame (RunsOnce), and that the scheduler never stalls  *)
(* (NoStall), for every program, host and number of tasks.                 *)
(***************************************************************************)
EXTENDS AsyncAwait_proofs

(* A leaf that names no prover is for Zenon.                               *)
USE ZenonT(60)

(* Library theorems that no proof here cites.                              *)
HIDE DEF AppendInjective, AppendIsConcat, ConcatAdjacentSubSeq,
         ConcatAssociative, ConcatEmptySeq, ConcatEqualIffEmpty,
         ConcatProperties, ConcatSimplifications, DownwardNatInduction,
         ElementOfSeq, EmptyIsWellFounded, ExceptSeq, FS_AddElement,
         FS_Bijection, FS_BoundedSetOfNaturals, FS_CardinalityType,
         FS_CountingElements, FS_Difference, FS_FiniteSubsetsOfFinite,
         FS_Image, FS_Induction, FS_Injection, FS_Intersection, FS_Interval,
         FS_MajoritiesIntersect, FS_NatBijection, FS_NatSurjection,
         FS_PigeonHole, FS_Product, FS_RemoveElement, FS_SUBSET,
         FS_SameCardinalityBij, FS_StrictSubsetOrderingWellFounded,
         FS_Subset, FS_SurjCardinalityBound,
         FS_SurjSameCardinalityImpliesInj, FS_Surjection, FS_UNION, FS_Union,
         FS_WFInduction, FiniteNatInductiveDef, FiniteNatInductiveDefType,
         FiniteNatInductiveUnique, GeneralNatInduction, HeadTailAppend,
         HeadTailOfSubSeq, HeadTailProperties, IsASeq,
         IsWellFoundedOnSubrelation, IsWellFoundedOnSubset, MinWF,
         NatInduction, NatInductiveDef, NatInductiveDefType,
         NatInductiveUnique, NatLessThanWellFounded, PreImageWellFounded,
         RTCTC, RangeConcatenation, RangeEquality, RangeOfSeq,
         RecursiveFcnOfNat, RecursiveFcnOfNatType, RecursiveFcnOfNatUnique,
         SeqDef, SeqEqual, SeqMonotonic, SeqOfRange, SequenceEmptyOrAppend,
         SequencesInductionAppend, SequencesInductionTail, SetLessTransitive,
         SmallestNatural, SubSeqEmpty, SubSeqFull, SubSeqOfConcat1,
         SubSeqOfConcat2, SubSeqOfSubSeq, SubSeqRecursiveFirst,
         SubSeqRecursiveSecond, SubSeqRestrict, TCRTC, TCTCTC, TailIsSubSeq,
         TransitiveClosureChopLast, TransitiveClosureMinimal,
         TransitiveClosureThm, TransitiveClosureWF, WFDefOnUnique,
         WFInduction, WFInductiveDef, WFInductiveDefLemma,
         WFInductiveDefType, WFLexPairOrdering, WFLexProductOrdering, WFMin,
         WFSetLessThanIrreflexive, WellFoundedIsAsymmetric,
         WellFoundedIsIrreflexive

(* The values on the stacks: a task that can go on past its await has the  *)
(* value on its stack, saved or loaded, and no other task has any.         *)
Expected(t) == IF state[t] = "ready" /\ on[t] # None THEN <<on[t]>> ELSE <<>>
Computing == ctl.mode \in {"run", "commit"} /\ ~is_parked

ValueInv ==
    /\ ctl.mode = "commit" => on[current_task] = None
    /\ Computing => vmStack = Expected(current_task)
    /\ \A t \in Tasks :
         /\ t # current_task => stack[t] = Expected(t)
         /\ t = current_task => stack[t] = <<>>
         /\ t = current_task /\ Quiet => vmStack = Expected(t)

(* The frames of the tasks: the loaded ones, and those of each task.  A    *)
(* coroutine's body is on one frame, the module's frame is below all       *)
(* others of the main task.                                                *)
Places == Tasks \cup {None}
Held(u) == IF u = None THEN vmFrames ELSE frames[u]
OneFrame(c) ==
    \A u, v \in Places : \A i \in DOMAIN Held(u), j \in DOMAIN Held(v) :
        Held(u)[i] = c /\ Held(v)[j] = c => u = v /\ i = j
NoFrame(c) == \A u \in Places : \A i \in DOMAIN Held(u) : Held(u)[i] # c
Based(s) == s # <<>> /\ s[1] = Main

FramesInv ==
    /\ \A c \in Coros : OneFrame(c) /\ (coro[c] = "New" => NoFrame(c))
    /\ current_task \in Tasks => frames[current_task] = <<>>
    /\ current_task = Main => Based(vmFrames)
    /\ current_task # Main => Based(frames[Main])

(* Waiting is not circular.  In a walk, the gathers it awaited wait for    *)
(* each other, for calls and for tasks that did not run.                   *)
Waiting == {t \in Tasks : state[t] = "blocked"} \cup {g \in Gathers : gather[g] = "Awaited"}
WaitsFor(n, m) ==
    \/ n \in Tasks /\ on[n] = m
    \/ n \in Gathers /\ AwaitsChild(n, m)
Circle(S) == S # {} /\ \A n \in S : \E m \in S : WaitsFor(n, m)
Fresh(R) == \A y \in Awaitables : \A g \in Gathers :
    (g \in R /\ AwaitsChild(g, y)) \/ Promised(y, g) => y \in Exts \cup Queued \cup R

OrderInv ==
    /\ \A S \in SUBSET Waiting : ~Circle(S)
    /\ \E R \in SUBSET Gathers : Fresh(R) /\ \A g \in R : gather[g] = "Awaited"
    /\ ctl.mode # "stalled"

-----------------------------------------------------------------------------
(* The stacks                                                              *)

LEMMA ValueKept ==
    ASSUME TypeOK, ValueInv, UNCHANGED <<stack, vmStack, current_task>>,
           \A t \in Tasks : Expected(t)' = Expected(t),
           Computing' => Computing \/ (Quiet /\ current_task \in Tasks), Quiet' => Quiet \/ Computing,
           Computing' => current_task \in Tasks,
           ctl'.mode = "commit" => on'[current_task] = None
    PROVE  ValueInv'
<1>1. Computing' => vmStack = Expected(current_task)'
  BY DEF ValueInv
<1>2. ASSUME NEW t \in Tasks
      PROVE  /\ t # current_task => stack[t] = Expected(t)'
             /\ t = current_task => stack[t] = <<>>
             /\ t = current_task /\ Quiet' => vmStack = Expected(t)'
  BY DEF ValueInv
<1> QED BY <1>1, <1>2 DEF ValueInv

LEMMA ValueBytecode ==
    ASSUME TypeOK, Sched, ValueInv, NEW t \in Tasks, Bytecode(t)
    PROVE  ValueInv'
<1> USE DEF schedVars, taskVars, vmVars
<1>1. /\ ctl.mode = "run" /\ ~is_parked /\ current_task = t /\ Computing
      /\ UNCHANGED <<current_task, stack, is_parked>>
  BY DEF Bytecode, ValueArrives, FrameReturns, Raises, CallFuture, CallEager, AwaitExternal,
         AwaitCoroutine, AwaitGather, Executing, Computing
<1>2. state[t] = "ready" /\ vmStack = Expected(t)
  BY <1>1 DEF Running, Sched, ThreadInv, ValueInv
<1>3. Go("raise").mode = "raise" /\ Go("commit").mode = "commit" /\ Select("yield").mode = "select"
  BY ControlFacts DEF Modes
<1>4. CASE ValueArrives(t)
  <2>1. /\ UNCHANGED <<state, ctl>> /\ on[t] # None /\ vmStack' = Front(vmStack)
        /\ on'[t] = None /\ \A u \in Tasks \ {t} : on'[u] = on[u]
    BY <1>4 DEF ValueArrives, TypeOK
  <2>2. vmStack' = <<>>
    <3>1. vmStack = <<on[t]>>
      BY <1>2, <2>1 DEF Expected
    <3>2. Front(<<on[t]>>) = <<>>
      BY SMTT(30) DEF Front
    <3> QED BY <2>1, <3>1, <3>2
  <2>3. Expected(t)' = <<>> /\ \A u \in Tasks \ {t} : Expected(u)' = Expected(u)
    BY <2>1 DEF Expected
  <2>4. ~Quiet'
    BY <1>1, <2>1 DEF Quiet
  <2>5. ctl'.mode = "run"
    BY <1>1, <2>1
  <2> QED BY <1>1, <2>2, <2>3, <2>4, <2>5 DEF ValueInv
<1>5. ASSUME NEW e \in Exts, AwaitExternal(t, e), state' # state
      PROVE  ValueInv'
  <2>1. /\ on[t] = None /\ state'[t] = "blocked" /\ ctl'.mode = "select" /\ vmStack' = vmStack
        /\ \A u \in Tasks \ {t} : on'[u] = on[u] /\ state'[u] = state[u]
    BY <1>3, <1>5 DEF AwaitExternal, BlockCurrentOn, Executing, TypeOK
  <2>2. vmStack' = <<>> /\ Expected(t)' = <<>> /\ \A u \in Tasks \ {t} : Expected(u)' = Expected(u)
    BY <1>2, <2>1 DEF Expected
  <2> QED BY <1>1, <2>1, <2>2 DEF ValueInv, Computing
<1>6. CASE ~ValueArrives(t) /\ \A e \in Exts : AwaitExternal(t, e) => state' = state
  <2>1. UNCHANGED <<state, on, vmStack>> /\ ctl' \in {ctl, Go("raise"), Go("commit")} /\ on[t] = None
    <3>1. \/ FrameReturns(t) \/ Raises(t)
          \/ \E e \in Exts : CallFuture(t, e) \/ CallEager(t, e)
          \/ \E e \in Exts : AwaitExternal(t, e) /\ state' = state
          \/ \E c \in Coros : AwaitCoroutine(t, c)
          \/ \E g \in Gathers : AwaitGather(t, g)
      BY <1>6 DEF Bytecode
    <3>2. ASSUME NEW e \in Exts, AwaitExternal(t, e), state' = state
          PROVE  UNCHANGED <<on, vmStack>> /\ ctl' \in {ctl, Go("raise")}
      <4>1. state # [state EXCEPT ![t] = "blocked"]
        BY <1>2 DEF TypeOK
      <4> QED BY <3>2, <4>1 DEF AwaitExternal, BlockCurrentOn
    <3>3. on[t] = None
      BY <3>1 DEF FrameReturns, Raises, CallFuture, CallEager, AwaitExternal, AwaitCoroutine,
                  AwaitGather, Executing
    <3> QED BY <3>1, <3>2, <3>3 DEF FrameReturns, Raises, CallFuture, CallEager, AwaitCoroutine,
                AwaitGather
  <2>2. \A u \in Tasks : Expected(u)' = Expected(u)
    BY <2>1 DEF Expected
  <2>3. ctl'.mode \in {"run", "raise", "commit"}
    BY <1>1, <1>3, <2>1
  <2>4. ~Quiet'
    BY <2>3 DEF Quiet
  <2> QED BY <1>1, <2>1, <2>2, <2>4, ValueKept
<1> QED BY <1>4, <1>5, <1>6

LEMMA ValueCommit ==
    ASSUME TypeOK, Sched, ValueInv, Commit
    PROVE  ValueInv'
<1> USE DEF schedVars, taskVars, vmVars
<1>1. /\ ctl.mode = "commit" /\ UNCHANGED <<current_task, stack, vmStack, is_parked>>
  BY DEF Commit, CommitDuplicate, CommitCoroutine, CommitExternal, CommitNested, CommitSettles,
         FirstSeen, Committing
<1>2. PICK t \in Tasks : t = current_task /\ state[t] = "ready" /\ on[t] = None /\ Computing
  BY <1>1 DEF Running, Sched, ThreadInv, ValueInv, Computing
<1>3. /\ Go("raise").mode = "raise" /\ Go("run").mode = "run" /\ Select("yield").mode = "select"
  BY ControlFacts DEF Modes
<1>4. CASE UNCHANGED <<state, on>> /\ ctl' \in {ctl, Go("raise"), Go("run")}
  <2>1. \A u \in Tasks : Expected(u)' = Expected(u)
    BY <1>4 DEF Expected
  <2>2. ctl'.mode \in {"commit", "raise", "run"}
    BY <1>1, <1>3, <1>4
  <2>3. ~Quiet'
    BY <2>2 DEF Quiet
  <2> QED BY <1>1, <1>2, <1>4, <2>1, <2>3, ValueKept
<1>5. ASSUME NEW c \in Coros, state[c] \in {"none", "gone"}, NEW g, Spawn(c, g), UNCHANGED <<on, ctl>>
      PROVE  ValueInv'
  <2>1. c \in Tasks /\ on[c] = None /\ \A u \in Tasks \ {c} : state'[u] = state[u]
    BY <1>5, NoneFacts DEF Spawn, TypeOK, Sched, TaskInv
  <2>2. \A u \in Tasks : Expected(u)' = Expected(u)
    BY <1>5, <2>1 DEF Expected
  <2>3. ~Quiet'
    BY <1>1, <1>5 DEF Quiet
  <2> QED BY <1>1, <1>2, <1>5, <2>2, <2>3, ValueKept
<1>6. ASSUME NEW g \in Gathers, BlockCurrentOn(current_task, g), ctl' = Select("yield")
      PROVE  ValueInv'
  <2>1. /\ state'[t] = "blocked" /\ ctl'.mode = "select"
        /\ \A u \in Tasks \ {t} : on'[u] = on[u] /\ state'[u] = state[u]
    BY <1>2, <1>3, <1>6 DEF BlockCurrentOn, TypeOK
  <2>2. vmStack = <<>> /\ Expected(t)' = <<>> /\ \A u \in Tasks \ {t} : Expected(u)' = Expected(u)
    BY <1>2, <2>1 DEF Expected, ValueInv
  <2> QED BY <1>1, <1>2, <2>1, <2>2 DEF ValueInv, Computing
<1>7. \/ UNCHANGED <<state, on>> /\ ctl' \in {ctl, Go("raise"), Go("run")}
      \/ \E c \in Coros : /\ state[c] \in {"none", "gone"} /\ UNCHANGED <<on, ctl>>
                          /\ \E g : Spawn(c, g)
      \/ \E g \in Gathers : BlockCurrentOn(current_task, g) /\ ctl' = Select("yield")
  BY DEF Commit, CommitDuplicate, CommitCoroutine, CommitExternal, CommitNested,
         CommitSettles, UnwindGatherCommits
<1> QED BY <1>4, <1>5, <1>6, <1>7

(* The value goes to the stack the blocked task will find it on.           *)
LEMMA ValueDelivery ==
    ASSUME TypeOK, Sched, Wake, ValueInv, Delivery
    PROVE  ValueInv'
<1> USE DEF schedVars, taskVars, vmVars
<1>1. /\ ctl.mode = "deliver" /\ UNCHANGED <<current_task, is_parked, on>>
  BY DEF Delivery, DeliverToTask, ResolveChild, FailGather, Delivering
<1>2. ctl.after \in {"exit", "host"} /\ (Quiet \/ Leaving)
  BY <1>1 DEF Sched, ThreadInv, Quiet, Leaving
<1>3. ASSUME NEW x \in Tasks \cup {None}, DeliveryEnds(x)
      PROVE  ~Computing' /\ (Quiet' => Quiet)
  <2>1. ctl'.mode = ctl.after /\ ctl'.after = ctl.after
    BY <1>1, <1>3, DeliveryFacts
  <2> QED BY <1>1, <1>2, <2>1 DEF Computing, Quiet
<1>4. ASSUME NEW t \in Tasks, DeliverToTask(t)
      PROVE  ValueInv'
  <2>1. state[t] = "blocked" /\ on[t] # None /\ ctl.value \in {None, on[t]}
    BY <1>1, <1>4 DEF DeliverToTask, Delivering, Wake, WakeInv, WakeOK, Delivered, Sched, TaskInv
  <2>2. ~Computing' /\ (Quiet' => Quiet)
    BY <1>3, <1>4 DEF DeliverToTask
  <2>3. \A u \in Tasks \ {t} : state'[u] = state[u] /\ Expected(u)' = Expected(u)
    BY <1>1, <1>4 DEF DeliverToTask, MakeReady, Expected, TypeOK
  <2>4. ctl'.mode # "commit"
    <3>1. ctl'.mode = ctl.after
      BY <1>1, <1>4, <2>1, DeliveryFacts DEF DeliverToTask
    <3> QED BY <1>2, <3>1
  <2>5. CASE ctl.value = None
    <3>1. UNCHANGED <<stack, vmStack>> /\ state'[t] = "raise"
      BY <1>4, <2>1, <2>5 DEF DeliverToTask, MakeReady, TypeOK
    <3>2. Expected(t)' = Expected(t)
      BY <2>1, <3>1 DEF Expected
    <3>3. \A u \in Tasks : Expected(u)' = Expected(u)
      BY <2>3, <3>2
    <3> QED BY <1>1, <2>2, <2>4, <3>1, <3>3, ValueKept
  <2>6. CASE ctl.value # None
    <3>1. state'[t] = "ready" /\ PushValue(t) /\ ctl.value = on[t]
      BY <1>4, <2>1, <2>6 DEF DeliverToTask, MakeReady, TypeOK
    <3>2. Expected(t) = <<>> /\ Expected(t)' = <<on[t]>>
      BY <1>1, <2>1, <3>1 DEF Expected
    <3>3. CASE current_task = t
      <4>1. Quiet
        BY <1>2, <2>1, <3>3, NoneFacts DEF Sched, ThreadInv
      <4>2. ~is_parked /\ vmStack = <<>> /\ stack[t] = <<>>
        BY <3>2, <3>3, <4>1, NoneFacts DEF Sched, ThreadInv, ValueInv
      <4>3. vmStack' = <<on[t]>> /\ stack' = stack
        BY SMTT(30), <3>1, <3>3, <4>2 DEF PushValue
      <4> QED BY <1>1, <2>2, <2>3, <2>4, <3>2, <3>3, <4>2, <4>3 DEF ValueInv
    <3>4. CASE current_task # t
      <4>1. stack[t] = <<>>
        BY <3>2, <3>4 DEF ValueInv
      <4>2. vmStack' = vmStack /\ stack' = [stack EXCEPT ![t] = Append(@, on[t])]
        BY <3>1, <3>4 DEF PushValue
      <4>3. stack'[t] = <<on[t]>> /\ \A u \in Tasks \ {t} : stack'[u] = stack[u]
        BY SMTT(30), <4>1, <4>2 DEF TypeOK
      <4> QED BY <1>1, <2>2, <2>3, <2>4, <3>2, <3>4, <4>2, <4>3 DEF ValueInv
    <3> QED BY <3>3, <3>4
  <2> QED BY <2>5, <2>6
<1>5. ASSUME NEW g \in Gathers, NEW x \in Awaitables, ResolveChild(g, x) \/ FailGather(g, x)
      PROVE  ValueInv'
  <2>1. UNCHANGED <<state, on, stack, vmStack, current_task>>
    BY <1>5 DEF ResolveChild, FailGather
  <2>2. \A u \in Tasks : Expected(u)' = Expected(u)
    BY <2>1 DEF Expected
  <2>3. \/ DeliveryEnds(None)
        \/ ctl'.mode = "deliver" /\ ctl'.after = ctl.after
    BY <1>1, <1>5 DEF ResolveChild, FailGather, TypeOK, Controls
  <2>4. ~Computing' /\ (Quiet' => Quiet) /\ ctl'.mode # "commit"
    <3>1. CASE DeliveryEnds(None)
      BY <1>1, <1>2, <1>3, <3>1, DeliveryFacts
    <3>2. CASE ctl'.mode = "deliver" /\ ctl'.after = ctl.after
      BY <1>1, <3>2 DEF Computing, Quiet
    <3> QED BY <2>3, <3>1, <3>2
  <2> QED BY <2>1, <2>2, <2>4, ValueKept
<1> QED BY <1>4, <1>5 DEF Delivery

LEMMA ValueExits ==
    ASSUME TypeOK, Sched, ValueInv, Exits
    PROVE  ValueInv'
<1> USE DEF schedVars, taskVars, vmVars
<1>1. /\ Go("done").mode = "done" /\ Go("run").mode = "run" /\ Go("select").mode = "select"
  BY ControlFacts DEF Modes
<1>2. CASE MainReturns \/ RunFails
  <2>1. UNCHANGED <<state, on, stack, vmStack, current_task>> /\ ctl'.mode = "done"
    BY <1>1, <1>2 DEF MainReturns, RunFails
  <2>2. \A u \in Tasks : Expected(u)' = Expected(u)
    BY <2>1 DEF Expected
  <2>3. ~Computing' /\ ~Quiet'
    BY <2>1 DEF Computing, Quiet
  <2> QED BY <2>1, <2>2, <2>3, ValueKept
<1>3. ASSUME NEW t \in Tasks, NEW k \in 1..(RecursionLimit + 1), Caught(t, k)
      PROVE  ValueInv'
  <2>1. /\ current_task = t /\ on'[t] = None /\ vmStack' = <<>> /\ ctl'.mode = "run"
        /\ UNCHANGED <<state, stack, current_task>>
        /\ \A u \in Tasks \ {t} : on'[u] = on[u]
    BY <1>1, <1>3 DEF Caught, TypeOK
  <2>2. Expected(t)' = <<>> /\ \A u \in Tasks \ {t} : Expected(u)' = Expected(u)
    BY <2>1 DEF Expected
  <2>3. ~Quiet'
    BY <2>1 DEF Quiet
  <2> QED BY <2>1, <2>2, <2>3 DEF ValueInv
<1>4. ASSUME NEW c \in Coros, TaskReturns(c)
      PROVE  ValueInv'
  <2>1. c \in Tasks /\ current_task = c
    BY <1>4, NoneFacts DEF TaskReturns, Executing
  <2>2. /\ UNCHANGED <<on, stack, vmStack>> /\ current_task' = None /\ state'[c] = "gone"
        /\ ctl'.mode = "deliver" /\ \A u \in Tasks \ {c} : state'[u] = state[u]
    BY <1>4, <2>1 DEF TaskReturns, TypeOK, Deliver
  <2>3. Expected(c)' = <<>> /\ \A u \in Tasks \ {c} : Expected(u)' = Expected(u)
    BY <2>2 DEF Expected
  <2>4. ~Computing' /\ stack[c] = <<>>
    BY <2>1, <2>2 DEF Computing, ValueInv
  <2> QED BY <2>1, <2>2, <2>3, <2>4, NoneFacts DEF ValueInv
<1>5. ASSUME NEW c \in Coros, TaskFails(c)
      PROVE  ValueInv'
  <2>1. UNCHANGED <<state, on, stack, vmStack, current_task>>
    BY <1>5 DEF TaskFails
  <2>2. ctl'.mode = "deliver" /\ ctl'.after = "exit"
    BY <1>5 DEF TaskFails, Deliver
  <2>3. \A u \in Tasks : Expected(u)' = Expected(u)
    BY <2>1 DEF Expected
  <2>4. ~Computing' /\ ~Quiet'
    BY <2>2 DEF Computing, Quiet
  <2> QED BY <2>1, <2>2, <2>3, <2>4, ValueKept
<1>6. CASE TaskExits
  <2>1. /\ current_task' = None /\ stack' = stack /\ ctl'.mode = "select"
    BY <1>1, <1>6 DEF TaskExits
  <2>2. \A u \in Tasks : \/ u = current_task /\ state'[u] = "gone"
                         \/ u # current_task /\ state'[u] = state[u] /\ on'[u] = on[u]
    BY SMTT(30), <1>6, NoneFacts DEF TaskExits, TypeOK
  <2>3. \A u \in Tasks : \/ u = current_task /\ Expected(u)' = <<>>
                         \/ u # current_task /\ Expected(u)' = Expected(u)
    BY <2>2 DEF Expected
  <2>4. ~Computing'
    BY <2>1 DEF Computing
  <2> QED BY <2>1, <2>3, <2>4, NoneFacts DEF ValueInv
<1> QED BY <1>2, <1>3, <1>4, <1>5, <1>6 DEF Exits

LEMMA ValueSelection ==
    ASSUME TypeOK, Sched, ValueInv, Selection
    PROVE  ValueInv'
<1> USE DEF schedVars, taskVars, vmVars
<1>1. on' = on
  BY DEF Selection, NothingToRun, RerunsModule, ActivateLoaded, ActivateSaved, ActivateNew,
         ActivateStale
<1>2. \A m \in Modes : Go(m).mode = m
  BY SMTT(30), ControlFacts
<1>3. CASE NothingToRun
  <2>1. /\ UNCHANGED <<state, stack, vmStack, current_task, is_parked>> /\ ctl.mode = "select"
        /\ ctl'.mode \in {"run", "host", "stalled"} /\ (ctl'.mode = "run" => ctl.idle = "run")
    BY <1>2, <1>3 DEF NothingToRun, Modes
  <2>2. ~Computing' /\ Quiet
    BY <2>1 DEF Computing, Quiet, Sched, ThreadInv
  <2>3. \A u \in Tasks : Expected(u)' = Expected(u)
    BY <1>1, <2>1 DEF Expected
  <2> QED BY <2>1, <2>2, <2>3, ValueKept
<1>4. CASE RerunsModule
  <2>1. /\ UNCHANGED <<state, stack, vmStack, current_task>> /\ ctl'.mode \in {"done", "panic"}
    BY <1>2, <1>4 DEF RerunsModule, Modes
  <2>2. ~Computing' /\ ~Quiet'
    BY <2>1 DEF Computing, Quiet
  <2>3. \A u \in Tasks : Expected(u)' = Expected(u)
    BY <1>1, <2>1 DEF Expected
  <2> QED BY <2>1, <2>2, <2>3, ValueKept
<1>5. ASSUME NEW t \in Tasks, ActivateLoaded(t)
      PROVE  ValueInv'
  <2>1. /\ UNCHANGED <<stack, vmStack, current_task>> /\ current_task = t /\ Quiet
        /\ state'[t] = "ready" /\ \A u \in Tasks \ {t} : state'[u] = state[u]
    BY <1>5 DEF ActivateLoaded, Selected, Quiet, TypeOK
  <2>2. state[t] \in Alive
    BY <1>5, Dequeues DEF ActivateLoaded, Sched, QueueInv
  <2>3. ctl'.mode = IF state[t] = "raise" THEN "raise" ELSE "run"
    BY <1>5 DEF ActivateLoaded, Select
  <2>4. \A u \in Tasks \ {t} : Expected(u)' = Expected(u)
    BY <1>1, <2>1 DEF Expected
  <2>5. Computing' => Expected(t)' = Expected(t)
    BY <1>1, <2>1, <2>2, <2>3 DEF Expected, Computing, Alive
  <2>6. ~Quiet' /\ ctl'.mode # "commit"
    BY <2>3 DEF Quiet
  <2> QED BY <2>1, <2>4, <2>5, <2>6 DEF ValueInv
<1>6. ASSUME NEW t \in Tasks, Selected(t), current_task # t, SwitchContext(t), vmStack' = stack[t],
             \A u \in Tasks \ {t} : state'[u] = state[u],
             Computing' => Expected(t)' = Expected(t), ~Quiet', ctl'.mode # "commit"
      PROVE  ValueInv'
  <2>1. /\ current_task' = t /\ stack'[t] = <<>> /\ Quiet
        /\ \A u \in Tasks \ {t} : stack'[u] = IF u = current_task THEN vmStack ELSE stack[u]
    BY <1>6 DEF SwitchContext, Selected, Quiet
  <2>2. \A u \in Tasks \ {t} : Expected(u)' = Expected(u)
    BY <1>1, <1>6 DEF Expected
  <2>3. \A u \in Tasks \ {t} : stack'[u] = Expected(u)'
    BY <2>1, <2>2 DEF ValueInv
  <2>4. Computing' => vmStack' = Expected(t)'
    BY <1>6 DEF ValueInv
  <2> QED BY <1>6, <2>1, <2>3, <2>4 DEF ValueInv
<1>7. ASSUME NEW t \in Tasks, ActivateSaved(t)
      PROVE  ValueInv'
  <2>1. /\ Selected(t) /\ current_task # t /\ SwitchContext(t) /\ vmStack' = stack[t]
        /\ state'[t] = "ready" /\ \A u \in Tasks \ {t} : state'[u] = state[u]
    BY <1>7 DEF ActivateSaved, TypeOK
  <2>2. state[t] \in Alive
    BY <2>1, Dequeues DEF Selected, Sched, QueueInv
  <2>3. ctl'.mode = IF state[t] = "raise" THEN "raise" ELSE "run"
    BY <1>7 DEF ActivateSaved, Select
  <2>4. Computing' => Expected(t)' = Expected(t)
    BY <1>1, <2>1, <2>2, <2>3 DEF Expected, Computing, Alive
  <2>5. ~Quiet' /\ ctl'.mode # "commit"
    BY <2>3 DEF Quiet
  <2> QED BY <1>6, <2>1, <2>4, <2>5
<1>8. ASSUME NEW c \in Coros, ActivateNew(c) \/ ActivateStale(c)
      PROVE  ValueInv'
  <2>1. c \in Tasks /\ on[c] = None /\ state[c] = "ready"
    BY <1>8, NewSched, NoneFacts
  <2>2. Selected(c) /\ current_task # c /\ SwitchContext(c) /\ vmStack' = <<>> /\ state' = state
    BY <1>8 DEF ActivateNew, ActivateStale
  <2>3. stack[c] = <<>> /\ Expected(c)' = Expected(c)
    BY <1>1, <2>1, <2>2 DEF Expected, ValueInv
  <2>4. ctl'.mode = "run" \/ (ctl'.mode = "deliver" /\ ctl'.after = "exit")
    BY SMTT(30), <1>8 DEF ActivateNew, ActivateStale, Select, Deliver
  <2>5. ~Quiet' /\ ctl'.mode # "commit"
    BY <2>4 DEF Quiet
  <2> QED BY <1>6, <2>1, <2>2, <2>3, <2>5
<1> QED BY <1>3, <1>4, <1>5, <1>7, <1>8 DEF Selection

LEMMA ValueHost ==
    ASSUME TypeOK, Sched, ValueInv, Host
    PROVE  ValueInv'
<1> USE DEF schedVars, taskVars, vmVars
<1>1. ctl.mode = "host" /\ Quiet /\ UNCHANGED <<state, on>>
  BY DEF Host, ResolveFuture, FailFuture, Settle, HostResumes, HostAborts, Quiet
<1>2. \A u \in Tasks : Expected(u)' = Expected(u)
  BY <1>1 DEF Expected
<1>3. CASE UNCHANGED <<current_task, stack, vmStack>>
           /\ ctl'.mode \in {"host", "deliver", "select", "done"}
  <2>1. ~Computing' /\ ctl'.mode # "commit"
    BY <1>3 DEF Computing
  <2> QED BY <1>1, <1>2, <1>3, <2>1, ValueKept
<1>4. CASE is_parked /\ SwitchContext(Main) /\ ctl'.mode = "done"
  <2>1. current_task = None
    BY <1>1, <1>4 DEF Sched, ThreadInv
  <2>2. /\ current_task' = Main /\ stack'[Main] = <<>>
        /\ \A u \in Tasks \ {Main} : stack'[u] = stack[u]
    BY <1>4, <2>1, NoneFacts DEF SwitchContext
  <2>3. ~Computing' /\ ~Quiet'
    BY <1>4 DEF Computing, Quiet
  <2> QED BY <1>2, <1>4, <2>1, <2>2, <2>3, NoneFacts DEF ValueInv
<1>5. \/ UNCHANGED <<current_task, stack, vmStack>> /\ ctl'.mode \in {"host", "deliver", "select", "done"}
      \/ is_parked /\ SwitchContext(Main) /\ ctl'.mode = "done"
  BY SMTT(30), <1>1, ControlFacts DEF Host, ResolveFuture, FailFuture, Settle, HostResumes, HostAborts, Modes, Deliver
<1> QED BY <1>3, <1>4, <1>5

LEMMA AlwaysValue == Spec => [](TypeOK /\ Sched /\ Walk /\ Wake /\ ValueInv)
<1>1. Init => ValueInv
  <2> SUFFICES ASSUME Init PROVE ValueInv
    OBVIOUS
  <2>1. ctl.mode = "run"
    BY DEF Init, Select
  <2> QED BY <2>1, NoneFacts DEF Init, ValueInv, Expected, Quiet
<1>2. TypeOK /\ Sched /\ Wake /\ ValueInv /\ [Next]_vars => ValueInv'
  <2> SUFFICES ASSUME TypeOK, Sched, Wake, ValueInv, [Next]_vars PROVE ValueInv'
    OBVIOUS
  <2>1. CASE UNCHANGED vars
    <3>1. UNCHANGED <<state, current_task, on, stack, vmStack, is_parked, ctl>>
      BY <2>1 DEF vars, schedVars, taskVars, vmVars
    <3> QED BY <3>1 DEF ValueInv, Expected, Computing, Quiet
  <2> QED BY <2>1, ValueBytecode, ValueCommit, ValueDelivery, ValueExits, ValueSelection, ValueHost
          DEF Next
<1> QED BY <1>1, <1>2, AlwaysWake, PTL DEF Spec

(* A resumed task finds the value of the awaitable it was blocked on and   *)
(* nothing else, whether it was loaded or saved when the value came.       *)
THEOREM AwaitsGetTheirValue == Spec => []AwaitValue
<1>1. TypeOK /\ Sched /\ ValueInv => AwaitValue
  <2> SUFFICES ASSUME TypeOK, Sched, ValueInv PROVE AwaitValue
    OBVIOUS
  <2>1. ASSUME ctl.mode = "run", ~is_parked
        PROVE  vmStack = IF on[current_task] = None THEN <<>> ELSE <<on[current_task]>>
    <3>1. state[current_task] = "ready"
      BY <2>1 DEF Sched, ThreadInv, Running
    <3>2. vmStack = Expected(current_task)
      BY <2>1 DEF ValueInv, Computing
    <3> QED BY <3>1, <3>2 DEF Expected
  <2>2. \A t \in Tasks \ {current_task} :
          stack[t] = IF state[t] = "ready" /\ on[t] # None THEN <<on[t]>> ELSE <<>>
    BY DEF ValueInv, Expected
  <2> QED BY <2>1, <2>2 DEF AwaitValue
<1> QED BY <1>1, AlwaysValue, PTL

-----------------------------------------------------------------------------
(* The frames                                                              *)

LEMMA HeldFacts ==
    /\ None \in Places /\ Tasks \subseteq Places /\ Held(None) = vmFrames
    /\ \A u \in Tasks : Held(u) = frames[u]
    /\ Held(None)' = vmFrames' /\ \A u \in Tasks : Held(u)' = frames'[u]
  BY NoneFacts DEF Places, Held

(* Every frame of c is where another one was before, no two of them where  *)
(* the same one was.                                                       *)
LEMMA Moved ==
    ASSUME NEW c, NEW m \in [Places -> Places],
           \A u \in Places : \A i \in DOMAIN Held(u)' : Held(u)'[i] = c =>
                i \in DOMAIN Held(m[u]) /\ Held(m[u])[i] = c,
           \A u, v \in Places : \A i \in DOMAIN Held(u)', j \in DOMAIN Held(v)' :
                Held(u)'[i] = c /\ Held(v)'[j] = c /\ m[u] = m[v] => u = v
    PROVE  (OneFrame(c) => OneFrame(c)') /\ (NoFrame(c) => NoFrame(c)')
<1>1. ASSUME OneFrame(c)
      PROVE  OneFrame(c)'
  <2> SUFFICES ASSUME NEW u \in Places, NEW v \in Places, NEW i \in DOMAIN Held(u)',
                      NEW j \in DOMAIN Held(v)', Held(u)'[i] = c, Held(v)'[j] = c
               PROVE  u = v /\ i = j
    BY SMTT(30) DEF OneFrame
  <2>1. /\ m[u] \in Places /\ i \in DOMAIN Held(m[u]) /\ Held(m[u])[i] = c
        /\ m[v] \in Places /\ j \in DOMAIN Held(m[v]) /\ Held(m[v])[j] = c
    OBVIOUS
  <2>2. m[u] = m[v] /\ i = j
    BY SMTT(30), <1>1, <2>1 DEF OneFrame
  <2> QED BY <2>2
<1>2. ASSUME NoFrame(c)
      PROVE  NoFrame(c)'
  BY SMTT(30), <1>2 DEF NoFrame
<1> QED BY <1>1, <1>2

(* A new frame for a body that has none.                                   *)
LEMMA Starts ==
    ASSUME NEW c, NEW n, NoFrame(c),
           \A u \in Places : \A i \in DOMAIN Held(u)' : Held(u)'[i] = c =>
              \/ u = None /\ i = n
              \/ \E v \in Places : i \in DOMAIN Held(v) /\ Held(v)[i] = c
    PROVE  OneFrame(c)'
  BY DEF NoFrame, OneFrame

LEMMA FramesKept ==
    ASSUME TypeOK, FramesInv, frames' = frames,
           \A i \in DOMAIN vmFrames' : i \in DOMAIN vmFrames /\ vmFrames'[i] = vmFrames[i],
           \A c \in Coros : coro'[c] = "New" => coro[c] = "New",
           \/ current_task' = current_task /\ (Based(vmFrames) => Based(vmFrames'))
           \/ current_task' = None /\ current_task # Main
    PROVE  FramesInv'
<1>1. ASSUME NEW c \in Coros
      PROVE  OneFrame(c)' /\ (coro'[c] = "New" => NoFrame(c)')
  <2> DEFINE m == [u \in Places |-> u]
  <2>1. m \in [Places -> Places] /\ \A u \in Places : m[u] = u
    OBVIOUS
  <2>2. \A u \in Places : \A i \in DOMAIN Held(u)' :
            i \in DOMAIN Held(u) /\ Held(u)'[i] = Held(u)[i]
    BY HeldFacts DEF Places
  <2> HIDE DEF m
  <2>3. (OneFrame(c) => OneFrame(c)') /\ (NoFrame(c) => NoFrame(c)')
    BY SMTT(30), <2>1, <2>2, Moved
  <2> QED BY <2>3 DEF FramesInv
<1>2. /\ current_task' \in Tasks => frames[current_task'] = <<>>
      /\ current_task' = Main => Based(vmFrames')
      /\ current_task' # Main => Based(frames[Main])
  BY NoneFacts DEF FramesInv
<1> QED BY <1>1, <1>2 DEF FramesInv, Based

(* Another context is loaded: the saved one of t, none, or a new one.      *)
LEMMA FramesSwitch ==
    ASSUME TypeOK, FramesInv, NEW t \in Tasks, current_task # t, SwitchContext(t),
           \/ vmFrames' = frames[t] /\ coro' = coro
           \/ vmFrames' = <<>> /\ coro' = coro /\ t # Main
           \/ t \in Coros /\ vmFrames' = <<t>> /\ coro[t] = "New" /\ coro' = [coro EXCEPT ![t] = "Running"]
    PROVE  FramesInv'
<1>1. /\ current_task' = t /\ frames'[t] = <<>>
      /\ \A u \in Tasks \ {t} : frames'[u] = IF u = current_task THEN vmFrames ELSE frames[u]
  BY DEF SwitchContext
<1>2. t # Main => Based(frames'[Main])
  BY <1>1, NoneFacts DEF FramesInv
<1>3. t = Main => Based(vmFrames')
  BY NoneFacts DEF FramesInv
<1>4. ASSUME NEW c \in Coros, vmFrames' = frames[t] \/ vmFrames' = <<>> \/ c # t
      PROVE  (OneFrame(c) => OneFrame(c)') /\ (NoFrame(c) => NoFrame(c)')
  <2> DEFINE m == [u \in Places |-> IF u = None THEN t ELSE IF u = current_task THEN None ELSE u]
  <2>1. m \in [Places -> Places]
    BY HeldFacts
  <2>2. /\ m[None] = t
        /\ \A u \in Tasks : m[u] = IF u = current_task THEN None ELSE u
    BY HeldFacts, NoneFacts
  <2> HIDE DEF m
  <2>3. ASSUME NEW u \in Places, NEW i \in DOMAIN Held(u)', Held(u)'[i] = c
        PROVE  i \in DOMAIN Held(m[u]) /\ Held(m[u])[i] = c /\ u # t
    <3>1. CASE u = None
      <4>1. vmFrames'[i] = c /\ i \in DOMAIN vmFrames'
        BY <2>3, <3>1, HeldFacts
      <4>2. vmFrames' = frames[t]
        BY SMTT(30), <1>4, <4>1
      <4> QED BY <2>2, <3>1, <4>1, <4>2, HeldFacts, NoneFacts
    <3>2. CASE u \in Tasks
      <4>1. frames'[u][i] = c /\ i \in DOMAIN frames'[u]
        BY <2>3, <3>2, HeldFacts
      <4>2. u # t
        BY SMTT(30), <1>1, <4>1
      <4> QED BY <1>1, <2>2, <3>2, <4>1, <4>2, HeldFacts
    <3> QED BY <3>1, <3>2 DEF Places
  <2>4. \A u, v \in Places : u # t /\ v # t /\ m[u] = m[v] => u = v
    BY <2>2, NoneFacts DEF Places
  <2> QED BY SMTT(30), <2>1, <2>3, <2>4, Moved
<1>5. ASSUME t \in Coros, vmFrames' = <<t>>, coro[t] = "New"
      PROVE  OneFrame(t)'
  <2>1. NoFrame(t)
    BY <1>5 DEF FramesInv
  <2>2. ASSUME NEW u \in Places, NEW i \in DOMAIN Held(u)', Held(u)'[i] = t
        PROVE  \/ u = None /\ i = 1
               \/ \E v \in Places : i \in DOMAIN Held(v) /\ Held(v)[i] = t
    <3>1. CASE u = None
      BY SMTT(30), <1>5, <2>2, <3>1, HeldFacts
    <3>2. CASE u \in Tasks
      <4>1. frames'[u][i] = t /\ i \in DOMAIN frames'[u]
        BY <2>2, <3>2, HeldFacts
      <4>2. u # t
        BY SMTT(30), <1>1, <4>1
      <4> QED BY <1>1, <3>2, <4>1, <4>2, HeldFacts
    <3> QED BY <3>1, <3>2 DEF Places
  <2> QED BY <2>1, <2>2, Starts
<1>6. ASSUME NEW c \in Coros
      PROVE  OneFrame(c)' /\ (coro'[c] = "New" => NoFrame(c)')
  <2>1. CASE vmFrames' = frames[t] \/ vmFrames' = <<>> \/ c # t
    <3>1. coro'[c] = "New" => coro[c] = "New"
      BY DEF TypeOK
    <3> QED BY <1>4, <2>1, <3>1 DEF FramesInv
  <2>2. CASE c = t /\ vmFrames' = <<t>> /\ coro[t] = "New" /\ coro'[t] = "Running"
    BY <1>5, <2>2
  <2> QED BY <2>1, <2>2 DEF TypeOK
<1>7. \A c \in Coros : OneFrame(c)' /\ (coro'[c] = "New" => NoFrame(c)')
  BY <1>6
<1> QED BY <1>1, <1>2, <1>3, <1>7 DEF FramesInv, Based

LEMMA StepFrames == TypeOK /\ Sched /\ FramesInv /\ [Next]_vars => FramesInv'
<1> SUFFICES ASSUME TypeOK, Sched, FramesInv, [Next]_vars PROVE FramesInv'
  OBVIOUS
<1> USE DEF schedVars, taskVars, vmVars
<1>1. ASSUME UNCHANGED <<frames, vmFrames, current_task, coro>>
      PROVE  FramesInv'
  BY <1>1, FramesKept
<1>2. ASSUME NEW t \in Tasks, Bytecode(t)
      PROVE  FramesInv'
  <2>1. CASE FrameReturns(t)
    <3>1. UNCHANGED <<frames, current_task, coro>> /\ Len(vmFrames) > 1 /\ vmFrames' = Front(vmFrames)
      BY <2>1 DEF FrameReturns
    <3>2. PICK n \in Nat : n = Len(vmFrames) /\ n > 1 /\ DOMAIN vmFrames = 1..n /\ vmFrames \in Seq(Tasks)
      BY <3>1, LenProperties DEF TypeOK
    <3>3. vmFrames # <<>>
      BY SMTT(30), <3>2
    <3>4. /\ vmFrames' \in Seq(Tasks) /\ Len(vmFrames') = n - 1
          /\ \A i \in 1..(n - 1) : vmFrames'[i] = vmFrames[i]
      BY <3>1, <3>2, <3>3, PopFacts
    <3>5. DOMAIN vmFrames' = 1..(n - 1) /\ 1 \in 1..(n - 1) /\ vmFrames' # <<>>
      BY SMTT(30), <3>2, <3>4, LenProperties
    <3>6. \A i \in DOMAIN vmFrames' : i \in DOMAIN vmFrames /\ vmFrames'[i] = vmFrames[i]
      BY SMTT(30), <3>2, <3>4, <3>5
    <3>7. Based(vmFrames) => Based(vmFrames')
      BY <3>4, <3>5 DEF Based
    <3> QED BY <3>1, <3>6, <3>7, FramesKept
  <2>2. ASSUME NEW c \in Coros, AwaitCoroutine(t, c)
        PROVE  FramesInv'
    <3>1. UNCHANGED <<frames, current_task>>
      BY <2>2 DEF AwaitCoroutine
    <3>2. CASE vmFrames' = vmFrames
      <4>1. \A d \in Coros : coro'[d] = "New" => coro[d] = "New"
        BY <2>2 DEF AwaitCoroutine, TypeOK
      <4> QED BY <3>1, <3>2, <4>1, FramesKept
    <3>3. CASE /\ vmFrames' = Append(vmFrames, c) /\ coro[c] = "New"
               /\ coro' = [coro EXCEPT ![c] = "Running"]
      <4>1. PICK n \in Nat : n = Len(vmFrames) /\ DOMAIN vmFrames = 1..n /\ vmFrames \in Seq(Tasks)
        BY LenProperties DEF TypeOK
      <4>2. /\ DOMAIN vmFrames' = 1..(n + 1) /\ vmFrames'[n + 1] = c /\ vmFrames' # <<>>
            /\ \A i \in 1..n : vmFrames'[i] = vmFrames[i]
        BY SMTT(30), <3>3, <4>1, NoneFacts, AppendProperties, LenProperties
      <4>3. ASSUME NEW d \in Coros, NEW u \in Places, NEW i \in DOMAIN Held(u)', Held(u)'[i] = d
            PROVE  \/ d = c /\ u = None /\ i = n + 1
                   \/ i \in DOMAIN Held(u) /\ Held(u)[i] = d
        <5>1. CASE u = None
          <6>1. i \in 1..(n + 1) /\ vmFrames'[i] = d
            BY <4>2, <4>3, <5>1, HeldFacts
          <6>2. CASE i = n + 1
            BY <4>2, <5>1, <6>1, <6>2
          <6>3. CASE i \in 1..n
            BY <4>1, <4>2, <5>1, <6>1, <6>3, HeldFacts
          <6> QED BY SMTT(30), <4>1, <6>1, <6>2, <6>3
        <5>2. CASE u \in Tasks
          BY <3>1, <4>3, <5>2, HeldFacts
        <5> QED BY <5>1, <5>2 DEF Places
      <4>4. ASSUME NEW d \in Coros, d # c
            PROVE  OneFrame(d)' /\ (coro'[d] = "New" => NoFrame(d)')
        <5> DEFINE m == [u \in Places |-> u]
        <5>1. m \in [Places -> Places] /\ \A u \in Places : m[u] = u
          OBVIOUS
        <5> HIDE DEF m
        <5>2. (OneFrame(d) => OneFrame(d)') /\ (NoFrame(d) => NoFrame(d)')
          BY SMTT(30), <4>3, <4>4, <5>1, Moved
        <5>3. coro'[d] = coro[d]
          BY <3>3, <4>4 DEF TypeOK
        <5> QED BY <5>2, <5>3 DEF FramesInv
      <4>5. OneFrame(c)' /\ coro'[c] # "New"
        <5>1. NoFrame(c) /\ coro'[c] # "New"
          BY <3>3 DEF FramesInv, TypeOK
        <5>2. \A u \in Places : \A i \in DOMAIN Held(u)' : Held(u)'[i] = c =>
                \/ u = None /\ i = n + 1
                \/ \E v \in Places : i \in DOMAIN Held(v) /\ Held(v)[i] = c
          BY <4>3
        <5> QED BY <5>1, <5>2, Starts
      <4>6. /\ current_task' \in Tasks => frames'[current_task'] = <<>>
            /\ current_task' # Main => Based(frames'[Main])
        BY <3>1 DEF FramesInv
      <4>7. Based(vmFrames) => Based(vmFrames')
        <5>1. ASSUME Based(vmFrames)
              PROVE  1 \in 1..n
          <6>1. vmFrames # <<>> /\ vmFrames \in Seq(Tasks)
            BY <4>1, <5>1 DEF Based
          <6>2. Len(vmFrames) # 0
            BY <6>1, EmptySeq
          <6> QED BY SMTT(30), <4>1, <6>2
        <5> QED BY <4>2, <5>1 DEF Based
      <4>8. current_task' = Main => Based(vmFrames')
        BY <3>1, <4>7 DEF FramesInv
      <4> QED BY <4>4, <4>5, <4>6, <4>8 DEF FramesInv, Based
    <3> QED BY <2>2, <3>2, <3>3 DEF AwaitCoroutine
  <2>3. CASE ~FrameReturns(t) /\ ~(\E c \in Coros : AwaitCoroutine(t, c))
    BY <1>1, <1>2, <2>3 DEF Bytecode, ValueArrives, Raises, CallFuture, CallEager,
                    AwaitExternal, AwaitGather
  <2> QED BY <2>1, <2>2, <2>3
<1>3. CASE Commit \/ Delivery \/ UNCHANGED vars
  BY <1>1, <1>3 DEF Commit, CommitDuplicate, CommitCoroutine, CommitExternal, CommitNested,
         CommitSettles, Delivery, DeliverToTask, ResolveChild, FailGather, vars
<1>4. CASE Exits
  <2>1. CASE MainReturns \/ RunFails \/ \E c \in Coros : TaskFails(c)
    BY <1>1, <2>1 DEF MainReturns, RunFails, TaskFails
  <2>2. ASSUME NEW c \in Coros, TaskReturns(c)
        PROVE  FramesInv'
    <3>1. UNCHANGED <<frames, vmFrames>> /\ current_task' = None /\ current_task # Main
      BY <2>2, NoneFacts DEF TaskReturns, Executing
    <3>2. \A d \in Coros : coro'[d] = "New" => coro[d] = "New"
      BY <2>2 DEF TaskReturns, TypeOK
    <3> QED BY <3>1, <3>2, FramesKept
  <2>3. CASE TaskExits
    <3>1. UNCHANGED <<frames, coro>> /\ vmFrames' = <<>> /\ current_task' = None
      BY <2>3 DEF TaskExits
    <3>2. current_task # Main
      BY <2>3, NoneFacts DEF TaskExits, Sched, ThreadInv, Leaving
    <3>3. \A i \in DOMAIN vmFrames' : i \in DOMAIN vmFrames /\ vmFrames'[i] = vmFrames[i]
      BY SMTT(30), <3>1
    <3> QED BY <3>1, <3>2, <3>3, FramesKept
  <2>4. ASSUME NEW t \in Tasks, NEW k \in 1..(RecursionLimit + 1), Caught(t, k)
        PROVE  FramesInv'
    <3>1. /\ UNCHANGED <<frames, coro, current_task>> /\ k <= Len(vmFrames)
          /\ vmFrames' = SubSeq(vmFrames, 1, k)
      BY <2>4 DEF Caught
    <3>2. k \in Nat \ {0}
      BY SMTT(30), ItemsAssumption
    <3>3. PICK n \in Nat : n = Len(vmFrames) /\ DOMAIN vmFrames = 1..n /\ vmFrames \in Seq(Tasks)
      BY LenProperties DEF TypeOK
    <3>4. \A i \in 1..k : i \in 1..n /\ vmFrames[i] \in Tasks
      BY SMTT(30), <3>1, <3>2, <3>3
    <3>5. /\ vmFrames' \in Seq(Tasks) /\ Len(vmFrames') = k
          /\ \A i \in 1..k : vmFrames'[i] = vmFrames[i]
      BY SMTT(30), <3>1, <3>2, <3>4, SubSeqProperties
    <3>6. DOMAIN vmFrames' = 1..k /\ 1 \in 1..k /\ vmFrames' # <<>>
      BY SMTT(30), <3>2, <3>5, LenProperties
    <3>7. \A i \in DOMAIN vmFrames' : i \in DOMAIN vmFrames /\ vmFrames'[i] = vmFrames[i]
      BY <3>3, <3>4, <3>5, <3>6
    <3>8. Based(vmFrames) => Based(vmFrames')
      BY <3>5, <3>6 DEF Based
    <3> QED BY <3>1, <3>7, <3>8, FramesKept
  <2> QED BY <1>4, <2>1, <2>2, <2>3, <2>4 DEF Exits
<1>5. CASE Selection
  <2>1. CASE NothingToRun \/ RerunsModule \/ \E t \in Tasks : ActivateLoaded(t)
    BY <1>1, <2>1 DEF NothingToRun, RerunsModule, ActivateLoaded
  <2>2. ASSUME NEW t \in Tasks, ActivateSaved(t)
        PROVE  FramesInv'
    BY <2>2, FramesSwitch DEF ActivateSaved
  <2>3. ASSUME NEW c \in Coros, ActivateNew(c)
        PROVE  FramesInv'
    BY <2>3, FramesSwitch, NoneFacts DEF ActivateNew
  <2>4. ASSUME NEW c \in Coros, ActivateStale(c)
        PROVE  FramesInv'
    <3>1. c \in Tasks /\ c # Main
      BY NoneFacts
    <3> QED BY <2>4, <3>1, FramesSwitch DEF ActivateStale
  <2> QED BY <1>5, <2>1, <2>2, <2>3, <2>4 DEF Selection
<1>6. CASE Host
  <2>1. CASE UNCHANGED <<frames, vmFrames, current_task, coro>>
    BY <1>1, <2>1
  <2>2. CASE HostAborts /\ is_parked /\ SwitchContext(Main) /\ vmFrames' = frames[Main]
    <3>1. current_task = None /\ coro' = coro
      BY <2>2 DEF HostAborts, Sched, ThreadInv, Quiet
    <3> QED BY <2>2, <3>1, FramesSwitch, NoneFacts
  <2> QED BY <1>6, <2>1, <2>2 DEF Host, ResolveFuture, FailFuture, Settle, HostResumes, HostAborts
<1> QED BY <1>2, <1>3, <1>4, <1>5, <1>6 DEF Next

LEMMA AlwaysFrames == Spec => [](TypeOK /\ Sched /\ FramesInv)
<1>1. Init => FramesInv
  <2> SUFFICES ASSUME Init PROVE FramesInv
    OBVIOUS
  <2>1. \A u \in Places : \A i \in DOMAIN Held(u) : Held(u)[i] = Main
    BY SMTT(30), HeldFacts DEF Init, Places
  <2>2. \A c \in Coros : OneFrame(c) /\ NoFrame(c)
    BY <2>1, NoneFacts DEF OneFrame, NoFrame
  <2> QED BY <2>2, NoneFacts DEF Init, FramesInv, Based
<1>2. TypeOK /\ Sched /\ FramesInv /\ [Next]_vars => FramesInv'
  BY StepFrames
<1> QED BY <1>1, <1>2, AlwaysSched, PTL DEF Spec

(* A coroutine body is never on two frames, of one task or of two: a       *)
(* direct await and a spawned task cannot both start it.                   *)
THEOREM BodiesRunOnce == Spec => []RunsOnce
<1>1. ASSUME TypeOK, FramesInv
      PROVE  RunsOnce
  <2>1. ASSUME NEW c \in Coros, NEW p \in FramesOf(c)
        PROVE  \E u \in Places : \E i \in DOMAIN Held(u) : p = <<u, i>> /\ Held(u)[i] = c
    <3>1. CASE p \in {q \in Tasks \X (1..(RecursionLimit + 1)) :
                        q[2] <= Len(frames[q[1]]) /\ frames[q[1]][q[2]] = c}
      <4>1. PICK u \in Tasks, i \in 1..(RecursionLimit + 1) :
               p = <<u, i>> /\ i <= Len(frames[u]) /\ frames[u][i] = c
        BY SMTT(30), <3>1
      <4>2. i \in DOMAIN frames[u]
        <5>1. frames[u] \in Seq(Tasks)
          BY <1>1 DEF TypeOK
        <5>2. Len(frames[u]) \in Nat /\ DOMAIN frames[u] = 1..Len(frames[u])
          BY <5>1, LenProperties
        <5> QED BY SMTT(30), <4>1, <5>2, ItemsAssumption
      <4> QED BY <4>1, <4>2, HeldFacts
    <3>2. CASE \E i \in DOMAIN vmFrames : p = <<None, i>> /\ vmFrames[i] = c
      BY <3>2, HeldFacts
    <3> QED BY <2>1, <3>1, <3>2 DEF FramesOf
  <2>2. ASSUME NEW c \in Coros
        PROVE  /\ Cardinality(FramesOf(c)) <= 1
               /\ coro[c] = "New" => FramesOf(c) = {}
    <3>1. OneFrame(c) /\ (coro[c] = "New" => NoFrame(c))
      BY <1>1 DEF FramesInv
    <3>2. ASSUME NEW p \in FramesOf(c), NEW q \in FramesOf(c)
          PROVE  p = q
      <4>1. PICK u \in Places : \E i \in DOMAIN Held(u) : p = <<u, i>> /\ Held(u)[i] = c
        BY <2>1
      <4>2. PICK i \in DOMAIN Held(u) : p = <<u, i>> /\ Held(u)[i] = c
        BY <4>1
      <4>3. PICK v \in Places : \E j \in DOMAIN Held(v) : q = <<v, j>> /\ Held(v)[j] = c
        BY <2>1
      <4>4. PICK j \in DOMAIN Held(v) : q = <<v, j>> /\ Held(v)[j] = c
        BY <4>3
      <4> QED BY <3>1, <4>2, <4>4 DEF OneFrame
    <3>3. coro[c] = "New" => FramesOf(c) = {}
      BY <2>1, <3>1 DEF NoFrame
    <3>4. CASE FramesOf(c) = {}
      BY SMTT(30), <3>3, <3>4, FS_EmptySet
    <3>5. CASE FramesOf(c) # {}
      <4>1. PICK p : FramesOf(c) = {p}
        BY <3>2, <3>5
      <4> QED BY SMTT(30), <3>3, <4>1, FS_Singleton
    <3> QED BY <3>4, <3>5
  <2> QED BY <2>2 DEF RunsOnce
<1> QED BY <1>1, AlwaysFrames, PTL

-----------------------------------------------------------------------------
(* Who waits for whom                                                      *)

(* Tasks, calls and gathers are told apart.                                *)
LEMMA NodeFacts ==
    /\ Tasks \cap Gathers = {} /\ Tasks \cap Exts = {} /\ Exts \cap Gathers = {}
    /\ Exts \cap Waiting = {}
    /\ \A t \in Tasks : t \in Waiting <=> state[t] = "blocked"
    /\ \A g \in Gathers : g \in Waiting <=> gather[g] = "Awaited"
    /\ Waiting \subseteq Tasks \cup Gathers
  BY KindsAssumption DEF Tasks, Waiting, Awaitables

LEMMA ChildFacts ==
    ASSUME TypeOK, NEW g \in Gathers, NEW x, AwaitsChild(g, x)
    PROVE  x \in Awaitables
  BY SMTT(30) DEF AwaitsChild, TypeOK

(* Between deliveries, with no task to run and no call pending, all that   *)
(* waits would wait in a circle.                                           *)
LEMMA NotStuck ==
    ASSUME TypeOK, Sched, Walk, Wake, OrderInv, ctl.mode \in {"select", "host"}, ready_queue = <<>>
    PROVE  pending_externals # {}
<1> SUFFICES ASSUME pending_externals = {} PROVE FALSE
  OBVIOUS
<1>1. Queued = {} /\ Quiet /\ \A a : ~Delivered(a)
  BY SMTT(30) DEF Queued, Range, Quiet, Delivered
<1>2. \A t \in Tasks : state[t] \notin Alive
  BY <1>1 DEF Sched, QueueInv
<1>3. \A e \in Exts : extAwaiter[e] = NoAwaiter
  BY DEF Wake, WakeInv, CallsOK
<1>4. \A g \in Gathers : gather[g] = "Awaited" <=> gatherAwaiter[g] # NoAwaiter
  BY DEF Wake, WakeInv, AwaitedOK
<1>5. ASSUME NEW t \in Tasks, state[t] = "blocked"
      PROVE  \E m \in Waiting : WaitsFor(t, m)
  <2>1. on[t] \in Gathers /\ gatherAwaiter[on[t]] = ToTask(t)
    BY SMTT(30), <1>1, <1>3, <1>5, AwaiterFacts DEF Wake, WakeInv, WakeOK
  <2>2. on[t] \in Waiting
    BY <1>4, <2>1, AwaiterFacts, NodeFacts
  <2> QED BY <2>2 DEF WaitsFor
<1>6. ASSUME NEW g \in Gathers, gather[g] = "Awaited"
      PROVE  \E m \in Waiting : WaitsFor(g, m)
  <2>1. PICK p \in pending_children[g] : TRUE
    BY <1>6 DEF Walk, SlotInv
  <2>2. PICK x \in Awaitables : x = p[1] /\ AwaitsChild(g, x)
    BY SMTT(30), <2>1 DEF TypeOK, AwaitsChild
  <2>3. Reports(x, g)
    BY <1>1, <2>2 DEF Wake, ChildInv
  <2>4. x \in Waiting
    <3>1. CASE x \in Coros /\ state[x] \in {"ready", "raise", "blocked"}
      BY <1>2, <3>1, NoneFacts, NodeFacts DEF Alive
    <3>2. CASE x \in Exts /\ extAwaiter[x] = ToSlot(g, x)
      BY <1>3, <3>2, AwaiterFacts
    <3>3. CASE x \in Gathers /\ gatherAwaiter[x] = ToSlot(g, x)
      BY <1>4, <3>3, AwaiterFacts, NodeFacts
    <3> QED BY <2>3, <3>1, <3>2, <3>3 DEF Reports
  <2> QED BY <2>2, <2>4 DEF WaitsFor
<1>7. Main \in Waiting
  <2>1. state[Main] = "blocked"
    BY <1>2, NoneFacts DEF Sched, TaskInv, Alive
  <2> QED BY <2>1, NoneFacts, NodeFacts
<1>8. \A n \in Waiting : \E m \in Waiting : WaitsFor(n, m)
  BY <1>5, <1>6, NodeFacts
<1>9. Circle(Waiting)
  BY <1>7, <1>8 DEF Circle
<1> QED BY <1>9 DEF OrderInv

(* Fewer nodes and fewer edges make no circle.                             *)
LEMMA Shrinks ==
    ASSUME \A S \in SUBSET Waiting : ~Circle(S), Waiting' \subseteq Waiting,
           \A n \in Waiting' : \A m : WaitsFor(n, m)' => WaitsFor(n, m)
    PROVE  \A S \in SUBSET Waiting' : ~Circle(S)'
<1> SUFFICES ASSUME NEW S \in SUBSET Waiting', Circle(S)' PROVE FALSE
  OBVIOUS
<1>1. S # {} /\ \A n \in S : \E m \in S : WaitsFor(n, m)
  BY DEF Circle
<1>2. Circle(S)
  BY <1>1 DEF Circle
<1> QED BY <1>2

(* No task blocks and no gather becomes Awaited.                           *)
LEMMA NoNewWaits ==
    ASSUME OrderInv,
           \A t \in Tasks : state'[t] = "blocked" => state[t] = "blocked" /\ on'[t] = on[t],
           \A g \in Gathers : gather'[g] = "Awaited" => gather[g] = "Awaited",
           \A g \in Gathers : \A y : AwaitsChild(g, y)' => AwaitsChild(g, y)
    PROVE  \A S \in SUBSET Waiting' : ~Circle(S)'
<1>1. Waiting' \subseteq Waiting
  BY DEF Waiting
<1>2. ASSUME NEW n \in Waiting', NEW m, WaitsFor(n, m)'
      PROVE  WaitsFor(n, m)
  <2>1. CASE n \in Tasks /\ state'[n] = "blocked" /\ on'[n] = m
    BY <2>1 DEF WaitsFor
  <2>2. CASE n \in Gathers /\ AwaitsChild(n, m)'
    BY <2>2 DEF WaitsFor
  <2>3. n \in Tasks => state'[n] = "blocked"
    BY KindsAssumption DEF Waiting, Tasks, Awaitables
  <2> QED BY <1>2, <2>1, <2>2, <2>3 DEF WaitsFor
<1> QED BY <1>1, <1>2, Shrinks DEF OrderInv

LEMMA OrderKept ==
    ASSUME OrderInv, commits' = <<>> \/ \E g \in Gathers, t \in Tasks : commits' = <<OpenGatherCommit(g, ToTask(t))>>,
           \A t \in Tasks : state'[t] = "blocked" => state[t] = "blocked" /\ on'[t] = on[t],
           \A g \in Gathers : gather'[g] = "Awaited" => gather[g] = "Awaited",
           \A g \in Gathers : \A y : AwaitsChild(g, y)' => AwaitsChild(g, y),
           ctl'.mode # "stalled"
    PROVE  OrderInv'
<1>1. \A S \in SUBSET Waiting' : ~Circle(S)'
  BY NoNewWaits
<1>2. Fresh({})' /\ \A g \in {} : gather'[g] = "Awaited"
  BY NoPromises DEF Fresh
<1> QED BY SMTT(30), <1>1, <1>2 DEF OrderInv

(* What a walk adds: calls, and tasks that wait for their first turn.      *)
LEMMA OrderWalks ==
    ASSUME OrderInv, Queued \subseteq Queued',
           \A y \in Awaitables, g \in Gathers :
              Promised(y, g)' => Promised(y, g) \/ y \in Exts \cup Queued',
           \A t \in Tasks : state'[t] = "blocked" => state[t] = "blocked" /\ on'[t] = on[t],
           \A g \in Gathers : gather'[g] = "Awaited" <=> gather[g] = "Awaited",
           \A g \in Gathers : \A y : AwaitsChild(g, y)' => AwaitsChild(g, y),
           ctl'.mode # "stalled"
    PROVE  OrderInv'
<1>1. \A S \in SUBSET Waiting' : ~Circle(S)'
  BY NoNewWaits
<1>2. PICK R \in SUBSET Gathers : Fresh(R) /\ \A g \in R : gather[g] = "Awaited"
  BY DEF OrderInv
<1>3. Fresh(R)' /\ \A g \in R : gather'[g] = "Awaited"
  BY <1>2 DEF Fresh
<1> QED BY <1>1, <1>3 DEF OrderInv

(* Nobody waits for a gather that is not Awaited.                          *)
LEMMA NobodyWaits ==
    ASSUME TypeOK, Wake, ctl.mode # "deliver", NEW g \in Gathers, gather[g] # "Awaited"
    PROVE  ~Promised(g, g) /\ \A n \in Waiting : ~WaitsFor(n, g)
<1>1. gatherAwaiter[g] = NoAwaiter /\ g \notin Coros /\ g \notin Exts /\ g \in Awaitables
  BY KindsAssumption, NoneFacts DEF Wake, WakeInv, AwaitedOK
<1>2. \A h \in Gathers : ~Reports(g, h)
  BY <1>1, AwaiterFacts DEF Reports
<1>3. \A a : ~Delivered(a)
  BY DEF Delivered
<1>4. ~Promised(g, g) /\ \A h \in Gathers : ~AwaitsChild(h, g)
  BY <1>1, <1>2, <1>3 DEF Wake, ChildInv
<1>5. ASSUME NEW t \in Tasks, state[t] = "blocked", on[t] = g
      PROVE  FALSE
  BY <1>1, <1>3, <1>5, AwaiterFacts DEF Wake, WakeInv, WakeOK
<1> QED BY <1>4, <1>5, NodeFacts DEF WaitsFor

LEMMA CommitOrder ==
    ASSUME TypeOK, Sched, Walk, OrderInv, Commit, ~(\E g \in Gathers : CommitSettles(g))
    PROVE  OrderInv'
<1> USE DEF schedVars, taskVars, extVars, gatherVars
<1>1. ctl.mode = "commit"
  BY DEF Commit, CommitDuplicate, CommitCoroutine, CommitExternal, CommitNested,
         FirstSeen, Committing
<1>2. commits \in Seq(CommitFrames) /\ commits # <<>>
  BY <1>1 DEF TypeOK, Sched, ThreadInv
<1>3. PICK n \in Nat \ {0} : n = Len(commits) /\ Last(commits) = commits[n]
  BY <1>2, PopFacts
<1>4. PICK f \in CommitFrames : f = Last(commits) /\ f = commits[n] /\ n \in DOMAIN commits
  BY SMTT(30), <1>2, <1>3, LenProperties
<1>5. /\ UNCHANGED <<on, pending_children>> /\ Go("raise").mode = "raise"
      /\ \A g \in Gathers : \A x : AwaitsChild(g, x)' => AwaitsChild(g, x)
  BY SMTT(30), ControlFacts DEF Commit, CommitDuplicate, CommitCoroutine, CommitExternal, CommitNested,
                      AwaitsChild, Modes
<1>6. \A t \in Tasks : state'[t] = "blocked" => state[t] = "blocked" /\ on'[t] = on[t]
  BY <1>5 DEF Commit, CommitDuplicate, CommitCoroutine, CommitExternal, CommitNested, Spawn, TypeOK
<1>7. CASE UnwindGatherCommits
  <2>1. commits' = <<>> /\ ctl'.mode # "stalled"
    BY <1>5, <1>7 DEF UnwindGatherCommits
  <2>2. \A g \in Gathers : gather'[g] = "Awaited" => gather[g] = "Awaited"
    BY <1>7 DEF UnwindGatherCommits
  <2> QED BY <1>5, <1>6, <2>1, <2>2, OrderKept
<1>8. ASSUME UNCHANGED <<gather, ctl>>, Queued \subseteq Queued',
             NEW x \in Awaitables, NEW h, Replace(h),
             \/ h = Ready(f)
             \/ h = Pends(f, x) /\ ((\E p \in f.pending : p[1] = x) \/ x \in Exts \cup Queued')
      PROVE  OrderInv'
  <2>1. Len(commits) <= Len(commits) /\ \A i \in 1..Len(commits) : commits[i] = commits[i]
    BY SMTT(30), <1>3
  <2>2. \A y, g : Promised(y, g)' =>
                \/ Promised(y, g)
                \/ y = x /\ g = f.gather /\ h # Ready(f)
    BY <1>2, <1>4, <1>8, <2>1, PromiseFacts DEF Replace
  <2>3. (\E p \in f.pending : p[1] = x) => Promised(x, f.gather)
    BY <1>4 DEF Promised
  <2>4. \A y \in Awaitables, g \in Gathers : Promised(y, g)' => Promised(y, g) \/ y \in Exts \cup Queued'
    BY SMTT(30), <1>8, <2>2, <2>3
  <2> QED BY <1>1, <1>5, <1>6, <1>8, <2>4, OrderWalks
<1>9. ASSUME NEW x \in Awaitables, CommitDuplicate(x)
      PROVE  OrderInv'
  <2>1. Queued \subseteq Queued' /\ UNCHANGED <<gather, ctl>>
    BY <1>9 DEF CommitDuplicate, Queued
  <2> QED BY <1>4, <1>8, <1>9, <2>1 DEF CommitDuplicate
<1>10. ASSUME NEW c \in Coros, CommitCoroutine(c)
       PROVE  OrderInv'
  <2>1. CASE /\ state[c] \in {"none", "gone"} /\ Spawn(c, f.gather) /\ Replace(Pends(f, c))
             /\ UNCHANGED <<gather, ctl>>
    <3>1. Queued' = Queued \cup {c}
      BY <2>1, Enqueues, NoneFacts DEF Spawn, Alive, Sched
    <3> QED BY <1>8, <2>1, <3>1, NoneFacts
  <2> QED BY <1>4, <1>7, <1>10, <2>1 DEF CommitCoroutine
<1>11. ASSUME NEW e \in Exts, CommitExternal(e)
       PROVE  OrderInv'
  <2>1. Queued \subseteq Queued'
    BY <1>11 DEF CommitExternal, Queued
  <2>2. CASE (Replace(Ready(f)) \/ Replace(Pends(f, e))) /\ UNCHANGED <<gather, ctl>>
    BY <1>8, <2>1, <2>2, NoneFacts
  <2> QED BY <1>4, <1>7, <1>11, <2>2 DEF CommitExternal
<1>12. ASSUME NEW g \in Gathers, CommitNested(g)
       PROVE  OrderInv'
  <2>1. Queued \subseteq Queued'
    BY <1>12 DEF CommitNested, Queued
  <2>2. CASE Replace(Ready(f)) /\ UNCHANGED <<gather, ctl>>
    BY <1>8, <2>1, <2>2, NoneFacts
  <2>3. CASE /\ commits' = Append(commits, OpenGatherCommit(g, ToSlot(f.gather, g)))
             /\ UNCHANGED <<gather, ctl>>
    <3>1. f.gather \in Gathers /\ g \in Awaitables
      BY FrameFacts, NoneFacts
    <3>2. PICK k \in CommitFrames : k = OpenGatherCommit(g, ToSlot(f.gather, g)) /\ k.pending = {}
      BY <3>1, OpenFacts, AwaiterFacts
    <3>3. /\ DOMAIN commits' = 1..(n + 1) /\ commits'[n + 1] = k
          /\ \A i \in 1..n : commits'[i] = commits[i]
      BY SMTT(30), <1>2, <1>3, <2>3, <3>2, AppendProperties, LenProperties
    <3>4. DOMAIN commits = 1..n
      BY <1>2, <1>3, LenProperties
    <3>5. ASSUME NEW y, NEW h, Promised(y, h)'
          PROVE  Promised(y, h)
      <4>1. PICK i \in 1..(n + 1) : /\ commits'[i].gather = h
                                    /\ \E p \in commits'[i].pending : p[1] = y
        BY <3>3, <3>5 DEF Promised
      <4>2. i \in 1..n
        BY SMTT(30), <3>2, <3>3, <4>1
      <4> QED BY <3>3, <3>4, <4>1, <4>2 DEF Promised
    <3> QED BY <1>1, <1>5, <1>6, <2>1, <2>3, <3>5, OrderWalks
  <2> QED BY <1>4, <1>7, <1>12, <2>2, <2>3 DEF CommitNested
<1> QED BY <1>9, <1>10, <1>11, <1>12 DEF Commit

(* The innermost gather of the walk becomes Awaited.  Nobody waits for it  *)
(* yet; when its task blocks on it, what it waits for are calls, tasks     *)
(* that did not run and gathers of the same walk, none of which can wait   *)
(* for that task.                                                          *)
LEMMA SettlesOrder ==
    ASSUME TypeOK, Sched, Walk, Wake, OrderInv, NEW g \in Gathers, CommitSettles(g)
    PROVE  OrderInv'
<1>1. ctl.mode = "commit" /\ Last(commits).gather = g /\ UNCHANGED <<ready_queue, current_task>>
  BY DEF CommitSettles
<1>2. commits \in Seq(CommitFrames) /\ commits # <<>>
  BY <1>1 DEF TypeOK, Sched, ThreadInv
<1>3. PICK n \in Nat \ {0} : /\ n = Len(commits) /\ Last(commits) = commits[n]
                             /\ Front(commits) \in Seq(CommitFrames)
                             /\ Len(Front(commits)) = n - 1
                             /\ \A i \in 1..(n - 1) : Front(commits)[i] = commits[i]
  BY <1>2, PopFacts
<1>4. DOMAIN commits = 1..n /\ n \in 1..n
  BY SMTT(30), <1>2, <1>3, LenProperties
<1>5. PICK f \in CommitFrames : f = Last(commits) /\ f = commits[n] /\ f.gather = g
  BY SMTT(30), <1>1, <1>2, <1>3, <1>4
<1>6. gather[g] = "Pending"
  BY <1>3, <1>4, <1>5 DEF Walk, WalkInv, FrameOK
<1>7. PICK t \in Tasks : t = current_task /\ state[t] = "ready" /\ t \notin Queued
  BY <1>1 DEF Running, Sched, ThreadInv
<1>8. PICK R \in SUBSET Gathers : Fresh(R) /\ \A h \in R : gather[h] = "Awaited"
  BY DEF OrderInv
<1>9. g \notin R /\ Queued' = Queued /\ Queued \subseteq Tasks
  BY SMTT(30), <1>1, <1>6, <1>8 DEF Queued, Range, TypeOK
<1>10. ~Promised(g, g) /\ \A m \in Waiting : ~WaitsFor(m, g)
  BY <1>1, <1>6, NobodyWaits
<1>11. ctl'.mode # "stalled"
  BY <1>1, ControlFacts DEF CommitSettles, Modes
<1>12. \A y, d : Promised(y, d)' => \/ Promised(y, d)
                                    \/ y = g /\ f.pending # {}
  <2>1. CASE Front(commits) # <<>>
    <3>1. PICK m \in Nat \ {0} : m = n - 1 /\ m = Len(Front(commits)) /\ m <= Len(commits)
      <4>1. Len(Front(commits)) \in Nat \ {0}
        BY <1>3, <2>1, PopFacts
      <4> QED BY SMTT(30), <1>3, <4>1
    <3>2. PICK k : k = Last(Front(commits))
      OBVIOUS
    <3>3. PICK h : /\ h = IF f.pending = {} THEN Ready(k) ELSE Pends(k, g)
                   /\ commits' = Append(Front(Front(commits)), h)
      BY <1>5, <2>1, <3>2 DEF CommitSettles
    <3>4. \A i \in 1..Len(Front(commits)) : Front(commits)[i] = commits[i]
      BY <1>3, <3>1
    <3>5. h = Ready(Last(Front(commits))) \/ h = Pends(Last(Front(commits)), g)
      BY <3>2, <3>3
    <3>6. \A y, d : Promised(y, d)' => \/ Promised(y, d)
                                       \/ /\ y = g /\ d = Last(Front(commits)).gather
                                          /\ h # Ready(Last(Front(commits)))
      BY <1>3, <2>1, <3>1, <3>3, <3>4, <3>5, NoneFacts, PromiseFacts
    <3> QED BY <3>2, <3>3, <3>6
  <2>2. CASE Front(commits) = <<>>
    BY <2>2, NoPromises DEF CommitSettles
  <2> QED BY <2>1, <2>2
<1>13. CASE f.pending = {}
  <2>1. /\ gather' = [gather EXCEPT ![g] = "Completed"] /\ UNCHANGED <<state, on, pending_children>>
    BY <1>5, <1>13 DEF CommitSettles
  <2>2. \A h \in Gathers : gather'[h] = "Awaited" <=> gather[h] = "Awaited"
    BY <1>6, <2>1 DEF TypeOK
  <2>3. \A h \in Gathers : \A y : AwaitsChild(h, y)' => AwaitsChild(h, y)
    BY <2>1 DEF AwaitsChild
  <2> QED BY <1>9, <1>11, <1>12, <1>13, <2>1, <2>2, <2>3, OrderWalks
<1>14. CASE f.pending # {}
  <2>1. /\ gather' = [gather EXCEPT ![g] = "Awaited"]
        /\ pending_children' = [pending_children EXCEPT ![g] = f.pending]
    BY <1>5, <1>14 DEF CommitSettles
  <2>2. /\ \A h \in Gathers \ {g} : \A y : AwaitsChild(h, y)' <=> AwaitsChild(h, y)
        /\ \A y : AwaitsChild(g, y)' => Promised(y, g)
    BY <1>4, <1>5, <2>1 DEF AwaitsChild, Promised, TypeOK
  <2>3. /\ gather'[g] = "Awaited" /\ \A h \in Gathers \ {g} : gather'[h] = gather[h]
    BY <2>1 DEF TypeOK
  <2>4. \A y : Promised(y, g) => y \in Awaitables
    <3>1. \A i \in DOMAIN commits : commits[i] \in CommitFrames
      BY SMTT(30), <1>2, <1>3, <1>4
    <3>2. \A i \in DOMAIN commits : commits[i].pending \subseteq Awaitables \X Nat
      BY <3>1, FrameFacts
    <3> QED BY <3>2 DEF Promised
  <2>5. \E Q \in SUBSET Gathers : Fresh(Q)' /\ \A h \in Q : gather'[h] = "Awaited"
    <3>1. Fresh(R \cup {g})'
      BY <1>8, <1>9, <1>12, <2>2 DEF Fresh
    <3>2. \A h \in R \cup {g} : gather'[h] = "Awaited"
      BY <1>8, <2>3
    <3> QED BY <3>1, <3>2
  <2>6. ASSUME NEW S \in SUBSET Waiting', Circle(S)'
        PROVE  FALSE
    <3>1. /\ S # {} /\ \A m \in S : \E d \in S : WaitsFor(m, d)'
      BY <2>6 DEF Circle
    <3>2. \/ UNCHANGED <<state, on>>
          \/ BlockCurrentOn(t, g)
      BY <1>7 DEF CommitSettles
    <3>3. /\ \A u \in Tasks \ {t} : state'[u] = state[u] /\ on'[u] = on[u]
          /\ state'[t] = "blocked" => on'[t] = g
      BY <1>7, <3>2 DEF BlockCurrentOn, TypeOK
    <3>4. \A m \in S : \/ m \in Tasks /\ state'[m] = "blocked" /\ m \notin Gathers
                       \/ m \in Gathers /\ gather'[m] = "Awaited" /\ m \notin Tasks
      BY NodeFacts DEF Waiting
    <3>5. \A m \in S \ {g, t} : m \in Waiting /\ \A d : WaitsFor(m, d)' => WaitsFor(m, d)
      BY <2>2, <2>3, <3>3, <3>4 DEF WaitsFor, Waiting
    <3>6. \A d : WaitsFor(g, d)' => Promised(d, g)
      BY <2>2, NodeFacts DEF WaitsFor
    <3>7. CASE t \notin S
      <4>1. \A m \in S \ {g} : \E d \in S \ {g} : WaitsFor(m, d)
        BY <1>10, <3>1, <3>5, <3>7
      <4>2. S \ {g} # {}
        BY <1>10, <3>1, <3>6
      <4>3. Circle(S \ {g}) /\ S \ {g} \subseteq Waiting
        BY <3>5, <3>7, <4>1, <4>2 DEF Circle
      <4> QED BY <4>3 DEF OrderInv
    <3>8. CASE t \in S
      <4>1. g \in S
        BY <3>1, <3>3, <3>4, <3>8 DEF WaitsFor
      <4>2. ASSUME NEW y \in S, y \in Exts \cup Queued \cup R
            PROVE  y \in R
        <5>1. y \notin Exts
          BY <3>4, NodeFacts
        <5>2. ASSUME y \in Queued
              PROVE  FALSE
          <6>1. y \in Tasks /\ y # t /\ state[y] # "blocked"
            BY <1>7, <1>9, <5>2 DEF Sched, QueueInv, Alive
          <6> QED BY <3>3, <3>4, <6>1
        <5> QED BY <4>2, <5>1, <5>2
      <4>3. PICK y \in S : WaitsFor(g, y)'
        BY <3>1, <4>1
      <4>4. y \in R
        <5>1. Promised(y, g) /\ y \in Awaitables
          BY <2>4, <3>6, <4>3
        <5> QED BY <1>8, <4>2, <5>1 DEF Fresh
      <4>5. ASSUME NEW m \in S \cap R
            PROVE  \E d \in S \cap R : WaitsFor(m, d)
        <5>1. PICK d \in S : WaitsFor(m, d)'
          BY <3>1
        <5>2. m \in Gathers /\ m # g /\ AwaitsChild(m, d)
          BY <1>9, <2>2, <5>1, NodeFacts DEF WaitsFor
        <5>3. d \in Awaitables
          BY <5>2, ChildFacts
        <5>4. d \in R
          BY <1>8, <4>2, <5>2, <5>3 DEF Fresh
        <5> QED BY <5>2, <5>4 DEF WaitsFor
      <4>6. S \cap R \subseteq Waiting /\ Circle(S \cap R)
        BY <1>8, <4>4, <4>5 DEF Waiting, Circle
      <4> QED BY <4>6 DEF OrderInv
    <3> QED BY <3>7, <3>8
  <2> QED BY <1>11, <2>5, <2>6 DEF OrderInv
<1> QED BY <1>13, <1>14

(* A task that awaits a call waits for the host alone.                     *)
LEMMA BytecodeOrder ==
    ASSUME TypeOK, Sched, OrderInv, NEW t \in Tasks, Bytecode(t)
    PROVE  OrderInv'
<1> USE DEF schedVars, taskVars, extVars, gatherVars
<1>1. ctl.mode = "run" /\ ~is_parked /\ current_task = t
  BY DEF Bytecode, ValueArrives, FrameReturns, Raises, CallFuture, CallEager, AwaitExternal,
         AwaitCoroutine, AwaitGather, Executing
<1>2. commits = <<>> /\ state[t] = "ready"
  BY <1>1 DEF Running, Sched, ThreadInv
<1>3. Go("raise").mode = "raise" /\ Go("commit").mode = "commit" /\ Select("yield").mode = "select"
  BY ControlFacts DEF Modes
<1>4. UNCHANGED <<gather, pending_children>>
  BY DEF Bytecode, ValueArrives, FrameReturns, Raises, CallFuture, CallEager, AwaitExternal,
         AwaitCoroutine, AwaitGather
<1>5. \A g \in Gathers : \A y : AwaitsChild(g, y)' => AwaitsChild(g, y)
  BY <1>4 DEF AwaitsChild
<1>6. ctl'.mode # "stalled"
  BY <1>1, <1>3 DEF Bytecode, ValueArrives, FrameReturns, Raises, CallFuture, CallEager,
         AwaitExternal, AwaitCoroutine, AwaitGather
<1>7. CASE state' = state
  <2>1. \A u \in Tasks \ {t} : on'[u] = on[u]
    BY <1>7 DEF Bytecode, ValueArrives, FrameReturns, Raises, CallFuture, CallEager,
           AwaitExternal, AwaitCoroutine, AwaitGather, BlockCurrentOn, TypeOK
  <2>2. commits' = <<>> \/ \E g \in Gathers, u \in Tasks : commits' = <<OpenGatherCommit(g, ToTask(u))>>
    BY <1>2 DEF Bytecode, ValueArrives, FrameReturns, Raises, CallFuture, CallEager,
           AwaitExternal, AwaitCoroutine, AwaitGather
  <2>3. \A u \in Tasks : state'[u] = "blocked" => state[u] = "blocked" /\ on'[u] = on[u]
    BY <1>2, <1>7, <2>1
  <2> QED BY <1>4, <1>5, <1>6, <2>2, <2>3, OrderKept
<1>8. CASE state' # state
  <2>1. PICK e \in Exts : BlockCurrentOn(t, e) /\ commits' = commits
    BY <1>8 DEF Bytecode, ValueArrives, FrameReturns, Raises, CallFuture, CallEager,
           AwaitExternal, AwaitCoroutine, AwaitGather
  <2>2. /\ on'[t] = e /\ \A u \in Tasks \ {t} : state'[u] = state[u] /\ on'[u] = on[u]
    BY <2>1, NoneFacts DEF BlockCurrentOn, TypeOK
  <2>3. ASSUME NEW S \in SUBSET Waiting', Circle(S)'
        PROVE  FALSE
    <3>1. S # {} /\ \A m \in S : \E d \in S : WaitsFor(m, d)'
      BY <2>3 DEF Circle
    <3>2. e \notin S
      BY NodeFacts DEF Waiting
    <3>3. t \notin S
      BY SMTT(30), <2>2, <3>1, <3>2, NodeFacts DEF WaitsFor
    <3>4. \A m \in S : m \in Waiting /\ \A d : WaitsFor(m, d)' => WaitsFor(m, d)
      BY <1>4, <1>5, <2>2, <3>3 DEF Waiting, WaitsFor
    <3>5. Circle(S) /\ S \in SUBSET Waiting
      BY <3>1, <3>4 DEF Circle
    <3> QED BY <3>5 DEF OrderInv
  <2>4. Fresh({})' /\ \A g \in {} : gather'[g] = "Awaited"
    BY <1>2, <2>1, NoPromises DEF Fresh
  <2> QED BY SMTT(30), <1>6, <2>3, <2>4 DEF OrderInv
<1> QED BY <1>7, <1>8

(* A delivery only ends waiting.                                           *)
LEMMA DeliveryOrder ==
    ASSUME TypeOK, Sched, OrderInv, Delivery
    PROVE  OrderInv'
<1> USE DEF schedVars, taskVars, extVars, gatherVars
<1>1. ctl \in Controls /\ ctl.after # "stalled"
  BY DEF TypeOK, Controls
<1>2. \A t \in Tasks \cup {None} : DeliveryEnds(t) => ctl'.mode # "stalled"
  BY <1>1 DEF DeliveryEnds, Controls
<1>3. ASSUME ctl.mode = "deliver", commits' = commits, on' = on, ctl'.mode # "stalled",
             \A t \in Tasks : state'[t] = "blocked" => state[t] = "blocked",
             \A g \in Gathers : gather'[g] = "Awaited" => gather[g] = "Awaited",
             \A g \in Gathers : pending_children'[g] \subseteq pending_children[g]
      PROVE  OrderInv'
  <2>1. commits = <<>>
    BY <1>3 DEF Sched, ThreadInv
  <2>2. \A g \in Gathers : \A y : AwaitsChild(g, y)' => AwaitsChild(g, y)
    BY <1>3 DEF AwaitsChild
  <2> QED BY <1>3, <2>1, <2>2, OrderKept
<1>4. ASSUME NEW t \in Tasks, DeliverToTask(t)
      PROVE  OrderInv'
  <2>1. ctl.mode = "deliver" /\ UNCHANGED <<commits, on, gather, pending_children>>
    BY <1>4 DEF DeliverToTask, Delivering
  <2>2. ctl'.mode # "stalled"
    BY <1>2, <1>4 DEF DeliverToTask
  <2>3. \A u \in Tasks : state'[u] = "blocked" => state[u] = "blocked"
    BY <1>4 DEF DeliverToTask, MakeReady, TypeOK
  <2> QED BY <1>3, <2>1, <2>2, <2>3
<1>5. ASSUME NEW g \in Gathers, NEW x \in Awaitables, ResolveChild(g, x) \/ FailGather(g, x)
      PROVE  OrderInv'
  <2>1. ctl.mode = "deliver" /\ UNCHANGED <<commits, on, state>>
    BY <1>5 DEF ResolveChild, FailGather, Delivering
  <2>2. \/ DeliveryEnds(None)
        \/ \E a, v : ctl' = [ctl EXCEPT !.awaiter = a, !.value = v] \/ ctl' = [ctl EXCEPT !.awaiter = a]
    BY <1>5 DEF ResolveChild, FailGather
  <2>3. ctl'.mode # "stalled"
    BY <1>1, <1>2, <2>1, <2>2 DEF Controls
  <2>4. gather' = gather \/ \E o \in {"Completed", "Failed"} : gather' = [gather EXCEPT ![g] = o]
    BY <1>5 DEF ResolveChild, FailGather
  <2>5. \A h \in Gathers : gather'[h] = "Awaited" => gather[h] = "Awaited"
    BY <2>4 DEF TypeOK
  <2>6. \/ pending_children' = pending_children
        \/ pending_children' = [pending_children EXCEPT ![g] = {}]
        \/ pending_children' = [pending_children EXCEPT ![g] =
                                  @ \ {p \in pending_children[g] : p[1] = x}]
    BY <1>5 DEF ResolveChild, FailGather
  <2>7. \A h \in Gathers : pending_children'[h] \subseteq pending_children[h]
    BY <2>6 DEF TypeOK
  <2> QED BY <1>3, <2>1, <2>3, <2>5, <2>7
<1> QED BY <1>4, <1>5 DEF Delivery

LEMMA ExitsOrder ==
    ASSUME TypeOK, Sched, OrderInv, Exits
    PROVE  OrderInv'
<1> USE DEF schedVars, taskVars, extVars, gatherVars
<1>1. /\ UNCHANGED <<gather, pending_children, commits>>
      /\ ctl.mode \in {"run", "raise", "exit"}
  BY DEF Exits, MainReturns, RunFails, TaskExits, TaskReturns, TaskFails, Caught, Executing
<1>2. commits = <<>>
  BY <1>1 DEF Sched, ThreadInv
<1>3. \A m \in Modes : Go(m).mode = m
  BY SMTT(30), ControlFacts
<1>4. ctl'.mode # "stalled"
  BY SMTT(30), <1>3 DEF Exits, MainReturns, RunFails, TaskExits, TaskReturns, TaskFails, Caught,
         Deliver, Modes
<1>5. \A t \in Tasks : state'[t] = "blocked" => state[t] = "blocked" /\ on'[t] = on[t]
  <2>1. ASSUME NEW t \in Tasks, NEW k \in 1..(RecursionLimit + 1), Caught(t, k)
        PROVE  \A u \in Tasks : state'[u] = "blocked" => state[u] = "blocked" /\ on'[u] = on[u]
    <3>1. state' = state /\ state[t] = "ready" /\ \A u \in Tasks \ {t} : on'[u] = on[u]
      BY <2>1 DEF Caught, Sched, ThreadInv, Running, TypeOK
    <3> QED BY <3>1
  <2>2. CASE MainReturns \/ RunFails \/ \E c \in Coros : TaskFails(c)
    BY <2>2 DEF MainReturns, RunFails, TaskFails
  <2>3. CASE TaskExits \/ \E c \in Coros : TaskReturns(c)
    BY <2>3 DEF TaskExits, TaskReturns, TypeOK
  <2> QED BY <2>1, <2>2, <2>3 DEF Exits
<1>6. \A g \in Gathers : \A y : AwaitsChild(g, y)' => AwaitsChild(g, y)
  BY <1>1 DEF AwaitsChild
<1> QED BY <1>1, <1>2, <1>4, <1>5, <1>6, OrderKept

(* A selection that finds nothing to run finds a pending call.             *)
LEMMA SelectionOrder ==
    ASSUME TypeOK, Sched, Walk, Wake, OrderInv, Selection
    PROVE  OrderInv'
<1> USE DEF schedVars, taskVars, extVars, gatherVars
<1>1. /\ UNCHANGED <<gather, pending_children, commits, on>>
      /\ ctl.mode \in {"run", "select"}
  BY DEF Selection, NothingToRun, RerunsModule, ActivateLoaded, ActivateSaved, ActivateNew,
         ActivateStale, Selected
<1>2. commits = <<>>
  BY <1>1 DEF Sched, ThreadInv
<1>3. \A m \in Modes : Go(m).mode = m
  BY SMTT(30), ControlFacts
<1>4. CASE NothingToRun
  <2>1. pending_externals # {} /\ state' = state
    BY <1>4, NotStuck DEF NothingToRun
  <2>2. ctl'.mode # "stalled"
    BY <1>3, <1>4, <2>1 DEF NothingToRun, Modes
  <2>3. \A g \in Gathers : \A y : AwaitsChild(g, y)' => AwaitsChild(g, y)
    BY <1>1 DEF AwaitsChild
  <2> QED BY <1>1, <1>2, <2>1, <2>2, <2>3, OrderKept
<1>5. CASE ~NothingToRun
  <2>1. \A t \in Tasks : state'[t] = "blocked" => state[t] = "blocked"
    BY <1>5, NoneFacts DEF Selection, RerunsModule, ActivateLoaded, ActivateSaved, ActivateNew,
       ActivateStale, TypeOK
  <2>2. ctl'.mode # "stalled"
    BY SMTT(30), <1>3, <1>5 DEF Selection, RerunsModule, ActivateLoaded, ActivateSaved, ActivateNew,
       ActivateStale, Deliver, Select, Modes
  <2>3. \A g \in Gathers : \A y : AwaitsChild(g, y)' => AwaitsChild(g, y)
    BY <1>1 DEF AwaitsChild
  <2> QED BY <1>1, <1>2, <2>1, <2>2, <2>3, OrderKept
<1> QED BY <1>4, <1>5

LEMMA HostOrder ==
    ASSUME TypeOK, Sched, OrderInv, Host
    PROVE  OrderInv'
<1> USE DEF schedVars, taskVars, extVars, gatherVars
<1>1. /\ UNCHANGED <<gather, pending_children, commits, on, state>>
      /\ ctl.mode = "host"
  BY DEF Host, ResolveFuture, FailFuture, Settle, HostResumes, HostAborts
<1>2. commits = <<>>
  BY <1>1 DEF Sched, ThreadInv
<1>3. Go("done").mode = "done"
  BY ControlFacts DEF Modes
<1>4. ctl'.mode # "stalled"
  BY SMTT(30), <1>1, <1>3 DEF Host, ResolveFuture, FailFuture, Settle, HostResumes, HostAborts, Deliver, Select
<1>5. \A g \in Gathers : \A y : AwaitsChild(g, y)' => AwaitsChild(g, y)
  BY <1>1 DEF AwaitsChild
<1> QED BY <1>1, <1>2, <1>4, <1>5, OrderKept

LEMMA StepOrder == TypeOK /\ Sched /\ Walk /\ Wake /\ OrderInv /\ [Next]_vars => OrderInv'
<1> SUFFICES ASSUME TypeOK, Sched, Walk, Wake, OrderInv, [Next]_vars PROVE OrderInv'
  OBVIOUS
<1>1. CASE UNCHANGED vars
  <2>1. UNCHANGED <<state, on, ready_queue, gather, pending_children, commits, ctl>>
    BY <1>1 DEF vars, schedVars, taskVars, gatherVars
  <2>2. Queued \subseteq Queued' /\ \A y, g : Promised(y, g)' => Promised(y, g)
    BY <2>1 DEF Queued, Promised
  <2>3. \A g \in Gathers : \A y : AwaitsChild(g, y)' => AwaitsChild(g, y)
    BY <2>1 DEF AwaitsChild
  <2>4. ctl'.mode # "stalled"
    BY <2>1 DEF OrderInv
  <2> QED BY <2>1, <2>2, <2>3, <2>4, OrderWalks
<1>2. CASE Commit
  BY <1>2, CommitOrder, SettlesOrder
<1> QED BY <1>1, <1>2, BytecodeOrder, DeliveryOrder, ExitsOrder, SelectionOrder, HostOrder DEF Next

LEMMA AlwaysOrder == Spec => [](TypeOK /\ Sched /\ Walk /\ Wake /\ OrderInv)
<1>1. Init => OrderInv
  <2> SUFFICES ASSUME Init PROVE OrderInv
    OBVIOUS
  <2>1. Waiting = {}
    BY DEF Init, Waiting
  <2>2. \A S \in SUBSET Waiting : ~Circle(S)
    BY <2>1 DEF Circle
  <2>3. \A y, g : ~Promised(y, g)
    BY SMTT(30) DEF Init, Promised
  <2>4. Fresh({}) /\ \A g \in {} : gather[g] = "Awaited"
    BY <2>3 DEF Fresh
  <2>5. ctl.mode # "stalled"
    BY DEF Init, Select
  <2> QED BY SMTT(30), <2>2, <2>4, <2>5 DEF OrderInv
<1> QED BY <1>1, AlwaysWake, StepOrder, PTL DEF Spec

(* The scheduler never stalls, whatever the program and the host do: when  *)
(* control is with the host a call is pending or a task is ready, and the  *)
(* main task can be reloaded (switch_or_yield, yield_if_parked,            *)
(* resume_with_resolved_futures and abort).                                *)
THEOREM SchedulerNeverStalls == Spec => []NoStall
<1>1. TypeOK /\ Sched /\ Walk /\ Wake /\ OrderInv /\ FramesInv => NoStall
  <2> SUFFICES ASSUME TypeOK, Sched, Walk, Wake, OrderInv, FramesInv PROVE NoStall
    OBVIOUS
  <2>1. ctl.mode # "stalled"
    BY DEF OrderInv
  <2>2. ctl.mode = "host" => pending_externals # {} \/ ready_queue # <<>>
    BY NotStuck
  <2>3. ASSUME ctl.mode = "host", is_parked
        PROVE  /\ state[Main] \in {"blocked", "ready", "raise"}
               /\ frames[Main] # <<>> /\ frames[Main][1] = Main
    <3>1. current_task = None
      BY <2>3 DEF Sched, ThreadInv, Quiet
    <3>2. state[Main] \in {"blocked", "ready", "raise"}
      BY DEF Sched, TaskInv
    <3> QED BY <3>1, <3>2, NoneFacts DEF FramesInv, Based
  <2> QED BY <2>1, <2>2, <2>3 DEF NoStall
<1> QED BY <1>1, AlwaysOrder, AlwaysFrames, PTL
=============================================================================
