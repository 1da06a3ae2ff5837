---------------------------- MODULE ControlFlow ----------------------------
(***************************************************************************)
(* The control flow of compiled code: how the compiler lays out loops,     *)
(* `try`, `with`, `break`, `continue`, `return` and `raise`                *)
(* (bytecode/compiler.rs, bytecode/builder.rs), and how the VM runs the    *)
(* result with its operand stack, exception table and exception stack      *)
(* (bytecode/vm/mod.rs, vm/exceptions.rs, vm/context_manager.rs).          *)
(*                                                                         *)
(* An instruction takes one unit of code.  An expression that may do       *)
(* anything is one `Call`, one that does nothing is one `Load`; iterables, *)
(* context expressions and exception types are of the second kind, and an  *)
(* exception type that fails does so in CheckExcMatch.  The truth of a     *)
(* result is known; `raise` is the bare one, the others are calls that     *)
(* fail.  A called Python function is not stepped through: it returns, or  *)
(* its exception reaches this frame.  Byte sizes and the limits of         *)
(* operands are left out, `finally` copies are counted.                    *)
(***************************************************************************)
EXTENDS PythonControl, TLC

CONSTANTS
    Names,              \* names of programs
    Program(_),         \* the program of a name; its body is node 1's
    MaxFinallyCopies    \* MAX_FINALLY_COPIES

-----------------------------------------------------------------------------
(* A compilation is a record: the code and exception table so far, the     *)
(* operand `depth` (Dead after a terminator), the enclosing fblocks, what  *)
(* is left `todo`, the labels of jumps, the fblocks `closed` and those     *)
(* `popped` by the unwinds in progress.  A compile_ function of the        *)
(* compiler is the list of the steps it makes.                             *)
Dead == -1
NoValue == <<"none", 0>>
Fresh ==
    [code |-> <<>>, table |-> <<>>, depth |-> 0, fblocks |-> <<>>, finally_copies |-> 0,
     todo |-> <<>>, labels |-> <<>>, closed |-> <<>>, popped |-> <<>>]
IsDead(c) == c.depth = Dead
Here(c) == Len(c.code) + 1
Todo(c, steps) == [c EXCEPT !.todo = steps \o @]

(* The steps.  A key names a label or a region of one construct.           *)
Op(op) == [do |-> "emit", op |-> op, at |-> NoValue]
OpAt(op, at) == [do |-> "emit", op |-> op, at |-> at]
JumpOp(op, at, key) == [do |-> "jump", op |-> op, at |-> at, key |-> key]
Jump(op, key) == JumpOp(op, NoValue, key)
JumpTo(to) == [do |-> "jump_to", to |-> to]
PatchJump(key) == [do |-> "patch", key |-> key]
Block(ids) == [do |-> "block", ids |-> ids]
FinallyCopy(n) == [do |-> "finally", n |-> n]
NewRegion(depth) == [do |-> "region", depth |-> depth]
Push(block) == [do |-> "push", block |-> block]
PopBlock(key) == [do |-> "pop", key |-> key]
EndRegion(key) == [do |-> "end", key |-> key]
HandlerHere(key) == [do |-> "handler", key |-> key]
AddEntries(key, kind) == [do |-> "entries", key |-> key, kind |-> kind]
StartUnwind == [do |-> "start_unwind"]
EmitUnwind(count, keep) == [do |-> "unwind", count |-> count, keep |-> keep]
Restore == [do |-> "restore"]
BreakJump(key) == [do |-> "break", key |-> key]
PatchBreaks(key) == [do |-> "breaks", key |-> key]

-----------------------------------------------------------------------------
(* CodeBuilder.                                                            *)
Terminators == {"ReturnValue", "Reraise", "Jump"}
StackEffect(op) ==
    CASE op \in {"Load", "Call", "ForIter", "BeforeWith", "WithExceptStart"} -> 1
      [] op \in {"Pop", "StoreName", "JumpIfFalse", "JumpIfTrue", "ReturnValue"} -> -1
      [] OTHER -> 0
TakenEffect(op) == IF op = "Jump" THEN 0 ELSE -1
Emit(c, op, at, to) ==
    IF IsDead(c) THEN c
    ELSE [c EXCEPT !.code = Append(@, [op |-> op, at |-> at, to |-> to, depth |-> c.depth]),
                   !.depth = IF op \in Terminators THEN Dead ELSE @ + StackEffect(op)]

(* A label is where the jump is, 0 in dead code, and the depth at its      *)
(* target.                                                                 *)
Label(c, op) ==
    IF IsDead(c) THEN [at |-> 0, depth |-> Dead] ELSE [at |-> Here(c), depth |-> c.depth + TakenEffect(op)]
Patch(c, label) ==
    IF label.at = 0 THEN c
    ELSE [c EXCEPT !.code[label.at].to = Here(c), !.depth = IF @ = Dead THEN label.depth ELSE @]

-----------------------------------------------------------------------------
(* Region: the ranges of code a construct protects.                        *)
OpenRegion(start, depth, excs) ==
    [ranges |-> <<>>, open |-> start, depth |-> depth, excs |-> excs, end |-> 0, handler |-> 0]
Interrupt(r, at) ==
    [r EXCEPT !.open = 0, !.ranges = IF r.open \in {0, at} THEN @ ELSE Append(@, <<r.open, at>>)]
(* Mutant of Resume: the range is never split, so that cleanup code stays  *)
(* inside the region it leaves.                                            *)
ResumeUnsplit(r, at) ==
    IF r.ranges = <<>> THEN [r EXCEPT !.open = at]
    ELSE [r EXCEPT !.open = Last(r.ranges)[1], !.ranges = Front(@)]
Resume(r, at) == [r EXCEPT !.open = at]
Entries(r, kind) ==
    LET ranges == Interrupt(r, r.end).ranges
    IN [i \in DOMAIN ranges |-> [start |-> ranges[i][1], end |-> ranges[i][2], handler |-> r.handler,
                                 depth |-> r.depth, excs |-> r.excs, kind |-> kind]]

(* FBlock: the constructs around the point being compiled.  `above` is how *)
(* far the region's operand depth is above the depth where it opens.       *)
FBlock(kind, n) ==
    [kind |-> kind, n |-> n, above |-> 0, named |-> FALSE, start |-> 0, breaks |-> <<>>,
     region |-> OpenRegion(0, 0, 0)]
HasRegion(b) == b.kind \in {"TryExcept", "FinallyTry", "ExceptHandler", "With"}
IsLoop(b) == b.kind \in {"ForLoop", "WhileLoop"}
ExcStackCount(c) == Len(SelectSeq(c.fblocks, LAMBDA b : b.kind \in {"ExceptHandler", "FinallyEnd"}))
Opened(c, b) ==
    IF HasRegion(b) THEN [b EXCEPT !.region = OpenRegion(Here(c), c.depth + b.above, ExcStackCount(c))]
    ELSE [b EXCEPT !.start = Here(c)]
InnermostLoop(c) == SelectLastInSeq(c.fblocks, IsLoop)

-----------------------------------------------------------------------------
(* emit_block_unwind, for a block that is off the stack: its cleanup.      *)
ClearHandlerName(named) == IF named THEN <<Op("ClearName")>> ELSE <<>>
Rot2If(keep) == IF keep THEN <<Op("Rot2")>> ELSE <<>>
(* Mutant of BlockUnwind: a `finally` that exits early leaves the pending  *)
(* return value behind.                                                    *)
BlockUnwindLeavesValue(b, keep) ==
    CASE b.kind \in {"WhileLoop", "TryExcept"} -> <<>>
      [] b.kind \in {"ForLoop", "PopValue"} -> Rot2If(keep) \o <<Op("Pop")>>
      [] b.kind = "FinallyTry" -> <<FinallyCopy(b.n)>>
      [] b.kind = "ExceptHandler" -> <<Op("ClearException")>> \o ClearHandlerName(b.named)
      [] b.kind = "FinallyEnd" -> <<Op("ClearException")>>
      [] b.kind = "With" -> Rot2If(keep) \o <<Op("WithExit"), Op("Pop")>>
BlockUnwind(b, keep) ==
    CASE b.kind \in {"WhileLoop", "TryExcept"} -> <<>>
      [] b.kind \in {"ForLoop", "PopValue"} -> Rot2If(keep) \o <<Op("Pop")>>
      [] b.kind = "FinallyTry" ->
            IF keep THEN <<Push(FBlock("PopValue", b.n)), FinallyCopy(b.n), PopBlock(<<b.n, 0, "value">>)>>
                    ELSE <<FinallyCopy(b.n)>>
      [] b.kind = "ExceptHandler" -> <<Op("ClearException")>> \o ClearHandlerName(b.named)
      [] b.kind = "FinallyEnd" -> <<Op("ClearException")>>
      [] b.kind = "With" -> Rot2If(keep) \o <<Op("WithExit"), Op("Pop")>>

(* One turn of emit_unwind: the block's region ends where its cleanup      *)
(* begins.                                                                 *)
Unwind(c, count, keep) ==
    LET b == Last(c.fblocks)
        left == IF HasRegion(b) THEN [b EXCEPT !.region = Interrupt(@, Here(c))] ELSE b
    IN IF count = 0 THEN c
       ELSE Todo([c EXCEPT !.fblocks = Front(@), !.popped[Len(c.popped)] = Append(@, left)],
                 BlockUnwind(b, keep) \o <<EmitUnwind(count - 1, keep)>>)
RestoreBlocks(c) ==
    LET Reopened(b) == IF HasRegion(b) THEN [b EXCEPT !.region = Resume(@, Here(c))] ELSE b
        blocks == Reverse(Last(c.popped))
    IN [c EXCEPT !.popped = Front(@),
                 !.fblocks = @ \o [i \in DOMAIN blocks |-> Reopened(blocks[i])]]

CompileBreak(c, n) ==
    <<StartUnwind, EmitUnwind(Len(c.fblocks) - InnermostLoop(c) + 1, FALSE), Jump("Jump", <<n, 0, "break">>), Restore,
      BreakJump(<<n, 0, "break">>)>>
CompileContinue(c) ==
    <<StartUnwind, EmitUnwind(Len(c.fblocks) - InnermostLoop(c), FALSE), JumpTo(c.fblocks[InnermostLoop(c)].start), Restore>>
(* The Nop keeps the place where a call resumes inside its region.         *)
ReturnPadding(c, st) ==
    IF st.call /\ \E i \in DOMAIN c.fblocks : HasRegion(c.fblocks[i]) THEN <<Op("Nop")>> ELSE <<>>
CompileReturn(c, st, n) ==
    <<IF st.call THEN OpAt("Call", <<"call", n>>) ELSE Op("Load")>> \o ReturnPadding(c, st)
    \o <<StartUnwind, EmitUnwind(Len(c.fblocks), TRUE), Op("ReturnValue"), Restore>>

-----------------------------------------------------------------------------
CompileIf(st, n) ==
    <<OpAt("Call", <<"test", n>>), Jump("JumpIfFalse", <<n, 0, "else">>), Block(st.body)>> \o
    IF st.orelse = <<>> THEN <<PatchJump(<<n, 0, "else">>)>>
    ELSE <<Jump("Jump", <<n, 0, "end">>), PatchJump(<<n, 0, "else">>), Block(st.orelse), PatchJump(<<n, 0, "end">>)>>

(* The target of a `for` drops its item.                                   *)
LoopEnd(st, n) ==
    <<PatchJump(<<n, 0, "end">>), PopBlock(<<n, 0, "loop">>), Block(st.orelse), PatchBreaks(<<n, 0, "loop">>)>>
CompileFor(c, st, n) ==
    <<OpAt("Load", <<"iter", n>>), Op("GetIter"), Push(FBlock("ForLoop", n)),
      JumpOp("ForIter", <<"next", n>>, <<n, 0, "end">>), Op("Pop"), Block(st.body), JumpTo(Here(c) + 2)>>
    \o LoopEnd(st, n)
CompileWhile(c, st, n) ==
    <<Push(FBlock("WhileLoop", n)), OpAt("Call", <<"test", n>>), Jump("JumpIfFalse", <<n, 0, "end">>),
      Block(st.body), JumpTo(Here(c))>>
    \o LoopEnd(st, n)

(* One clause of compile_exception_handlers, over operand depth `depth`.   *)
CompileHandler(h, n, i, depth) ==
    LET body == <<n, i, "body">> IN
    (IF h.typed THEN <<Op("Load"), OpAt("CheckExcMatch", <<"match", n>>), Jump("JumpIfFalse", <<n, i, "no">>)>>
     ELSE <<>>)
    \o <<IF h.named THEN Op("StoreName") ELSE Op("Pop"),
         Push([FBlock("ExceptHandler", n) EXCEPT !.named = h.named]), Block(h.body), PopBlock(body), EndRegion(body)>>
    \o ClearHandlerName(h.named)
    \o <<Op("ClearException"), Jump("Jump", <<n, i, "end">>), HandlerHere(body), NewRegion(depth)>>
    \o ClearHandlerName(h.named)
    \o <<Op("Reraise"), AddEntries(body, "Cleanup")>>
    \o (IF h.typed THEN <<PatchJump(<<n, i, "no">>)>> ELSE <<>>)

CompileTryExcept(c, st, n) ==
    LET body == <<n, 0, "try">>
        clauses == [i \in DOMAIN st.handlers |-> CompileHandler(st.handlers[i], n, i, c.depth)]
    IN <<Push(FBlock("TryExcept", n)), Block(st.body), PopBlock(body), Jump("Jump", <<n, 0, "else">>),
         EndRegion(body), HandlerHere(body), NewRegion(c.depth + 1)>>
       \o FlattenSeq(clauses)
       \o <<Op("Reraise"), PatchJump(<<n, 0, "else">>), Block(st.orelse)>>
       \o [i \in DOMAIN st.handlers |-> PatchJump(<<n, i, "end">>)]
       \o <<AddEntries(body, "Consuming")>>

CompileTryFinally(c, st, n) ==
    LET body == <<n, 0, "finally">> IN
    <<Push(FBlock("FinallyTry", n))>>
    \o (IF st.handlers = <<>> THEN <<Block(st.body)>> ELSE CompileTryExcept(c, st, n))
    \o <<PopBlock(body), Jump("Jump", <<n, 0, "normal">>), EndRegion(body), HandlerHere(body), NewRegion(c.depth),
         Push(FBlock("FinallyEnd", n)), FinallyCopy(n), PopBlock(<<n, 0, "finally_end">>), Op("Reraise"),
         PatchJump(<<n, 0, "normal">>), FinallyCopy(n), AddEntries(body, "Cleanup")>>

(* The region of a `with` body is above its context manager, and stops     *)
(* before `__exit__`.                                                      *)
CompileWith(c, st, n) ==
    LET body == <<n, 0, "with">> IN
    <<OpAt("Load", <<"ctx", n>>), OpAt("BeforeWith", <<"enter", n>>), Op("Nop"),
      Push([FBlock("With", n) EXCEPT !.above = -1]), Op("Pop"), Block(st.body), PopBlock(body), EndRegion(body),
      Op("WithExit"), Op("Pop"), Jump("Jump", <<n, 0, "end">>),
      HandlerHere(body), NewRegion(c.depth + 2), Op("WithExceptStart"), Jump("JumpIfTrue", <<n, 0, "swallow">>),
      Op("Pop"), Op("Pop"), Op("Reraise"),
      PatchJump(<<n, 0, "swallow">>), Op("Pop"), Op("Pop"), Op("ClearException"),
      PatchJump(<<n, 0, "end">>), AddEntries(body, "Consuming")>>

CompileStmt(c, st, n) ==
    CASE st.op = "call" -> <<OpAt("Call", <<"call", n>>), Op("Pop")>>
      [] st.op = "raise" -> <<Op("Reraise")>>
      [] st.op = "return" -> CompileReturn(c, st, n)
      [] st.op = "break" -> CompileBreak(c, n)
      [] st.op = "continue" -> CompileContinue(c)
      [] st.op = "if" -> CompileIf(st, n)
      [] st.op = "for" -> CompileFor(c, st, n)
      [] st.op = "while" -> CompileWhile(c, st, n)
      [] st.op = "with" -> CompileWith(c, st, n)
      [] st.op = "try" -> IF st.finally = <<>> THEN CompileTryExcept(c, st, n) ELSE CompileTryFinally(c, st, n)

-----------------------------------------------------------------------------
(* compile_block: nothing is compiled after a terminator.                  *)
NextStmt(p, c, ids) ==
    IF ids = <<>> \/ IsDead(c) THEN c
    ELSE Todo(c, CompileStmt(c, p[Head(ids)], Head(ids)) \o <<Block(Tail(ids))>>)
(* compile_finally_copy.                                                   *)
CopyFinally(p, c, n) ==
    IF IsDead(c) THEN c ELSE Todo([c EXCEPT !.finally_copies = @ + 1], <<Block(p[n].finally)>>)

(* The first step to do is done.                                           *)
Step(p, todo) ==
    LET t == Head(todo.todo)
        c == [todo EXCEPT !.todo = Tail(@)]
    IN
    CASE t.do = "emit" -> Emit(c, t.op, t.at, 0)
      [] t.do = "jump" -> [Emit(c, t.op, t.at, 0) EXCEPT !.labels = t.key :> Label(c, t.op) @@ @]
      [] t.do = "jump_to" -> Emit(c, "Jump", NoValue, t.to)
      [] t.do = "patch" -> Patch(c, c.labels[t.key])
      [] t.do = "block" -> NextStmt(p, c, t.ids)
      [] t.do = "finally" -> CopyFinally(p, c, t.n)
      [] t.do = "region" -> [c EXCEPT !.depth = t.depth]
      [] t.do = "push" -> [c EXCEPT !.fblocks = Append(@, Opened(c, t.block))]
      [] t.do = "pop" -> [c EXCEPT !.fblocks = Front(@), !.closed = t.key :> Last(c.fblocks) @@ @]
      [] t.do = "end" -> [c EXCEPT !.closed[t.key].region.end = Here(c)]
      [] t.do = "handler" -> [c EXCEPT !.closed[t.key].region.handler = Here(c)]
      [] t.do = "entries" -> [c EXCEPT !.table = @ \o Entries(c.closed[t.key].region, t.kind)]
      [] t.do = "start_unwind" -> [c EXCEPT !.popped = Append(@, <<>>)]
      [] t.do = "unwind" -> Unwind(c, t.count, t.keep)
      [] t.do = "restore" -> RestoreBlocks(c)
      [] t.do = "break" -> [c EXCEPT !.fblocks[InnermostLoop(c)].breaks = Append(@, c.labels[t.key])]
      [] t.do = "breaks" -> FoldLeft(Patch, c, c.closed[t.key].breaks)

(* At most 2^k steps.                                                      *)
RECURSIVE Steps(_, _, _)
Steps(p, c, k) ==
    IF c.todo = <<>> THEN c ELSE IF k = 0 THEN Step(p, c) ELSE Steps(p, Steps(p, c, k - 1), k - 1)
Compile(p) == Steps(p, Todo(Fresh, <<Block(p[1].body), Op("Load"), Op("ReturnValue")>>), 12)

-----------------------------------------------------------------------------
(* The VM.                                                                 *)
VARIABLES
    name,               \* the program that runs
    code, exception_table,      \* what it was compiled to
    ip, stack, exception_stack,
    bound,              \* whether the `as` name is bound
    result,             \* how the frame ended, Running before
    source              \* what the source says of the run so far
vars == <<name, code, exception_table, ip, stack, exception_stack, bound, result, source>>

Running == [s |-> "running", v |-> NoExc]
Instr == code[ip]
Tos == Last(stack)
Value(kind, n) == <<kind, n>>
Truth(b) == <<"bool", IF b THEN 1 ELSE 0>>

Init ==
    /\ name \in Names
    /\ \E c \in {Compile(Program(name))} :
          /\ c.finally_copies <= MaxFinallyCopies
          /\ code = c.code /\ exception_table = c.table
    /\ ip = 1 /\ stack = <<>> /\ exception_stack = <<>> /\ bound = FALSE
    /\ result = Running
    /\ source = Settle(Program(name), Start(Program(name)[1].body))

(* handle_exception_step, for exception e reported at `at`; operands are   *)
(* `operands`.  The first entry that covers it is the innermost.           *)
FindHandler(at) ==
    SelectInSeq(exception_table, LAMBDA entry : entry.start <= at /\ at < entry.end)
Raise(e, at, operands) ==
    IF FindHandler(at) = 0
    THEN result' = Raises(e) /\ UNCHANGED <<ip, stack, exception_stack>>
    ELSE LET entry == exception_table[FindHandler(at)]
             kept == SubSeq(operands, 1, entry.depth)
         IN /\ ip' = entry.handler
            /\ stack' = IF entry.kind = "Consuming" THEN Append(kept, Value("exc", e)) ELSE kept
            /\ exception_stack' = Append(SubSeq(exception_stack, 1, entry.excs), e)
            /\ UNCHANGED result

(* The event an instruction is about to make, as the source names it.      *)
Events == {"Call", "ForIter", "BeforeWith", "WithExit", "WithExceptStart", "CheckExcMatch"}
Event ==
    CASE Instr.op = "WithExit" -> [kind |-> "exit", at |-> Tos[2], arg |-> NoExc]
      [] Instr.op = "WithExceptStart" -> [kind |-> "exit_exc", at |-> stack[Len(stack) - 1][2], arg |-> Tos[2]]
      [] Instr.op = "ForIter" -> [kind |-> "next", at |-> Tos[2], arg |-> NoExc]
      [] OTHER -> [kind |-> Instr.at[1], at |-> Instr.at[2], arg |-> NoExc]

(* The operands an event takes before it is made, and what it leaves.      *)
Taken(op) == IF op \in {"WithExit", "CheckExcMatch"} THEN Front(stack) ELSE stack
Left(op, answer) ==
    CASE op = "ForIter" /\ answer = "no" -> Front(stack)
      [] answer \in {"yes", "no"} /\ op # "ForIter" -> Append(Taken(op), Truth(answer = "yes"))
      [] OTHER -> Append(Taken(op), Value("value", Event.at))

(* An exception of a native call is reported at the instruction, one of a  *)
(* called Python function where the caller would resume.  The iterator of  *)
(* a failing ForIter is dropped first.                                     *)
ReportedAt(op) == IF op \in {"ForIter", "CheckExcMatch"} THEN {ip} ELSE {ip, ip + 1}
Eventful ==
    /\ result = Running /\ Instr.op \in Events
    /\ \E answer \in Outcomes(Event.kind) :
          /\ source' = Settle(Program(name), Answer(Program(name), source, answer))
          /\ \/ /\ answer = "raise"
                /\ \E at \in ReportedAt(Instr.op) :
                      Raise(Event.at, at, IF Instr.op = "ForIter" THEN Front(stack) ELSE Taken(Instr.op))
             \/ /\ answer # "raise"
                /\ stack' = Left(Instr.op, answer)
                /\ ip' = IF Instr.op = "ForIter" /\ answer = "no" THEN Instr.to ELSE ip + 1
                /\ UNCHANGED <<exception_stack, result>>
    /\ UNCHANGED <<name, code, exception_table, bound>>

(* The instructions that only move operands and control.                   *)
At(ops) == result = Running /\ Instr.op \in ops /\ UNCHANGED <<name, code, exception_table, source>>
Goto(to, operands) == ip' = to /\ stack' = operands /\ UNCHANGED <<exception_stack, bound, result>>
MovesOperands ==
    /\ At({"Nop", "GetIter", "Load", "Pop", "Rot2"})
    /\ LET n == Len(stack) IN
       Goto(ip + 1, CASE Instr.op = "Load" -> Append(stack, Instr.at)
                      [] Instr.op = "Pop" -> Front(stack)
                      [] Instr.op = "Rot2" -> SubSeq(stack, 1, n - 2) \o <<stack[n], stack[n - 1]>>
                      [] OTHER -> stack)
Jumps == At({"Jump"}) /\ Goto(Instr.to, stack)
JumpsIf ==
    /\ At({"JumpIfFalse", "JumpIfTrue"})
    /\ Goto(IF (Tos = Truth(TRUE)) = (Instr.op = "JumpIfTrue") THEN Instr.to ELSE ip + 1, Front(stack))
BindsName ==
    /\ At({"StoreName", "ClearName"})
    /\ ip' = ip + 1 /\ bound' = (Instr.op = "StoreName")
    /\ stack' = IF Instr.op = "StoreName" THEN Front(stack) ELSE stack
    /\ UNCHANGED <<exception_stack, result>>
ClearsException ==
    /\ At({"ClearException"})
    /\ ip' = ip + 1
    /\ exception_stack' = IF exception_stack = <<>> THEN <<>> ELSE Front(exception_stack)
    /\ UNCHANGED <<stack, bound, result>>
Reraises ==
    /\ At({"Reraise"})
    /\ Raise(IF exception_stack = <<>> THEN RuntimeError ELSE Last(exception_stack), ip, stack)
    /\ UNCHANGED bound
Returns ==
    /\ At({"ReturnValue"})
    /\ result' = [s |-> "return", v |-> IF Tos[1] = "value" THEN Tos[2] ELSE NoExc]
    /\ UNCHANGED <<ip, stack, exception_stack, bound>>

Next ==
    \/ Eventful
    \/ MovesOperands \/ Jumps \/ JumpsIf \/ BindsName \/ ClearsException \/ Reraises \/ Returns
Spec == Init /\ [][Next]_vars

-----------------------------------------------------------------------------
Outcome(r) == IF r.sig.s = "normal" THEN [s |-> "return", v |-> NoExc] ELSE r.sig

(* The compiled program makes the calls the source makes and no others, in *)
(* the same order, with the same exception being handled (what a bare      *)
(* `raise` raises) and the `as` name bound or not alike, and it returns or *)
(* raises the same.  Each copy of a `finally` body, each interrupted       *)
(* region and each recorded depth has its part in this.                    *)
RunsAsWritten ==
    /\ result = Running /\ Instr.op \in Events =>
          /\ source.event = Event
          /\ Active(source) = (IF exception_stack = <<>> THEN NoExc ELSE Last(exception_stack))
          /\ source.bound = bound
    /\ result # Running => source.event = NoEvent /\ result = Outcome(source)

(* The operand depth the compiler counted at an instruction is the depth   *)
(* the VM reaches it with, on every path, handlers included; a frame       *)
(* returns with its value alone on the stack and nothing being handled.    *)
DepthsExact ==
    /\ result = Running => ip \in DOMAIN code /\ Len(stack) = Instr.depth
    /\ result.s = "return" => Len(stack) = 1 /\ exception_stack = <<>>
=============================================================================
