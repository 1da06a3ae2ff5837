--------------------------- MODULE PythonControl ---------------------------
(***************************************************************************)
(* What Python says a function body does: which of its calls run, in which *)
(* order, with which exception being handled, and how the function ends.   *)
(* It is the reference the compiled code of ControlFlow is held against.   *)
(*                                                                         *)
(* A program is a function from node names to statements                   *)
(*     [op, call, body, handlers, orelse, finally]                         *)
(* whose blocks are sequences of node names.  A run alternates between an  *)
(* event, something the program calls whose outcome is not its own (an     *)
(* expression, a loop's next item, `__exit__`...), and silent control.  An *)
(* exception is named by the node whose event raised it.                   *)
(***************************************************************************)
EXTENDS Integers, Sequences, SequencesExt

NoExc == 0
RuntimeError == -1      \* `raise` with nothing to raise again

Normal == [s |-> "normal", v |-> NoExc]
Raises(e) == [s |-> "raise", v |-> e]

(* What may come of an event.                                              *)
Outcomes(kind) ==
    IF kind \in {"test", "match", "exit_exc", "next"} THEN {"yes", "no", "raise"} ELSE {"ok", "raise"}

(* A run: its continuation `k` (innermost last), the signal that reaches   *)
(* it, the exceptions being handled, whether the `as` name is bound, and   *)
(* the event it waits on ("none" while control moves silently).            *)
NoEvent == [kind |-> "none", at |-> 0, arg |-> NoExc]
Frame(f, n, i, saved, todo) == [f |-> f, n |-> n, i |-> i, saved |-> saved, todo |-> todo]
BlockFrame(ids) == Frame("block", 0, 0, Normal, ids)
Start(body) ==
    [k |-> <<BlockFrame(body)>>, sig |-> Normal, active |-> <<>>, bound |-> FALSE, event |-> NoEvent]

Active(r) == IF r.active = <<>> THEN NoExc ELSE Last(r.active)
Signal(r, sig) == [r EXCEPT !.sig = sig]
Waits(r, kind, n, arg) == [r EXCEPT !.event = [kind |-> kind, at |-> n, arg |-> arg]]
PushK(r, fr) == [r EXCEPT !.k = Append(@, fr)]
PopK(r) == [r EXCEPT !.k = Front(@)]
Handles(r, e) == [r EXCEPT !.active = Append(@, e)]
Handled(r) == [r EXCEPT !.active = Front(@)]
TopK(r) == Last(r.k)
Runs(r, ids) == Signal(PushK(r, BlockFrame(ids)), Normal)

-----------------------------------------------------------------------------
(* A statement begins.                                                     *)
NextOrTest(p, r, n) == Waits(r, IF p[n].op = "for" THEN "next" ELSE "test", n, NoExc)
Begin(p, r, n) ==
    LET st == p[n] IN
    CASE st.op = "call" \/ (st.op = "return" /\ st.call) -> Waits(r, "call", n, NoExc)
      [] st.op = "return" /\ ~st.call -> Signal(r, [s |-> "return", v |-> NoExc])
      [] st.op \in {"break", "continue"} -> Signal(r, [s |-> st.op, v |-> NoExc])
      [] st.op = "raise" -> Signal(r, Raises(IF r.active = <<>> THEN RuntimeError ELSE Active(r)))
      [] st.op = "if" -> Waits(r, "test", n, NoExc)
      [] st.op \in {"while", "for"} -> NextOrTest(p, PushK(r, Frame("loop", n, 0, Normal, <<>>)), n)
      [] st.op = "with" -> Waits(r, "enter", n, NoExc)
      [] st.op = "try" ->
            LET fin == IF st.finally = <<>> THEN r ELSE PushK(r, Frame("finally", n, 0, Normal, <<>>))
            IN Runs(IF st.handlers = <<>> THEN fin ELSE PushK(fin, Frame("try", n, 0, Normal, <<>>)), st.body)

(* The clauses of a `try` are tried in order, the exception being handled. *)
Catch(p, r, n, i) ==
    LET h == p[n].handlers[i]
        entered == [r EXCEPT !.bound = @ \/ h.named, !.k = Append(Front(@), Frame("handler", n, i, Normal, <<>>))]
    IN Runs(entered, h.body)
Try(p, r, n, i) ==
    CASE i > Len(p[n].handlers) -> Signal(Handled(PopK(r)), Raises(Active(r)))
      [] i <= Len(p[n].handlers) /\ p[n].handlers[i].typed ->
            Waits([r EXCEPT !.k = Append(Front(@), Frame("match", n, i, Normal, <<>>))], "match", n, NoExc)
      [] OTHER -> Catch(p, r, n, i)

(* The innermost construct receives the signal.                            *)
Receive(p, r) ==
    LET fr == TopK(r)
        out == PopK(r)
        raised == r.sig.s = "raise"
        normal == r.sig.s = "normal"
    IN
    CASE fr.f = "block" ->
            IF normal /\ fr.todo # <<>>
            THEN Begin(p, [r EXCEPT !.k = Append(Front(@), BlockFrame(Tail(fr.todo)))], Head(fr.todo))
            ELSE out
      [] fr.f = "loop" ->
            IF r.sig.s \in {"normal", "continue"} THEN NextOrTest(p, Signal(r, Normal), fr.n)
            ELSE IF r.sig.s = "break" THEN Signal(out, Normal) ELSE out
      [] fr.f = "try" ->
            IF normal THEN Runs(out, p[fr.n].orelse)
            ELSE IF raised THEN Try(p, Handles(r, r.sig.v), fr.n, 1) ELSE out
      [] fr.f = "handler" ->
            [Handled(out) EXCEPT !.bound = @ /\ ~p[fr.n].handlers[fr.i].named]
      [] fr.f = "finally" ->
            Runs(PushK(IF raised THEN Handles(out, r.sig.v) ELSE out, Frame("finishing", fr.n, 0, r.sig, <<>>)),
                 p[fr.n].finally)
      [] fr.f = "finishing" ->
            LET done == IF fr.saved.s = "raise" THEN Handled(out) ELSE out
            IN IF normal THEN Signal(done, fr.saved) ELSE done
      [] fr.f = "with" ->
            LET leaving == PushK(out, Frame("leaving", fr.n, 0, r.sig, <<>>))
            IN IF raised THEN Waits(Handles(leaving, r.sig.v), "exit_exc", fr.n, r.sig.v)
                         ELSE Waits(leaving, "exit", fr.n, NoExc)

(* Control moves silently up to the next event or the end.                 *)
RECURSIVE Settle(_, _)
Settle(p, r) ==
    IF r.event.kind # "none" \/ r.k = <<>> THEN r ELSE Settle(p, Receive(p, r))

(* The event of a settled run comes out as `answer`.                       *)
Answer(p, r, answer) ==
    LET kind == r.event.kind
        n == r.event.at
        s == [r EXCEPT !.event = NoEvent]
        out == IF kind = "exit_exc" \/ kind = "match" THEN Handled(PopK(s))
               ELSE IF kind = "exit" \/ (p[n].op \in {"while", "for"}) THEN PopK(s) ELSE s
    IN
    CASE answer = "raise" -> Signal(out, Raises(n))
      [] answer = "ok" /\ kind = "call" ->
            Signal(s, IF p[n].op = "return" THEN [s |-> "return", v |-> n] ELSE Normal)
      [] answer = "ok" /\ kind = "enter" -> Runs(PushK(s, Frame("with", n, 0, Normal, <<>>)), p[n].body)
      [] answer = "ok" /\ kind = "exit" -> Signal(out, TopK(s).saved)
      [] kind \in {"test", "next"} ->
            IF answer = "yes" THEN Runs(s, p[n].body) ELSE Runs(out, p[n].orelse)
      [] kind = "match" -> IF answer = "yes" THEN Catch(p, s, n, TopK(s).i) ELSE Try(p, s, n, TopK(s).i + 1)
      [] kind = "exit_exc" -> Signal(out, IF answer = "yes" THEN Normal ELSE TopK(s).saved)
=============================================================================
