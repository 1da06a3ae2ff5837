--------------------------- MODULE SessionProtocol ---------------------------
(***************************************************************************)
(* One session: the parent's `Checkout` (monty-pool/src/checkout.rs), the  *)
(* worker's `Child` (monty-proto/src/worker.rs, served by                  *)
(* monty-runtime/src/subprocess.rs) and the stream between them.           *)
(*                                                                         *)
(* A checkout runs one call at a time; `op` says which, and the await at   *)
(* which it stands.  There the caller may drop the call's future, the      *)
(* deadline may expire, the worker may die, and a serving relay may shut   *)
(* down instead of running the request, after which the checkout reloads   *)
(* the session on a new worker and sends the request again.  Payloads,     *)
(* durations and clocks are left out: a suspension is its kind, the key    *)
(* the parent matches it by, and a `serial` that tells it from all others. *)
(***************************************************************************)
EXTENDS Integers, Sequences

CONSTANTS
    Setups,             \* what is configured, see `setup`
    MaxSuspensions, MaxSleep,   \* the configured limits
    Dumps,              \* dumps the host may restore
    Names,              \* the names programs look up, the sets of calls they await
    None

OsKinds == {"os", "sleep", "import", "stubs"}
CallKinds == OsKinds \cup {"function"}
SuspensionKinds == CallKinds \cup {"lookup", "futures"}
Resumes == {"ResumeCall", "ResumeNameLookup", "ResumeFutures"}
Execution == Resumes \cup {"Feed"}

Limits == [susp : Nat, sleep : Nat]
Suspensions == [kind : SuspensionKinds, key : Nat, serial : Nat, eager : BOOLEAN]
Snapshots == [state : {"ready", "suspended", "complete"}, susp : Suspensions \cup {None},
              limits : Limits, cwd : BOOLEAN, calls : Nat, feed : Nat]

ASSUME ConfigAssumption ==
    /\ {MaxSuspensions, MaxSleep} \cup Names \subseteq Nat
    /\ Setups \subseteq [remote : BOOLEAN, cpu : BOOLEAN, type_check : BOOLEAN,
                         kinds : SUBSET (SuspensionKinds \ {"stubs"}),
                         calls : Nat, requests : Nat, honest : BOOLEAN,
                         undecodable : BOOLEAN, raw : BOOLEAN]
    /\ \A d \in Dumps : d \in Snapshots /\ (d.state = "suspended") = (d.susp # None)

VARIABLES
    setup,              \* the configuration this session runs under
    checkout,           \* the fields of Checkout
    op, result,         \* the call in progress, what the last one returned
    child,              \* the fields of Child
    inbox, outbox,      \* requests and events on the stream
    ids,                \* calls the host has made
    ran,                \* history: the requests whose code a worker started, in order,
                        \* each with the kind of suspension it answered
    forfeit,            \* history: how the host gave up the suspension the worker holds
    delivered, slept    \* history: suspensions and system sleeps handed to the host

session == <<checkout, op, result, ids, delivered, slept>>
wire == <<child, inbox, outbox, ran, forfeit>>
vars == <<session, wire>>

Remote == setup.remote          \* the worker is behind a relay that stores sessions
Cpu == setup.cpu                \* execution_clock is ExecutionClock::Cpu
TypeCheck == setup.type_check   \* ReplConfig::type_check
Kinds == setup.kinds            \* the kinds of suspension the programs reach
MaxCalls == setup.calls         \* bounds: suspensions, calls of the host
MaxRequests == setup.requests
Honest == setup.honest          \* worker and relay run this code, rather than anything at all
MaxLies == 2                    \* bound: events of any other worker on the stream at once
Undecodable == setup.undecodable    \* hosts send values the child's decoder rejects
Raw == setup.raw                \* a relay drives the checkout, by `turn_raw` alone

Idle == [call |-> "none", at |-> "idle", req |-> None, expected |-> None, dump |-> None,
         seen |-> 0, slept |-> 0, mounts |-> 0, had_id |-> FALSE]
Awaiting == op.at \in {"turn", "configure", "load", "resent"}
TurnKind == CASE op.at = "configure" -> "Configure"
              [] op.at = "load"      -> "Load"
              [] OTHER               -> op.req.kind

Request(id, kind) == [id |-> id, kind |-> kind, key |-> 0, serial |-> 0, checked |-> FALSE,
                      cwd |-> FALSE, dump |-> None, decodes |-> TRUE]

(* PendingKey::of                                                          *)
PendingKey(s) == IF s = None THEN None ELSE <<s.kind, s.key>>

Smaller(a, b) == IF a < b THEN a ELSE b
(* Mutant: the limits a reply reports replace the ones in force.           *)
TightenTrusting(a, b) == b
(* tighter, tighten_limits                                                 *)
Tighten(a, b) == [susp |-> Smaller(a.susp, b.susp), sleep |-> Smaller(a.sleep, b.sleep)]

(* SessionBudget::from_config; ::forget keeps the limits and nothing else. *)
Fresh(limits) == [limits |-> limits, seen |-> 0, slept |-> 0, suspended |-> FALSE]
Configured == [susp |-> MaxSuspensions, sleep |-> MaxSleep]
NewChild == [state |-> "unconfigured", susp |-> None, limits |-> Configured, cwd |-> FALSE,
             calls |-> 0, feed |-> 0]
DeadChild == [NewChild EXCEPT !.state = "dead"]

(* Checkout::create has written `Configure` to a fresh worker.             *)
Init ==
    /\ setup \in Setups
    /\ checkout = [worker |-> TRUE, pending |-> None, os_call |-> FALSE,
                   turn_in_flight |-> TRUE, abort_in_flight |-> FALSE,
                   budget |-> Fresh(Configured), pending_load_budget |-> None,
                   session_id |-> FALSE, redial |-> Remote, feed_mounts |-> 0,
                   cwd_set |-> FALSE]
    /\ op = [Idle EXCEPT !.call = "create", !.at = "turn", !.req = Request(0, "Configure")]
    /\ result = "none"
    /\ child = NewChild /\ inbox = <<Request(0, "Configure")>> /\ outbox = <<>>
    /\ ids = 0 /\ ran = <<>> /\ forfeit = "no" /\ delivered = 0 /\ slept = 0

-----------------------------------------------------------------------------
(* The child.  A handler is one step: it takes the request, changes the    *)
(* session and writes the events of the turn.                              *)

req == Head(inbox)
Served == Honest /\ inbox # <<>> /\ child.state # "dead"
Arrives(kind) == Served /\ req.kind = kind /\ req.decodes
Materialized(c) == c.state \in {"ready", "suspended", "stubs"}
Held(c) == c.state \in {"suspended", "stubs"}
Ready(c) == [c EXCEPT !.state = "ready", !.susp = None]

(* An event, with the session's limits and suspension as                   *)
(* stamp_session_budget adds them.                                         *)
Event(c, kind) ==
    [re |-> <<req.id, req.kind>>, kind |-> kind, susp |-> None, dump |-> None, named |-> FALSE,
     limits |-> IF Materialized(c) THEN c.limits ELSE None,
     feed_suspended |-> IF kind \notin {"Error", "TypingError"} THEN "unknown"
                        ELSE IF Held(c) THEN "yes" ELSE "no"]
Unstamped(kind) == [Event(NewChild, kind) EXCEPT !.feed_suspended = "unknown"]
Announce(c) == [Event(c, "Suspension") EXCEPT !.susp = c.susp]

(* Child::handle: the request is answered from child state c.              *)
Answer(c, events) ==
    /\ child' = c /\ inbox' = Tail(inbox) /\ outbox' = outbox \o events
    /\ forfeit' = IF c.susp = child.susp THEN forfeit ELSE "no"
    /\ UNCHANGED session
Replies(c, event) == Answer(c, <<event>>) /\ UNCHANGED ran
(* protocol_violation: the session is as it was.                           *)
Refuses == Replies(child, Event(child, "Error"))

(* ensure_repl                                                             *)
EnsureRepl(c) == IF c.state = "configured" THEN [c EXCEPT !.state = "ready"] ELSE c

(* A call has an id of its own; a name may be looked up again, and calls   *)
(* the host has not answered are awaited again.                            *)
Keys(c, kind) == IF kind \in CallKinds THEN {c.calls + 1} ELSE Names
NextSuspensions(c) ==
    UNION {[kind : {kind}, key : Keys(c, kind), serial : {c.calls + 1},
            eager : IF kind \in {"function", "sleep"} THEN BOOLEAN ELSE {FALSE}] :
               kind \in IF c.calls < MaxCalls THEN Kinds ELSE {}}
Suspended(c, s) == [c EXCEPT !.state = "suspended", !.calls = @ + 1, !.susp = s]
Outcomes(c) ==
    {<<Ready(c), Event(Ready(c), kind)>> : kind \in {"Complete", "Error"}} \cup
    {<<Suspended(c, s), Announce(Suspended(c, s))>> : s \in NextSuspensions(c)}

Started == [id |-> req.id, answers |-> IF child.susp = None THEN "none" ELSE child.susp.kind]

(* drive: the code prints, then runs to completion, to an exception (or to *)
(* something too large for a frame), or to a suspension.                   *)
Drive(c) ==
    \E out \in Outcomes(c), print \in {<<>>, <<Unstamped("Print")>>} :
        Answer(out[1], Append(print, out[2])) /\ ran' = Append(ran, Started)

(* start_feed: a checked snippet may fail its type check, or the checker.  *)
StartFeed(c, checked) ==
    \/ /\ checked
       /\ \E kind \in {"TypingError", "Error"} : Replies(Ready(c), Event(Ready(c), kind))
    \/ Drive(c)

HandleConfigure ==
    /\ Arrives("Configure")
    /\ LET c == [child EXCEPT !.state = "configured"]
       IN  \/ /\ child.state = "unconfigured"
              /\ Replies(c, [Event(c, "Ok") EXCEPT !.named = Remote])
           \/ Refuses

(* handle_repl_feed: source too deeply nested, or inputs that do not       *)
(* convert, end the feed before its directory is switched.                 *)
HandleFeed ==
    /\ Arrives("Feed")
    /\ LET c == EnsureRepl(child)
           d == [c EXCEPT !.cwd = @ \/ req.cwd, !.feed = req.id]
           ask == [d EXCEPT !.state = "stubs", !.calls = @ + 1,
                            !.susp = [kind |-> "stubs", key |-> 0, serial |-> d.calls + 1,
                                      eager |-> FALSE]]
           checked == TypeCheck /\ req.checked
       IN  \/ c.state # "ready" /\ Refuses
           \/ c.state = "ready" /\ Replies(c, Event(c, "Error"))
           \/ /\ c.state = "ready" /\ checked /\ d.calls < MaxCalls
              /\ Replies(ask, Announce(ask))
           \/ c.state = "ready" /\ StartFeed(d, checked)

(* handle_resume_stubs: an exception ends the feed before it runs.         *)
HandleResumeStubs ==
    /\ Arrives("ResumeCall") /\ child.state = "stubs"
    /\ \/ Refuses
       \/ req.key = 0 /\ Replies(Ready(child), Event(Ready(child), "Error"))
       \/ req.key = 0 /\ StartFeed(child, TRUE)

(* What a resume request may answer.                                       *)
Accepts(c, r) ==
    /\ c.state = "suspended"
    /\ CASE r.kind = "ResumeCall"       -> c.susp.kind \in CallKinds /\ c.susp.key = r.key
         [] r.kind = "ResumeNameLookup" -> c.susp.kind = "lookup"
         [] r.kind = "ResumeFutures"    -> \/ c.susp.kind = "futures"
                                           \/ c.susp.eager /\ c.susp.key = r.key

(* handle_resume_call, handle_resume_name_lookup, handle_resume_futures: a *)
(* value that does not convert is refused too.                             *)
HandleResume ==
    /\ \E kind \in Resumes : Arrives(kind)
    /\ ~(req.kind = "ResumeCall" /\ child.state = "stubs")
    /\ \/ Accepts(child, req) /\ Drive(child)
       \/ Refuses

(* handle_abort_feed raises where nothing catches: the feed ends.          *)
HandleAbortFeed ==
    /\ Arrives("AbortFeed")
    /\ \/ ~Held(child) /\ Refuses
       \/ Held(child) /\ Replies(Ready(child), Event(Ready(child), "Error"))

Snapshot(c) == [state |-> c.state, susp |-> c.susp, limits |-> c.limits, cwd |-> c.cwd,
                calls |-> c.calls, feed |-> c.feed]

(* handle_dump; one too large for a frame is answered with an error.       *)
HandleDump ==
    /\ Arrives("Dump")
    /\ LET c == EnsureRepl(child)
       IN  \/ /\ c.state \in {"ready", "suspended"}
              /\ Replies(c, [Event(c, "DumpResult") EXCEPT !.dump = Snapshot(c)])
           \/ Replies(c, Event(c, "Error"))

(* The session `handle_load` restores: limits are capped by Configure's.   *)
Restored(d) ==
    [state |-> IF d.state = "complete" THEN "ready" ELSE d.state, susp |-> d.susp,
     limits |-> Tighten(d.limits, Configured), cwd |-> d.cwd, calls |-> d.calls,
     feed |-> IF d.feed = 0 THEN req.id ELSE d.feed]

(* handle_load: only before a repl exists, and only what deserialises.     *)
HandleLoad ==
    /\ Arrives("Load")
    /\ \/ Refuses
       \/ LET c == Restored(req.dump)
              event == CASE req.dump.state = "ready"     -> Event(c, "Ok")
                         [] req.dump.state = "suspended" -> Announce(c)
                         [] OTHER                        -> Event(c, "Complete")
          IN  /\ ~Materialized(child)
              /\ Replies(c, [event EXCEPT !.named = Remote])

HandleInstall == Arrives("InstallDependencies") /\ Refuses

HandleReset == Arrives("Reset") /\ Replies(NewChild, Event(NewChild, "Ok"))

(* serve: a frame that does not decode is answered outside the session.    *)
RejectFrame ==
    /\ Served /\ ~req.decodes
    /\ inbox' = Tail(inbox) /\ outbox' = Append(outbox, Unstamped("Error"))
    /\ forfeit' = IF Held(child) THEN "frame" ELSE forfeit
    /\ UNCHANGED <<session, child, ran>>

(* The worker dies, before or while it runs the request, or announces that *)
(* it must (fatal_event).                                                  *)
ChildDies ==
    /\ checkout.worker /\ child.state # "dead"
    /\ child' = DeadChild /\ inbox' = <<>>
    /\ outbox' \in {outbox} \cup {Append(outbox, Unstamped("FatalError")) : x \in DOMAIN inbox}
    /\ ran' \in {ran} \cup {Append(ran, Started) :
                                x \in {i \in DOMAIN inbox : req.kind \in Execution}}
    /\ forfeit' = "no" /\ UNCHANGED session

(* The relay drains: it drops the request and names what restores the      *)
(* session, unless it has nothing stored or storing failed.                *)
RelayShutsDown ==
    /\ Remote /\ Served
    /\ \E dump \in {None} \cup {Snapshot(c) : c \in {x \in {child} : x.state \in {"ready", "suspended"}}} :
        Replies(DeadChild, [Unstamped("Shutdown") EXCEPT !.dump = dump])

(* A worker, or a relay, that does not run this code says what it likes    *)
(* when it likes, asked for or not, with limits looser than the session's; *)
(* MaxLies bounds what it has on the stream at a time.                     *)
Lie(kind) == [re |-> None, kind |-> kind, susp |-> None, dump |-> None, named |-> TRUE,
              limits |-> [susp |-> MaxSuspensions + 1, sleep |-> MaxSleep + 1],
              feed_suspended |-> "unknown"]
Lies ==
    {Lie(kind) : kind \in {"Complete", "Error", "TypingError", "Ok", "DumpResult", "Shutdown"}}
    \cup {[Lie("Error") EXCEPT !.feed_suspended = "yes"]}
    \cup {[Lie("Shutdown") EXCEPT !.dump = Snapshot(child)]}
    \cup {[Lie("Suspension") EXCEPT !.susp = s] :
              s \in [kind : Kinds, key : {1}, serial : {0}, eager : {FALSE}]}
Misbehaves ==
    /\ ~Honest /\ child.state # "dead" /\ Len(outbox) < MaxLies
    /\ \E lie \in Lies : outbox' = Append(outbox, lie)
    /\ inbox' = <<>> /\ UNCHANGED <<session, child, ran, forfeit>>

-----------------------------------------------------------------------------
(* The checkout, between calls.                                            *)

(* Mutant: a cancelled turn goes unnoticed.                                *)
EnsureReadyAnyway == checkout.worker /\ op.at = "idle"
(* ensure_ready                                                            *)
EnsureReady == checkout.worker /\ op.at = "idle" /\ ~checkout.turn_in_flight

(* release_worker, discard_worker, and poison with terminate_for_limit     *)
Released(c) == [c EXCEPT !.worker = FALSE, !.turn_in_flight = FALSE]
Discarded(c) == [Released(c) EXCEPT !.pending = None, !.os_call = FALSE, !.feed_mounts = 0,
                                    !.abort_in_flight = FALSE]
Poisoned(c) == [Discarded(c) EXCEPT !.abort_in_flight = c.abort_in_flight]

(* begin_load and end_load                                                 *)
BeginLoad(c) == [c EXCEPT !.pending_load_budget = c.budget, !.budget = Fresh(@.limits)]
EndLoad(c) == IF c.pending_load_budget = None THEN c
              ELSE [c EXCEPT !.budget = c.pending_load_budget, !.pending_load_budget = None]

(* What a call does with the outcome of its request: the tails of          *)
(* resume_after_shutdown, restore, feed_with_cwd, turn_raw (o is the call).*)
AfterCall(o, c, outcome, sent) ==
    LET back == [c EXCEPT !.turn_in_flight = FALSE,
                          !.redial = @ \/ o.at \in {"configure", "load", "resent", "dial"}]
    IN CASE o.call = "restore" ->
              [EndLoad(back) EXCEPT !.session_id = @ \/ (outcome = "runtime" /\ o.had_id),
                                    !.cwd_set = @ \/ outcome \in {"ok", "turn"}]
         [] o.call = "feed" -> [back EXCEPT !.cwd_set = @ \/ sent]
         [] o.call = "raw" -> EndLoad(back)
         [] OTHER -> back

(* The worker is gone, and the call with it.                               *)
Loses(c, outcome) ==
    /\ checkout' = AfterCall(op, c, outcome, TRUE) /\ op' = Idle /\ result' = outcome
    /\ child' = DeadChild /\ inbox' = <<>> /\ outbox' = <<>> /\ forfeit' = "no"
    /\ UNCHANGED <<ids, ran, delivered, slept>>

(* restore drops what is pending before the worker has taken the load.     *)
GivesUp(o) ==
    forfeit' = IF o.call = "restore" /\ checkout.pending # None THEN "load" ELSE forfeit

(* request_turn and send_request, from the checkout c the call prepared.   *)
Sends(c, o) ==
    /\ checkout' = [c EXCEPT !.turn_in_flight = TRUE]
    /\ op' = o /\ inbox' = Append(inbox, o.req) /\ GivesUp(o)
    /\ UNCHANGED <<result, child, outbox, ran, delivered, slept>>
(* A frame too large is refused before a byte of it is written.            *)
TooLarge(c, o) ==
    /\ checkout' = AfterCall(o, c, "runtime", FALSE)
    /\ op' = Idle /\ result' = "runtime" /\ GivesUp(o)
    /\ UNCHANGED <<child, inbox, outbox, ran, delivered, slept>>

Call(name, r) == [Idle EXCEPT !.call = name, !.at = "turn", !.req = r]
NextRequest(kind) == Request(ids + 1, kind)
Turns == EnsureReady /\ ids < MaxRequests /\ ids' = ids + 1
Calls == Turns /\ ~Raw
Decodes == {TRUE, ~Undecodable}     \* what a frame with the host's values may do

(* Mutant: a feed may be sent while another is suspended.                  *)
FeedAnyTime ==
    /\ Calls
    /\ LET c == [checkout EXCEPT !.feed_mounts = ids + 1]
       IN Sends(c, Call("feed", NextRequest("Feed")))

(* feed_with_cwd: the feed brings its own mounts.                          *)
Feed ==
    /\ Calls
    /\ checkout.pending = None /\ ~(Cpu /\ checkout.budget.suspended)
    /\ \E checked \in BOOLEAN, decodes \in Decodes :
        LET c == [checkout EXCEPT !.feed_mounts = ids + 1]
            o == Call("feed", [NextRequest("Feed") EXCEPT
                                 !.checked = checked, !.cwd = ~checkout.cwd_set,
                                 !.decodes = decodes])
        IN Sends(c, o) \/ TooLarge(c, o)

(* resume, resume_name_lookup, resume_futures: each answers what is        *)
(* pending, which stays pending until a reply replaces it.                 *)
Answering(kind) ==
    [NextRequest(kind) EXCEPT !.key = checkout.pending.key, !.serial = checkout.pending.serial]
MayAnswer(kind) ==
    CASE kind = "ResumeCall"       -> checkout.pending.kind \in CallKinds
      [] kind = "ResumeNameLookup" -> checkout.pending.kind = "lookup"
      [] kind = "ResumeFutures"    -> checkout.pending.eager \/ checkout.pending.kind = "futures"
Resume ==
    /\ Calls /\ checkout.pending # None
    /\ \E kind \in Resumes, decodes \in Decodes :
        LET o == Call("resume", [Answering(kind) EXCEPT !.decodes = decodes])
        IN MayAnswer(kind) /\ (Sends(checkout, o) \/ TooLarge(checkout, o))

(* resume_from_mounts, read_from_mounts: the table and the call move into  *)
(* a blocking task.                                                        *)
ResumeFromMounts ==
    /\ Calls /\ checkout.os_call /\ checkout.feed_mounts # 0
    /\ checkout' = [checkout EXCEPT !.os_call = FALSE, !.feed_mounts = 0, !.turn_in_flight = TRUE]
    /\ op' = [Call("mounts", Answering("ResumeCall")) EXCEPT
                !.at = "mounts", !.mounts = checkout.feed_mounts]
    /\ UNCHANGED <<result, wire, delivered, slept>>
ReadFromMounts ==
    /\ Calls /\ checkout.os_call /\ checkout.feed_mounts # 0 /\ checkout.pending.kind = "import"
    /\ checkout' = [checkout EXCEPT !.feed_mounts = 0, !.turn_in_flight = TRUE]
    /\ op' = [Call("read", None) EXCEPT !.at = "mounts", !.mounts = checkout.feed_mounts]
    /\ UNCHANGED <<result, wire, delivered, slept>>

(* The task ends: a mount answered the call, or none covers it.  An answer *)
(* too large for a frame is replaced by an exception at once.              *)
PutBack == [checkout EXCEPT !.feed_mounts = op.mounts, !.turn_in_flight = FALSE]
MountAnswers ==
    /\ op.at = "mounts" /\ op.call = "mounts"
    /\ \E call \in {"mounts", "resume"} : Sends(PutBack, [op EXCEPT !.at = "turn", !.call = call])
    /\ UNCHANGED ids
MountDeclines ==
    /\ op.at = "mounts"
    /\ checkout' = [PutBack EXCEPT !.os_call = TRUE]
    /\ op' = Idle /\ result' = "ok"
    /\ UNCHANGED <<wire, ids, delivered, slept>>
(* run_blocking: a task that panics costs the session its worker.          *)
MountTaskFails == op.at = "mounts" /\ Loses(Discarded(checkout), "mounts")

(* restore, also while a feed is suspended.                                *)
Restore ==
    /\ Calls
    /\ \E dump \in Dumps :
        LET c == [BeginLoad(checkout) EXCEPT !.pending = None, !.os_call = FALSE,
                    !.session_id = FALSE, !.feed_mounts = ids + 1]
            o == [Call("restore", [NextRequest("Load") EXCEPT !.dump = dump]) EXCEPT
                    !.had_id = checkout.session_id]
        IN Sends(c, o) \/ TooLarge(c, o)

InstallDependencies ==
    /\ Calls /\ checkout.pending = None
    /\ Sends(checkout, Call("install", NextRequest("InstallDependencies")))
Dump == Calls /\ Sends(checkout, Call("dump", NextRequest("Dump")))

(* turn_raw: whatever its client sends, lifecycle requests excepted.  The   *)
(* driver reads what it answers from the last suspension it forwarded, the *)
(* one the child holds.                                                    *)
RawRequests ==
    LET answers == IF Held(child) THEN child.susp ELSE [key |-> 0, serial |-> 0]
    IN  {[NextRequest("Feed") EXCEPT !.checked = checked] : checked \in BOOLEAN}
        \cup {[NextRequest(kind) EXCEPT !.key = answers.key, !.serial = answers.serial,
                                        !.decodes = decodes] :
                  kind \in Resumes, decodes \in Decodes}
        \cup {[NextRequest("Load") EXCEPT !.dump = dump] : dump \in Dumps}
        \cup {NextRequest(kind) : kind \in {"AbortFeed", "Dump", "InstallDependencies"}}
RawTurn ==
    /\ Turns /\ Raw
    /\ \E r \in RawRequests :
        LET c == IF r.kind = "Load" THEN BeginLoad(checkout) ELSE checkout
            o == Call("raw", r)
        IN  /\ ~(r.kind = "Feed" /\ Cpu /\ checkout.budget.suspended)
            /\ Sends(c, o) \/ TooLarge(c, o)

(* finish: a subprocess is reset for the next session, a remote stream is  *)
(* simply let go; terminate and Drop kill the worker.                      *)
Finish == Turns /\ ~Remote /\ Sends(checkout, Call("finish", NextRequest("Reset")))
LetGo ==
    /\ checkout.worker /\ op.at = "idle"
    /\ Loses(Released(checkout), IF Remote THEN "released" ELSE "terminated")

(* Mutant: dropping the future clears the flag on its way out.             *)
CancelClearsFlag ==
    /\ op.at # "idle"
    /\ op' = Idle /\ result' = "cancelled"
    /\ checkout' = [checkout EXCEPT !.turn_in_flight = FALSE]
    /\ UNCHANGED <<wire, ids, delivered, slept>>

(* The caller drops the future of a call.  `create` and `finish` own the   *)
(* checkout, which goes with them; any other call leaves it as it is, with *)
(* the `redial` a reload had taken gone.                                   *)
Cancel ==
    /\ op.at # "idle"
    /\ \/ op.call \in {"create", "finish"} /\ Loses(Released(checkout), "cancelled")
       \/ /\ op.call \notin {"create", "finish"}
          /\ op' = Idle /\ result' = "cancelled"
          /\ UNCHANGED <<checkout, wire, ids, delivered, slept>>

(* The next call finds the turn still in flight: ensure_ready discards.    *)
StaleCall ==
    /\ checkout.worker /\ op.at = "idle" /\ checkout.turn_in_flight
    /\ Loses(Discarded(checkout), "stale")

-----------------------------------------------------------------------------
(* The checkout, reading a reply: turn_io and the calls above it.          *)

event == Head(outbox)
Reading == Awaiting /\ checkout.worker /\ outbox # <<>>
IsError == event.kind \in {"Error", "TypingError"}

(* The first reply to a `Load` decides which budget stays.                 *)
Adopts == checkout.pending_load_budget # None /\ event.kind \in {"Ok", "Suspension"}
SettledBudget ==
    IF checkout.pending_load_budget = None \/ Adopts THEN checkout.budget
    ELSE checkout.pending_load_budget

(* update_from, and the suspension that a rejected request leaves.         *)
WasSuspended == IF checkout.pending_load_budget = None THEN checkout.budget.suspended
                ELSE checkout.pending_load_budget.suspended
RawFeedEnds == IsError /\ TurnKind \in Execution /\ event.feed_suspended = "no"
Rejects == IF op.call = "raw" THEN ~RawFeedEnds /\ TurnKind # "AbortFeed"
           ELSE TurnKind \notin Execution
PreservesSuspension ==
    /\ Cpu /\ WasSuspended /\ IsError /\ ~checkout.abort_in_flight
    /\ Rejects \/ event.feed_suspended = "yes"
UpdateFrom(b) ==
    [b EXCEPT !.limits = IF event.limits = None THEN @ ELSE Tighten(@, event.limits),
              !.seen = IF event.kind = "Suspension" THEN @ + 1 ELSE @,
              !.suspended = \/ event.kind = "Suspension"
                            \/ PreservesSuspension
                            \/ @ /\ event.kind \notin {"Complete", "Error", "TypingError"}]

(* over_suspension_limit and charge_sleep                                  *)
IsSleep == event.kind = "Suspension" /\ event.susp.kind = "sleep"
OverSuspensions(b) == event.kind = "Suspension" /\ b.seen > b.limits.susp
OverSleep(b) == IsSleep /\ b.slept + 1 > b.limits.sleep
ChargeSleep(b) == IF IsSleep /\ ~OverSleep(b) /\ ~OverSuspensions(b)
                  THEN [b EXCEPT !.slept = @ + 1] ELSE b

(* abort_if_over_budget, up to its decision.                               *)
Budgeted ==
    [checkout EXCEPT !.session_id = @ \/ (event.named /\ op.call # "raw"),
                     !.abort_in_flight = FALSE,
                     !.pending_load_budget = None,
                     !.budget = ChargeSleep(UpdateFrom(SettledBudget))]
OverBudget == LET b == UpdateFrom(SettledBudget) IN OverSuspensions(b) \/ OverSleep(b)

(* Mutant: only a Feed can fail its type check.                            *)
InvalidAfterStubs ==
    \/ checkout.abort_in_flight /\ event.kind \notin {"Error", "FatalError", "Shutdown"}
    \/ event.kind = "TypingError" /\ op.call # "raw" /\ ~(TurnKind = "Feed" /\ op.req.checked)
    \/ event.kind = "Shutdown" /\ ~Remote
(* Replies turn_io does not accept, turn_io_raw a TypingError anywhere.    *)
Invalid ==
    \/ checkout.abort_in_flight /\ event.kind \notin {"Error", "FatalError", "Shutdown"}
    \/ /\ event.kind = "TypingError" /\ op.call # "raw"
       /\ ~(TurnKind = "Feed" /\ op.req.checked)
       /\ ~(TurnKind = "ResumeCall" /\ op.req.key = 0)
    \/ event.kind = "Shutdown" /\ ~Remote

(* Mutant: an error always ends the feed but for a failed dump.            *)
KeepsFeedForDumps == event.kind = "Error" /\ TurnKind = "Dump"
(* The turn-ending event and what it makes of the suspension.              *)
Ends(c) == [c EXCEPT !.pending = None, !.os_call = FALSE, !.feed_mounts = 0]
KeepsFeed == event.kind = "Error" /\ (event.feed_suspended = "yes" \/ TurnKind = "Dump")
(* A raw turn forwards the event, and only drops a typed resume token.     *)
RawAdvances ==
    \/ event.kind \in {"Suspension", "Complete"} \/ RawFeedEnds
    \/ event.kind = "Error" /\ (checkout.abort_in_flight \/ TurnKind = "AbortFeed")
Classified ==
    CASE op.call = "raw" -> IF RawAdvances THEN [Budgeted EXCEPT !.pending = None] ELSE Budgeted
      [] op.call # "raw" /\ event.kind = "Suspension" ->
           [Budgeted EXCEPT !.pending = event.susp, !.os_call = event.susp.kind \in OsKinds]
      [] /\ op.call # "raw" /\ ~KeepsFeed
         /\ event.kind \in {"Complete", "Error", "TypingError"} -> Ends(Budgeted)
      [] OTHER -> Budgeted
Outcome == CASE event.kind \in {"Suspension", "Complete"} -> "turn"
             [] event.kind = "Error"       -> "runtime"
             [] event.kind = "TypingError" -> "typing"
             [] event.kind = "Ok"          -> "ok"
             [] event.kind = "DumpResult"  -> "dump"
Wanted(call) == CASE call \in {"create", "install", "finish"} -> {"ok"}
                  [] call = "restore" -> {"ok", "turn"}
                  [] call = "dump"    -> {"dump"}
                  [] call = "raw"     -> {"ok", "turn", "dump"}
                  [] OTHER            -> {"turn"}
Failed == {"runtime", "typing"}

(* Any failure while the session is reloaded returns the Shutdown.         *)
Reported(outcome) == IF op.at \in {"configure", "load"} THEN "shutdown" ELSE outcome

ReceivePrint ==
    /\ Reading /\ event.kind = "Print"
    /\ outbox' = Tail(outbox)
    /\ UNCHANGED <<session, child, inbox, ran, forfeit>>

TurnEnder == Reading /\ event.kind \notin {"Print", "FatalError"}

(* A dump adopted starts the session's totals again.                       *)
Counts(handed) ==
    LET n == IF handed /\ event.kind = "Suspension" THEN 1 ELSE 0
    IN  /\ delivered' = n + (IF Adopts THEN 0 ELSE delivered)
        /\ slept' = (IF n = 1 /\ IsSleep THEN 1 ELSE 0) + (IF Adopts THEN 0 ELSE slept)

(* Mutant: the aborted suspension is recorded as the pending one.          *)
AbortRecordsPending ==
    /\ TurnEnder /\ ~Invalid /\ OverBudget
    /\ checkout' = [Budgeted EXCEPT !.abort_in_flight = TRUE, !.pending = event.susp]
    /\ outbox' = Tail(outbox) /\ inbox' = Append(inbox, Request(op.req.id, "AbortFeed"))
    /\ Counts(FALSE)
    /\ UNCHANGED <<op, result, child, ran, forfeit, ids>>

(* The suspension is over budget: it never reaches the caller.             *)
AbortOverBudget ==
    /\ TurnEnder /\ ~Invalid /\ OverBudget
    /\ checkout' = [Budgeted EXCEPT !.abort_in_flight = TRUE]
    /\ outbox' = Tail(outbox) /\ inbox' = Append(inbox, Request(op.req.id, "AbortFeed"))
    /\ Counts(FALSE)
    /\ UNCHANGED <<op, result, child, ran, forfeit, ids>>

Accepted == TurnEnder /\ ~Invalid /\ ~OverBudget /\ event.kind # "Shutdown"

(* protocol_violation: the reply, or what it answers, is out of place.     *)
ReceiveInvalid ==
    /\ TurnEnder
    /\ \/ Invalid
       \/ /\ Accepted /\ op.at \in {"turn", "resent"}
          /\ Outcome \notin Failed \cup Wanted(op.call)
    /\ Loses(Discarded(Classified), Reported("protocol"))

(* The call returns.  A mount's answer the worker refused is replaced by   *)
(* an exception, once.                                                     *)
RetriesMount ==
    op.call = "mounts" /\ Outcome = "runtime" /\ Classified.pending # None
CallReturns ==
    /\ Accepted /\ op.at \in {"turn", "resent"} /\ ~RetriesMount
    /\ Outcome \in Failed \cup Wanted(op.call)
    /\ ~(op.call \in {"create", "finish"} /\ Outcome \in Failed)
    /\ checkout' = [AfterCall(op, Classified, Outcome, TRUE) EXCEPT !.worker = op.call # "finish"]
    /\ op' = Idle /\ result' = IF op.call = "finish" THEN "released" ELSE Outcome
    /\ outbox' = Tail(outbox) /\ Counts(TRUE)
    /\ UNCHANGED <<child, inbox, ran, forfeit, ids>>
ConsumedCallFails ==
    /\ Accepted /\ op.call \in {"create", "finish"} /\ Outcome \in Failed
    /\ Loses(Discarded(Classified), Outcome)
MountAnswerRefused ==
    /\ Accepted /\ op.at \in {"turn", "resent"} /\ RetriesMount
    /\ checkout' = [AfterCall(op, Classified, Outcome, TRUE) EXCEPT !.turn_in_flight = TRUE]
    /\ op' = [op EXCEPT !.call = "resume", !.at = "turn"]
    /\ outbox' = Tail(outbox) /\ inbox' = Append(inbox, op.req)
    /\ UNCHANGED <<result, child, ran, forfeit, ids, delivered, slept>>

(* fatal_error (a raw turn only reaps), poison, and the deadline of the turn.                      *)
ReceiveFatal ==
    /\ Reading /\ event.kind = "FatalError"
    /\ Loses(IF op.call = "raw" THEN Released(Budgeted) ELSE Poisoned(Budgeted), Reported("crashed"))
WorkerGone ==
    /\ Awaiting /\ checkout.worker /\ outbox = <<>> /\ child.state = "dead"
    /\ Loses(Poisoned(checkout), Reported("crashed"))
DeadlineExpires ==
    /\ Awaiting /\ checkout.worker
    /\ Loses(Poisoned(checkout), Reported("timeout"))

-----------------------------------------------------------------------------
(* The relay shut down: reload the session and send the request again.     *)

(* can_resume; a raw turn hands the Shutdown to its driver.                *)
CanResume(c) == /\ c.redial /\ c.session_id /\ op.call # "raw"
                /\ TurnKind \notin {"Configure", "Load", "Reset"}

(* Mutant: a re-sent request may be resumed again.                         *)
ShutdownKeepsRedial ==
    /\ TurnEnder /\ ~Invalid /\ event.kind = "Shutdown"
    /\ \/ /\ event.dump # None /\ CanResume(Budgeted)
          /\ checkout' = Released(Budgeted)
          /\ op' = [op EXCEPT !.at = "dial", !.dump = event.dump]
          /\ child' = DeadChild /\ inbox' = <<>> /\ outbox' = <<>> /\ forfeit' = "no"
          /\ UNCHANGED <<result, ran, ids, delivered, slept>>
       \/ /\ event.dump = None \/ ~CanResume(Budgeted)
          /\ Loses(Discarded(Budgeted), "shutdown")

(* request_turn and after_shutdown: `redial` is taken for the duration.    *)
ReceiveShutdown ==
    /\ TurnEnder /\ ~Invalid /\ event.kind = "Shutdown"
    /\ \/ /\ event.dump # None /\ CanResume(Budgeted)
          /\ checkout' = [Released(Budgeted) EXCEPT !.redial = FALSE]
          /\ op' = [op EXCEPT !.at = "dial", !.dump = event.dump]
          /\ child' = DeadChild /\ inbox' = <<>> /\ outbox' = <<>> /\ forfeit' = "no"
          /\ UNCHANGED <<result, ran, ids, delivered, slept>>
       \/ /\ event.dump = None \/ ~CanResume(Budgeted)
          /\ Loses(Discarded(Budgeted), "shutdown")

(* reload_session: a new worker, configured as the first was.              *)
Redial ==
    /\ op.at = "dial"
    /\ checkout' = [checkout EXCEPT !.worker = TRUE, !.turn_in_flight = TRUE]
    /\ op' = [op EXCEPT !.at = "configure", !.expected = PendingKey(checkout.pending)]
    /\ child' = NewChild /\ inbox' = <<Request(op.req.id, "Configure")>> /\ outbox' = <<>>
    /\ UNCHANGED <<result, ran, forfeit, ids, delivered, slept>>
RedialFails == op.at = "dial" /\ Loses(Discarded(checkout), "shutdown")

Proceeds(c, at, o, r) ==
    /\ checkout' = [c EXCEPT !.turn_in_flight = TRUE]
    /\ op' = [o EXCEPT !.at = at]
    /\ outbox' = Tail(outbox) /\ inbox' = Append(inbox, r)
    /\ UNCHANGED <<result, child, ran, forfeit, ids, delivered, slept>>

(* The totals are set aside while the suspension is announced again.       *)
Reload ==
    /\ Accepted /\ op.at = "configure" /\ Outcome = "ok"
    /\ Proceeds([Classified EXCEPT !.budget.seen = 0, !.budget.slept = 0], "load",
                [op EXCEPT !.seen = Classified.budget.seen, !.slept = Classified.budget.slept],
                [Request(op.req.id, "Load") EXCEPT !.dump = op.dump])

(* Mutants: any suspension will do, and the totals stay at zero.           *)
MatchesAny == Outcome \in {"ok", "turn"}
(* The reply must match the session as it was shut down.                   *)
Matches == \/ Outcome = "ok" /\ op.expected = None
           \/ /\ Outcome = "turn" /\ op.expected # None
              /\ PendingKey(Classified.pending) = op.expected
SendAgainUncounted ==
    Accepted /\ op.at = "load" /\ Matches /\ Proceeds(Classified, "resent", op, op.req)
SendAgain ==
    /\ Accepted /\ op.at = "load" /\ Matches
    /\ Proceeds([Classified EXCEPT !.budget.seen = op.seen, !.budget.slept = op.slept],
                "resent", op, op.req)
ReloadFails ==
    /\ Accepted
    /\ \/ op.at = "configure" /\ Outcome # "ok"
       \/ op.at = "load" /\ ~Matches
    /\ Loses(Discarded(Classified), "shutdown")

-----------------------------------------------------------------------------
Child ==
    \/ HandleConfigure \/ HandleFeed \/ HandleResumeStubs \/ HandleResume \/ HandleAbortFeed
    \/ HandleDump \/ HandleLoad \/ HandleInstall \/ HandleReset \/ RejectFrame
    \/ ChildDies \/ RelayShutsDown \/ Misbehaves
Host ==
    \/ Feed \/ Resume \/ ResumeFromMounts \/ ReadFromMounts \/ Restore
    \/ InstallDependencies \/ Dump \/ RawTurn \/ Finish \/ LetGo \/ Cancel \/ StaleCall
Checkout ==
    \/ MountAnswers \/ MountDeclines \/ MountTaskFails
    \/ ReceivePrint \/ AbortOverBudget \/ ReceiveInvalid \/ CallReturns \/ ConsumedCallFails
    \/ MountAnswerRefused \/ ReceiveFatal \/ WorkerGone \/ DeadlineExpires
    \/ ReceiveShutdown \/ Redial \/ RedialFails \/ Reload \/ SendAgain \/ ReloadFails
Next == (Child \/ Host \/ Checkout) /\ UNCHANGED setup

Spec == Init /\ [][Next]_<<vars, setup>>

(* Liveness needs the deadline only: `request_timeout` is configured, and  *)
(* dialling a relay succeeds or fails.                                     *)
FairSpec == Spec /\ WF_vars(DeadlineExpires) /\ WF_vars(Redial \/ RedialFails)

-----------------------------------------------------------------------------
(* Every variable holds a value of its type, and a retained OS call belongs *)
(* to a pending OS call (`Pending::Call { os_call, .. }` in the code).      *)
TypeOK ==
    /\ checkout.pending \in Suspensions \cup {None}
    /\ checkout.os_call => checkout.pending # None /\ checkout.pending.kind \in OsKinds
    /\ checkout.feed_mounts \in 0..MaxRequests
    /\ checkout.budget.limits \in Limits /\ checkout.budget.seen \in Nat
    /\ op.at \in {"idle", "turn", "mounts", "dial", "configure", "load", "resent"}
    /\ (op.at = "idle") = (op = Idle)
    /\ child.susp \in Suspensions \cup {None} /\ (child.susp # None) = Held(child)
    /\ \A i \in DOMAIN inbox : inbox[i].id \in 0..ids

(* The stream is in step: no call runs, none was cancelled, the worker lives. *)
Synced == checkout.worker /\ op.at = "idle" /\ ~checkout.turn_in_flight /\ child.state # "dead"

(* Whenever the host may make a call the two sides agree, after refused     *)
(* requests, failed loads, aborts, dumps mid-feed and reloads on a new      *)
(* worker alike.  The checkout never lets the host answer a suspension the  *)
(* worker does not wait at, nor takes an idle session for a suspended one   *)
(* (`cpu_feed_suspended`, which alone keeps a second feed off a suspended   *)
(* session in CPU mode).  Nor does it lose the one the worker waits at,     *)
(* but in two ways: `pending` also by a `restore` sent mid-feed, which      *)
(* clears it before the worker refuses the load, and both fields by a typed *)
(* request the worker could not decode, whose answer does not say that the  *)
(* feed is still suspended.  A stored session can be reloaded by its ID.    *)
SidesAgree ==
    Synced /\ Honest =>
        /\ ~Raw /\ checkout.pending # None => Held(child) /\ checkout.pending = child.susp
        /\ ~Raw /\ Held(child) /\ forfeit = "no" => checkout.pending = child.susp
        /\ Cpu /\ checkout.budget.suspended => Held(child)
        /\ Cpu /\ Held(child) /\ (forfeit # "frame" \/ Raw) => checkout.budget.suspended
        /\ Remote => checkout.session_id

(* However feeds, refused and adopted loads, aborts and reloads alternate,  *)
(* the host is handed no more suspensions and no more system sleeps than    *)
(* were configured, counted from the last dump adopted.                     *)
LimitsHold == delivered <= MaxSuspensions /\ slept <= MaxSleep

(* A call only reads events that answer its own request (or the abort sent  *)
(* in its name): what a cancelled turn left behind is never taken for a     *)
(* reply to a later one.  Replies carry no request id, so this is said of a *)
(* worker that answers each request once.                                   *)
ReplyOwn ==
    Honest /\ Awaiting => \A i \in DOMAIN outbox :
                    outbox[i].re \in {<<op.req.id, TurnKind>>, <<op.req.id, "AbortFeed">>}

(* A worker that runs worker.rs is never discarded for violating the        *)
(* protocol: turn_io accepts whatever the child's handlers can send.        *)
HonestReply == Honest => result # "protocol"

(* An answer the child is about to accept was given for the suspension it   *)
(* waits at.  Only one that ran already, and is sent again after a reload,  *)
(* may meet another, and that has the same `PendingKey`: a call is the same *)
(* call by its id, and what can be confused is two lookups of one name, or  *)
(* two waits for the same calls.                                            *)
AnswersOwnSuspension ==
    Honest => \A i \in DOMAIN inbox :
        inbox[i].kind \in Resumes /\ Accepts(child, inbox[i]) =>
            \/ inbox[i].serial = child.susp.serial
            \/ /\ \E k \in DOMAIN ran : ran[k].id = inbox[i].id
               /\ child.susp.kind \in {"lookup", "futures"} /\ inbox[i].key = child.susp.key

(* No request's code is started twice, whatever is reloaded and sent again: *)
(* checkout.rs:1617 re-sends a request "which the relay reported it did not *)
(* run".                                                                    *)
NoRequestRunTwice == Honest => \A i, j \in DOMAIN ran : ran[i].id = ran[j].id => i = j

(* What the reload's comparison of `PendingKey`s does guarantee: a request  *)
(* is started a second time only when it answers a lookup or futures, so no *)
(* feed and no answer of a call is, and none is started a third time.       *)
ResendIsBounded ==
    Honest => \A i, j \in DOMAIN ran :
        i < j /\ ran[i].id = ran[j].id =>
            /\ ran[i].answers = ran[j].answers /\ ran[j].answers \in {"lookup", "futures"}
            /\ \A k \in DOMAIN ran : ran[k].id = ran[i].id => k \in {i, j}

(* A worker handed back to the pool carries nothing of the session: the     *)
(* child is reset (or has died since, which the pool tests for), and        *)
(* neither a request nor an event is on the stream.                         *)
ReleasedClean ==
    result = "released" /\ ~Remote /\ Honest =>
        child \in {NewChild, DeadChild} /\ inbox = <<>> /\ outbox = <<>>

(* The mounts offered to an OS call are those of the feed that made it,     *)
(* while they sit in the checkout and while a blocking task holds them.     *)
MountsOwnFeed ==
    Honest /\ child.state # "dead" =>
        /\ Synced /\ checkout.os_call => checkout.feed_mounts = child.feed
        /\ op.at = "mounts" => op.mounts = child.feed

(* Every protocol turn ends, reloads and re-sent requests included.         *)
TurnEnds == (Awaiting \/ op.at = "dial") ~> op.at = "idle"

=============================================================================
