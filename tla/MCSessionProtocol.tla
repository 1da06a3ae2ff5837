-------------------------- MODULE MCSessionProtocol --------------------------
EXTENDS SessionProtocol

(* A local worker in CPU mode that checks types, one behind a relay, and   *)
(* one behind a relay that says anything at any time; and the first and    *)
(* the last as a relay drives them, by raw turns.                          *)
LocalSetup ==
    [remote |-> FALSE, cpu |-> TRUE, type_check |-> TRUE, calls |-> 3, requests |-> 4,
     honest |-> TRUE, undecodable |-> TRUE, raw |-> FALSE,
     kinds |-> {"function", "sleep", "import", "futures"}]
RelaySetup ==
    [remote |-> TRUE, cpu |-> FALSE, type_check |-> FALSE, calls |-> 4, requests |-> 3,
     honest |-> TRUE, undecodable |-> TRUE, raw |-> FALSE,
     kinds |-> {"function", "sleep", "lookup", "futures"}]
UntrustedSetup ==
    [RelaySetup EXCEPT !.requests = 2, !.kinds = {"sleep"}, !.honest = FALSE,
                       !.undecodable = FALSE]
RawSetup ==
    [LocalSetup EXCEPT !.raw = TRUE, !.kinds = {"sleep", "lookup"}]
RawRelaySetup == [UntrustedSetup EXCEPT !.raw = TRUE]
MCSetups == {LocalSetup, RelaySetup, UntrustedSetup, RawSetup, RawRelaySetup}
RelayOnly == {RelaySetup}

(* A never-suspended session, one dumped at a function call, one at an OS  *)
(* call under tighter limits, and one dumped (by an in-process host) as it *)
(* completed.                                                              *)
Tight == [susp |-> 0, sleep |-> 0]
MCDumps ==
    {[state |-> "ready", susp |-> None, limits |-> Configured, cwd |-> TRUE,
      calls |-> 0, feed |-> 0],
     [state |-> "suspended", limits |-> Configured, cwd |-> TRUE, calls |-> 1, feed |-> 0,
      susp |-> [kind |-> "function", key |-> 1, serial |-> 1, eager |-> TRUE]],
     [state |-> "suspended", limits |-> Tight, cwd |-> TRUE, calls |-> 1, feed |-> 0,
      susp |-> [kind |-> "os", key |-> 1, serial |-> 1, eager |-> FALSE]],
     [state |-> "complete", susp |-> None, limits |-> Tight, cwd |-> TRUE,
      calls |-> 0, feed |-> 0]}
==============================================================================
