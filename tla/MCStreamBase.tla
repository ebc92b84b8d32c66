---------------------------- MODULE MCStreamBase ----------------------------
(***************************************************************************)
(* Small instances of StreamBase: the programs the callers run and the     *)
(* reconnect policies in use.                                              *)
(***************************************************************************)
EXTENDS StreamBase, TLC

CONSTANTS c1, c2

MCCallers    == {c1, c2}
MCOneCaller  == {c1}

\* Both threads connect and disconnect, one changes the policy and one destroys the stream.
MCLifecycleProgram ==
  (c1 :> {"connect", "disconnect", "set_reconnect_policy"}) @@
  (c2 :> {"connect", "disconnect", "shutdown"})

\* One thread connects while the other disconnects or shuts down.
MCWakeupProgram ==
  (c1 :> {"connect"}) @@ (c2 :> {"disconnect", "shutdown"})

\* One thread connects; with MaxCalls = 1, once.
MCConnectProgram == c1 :> {"connect"}

\* One thread connects and disconnects in any order.
MCSequentialProgram == c1 :> {"connect", "disconnect"}

MCUnlimited == {[enabled |-> TRUE, max_attempts |-> 0]}
MCLimited   == {[enabled |-> TRUE, max_attempts |-> 1],
                [enabled |-> TRUE, max_attempts |-> 2]}
MCMixed     == {[enabled |-> TRUE, max_attempts |-> 0],
                [enabled |-> FALSE, max_attempts |-> 0]}
=============================================================================
