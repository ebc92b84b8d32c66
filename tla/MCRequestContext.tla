-------------------------- MODULE MCRequestContext --------------------------
(***************************************************************************)
(* Small instances of RequestContext: blocking calls and coroutines on one *)
(* limiter.                                                                *)
(***************************************************************************)
EXTENDS RequestContext, TLC

CONSTANTS r1, r2, r3

MCRequests == {r1, r2, r3}
MCAsync    == {r3}
=============================================================================
