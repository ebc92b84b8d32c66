--------------------------- MODULE MCRateLimiter ---------------------------
(***************************************************************************)
(* Small instances of RateLimiter: two threads and a minute of a few       *)
(* ticks.                                                                  *)
(***************************************************************************)
EXTENDS RateLimiter, TLC

CONSTANTS t1, t2

MCThreads == {t1, t2}

\* Requests of both kinds and 429s race; the rate is fixed.
MCFixedProgram ==
  (t1 :> {"try_acquire", "notify_rate_limited"})
    @@ (t2 :> {"try_acquire", "acquire", "notify_rate_limited"})

\* Requests race with a change of rate.
MCChangeProgram ==
  (t1 :> {"try_acquire", "acquire"}) @@ (t2 :> {"try_acquire", "set_rate"})

\* With four ticks a minute: a request every two ticks, the burst defaulting to the rate.
MCDefault  == [rpm |-> 2, burst |-> 0]
\* With six ticks a minute: a request every two ticks, one at a time.
MCTight    == [rpm |-> 3, burst |-> 1]
\* With six ticks a minute: a request a tick, one at a time.
MCRates    == {[rpm |-> 6, burst |-> 1]}
MCNoRates  == {}
MCRetryAfters   == {1}
MCNoRetryAfters == {}
=============================================================================
