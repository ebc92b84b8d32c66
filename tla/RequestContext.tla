--------------------------- MODULE RequestContext ---------------------------
(***************************************************************************)
(* The request loop every REST call goes through                           *)
(* (core/src/detail/request_context.cpp): wait for the limiter, send,      *)
(* record a 429, back off and retry, or give up.  Blocking calls           *)
(* (execute_raw) and coroutines (async_execute_raw) share one limiter.     *)
(*                                                                         *)
(* RateLimiter models the limiter's atomics one access at a time.  Here    *)
(* its word and its barrier are seen at the grain of the loop, as the time *)
(* from now to them: ahead is tat_ - now, or 0, blocked is                 *)
(* blocked_until_ - now, or 0.  The test of the barrier and the            *)
(* reservation stay two steps.  A tick takes one from everything that is   *)
(* waited for; a sleeper may wake late, never early.                       *)
(*                                                                         *)
(* The HTTP library and the server are external: every request that is     *)
(* sent is answered, with any status.                                      *)
(***************************************************************************)
EXTENDS Integers, FiniteSets

CONSTANTS
  Requests,         \* calls made on one context
  Async,            \* those made as coroutines
  Interval, Burst,  \* the limiter's interval_ns and burst_ns, in ticks
  Second,           \* ticks in a second
  MaxAttempts,      \* retry_policy::max_attempts
  InitialBackoff,   \* retry_policy::initial_backoff_ms, in ticks
  MaxBackoff        \* retry_policy::max_backoff_ms, in ticks

ASSUME RequestAssumption == IsFiniteSet(Requests) /\ Async \subseteq Requests
ASSUME LimiterAssumption == Interval \in Nat /\ Burst \in Nat /\ Second \in Nat
ASSUME PolicyAssumption ==
  MaxAttempts \in Nat /\ InitialBackoff \in Nat /\ MaxBackoff \in Nat

VARIABLES
  ahead,     \* how far tat_ lies ahead of now
  blocked,   \* how long the barrier still stands
  pc,        \* where each call is
  attempt,   \* the attempts of each call
  timer,     \* what is left of the sleep each call is in
  status,    \* the last answer of each call
  cooling    \* history: what is left of the second after a call's last 429

limiter == <<ahead, blocked>>
vars    == <<limiter, pc, attempt, timer, status, cooling>>

\* "429", any 5xx, and everything else that is not a success (4xx, no connection).
Status == {"ok", "429", "5xx", "other"}

Pc == {"idle", "acquire", "barrier", "reserve", "slot", "try", "wait", "poll",
       "send", "answer", "handle", "decide", "backoff", "returned", "thrown"}

TypeOK ==
  /\ ahead \in Nat
  /\ blocked \in Nat
  /\ pc \in [Requests -> Pc]
  /\ attempt \in [Requests -> Nat]
  /\ timer \in [Requests -> Nat]
  /\ status \in [Requests -> Status \cup {"none"}]
  /\ cooling \in [Requests -> Nat]

Init ==
  /\ ahead = 0
  /\ blocked = 0
  /\ pc = [r \in Requests |-> "idle"]
  /\ attempt = [r \in Requests |-> 0]
  /\ timer = [r \in Requests |-> 0]
  /\ status = [r \in Requests |-> "none"]
  /\ cooling = [r \in Requests |-> 0]

Later(a, b) == IF a >= b THEN a ELSE b

Monus(a, b) == IF a > b THEN a - b ELSE 0

is_retryable_status(s) == s \in {"429", "5xx"}

Cap(ticks) == IF ticks > MaxBackoff THEN MaxBackoff ELSE ticks

\* The initial backoff, doubled after each failed attempt but the first, capped.
next_backoff_ms(n) ==
  LET backoff[i \in Nat] == IF i <= 1 THEN InitialBackoff ELSE Cap(2 * backoff[i - 1])
  IN  Cap(backoff[n])

Goto(r, from, to) ==
  /\ pc[r] = from
  /\ pc' = [pc EXCEPT ![r] = to]

\* The call sleeps for at least `ticks`.
Sleep(r, ticks) == timer' = [timer EXCEPT ![r] = ticks]

Slept(r, from, to) ==
  /\ Goto(r, from, to)
  /\ timer[r] = 0
  /\ UNCHANGED <<limiter, attempt, timer, status, cooling>>

(***************************************************************************)
(* The attempt and the limiter.                                            *)
(***************************************************************************)

Acquiring(r) == IF r \in Async THEN "try" ELSE "acquire"

Begin(r) ==
  /\ Goto(r, "idle", Acquiring(r))
  /\ attempt' = [attempt EXCEPT ![r] = 1]
  /\ UNCHANGED <<limiter, timer, status, cooling>>

\* acquire(): nothing to do when limiting is disabled, the barrier first otherwise.
Acquire(r) ==
  /\ \/ /\ Interval = 0
        /\ Goto(r, "acquire", "send")
        /\ UNCHANGED timer
     \/ /\ Interval # 0 /\ blocked > 0
        /\ Goto(r, "acquire", "barrier")
        /\ Sleep(r, blocked)
     \/ /\ Interval # 0 /\ blocked = 0
        /\ Goto(r, "acquire", "reserve")
        /\ UNCHANGED timer
  /\ UNCHANGED <<limiter, attempt, status, cooling>>

BarrierOver(r) == Slept(r, "barrier", "acquire")

\* Mutant of Reserve: the slot is reserved and not slept for.
ReserveAndGo(r) ==
  /\ Goto(r, "reserve", "send")
  /\ ahead' = ahead + Interval
  /\ UNCHANGED <<blocked, attempt, timer, status, cooling>>

\* The slot is reserved whatever the budget says, and slept for.
Reserve(r) ==
  /\ ahead' = ahead + Interval
  /\ Goto(r, "reserve", IF ahead' > Burst THEN "slot" ELSE "send")
  /\ Sleep(r, Monus(ahead', Burst))
  /\ UNCHANGED <<blocked, attempt, status, cooling>>

SlotDue(r) == Slept(r, "slot", "send")

\* Mutant of Try: the last slot of the burst is never given.
TryStrictly(r) ==
  /\ IF Interval = 0 THEN Goto(r, "try", "send") /\ UNCHANGED ahead
     ELSE IF blocked = 0 /\ ahead + Interval < Burst
     THEN Goto(r, "try", "send") /\ ahead' = ahead + Interval
     ELSE Goto(r, "try", "wait") /\ UNCHANGED ahead
  /\ UNCHANGED <<blocked, attempt, timer, status, cooling>>

\* try_acquire(): a slot if one is free and the barrier is down.
Try(r) ==
  /\ IF Interval = 0 THEN Goto(r, "try", "send") /\ UNCHANGED ahead
     ELSE IF blocked = 0 /\ ahead + Interval <= Burst
     THEN Goto(r, "try", "send") /\ ahead' = ahead + Interval
     ELSE Goto(r, "try", "wait") /\ UNCHANGED ahead
  /\ UNCHANGED <<blocked, attempt, timer, status, cooling>>

\* wait_time_ns(), at least a millisecond, on a timer; then another try.
Wait(r) ==
  /\ Goto(r, "wait", "poll")
  /\ Sleep(r, Later(1, IF blocked > 0 THEN blocked ELSE Monus(ahead + Interval, Burst)))
  /\ UNCHANGED <<limiter, attempt, status, cooling>>

PollAgain(r) == Slept(r, "poll", "try")

(***************************************************************************)
(* The exchange and its outcome.                                           *)
(***************************************************************************)

Send(r) ==
  /\ Goto(r, "send", "answer")
  /\ UNCHANGED <<limiter, attempt, timer, status, cooling>>

Answer(r) ==
  /\ Goto(r, "answer", "handle")
  /\ \E s \in Status : status' = [status EXCEPT ![r] = s]
  /\ UNCHANGED <<limiter, attempt, timer, cooling>>

\* Mutant of Handle: a 429 is not recorded.
HandleForgets429(r) ==
  /\ Goto(r, "handle", IF status[r] = "ok" THEN "returned" ELSE "decide")
  /\ cooling' = IF status[r] = "429" THEN [cooling EXCEPT ![r] = Second] ELSE cooling
  /\ UNCHANGED <<limiter, attempt, timer, status>>

\* A success returns; a 429 raises the barrier for everybody.
Handle(r) ==
  /\ Goto(r, "handle", IF status[r] = "ok" THEN "returned" ELSE "decide")
  /\ IF status[r] = "429"
     THEN /\ blocked' = Later(blocked, Second)
          /\ cooling' = [cooling EXCEPT ![r] = Second]
     ELSE UNCHANGED <<blocked, cooling>>
  /\ UNCHANGED <<ahead, attempt, timer, status>>

\* Mutant of MayRetry: the attempts are counted from zero.
MayRetryOnceMore(r) == is_retryable_status(status[r]) /\ attempt[r] <= MaxAttempts

MayRetry(r) == is_retryable_status(status[r]) /\ attempt[r] < MaxAttempts

Retry(r) ==
  /\ Goto(r, "decide", "backoff")
  /\ MayRetry(r)
  /\ Sleep(r, next_backoff_ms(attempt[r]))
  /\ UNCHANGED <<limiter, attempt, status, cooling>>

\* throw_api_error() with the last answer.
GiveUp(r) ==
  /\ Goto(r, "decide", "thrown")
  /\ ~MayRetry(r)
  /\ UNCHANGED <<limiter, attempt, timer, status, cooling>>

BackedOff(r) ==
  /\ Goto(r, "backoff", Acquiring(r))
  /\ timer[r] = 0
  /\ attempt' = [attempt EXCEPT ![r] = @ + 1]
  /\ UNCHANGED <<limiter, timer, status, cooling>>

(***************************************************************************)
(* Time, and the specification.                                            *)
(***************************************************************************)

\* Mutant of Tick: a word behind the clock is not brought up to it (std::max is forgotten).
TickLeavesBehind ==
  /\ \/ ahead > 0 \/ blocked > 0
     \/ \E r \in Requests : timer[r] > 0 \/ cooling[r] > 0
  /\ ahead' = ahead - 1
  /\ blocked' = Monus(blocked, 1)
  /\ timer' = [r \in Requests |-> Monus(timer[r], 1)]
  /\ cooling' = [r \in Requests |-> Monus(cooling[r], 1)]
  /\ UNCHANGED <<pc, attempt, status>>

\* The clock: everything that is waited for comes a tick nearer.
Tick ==
  /\ \/ ahead > 0 \/ blocked > 0
     \/ \E r \in Requests : timer[r] > 0 \/ cooling[r] > 0
  /\ ahead' = Monus(ahead, 1)
  /\ blocked' = Monus(blocked, 1)
  /\ timer' = [r \in Requests |-> Monus(timer[r], 1)]
  /\ cooling' = [r \in Requests |-> Monus(cooling[r], 1)]
  /\ UNCHANGED <<pc, attempt, status>>

Step(r) ==
  \/ Acquire(r) \/ BarrierOver(r) \/ Reserve(r) \/ SlotDue(r)
  \/ Try(r) \/ Wait(r) \/ PollAgain(r)
  \/ Send(r) \/ Answer(r) \/ Handle(r) \/ Retry(r) \/ GiveUp(r) \/ BackedOff(r)

\* Every call has ended and the limiter is at rest.
Rest ==
  /\ \A r \in Requests : pc[r] \in {"idle", "returned", "thrown"}
  /\ UNCHANGED vars

Next ==
  \/ \E r \in Requests : Begin(r) \/ Step(r)
  \/ Tick
  \/ Rest

\* Threads and the io_context run, time passes, and the server answers; nothing forces a call.
Fairness == WF_vars(Tick) /\ \A r \in Requests : WF_vars(Step(r))

Spec == Init /\ [][Next]_vars /\ Fairness

-----------------------------------------------------------------------------
(***************************************************************************)
(* Properties.                                                             *)
(***************************************************************************)

\* The retry of a call that got a 429 goes out no sooner than a second after it, although the
\* backoff alone may be shorter: the limiter, not the backoff, holds the line
\* (request_context.cpp:168-171), for blocking calls and coroutines alike.
RetryWaitsOutBarrier ==
  Interval # 0 => \A r \in Requests : pc[r] \in {"reserve", "slot", "send"} => cooling[r] = 0

\* No more than the burst is out at once, retries and coroutines included: what tat_ lies
\* ahead of the burst belongs to calls still asleep for their slot.
DebtIsSleptFor ==
  ahead <= Burst + Interval * Cardinality({r \in Requests : pc[r] = "slot"})

\* A failure reaches the caller only if it is not retryable or the attempts are used up, and
\* no call makes more of them than the policy allows (one if it allows none).
GivesUpInTime ==
  \A r \in Requests :
    /\ attempt[r] <= Later(1, MaxAttempts)
    /\ pc[r] = "thrown" /\ is_retryable_status(status[r]) => attempt[r] >= MaxAttempts

\* Every call ends: finitely many others cannot keep a coroutine polling for ever, nor a
\* server that fails every attempt a call retrying.
EveryCallEnds == <>[](\A r \in Requests : pc[r] \in {"idle", "returned", "thrown"})
=============================================================================
