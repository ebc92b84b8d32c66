---------------------------- MODULE RateLimiter ----------------------------
(***************************************************************************)
(* The lock-free request pacer alpaca::rate_limiter                        *)
(* (core/src/rate_limiter.cpp): a GCRA bucket in one atomic word, tat_, and *)
(* a hard barrier, blocked_until_, raised by a server-side 429.            *)
(*                                                                         *)
(* Every load, store and compare-exchange of an atomic and every read of   *)
(* the clock is a step of its own, so a thread may hold a stale interval,  *)
(* burst, clock reading or tat while others move on.  A compare-exchange   *)
(* that fails spuriously reloads what it has and is a stuttering step.     *)
(* Time is counted in ticks; Minute and Second are their lengths.          *)
(***************************************************************************)
EXTENDS Integers, Sequences

CONSTANTS
  Threads,        \* threads sharing the limiter
  Program,        \* Program[t]: the operations thread t may call
  InitialRate,    \* constructor arguments [rpm, burst]
  Rates,          \* arguments set_rate() may be given
  RetryAfters,    \* seconds notify_rate_limited() may be given
  Minute, Second, \* ticks in a minute and in a second
  MaxCalls,       \* bound: calls made in all
  MaxTime         \* bound: the clock stops here

Ops == {"try_acquire", "acquire", "set_rate", "notify_rate_limited"}

Rate == [rpm : Nat, burst : Nat]

ASSUME ProgramAssumption == Program \in [Threads -> SUBSET Ops]
ASSUME RateAssumption == InitialRate \in Rate /\ Rates \subseteq Rate
ASSUME TimeAssumption ==
  /\ Minute \in Nat
  /\ Second \in Nat
  /\ RetryAfters \subseteq Nat
ASSUME BoundsAssumption == MaxCalls \in Nat /\ MaxTime \in Nat

VARIABLES
  rate_, interval_ns_, burst_ns_, tat_, blocked_until_,  \* the atomics
  clock,     \* the monotonic clock
  pc,        \* where each thread is
  loc,       \* the local variables of each thread's call
  granted,   \* history: the slots reserved since tat_ was last reset, in order
  calls      \* calls made so far

atomics == <<rate_, interval_ns_, burst_ns_, tat_, blocked_until_>>
vars    == <<atomics, clock, pc, loc, granted, calls>>

Locals == [interval : Nat,  \* interval as loaded
           burst    : Nat,  \* burst as loaded
           now      : Nat,  \* last reading of the clock
           tat      : Nat,  \* tat_ as loaded or returned by a failed exchange
           barrier  : Nat,  \* blocked_until_ as loaded or returned by a failed exchange
           until    : Nat,  \* the barrier to raise, or the time to sleep until
           args     : Rate, \* the arguments of set_rate()
           after    : Nat,  \* the argument of notify_rate_limited(), in ticks
           since    : Nat,  \* history: the clock when the call began
           floor    : Nat]  \* history: blocked_until_ when the call began

Grants == [slot : Nat,  \* the theoretical arrival time reserved
           at   : Nat]  \* when the request is let through

TryPc     == {"try_interval", "try_now", "try_barrier", "try_burst", "try_tat", "try_cas"}
AcquirePc == {"acq_interval", "acq_barrier", "acq_now", "acq_sleep_barrier", "acq_burst",
              "acq_tat", "acq_now2", "acq_cas", "acq_sleep_slot"}
SetPc     == {"set_rate", "set_interval", "set_burst", "set_tat"}
NotifyPc  == {"notify_now", "notify_load", "notify_cas"}
Pc == {"idle", "granted", "returned"} \cup TryPc \cup AcquirePc \cup SetPc \cup NotifyPc

TypeOK ==
  /\ rate_ \in Nat
  /\ interval_ns_ \in Nat
  /\ burst_ns_ \in Nat
  /\ tat_ \in Nat
  /\ blocked_until_ \in Nat
  /\ clock \in Nat
  /\ pc \in [Threads -> Pc]
  /\ loc \in [Threads -> Locals]
  /\ granted \in Seq(Grants)
  /\ calls \in Nat

Later(a, b) == IF a >= b THEN a ELSE b   \* std::max

compute_interval(rpm) == IF rpm = 0 THEN 0 ELSE Minute \div rpm

compute_burst(rate) ==
  compute_interval(rate.rpm) * (IF rate.burst # 0 THEN rate.burst ELSE rate.rpm)

NoLocals == [interval |-> 0, burst |-> 0, now |-> 0, tat |-> 0, barrier |-> 0, until |-> 0,
             args |-> InitialRate, after |-> 0, since |-> 0, floor |-> 0]

Init ==
  /\ rate_ = InitialRate.rpm
  /\ interval_ns_ = compute_interval(InitialRate.rpm)
  /\ burst_ns_ = compute_burst(InitialRate)
  /\ tat_ = 0
  /\ blocked_until_ = 0
  /\ clock = 0
  /\ pc = [t \in Threads |-> "idle"]
  /\ loc = [t \in Threads |-> NoLocals]
  /\ granted = <<>>
  /\ calls = 0

(***************************************************************************)
(* Steps of one thread: Goto moves it, Load also keeps what it read.       *)
(***************************************************************************)

Goto(t, from, to) ==
  /\ pc[t] = from
  /\ pc' = [pc EXCEPT ![t] = to]

Load(t, from, to, field, value) ==
  /\ Goto(t, from, to)
  /\ loc' = [loc EXCEPT ![t][field] = value]
  /\ UNCHANGED <<atomics, clock, granted, calls>>

\* A slot reserved: the word moves to it and the history records who is let through when.
Reserve(slot, at) ==
  /\ tat_' = slot
  /\ granted' = Append(granted, [slot |-> slot, at |-> at])
  /\ UNCHANGED <<rate_, interval_ns_, burst_ns_, blocked_until_, clock, calls>>

FirstStep(op) ==
  CASE op = "try_acquire"         -> "try_interval"
    [] op = "acquire"             -> "acq_interval"
    [] op = "set_rate"            -> "set_rate"
    [] op = "notify_rate_limited" -> "notify_now"

Call(t, op, args, seconds) ==
  /\ calls < MaxCalls
  /\ op \in Program[t]
  /\ op # "set_rate" => args = InitialRate
  /\ op # "notify_rate_limited" => seconds = 0
  /\ Goto(t, "idle", FirstStep(op))
  /\ loc' = [loc EXCEPT ![t] = [NoLocals EXCEPT !.args = args,
                                                !.after = seconds * Second,
                                                !.since = clock,
                                                !.floor = blocked_until_]]
  /\ calls' = calls + 1
  /\ UNCHANGED <<atomics, clock, granted>>

\* The call returns to its caller: "granted" when a request was let through.
Return(t) ==
  /\ \/ Goto(t, "granted", "idle")
     \/ Goto(t, "returned", "idle")
  /\ loc' = [loc EXCEPT ![t] = NoLocals]
  /\ UNCHANGED <<atomics, clock, granted, calls>>

(***************************************************************************)
(* try_acquire()                                                           *)
(***************************************************************************)

TryInterval(t) ==
  Load(t, "try_interval", IF interval_ns_ = 0 THEN "granted" ELSE "try_now",
       "interval", interval_ns_)

TryNow(t) == Load(t, "try_now", "try_barrier", "now", clock)

TryBarrier(t) ==
  Load(t, "try_barrier", IF loc[t].now < blocked_until_ THEN "returned" ELSE "try_burst",
       "barrier", blocked_until_)

TryBurst(t) == Load(t, "try_burst", "try_tat", "burst", burst_ns_)

TryTat(t) == Load(t, "try_tat", "try_cas", "tat", tat_)

\* The slot a call would reserve from what it has read.
NewTat(t) == Later(loc[t].tat, loc[t].now) + loc[t].interval

TryRefuse(t) ==
  /\ NewTat(t) > loc[t].now + loc[t].burst
  /\ Goto(t, "try_cas", "returned")
  /\ UNCHANGED <<atomics, clock, loc, granted, calls>>

\* Mutant of TryReserve: the word is stored, not compared and exchanged.
TryReserveBlindly(t) ==
  /\ NewTat(t) <= loc[t].now + loc[t].burst
  /\ Goto(t, "try_cas", "granted")
  /\ Reserve(NewTat(t), loc[t].now)
  /\ UNCHANGED loc

TryReserve(t) ==
  /\ NewTat(t) <= loc[t].now + loc[t].burst
  /\ loc[t].tat = tat_
  /\ Goto(t, "try_cas", "granted")
  /\ Reserve(NewTat(t), loc[t].now)
  /\ UNCHANGED loc

TryAgain(t) ==
  /\ NewTat(t) <= loc[t].now + loc[t].burst
  /\ loc[t].tat # tat_
  /\ Load(t, "try_cas", "try_cas", "tat", tat_)

(***************************************************************************)
(* acquire()                                                               *)
(***************************************************************************)

AcqInterval(t) ==
  Load(t, "acq_interval", IF interval_ns_ = 0 THEN "granted" ELSE "acq_barrier",
       "interval", interval_ns_)

AcqBarrier(t) == Load(t, "acq_barrier", "acq_now", "barrier", blocked_until_)

\* Mutant of AcqNow: the barrier is read and not waited for.
AcqNowIgnoresBarrier(t) == Load(t, "acq_now", "acq_burst", "now", clock)

AcqNow(t) ==
  Load(t, "acq_now", IF clock < loc[t].barrier THEN "acq_sleep_barrier" ELSE "acq_burst",
       "now", clock)

\* sleep_for() may overshoot but never undershoots.
AcqWakeBarrier(t) ==
  /\ clock >= loc[t].barrier
  /\ Goto(t, "acq_sleep_barrier", "acq_barrier")
  /\ UNCHANGED <<atomics, clock, loc, granted, calls>>

AcqBurst(t) == Load(t, "acq_burst", "acq_tat", "burst", burst_ns_)

AcqTat(t) == Load(t, "acq_tat", "acq_now2", "tat", tat_)

AcqNow2(t) == Load(t, "acq_now2", "acq_cas", "now", clock)

\* Mutant of Due: the subtraction is not guarded.
DueUnderflows(t) == NewTat(t) - loc[t].burst

\* Mutant of Due: the slot comes due one interval early.
DueEarly(t) ==
  IF NewTat(t) > loc[t].burst + loc[t].interval
  THEN NewTat(t) - (loc[t].burst + loc[t].interval) ELSE 0

\* When the slot of a call comes due.
Due(t) == IF NewTat(t) > loc[t].burst THEN NewTat(t) - loc[t].burst ELSE 0

\* Mutant of AcqReserve: the word is stored, not compared and exchanged.
AcqReserveBlindly(t) ==
  /\ Goto(t, "acq_cas", IF Due(t) > loc[t].now THEN "acq_sleep_slot" ELSE "granted")
  /\ loc' = [loc EXCEPT ![t].until = Due(t)]
  /\ Reserve(NewTat(t), Later(loc[t].now, Due(t)))

\* The slot is reserved whatever the budget says, and slept for.
AcqReserve(t) ==
  /\ loc[t].tat = tat_
  /\ Goto(t, "acq_cas", IF Due(t) > loc[t].now THEN "acq_sleep_slot" ELSE "granted")
  /\ loc' = [loc EXCEPT ![t].until = Due(t)]
  /\ Reserve(NewTat(t), Later(loc[t].now, Due(t)))

AcqAgain(t) ==
  /\ loc[t].tat # tat_
  /\ Load(t, "acq_cas", "acq_now2", "tat", tat_)

AcqWakeSlot(t) ==
  /\ clock >= loc[t].until
  /\ Goto(t, "acq_sleep_slot", "granted")
  /\ UNCHANGED <<atomics, clock, loc, granted, calls>>

(***************************************************************************)
(* set_rate(): four stores, in program order.                              *)
(***************************************************************************)

SetRate(t) ==
  /\ Goto(t, "set_rate", "set_interval")
  /\ rate_' = loc[t].args.rpm
  /\ UNCHANGED <<interval_ns_, burst_ns_, tat_, blocked_until_, clock, loc, granted, calls>>

SetInterval(t) ==
  /\ Goto(t, "set_interval", "set_burst")
  /\ interval_ns_' = compute_interval(loc[t].args.rpm)
  /\ UNCHANGED <<rate_, burst_ns_, tat_, blocked_until_, clock, loc, granted, calls>>

SetBurst(t) ==
  /\ Goto(t, "set_burst", "set_tat")
  /\ burst_ns_' = compute_burst(loc[t].args)
  /\ UNCHANGED <<rate_, interval_ns_, tat_, blocked_until_, clock, loc, granted, calls>>

SetTat(t) ==
  /\ Goto(t, "set_tat", "returned")
  /\ tat_' = 0
  /\ granted' = <<>>
  /\ UNCHANGED <<rate_, interval_ns_, burst_ns_, blocked_until_, clock, loc, calls>>

(***************************************************************************)
(* notify_rate_limited(): the barrier is only ever pushed further out.     *)
(***************************************************************************)

NotifyNow(t) == Load(t, "notify_now", "notify_load", "until", clock + loc[t].after)

NotifyLoad(t) == Load(t, "notify_load", "notify_cas", "barrier", blocked_until_)

NotifyDone(t) ==
  /\ loc[t].until <= loc[t].barrier
  /\ Goto(t, "notify_cas", "returned")
  /\ UNCHANGED <<atomics, clock, loc, granted, calls>>

\* Mutant of NotifyRaise: the barrier is stored, not compared and exchanged.
NotifyRaiseBlindly(t) ==
  /\ loc[t].until > loc[t].barrier
  /\ Goto(t, "notify_cas", "returned")
  /\ blocked_until_' = loc[t].until
  /\ UNCHANGED <<rate_, interval_ns_, burst_ns_, tat_, clock, loc, granted, calls>>

NotifyRaise(t) ==
  /\ loc[t].until > loc[t].barrier
  /\ loc[t].barrier = blocked_until_
  /\ Goto(t, "notify_cas", "returned")
  /\ blocked_until_' = loc[t].until
  /\ UNCHANGED <<rate_, interval_ns_, burst_ns_, tat_, clock, loc, granted, calls>>

NotifyAgain(t) ==
  /\ loc[t].until > loc[t].barrier
  /\ loc[t].barrier # blocked_until_
  /\ Load(t, "notify_cas", "notify_cas", "barrier", blocked_until_)

(***************************************************************************)
(* wait_time_ns(): what it returns for a limiter seen in one state.        *)
(***************************************************************************)

\* Mutant of wait_time_ns: the barrier is forgotten.
wait_time_without_barrier ==
  LET new_tat == Later(tat_, clock) + interval_ns_
      due     == IF new_tat > burst_ns_ THEN new_tat - burst_ns_ ELSE 0
  IN  IF interval_ns_ = 0 THEN 0
      ELSE IF due > clock THEN due - clock ELSE 0

wait_time_ns ==
  LET new_tat == Later(tat_, clock) + interval_ns_
      due     == IF new_tat > burst_ns_ THEN new_tat - burst_ns_ ELSE 0
  IN  IF interval_ns_ = 0 THEN 0
      ELSE IF clock < blocked_until_ THEN blocked_until_ - clock
      ELSE IF due > clock THEN due - clock ELSE 0

-----------------------------------------------------------------------------
Tick ==
  /\ clock < MaxTime
  /\ clock' = clock + 1
  /\ UNCHANGED <<atomics, pc, loc, granted, calls>>

Step(t) ==
  \/ TryInterval(t) \/ TryNow(t) \/ TryBarrier(t) \/ TryBurst(t) \/ TryTat(t)
  \/ TryRefuse(t) \/ TryReserve(t) \/ TryAgain(t)
  \/ AcqInterval(t) \/ AcqBarrier(t) \/ AcqNow(t) \/ AcqWakeBarrier(t) \/ AcqBurst(t)
  \/ AcqTat(t) \/ AcqNow2(t) \/ AcqReserve(t) \/ AcqAgain(t) \/ AcqWakeSlot(t)
  \/ SetRate(t) \/ SetInterval(t) \/ SetBurst(t) \/ SetTat(t)
  \/ NotifyNow(t) \/ NotifyLoad(t) \/ NotifyDone(t) \/ NotifyRaise(t) \/ NotifyAgain(t)
  \/ Return(t)

Next ==
  \/ Tick
  \/ \E t \in Threads :
       \/ \E op \in Ops, args \in Rates \cup {InitialRate}, seconds \in RetryAfters \cup {0} :
            Call(t, op, args, seconds)
       \/ Step(t)

Spec == Init /\ [][Next]_vars

-----------------------------------------------------------------------------
(***************************************************************************)
(* Properties of a limiter whose rate is not changed while it is in use.   *)
(***************************************************************************)

\* rate_limiter.hpp:19-21: concurrent callers serialise on the bucket arithmetic.  No slot is
\* handed out twice: the k-th slot after another is at least k intervals later, whatever the
\* threads held stale when they went for it.
SlotsSpaced ==
  \A i, j \in DOMAIN granted :
    i <= j => granted[i].slot + (j - i) * interval_ns_ <= granted[j].slot

\* "The whole point of the CAS loop: N threads racing must not over-admit": any run of
\* consecutive admissions costs no more than the burst and the time they span.
BurstBound ==
  \A i, j \in DOMAIN granted :
    i <= j => (j - i + 1) * interval_ns_ + granted[i].at <= burst_ns_ + granted[j].at

\* rate_limiter.hpp:46: a request whose call begins after a 429 was recorded is not let
\* through before the barrier falls.  (A limiter with rate 0 never reads the barrier: this is
\* for limiters that are enabled.)
HonoursBarrier == \A t \in Threads : pc[t] = "granted" => clock >= loc[t].floor

\* Racing notifications never pull the barrier in.
BarrierOnlyExtends == [][blocked_until_' >= blocked_until_]_vars

\* try_acquire(), run alone at time `at`, would let a request through.
Admits(at) ==
  \/ interval_ns_ = 0
  \/ /\ at >= blocked_until_
     /\ Later(tat_, at) + interval_ns_ <= at + burst_ns_

\* wait_time_ns() and try_acquire() agree, which the polling loop of async_execute_raw relies
\* on: left alone, no request is admitted before the wait is over; when it is, the barrier is
\* down, and one is admitted unless the wait was for the barrier (a wait for the bucket may
\* follow that one).
WaitTimeExact ==
  /\ \A d \in 0 .. wait_time_ns : d < wait_time_ns => ~Admits(clock + d)
  /\ interval_ns_ # 0 => clock + wait_time_ns >= blocked_until_
  /\ clock >= blocked_until_ => Admits(clock + wait_time_ns)

-----------------------------------------------------------------------------
(***************************************************************************)
(* What the threads see of the limiter is a Pacer.                         *)
(***************************************************************************)

\* What a thread is doing, told from where it is.
Doing(place) ==
  CASE place \in TryPc                            -> "try"
    [] place \in AcquirePc \ {"acq_sleep_slot"}   -> "wait"
    [] place = "acq_sleep_slot"                   -> "asleep"
    [] place = "granted"                          -> "through"
    [] place \in NotifyPc                         -> "raise"
    [] place \in SetPc \cup {"returned"}          -> "done"

Shown(t) ==
  IF pc[t] = "idle" THEN [does |-> "idle", since |-> 0, floor |-> 0, after |-> 0, due |-> 0]
  ELSE [does |-> Doing(pc[t]), since |-> loc[t].since, floor |-> loc[t].floor,
        after |-> loc[t].after,
        due |-> IF pc[t] = "acq_sleep_slot" THEN loc[t].until ELSE 0]

Abstract == INSTANCE Pacer WITH
  Interval <- compute_interval(InitialRate.rpm),
  Burst    <- compute_burst(InitialRate),
  Waits    <- {seconds * Second : seconds \in RetryAfters},
  now      <- clock,
  bucket   <- tat_,
  barrier  <- blocked_until_,
  request  <- [t \in Threads |-> Shown(t)]

\* While nobody changes the rate, each call of the three others is one step of a Pacer,
\* taken between its first access and its last: a request is admitted, refused or given its
\* slot from the one bucket all threads share, and a barrier is only ever pushed out.
ImplementsPacer == Abstract!Spec

-----------------------------------------------------------------------------
(***************************************************************************)
(* With set_rate() racing the requests.                                    *)
(***************************************************************************)

AllRates == Rates \cup {InitialRate}

\* Between two resets of the budget, threads that mix the interval of one rate with the
\* burst of another still admit no more than the loosest interval and burst together allow.
RateChangeBounded ==
  \A i, j \in DOMAIN granted :
    i <= j =>
      \E fast, wide \in AllRates :
        (j - i + 1) * compute_interval(fast.rpm) + granted[i].at
          <= compute_burst(wide) + granted[j].at
=============================================================================
