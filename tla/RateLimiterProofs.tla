------------------------- MODULE RateLimiterProofs -------------------------
(***************************************************************************)
(* Theorems about RateLimiter for any number of threads, any rate, any     *)
(* minute and any bound.                                                   *)
(***************************************************************************)
EXTENDS RateLimiter, WellFoundedInduction, TLAPS

\* The interval and the burst of any rate are natural numbers.
LEMMA ComputedTypes ==
  ASSUME NEW r \in Rate
  PROVE  /\ compute_interval(r.rpm) \in Nat
         /\ compute_burst(r) \in Nat
<1>1. r.rpm \in Nat /\ r.burst \in Nat
  BY DEF Rate
<1>2. compute_interval(r.rpm) \in Nat
  BY <1>1, TimeAssumption DEF compute_interval
<1>3. (IF r.burst # 0 THEN r.burst ELSE r.rpm) \in Nat
  BY <1>1
<1>4. \A m, n \in Nat : m * n \in Nat
  OBVIOUS
<1> QED
  BY <1>2, <1>3, <1>4 DEF compute_burst

\* A step that loads a natural number into a local variable preserves the types.
LEMMA LoadTypes ==
  ASSUME TypeOK, NEW t \in Threads, NEW from, NEW to \in Pc,
         NEW field \in {"interval", "burst", "now", "tat", "barrier", "until"},
         NEW value \in Nat, Load(t, from, to, field, value)
  PROVE  TypeOK'
BY DEF TypeOK, Load, Goto, atomics, Locals

\* A step that only moves a thread preserves the types.
LEMMA MoveTypes ==
  ASSUME TypeOK, NEW t \in Threads, NEW from, NEW to \in Pc, Goto(t, from, to),
         UNCHANGED <<atomics, clock, loc, granted, calls>>
  PROVE  TypeOK'
BY DEF TypeOK, Goto, atomics

\* The slot a thread computes, and its due time, are natural numbers.
LEMMA SlotTypes ==
  ASSUME TypeOK, NEW t \in Threads
  PROVE  /\ NewTat(t) \in Nat
         /\ Due(t) \in Nat
         /\ Later(loc[t].now, Due(t)) \in Nat
<1>1. loc[t] \in Locals
  BY DEF TypeOK
<1>2. NewTat(t) \in Nat
  BY <1>1 DEF NewTat, Later, Locals
<1>3. Due(t) \in Nat
  BY <1>1, <1>2 DEF Due, Locals
<1> QED
  BY <1>1, <1>2, <1>3 DEF Later, Locals

\* Reserving a slot preserves the types.
LEMMA ReserveTypes ==
  ASSUME TypeOK, NEW slot \in Nat, NEW at \in Nat, Reserve(slot, at)
  PROVE  /\ tat_' \in Nat
         /\ granted' \in Seq(Grants)
<1>1. [slot |-> slot, at |-> at] \in Grants
  BY DEF Grants
<1> QED
  BY <1>1 DEF TypeOK, Reserve

LEMMA TypeStep ==
  ASSUME TypeOK, [Next]_vars
  PROVE  TypeOK'
<1> USE DEF Pc, TryPc, AcquirePc, SetPc, NotifyPc
<1>1. CASE UNCHANGED vars
  BY <1>1 DEF vars, atomics, TypeOK
<1>2. CASE Tick
  BY <1>2 DEF Tick, atomics, TypeOK
<1>3. ASSUME NEW t \in Threads, NEW op \in Ops, NEW args \in Rates \cup {InitialRate},
             NEW seconds \in RetryAfters \cup {0}, Call(t, op, args, seconds)
      PROVE  TypeOK'
  <2>1. seconds * Second \in Nat
    <3>1. seconds \in Nat /\ Second \in Nat
      BY TimeAssumption
    <3>2. \A m, n \in Nat : m * n \in Nat
      OBVIOUS
    <3> QED
      BY <3>1, <3>2
  <2>2. [NoLocals EXCEPT !.args = args, !.after = seconds * Second, !.since = clock,
                         !.floor = blocked_until_] \in Locals
    BY <2>1, RateAssumption DEF NoLocals, Locals, TypeOK
  <2>3. FirstStep(op) \in Pc
    BY DEF FirstStep, Ops
  <2> QED
    BY <1>3, <2>2, <2>3 DEF Call, Goto, atomics, TypeOK
<1>4. ASSUME NEW t \in Threads, Step(t)
      PROVE  TypeOK'
  <2> USE <1>4
  <2>1. /\ interval_ns_ \in Nat /\ burst_ns_ \in Nat /\ tat_ \in Nat
        /\ blocked_until_ \in Nat /\ clock \in Nat /\ loc[t].after \in Nat
        /\ loc[t].until \in Nat
        /\ clock + loc[t].after \in Nat
    BY DEF TypeOK, Locals
  <2>2. CASE TryInterval(t)
    BY <2>1, <2>2, LoadTypes DEF TryInterval
  <2>3. CASE TryNow(t)
    BY <2>1, <2>3, LoadTypes DEF TryNow
  <2>4. CASE TryBarrier(t)
    BY <2>1, <2>4, LoadTypes DEF TryBarrier
  <2>5. CASE TryBurst(t)
    BY <2>1, <2>5, LoadTypes DEF TryBurst
  <2>6. CASE TryTat(t)
    BY <2>1, <2>6, LoadTypes DEF TryTat
  <2>7. CASE TryRefuse(t)
    BY <2>7, MoveTypes DEF TryRefuse
  <2>8. CASE TryReserve(t)
    <3>1. tat_' \in Nat /\ granted' \in Seq(Grants)
      <4>1. loc[t].now \in Nat
        BY DEF TypeOK, Locals
      <4> QED
        BY <2>8, <4>1, SlotTypes, ReserveTypes DEF TryReserve
    <3> QED
      BY <2>8, <3>1 DEF TryReserve, Goto, Reserve, TypeOK
  <2>9. CASE TryAgain(t)
    BY <2>1, <2>9, LoadTypes DEF TryAgain
  <2>10. CASE AcqInterval(t)
    BY <2>1, <2>10, LoadTypes DEF AcqInterval
  <2>11. CASE AcqBarrier(t)
    BY <2>1, <2>11, LoadTypes DEF AcqBarrier
  <2>12. CASE AcqNow(t)
    BY <2>1, <2>12, LoadTypes DEF AcqNow
  <2>13. CASE AcqWakeBarrier(t)
    BY <2>13, MoveTypes DEF AcqWakeBarrier
  <2>14. CASE AcqBurst(t)
    BY <2>1, <2>14, LoadTypes DEF AcqBurst
  <2>15. CASE AcqTat(t)
    BY <2>1, <2>15, LoadTypes DEF AcqTat
  <2>16. CASE AcqNow2(t)
    BY <2>1, <2>16, LoadTypes DEF AcqNow2
  <2>17. CASE AcqReserve(t)
    <3>1. tat_' \in Nat /\ granted' \in Seq(Grants)
      BY <2>17, SlotTypes, ReserveTypes DEF AcqReserve
    <3>2. loc' \in [Threads -> Locals]
      BY <2>17, SlotTypes DEF AcqReserve, Locals, TypeOK
    <3> QED
      BY <2>17, <3>1, <3>2 DEF AcqReserve, Goto, Reserve, TypeOK
  <2>18. CASE AcqAgain(t)
    BY <2>1, <2>18, LoadTypes DEF AcqAgain
  <2>19. CASE AcqWakeSlot(t)
    BY <2>19, MoveTypes DEF AcqWakeSlot
  <2>20. CASE SetRate(t)
    BY <2>20 DEF SetRate, Goto, TypeOK, Locals, Rate
  <2>21. CASE SetInterval(t)
    <3>1. loc[t].args \in Rate
      BY DEF TypeOK, Locals
    <3> QED
      BY <2>21, <3>1, ComputedTypes DEF SetInterval, Goto, TypeOK
  <2>22. CASE SetBurst(t)
    <3>1. loc[t].args \in Rate
      BY DEF TypeOK, Locals
    <3> QED
      BY <2>22, <3>1, ComputedTypes DEF SetBurst, Goto, TypeOK
  <2>23. CASE SetTat(t)
    BY <2>23 DEF SetTat, Goto, TypeOK
  <2>24. CASE NotifyNow(t)
    BY <2>1, <2>24, LoadTypes DEF NotifyNow
  <2>25. CASE NotifyLoad(t)
    BY <2>1, <2>25, LoadTypes DEF NotifyLoad
  <2>26. CASE NotifyDone(t)
    BY <2>26, MoveTypes DEF NotifyDone
  <2>27. CASE NotifyRaise(t)
    <3>1. loc[t].until \in Nat
      BY <2>1
    <3>2. /\ blocked_until_' = loc[t].until /\ pc' = [pc EXCEPT ![t] = "returned"]
          /\ UNCHANGED <<rate_, interval_ns_, burst_ns_, tat_, clock, loc, granted, calls>>
      BY <2>27 DEF NotifyRaise, Goto
    <3> QED
      BY <3>1, <3>2 DEF TypeOK
  <2>28. CASE NotifyAgain(t)
    BY <2>1, <2>28, LoadTypes DEF NotifyAgain
  <2>29. CASE Return(t)
    <3>1. NoLocals \in Locals
      BY RateAssumption DEF NoLocals, Locals
    <3> QED
      BY <2>29, <3>1 DEF Return, Goto, atomics, TypeOK
  <2> QED
    BY <2>2, <2>3, <2>4, <2>5, <2>6, <2>7, <2>8, <2>9, <2>10, <2>11, <2>12, <2>13, <2>14,
       <2>15, <2>16, <2>17, <2>18, <2>19, <2>20, <2>21, <2>22, <2>23, <2>24, <2>25, <2>26,
       <2>27, <2>28, <2>29 DEF Step
<1> QED
  BY <1>1, <1>2, <1>3, <1>4 DEF Next

\* Every word and every local stays a natural number: no subtraction goes below zero.
THEOREM TypeCorrect == Spec => []TypeOK
<1>1. Init => TypeOK
  <2> SUFFICES ASSUME Init
               PROVE  TypeOK
    OBVIOUS
  <2>1. InitialRate \in Rate
    BY RateAssumption
  <2>2. /\ rate_ \in Nat
        /\ interval_ns_ \in Nat
        /\ burst_ns_ \in Nat
    BY <2>1, ComputedTypes DEF Init, Rate
  <2>3. NoLocals \in Locals
    BY <2>1 DEF NoLocals, Locals
  <2>4. granted \in Seq(Grants)
    BY DEF Init
  <2> QED
    BY <2>2, <2>3, <2>4 DEF Init, TypeOK, Pc
<1>2. TypeOK /\ [Next]_vars => TypeOK'
  BY TypeStep
<1> QED
  BY <1>1, <1>2, PTL DEF Spec

-----------------------------------------------------------------------------
(***************************************************************************)
(* The budget.                                                             *)
(***************************************************************************)

\* Nobody changes the rate.
FixedRate == \A t \in Threads : "set_rate" \notin Program[t]

HasInterval == {"try_now", "try_barrier", "try_burst", "try_tat", "try_cas",
                "acq_barrier", "acq_now", "acq_sleep_barrier", "acq_burst", "acq_tat",
                "acq_now2", "acq_cas"}
HasBurst == {"try_tat", "try_cas", "acq_tat", "acq_now2", "acq_cas"}

\* With a fixed rate what a thread has loaded is never stale.
LoadedInv ==
  /\ interval_ns_ <= burst_ns_
  /\ \A t \in Threads :
       /\ pc[t] \notin SetPc
       /\ pc[t] \in HasInterval => loc[t].interval = interval_ns_
       /\ pc[t] \in HasBurst => loc[t].burst = burst_ns_

\* Loading a variable keeps LoadedInv when the interval and the burst are loaded from the
\* shared words, or were loaded before.
LEMMA LoadKeeps ==
  ASSUME TypeOK, LoadedInv, NEW t \in Threads, NEW from, NEW to \in Pc \ SetPc,
         NEW field \in {"interval", "burst", "now", "tat", "barrier", "until"}, NEW value,
         Load(t, from, to, field, value),
         field = "interval" => value = interval_ns_,
         field = "burst" => value = burst_ns_,
         to \in HasInterval => from \in HasInterval \/ field = "interval",
         to \in HasBurst => from \in HasBurst \/ field = "burst"
  PROVE  LoadedInv' /\ UNCHANGED <<interval_ns_, burst_ns_>>
<1>1. UNCHANGED <<interval_ns_, burst_ns_>>
  BY DEF Load, atomics
<1> SUFFICES ASSUME NEW u \in Threads
             PROVE  /\ pc'[u] \notin SetPc
                    /\ pc'[u] \in HasInterval => loc'[u].interval = interval_ns_
                    /\ pc'[u] \in HasBurst => loc'[u].burst = burst_ns_
  BY <1>1 DEF LoadedInv
<1>2. CASE u # t
  BY <1>2 DEF LoadedInv, Load, Goto, TypeOK
<1>3. CASE u = t
  <2>1. pc'[t] = to /\ pc[t] = from
    BY DEF Load, Goto, TypeOK
  <2>2. loc'[t] = [loc[t] EXCEPT ![field] = value]
    BY DEF Load, TypeOK
  <2>3. loc'[t].interval = IF field = "interval" THEN value ELSE loc[t].interval
    BY <2>2 DEF TypeOK, Locals
  <2>4. loc'[t].burst = IF field = "burst" THEN value ELSE loc[t].burst
    BY <2>2 DEF TypeOK, Locals
  <2> QED
    BY <1>3, <2>1, <2>3, <2>4 DEF LoadedInv
<1> QED
  BY <1>2, <1>3

\* Moving a thread keeps LoadedInv when it had already loaded what its new place needs.
LEMMA MoveKeeps ==
  ASSUME TypeOK, LoadedInv, NEW t \in Threads, NEW from, NEW to \in Pc \ SetPc,
         Goto(t, from, to),
         \A u \in Threads : /\ loc'[u].interval = loc[u].interval
                            /\ loc'[u].burst = loc[u].burst,
         UNCHANGED <<interval_ns_, burst_ns_>>,
         to \in HasInterval => from \in HasInterval,
         to \in HasBurst => from \in HasBurst
  PROVE  LoadedInv'
BY DEF LoadedInv, Goto, TypeOK

LEMMA LoadedStep ==
  ASSUME FixedRate, TypeOK, LoadedInv, [Next]_vars
  PROVE  /\ LoadedInv'
         /\ UNCHANGED <<interval_ns_, burst_ns_>>
<1> USE DEF HasInterval, HasBurst, SetPc, Pc, TryPc, AcquirePc, NotifyPc
<1>1. CASE UNCHANGED vars
  BY <1>1 DEF vars, atomics, LoadedInv
<1>2. CASE Tick
  BY <1>2 DEF Tick, atomics, LoadedInv
<1>3. ASSUME NEW t \in Threads, NEW op \in Ops, NEW args \in Rates \cup {InitialRate},
             NEW seconds \in RetryAfters \cup {0}, Call(t, op, args, seconds)
      PROVE  LoadedInv' /\ UNCHANGED <<interval_ns_, burst_ns_>>
  <2>1. FirstStep(op) \in {"try_interval", "acq_interval", "notify_now"}
    BY <1>3 DEF Call, FixedRate, FirstStep, Ops
  <2> QED
    BY <1>3, <2>1 DEF Call, Goto, atomics, TypeOK, LoadedInv
<1>4. ASSUME NEW t \in Threads, Step(t)
      PROVE  LoadedInv' /\ UNCHANGED <<interval_ns_, burst_ns_>>
  <2>1. CASE TryInterval(t) \/ TryNow(t) \/ TryBarrier(t)
    BY <2>1, LoadKeeps DEF TryInterval, TryNow, TryBarrier
  <2>2. CASE TryBurst(t) \/ TryTat(t) \/ TryAgain(t)
    BY <2>2, LoadKeeps DEF TryBurst, TryTat, TryAgain
  <2>3. CASE TryRefuse(t) \/ AcqWakeBarrier(t) \/ AcqWakeSlot(t)
    BY <2>3, MoveKeeps DEF TryRefuse, AcqWakeBarrier, AcqWakeSlot, atomics
  <2>4. CASE TryReserve(t)
    BY <2>4, MoveKeeps DEF TryReserve, Reserve
  <2>5. CASE AcqReserve(t)
    BY <2>5, MoveKeeps DEF AcqReserve, Reserve, TypeOK, Locals
  <2>6. CASE AcqInterval(t) \/ AcqBarrier(t) \/ AcqNow(t)
    BY <2>6, LoadKeeps DEF AcqInterval, AcqBarrier, AcqNow
  <2>7. CASE AcqBurst(t) \/ AcqTat(t) \/ AcqNow2(t) \/ AcqAgain(t)
    BY <2>7, LoadKeeps DEF AcqBurst, AcqTat, AcqNow2, AcqAgain
  <2>8. CASE NotifyNow(t) \/ NotifyLoad(t) \/ NotifyAgain(t)
    BY <2>8, LoadKeeps DEF NotifyNow, NotifyLoad, NotifyAgain
  <2>9. CASE NotifyDone(t) \/ NotifyRaise(t)
    BY <2>9, MoveKeeps DEF NotifyDone, NotifyRaise, atomics
  <2>10. CASE Return(t)
    BY <2>10 DEF Return, Goto, atomics, LoadedInv, TypeOK
  <2>11. ~(SetRate(t) \/ SetInterval(t) \/ SetBurst(t) \/ SetTat(t))
    BY DEF SetRate, SetInterval, SetBurst, SetTat, Goto, LoadedInv
  <2> QED
    BY <1>4, <2>1, <2>2, <2>3, <2>4, <2>5, <2>6, <2>7, <2>8, <2>9, <2>10, <2>11 DEF Step
<1> QED
  BY <1>1, <1>2, <1>3, <1>4 DEF Next

\* Multiplication by one more.
LEMMA OneMore ==
  ASSUME NEW k \in Nat, NEW n \in Nat
  PROVE  k * n \in Nat /\ (k + 1) * n = k * n + n
OBVIOUS

\* One interval more keeps a slot behind the next one.
LEMMA OneSlotMore ==
  ASSUME NEW s \in Nat, NEW k \in Nat, NEW n \in Nat, NEW tat \in Nat, NEW slot \in Nat,
         s + k * n <= tat, tat + n <= slot
  PROVE  s + (k + 1) * n <= slot
<1> DEFINE m == k * n
<1>1. m \in Nat /\ (k + 1) * n = m + n
  BY OneMore
<1>2. s + m <= tat
  OBVIOUS
<1> HIDE DEF m
<1>3. s + (m + n) <= slot
  BY <1>1, <1>2
<1> QED
  BY <1>1, <1>3

\* The inductive strengthening of SlotsSpaced and BurstBound: tat_ is ahead of every slot by
\* the intervals reserved since, and a slot is between one interval and one burst after the
\* time its request is let through.
GrantInv ==
  /\ \A i \in DOMAIN granted :
       /\ granted[i].slot + (Len(granted) - i) * interval_ns_ <= tat_
       /\ granted[i].at + interval_ns_ <= granted[i].slot
       /\ granted[i].slot <= granted[i].at + burst_ns_
  /\ SlotsSpaced

\* Reserving a slot at least an interval after tat_ keeps the budget.
LEMMA ReserveKeepsBudget ==
  ASSUME TypeOK, GrantInv, NEW slot \in Nat, NEW at \in Nat, Reserve(slot, at),
         tat_ + interval_ns_ <= slot,
         at + interval_ns_ <= slot,
         slot <= at + burst_ns_
  PROVE  GrantInv'
<1> DEFINE n == Len(granted)
<1>1. /\ n \in Nat
      /\ DOMAIN granted = 1 .. n
      /\ Len(granted') = n + 1
      /\ DOMAIN granted' = 1 .. (n + 1)
      /\ granted'[n + 1] = [slot |-> slot, at |-> at]
      /\ \A i \in 1 .. n : granted'[i] = granted[i]
  BY DEF TypeOK, Reserve
<1>2. /\ tat_' = slot
      /\ interval_ns_' = interval_ns_
      /\ burst_ns_' = burst_ns_
      /\ interval_ns_ \in Nat /\ burst_ns_ \in Nat /\ tat_ \in Nat
  BY DEF TypeOK, Reserve
<1>3. \A i \in 1 .. n : granted[i].slot \in Nat /\ granted[i].at \in Nat
  <2>1. granted \in Seq(Grants)
    BY DEF TypeOK
  <2>2. \A i \in 1 .. n : granted[i] \in Grants
    BY <1>1, <2>1
  <2> QED
    BY <2>2 DEF Grants
<1>4. \A i \in 1 .. n : granted[i].slot + (n + 1 - i) * interval_ns_ <= slot
  <2> TAKE i \in 1 .. n
  <2>1. n - i \in Nat /\ n + 1 - i = (n - i) + 1
    BY <1>1
  <2>2. granted[i].slot + (n - i) * interval_ns_ <= tat_
    BY <1>1 DEF GrantInv
  <2>3. granted[i].slot + ((n - i) + 1) * interval_ns_ <= slot
    BY <1>2, <1>3, <2>1, <2>2, OneSlotMore
  <2> QED
    BY <2>1, <2>3
<1>5. slot + ((n + 1) - (n + 1)) * interval_ns_ = slot
  <2>1. (n + 1) - (n + 1) = 0
    BY <1>1
  <2>2. 0 * interval_ns_ = 0
    BY <1>2
  <2> QED
    BY <2>1, <2>2
<1>6. \A i \in DOMAIN granted' :
        /\ granted'[i].slot + (Len(granted') - i) * interval_ns_' <= tat_'
        /\ granted'[i].at + interval_ns_' <= granted'[i].slot
        /\ granted'[i].slot <= granted'[i].at + burst_ns_'
  <2> TAKE i \in DOMAIN granted'
  <2>1. CASE i \in 1 .. n
    <3>1. granted'[i].slot + (Len(granted') - i) * interval_ns_' <= tat_'
      <4>1. granted[i].slot + (n + 1 - i) * interval_ns_ <= slot
        BY <1>4, <2>1
      <4>2. granted'[i] = granted[i]
        BY <1>1, <2>1
      <4> QED
        BY <1>1, <1>2, <4>1, <4>2
    <3>2. /\ granted[i].at + interval_ns_ <= granted[i].slot
          /\ granted[i].slot <= granted[i].at + burst_ns_
      BY <1>1, <2>1 DEF GrantInv
    <3> QED
      BY <1>1, <1>2, <2>1, <3>1, <3>2
  <2>2. CASE i = n + 1
    BY <1>1, <1>2, <1>5, <2>2
  <2> QED
    BY <1>1, <2>1, <2>2
<1>7. SlotsSpaced'
  <2> SUFFICES ASSUME NEW i \in DOMAIN granted', NEW j \in DOMAIN granted', i <= j
               PROVE  granted'[i].slot + (j - i) * interval_ns_' <= granted'[j].slot
    BY DEF SlotsSpaced
  <2>1. CASE j \in 1 .. n
    <3>1. i \in 1 .. n
      BY <1>1, <2>1
    <3>2. granted[i].slot + (j - i) * interval_ns_ <= granted[j].slot
      BY <1>1, <2>1, <3>1 DEF GrantInv, SlotsSpaced
    <3>3. granted'[i] = granted[i] /\ granted'[j] = granted[j]
      BY <1>1, <2>1, <3>1
    <3> QED
      BY <1>2, <3>2, <3>3
  <2>2. CASE j = n + 1 /\ i \in 1 .. n
    <3>1. granted[i].slot + (n + 1 - i) * interval_ns_ <= slot
      BY <1>4, <2>2
    <3>2. granted'[i] = granted[i] /\ granted'[j].slot = slot
      BY <1>1, <2>2
    <3> QED
      BY <1>2, <2>2, <3>1, <3>2
  <2>3. CASE j = n + 1 /\ i = n + 1
    BY <1>1, <1>2, <1>5, <2>3
  <2> QED
    BY <1>1, <2>1, <2>2, <2>3
<1> QED
  BY <1>6, <1>7 DEF GrantInv

\* A step that reserves nothing and resets nothing keeps the budget.
LEMMA BudgetStutter ==
  ASSUME GrantInv, UNCHANGED <<granted, tat_, interval_ns_, burst_ns_>>
  PROVE  GrantInv'
BY DEF GrantInv, SlotsSpaced

LEMMA GrantStep ==
  ASSUME FixedRate, TypeOK, LoadedInv, GrantInv, [Next]_vars
  PROVE  GrantInv'
<1>1. ASSUME NEW t \in Threads, TryReserve(t)
      PROVE  GrantInv'
  <2>1. /\ loc[t].interval = interval_ns_
        /\ loc[t].burst = burst_ns_
        /\ loc[t].tat = tat_
    BY <1>1 DEF TryReserve, Goto, LoadedInv, HasInterval, HasBurst
  <2>2. /\ loc[t].now \in Nat /\ tat_ \in Nat /\ interval_ns_ \in Nat /\ burst_ns_ \in Nat
    BY DEF TypeOK, Locals
  <2>3. /\ NewTat(t) \in Nat
        /\ tat_ + interval_ns_ <= NewTat(t)
        /\ loc[t].now + interval_ns_ <= NewTat(t)
    BY <2>1, <2>2 DEF NewTat, Later
  <2>4. /\ NewTat(t) <= loc[t].now + burst_ns_
        /\ Reserve(NewTat(t), loc[t].now)
    BY <1>1, <2>1 DEF TryReserve
  <2> QED
    BY <2>2, <2>3, <2>4, ReserveKeepsBudget
<1>2. ASSUME NEW t \in Threads, AcqReserve(t)
      PROVE  GrantInv'
  <2> DEFINE at == Later(loc[t].now, Due(t))
  <2>1. /\ loc[t].interval = interval_ns_
        /\ loc[t].burst = burst_ns_
        /\ loc[t].tat = tat_
    BY <1>2 DEF AcqReserve, Goto, LoadedInv, HasInterval, HasBurst
  <2>2. /\ loc[t].now \in Nat /\ tat_ \in Nat /\ interval_ns_ \in Nat /\ burst_ns_ \in Nat
        /\ interval_ns_ <= burst_ns_
    BY DEF TypeOK, Locals, LoadedInv
  <2>3. /\ NewTat(t) \in Nat
        /\ tat_ + interval_ns_ <= NewTat(t)
        /\ loc[t].now + interval_ns_ <= NewTat(t)
    BY <2>1, <2>2 DEF NewTat, Later
  <2>4. /\ at \in Nat
        /\ at + interval_ns_ <= NewTat(t)
        /\ NewTat(t) <= at + burst_ns_
    BY <2>1, <2>2, <2>3 DEF Due, Later
  <2>5. Reserve(NewTat(t), at)
    BY <1>2 DEF AcqReserve
  <2> HIDE DEF at
  <2> QED
    BY <2>3, <2>4, <2>5, ReserveKeepsBudget
<1>3. CASE UNCHANGED <<granted, tat_>>
  BY <1>3, LoadedStep, BudgetStutter
<1>4. \/ \E t \in Threads : TryReserve(t) \/ AcqReserve(t)
      \/ UNCHANGED <<granted, tat_>>
  <2>1. \A t \in Threads : ~SetTat(t)
    BY DEF SetTat, Goto, LoadedInv, SetPc
  <2> QED
    BY <2>1
    DEF Next, Step, vars, atomics, Tick, Call, Load, TryInterval, TryNow, TryBarrier, TryBurst,
        TryTat, TryRefuse, TryAgain, AcqInterval, AcqBarrier, AcqNow, AcqWakeBarrier, AcqBurst,
        AcqTat, AcqNow2, AcqAgain, AcqWakeSlot, SetRate, SetInterval, SetBurst, NotifyNow,
        NotifyLoad, NotifyDone, NotifyRaise, NotifyAgain, Return
<1> QED
  BY <1>1, <1>2, <1>3, <1>4

\* The burst of a rate is at least one interval long.
LEMMA BurstCoversInterval ==
  ASSUME NEW r \in Rate
  PROVE  compute_interval(r.rpm) <= compute_burst(r)
<1>1. r.rpm \in Nat /\ r.burst \in Nat
  BY DEF Rate
<1>2. CASE r.rpm = 0
  <2>1. compute_interval(r.rpm) = 0
    BY <1>2 DEF compute_interval
  <2> QED
    BY <2>1, ComputedTypes
<1>3. CASE r.rpm # 0
  <2> DEFINE k == IF r.burst # 0 THEN r.burst ELSE r.rpm
  <2>1. k \in Nat /\ k >= 1
    BY <1>1, <1>3
  <2>2. compute_interval(r.rpm) \in Nat
    BY ComputedTypes
  <2>3. \A m, n \in Nat : n >= 1 => m <= m * n
    OBVIOUS
  <2> QED
    BY <2>1, <2>2, <2>3 DEF compute_burst
<1> QED
  BY <1>2, <1>3

LEMMA BudgetInit ==
  ASSUME Init
  PROVE  LoadedInv /\ GrantInv
<1>1. interval_ns_ <= burst_ns_
  BY RateAssumption, BurstCoversInterval DEF Init
<1>2. LoadedInv
  BY <1>1 DEF Init, LoadedInv, SetPc, HasInterval, HasBurst
<1>3. GrantInv
  BY DEF Init, GrantInv, SlotsSpaced
<1> QED
  BY <1>2, <1>3

\* Consecutive admissions cost no more than the burst and the time they span.
LEMMA BurstFollows ==
  ASSUME TypeOK, GrantInv
  PROVE  BurstBound
<1> SUFFICES ASSUME NEW i \in DOMAIN granted, NEW j \in DOMAIN granted, i <= j
             PROVE  (j - i + 1) * interval_ns_ + granted[i].at <= burst_ns_ + granted[j].at
  BY DEF BurstBound
<1>1. /\ i \in Nat /\ j \in Nat /\ j - i \in Nat
      /\ granted[i] \in Grants /\ granted[j] \in Grants
  BY DEF TypeOK
<1>2. interval_ns_ \in Nat /\ burst_ns_ \in Nat
  BY DEF TypeOK
<1>3. /\ (j - i) * interval_ns_ \in Nat
      /\ (j - i + 1) * interval_ns_ = (j - i) * interval_ns_ + interval_ns_
  BY <1>1, <1>2, OneMore
<1>4. granted[i].slot + (j - i) * interval_ns_ <= granted[j].slot
  BY DEF GrantInv, SlotsSpaced
<1>5. granted[i].at + interval_ns_ <= granted[i].slot
  BY DEF GrantInv
<1>6. granted[j].slot <= granted[j].at + burst_ns_
  BY DEF GrantInv
<1> QED
  BY <1>1, <1>2, <1>3, <1>4, <1>5, <1>6 DEF Grants

\* With a fixed rate, any number of racing threads never over-admit.
THEOREM NeverOverAdmits ==
  ASSUME FixedRate
  PROVE  Spec => [](SlotsSpaced /\ BurstBound)
<1>1. Init => LoadedInv /\ GrantInv
  BY BudgetInit
<1>2. TypeOK /\ LoadedInv /\ GrantInv /\ [Next]_vars => (LoadedInv /\ GrantInv)'
  BY LoadedStep, GrantStep
<1>3. TypeOK /\ GrantInv => SlotsSpaced /\ BurstBound
  BY BurstFollows DEF GrantInv
<1> QED
  BY <1>1, <1>2, <1>3, TypeCorrect, PTL DEF Spec

\* With a fixed rate no slot of the bucket is handed out twice.
THEOREM SlotsStaySpaced ==
  ASSUME FixedRate
  PROVE  Spec => []SlotsSpaced
  BY NeverOverAdmits, PTL

-----------------------------------------------------------------------------
(***************************************************************************)
(* What wait_time_ns() predicts.                                           *)
(***************************************************************************)

\* Whatever state a caller of wait_time_ns() finds the limiter in: the burst is no shorter than
\* the interval, so that a slot that is due is one the bucket has room for.
LEMMA WaitPredicts ==
  ASSUME TypeOK, interval_ns_ <= burst_ns_
  PROVE  WaitTimeExact
<1> DEFINE new_tat == Later(tat_, clock) + interval_ns_
           due     == IF new_tat > burst_ns_ THEN new_tat - burst_ns_ ELSE 0
<1>1. /\ interval_ns_ \in Nat /\ burst_ns_ \in Nat /\ tat_ \in Nat
      /\ blocked_until_ \in Nat /\ clock \in Nat
  BY DEF TypeOK
<1>2. /\ new_tat \in Nat /\ due \in Nat
      /\ new_tat >= tat_ + interval_ns_ /\ new_tat <= due + burst_ns_
  BY <1>1 DEF Later
<1>3. wait_time_ns = IF interval_ns_ = 0 THEN 0
                     ELSE IF clock < blocked_until_ THEN blocked_until_ - clock
                     ELSE IF due > clock THEN due - clock ELSE 0
  BY DEF wait_time_ns
<1>4. ASSUME NEW d \in 0 .. wait_time_ns, d < wait_time_ns PROVE ~Admits(clock + d)
  BY <1>1, <1>3, <1>4 DEF Admits, Later
<1> HIDE DEF new_tat, due
<1>5. interval_ns_ # 0 => clock + wait_time_ns >= blocked_until_
  BY <1>1, <1>2, <1>3
<1>6. ASSUME clock >= blocked_until_ PROVE Admits(clock + wait_time_ns)
  <2>1. CASE interval_ns_ = 0
    BY <2>1 DEF Admits
  <2>2. CASE interval_ns_ # 0 /\ due > clock
    <3>1. clock + wait_time_ns = due /\ due >= blocked_until_
      BY <1>1, <1>2, <1>3, <1>6, <2>2
    <3>2. Later(tat_, due) + interval_ns_ <= due + burst_ns_
      BY <1>1, <1>2 DEF Later
    <3> QED
      BY <3>1, <3>2 DEF Admits
  <2>3. CASE interval_ns_ # 0 /\ ~(due > clock)
    <3>1. clock + wait_time_ns = clock
      BY <1>1, <1>2, <1>3, <1>6, <2>3
    <3>2. Later(tat_, clock) + interval_ns_ <= clock + burst_ns_
      BY <1>1, <1>2, <2>3 DEF new_tat, due
    <3> QED
      BY <1>6, <3>1, <3>2 DEF Admits
  <2> QED
    BY <2>1, <2>2, <2>3
<1> QED
  BY <1>4, <1>5, <1>6 DEF WaitTimeExact

\* With a fixed rate wait_time_ns() and try_acquire() agree: the wait it names ends at the first
\* moment a request is admitted, the barrier apart.
THEOREM WaitExact ==
  ASSUME FixedRate
  PROVE  Spec => []WaitTimeExact
<1>1. Init => LoadedInv /\ GrantInv
  BY BudgetInit
<1>2. TypeOK /\ LoadedInv /\ GrantInv /\ [Next]_vars => (LoadedInv /\ GrantInv)'
  BY LoadedStep, GrantStep
<1>3. TypeOK /\ LoadedInv => WaitTimeExact
  BY WaitPredicts DEF LoadedInv
<1> QED
  BY <1>1, <1>2, <1>3, TypeCorrect, PTL DEF Spec

-----------------------------------------------------------------------------
(***************************************************************************)
(* The barrier.                                                            *)
(***************************************************************************)

LEMMA BarrierExtendsStep ==
  ASSUME TypeOK, [Next]_vars
  PROVE  blocked_until_' \in Nat /\ blocked_until_' >= blocked_until_
<1>1. CASE \E t \in Threads : NotifyRaise(t)
  BY <1>1 DEF NotifyRaise, TypeOK, Locals
<1>2. CASE UNCHANGED blocked_until_
  BY <1>2 DEF TypeOK
<1>3. \/ \E t \in Threads : NotifyRaise(t)
      \/ UNCHANGED blocked_until_
  BY DEF Next, Step, vars, atomics, Tick, Call, Load, Reserve, TryInterval, TryNow, TryBarrier,
        TryBurst, TryTat, TryRefuse, TryReserve, TryAgain, AcqInterval, AcqBarrier, AcqNow,
        AcqWakeBarrier, AcqBurst, AcqTat, AcqNow2, AcqReserve, AcqAgain, AcqWakeSlot, SetRate,
        SetInterval, SetBurst, SetTat, NotifyNow, NotifyLoad, NotifyDone, NotifyAgain, Return
<1> QED
  BY <1>1, <1>2, <1>3

\* Whatever notifications, requests and rate changes race, the barrier is never pulled in.
THEOREM BarrierExtends == Spec => BarrierOnlyExtends
<1>1. TypeOK /\ [Next]_vars => [blocked_until_' >= blocked_until_]_vars
  BY BarrierExtendsStep
<1> QED
  BY <1>1, TypeCorrect, PTL DEF Spec, BarrierOnlyExtends

\* Limiting is enabled at every rate in use.
NeverDisabled == \A r \in AllRates : compute_interval(r.rpm) # 0

PastBarrier == {"try_burst", "try_tat", "try_cas", "acq_burst", "acq_tat", "acq_now2",
                "acq_cas", "acq_sleep_slot", "granted"}

\* What a thread knows of the barrier that stood when its call began, by program point.
BarrierInv ==
  /\ interval_ns_ # 0
  /\ \A t \in Threads :
       /\ loc[t].args \in AllRates
       /\ loc[t].floor <= blocked_until_
       /\ pc[t] = "try_barrier" => loc[t].now <= clock
       /\ pc[t] \in {"acq_now", "acq_sleep_barrier"} => loc[t].floor <= loc[t].barrier
       /\ pc[t] \in PastBarrier => loc[t].floor <= clock

\* The part of BarrierInv that speaks of one thread.
ThreadBarrier(t) ==
  /\ loc[t].args \in AllRates
  /\ loc[t].floor <= blocked_until_
  /\ pc[t] = "try_barrier" => loc[t].now <= clock
  /\ pc[t] \in {"acq_now", "acq_sleep_barrier"} => loc[t].floor <= loc[t].barrier
  /\ pc[t] \in PastBarrier => loc[t].floor <= clock

\* What a step of one thread leaves alone.
LEMMA OthersStay ==
  ASSUME TypeOK, NEW t \in Threads, Step(t), NEW u \in Threads, u # t
  PROVE  pc'[u] = pc[u] /\ loc'[u] = loc[u] /\ clock' = clock
BY DEF Step, Load, Goto, Reserve, TypeOK, TryInterval, TryNow, TryBarrier,
      TryBurst, TryTat, TryRefuse, TryReserve, TryAgain, AcqInterval, AcqBarrier, AcqNow,
      AcqWakeBarrier, AcqBurst, AcqTat, AcqNow2, AcqReserve, AcqAgain, AcqWakeSlot, SetRate,
      SetInterval, SetBurst, SetTat, NotifyNow, NotifyLoad, NotifyDone, NotifyRaise,
      NotifyAgain, Return

\* The threads that do not move keep their part: the barrier and the clock only grow.
LEMMA OthersKeepBarrier ==
  ASSUME TypeOK, BarrierInv, NEW t \in Threads, Step(t), NEW u \in Threads, u # t
  PROVE  ThreadBarrier(u)'
<1>1. pc'[u] = pc[u] /\ loc'[u] = loc[u] /\ clock' = clock
  BY OthersStay
<1>2. blocked_until_' \in Nat /\ blocked_until_' >= blocked_until_
  BY BarrierExtendsStep DEF Next
<1>3. loc[u].floor \in Nat /\ blocked_until_ \in Nat
  BY DEF TypeOK, Locals
<1>4. ThreadBarrier(u)
  BY DEF BarrierInv, ThreadBarrier
<1> QED
  BY <1>1, <1>2, <1>3, <1>4 DEF ThreadBarrier

LEMMA MoverKeepsBarrier ==
  ASSUME TypeOK, BarrierInv, NEW t \in Threads, Step(t)
  PROVE  ThreadBarrier(t)'
<1> USE DEF ThreadBarrier, BarrierInv, PastBarrier, Load, Goto, atomics, TypeOK, Locals
<1>1. CASE TryInterval(t) \/ TryNow(t)
  <2>1. CASE TryInterval(t)
    BY <2>1 DEF TryInterval
  <2>2. CASE TryNow(t)
    BY <2>2 DEF TryNow
  <2> QED
    BY <1>1, <2>1, <2>2
<1>2. CASE TryBarrier(t)
  BY <1>2 DEF TryBarrier
<1>3. CASE TryBurst(t) \/ TryTat(t)
  BY <1>3 DEF TryBurst, TryTat
<1>4. CASE TryRefuse(t) \/ TryAgain(t)
  <2>1. CASE TryRefuse(t)
    BY <2>1 DEF TryRefuse
  <2>2. CASE TryAgain(t)
    BY <2>2 DEF TryAgain
  <2> QED
    BY <1>4, <2>1, <2>2
<1>5. CASE TryReserve(t)
  BY <1>5 DEF TryReserve, Reserve
<1>6. CASE AcqInterval(t)
  BY <1>6 DEF AcqInterval
<1>7. CASE AcqBarrier(t)
  BY <1>7 DEF AcqBarrier
<1>8. CASE AcqNow(t)
  BY <1>8 DEF AcqNow
<1>9. CASE AcqWakeBarrier(t) \/ AcqWakeSlot(t)
  BY <1>9 DEF AcqWakeBarrier, AcqWakeSlot
<1>10. CASE AcqBurst(t) \/ AcqTat(t)
  BY <1>10 DEF AcqBurst, AcqTat
<1>11. CASE AcqNow2(t) \/ AcqAgain(t)
  BY <1>11 DEF AcqNow2, AcqAgain
<1>12. CASE AcqReserve(t)
  BY <1>12 DEF AcqReserve, Reserve
<1>13. CASE SetRate(t) \/ SetInterval(t) \/ SetBurst(t) \/ SetTat(t)
  BY <1>13 DEF SetRate, SetInterval, SetBurst, SetTat
<1>14. CASE NotifyNow(t) \/ NotifyLoad(t) \/ NotifyAgain(t)
  <2>1. CASE NotifyNow(t)
    BY <2>1 DEF NotifyNow
  <2>2. CASE NotifyLoad(t)
    BY <2>2 DEF NotifyLoad
  <2>3. CASE NotifyAgain(t)
    BY <2>3 DEF NotifyAgain
  <2> QED
    BY <1>14, <2>1, <2>2, <2>3
<1>15. CASE NotifyDone(t) \/ NotifyRaise(t)
  BY <1>15 DEF NotifyDone, NotifyRaise
<1>16. CASE Return(t)
  BY <1>16 DEF Return, NoLocals, AllRates
<1> QED
  BY <1>1, <1>2, <1>3, <1>4, <1>5, <1>6, <1>7, <1>8, <1>9, <1>10, <1>11, <1>12, <1>13,
     <1>14, <1>15, <1>16 DEF Step

LEMMA BarrierStep ==
  ASSUME NeverDisabled, TypeOK, BarrierInv, [Next]_vars
  PROVE  BarrierInv'
<1>1. interval_ns_' # 0
  <2>1. CASE \E t \in Threads : SetInterval(t)
    BY <2>1 DEF SetInterval, BarrierInv, NeverDisabled
  <2>2. CASE UNCHANGED interval_ns_
    BY <2>2 DEF BarrierInv
  <2>3. (\E t \in Threads : SetInterval(t)) \/ UNCHANGED interval_ns_
    BY DEF Next, Step, vars, atomics, Tick, Call, Load, Reserve, TryInterval, TryNow,
        TryBarrier, TryBurst, TryTat, TryRefuse, TryReserve, TryAgain, AcqInterval, AcqBarrier,
        AcqNow, AcqWakeBarrier, AcqBurst, AcqTat, AcqNow2, AcqReserve, AcqAgain, AcqWakeSlot,
        SetRate, SetBurst, SetTat, NotifyNow, NotifyLoad, NotifyDone, NotifyRaise, NotifyAgain,
        Return
  <2> QED
    BY <2>1, <2>2, <2>3
<1>2. ASSUME NEW u \in Threads
      PROVE  ThreadBarrier(u)'
  <2>1. CASE UNCHANGED vars
    BY <2>1 DEF vars, atomics, BarrierInv, ThreadBarrier
  <2>2. CASE Tick
    BY <2>2 DEF Tick, atomics, BarrierInv, ThreadBarrier, TypeOK, Locals
  <2>3. ASSUME NEW t \in Threads, NEW op \in Ops, NEW args \in Rates \cup {InitialRate},
               NEW seconds \in RetryAfters \cup {0}, Call(t, op, args, seconds)
        PROVE  ThreadBarrier(u)'
    <3>1. FirstStep(op) \in {"try_interval", "acq_interval", "set_rate", "notify_now"}
      BY DEF FirstStep, Ops
    <3> QED
      BY <2>3, <3>1 DEF Call, Goto, atomics, BarrierInv, ThreadBarrier, PastBarrier, TypeOK,
                        Locals, NoLocals, AllRates
  <2>4. ASSUME NEW t \in Threads, Step(t)
        PROVE  ThreadBarrier(u)'
    BY <2>4, OthersKeepBarrier, MoverKeepsBarrier
  <2> QED
    BY <2>1, <2>2, <2>3, <2>4 DEF Next
<1> QED
  BY <1>1, <1>2 DEF BarrierInv, ThreadBarrier

\* A request whose call begins after a 429 was recorded waits the barrier out, whatever
\* races with it, provided limiting is never disabled.
THEOREM BarrierHonoured ==
  ASSUME NeverDisabled
  PROVE  Spec => []HonoursBarrier
<1>1. Init => BarrierInv
  BY DEF Init, BarrierInv, NeverDisabled, AllRates, NoLocals, PastBarrier
<1>2. TypeOK /\ BarrierInv /\ [Next]_vars => BarrierInv'
  BY BarrierStep
<1>3. TypeOK /\ BarrierInv => HonoursBarrier
  BY DEF TypeOK, Locals, BarrierInv, PastBarrier, HonoursBarrier
<1> QED
  BY <1>1, <1>2, <1>3, TypeCorrect, PTL DEF Spec
-----------------------------------------------------------------------------
(***************************************************************************)
(* A rate that changes.                                                    *)
(***************************************************************************)

Intervals == {compute_interval(r.rpm) : r \in AllRates}
Bursts    == {compute_burst(r) : r \in AllRates}

\* What the words hold, and what the threads have loaded of them, is of some rate; of which,
\* and of one or two, is not known.
MixedInv ==
  /\ interval_ns_ \in Intervals /\ burst_ns_ \in Bursts
  /\ \A t \in Threads :
       /\ pc[t] \in SetPc => loc[t].args \in AllRates
       /\ pc[t] \in HasInterval => loc[t].interval \in Intervals
       /\ pc[t] \in HasBurst => loc[t].burst \in Bursts

\* GrantInv with the shortest interval m of any rate, and some rate's burst for each slot.
SpacedInv(m) ==
  /\ \A i \in DOMAIN granted :
       /\ granted[i].slot + (Len(granted) - i) * m <= tat_
       /\ granted[i].at + m <= granted[i].slot
       /\ \E wide \in AllRates : granted[i].slot <= granted[i].at + compute_burst(wide)
  /\ \A i, j \in DOMAIN granted :
       i <= j => granted[i].slot + (j - i) * m <= granted[j].slot

LEMMA AnyRate ==
  ASSUME NEW r \in AllRates
  PROVE  /\ r \in Rate
         /\ compute_interval(r.rpm) \in Nat /\ compute_burst(r) \in Nat
         /\ compute_interval(r.rpm) <= compute_burst(r)
<1>1. r \in Rate
  BY RateAssumption DEF AllRates
<1> QED
  BY <1>1, ComputedTypes, BurstCoversInterval

\* The shortest interval exists however many rates there are.
LEMMA ShortestInterval ==
  \E fast \in AllRates : \A r \in AllRates : compute_interval(fast.rpm) <= compute_interval(r.rpm)
<1>1. Intervals \subseteq Nat /\ Intervals # {}
  BY AnyRate DEF Intervals, AllRates
<1> DEFINE Less == {p \in Nat \X Nat : p[1] < p[2]}
<1>a. IsWellFoundedOn(Less, Nat)
  BY NatLessThanWellFounded DEF OpToRel
<1>b. \A x, y \in Nat : x < y => <<x, y>> \in Less
  OBVIOUS
<1> HIDE DEF Less
<1>2. PICK m \in Intervals : \A n \in Intervals : <<n, m>> \notin Less
  BY <1>1, <1>a, WFMin
<1>3. \A n \in Intervals : ~(n < m)
  BY <1>1, <1>2, <1>b
<1>4. PICK fast \in AllRates : m = compute_interval(fast.rpm)
  BY DEF Intervals
<1>5. ASSUME NEW r \in AllRates PROVE compute_interval(fast.rpm) <= compute_interval(r.rpm)
  <2>1. compute_interval(r.rpm) \in Intervals
    BY DEF Intervals
  <2>2. compute_interval(r.rpm) \in Nat /\ m \in Nat
    BY <1>1, <2>1
  <2>3. ~(compute_interval(r.rpm) < m)
    BY <1>3, <2>1
  <2> QED
    BY <1>4, <2>2, <2>3
<1> QED
  BY <1>5

\* As LoadKeeps and MoveKeeps, for what may be stale.
LEMMA MixedLoad ==
  ASSUME TypeOK, MixedInv, NEW t \in Threads, NEW from, NEW to \in Pc \ SetPc,
         NEW field \in {"interval", "burst", "now", "tat", "barrier", "until"}, NEW value,
         Load(t, from, to, field, value),
         field = "interval" => value = interval_ns_,
         field = "burst" => value = burst_ns_,
         to \in HasInterval => from \in HasInterval \/ field = "interval",
         to \in HasBurst => from \in HasBurst \/ field = "burst"
  PROVE  MixedInv'
<1>1. UNCHANGED <<interval_ns_, burst_ns_>>
  BY DEF Load, atomics
<1> SUFFICES ASSUME NEW u \in Threads
             PROVE  /\ pc'[u] \in SetPc => loc'[u].args \in AllRates
                    /\ pc'[u] \in HasInterval => loc'[u].interval \in Intervals
                    /\ pc'[u] \in HasBurst => loc'[u].burst \in Bursts
  BY <1>1 DEF MixedInv
<1>2. CASE u # t
  BY <1>2 DEF MixedInv, Load, Goto, TypeOK
<1>3. CASE u = t
  <2>1. pc'[t] = to /\ pc[t] = from
    BY DEF Load, Goto, TypeOK
  <2>2. loc'[t] = [loc[t] EXCEPT ![field] = value]
    BY DEF Load, TypeOK
  <2>3. loc'[t].interval = IF field = "interval" THEN value ELSE loc[t].interval
    BY <2>2 DEF TypeOK, Locals
  <2>4. loc'[t].burst = IF field = "burst" THEN value ELSE loc[t].burst
    BY <2>2 DEF TypeOK, Locals
  <2> QED
    BY <1>3, <2>1, <2>3, <2>4 DEF MixedInv
<1> QED
  BY <1>2, <1>3

LEMMA MixedMove ==
  ASSUME TypeOK, MixedInv, NEW t \in Threads, NEW from, NEW to \in Pc,
         Goto(t, from, to),
         \A u \in Threads : /\ loc'[u].interval = loc[u].interval
                            /\ loc'[u].burst = loc[u].burst
                            /\ loc'[u].args = loc[u].args,
         interval_ns_' \in Intervals, burst_ns_' \in Bursts,
         to \in SetPc => from \in SetPc,
         to \in HasInterval => from \in HasInterval,
         to \in HasBurst => from \in HasBurst
  PROVE  MixedInv'
BY DEF MixedInv, Goto, TypeOK

LEMMA MixedStep ==
  ASSUME TypeOK, MixedInv, [Next]_vars
  PROVE  MixedInv'
<1> USE DEF HasInterval, HasBurst, SetPc, Pc, TryPc, AcquirePc, NotifyPc
<1>1. CASE UNCHANGED vars
  BY <1>1 DEF vars, atomics, MixedInv
<1>2. CASE Tick
  BY <1>2 DEF Tick, atomics, MixedInv
<1>3. ASSUME NEW t \in Threads, NEW op \in Ops, NEW args \in Rates \cup {InitialRate},
             NEW seconds \in RetryAfters \cup {0}, Call(t, op, args, seconds)
      PROVE  MixedInv'
  <2>1. FirstStep(op) \in {"try_interval", "acq_interval", "notify_now", "set_rate"}
    BY <1>3 DEF FirstStep, Ops
  <2>2. loc'[t].args = args /\ args \in AllRates
    BY <1>3 DEF Call, TypeOK, NoLocals, AllRates
  <2>3. /\ pc'[t] = FirstStep(op) /\ UNCHANGED <<interval_ns_, burst_ns_>>
        /\ \A u \in Threads : u # t => pc'[u] = pc[u] /\ loc'[u] = loc[u]
    BY <1>3 DEF Call, Goto, atomics, TypeOK
  <2> QED
    BY <2>1, <2>2, <2>3 DEF MixedInv
<1>4. ASSUME NEW t \in Threads, Step(t)
      PROVE  MixedInv'
  <2>1. CASE TryInterval(t) \/ TryNow(t) \/ TryBarrier(t)
    BY <2>1, MixedLoad DEF TryInterval, TryNow, TryBarrier
  <2>2. CASE TryBurst(t) \/ TryTat(t) \/ TryAgain(t)
    BY <2>2, MixedLoad DEF TryBurst, TryTat, TryAgain
  <2>3. CASE TryRefuse(t) \/ AcqWakeBarrier(t) \/ AcqWakeSlot(t)
    BY <2>3, MixedMove DEF TryRefuse, AcqWakeBarrier, AcqWakeSlot, atomics, MixedInv
  <2>4. CASE TryReserve(t)
    BY <2>4, MixedMove DEF TryReserve, Reserve, MixedInv
  <2>5. CASE AcqReserve(t)
    BY <2>5, MixedMove DEF AcqReserve, Reserve, TypeOK, Locals, MixedInv
  <2>6. CASE AcqInterval(t) \/ AcqBarrier(t) \/ AcqNow(t)
    BY <2>6, MixedLoad DEF AcqInterval, AcqBarrier, AcqNow
  <2>7. CASE AcqBurst(t) \/ AcqTat(t) \/ AcqNow2(t) \/ AcqAgain(t)
    BY <2>7, MixedLoad DEF AcqBurst, AcqTat, AcqNow2, AcqAgain
  <2>8. CASE NotifyNow(t) \/ NotifyLoad(t) \/ NotifyAgain(t)
    BY <2>8, MixedLoad DEF NotifyNow, NotifyLoad, NotifyAgain
  <2>9. CASE NotifyDone(t) \/ NotifyRaise(t)
    BY <2>9, MixedMove DEF NotifyDone, NotifyRaise, atomics, MixedInv
  <2>10. CASE Return(t)
    BY <2>10 DEF Return, Goto, atomics, MixedInv, TypeOK
  <2>11. CASE SetRate(t) \/ SetTat(t)
    BY <2>11, MixedMove DEF SetRate, SetTat, MixedInv
  <2>12. CASE SetInterval(t)
    <3>1. loc[t].args \in AllRates
      BY <2>12 DEF SetInterval, Goto, MixedInv
    <3>2. interval_ns_' \in Intervals /\ burst_ns_' \in Bursts
      BY <2>12, <3>1 DEF SetInterval, Intervals, MixedInv
    <3> QED
      BY <2>12, <3>2, MixedMove DEF SetInterval
  <2>13. CASE SetBurst(t)
    <3>1. loc[t].args \in AllRates
      BY <2>13 DEF SetBurst, Goto, MixedInv
    <3>2. interval_ns_' \in Intervals /\ burst_ns_' \in Bursts
      BY <2>13, <3>1 DEF SetBurst, Bursts, MixedInv
    <3> QED
      BY <2>13, <3>2, MixedMove DEF SetBurst
  <2> QED
    BY <1>4, <2>1, <2>2, <2>3, <2>4, <2>5, <2>6, <2>7, <2>8, <2>9, <2>10, <2>11, <2>12, <2>13 DEF Step
<1> QED
  BY <1>1, <1>2, <1>3, <1>4 DEF Next

\* A slot reserved at least m after tat_ keeps the slots m apart.
LEMMA ReserveKeepsSpace ==
  ASSUME TypeOK, NEW m \in Nat, SpacedInv(m), NEW slot \in Nat, NEW at \in Nat, Reserve(slot, at),
         tat_ + m <= slot, at + m <= slot,
         \E wide \in AllRates : slot <= at + compute_burst(wide)
  PROVE  SpacedInv(m)'
<1> DEFINE n == Len(granted)
<1>1. /\ n \in Nat
      /\ DOMAIN granted = 1 .. n
      /\ Len(granted') = n + 1
      /\ DOMAIN granted' = 1 .. (n + 1)
      /\ granted'[n + 1] = [slot |-> slot, at |-> at]
      /\ \A i \in 1 .. n : granted'[i] = granted[i]
  BY DEF TypeOK, Reserve
<1>2. tat_' = slot /\ tat_ \in Nat
  BY DEF TypeOK, Reserve
<1>3. \A i \in 1 .. n : granted[i].slot \in Nat /\ granted[i].at \in Nat
  <2>1. granted \in Seq(Grants)
    BY DEF TypeOK
  <2>2. \A i \in 1 .. n : granted[i] \in Grants
    BY <1>1, <2>1
  <2> QED
    BY <2>2 DEF Grants
<1>4. \A i \in 1 .. n : granted[i].slot + (n + 1 - i) * m <= slot
  <2> TAKE i \in 1 .. n
  <2>1. n - i \in Nat /\ n + 1 - i = (n - i) + 1
    BY <1>1
  <2>2. granted[i].slot + (n - i) * m <= tat_
    BY <1>1 DEF SpacedInv
  <2>3. granted[i].slot + ((n - i) + 1) * m <= slot
    BY <1>2, <1>3, <2>1, <2>2, OneSlotMore
  <2> QED
    BY <2>1, <2>3
<1> HIDE DEF n
<1>5. ASSUME NEW i \in DOMAIN granted'
      PROVE  /\ granted'[i].slot + (Len(granted') - i) * m <= tat_'
             /\ granted'[i].at + m <= granted'[i].slot
             /\ \E wide \in AllRates : granted'[i].slot <= granted'[i].at + compute_burst(wide)
  <2>1. CASE i \in 1 .. n
    <3>1. granted[i].slot + (n + 1 - i) * m <= slot /\ granted'[i] = granted[i]
      BY <1>1, <1>4, <2>1
    <3>2. /\ granted[i].at + m <= granted[i].slot
          /\ \E wide \in AllRates : granted[i].slot <= granted[i].at + compute_burst(wide)
      BY <1>1, <2>1 DEF SpacedInv
    <3> QED
      BY <1>1, <1>2, <3>1, <3>2
  <2>2. CASE i = n + 1
    <3>1. granted'[i].slot = slot /\ granted'[i].at = at /\ Len(granted') - i = 0
      BY <1>1, <2>2
    <3>2. (Len(granted') - i) * m = 0
      BY <3>1
    <3> QED
      BY <1>2, <3>1, <3>2
  <2> QED
    BY <1>1, <1>5, <2>1, <2>2
<1>6. ASSUME NEW i \in DOMAIN granted', NEW j \in DOMAIN granted', i <= j
      PROVE  granted'[i].slot + (j - i) * m <= granted'[j].slot
  <2>1. CASE j \in 1 .. n
    <3>1. i \in 1 .. n
      BY <1>1, <1>6, <2>1
    <3>2. granted[i].slot + (j - i) * m <= granted[j].slot
      BY <1>1, <1>6, <2>1, <3>1 DEF SpacedInv
    <3>3. granted'[i] = granted[i] /\ granted'[j] = granted[j]
      BY <1>1, <2>1, <3>1
    <3> QED
      BY <3>2, <3>3
  <2>2. CASE j = n + 1 /\ i \in 1 .. n
    <3>1. granted[i].slot + (n + 1 - i) * m <= slot
      BY <1>4, <2>2
    <3>2. granted'[i] = granted[i] /\ granted'[j].slot = slot
      BY <1>1, <2>2
    <3>3. n + 1 - i = j - i
      BY <1>1, <2>2
    <3> QED
      BY <3>1, <3>2, <3>3
  <2>3. CASE j = n + 1 /\ i = n + 1
    <3>1. granted'[i].slot = slot /\ granted'[j].slot = slot /\ j - i = 0
      BY <1>1, <2>3
    <3>2. (j - i) * m = 0
      BY <3>1
    <3> QED
      BY <3>1, <3>2
  <2> QED
    BY <1>1, <1>6, <2>1, <2>2, <2>3
<1> QED
  BY <1>5, <1>6 DEF SpacedInv

\* What a thread has loaded gives a slot of some rate.
LEMMA SpacedStep ==
  ASSUME TypeOK, MixedInv, [Next]_vars, NEW m \in Nat, SpacedInv(m),
         \A r \in AllRates : m <= compute_interval(r.rpm)
  PROVE  SpacedInv(m)'
<1>0. ASSUME NEW t \in Threads, pc[t] \in {"try_cas", "acq_cas"}
      PROVE  /\ loc[t].interval \in Nat /\ m <= loc[t].interval
             /\ loc[t].burst \in Nat /\ m <= loc[t].burst
             /\ \E wide \in AllRates : loc[t].burst = compute_burst(wide)
             /\ loc[t].now \in Nat /\ loc[t].tat \in Nat /\ tat_ \in Nat
  <2>1. /\ loc[t].interval \in Intervals /\ loc[t].burst \in Bursts
    BY <1>0 DEF MixedInv, HasInterval, HasBurst
  <2>2. PICK r \in AllRates : loc[t].interval = compute_interval(r.rpm)
    BY <2>1 DEF Intervals
  <2>3. PICK wide \in AllRates : loc[t].burst = compute_burst(wide)
    BY <2>1 DEF Bursts
  <2>4. m <= compute_burst(wide)
    BY <2>3, AnyRate
  <2>5. loc[t].now \in Nat /\ loc[t].tat \in Nat /\ tat_ \in Nat
    BY DEF TypeOK, Locals
  <2> QED
    BY <2>2, <2>3, <2>4, <2>5, AnyRate
<1>1. ASSUME NEW t \in Threads, TryReserve(t)
      PROVE  SpacedInv(m)'
  <2>1. /\ pc[t] = "try_cas" /\ loc[t].tat = tat_ /\ NewTat(t) <= loc[t].now + loc[t].burst
        /\ Reserve(NewTat(t), loc[t].now)
    BY <1>1 DEF TryReserve, Goto
  <2>2. /\ NewTat(t) \in Nat
        /\ tat_ + m <= NewTat(t)
        /\ loc[t].now + m <= NewTat(t)
    BY <1>0, <2>1 DEF NewTat, Later
  <2>3. \E wide \in AllRates : NewTat(t) <= loc[t].now + compute_burst(wide)
    BY <1>0, <2>1
  <2> QED
    BY <1>0, <2>1, <2>2, <2>3, ReserveKeepsSpace
<1>2. ASSUME NEW t \in Threads, AcqReserve(t)
      PROVE  SpacedInv(m)'
  <2> DEFINE at == Later(loc[t].now, Due(t))
  <2>1. /\ pc[t] = "acq_cas" /\ loc[t].tat = tat_ /\ Reserve(NewTat(t), at)
    BY <1>2 DEF AcqReserve, Goto
  <2>2. /\ NewTat(t) \in Nat
        /\ tat_ + m <= NewTat(t)
        /\ loc[t].now + m <= NewTat(t)
    BY <1>0, <2>1 DEF NewTat, Later
  <2>3. /\ at \in Nat
        /\ at + m <= NewTat(t)
        /\ NewTat(t) <= at + loc[t].burst
    <3>1. loc[t].now \in Nat /\ loc[t].burst \in Nat /\ m <= loc[t].burst
      BY <1>0, <2>1
    <3> QED
      BY <2>2, <3>1 DEF Due, Later
  <2> HIDE DEF at
  <2>4. \E wide \in AllRates : NewTat(t) <= at + compute_burst(wide)
    BY <1>0, <2>1, <2>3
  <2> QED
    BY <2>1, <2>2, <2>3, <2>4, ReserveKeepsSpace
<1>3. ASSUME NEW t \in Threads, SetTat(t)
      PROVE  SpacedInv(m)'
  <2>1. granted' = <<>>
    BY <1>3 DEF SetTat
  <2>2. DOMAIN granted' = {}
    BY <2>1
  <2> QED
    BY <2>2 DEF SpacedInv
<1>4. CASE UNCHANGED <<granted, tat_>>
  BY <1>4 DEF SpacedInv
<1>5. \/ \E t \in Threads : TryReserve(t) \/ AcqReserve(t) \/ SetTat(t)
      \/ UNCHANGED <<granted, tat_>>
  BY DEF Next, Step, vars, atomics, Tick, Call, Load, TryInterval, TryNow, TryBarrier, TryBurst,
        TryTat, TryRefuse, TryAgain, AcqInterval, AcqBarrier, AcqNow, AcqWakeBarrier, AcqBurst,
        AcqTat, AcqNow2, AcqAgain, AcqWakeSlot, SetRate, SetInterval, SetBurst, NotifyNow,
        NotifyLoad, NotifyDone, NotifyRaise, NotifyAgain, Return
<1> QED
  BY <1>1, <1>2, <1>3, <1>4, <1>5

LEMMA MixedInit ==
  ASSUME Init, NEW m
  PROVE  MixedInv /\ SpacedInv(m)
<1>1. InitialRate \in AllRates
  BY DEF AllRates
<1>2. interval_ns_ \in Intervals /\ burst_ns_ \in Bursts
  BY <1>1 DEF Init, Intervals, Bursts
<1>3. \A t \in Threads : pc[t] = "idle"
  BY DEF Init
<1>4. DOMAIN granted = {}
  BY DEF Init
<1> QED
  BY <1>2, <1>3, <1>4 DEF MixedInv, SpacedInv, SetPc, HasInterval, HasBurst

LEMMA MixedBounded ==
  ASSUME TypeOK, NEW fast \in AllRates, SpacedInv(compute_interval(fast.rpm))
  PROVE  RateChangeBounded
<1> DEFINE m == compute_interval(fast.rpm)
<1> SUFFICES ASSUME NEW i \in DOMAIN granted, NEW j \in DOMAIN granted, i <= j
             PROVE  \E wide \in AllRates :
                      (j - i + 1) * m + granted[i].at <= compute_burst(wide) + granted[j].at
  BY DEF RateChangeBounded
<1>1. /\ i \in Nat /\ j \in Nat /\ j - i \in Nat
      /\ granted[i] \in Grants /\ granted[j] \in Grants
  BY DEF TypeOK
<1>2. m \in Nat
  BY AnyRate
<1>3. /\ granted[i].slot + (j - i) * m <= granted[j].slot
      /\ granted[i].at + m <= granted[i].slot
  BY DEF SpacedInv
<1>4. PICK wide \in AllRates : granted[j].slot <= granted[j].at + compute_burst(wide)
  BY DEF SpacedInv
<1>5. compute_burst(wide) \in Nat
  BY AnyRate
<1> HIDE DEF m
<1>6. /\ (j - i) * m \in Nat
      /\ (j - i + 1) * m = (j - i) * m + m
  BY <1>1, <1>2, OneMore
<1>7. (j - i + 1) * m + granted[i].at <= compute_burst(wide) + granted[j].at
  BY <1>1, <1>2, <1>3, <1>4, <1>5, <1>6 DEF Grants
<1> QED
  BY <1>7

\* However set_rate() and requests interleave, so that a thread may use the interval of one
\* rate with the burst of another: between two resets no more is admitted than the shortest
\* interval and the widest burst of the rates in use allow.
THEOREM RateChange == Spec => []RateChangeBounded
<1>1. PICK fast \in AllRates :
        \A r \in AllRates : compute_interval(fast.rpm) <= compute_interval(r.rpm)
  BY ShortestInterval
<1>2. compute_interval(fast.rpm) \in Nat
  BY AnyRate
<1>3. Init => MixedInv /\ SpacedInv(compute_interval(fast.rpm))
  BY MixedInit
<1>4. TypeOK /\ MixedInv /\ [Next]_vars => MixedInv'
  BY MixedStep
<1>5. TypeOK /\ MixedInv /\ SpacedInv(compute_interval(fast.rpm)) /\ [Next]_vars
        => SpacedInv(compute_interval(fast.rpm))'
  BY <1>1, <1>2, SpacedStep
<1>6. TypeOK /\ SpacedInv(compute_interval(fast.rpm)) => RateChangeBounded
  BY MixedBounded
<1> QED
  BY <1>3, <1>4, <1>5, <1>6, TypeCorrect, PTL DEF Spec

-----------------------------------------------------------------------------
(***************************************************************************)
(* The limiter implements Pacer.                                           *)
(***************************************************************************)

\* Where a request has read the clock, and where it has found the barrier down.
Dated   == {"try_barrier", "try_burst", "try_tat", "try_cas",
            "acq_burst", "acq_tat", "acq_now2", "acq_cas"}
Cleared == Dated \ {"try_barrier"}

\* What a call holds of the clock, the bucket and the barrier may be old, but is no older
\* than the call, and the barrier it began under is behind it before it goes for a slot.
ThreadPace(t) ==
  /\ loc[t].since <= clock
  /\ loc[t].floor <= blocked_until_
  /\ pc[t] \in HasInterval => interval_ns_ # 0
  /\ pc[t] \in Dated => loc[t].since <= loc[t].now /\ loc[t].now <= clock
  /\ pc[t] \in {"acq_now", "acq_sleep_barrier"} => loc[t].floor <= loc[t].barrier
  /\ pc[t] \in Cleared => loc[t].floor <= loc[t].now
  /\ pc[t] = "try_cas" => loc[t].tat <= tat_
  /\ pc[t] = "notify_cas" => loc[t].barrier <= blocked_until_
  /\ pc[t] \in {"notify_load", "notify_cas"} =>
       \E at \in Nat : /\ loc[t].since <= at /\ at <= clock
                       /\ loc[t].until = at + loc[t].after

PaceInv ==
  /\ interval_ns_ = compute_interval(InitialRate.rpm)
  /\ burst_ns_ = compute_burst(InitialRate)
  /\ \A t \in Threads : ThreadPace(t)

\* The bucket never runs back: a slot is reserved behind the one it was compared with.
LEMMA BucketGrows ==
  ASSUME FixedRate, TypeOK, LoadedInv, [Next]_vars
  PROVE  tat_' \in Nat /\ tat_' >= tat_
<1>1. tat_' \in Nat /\ tat_ \in Nat
  BY TypeStep DEF TypeOK
<1>2. ASSUME NEW t \in Threads, TryReserve(t) \/ AcqReserve(t)
      PROVE  tat_' >= tat_
  <2>1. tat_' = NewTat(t) /\ loc[t].tat = tat_
    BY <1>2 DEF TryReserve, AcqReserve, Reserve
  <2>2. loc[t].interval \in Nat /\ loc[t].now \in Nat
    BY DEF TypeOK, Locals
  <2> QED
    BY <1>1, <2>1, <2>2 DEF NewTat, Later
<1>3. ~ \E t \in Threads : SetTat(t)
  BY DEF SetTat, Goto, LoadedInv, SetPc
<1>4. \/ \E t \in Threads : TryReserve(t) \/ AcqReserve(t)
      \/ UNCHANGED tat_
  BY <1>3 DEF Next, Step, vars, atomics, Tick, Call, Load, TryInterval, TryNow, TryBarrier,
        TryBurst, TryTat, TryRefuse, TryAgain, AcqInterval, AcqBarrier, AcqNow,
        AcqWakeBarrier, AcqBurst, AcqTat, AcqNow2, AcqAgain, AcqWakeSlot, SetRate,
        SetInterval, SetBurst, NotifyNow, NotifyLoad, NotifyDone, NotifyRaise, NotifyAgain,
        Return
<1> QED
  BY <1>1, <1>2, <1>4

\* A thread that stays where it is keeps its part: clock, bucket and barrier only grow.
LEMMA StayKeepsPace ==
  ASSUME TypeOK, TypeOK', NEW u \in Threads, ThreadPace(u),
         pc'[u] = pc[u], loc'[u] = loc[u],
         clock' >= clock, tat_' >= tat_, blocked_until_' >= blocked_until_,
         interval_ns_' = interval_ns_
  PROVE  ThreadPace(u)'
<1>1. /\ loc[u] \in Locals
      /\ clock \in Nat /\ clock' \in Nat /\ tat_ \in Nat /\ tat_' \in Nat
      /\ blocked_until_ \in Nat /\ blocked_until_' \in Nat
      /\ loc[u].since \in Nat /\ loc[u].after \in Nat
  BY DEF TypeOK, Locals
<1> QED
  BY <1>1 DEF ThreadPace, Locals

\* The thread that moves keeps its part.
LEMMA MoverKeepsPace ==
  ASSUME FixedRate, TypeOK, LoadedInv, PaceInv, NEW t \in Threads, Step(t),
         interval_ns_' = interval_ns_, tat_' >= tat_, tat_' \in Nat,
         blocked_until_' >= blocked_until_, blocked_until_' \in Nat
  PROVE  ThreadPace(t)'
<1>1. /\ ThreadPace(t)
      /\ loc[t] \in Locals
      /\ clock \in Nat /\ tat_ \in Nat /\ blocked_until_ \in Nat /\ interval_ns_ \in Nat
      /\ loc[t].since \in Nat /\ loc[t].after \in Nat
  BY DEF PaceInv, TypeOK, Locals
<1> USE <1>1 DEF ThreadPace, HasInterval, Dated, Cleared, Load, Goto, atomics, TypeOK,
                       Locals
<1>3. CASE TryInterval(t)
  BY <1>3 DEF TryInterval
<1>4. CASE TryNow(t)
  BY <1>4 DEF TryNow
<1>5. CASE TryBarrier(t)
  BY <1>5 DEF TryBarrier
<1>6. CASE TryBurst(t)
  BY <1>6 DEF TryBurst
<1>7. CASE TryTat(t)
  BY <1>7 DEF TryTat
<1>8. CASE TryRefuse(t)
  BY <1>8 DEF TryRefuse
<1>9. CASE TryReserve(t)
  BY <1>9 DEF TryReserve, Reserve
<1>10. CASE TryAgain(t)
  BY <1>10 DEF TryAgain
<1>11. CASE AcqInterval(t)
  BY <1>11 DEF AcqInterval
<1>12. CASE AcqBarrier(t)
  BY <1>12 DEF AcqBarrier
<1>13. CASE AcqNow(t)
  BY <1>13 DEF AcqNow
<1>14. CASE AcqWakeBarrier(t)
  BY <1>14 DEF AcqWakeBarrier
<1>15. CASE AcqBurst(t)
  BY <1>15 DEF AcqBurst
<1>16. CASE AcqTat(t)
  BY <1>16 DEF AcqTat
<1>17. CASE AcqNow2(t)
  BY <1>17 DEF AcqNow2
<1>18. CASE AcqReserve(t)
  BY <1>18 DEF AcqReserve, Reserve
<1>19. CASE AcqAgain(t)
  BY <1>19 DEF AcqAgain
<1>20. CASE AcqWakeSlot(t)
  BY <1>20 DEF AcqWakeSlot
<1>21. ~(SetRate(t) \/ SetInterval(t) \/ SetBurst(t) \/ SetTat(t))
  BY DEF SetRate, SetInterval, SetBurst, SetTat, LoadedInv, SetPc
<1>22. CASE NotifyNow(t)
  BY <1>22 DEF NotifyNow
<1>23. CASE NotifyLoad(t)
  BY <1>23 DEF NotifyLoad
<1>24. CASE NotifyDone(t)
  BY <1>24 DEF NotifyDone
<1>25. CASE NotifyRaise(t)
  BY <1>25 DEF NotifyRaise
<1>26. CASE NotifyAgain(t)
  BY <1>26 DEF NotifyAgain
<1>27. CASE Return(t)
  BY <1>27 DEF Return, NoLocals
<1> QED
  BY <1>3, <1>4, <1>5, <1>6, <1>7, <1>8, <1>9, <1>10, <1>11, <1>12, <1>13, <1>14, <1>15,
     <1>16, <1>17, <1>18, <1>19, <1>20, <1>21, <1>22, <1>23, <1>24, <1>25, <1>26, <1>27
     DEF Step

\* A call records when it began, the barrier it began under and its Retry-After.
LEMMA CallKeepsPace ==
  ASSUME FixedRate, TypeOK, PaceInv, NEW t \in Threads, NEW op \in Ops,
         NEW args \in Rates \cup {InitialRate}, NEW seconds \in RetryAfters \cup {0},
         Call(t, op, args, seconds)
  PROVE  /\ pc[t] = "idle"
         /\ pc'[t] = FirstStep(op)
         /\ FirstStep(op) \in {"try_interval", "acq_interval", "notify_now"}
         /\ seconds * Second \in Nat
         /\ loc'[t].floor = blocked_until_ /\ loc'[t].since = clock
         /\ loc'[t].after = seconds * Second
         /\ \A u \in Threads : u # t => pc'[u] = pc[u] /\ loc'[u] = loc[u]
         /\ UNCHANGED <<atomics, clock>>
         /\ ThreadPace(t)'
<1>1. /\ pc[t] = "idle" /\ pc'[t] = FirstStep(op)
      /\ \A u \in Threads : u # t => pc'[u] = pc[u] /\ loc'[u] = loc[u]
      /\ UNCHANGED <<atomics, clock>>
  BY DEF Call, Goto, TypeOK
<1>2. FirstStep(op) \in {"try_interval", "acq_interval", "notify_now"}
  BY DEF Call, FixedRate, FirstStep, Ops
<1>3. seconds * Second \in Nat
  <2>1. seconds \in Nat /\ Second \in Nat
    BY TimeAssumption
  <2>2. \A m, n \in Nat : m * n \in Nat
    OBVIOUS
  <2> QED
    BY <2>1, <2>2
<1>4. /\ loc'[t].floor = blocked_until_ /\ loc'[t].since = clock
      /\ loc'[t].after = seconds * Second
  <2>1. loc'[t] = [NoLocals EXCEPT !.args = args, !.after = seconds * Second, !.since = clock,
                                   !.floor = blocked_until_]
    BY DEF Call, TypeOK
  <2> QED
    BY <2>1 DEF NoLocals
<1>5. ThreadPace(t)'
  <2>1. clock \in Nat /\ blocked_until_ \in Nat
    BY DEF TypeOK
  <2>2. blocked_until_' = blocked_until_ /\ clock' = clock
    BY <1>1 DEF atomics
  <2> QED
    BY <1>1, <1>2, <1>4, <2>1, <2>2 DEF ThreadPace, HasInterval, Dated, Cleared
<1> QED
  BY <1>1, <1>2, <1>3, <1>4, <1>5

\* What a thread holds never gets older than its call.
LEMMA PaceStep ==
  ASSUME FixedRate, TypeOK, LoadedInv, PaceInv, [Next]_vars
  PROVE  PaceInv'
<1>1. CASE UNCHANGED vars
  BY <1>1 DEF vars, atomics, PaceInv, ThreadPace
<1>2. CASE Next
  <2>1. /\ TypeOK'
        /\ UNCHANGED <<interval_ns_, burst_ns_>>
        /\ tat_' \in Nat /\ tat_' >= tat_
        /\ blocked_until_' \in Nat /\ blocked_until_' >= blocked_until_
    BY <1>2, TypeStep, LoadedStep, BucketGrows, BarrierExtendsStep
  <2>2. clock \in Nat /\ clock' \in Nat
    BY <2>1 DEF TypeOK
  <2>3. ASSUME NEW u \in Threads, pc'[u] = pc[u], loc'[u] = loc[u], clock' >= clock
        PROVE  ThreadPace(u)'
    BY <2>1, <2>3, StayKeepsPace DEF PaceInv
  <2>4. ASSUME NEW u \in Threads
        PROVE  ThreadPace(u)'
    <3>1. CASE Tick
      BY <2>2, <2>3, <3>1 DEF Tick
    <3>2. ASSUME NEW t \in Threads, NEW op \in Ops, NEW args \in Rates \cup {InitialRate},
                 NEW seconds \in RetryAfters \cup {0}, Call(t, op, args, seconds)
          PROVE  ThreadPace(u)'
      <4>1. CASE u = t
        BY <3>2, <4>1, CallKeepsPace
      <4>2. CASE u # t
        <5>1. pc'[u] = pc[u] /\ loc'[u] = loc[u] /\ clock' = clock
          BY <3>2, <4>2, CallKeepsPace
        <5> QED
          BY <2>2, <2>3, <5>1
      <4> QED
        BY <4>1, <4>2
    <3>3. ASSUME NEW t \in Threads, Step(t)
          PROVE  ThreadPace(u)'
      <4>1. CASE u = t
        BY <2>1, <3>3, <4>1, MoverKeepsPace
      <4>2. CASE u # t
        <5>1. pc'[u] = pc[u] /\ loc'[u] = loc[u] /\ clock' = clock
          BY <3>3, <4>2, OthersStay
        <5> QED
          BY <2>2, <2>3, <5>1
      <4> QED
        BY <4>1, <4>2
    <3> QED
      BY <1>2, <3>1, <3>2, <3>3 DEF Next
  <2> QED
    BY <2>1, <2>4 DEF PaceInv
<1> QED
  BY <1>1, <1>2

\* What the abstract requests are made of.
Request(does, since, floor, after, due) ==
  [does |-> does, since |-> since, floor |-> floor, after |-> after, due |-> due]

\* A step of one thread's call, read as a step of the abstract requests.
LEMMA Shows ==
  ASSUME NEW t \in Threads, \A u \in Threads : u # t => Shown(u)' = Shown(u)
  PROVE  [u \in Threads |-> Shown(u)]'
           = [[u \in Threads |-> Shown(u)] EXCEPT ![t] = Shown(t)']
OBVIOUS

\* A step that moves one request and gives it a due time.
LEMMA Becoming ==
  ASSUME NEW t \in Threads, \A u \in Threads : u # t => Shown(u)' = Shown(u),
         NEW from, NEW to, NEW since, NEW floor, NEW after, NEW due, NEW next,
         Shown(t) = Request(from, since, floor, after, due),
         Shown(t)' = Request(to, since, floor, after, next)
  PROVE  Abstract!Becomes(t, from, to, next)
<1>1. PICK f : f = [u \in Threads |-> Shown(u)]
  OBVIOUS
<1>2. PICK r : r = Request(from, since, floor, after, due)
  OBVIOUS
<1>3. f[t] = r
  BY <1>1, <1>2
<1>4. [r EXCEPT !.does = to, !.due = next] = Request(to, since, floor, after, next)
  <2> DEFINE s == [r EXCEPT !.does = to]
  <2>1. s = Request(to, since, floor, after, due)
    BY <1>2 DEF Request
  <2> HIDE DEF s
  <2>2. [s EXCEPT !.due = next] = Request(to, since, floor, after, next)
    BY <2>1 DEF Request
  <2> QED
    BY <2>2 DEF s
<1>5. [f EXCEPT ![t].does = to, ![t].due = next]
        = [u \in Threads |-> IF u = t THEN [r EXCEPT !.does = to, !.due = next] ELSE f[u]]
  BY <1>1, <1>3
<1>6. [f EXCEPT ![t].does = to, ![t].due = next]
        = [u \in Threads |-> IF u = t THEN Request(to, since, floor, after, next) ELSE f[u]]
  BY <1>4, <1>5
<1>7. [u \in Threads |-> Shown(u)]'
        = [u \in Threads |-> IF u = t THEN Request(to, since, floor, after, next) ELSE f[u]]
  BY <1>1
<1>8. f[t].does = from
  BY <1>2, <1>3 DEF Request
<1> QED
  BY <1>1, <1>6, <1>7, <1>8 DEF Abstract!Becomes

\* A step that no thread shows is a stutter of the abstract specification.
LEMMA AbstractStutter ==
  ASSUME \A u \in Threads : Shown(u)' = Shown(u),
         UNCHANGED <<clock, tat_, blocked_until_>>
  PROVE  UNCHANGED Abstract!vars
BY DEF Abstract!vars

\* A thread that stays where it is shows the same.
LEMMA OthersShow ==
  ASSUME NEW u \in Threads, pc'[u] = pc[u], loc'[u] = loc[u]
  PROVE  Shown(u)' = Shown(u)
BY DEF Shown

\* What a call shows, field by field.
LEMMA CallShows ==
  ASSUME NEW t \in Threads, pc[t] # "idle"
  PROVE  LET r == [u \in Threads |-> Shown(u)][t]
         IN  /\ r.does = Doing(pc[t])
             /\ r.since = loc[t].since
             /\ r.floor = loc[t].floor
             /\ r.after = loc[t].after
             /\ pc[t] = "acq_sleep_slot" => r.due = loc[t].until
BY DEF Shown

\* A step from one place of a call to another, in the abstract.
LEMMA CallBecomes ==
  ASSUME TypeOK, NEW t \in Threads, Step(t), pc[t] # "idle", pc'[t] # "idle",
         loc'[t].floor = loc[t].floor, loc'[t].since = loc[t].since,
         loc'[t].after = loc[t].after
  PROVE  Abstract!Becomes(t, Doing(pc[t]), Doing(pc'[t]),
                          IF pc'[t] = "acq_sleep_slot" THEN loc'[t].until ELSE 0)
<1>1. \A u \in Threads : u # t => Shown(u)' = Shown(u)
  BY OthersStay, OthersShow
<1>3. Shown(t) = Request(Doing(pc[t]), loc[t].since, loc[t].floor, loc[t].after,
                         IF pc[t] = "acq_sleep_slot" THEN loc[t].until ELSE 0)
  BY DEF Shown, Request
<1>4. Shown(t)' = Request(Doing(pc'[t]), loc[t].since, loc[t].floor, loc[t].after,
                          IF pc'[t] = "acq_sleep_slot" THEN loc'[t].until ELSE 0)
  BY DEF Shown, Request
<1> QED
  BY <1>1, <1>3, <1>4, Becoming

\* A step that is not the call's own shows nothing.
LEMMA SilentStep ==
  ASSUME TypeOK, NEW t \in Threads, Step(t), pc[t] # "idle", pc'[t] # "idle",
         loc'[t].floor = loc[t].floor, loc'[t].since = loc[t].since,
         loc'[t].after = loc[t].after,
         Doing(pc'[t]) = Doing(pc[t]),
         pc[t] # "acq_sleep_slot", pc'[t] # "acq_sleep_slot",
         UNCHANGED <<tat_, blocked_until_>>
  PROVE  UNCHANGED Abstract!vars
<1>1. \A u \in Threads : u # t => Shown(u)' = Shown(u)
  BY OthersStay, OthersShow
<1>3. Shown(t)' = Shown(t)
  BY DEF Shown
<1>4. clock' = clock
  BY DEF Step, Load, Goto, Reserve, TryInterval, TryNow, TryBarrier,
      TryBurst, TryTat, TryRefuse, TryReserve, TryAgain, AcqInterval, AcqBarrier, AcqNow,
      AcqWakeBarrier, AcqBurst, AcqTat, AcqNow2, AcqReserve, AcqAgain, AcqWakeSlot, SetRate,
      SetInterval, SetBurst, SetTat, NotifyNow, NotifyLoad, NotifyDone, NotifyRaise,
      NotifyAgain, Return
<1> QED
  BY <1>1, <1>3, <1>4, AbstractStutter

\* The places of a call, read as what it is doing.
LEMMA Places ==
  ASSUME NEW place
  PROVE  /\ place \in TryPc => Doing(place) = "try"
         /\ place \in AcquirePc /\ place # "acq_sleep_slot" => Doing(place) = "wait"
         /\ place \in NotifyPc => Doing(place) = "raise"
         /\ Doing("acq_sleep_slot") = "asleep"
         /\ Doing("granted") = "through"
         /\ Doing("returned") = "done"
BY DEF Doing, TryPc, AcquirePc, NotifyPc, SetPc

\* A limiter that is disabled lets a request through at its first access.
LEMMA PassShown ==
  ASSUME FixedRate, TypeOK, LoadedInv, PaceInv, NEW t \in Threads, Step(t),
         TryInterval(t) \/ AcqInterval(t)
  PROVE  UNCHANGED Abstract!vars \/ Abstract!Pass(t)
<1>1. /\ pc[t] \in {"try_interval", "acq_interval"}
      /\ loc'[t].floor = loc[t].floor /\ loc'[t].since = loc[t].since
      /\ loc'[t].after = loc[t].after
      /\ UNCHANGED <<tat_, blocked_until_, clock>>
  BY DEF TryInterval, AcqInterval, Load, Goto, TypeOK, Locals, atomics
<1>2. CASE interval_ns_ = 0
  <2>1. pc'[t] = "granted"
    BY <1>2 DEF TryInterval, AcqInterval, Load, Goto, TypeOK
  <2>2. Doing(pc[t]) \in {"try", "wait"}
    BY <1>1, Places DEF TryPc, AcquirePc
  <2>3. Abstract!Becomes(t, Doing(pc[t]), "through", 0)
    BY <1>1, <2>1, CallBecomes, Places
  <2> QED
    BY <1>1, <1>2, <2>2, <2>3 DEF Abstract!Pass, Abstract!Requests, PaceInv
<1>3. CASE interval_ns_ # 0
  <2>1. \/ pc[t] = "try_interval" /\ pc'[t] = "try_now"
        \/ pc[t] = "acq_interval" /\ pc'[t] = "acq_barrier"
    BY <1>3 DEF TryInterval, AcqInterval, Load, Goto, TypeOK
  <2>2. Doing(pc'[t]) = Doing(pc[t])
    BY <2>1, Places DEF TryPc, AcquirePc
  <2> QED
    BY <1>1, <2>1, <2>2, SilentStep
<1> QED
  BY <1>2, <1>3

\* What a thread knows when it goes for a slot it has compared with the word: the abstract
\* slot of its reading of the clock is the slot it reserves.
LEMMA SlotShown ==
  ASSUME TypeOK, LoadedInv, PaceInv, NEW t \in Threads, pc[t] \in {"try_cas", "acq_cas"}
  PROVE  /\ loc[t].now \in Nat /\ loc[t].since \in Nat /\ clock \in Nat
         /\ loc[t].now \in loc[t].since .. clock
         /\ loc[t].floor <= loc[t].now
         /\ compute_interval(InitialRate.rpm) # 0
         /\ loc[t].interval = compute_interval(InitialRate.rpm)
         /\ loc[t].burst = compute_burst(InitialRate)
         /\ loc[t].tat = tat_ => /\ Abstract!Slot(loc[t].now) = NewTat(t)
                                 /\ Abstract!Due(loc[t].now) = Due(t)
<1>1. ThreadPace(t) /\ loc[t] \in Locals /\ clock \in Nat
  BY DEF PaceInv, TypeOK
<1>2. loc[t].now \in Nat /\ loc[t].since \in Nat
  BY <1>1 DEF Locals
<1>3. loc[t].since <= loc[t].now /\ loc[t].now <= clock /\ loc[t].floor <= loc[t].now
  BY <1>1 DEF ThreadPace, Dated, Cleared
<1>4. /\ interval_ns_ = compute_interval(InitialRate.rpm) /\ interval_ns_ # 0
      /\ burst_ns_ = compute_burst(InitialRate)
  BY <1>1 DEF PaceInv, ThreadPace, HasInterval
<1>5. loc[t].interval = interval_ns_ /\ loc[t].burst = burst_ns_
  BY DEF LoadedInv, HasInterval, HasBurst
<1>6. ASSUME loc[t].tat = tat_
      PROVE  /\ Abstract!Slot(loc[t].now) = NewTat(t)
             /\ Abstract!Due(loc[t].now) = Due(t)
  <2>1. Abstract!Slot(loc[t].now) = NewTat(t)
    BY <1>4, <1>5, <1>6 DEF Abstract!Slot, NewTat, Later
  <2> QED
    BY <1>4, <1>5, <2>1 DEF Abstract!Due, Due
<1>7. loc[t].now \in loc[t].since .. clock
  BY <1>1, <1>2, <1>3
<1> QED
  BY <1>1, <1>2, <1>3, <1>4, <1>5, <1>6, <1>7

\* The exchange of try_acquire() admits the request at the reading of the clock it holds.
LEMMA AdmitShown ==
  ASSUME TypeOK, LoadedInv, PaceInv, NEW t \in Threads, Step(t), TryReserve(t)
  PROVE  Abstract!Admit(t)
<1>1. /\ pc[t] = "try_cas" /\ pc'[t] = "granted" /\ loc' = loc
      /\ UNCHANGED <<clock, blocked_until_>>
      /\ tat_' = NewTat(t) /\ loc[t].tat = tat_
      /\ NewTat(t) <= loc[t].now + loc[t].burst
  BY DEF TryReserve, Reserve, Goto, TypeOK
<1>2. Abstract!Becomes(t, "try", "through", 0)
  BY <1>1, CallBecomes, Places DEF TryPc
<1>3. /\ compute_interval(InitialRate.rpm) # 0
      /\ loc[t].now \in loc[t].since .. clock
      /\ loc[t].floor <= loc[t].now
      /\ Abstract!Slot(loc[t].now) = NewTat(t)
      /\ loc[t].burst = compute_burst(InitialRate)
  BY <1>1, SlotShown
<1>4. loc[t].now \in Abstract!Dates(t)
  <2>1. loc[t].now >= loc[t].floor
    BY <1>3 DEF TypeOK, Locals
  <2> QED
    BY <1>1, <1>3, <2>1, CallShows DEF Abstract!Dates
<1> QED
  BY <1>1, <1>2, <1>3, <1>4 DEF Abstract!Admit

\* A call turned away at the barrier, or because it finds the bucket ahead of the burst: the
\* word may have moved on since, which only takes the next slot further out.
LEMMA RefuseShown ==
  ASSUME TypeOK, LoadedInv, PaceInv, NEW t \in Threads, Step(t),
         TryRefuse(t) \/ TryBarrier(t)
  PROVE  UNCHANGED Abstract!vars \/ Abstract!Refuse(t)
<1>1. CASE TryRefuse(t)
  <2>1. /\ pc[t] = "try_cas" /\ pc'[t] = "returned" /\ loc' = loc
        /\ UNCHANGED <<clock, tat_, blocked_until_>>
        /\ NewTat(t) > loc[t].now + loc[t].burst
    BY <1>1 DEF TryRefuse, Goto, TypeOK, atomics
  <2>2. Abstract!Becomes(t, "try", "done", 0)
    BY <2>1, CallBecomes, Places DEF TryPc
  <2>3. /\ compute_interval(InitialRate.rpm) # 0
        /\ loc[t].now \in loc[t].since .. clock
        /\ loc[t].interval = compute_interval(InitialRate.rpm)
        /\ loc[t].burst = compute_burst(InitialRate)
    BY <2>1, SlotShown
  <2>4. Abstract!Slot(loc[t].now) > loc[t].now + compute_burst(InitialRate)
    <3>1. /\ loc[t].tat \in Nat /\ loc[t].now \in Nat /\ loc[t].interval \in Nat
          /\ loc[t].burst \in Nat /\ tat_ \in Nat
      BY DEF TypeOK, Locals
    <3>2. loc[t].tat <= tat_
      BY <2>1 DEF PaceInv, ThreadPace
    <3>3. Abstract!Slot(loc[t].now)
            = (IF tat_ >= loc[t].now THEN tat_ ELSE loc[t].now) + loc[t].interval
      BY <2>3 DEF Abstract!Slot
    <3> QED
      BY <2>1, <2>3, <3>1, <3>2, <3>3 DEF NewTat, Later
  <2>5. [u \in Threads |-> Shown(u)][t].since = loc[t].since
    BY <2>1, CallShows
  <2> QED
    BY <2>1, <2>2, <2>3, <2>4, <2>5 DEF Abstract!Refuse
<1>2. CASE TryBarrier(t)
  <2>1. /\ pc[t] = "try_barrier" /\ loc'[t].floor = loc[t].floor
        /\ loc'[t].since = loc[t].since /\ loc'[t].after = loc[t].after
        /\ pc'[t] = IF loc[t].now < blocked_until_ THEN "returned" ELSE "try_burst"
        /\ UNCHANGED <<clock, tat_, blocked_until_>>
    BY <1>2 DEF TryBarrier, Load, Goto, TypeOK, Locals, atomics
  <2>2. CASE loc[t].now < blocked_until_
    <3>1. pc'[t] = "returned"
      BY <2>1, <2>2
    <3>2. Abstract!Becomes(t, "try", "done", 0)
      BY <2>1, <3>1, CallBecomes, Places DEF TryPc
    <3>3. ThreadPace(t) /\ loc[t].since \in Nat /\ loc[t].now \in Nat /\ clock \in Nat
      BY DEF PaceInv, TypeOK, Locals
    <3>4. loc[t].now \in loc[t].since .. clock
      BY <2>1, <3>3 DEF ThreadPace, Dated
    <3>5. compute_interval(InitialRate.rpm) # 0
      BY <2>1, <3>3 DEF ThreadPace, HasInterval, PaceInv
    <3>6. [u \in Threads |-> Shown(u)][t].since = loc[t].since
      BY <2>1, CallShows
    <3> QED
      BY <2>1, <2>2, <3>2, <3>4, <3>5, <3>6 DEF Abstract!Refuse
  <2>3. CASE ~(loc[t].now < blocked_until_)
    <3>1. pc'[t] = "try_burst"
      BY <2>1, <2>3
    <3> QED
      BY <2>1, <3>1, SilentStep, Places DEF TryPc
  <2> QED
    BY <2>2, <2>3
<1> QED
  BY <1>1, <1>2

\* The exchange of acquire() books the slot behind the bucket's.
LEMMA ReserveShown ==
  ASSUME TypeOK, LoadedInv, PaceInv, NEW t \in Threads, Step(t), AcqReserve(t)
  PROVE  Abstract!Reserve(t)
<1>1. /\ pc[t] = "acq_cas" /\ loc'[t].until = Due(t)
      /\ loc'[t].floor = loc[t].floor /\ loc'[t].since = loc[t].since
      /\ loc'[t].after = loc[t].after
      /\ pc'[t] = IF Due(t) > loc[t].now THEN "acq_sleep_slot" ELSE "granted"
      /\ UNCHANGED <<clock, blocked_until_>>
      /\ tat_' = NewTat(t) /\ loc[t].tat = tat_
  BY DEF AcqReserve, Reserve, Goto, TypeOK, Locals
<1>2. /\ compute_interval(InitialRate.rpm) # 0
      /\ loc[t].now \in loc[t].since .. clock
      /\ loc[t].floor <= loc[t].now
      /\ Abstract!Slot(loc[t].now) = NewTat(t)
      /\ Abstract!Due(loc[t].now) = Due(t)
  BY <1>1, SlotShown
<1>3. loc[t].now \in Abstract!Dates(t)
  <2>1. loc[t].now >= loc[t].floor
    BY <1>2 DEF TypeOK, Locals
  <2> QED
    BY <1>1, <1>2, <2>1, CallShows DEF Abstract!Dates
<1>4. /\ Due(t) > loc[t].now => Abstract!Becomes(t, "wait", "asleep", Due(t))
      /\ ~(Due(t) > loc[t].now) => Abstract!Becomes(t, "wait", "through", 0)
  BY <1>1, CallBecomes, Places DEF AcquirePc
<1> QED
  BY <1>1, <1>2, <1>3, <1>4 DEF Abstract!Reserve

\* A call wakes when its slot is due.
LEMMA WakeShown ==
  ASSUME TypeOK, PaceInv, NEW t \in Threads, Step(t), AcqWakeSlot(t)
  PROVE  Abstract!Wake(t)
<1>1. /\ pc[t] = "acq_sleep_slot" /\ pc'[t] = "granted" /\ loc' = loc
      /\ UNCHANGED <<clock, tat_, blocked_until_>>
      /\ clock >= loc[t].until
  BY DEF AcqWakeSlot, Goto, TypeOK, atomics
<1>2. Abstract!Becomes(t, "asleep", "through", 0)
  BY <1>1, CallBecomes, Places
<1>3. [u \in Threads |-> Shown(u)][t].due = loc[t].until
  BY <1>1, CallShows
<1> QED
  BY <1>1, <1>2, <1>3 DEF Abstract!Wake

\* A notification moves the barrier to the later of what stands and what it asks for, also
\* when it finds nothing to do: the barrier it compared with can only have grown.
LEMMA RaiseShown ==
  ASSUME TypeOK, PaceInv, NEW t \in Threads, Step(t),
         NotifyDone(t) \/ NotifyRaise(t)
  PROVE  Abstract!Raise(t)
<1>1. /\ pc[t] = "notify_cas" /\ pc'[t] = "returned" /\ loc' = loc
      /\ UNCHANGED <<clock, tat_>>
  BY DEF NotifyDone, NotifyRaise, Goto, TypeOK, atomics
<1>2. Abstract!Becomes(t, "raise", "done", 0)
  BY <1>1, CallBecomes, Places DEF NotifyPc
<1>3. /\ loc[t].since \in Nat /\ loc[t].after \in Nat /\ clock \in Nat
      /\ loc[t].until \in Nat /\ loc[t].barrier \in Nat /\ blocked_until_ \in Nat
      /\ ThreadPace(t)
  BY DEF PaceInv, TypeOK, Locals
<1>4. loc[t].barrier <= blocked_until_
  BY <1>1, <1>3 DEF ThreadPace
<1>5. PICK at \in Nat : /\ loc[t].since <= at /\ at <= clock
                        /\ loc[t].until = at + loc[t].after
  BY <1>1, <1>3 DEF ThreadPace
<1>6. at \in loc[t].since .. clock
  BY <1>3, <1>5
<1>7. blocked_until_' = IF blocked_until_ >= loc[t].until THEN blocked_until_ ELSE loc[t].until
  <2>1. CASE NotifyDone(t)
    BY <1>3, <1>4, <2>1 DEF NotifyDone, atomics
  <2>2. CASE NotifyRaise(t)
    BY <1>3, <1>4, <2>2 DEF NotifyRaise
  <2> QED
    BY <2>1, <2>2
<1>8. /\ [u \in Threads |-> Shown(u)][t].since = loc[t].since
      /\ [u \in Threads |-> Shown(u)][t].after = loc[t].after
  BY <1>1, CallShows
<1> QED
  BY <1>1, <1>2, <1>5, <1>6, <1>7, <1>8 DEF Abstract!Raise

\* A call begins.
LEMMA AskShown ==
  ASSUME FixedRate, TypeOK, PaceInv, NEW t \in Threads, NEW op \in Ops,
         NEW args \in Rates \cup {InitialRate}, NEW seconds \in RetryAfters \cup {0},
         Call(t, op, args, seconds)
  PROVE  Abstract!Next
<1> DEFINE wait == seconds * Second
<1>1. /\ pc[t] = "idle" /\ pc'[t] = FirstStep(op)
      /\ FirstStep(op) \in {"try_interval", "acq_interval", "notify_now"}
      /\ loc'[t].floor = blocked_until_ /\ loc'[t].since = clock /\ loc'[t].after = wait
      /\ UNCHANGED <<clock, tat_, blocked_until_>>
  BY CallKeepsPace DEF atomics
<1>2. \A u \in Threads : u # t => Shown(u)' = Shown(u)
  <2> TAKE u \in Threads
  <2> HAVE u # t
  <2>1. pc'[u] = pc[u] /\ loc'[u] = loc[u]
    BY CallKeepsPace
  <2> QED
    BY <2>1, OthersShow
<1>3. /\ Doing(FirstStep(op)) \in {"try", "wait", "raise"}
      /\ Doing(FirstStep(op)) # "raise" => op # "notify_rate_limited"
  <2>1. /\ op = "notify_rate_limited" => FirstStep(op) = "notify_now"
        /\ Doing("notify_now") = "raise"
        /\ Doing("try_interval") = "try" /\ Doing("acq_interval") = "wait"
    BY Places DEF FirstStep, NotifyPc, TryPc, AcquirePc
  <2> QED
    BY <1>1, <2>1
<1>4. wait \in {s * Second : s \in RetryAfters} \cup {0}
  <2>1. CASE seconds \in RetryAfters
    BY <2>1
  <2>2. CASE seconds = 0
    <3>1. 0 * Second = 0
      BY TimeAssumption
    <3> QED
      BY <2>2, <3>1
  <2> QED
    BY <2>1, <2>2
<1>5. op # "notify_rate_limited" => wait = 0
  <2>1. op # "notify_rate_limited" => seconds = 0
    BY DEF Call
  <2>2. 0 * Second = 0
    BY TimeAssumption
  <2> QED
    BY <2>1, <2>2
<1> HIDE DEF wait
<1>6. Shown(t)' = [does |-> Doing(FirstStep(op)), since |-> clock, floor |-> blocked_until_,
                   after |-> wait, due |-> 0]
  BY <1>1 DEF Shown
<1>7. Shown(t) = Abstract!Idle
  BY <1>1 DEF Shown, Abstract!Idle
<1>8. Abstract!Ask(t, Doing(FirstStep(op)), wait)
  BY <1>1, <1>2, <1>3, <1>5, <1>6, <1>7, Shows DEF Abstract!Ask, Abstract!Requests
<1> QED
  BY <1>3, <1>4, <1>8 DEF Abstract!Next, Abstract!Requests

\* A call returns.
LEMMA LeaveShown ==
  ASSUME TypeOK, NEW t \in Threads, Step(t), Return(t)
  PROVE  Abstract!Leave(t)
<1>1. /\ pc[t] \in {"granted", "returned"} /\ pc'[t] = "idle"
      /\ UNCHANGED <<clock, tat_, blocked_until_>>
  BY DEF Return, Goto, TypeOK, atomics
<1>2. \A u \in Threads : u # t => Shown(u)' = Shown(u)
  BY OthersStay, OthersShow
<1>3. [u \in Threads |-> Shown(u)][t].does \in {"through", "done"}
  BY <1>1, CallShows, Places
<1>4. Shown(t)' = Abstract!Idle
  BY <1>1 DEF Shown, Abstract!Idle
<1>5. [u \in Threads |-> Shown(u)]' = [[u \in Threads |-> Shown(u)] EXCEPT ![t] = Abstract!Idle]
  BY <1>2, <1>4, Shows
<1> QED
  BY <1>1, <1>3, <1>5 DEF Abstract!Leave

\* Reading a word, the clock or the barrier, and failing an exchange, show nothing.
LEMMA LoadShown ==
  ASSUME TypeOK, NEW t \in Threads, Step(t),
         \/ TryNow(t) \/ TryBurst(t) \/ TryTat(t) \/ TryAgain(t)
         \/ AcqBarrier(t) \/ AcqNow(t) \/ AcqWakeBarrier(t) \/ AcqBurst(t) \/ AcqTat(t)
         \/ AcqNow2(t) \/ AcqAgain(t)
         \/ NotifyNow(t) \/ NotifyLoad(t) \/ NotifyAgain(t)
  PROVE  UNCHANGED Abstract!vars
<1> DEFINE kept == /\ loc'[t].floor = loc[t].floor /\ loc'[t].since = loc[t].since
                   /\ loc'[t].after = loc[t].after
                   /\ UNCHANGED <<tat_, blocked_until_>>
<1>a. ASSUME NEW from, NEW to, NEW value,
             NEW field \in {"interval", "burst", "now", "tat", "barrier", "until"}, Load(t, from, to, field, value)
      PROVE  kept
  BY <1>a DEF Load, TypeOK, Locals, atomics
<1>b. AcqWakeBarrier(t) => kept
  BY DEF AcqWakeBarrier, atomics
<1>1. kept
  BY <1>a, <1>b DEF TryNow, TryBurst, TryTat, TryAgain, AcqBarrier, AcqNow, AcqBurst, AcqTat,
      AcqNow2, AcqAgain, NotifyNow, NotifyLoad, NotifyAgain
<1>2. CASE TryNow(t) \/ TryBurst(t) \/ TryTat(t) \/ TryAgain(t)
  <2>1. pc[t] \in TryPc /\ pc'[t] \in TryPc
    BY <1>2 DEF TryNow, TryBurst, TryTat, TryAgain, Load, Goto, TypeOK, TryPc
  <2> QED
    BY <1>1, <2>1, SilentStep, Places DEF TryPc
<1>3. CASE \/ AcqBarrier(t) \/ AcqNow(t) \/ AcqWakeBarrier(t) \/ AcqBurst(t) \/ AcqTat(t)
           \/ AcqNow2(t) \/ AcqAgain(t)
  <2>1. /\ pc[t] \in AcquirePc /\ pc[t] # "acq_sleep_slot"
        /\ pc'[t] \in AcquirePc /\ pc'[t] # "acq_sleep_slot"
    BY <1>3 DEF AcqBarrier, AcqNow, AcqWakeBarrier, AcqBurst, AcqTat, AcqNow2, AcqAgain, Load,
        Goto, TypeOK, AcquirePc
  <2> QED
    BY <1>1, <2>1, SilentStep, Places DEF AcquirePc
<1>4. CASE NotifyNow(t) \/ NotifyLoad(t) \/ NotifyAgain(t)
  <2>1. pc[t] \in NotifyPc /\ pc'[t] \in NotifyPc
    BY <1>4 DEF NotifyNow, NotifyLoad, NotifyAgain, Load, Goto, TypeOK, NotifyPc
  <2> QED
    BY <1>1, <2>1, SilentStep, Places DEF NotifyPc
<1> QED
  BY <1>2, <1>3, <1>4

\* Every step of the limiter is a step of the Pacer or a stutter.
LEMMA StepPaced ==
  ASSUME FixedRate, TypeOK, LoadedInv, PaceInv, [Next]_vars
  PROVE  [Abstract!Next]_(Abstract!vars)
<1>1. CASE UNCHANGED vars
  <2>1. \A u \in Threads : Shown(u)' = Shown(u)
    BY <1>1 DEF vars, Shown
  <2> QED
    BY <1>1, <2>1, AbstractStutter DEF vars, atomics
<1>2. CASE Tick
  <2>1. \A u \in Threads : Shown(u)' = Shown(u)
    BY <1>2, OthersShow DEF Tick
  <2>2. Abstract!Elapse
    BY <1>2, <2>1 DEF Tick, atomics, Abstract!Elapse
  <2> QED
    BY <2>2 DEF Abstract!Next
<1>3. ASSUME NEW t \in Threads, NEW op \in Ops, NEW args \in Rates \cup {InitialRate},
             NEW seconds \in RetryAfters \cup {0}, Call(t, op, args, seconds)
      PROVE  Abstract!Next
  BY <1>3, AskShown
<1>4. ASSUME NEW t \in Threads, Step(t)
      PROVE  [Abstract!Next]_(Abstract!vars)
  <2>1. CASE TryInterval(t) \/ AcqInterval(t)
    BY <1>4, <2>1, PassShown DEF Abstract!Next
  <2>2. CASE TryReserve(t)
    BY <1>4, <2>2, AdmitShown DEF Abstract!Next
  <2>3. CASE TryRefuse(t) \/ TryBarrier(t)
    BY <1>4, <2>3, RefuseShown DEF Abstract!Next
  <2>4. CASE AcqReserve(t)
    BY <1>4, <2>4, ReserveShown DEF Abstract!Next
  <2>5. CASE AcqWakeSlot(t)
    BY <1>4, <2>5, WakeShown DEF Abstract!Next
  <2>6. CASE NotifyDone(t) \/ NotifyRaise(t)
    BY <1>4, <2>6, RaiseShown DEF Abstract!Next
  <2>7. CASE Return(t)
    BY <1>4, <2>7, LeaveShown DEF Abstract!Next
  <2>8. CASE \/ TryNow(t) \/ TryBurst(t) \/ TryTat(t) \/ TryAgain(t)
             \/ AcqBarrier(t) \/ AcqNow(t) \/ AcqWakeBarrier(t) \/ AcqBurst(t) \/ AcqTat(t)
             \/ AcqNow2(t) \/ AcqAgain(t)
             \/ NotifyNow(t) \/ NotifyLoad(t) \/ NotifyAgain(t)
    BY <1>4, <2>8, LoadShown
  <2>9. ~(SetRate(t) \/ SetInterval(t) \/ SetBurst(t) \/ SetTat(t))
    BY DEF SetRate, SetInterval, SetBurst, SetTat, Goto, LoadedInv, SetPc
  <2> QED
    BY <1>4, <2>1, <2>2, <2>3, <2>4, <2>5, <2>6, <2>7, <2>8, <2>9 DEF Step
<1> QED
  BY <1>1, <1>2, <1>3, <1>4 DEF Next

\* The limiter as constructed.
LEMMA PaceStarts ==
  ASSUME Init
  PROVE  PaceInv /\ Abstract!Init
<1>1. /\ interval_ns_ = compute_interval(InitialRate.rpm)
      /\ burst_ns_ = compute_burst(InitialRate)
      /\ tat_ = 0 /\ blocked_until_ = 0 /\ clock = 0
      /\ \A t \in Threads : pc[t] = "idle" /\ loc[t].floor = 0 /\ loc[t].since = 0
  BY DEF Init, NoLocals
<1>2. \A t \in Threads : ThreadPace(t)
  <2> TAKE t \in Threads
  <2>1. pc[t] = "idle" /\ loc[t].floor <= blocked_until_ /\ loc[t].since <= clock
    BY <1>1
  <2> QED
    BY <2>1 DEF ThreadPace, HasInterval, Dated, Cleared
<1>3. PaceInv
  BY <1>1, <1>2 DEF PaceInv
<1>4. \A t \in Threads : Shown(t) = Abstract!Idle
  BY <1>1 DEF Shown, Abstract!Idle
<1> QED
  BY <1>1, <1>3, <1>4 DEF Abstract!Init

\* While nobody changes the rate, and whatever the threads hold stale, each call is one step
\* of a bucket and a barrier: it is admitted, refused or booked from the state they have at
\* that step, at a time within the call and past the barrier the call began under, and racing
\* notifications leave the latest barrier any of them asks for.
THEOREM PacerImplemented ==
  ASSUME FixedRate
  PROVE  Spec => ImplementsPacer
<1>1. Init => LoadedInv /\ PaceInv /\ Abstract!Init
  BY BudgetInit, PaceStarts
<1>2. TypeOK /\ LoadedInv /\ PaceInv /\ [Next]_vars => (LoadedInv /\ PaceInv)'
  BY LoadedStep, PaceStep
<1>3. TypeOK /\ LoadedInv /\ PaceInv /\ [Next]_vars => [Abstract!Next]_(Abstract!vars)
  BY StepPaced
<1> QED
  BY <1>1, <1>2, <1>3, TypeCorrect, PTL DEF Spec, ImplementsPacer, Abstract!Spec
=============================================================================
