------------------------ MODULE RequestContextProofs ------------------------
(***************************************************************************)
(* Theorems about RequestContext, for any number of calls, blocking or     *)
(* not, any retry policy and any limiter.  First: a call that got a 429 is *)
(* not sent again while the second it was told to wait lasts.              *)
(***************************************************************************)
EXTENDS RequestContext, Recursion, FiniteSetTheorems, TLAPS

\* What the argument needs of the types: nothing of the sleeps and the attempts.
Types ==
  /\ blocked \in Nat
  /\ pc \in [Requests -> Pc]
  /\ cooling \in [Requests -> Nat]

\* The barrier outlasts what is left of the second after each call's last 429.
BarrierOutlasts == \A r \in Requests : cooling[r] <= blocked

\* A call on its way out has no 429 of its own to wait for.
Cooled == \A r \in Requests : pc[r] \in {"reserve", "slot", "send"} => cooling[r] = 0

CoolingInv == Types /\ BarrierOutlasts /\ Cooled

\* The barrier and the cooling of a call stay; the call moves without going out.
LEMMA StaysIn ==
  ASSUME CoolingInv, NEW r \in Requests, NEW to \in Pc \ {"reserve", "slot", "send"},
         pc' = [pc EXCEPT ![r] = to],
         UNCHANGED <<blocked, cooling>>
  PROVE  CoolingInv'
BY DEF CoolingInv, Types, BarrierOutlasts, Cooled

\* A call that is out already, or has nothing to wait for, may move further out.
LEMMA MovesOut ==
  ASSUME CoolingInv, NEW r \in Requests, NEW to \in Pc,
         cooling[r] = 0,
         pc' = [pc EXCEPT ![r] = to],
         UNCHANGED <<blocked, cooling>>
  PROVE  CoolingInv'
BY DEF CoolingInv, Types, BarrierOutlasts, Cooled

\* Every step of a call keeps the invariant.
LEMMA StepKeepsCooling ==
  ASSUME CoolingInv, Interval # 0, NEW r \in Requests, Begin(r) \/ Step(r)
  PROVE  CoolingInv'
<1> USE LimiterAssumption
<1>1. CASE Begin(r)
  BY <1>1, StaysIn DEF Begin, Goto, Acquiring, Pc, limiter
<1>2. CASE Acquire(r)
  <2>1. CASE Interval # 0 /\ blocked > 0 /\ Goto(r, "acquire", "barrier")
    BY <1>2, <2>1, StaysIn DEF Acquire, Goto, Pc, limiter
  <2>2. CASE Interval # 0 /\ blocked = 0 /\ Goto(r, "acquire", "reserve")
    <3>1. cooling[r] = 0
      BY <2>2 DEF CoolingInv, Types, BarrierOutlasts
    <3>2. QED
      BY <1>2, <2>2, <3>1, MovesOut DEF Acquire, Goto, Pc, limiter
  <2>3. QED
    BY <1>2, <2>1, <2>2 DEF Acquire
<1>3. CASE BarrierOver(r)
  BY <1>3, StaysIn DEF BarrierOver, Slept, Goto, Pc, limiter
<1>4. CASE Reserve(r)
  <2>1. cooling[r] = 0
    BY <1>4 DEF Reserve, Goto, CoolingInv, Cooled
  <2>2. QED
    BY <1>4, <2>1, MovesOut DEF Reserve, Goto, Pc
<1>5. CASE SlotDue(r)
  <2>1. cooling[r] = 0
    BY <1>5 DEF SlotDue, Slept, Goto, CoolingInv, Cooled
  <2>2. QED
    BY <1>5, <2>1, MovesOut DEF SlotDue, Slept, Goto, Pc, limiter
<1>6. CASE Try(r)
  <2>1. CASE blocked = 0 /\ Goto(r, "try", "send")
    <3>1. cooling[r] = 0
      BY <2>1 DEF CoolingInv, Types, BarrierOutlasts
    <3>2. QED
      BY <1>6, <2>1, <3>1, MovesOut DEF Try, Goto, Pc
  <2>2. CASE Goto(r, "try", "wait")
    BY <1>6, <2>2, StaysIn DEF Try, Goto, Pc
  <2>3. QED
    BY <1>6, <2>1, <2>2 DEF Try
<1>7. CASE Wait(r)
  BY <1>7, StaysIn DEF Wait, Goto, Pc, limiter
<1>8. CASE PollAgain(r)
  BY <1>8, StaysIn DEF PollAgain, Slept, Goto, Pc, limiter
<1>9. CASE Send(r)
  BY <1>9, StaysIn DEF Send, Goto, Pc, limiter
<1>10. CASE Answer(r)
  BY <1>10, StaysIn DEF Answer, Goto, Pc, limiter
<1>11. CASE Handle(r)
  BY <1>11 DEF Handle, Goto, Pc, Later, CoolingInv, Types, BarrierOutlasts, Cooled
<1>12. CASE Retry(r)
  BY <1>12, StaysIn DEF Retry, Goto, Pc, limiter
<1>13. CASE GiveUp(r)
  BY <1>13, StaysIn DEF GiveUp, Goto, Pc, limiter
<1>14. CASE BackedOff(r)
  BY <1>14, StaysIn DEF BackedOff, Goto, Acquiring, Pc, limiter
<1>15. QED
  BY <1>1, <1>2, <1>3, <1>4, <1>5, <1>6, <1>7, <1>8, <1>9, <1>10, <1>11, <1>12, <1>13,
     <1>14 DEF Step

\* A tick shortens the barrier and the second alike.
LEMMA TickKeepsCooling ==
  ASSUME CoolingInv, Tick
  PROVE  CoolingInv'
BY DEF Tick, Monus, CoolingInv, Types, BarrierOutlasts, Cooled

\* The retry of a call that got a 429 goes out no sooner than a second after it: the barrier
\* that request_context.cpp:171 raises stands at least as long, nobody lowers it, and neither
\* acquire() nor try_acquire() lets the call past it.
THEOREM RetryWaits == Spec => []RetryWaitsOutBarrier
<1>1. CASE Interval # 0
  <2>1. Init => CoolingInv
    BY DEF Init, CoolingInv, Types, BarrierOutlasts, Cooled, Pc
  <2>2. CoolingInv /\ [Next]_vars => CoolingInv'
    <3> SUFFICES ASSUME CoolingInv, [Next]_vars
                 PROVE  CoolingInv'
      OBVIOUS
    <3>1. ASSUME NEW r \in Requests, Begin(r) \/ Step(r)
          PROVE  CoolingInv'
      BY <1>1, <3>1, StepKeepsCooling
    <3>2. CASE Tick
      BY <3>2, TickKeepsCooling
    <3>3. CASE Rest \/ UNCHANGED vars
      BY <3>3 DEF Rest, vars, limiter, CoolingInv, Types, BarrierOutlasts, Cooled
    <3>4. QED
      BY <3>1, <3>2, <3>3 DEF Next
  <2>3. CoolingInv => RetryWaitsOutBarrier
    BY DEF CoolingInv, Cooled, RetryWaitsOutBarrier
  <2>4. QED
    BY <2>1, <2>2, <2>3, PTL DEF Spec
<1>2. CASE Interval = 0
  <2>1. RetryWaitsOutBarrier
    BY <1>2 DEF RetryWaitsOutBarrier
  <2>2. QED
    BY <2>1, PTL
<1>3. QED
  BY <1>1, <1>2

-----------------------------------------------------------------------------
(***************************************************************************)
(* Attempts.                                                               *)
(***************************************************************************)

\* A call that backs off has an attempt left: MayRetry tests what BackedOff uses up.
AttemptInv ==
  /\ pc \in [Requests -> Pc] /\ attempt \in [Requests -> Nat]
  /\ status \in [Requests -> Status \cup {"none"}]
  /\ GivesUpInTime
  /\ \A r \in Requests : pc[r] = "backoff" => attempt[r] < MaxAttempts

\* The call goes on with the same attempt, or is in its first.
LEMMA AttemptStays ==
  ASSUME AttemptInv, NEW r \in Requests, NEW to \in Pc \ {"backoff", "thrown"},
         pc' = [pc EXCEPT ![r] = to], UNCHANGED attempt, pc[r] # "thrown",
         status' \in [Requests -> Status \cup {"none"}],
         \A q \in Requests : q # r => status'[q] = status[q]
  PROVE  AttemptInv'
  BY DEF AttemptInv, GivesUpInTime

LEMMA AttemptStep ==
  ASSUME AttemptInv, NEW r \in Requests, Begin(r) \/ Step(r)
  PROVE  AttemptInv'
  <1> USE PolicyAssumption
  <1>0. Later(1, MaxAttempts) \in Nat /\ 1 <= Later(1, MaxAttempts) /\ MaxAttempts <= Later(1, MaxAttempts)
    BY DEF Later
  <1>1. CASE Begin(r)
    <2>1. /\ pc' = [pc EXCEPT ![r] = Acquiring(r)] /\ attempt' = [attempt EXCEPT ![r] = 1]
          /\ Acquiring(r) \in Pc \ {"backoff", "thrown"} /\ UNCHANGED status
      BY <1>1 DEF Begin, Goto, Acquiring, Pc
    <2> QED
      BY <1>0, <2>1 DEF AttemptInv, GivesUpInTime
  <1>2. CASE Acquire(r)
    BY <1>2, AttemptStays DEF Acquire, Goto, Pc, limiter, AttemptInv
  <1>3. CASE BarrierOver(r)
    BY <1>3, AttemptStays DEF BarrierOver, Slept, Goto, Pc, AttemptInv
  <1>4. CASE Reserve(r)
    <2>1. PICK to \in {"slot", "send"} : Goto(r, "reserve", to) /\ UNCHANGED <<attempt, status>>
      BY <1>4 DEF Reserve
    <2> QED
      BY <2>1, AttemptStays DEF Goto, Pc, AttemptInv
  <1>5. CASE SlotDue(r)
    BY <1>5, AttemptStays DEF SlotDue, Slept, Goto, Pc, AttemptInv
  <1>6. CASE Try(r)
    <2>1. PICK to \in {"send", "wait"} : Goto(r, "try", to) /\ UNCHANGED <<attempt, status>>
      BY <1>6 DEF Try
    <2> QED
      BY <2>1, AttemptStays DEF Goto, Pc, AttemptInv
  <1>7. CASE Wait(r)
    BY <1>7, AttemptStays DEF Wait, Goto, Pc, AttemptInv
  <1>8. CASE PollAgain(r)
    BY <1>8, AttemptStays DEF PollAgain, Slept, Goto, Pc, AttemptInv
  <1>9. CASE Send(r)
    BY <1>9, AttemptStays DEF Send, Goto, Pc, AttemptInv
  <1>10. CASE Answer(r)
    <2>1. PICK s \in Status : status' = [status EXCEPT ![r] = s]
      BY <1>10 DEF Answer
    <2>2. status' \in [Requests -> Status \cup {"none"}] /\ \A q \in Requests : q # r => status'[q] = status[q]
      BY <2>1 DEF AttemptInv
    <2> QED
      BY <1>10, <2>2, AttemptStays DEF Answer, Goto, Pc
  <1>11. CASE Handle(r)
    <2>1. PICK to \in {"returned", "decide"} : Goto(r, "handle", to) /\ UNCHANGED <<attempt, status>>
      BY <1>11 DEF Handle
    <2> QED
      BY <2>1, AttemptStays DEF Goto, Pc, AttemptInv
  <1>12. CASE Retry(r)
    BY <1>12 DEF Retry, Goto, MayRetry, Pc, AttemptInv, GivesUpInTime
  <1>13. CASE GiveUp(r)
    BY <1>13 DEF GiveUp, Goto, MayRetry, Pc, AttemptInv, GivesUpInTime
  <1>14. CASE BackedOff(r)
    <2>1. /\ pc[r] = "backoff" /\ pc' = [pc EXCEPT ![r] = Acquiring(r)]
          /\ attempt' = [attempt EXCEPT ![r] = @ + 1]
          /\ Acquiring(r) \in Pc \ {"backoff", "thrown"} /\ UNCHANGED status
      BY <1>14 DEF BackedOff, Goto, Acquiring, Pc
    <2>2. attempt[r] + 1 <= MaxAttempts
      BY <2>1 DEF AttemptInv
    <2> QED
      BY <1>0, <2>1, <2>2 DEF AttemptInv, GivesUpInTime
  <1> QED
    BY <1>1, <1>2, <1>3, <1>4, <1>5, <1>6, <1>7, <1>8, <1>9, <1>10, <1>11, <1>12, <1>13,
       <1>14 DEF Step

\* No call makes more attempts than its policy allows, and a failure that could be retried
\* reaches the caller only when they are used up, for every policy: one of 0 attempts too.
THEOREM GivesUp == Spec => []GivesUpInTime
  <1>1. Init => AttemptInv
    BY PolicyAssumption DEF Init, AttemptInv, GivesUpInTime, Later, Pc
  <1>2. AttemptInv /\ [Next]_vars => AttemptInv'
    <2> SUFFICES ASSUME AttemptInv, [Next]_vars PROVE AttemptInv'
      OBVIOUS
    <2>1. ASSUME UNCHANGED <<pc, attempt, status>> PROVE AttemptInv'
      BY <2>1 DEF AttemptInv, GivesUpInTime
    <2>2. CASE Tick \/ Rest \/ UNCHANGED vars
      BY <2>1, <2>2 DEF Tick, Rest, vars
    <2> QED
      BY <2>2, AttemptStep DEF Next
  <1>3. AttemptInv => GivesUpInTime
    BY DEF AttemptInv
  <1> QED
    BY <1>1, <1>2, <1>3, PTL DEF Spec

-----------------------------------------------------------------------------
(***************************************************************************)
(* The debt.                                                               *)
(***************************************************************************)

\* The calls that will still be asleep for their slot in x ticks.
Asleep(x) == {r \in Requests : pc[r] = "slot" /\ timer[r] > x}

\* At every moment to come, the debt that will be left then is slept for by calls that will
\* be asleep then.  At x = 0 this is more than DebtIsSleptFor, and a tick turns x + 1 into x.
DebtInv ==
  /\ ahead \in Nat
  /\ pc \in [Requests -> Pc]
  /\ DOMAIN timer = Requests
  /\ \A r \in Requests : pc[r] = "slot" => timer[r] \in Nat
  /\ \A x \in Nat : ahead <= Burst + x + Interval * Cardinality(Asleep(x))

LEMMA AsleepFinite ==
  ASSUME NEW x
  PROVE  IsFiniteSet(Asleep(x)) /\ Cardinality(Asleep(x)) \in Nat
  <1>1. IsFiniteSet(Asleep(x))
    BY RequestAssumption, FS_Subset DEF Asleep
  <1> QED
    BY <1>1, FS_CardinalityType

LEMMA TimesOneMore ==
  ASSUME NEW a \in Nat, NEW n \in Nat
  PROVE  a * (n + 1) = a * n + a /\ a * n \in Nat
  OBVIOUS

LEMMA TimesMonotone ==
  ASSUME NEW a \in Nat, NEW n \in Nat, NEW k \in Nat, n <= k
  PROVE  a * n <= a * k
  OBVIOUS

\* A step that is not about slots: the word and the sleepers stay.
LEMMA DebtStays ==
  ASSUME DebtInv, NEW r \in Requests, NEW to \in Pc \ {"slot"},
         pc' = [pc EXCEPT ![r] = to], UNCHANGED ahead, DOMAIN timer' = Requests,
         pc[r] = "slot" => timer[r] = 0,
         \A q \in Requests : q # r => timer'[q] = timer[q]
  PROVE  DebtInv'
  <1>1. \A x \in Nat : Asleep(x)' = Asleep(x)
    BY DEF Asleep, DebtInv
  <1> QED
    BY <1>1 DEF DebtInv

LEMMA SlotTaken ==
  ASSUME DebtInv, NEW r \in Requests, pc[r] # "slot", ahead' = ahead + Interval, NEW to \in Pc,
         pc' = [pc EXCEPT ![r] = to], DOMAIN timer' = Requests,
         \A q \in Requests : q # r => timer'[q] = timer[q],
         ahead' > Burst => to = "slot" /\ timer'[r] = ahead' - Burst,
         to = "slot" => ahead' > Burst
  PROVE  DebtInv'
  <1> USE LimiterAssumption
  <1>1. ahead' \in Nat /\ pc' \in [Requests -> Pc]
    BY DEF DebtInv
  <1>2. \A q \in Requests : pc'[q] = "slot" => timer'[q] \in Nat
    BY <1>1 DEF DebtInv
  <1>3. ASSUME NEW x \in Nat PROVE ahead' <= Burst + x + Interval * Cardinality(Asleep(x))'
    <2> DEFINE n == Cardinality(Asleep(x))
               k == Cardinality(Asleep(x)')
    <2>1. n \in Nat /\ k \in Nat /\ IsFiniteSet(Asleep(x)) /\ IsFiniteSet(Asleep(x)')
      <3>1. Asleep(x)' \subseteq Requests
        BY DEF Asleep
      <3> QED
        BY <3>1, RequestAssumption, FS_Subset, FS_CardinalityType, AsleepFinite
    <2>2. Interval * k \in Nat
      BY <2>1, TimesOneMore
    <2>3. CASE ahead' <= Burst + x
      BY <1>1, <2>2, <2>3
    <2>4. CASE ahead' > Burst + x
      <3>1. to = "slot" /\ timer'[r] > x
        BY <1>1, <2>4
      <3>2. Asleep(x)' = Asleep(x) \cup {r} /\ r \notin Asleep(x)
        BY <3>1 DEF Asleep, DebtInv
      <3>3. k = n + 1
        BY <2>1, <3>2, FS_AddElement
      <3>4. Interval * k = Interval * n + Interval
        BY <2>1, <3>3, TimesOneMore
      <3>5. ahead <= Burst + x + Interval * n
        BY DEF DebtInv
      <3>6. Interval * n \in Nat /\ ahead \in Nat
        BY <2>1, TimesOneMore DEF DebtInv
      <3> HIDE DEF n, k
      <3>7. ahead + Interval <= Burst + x + Interval * k
        BY <3>4, <3>5, <3>6
      <3> QED
        BY <3>7 DEF k
    <2> QED
      BY <1>1, <2>3, <2>4
  <1> QED
    BY <1>1, <1>2, <1>3 DEF DebtInv

LEMMA DebtStep ==
  ASSUME DebtInv, NEW r \in Requests, Begin(r) \/ Step(r)
  PROVE  DebtInv'
  <1> USE LimiterAssumption DEF limiter
  <1>1. CASE Begin(r)
    BY <1>1, DebtStays DEF Begin, Goto, Acquiring, Pc, DebtInv
  <1>2. CASE Acquire(r)
    BY <1>2, DebtStays DEF Acquire, Goto, Sleep, Pc, DebtInv
  <1>3. CASE BarrierOver(r)
    BY <1>3, DebtStays DEF BarrierOver, Slept, Goto, Pc, DebtInv
  <1>4. CASE Reserve(r)
    <2> DEFINE to == IF ahead' > Burst THEN "slot" ELSE "send"
    <2>1. /\ pc[r] = "reserve" /\ ahead' = ahead + Interval /\ pc' = [pc EXCEPT ![r] = to]
          /\ timer' = [timer EXCEPT ![r] = Monus(ahead', Burst)]
      BY <1>4 DEF Reserve, Goto, Sleep
    <2>2. to \in Pc /\ (ahead' > Burst => to = "slot") /\ (to = "slot" => ahead' > Burst)
      BY DEF Pc
    <2>3. /\ DOMAIN timer' = Requests /\ \A q \in Requests : q # r => timer'[q] = timer[q]
          /\ ahead' > Burst => timer'[r] = ahead' - Burst
      BY <2>1 DEF DebtInv, Monus
    <2> HIDE DEF to
    <2> QED
      BY <2>1, <2>2, <2>3, SlotTaken
  <1>5. CASE SlotDue(r)
    BY <1>5, DebtStays DEF SlotDue, Slept, Goto, Pc, DebtInv
  <1>6. CASE Try(r)
    <2>1. CASE UNCHANGED ahead
      <3>1. PICK to \in {"send", "wait"} : Goto(r, "try", to) /\ UNCHANGED timer
        BY <1>6 DEF Try
      <3> QED
        BY <2>1, <3>1, DebtStays DEF Goto, Pc, DebtInv
    <2>2. CASE ahead + Interval <= Burst /\ Goto(r, "try", "send") /\ ahead' = ahead + Interval
      <3>1. ~(ahead' > Burst)
        BY <2>2 DEF DebtInv
      <3>2. UNCHANGED timer /\ DOMAIN timer = Requests
        BY <1>6 DEF Try, DebtInv
      <3> QED
        BY <2>2, <3>1, <3>2, SlotTaken DEF Goto, Pc
    <2> QED
      BY <1>6, <2>1, <2>2 DEF Try
  <1>7. CASE Wait(r)
    BY <1>7, DebtStays DEF Wait, Goto, Sleep, Pc, DebtInv
  <1>8. CASE PollAgain(r)
    BY <1>8, DebtStays DEF PollAgain, Slept, Goto, Pc, DebtInv
  <1>9. CASE Send(r)
    BY <1>9, DebtStays DEF Send, Goto, Pc, DebtInv
  <1>10. CASE Answer(r)
    BY <1>10, DebtStays DEF Answer, Goto, Pc, DebtInv
  <1>11. CASE Handle(r)
    <2>1. PICK to \in {"returned", "decide"} : Goto(r, "handle", to) /\ UNCHANGED <<ahead, timer>>
      BY <1>11 DEF Handle
    <2> QED
      BY <2>1, DebtStays DEF Goto, Pc, DebtInv
  <1>12. CASE Retry(r)
    BY <1>12, DebtStays DEF Retry, Goto, Sleep, Pc, DebtInv
  <1>13. CASE GiveUp(r)
    BY <1>13, DebtStays DEF GiveUp, Goto, Pc, DebtInv
  <1>14. CASE BackedOff(r)
    BY <1>14, DebtStays DEF BackedOff, Goto, Acquiring, Pc, DebtInv
  <1> QED
    BY <1>1, <1>2, <1>3, <1>4, <1>5, <1>6, <1>7, <1>8, <1>9, <1>10, <1>11, <1>12, <1>13,
       <1>14 DEF Step

LEMMA DebtTick ==
  ASSUME DebtInv, Tick
  PROVE  DebtInv'
  <1> USE LimiterAssumption
  <1>1. /\ ahead' = Monus(ahead, 1) /\ UNCHANGED pc
        /\ timer' = [r \in Requests |-> Monus(timer[r], 1)]
    BY DEF Tick
  <1>2. ahead' \in Nat /\ DOMAIN timer' = Requests
    BY <1>1 DEF DebtInv, Monus
  <1>3. \A r \in Requests : pc'[r] = "slot" => timer'[r] \in Nat
    BY <1>1 DEF DebtInv, Monus
  <1>4. ASSUME NEW x \in Nat PROVE ahead' <= Burst + x + Interval * Cardinality(Asleep(x))'
    <2>1. Asleep(x)' = Asleep(x + 1)
      BY <1>1 DEF Asleep, DebtInv, Monus
    <2> DEFINE n == Cardinality(Asleep(x + 1))
    <2>2. n \in Nat /\ Interval * n \in Nat
      BY AsleepFinite, TimesOneMore
    <2>3. ahead <= Burst + (x + 1) + Interval * n
      BY DEF DebtInv
    <2>4. Cardinality(Asleep(x))' = n
      BY <2>1
    <2> HIDE DEF n
    <2>5. ahead' <= Burst + x + Interval * n
      BY <1>1, <2>2, <2>3 DEF Monus, DebtInv
    <2> QED
      BY <2>4, <2>5
  <1> QED
    BY <1>1, <1>2, <1>3, <1>4 DEF DebtInv

\* What tat_ lies ahead of the burst belongs to calls still asleep for their slot: however
\* many calls, retries and polling coroutines reserve, no more than the burst is out at once.
THEOREM DebtSleptFor == Spec => []DebtIsSleptFor
  <1> USE LimiterAssumption
  <1>1. Init => DebtInv
    <2> SUFFICES ASSUME Init PROVE DebtInv
      OBVIOUS
    <2>1. ASSUME NEW x \in Nat PROVE 0 <= Burst + x + Interval * Cardinality(Asleep(x))
      <3>1. Cardinality(Asleep(x)) \in Nat /\ Interval * Cardinality(Asleep(x)) \in Nat
        BY AsleepFinite, TimesOneMore
      <3> QED
        BY <3>1
    <2> QED
      BY <2>1 DEF Init, DebtInv, Pc
  <1>2. DebtInv /\ [Next]_vars => DebtInv'
    <2> SUFFICES ASSUME DebtInv, [Next]_vars PROVE DebtInv'
      OBVIOUS
    <2>1. CASE Rest \/ UNCHANGED vars
      BY <2>1 DEF Rest, vars, limiter, DebtInv, Asleep
    <2> QED
      BY <2>1, DebtStep, DebtTick DEF Next
  <1>3. DebtInv => DebtIsSleptFor
    <2> SUFFICES ASSUME DebtInv PROVE DebtIsSleptFor
      OBVIOUS
    <2> DEFINE Sleepers == {r \in Requests : pc[r] = "slot"}
    <2>1. IsFiniteSet(Sleepers) /\ Asleep(0) \subseteq Sleepers
      BY RequestAssumption, FS_Subset DEF Asleep
    <2>2. /\ Cardinality(Asleep(0)) \in Nat /\ Cardinality(Sleepers) \in Nat
          /\ Cardinality(Asleep(0)) <= Cardinality(Sleepers)
      BY <2>1, FS_Subset, FS_CardinalityType
    <2>3. /\ Interval * Cardinality(Asleep(0)) <= Interval * Cardinality(Sleepers)
          /\ Interval * Cardinality(Asleep(0)) \in Nat /\ Interval * Cardinality(Sleepers) \in Nat
      BY <2>2, TimesMonotone, TimesOneMore
    <2>4. ahead <= Burst + 0 + Interval * Cardinality(Asleep(0)) /\ ahead \in Nat
      BY DEF DebtInv
    <2>5. ahead <= Burst + Interval * Cardinality(Sleepers)
      BY <2>3, <2>4
    <2> QED
      BY <2>5 DEF DebtIsSleptFor
  <1> QED
    BY <1>1, <1>2, <1>3, PTL DEF Spec

-----------------------------------------------------------------------------
(***************************************************************************)
(* Types.                                                                  *)
(***************************************************************************)

\* The doubling of the backoff is a function, and the cap keeps it a number of ticks.
LEMMA BackoffType ==
  ASSUME NEW n \in Nat
  PROVE  next_backoff_ms(n) \in Nat
  <1> USE PolicyAssumption
  <1>1. \A k \in Nat : Cap(k) \in Nat
    BY DEF Cap
  <1> DEFINE step == [p \in Nat \X Nat |-> IF p[1] <= 1 THEN InitialBackoff ELSE Cap(2 * p[2])]
             Equation(b) == b = [i \in Nat |-> IF i <= 1 THEN InitialBackoff ELSE Cap(2 * b[i - 1])]
             backoff == CHOOSE b : Equation(b)
  <1>2. step \in [Nat \X Nat -> Nat]
    BY <1>1
  <1>3. PICK f \in [Nat -> Nat] : Recurs(f, Nat, InitialBackoff, step)
    BY <1>2, RecursionDefines
  <1>4. Equation(f)
    <2>1. ASSUME NEW i \in Nat PROVE f[i] = IF i <= 1 THEN InitialBackoff ELSE Cap(2 * f[i - 1])
      <3>1. CASE i = 0
        BY <1>3, <3>1 DEF Recurs
      <3>2. CASE i # 0
        <4>1. i - 1 \in Nat /\ (i - 1) + 1 = i
          BY <3>2
        <4>2. f[i] = step[<<i, f[i - 1]>>]
          BY <1>3, <4>1 DEF Recurs
        <4> HIDE DEF Cap
        <4>3. <<i, f[i - 1]>> \in Nat \X Nat
          BY <4>1
        <4> QED
          BY <4>2, <4>3
      <3> QED
        BY <3>1, <3>2
    <2> QED
      BY <2>1
  <1>5. Equation(backoff)
    BY <1>4
  <1> HIDE DEF backoff
  <1>6. backoff[n] \in Nat
    <2> DEFINE S == {i \in Nat : backoff[i] \in Nat}
    <2>1. \A i \in Nat : backoff[i] = IF i <= 1 THEN InitialBackoff ELSE Cap(2 * backoff[i - 1])
      BY <1>5
    <2>2. 0 \in S
      BY <2>1
    <2>3. ASSUME NEW i \in Nat, i \in S PROVE i + 1 \in S
      <3>1. 2 * backoff[i] \in Nat /\ (i + 1) - 1 = i /\ i + 1 \in Nat
        BY <2>3
      <3> QED
        BY <1>1, <2>1, <3>1
    <2> HIDE DEF S
    <2>4. Nat \subseteq S
      BY <2>2, <2>3, SetInduction
    <2> QED
      BY <2>4 DEF S
  <1>7. next_backoff_ms(n) = Cap(backoff[n])
    BY DEF next_backoff_ms, backoff
  <1> QED
    BY <1>1, <1>6, <1>7

\* A call moves, and sleeps for a number of ticks.
LEMMA TypeMoves ==
  ASSUME TypeOK, NEW r \in Requests, NEW to \in Pc, pc' = [pc EXCEPT ![r] = to],
         UNCHANGED <<ahead, blocked, attempt, status, cooling>>,
         timer' = timer \/ \E ticks \in Nat : timer' = [timer EXCEPT ![r] = ticks]
  PROVE  TypeOK'
  BY DEF TypeOK

LEMMA TypeStep ==
  ASSUME TypeOK, NEW r \in Requests, Begin(r) \/ Step(r)
  PROVE  TypeOK'
  <1> USE LimiterAssumption
  <1>0. /\ \A a, b \in Nat : Monus(a, b) \in Nat /\ Later(a, b) \in Nat
        /\ Acquiring(r) \in Pc
    BY DEF Monus, Later, Acquiring, Pc
  <1>1. CASE Begin(r)
    BY <1>0, <1>1 DEF Begin, Goto, TypeOK, limiter
  <1>2. CASE Acquire(r) \/ BarrierOver(r) \/ SlotDue(r) \/ PollAgain(r) \/ Send(r) \/ GiveUp(r)
    <2>1. PICK to \in Pc : pc' = [pc EXCEPT ![r] = to]
      BY <1>2 DEF Acquire, BarrierOver, SlotDue, PollAgain, Send, GiveUp, Slept, Goto, Pc
    <2>2. UNCHANGED <<ahead, blocked, attempt, status, cooling>>
      BY <1>2 DEF Acquire, BarrierOver, SlotDue, PollAgain, Send, GiveUp, Slept, limiter
    <2>3. timer' = timer \/ timer' = [timer EXCEPT ![r] = blocked]
      BY <1>2 DEF Acquire, BarrierOver, SlotDue, PollAgain, Send, GiveUp, Slept, Sleep
    <2> QED
      BY <2>1, <2>2, <2>3, TypeMoves DEF TypeOK
  <1>3. CASE Reserve(r)
    <2>1. ahead' \in Nat
      BY <1>3 DEF Reserve, TypeOK
    <2>2. PICK to \in {"slot", "send"} : pc' = [pc EXCEPT ![r] = to]
      BY <1>3 DEF Reserve, Goto
    <2>3. Monus(ahead', Burst) \in Nat
      BY <1>0, <2>1
    <2> QED
      BY <1>3, <2>1, <2>2, <2>3 DEF Reserve, Sleep, TypeOK, Pc
  <1>4. CASE Try(r)
    <2>1. PICK to \in {"send", "wait"} : pc' = [pc EXCEPT ![r] = to]
      BY <1>4 DEF Try, Goto
    <2>2. ahead' \in Nat
      BY <1>4 DEF Try, TypeOK
    <2> QED
      BY <1>4, <2>1, <2>2 DEF Try, TypeOK, Pc
  <1>5. CASE Wait(r)
    <2> DEFINE left  == IF blocked > 0 THEN blocked ELSE Monus(ahead + Interval, Burst)
               ticks == Later(1, left)
    <2>1. ticks \in Nat
      <3>1. ahead + Interval \in Nat /\ blocked \in Nat
        BY DEF TypeOK
      <3>2. left \in Nat
        BY <1>0, <3>1
      <3> QED
        BY <1>0, <3>2
    <2> HIDE DEF ticks
    <2>2. timer' = [timer EXCEPT ![r] = ticks]
      BY <1>5 DEF Wait, Sleep, ticks
    <2>3. pc' = [pc EXCEPT ![r] = "poll"] /\ "poll" \in Pc
      BY <1>5 DEF Wait, Goto, Pc
    <2> QED
      BY <1>5, <2>1, <2>2, <2>3, TypeMoves DEF Wait, limiter
  <1>6. CASE Answer(r)
    BY <1>6 DEF Answer, Goto, TypeOK, Pc, limiter
  <1>7. CASE Handle(r)
    <2>1. PICK to \in {"returned", "decide"} : pc' = [pc EXCEPT ![r] = to]
      BY <1>7 DEF Handle, Goto
    <2>2. blocked' \in Nat /\ cooling' \in [Requests -> Nat]
      BY <1>0, <1>7 DEF Handle, TypeOK
    <2> QED
      BY <1>7, <2>1, <2>2 DEF Handle, TypeOK, Pc
  <1>8. CASE Retry(r)
    <2>1. next_backoff_ms(attempt[r]) \in Nat
      BY BackoffType DEF TypeOK
    <2>2. timer' = [timer EXCEPT ![r] = next_backoff_ms(attempt[r])]
      BY <1>8 DEF Retry, Sleep
    <2>3. pc' = [pc EXCEPT ![r] = "backoff"] /\ "backoff" \in Pc
      BY <1>8 DEF Retry, Goto, Pc
    <2> QED
      BY <1>8, <2>1, <2>2, <2>3, TypeMoves DEF Retry, limiter
  <1>9. CASE BackedOff(r)
    <2>1. /\ pc' = [pc EXCEPT ![r] = Acquiring(r)] /\ attempt' = [attempt EXCEPT ![r] = @ + 1]
          /\ UNCHANGED <<ahead, blocked, timer, status, cooling>>
      BY <1>9 DEF BackedOff, Goto, limiter
    <2>2. attempt[r] + 1 \in Nat
      BY DEF TypeOK
    <2> QED
      BY <1>0, <2>1, <2>2 DEF TypeOK
  <1> QED
    BY <1>1, <1>2, <1>3, <1>4, <1>5, <1>6, <1>7, <1>8, <1>9 DEF Step

\* Every sleep is a number of ticks, however often the backoff was doubled, and nothing that is
\* waited for falls below zero (next_backoff_ms(), wait_time_ns() and the clock).
THEOREM TypeCorrect == Spec => []TypeOK
  <1>1. Init => TypeOK
    BY DEF Init, TypeOK, Pc
  <1>2. TypeOK /\ [Next]_vars => TypeOK'
    <2> SUFFICES ASSUME TypeOK, [Next]_vars PROVE TypeOK'
      OBVIOUS
    <2>1. CASE Tick
      <3>1. \A a \in Nat : Monus(a, 1) \in Nat
        BY DEF Monus
      <3>2. ahead' \in Nat /\ blocked' \in Nat
        BY <2>1, <3>1 DEF Tick, TypeOK
      <3>3. timer' \in [Requests -> Nat] /\ cooling' \in [Requests -> Nat]
        BY <2>1, <3>1 DEF Tick, TypeOK
      <3> QED
        BY <2>1, <3>2, <3>3 DEF Tick, TypeOK
    <2>2. CASE Rest \/ UNCHANGED vars
      BY <2>2 DEF Rest, vars, limiter, TypeOK
    <2> QED
      BY <2>1, <2>2, TypeStep DEF Next
  <1> QED
    BY <1>1, <1>2, PTL DEF Spec
=============================================================================
