-------------------------------- MODULE Pacer --------------------------------
(***************************************************************************)
(* What a limiter promises the threads that share it while its rate is     *)
(* fixed: the bucket, the barrier and the requests, each operation one     *)
(* step somewhere between its call and its return.  A request is dated by  *)
(* the moment at which the clock was read for it, which may be past when   *)
(* the step is taken.                                                      *)
(***************************************************************************)
EXTENDS Integers

CONSTANTS
  Threads,        \* threads sharing the limiter
  Interval,       \* ticks between two requests; 0 when limiting is disabled
  Burst,          \* ticks a request may run ahead of its slot
  Waits           \* the Retry-Afters, in ticks, of the 429s recorded

VARIABLES
  now,      \* the clock
  bucket,   \* the slot reserved last
  barrier,  \* no request that begins before it falls is let through before it falls
  request   \* what each thread is doing

vars == <<now, bucket, barrier, request>>

Requests == {"try", "wait"}   \* try_acquire() and acquire()

Idle == [does |-> "idle", since |-> 0, floor |-> 0, after |-> 0, due |-> 0]

Init ==
  /\ now = 0 /\ bucket = 0 /\ barrier = 0
  /\ request = [t \in Threads |-> Idle]

Elapse ==
  /\ now' = now + 1
  /\ UNCHANGED <<bucket, barrier, request>>

\* A call begins, under the barrier that stands; `after` is the Retry-After of a notification.
Ask(t, does, after) ==
  /\ request[t] = Idle
  /\ does \in Requests => after = 0
  /\ request' = [request EXCEPT ![t] = [does |-> does, since |-> now, floor |-> barrier,
                                        after |-> after, due |-> 0]]
  /\ UNCHANGED <<now, bucket, barrier>>

Becomes(t, from, to, due) ==
  /\ request[t].does = from
  /\ request' = [request EXCEPT ![t].does = to, ![t].due = due]

\* When a request may be dated: within its call, and not under the barrier it began with.
Dates(t) == {at \in request[t].since .. now : at >= request[t].floor}

\* The slot a request dated `at` takes, and when it comes due.
Slot(at) == (IF bucket >= at THEN bucket ELSE at) + Interval
Due(at)  == IF Slot(at) > Burst THEN Slot(at) - Burst ELSE 0

\* A disabled limiter lets everything through at once.
Pass(t) ==
  /\ Interval = 0
  /\ \E does \in Requests : Becomes(t, does, "through", 0)
  /\ UNCHANGED <<now, bucket, barrier>>

Admit(t) ==
  /\ Interval # 0
  /\ Becomes(t, "try", "through", 0)
  /\ \E at \in Dates(t) : Slot(at) <= at + Burst /\ bucket' = Slot(at)
  /\ UNCHANGED <<now, barrier>>

\* Only the barrier or an empty bucket turns a request away.
Refuse(t) ==
  /\ Interval # 0
  /\ Becomes(t, "try", "done", 0)
  /\ \E at \in request[t].since .. now : at < barrier \/ Slot(at) > at + Burst
  /\ UNCHANGED <<now, bucket, barrier>>

\* A slot is reserved whatever the bucket holds, and slept for.
Reserve(t) ==
  /\ Interval # 0
  /\ \E at \in Dates(t) :
       /\ bucket' = Slot(at)
       /\ IF Due(at) > at THEN Becomes(t, "wait", "asleep", Due(at))
                          ELSE Becomes(t, "wait", "through", 0)
  /\ UNCHANGED <<now, barrier>>

Wake(t) ==
  /\ now >= request[t].due
  /\ Becomes(t, "asleep", "through", 0)
  /\ UNCHANGED <<now, bucket, barrier>>

\* The barrier becomes the later of itself and what the 429 asks for.
Raise(t) ==
  /\ Becomes(t, "raise", "done", 0)
  /\ \E at \in request[t].since .. now :
       barrier' = IF barrier >= at + request[t].after THEN barrier ELSE at + request[t].after
  /\ UNCHANGED <<now, bucket>>

Leave(t) ==
  /\ request[t].does \in {"through", "done"}
  /\ request' = [request EXCEPT ![t] = Idle]
  /\ UNCHANGED <<now, bucket, barrier>>

Next ==
  \/ Elapse
  \/ \E t \in Threads :
       \/ \E does \in Requests \cup {"raise"}, after \in Waits \cup {0} : Ask(t, does, after)
       \/ Pass(t) \/ Admit(t) \/ Refuse(t) \/ Reserve(t) \/ Wake(t) \/ Raise(t) \/ Leave(t)

Spec == Init /\ [][Next]_vars
=============================================================================
