-------------------------- MODULE StreamBaseProofs --------------------------
(***************************************************************************)
(* Theorems about StreamBase for every set of callers, every program, every *)
(* set of policies and every bound.                                        *)
(***************************************************************************)
EXTENDS StreamBase, Recursion, TLAPS

\* The steps in which a caller changes nothing but the program counters and the waiters.
LEMMA ConnectTypes ==
  ASSUME TypeOK, NEW c \in Callers,
         \/ \E op \in Ops : Call(c, op)
         \/ ConnectRefused(c) \/ ConnectBegin(c) \/ ConnectStore(c) \/ ConnectOpen(c)
         \/ ConnectCheck(c) \/ ConnectBlock(c) \/ ConnectTimeout(c) \/ ConnectReturn(c)
  PROVE  TypeOK'
<1> USE DEF TypeOK, flags, net, bounds, Goto, CallerPc, Threads
<1>1. CASE \E op \in Ops : Call(c, op)
  BY <1>1 DEF Call, Ops
<1>2. CASE ConnectRefused(c)
  BY <1>2 DEF ConnectRefused
<1>3. CASE ConnectBegin(c)
  BY <1>3 DEF ConnectBegin, LoopPc
<1>4. CASE ConnectStore(c)
  BY <1>4 DEF ConnectStore, stream_state
<1>5. CASE ConnectOpen(c)
  BY <1>5 DEF ConnectOpen, SocketOpen
<1>6. CASE ConnectCheck(c)
  BY <1>6 DEF ConnectCheck
<1>7. CASE ConnectBlock(c)
  BY <1>7 DEF ConnectBlock
<1>8. CASE ConnectTimeout(c)
  BY <1>8 DEF ConnectTimeout
<1>9. CASE ConnectReturn(c)
  BY <1>9 DEF ConnectReturn
<1> QED
  BY <1>1, <1>2, <1>3, <1>4, <1>5, <1>6, <1>7, <1>8, <1>9

\* Closing the socket leaves the network well typed.
LEMMA SocketCloseTypes ==
  ASSUME TypeOK, SocketClose
  PROVE  /\ sock' \in {"closed", "opening", "up"}
         /\ session' \in {"none", "auth_sent", "refused", "accepted"}
         /\ inbox' \in Seq(Events)
BY DEF TypeOK, SocketClose, net, Events

LEMMA CloseTypes ==
  ASSUME TypeOK, NEW c \in Callers,
         \/ DisconnectBegin(c) \/ DisconnectNotify(c) \/ DisconnectClose(c)
         \/ DisconnectStore(c) \/ ShutdownAgain(c) \/ ShutdownBegin(c)
         \/ ShutdownNotify(c) \/ ShutdownJoin(c) \/ ShutdownClose(c)
         \/ ShutdownStore(c) \/ SetReconnectPolicy(c)
  PROVE  TypeOK'
<1> USE DEF TypeOK, flags, net, bounds, Goto, CallerPc, NotifyAll
<1>1. CASE DisconnectBegin(c)
  BY <1>1 DEF DisconnectBegin
<1>2. CASE DisconnectNotify(c)
  BY <1>2 DEF DisconnectNotify
<1>3. CASE DisconnectClose(c)
  BY <1>3, SocketCloseTypes DEF DisconnectClose
<1>4. CASE DisconnectStore(c)
  BY <1>4 DEF DisconnectStore, stream_state
<1>5. CASE ShutdownAgain(c)
  BY <1>5 DEF ShutdownAgain
<1>6. CASE ShutdownBegin(c)
  BY <1>6 DEF ShutdownBegin
<1>7. CASE ShutdownNotify(c)
  BY <1>7 DEF ShutdownNotify
<1>8. CASE ShutdownJoin(c)
  BY <1>8 DEF ShutdownJoin
<1>9. CASE ShutdownClose(c)
  BY <1>9, SocketCloseTypes DEF ShutdownClose
<1>10. CASE ShutdownStore(c)
  BY <1>10 DEF ShutdownStore, stream_state
<1>11. CASE SetReconnectPolicy(c)
  BY <1>11 DEF SetReconnectPolicy
<1> QED
  BY <1>1, <1>2, <1>3, <1>4, <1>5, <1>6, <1>7, <1>8, <1>9, <1>10, <1>11

\* Taking the first event leaves a sequence of events.
LEMMA TakeTypes ==
  ASSUME TypeOK, NEW event, NEW label \in SvcPc, Take(event, label)
  PROVE  inbox' \in Seq(Events) /\ svc' \in SvcPc
BY DEF TypeOK, Take

LEMMA ServiceTypes ==
  ASSUME TypeOK, ServiceStep
  PROVE  TypeOK'
<1> USE DEF TypeOK, flags, net, bounds, NotifyAll
<1>1. CASE HandleConnected
  BY <1>1, TakeTypes DEF HandleConnected, SvcPc, stream_state
<1>2. CASE SendAuth
  BY <1>2 DEF SendAuth, SvcPc
<1>3. CASE HandleDisconnected
  BY <1>3, TakeTypes DEF HandleDisconnected, SvcPc, stream_state
<1>4. CASE ScheduleReconnect
  BY <1>4 DEF ScheduleReconnect, SvcPc
<1>5. CASE MarkReady
  BY <1>5, TakeTypes DEF MarkReady, SvcPc, stream_state
<1>6. CASE MarkReadyLock
  BY <1>6 DEF MarkReadyLock, SvcPc
<1>7. CASE MarkReadyNotify
  BY <1>7 DEF MarkReadyNotify, SvcPc
<1>8. CASE ReportError
  BY <1>8, TakeTypes DEF ReportError, SvcPc
<1>9. CASE ReportErrorLock
  BY <1>9 DEF ReportErrorLock, SvcPc
<1>10. CASE ReportErrorNotify
  BY <1>10 DEF ReportErrorNotify, SvcPc
<1> QED
  BY <1>1, <1>2, <1>3, <1>4, <1>5, <1>6, <1>7, <1>8, <1>9, <1>10 DEF ServiceStep

LEMMA LoopTypes ==
  ASSUME TypeOK, LoopStep \/ BackoffTimeout
  PROVE  TypeOK'
<1> USE DEF TypeOK, flags, net, bounds, LoopPc, Threads, Park
<1>1. CASE LoopExit
  BY <1>1 DEF LoopExit
<1>2. CASE LoopPark
  BY <1>2 DEF LoopPark
<1>3. CASE LoopTake
  <2>1. reconnect_attempt_' \in Nat
    BY <1>3 DEF LoopTake
  <2>2. reconnect_pending_' \in BOOLEAN
    BY <1>3 DEF LoopTake
  <2>3. loop' \in LoopPc /\ waiting' \subseteq Threads
    BY <1>3 DEF LoopTake
  <2> QED
    BY <1>3, <2>1, <2>2, <2>3 DEF LoopTake
<1>4. CASE BackoffWake
  BY <1>4 DEF BackoffWake
<1>5. CASE BackoffTimeout
  BY <1>5 DEF BackoffTimeout
<1>6. CASE LoopStore
  BY <1>6 DEF LoopStore, stream_state
<1>7. CASE LoopOpen
  BY <1>7 DEF LoopOpen, SocketOpen
<1> QED
  BY <1>1, <1>2, <1>3, <1>4, <1>5, <1>6, <1>7 DEF LoopStep

LEMMA NetTypes ==
  ASSUME TypeOK, NetStep
  PROVE  TypeOK'
<1> USE DEF TypeOK, flags, bounds, Events
<1>1. CASE SocketUp
  BY <1>1 DEF SocketUp
<1>2. CASE SocketLost
  BY <1>2 DEF SocketLost
<1>3. CASE ServerAccept
  BY <1>3 DEF ServerAccept
<1>4. CASE ServerError
  BY <1>4 DEF ServerError
<1> QED
  BY <1>1, <1>2, <1>3, <1>4 DEF NetStep

\* TypeOK holds of every reachable state: in particular the counter is never decremented
\* below zero and every thread is at a program point of the code.
THEOREM TypeCorrect == Spec => []TypeOK
<1>1. Init => TypeOK
  <2> SUFFICES ASSUME Init
               PROVE  TypeOK
    OBVIOUS
  <2>1. inbox \in Seq(Events)
    BY DEF Init
  <2>2. pc \in [Callers -> CallerPc]
    BY DEF Init, CallerPc
  <2> QED
    BY <2>1, <2>2 DEF Init, TypeOK, stream_state, LoopPc, SvcPc
<1>2. TypeOK /\ [Next]_vars => TypeOK'
  <2> SUFFICES ASSUME TypeOK, [Next]_vars
               PROVE  TypeOK'
    OBVIOUS
  <2>1. CASE UNCHANGED vars
    BY <2>1 DEF vars, flags, net, bounds, TypeOK
  <2>2. CASE Next
    BY <2>1, <2>2, ConnectTypes, CloseTypes, ServiceTypes, LoopTypes, NetTypes
    DEF Next, CallerStep, Rest
  <2> QED
    BY <2>1, <2>2
<1> QED
  BY <1>1, <1>2, PTL DEF Spec

-----------------------------------------------------------------------------
(***************************************************************************)
(* The reconnect counter.                                                  *)
(***************************************************************************)

Limited == \A p \in Policies : p.max_attempts # 0

\* A filed request still has an attempt left; this is what the test of schedule_reconnect
\* leaves behind for the increment of reconnect_loop to rely on.
AttemptLeft ==
  Limited => /\ reconnect_attempt_ <= MaxAttempts
             /\ reconnect_pending_ => reconnect_attempt_ < MaxAttempts

\* The steps that touch neither the counter nor the pending request keep AttemptLeft.
LEMMA AttemptLeftStutter ==
  ASSUME AttemptLeft, UNCHANGED <<reconnect_attempt_, reconnect_pending_>>
  PROVE  AttemptLeft'
BY DEF AttemptLeft, Limited

\* Resetting the counter keeps AttemptLeft: a request filed before it had an attempt left.
LEMMA AttemptLeftReset ==
  ASSUME TypeOK, AttemptLeft, reconnect_attempt_' = 0, UNCHANGED reconnect_pending_
  PROVE  AttemptLeft'
BY PolicyAssumption DEF AttemptLeft, Limited, TypeOK

LEMMA AttemptLeftStep ==
  ASSUME TypeOK, AttemptLeft, [Next]_vars
  PROVE  AttemptLeft'
<1>1. CASE \E c \in Callers : ConnectBegin(c)
  BY <1>1, AttemptLeftReset DEF ConnectBegin
<1>2. CASE \E c \in Callers : DisconnectBegin(c)
  BY <1>2 DEF DisconnectBegin, AttemptLeft, Limited
<1>3. CASE ScheduleReconnect
  <2>1. CASE MayReconnect
    <3>1. Limited => reconnect_attempt_ < MaxAttempts
      BY <2>1, PolicyAssumption DEF MayReconnect, Limited, TypeOK, Policy
    <3> QED
      BY <1>3, <3>1 DEF ScheduleReconnect, AttemptLeft, Limited
  <2>2. CASE ~MayReconnect
    BY <1>3, <2>2, AttemptLeftStutter DEF ScheduleReconnect
  <2> QED
    BY <2>1, <2>2
<1>4. CASE MarkReadyLock
  BY <1>4, AttemptLeftReset DEF MarkReadyLock
<1>5. CASE LoopTake
  BY <1>5, PolicyAssumption DEF LoopTake, AttemptLeft, Limited, TypeOK
<1>6. CASE UNCHANGED <<reconnect_attempt_, reconnect_pending_>>
  BY <1>6, AttemptLeftStutter
<1>7. \/ \E c \in Callers : ConnectBegin(c) \/ DisconnectBegin(c)
      \/ ScheduleReconnect \/ MarkReadyLock \/ LoopTake
      \/ UNCHANGED <<reconnect_attempt_, reconnect_pending_>>
  BY DEF Next, CallerStep, ServiceStep, LoopStep, NetStep, Rest, vars, flags,
         Call, ConnectRefused, ConnectStore, ConnectOpen, ConnectCheck, ConnectBlock,
         ConnectTimeout, ConnectReturn, DisconnectNotify, DisconnectClose, DisconnectStore,
         ShutdownAgain, ShutdownBegin, ShutdownNotify, ShutdownJoin, ShutdownClose,
         ShutdownStore, SetReconnectPolicy, HandleConnected, SendAuth, HandleDisconnected,
         MarkReady, MarkReadyNotify, ReportError, ReportErrorLock, ReportErrorNotify,
         LoopExit, LoopPark, BackoffWake, BackoffTimeout, LoopStore, LoopOpen,
         SocketUp, SocketLost, ServerAccept, ServerError
<1> QED
  BY <1>1, <1>2, <1>3, <1>4, <1>5, <1>6, <1>7

\* The counter never passes the largest limit of the policies in use.
THEOREM AttemptsStayBounded == Spec => []AttemptsBounded
<1>1. Init => AttemptLeft
  BY PolicyAssumption DEF Init, AttemptLeft
<1>2. TypeOK /\ AttemptLeft /\ [Next]_vars => AttemptLeft'
  BY AttemptLeftStep
<1>3. AttemptLeft => AttemptsBounded
  BY DEF AttemptLeft, AttemptsBounded, Limited
<1> QED
  BY <1>1, <1>2, <1>3, TypeCorrect, PTL DEF Spec

-----------------------------------------------------------------------------
(***************************************************************************)
(* Closing.                                                                *)
(***************************************************************************)

LEMMA CloseCancelsStep ==
  ASSUME CloseCancelsPending, [Next]_vars
  PROVE  CloseCancelsPending'
<1> USE DEF CloseCancelsPending
<1>1. CASE \E c \in Callers : ConnectBegin(c) \/ DisconnectBegin(c) \/ ShutdownBegin(c)
  BY <1>1 DEF ConnectBegin, DisconnectBegin, ShutdownBegin
<1>2. CASE ScheduleReconnect
  BY <1>2 DEF ScheduleReconnect, MayReconnect
<1>3. CASE LoopTake
  BY <1>3 DEF LoopTake
<1>4. CASE UNCHANGED <<reconnect_pending_, closing_, stopping_>>
  BY <1>4
<1>5. \/ \E c \in Callers : ConnectBegin(c) \/ DisconnectBegin(c) \/ ShutdownBegin(c)
      \/ ScheduleReconnect \/ LoopTake
      \/ UNCHANGED <<reconnect_pending_, closing_, stopping_>>
  BY DEF Next, CallerStep, ServiceStep, LoopStep, NetStep, Rest, vars, flags,
         Call, ConnectRefused, ConnectStore, ConnectOpen, ConnectCheck, ConnectBlock,
         ConnectTimeout, ConnectReturn, DisconnectNotify, DisconnectClose, DisconnectStore,
         ShutdownAgain, ShutdownNotify, ShutdownJoin, ShutdownClose,
         ShutdownStore, SetReconnectPolicy, HandleConnected, SendAuth, HandleDisconnected,
         MarkReady, MarkReadyLock, MarkReadyNotify, ReportError, ReportErrorLock,
         ReportErrorNotify, LoopExit, LoopPark, BackoffWake, BackoffTimeout, LoopStore,
         LoopOpen, SocketUp, SocketLost, ServerAccept, ServerError
<1> QED
  BY <1>1, <1>2, <1>3, <1>4, <1>5

\* No reconnect request is pending while a caller is closing the stream.
THEOREM CloseCancels == Spec => []CloseCancelsPending
<1>1. Init => CloseCancelsPending
  BY DEF Init, CloseCancelsPending
<1>2. CloseCancelsPending /\ [Next]_vars => CloseCancelsPending'
  BY CloseCancelsStep
<1> QED
  BY <1>1, <1>2, PTL DEF Spec

-----------------------------------------------------------------------------
(***************************************************************************)
(* shutdown(), called the way a destructor is: by a thread that knows no    *)
(* other call is in progress.                                              *)
(***************************************************************************)

ShutdownPc == {"shutdown", "shutdown_notify", "shutdown_join", "shutdown_close",
               "shutdown_store"}

\* The inductive strengthening of ShutdownIsFinal: who is shutting down is alone, nobody is
\* about to open the socket once stopping_ is set, and each step of shutdown() finds what
\* the previous one established.
ShutdownInv ==
  /\ \A c \in Callers : InShutdown(c) => stopping_
  /\ \A c, d \in Callers : pc[c] \in ShutdownPc /\ c # d => pc[d] = "idle"
  /\ \A c \in Callers : pc[c] \in {"connect_store", "connect_open"} => ~stopping_
  /\ \A c \in Callers : pc[c] \in {"shutdown_close", "shutdown_store"} =>
                          loop \in {"none", "exited"}
  /\ \A c \in Callers : pc[c] = "shutdown_store" => sock = "closed"
  /\ ShutdownIsFinal

\* The steps that move no caller, leave stopping_ alone and keep what is closed closed.
LEMMA ShutdownQuietStep ==
  ASSUME ShutdownInv, UNCHANGED <<pc, stopping_>>,
         loop \in {"none", "exited"} => loop' = loop,
         sock = "closed" /\ loop \in {"none", "exited"} => sock' = "closed"
  PROVE  ShutdownInv'
BY DEF ShutdownInv, ShutdownPc, ShutdownIsFinal, InShutdown

LEMMA ShutdownStep ==
  ASSUME Overlap = FALSE, TypeOK, ShutdownInv, [Next]_vars
  PROVE  ShutdownInv'
<1> USE DEF ShutdownInv, ShutdownPc, ShutdownIsFinal, InShutdown, Goto, TypeOK
<1>1. CASE \E c \in Callers : \E op \in Ops : Call(c, op)
  BY <1>1 DEF Call, Ops, flags, net
<1>2. ASSUME NEW c \in Callers, ConnectRefused(c) \/ ConnectBegin(c)
      PROVE  ShutdownInv'
  BY <1>2 DEF ConnectRefused, ConnectBegin, flags, net
<1>3. ASSUME NEW c \in Callers, ConnectStore(c) \/ ConnectOpen(c)
      PROVE  ShutdownInv'
  BY <1>3 DEF ConnectStore, ConnectOpen, SocketOpen, flags, net
<1>4. ASSUME NEW c \in Callers,
             ConnectCheck(c) \/ ConnectBlock(c) \/ ConnectTimeout(c) \/ ConnectReturn(c)
      PROVE  ShutdownInv'
  BY <1>4 DEF ConnectCheck, ConnectBlock, ConnectTimeout, ConnectReturn, flags, net
<1>5. ASSUME NEW c \in Callers, DisconnectBegin(c) \/ DisconnectNotify(c) \/ DisconnectStore(c)
      PROVE  ShutdownInv'
  BY <1>5 DEF DisconnectBegin, DisconnectNotify, DisconnectStore, flags, net
<1>6. ASSUME NEW c \in Callers, DisconnectClose(c)
      PROVE  ShutdownInv'
  BY <1>6 DEF DisconnectClose, SocketClose, flags, net
<1>7. ASSUME NEW c \in Callers, ShutdownAgain(c) \/ ShutdownBegin(c)
      PROVE  ShutdownInv'
  BY <1>7 DEF ShutdownAgain, ShutdownBegin, flags, net
<1>8. ASSUME NEW c \in Callers, ShutdownNotify(c) \/ ShutdownJoin(c)
      PROVE  ShutdownInv'
  BY <1>8 DEF ShutdownNotify, ShutdownJoin, flags, net
<1>9. ASSUME NEW c \in Callers, ShutdownClose(c) \/ ShutdownStore(c)
      PROVE  ShutdownInv'
  BY <1>9 DEF ShutdownClose, ShutdownStore, SocketClose, flags, net
<1>10. ASSUME NEW c \in Callers, SetReconnectPolicy(c)
      PROVE  ShutdownInv'
  BY <1>10, ShutdownQuietStep DEF SetReconnectPolicy, net
<1>11. CASE ServiceStep
  BY <1>11, ShutdownQuietStep
  DEF ServiceStep, HandleConnected, SendAuth, HandleDisconnected, ScheduleReconnect, MarkReady,
      MarkReadyLock, MarkReadyNotify, ReportError, ReportErrorLock, ReportErrorNotify, flags, net
<1>12. CASE LoopStep \/ BackoffTimeout
  BY <1>12, ShutdownQuietStep
  DEF LoopStep, LoopExit, LoopPark, LoopTake, BackoffWake, BackoffTimeout, LoopStore, LoopOpen,
      flags, net
<1>13. CASE NetStep
  BY <1>13, ShutdownQuietStep
  DEF NetStep, SocketUp, SocketLost, ServerAccept, ServerError, flags
<1>14. CASE UNCHANGED vars
  BY <1>14, ShutdownQuietStep DEF vars, flags, net
<1> QED
  BY <1>1, <1>2, <1>3, <1>4, <1>5, <1>6, <1>7, <1>8, <1>9, <1>10, <1>11, <1>12, <1>13, <1>14
  DEF Next, CallerStep, Rest

\* When shutdown() has returned the reconnect thread has exited and the socket stays closed,
\* provided no other call overlaps it.
THEOREM ShutdownFinal ==
  ASSUME Overlap = FALSE
  PROVE  Spec => []ShutdownIsFinal
<1>1. Init => ShutdownInv
  BY DEF Init, ShutdownInv, ShutdownPc, ShutdownIsFinal, InShutdown
<1>2. TypeOK /\ ShutdownInv /\ [Next]_vars => ShutdownInv'
  BY ShutdownStep
<1>3. ShutdownInv => ShutdownIsFinal
  BY DEF ShutdownInv
<1> QED
  BY <1>1, <1>2, <1>3, TypeCorrect, PTL DEF Spec

-----------------------------------------------------------------------------
(***************************************************************************)
(* A stream connected once.                                                *)
(***************************************************************************)

\* One call of connect() is all the callers make.
OneConnect == MaxCalls = 1 /\ \A c \in Callers : Program[c] \subseteq {"connect"}

EarlyPc   == {"connect", "connect_store", "connect_open"}
ConnectPc == EarlyPc \cup
             {"connect_check", "connect_block", "connect_wait", "connect_ret", "connect_expired"}

\* Nothing has come from the socket that is not dealt with.
Quiet == sock = "closed" /\ session = "none" /\ inbox = <<>> /\ svc = "idle"

Unopened     == calls = 0 \/ \E c \in Callers : pc[c] \in EarlyPc
Reconnecting == reconnect_pending_ \/ loop \in {"backoff", "store", "open"}

\* The caller opens the socket first; afterwards it is up, or its drop is on the way, or is
\* being scheduled, or the loop has it: one of these at a time.
OneAtATime ==
  /\ ~stopping_ /\ ~closing_
  /\ \A c \in Callers : pc[c] \in ConnectPc \cup {"idle"}
  /\ calls = 0 => \A c \in Callers : pc[c] = "idle"
  /\ \A c, d \in Callers : pc[c] \in EarlyPc /\ pc[d] \in EarlyPc => c = d
  /\ Unopened => Quiet /\ ~Reconnecting
  /\ Reconnecting => Quiet
  /\ loop \in {"backoff", "store", "open"} => ~reconnect_pending_
  /\ svc = "schedule" => sock = "closed" /\ inbox = <<>>
  /\ sock = "opening" => inbox = <<>> /\ svc = "idle"
  /\ sock # "up" => session = "none"

\* A connection's events: it begins with one, and nothing follows its drop.
EventsInOrder ==
  /\ \A i \in DOMAIN inbox :
       /\ inbox[i] = "connected" => i = 1 /\ session = "none"
       /\ inbox[i] = "disconnected" => i = Len(inbox) /\ sock = "closed"
       /\ inbox[i] = "authenticated" => session = "accepted" \/ InFlight("disconnected")
  /\ svc = "send_auth" => ~InFlight("connected")

\* The loop and connect() open a socket over a state that is not ready.
OpensUnready ==
  (loop = "open" \/ \E c \in Callers : pc[c] = "connect_open") => state_ # "ready"

OnceInv == OneAtATime /\ EventsInOrder /\ OpensUnready /\ ReadyIsLive /\ SessionShown


LEMMA Taken ==
  ASSUME TypeOK, NEW event, NEW label, Take(event, label)
  PROVE  /\ svc = "idle" /\ svc' = label /\ inbox # <<>> /\ inbox' \in Seq(Events)
         /\ 1 \in DOMAIN inbox /\ inbox[1] = event
         /\ Len(inbox') = Len(inbox) - 1 /\ Len(inbox) \in Nat
         /\ \A i \in DOMAIN inbox' : i + 1 \in DOMAIN inbox /\ inbox'[i] = inbox[i + 1] /\ i \in Nat \ {0}
         /\ \A i \in DOMAIN inbox : i # 1 => i - 1 \in DOMAIN inbox' /\ inbox'[i - 1] = inbox[i]
         /\ \A e : e # event => (InFlight(e) <=> InFlight(e)')
         /\ Len(inbox) = 1 => inbox' = <<>>
<1>1. inbox \in Seq(Events) /\ inbox # <<>> /\ inbox' = Tail(inbox) /\ event = Head(inbox)
  BY DEF TypeOK, Take
<1>2. /\ inbox' \in Seq(Events)
      /\ 1 \in DOMAIN inbox /\ inbox[1] = event
      /\ Len(inbox') = Len(inbox) - 1 /\ Len(inbox) \in Nat
      /\ \A i \in DOMAIN inbox' : i + 1 \in DOMAIN inbox /\ inbox'[i] = inbox[i + 1] /\ i \in Nat \ {0}
      /\ \A i \in DOMAIN inbox : i # 1 => i - 1 \in DOMAIN inbox' /\ inbox'[i - 1] = inbox[i]
      /\ Len(inbox) = 1 => inbox' = <<>>
  BY <1>1
<1>3. ASSUME NEW e, e # event PROVE InFlight(e) <=> InFlight(e)'
  BY <1>2, <1>3 DEF InFlight
<1> QED
  BY <1>2, <1>3 DEF Take

LEMMA Arrived ==
  ASSUME TypeOK, NEW event \in Events, inbox' = Append(inbox, event)
  PROVE  /\ inbox' \in Seq(Events) /\ inbox' # <<>>
         /\ Len(inbox') = Len(inbox) + 1 /\ Len(inbox) \in Nat
         /\ DOMAIN inbox' = DOMAIN inbox \cup {Len(inbox')}
         /\ inbox'[Len(inbox')] = event
         /\ \A i \in DOMAIN inbox : inbox'[i] = inbox[i]
         /\ \A e : InFlight(e)' <=> InFlight(e) \/ e = event
<1>1. inbox \in Seq(Events)
  BY DEF TypeOK
<1>2. /\ inbox' \in Seq(Events) /\ inbox' # <<>>
      /\ Len(inbox') = Len(inbox) + 1 /\ Len(inbox) \in Nat
      /\ DOMAIN inbox' = DOMAIN inbox \cup {Len(inbox')}
      /\ inbox'[Len(inbox')] = event
      /\ \A i \in DOMAIN inbox : inbox'[i] = inbox[i]
  BY <1>1
<1>3. \A e : InFlight(e)' <=> InFlight(e) \/ e = event
  BY <1>2 DEF InFlight
<1> QED
  BY <1>2, <1>3

\* What the socket has sent stays as it was.
LEMMA NothingSent ==
  ASSUME UNCHANGED inbox
  PROVE  \A e : InFlight(e)' <=> InFlight(e)
  BY DEF InFlight

LEMMA OnceCall ==
  ASSUME OneConnect, TypeOK, OnceInv, NEW c \in Callers,
         (\E op \in Ops : Call(c, op)) \/ SetReconnectPolicy(c)
  PROVE  OnceInv'
<1>1. PICK op \in Ops : Call(c, op)
  BY DEF SetReconnectPolicy, OneConnect
<1>2. op = "connect" /\ calls = 0 /\ calls' = 1
  BY <1>1 DEF Call, OneConnect, TypeOK
<1>3. /\ UNCHANGED <<state_, reconnect_pending_, stopping_, closing_, loop, svc, sock, session, inbox>>
      /\ pc' = [pc EXCEPT ![c] = "connect"]
  BY <1>1, <1>2 DEF Call, Goto, flags, net
<1>4. \A d \in Callers : pc'[d] = IF d = c THEN "connect" ELSE pc[d]
  BY <1>3 DEF TypeOK
<1>5. OneAtATime'
  BY <1>2, <1>3, <1>4 DEF OnceInv, OneAtATime, Unopened, Reconnecting, Quiet, EarlyPc, ConnectPc
<1>6. EventsInOrder' /\ OpensUnready' /\ ReadyIsLive' /\ SessionShown'
  BY <1>2, <1>3, <1>4, NothingSent DEF OnceInv, OneAtATime, EventsInOrder, OpensUnready, ReadyIsLive, SessionShown
<1> QED
  BY <1>5, <1>6 DEF OnceInv

LEMMA OnceCaller ==
  ASSUME TypeOK, OnceInv, NEW c \in Callers, CallerStep(c) \/ ConnectTimeout(c)
  PROVE  OnceInv'
<1> USE DEF flags, net, bounds, Goto
<1>0. /\ \A to : pc' = [pc EXCEPT ![c] = to] => \A d \in Callers : pc'[d] = IF d = c THEN to ELSE pc[d]
      /\ pc[c] \in ConnectPc \cup {"idle"}
  BY DEF TypeOK, OnceInv, OneAtATime
<1>1. CASE ConnectBegin(c)
  <2>1. /\ UNCHANGED <<state_, reconnect_pending_, stopping_, svc, sock, session, inbox, calls>>
        /\ closing_' = FALSE /\ loop' = (IF loop = "none" THEN "idle" ELSE loop)
        /\ pc[c] = "connect" /\ pc' = [pc EXCEPT ![c] = "connect_store"]
    BY <1>1 DEF ConnectBegin
  <2>2. OneAtATime'
    BY <1>0, <2>1 DEF OnceInv, OneAtATime, Unopened, Reconnecting, Quiet, EarlyPc, ConnectPc
  <2>3. EventsInOrder' /\ OpensUnready' /\ ReadyIsLive' /\ SessionShown'
    BY <1>0, <2>1, NothingSent DEF OnceInv, EventsInOrder, OpensUnready, ReadyIsLive, SessionShown
  <2> QED
    BY <2>2, <2>3 DEF OnceInv
<1>2. CASE ConnectStore(c)
  <2>1. /\ UNCHANGED <<reconnect_pending_, stopping_, closing_, svc, sock, session, inbox, calls, loop>>
        /\ state_' = "connecting"
        /\ pc[c] = "connect_store" /\ pc' = [pc EXCEPT ![c] = "connect_open"]
    BY <1>2 DEF ConnectStore
  <2>2. OneAtATime'
    BY <1>0, <2>1 DEF OnceInv, OneAtATime, Unopened, Reconnecting, Quiet, EarlyPc, ConnectPc
  <2>3. EventsInOrder' /\ OpensUnready' /\ ReadyIsLive'
    BY <1>0, <2>1, NothingSent DEF OnceInv, EventsInOrder, OpensUnready, ReadyIsLive
  <2>4. SessionShown'
    BY <2>1 DEF OnceInv, OneAtATime, Unopened, Quiet, EarlyPc, SessionShown
  <2> QED
    BY <2>2, <2>3, <2>4 DEF OnceInv
<1>3. CASE ConnectOpen(c)
  <2>1. /\ UNCHANGED <<state_, reconnect_pending_, stopping_, closing_, svc, inbox, calls, loop>>
        /\ SocketOpen
        /\ pc[c] = "connect_open" /\ pc' = [pc EXCEPT ![c] = "connect_check"]
    BY <1>3 DEF ConnectOpen, SocketOpen
  <2>2. Unopened /\ Quiet /\ ~Reconnecting /\ state_ # "ready" /\ calls # 0
    BY <2>1 DEF OnceInv, OneAtATime, OpensUnready, Unopened, EarlyPc
  <2>3. sock' = "opening" /\ session' = "none" /\ inbox = <<>>
    BY <2>1, <2>2 DEF SocketOpen, Quiet
  <2>4. ~Unopened'
    <3>1. \A d \in Callers : pc'[d] = IF d = c THEN "connect_check" ELSE pc[d]
      BY <1>0, <2>1
    <3>2. \A d \in Callers : d # c => pc[d] \notin EarlyPc
      BY <2>1 DEF OnceInv, OneAtATime, EarlyPc
    <3>3. \A d \in Callers : pc'[d] \notin EarlyPc
      BY <3>1, <3>2 DEF EarlyPc
    <3> QED
      BY <2>1, <2>2, <3>3 DEF Unopened
  <2>5. OneAtATime'
    BY <1>0, <2>1, <2>2, <2>3, <2>4 DEF OnceInv, OneAtATime, Reconnecting, Quiet, EarlyPc, ConnectPc
  <2>6. EventsInOrder' /\ OpensUnready' /\ ReadyIsLive' /\ SessionShown'
    BY <1>0, <2>1, <2>2, <2>3, NothingSent DEF OnceInv, EventsInOrder, OpensUnready, ReadyIsLive, SessionShown
  <2> QED
    BY <2>5, <2>6 DEF OnceInv
<1>4. CASE ConnectRefused(c) \/ ConnectCheck(c) \/ ConnectBlock(c) \/ ConnectTimeout(c) \/ ConnectReturn(c)
  <2>1. /\ UNCHANGED <<state_, reconnect_pending_, stopping_, closing_, svc, sock, session, inbox, calls, loop>>
        /\ \E to \in {"idle", "connect_ret", "connect_block", "connect_wait", "connect_expired"} :
             pc' = [pc EXCEPT ![c] = to]
        /\ pc[c] \notin EarlyPc \cup {"idle"}
    BY <1>4 DEF ConnectRefused, ConnectCheck, ConnectBlock, ConnectTimeout, ConnectReturn, EarlyPc,
         OnceInv, OneAtATime
  <2>2. /\ \A d \in Callers \ {c} : pc'[d] = pc[d]
        /\ pc'[c] \in {"idle", "connect_ret", "connect_block", "connect_wait", "connect_expired"}
    BY <1>0, <2>1
  <2>3. /\ Unopened' = Unopened /\ \A d \in Callers : pc'[d] \in EarlyPc <=> pc[d] \in EarlyPc
        /\ \A d \in Callers : pc'[d] = "connect_open" <=> pc[d] = "connect_open"
    BY <2>1, <2>2 DEF Unopened, EarlyPc
  <2>4. calls # 0
    BY <2>1 DEF OnceInv, OneAtATime
  <2>5. OneAtATime'
    BY <2>1, <2>2, <2>3, <2>4 DEF OnceInv, OneAtATime, Reconnecting, Quiet, ConnectPc
  <2>6. EventsInOrder' /\ OpensUnready' /\ ReadyIsLive' /\ SessionShown'
    BY <2>1, <2>3, NothingSent DEF OnceInv, EventsInOrder, OpensUnready, ReadyIsLive, SessionShown
  <2> QED
    BY <2>5, <2>6 DEF OnceInv
<1>5. ~( \/ DisconnectBegin(c) \/ DisconnectNotify(c) \/ DisconnectClose(c) \/ DisconnectStore(c)
         \/ ShutdownAgain(c) \/ ShutdownBegin(c) \/ ShutdownNotify(c) \/ ShutdownJoin(c)
         \/ ShutdownClose(c) \/ ShutdownStore(c))
  BY <1>0 DEF DisconnectBegin, DisconnectNotify, DisconnectClose, DisconnectStore, ShutdownAgain,
       ShutdownBegin, ShutdownNotify, ShutdownJoin, ShutdownClose, ShutdownStore, ConnectPc, EarlyPc
<1> QED
  BY <1>1, <1>2, <1>3, <1>4, <1>5 DEF CallerStep

LEMMA OnceService ==
  ASSUME TypeOK, OnceInv, ServiceStep
  PROVE  OnceInv'
<1> USE DEF flags, net, bounds
<1>0. ~Unopened \/ (inbox = <<>> /\ svc = "idle" /\ ~Reconnecting)
  BY DEF OnceInv, OneAtATime, Quiet
<1>1. CASE HandleConnected
  <2>1. /\ Take("connected", "send_auth") /\ state_' = "authenticating"
        /\ UNCHANGED <<pc, reconnect_pending_, stopping_, closing_, sock, session, calls, loop>>
    BY <1>1 DEF HandleConnected
  <2>2. ~Unopened /\ ~Reconnecting /\ session = "none" /\ sock # "opening"
    BY <2>1, Taken DEF OnceInv, OneAtATime, EventsInOrder, Quiet
  <2>3. OneAtATime'
    BY <2>1, <2>2, Taken DEF OnceInv, OneAtATime, Unopened, Reconnecting, Quiet
  <2>4. EventsInOrder'
    BY <2>1, <2>2, Taken DEF OnceInv, EventsInOrder, InFlight
  <2>5. OpensUnready' /\ ReadyIsLive' /\ SessionShown'
    BY <2>1, <2>2 DEF OpensUnready, ReadyIsLive, SessionShown
  <2> QED
    BY <2>3, <2>4, <2>5 DEF OnceInv
<1>2. CASE HandleDisconnected
  <2>1. /\ Take("disconnected", "schedule") /\ state_' = "disconnected"
        /\ UNCHANGED <<pc, reconnect_pending_, stopping_, closing_, sock, session, calls, loop>>
    BY <1>2 DEF HandleDisconnected
  <2>2. inbox' = <<>> /\ sock = "closed" /\ session = "none"
    BY <2>1, Taken DEF OnceInv, OneAtATime, EventsInOrder
  <2>3. ~Unopened /\ ~Reconnecting
    BY <2>1, Taken DEF OnceInv, OneAtATime, Quiet
  <2>4. OneAtATime'
    BY <2>1, <2>2, <2>3 DEF Take, OnceInv, OneAtATime, Unopened, Reconnecting, Quiet
  <2>5. EventsInOrder' /\ OpensUnready' /\ ReadyIsLive' /\ SessionShown'
    BY <2>1, <2>2 DEF Take, EventsInOrder, OpensUnready, ReadyIsLive, SessionShown
  <2> QED
    BY <2>4, <2>5 DEF OnceInv
<1>3. CASE MarkReady
  <2>1. /\ Take("authenticated", "ready_lock") /\ state_' = "ready"
        /\ UNCHANGED <<pc, reconnect_pending_, stopping_, closing_, sock, session, calls, loop>>
    BY <1>3 DEF MarkReady
  <2>2. ~Unopened /\ ~Reconnecting /\ sock # "opening" /\ (session = "accepted" \/ InFlight("disconnected"))
    BY <2>1, Taken DEF OnceInv, OneAtATime, EventsInOrder, Quiet
  <2>3. InFlight("disconnected")' <=> InFlight("disconnected")
    BY <2>1, Taken
  <2>4. OneAtATime'
    BY <2>1, <2>2, Taken DEF OnceInv, OneAtATime, Unopened, Reconnecting, Quiet
  <2>5. EventsInOrder'
    BY <2>1, <2>2, <2>3, Taken DEF OnceInv, EventsInOrder
  <2>6. OpensUnready'
    BY <2>1, <2>2 DEF OpensUnready, Unopened, Reconnecting, EarlyPc
  <2>7. ReadyIsLive' /\ SessionShown'
    BY <2>1, <2>2, <2>3 DEF ReadyIsLive, SessionShown
  <2> QED
    BY <2>4, <2>5, <2>6, <2>7 DEF OnceInv
<1>4. CASE ReportError
  <2>1. /\ Take("error", IF state_ = "ready" THEN "idle" ELSE "error_lock")
        /\ UNCHANGED <<state_, pc, reconnect_pending_, stopping_, closing_, sock, session, calls, loop>>
    BY <1>4 DEF ReportError
  <2>2. ~Unopened /\ ~Reconnecting /\ sock # "opening"
    BY <2>1, Taken DEF OnceInv, OneAtATime, Quiet
  <2>3. \A e \in {"connected", "disconnected", "authenticated"} : InFlight(e)' <=> InFlight(e)
    BY <2>1, Taken
  <2>4. OneAtATime'
    BY <2>1, <2>2, Taken DEF OnceInv, OneAtATime, Unopened, Reconnecting, Quiet
  <2>5. EventsInOrder'
    BY <2>1, <2>3, Taken DEF OnceInv, EventsInOrder
  <2>6. OpensUnready' /\ ReadyIsLive' /\ SessionShown'
    BY <2>1, <2>3 DEF OnceInv, OpensUnready, ReadyIsLive, SessionShown
  <2> QED
    BY <2>4, <2>5, <2>6 DEF OnceInv
<1>5. CASE SendAuth
  <2>1. /\ svc = "send_auth" /\ svc' = "idle"
        /\ session' = (IF sock = "up" /\ session = "none" THEN "auth_sent" ELSE session)
        /\ UNCHANGED <<state_, pc, reconnect_pending_, stopping_, closing_, sock, inbox, calls, loop>>
    BY <1>5 DEF SendAuth
  <2>2. ~Unopened /\ ~Reconnecting /\ sock # "opening" /\ ~InFlight("connected")
    BY <2>1 DEF OnceInv, OneAtATime, EventsInOrder, Quiet
  <2>3. OneAtATime'
    BY <2>1, <2>2 DEF OnceInv, OneAtATime, Unopened, Reconnecting, Quiet
  <2>4. session' = "accepted" <=> session = "accepted"
    BY <2>1
  <2>5. EventsInOrder'
    BY <2>1, <2>2, <2>4, NothingSent DEF OnceInv, EventsInOrder, InFlight
  <2>6. OpensUnready' /\ ReadyIsLive' /\ SessionShown'
    BY <2>1, <2>4, NothingSent DEF OnceInv, OpensUnready, ReadyIsLive, SessionShown
  <2> QED
    BY <2>3, <2>5, <2>6 DEF OnceInv
<1>6. CASE ScheduleReconnect
  <2>1. /\ svc = "schedule" /\ svc' = "idle" /\ reconnect_pending_' \in {TRUE, reconnect_pending_}
        /\ UNCHANGED <<state_, pc, stopping_, closing_, sock, session, inbox, calls, loop>>
    BY <1>6 DEF ScheduleReconnect
  <2>2. ~Unopened /\ ~Reconnecting /\ sock = "closed" /\ session = "none" /\ inbox = <<>>
    BY <2>1 DEF OnceInv, OneAtATime, Quiet
  <2>3. OneAtATime'
    BY <2>1, <2>2 DEF OnceInv, OneAtATime, Unopened, Reconnecting, Quiet
  <2>4. EventsInOrder' /\ OpensUnready' /\ ReadyIsLive' /\ SessionShown'
    BY <2>1, <2>2, NothingSent DEF OnceInv, EventsInOrder, OpensUnready, ReadyIsLive, SessionShown
  <2> QED
    BY <2>3, <2>4 DEF OnceInv
<1>7. CASE MarkReadyLock \/ MarkReadyNotify \/ ReportErrorLock \/ ReportErrorNotify
  <2>1. /\ svc \notin {"idle", "send_auth", "schedule"} /\ svc' \in {"idle", "ready_notify", "error_notify"}
        /\ UNCHANGED <<state_, pc, reconnect_pending_, stopping_, closing_, sock, session, inbox, calls, loop>>
    BY <1>7 DEF MarkReadyLock, MarkReadyNotify, ReportErrorLock, ReportErrorNotify
  <2>2. ~Unopened /\ ~Reconnecting /\ sock # "opening"
    BY <2>1 DEF OnceInv, OneAtATime, Quiet
  <2>3. OneAtATime'
    BY <2>1, <2>2 DEF OnceInv, OneAtATime, Unopened, Reconnecting, Quiet
  <2>4. EventsInOrder' /\ OpensUnready' /\ ReadyIsLive' /\ SessionShown'
    BY <2>1, NothingSent DEF OnceInv, EventsInOrder, OpensUnready, ReadyIsLive, SessionShown
  <2> QED
    BY <2>3, <2>4 DEF OnceInv
<1> QED
  BY <1>1, <1>2, <1>3, <1>4, <1>5, <1>6, <1>7 DEF ServiceStep

LEMMA OnceLoop ==
  ASSUME TypeOK, OnceInv, LoopStep \/ BackoffTimeout
  PROVE  OnceInv'
<1> USE DEF flags, net, bounds
<1>1. CASE LoopPark
  <2>1. UNCHANGED <<state_, pc, reconnect_pending_, stopping_, closing_, svc, sock, session, inbox, calls, loop>>
    BY <1>1 DEF LoopPark
  <2> QED
    BY <2>1, NothingSent DEF OnceInv, OneAtATime, Unopened, Reconnecting, Quiet, EventsInOrder,
         OpensUnready, ReadyIsLive, SessionShown
<1>2. CASE LoopTake \/ BackoffWake \/ BackoffTimeout
  <2>1. /\ UNCHANGED <<state_, pc, stopping_, closing_, svc, sock, session, inbox, calls>>
        /\ Reconnecting /\ ~reconnect_pending_' /\ loop' \in {"backoff", "store"}
    BY <1>2 DEF LoopTake, BackoffWake, BackoffTimeout, Reconnecting, OnceInv, OneAtATime
  <2>2. Quiet /\ ~Unopened
    BY <2>1 DEF OnceInv, OneAtATime
  <2>3. OneAtATime'
    BY <2>1, <2>2 DEF OnceInv, OneAtATime, Unopened, Reconnecting, Quiet
  <2>4. EventsInOrder' /\ OpensUnready' /\ ReadyIsLive' /\ SessionShown'
    BY <2>1, NothingSent DEF OnceInv, EventsInOrder, OpensUnready, ReadyIsLive, SessionShown
  <2> QED
    BY <2>3, <2>4 DEF OnceInv
<1>3. CASE LoopStore
  <2>1. /\ UNCHANGED <<pc, reconnect_pending_, stopping_, closing_, svc, sock, session, inbox, calls>>
        /\ loop = "store" /\ loop' = "open" /\ state_' = "connecting"
    BY <1>3 DEF LoopStore
  <2>2. Reconnecting /\ Quiet /\ ~Unopened /\ ~reconnect_pending_
    BY <2>1 DEF OnceInv, OneAtATime, Reconnecting
  <2>3. OneAtATime'
    BY <2>1, <2>2 DEF OnceInv, OneAtATime, Unopened, Reconnecting, Quiet
  <2>4. EventsInOrder' /\ OpensUnready' /\ ReadyIsLive' /\ SessionShown'
    BY <2>1, <2>2, NothingSent DEF OnceInv, EventsInOrder, OpensUnready, ReadyIsLive, SessionShown, Quiet
  <2> QED
    BY <2>3, <2>4 DEF OnceInv
<1>4. CASE LoopOpen
  <2>1. /\ UNCHANGED <<state_, pc, reconnect_pending_, stopping_, closing_, svc, inbox, calls>>
        /\ loop = "open" /\ loop' = "idle" /\ SocketOpen
    BY <1>4 DEF LoopOpen, SocketOpen
  <2>2. Reconnecting /\ Quiet /\ ~Unopened /\ ~reconnect_pending_ /\ state_ # "ready"
    BY <2>1 DEF OnceInv, OneAtATime, Reconnecting, OpensUnready
  <2>3. sock' = "opening" /\ session' = "none" /\ inbox = <<>> /\ svc = "idle"
    BY <2>1, <2>2 DEF SocketOpen, Quiet
  <2>4. OneAtATime'
    BY <2>1, <2>2, <2>3 DEF OnceInv, OneAtATime, Unopened, Reconnecting, Quiet
  <2>5. EventsInOrder' /\ OpensUnready' /\ ReadyIsLive' /\ SessionShown'
    BY <2>1, <2>2, <2>3 DEF EventsInOrder, OpensUnready, ReadyIsLive, SessionShown
  <2> QED
    BY <2>4, <2>5 DEF OnceInv
<1>5. ~LoopExit
  BY DEF LoopExit, OnceInv, OneAtATime
<1> QED
  BY <1>1, <1>2, <1>3, <1>4, <1>5 DEF LoopStep

LEMMA OnceNet ==
  ASSUME TypeOK, OnceInv, NetStep
  PROVE  OnceInv'
<1> USE DEF flags, net, bounds
<1>0. /\ UNCHANGED <<state_, pc, reconnect_pending_, stopping_, closing_, svc, calls, loop>>
      /\ sock # "closed"
  BY DEF NetStep, SocketUp, SocketLost, ServerAccept, ServerError, OnceInv, OneAtATime, TypeOK
<1>1. ~Unopened /\ ~Reconnecting /\ svc # "schedule" /\ ~InFlight("disconnected")
  BY <1>0 DEF OnceInv, OneAtATime, Quiet, EventsInOrder, InFlight
<1>2. UNCHANGED <<Unopened, Reconnecting>>
  BY <1>0 DEF Unopened, Reconnecting
<1>3. CASE SocketUp
  <2>1. /\ sock = "opening" /\ sock' = "up" /\ inbox' = Append(inbox, "connected") /\ session' = session
        /\ inbox = <<>> /\ svc = "idle" /\ session = "none"
    BY <1>3 DEF SocketUp, OnceInv, OneAtATime
  <2>2. DOMAIN inbox' = {1} /\ inbox'[1] = "connected"
    BY <2>1
  <2>3. OneAtATime'
    BY <1>0, <1>1, <1>2, <2>1 DEF OnceInv, OneAtATime
  <2>4. EventsInOrder' /\ OpensUnready' /\ SessionShown'
    BY <1>0, <2>1, <2>2 DEF OnceInv, EventsInOrder, OpensUnready, SessionShown
  <2>5. ReadyIsLive'
    BY <1>0, <1>1, <2>1 DEF OnceInv, ReadyIsLive
  <2> QED
    BY <2>3, <2>4, <2>5 DEF OnceInv
<1>4. CASE SocketLost
  <2>1. /\ sock' = "closed" /\ session' = "none" /\ inbox' = Append(inbox, "disconnected")
        /\ "disconnected" \in Events
    BY <1>4 DEF SocketLost, Events
  <2>2. OneAtATime'
    BY <1>0, <1>1, <1>2, <2>1 DEF OnceInv, OneAtATime
  <2>3. EventsInOrder'
    <3>1. InFlight("disconnected")' /\ (InFlight("connected")' <=> InFlight("connected"))
      BY <2>1, Arrived
    <3>2. \A i \in DOMAIN inbox' : 
                (i \in DOMAIN inbox /\ inbox'[i] = inbox[i]) \/ (i = Len(inbox') /\ inbox'[i] = "disconnected")
      BY <2>1, Arrived
    <3>3. \A i \in DOMAIN inbox : inbox[i] # "disconnected"
      BY <1>1 DEF InFlight
    <3> QED
      BY <1>0, <2>1, <3>1, <3>2, <3>3 DEF OnceInv, EventsInOrder
  <2>4. OpensUnready' /\ ReadyIsLive' /\ SessionShown'
    BY <1>0, <2>1, Arrived DEF OnceInv, OpensUnready, ReadyIsLive, SessionShown
  <2> QED
    BY <2>2, <2>3, <2>4 DEF OnceInv
<1>5. CASE ServerAccept \/ ServerError
  <2>1. PICK event \in {"authenticated", "error"} :
          /\ inbox' = Append(inbox, event) /\ sock' = sock /\ session # "none"
          /\ session = "accepted" => session' = "accepted"
          /\ event = "authenticated" => session' = "accepted"
          /\ session' = "accepted" => session = "accepted" \/ event = "authenticated"
    BY <1>5 DEF ServerAccept, ServerError
  <2>2. event \in Events /\ sock = "up"
    BY <2>1 DEF Events, OnceInv, OneAtATime
  <2>3. OneAtATime'
    BY <1>0, <1>1, <1>2, <2>1, <2>2 DEF OnceInv, OneAtATime
  <2>4. \A e : InFlight(e)' <=> InFlight(e) \/ e = event
    BY <2>1, <2>2, Arrived
  <2>5. EventsInOrder'
    <3>1. \A i \in DOMAIN inbox' : 
                (i \in DOMAIN inbox /\ inbox'[i] = inbox[i]) \/ (i = Len(inbox') /\ inbox'[i] = event)
      BY <2>1, <2>2, Arrived
    <3>2. \A i \in DOMAIN inbox : inbox[i] # "disconnected" /\ inbox[i] # "connected"
      BY <1>1, <2>1 DEF InFlight, OnceInv, EventsInOrder
    <3>3. \A i \in DOMAIN inbox : inbox[i] = "authenticated" => session = "accepted"
      BY <1>1 DEF OnceInv, EventsInOrder
    <3> QED
      BY <1>0, <2>1, <2>4, <3>1, <3>2, <3>3 DEF OnceInv, EventsInOrder
  <2>6. OpensUnready' /\ ReadyIsLive' /\ SessionShown'
    BY <1>0, <2>1, <2>4 DEF OnceInv, OpensUnready, ReadyIsLive, SessionShown
  <2> QED
    BY <2>3, <2>5, <2>6 DEF OnceInv
<1> QED
  BY <1>3, <1>4, <1>5 DEF NetStep

LEMMA OnceInit ==
  ASSUME Init
  PROVE  OnceInv
<1>1. DOMAIN inbox = {} /\ \A c \in Callers : pc[c] = "idle"
  BY DEF Init
<1> QED
  BY <1>1 DEF Init, OnceInv, OneAtATime, Unopened, Reconnecting, Quiet, EarlyPc, EventsInOrder,
       OpensUnready, ReadyIsLive, SessionShown, InFlight

LEMMA OnceStep ==
  ASSUME OneConnect, TypeOK, OnceInv, [Next]_vars
  PROVE  OnceInv'
<1>1. CASE UNCHANGED vars
  <2>1. UNCHANGED <<state_, pc, reconnect_pending_, stopping_, closing_, svc, sock, session, inbox, calls, loop>>
    BY <1>1 DEF vars, flags, net, bounds
  <2> QED
    BY <2>1, NothingSent DEF OnceInv, OneAtATime, Unopened, Reconnecting, Quiet, EventsInOrder,
         OpensUnready, ReadyIsLive, SessionShown
<1> QED
  BY <1>1, OnceCall, OnceCaller, OnceService, OnceLoop, OnceNet DEF Next, Rest

LEMMA OnceHolds ==
  ASSUME OneConnect
  PROVE  Spec => []OnceInv
<1>1. Init => OnceInv
  BY OnceInit
<1>2. TypeOK /\ OnceInv /\ [Next]_vars => OnceInv'
  BY OnceStep
<1> QED
  BY <1>1, <1>2, TypeCorrect, PTL DEF Spec

\* However connect(), the callbacks and the reconnect loop interleave, no socket is opened
\* over one that is not closed.
THEOREM ReconnectOpensClosed ==
  ASSUME OneConnect
  PROVE  Spec => []ReconnectOpensClosedSocket
<1>1. OnceInv => ReconnectOpensClosedSocket
  BY DEF OnceInv, OneAtATime, Reconnecting, Quiet, ReconnectOpensClosedSocket
<1> QED
  BY <1>1, OnceHolds, PTL

\* is_ready() is behind the server by no more than the drop in flight (mark_ready(),
\* handle_socket_disconnected() and the stores of "connecting").
THEOREM ReadyStaysLive ==
  ASSUME OneConnect
  PROVE  Spec => []ReadyIsLive
<1>1. OnceInv => ReadyIsLive
  BY DEF OnceInv
<1> QED
  BY <1>1, OnceHolds, PTL

\* Nor does it fail to show a session the server accepted and announced.
THEOREM SessionStaysShown ==
  ASSUME OneConnect
  PROVE  Spec => []SessionShown
<1>1. OnceInv => SessionShown
  BY DEF OnceInv
<1> QED
  BY <1>1, OnceHolds, PTL

-----------------------------------------------------------------------------
(***************************************************************************)
(* The lifecycle implements a Session.  The events a Session sees are what *)
(* is left of the inbox without the server's errors: a recursion along it. *)
(***************************************************************************)

\* f[n] is what is left of the first n events.
LeftOf(f, queue) ==
  /\ f \in [0..Len(queue) -> Seq(Events)]
  /\ f[0] = <<>>
  /\ \A n \in Nat : n + 1 <= Len(queue) =>
       f[n + 1] = IF queue[n + 1] = "error" THEN f[n] ELSE Append(f[n], queue[n + 1])

LEMMA LifecycleSteps ==
  ASSUME NEW queue \in Seq(Events)
  PROVE  \E f : LeftOf(f, queue) /\ LifecycleEvents(queue) = f[Len(queue)]
<1> DEFINE L == Len(queue)
           put(list, i) == IF queue[i] = "error" THEN list ELSE Append(list, queue[i])
           step == [p \in Nat \X Seq(Events) |-> IF p[1] \in 1..L THEN put(p[2], p[1]) ELSE p[2]]
           Equation(f) == f = [n \in 0..L |-> IF n = 0 THEN <<>>
                                 ELSE IF queue[n] = "error" THEN f[n - 1] ELSE Append(f[n - 1], queue[n])]
           kept == CHOOSE f : Equation(f)
<1>1. L \in Nat /\ \A i \in 1..L : queue[i] \in Events
  OBVIOUS
<1>2. LifecycleEvents(queue) = kept[L]
  BY DEF LifecycleEvents
<1>3. \A list, i : put(list, i) = IF queue[i] = "error" THEN list ELSE Append(list, queue[i])
  OBVIOUS
<1> HIDE DEF L
<1>4. ASSUME NEW list \in Seq(Events), NEW i \in 1..L PROVE put(list, i) \in Seq(Events)
  BY <1>1
<1> HIDE DEF put
<1>5. step \in [Nat \X Seq(Events) -> Seq(Events)]
  BY <1>4
<1>6. <<>> \in Seq(Events)
  OBVIOUS
<1>7. PICK f \in [0..L -> Seq(Events)] : Recurs(f, 0..L, <<>>, step)
  <2> HIDE DEF step
  <2> QED
    BY <1>1, <1>5, <1>6, RecursionUpTo
<1>8. ASSUME NEW n \in 0..L PROVE f[n] = IF n = 0 THEN <<>> ELSE put(f[n - 1], n)
  <2>1. CASE n = 0
    BY <1>7, <2>1 DEF Recurs
  <2>2. CASE n # 0
    <3>1. n - 1 \in 0..L /\ (n - 1) + 1 = n /\ n \in 1..L /\ n \in Nat
      BY <1>1, <2>2
    <3>2. f[n] = step[<<n, f[n - 1]>>]
      BY <1>7, <3>1 DEF Recurs
    <3>3. <<n, f[n - 1]>> \in Nat \X Seq(Events)
      BY <1>7, <3>1
    <3> QED
      BY <2>2, <3>1, <3>2, <3>3
  <2> QED
    BY <2>1, <2>2
<1>9. Equation(f)
  BY <1>3, <1>7, <1>8
<1>10. Equation(kept)
  BY <1>9
<1> HIDE DEF kept
<1>11. kept = f
  <2> DEFINE S == {n \in Nat : n <= L => kept[n] = f[n]}
  <2>1. 0 \in S
    BY <1>1, <1>9, <1>10
  <2>2. ASSUME NEW n \in Nat, n \in S PROVE n + 1 \in S
    <3>1. SUFFICES ASSUME n + 1 <= L PROVE kept[n + 1] = f[n + 1]
      OBVIOUS
    <3>2. n + 1 \in 0..L /\ n \in 0..L /\ n + 1 # 0 /\ (n + 1) - 1 = n /\ kept[n] = f[n]
      BY <1>1, <2>2, <3>1
    <3>3. f[n + 1] = (IF queue[n + 1] = "error" THEN f[n] ELSE Append(f[n], queue[n + 1]))
      BY <1>9, <3>2
    <3>4. kept[n + 1] = (IF queue[n + 1] = "error" THEN kept[n] ELSE Append(kept[n], queue[n + 1]))
      BY <1>10, <3>2
    <3> QED
      BY <3>2, <3>3, <3>4
  <2> HIDE DEF S
  <2>3. Nat \subseteq S
    BY <2>1, <2>2, SetInduction
  <2>4. \A n \in 0..L : kept[n] = f[n]
    BY <1>1, <2>3 DEF S
  <2> QED
    BY <1>9, <1>10, <2>4
<1>12. LeftOf(f, queue)
  <2>1. ASSUME NEW n \in Nat, n + 1 <= L
        PROVE  f[n + 1] = IF queue[n + 1] = "error" THEN f[n] ELSE Append(f[n], queue[n + 1])
    <3>1. n + 1 \in 0..L /\ n + 1 # 0 /\ (n + 1) - 1 = n
      BY <1>1, <2>1
    <3> QED
      BY <1>3, <1>8, <3>1
  <2>2. f[0] = <<>>
    BY <1>1, <1>8
  <2> QED
    BY <1>7, <2>1, <2>2 DEF LeftOf, L
<1> QED
  BY <1>2, <1>11, <1>12 DEF L

\* Nothing is left of nothing.
LEMMA NothingLeft == LifecycleEvents(<<>>) = <<>>
<1>1. <<>> \in Seq(Events) /\ Len(<<>>) = 0
  OBVIOUS
<1> QED
  BY <1>1, LifecycleSteps DEF LeftOf

\* Queues that agree on their first k events leave the same of them.
LEMMA LeftAgrees ==
  ASSUME NEW q \in Seq(Events), NEW r \in Seq(Events), NEW f, NEW g, LeftOf(f, q), LeftOf(g, r),
         NEW k \in Nat, k <= Len(q), k <= Len(r), \A i \in 1..k : q[i] = r[i]
  PROVE  f[k] = g[k]
<1> DEFINE S == {n \in Nat : n <= k => f[n] = g[n]}
<1>1. 0 \in S
  BY DEF LeftOf
<1>2. ASSUME NEW n \in Nat, n \in S PROVE n + 1 \in S
  <2>1. SUFFICES ASSUME n + 1 <= k PROVE f[n + 1] = g[n + 1]
    OBVIOUS
  <2>2. f[n] = g[n] /\ q[n + 1] = r[n + 1] /\ n + 1 <= Len(q) /\ n + 1 <= Len(r)
    BY <1>2, <2>1
  <2> QED
    BY <2>2 DEF LeftOf
<1> HIDE DEF S
<1>3. Nat \subseteq S
  BY <1>1, <1>2, SetInduction
<1> QED
  BY <1>3 DEF S

\* An event joins the end of what is left; an error does not.
LEMMA LifecycleArrives ==
  ASSUME NEW queue \in Seq(Events), NEW event \in Events
  PROVE  LifecycleEvents(Append(queue, event)) =
           IF event = "error" THEN LifecycleEvents(queue) ELSE Append(LifecycleEvents(queue), event)
<1> DEFINE longer == Append(queue, event)
<1>1. /\ longer \in Seq(Events) /\ Len(queue) \in Nat /\ Len(longer) = Len(queue) + 1
      /\ longer[Len(queue) + 1] = event /\ \A i \in 1..Len(queue) : longer[i] = queue[i]
  OBVIOUS
<1>2. PICK f : LeftOf(f, queue) /\ LifecycleEvents(queue) = f[Len(queue)]
  BY LifecycleSteps
<1> HIDE DEF longer
<1>3. PICK g : LeftOf(g, longer) /\ LifecycleEvents(longer) = g[Len(longer)]
  BY <1>1, LifecycleSteps
<1>4. g[Len(queue)] = f[Len(queue)]
  BY <1>1, <1>2, <1>3, LeftAgrees
<1>5. g[Len(queue) + 1] = IF event = "error" THEN g[Len(queue)] ELSE Append(g[Len(queue)], event)
  BY <1>1, <1>3 DEF LeftOf
<1> QED
  BY <1>1, <1>2, <1>3, <1>4, <1>5 DEF longer

\* The queue with an event before its first.
Before(event, queue) == <<event>> \o queue

LEMMA BeforeAppends ==
  ASSUME NEW queue \in Seq(Events), NEW first \in Events, NEW event \in Events
  PROVE  Append(Before(first, queue), event) = Before(first, Append(queue, event))
  BY DEF Before

LEMMA BeforeTaken ==
  ASSUME NEW queue \in Seq(Events), NEW first \in Events
  PROVE  /\ Before(first, queue) # <<>>
         /\ Head(Before(first, queue)) = first
         /\ Tail(Before(first, queue)) = queue
  BY DEF Before

LEMMA BeforeNothing ==
  ASSUME NEW first \in Events
  PROVE  Before(first, <<>>) = <<first>>
  BY DEF Before

\* The first event is the first of what is left, unless it is an error.
LEMMA LifecycleTaken ==
  ASSUME NEW queue \in Seq(Events), queue # <<>>
  PROVE  /\ Head(queue) = "error" => LifecycleEvents(Tail(queue)) = LifecycleEvents(queue)
         /\ Head(queue) # "error" =>
              /\ LifecycleEvents(queue) # <<>>
              /\ Head(LifecycleEvents(queue)) = Head(queue)
              /\ LifecycleEvents(Tail(queue)) = Tail(LifecycleEvents(queue))
<1> DEFINE rest == Tail(queue)
           first == Head(queue)
           L == Len(rest)
<1>1. /\ rest \in Seq(Events) /\ L \in Nat /\ Len(queue) = L + 1 /\ first \in Events
      /\ queue[1] = first /\ \A i \in Nat : i + 1 <= L => rest[i + 1] = queue[(i + 1) + 1]
  OBVIOUS
<1>2. PICK f : LeftOf(f, queue) /\ LifecycleEvents(queue) = f[Len(queue)]
  BY LifecycleSteps
<1> HIDE DEF first, rest
<1>3. PICK g : LeftOf(g, rest) /\ LifecycleEvents(rest) = g[L]
  BY <1>1, LifecycleSteps
<1>4. g \in [0..L -> Seq(Events)] /\ g[0] = <<>>
  BY <1>3 DEF LeftOf
<1>s. \A n \in Nat : n + 1 <= L =>
        /\ g[n + 1] = IF rest[n + 1] = "error" THEN g[n] ELSE Append(g[n], rest[n + 1])
        /\ f[(n + 1) + 1] = IF rest[n + 1] = "error" THEN f[n + 1] ELSE Append(f[n + 1], rest[n + 1])
        /\ rest[n + 1] \in Events
  <2>1. SUFFICES ASSUME NEW n \in Nat, n + 1 <= L
                 PROVE  /\ g[n + 1] = IF rest[n + 1] = "error" THEN g[n] ELSE Append(g[n], rest[n + 1])
                        /\ f[(n + 1) + 1] = IF rest[n + 1] = "error" THEN f[n + 1]
                                            ELSE Append(f[n + 1], rest[n + 1])
                        /\ rest[n + 1] \in Events
    OBVIOUS
  <2>2. rest[n + 1] = queue[(n + 1) + 1] /\ (n + 1) + 1 <= Len(queue) /\ n + 1 \in Nat /\ rest[n + 1] \in Events
    BY <1>1, <2>1
  <2> QED
    BY <1>2, <1>3, <2>1, <2>2 DEF LeftOf
<1>f. f[1] = IF first = "error" THEN <<>> ELSE <<first>>
  <2>1. f[0] = <<>> /\ \A n \in Nat : n + 1 <= Len(queue) =>
          f[n + 1] = IF queue[n + 1] = "error" THEN f[n] ELSE Append(f[n], queue[n + 1])
    BY <1>2 DEF LeftOf
  <2>2. 0 \in Nat /\ 0 + 1 = 1 /\ 1 <= Len(queue)
    BY <1>1
  <2>3. f[1] = IF queue[1] = "error" THEN <<>> ELSE Append(<<>>, queue[1])
    BY <2>1, <2>2
  <2>4. Append(<<>>, first) = <<first>>
    OBVIOUS
  <2> QED
    BY <1>1, <2>3, <2>4
<1> HIDE DEF L
<1>5. ASSUME first = "error" PROVE f[L + 1] = g[L]
  <2> DEFINE S == {n \in Nat : n <= L => f[n + 1] = g[n]}
  <2>1. 0 \in S
    BY <1>4, <1>f, <1>5
  <2>2. ASSUME NEW n \in Nat, n \in S PROVE n + 1 \in S
    <3>1. SUFFICES ASSUME n + 1 <= L PROVE f[(n + 1) + 1] = g[n + 1]
      OBVIOUS
    <3>2. f[n + 1] = g[n]
      BY <1>1, <2>2, <3>1
    <3> QED
      BY <1>s, <3>1, <3>2
  <2> HIDE DEF S
  <2>3. Nat \subseteq S
    BY <2>1, <2>2, SetInduction
  <2> QED
    BY <1>1, <2>3 DEF S
<1>6. ASSUME first # "error" PROVE f[L + 1] = Before(first, g[L])
  <2> DEFINE S == {n \in Nat : n <= L => f[n + 1] = Before(first, g[n])}
  <2>1. 0 \in S
    <3>1. Before(first, <<>>) = <<first>>
      BY <1>1, BeforeNothing
    <3> QED
      BY <1>4, <1>f, <1>6, <3>1, 0 + 1 = 1
  <2>2. ASSUME NEW n \in Nat, n \in S PROVE n + 1 \in S
    <3>1. SUFFICES ASSUME n + 1 <= L PROVE f[(n + 1) + 1] = Before(first, g[n + 1])
      OBVIOUS
    <3>2. f[n + 1] = Before(first, g[n]) /\ g[n] \in Seq(Events)
      BY <1>1, <1>4, <2>2, <3>1
    <3>3. Append(Before(first, g[n]), rest[n + 1]) = Before(first, Append(g[n], rest[n + 1]))
      BY <1>1, <1>s, <3>1, <3>2, BeforeAppends
    <3> QED
      BY <1>s, <3>1, <3>2, <3>3
  <2> HIDE DEF S
  <2>3. Nat \subseteq S
    BY <2>1, <2>2, SetInduction
  <2> QED
    BY <1>1, <2>3 DEF S
<1>7. g[L] \in Seq(Events) /\ LifecycleEvents(queue) = f[L + 1] /\ LifecycleEvents(rest) = g[L]
  BY <1>1, <1>2, <1>3, <1>4 DEF L
<1>8. first = "error" => LifecycleEvents(rest) = LifecycleEvents(queue)
  BY <1>5, <1>7
<1>9. ASSUME first # "error"
      PROVE  /\ LifecycleEvents(queue) # <<>>
             /\ Head(LifecycleEvents(queue)) = first
             /\ LifecycleEvents(rest) = Tail(LifecycleEvents(queue))
  <2>1. LifecycleEvents(queue) = Before(first, LifecycleEvents(rest)) /\ LifecycleEvents(rest) \in Seq(Events)
    BY <1>6, <1>7, <1>9
  <2>2. first \in Events
    BY <1>1
  <2> QED
    BY <2>1, <2>2, BeforeTaken
<1> QED
  BY <1>8, <1>9 DEF first, rest


\* While no connection is up or coming, the state says so; and the credentials are under way
\* only while it says that too.
ShownInv ==
  /\ Unopened \/ Reconnecting \/ svc = "schedule" \/ sock = "opening" => Shown = "down"
  /\ svc = "send_auth" \/ session = "auth_sent" => state_ = "authenticating"

LEMMA ShownInit ==
  ASSUME Init
  PROVE  ShownInv
  BY DEF Init, ShownInv, Shown

\* A step that neither opens a socket nor stores the state keeps what is shown.
LEMMA ShownKept ==
  ASSUME ShownInv, UNCHANGED <<state_, session>>,
         Unopened' => Unopened, Reconnecting' => Reconnecting \/ svc = "schedule",
         svc' \in {"schedule", "send_auth"} => svc' = svc, sock' = "opening" => sock = "opening"
  PROVE  ShownInv'
  BY DEF ShownInv, Shown

LEMMA ShownCaller ==
  ASSUME OneConnect, TypeOK, OnceInv, ShownInv, NEW c \in Callers,
         (\E op \in Ops : Call(c, op)) \/ SetReconnectPolicy(c) \/ CallerStep(c) \/ ConnectTimeout(c)
  PROVE  ShownInv'
<1> USE DEF flags, net, bounds, Goto
<1>0. /\ \A to : pc' = [pc EXCEPT ![c] = to] => \A d \in Callers : pc'[d] = IF d = c THEN to ELSE pc[d]
      /\ pc[c] \in ConnectPc \cup {"idle"}
  BY DEF TypeOK, OnceInv, OneAtATime
<1>1. CASE (\E op \in Ops : Call(c, op)) \/ SetReconnectPolicy(c)
  <2>1. PICK op \in Ops : Call(c, op)
    BY <1>1 DEF SetReconnectPolicy, OneConnect
  <2>2. calls = 0 /\ UNCHANGED <<state_, reconnect_pending_, loop, svc, sock, session>>
    BY <2>1 DEF Call, OneConnect, TypeOK
  <2> QED
    BY <2>2 DEF ShownInv, Unopened, Reconnecting, Shown
<1>2. CASE ConnectBegin(c)
  <2>1. /\ UNCHANGED <<state_, reconnect_pending_, svc, sock, session, calls>>
        /\ loop' = (IF loop = "none" THEN "idle" ELSE loop)
        /\ pc[c] = "connect"
    BY <1>2 DEF ConnectBegin
  <2>2. Unopened /\ (Reconnecting' => Reconnecting)
    BY <2>1 DEF Unopened, Reconnecting, EarlyPc
  <2> QED
    BY <2>1, <2>2, ShownKept
<1>3. CASE ConnectStore(c)
  <2>1. UNCHANGED <<svc, session>> /\ state_' = "connecting" /\ pc[c] = "connect_store"
    BY <1>3 DEF ConnectStore
  <2>2. Quiet
    BY <2>1 DEF OnceInv, OneAtATime, Unopened, EarlyPc
  <2> QED
    BY <2>1, <2>2 DEF ShownInv, Shown, Quiet
<1>4. CASE ConnectOpen(c)
  <2>1. UNCHANGED <<state_, svc>> /\ SocketOpen /\ pc[c] = "connect_open"
    BY <1>4 DEF ConnectOpen
  <2>2. Quiet /\ Unopened
    BY <2>1 DEF OnceInv, OneAtATime, Unopened, EarlyPc
  <2>3. Shown = "down" /\ Shown' = Shown
    BY <2>1, <2>2 DEF ShownInv, Shown
  <2>4. session' = "none" /\ svc' = "idle"
    BY <2>1, <2>2 DEF SocketOpen, Quiet
  <2> QED
    BY <2>3, <2>4 DEF ShownInv
<1>5. CASE ConnectRefused(c) \/ ConnectCheck(c) \/ ConnectBlock(c) \/ ConnectTimeout(c) \/ ConnectReturn(c)
  <2>1. /\ UNCHANGED <<state_, reconnect_pending_, svc, sock, session, calls, loop>>
        /\ \E to \in {"idle", "connect_ret", "connect_block", "connect_wait", "connect_expired"} :
             pc' = [pc EXCEPT ![c] = to]
    BY <1>5 DEF ConnectRefused, ConnectCheck, ConnectBlock, ConnectTimeout, ConnectReturn
  <2>2. /\ \A d \in Callers \ {c} : pc'[d] = pc[d]
        /\ pc'[c] \notin EarlyPc
    BY <1>0, <2>1 DEF EarlyPc
  <2>3. (Unopened' => Unopened) /\ (Reconnecting' => Reconnecting)
    BY <2>1, <2>2 DEF Unopened, Reconnecting
  <2> QED
    BY <2>1, <2>3, ShownKept
<1>6. ~( \/ DisconnectBegin(c) \/ DisconnectNotify(c) \/ DisconnectClose(c) \/ DisconnectStore(c)
         \/ ShutdownAgain(c) \/ ShutdownBegin(c) \/ ShutdownNotify(c) \/ ShutdownJoin(c)
         \/ ShutdownClose(c) \/ ShutdownStore(c))
  BY <1>0 DEF DisconnectBegin, DisconnectNotify, DisconnectClose, DisconnectStore, ShutdownAgain,
       ShutdownBegin, ShutdownNotify, ShutdownJoin, ShutdownClose, ShutdownStore, ConnectPc, EarlyPc
<1> QED
  BY <1>1, <1>2, <1>3, <1>4, <1>5, <1>6 DEF CallerStep

LEMMA ShownService ==
  ASSUME TypeOK, OnceInv, ShownInv, ServiceStep
  PROVE  ShownInv'
<1> USE DEF flags, net, bounds
<1>0. UNCHANGED <<pc, calls, loop, sock>>
  BY DEF ServiceStep, HandleConnected, SendAuth, HandleDisconnected, ScheduleReconnect, MarkReady,
     MarkReadyLock, MarkReadyNotify, ReportError, ReportErrorLock, ReportErrorNotify
<1>u. Unopened' <=> Unopened
  BY <1>0 DEF Unopened
<1>1. CASE HandleConnected \/ MarkReady
  <2>1. /\ inbox # <<>> /\ svc = "idle" /\ svc' \in {"send_auth", "ready_lock"}
        /\ UNCHANGED <<reconnect_pending_, session>>
        /\ svc' = "send_auth" => state_' = "authenticating"
    BY <1>1 DEF HandleConnected, MarkReady, Take
  <2>2. ~Unopened /\ ~Reconnecting /\ sock # "opening"
    BY <2>1 DEF OnceInv, OneAtATime, Quiet
  <2>3. ~Unopened' /\ ~Reconnecting'
    BY <1>0, <1>u, <2>1, <2>2 DEF Reconnecting
  <2>4. session # "auth_sent"
    <3>1. CASE HandleConnected
      BY <3>1, Taken DEF HandleConnected, OnceInv, EventsInOrder
    <3>2. CASE MarkReady
      <4>1. session = "accepted" \/ InFlight("disconnected")
        BY <3>2, Taken DEF MarkReady, OnceInv, EventsInOrder
      <4>2. InFlight("disconnected") => session = "none"
        BY DEF InFlight, OnceInv, EventsInOrder, OneAtATime
      <4> QED
        BY <4>1, <4>2
    <3> QED
      BY <1>1, <3>1, <3>2
  <2> QED
    BY <1>0, <2>1, <2>2, <2>3, <2>4 DEF ShownInv
<1>2. CASE HandleDisconnected
  <2>1. Take("disconnected", "schedule") /\ state_' = "disconnected" /\ UNCHANGED session
    BY <1>2 DEF HandleDisconnected
  <2>2. session = "none" /\ svc' = "schedule"
    BY <2>1, Taken DEF OnceInv, OneAtATime, EventsInOrder
  <2> QED
    BY <2>1, <2>2 DEF ShownInv, Shown
<1>3. CASE SendAuth
  <2>1. /\ svc = "send_auth" /\ svc' = "idle" /\ UNCHANGED <<state_, reconnect_pending_>>
    BY <1>3 DEF SendAuth
  <2>2. state_ = "authenticating"
    BY <2>1 DEF ShownInv
  <2>3. ~Unopened /\ ~Reconnecting /\ sock # "opening"
    BY <2>1 DEF OnceInv, OneAtATime, Quiet
  <2>4. ~Unopened' /\ ~Reconnecting'
    BY <1>0, <1>u, <2>1, <2>3 DEF Reconnecting
  <2> QED
    BY <1>0, <2>1, <2>2, <2>3, <2>4 DEF ShownInv
<1>4. CASE ScheduleReconnect
  <2>1. svc = "schedule" /\ svc' = "idle" /\ UNCHANGED <<state_, session>>
    BY <1>4 DEF ScheduleReconnect
  <2> QED
    BY <1>0, <1>u, <2>1, ShownKept
<1>5. CASE MarkReadyLock \/ MarkReadyNotify \/ ReportError \/ ReportErrorLock \/ ReportErrorNotify
  <2>1. /\ svc' \in {"idle", "ready_notify", "error_lock", "error_notify"}
        /\ UNCHANGED <<state_, reconnect_pending_, session>>
    BY <1>5 DEF MarkReadyLock, MarkReadyNotify, ReportError, Take, ReportErrorLock, ReportErrorNotify
  <2>2. Reconnecting' <=> Reconnecting
    BY <1>0, <2>1 DEF Reconnecting
  <2> QED
    BY <1>0, <1>u, <2>1, <2>2, ShownKept
<1> QED
  BY <1>1, <1>2, <1>3, <1>4, <1>5 DEF ServiceStep

LEMMA ShownLoop ==
  ASSUME TypeOK, OnceInv, ShownInv, LoopStep \/ BackoffTimeout
  PROVE  ShownInv'
<1> USE DEF flags, net, bounds
<1>0. UNCHANGED <<pc, calls, svc>>
  BY DEF LoopStep, LoopExit, LoopPark, LoopTake, BackoffWake, BackoffTimeout, LoopStore, LoopOpen
<1>u. Unopened' <=> Unopened
  BY <1>0 DEF Unopened
<1>1. CASE LoopPark \/ LoopTake \/ BackoffWake \/ BackoffTimeout
  <2>1. UNCHANGED <<state_, session, sock>> /\ (Reconnecting' => Reconnecting)
    BY <1>1 DEF LoopPark, LoopTake, BackoffWake, BackoffTimeout, Reconnecting, OnceInv, OneAtATime
  <2> QED
    BY <1>0, <1>u, <2>1, ShownKept
<1>2. CASE LoopStore
  <2>1. state_' = "connecting" /\ UNCHANGED session /\ loop = "store"
    BY <1>2 DEF LoopStore
  <2>2. Quiet
    BY <2>1 DEF OnceInv, OneAtATime, Reconnecting
  <2> QED
    BY <1>0, <2>1, <2>2 DEF ShownInv, Shown, Quiet
<1>3. CASE LoopOpen
  <2>1. UNCHANGED <<state_, svc>> /\ SocketOpen /\ loop = "open"
    BY <1>3 DEF LoopOpen
  <2>2. Quiet /\ Reconnecting
    BY <2>1 DEF OnceInv, OneAtATime, Reconnecting
  <2>3. Shown = "down" /\ Shown' = Shown
    BY <2>1, <2>2 DEF ShownInv, Shown
  <2>4. session' = "none" /\ svc' = "idle"
    BY <2>1, <2>2 DEF SocketOpen, Quiet
  <2> QED
    BY <2>3, <2>4 DEF ShownInv
<1>4. ~LoopExit
  BY DEF LoopExit, OnceInv, OneAtATime
<1> QED
  BY <1>1, <1>2, <1>3, <1>4 DEF LoopStep

LEMMA ShownNet ==
  ASSUME TypeOK, OnceInv, ShownInv, NetStep
  PROVE  ShownInv'
<1> USE DEF flags, net, bounds
<1>0. /\ UNCHANGED <<state_, pc, reconnect_pending_, svc, calls, loop>>
      /\ sock' # "opening" \/ sock' = sock
      /\ session' = "auth_sent" => session = "auth_sent"
  BY DEF NetStep, SocketUp, SocketLost, ServerAccept, ServerError
<1>1. (Unopened' <=> Unopened) /\ (Reconnecting' <=> Reconnecting)
  BY <1>0 DEF Unopened, Reconnecting
<1> QED
  BY <1>0, <1>1 DEF ShownInv, Shown

LEMMA ShownStep ==
  ASSUME OneConnect, TypeOK, OnceInv, ShownInv, [Next]_vars
  PROVE  ShownInv'
<1>1. CASE UNCHANGED vars
  <2>1. UNCHANGED <<state_, pc, reconnect_pending_, svc, sock, session, calls, loop>>
    BY <1>1 DEF vars, flags, net, bounds
  <2>2. (Unopened' <=> Unopened) /\ (Reconnecting' <=> Reconnecting)
    BY <2>1 DEF Unopened, Reconnecting
  <2> QED
    BY <2>1, <2>2, ShownKept
<1> QED
  BY <1>1, ShownCaller, ShownService, ShownLoop, ShownNet DEF Next, Rest


LEMMA ServiceShows ==
  ASSUME TypeOK, ServiceStep
  PROVE  Abstract!Next \/ UNCHANGED Abstract!vars
<1> USE DEF flags, net, bounds
<1>1. ASSUME NEW event \in Events, NEW label, Take(event, label)
      PROVE  /\ event = "error" => UNCHANGED LifecycleEvents(inbox)
             /\ event # "error" => /\ LifecycleEvents(inbox) # <<>>
                                   /\ Head(LifecycleEvents(inbox)) = event
                                   /\ LifecycleEvents(inbox)' = Tail(LifecycleEvents(inbox))
  <2>1. inbox \in Seq(Events) /\ inbox # <<>> /\ Head(inbox) = event /\ inbox' = Tail(inbox)
    BY <1>1 DEF Take, TypeOK
  <2>2. LifecycleEvents(inbox)' = LifecycleEvents(Tail(inbox))
    BY <2>1
  <2> QED
    BY <2>1, <2>2, LifecycleTaken
<1>2. CASE HandleConnected
  <2>1. /\ Take("connected", "send_auth") /\ Shown' = "authenticating" /\ UNCHANGED Connection
    BY <1>2 DEF HandleConnected, Shown, Connection
  <2>2. "connected" \in Events /\ "connected" # "error"
    BY DEF Events
  <2> QED
    BY <1>1, <2>1, <2>2 DEF Abstract!Next, Abstract!Show, Abstract!Shows
<1>3. CASE HandleDisconnected
  <2>1. /\ Take("disconnected", "schedule") /\ Shown' = "down" /\ UNCHANGED Connection
    BY <1>3 DEF HandleDisconnected, Shown, Connection
  <2>2. "disconnected" \in Events /\ "disconnected" # "error"
    BY DEF Events
  <2> QED
    BY <1>1, <2>1, <2>2 DEF Abstract!Next, Abstract!Show, Abstract!Shows
<1>4. CASE MarkReady
  <2>1. /\ Take("authenticated", "ready_lock") /\ Shown' = "ready" /\ UNCHANGED Connection
    BY <1>4 DEF MarkReady, Shown, Connection
  <2>2. "authenticated" \in Events /\ "authenticated" # "error"
    BY DEF Events
  <2> QED
    BY <1>1, <2>1, <2>2 DEF Abstract!Next, Abstract!Show, Abstract!Shows
<1>5. CASE ReportError
  <2>1. PICK label : Take("error", label)
    BY <1>5 DEF ReportError
  <2>2. UNCHANGED <<Connection, Shown>>
    BY <1>5 DEF ReportError, Shown, Connection
  <2>3. "error" \in Events
    BY DEF Events
  <2> QED
    BY <1>1, <2>1, <2>2, <2>3 DEF Abstract!vars
<1>6. CASE SendAuth \/ ScheduleReconnect \/ MarkReadyLock \/ MarkReadyNotify \/ ReportErrorLock \/ ReportErrorNotify
  <2>1. UNCHANGED <<state_, sock, inbox>> /\ (session' = "accepted" <=> session = "accepted")
    BY <1>6 DEF SendAuth, ScheduleReconnect, MarkReadyLock, MarkReadyNotify, ReportErrorLock, ReportErrorNotify
  <2> QED
    BY <2>1 DEF Abstract!vars, Connection, Shown
<1> QED
  BY <1>2, <1>3, <1>4, <1>5, <1>6 DEF ServiceStep

LEMMA NetShows ==
  ASSUME TypeOK, OnceInv, ShownInv, NetStep
  PROVE  Abstract!Next \/ UNCHANGED Abstract!vars
<1> USE DEF flags, net, bounds
<1>0. UNCHANGED <<state_, Shown>>
  BY DEF NetStep, SocketUp, SocketLost, ServerAccept, ServerError, Shown
<1>1. ASSUME NEW event \in Events, inbox' = Append(inbox, event)
      PROVE  LifecycleEvents(inbox)' = IF event = "error" THEN LifecycleEvents(inbox)
                                       ELSE Append(LifecycleEvents(inbox), event)
  <2>1. inbox \in Seq(Events) /\ LifecycleEvents(inbox)' = LifecycleEvents(Append(inbox, event))
    BY <1>1 DEF TypeOK
  <2> QED
    BY <2>1, LifecycleArrives
<1>n. LifecycleEvents(<<>>) = <<>>
  BY NothingLeft
<1>2. CASE SocketUp
  <2>1. sock = "opening" /\ inbox = <<>> /\ Shown = "down" /\ session = "none" /\ inbox' = Append(inbox, "connected")
    BY <1>2 DEF SocketUp, OnceInv, OneAtATime, ShownInv
  <2>2. Connection = "none" /\ Connection' = "up"
    BY <1>2, <2>1 DEF SocketUp, Connection
  <2>3. "connected" \in Events /\ "connected" # "error" /\ Append(<<>>, "connected") = <<"connected">>
    BY DEF Events
  <2>4. LifecycleEvents(inbox) = <<>> /\ LifecycleEvents(inbox)' = <<"connected">>
    BY <1>1, <1>n, <2>1, <2>3
  <2> QED
    BY <1>0, <2>1, <2>2, <2>4 DEF Abstract!Next, Abstract!Open
<1>3. CASE SocketLost
  <2>1. Connection' = "none" /\ inbox' = Append(inbox, "disconnected")
    BY <1>3 DEF SocketLost, Connection
  <2>2. "disconnected" \in Events /\ "disconnected" # "error" /\ Append(<<>>, "disconnected") = <<"disconnected">>
    BY DEF Events
  <2>3. LifecycleEvents(inbox)' = Append(LifecycleEvents(inbox), "disconnected")
    BY <1>1, <2>1, <2>2
  <2>4. CASE sock = "opening"
    <3>1. inbox = <<>> /\ Shown = "down" /\ Connection = "none"
      BY <2>4 DEF OnceInv, OneAtATime, ShownInv, Connection
    <3> QED
      BY <1>0, <1>n, <2>1, <2>2, <2>3, <3>1 DEF Abstract!Next, Abstract!Open
  <2>5. CASE sock = "up"
    <3>1. Connection # "none"
      BY <2>5 DEF Connection
    <3> QED
      BY <1>0, <2>1, <2>3, <3>1 DEF Abstract!Next, Abstract!Drop
  <2> QED
    BY <1>3, <2>4, <2>5 DEF SocketLost, TypeOK
<1>4. CASE ServerAccept
  <2>1. /\ session = "auth_sent" /\ session' = "accepted" /\ sock' = sock
        /\ inbox' = Append(inbox, "authenticated")
    BY <1>4 DEF ServerAccept
  <2>2. sock = "up" /\ Shown = "authenticating"
    BY <2>1 DEF OnceInv, OneAtATime, ShownInv, Shown
  <2>3. Connection = "up" /\ Connection' = "authed"
    BY <2>1, <2>2 DEF Connection
  <2>4. "authenticated" \in Events /\ "authenticated" # "error"
    BY DEF Events
  <2>5. LifecycleEvents(inbox)' = Append(LifecycleEvents(inbox), "authenticated")
    BY <1>1, <2>1, <2>4
  <2> QED
    BY <1>0, <2>2, <2>3, <2>5 DEF Abstract!Next, Abstract!Accept
<1>5. CASE ServerError
  <2>1. /\ inbox' = Append(inbox, "error") /\ sock' = sock
        /\ session' = "accepted" <=> session = "accepted"
    BY <1>5 DEF ServerError
  <2>2. "error" \in Events
    BY DEF Events
  <2>3. UNCHANGED LifecycleEvents(inbox)
    BY <1>1, <2>1, <2>2
  <2> QED
    BY <1>0, <2>1, <2>3 DEF Abstract!vars, Connection
<1> QED
  BY <1>2, <1>3, <1>4, <1>5 DEF NetStep

LEMMA CallerShows ==
  ASSUME OneConnect, TypeOK, OnceInv, ShownInv, NEW c \in Callers,
         (\E op \in Ops : Call(c, op)) \/ SetReconnectPolicy(c) \/ CallerStep(c) \/ ConnectTimeout(c)
  PROVE  UNCHANGED Abstract!vars
<1> USE DEF flags, net, bounds
<1>0. pc[c] \in ConnectPc \cup {"idle"}
  BY DEF OnceInv, OneAtATime
<1>1. CASE ConnectStore(c)
  <2>1. UNCHANGED <<sock, session, inbox>> /\ state_' = "connecting" /\ Unopened
    BY <1>1 DEF ConnectStore, Unopened, EarlyPc
  <2> QED
    BY <2>1 DEF ShownInv, Shown, Connection, Abstract!vars
<1>2. CASE ConnectOpen(c)
  <2>1. UNCHANGED <<state_, inbox>> /\ sock' # "up" /\ Quiet
    BY <1>2 DEF ConnectOpen, SocketOpen, OnceInv, OneAtATime, Unopened, EarlyPc, Quiet
  <2> QED
    BY <2>1 DEF Quiet, Shown, Connection, Abstract!vars
<1>3. CASE ~ConnectStore(c) /\ ~ConnectOpen(c)
  <2>1. UNCHANGED <<state_, sock, session, inbox>>
    BY <1>0, <1>3 DEF CallerStep, Call, SetReconnectPolicy, ConnectTimeout, ConnectRefused, ConnectBegin,
       ConnectCheck, ConnectBlock, ConnectReturn, DisconnectBegin, DisconnectNotify, DisconnectClose,
       DisconnectStore, ShutdownAgain, ShutdownBegin, ShutdownNotify, ShutdownJoin, ShutdownClose,
       ShutdownStore, ConnectPc, EarlyPc
  <2> QED
    BY <2>1 DEF Shown, Connection, Abstract!vars
<1> QED
  BY <1>1, <1>2, <1>3

LEMMA LoopShows ==
  ASSUME TypeOK, OnceInv, ShownInv, LoopStep \/ BackoffTimeout
  PROVE  UNCHANGED Abstract!vars
<1> USE DEF flags, net, bounds
<1>1. CASE LoopStore
  <2>1. UNCHANGED <<sock, session, inbox>> /\ state_' = "connecting" /\ Reconnecting
    BY <1>1 DEF LoopStore, Reconnecting
  <2> QED
    BY <2>1 DEF ShownInv, Shown, Connection, Abstract!vars
<1>2. CASE LoopOpen
  <2>1. UNCHANGED <<state_, inbox>> /\ sock' # "up" /\ Quiet
    BY <1>2 DEF LoopOpen, SocketOpen, OnceInv, OneAtATime, Reconnecting, Quiet
  <2> QED
    BY <2>1 DEF Quiet, Shown, Connection, Abstract!vars
<1>3. CASE LoopExit \/ LoopPark \/ LoopTake \/ BackoffWake \/ BackoffTimeout
  <2>1. UNCHANGED <<state_, sock, session, inbox>>
    BY <1>3 DEF LoopExit, LoopPark, LoopTake, BackoffWake, BackoffTimeout
  <2> QED
    BY <2>1 DEF Shown, Connection, Abstract!vars
<1> QED
  BY <1>1, <1>2, <1>3 DEF LoopStep

LEMMA StepShows ==
  ASSUME OneConnect, TypeOK, OnceInv, ShownInv, [Next]_vars
  PROVE  [Abstract!Next]_(Abstract!vars)
<1>1. CASE UNCHANGED vars
  <2>1. UNCHANGED <<state_, sock, session, inbox>>
    BY <1>1 DEF vars, net
  <2> QED
    BY <2>1 DEF Shown, Connection, Abstract!vars
<1> QED
  BY <1>1, CallerShows, ServiceShows, LoopShows, NetShows DEF Next, Rest

\* Whatever drops, refusals and reconnects the loop and the callbacks go through, a stream
\* connected once shows its caller a Session: each event of the connection once and in order,
\* and no socket opened before the drop of the last one has been shown.
THEOREM SessionImplemented ==
  ASSUME OneConnect
  PROVE  Spec => ImplementsSession
<1>1. Init => OnceInv /\ ShownInv
  BY OnceInit, ShownInit
<1>2. TypeOK /\ OnceInv /\ ShownInv /\ [Next]_vars => (OnceInv /\ ShownInv)'
  BY OnceStep, ShownStep
<1>3. Init => Abstract!Init
  BY NothingLeft DEF Init, Abstract!Init, Shown, Connection
<1>4. TypeOK /\ OnceInv /\ ShownInv /\ [Next]_vars => [Abstract!Next]_(Abstract!vars)
  BY StepShows
<1> QED
  BY <1>1, <1>2, <1>3, <1>4, TypeCorrect, PTL DEF Spec, ImplementsSession, Abstract!Spec
=============================================================================
