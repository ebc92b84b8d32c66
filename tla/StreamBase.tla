----------------------------- MODULE StreamBase -----------------------------
(***************************************************************************)
(* The websocket lifecycle of alpaca::detail::stream_base                  *)
(* (core/src/streaming/stream_base.cpp).                                   *)
(*                                                                         *)
(* Three kinds of threads share the object: the callers of connect(),      *)
(* disconnect(), shutdown() and set_reconnect_policy(); the websocket      *)
(* service thread, which runs the four socket callbacks one at a time; and *)
(* the reconnect thread started by the first connect().  A critical        *)
(* section of mutex_ that neither blocks nor returns inside is one step;   *)
(* every atomic access to state_ outside it, every call into the socket    *)
(* and every notify after an unlock is a step of its own.  connect() keeps *)
(* mutex_ from its predicate to the wait, and from its predicate to the    *)
(* return, so those program points hold the mutex (MutexFree).             *)
(*                                                                         *)
(* The socket (slick::net::Websocket) and the server are external: open()  *)
(* and close() return at once, and what happened is delivered later, in    *)
(* order, to the service thread through inbox.                             *)
(***************************************************************************)
EXTENDS Naturals, Sequences, FiniteSets

CONSTANTS
  Callers,       \* threads that call the public operations
  Program,       \* Program[c]: the operations caller c may call
  Overlap,       \* TRUE: shutdown() may start while other calls are in progress
  Policies,      \* the reconnect policies in use: [enabled, max_attempts]
  MaxAttempts,   \* the largest max_attempts among them
  MaxCalls,      \* bound: calls made in all
  MaxFaults      \* bound: failed opens, drops, refusals and in-band errors in all

Ops == {"connect", "disconnect", "shutdown", "set_reconnect_policy"}

Policy == [enabled : BOOLEAN, max_attempts : Nat]

ASSUME ProgramAssumption == Program \in [Callers -> SUBSET Ops]
ASSUME PolicyAssumption ==
  /\ MaxAttempts \in Nat
  /\ Policies \subseteq Policy
  /\ Policies # {}
  /\ \A p \in Policies : p.max_attempts <= MaxAttempts
ASSUME OverlapAssumption == Overlap \in BOOLEAN
ASSUME BoundsAssumption == MaxCalls \in Nat /\ MaxFaults \in Nat
ASSUME LoopAssumption == "reconnect_loop" \notin Callers

VARIABLES
  state_,              \* the lifecycle state callers see
  reconnect_,          \* the reconnect policy
  reconnect_attempt_,  \* attempts since the last success
  reconnect_pending_,  \* schedule_reconnect() asked the loop for a reconnect
  auth_failed_,        \* an error frame came before the session was ready
  stopping_,           \* shutdown() has begun
  closing_,            \* a caller asked to disconnect
  pc,                  \* where each caller is
  waiting,             \* threads blocked on cv_ and not yet notified
  loop,                \* where the reconnect thread is
  svc,                 \* where the service thread is
  sock,                \* the socket
  session,             \* how far the server is with this socket's handshake
  inbox,               \* events of the socket the service thread has yet to run
  calls,               \* calls made so far
  faults               \* faults so far

flags   == <<reconnect_, reconnect_attempt_, reconnect_pending_, auth_failed_,
             stopping_, closing_>>
net     == <<sock, session, inbox>>
bounds  == <<calls, faults>>
vars    == <<state_, flags, pc, waiting, loop, svc, net, bounds>>

stream_state == {"disconnected", "connecting", "authenticating", "ready"}
Events  == {"connected", "disconnected", "authenticated", "error"}
CallerPc == {"idle",
             "connect", "connect_store", "connect_open", "connect_check",
             "connect_block", "connect_wait", "connect_ret", "connect_expired",
             "disconnect", "disconnect_notify", "disconnect_close", "disconnect_store",
             "shutdown", "shutdown_notify", "shutdown_join", "shutdown_close",
             "shutdown_store"}
LoopPc  == {"none", "idle", "backoff", "store", "open", "exited"}
SvcPc   == {"idle", "send_auth", "schedule", "ready_lock", "ready_notify",
            "error_lock", "error_notify"}

Threads == Callers \cup {"reconnect_loop"}

TypeOK ==
  /\ state_ \in stream_state
  /\ reconnect_ \in Policies
  /\ reconnect_attempt_ \in Nat
  /\ reconnect_pending_ \in BOOLEAN
  /\ auth_failed_ \in BOOLEAN
  /\ stopping_ \in BOOLEAN
  /\ closing_ \in BOOLEAN
  /\ pc \in [Callers -> CallerPc]
  /\ waiting \subseteq Threads
  /\ loop \in LoopPc
  /\ svc \in SvcPc
  /\ sock \in {"closed", "opening", "up"}
  /\ session \in {"none", "auth_sent", "refused", "accepted"}
  /\ inbox \in Seq(Events)
  /\ calls \in Nat
  /\ faults \in Nat

Init ==
  /\ state_ = "disconnected"
  /\ reconnect_ \in Policies
  /\ reconnect_attempt_ = 0
  /\ reconnect_pending_ = FALSE
  /\ auth_failed_ = FALSE
  /\ stopping_ = FALSE
  /\ closing_ = FALSE
  /\ pc = [c \in Callers |-> "idle"]
  /\ waiting = {}
  /\ loop = "none"
  /\ svc = "idle"
  /\ sock = "closed"
  /\ session = "none"
  /\ inbox = <<>>
  /\ calls = 0
  /\ faults = 0

(***************************************************************************)
(* The mutex, the condition variable and the socket.                       *)
(***************************************************************************)

\* connect() owns mutex_ between its predicate and the wait or the return.
MutexFree ==
  \A c \in Callers : pc[c] \notin {"connect_block", "connect_ret", "connect_expired"}

\* cv_.notify_all(): nobody is left blocked.
NotifyAll == waiting' = {}

\* ws.open(): a closed socket starts opening.  What open() does to a socket that
\* is not closed is the library's choice: nothing, or a fresh connection.
SocketOpen ==
  /\ UNCHANGED inbox
  /\ \/ /\ sock' = "opening"
        /\ session' = "none"
     \/ /\ sock # "closed"
        /\ UNCHANGED <<sock, session>>

\* ws.close(): an open socket closes, and the disconnected callback may follow.
SocketClose ==
  IF sock = "closed"
  THEN UNCHANGED net
  ELSE /\ sock' = "closed"
       /\ session' = "none"
       /\ inbox' \in {inbox, Append(inbox, "disconnected")}

(***************************************************************************)
(* connect()                                                               *)
(***************************************************************************)

\* The predicate connect() waits for.
ConnectSettled == stopping_ \/ auth_failed_ \/ state_ = "ready"

Goto(c, label) == pc' = [pc EXCEPT ![c] = label]

Call(c, op) ==
  /\ pc[c] = "idle"
  /\ op \in Program[c] \ {"set_reconnect_policy"}
  /\ calls < MaxCalls
  /\ op = "shutdown" => Overlap \/ \A d \in Callers : pc[d] = "idle"
  /\ ~Overlap => \A d \in Callers : pc[d] \notin {"shutdown", "shutdown_notify",
                        "shutdown_join", "shutdown_close", "shutdown_store"}
  /\ calls' = calls + 1
  /\ Goto(c, op)
  /\ UNCHANGED <<state_, flags, waiting, loop, svc, net, faults>>

ConnectRefused(c) ==
  /\ pc[c] = "connect"
  /\ MutexFree
  /\ stopping_
  /\ Goto(c, "idle")
  /\ UNCHANGED <<state_, flags, waiting, loop, svc, net, bounds>>

ConnectBegin(c) ==
  /\ pc[c] = "connect"
  /\ MutexFree
  /\ ~stopping_
  /\ closing_' = FALSE
  /\ reconnect_attempt_' = 0
  /\ auth_failed_' = FALSE
  /\ loop' = IF loop = "none" THEN "idle" ELSE loop
  /\ Goto(c, "connect_store")
  /\ UNCHANGED <<state_, reconnect_, reconnect_pending_, stopping_, waiting, svc, net, bounds>>

ConnectStore(c) ==
  /\ pc[c] = "connect_store"
  /\ state_' = "connecting"
  /\ Goto(c, "connect_open")
  /\ UNCHANGED <<flags, waiting, loop, svc, net, bounds>>

ConnectOpen(c) ==
  /\ pc[c] = "connect_open"
  /\ SocketOpen
  /\ Goto(c, "connect_check")
  /\ UNCHANGED <<state_, flags, waiting, loop, svc, bounds>>

\* The predicate is evaluated on entry to wait_for and after every wake-up.
ConnectCheck(c) ==
  /\ \/ pc[c] = "connect_check"
     \/ /\ pc[c] = "connect_wait"
        /\ c \notin waiting
  /\ MutexFree
  /\ Goto(c, IF ConnectSettled THEN "connect_ret" ELSE "connect_block")
  /\ UNCHANGED <<state_, flags, waiting, loop, svc, net, bounds>>

ConnectBlock(c) ==
  /\ pc[c] = "connect_block"
  /\ waiting' = waiting \cup {c}
  /\ Goto(c, "connect_wait")
  /\ UNCHANGED <<state_, flags, loop, svc, net, bounds>>

ConnectTimeout(c) ==
  /\ pc[c] = "connect_wait"
  /\ MutexFree
  /\ waiting' = waiting \ {c}
  /\ Goto(c, "connect_expired")
  /\ UNCHANGED <<state_, flags, loop, svc, net, bounds>>

\* return state == ready: the value read here is the verdict the caller gets.
ConnectReturn(c) ==
  /\ pc[c] \in {"connect_ret", "connect_expired"}
  /\ Goto(c, "idle")
  /\ UNCHANGED <<state_, flags, waiting, loop, svc, net, bounds>>

(***************************************************************************)
(* disconnect(), shutdown(), set_reconnect_policy()                        *)
(***************************************************************************)

\* Mutant of DisconnectBegin: the pending reconnect is left to the loop.
DisconnectBeginKeepsPending(c) ==
  /\ pc[c] = "disconnect"
  /\ MutexFree
  /\ closing_' = TRUE
  /\ Goto(c, "disconnect_notify")
  /\ UNCHANGED <<state_, reconnect_, reconnect_attempt_, reconnect_pending_, auth_failed_,
                 stopping_, waiting, loop, svc, net, bounds>>

DisconnectBegin(c) ==
  /\ pc[c] = "disconnect"
  /\ MutexFree
  /\ closing_' = TRUE
  /\ reconnect_pending_' = FALSE
  /\ Goto(c, "disconnect_notify")
  /\ UNCHANGED <<state_, reconnect_, reconnect_attempt_, auth_failed_, stopping_,
                 waiting, loop, svc, net, bounds>>

DisconnectNotify(c) ==
  /\ pc[c] = "disconnect_notify"
  /\ NotifyAll
  /\ Goto(c, "disconnect_close")
  /\ UNCHANGED <<state_, flags, loop, svc, net, bounds>>

DisconnectClose(c) ==
  /\ pc[c] = "disconnect_close"
  /\ SocketClose
  /\ Goto(c, "disconnect_store")
  /\ UNCHANGED <<state_, flags, waiting, loop, svc, bounds>>

DisconnectStore(c) ==
  /\ pc[c] = "disconnect_store"
  /\ state_' = "disconnected"
  /\ Goto(c, "idle")
  /\ UNCHANGED <<flags, waiting, loop, svc, net, bounds>>

ShutdownAgain(c) ==
  /\ pc[c] = "shutdown"
  /\ MutexFree
  /\ stopping_
  /\ Goto(c, "idle")
  /\ UNCHANGED <<state_, flags, waiting, loop, svc, net, bounds>>

ShutdownBegin(c) ==
  /\ pc[c] = "shutdown"
  /\ MutexFree
  /\ ~stopping_
  /\ stopping_' = TRUE
  /\ closing_' = TRUE
  /\ Goto(c, "shutdown_notify")
  /\ UNCHANGED <<state_, reconnect_, reconnect_attempt_, reconnect_pending_, auth_failed_,
                 waiting, loop, svc, net, bounds>>

\* Mutant of ShutdownNotify: nobody is woken before the join.
ShutdownNotifyNobody(c) ==
  /\ pc[c] = "shutdown_notify"
  /\ Goto(c, "shutdown_join")
  /\ UNCHANGED <<state_, flags, waiting, loop, svc, net, bounds>>

ShutdownNotify(c) ==
  /\ pc[c] = "shutdown_notify"
  /\ NotifyAll
  /\ Goto(c, "shutdown_join")
  /\ UNCHANGED <<state_, flags, loop, svc, net, bounds>>

\* Mutant of ShutdownJoin: the socket is closed without waiting for the reconnect thread.
ShutdownJoinSkipped(c) ==
  /\ pc[c] = "shutdown_join"
  /\ Goto(c, "shutdown_close")
  /\ UNCHANGED <<state_, flags, waiting, loop, svc, net, bounds>>

\* join() returns once the reconnect thread has; there may never have been one.
ShutdownJoin(c) ==
  /\ pc[c] = "shutdown_join"
  /\ loop \in {"none", "exited"}
  /\ Goto(c, "shutdown_close")
  /\ UNCHANGED <<state_, flags, waiting, loop, svc, net, bounds>>

ShutdownClose(c) ==
  /\ pc[c] = "shutdown_close"
  /\ SocketClose
  /\ Goto(c, "shutdown_store")
  /\ UNCHANGED <<state_, flags, waiting, loop, svc, bounds>>

ShutdownStore(c) ==
  /\ pc[c] = "shutdown_store"
  /\ state_' = "disconnected"
  /\ Goto(c, "idle")
  /\ UNCHANGED <<flags, waiting, loop, svc, net, bounds>>

SetReconnectPolicy(c) ==
  /\ pc[c] = "idle"
  /\ "set_reconnect_policy" \in Program[c]
  /\ calls < MaxCalls
  /\ MutexFree
  /\ reconnect_' \in Policies
  /\ calls' = calls + 1
  /\ UNCHANGED <<state_, reconnect_attempt_, reconnect_pending_, auth_failed_, stopping_,
                 closing_, pc, waiting, loop, svc, net, faults>>

(***************************************************************************)
(* The service thread: one callback at a time, in the order of inbox.      *)
(***************************************************************************)

Take(event, label) ==
  /\ svc = "idle"
  /\ inbox # <<>>
  /\ Head(inbox) = event
  /\ inbox' = Tail(inbox)
  /\ svc' = label

\* handle_socket_connected(): the state, then the credentials.
HandleConnected ==
  /\ Take("connected", "send_auth")
  /\ state_' = "authenticating"
  /\ UNCHANGED <<flags, pc, waiting, loop, sock, session, bounds>>

SendAuth ==
  /\ svc = "send_auth"
  /\ session' = IF sock = "up" /\ session = "none" THEN "auth_sent" ELSE session
  /\ svc' = "idle"
  /\ UNCHANGED <<state_, flags, pc, waiting, loop, sock, inbox, bounds>>

\* Mutant of HandleDisconnected: the previous state is read but not replaced.
HandleDisconnectedKeepsState ==
  /\ Take("disconnected", "schedule")
  /\ UNCHANGED <<state_, flags, pc, waiting, loop, sock, session, bounds>>

\* Mutant of HandleDisconnected: a drop is shown only once the stream had been ready.
HandleDisconnectedWhenReady ==
  /\ Take("disconnected", "schedule")
  /\ state_' = IF state_ = "ready" THEN "disconnected" ELSE state_
  /\ UNCHANGED <<flags, pc, waiting, loop, sock, session, bounds>>

\* handle_socket_disconnected(): the state, the caller's handler, schedule_reconnect().
HandleDisconnected ==
  /\ Take("disconnected", "schedule")
  /\ state_' = "disconnected"
  /\ UNCHANGED <<flags, pc, waiting, loop, sock, session, bounds>>

\* Mutant of MayReconnect: one attempt too many.
MayReconnectOnceMore ==
  /\ ~stopping_
  /\ ~closing_
  /\ reconnect_.enabled
  /\ reconnect_.max_attempts # 0 => reconnect_attempt_ <= reconnect_.max_attempts

MayReconnect ==
  /\ ~stopping_
  /\ ~closing_
  /\ reconnect_.enabled
  /\ reconnect_.max_attempts # 0 => reconnect_attempt_ < reconnect_.max_attempts

\* Mutant of ScheduleReconnect: the request is filed and the loop is not woken.
ScheduleReconnectSilently ==
  /\ svc = "schedule"
  /\ MutexFree
  /\ svc' = "idle"
  /\ reconnect_pending_' = (MayReconnect \/ reconnect_pending_)
  /\ UNCHANGED <<state_, reconnect_, reconnect_attempt_, auth_failed_, stopping_, closing_,
                 pc, waiting, loop, net, bounds>>

ScheduleReconnect ==
  /\ svc = "schedule"
  /\ MutexFree
  /\ svc' = "idle"
  /\ IF MayReconnect
     THEN reconnect_pending_' = TRUE /\ NotifyAll
     ELSE UNCHANGED <<reconnect_pending_, waiting>>
  /\ UNCHANGED <<state_, reconnect_, reconnect_attempt_, auth_failed_, stopping_, closing_,
                 pc, loop, net, bounds>>

\* mark_ready(): the state outside the mutex, the attempts under it, the wake-up after it.
MarkReady ==
  /\ Take("authenticated", "ready_lock")
  /\ state_' = "ready"
  /\ UNCHANGED <<flags, pc, waiting, loop, sock, session, bounds>>

\* Mutant of MarkReadyLock: the attempts are reset without taking the mutex.
MarkReadyUnlocked ==
  /\ svc = "ready_lock"
  /\ reconnect_attempt_' = 0
  /\ svc' = "ready_notify"
  /\ UNCHANGED <<state_, reconnect_, reconnect_pending_, auth_failed_, stopping_, closing_,
                 pc, waiting, loop, net, bounds>>

\* Mutant of MarkReadyLock: success takes one attempt back instead of all.
MarkReadyTakesOneBack ==
  /\ svc = "ready_lock"
  /\ MutexFree
  /\ reconnect_attempt_' = reconnect_attempt_ - 1
  /\ svc' = "ready_notify"
  /\ UNCHANGED <<state_, reconnect_, reconnect_pending_, auth_failed_, stopping_, closing_,
                 pc, waiting, loop, net, bounds>>

MarkReadyLock ==
  /\ svc = "ready_lock"
  /\ MutexFree
  /\ reconnect_attempt_' = 0
  /\ svc' = "ready_notify"
  /\ UNCHANGED <<state_, reconnect_, reconnect_pending_, auth_failed_, stopping_, closing_,
                 pc, waiting, loop, net, bounds>>

MarkReadyNotify ==
  /\ svc = "ready_notify"
  /\ NotifyAll
  /\ svc' = "idle"
  /\ UNCHANGED <<state_, flags, pc, loop, net, bounds>>

\* Mutant of ReportError: every error frame takes the stream down.
ReportErrorDemotes ==
  /\ Take("error", IF state_ = "ready" THEN "idle" ELSE "error_lock")
  /\ state_' = "disconnected"
  /\ UNCHANGED <<flags, pc, waiting, loop, sock, session, bounds>>

\* report_error(): only an error that lands before `ready` releases connect().
ReportError ==
  /\ Take("error", IF state_ = "ready" THEN "idle" ELSE "error_lock")
  /\ UNCHANGED <<state_, flags, pc, waiting, loop, sock, session, bounds>>

ReportErrorLock ==
  /\ svc = "error_lock"
  /\ MutexFree
  /\ auth_failed_' = TRUE
  /\ svc' = "error_notify"
  /\ UNCHANGED <<state_, reconnect_, reconnect_attempt_, reconnect_pending_, stopping_,
                 closing_, pc, waiting, loop, net, bounds>>

ReportErrorNotify ==
  /\ svc = "error_notify"
  /\ NotifyAll
  /\ svc' = "idle"
  /\ UNCHANGED <<state_, flags, pc, loop, net, bounds>>

(***************************************************************************)
(* The reconnect thread.                                                   *)
(***************************************************************************)

Awake == "reconnect_loop" \notin waiting

Park == waiting' = waiting \cup {"reconnect_loop"}

LoopExit ==
  /\ loop \in {"idle", "backoff"}
  /\ Awake
  /\ MutexFree
  /\ stopping_
  /\ loop' = "exited"
  /\ UNCHANGED <<state_, flags, pc, waiting, svc, net, bounds>>

LoopPark ==
  /\ loop = "idle"
  /\ Awake
  /\ MutexFree
  /\ ~stopping_ /\ ~reconnect_pending_
  /\ Park
  /\ UNCHANGED <<state_, flags, pc, loop, svc, net, bounds>>

\* Mutant of LoopTake: the request stays pending once taken.
LoopTakeKeepsPending ==
  /\ loop = "idle"
  /\ Awake
  /\ MutexFree
  /\ ~stopping_ /\ reconnect_pending_
  /\ reconnect_attempt_' = reconnect_attempt_ + 1
  /\ IF closing_
     THEN UNCHANGED <<loop, waiting>>
     ELSE loop' = "backoff" /\ Park
  /\ UNCHANGED <<state_, reconnect_, reconnect_pending_, auth_failed_, stopping_, closing_,
                 pc, svc, net, bounds>>

\* A request is taken and the backoff begins, unless a caller is closing already.
LoopTake ==
  /\ loop = "idle"
  /\ Awake
  /\ MutexFree
  /\ ~stopping_ /\ reconnect_pending_
  /\ reconnect_pending_' = FALSE
  /\ reconnect_attempt_' = reconnect_attempt_ + 1
  /\ IF closing_
     THEN UNCHANGED <<loop, waiting>>
     ELSE loop' = "backoff" /\ Park
  /\ UNCHANGED <<state_, reconnect_, auth_failed_, stopping_, closing_, pc, svc, net, bounds>>

BackoffWake ==
  /\ loop = "backoff"
  /\ Awake
  /\ MutexFree
  /\ ~stopping_
  /\ IF closing_
     THEN loop' = "idle" /\ UNCHANGED waiting
     ELSE UNCHANGED loop /\ Park
  /\ UNCHANGED <<state_, flags, pc, svc, net, bounds>>

\* The backoff elapsed; the predicate is evaluated once more, then the mutex released.
BackoffTimeout ==
  /\ loop = "backoff"
  /\ MutexFree
  /\ waiting' = waiting \ {"reconnect_loop"}
  /\ loop' = IF stopping_ THEN "exited" ELSE IF closing_ THEN "idle" ELSE "store"
  /\ UNCHANGED <<state_, flags, pc, svc, net, bounds>>

LoopStore ==
  /\ loop = "store"
  /\ state_' = "connecting"
  /\ loop' = "open"
  /\ UNCHANGED <<flags, pc, waiting, svc, net, bounds>>

LoopOpen ==
  /\ loop = "open"
  /\ SocketOpen
  /\ loop' = "idle"
  /\ UNCHANGED <<state_, flags, pc, waiting, svc, bounds>>

(***************************************************************************)
(* The network and the server.                                             *)
(***************************************************************************)

SocketUp ==
  /\ sock = "opening"
  /\ sock' = "up"
  /\ inbox' = Append(inbox, "connected")
  /\ UNCHANGED <<state_, flags, pc, waiting, loop, svc, session, bounds>>

\* The open fails, or the established connection drops.
SocketLost ==
  /\ sock # "closed"
  /\ \/ /\ faults < MaxFaults
        /\ faults' = faults + 1
     \/ /\ session = "refused"
        /\ UNCHANGED faults
  /\ sock' = "closed"
  /\ session' = "none"
  /\ inbox' = Append(inbox, "disconnected")
  /\ UNCHANGED <<state_, flags, pc, waiting, loop, svc, calls>>

ServerAccept ==
  /\ session = "auth_sent"
  /\ session' = "accepted"
  /\ inbox' = Append(inbox, "authenticated")
  /\ UNCHANGED <<state_, flags, pc, waiting, loop, svc, sock, bounds>>

\* Bad credentials before `ready`, or an in-band error (symbol limit, ...) after it.
ServerError ==
  /\ session \in {"auth_sent", "accepted"}
  /\ faults < MaxFaults
  /\ faults' = faults + 1
  /\ session' = IF session = "auth_sent" THEN "refused" ELSE session
  /\ inbox' = Append(inbox, "error")
  /\ UNCHANGED <<state_, flags, pc, waiting, loop, svc, sock, calls>>

(***************************************************************************)
(* The specification.                                                      *)
(***************************************************************************)

CallerStep(c) ==
  \/ ConnectRefused(c) \/ ConnectBegin(c) \/ ConnectStore(c) \/ ConnectOpen(c)
  \/ ConnectCheck(c) \/ ConnectBlock(c) \/ ConnectReturn(c)
  \/ DisconnectBegin(c) \/ DisconnectNotify(c) \/ DisconnectClose(c) \/ DisconnectStore(c)
  \/ ShutdownAgain(c) \/ ShutdownBegin(c) \/ ShutdownNotify(c) \/ ShutdownJoin(c)
  \/ ShutdownClose(c) \/ ShutdownStore(c)

ServiceStep ==
  \/ HandleConnected \/ SendAuth \/ HandleDisconnected \/ ScheduleReconnect
  \/ MarkReady \/ MarkReadyLock \/ MarkReadyNotify
  \/ ReportError \/ ReportErrorLock \/ ReportErrorNotify

LoopStep ==
  \/ LoopExit \/ LoopPark \/ LoopTake \/ BackoffWake \/ LoopStore \/ LoopOpen

NetStep == SocketUp \/ SocketLost \/ ServerAccept \/ ServerError

\* Nothing is under way: the stream may rest here for ever.
AtRest ==
  /\ \A c \in Callers : pc[c] = "idle"
  /\ svc = "idle" /\ inbox = <<>>
  /\ \/ loop \in {"none", "exited"}
     \/ /\ loop = "idle"
        /\ ~Awake
  /\ sock = "closed" \/ session = "accepted"

Rest == AtRest /\ UNCHANGED vars

Next ==
  \/ \E c \in Callers : \/ \E op \in Ops : Call(c, op)
                        \/ CallerStep(c)
                        \/ ConnectTimeout(c)
                        \/ SetReconnectPolicy(c)
  \/ ServiceStep
  \/ LoopStep
  \/ BackoffTimeout
  \/ NetStep
  \/ Rest

\* Threads run, the backoff timer (max_backoff_ms at most) fires, an open socket comes up
\* or fails, the server answers the credentials and closes what it refused.  Nothing forces
\* a call, a fault or the timeout of connect().
Fairness ==
  /\ \A c \in Callers : WF_vars(CallerStep(c))
  /\ WF_vars(ServiceStep)
  /\ WF_vars(LoopStep)
  /\ WF_vars(BackoffTimeout)
  /\ WF_vars(SocketUp)
  /\ WF_vars(ServerAccept)
  /\ WF_vars(SocketLost /\ session = "refused")

Spec == Init /\ [][Next]_vars /\ Fairness

-----------------------------------------------------------------------------
(***************************************************************************)
(* Properties that hold whatever the callers do.                           *)
(***************************************************************************)

\* The reconnect counter never passes the limit the policy sets, although the test
\* (schedule_reconnect, service thread) and the increment (reconnect_loop) are in critical
\* sections of two threads, with connect() and mark_ready() resetting it in between.
AttemptsBounded ==
  (\A p \in Policies : p.max_attempts # 0) => reconnect_attempt_ <= MaxAttempts

\* No reconnect request survives a disconnect(), nor is one filed by the disconnected
\* callback that the close itself provokes: a pending request means no caller is closing
\* (or the loop is about to exit).
CloseCancelsPending == reconnect_pending_ /\ closing_ => stopping_

InShutdown(c) == pc[c] \in {"shutdown_notify", "shutdown_join", "shutdown_close",
                            "shutdown_store"}

\* When shutdown() has returned, the reconnect thread is gone and the socket is closed for
\* good: join() comes before close(), so the loop cannot reopen what was just closed.
ShutdownIsFinal ==
  (stopping_ /\ ~\E c \in Callers : InShutdown(c)) =>
    loop \in {"none", "exited"} /\ sock = "closed"

\* A connect() is never left blocked once the stream is ready, refused or stopping: mark_ready()
\* stores the state outside the mutex, and only its later lock-and-notify closes the window
\* between the predicate and the wait.  The timeout of connect() plays no part in this.
ConnectNotStranded ==
  \A c \in Callers : []<>~(pc[c] = "connect_wait" /\ ConnectSettled)

\* shutdown() returns: the reconnect thread is woken from either of its waits and joins.
ShutdownReturns ==
  \A c \in Callers : pc[c] = "shutdown" ~> pc[c] = "idle"

-----------------------------------------------------------------------------
(***************************************************************************)
(* Properties of a stream that is connected once and then left alone.      *)
(***************************************************************************)

\* The reconnect loop opens the socket only when it is down: no reconnect tears down or
\* doubles a live session.
ReconnectOpensClosedSocket == loop \in {"store", "open"} => sock = "closed"

InFlight(event) == \E i \in DOMAIN inbox : inbox[i] = event

\* is_ready() is never stale beyond the callback in flight: a stream that says `ready` has
\* a session the server accepted, or the drop is still on its way to the service thread.
ReadyIsLive == state_ = "ready" => session = "accepted" \/ InFlight("disconnected")

\* Conversely, an accepted session whose acknowledgement was delivered shows as `ready`: no
\* late store of the reconnect loop or of connect() hides a live session from callers.
SessionShown ==
  (session = "accepted" /\ ~InFlight("authenticated")) => state_ = "ready"

\* Once faults cease, the stream is ready for good.
Reestablished == [](calls > 0 => <>[](state_ = "ready"))

Connection == IF sock # "up" THEN "none" ELSE IF session = "accepted" THEN "authed" ELSE "up"

Shown == IF state_ \in {"disconnected", "connecting"} THEN "down" ELSE state_

\* The events of a queue that are about the connection: all but the server's errors.
LifecycleEvents(queue) ==
  LET upTo[n \in 0..Len(queue)] ==
        IF n = 0 THEN <<>>
        ELSE IF queue[n] = "error" THEN upTo[n - 1] ELSE Append(upTo[n - 1], queue[n])
  IN  upTo[Len(queue)]

Abstract == INSTANCE Session WITH
  conn <- Connection, shown <- Shown, events <- LifecycleEvents(inbox)

\* The loop, the callbacks and the stores of state_ made outside the mutex show the caller a
\* Session: each event once and in order, and no socket opened over an event not yet shown.
ImplementsSession == Abstract!Spec

-----------------------------------------------------------------------------
(***************************************************************************)
(* What comments and tests say, and the interleavings of the code refute.  *)
(***************************************************************************)

AllIdle == \A c \in Callers : pc[c] = "idle"

\* stream_base.hpp:98: disconnect() "closes the socket and cancels any pending reconnect":
\* after it has returned, with no call in progress, the socket is not being opened.
DisconnectStaysClosed == (AllIdle /\ closing_) => sock = "closed"
=============================================================================
