------------------------------- MODULE Streams -------------------------------
(***************************************************************************)
(* What the five streams make of the frames they are sent: the handshake,  *)
(* the batches, the errors and the messages for the caller's handlers.     *)
(* StreamBase is the same socket seen by its threads, DataStream its       *)
(* subscriptions, FrameDecoder the bytes of an option frame; here the      *)
(* service thread is alone, handles one event of the socket after another, *)
(* and a frame is the messages in it.                                      *)
(*                                                                         *)
(* The server is external.  It accepts or refuses the credentials, sends   *)
(* any frame at any time, and confirms nothing it has not accepted.        *)
(***************************************************************************)
EXTENDS Integers, Sequences

CONSTANTS
  Settings,      \* [kind, handlers, channels]: the streams, and what their callers installed
  Frames(_),     \* the frames the server may send to a stream, besides its handshake
  MaxFrames,     \* bound: frames and handshakes sent
  MaxSessions    \* bound: connections opened

ASSUME BoundAssumption == MaxFrames \in Nat /\ MaxSessions \in Nat

Kinds == {"stock", "crypto", "news", "option", "trade_update"}

Handlers ==
  {"on_connected", "on_disconnected", "on_error", "on_subscription", "on_trade", "on_quote",
   "on_bar", "on_updated_bar", "on_daily_bar", "on_status", "on_luld", "on_correction",
   "on_cancel_error", "on_imbalance", "on_orderbook", "on_news", "on_trade_update"}

Setting == [kind : Kinds, handlers : SUBSET Handlers, channels : BOOLEAN]

ASSUME SettingAssumption == Settings \subseteq Setting

Types == {"success", "error", "subscription", "authorization", "listening", "trade_updates",
          "t", "q", "b", "u", "d", "s", "l", "c", "x", "i", "o", "n", "none"}

Texts == {"connected", "authenticated", "authorized", "refused", "none"}

Messages == [T : Types, msg : Texts, stamp : {"text", "number"}]

Confirms(m) ==
  \/ m.T = "success" /\ m.msg = "authenticated"
  \/ m.T = "authorization" /\ m.msg = "authorized"

FrameSet == [codec : {"json", "msgpack"}, whole : BOOLEAN, batch : Seq(Messages)]

\* Only the handshake confirms the credentials.
ASSUME FrameAssumption ==
  \A s \in Settings : \A frame \in Frames(s) :
    /\ frame \in FrameSet
    /\ \A i \in DOMAIN frame.batch : ~Confirms(frame.batch[i])

VARIABLES
  stream,        \* which stream, with which handlers
  conn,          \* the server's view: "none", "up", "accepted" or "refused"
  asked,         \* whether this connection has been sent what on_ready() sends
  sessions,      \* connections opened
  sent,          \* history: the frames sent, in order
  queue,         \* what the socket has for the service thread: events, and numbers of frames
  at,            \* the message to be handled next of the frame at the head, 0 between frames
  state,         \* what is_ready() and its like show
  marking,       \* what mark_ready() has yet to do, "done" outside it
  auth_failed,   \* connect() is to stop waiting
  calls          \* history: the caller's handlers, called for message i of frame f

server == <<conn, sessions, sent>>
client == <<asked, at, state, marking, auth_failed, calls>>
vars   == <<stream, server, queue, client>>

Connected    == 0
Disconnected == -1

\* In the queue a positive number is a frame.
IsFrame(event) == event > 0

Busy == at > 0

Frame == sent[Head(queue)]

TypeOK ==
  /\ stream \in Settings
  /\ conn \in {"none", "up", "accepted", "refused"}
  /\ asked \in BOOLEAN /\ auth_failed \in BOOLEAN
  /\ sessions \in 0..MaxSessions
  /\ sent \in Seq(FrameSet)
  /\ queue \in Seq(Int)
  /\ \A i \in DOMAIN queue : queue[i] \in -1..Len(sent)
  /\ calls \in Seq(Handlers \X Int \X Nat)
  /\ state \in {"disconnected", "authenticating", "ready"}
  /\ marking \in {"on_ready", "on_connected", "done"}
  /\ at \in Nat
  /\ Busy => queue # <<>> /\ IsFrame(Head(queue)) /\ at <= Len(Frame.batch) + 1
  /\ marking # "done" => Busy /\ at <= Len(Frame.batch)

Init ==
  /\ stream \in Settings
  /\ conn = "none" /\ sessions = 0
  /\ asked = FALSE
  /\ sent = <<>> /\ queue = <<>>
  /\ at = 0
  /\ state = "disconnected"
  /\ marking = "done"
  /\ auth_failed = FALSE
  /\ calls = <<>>

(***************************************************************************)
(* The server and the socket.                                              *)
(***************************************************************************)

IsData == stream.kind # "trade_update"

Message(T, msg) == [T |-> T, msg |-> msg, stamp |-> "text"]

\* The answer to the credentials: the option server packs its frames, the others send JSON,
\* the market data servers in an array of one.
Handshake(accepted) ==
  [codec |-> IF stream.kind = "option" THEN "msgpack" ELSE "json", whole |-> TRUE,
   batch |-> <<IF IsData
               THEN IF accepted THEN Message("success", "authenticated") ELSE Message("error", "refused")
               ELSE Message("authorization", IF accepted THEN "authorized" ELSE "refused")>>]

Push(frame) ==
  /\ Len(sent) < MaxFrames
  /\ sent' = Append(sent, frame)
  /\ queue' = Append(queue, Len(sent) + 1)

Open ==
  /\ conn = "none" /\ queue = <<>> /\ sessions < MaxSessions
  /\ conn' = "up"
  /\ sessions' = sessions + 1
  /\ asked' = FALSE
  /\ queue' = <<Connected>>
  /\ UNCHANGED <<stream, sent, at, state, marking, auth_failed, calls>>

\* The credentials go out when the service thread has seen the connection.
Answer(accepted) ==
  /\ conn = "up" /\ state = "authenticating"
  /\ Push(Handshake(accepted))
  /\ conn' = IF accepted THEN "accepted" ELSE "refused"
  /\ UNCHANGED <<stream, sessions, client>>

Send(frame) ==
  /\ conn # "none"
  /\ Push(frame)
  /\ UNCHANGED <<stream, conn, sessions, client>>

Drop ==
  /\ conn # "none"
  /\ conn' = "none"
  /\ queue' = Append(queue, Disconnected)
  /\ UNCHANGED <<stream, sessions, sent, client>>

(***************************************************************************)
(* The socket's events.                                                    *)
(***************************************************************************)

\* A handler the caller has not installed is not called.
Call(handler, i) ==
  calls' = IF handler \in stream.handlers THEN Append(calls, <<handler, Head(queue), i>>) ELSE calls

Ignore == UNCHANGED <<asked, state, marking, auth_failed, calls>>

HandleConnected ==
  /\ ~Busy /\ queue # <<>> /\ Head(queue) = Connected
  /\ queue' = Tail(queue)
  /\ state' = "authenticating"
  /\ UNCHANGED <<stream, server, asked, at, marking, auth_failed, calls>>

HandleDisconnected ==
  /\ ~Busy /\ queue # <<>> /\ Head(queue) = Disconnected
  /\ queue' = Tail(queue)
  /\ state' = "disconnected"
  /\ IF state # "disconnected" THEN Call("on_disconnected", 0) ELSE UNCHANGED calls
  /\ UNCHANGED <<stream, server, asked, at, marking, auth_failed>>

\* Before the stream is ready an error ends the wait of connect().
report_error(i) ==
  /\ auth_failed' = (auth_failed \/ state # "ready")
  /\ Call("on_error", i)
  /\ UNCHANGED <<asked, state, marking>>

\* Mutant of mark_ready: the caller is told before the server is asked.
mark_ready_unasked ==
  /\ state' = "ready"
  /\ marking' = "on_connected"
  /\ UNCHANGED <<asked, auth_failed, calls>>

\* The state is ready, and connect() released, before on_ready() has sent anything.
mark_ready ==
  /\ state' = "ready"
  /\ marking' = "on_ready"
  /\ UNCHANGED <<asked, auth_failed, calls>>

(***************************************************************************)
(* The messages.                                                           *)
(***************************************************************************)

stock_dispatch ==
  [t |-> "on_trade", q |-> "on_quote", b |-> "on_bar", u |-> "on_updated_bar",
   d |-> "on_daily_bar", s |-> "on_status", l |-> "on_luld", c |-> "on_correction",
   x |-> "on_cancel_error", i |-> "on_imbalance"]

crypto_dispatch ==
  [t |-> "on_trade", q |-> "on_quote", b |-> "on_bar", u |-> "on_updated_bar",
   d |-> "on_daily_bar", o |-> "on_orderbook"]

news_dispatch == [n |-> "on_news"]

\* Only the decoder delivers: an option message that arrives as JSON is dropped.
option_dispatch == <<>>

option_on_message == [t |-> "on_trade", q |-> "on_quote"]

trade_update_dispatch == [trade_updates |-> "on_trade_update"]

Packed(frame) == stream.kind = "option" /\ frame.codec = "msgpack"

dispatch(frame) ==
  CASE stream.kind = "stock"        -> stock_dispatch
    [] stream.kind = "crypto"       -> crypto_dispatch
    [] stream.kind = "news"         -> news_dispatch
    [] stream.kind = "option"       -> IF Packed(frame) THEN option_on_message ELSE option_dispatch
    [] stream.kind = "trade_update" -> trade_update_dispatch

Handler(frame, m) == IF m.T \in DOMAIN dispatch(frame) THEN dispatch(frame)[m.T] ELSE "none"

\* from_json() throws on a timestamp that is no string, out of the frame; the decoder never.
Throws(frame, m) == ~Packed(frame) /\ m.stamp = "number" /\ Handler(frame, m) \in stream.handlers

\* JSON is parsed whole or not at all; the decoder hands over what comes before the break.
Readable(frame) == Packed(frame) \/ (frame.codec = "json" /\ frame.whole)

Deliver(m, i) == Call(Handler(Frame, m), i) /\ UNCHANGED <<asked, state, marking, auth_failed>>

\* Mutant of data_payload: any success makes the stream ready.
data_payload_eager(m, i) ==
  \/ m.T = "success" /\ mark_ready
  \/ m.T = "error" /\ report_error(i)
  \/ m.T = "subscription" /\ Call("on_subscription", i) /\ UNCHANGED <<asked, state, marking, auth_failed>>
  \/ m.T \notin {"success", "error", "subscription"} /\ Deliver(m, i)

\* A message without a T, or that is no object, has T "none".
data_payload(m, i) ==
  \/ m.T = "success" /\ m.msg = "authenticated" /\ mark_ready
  \/ m.T = "success" /\ m.msg # "authenticated" /\ Ignore
  \/ m.T = "error" /\ report_error(i)
  \/ m.T = "subscription" /\ Call("on_subscription", i) /\ UNCHANGED <<asked, state, marking, auth_failed>>
  \/ m.T \notin {"success", "error", "subscription"} /\ Deliver(m, i)

account_payload(m, i) ==
  \/ m.T = "authorization" /\ m.msg = "authorized" /\ mark_ready
  \/ m.T = "authorization" /\ m.msg # "authorized" /\ report_error(i)
  \/ m.T = "listening" /\ Ignore
  \/ m.T \notin {"authorization", "listening"} /\ Deliver(m, i)

TakeFrame ==
  /\ ~Busy /\ queue # <<>> /\ IsFrame(Head(queue))
  /\ IF Readable(Frame)
     THEN /\ at' = 1
          /\ UNCHANGED queue
          /\ Ignore
     ELSE /\ queue' = Tail(queue)
          /\ UNCHANGED at
          /\ report_error(0)
  /\ UNCHANGED <<stream, server>>

\* Mutant of HandleMessage: a message that throws is skipped and its batch goes on, from the start.
HandleMessageAgain ==
  /\ Busy /\ marking = "done" /\ at <= Len(Frame.batch)
  /\ LET m == Frame.batch[at]
     IN  IF Throws(Frame, m) THEN at' = 1 /\ Ignore
         ELSE /\ IF IsData THEN data_payload(m, at) ELSE account_payload(m, at)
              /\ at' = IF marking' = "done" THEN at + 1 ELSE at
  /\ UNCHANGED <<stream, server, queue>>

\* The loop goes on to the next message when it is through with this one.
HandleMessage ==
  /\ Busy /\ marking = "done" /\ at <= Len(Frame.batch)
  /\ LET m == Frame.batch[at]
     IN  /\ ~Throws(Frame, m)
         /\ IF IsData THEN data_payload(m, at) ELSE account_payload(m, at)
  /\ at' = IF marking' = "done" THEN at + 1 ELSE at
  /\ UNCHANGED <<stream, server, queue>>

\* What the stream has to ask for: its subscriptions, or to listen.
Carries == stream.channels \/ ~IsData

\* A connection lost in the meantime is not asked.
OnReady ==
  /\ marking = "on_ready"
  /\ asked' = (asked \/ (conn # "none" /\ Carries))
  /\ marking' = "on_connected"
  /\ UNCHANGED <<stream, server, queue, at, state, auth_failed, calls>>

OnConnected ==
  /\ marking = "on_connected"
  /\ Call("on_connected", at)
  /\ marking' = "done"
  /\ at' = at + 1
  /\ UNCHANGED <<stream, server, queue, asked, state, auth_failed>>

\* Mutant of Throw: the place in the batch outlives it.
ThrowKeepsPlace ==
  /\ Busy /\ marking = "done" /\ at <= Len(Frame.batch)
  /\ Throws(Frame, Frame.batch[at])
  /\ queue' = Tail(queue)
  /\ UNCHANGED <<stream, server, client>>

\* The exception leaves handle_frame(), and the rest of the batch with it.
Throw ==
  /\ Busy /\ marking = "done" /\ at <= Len(Frame.batch)
  /\ Throws(Frame, Frame.batch[at])
  /\ at' = 0
  /\ queue' = Tail(queue)
  /\ Ignore
  /\ UNCHANGED <<stream, server>>

FinishFrame ==
  /\ Busy /\ marking = "done" /\ at > Len(Frame.batch)
  /\ at' = 0
  /\ queue' = Tail(queue)
  /\ IF Frame.whole THEN Ignore ELSE report_error(at)
  /\ UNCHANGED <<stream, server>>

Service ==
  \/ HandleConnected \/ HandleDisconnected
  \/ TakeFrame \/ HandleMessage \/ OnReady \/ OnConnected \/ Throw \/ FinishFrame

Next ==
  \/ Open \/ Drop
  \/ \E accepted \in BOOLEAN : Answer(accepted)
  \/ \E frame \in Frames(stream) : Send(frame)
  \/ Service

Spec == Init /\ [][Next]_vars

(***************************************************************************)
(* Properties.                                                             *)
(***************************************************************************)

Before(c, d) == c[2] < d[2] \/ (c[2] = d[2] /\ c[3] < d[3])

Finished(f) == \A i \in DOMAIN queue : queue[i] # f

\* What the caller is to see of a frame: the messages its handlers are for, up to one that
\* throws, and one error at the end of a frame that breaks off.
ToHandOver(f) ==
  LET frame  == sent[f]
      thrown == {i \in DOMAIN frame.batch : Throws(frame, frame.batch[i])}
      Reached(i) == \A j \in thrown : i < j
      Handled(i) == Reached(i) /\ Handler(frame, frame.batch[i]) \in stream.handlers
      broken == IF Readable(frame) THEN Len(frame.batch) + 1 ELSE 0
  IN  {i \in DOMAIN frame.batch : Readable(frame) /\ Handled(i)}
        \cup {i \in {broken} : ~(Readable(frame) /\ frame.whole) /\ "on_error" \in stream.handlers}

\* Handlers are called in the order the server wrote, once for each message, whatever
\* errors, drops and reconnects come between (handle_frame() and its loop over the batch),
\* and a frame that is done has been handed over: only an unreadable frame, or a message
\* whose timestamp throws out of the batch, keeps later messages from the caller.
HandedOverInOrder ==
  /\ \A j, k \in DOMAIN calls :
       j < k /\ IsFrame(calls[j][2]) /\ IsFrame(calls[k][2]) => Before(calls[j], calls[k])
  /\ \A f \in DOMAIN sent : Finished(f) =>
       \A i \in ToHandOver(f) : \E j \in DOMAIN calls : calls[j][2] = f /\ calls[j][3] = i

\* is_ready() is said only of a session the server accepted, until its drop reaches the service
\* thread.  It is said before anything has been asked for (stream_base.cpp:190, 199), but
\* on_connected is called only in a session that has been asked for all the stream carries, if
\* it is still up.  Once the thread is idle an accepted session is ready and has been asked,
\* and a refused one has ended the wait of connect().
HandshakeDecides ==
  /\ state = "ready" =>
       conn = "accepted" \/ \E i \in DOMAIN queue : queue[i] = Disconnected
  /\ marking = "on_connected" /\ conn # "none" =>
       state = "ready" /\ conn = "accepted" /\ (Carries => asked)
  /\ queue = <<>> =>
       /\ conn = "accepted" => state = "ready" /\ (Carries => asked)
       /\ conn = "refused"  => auth_failed
       /\ conn = "none"     => state = "disconnected"
=============================================================================
