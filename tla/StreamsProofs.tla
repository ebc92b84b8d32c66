---------------------------- MODULE StreamsProofs ----------------------------
(***************************************************************************)
(* Theorems about Streams, for any settings, frames and bounds.            *)
(***************************************************************************)
EXTENDS Streams, TLAPS

(***************************************************************************)
(* Sequences.                                                              *)
(***************************************************************************)

LEMMA HeadTail ==
  ASSUME NEW S, NEW q \in Seq(S), q # <<>>
  PROVE  /\ Head(q) = q[1] /\ q[1] \in S
         /\ Len(q) \in Nat \ {0} /\ 1 \in DOMAIN q
         /\ Tail(q) \in Seq(S) /\ Len(Tail(q)) = Len(q) - 1
         /\ \A i \in DOMAIN Tail(q) : i + 1 \in DOMAIN q /\ Tail(q)[i] = q[i + 1]
  OBVIOUS

LEMMA Appended ==
  ASSUME NEW S, NEW q \in Seq(S), NEW x \in S
  PROVE  /\ Append(q, x) \in Seq(S)
         /\ Len(Append(q, x)) = Len(q) + 1
         /\ DOMAIN Append(q, x) = DOMAIN q \cup {Len(q) + 1}
         /\ Append(q, x)[Len(q) + 1] = x
         /\ \A i \in DOMAIN q : Append(q, x)[i] = q[i] /\ i # Len(q) + 1 /\ i <= Len(q)
  OBVIOUS

LEMMA Singleton ==
  ASSUME NEW S, NEW x \in S
  PROVE  <<x>> \in Seq(S) /\ Len(<<x>>) = 1
  OBVIOUS

LEMMA Handshakes ==
  ASSUME NEW accepted \in BOOLEAN
  PROVE  /\ Handshake(accepted) \in FrameSet
         /\ Len(Handshake(accepted).batch) = 1
  <1> DEFINE T == IF IsData THEN IF accepted THEN "success" ELSE "error" ELSE "authorization"
             M == IF IsData THEN IF accepted THEN "authenticated" ELSE "refused"
                  ELSE IF accepted THEN "authorized" ELSE "refused"
             m == [T |-> T, msg |-> M, stamp |-> "text"]
  <1>a. T \in Types
    BY DEF Types
  <1>b. M \in Texts
    BY DEF Texts
  <1>1. m \in Messages
    <2> HIDE DEF T, M
    <2> QED
      BY <1>a, <1>b DEF Messages
  <1>2. Handshake(accepted).batch = <<m>>
    BY DEF Handshake, Message
  <1>3. <<m>> \in Seq(Messages) /\ Len(<<m>>) = 1
    BY <1>1, Singleton
  <1>4. Handshake(accepted) = [codec |-> IF stream.kind = "option" THEN "msgpack" ELSE "json",
                               whole |-> TRUE, batch |-> <<m>>]
    BY <1>2 DEF Handshake
  <1> QED
    BY <1>2, <1>3, <1>4 DEF FrameSet

\* What a frame is, and what any step of the service thread that handles one starts from.
LEMMA AtFrame ==
  ASSUME TypeOK, queue # <<>>, IsFrame(Head(queue))
  PROVE  /\ Head(queue) = queue[1]
         /\ Head(queue) \in DOMAIN sent
         /\ Frame \in FrameSet
         /\ Len(Frame.batch) \in Nat /\ DOMAIN Frame.batch = 1..Len(Frame.batch)
         /\ Frame.batch \in Seq(Messages)
  <1>1. /\ Head(queue) = queue[1] /\ 1 \in DOMAIN queue
    BY HeadTail DEF TypeOK
  <1>2. queue[1] \in 1..Len(sent)
    BY <1>1 DEF TypeOK, IsFrame
  <1>3. sent \in Seq(FrameSet)
    BY DEF TypeOK
  <1>4. Head(queue) \in DOMAIN sent /\ sent[Head(queue)] \in FrameSet
    BY <1>1, <1>2, <1>3
  <1>5. Frame.batch \in Seq(Messages)
    BY <1>4 DEF Frame, FrameSet
  <1> QED
    BY <1>1, <1>4, <1>5 DEF Frame

LEMMA CallTyped ==
  ASSUME TypeOK, queue # <<>>, NEW handler, NEW i \in Nat, Call(handler, i)
  PROVE  calls' \in Seq(Handlers \X Int \X Nat)
  <1>1. stream.handlers \subseteq Handlers
    BY SettingAssumption DEF TypeOK, Setting
  <1>2. Head(queue) \in Int
    BY HeadTail DEF TypeOK
  <1>3. CASE handler \in stream.handlers
    <2>1. <<handler, Head(queue), i>> \in Handlers \X Int \X Nat
      BY <1>1, <1>2, <1>3
    <2> QED
      BY <1>3, <2>1, Appended DEF TypeOK, Call
  <1> QED
    BY <1>3 DEF TypeOK, Call

\* The parts of the state that the handling of a message may change stay typed.
LEMMA PayloadTyped ==
  ASSUME TypeOK, Busy, NEW m, NEW i \in Nat,
         data_payload(m, i) \/ account_payload(m, i) \/ report_error(i) \/ Ignore
  PROVE  /\ asked' \in BOOLEAN /\ auth_failed' \in BOOLEAN
         /\ state' \in {"disconnected", "authenticating", "ready"}
         /\ marking' \in {"on_ready", "on_connected", "done"}
         /\ calls' \in Seq(Handlers \X Int \X Nat)
  <1>0. queue # <<>>
    BY DEF TypeOK
  <1> DEFINE Typed == /\ asked' \in BOOLEAN /\ auth_failed' \in BOOLEAN
                      /\ state' \in {"disconnected", "authenticating", "ready"}
                      /\ marking' \in {"on_ready", "on_connected", "done"}
                      /\ calls' \in Seq(Handlers \X Int \X Nat)
  <1>1. ASSUME Ignore PROVE Typed
    BY <1>1 DEF Ignore, TypeOK
  <1>2. ASSUME mark_ready PROVE Typed
    BY <1>2 DEF mark_ready, TypeOK
  <1>3. ASSUME report_error(i) PROVE Typed
    BY <1>0, <1>3, CallTyped DEF report_error, TypeOK
  <1>4. ASSUME Deliver(m, i) PROVE Typed
    BY <1>0, <1>4, CallTyped DEF Deliver, TypeOK
  <1>5. ASSUME Call("on_subscription", i) /\ UNCHANGED <<asked, state, marking, auth_failed>> PROVE Typed
    BY <1>0, <1>5, CallTyped DEF TypeOK
  <1>6. ASSUME data_payload(m, i) PROVE Typed
    BY <1>1, <1>2, <1>3, <1>4, <1>5, <1>6 DEF data_payload
  <1>7. ASSUME account_payload(m, i) PROVE Typed
    BY <1>1, <1>2, <1>3, <1>4, <1>7 DEF account_payload
  <1> QED
    BY <1>1, <1>3, <1>6, <1>7

-----------------------------------------------------------------------------
(***************************************************************************)
(* Types.                                                                  *)
(***************************************************************************)

\* A frame added to both ends of the wire leaves what was there.
LEMMA PushTyped ==
  ASSUME TypeOK, NEW frame \in FrameSet, Push(frame), UNCHANGED <<at, marking>>
  PROVE  /\ sent' \in Seq(FrameSet) /\ queue' \in Seq(Int)
         /\ \A i \in DOMAIN queue' : queue'[i] \in -1..Len(sent')
         /\ Len(sent') = Len(sent) + 1
         /\ Busy' => queue' # <<>> /\ IsFrame(Head(queue')) /\ at' <= Len(Frame'.batch) + 1
         /\ marking' # "done" => Busy' /\ at' <= Len(Frame'.batch)
  <1>1. Len(sent) \in Nat /\ Len(sent) + 1 \in Int /\ sent \in Seq(FrameSet) /\ queue \in Seq(Int)
    BY DEF TypeOK
  <1>2. sent' = Append(sent, frame) /\ queue' = Append(queue, Len(sent) + 1)
    BY DEF Push
  <1>3. sent' \in Seq(FrameSet) /\ Len(sent') = Len(sent) + 1
    BY <1>1, <1>2, Appended
  <1>4. queue' \in Seq(Int)
    BY <1>1, <1>2, Appended
  <1>5. ASSUME NEW i \in DOMAIN queue' PROVE queue'[i] \in -1..Len(sent')
    <2>1. CASE i \in DOMAIN queue
      <3>1. queue'[i] = queue[i]
        BY <1>1, <1>2, <2>1, Appended
      <3> QED
        BY <1>1, <1>3, <2>1, <3>1 DEF TypeOK
    <2>2. CASE i = Len(queue) + 1
      <3>1. queue'[i] = Len(sent) + 1
        BY <1>1, <1>2, <2>2, Appended
      <3> QED
        BY <1>1, <1>3, <3>1
    <2> QED
      BY <1>1, <1>2, <2>1, <2>2, Appended
  <1>6. ASSUME Busy'
        PROVE  /\ queue' # <<>> /\ IsFrame(Head(queue')) /\ at' <= Len(Frame'.batch) + 1
               /\ Frame' = Frame
    <2>1. Busy /\ queue # <<>> /\ IsFrame(Head(queue)) /\ at <= Len(Frame.batch) + 1
      BY <1>6 DEF TypeOK, Busy
    <2>2. queue[1] \in DOMAIN sent /\ Head(queue) = queue[1] /\ 1 \in DOMAIN queue
      BY <2>1, AtFrame, HeadTail, <1>1
    <2>3. queue' # <<>> /\ Head(queue') = queue[1]
      BY <1>1, <1>2, <1>4, <2>2, Appended, HeadTail
    <2>4. sent'[queue[1]] = sent[queue[1]]
      BY <1>1, <1>2, <2>2, Appended
    <2>5. Frame' = Frame
      BY <2>2, <2>3, <2>4 DEF Frame
    <2> QED
      BY <2>1, <2>2, <2>3, <2>5
  <1>7. ASSUME marking' # "done" PROVE Busy' /\ at' <= Len(Frame'.batch)
    <2>1. Busy /\ at <= Len(Frame.batch)
      BY <1>7 DEF TypeOK
    <2>2. Busy'
      BY <2>1 DEF Busy
    <2> QED
      BY <1>6, <2>1, <2>2
  <1> QED
    BY <1>3, <1>4, <1>5, <1>6, <1>7

\* The head is taken off the queue between frames.
LEMMA PopTyped ==
  ASSUME TypeOK, queue # <<>>, queue' = Tail(queue), sent' = sent
  PROVE  queue' \in Seq(Int) /\ \A i \in DOMAIN queue' : queue'[i] \in -1..Len(sent')
  BY HeadTail DEF TypeOK

LEMMA TypeInit ==
  ASSUME Init
  PROVE  TypeOK
  <1>1. sent = <<>> /\ queue = <<>> /\ calls = <<>>
    BY DEF Init
  <1>2. sent \in Seq(FrameSet) /\ queue \in Seq(Int) /\ calls \in Seq(Handlers \X Int \X Nat)
    BY <1>1
  <1>3. sessions \in 0..MaxSessions
    BY BoundAssumption DEF Init
  <1>4. \A i \in DOMAIN queue : FALSE
    BY <1>1
  <1>5. ~Busy /\ at \in Nat
    BY DEF Init, Busy
  <1>6. /\ stream \in Settings /\ conn \in {"none", "up", "accepted", "refused"}
        /\ asked \in BOOLEAN /\ auth_failed \in BOOLEAN
        /\ state \in {"disconnected", "authenticating", "ready"}
        /\ marking = "done"
    BY DEF Init
  <1> QED
    BY <1>2, <1>3, <1>4, <1>5, <1>6 DEF TypeOK

LEMMA TypeStep ==
  ASSUME TypeOK, [Next]_vars
  PROVE  TypeOK'
  <1> USE DEF server, client
  <1>1. CASE Open
    <2>1. <<Connected>> \in Seq(Int)
      BY DEF Connected
    <2>2. ~Busy
      BY <1>1 DEF Open, TypeOK
    <2>3. queue' = <<0>> /\ DOMAIN queue' = {1} /\ queue'[1] = 0
      BY <1>1 DEF Open, Connected
    <2>4. Len(sent) \in Nat
      BY DEF TypeOK
    <2>5. queue' \in Seq(Int) /\ \A i \in DOMAIN queue' : queue'[i] \in -1..Len(sent)
      BY <2>3, <2>4
    <2>6. sessions' \in 0..MaxSessions
      BY <1>1, BoundAssumption DEF Open, TypeOK
    <2> QED
      BY <1>1, <2>2, <2>5, <2>6 DEF Open, TypeOK, Busy
  <1>2. ASSUME NEW accepted \in BOOLEAN, Answer(accepted) PROVE TypeOK'
    <2>1. Handshake(accepted) \in FrameSet
      BY Handshakes
    <2>2. Push(Handshake(accepted)) /\ UNCHANGED <<stream, sessions, asked, at, state, marking, auth_failed, calls>>
          /\ conn' \in {"accepted", "refused"}
      BY <1>2 DEF Answer
    <2> QED
      BY <2>1, <2>2, PushTyped DEF TypeOK
  <1>3. ASSUME NEW frame \in Frames(stream), Send(frame) PROVE TypeOK'
    <2>1. frame \in FrameSet
      BY FrameAssumption DEF TypeOK
    <2>2. Push(frame) /\ UNCHANGED <<stream, conn, sessions, asked, at, state, marking, auth_failed, calls>>
      BY <1>3 DEF Send
    <2> QED
      BY <2>1, <2>2, PushTyped DEF TypeOK
  <1>4. CASE Drop
    <2>1. Disconnected \in Int
      BY DEF Disconnected
    <2>2. queue \in Seq(Int) /\ queue' = Append(queue, Disconnected)
      BY <1>4 DEF Drop, TypeOK
    <2>3. queue' \in Seq(Int) /\ queue' # <<>>
      BY <2>1, <2>2, Appended
    <2>4. \A i \in DOMAIN queue' : queue'[i] \in -1..Len(sent')
      <3>1. /\ DOMAIN queue' = DOMAIN queue \cup {Len(queue) + 1}
            /\ queue'[Len(queue) + 1] = -1 /\ \A i \in DOMAIN queue : queue'[i] = queue[i]
        BY <2>1, <2>2, Appended DEF Disconnected
      <3>2. sent' = sent /\ Len(sent) \in Nat
        BY <1>4 DEF Drop, TypeOK
      <3>3. \A i \in DOMAIN queue : queue[i] \in -1..Len(sent)
        BY DEF TypeOK
      <3> QED
        BY <3>1, <3>2, <3>3
    <2>5. ASSUME Busy' PROVE IsFrame(Head(queue')) /\ at' <= Len(Frame'.batch) + 1 /\ Frame' = Frame
      <3>1. Busy /\ queue # <<>> /\ IsFrame(Head(queue)) /\ at <= Len(Frame.batch) + 1
        BY <1>4, <2>5 DEF TypeOK, Busy, Drop
      <3>2. Head(queue') = Head(queue)
        BY <2>1, <2>2, <2>3, <3>1, Appended, HeadTail
      <3> QED
        BY <1>4, <3>1, <3>2 DEF Drop, Frame
    <2>6. marking' # "done" => Busy' /\ at' <= Len(Frame'.batch)
      <3>1. marking' = marking /\ at' = at
        BY <1>4 DEF Drop
      <3> QED
        BY <2>5, <3>1 DEF TypeOK, Busy
    <2> QED
      BY <1>4, <2>3, <2>4, <2>5, <2>6 DEF Drop, TypeOK
  <1>5. CASE HandleConnected
    BY <1>5, PopTyped DEF HandleConnected, TypeOK, Busy
  <1>6. CASE HandleDisconnected
    <2>1. calls' \in Seq(Handlers \X Int \X Nat)
      BY <1>6, CallTyped DEF HandleDisconnected, TypeOK
    <2> QED
      BY <1>6, <2>1, PopTyped DEF HandleDisconnected, TypeOK, Busy
  <1>7. CASE TakeFrame
    <2>0. queue # <<>> /\ IsFrame(Head(queue)) /\ ~Busy
      BY <1>7 DEF TakeFrame
    <2>1. CASE Readable(Frame)
      BY <1>7, <2>0, <2>1, AtFrame DEF TakeFrame, TypeOK, Ignore, Frame, Busy
    <2>2. CASE ~Readable(Frame)
      <3>1. queue' = Tail(queue) /\ UNCHANGED <<at, stream, conn, sessions, sent>> /\ report_error(0)
        BY <1>7, <2>2 DEF TakeFrame
      <3>2. calls' \in Seq(Handlers \X Int \X Nat)
        BY <2>0, <3>1, CallTyped DEF report_error
      <3> QED
        BY <2>0, <3>1, <3>2, PopTyped DEF TypeOK, report_error, Busy
    <2> QED
      BY <2>1, <2>2
  <1>8. CASE HandleMessage
    <2>1. /\ Busy /\ at <= Len(Frame.batch)
          /\ at' = (IF marking' = "done" THEN at + 1 ELSE at)
          /\ UNCHANGED <<stream, conn, sessions, sent, queue>>
      BY <1>8 DEF HandleMessage
    <2>2. queue # <<>> /\ IsFrame(Head(queue)) /\ at \in Nat
      BY <2>1 DEF TypeOK
    <2>3. data_payload(Frame.batch[at], at) \/ account_payload(Frame.batch[at], at)
      BY <1>8 DEF HandleMessage
    <2>4. /\ asked' \in BOOLEAN /\ auth_failed' \in BOOLEAN
          /\ state' \in {"disconnected", "authenticating", "ready"}
          /\ marking' \in {"on_ready", "on_connected", "done"}
          /\ calls' \in Seq(Handlers \X Int \X Nat)
      BY <2>1, <2>2, <2>3, PayloadTyped
    <2>5. Len(Frame.batch) \in Nat
      BY <2>2, AtFrame
    <2>6. Frame' = Frame
      BY <2>1 DEF Frame
    <2>7. /\ Busy' /\ at' <= Len(Frame.batch) + 1 /\ at' \in Nat
          /\ marking' # "done" => at' <= Len(Frame.batch)
      BY <2>1, <2>2, <2>5 DEF Busy
    <2> QED
      BY <2>1, <2>2, <2>4, <2>6, <2>7 DEF TypeOK
  <1>9. CASE Throw
    BY <1>9, PopTyped DEF Throw, TypeOK, Busy, Ignore
  <1>10. CASE FinishFrame
    <2>1. /\ Busy /\ at' = 0 /\ queue' = Tail(queue) /\ marking' = "done"
          /\ UNCHANGED <<stream, conn, sessions, sent>>
      BY <1>10 DEF FinishFrame, Ignore, report_error
    <2>2. queue # <<>> /\ at \in Nat
      BY <2>1 DEF TypeOK
    <2>3. Ignore \/ report_error(at)
      BY <1>10 DEF FinishFrame
    <2>4. /\ asked' \in BOOLEAN /\ auth_failed' \in BOOLEAN
          /\ state' \in {"disconnected", "authenticating", "ready"}
          /\ marking' \in {"on_ready", "on_connected", "done"}
          /\ calls' \in Seq(Handlers \X Int \X Nat)
      BY <2>1, <2>2, <2>3, PayloadTyped
    <2> QED
      BY <2>1, <2>2, <2>4, PopTyped DEF TypeOK, Busy
  <1>11. CASE OnReady
    <2>1. /\ asked' \in BOOLEAN /\ marking' = "on_connected" /\ marking # "done"
          /\ UNCHANGED <<stream, conn, sessions, sent, queue, at, state, auth_failed, calls>>
      BY <1>11 DEF OnReady, Carries, TypeOK, Setting
    <2>2. Frame' = Frame
      BY <2>1 DEF Frame
    <2> QED
      BY <2>1, <2>2 DEF TypeOK, Busy
  <1>12. CASE OnConnected
    <2>1. /\ marking # "done" /\ marking' = "done" /\ at' = at + 1 /\ Call("on_connected", at)
          /\ UNCHANGED <<stream, conn, sessions, sent, queue, asked, state, auth_failed>>
      BY <1>12 DEF OnConnected
    <2>2. Busy /\ at <= Len(Frame.batch) /\ queue # <<>> /\ IsFrame(Head(queue)) /\ at \in Nat
      BY <2>1 DEF TypeOK
    <2>3. calls' \in Seq(Handlers \X Int \X Nat)
      BY <2>1, <2>2, CallTyped
    <2>4. Frame' = Frame /\ Len(Frame.batch) \in Nat
      BY <2>1, <2>2, AtFrame DEF Frame
    <2>5. Busy' /\ at' <= Len(Frame.batch) + 1 /\ at' \in Nat
      BY <2>1, <2>2, <2>4 DEF Busy
    <2> QED
      BY <2>1, <2>2, <2>3, <2>4, <2>5 DEF TypeOK
  <1>13. CASE UNCHANGED vars
    BY <1>13 DEF vars, TypeOK, Busy, Frame
  <1> QED
    BY <1>1, <1>2, <1>3, <1>4, <1>5, <1>6, <1>7, <1>8, <1>9, <1>10, <1>11, <1>12, <1>13
    DEF Next, Service

\* Everything a stream holds stays typed: in particular a batch is never left by more than one
\* place, and a place in a batch never outlives its frame.
THEOREM TypeCorrect == Spec => []TypeOK
  <1>1. Init => TypeOK
    BY TypeInit
  <1>2. TypeOK /\ [Next]_vars => TypeOK'
    BY TypeStep
  <1> QED
    BY <1>1, <1>2, PTL DEF Spec

-----------------------------------------------------------------------------
(***************************************************************************)
(* The handshake.                                                          *)
(***************************************************************************)

HasConfirm(frame) == \E i \in DOMAIN frame.batch : Confirms(frame.batch[i])

\* The answer to the credentials is in the queue, and not yet handled.
Awaits(accepted) ==
  \E i \in DOMAIN queue :
    /\ IsFrame(queue[i]) /\ sent[queue[i]] = Handshake(accepted)
    /\ i = 1 => at <= 1

\* The connection's first event comes before anything the server sends, its drop after.
Ends ==
  \A i \in DOMAIN queue :
    /\ queue[i] = Connected =>
         i = 1 /\ state = "disconnected" /\ conn \notin {"accepted", "refused"}
    /\ queue[i] = Disconnected => i = Len(queue) /\ conn = "none"

Dropped ==
  conn = "none" =>
    \/ queue = <<>> /\ state = "disconnected"
    \/ queue # <<>> /\ queue[Len(queue)] = Disconnected

ConfirmedByServer ==
  \A i \in DOMAIN queue :
    IsFrame(queue[i]) /\ HasConfirm(sent[queue[i]]) => conn \in {"accepted", "none"}

ReadyConfirmed ==
  state = "ready" =>
    /\ conn \in {"accepted", "none"}
    /\ conn = "accepted" /\ Carries => asked \/ marking = "on_ready"

MarkedReady == marking # "done" => state = "ready"

Decided ==
  /\ conn = "accepted" => state = "ready" \/ Awaits(TRUE)
  /\ conn = "refused"  => auth_failed \/ Awaits(FALSE)

HandshakeInv == Ends /\ Dropped /\ ConfirmedByServer /\ ReadyConfirmed /\ MarkedReady /\ Decided

LEMMA HandshakeMessage ==
  ASSUME NEW accepted \in BOOLEAN
  PROVE  LET m == Handshake(accepted).batch[1]
         IN  /\ DOMAIN Handshake(accepted).batch = {1}
             /\ Readable(Handshake(accepted))
             /\ ~Throws(Handshake(accepted), m)
             /\ Confirms(m) <=> accepted
             /\ IsData => m.T = (IF accepted THEN "success" ELSE "error")
             /\ IsData /\ accepted => m.msg = "authenticated"
             /\ ~IsData => m.T = "authorization" /\ m.msg = (IF accepted THEN "authorized" ELSE "refused")
  BY DEF Handshake, Message, Readable, Packed, Throws, Confirms, IsData

LEMMA HandshakeHas == HasConfirm(Handshake(TRUE)) /\ ~HasConfirm(Handshake(FALSE))
  BY HandshakeMessage DEF HasConfirm

LEMMA HandshakeImplies ==
  ASSUME TypeOK, HandshakeInv
  PROVE  HandshakeDecides
  <1>1. queue # <<>> => Len(queue) \in DOMAIN queue
    BY DEF TypeOK
  <1>2. queue = <<>> => ~Awaits(TRUE) /\ ~Awaits(FALSE)
    BY DEF Awaits
  <1>3. ASSUME state = "ready"
        PROVE  \/ conn = "accepted"
               \/ \E i \in DOMAIN queue : queue[i] = Disconnected
    BY <1>1, <1>3 DEF HandshakeInv, Dropped, ReadyConfirmed
  <1>4. ASSUME queue = <<>>
        PROVE  /\ conn = "accepted" => state = "ready" /\ (Carries => asked)
               /\ conn = "refused"  => auth_failed
               /\ conn = "none"     => state = "disconnected"
    <2>1. marking = "done"
      BY <1>4 DEF TypeOK
    <2> QED
      BY <1>2, <1>4, <2>1 DEF HandshakeInv, Dropped, Decided, ReadyConfirmed
  <1>5. ASSUME marking = "on_connected", conn # "none"
        PROVE  state = "ready" /\ conn = "accepted" /\ (Carries => asked)
    BY <1>5 DEF HandshakeInv, MarkedReady, ReadyConfirmed
  <1> QED
    BY <1>3, <1>4, <1>5 DEF HandshakeDecides

\* A frame pushed behind the others disturbs none of them.
LEMMA PushKeeps ==
  ASSUME TypeOK, NEW frame \in FrameSet, Push(frame)
  PROVE  /\ DOMAIN queue' = DOMAIN queue \cup {Len(queue) + 1}
         /\ Len(queue') = Len(queue) + 1 /\ Len(queue) \in Nat /\ queue' # <<>>
         /\ \A i \in DOMAIN queue : /\ queue'[i] = queue[i] /\ i \in 1..Len(queue)
                                    /\ IsFrame(queue[i]) => sent'[queue[i]] = sent[queue[i]]
         /\ IsFrame(queue'[Len(queue) + 1]) /\ queue'[Len(queue) + 1] \in Int
         /\ queue'[Len(queue) + 1] = Len(sent) + 1
         /\ sent'[Len(sent) + 1] = frame
  <1>1. Len(sent) \in Nat /\ sent \in Seq(FrameSet) /\ queue \in Seq(Int) /\ Len(sent) + 1 \in Int
    BY DEF TypeOK
  <1>2. sent' = Append(sent, frame) /\ queue' = Append(queue, Len(sent) + 1)
    BY DEF Push
  <1>3. /\ DOMAIN queue' = DOMAIN queue \cup {Len(queue) + 1}
        /\ Len(queue') = Len(queue) + 1 /\ Len(queue) \in Nat /\ queue' # <<>>
        /\ queue'[Len(queue) + 1] = Len(sent) + 1
        /\ \A i \in DOMAIN queue : queue'[i] = queue[i] /\ i \in 1..Len(queue)
    BY <1>1, <1>2, Appended
  <1>4. sent'[Len(sent) + 1] = frame /\ \A f \in DOMAIN sent : sent'[f] = sent[f]
    BY <1>1, <1>2, Appended
  <1>5. \A i \in DOMAIN queue : IsFrame(queue[i]) => queue[i] \in DOMAIN sent
    BY <1>1 DEF TypeOK, IsFrame
  <1> QED
    BY <1>1, <1>3, <1>4, <1>5 DEF IsFrame

\* A frame is done that was not the answer awaited.
LEMMA PopKeeps ==
  ASSUME TypeOK, HandshakeInv, queue # <<>>, IsFrame(Head(queue)), queue' = Tail(queue),
         UNCHANGED <<stream, conn, sent, asked, state, marking>>, at' = 0,
         auth_failed => auth_failed',
         at <= 1 => \A a \in BOOLEAN : sent[queue[1]] # Handshake(a)
  PROVE  HandshakeInv'
  <1>1. /\ queue[1] = Head(queue) /\ 1 \in DOMAIN queue /\ Len(queue) \in Nat \ {0}
        /\ Len(queue') = Len(queue) - 1
        /\ DOMAIN queue' = 1..Len(queue) - 1 /\ DOMAIN queue = 1..Len(queue)
        /\ \A i \in DOMAIN queue' : i + 1 \in DOMAIN queue /\ queue'[i] = queue[i + 1]
    BY HeadTail DEF TypeOK
  <1>2. queue[1] # Connected /\ queue[1] # Disconnected
    BY <1>1 DEF IsFrame, Connected, Disconnected
  <1>3. Ends'
    BY <1>1, <1>2 DEF Ends, HandshakeInv
  <1>4. Dropped'
    <2>1. ASSUME conn = "none" PROVE queue' # <<>> /\ queue'[Len(queue')] = Disconnected
      <3>1. queue[Len(queue)] = Disconnected
        BY <2>1 DEF HandshakeInv, Dropped
      <3>2. Len(queue) # 1
        BY <1>2, <3>1
      <3>3. Len(queue') \in DOMAIN queue'
        BY <1>1, <3>2
      <3>4. queue'[Len(queue')] = queue[Len(queue') + 1]
        BY <1>1, <3>3
      <3>5. Len(queue') + 1 = Len(queue)
        BY <1>1
      <3>6. queue' # <<>>
        BY <3>3
      <3> QED
        BY <3>1, <3>4, <3>5, <3>6
    <2> QED
      BY <2>1 DEF Dropped
  <1>5. ConfirmedByServer'
    BY <1>1 DEF ConfirmedByServer, HandshakeInv
  <1>6. ReadyConfirmed' /\ MarkedReady'
    BY DEF ReadyConfirmed, MarkedReady, HandshakeInv, Carries, IsData
  <1>7. ASSUME NEW a \in BOOLEAN, Awaits(a) PROVE Awaits(a)'
    <2>1. PICK i \in DOMAIN queue : IsFrame(queue[i]) /\ sent[queue[i]] = Handshake(a) /\ (i = 1 => at <= 1)
      BY <1>7 DEF Awaits
    <2>2. i # 1
      BY <2>1
    <2>3. i - 1 \in DOMAIN queue' /\ queue'[i - 1] = queue[i]
      BY <1>1, <2>2
    <2>4. Handshake(a)' = Handshake(a)
      BY DEF Handshake, Message, IsData
    <2> QED
      BY <2>1, <2>3, <2>4 DEF Awaits
  <1>8. Decided'
    BY <1>7 DEF Decided, HandshakeInv
  <1> QED
    BY <1>3, <1>4, <1>5, <1>6, <1>8 DEF HandshakeInv

\* A frame sent leaves the invariant, whether it is the server's answer or not.
LEMMA SendStep ==
  ASSUME TypeOK, HandshakeInv, NEW frame \in Frames(stream), Send(frame)
  PROVE  HandshakeInv'
  <1>1. frame \in FrameSet /\ ~HasConfirm(frame)
    BY FrameAssumption DEF TypeOK, HasConfirm
  <1>2. Push(frame) /\ conn # "none" /\ UNCHANGED <<stream, conn, sessions, asked, at, state, marking, auth_failed, calls>>
    BY DEF Send, client
  <1>3. /\ DOMAIN queue' = DOMAIN queue \cup {Len(queue) + 1}
        /\ Len(queue') = Len(queue) + 1 /\ Len(queue) \in Nat /\ queue' # <<>>
        /\ \A i \in DOMAIN queue : /\ queue'[i] = queue[i] /\ i \in 1..Len(queue)
                                   /\ IsFrame(queue[i]) => sent'[queue[i]] = sent[queue[i]]
        /\ IsFrame(queue'[Len(queue) + 1]) /\ queue'[Len(queue) + 1] \in Int
        /\ queue'[Len(queue) + 1] = Len(sent) + 1
        /\ sent'[Len(sent) + 1] = frame
    BY <1>1, <1>2, PushKeeps
  <1>4. queue'[Len(queue) + 1] # Connected /\ queue'[Len(queue) + 1] # Disconnected
    BY <1>3 DEF IsFrame, Connected, Disconnected
  <1>5. Ends'
    BY <1>2, <1>3, <1>4 DEF Ends, HandshakeInv
  <1>6. Dropped'
    BY <1>2 DEF Dropped
  <1>7. ConfirmedByServer'
    BY <1>1, <1>2, <1>3 DEF ConfirmedByServer, HandshakeInv, HasConfirm
  <1>8. ReadyConfirmed' /\ MarkedReady'
    BY <1>2 DEF ReadyConfirmed, MarkedReady, HandshakeInv, Carries, IsData
  <1>9. ASSUME NEW a \in BOOLEAN, Awaits(a) PROVE Awaits(a)'
    <2>1. PICK i \in DOMAIN queue : IsFrame(queue[i]) /\ sent[queue[i]] = Handshake(a) /\ (i = 1 => at <= 1)
      BY <1>9 DEF Awaits
    <2>2. Handshake(a)' = Handshake(a)
      BY <1>2 DEF Handshake, Message, IsData
    <2> QED
      BY <1>2, <1>3, <2>1, <2>2 DEF Awaits
  <1>10. Decided'
    BY <1>2, <1>9 DEF Decided, HandshakeInv
  <1> QED
    BY <1>5, <1>6, <1>7, <1>8, <1>10 DEF HandshakeInv

LEMMA AnswerStep ==
  ASSUME TypeOK, HandshakeInv, NEW accepted \in BOOLEAN, Answer(accepted)
  PROVE  HandshakeInv'
  <1> DEFINE frame == Handshake(accepted)
  <1>1. frame \in FrameSet /\ Len(frame.batch) = 1
    BY Handshakes
  <1>2. /\ Push(frame) /\ conn = "up" /\ state = "authenticating"
        /\ conn' = (IF accepted THEN "accepted" ELSE "refused")
        /\ UNCHANGED <<stream, sessions, asked, at, state, marking, auth_failed, calls>>
    BY DEF Answer, client
  <1>3. /\ DOMAIN queue' = DOMAIN queue \cup {Len(queue) + 1}
        /\ Len(queue') = Len(queue) + 1 /\ Len(queue) \in Nat /\ queue' # <<>>
        /\ \A i \in DOMAIN queue : /\ queue'[i] = queue[i] /\ i \in 1..Len(queue)
                                   /\ IsFrame(queue[i]) => sent'[queue[i]] = sent[queue[i]]
        /\ IsFrame(queue'[Len(queue) + 1]) /\ queue'[Len(queue) + 1] \in Int
        /\ queue'[Len(queue) + 1] = Len(sent) + 1
        /\ sent'[Len(sent) + 1] = frame
    BY <1>1, <1>2, PushKeeps
  <1>4. \A i \in DOMAIN queue' : queue'[i] # Connected /\ queue'[i] # Disconnected
    BY <1>2, <1>3 DEF IsFrame, Connected, Disconnected, Ends, HandshakeInv
  <1>5. Ends'
    BY <1>4 DEF Ends
  <1>6. Dropped'
    BY <1>2 DEF Dropped
  <1>7. ConfirmedByServer'
    <2>1. \A i \in DOMAIN queue : IsFrame(queue[i]) => ~HasConfirm(sent[queue[i]])
      BY <1>2 DEF ConfirmedByServer, HandshakeInv
    <2>2. ASSUME NEW i \in DOMAIN queue', IsFrame(queue'[i]), HasConfirm(sent'[queue'[i]])
          PROVE  conn' \in {"accepted", "none"}
      <3>1. i = Len(queue) + 1
        BY <1>3, <2>1, <2>2
      <3>2. HasConfirm(frame)
        BY <1>3, <2>2, <3>1
      <3> QED
        BY <1>2, <3>2, HandshakeHas
    <2> QED
      BY <2>2 DEF ConfirmedByServer, HasConfirm
  <1>8. ReadyConfirmed' /\ MarkedReady'
    BY <1>2 DEF ReadyConfirmed, MarkedReady, HandshakeInv
  <1>9. Awaits(accepted)'
    <2>1. Handshake(accepted)' = Handshake(accepted)
      BY <1>2 DEF Handshake, Message, IsData
    <2>2. Len(queue) + 1 = 1 => at' <= 1
      BY <1>2, <1>3 DEF TypeOK, Busy
    <2> QED
      BY <1>3, <2>1, <2>2 DEF Awaits
  <1>10. Decided'
    BY <1>2, <1>9 DEF Decided
  <1> QED
    BY <1>5, <1>6, <1>7, <1>8, <1>10 DEF HandshakeInv

LEMMA DropStep ==
  ASSUME TypeOK, HandshakeInv, Drop
  PROVE  HandshakeInv'
  <1>1. /\ conn # "none" /\ conn' = "none" /\ queue' = Append(queue, Disconnected)
        /\ UNCHANGED <<stream, sent, asked, at, state, marking>>
    BY DEF Drop, client
  <1>2. /\ DOMAIN queue' = DOMAIN queue \cup {Len(queue) + 1}
        /\ Len(queue') = Len(queue) + 1 /\ Len(queue) \in Nat
        /\ queue'[Len(queue) + 1] = Disconnected
        /\ \A i \in DOMAIN queue : queue'[i] = queue[i]
    <2>1. queue \in Seq(Int) /\ Disconnected \in Int
      BY DEF TypeOK, Disconnected
    <2> QED
      BY <1>1, <2>1, Appended
  <1>3. Ends'
    BY <1>1, <1>2 DEF Ends, HandshakeInv, Connected, Disconnected
  <1>4. Dropped'
    BY <1>2 DEF Dropped
  <1>5. ConfirmedByServer' /\ Decided'
    BY <1>1 DEF ConfirmedByServer, Decided
  <1>6. ReadyConfirmed' /\ MarkedReady'
    BY <1>1 DEF ReadyConfirmed, MarkedReady, HandshakeInv
  <1> QED
    BY <1>3, <1>4, <1>5, <1>6 DEF HandshakeInv

\* An error never takes back that connect() is to stop waiting.
LEMMA Reported ==
  ASSUME TypeOK, NEW i, report_error(i)
  PROVE  /\ UNCHANGED <<asked, state, marking>>
         /\ auth_failed => auth_failed'
         /\ state # "ready" => auth_failed'
  <1>1. UNCHANGED <<asked, state, marking>> /\ auth_failed' = (auth_failed \/ state # "ready")
    BY DEF report_error
  <1>2. auth_failed \in BOOLEAN
    BY DEF TypeOK
  <1> QED
    BY <1>1, <1>2

LEMMA MessageStep ==
  ASSUME TypeOK, HandshakeInv, HandleMessage
  PROVE  HandshakeInv'
  <1> DEFINE m == Frame.batch[at]
  <1>1. /\ Busy /\ marking = "done" /\ at <= Len(Frame.batch)
        /\ at' = (IF marking' = "done" THEN at + 1 ELSE at)
        /\ UNCHANGED <<stream, conn, sent, queue>>
        /\ IF IsData THEN data_payload(m, at) ELSE account_payload(m, at)
    BY DEF HandleMessage, server
  <1>2. queue # <<>> /\ IsFrame(Head(queue)) /\ at \in Nat /\ at > 0
    BY <1>1 DEF TypeOK, Busy
  <1>3. /\ Head(queue) = queue[1] /\ 1 \in DOMAIN queue
        /\ at \in DOMAIN Frame.batch /\ Frame = sent[queue[1]]
    BY <1>1, <1>2, AtFrame, HeadTail DEF TypeOK, Frame
  <1>4. queue[1] # Connected /\ queue[1] # Disconnected
    BY <1>2, <1>3 DEF IsFrame, Connected, Disconnected
  <1>5. Confirms(m) => conn \in {"accepted", "none"}
    BY <1>2, <1>3 DEF ConfirmedByServer, HandshakeInv, HasConfirm
  <1>6. \/ UNCHANGED <<asked, state, marking, auth_failed>>
        \/ report_error(at)
        \/ Confirms(m) /\ mark_ready
    BY <1>1 DEF data_payload, account_payload, Ignore, Deliver, Confirms
  <1>7. /\ state' # state => state' = "ready" /\ Confirms(m)
        /\ state = "ready" => state' = "ready"
        /\ auth_failed => auth_failed'
    <2>1. CASE UNCHANGED <<asked, state, marking, auth_failed>>
      BY <2>1
    <2>2. CASE report_error(at)
      BY <2>2, Reported
    <2>3. CASE Confirms(m) /\ mark_ready
      BY <2>3 DEF mark_ready
    <2> QED
      BY <1>6, <2>1, <2>2, <2>3
  <1>8. Ends'
    BY <1>1, <1>3, <1>4, <1>7 DEF Ends, HandshakeInv
  <1>9. Dropped'
    BY <1>1, <1>2, <1>7 DEF Dropped, HandshakeInv
  <1>10. ConfirmedByServer'
    BY <1>1 DEF ConfirmedByServer, HandshakeInv
  <1>11. ReadyConfirmed' /\ MarkedReady'
    BY <1>1, <1>5, <1>6 DEF ReadyConfirmed, MarkedReady, HandshakeInv, report_error, mark_ready, Carries, IsData
  <1>12. ASSUME NEW a \in BOOLEAN, Awaits(a)
         PROVE  Awaits(a)' \/ (Frame = Handshake(a) /\ at = 1)
    <2>1. PICK i \in DOMAIN queue : IsFrame(queue[i]) /\ sent[queue[i]] = Handshake(a) /\ (i = 1 => at <= 1)
      BY <1>12 DEF Awaits
    <2>2. Handshake(a)' = Handshake(a)
      BY <1>1 DEF Handshake, Message, IsData
    <2>3. CASE i = 1
      BY <1>2, <1>3, <2>1, <2>3
    <2>4. CASE i # 1
      BY <1>1, <2>1, <2>2, <2>4 DEF Awaits
    <2> QED
      BY <2>3, <2>4
  <1>13. ASSUME Frame = Handshake(TRUE), at = 1 PROVE state' = "ready"
    <2>1. /\ IsData => m.T = "success" /\ m.msg = "authenticated"
          /\ ~IsData => m.T = "authorization" /\ m.msg = "authorized"
      BY <1>13, HandshakeMessage
    <2> QED
      BY <1>1, <2>1 DEF data_payload, account_payload, mark_ready
  <1>14. ASSUME Frame = Handshake(FALSE), at = 1, conn = "refused" PROVE auth_failed'
    <2>1. /\ IsData => m.T = "error"
          /\ ~IsData => m.T = "authorization" /\ m.msg = "refused"
      BY <1>14, HandshakeMessage
    <2>2. report_error(at)
      BY <1>1, <2>1 DEF data_payload, account_payload
    <2> QED
      BY <1>14, <2>2, Reported DEF ReadyConfirmed, HandshakeInv
  <1>15. Decided'
    BY <1>1, <1>7, <1>12, <1>13, <1>14 DEF Decided, HandshakeInv
  <1> QED
    BY <1>8, <1>9, <1>10, <1>11, <1>15 DEF HandshakeInv

LEMMA HandshakeStep ==
  ASSUME TypeOK, HandshakeInv, [Next]_vars
  PROVE  HandshakeInv'
  <1>1. CASE Open
    <2>1. queue' = <<0>> /\ DOMAIN queue' = {1} /\ queue'[1] = 0 /\ conn' = "up" /\ state' = "disconnected"
          /\ marking' = marking /\ marking = "done"
      BY <1>1 DEF Open, Connected, HandshakeInv, Dropped, MarkedReady
    <2> QED
      BY <2>1 DEF HandshakeInv, Ends, Dropped, ConfirmedByServer, ReadyConfirmed, MarkedReady,
                  Decided, IsFrame, Connected, Disconnected
  <1>2. ASSUME NEW accepted \in BOOLEAN, Answer(accepted) PROVE HandshakeInv'
    BY <1>2, AnswerStep
  <1>3. ASSUME NEW frame \in Frames(stream), Send(frame) PROVE HandshakeInv'
    BY <1>3, SendStep
  <1>4. CASE Drop
    BY <1>4, DropStep
  <1>5. CASE HandleConnected \/ HandleDisconnected
    <2>1. /\ queue # <<>> /\ queue' = Tail(queue) /\ ~Busy /\ Head(queue) \in {Connected, Disconnected}
          /\ UNCHANGED <<stream, conn, sent, asked, at, marking, auth_failed>> /\ marking = "done"
          /\ state' = (IF Head(queue) = Connected THEN "authenticating" ELSE "disconnected")
      <3>1. ~Busy /\ marking = "done"
        BY <1>5 DEF HandleConnected, HandleDisconnected, TypeOK
      <3>2. CASE HandleConnected
        BY <3>1, <3>2 DEF HandleConnected, server, Connected, Disconnected
      <3>3. CASE HandleDisconnected
        BY <3>1, <3>3 DEF HandleDisconnected, server, Connected, Disconnected
      <3> QED
        BY <1>5, <3>2, <3>3
    <2>2. /\ queue[1] = Head(queue) /\ 1 \in DOMAIN queue /\ Len(queue) \in Nat \ {0}
          /\ queue' \in Seq(Int) /\ Len(queue') = Len(queue) - 1
          /\ DOMAIN queue' = 1..Len(queue) - 1 /\ DOMAIN queue = 1..Len(queue)
          /\ \A i \in DOMAIN queue' : i + 1 \in DOMAIN queue /\ queue'[i] = queue[i + 1]
      BY <2>1, HeadTail DEF TypeOK
    <2>3. /\ Head(queue) = Disconnected => queue' = <<>> /\ conn = "none"
          /\ conn \notin {"accepted", "refused"}
      BY <2>1, <2>2 DEF HandshakeInv, Ends, Connected, Disconnected
    <2>4. Ends'
      BY <2>1, <2>2, <2>3 DEF HandshakeInv, Ends
    <2>5. Dropped'
      <3>1. CASE Head(queue) = Disconnected
        BY <2>1, <2>3, <3>1 DEF Dropped, Connected, Disconnected
      <3>2. CASE Head(queue) = Connected
        <4>1. ASSUME conn = "none" PROVE queue' # <<>> /\ queue'[Len(queue')] = Disconnected
          <5>1. queue[Len(queue)] = Disconnected /\ Len(queue) # 1
            BY <2>1, <2>2, <3>2, <4>1 DEF HandshakeInv, Dropped, Connected, Disconnected
          <5>2. Len(queue') \in DOMAIN queue'
            BY <2>2, <5>1
          <5> QED
            BY <2>2, <5>1, <5>2
        <4> QED
          BY <2>1, <4>1 DEF Dropped
      <3> QED
        BY <2>1, <3>1, <3>2
    <2>6. ConfirmedByServer'
      BY <2>1, <2>2 DEF HandshakeInv, ConfirmedByServer
    <2>7. ReadyConfirmed' /\ MarkedReady' /\ Decided'
      BY <2>1, <2>3 DEF ReadyConfirmed, MarkedReady, Decided
    <2> QED
      BY <2>4, <2>5, <2>6, <2>7 DEF HandshakeInv
  <1>6. CASE TakeFrame
    <2>0. queue # <<>> /\ IsFrame(Head(queue)) /\ ~Busy /\ UNCHANGED <<stream, conn, sent>>
      BY <1>6 DEF TakeFrame, server
    <2>1. CASE Readable(Frame)
      <3>1. at' = 1 /\ UNCHANGED <<stream, conn, sent, queue, asked, state, marking, auth_failed>>
        BY <1>6, <2>1 DEF TakeFrame, Ignore, server
      <3>2. \A a \in BOOLEAN : Awaits(a) => Awaits(a)'
        BY <3>1 DEF Awaits, Handshake, Message, IsData
      <3>3. Decided'
        BY <3>1, <3>2 DEF HandshakeInv, Decided
      <3> QED
        BY <3>1, <3>3 DEF HandshakeInv, Ends, Dropped, ConfirmedByServer, ReadyConfirmed, MarkedReady, Carries, IsData
    <2>2. CASE ~Readable(Frame)
      <3>1. queue' = Tail(queue) /\ at' = at /\ report_error(0)
        BY <1>6, <2>2 DEF TakeFrame
      <3>2. at = 0 /\ queue[1] = Head(queue)
        BY <2>0, HeadTail DEF Busy, TypeOK
      <3>3. \A a \in BOOLEAN : sent[queue[1]] # Handshake(a)
        BY <2>2, <3>2, HandshakeMessage DEF Frame
      <3>4. UNCHANGED <<asked, state, marking>> /\ (auth_failed => auth_failed')
        BY <3>1, Reported
      <3> QED
        BY <2>0, <3>1, <3>2, <3>3, <3>4, PopKeeps
    <2> QED
      BY <2>1, <2>2
  <1>7. CASE HandleMessage
    BY <1>7, MessageStep
  <1>8. CASE Throw
    <2>1. /\ Busy /\ Throws(Frame, Frame.batch[at]) /\ at' = 0 /\ queue' = Tail(queue)
          /\ UNCHANGED <<stream, conn, sent, asked, state, marking, auth_failed>>
      BY <1>8 DEF Throw, Ignore, server
    <2>2. queue # <<>> /\ IsFrame(Head(queue)) /\ at \in Nat /\ at > 0
      BY <2>1 DEF TypeOK, Busy
    <2>3. Frame = sent[queue[1]]
      BY <2>2, HeadTail DEF Frame, TypeOK
    <2>4. at <= 1 => \A a \in BOOLEAN : sent[queue[1]] # Handshake(a)
      BY <2>1, <2>2, <2>3, HandshakeMessage
    <2> QED
      BY <2>1, <2>2, <2>4, PopKeeps
  <1>9. CASE FinishFrame
    <2>1. /\ Busy /\ at > Len(Frame.batch) /\ at' = 0 /\ queue' = Tail(queue)
          /\ UNCHANGED <<stream, conn, sent>> /\ (Ignore \/ report_error(at))
      BY <1>9 DEF FinishFrame, server
    <2>2. queue # <<>> /\ IsFrame(Head(queue)) /\ at \in Nat
      BY <2>1 DEF TypeOK
    <2>3. Frame = sent[queue[1]]
      BY <2>2, HeadTail DEF Frame, TypeOK
    <2>4. ASSUME NEW a \in BOOLEAN, Frame = Handshake(a) PROVE ~(at <= 1)
      <3>1. Len(Frame.batch) = 1
        BY <2>4, Handshakes
      <3> QED
        BY <2>1, <2>2, <3>1
    <2>5. UNCHANGED <<asked, state, marking>> /\ (auth_failed => auth_failed')
      <3>1. CASE Ignore
        BY <3>1 DEF Ignore
      <3>2. CASE report_error(at)
        BY <3>2, Reported
      <3> QED
        BY <2>1, <3>1, <3>2
    <2> QED
      BY <2>1, <2>2, <2>3, <2>4, <2>5, PopKeeps
  <1>10. CASE OnReady \/ OnConnected
    <2>1. /\ marking # "done" /\ UNCHANGED <<stream, conn, sent, queue, state, auth_failed>>
          /\ OnReady => asked' = (asked \/ (conn # "none" /\ Carries)) /\ at' = at
          /\ OnConnected => asked' = asked /\ marking = "on_connected" /\ marking' = "done"
      BY <1>10 DEF OnReady, OnConnected, server
    <2>2. state = "ready"
      BY <2>1 DEF HandshakeInv, MarkedReady
    <2>3. conn # "refused"
      BY <2>2 DEF HandshakeInv, ReadyConfirmed
    <2>4. Decided'
      <3>1. state' = "ready" /\ conn' # "refused"
        BY <2>1, <2>2, <2>3
      <3>2. conn' = "accepted" => state' = "ready" \/ Awaits(TRUE)'
        BY <3>1
      <3>3. conn' = "refused" => auth_failed' \/ Awaits(FALSE)'
        BY <3>1
      <3> QED
        BY <3>2, <3>3 DEF Decided
    <2>5. ReadyConfirmed' /\ MarkedReady'
      <3>1. /\ state' = "ready" /\ conn' = conn /\ (Carries' <=> Carries)
            /\ conn \in {"accepted", "none"}
            /\ conn = "accepted" /\ Carries => asked \/ marking = "on_ready"
        BY <2>1, <2>2 DEF HandshakeInv, ReadyConfirmed, Carries, IsData
      <3>2. asked \in BOOLEAN
        BY DEF TypeOK
      <3>3. CASE OnReady
        <4>1. asked' = (asked \/ (conn # "none" /\ Carries))
          BY <2>1, <3>3
        <4>2. conn = "accepted" /\ Carries => asked'
          BY <3>1, <3>2, <4>1
        <4> QED
          BY <3>1, <4>2 DEF ReadyConfirmed, MarkedReady
      <3>4. CASE OnConnected
        <4>1. asked' = asked /\ marking = "on_connected"
          BY <2>1, <3>4
        <4> QED
          BY <3>1, <4>1 DEF ReadyConfirmed, MarkedReady
      <3> QED
        BY <1>10, <3>3, <3>4
    <2> QED
      BY <2>1, <2>4, <2>5 DEF HandshakeInv, Ends, Dropped, ConfirmedByServer
  <1>11. CASE UNCHANGED vars
    <2>1. UNCHANGED <<stream, conn, sent, queue, asked, at, state, marking, auth_failed>>
      BY <1>11 DEF vars, server, client
    <2>2. Decided'
      BY <2>1 DEF HandshakeInv, Decided, Awaits, Handshake, Message, IsData
    <2> QED
      BY <2>1, <2>2 DEF HandshakeInv, Ends, Dropped, ConfirmedByServer, ReadyConfirmed, MarkedReady,
                        Carries, IsData
  <1> QED
    BY <1>1, <1>2, <1>3, <1>4, <1>5, <1>6, <1>7, <1>8, <1>9, <1>10, <1>11 DEF Next, Service

\* However frames, drops and reconnects fall between and within the steps of mark_ready():
\* ready is said only of a session the server accepted or whose drop is on its way; the caller
\* is told on_connected only when a session that is still up has been asked for what the stream
\* carries; and an idle service thread has drawn the server's verdict (mark_ready(), on_ready(),
\* report_error() and on_disconnected() together).
THEOREM HandshakeDecided == Spec => []HandshakeDecides
  <1>1. Init => TypeOK
    BY TypeInit
  <1>2. Init => HandshakeInv
    <2> SUFFICES ASSUME Init PROVE HandshakeInv
      OBVIOUS
    <2>1. queue = <<>> /\ conn = "none" /\ state = "disconnected" /\ marking = "done"
      BY DEF Init
    <2>2. \A i \in DOMAIN queue : FALSE
      BY <2>1
    <2> QED
      BY <2>1, <2>2 DEF HandshakeInv, Ends, Dropped, ConfirmedByServer, ReadyConfirmed, MarkedReady, Decided
  <1>3. TypeOK /\ HandshakeInv /\ [Next]_vars => (TypeOK /\ HandshakeInv)'
    BY TypeStep, HandshakeStep
  <1>4. TypeOK /\ HandshakeInv => HandshakeDecides
    BY HandshakeImplies
  <1> QED
    BY <1>1, <1>2, <1>3, <1>4, PTL DEF Spec
-----------------------------------------------------------------------------
(***************************************************************************)
(* The handing over of messages.                                           *)
(***************************************************************************)

Handed(f, i) == \E j \in DOMAIN calls : calls[j][2] = f /\ calls[j][3] = i

\* Frames wait in the order they were sent in.
QueueOrdered ==
  \A i, j \in DOMAIN queue :
    i < j /\ IsFrame(queue[i]) /\ IsFrame(queue[j]) => queue[i] < queue[j]

\* No call is ahead of the place the service thread has come to.
CallsBehind ==
  \A k \in DOMAIN calls : IsFrame(calls[k][2]) =>
    /\ calls[k][2] <= Len(sent)
    /\ \A i \in DOMAIN queue : IsFrame(queue[i]) =>
         \/ calls[k][2] < queue[i]
         \/ i = 1 /\ Busy /\ calls[k][2] = queue[1] /\ calls[k][3] < at

CallsOrdered ==
  \A j, k \in DOMAIN calls :
    j < k /\ IsFrame(calls[j][2]) /\ IsFrame(calls[k][2]) => Before(calls[j], calls[k])

\* What is behind that place in a batch has been handed over.
Midway ==
  Busy =>
    /\ Readable(Frame)
    /\ \A i \in DOMAIN Frame.batch : i < at =>
         /\ ~Throws(Frame, Frame.batch[i])
         /\ Handler(Frame, Frame.batch[i]) \in stream.handlers => Handed(queue[1], i)

FinishedHandedOver ==
  \A f \in DOMAIN sent : Finished(f) => \A i \in ToHandOver(f) : Handed(f, i)

HandoverInv ==
  QueueOrdered /\ CallsBehind /\ CallsOrdered /\ Midway /\ FinishedHandedOver

LEMMA CallParts ==
  ASSUME TypeOK, NEW k \in DOMAIN calls
  PROVE  calls[k][2] \in Int /\ calls[k][3] \in Nat
  BY DEF TypeOK

LEMMA QueueInts ==
  ASSUME TypeOK
  PROVE  /\ \A i \in DOMAIN queue : i \in Nat \ {0} /\ queue[i] \in Int /\ queue[i] <= Len(sent)
         /\ Len(sent) \in Nat /\ DOMAIN sent = 1..Len(sent)
  BY DEF TypeOK

\* What is to be handed over of a frame is settled when it is sent.
LEMMA ToHandOverStays ==
  ASSUME NEW f, sent'[f] = sent[f], stream' = stream
  PROVE  ToHandOver(f)' = ToHandOver(f)
  BY DEF ToHandOver, Throws, Readable, Packed, Handler, dispatch

\* The history of calls only grows.
Grows == /\ DOMAIN calls \subseteq DOMAIN calls'
         /\ \A k \in DOMAIN calls : calls'[k] = calls[k]

LEMMA HandedStays ==
  ASSUME Grows, NEW f, NEW i, Handed(f, i)
  PROVE  Handed(f, i)'
  BY DEF Grows, Handed

\* A call made at the place the service thread has come to is behind all others.
LEMMA CallMade ==
  ASSUME TypeOK, HandoverInv, queue # <<>>, IsFrame(Head(queue)),
         NEW i \in Nat, Busy => i = at, NEW h, Call(h, i)
  PROVE  /\ Grows /\ CallsOrdered'
         /\ \A k \in DOMAIN calls' : IsFrame(calls'[k][2]) =>
              /\ calls'[k][2] <= Len(sent)
              /\ \A j \in DOMAIN queue : IsFrame(queue[j]) =>
                   \/ calls'[k][2] < queue[j]
                   \/ j = 1 /\ calls'[k][2] = queue[1] /\ calls'[k][3] <= i
         /\ h \in stream.handlers => \A f, n : f = queue[1] /\ n = i => Handed(f, n)'
  <1> DEFINE f == queue[1]
             c == <<h, f, i>>
  <1>1. /\ Head(queue) = f /\ 1 \in DOMAIN queue /\ f \in Int /\ f > 0 /\ f <= Len(sent)
    BY HeadTail, QueueInts DEF TypeOK, IsFrame
  <1>2. at \in Nat /\ Len(sent) \in Nat
    BY DEF TypeOK
  <1>3. \A k \in DOMAIN calls : IsFrame(calls[k][2]) =>
          /\ calls[k][2] <= Len(sent)
          /\ \A j \in DOMAIN queue : IsFrame(queue[j]) =>
               \/ calls[k][2] < queue[j]
               \/ j = 1 /\ Busy /\ calls[k][2] = queue[1] /\ calls[k][3] < at
    BY DEF HandoverInv, CallsBehind
  <1>4. \A k \in DOMAIN calls : IsFrame(calls[k][2]) => Before(calls[k], c)
    BY <1>1, <1>2, <1>3, CallParts DEF Before, IsFrame
  <1>5. \A k \in DOMAIN calls : IsFrame(calls[k][2]) =>
          /\ calls[k][2] <= Len(sent)
          /\ \A j \in DOMAIN queue : IsFrame(queue[j]) =>
               \/ calls[k][2] < queue[j]
               \/ j = 1 /\ calls[k][2] = queue[1] /\ calls[k][3] <= i
    BY <1>2, <1>3, CallParts
  <1>6. CASE h \notin stream.handlers
    <2>1. calls' = calls
      BY <1>6 DEF Call
    <2> QED
      BY <1>5, <1>6, <2>1 DEF Grows, HandoverInv, CallsOrdered
  <1>7. CASE h \in stream.handlers
    <2>1. calls' = Append(calls, c)
      BY <1>1, <1>7 DEF Call
    <2>2. c \in Handlers \X Int \X Nat
      <3>1. h \in Handlers
        BY <1>7, SettingAssumption DEF TypeOK, Setting
      <3> QED
        BY <1>1, <3>1
    <2>3. calls \in Seq(Handlers \X Int \X Nat)
      BY DEF TypeOK
    <2>4. /\ DOMAIN calls' = DOMAIN calls \cup {Len(calls) + 1}
          /\ calls'[Len(calls) + 1] = c
          /\ \A k \in DOMAIN calls : calls'[k] = calls[k] /\ k <= Len(calls) /\ k \in Nat
          /\ Len(calls) \in Nat
      BY <2>1, <2>2, <2>3, Appended
    <2>5. c[2] = f /\ c[3] = i
      OBVIOUS
    <2> HIDE DEF f, c
    <2>6. Grows
      BY <2>4 DEF Grows
    <2>7. CallsOrdered'
      <3> SUFFICES ASSUME NEW j \in DOMAIN calls', NEW k \in DOMAIN calls', j < k,
                          IsFrame(calls'[j][2]), IsFrame(calls'[k][2])
                   PROVE  Before(calls'[j], calls'[k])
        BY DEF CallsOrdered, IsFrame, Before
      <3>1. CASE k \in DOMAIN calls
        <4>1. j \in DOMAIN calls
          BY <2>4, <3>1
        <4> QED
          BY <2>4, <3>1, <4>1 DEF HandoverInv, CallsOrdered
      <3>2. CASE k = Len(calls) + 1
        <4>1. j \in DOMAIN calls
          BY <2>4, <3>2
        <4> QED
          BY <1>4, <2>4, <3>2, <4>1
      <3> QED
        BY <2>4, <3>1, <3>2
    <2>8. ASSUME NEW j \in DOMAIN queue, IsFrame(queue[j])
          PROVE  f < queue[j] \/ (j = 1 /\ f = queue[1])
      <3>1. CASE j = 1
        BY <3>1 DEF f
      <3>2. CASE j # 1
        <4>1. 1 < j
          BY <3>2, QueueInts
        <4> QED
          BY <1>1, <2>8, <4>1 DEF HandoverInv, QueueOrdered, IsFrame, f
      <3> QED
        BY <3>1, <3>2
    <2>9. \A k \in DOMAIN calls' : IsFrame(calls'[k][2]) =>
            /\ calls'[k][2] <= Len(sent)
            /\ \A j \in DOMAIN queue : IsFrame(queue[j]) =>
                 \/ calls'[k][2] < queue[j]
                 \/ j = 1 /\ calls'[k][2] = queue[1] /\ calls'[k][3] <= i
      BY <1>1, <1>5, <2>4, <2>5, <2>8
    <2>10. ASSUME NEW g, NEW n, g = queue[1], n = i PROVE Handed(g, n)'
      <3>1. Len(calls) + 1 \in DOMAIN calls'
        BY <2>4
      <3>2. calls'[Len(calls) + 1][2] = g /\ calls'[Len(calls) + 1][3] = n
        BY <2>4, <2>5, <2>10 DEF f
      <3> QED
        BY <3>1, <3>2 DEF Handed
    <2> QED
      BY <2>6, <2>7, <2>9, <2>10
  <1> QED
    BY <1>6, <1>7

\* An event joins the queue: a frame just sent, or the opening or the end of the connection.
LEMMA JoinHandover ==
  ASSUME TypeOK, HandoverInv, NEW e \in Int, queue' = Append(queue, e),
         UNCHANGED <<stream, at, calls>>,
         \/ e <= 0 /\ sent' = sent
         \/ e = Len(sent) + 1 /\ \E frame \in FrameSet : sent' = Append(sent, frame)
  PROVE  HandoverInv'
  <1>1. /\ DOMAIN queue' = DOMAIN queue \cup {Len(queue) + 1}
        /\ queue'[Len(queue) + 1] = e /\ Len(queue) \in Nat
        /\ \A i \in DOMAIN queue : queue'[i] = queue[i] /\ i <= Len(queue) /\ i \in Nat \ {0}
    BY Appended DEF TypeOK
  <1>2. /\ DOMAIN sent \subseteq DOMAIN sent' /\ Len(sent) <= Len(sent')
        /\ Len(sent) \in Nat /\ Len(sent') \in Nat
        /\ \A f \in DOMAIN sent : sent'[f] = sent[f]
        /\ \A f \in DOMAIN sent' : f \in DOMAIN sent \/ (f = e /\ IsFrame(e))
    <2>1. CASE sent' = sent
      BY <2>1 DEF TypeOK
    <2>2. CASE e = Len(sent) + 1 /\ \E frame \in FrameSet : sent' = Append(sent, frame)
      BY <2>2, Appended DEF TypeOK, IsFrame
    <2> QED
      BY <2>1, <2>2
  <1>3. IsFrame(e) => e > Len(sent)
    BY <1>2 DEF IsFrame
  <1>4. QueueOrdered'
    <2> SUFFICES ASSUME NEW i \in DOMAIN queue', NEW j \in DOMAIN queue', i < j,
                        IsFrame(queue'[i]), IsFrame(queue'[j])
                 PROVE  queue'[i] < queue'[j]
      BY DEF QueueOrdered, IsFrame
    <2>1. i \in DOMAIN queue
      BY <1>1
    <2>2. CASE j \in DOMAIN queue
      BY <1>1, <2>1, <2>2 DEF HandoverInv, QueueOrdered
    <2>3. CASE j = Len(queue) + 1
      BY <1>1, <1>2, <1>3, <2>1, <2>3, QueueInts
    <2> QED
      BY <1>1, <2>2, <2>3
  <1>5. CallsBehind'
    <2> SUFFICES ASSUME NEW k \in DOMAIN calls, IsFrame(calls[k][2])
                 PROVE  /\ calls[k][2] <= Len(sent')
                        /\ \A i \in DOMAIN queue' : IsFrame(queue'[i]) =>
                             \/ calls[k][2] < queue'[i]
                             \/ i = 1 /\ Busy /\ calls[k][2] = queue'[1] /\ calls[k][3] < at
      BY DEF CallsBehind, IsFrame, Busy
    <2>1. calls[k][2] <= Len(sent) /\ calls[k][2] \in Int
      BY CallParts DEF HandoverInv, CallsBehind
    <2>2. ASSUME NEW i \in DOMAIN queue', IsFrame(queue'[i])
          PROVE  \/ calls[k][2] < queue'[i]
                 \/ i = 1 /\ Busy /\ calls[k][2] = queue'[1] /\ calls[k][3] < at
      <3>1. CASE i \in DOMAIN queue
        BY <1>1, <2>2, <3>1 DEF HandoverInv, CallsBehind
      <3>2. CASE i = Len(queue) + 1
        BY <1>1, <1>2, <1>3, <2>1, <2>2, <3>2
      <3> QED
        BY <1>1, <3>1, <3>2
    <2> QED
      BY <1>2, <2>1, <2>2
  <1>6. CallsOrdered'
    BY DEF HandoverInv, CallsOrdered
  <1>7. Midway'
    <2> SUFFICES ASSUME Busy PROVE Midway'
      BY DEF Midway, Busy
    <2>1. queue # <<>> /\ IsFrame(Head(queue))
      BY DEF TypeOK
    <2>2. Head(queue) = queue[1] /\ 1 \in DOMAIN queue /\ queue[1] \in DOMAIN sent
      BY <2>1, AtFrame, HeadTail DEF TypeOK
    <2>3. queue' # <<>> /\ queue' \in Seq(Int) /\ Head(queue') = queue[1] /\ queue'[1] = queue[1]
      BY <1>1, <2>2, HeadTail, Appended DEF TypeOK
    <2>4. Frame' = Frame
      BY <1>2, <2>2, <2>3 DEF Frame
    <2> QED
      BY <2>3, <2>4 DEF HandoverInv, Midway, Readable, Packed, Throws, Handler, dispatch, Handed, Busy
  <1>8. FinishedHandedOver'
    <2> SUFFICES ASSUME NEW f \in DOMAIN sent', \A i \in DOMAIN queue' : queue'[i] # f,
                        NEW i \in ToHandOver(f)'
                 PROVE  Handed(f, i)'
      BY DEF FinishedHandedOver, Finished
    <2>1. f # e /\ \A n \in DOMAIN queue : queue[n] # f
      BY <1>1
    <2>2. f \in DOMAIN sent
      BY <1>2, <2>1
    <2>3. ToHandOver(f)' = ToHandOver(f)
      BY <1>2, <2>2, ToHandOverStays
    <2>4. Handed(f, i)
      BY <2>1, <2>2, <2>3 DEF HandoverInv, FinishedHandedOver, Finished
    <2> QED
      BY <2>4, HandedStays DEF Grows
  <1> QED
    BY <1>4, <1>5, <1>6, <1>7, <1>8 DEF HandoverInv

\* An event leaves the queue, and if it is a frame it has been handed over.
LEMMA LeaveHandover ==
  ASSUME TypeOK, HandoverInv, queue # <<>>, queue' = Tail(queue), at' = 0,
         UNCHANGED <<stream, sent>>, Grows, CallsOrdered',
         \A k \in DOMAIN calls' : IsFrame(calls'[k][2]) =>
           /\ calls'[k][2] <= Len(sent)
           /\ \A j \in DOMAIN queue : j # 1 /\ IsFrame(queue[j]) => calls'[k][2] < queue[j],
         \A f \in DOMAIN sent : f = queue[1] => \A i \in ToHandOver(f) : Handed(f, i)'
  PROVE  HandoverInv'
  <1>1. \A i \in DOMAIN queue' : i + 1 \in DOMAIN queue /\ queue'[i] = queue[i + 1] /\ i \in Nat \ {0}
    BY HeadTail, PopTyped DEF TypeOK
  <1>2. \A i \in DOMAIN queue : i = 1 \/ (i - 1 \in DOMAIN queue' /\ queue'[i - 1] = queue[i])
    BY HeadTail DEF TypeOK
  <1>3. QueueOrdered'
    <2> SUFFICES ASSUME NEW i \in DOMAIN queue', NEW j \in DOMAIN queue', i < j,
                        IsFrame(queue'[i]), IsFrame(queue'[j])
                 PROVE  queue'[i] < queue'[j]
      BY DEF QueueOrdered, IsFrame
    <2>1. i + 1 < j + 1
      BY <1>1
    <2> QED
      BY <1>1, <2>1 DEF HandoverInv, QueueOrdered
  <1>4. CallsBehind'
    <2> SUFFICES ASSUME NEW k \in DOMAIN calls', IsFrame(calls'[k][2])
                 PROVE  /\ calls'[k][2] <= Len(sent)
                        /\ \A i \in DOMAIN queue' : IsFrame(queue'[i]) => calls'[k][2] < queue'[i]
      BY DEF CallsBehind, IsFrame, Busy
    <2>1. ASSUME NEW i \in DOMAIN queue', IsFrame(queue'[i]) PROVE calls'[k][2] < queue'[i]
      <3>1. i + 1 # 1 /\ i + 1 \in DOMAIN queue /\ queue'[i] = queue[i + 1]
        BY <1>1
      <3> QED
        BY <2>1, <3>1
    <2> QED
      BY <2>1
  <1>5. Midway'
    BY DEF Midway, Busy
  <1>6. FinishedHandedOver'
    <2> SUFFICES ASSUME NEW f \in DOMAIN sent, \A i \in DOMAIN queue' : queue'[i] # f,
                        NEW i \in ToHandOver(f)'
                 PROVE  Handed(f, i)'
      BY DEF FinishedHandedOver, Finished
    <2>1. ToHandOver(f)' = ToHandOver(f)
      BY ToHandOverStays
    <2>2. CASE f = queue[1]
      BY <2>1, <2>2
    <2>3. CASE f # queue[1]
      <3>1. \A n \in DOMAIN queue : queue[n] # f
        BY <1>2, <2>3
      <3>2. Handed(f, i)
        BY <2>1, <3>1 DEF HandoverInv, FinishedHandedOver, Finished
      <3> QED
        BY <3>2, HandedStays
    <2> QED
      BY <2>2, <2>3
  <1> QED
    BY <1>3, <1>4, <1>5, <1>6 DEF HandoverInv

\* No message the protocol itself takes has a handler in a table.
LEMMA Addressed ==
  ASSUME TypeOK, NEW m, Handler(Frame, m) \in stream.handlers
  PROVE  /\ IsData => m.T \notin {"success", "error", "subscription"}
         /\ ~IsData => m.T \notin {"authorization", "listening"}
  <1>1. Handler(Frame, m) # "none"
    BY SettingAssumption DEF TypeOK, Setting, Handlers
  <1>2. m.T \in DOMAIN dispatch(Frame) /\ stream.kind \in Kinds
    BY <1>1, SettingAssumption DEF Handler, TypeOK, Setting
  <1>3. CASE stream.kind = "trade_update"
    BY <1>2, <1>3 DEF dispatch, trade_update_dispatch, IsData
  <1>4. CASE stream.kind = "stock"
    BY <1>2, <1>4 DEF dispatch, stock_dispatch, IsData
  <1>5. CASE stream.kind = "crypto"
    BY <1>2, <1>5 DEF dispatch, crypto_dispatch, IsData
  <1>6. CASE stream.kind = "news"
    BY <1>2, <1>6 DEF dispatch, news_dispatch, IsData
  <1>7. CASE stream.kind = "option"
    <2>1. DOMAIN option_dispatch = {}
      BY DEF option_dispatch
    <2>2. m.T \in DOMAIN option_on_message
      BY <1>2, <1>7, <2>1 DEF dispatch
    <2> QED
      BY <1>7, <2>2 DEF option_on_message, IsData
  <1> QED
    BY <1>2, <1>3, <1>4, <1>5, <1>6, <1>7 DEF Kinds

\* Handling a message calls at most one handler; the one it is for, if the caller has set it.
LEMMA MessageCalls ==
  ASSUME NEW m, NEW i \in Nat, IF IsData THEN data_payload(m, i) ELSE account_payload(m, i)
  PROVE  /\ UNCHANGED calls \/ \E h : Call(h, i)
         /\ marking' = marking \/ (marking' = "on_ready" /\ UNCHANGED calls)
         /\ \/ Deliver(m, i)
            \/ IsData /\ m.T \in {"success", "error", "subscription"}
            \/ ~IsData /\ m.T \in {"authorization", "listening"}
  <1>1. CASE IsData
    BY <1>1 DEF data_payload, mark_ready, report_error, Ignore, Deliver
  <1>2. CASE ~IsData
    BY <1>2 DEF account_payload, mark_ready, report_error, Ignore, Deliver
  <1> QED
    BY <1>1, <1>2

LEMMA QuietCalls ==
  ASSUME TypeOK, HandoverInv, UNCHANGED calls
  PROVE  Grows /\ CallsOrdered'
  BY DEF Grows, HandoverInv, CallsOrdered

\* The service thread goes on to the next message of a batch.
LEMMA PassHandover ==
  ASSUME TypeOK, TypeOK', HandoverInv, Busy, at <= Len(Frame.batch), at' = at + 1,
         UNCHANGED <<stream, sent, queue>>, ~Throws(Frame, Frame.batch[at]),
         UNCHANGED calls \/ \E h : Call(h, at),
         Handler(Frame, Frame.batch[at]) \in stream.handlers => Call(Handler(Frame, Frame.batch[at]), at)
  PROVE  HandoverInv'
  <1> DEFINE m == Frame.batch[at]
  <1>1. Busy /\ at' = at + 1 /\ UNCHANGED <<stream, sent, queue>> /\ ~Throws(Frame, m)
    OBVIOUS
  <1>2. /\ queue # <<>> /\ IsFrame(Head(queue)) /\ at \in Nat
    BY DEF TypeOK
  <1>3. /\ Head(queue) = queue[1] /\ 1 \in DOMAIN queue
        /\ DOMAIN Frame.batch = 1..Len(Frame.batch) /\ Len(Frame.batch) \in Nat
    BY <1>2, AtFrame, HeadTail DEF TypeOK
  <1>5. /\ Grows /\ CallsOrdered'
        /\ \A k \in DOMAIN calls' : IsFrame(calls'[k][2]) =>
             /\ calls'[k][2] <= Len(sent)
             /\ \A j \in DOMAIN queue : IsFrame(queue[j]) =>
                  \/ calls'[k][2] < queue[j]
                  \/ j = 1 /\ calls'[k][2] = queue[1] /\ calls'[k][3] <= at
    <2>1. CASE UNCHANGED calls
      <3>1. \A k \in DOMAIN calls : IsFrame(calls[k][2]) =>
             /\ calls[k][2] <= Len(sent)
             /\ \A j \in DOMAIN queue : IsFrame(queue[j]) =>
                  \/ calls[k][2] < queue[j]
                  \/ j = 1 /\ calls[k][2] = queue[1] /\ calls[k][3] <= at
        BY <1>2, CallParts DEF HandoverInv, CallsBehind
      <3> QED
        BY <2>1, <3>1, QuietCalls
    <2>2. CASE \E h : Call(h, at)
      <3>1. PICK h : Call(h, at)
        BY <2>2
      <3> QED
        BY <1>2, <3>1, CallMade
    <2> QED
      BY <2>1, <2>2
  <1>6. ASSUME NEW f, f = queue[1], NEW n, n = at, Handler(Frame, m) \in stream.handlers
        PROVE  Handed(f, n)'
    BY <1>2, <1>6, CallMade
  <1>7. CallsBehind'
    <2> SUFFICES ASSUME NEW k \in DOMAIN calls', IsFrame(calls'[k][2])
                 PROVE  /\ calls'[k][2] <= Len(sent)
                        /\ \A i \in DOMAIN queue : IsFrame(queue[i]) =>
                             \/ calls'[k][2] < queue[i]
                             \/ i = 1 /\ calls'[k][2] = queue[1] /\ calls'[k][3] < at + 1
      BY <1>1, <1>2 DEF CallsBehind, IsFrame, Busy
    <2>1. calls'[k][3] \in Nat
      <3>1. calls' \in Seq(Handlers \X Int \X Nat)
        BY DEF TypeOK
      <3> QED
        BY <3>1
    <2> QED
      BY <1>2, <1>5, <2>1
  <1>8. Midway'
    <2>1. Frame' = Frame
      BY <1>1 DEF Frame
    <2>2. Readable(Frame)
      BY <1>1 DEF HandoverInv, Midway
    <2>3. ASSUME NEW i \in DOMAIN Frame.batch, i < at + 1, NEW f, f = queue[1]
          PROVE  /\ ~Throws(Frame, Frame.batch[i])
                 /\ Handler(Frame, Frame.batch[i]) \in stream.handlers => Handed(f, i)'
      <3>1. CASE i = at
        BY <1>1, <1>6, <2>3, <3>1 DEF m
      <3>2. CASE i # at
        <4>1. i < at
          BY <1>2, <1>3, <2>3, <3>2
        <4>2. ~Throws(Frame, Frame.batch[i]) /\ (Handler(Frame, Frame.batch[i]) \in stream.handlers => Handed(f, i))
          BY <1>1, <2>3, <4>1 DEF HandoverInv, Midway
        <4> QED
          BY <1>5, <4>2, HandedStays
      <3> QED
        BY <3>1, <3>2
    <2>4. /\ Readable(Frame)' = Readable(Frame)
          /\ \A i : Throws(Frame, Frame.batch[i])' = Throws(Frame, Frame.batch[i])
          /\ \A i : Handler(Frame, Frame.batch[i])' = Handler(Frame, Frame.batch[i])
      BY <1>1, <2>1 DEF Readable, Packed, Throws, Handler, dispatch
    <2>5. \A i, f : f = queue[1] => (Handed(f, i)' <=> Handed(queue[1], i)')
      BY <1>1 DEF Handed
    <2> QED
      BY <1>1, <2>1, <2>2, <2>3, <2>4, <2>5 DEF Midway
  <1>9. FinishedHandedOver'
    <2> SUFFICES ASSUME NEW f \in DOMAIN sent, \A i \in DOMAIN queue : queue[i] # f,
                        NEW i \in ToHandOver(f)'
                 PROVE  Handed(f, i)'
      BY <1>1 DEF FinishedHandedOver, Finished
    <2>1. Handed(f, i)
      BY <1>1, ToHandOverStays DEF HandoverInv, FinishedHandedOver, Finished
    <2> QED
      BY <1>5, <2>1, HandedStays
  <1> QED
    BY <1>1, <1>5, <1>7, <1>8, <1>9 DEF HandoverInv, QueueOrdered

\* Nothing the handing over depends on changes.
LEMMA StayHandover ==
  ASSUME TypeOK, HandoverInv, UNCHANGED <<stream, sent, queue, at, calls>>
  PROVE  HandoverInv'
  <1>1. Frame' = Frame
    BY DEF Frame
  <1>2. FinishedHandedOver'
    BY ToHandOverStays DEF HandoverInv, FinishedHandedOver, Finished, Handed
  <1> QED
    BY <1>1, <1>2 DEF HandoverInv, QueueOrdered, CallsBehind, CallsOrdered, Midway,
      Readable, Packed, Throws, Handler, dispatch, Handed, Busy

\* The message that made the stream ready is the protocol's own: no handler is for it.
MarkedTaken ==
  marking # "done" => Handler(Frame, Frame.batch[at]) \notin stream.handlers

LEMMA MarkedStep ==
  ASSUME TypeOK, MarkedTaken, [Next]_vars
  PROVE  MarkedTaken'
  <1> USE DEF server, client
  <1>1. ASSUME UNCHANGED <<stream, at, marking>>, marking # "done", Frame' = Frame
        PROVE  MarkedTaken'
    BY <1>1 DEF MarkedTaken, Handler, dispatch, Packed
  <1>2. ASSUME NEW e \in Int, queue' = Append(queue, e), marking # "done",
               sent' = sent \/ \E frame \in FrameSet : sent' = Append(sent, frame)
        PROVE  Frame' = Frame
    <2>1. queue # <<>> /\ IsFrame(Head(queue))
      BY <1>2 DEF TypeOK
    <2>2. Head(queue) = queue[1] /\ 1 \in DOMAIN queue /\ queue[1] \in DOMAIN sent
      BY <2>1, AtFrame, HeadTail DEF TypeOK
    <2>3. queue' \in Seq(Int) /\ queue' # <<>> /\ queue'[1] = queue[1]
      BY <1>2, <2>2, Appended DEF TypeOK
    <2>4. sent'[queue[1]] = sent[queue[1]]
      BY <1>2, <2>2, Appended DEF TypeOK
    <2> QED
      BY <2>2, <2>3, <2>4, HeadTail DEF Frame
  <1>3. ASSUME marking' = "done" PROVE MarkedTaken'
    BY <1>3 DEF MarkedTaken
  <1>4. Len(sent) + 1 \in Int /\ -1 \in Int
    BY DEF TypeOK
  <1>5. ASSUME NEW accepted \in BOOLEAN, Answer(accepted), marking # "done" PROVE MarkedTaken'
    BY <1>1, <1>2, <1>4, <1>5, Handshakes DEF Answer, Push
  <1>6. ASSUME NEW frame \in Frames(stream), Send(frame), marking # "done" PROVE MarkedTaken'
    <2>1. frame \in FrameSet
      BY FrameAssumption DEF TypeOK
    <2> QED
      BY <1>1, <1>2, <1>4, <1>6, <2>1 DEF Send, Push
  <1>7. CASE Drop /\ marking # "done"
    BY <1>1, <1>2, <1>4, <1>7 DEF Drop, Disconnected
  <1>8. CASE HandleMessage
    <2> DEFINE m == Frame.batch[at]
    <2>1. /\ UNCHANGED <<stream, sent, queue>> /\ marking = "done" /\ at \in Nat
          /\ IF IsData THEN data_payload(m, at) ELSE account_payload(m, at)
          /\ at' = IF marking' = "done" THEN at + 1 ELSE at
      BY <1>8 DEF HandleMessage, TypeOK
    <2>2. SUFFICES ASSUME marking' # "done" PROVE MarkedTaken'
      BY <1>3
    <2>3. Frame' = Frame /\ at' = at
      BY <2>1, <2>2 DEF Frame
    <2>4. \/ IsData /\ m.T = "success"
          \/ ~IsData /\ m.T = "authorization"
      BY <2>1, <2>2 DEF data_payload, account_payload, Ignore, Deliver, report_error
    <2>5. Handler(Frame, m) \notin stream.handlers
      BY <2>4, Addressed
    <2> QED
      BY <2>1, <2>3, <2>5 DEF MarkedTaken, Handler, dispatch, Packed
  <1>9. CASE OnReady
    BY <1>9 DEF OnReady, MarkedTaken, Frame, Handler, dispatch, Packed
  <1>10. CASE OnConnected
    BY <1>3, <1>10 DEF OnConnected
  <1>11. CASE UNCHANGED vars
    BY <1>11 DEF vars, MarkedTaken, Frame, Handler, dispatch, Packed
  <1>12. CASE marking = "done" /\ marking' = marking
    BY <1>3, <1>12
  <1>13. CASE Open \/ HandleConnected \/ HandleDisconnected \/ TakeFrame \/ Throw \/ FinishFrame
    <2>1. marking' = marking
      BY <1>13 DEF Open, HandleConnected, HandleDisconnected, TakeFrame, Throw, FinishFrame,
        Ignore, report_error
    <2>2. marking = "done"
      BY <1>13 DEF Open, HandleConnected, HandleDisconnected, TakeFrame, Throw, FinishFrame, TypeOK
    <2> QED
      BY <1>12, <2>1, <2>2
  <1>14. ASSUME marking = "done", \/ \E accepted \in BOOLEAN : Answer(accepted)
                                  \/ \E frame \in Frames(stream) : Send(frame)
                                  \/ Drop
         PROVE  MarkedTaken'
    BY <1>12, <1>14 DEF Answer, Send, Drop
  <1> QED
    BY <1>5, <1>6, <1>7, <1>8, <1>9, <1>10, <1>11, <1>13, <1>14 DEF Next, Service

LEMMA HandoverStep ==
  ASSUME TypeOK, HandoverInv, MarkedTaken, [Next]_vars
  PROVE  HandoverInv'
  <1> USE DEF server, client
  <1>1. CASE Open
    <2>1. queue' = Append(queue, 0)
      BY <1>1 DEF Open, Connected
    <2> QED
      BY <1>1, <2>1, JoinHandover DEF Open
  <1>2. ASSUME NEW frame \in FrameSet, Push(frame), UNCHANGED <<stream, at, calls>>
        PROVE  HandoverInv'
    <2>1. Len(sent) + 1 \in Int
      BY DEF TypeOK
    <2> QED
      BY <1>2, <2>1, JoinHandover DEF Push
  <1>3. ASSUME NEW accepted \in BOOLEAN, Answer(accepted) PROVE HandoverInv'
    BY <1>2, <1>3, Handshakes DEF Answer
  <1>4. ASSUME NEW frame \in Frames(stream), Send(frame) PROVE HandoverInv'
    BY <1>2, <1>4, FrameAssumption DEF Send, TypeOK
  <1>5. CASE Drop
    BY <1>5, JoinHandover DEF Drop, Disconnected
  <1>6. CASE HandleConnected
    <2>1. queue # <<>> /\ Head(queue) = queue[1] /\ queue[1] = 0 /\ at' = 0
      BY <1>6, HeadTail DEF HandleConnected, Connected, Busy, TypeOK
    <2>2. UNCHANGED <<stream, sent, calls>> /\ queue' = Tail(queue)
      BY <1>6 DEF HandleConnected
    <2>3. \A f \in DOMAIN sent : f # queue[1]
      BY <2>1, QueueInts
    <2>4. Grows /\ CallsOrdered'
      BY <2>2, QuietCalls
    <2> QED
      BY <2>1, <2>2, <2>3, <2>4, LeaveHandover DEF HandoverInv, CallsBehind
  <1>7. CASE HandleDisconnected
    <2>1. queue # <<>> /\ Head(queue) = queue[1] /\ queue[1] = -1 /\ at' = 0
      BY <1>7, HeadTail DEF HandleDisconnected, Disconnected, Busy, TypeOK
    <2>2. UNCHANGED <<stream, sent>> /\ queue' = Tail(queue)
      BY <1>7 DEF HandleDisconnected
    <2>3. \A f \in DOMAIN sent : f # queue[1]
      BY <2>1, QueueInts
    <2>4. CASE UNCHANGED calls
      <3>1. Grows /\ CallsOrdered'
        BY <2>4, QuietCalls
      <3> QED
        BY <2>1, <2>2, <2>3, <2>4, <3>1, LeaveHandover DEF HandoverInv, CallsBehind
    <2>5. CASE calls' = Append(calls, <<"on_disconnected", -1, 0>>)
      <3>1. <<"on_disconnected", -1, 0>> \in Handlers \X Int \X Nat /\ calls \in Seq(Handlers \X Int \X Nat)
        BY DEF Handlers, TypeOK
      <3>2. /\ DOMAIN calls' = DOMAIN calls \cup {Len(calls) + 1}
            /\ calls'[Len(calls) + 1][2] = -1
            /\ \A k \in DOMAIN calls : calls'[k] = calls[k]
        BY <2>5, <3>1, Appended
      <3>3. Grows
        BY <3>2 DEF Grows
      <3>4. \A k \in DOMAIN calls' : IsFrame(calls'[k][2]) => k \in DOMAIN calls /\ calls'[k] = calls[k]
        BY <3>2 DEF IsFrame
      <3>5. CallsOrdered'
        <4> SUFFICES ASSUME NEW j \in DOMAIN calls', NEW k \in DOMAIN calls', j < k,
                            IsFrame(calls'[j][2]), IsFrame(calls'[k][2])
                     PROVE  Before(calls'[j], calls'[k])
          BY DEF CallsOrdered, IsFrame, Before
        <4> QED
          BY <3>4 DEF HandoverInv, CallsOrdered
      <3>6. \A k \in DOMAIN calls' : IsFrame(calls'[k][2]) =>
              /\ calls'[k][2] <= Len(sent)
              /\ \A j \in DOMAIN queue : j # 1 /\ IsFrame(queue[j]) => calls'[k][2] < queue[j]
        BY <3>4 DEF HandoverInv, CallsBehind
      <3> QED
        BY <2>1, <2>2, <2>3, <3>3, <3>5, <3>6, LeaveHandover
    <2> QED
      BY <1>7, <2>1, <2>4, <2>5 DEF HandleDisconnected, Call
  <1>8. CASE TakeFrame
    <2>0. /\ ~Busy /\ queue # <<>> /\ IsFrame(Head(queue)) /\ Head(queue) = queue[1]
          /\ queue[1] \in DOMAIN sent /\ UNCHANGED <<stream, sent>> /\ Frame = sent[queue[1]]
          /\ 1 \in DOMAIN queue
      BY <1>8, AtFrame, HeadTail DEF TakeFrame, Frame, TypeOK
    <2>1. CASE Readable(Frame)
      <3>1. at' = 1 /\ UNCHANGED <<queue, calls>>
        BY <1>8, <2>1 DEF TakeFrame, Ignore
      <3>2. \A i \in DOMAIN Frame.batch : ~(i < 1)
        BY <2>0, AtFrame
      <3>3. Frame' = Frame /\ Readable(Frame)'
        BY <2>0, <2>1, <3>1 DEF Frame, Readable, Packed
      <3>4. Midway'
        BY <3>1, <3>2, <3>3 DEF Midway
      <3>5. CallsBehind'
        <4> SUFFICES ASSUME NEW k \in DOMAIN calls, IsFrame(calls[k][2])
                     PROVE  /\ calls[k][2] <= Len(sent)
                            /\ \A i \in DOMAIN queue : IsFrame(queue[i]) => calls[k][2] < queue[i]
          BY <2>0, <3>1 DEF CallsBehind, IsFrame
        <4> QED
          BY <2>0 DEF HandoverInv, CallsBehind
      <3>6. FinishedHandedOver'
        BY <2>0, <3>1, ToHandOverStays DEF HandoverInv, FinishedHandedOver, Finished, Handed
      <3> QED
        BY <2>0, <3>1, <3>4, <3>5, <3>6 DEF HandoverInv, QueueOrdered, CallsOrdered
    <2>2. CASE ~Readable(Frame)
      <3>1. queue' = Tail(queue) /\ at' = 0 /\ Call("on_error", 0)
        BY <1>8, <2>0, <2>2 DEF TakeFrame, report_error, Busy, TypeOK
      <3>2. /\ Grows /\ CallsOrdered'
            /\ \A k \in DOMAIN calls' : IsFrame(calls'[k][2]) =>
                 /\ calls'[k][2] <= Len(sent)
                 /\ \A j \in DOMAIN queue : IsFrame(queue[j]) =>
                      \/ calls'[k][2] < queue[j]
                      \/ j = 1 /\ calls'[k][2] = queue[1] /\ calls'[k][3] <= 0
            /\ "on_error" \in stream.handlers =>
                 \A f, n : f = queue[1] /\ n = 0 => Handed(f, n)'
        BY <2>0, <3>1, CallMade
      <3>3. ASSUME NEW f \in DOMAIN sent, f = queue[1], NEW i \in ToHandOver(f)
            PROVE  Handed(f, i)'
        <4>1. ~Readable(sent[f])
          BY <2>0, <2>2, <3>3
        <4>2. i = 0 /\ "on_error" \in stream.handlers
          BY <3>3, <4>1 DEF ToHandOver
        <4> QED
          BY <3>2, <3>3, <4>2
      <3> QED
        BY <2>0, <3>1, <3>2, <3>3, LeaveHandover
    <2> QED
      BY <2>1, <2>2
  <1>9. CASE HandleMessage
    <2> DEFINE m == Frame.batch[at]
    <2>1. /\ Busy /\ at <= Len(Frame.batch) /\ UNCHANGED <<stream, sent, queue>>
          /\ ~Throws(Frame, m)
          /\ IF IsData THEN data_payload(m, at) ELSE account_payload(m, at)
          /\ at' = IF marking' = "done" THEN at + 1 ELSE at
          /\ marking = "done"
      BY <1>9 DEF HandleMessage
    <2>2. at \in Nat
      BY DEF TypeOK
    <2>3. /\ UNCHANGED calls \/ \E h : Call(h, at)
          /\ marking' = marking \/ (marking' = "on_ready" /\ UNCHANGED calls)
          /\ \/ Deliver(m, at)
             \/ IsData /\ m.T \in {"success", "error", "subscription"}
             \/ ~IsData /\ m.T \in {"authorization", "listening"}
      BY <2>1, <2>2, MessageCalls
    <2> HIDE DEF m
    <2>4. CASE marking' = "on_ready" /\ UNCHANGED calls
      <3>1. at' = at
        BY <2>1, <2>4
      <3> QED
        BY <2>1, <2>4, <3>1, StayHandover
    <2>5. CASE marking' = marking
      <3>1. at' = at + 1
        BY <2>1, <2>5
      <3>2. ASSUME Handler(Frame, m) \in stream.handlers PROVE Call(Handler(Frame, m), at)
        BY <2>3, <3>2, Addressed DEF Deliver
      <3> QED
        BY <2>1, <2>3, <3>1, <3>2, PassHandover, TypeStep DEF m
    <2> QED
      BY <2>3, <2>4, <2>5
  <1>10. CASE Throw
    <2>1. /\ Busy /\ at <= Len(Frame.batch) /\ Throws(Frame, Frame.batch[at])
          /\ at' = 0 /\ queue' = Tail(queue) /\ UNCHANGED <<stream, sent, calls>>
      BY <1>10 DEF Throw, Ignore
    <2>2. /\ queue # <<>> /\ IsFrame(Head(queue)) /\ at \in Nat \ {0}
      BY <2>1 DEF TypeOK, Busy
    <2>3. /\ Head(queue) = queue[1] /\ at \in DOMAIN Frame.batch /\ Frame = sent[queue[1]]
          /\ DOMAIN Frame.batch = 1..Len(Frame.batch) /\ Len(Frame.batch) \in Nat
      BY <2>1, <2>2, AtFrame DEF Frame
    <2>4. Grows /\ CallsOrdered'
      BY <2>1, QuietCalls
    <2>5. Readable(Frame) /\ ~Packed(Frame)
      BY <2>1 DEF HandoverInv, Midway, Throws
    <2>6. Frame.whole
      BY <2>5 DEF Readable
    <2>7. ASSUME NEW f \in DOMAIN sent, f = queue[1], NEW i \in ToHandOver(f)
          PROVE  Handed(f, i)'
      <3>1. sent[f] = Frame
        BY <2>3, <2>7
      <3>2. /\ i \in DOMAIN Frame.batch /\ Handler(Frame, Frame.batch[i]) \in stream.handlers
            /\ \A j \in DOMAIN Frame.batch : Throws(Frame, Frame.batch[j]) => i < j
        BY <2>5, <2>6, <2>7, <3>1 DEF ToHandOver
      <3>3. i < at
        BY <2>1, <2>3, <3>2
      <3>4. Handed(f, i)
        BY <2>1, <2>7, <3>2, <3>3 DEF HandoverInv, Midway
      <3> QED
        BY <2>4, <3>4, HandedStays
    <2>8. \A k \in DOMAIN calls' : IsFrame(calls'[k][2]) =>
            /\ calls'[k][2] <= Len(sent)
            /\ \A j \in DOMAIN queue : j # 1 /\ IsFrame(queue[j]) => calls'[k][2] < queue[j]
      BY <2>1 DEF HandoverInv, CallsBehind
    <2> QED
      BY <2>1, <2>2, <2>4, <2>7, <2>8, LeaveHandover
  <1>11. CASE FinishFrame
    <2>1. /\ Busy /\ at > Len(Frame.batch)
          /\ at' = 0 /\ queue' = Tail(queue) /\ UNCHANGED <<stream, sent>>
          /\ IF Frame.whole THEN UNCHANGED calls ELSE Call("on_error", at)
      BY <1>11 DEF FinishFrame, Ignore, report_error
    <2>2. /\ queue # <<>> /\ IsFrame(Head(queue)) /\ at \in Nat /\ at <= Len(Frame.batch) + 1
      BY <2>1 DEF TypeOK
    <2>3. /\ Head(queue) = queue[1] /\ Frame = sent[queue[1]]
          /\ DOMAIN Frame.batch = 1..Len(Frame.batch) /\ Len(Frame.batch) \in Nat
      BY <2>2, AtFrame DEF Frame
    <2>4. at = Len(Frame.batch) + 1
      BY <2>1, <2>2, <2>3
    <2>5. /\ Grows /\ CallsOrdered'
          /\ \A k \in DOMAIN calls' : IsFrame(calls'[k][2]) =>
               /\ calls'[k][2] <= Len(sent)
               /\ \A j \in DOMAIN queue : j # 1 /\ IsFrame(queue[j]) => calls'[k][2] < queue[j]
          /\ ~Frame.whole /\ "on_error" \in stream.handlers =>
               \A f, n : f = queue[1] /\ n = at => Handed(f, n)'
      <3>1. CASE Frame.whole
        <4>1. UNCHANGED calls
          BY <2>1, <3>1
        <4>2. Grows /\ CallsOrdered'
          BY <4>1, QuietCalls
        <4>3. \A k \in DOMAIN calls' : IsFrame(calls'[k][2]) =>
                /\ calls'[k][2] <= Len(sent)
                /\ \A j \in DOMAIN queue : j # 1 /\ IsFrame(queue[j]) => calls'[k][2] < queue[j]
          BY <4>1 DEF HandoverInv, CallsBehind
        <4> QED
          BY <3>1, <4>2, <4>3
      <3>2. CASE ~Frame.whole
        BY <2>1, <2>2, <3>2, CallMade
      <3> QED
        BY <3>1, <3>2
    <2>6. ASSUME NEW f \in DOMAIN sent, f = queue[1], NEW i \in ToHandOver(f)
          PROVE  Handed(f, i)'
      <3>1. sent[f] = Frame /\ Readable(Frame)
        BY <2>1, <2>3, <2>6 DEF HandoverInv, Midway
      <3>2. \/ i \in DOMAIN Frame.batch /\ Handler(Frame, Frame.batch[i]) \in stream.handlers
            \/ i = at /\ ~Frame.whole /\ "on_error" \in stream.handlers
        BY <2>4, <2>6, <3>1 DEF ToHandOver
      <3>3. CASE i \in DOMAIN Frame.batch /\ Handler(Frame, Frame.batch[i]) \in stream.handlers
        <4>1. i < at
          BY <2>3, <2>4, <3>3
        <4>2. Handed(f, i)
          BY <2>1, <2>6, <3>3, <4>1 DEF HandoverInv, Midway
        <4> QED
          BY <2>5, <4>2, HandedStays
      <3> QED
        BY <2>5, <2>6, <3>2, <3>3
    <2> QED
      BY <2>1, <2>2, <2>5, <2>6, LeaveHandover
  <1>12. CASE OnReady
    BY <1>12, StayHandover DEF OnReady
  <1>13. CASE OnConnected
    <2>1. /\ Busy /\ at <= Len(Frame.batch) /\ at' = at + 1 /\ Call("on_connected", at)
          /\ UNCHANGED <<stream, sent, queue>>
      BY <1>13 DEF OnConnected, TypeOK
    <2>2. Handler(Frame, Frame.batch[at]) \notin stream.handlers
      BY <1>13 DEF OnConnected, MarkedTaken
    <2>3. ~Throws(Frame, Frame.batch[at])
      BY <2>2 DEF Throws
    <2> QED
      BY <2>1, <2>2, <2>3, PassHandover, TypeStep
  <1>14. CASE UNCHANGED vars
    BY <1>14, StayHandover DEF vars
  <1> QED
    BY <1>1, <1>3, <1>4, <1>5, <1>6, <1>7, <1>8, <1>9, <1>10, <1>11, <1>12, <1>13, <1>14
      DEF Next, Service

\* Handlers are called in the order the server wrote and once for each message, and a frame
\* that is done has been handed over (handle_frame() and its loop over the batch).
THEOREM HandoverOrdered == Spec => []HandedOverInOrder
  <1>1. Init => TypeOK
    BY TypeInit
  <1>2. Init => HandoverInv
    <2> SUFFICES ASSUME Init PROVE HandoverInv
      OBVIOUS
    <2>1. queue = <<>> /\ sent = <<>> /\ calls = <<>> /\ at = 0
      BY DEF Init
    <2>2. DOMAIN queue = {} /\ DOMAIN sent = {} /\ DOMAIN calls = {} /\ ~Busy
      BY <2>1 DEF Busy
    <2> QED
      BY <2>2 DEF HandoverInv, QueueOrdered, CallsBehind, CallsOrdered, Midway, FinishedHandedOver
  <1>3. TypeOK /\ HandoverInv /\ MarkedTaken /\ [Next]_vars => (TypeOK /\ HandoverInv /\ MarkedTaken)'
    BY TypeStep, HandoverStep, MarkedStep
  <1>4. HandoverInv => HandedOverInOrder
    BY DEF HandoverInv, CallsOrdered, FinishedHandedOver, Handed, HandedOverInOrder
  <1>5. Init => MarkedTaken
    BY DEF Init, MarkedTaken
  <1> QED
    BY <1>1, <1>2, <1>3, <1>4, <1>5, PTL DEF Spec
=============================================================================
