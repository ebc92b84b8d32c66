-------------------------- MODULE DataStreamProofs --------------------------
(***************************************************************************)
(* Theorems about DataStream, for any callers, topics and bounds.          *)
(***************************************************************************)
EXTENDS DataStream, TLAPS

Events == {"connected", "authenticated", "disconnected"}

(***************************************************************************)
(* Sequences.                                                              *)
(***************************************************************************)

LEMMA HeadTail ==
  ASSUME NEW S, NEW q \in Seq(S), q # <<>>
  PROVE  /\ Head(q) = q[1] /\ q[1] \in S /\ 1 \in DOMAIN q
         /\ Tail(q) \in Seq(S)
         /\ \A i \in DOMAIN Tail(q) : i + 1 \in DOMAIN q /\ i + 1 > 1 /\ Tail(q)[i] = q[i + 1]
         /\ \A i \in DOMAIN q : i # 1 => i - 1 \in DOMAIN Tail(q) /\ Tail(q)[i - 1] = q[i]
  OBVIOUS

LEMMA Appended ==
  ASSUME NEW S, NEW q \in Seq(S), NEW x \in S
  PROVE  /\ Append(q, x) \in Seq(S) /\ Append(q, x) # <<>>
         /\ DOMAIN Append(q, x) = DOMAIN q \cup {Len(q) + 1}
         /\ Append(q, x)[Len(q) + 1] = x
         /\ \A i \in DOMAIN q : Append(q, x)[i] = q[i] /\ i < Len(q) + 1
  OBVIOUS

LEMMA Lengths ==
  ASSUME NEW S, NEW q \in Seq(S)
  PROVE  Len(q) \in Nat /\ DOMAIN q = 1..Len(q)
  OBVIOUS

-----------------------------------------------------------------------------
(***************************************************************************)
(* Types.                                                                  *)
(***************************************************************************)

Frames == Frame \cup {Auth}

\* TypeOK is inductive once idle callers' frames are typed, and no replay is empty.
TypeInv ==
  /\ TypeOK
  /\ frame \in [Callers -> Frames]
  /\ svc = "replay" => replay # {}

LEMMA Sent ==
  ASSUME TypeInv, NEW f \in Frames, Send(f)
  PROVE  /\ wire' \in Seq(Frames)
         /\ UNCHANGED <<session, server, inbox>>
         /\ session = "none" => wire' = wire
         /\ session # "none" => wire' = Append(wire, f)
  <1>1. wire \in Seq(Frames)
    BY DEF TypeInv, TypeOK, Frames
  <1> QED
    BY <1>1, Appended DEF Send

LEMMA Entered ==
  ASSUME TypeInv, NEW c \in Callers, NEW action \in Actions, NEW topics \in SUBSET Program[c],
         Enter(c, action, topics)
  PROVE  /\ [action |-> action, topics |-> topics] \in Frame
         /\ topics \subseteq Topics
         /\ frame' = [frame EXCEPT ![c] = [action |-> action, topics |-> topics]]
         /\ frame' \in [Callers -> Frames]
         /\ pc[c] = "idle" /\ pc' = [pc EXCEPT ![c] = "check"]
         /\ calls' \in Nat
         /\ UNCHANGED <<state_, svc, replay, session, wire, server, inbox, drops>>
  <1>1. topics # {} /\ topics \subseteq Topics
    BY TopicAssumption DEF Enter
  <1>2. [action |-> action, topics |-> topics] \in Frame
    BY <1>1 DEF Frame
  <1> QED
    BY <1>1, <1>2 DEF Enter, TypeInv, TypeOK, Frames, net

LEMMA TypeStep ==
  ASSUME TypeInv, [Next]_vars
  PROVE  TypeInv'
  <1> USE DEF client, net
  <1>w. wire \in Seq(Frames) /\ inbox \in Seq(Events)
    BY DEF TypeInv, TypeOK, Frames, Events
  <1>1. ASSUME NEW c \in Callers, NEW topics \in SUBSET Program[c],
               Subscribe(c, topics) \/ Unsubscribe(c, topics)
        PROVE  TypeInv'
    <2>1. PICK action \in Actions : Enter(c, action, topics)
      BY <1>1 DEF Subscribe, Unsubscribe, Actions
    <2>2. channels_' \subseteq Topics
      BY <1>1, <2>1, Entered DEF Subscribe, Unsubscribe, TypeInv, TypeOK
    <2>3. /\ pc' = [pc EXCEPT ![c] = "check"] /\ frame' \in [Callers -> Frames] /\ calls' \in Nat
          /\ frame' = [frame EXCEPT ![c] = [action |-> action, topics |-> topics]]
          /\ [action |-> action, topics |-> topics] \in Frame
          /\ UNCHANGED <<state_, svc, replay, session, wire, server, inbox, drops>>
      BY <2>1, Entered
    <2>4. \A d \in Callers : pc'[d] # "idle" => frame'[d] \in Frame
      BY <2>3 DEF TypeInv, TypeOK
    <2> QED
      BY <2>2, <2>3, <2>4 DEF TypeInv, TypeOK
  <1>2. ASSUME NEW c \in Callers, Check(c) PROVE TypeInv'
    BY <1>2 DEF Check, TypeInv, TypeOK
  <1>3. ASSUME NEW c \in Callers, SendDelta(c) PROVE TypeInv'
    <2>1. frame[c] \in Frames /\ Send(frame[c])
      BY <1>3 DEF SendDelta, TypeInv
    <2>2. wire' \in Seq(Frames) /\ UNCHANGED <<session, server, inbox>>
      BY <2>1, Sent
    <2> QED
      BY <1>3, <2>2 DEF SendDelta, TypeInv, TypeOK, Frames
  <1>4. CASE SendAuth
    <2>1. wire' \in Seq(Frames) /\ UNCHANGED <<session, server, inbox>>
      BY <1>4, Sent DEF SendAuth, Frames
    <2> QED
      BY <1>4, <2>1 DEF SendAuth, TypeInv, TypeOK, Frames
  <1>5. CASE SendReplay
    <2>1. [action |-> "subscribe", topics |-> replay] \in Frame
      BY <1>5 DEF SendReplay, TypeInv, TypeOK, Frame, Actions
    <2>2. wire' \in Seq(Frames) /\ UNCHANGED <<session, server, inbox>>
      BY <1>5, <2>1, Sent DEF SendReplay, Frames
    <2> QED
      BY <1>5, <2>2 DEF SendReplay, TypeInv, TypeOK, Frames
  <1>6. CASE HandleConnected \/ HandleAuthenticated \/ HandleDisconnected
    <2>1. inbox' \in Seq(Events)
      BY <1>6, <1>w, HeadTail DEF HandleConnected, HandleAuthenticated, HandleDisconnected, Take
    <2> QED
      BY <1>6, <2>1 DEF HandleConnected, HandleAuthenticated, HandleDisconnected, Take,
                        TypeInv, TypeOK, Events
  <1>7. CASE Snapshot \/ OnConnected
    BY <1>7 DEF Snapshot, OnConnected, TypeInv, TypeOK
  <1>8. CASE SessionUp
    <2>1. inbox' \in Seq(Events)
      BY <1>8 DEF SessionUp, Events
    <2> QED
      BY <1>8, <2>1 DEF SessionUp, TypeInv, TypeOK, Events
  <1>9. CASE SessionLost
    <2>1. inbox' \in Seq(Events)
      BY <1>9, <1>w, Appended DEF SessionLost, Events
    <2>2. wire' \in Seq(Frames)
      BY <1>9 DEF SessionLost
    <2> QED
      BY <1>9, <2>1, <2>2 DEF SessionLost, TypeInv, TypeOK, Events, Frames
  <1>10. CASE ServerTake
    <2>1. wire' \in Seq(Frames) /\ Head(wire) \in Frames
      BY <1>10, <1>w, HeadTail DEF ServerTake
    <2>2. inbox' \in Seq(Events)
      BY <1>10, <1>w, Appended DEF ServerTake, Events
    <2>3. server' \subseteq Topics
      <3>1. Head(wire).action # "auth" => Head(wire).topics \subseteq Topics
        BY <2>1 DEF Frames, Frame, Auth
      <3> QED
        BY <1>10, <3>1 DEF ServerTake, TypeInv, TypeOK
    <2>4. session' \in {"none", "up", "authed"}
      BY <1>10 DEF ServerTake, TypeInv, TypeOK
    <2> QED
      BY <1>10, <2>1, <2>2, <2>3, <2>4 DEF ServerTake, TypeInv, TypeOK, Frames, Events
  <1>11. CASE UNCHANGED vars
    BY <1>11 DEF vars, TypeInv, TypeOK
  <1> QED
    BY <1>1, <1>2, <1>3, <1>4, <1>5, <1>6, <1>7, <1>8, <1>9, <1>10, <1>11
    DEF Next, CallerStep, ServiceStep, Rest

LEMMA TypeInit ==
  ASSUME Init
  PROVE  TypeInv
  <1>1. wire \in Seq(Frames) /\ inbox \in Seq(Events)
    BY DEF Init
  <1>2. frame \in [Callers -> Frames]
    BY DEF Init, Frames
  <1> QED
    BY <1>1, <1>2 DEF Init, TypeInv, TypeOK, Frames, Events

\* The client's and the server's sets hold topics only, and no frame names an empty set: the
\* calls and on_ready() return early instead (data_stream_base.cpp).
THEOREM TypeCorrect == Spec => []TypeOK
  <1>1. Init => TypeInv
    BY TypeInit
  <1>2. TypeInv /\ [Next]_vars => TypeInv'
    BY TypeStep
  <1>3. TypeInv => TypeOK
    BY DEF TypeInv
  <1> QED
    BY <1>1, <1>2, <1>3, PTL DEF Spec

-----------------------------------------------------------------------------
(***************************************************************************)
(* The session.                                                            *)
(***************************************************************************)

Waits(event) == \E i \in DOMAIN inbox : inbox[i] = event

IsAuth(i) == wire[i].action = "auth"

\* The credentials are on the wire at most once, and only while the caller is shown that they
\* are awaited; what a connection was told before it was lost is forgotten.
OneAuth ==
  \A i \in DOMAIN wire : IsAuth(i) =>
    /\ session = "up" /\ state_ = "authenticating" /\ svc # "send_auth" /\ ~Waits("connected")
    /\ \A j \in DOMAIN wire : IsAuth(j) => j = i

AuthToCome ==
  svc = "send_auth" =>
    /\ state_ = "authenticating" /\ session \in {"up", "none"} /\ ~Waits("connected")
    /\ \A i \in DOMAIN wire : ~IsAuth(i)

ConnectedFirst ==
  \A i \in DOMAIN inbox : inbox[i] = "connected" =>
    /\ i = 1 /\ state_ = "disconnected" /\ svc = "idle" /\ session \in {"up", "none"}
    /\ \A j \in DOMAIN wire : ~IsAuth(j)

Lost ==
  /\ Waits("disconnected")  => session = "none"
  /\ Waits("authenticated") => session \in {"authed", "none"}
  /\ wire # <<>> => session # "none"

SessionInv == OneAuth /\ AuthToCome /\ ConnectedFirst /\ Lost

\* A frame that is not the credentials leaves the handshake alone.
LEMMA SendKeeps ==
  ASSUME TypeInv, SessionInv, NEW f \in Frames, Send(f), f.action # "auth",
         UNCHANGED state_, svc' \in {svc, "on_connected"}, svc # svc' => svc = "replay"
  PROVE  SessionInv'
  <1>1. wire \in Seq(Frames)
    BY DEF TypeInv, TypeOK, Frames
  <1>2. UNCHANGED <<session, server, inbox>>
    BY Sent
  <1>3. CASE session = "none"
    <2>1. wire' = wire
      BY <1>3, Sent
    <2> QED
      BY <1>2, <2>1 DEF SessionInv, OneAuth, AuthToCome, ConnectedFirst, Lost, Waits, IsAuth
  <1>4. CASE session # "none"
    <2>1. wire' = Append(wire, f)
      BY <1>4, Sent
    <2>2. /\ DOMAIN wire' = DOMAIN wire \cup {Len(wire) + 1}
          /\ wire'[Len(wire) + 1] = f
          /\ \A i \in DOMAIN wire : wire'[i] = wire[i]
      BY <1>1, <2>1, Appended
    <2>3. \A i \in DOMAIN wire' : IsAuth(i)' => i \in DOMAIN wire /\ IsAuth(i)
      BY <2>2 DEF IsAuth
    <2>4. ConnectedFirst'
      BY <1>2, <2>3 DEF SessionInv, ConnectedFirst
    <2> QED
      BY <1>2, <1>4, <2>3, <2>4 DEF SessionInv, OneAuth, AuthToCome, Lost, Waits
  <1> QED
    BY <1>3, <1>4

LEMMA SessionStep ==
  ASSUME TypeInv, SessionInv, [Next]_vars
  PROVE  SessionInv'
  <1> USE DEF client, net
  <1>w. wire \in Seq(Frames) /\ inbox \in Seq(Events)
    BY DEF TypeInv, TypeOK, Frames, Events
  <1>1. ASSUME UNCHANGED <<state_, svc, net>> PROVE SessionInv'
    BY <1>1 DEF SessionInv, OneAuth, AuthToCome, ConnectedFirst, Lost, Waits, IsAuth
  <1>2. ASSUME NEW c \in Callers, SendDelta(c) PROVE SessionInv'
    <2>1. frame[c] \in Frame /\ Send(frame[c]) /\ UNCHANGED <<state_, svc>>
      BY <1>2 DEF SendDelta, TypeInv, TypeOK
    <2>2. frame[c] \in Frames /\ frame[c].action # "auth"
      BY <2>1 DEF Frames, Frame, Actions
    <2> QED
      BY <2>1, <2>2, SendKeeps
  <1>3. CASE SendReplay
    <2> DEFINE f == [action |-> "subscribe", topics |-> replay]
    <2>1. f \in Frames /\ f.action # "auth"
      BY <1>3 DEF SendReplay, TypeInv, TypeOK, Frame, Actions, Frames
    <2>2. Send(f) /\ UNCHANGED state_ /\ svc = "replay" /\ svc' = "on_connected"
      BY <1>3 DEF SendReplay
    <2> QED
      BY <2>1, <2>2, SendKeeps
  <1>4. CASE SendAuth
    <2>1. Auth \in Frames /\ Auth.action = "auth"
      BY DEF Frames, Auth
    <2>2. svc = "send_auth" /\ svc' = "idle" /\ UNCHANGED state_ /\ Send(Auth)
      BY <1>4 DEF SendAuth
    <2>3. UNCHANGED <<session, server, inbox>>
      BY <2>1, <2>2, Sent
    <2>4. /\ state_ = "authenticating" /\ session \in {"up", "none"} /\ ~Waits("connected")
          /\ \A i \in DOMAIN wire : ~IsAuth(i)
      BY <2>2 DEF SessionInv, AuthToCome
    <2>5. CASE session = "none"
      <3>1. wire' = wire
        BY <2>1, <2>2, <2>5, Sent
      <3> QED
        BY <2>2, <2>3, <2>4, <3>1
        DEF SessionInv, OneAuth, AuthToCome, ConnectedFirst, Lost, Waits, IsAuth
    <2>6. CASE session # "none"
      <3>1. wire' = Append(wire, Auth)
        BY <2>1, <2>2, <2>6, Sent
      <3>2. /\ DOMAIN wire' = DOMAIN wire \cup {Len(wire) + 1}
            /\ wire'[Len(wire) + 1] = Auth
            /\ \A i \in DOMAIN wire : wire'[i] = wire[i]
        BY <1>w, <2>1, <3>1, Appended
      <3>3. \A i \in DOMAIN wire' : IsAuth(i)' => i = Len(wire) + 1
        BY <2>4, <3>2 DEF IsAuth
      <3>4. OneAuth'
        BY <2>2, <2>3, <2>4, <2>6, <3>3 DEF OneAuth, Waits
      <3> QED
        BY <2>2, <2>3, <2>4, <2>6, <3>4 DEF SessionInv, AuthToCome, ConnectedFirst, Lost, Waits
    <2> QED
      BY <2>5, <2>6
  <1>5. CASE HandleConnected \/ HandleAuthenticated \/ HandleDisconnected
    <2>1. PICK event \in Events :
            /\ svc = "idle" /\ inbox # <<>> /\ Head(inbox) = event /\ inbox' = Tail(inbox)
            /\ UNCHANGED <<session, wire, server>>
            /\ \/ event = "connected" /\ svc' = "send_auth" /\ state_' = "authenticating"
               \/ event = "authenticated" /\ svc' = "snapshot" /\ state_' = "ready"
               \/ event = "disconnected" /\ svc' = "idle" /\ state_' = "disconnected"
      BY <1>5 DEF HandleConnected, HandleAuthenticated, HandleDisconnected, Take, Events
    <2>2. /\ inbox[1] = event /\ 1 \in DOMAIN inbox
          /\ \A i \in DOMAIN inbox' : i + 1 \in DOMAIN inbox /\ i + 1 > 1 /\ inbox'[i] = inbox[i + 1]
      BY <1>w, <2>1, HeadTail
    <2>3. Waits(event) /\ \A e : Waits(e)' => Waits(e)
      BY <2>2 DEF Waits
    <2>4. ~Waits("connected")'
      BY <2>2 DEF Waits, SessionInv, ConnectedFirst
    <2>5. \A i \in DOMAIN wire : ~IsAuth(i)
      BY <2>1, <2>2, <2>3 DEF SessionInv, OneAuth, ConnectedFirst, Lost
    <2>6. event = "connected" => session \in {"up", "none"}
      BY <2>2 DEF SessionInv, ConnectedFirst
    <2>7. ConnectedFirst'
      BY <2>4 DEF ConnectedFirst, Waits
    <2>8. OneAuth' /\ AuthToCome'
      BY <2>1, <2>4, <2>5, <2>6 DEF OneAuth, AuthToCome, IsAuth
    <2>9. Lost'
      BY <2>1, <2>3 DEF Lost, SessionInv
    <2> QED
      BY <2>7, <2>8, <2>9 DEF SessionInv
  <1>6. CASE Snapshot \/ OnConnected
    BY <1>6 DEF Snapshot, OnConnected, SessionInv, OneAuth, AuthToCome, ConnectedFirst, Lost,
                Waits, IsAuth
  <1>7. CASE SessionUp
    <2>1. /\ wire = <<>> /\ wire' = <<>> /\ session' = "up" /\ state_' = "disconnected" /\ svc' = "idle"
          /\ inbox' = <<"connected">>
      BY <1>7 DEF SessionUp, SessionInv, Lost
    <2>2. DOMAIN inbox' = {1} /\ inbox'[1] = "connected" /\ \A i \in DOMAIN wire' : FALSE
      BY <2>1
    <2> QED
      BY <2>1, <2>2 DEF SessionInv, OneAuth, AuthToCome, ConnectedFirst, Lost, Waits
  <1>8. CASE SessionLost
    <2>1. session' = "none" /\ wire' = <<>> /\ inbox' = Append(inbox, "disconnected")
          /\ UNCHANGED <<state_, svc>>
      BY <1>8 DEF SessionLost
    <2>2. /\ DOMAIN inbox' = DOMAIN inbox \cup {Len(inbox) + 1}
          /\ inbox'[Len(inbox) + 1] = "disconnected"
          /\ \A i \in DOMAIN inbox : inbox'[i] = inbox[i]
      BY <1>w, <2>1, Appended DEF Events
    <2>3. \A i \in DOMAIN wire' : FALSE
      BY <2>1
    <2>4. Waits("connected")' => Waits("connected")
      BY <2>2 DEF Waits
    <2>5. ConnectedFirst'
      BY <2>1, <2>2, <2>3 DEF SessionInv, ConnectedFirst
    <2> QED
      BY <2>1, <2>3, <2>4, <2>5 DEF SessionInv, OneAuth, AuthToCome, Lost
  <1>9. CASE ServerTake
    <2>1. wire # <<>> /\ wire' = Tail(wire) /\ UNCHANGED <<state_, svc>>
      BY <1>9 DEF ServerTake
    <2>2. /\ Head(wire) = wire[1] /\ 1 \in DOMAIN wire
          /\ \A i \in DOMAIN wire' : i + 1 \in DOMAIN wire /\ i + 1 > 1 /\ wire'[i] = wire[i + 1]
      BY <1>w, <2>1, HeadTail
    <2>3. CASE IsAuth(1)
      <3>1. session' = "authed" /\ inbox' = Append(inbox, "authenticated")
        BY <1>9, <2>2, <2>3 DEF ServerTake, IsAuth
      <3>2. /\ DOMAIN inbox' = DOMAIN inbox \cup {Len(inbox) + 1}
            /\ inbox'[Len(inbox) + 1] = "authenticated"
            /\ \A i \in DOMAIN inbox : inbox'[i] = inbox[i]
        BY <1>w, <3>1, Appended DEF Events
      <3>3. session = "up" /\ svc # "send_auth" /\ ~Waits("connected")
        BY <2>2, <2>3 DEF SessionInv, OneAuth
      <3>4. \A i \in DOMAIN wire' : ~IsAuth(i)'
        BY <2>2, <2>3 DEF SessionInv, OneAuth, IsAuth
      <3>5. ~Waits("connected")' /\ ~Waits("disconnected")'
        BY <3>2, <3>3 DEF Waits, SessionInv, Lost
      <3> QED
        BY <2>1, <3>1, <3>3, <3>4, <3>5
        DEF SessionInv, OneAuth, AuthToCome, ConnectedFirst, Lost, Waits
    <2>4. CASE ~IsAuth(1)
      <3>1. UNCHANGED <<session, inbox>>
        BY <1>9, <2>2, <2>4 DEF ServerTake, IsAuth
      <3>2. \A i \in DOMAIN wire' : IsAuth(i)' => IsAuth(i + 1)
        BY <2>2 DEF IsAuth
      <3>3. OneAuth'
        <4>1. ASSUME NEW i \in DOMAIN wire', NEW j \in DOMAIN wire', IsAuth(i)', IsAuth(j)'
              PROVE  i = j
          <5>1. i + 1 = j + 1
            BY <2>2, <3>2, <4>1 DEF SessionInv, OneAuth
          <5>2. i \in Nat /\ j \in Nat
            BY <1>w, <2>1, HeadTail, Lengths
          <5> QED
            BY <5>1, <5>2
        <4> QED
          BY <2>1, <2>2, <3>1, <3>2, <4>1 DEF SessionInv, OneAuth, Waits
      <3> QED
        BY <2>1, <2>2, <3>1, <3>2, <3>3
        DEF SessionInv, AuthToCome, ConnectedFirst, Lost, Waits
    <2> QED
      BY <2>3, <2>4
  <1>10. ASSUME NEW c \in Callers, NEW topics \in SUBSET Program[c],
                Subscribe(c, topics) \/ Unsubscribe(c, topics)
         PROVE  SessionInv'
    BY <1>1, <1>10 DEF Subscribe, Unsubscribe, Enter
  <1>11. CASE UNCHANGED vars
    BY <1>1, <1>11 DEF vars
  <1>12. ASSUME NEW c \in Callers, Check(c) PROVE SessionInv'
    BY <1>1, <1>12 DEF Check
  <1> QED
    BY <1>2, <1>3, <1>4, <1>5, <1>6, <1>7, <1>8, <1>9, <1>10, <1>11, <1>12
    DEF Next, CallerStep, ServiceStep, Rest

LEMMA SessionInit ==
  ASSUME Init
  PROVE  SessionInv
  <1>1. \A i \in DOMAIN wire : FALSE
    BY DEF Init
  <1>2. \A i \in DOMAIN inbox : FALSE
    BY DEF Init
  <1> QED
    BY <1>1, <1>2 DEF Init, SessionInv, OneAuth, AuthToCome, ConnectedFirst, Lost, Waits

LEMMA StepShows ==
  ASSUME TypeInv, SessionInv, [Next]_vars
  PROVE  [Abstract!Next]_(Abstract!vars)
  <1> USE DEF client, net, Abstract!Next, Abstract!vars, Shown
  <1>1. CASE SessionUp
    BY <1>1 DEF SessionUp, Abstract!Open
  <1>2. CASE SessionLost
    BY <1>2 DEF SessionLost, Abstract!Drop
  <1>3. CASE ServerTake
    <2>1. CASE Head(wire).action = "auth"
      <3>1. wire # <<>> /\ IsAuth(1) /\ 1 \in DOMAIN wire
        BY <1>3, <2>1, HeadTail DEF ServerTake, IsAuth, TypeInv, TypeOK
      <3>2. session = "up" /\ state_ = "authenticating"
        BY <3>1 DEF SessionInv, OneAuth
      <3> QED
        BY <1>3, <2>1, <3>2 DEF ServerTake, Abstract!Accept
    <2>2. CASE Head(wire).action # "auth"
      BY <1>3, <2>2 DEF ServerTake
    <2> QED
      BY <2>1, <2>2
  <1>4. CASE HandleConnected
    BY <1>4 DEF HandleConnected, Take, Abstract!Show, Abstract!Shows
  <1>5. CASE HandleAuthenticated
    BY <1>5 DEF HandleAuthenticated, Take, Abstract!Show, Abstract!Shows
  <1>6. CASE HandleDisconnected
    BY <1>6 DEF HandleDisconnected, Take, Abstract!Show, Abstract!Shows
  <1>7. CASE SendAuth \/ SendReplay \/ Snapshot \/ OnConnected
    BY <1>7 DEF SendAuth, SendReplay, Snapshot, OnConnected, Send
  <1>8. ASSUME NEW c \in Callers, CallerStep(c) PROVE UNCHANGED Abstract!vars
    BY <1>8 DEF CallerStep, Check, SendDelta, Send
  <1>9. ASSUME NEW c \in Callers, NEW topics \in SUBSET Program[c],
               Subscribe(c, topics) \/ Unsubscribe(c, topics)
        PROVE  UNCHANGED Abstract!vars
    BY <1>9 DEF Subscribe, Unsubscribe, Enter
  <1>10. CASE UNCHANGED vars
    BY <1>10 DEF vars
  <1> QED
    BY <1>1, <1>2, <1>3, <1>4, <1>5, <1>6, <1>7, <1>8, <1>9, <1>10 DEF Next, ServiceStep, Rest

\* Whatever callers, drops and replays do, is_ready() follows the connection one event behind
\* another, and a session opens only over a drop already handled: the subscriptions implement
\* the abstract Session, as the lifecycle below them does.
THEOREM SessionImplemented == Spec => ImplementsSession
  <1>1. Init => TypeInv /\ SessionInv
    BY TypeInit, SessionInit
  <1>2. TypeInv /\ SessionInv /\ [Next]_vars => (TypeInv /\ SessionInv)'
    BY TypeStep, SessionStep
  <1>3. Init => Abstract!Init
    BY DEF Init, Abstract!Init, Shown
  <1>4. TypeInv /\ SessionInv /\ [Next]_vars => [Abstract!Next]_(Abstract!vars)
    BY StepShows
  <1> QED
    BY <1>1, <1>2, <1>3, <1>4, PTL DEF Spec, ImplementsSession, Abstract!Spec

-----------------------------------------------------------------------------
(***************************************************************************)
(* The topics, each of which belongs to one caller.                        *)
(***************************************************************************)

OneOwner == \A c, d \in Callers : c # d => Program[c] \cap Program[d] = {}

\* A change under way agrees with the client's set: nobody else changes its topics.
Owned ==
  \A c \in Callers : pc[c] # "idle" =>
    /\ frame[c] \in Frame /\ frame[c].topics \subseteq Program[c]
    /\ frame[c].action = "subscribe"   => frame[c].topics \subseteq channels_
    /\ frame[c].action = "unsubscribe" => frame[c].topics \cap channels_ = {}

\* Between the snapshot and its sending the replay stands for what the server is to be told.
Covered(t) ==
  \/ Carries(t)
  \/ t \in Underway("subscribe")
  \/ svc = "replay" /\ t \in replay

CarriedInv ==
  state_ = "ready" /\ session = "authed" /\ svc \in {"idle", "replay", "on_connected"} =>
    \A t \in channels_ : Covered(t)

\* The last frame that names a topic decides.
LEMMA CarriesAppended ==
  ASSUME TypeInv, NEW f \in Frame, wire' = Append(wire, f), UNCHANGED server, NEW t
  PROVE  /\ t \in f.topics => (Carries(t)' <=> f.action = "subscribe")
         /\ t \notin f.topics => (Carries(t)' <=> Carries(t))
  <1>1. wire \in Seq(Frames) /\ f \in Frames
    BY DEF TypeInv, TypeOK, Frames
  <1>n. PICK n \in Nat : n = Len(wire) + 1
    BY <1>1, Lengths
  <1>2. /\ DOMAIN wire' = DOMAIN wire \cup {n} /\ wire'[n] = f
        /\ \A i \in DOMAIN wire : wire'[i] = wire[i] /\ i < n
        /\ DOMAIN wire \subseteq Nat
    BY <1>1, <1>n, Appended, Lengths
  <1>3. \A i \in DOMAIN wire : Mentions(i, t)' <=> Mentions(i, t)
    BY <1>2 DEF Mentions
  <1>4. Mentions(n, t)' <=> t \in f.topics
    BY <1>2 DEF Mentions
  <1>5. CASE t \in f.topics
    <2>1. ASSUME Carries(t)' PROVE f.action = "subscribe"
      <3>1. PICK i \in DOMAIN wire' :
               /\ Mentions(i, t)' /\ wire'[i].action = "subscribe"
               /\ \A j \in DOMAIN wire' : j > i => ~Mentions(j, t)'
        BY <1>2, <1>4, <1>5, <2>1 DEF Carries
      <3>2. i = n
        BY <1>2, <1>4, <1>5, <3>1
      <3> QED
        BY <1>2, <3>1, <3>2
    <2>2. ASSUME f.action = "subscribe" PROVE Carries(t)'
      <3>1. \A j \in DOMAIN wire' : ~(j > n)
        BY <1>2
      <3> QED
        BY <1>2, <1>4, <1>5, <2>2, <3>1 DEF Carries
    <2> QED
      BY <1>5, <2>1, <2>2
  <1>6. CASE t \notin f.topics
    <2>1. ~Mentions(n, t)'
      BY <1>4, <1>6
    <2>2. ASSUME Carries(t)' PROVE Carries(t)
      <3>1. CASE t \in server' /\ \A i \in DOMAIN wire' : ~Mentions(i, t)'
        BY <1>2, <1>3, <3>1 DEF Carries
      <3>2. CASE \E i \in DOMAIN wire' :
                   /\ Mentions(i, t)' /\ wire'[i].action = "subscribe"
                   /\ \A j \in DOMAIN wire' : j > i => ~Mentions(j, t)'
        <4>1. PICK i \in DOMAIN wire :
                 /\ Mentions(i, t)' /\ wire'[i].action = "subscribe"
                 /\ \A j \in DOMAIN wire' : j > i => ~Mentions(j, t)'
          BY <1>2, <2>1, <3>2
        <4>2. Mentions(i, t) /\ wire[i].action = "subscribe"
              /\ \A j \in DOMAIN wire : j > i => ~Mentions(j, t)
          BY <1>2, <1>3, <4>1
        <4> QED
          BY <4>2 DEF Carries
      <3> QED
        BY <2>2, <3>1, <3>2 DEF Carries
    <2>3. ASSUME Carries(t) PROVE Carries(t)'
      <3>1. CASE t \in server /\ \A i \in DOMAIN wire : ~Mentions(i, t)
        <4>1. \A i \in DOMAIN wire' : ~Mentions(i, t)'
          BY <1>2, <1>3, <2>1, <3>1
        <4> QED
          BY <3>1, <4>1 DEF Carries
      <3>2. CASE \E i \in DOMAIN wire :
                   /\ Mentions(i, t) /\ wire[i].action = "subscribe"
                   /\ \A j \in DOMAIN wire : j > i => ~Mentions(j, t)
        <4>1. PICK i \in DOMAIN wire :
                 /\ Mentions(i, t) /\ wire[i].action = "subscribe"
                 /\ \A j \in DOMAIN wire : j > i => ~Mentions(j, t)
          BY <3>2
        <4>2. /\ i \in DOMAIN wire' /\ Mentions(i, t)' /\ wire'[i].action = "subscribe"
              /\ \A j \in DOMAIN wire' : j > i => ~Mentions(j, t)'
          BY <1>2, <1>3, <2>1, <4>1
        <4> QED
          BY <4>2 DEF Carries
      <3> QED
        BY <2>3, <3>1, <3>2 DEF Carries
    <2> QED
      BY <1>6, <2>2, <2>3
  <1> QED
    BY <1>5, <1>6

\* A frame the server takes moves from the wire into its set.
LEMMA CarriesTaken ==
  ASSUME TypeInv, wire # <<>>, wire' = Tail(wire), Head(wire) \in Frame, NEW t,
         server' = IF Head(wire).action = "subscribe" THEN server \cup Head(wire).topics
                   ELSE server \ Head(wire).topics
  PROVE  Carries(t)' <=> Carries(t)
  <1>1. wire \in Seq(Frames)
    BY DEF TypeInv, TypeOK, Frames
  <1>2. /\ Head(wire) = wire[1] /\ 1 \in DOMAIN wire
        /\ \A i \in DOMAIN wire' : i + 1 \in DOMAIN wire /\ i + 1 > 1 /\ wire'[i] = wire[i + 1]
        /\ \A i \in DOMAIN wire : i # 1 => i - 1 \in DOMAIN wire' /\ wire'[i - 1] = wire[i]
        /\ DOMAIN wire \subseteq Nat \ {0} /\ DOMAIN wire' \subseteq Nat \ {0}
    <2>1. Tail(wire) \in Seq(Frames)
      BY <1>1, HeadTail
    <2> QED
      BY <1>1, <2>1, HeadTail, Lengths
  <1>3. \A i \in DOMAIN wire' : /\ Mentions(i, t)' <=> Mentions(i + 1, t)
                                /\ wire'[i].action = wire[i + 1].action
    BY <1>2 DEF Mentions
  <1>4. Mentions(1, t) <=> t \in Head(wire).topics
    BY <1>2 DEF Mentions
  <1>5. Head(wire).action \in {"subscribe", "unsubscribe"}
    BY DEF Frame, Actions
  <1> DEFINE Silent == \A i \in DOMAIN wire : i # 1 => ~Mentions(i, t)
             Later  == \E i \in DOMAIN wire : /\ i # 1 /\ Mentions(i, t) /\ wire[i].action = "subscribe"
                                              /\ \A j \in DOMAIN wire : j > i => ~Mentions(j, t)
             First  == IF t \in Head(wire).topics THEN Head(wire).action = "subscribe" ELSE t \in server
  <1>6. Carries(t) <=> (Silent /\ First) \/ Later
    <2>1. ASSUME Carries(t) PROVE (Silent /\ First) \/ Later
      <3>1. CASE t \in server /\ \A i \in DOMAIN wire : ~Mentions(i, t)
        BY <1>2, <1>4, <3>1
      <3>2. ASSUME NEW i \in DOMAIN wire, Mentions(i, t), wire[i].action = "subscribe",
                   \A j \in DOMAIN wire : j > i => ~Mentions(j, t)
            PROVE  (Silent /\ First) \/ Later
        <4>1. CASE i = 1
          <5>1. \A j \in DOMAIN wire : j # 1 => j > 1
            BY <1>2
          <5> QED
            BY <1>2, <1>4, <3>2, <4>1, <5>1
        <4>2. CASE i # 1
          BY <3>2, <4>2
        <4> QED
          BY <4>1, <4>2
      <3> QED
        BY <2>1, <3>1, <3>2 DEF Carries
    <2>2. ASSUME Silent, First PROVE Carries(t)
      <3>1. \A j \in DOMAIN wire : j > 1 => ~Mentions(j, t)
        BY <2>2
      <3>2. CASE t \in Head(wire).topics
        BY <1>2, <1>4, <2>2, <3>1, <3>2 DEF Carries
      <3>3. CASE t \notin Head(wire).topics
        BY <1>4, <2>2, <3>3 DEF Carries
      <3> QED
        BY <3>2, <3>3
    <2>3. ASSUME Later PROVE Carries(t)
      BY <2>3 DEF Carries
    <2> QED
      BY <2>1, <2>2, <2>3
  <1>7. Carries(t)' <=> (Silent /\ First) \/ Later
    <2>1. t \in server' <=> First
      BY <1>5
    <2>2. (\A i \in DOMAIN wire' : ~Mentions(i, t)') <=> Silent
      <3>1. ASSUME \A i \in DOMAIN wire' : ~Mentions(i, t)' PROVE Silent
        <4>1. ASSUME NEW i \in DOMAIN wire, i # 1 PROVE ~Mentions(i, t)
          <5>1. i - 1 \in DOMAIN wire' /\ (i - 1) + 1 = i
            BY <1>2, <4>1
          <5> QED
            BY <1>3, <3>1, <5>1
        <4> QED
          BY <4>1
      <3>2. ASSUME Silent PROVE \A i \in DOMAIN wire' : ~Mentions(i, t)'
        BY <1>2, <1>3, <3>2
      <3> QED
        BY <3>1, <3>2
    <2>3. ASSUME NEW i \in DOMAIN wire', Mentions(i, t)', wire'[i].action = "subscribe",
                 \A j \in DOMAIN wire' : j > i => ~Mentions(j, t)'
          PROVE  Later
      <3>1. i + 1 \in DOMAIN wire /\ i + 1 # 1 /\ Mentions(i + 1, t) /\ wire[i + 1].action = "subscribe"
        BY <1>2, <1>3, <2>3
      <3>2. ASSUME NEW j \in DOMAIN wire, j > i + 1 PROVE ~Mentions(j, t)
        <4>1. j # 1 /\ j - 1 > i /\ (j - 1) + 1 = j
          BY <1>2, <3>2
        <4> QED
          BY <1>2, <1>3, <2>3, <4>1
      <3> QED
        BY <3>1, <3>2
    <2>4. ASSUME NEW i \in DOMAIN wire, i # 1, Mentions(i, t), wire[i].action = "subscribe",
                 \A j \in DOMAIN wire : j > i => ~Mentions(j, t)
          PROVE  \E k \in DOMAIN wire' :
                   /\ Mentions(k, t)' /\ wire'[k].action = "subscribe"
                   /\ \A j \in DOMAIN wire' : j > k => ~Mentions(j, t)'
      <3>1. i - 1 \in DOMAIN wire' /\ (i - 1) + 1 = i
        BY <1>2, <2>4
      <3>2. Mentions(i - 1, t)' /\ wire'[i - 1].action = "subscribe"
        BY <1>3, <2>4, <3>1
      <3>3. ASSUME NEW j \in DOMAIN wire', j > i - 1 PROVE ~Mentions(j, t)'
        <4>1. j + 1 > i /\ j + 1 \in DOMAIN wire
          BY <1>2, <3>3
        <4> QED
          BY <1>3, <2>4, <4>1
      <3> QED
        BY <3>1, <3>2, <3>3
    <2>5. Carries(t)' <=> \/ First /\ Silent
                          \/ \E k \in DOMAIN wire' :
                               /\ Mentions(k, t)' /\ wire'[k].action = "subscribe"
                               /\ \A j \in DOMAIN wire' : j > k => ~Mentions(j, t)'
      BY <2>1, <2>2 DEF Carries
    <2> QED
      BY <2>3, <2>4, <2>5
  <1> QED
    BY <1>6, <1>7

LEMMA OwnedStep ==
  ASSUME OneOwner, TypeInv, Owned, [Next]_vars
  PROVE  Owned'
  <1> USE DEF client
  <1>1. ASSUME NEW c \in Callers, NEW topics \in SUBSET Program[c],
               Subscribe(c, topics) \/ Unsubscribe(c, topics)
        PROVE  Owned'
    <2>1. PICK action \in Actions :
            /\ Enter(c, action, topics)
            /\ action = "subscribe"   => channels_' = channels_ \cup topics
            /\ action = "unsubscribe" => channels_' = channels_ \ topics
      BY <1>1 DEF Subscribe, Unsubscribe, Actions
    <2>2. /\ [action |-> action, topics |-> topics] \in Frame
          /\ frame' = [frame EXCEPT ![c] = [action |-> action, topics |-> topics]]
          /\ pc' = [pc EXCEPT ![c] = "check"] /\ pc[c] = "idle"
      BY <2>1, Entered
    <2>3. frame'[c] = [action |-> action, topics |-> topics]
          /\ \A d \in Callers : d # c => frame'[d] = frame[d] /\ pc'[d] = pc[d]
      BY <2>2 DEF TypeInv, TypeOK
    <2>4. action = "subscribe" \/ action = "unsubscribe"
      BY DEF Actions
    <2>5. ASSUME NEW d \in Callers, d # c, pc'[d] # "idle"
          PROVE  /\ frame'[d] \in Frame /\ frame'[d].topics \subseteq Program[d]
                 /\ frame'[d].action = "subscribe"   => frame'[d].topics \subseteq channels_'
                 /\ frame'[d].action = "unsubscribe" => frame'[d].topics \cap channels_' = {}
      <3>1. /\ frame[d] \in Frame /\ frame[d].topics \subseteq Program[d]
            /\ frame[d].action = "subscribe"   => frame[d].topics \subseteq channels_
            /\ frame[d].action = "unsubscribe" => frame[d].topics \cap channels_ = {}
        BY <2>3, <2>5 DEF Owned
      <3>2. frame[d].topics \cap topics = {}
        BY <2>5, <3>1 DEF OneOwner
      <3> QED
        BY <2>1, <2>3, <2>4, <2>5, <3>1, <3>2
    <2>6. /\ frame'[c] \in Frame /\ frame'[c].topics \subseteq Program[c]
          /\ frame'[c].action = "subscribe"   => frame'[c].topics \subseteq channels_'
          /\ frame'[c].action = "unsubscribe" => frame'[c].topics \cap channels_' = {}
      BY <2>1, <2>2, <2>3
    <2> QED
      BY <2>5, <2>6 DEF Owned
  <1>2. ASSUME NEW c \in Callers, CallerStep(c) PROVE Owned'
    <2>1. UNCHANGED <<channels_, frame>> /\ pc[c] # "idle"
          /\ \A d \in Callers : pc'[d] # "idle" => pc[d] # "idle"
      BY <1>2 DEF CallerStep, Check, SendDelta, TypeInv, TypeOK
    <2> QED
      BY <2>1 DEF Owned
  <1>3. ASSUME UNCHANGED <<channels_, client>> PROVE Owned'
    BY <1>3 DEF Owned
  <1>4. CASE ServiceStep \/ SessionUp \/ SessionLost \/ ServerTake
    BY <1>3, <1>4 DEF ServiceStep, HandleConnected, SendAuth, HandleAuthenticated,
                      HandleDisconnected, Snapshot, SendReplay, OnConnected, SessionUp,
                      SessionLost, ServerTake
  <1>5. CASE UNCHANGED vars
    BY <1>3, <1>5 DEF vars
  <1> QED
    BY <1>1, <1>2, <1>4, <1>5 DEF Next, Rest

\* What a step does to the frames a live session has still to take.
LEMMA DeltaSent ==
  ASSUME TypeInv, Owned, NEW c \in Callers, SendDelta(c), session # "none", NEW t
  PROVE  /\ frame[c] \in Frame
         /\ t \in frame[c].topics =>
              /\ Carries(t)' <=> frame[c].action = "subscribe"
              /\ frame[c].action = "subscribe" <=> t \in channels_
         /\ t \notin frame[c].topics => (Carries(t)' <=> Carries(t))
         /\ \A action \in Actions : t \in Underway(action) /\ t \notin frame[c].topics
              => t \in Underway(action)'
         /\ \A action \in Actions : t \in Underway(action)' => t \in Underway(action)
  <1>1. /\ pc[c] = "send" /\ Send(frame[c]) /\ pc' = [pc EXCEPT ![c] = "idle"]
        /\ UNCHANGED <<state_, channels_, frame>>
    BY DEF SendDelta
  <1>2. /\ frame[c] \in Frame
        /\ frame[c].action = "subscribe"   => frame[c].topics \subseteq channels_
        /\ frame[c].action = "unsubscribe" => frame[c].topics \cap channels_ = {}
    BY <1>1 DEF Owned
  <1>3. frame[c].action \in {"subscribe", "unsubscribe"} /\ frame[c] \in Frames
    BY <1>2 DEF Frame, Frames, Actions
  <1>4. wire' = Append(wire, frame[c]) /\ UNCHANGED server
    BY <1>1, <1>3, Sent
  <1>5. /\ t \in frame[c].topics => (Carries(t)' <=> frame[c].action = "subscribe")
        /\ t \notin frame[c].topics => (Carries(t)' <=> Carries(t))
    BY <1>2, <1>4, CarriesAppended
  <1>6. t \in frame[c].topics => (frame[c].action = "subscribe" <=> t \in channels_)
    BY <1>2, <1>3
  <1>7. pc'[c] = "idle" /\ \A d \in Callers : d # c => pc'[d] = pc[d]
    BY <1>1 DEF TypeInv, TypeOK
  <1>8. \A action \in Actions : t \in Underway(action) /\ t \notin frame[c].topics
          => t \in Underway(action)'
    BY <1>1, <1>7 DEF Underway
  <1>9. \A action \in Actions : t \in Underway(action)' => t \in Underway(action)
    BY <1>1, <1>7 DEF Underway
  <1> QED
    BY <1>2, <1>5, <1>6, <1>8, <1>9

LEMMA FrameTaken ==
  ASSUME TypeInv, SessionInv, ServerTake, session' = "authed", state_ = "ready", NEW t
  PROVE  session = "authed" /\ (Carries(t)' <=> Carries(t))
  <1>1. wire # <<>> /\ wire' = Tail(wire) /\ wire \in Seq(Frames)
    BY DEF ServerTake, TypeInv, TypeOK, Frames
  <1>2. Head(wire) = wire[1] /\ 1 \in DOMAIN wire /\ wire[1] \in Frames
    BY <1>1, HeadTail
  <1>3. Head(wire).action # "auth"
    BY <1>2 DEF SessionInv, OneAuth, IsAuth
  <1>4. session = "authed" /\ Head(wire) \in Frame
    BY <1>2, <1>3 DEF ServerTake, Frames, Auth
  <1>5. server' = IF Head(wire).action = "subscribe" THEN server \cup Head(wire).topics
                  ELSE server \ Head(wire).topics
    BY <1>3, <1>4 DEF ServerTake
  <1> QED
    BY <1>1, <1>4, <1>5, CarriesTaken

LEMMA SameCarries ==
  ASSUME UNCHANGED <<wire, server>>, NEW t
  PROVE  Carries(t)' <=> Carries(t)
  BY DEF Carries, Mentions

LEMMA CarriedStep ==
  ASSUME TypeInv, SessionInv, Owned, CarriedInv, [Next]_vars
  PROVE  CarriedInv'
  <1> SUFFICES ASSUME state_' = "ready", session' = "authed",
                      svc' \in {"idle", "replay", "on_connected"}, NEW t \in channels_'
               PROVE  Covered(t)'
    BY DEF CarriedInv
  <1> USE DEF client, net
  <1>1. ASSUME NEW c \in Callers, NEW topics \in SUBSET Program[c],
               Subscribe(c, topics) \/ Unsubscribe(c, topics)
        PROVE  Covered(t)'
    <2>1. PICK action \in Actions :
            /\ Enter(c, action, topics)
            /\ action = "subscribe"   => channels_' = channels_ \cup topics
            /\ action = "unsubscribe" => channels_' = channels_ \ topics
      BY <1>1 DEF Subscribe, Unsubscribe, Actions
    <2>2. /\ frame' = [frame EXCEPT ![c] = [action |-> action, topics |-> topics]]
          /\ pc' = [pc EXCEPT ![c] = "check"] /\ pc[c] = "idle" /\ topics \subseteq Topics
          /\ UNCHANGED <<state_, svc, replay, session, wire, server>>
      BY <2>1, Entered
    <2>3. /\ frame'[c] = [action |-> action, topics |-> topics] /\ pc'[c] = "check"
          /\ \A d \in Callers : d # c => frame'[d] = frame[d] /\ pc'[d] = pc[d]
      BY <2>2 DEF TypeInv, TypeOK
    <2>4. CASE t \in channels_
      <3>1. Covered(t)
        BY <2>2, <2>4 DEF CarriedInv
      <3>2. t \in Underway("subscribe") => t \in Underway("subscribe")'
        BY <2>2, <2>3 DEF Underway
      <3> QED
        BY <2>2, <3>1, <3>2, SameCarries DEF Covered
    <2>5. CASE t \notin channels_
      <3>1. action = "subscribe" /\ t \in topics
        BY <2>1, <2>5 DEF Actions
      <3>2. t \in Underway("subscribe")'
        BY <2>2, <2>3, <3>1 DEF Underway
      <3> QED
        BY <3>2 DEF Covered
    <2> QED
      BY <2>4, <2>5
  <1>2. ASSUME NEW c \in Callers, Check(c) PROVE Covered(t)'
    <2>1. /\ pc[c] = "check" /\ pc' = [pc EXCEPT ![c] = "send"]
          /\ UNCHANGED <<state_, channels_, frame, svc, replay, session, wire, server>>
      BY <1>2 DEF Check
    <2>2. Covered(t)
      BY <2>1 DEF CarriedInv
    <2>3. t \in Underway("subscribe") => t \in Underway("subscribe")'
      BY <2>1 DEF Underway, TypeInv, TypeOK
    <2> QED
      BY <2>1, <2>2, <2>3, SameCarries DEF Covered
  <1>3. ASSUME NEW c \in Callers, SendDelta(c) PROVE Covered(t)'
    <2>1. UNCHANGED <<state_, channels_, svc, replay, session>>
      BY <1>3 DEF SendDelta, Send
    <2>2. Covered(t)
      BY <2>1 DEF CarriedInv
    <2>3. /\ t \in frame[c].topics => Carries(t)'
          /\ t \notin frame[c].topics => (Carries(t)' <=> Carries(t))
          /\ t \in Underway("subscribe") /\ t \notin frame[c].topics => t \in Underway("subscribe")'
      BY <1>3, <2>1, DeltaSent DEF Actions
    <2> QED
      BY <2>1, <2>2, <2>3 DEF Covered
  <1>4. CASE SendReplay
    <2> DEFINE f == [action |-> "subscribe", topics |-> replay]
    <2>1. f \in Frame /\ f \in Frames
      BY <1>4 DEF SendReplay, TypeInv, TypeOK, Frame, Actions, Frames
    <2>2. svc = "replay" /\ Send(f) /\ UNCHANGED <<state_, channels_, client, replay>>
      BY <1>4 DEF SendReplay
    <2>3. UNCHANGED <<session, server>> /\ wire' = Append(wire, f)
      BY <2>1, <2>2, Sent
    <2>4. Covered(t)
      BY <2>2, <2>3 DEF CarriedInv
    <2>5. /\ t \in f.topics => (Carries(t)' <=> f.action = "subscribe")
          /\ t \notin f.topics => (Carries(t)' <=> Carries(t))
      BY <2>1, <2>3, CarriesAppended
    <2>6. Underway("subscribe")' = Underway("subscribe")
      BY <2>2 DEF Underway
    <2> QED
      BY <2>4, <2>5, <2>6 DEF Covered
  <1>5. CASE Snapshot
    BY <1>5 DEF Snapshot, Covered
  <1>6. CASE OnConnected
    <2>1. svc = "on_connected" /\ UNCHANGED <<state_, channels_, client, replay, session, wire, server>>
      BY <1>6 DEF OnConnected
    <2>2. Covered(t)
      BY <2>1 DEF CarriedInv
    <2>3. Underway("subscribe")' = Underway("subscribe")
      BY <2>1 DEF Underway
    <2> QED
      BY <2>1, <2>2, <2>3, SameCarries DEF Covered
  <1>7. CASE SendAuth
    BY <1>7 DEF SendAuth, SessionInv, AuthToCome
  <1>8. CASE HandleConnected \/ HandleAuthenticated \/ HandleDisconnected \/ SessionUp \/ SessionLost
    BY <1>8 DEF HandleConnected, HandleAuthenticated, HandleDisconnected, Take, SessionUp, SessionLost
  <1>9. CASE ServerTake
    <2>1. UNCHANGED <<state_, channels_, client, svc, replay>>
      BY <1>9 DEF ServerTake
    <2>2. session = "authed" /\ (Carries(t)' <=> Carries(t))
      BY <1>9, <2>1, FrameTaken
    <2>3. Covered(t)
      BY <2>1, <2>2 DEF CarriedInv
    <2>4. Underway("subscribe")' = Underway("subscribe")
      BY <2>1 DEF Underway
    <2> QED
      BY <2>1, <2>2, <2>3, <2>4 DEF Covered
  <1>10. CASE UNCHANGED vars
    <2>1. UNCHANGED <<state_, channels_, client, svc, replay, session, wire, server>>
      BY <1>10 DEF vars
    <2>2. Covered(t)
      BY <2>1 DEF CarriedInv
    <2>3. Underway("subscribe")' = Underway("subscribe")
      BY <2>1 DEF Underway
    <2> QED
      BY <2>1, <2>2, <2>3, SameCarries DEF Covered
  <1> QED
    BY <1>1, <1>2, <1>3, <1>4, <1>5, <1>6, <1>7, <1>8, <1>9, <1>10
    DEF Next, CallerStep, ServiceStep, Rest

TopicInv == TypeInv /\ SessionInv /\ Owned /\ CarriedInv

LEMMA TopicInvHolds ==
  ASSUME OneOwner
  PROVE  Spec => []TopicInv
  <1>1. Init => TopicInv
    BY TypeInit, SessionInit DEF TopicInv, Init, Owned, CarriedInv
  <1>2. TopicInv /\ [Next]_vars => TopicInv'
    BY TypeStep, SessionStep, OwnedStep, CarriedStep DEF TopicInv
  <1> QED
    BY <1>1, <1>2, PTL DEF Spec

\* If no two threads share a topic, then from on_connected on a live session carries all that
\* the client wants, however the three steps of a subscribe() fall around the two of the
\* replay and around drops.
THEOREM IntentAlwaysCarried ==
  ASSUME OneOwner
  PROVE  Spec => []IntentCarried
  <1>1. TopicInv => IntentCarried
    BY DEF TopicInv, CarriedInv, Covered, IntentCarried, Replayed
  <1> QED
    BY <1>1, TopicInvHolds, PTL

LEMMA NoneReturns ==
  ASSUME TopicInv, [Next]_vars, Replayed, Replayed', NEW t \in Excess'
  PROVE  t \in Excess
  <1> USE DEF client, net
  <1>0. /\ TypeInv /\ SessionInv /\ Owned
        /\ state_ = "ready" /\ state_' = "ready" /\ session = "authed" /\ session' = "authed"
        /\ svc \in {"on_connected", "idle"} /\ svc' \in {"on_connected", "idle"}
        /\ t \in Topics /\ Carries(t)' /\ t \notin channels_' /\ t \notin Underway("unsubscribe")'
    BY DEF TopicInv, Replayed, Excess
  <1> SUFFICES Carries(t) /\ t \notin channels_ /\ t \notin Underway("unsubscribe")
    BY <1>0 DEF Excess
  <1>1. ASSUME NEW c \in Callers, NEW topics \in SUBSET Program[c],
               Subscribe(c, topics) \/ Unsubscribe(c, topics)
        PROVE  Carries(t) /\ t \notin channels_ /\ t \notin Underway("unsubscribe")
    <2>1. PICK action \in Actions :
            /\ Enter(c, action, topics)
            /\ action = "subscribe"   => channels_' = channels_ \cup topics
            /\ action = "unsubscribe" => channels_' = channels_ \ topics
      BY <1>1 DEF Subscribe, Unsubscribe, Actions
    <2>2. /\ frame' = [frame EXCEPT ![c] = [action |-> action, topics |-> topics]]
          /\ pc' = [pc EXCEPT ![c] = "check"] /\ pc[c] = "idle"
          /\ UNCHANGED <<wire, server>>
      BY <1>0, <2>1, Entered
    <2>3. /\ frame'[c] = [action |-> action, topics |-> topics] /\ pc'[c] = "check"
          /\ \A d \in Callers : d # c => frame'[d] = frame[d] /\ pc'[d] = pc[d]
      BY <1>0, <2>2 DEF TypeInv, TypeOK
    <2>4. t \notin Underway("unsubscribe")
      BY <1>0, <2>2, <2>3 DEF Underway
    <2>5. ~(action = "unsubscribe" /\ t \in topics)
      BY <1>0, <2>3 DEF Underway
    <2>6. t \notin channels_
      BY <1>0, <2>1, <2>5 DEF Actions
    <2> QED
      BY <1>0, <2>2, <2>4, <2>6, SameCarries
  <1>2. ASSUME NEW c \in Callers, Check(c)
        PROVE  Carries(t) /\ t \notin channels_ /\ t \notin Underway("unsubscribe")
    <2>1. /\ pc[c] = "check" /\ pc' = [pc EXCEPT ![c] = "send"]
          /\ UNCHANGED <<channels_, frame, wire, server>>
      BY <1>0, <1>2 DEF Check
    <2>2. t \in Underway("unsubscribe") => t \in Underway("unsubscribe")'
      BY <1>0, <2>1 DEF Underway, TypeInv, TypeOK
    <2> QED
      BY <1>0, <2>1, <2>2, SameCarries
  <1>3. ASSUME NEW c \in Callers, SendDelta(c)
        PROVE  Carries(t) /\ t \notin channels_ /\ t \notin Underway("unsubscribe")
    <2>1. UNCHANGED channels_
      BY <1>3 DEF SendDelta
    <2>2. /\ t \in frame[c].topics => ~Carries(t)'
          /\ t \notin frame[c].topics => (Carries(t)' <=> Carries(t))
          /\ t \in Underway("unsubscribe") /\ t \notin frame[c].topics
               => t \in Underway("unsubscribe")'
      BY <1>0, <1>3, <2>1, DeltaSent DEF Actions
    <2> QED
      BY <1>0, <2>1, <2>2
  <1>4. CASE ServerTake
    <2>1. UNCHANGED <<channels_, client>>
      BY <1>4 DEF ServerTake
    <2>2. Carries(t)' <=> Carries(t)
      BY <1>0, <1>4, FrameTaken
    <2>3. Underway("unsubscribe")' = Underway("unsubscribe")
      BY <2>1 DEF Underway
    <2> QED
      BY <1>0, <2>1, <2>2, <2>3
  <1>5. CASE OnConnected \/ UNCHANGED vars
    <2>1. UNCHANGED <<channels_, client, wire, server>>
      BY <1>5 DEF OnConnected, vars
    <2>2. Underway("unsubscribe")' = Underway("unsubscribe")
      BY <2>1 DEF Underway
    <2> QED
      BY <1>0, <2>1, <2>2, SameCarries
  <1>6. ~(SendReplay \/ Snapshot \/ SendAuth \/ HandleConnected \/ HandleAuthenticated
            \/ HandleDisconnected \/ SessionUp \/ SessionLost)
    BY <1>0 DEF SendReplay, Snapshot, SendAuth, HandleConnected, HandleAuthenticated,
                HandleDisconnected, Take, SessionUp, SessionLost
  <1> QED
    BY <1>1, <1>2, <1>3, <1>4, <1>5, <1>6 DEF Next, CallerStep, ServiceStep, Rest

\* If no two threads share a topic, a topic given up while the stream is live does not come
\* back before the next drop: no late delta of another call can ask for it again.
THEOREM NoTopicEverReturns ==
  ASSUME OneOwner
  PROVE  Spec => NoTopicReturns
  <1>1. TopicInv /\ [Next]_vars => [Replayed /\ Replayed' => Excess' \subseteq Excess]_vars
    <2> SUFFICES ASSUME TopicInv, [Next]_vars, Replayed, Replayed', NEW t \in Excess'
                 PROVE  t \in Excess
      OBVIOUS
    <2> QED
      BY NoneReturns
  <1> QED
    BY <1>1, TopicInvHolds, PTL DEF Spec, NoTopicReturns
=============================================================================
