----------------------------- MODULE DataStream -----------------------------
(***************************************************************************)
(* The subscriptions of alpaca::detail::data_stream_base                   *)
(* (core/src/streaming/data_stream_base.cpp): the set the client wants     *)
(* (channels_), the deltas callers send while the stream is live, and the  *)
(* replay the service thread sends after every reconnect.                  *)
(*                                                                         *)
(* A caller records its change under subs_mutex_, reads is_ready() and     *)
(* sends, in three steps with the mutex free after the first.  on_ready()  *)
(* builds the replay under subs_mutex_ and sends it after the unlock.      *)
(*                                                                         *)
(* The lifecycle of the connection is the one StreamBase establishes for a *)
(* stream that is connected and left to reconnect: a new session is opened *)
(* only after the drop of the last one was handled                         *)
(* (ReconnectOpensClosedSocket).  A topic is one symbol of one channel.    *)
(* The socket and the server are external: frames go out in order, a frame *)
(* sent on a closed socket is lost, and the server adds to, or removes     *)
(* from, the set of the current session only.                              *)
(***************************************************************************)
EXTENDS Naturals, Sequences

CONSTANTS
  Callers,       \* threads that call subscribe() and unsubscribe()
  Topics,        \* <<channel, symbol>> pairs
  Program,       \* Program[c]: the topics caller c changes
  MaxCalls,      \* bound: calls in all
  MaxDrops       \* bound: dropped sessions in all

ASSUME TopicAssumption == Program \in [Callers -> SUBSET Topics]
ASSUME DataBoundsAssumption == MaxCalls \in Nat /\ MaxDrops \in Nat

VARIABLES
  state_,      \* the lifecycle state is_ready() reads
  channels_,   \* the topics the client wants
  pc,          \* where each caller is
  frame,       \* the payload each caller has built
  svc,         \* where the service thread is
  replay,      \* the last set on_ready() built a frame for
  session,     \* the connection as the server sees it
  wire,        \* frames under way to the server
  server,      \* the topics the server sends on this session
  inbox,       \* events the service thread has yet to run
  calls,       \* calls made so far
  drops        \* drops so far

client == <<pc, frame>>
net    == <<session, wire, server, inbox>>
vars   == <<state_, channels_, client, svc, replay, net, calls, drops>>

Actions == {"subscribe", "unsubscribe"}

\* No frame names an empty set: the calls and on_ready() return early instead of sending one.
Frame == [action : Actions, topics : (SUBSET Topics) \ {{}}]

Auth == [action |-> "auth", topics |-> {}]

TypeOK ==
  /\ state_ \in {"disconnected", "authenticating", "ready"}
  /\ channels_ \subseteq Topics
  /\ pc \in [Callers -> {"idle", "check", "send"}]
  /\ \A c \in Callers : pc[c] # "idle" => frame[c] \in Frame
  /\ svc \in {"idle", "send_auth", "snapshot", "replay", "on_connected"}
  /\ replay \subseteq Topics
  /\ session \in {"none", "up", "authed"}
  /\ wire \in Seq(Frame \cup {Auth})
  /\ server \subseteq Topics
  /\ inbox \in Seq({"connected", "authenticated", "disconnected"})
  /\ calls \in Nat /\ drops \in Nat

Init ==
  /\ state_ = "disconnected"
  /\ channels_ = {}
  /\ pc = [c \in Callers |-> "idle"]
  /\ frame = [c \in Callers |-> Auth]
  /\ svc = "idle"
  /\ replay = {}
  /\ session = "none"
  /\ wire = <<>>
  /\ server = {}
  /\ inbox = <<>>
  /\ calls = 0
  /\ drops = 0

\* stream_base::send(): a frame sent on a socket that is down goes nowhere.
Send(f) ==
  /\ wire' = IF session = "none" THEN wire ELSE Append(wire, f)
  /\ UNCHANGED <<session, server, inbox>>

(***************************************************************************)
(* subscribe() and unsubscribe()                                           *)
(***************************************************************************)

\* The early return on an empty list leaves only nonempty sets of topics.
Enter(c, action, topics) ==
  /\ pc[c] = "idle"
  /\ topics # {} /\ topics \subseteq Program[c]
  /\ calls < MaxCalls
  /\ calls' = calls + 1
  /\ pc' = [pc EXCEPT ![c] = "check"]
  /\ frame' = [frame EXCEPT ![c] = [action |-> action, topics |-> topics]]
  /\ UNCHANGED <<state_, svc, replay, net, drops>>

\* The set is recorded, and the delta, not the set, becomes the frame.
Subscribe(c, topics) ==
  /\ Enter(c, "subscribe", topics)
  /\ channels_' = channels_ \cup topics

\* Mutant of Unsubscribe: the server is left to find out at the next replay.
UnsubscribeLocally(c, topics) ==
  /\ pc[c] = "idle"
  /\ topics # {} /\ topics \subseteq Program[c]
  /\ calls < MaxCalls
  /\ calls' = calls + 1
  /\ channels_' = channels_ \ topics
  /\ UNCHANGED <<state_, client, svc, replay, net, drops>>

Unsubscribe(c, topics) ==
  /\ Enter(c, "unsubscribe", topics)
  /\ channels_' = channels_ \ topics

\* Mutant of Check: a delta is left to the replay whenever one is in progress.
CheckTrustsReplay(c) ==
  /\ pc[c] = "check"
  /\ pc' = [pc EXCEPT ![c] = IF state_ = "ready" /\ svc = "idle" THEN "send" ELSE "idle"]
  /\ UNCHANGED <<state_, channels_, frame, svc, replay, net, calls, drops>>

\* is_ready(), outside subs_mutex_.
Check(c) ==
  /\ pc[c] = "check"
  /\ pc' = [pc EXCEPT ![c] = IF state_ = "ready" THEN "send" ELSE "idle"]
  /\ UNCHANGED <<state_, channels_, frame, svc, replay, net, calls, drops>>

SendDelta(c) ==
  /\ pc[c] = "send"
  /\ Send(frame[c])
  /\ pc' = [pc EXCEPT ![c] = "idle"]
  /\ UNCHANGED <<state_, channels_, frame, svc, replay, calls, drops>>

(***************************************************************************)
(* The service thread.                                                     *)
(***************************************************************************)

Take(event, label) ==
  /\ svc = "idle"
  /\ inbox # <<>>
  /\ Head(inbox) = event
  /\ inbox' = Tail(inbox)
  /\ svc' = label

\* Mutant of HandleConnected: the socket is taken for ready before it has authenticated.
HandleConnectedAsReady ==
  /\ Take("connected", "send_auth")
  /\ state_' = "ready"
  /\ UNCHANGED <<channels_, client, replay, session, wire, server, calls, drops>>

HandleConnected ==
  /\ Take("connected", "send_auth")
  /\ state_' = "authenticating"
  /\ UNCHANGED <<channels_, client, replay, session, wire, server, calls, drops>>

SendAuth ==
  /\ svc = "send_auth"
  /\ Send(Auth)
  /\ svc' = "idle"
  /\ UNCHANGED <<state_, channels_, client, replay, calls, drops>>

\* The "authenticated" success: mark_ready() stores the state, then runs on_ready().
HandleAuthenticated ==
  /\ Take("authenticated", "snapshot")
  /\ state_' = "ready"
  /\ UNCHANGED <<channels_, client, replay, session, wire, server, calls, drops>>

HandleDisconnected ==
  /\ Take("disconnected", "idle")
  /\ state_' = "disconnected"
  /\ UNCHANGED <<channels_, client, replay, session, wire, server, calls, drops>>

\* Mutant of Snapshot: the frame is built and sent even when nothing is subscribed.
SnapshotAlways ==
  /\ svc = "snapshot"
  /\ replay' = channels_
  /\ svc' = "replay"
  /\ UNCHANGED <<state_, channels_, client, net, calls, drops>>

\* Mutant of Snapshot: the frame built for the first session is kept for the next ones.
SnapshotCached ==
  /\ svc = "snapshot"
  /\ replay' = IF replay # {} THEN replay ELSE channels_
  /\ svc' = IF replay' = {} THEN "on_connected" ELSE "replay"
  /\ UNCHANGED <<state_, channels_, client, net, calls, drops>>

\* on_ready() under subs_mutex_: build_frame("subscribe") of the whole set, if any.
Snapshot ==
  /\ svc = "snapshot"
  /\ replay' = channels_
  /\ svc' = IF channels_ = {} THEN "on_connected" ELSE "replay"
  /\ UNCHANGED <<state_, channels_, client, net, calls, drops>>

SendReplay ==
  /\ svc = "replay"
  /\ Send([action |-> "subscribe", topics |-> replay])
  /\ svc' = "on_connected"
  /\ UNCHANGED <<state_, channels_, client, replay, calls, drops>>

\* The caller's on_connected handler, after the replay.
OnConnected ==
  /\ svc = "on_connected"
  /\ svc' = "idle"
  /\ UNCHANGED <<state_, channels_, client, replay, net, calls, drops>>

(***************************************************************************)
(* The network and the server.                                             *)
(***************************************************************************)

\* connect() or the reconnect loop opened a socket and it came up.
SessionUp ==
  /\ session = "none" /\ state_ = "disconnected" /\ svc = "idle" /\ inbox = <<>>
  /\ session' = "up"
  /\ inbox' = <<"connected">>
  /\ UNCHANGED <<state_, channels_, client, svc, replay, wire, server, calls, drops>>

SessionLost ==
  /\ session # "none"
  /\ drops < MaxDrops
  /\ drops' = drops + 1
  /\ session' = "none"
  /\ wire' = <<>>
  /\ server' = {}
  /\ inbox' = Append(inbox, "disconnected")
  /\ UNCHANGED <<state_, channels_, client, svc, replay, calls>>

\* The server takes the next frame: credentials open the session, a change before them is
\* refused (its error frame releases connect(), which StreamBase models), one after them applied.
ServerTake ==
  /\ wire # <<>>
  /\ wire' = Tail(wire)
  /\ LET f == Head(wire) IN
     IF f.action = "auth"
     THEN /\ session' = "authed"
          /\ inbox' = Append(inbox, "authenticated")
          /\ UNCHANGED server
     ELSE /\ server' = IF session # "authed" THEN server
                       ELSE IF f.action = "subscribe" THEN server \cup f.topics
                       ELSE server \ f.topics
          /\ UNCHANGED <<session, inbox>>
  /\ UNCHANGED <<state_, channels_, client, svc, replay, calls, drops>>

(***************************************************************************)
(* The specification.                                                      *)
(***************************************************************************)

CallerStep(c) == Check(c) \/ SendDelta(c)

ServiceStep ==
  \/ HandleConnected \/ SendAuth \/ HandleAuthenticated \/ HandleDisconnected
  \/ Snapshot \/ SendReplay \/ OnConnected

AllIdle == \A c \in Callers : pc[c] = "idle"

\* Everything sent has arrived, and every event has been handled.
Settled == AllIdle /\ svc = "idle" /\ inbox = <<>> /\ wire = <<>> /\ session = "authed"

Rest == Settled /\ UNCHANGED vars

Next ==
  \/ \E c \in Callers :
       \/ \E topics \in SUBSET Program[c] : Subscribe(c, topics) \/ Unsubscribe(c, topics)
       \/ CallerStep(c)
  \/ ServiceStep
  \/ SessionUp
  \/ SessionLost
  \/ ServerTake
  \/ Rest

\* Calls return, callbacks run, the reconnect loop brings a session up (Reestablished of
\* StreamBase) and the server reads what it is sent.  Nothing forces a call or a drop.
Fairness ==
  /\ \A c \in Callers : WF_vars(CallerStep(c))
  /\ WF_vars(ServiceStep)
  /\ WF_vars(SessionUp)
  /\ WF_vars(ServerTake)

Spec == Init /\ [][Next]_vars /\ Fairness

-----------------------------------------------------------------------------
(***************************************************************************)
(* Properties, for topics that each belong to one caller.                  *)
(***************************************************************************)

Mentions(i, t) == t \in wire[i].topics

\* What the server will send once it has read the wire: the last frame that names the topic
\* decides.
Carries(t) ==
  \/ /\ t \in server
     /\ \A i \in DOMAIN wire : ~Mentions(i, t)
  \/ \E i \in DOMAIN wire :
       /\ Mentions(i, t)
       /\ wire[i].action = "subscribe"
       /\ \A j \in DOMAIN wire : j > i => ~Mentions(j, t)

\* The topics of the calls that have recorded their change and not yet sent it.
Underway(action) ==
  {t \in Topics : \E c \in Callers :
     pc[c] # "idle" /\ frame[c].action = action /\ t \in frame[c].topics}

\* The session is live and its replay is out: on_connected runs, or has run.
Replayed == state_ = "ready" /\ session = "authed" /\ svc \in {"on_connected", "idle"}

\* Whatever happens between the recording of a subscribe, its look at is_ready() and its send
\* (a drop, a whole reconnect, the replay), a live session carries every topic in channels_
\* by the time on_connected fires and ever after: a delta that was not sent is in the replay.
IntentCarried ==
  Replayed =>
    \A t \in channels_ : Carries(t) \/ t \in Underway("subscribe")

\* The topics the server will go on sending although the client has given them up.
Excess == {t \in Topics : Carries(t) /\ t \notin channels_ \cup Underway("unsubscribe")}

\* From on_connected to the drop, a topic given up stays given up: an unsubscribe that finds
\* the stream live reaches the server after every frame that asks for its topic.  (Before
\* on_connected it may not: ServerMatchesIntent.)
NoTopicReturns == [][Replayed /\ Replayed' => Excess' \subseteq Excess]_vars

\* A topic the client keeps wanting is in the end on the server for good, through drops that
\* lose deltas, replays and acknowledgements.
EventuallyCarried ==
  \A t \in Topics : <>[](t \in channels_) => <>[](t \in server)

-----------------------------------------------------------------------------
(***************************************************************************)
(* Refinement.                                                             *)
(***************************************************************************)

Shown == IF state_ = "disconnected" THEN "down" ELSE state_

Abstract == INSTANCE Session WITH conn <- session, shown <- Shown, events <- inbox

\* Through handshakes, replays, deltas and drops the caller sees a Session: is_ready() follows
\* the connection one event at a time, and a session opens only over a drop already handled.
ImplementsSession == Abstract!Spec

-----------------------------------------------------------------------------
(***************************************************************************)
(* What a comment says, and the interleavings of the code refute.          *)
(***************************************************************************)

\* data_stream_base.hpp:51-53: channels_ is the client's intent, authoritative for reconnect:
\* once all is quiet after one, the server has what the client wants, and no more.
ServerMatchesIntent == (Settled /\ state_ = "ready") => server = channels_
=============================================================================
