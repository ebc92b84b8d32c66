------------------------------- MODULE Session -------------------------------
(***************************************************************************)
(* What every stream promises its caller about a connection, whatever its  *)
(* threads do: the state the caller is shown follows the connection, one   *)
(* event behind another and never out of order.  The websocket lifecycle   *)
(* (StreamBase) and the subscriptions on top of it (DataStream) implement  *)
(* this specification.                                                     *)
(***************************************************************************)
EXTENDS Sequences

VARIABLES
  conn,     \* the connection: "none", "up", or "authed" once the server took the credentials
  shown,    \* what the caller is told: "down", "authenticating" or "ready"
  events    \* what has happened to the connection and has not been shown yet

vars == <<conn, shown, events>>

Init == conn = "none" /\ shown = "down" /\ events = <<>>

\* A connection is opened only when the last one is gone, and is seen to be gone.
Open ==
  /\ conn = "none" /\ shown = "down" /\ events = <<>>
  /\ \/ conn' = "up" /\ events' = <<"connected">>
     \/ conn' = "none" /\ events' = <<"disconnected">>
  /\ UNCHANGED shown

\* The credentials go out once the connection is shown to be up.
Accept ==
  /\ conn = "up" /\ shown = "authenticating"
  /\ conn' = "authed"
  /\ events' = Append(events, "authenticated")
  /\ UNCHANGED shown

Drop ==
  /\ conn # "none"
  /\ conn' = "none"
  /\ events' = Append(events, "disconnected")
  /\ UNCHANGED shown

Shows(event) ==
  CASE event = "connected"     -> "authenticating"
    [] event = "authenticated" -> "ready"
    [] event = "disconnected"  -> "down"

Show ==
  /\ events # <<>>
  /\ shown' = Shows(Head(events))
  /\ events' = Tail(events)
  /\ UNCHANGED conn

Next == Open \/ Accept \/ Drop \/ Show

Spec == Init /\ [][Next]_vars
=============================================================================
