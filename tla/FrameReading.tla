---------------------------- MODULE FrameReading ----------------------------
(***************************************************************************)
(* What a frame of the option streams means, by the place of each value in *)
(* the document: a message is a map inside no other map; an entry whose    *)
(* key names a slot gives the slot its value, when the value is of a kind  *)
(* the slot takes; an array of strings fills a list slot; everything else  *)
(* is passed over.  FrameDecoder reads a frame in one pass with two depth  *)
(* counters, and implements this.                                          *)
(***************************************************************************)
EXTENDS Document, Slots

CONSTANT TextTime   \* what to_nanoseconds() makes of each string

VARIABLES
  message,     \* the message being read
  delivered    \* the messages read so far

vars == <<document, message, delivered>>

\* The map that is the message being read is the outermost one, in arrays only.
IsMessage(i) ==
  /\ i \in DOMAIN open /\ open[i].kind = "map"
  /\ \A j \in 1 .. i - 1 : open[j].kind = "array"

\* The slot of the entry of message map i that is being read.
Slot(i) == field_of(open[i].key)

IsValueOf(i) == IsMessage(i) /\ Len(open) = i /\ open[i].at = "value"

\* An array directly under an entry of message map i.
IsListOf(i) ==
  /\ IsMessage(i) /\ Len(open) = i + 1 /\ open[i].at = "value"
  /\ open[i + 1].kind = "array" /\ Slot(i) \in Lists

\* The kinds of value each slot takes, and what becomes of one.
Takes(slot) ==
  CASE slot \in Texts \cup {"conditions"} -> {"str"}
    [] slot \in Numbers                  -> {"num"}
    [] slot = "timestamp"                -> {"str", "ext"}
    [] OTHER                             -> {}

Value(slot, s) ==
  CASE slot = "timestamp"  -> IF s.type = "str" THEN TextTime[s.v] ELSE timestamp_from_ext(s)
    [] slot = "conditions" -> <<s.v>>
    [] OTHER               -> s.v

Filled(slot, s) ==
  IF s.type \in Takes(slot) THEN [message EXCEPT ![slot] = Value(slot, s)] ELSE message

Init == DocumentInit /\ message = Empty /\ delivered = <<>>

Read(s) ==
  /\ ScalarRead(s)
  /\ message' =
       IF \E i \in DOMAIN open : IsValueOf(i)
       THEN Filled(Slot(Len(open)), s)
       ELSE IF s.type = "str" /\ \E i \in DOMAIN open : IsListOf(i)
       THEN [message EXCEPT ![Slot(Len(open) - 1)] = Append(@, s.v)]
       ELSE message
  /\ UNCHANGED delivered

ReadArray ==
  /\ ArrayOpens
  /\ message' = IF \E i \in DOMAIN open : IsValueOf(i) /\ Slot(i) \in Lists
                THEN [message EXCEPT ![Slot(Len(open))] = <<>>]
                ELSE message
  /\ UNCHANGED delivered

ReadMap ==
  /\ MapOpens
  /\ message' = IF \E i \in DOMAIN open : IsMessage(i) THEN message ELSE Empty
  /\ UNCHANGED delivered

ReadEnd ==
  \/ /\ Closes("map")
     /\ delivered' = IF IsMessage(Len(open)) THEN Append(delivered, message) ELSE delivered
     /\ UNCHANGED message
  \/ /\ Closes("array")
     /\ UNCHANGED <<message, delivered>>

Walk ==
  /\ FrameBegins \/ FrameBreaks \/ FrameEnds \/ KeyBegins \/ KeyEnds \/ ElementEnds
  /\ UNCHANGED <<message, delivered>>

Next == (\E s \in Scalars : Read(s)) \/ ReadArray \/ ReadMap \/ ReadEnd \/ Walk

Spec == Init /\ [][Next]_vars
=============================================================================
