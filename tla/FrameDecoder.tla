---------------------------- MODULE FrameDecoder ----------------------------
(***************************************************************************)
(* The visitor of the option streams (frame_decoder.hpp, message_visitor): *)
(* the parser of Document calls it at every object, and it fills one       *)
(* message with the help of two depth counters, the slot of the key it saw *)
(* last, the list it appends to and a flag that says a key is being read.  *)
(* Each action is one step of the parser with the callback it makes.       *)
(***************************************************************************)
EXTENDS Document, Slots

CONSTANT TextTime   \* what to_nanoseconds() makes of each string

ASSUME TextAssumption == TextTime \in [Strings -> Nat \X Nat]
ASSUME NoKeyAssumption == field_of(NoKey) = "unknown"

VARIABLES
  depth_,           \* containers open, counted by the visitor
  message_depth_,   \* the depth of the open message, 0 when there is none
  field_,           \* the slot of the current key
  list_,            \* the list elements go to, "unknown" for none
  expecting_key_,   \* a key is being read
  message_,         \* the message being filled
  delivered         \* the messages handed to the sink

visitor == <<depth_, message_depth_, field_, list_, expecting_key_>>
vars    == <<document, visitor, message_, delivered>>

TypeOK ==
  /\ DocumentOK
  /\ depth_ \in Nat /\ message_depth_ \in Nat
  /\ field_ \in message_field
  /\ list_ \in Lists \cup {"unknown"}
  /\ expecting_key_ \in BOOLEAN

Init ==
  /\ DocumentInit
  /\ depth_ = 0 /\ message_depth_ = 0
  /\ field_ = "unknown" /\ list_ = "unknown"
  /\ expecting_key_ = FALSE
  /\ message_ = Empty
  /\ delivered = <<>>

\* Mutant of init: the counters of a frame that broke off are kept.
initKeepsDepth ==
  /\ FrameBegins
  /\ field_' = "unknown" /\ list_' = "unknown"
  /\ expecting_key_' = FALSE
  /\ UNCHANGED <<depth_, message_depth_, message_, delivered>>

\* decode() resets the parser, and with it the visitor, before every frame.
init ==
  /\ FrameBegins
  /\ depth_' = 0 /\ message_depth_' = 0
  /\ field_' = "unknown" /\ list_' = "unknown"
  /\ expecting_key_' = FALSE
  /\ UNCHANGED <<message_, delivered>>

\* A scalar here is the value of the current key of the open message.
at_value == message_depth_ # 0 /\ depth_ = message_depth_ /\ ~expecting_key_

\* A scalar here is an element of a list that is kept.
in_list == list_ # "unknown" /\ depth_ = message_depth_ + 1

\* The slot a string fills: a bare string is a list of one condition.
string(v) ==
  message_' = CASE field_ \in Texts        -> [message_ EXCEPT ![field_] = v]
                [] field_ = "conditions"   -> [message_ EXCEPT !.conditions = <<v>>]
                [] field_ = "timestamp"    -> [message_ EXCEPT !.timestamp = TextTime[v]]
                [] OTHER                   -> message_

visit_str(s) ==
  /\ s.type = "str"
  /\ ScalarRead(s)
  /\ field_' = IF expecting_key_ THEN field_of(s.v) ELSE field_
  /\ IF expecting_key_ THEN UNCHANGED message_
     ELSE IF in_list THEN message_' = [message_ EXCEPT ![list_] = Append(@, s.v)]
     ELSE IF at_value THEN string(s.v)
     ELSE UNCHANGED message_
  /\ UNCHANGED <<depth_, message_depth_, list_, expecting_key_, delivered>>

number(s) ==
  /\ s.type = "num"
  /\ ScalarRead(s)
  /\ message_' = IF at_value /\ field_ \in Numbers
                 THEN [message_ EXCEPT ![field_] = s.v] ELSE message_
  /\ UNCHANGED <<visitor, delivered>>

visit_ext(s) ==
  /\ s.type = "ext"
  /\ ScalarRead(s)
  /\ message_' = IF at_value /\ field_ = "timestamp"
                 THEN [message_ EXCEPT !.timestamp = timestamp_from_ext(s)] ELSE message_
  /\ UNCHANGED <<visitor, delivered>>

\* Null, booleans and binaries: the callbacks of null_visitor do nothing.
visit_other(s) ==
  /\ s.type = "nil"
  /\ ScalarRead(s)
  /\ UNCHANGED <<visitor, message_, delivered>>

\* Mutant of start_array: the array is not counted.
start_arrayUncounted ==
  /\ ArrayOpens
  /\ list_' = IF ~at_value THEN list_ ELSE IF field_ \in Lists THEN field_ ELSE "unknown"
  /\ message_' = IF at_value /\ field_ \in Lists
                 THEN [message_ EXCEPT ![field_] = <<>>] ELSE message_
  /\ UNCHANGED <<depth_, message_depth_, field_, expecting_key_, delivered>>

start_array ==
  /\ ArrayOpens
  /\ list_' = IF ~at_value THEN list_ ELSE IF field_ \in Lists THEN field_ ELSE "unknown"
  /\ message_' = IF at_value /\ field_ \in Lists
                 THEN [message_ EXCEPT ![field_] = <<>>] ELSE message_
  /\ depth_' = depth_ + 1
  /\ UNCHANGED <<message_depth_, field_, expecting_key_, delivered>>

end_array ==
  /\ Closes("array")
  /\ depth_' = depth_ - 1
  /\ list_' = IF depth_' = message_depth_ THEN "unknown" ELSE list_
  /\ UNCHANGED <<message_depth_, field_, expecting_key_, message_, delivered>>

\* Mutant of start_map: the slots of the last message are kept.
start_mapKeepsSlots ==
  /\ MapOpens
  /\ depth_' = depth_ + 1
  /\ message_depth_' = IF message_depth_ = 0 THEN depth_' ELSE message_depth_
  /\ UNCHANGED <<field_, list_, expecting_key_, message_, delivered>>

start_map ==
  /\ MapOpens
  /\ depth_' = depth_ + 1
  /\ message_depth_' = IF message_depth_ = 0 THEN depth_' ELSE message_depth_
  /\ message_' = IF message_depth_ = 0 THEN Empty ELSE message_
  /\ UNCHANGED <<field_, list_, expecting_key_, delivered>>

\* The slot is forgotten here, not when the key is read: a key may be no string.
start_map_key ==
  /\ KeyBegins
  /\ field_' = IF depth_ = message_depth_ THEN "unknown" ELSE field_
  /\ expecting_key_' = (expecting_key_ \/ depth_ = message_depth_)
  /\ UNCHANGED <<depth_, message_depth_, list_, message_, delivered>>

end_map_key ==
  /\ KeyEnds
  /\ expecting_key_' = FALSE
  /\ UNCHANGED <<depth_, message_depth_, field_, list_, message_, delivered>>

end_map ==
  /\ Closes("map")
  /\ message_depth_' = IF depth_ = message_depth_ THEN 0 ELSE message_depth_
  /\ delivered' = IF depth_ = message_depth_ THEN Append(delivered, message_) ELSE delivered
  /\ depth_' = depth_ - 1
  /\ UNCHANGED <<field_, list_, expecting_key_, message_>>

\* The parser moves on without a callback, or the frame ends or breaks off.
Walk ==
  /\ FrameBreaks \/ FrameEnds \/ ElementEnds
  /\ UNCHANGED <<visitor, message_, delivered>>

Next ==
  \/ init \/ start_array \/ end_array \/ start_map \/ start_map_key \/ end_map_key \/ end_map
  \/ \E s \in Scalars : visit_str(s) \/ number(s) \/ visit_ext(s) \/ visit_other(s)
  \/ Walk

Spec == Init /\ [][Next]_vars

Reading == INSTANCE FrameReading WITH message <- message_

\* One pass with counters reads every frame as its nesting says, across lists, nested
\* containers, unknown and non-string keys, and frames that break off: no value lands in the
\* slot of another key or message, none is lost, and each message is delivered once.
ReadsAsNested == Reading!Spec
=============================================================================
