------------------------- MODULE FrameDecoderProofs -------------------------
(***************************************************************************)
(* With string keys, the visitor's counters say where in the document the  *)
(* parser is (Inv), whatever the frames hold and wherever they break off;  *)
(* so the one pass of FrameDecoder implements FrameReading.                *)
(***************************************************************************)
EXTENDS FrameDecoder, TLAPS

LEMMA FieldType == \A k : field_of(k) \in message_field
  BY DEF field_of, WireKeys, message_field, Texts, Numbers, Lists

LEMMA FieldDistinct == "unknown" \in message_field /\ "unknown" \notin Lists
  BY DEF message_field, Lists

\* Where the containers stand when no key is a container.
Nesting ==
  /\ \A i \in 1 .. Len(open) - 1 : open[i].at \in {"item", "value"}
  /\ turn \in {"object", "done"} /\ open # <<>> => Top.at \in {"item", "key", "value"}
  /\ turn \in {"key", "close"} => open # <<>> /\ Top.at \in {"item", "between"}
  /\ turn = "key" => Top.at = "between"

\* The two counters: all containers are counted, and the message is the outermost map.
Counters ==
  /\ depth_ = Len(open)
  /\ message_depth_ <= Len(open)
  /\ message_depth_ = 0 => \A i \in 1 .. Len(open) : open[i].kind = "array"
  /\ message_depth_ # 0 => Reading!IsMessage(message_depth_)

\* The flag, the slot and the list follow the entry of the message that is being read.
InKey == message_depth_ # 0 /\ Len(open) = message_depth_ /\ Top.at = "key"

FlagRight == expecting_key_ <=> InKey

SlotRight ==
  message_depth_ # 0 /\ open[message_depth_].at \in {"key", "value"} =>
    field_ = field_of(open[message_depth_].key)

InList ==
  /\ message_depth_ # 0 /\ Len(open) > message_depth_
  /\ open[message_depth_ + 1].kind = "array" /\ field_ \in Lists

ListRight == list_ = IF InList THEN field_ ELSE "unknown"

Entry == FlagRight /\ SlotRight /\ ListRight

Inv == TypeOK /\ (turn # "idle" => Nesting /\ Counters /\ Entry)

-----------------------------------------------------------------------------
LEMMA InitInv == Init => Inv
  <1> SUFFICES ASSUME Init PROVE Inv
    OBVIOUS
  <1>1. open \in Seq(Container) /\ DOMAIN open = {}
    BY DEF Init, DocumentInit
  <1>2. QED
    BY <1>1, FieldDistinct DEF Init, Inv, TypeOK, DocumentInit, DocumentOK

(***************************************************************************)
(* How the parser's steps change the open containers.                      *)
(***************************************************************************)

LEMMA Retopped ==
  ASSUME open \in Seq(Container), open # <<>>, NEW c \in Container
  PROVE  /\ Retop(c) \in Seq(Container)
         /\ Len(Retop(c)) = Len(open)
         /\ Retop(c)[Len(open)] = c
         /\ \A i \in 1 .. Len(open) : i < Len(open) => Retop(c)[i] = open[i]
  BY DEF Retop

LEMMA Pushed ==
  ASSUME open \in Seq(Container), NEW c \in Container
  PROVE  /\ Append(open, c) \in Seq(Container)
         /\ Len(Append(open, c)) = Len(open) + 1
         /\ Append(open, c)[Len(open) + 1] = c
         /\ \A i \in 1 .. Len(open) : Append(open, c)[i] = open[i]
  OBVIOUS

LEMMA Popped ==
  ASSUME open \in Seq(Container), open # <<>>
  PROVE  /\ Front \in Seq(Container)
         /\ Len(Front) = Len(open) - 1
         /\ \A i \in 1 .. Len(open) - 1 : Front[i] = open[i]
  BY DEF Front

\* A scalar changes at most the key of the entry being read.
LEMMA ScalarStep ==
  ASSUME ScalarAssumption, TypeOK, NEW s \in Scalars, ScalarRead(s)
  PROVE  /\ DocumentOK' /\ Len(open') = Len(open)
         /\ turn = "object" /\ turn' = "done"
         /\ \A i \in 1 .. Len(open) :
              /\ open'[i].kind = open[i].kind /\ open'[i].at = open[i].at
              /\ (i < Len(open) \/ ~AtKey \/ s.type # "str") => open'[i] = open[i]
         /\ AtKey /\ s.type = "str" => open'[Len(open)].key = s.v
  <1> USE DEF TypeOK, DocumentOK
  <1>1. CASE AtKey /\ s.type = "str"
    <2> DEFINE c == [Top EXCEPT !.key = s.v]
    <2>1. Top \in Container /\ s.v \in Strings /\ open # <<>>
      BY <1>1 DEF AtKey, Top, Strings
    <2>2. c \in Container /\ c.kind = Top.kind /\ c.at = Top.at /\ c.key = s.v
      BY <2>1 DEF Container
    <2>3. open' = Retop(c)
      BY <1>1 DEF ScalarRead
    <2> HIDE DEF c
    <2>4. /\ open' \in Seq(Container) /\ Len(open') = Len(open) /\ open'[Len(open)] = c
          /\ \A i \in 1 .. Len(open) : i < Len(open) => open'[i] = open[i]
      BY <2>1, <2>2, <2>3, Retopped
    <2>5. \A i \in 1 .. Len(open) : open'[i].kind = open[i].kind /\ open'[i].at = open[i].at
      BY <2>2, <2>4 DEF Top
    <2>6. DocumentOK'
      <3>1. DOMAIN open' = 1 .. Len(open) /\ DOMAIN open = 1 .. Len(open)
        BY <2>4
      <3>2. \A i \in DOMAIN open' : open'[i].at = "item" <=> open'[i].kind = "array"
        BY <2>5, <3>1
      <3>3. QED
        BY <2>4, <3>2 DEF ScalarRead, ObjectBegins
    <2>7. QED
      BY <1>1, <2>2, <2>4, <2>5, <2>6 DEF ScalarRead, ObjectBegins
  <1>2. CASE ~(AtKey /\ s.type = "str")
    BY <1>2 DEF ScalarRead, ObjectBegins
  <1>3. QED
    BY <1>1, <1>2

\* A container opens: never in a key.
LEMMA OpensStep ==
  ASSUME ScalarKeys, TypeOK, Nesting, NEW k \in {"array", "map"},
         \/ k = "array" /\ ArrayOpens
         \/ k = "map" /\ MapOpens
  PROVE  /\ DocumentOK' /\ Nesting'
         /\ Len(open') = Len(open) + 1
         /\ open'[Len(open) + 1].kind = k
         /\ open'[Len(open) + 1].at # "key" /\ open'[Len(open) + 1].at # "value"
         /\ \A i \in 1 .. Len(open) : open'[i] = open[i]
         /\ turn = "object" /\ ~AtKey
  <1> USE DEF TypeOK, DocumentOK
  <1> DEFINE c == [kind |-> k, at |-> IF k = "array" THEN "item" ELSE "between", key |-> NoKey]
  <1>1. c \in Container /\ (c.at = "item" <=> c.kind = "array")
    BY DEF Container
  <1>2. open' = Append(open, c) /\ turn = "object" /\ ~AtKey /\ objects' \in Nat /\ frames' \in Nat
    BY DEF ArrayOpens, MapOpens, ObjectBegins, MayNest
  <1>3. turn' = "close" \/ (k = "array" /\ turn' = "object") \/ (k = "map" /\ turn' = "key")
    BY DEF ArrayOpens, MapOpens
  <1>4. c.kind = k /\ c.at \in {"item", "between"} /\ (c.at = "item" <=> k = "array")
    OBVIOUS
  <1> HIDE DEF c
  <1>5. /\ open' \in Seq(Container) /\ Len(open') = Len(open) + 1 /\ open'[Len(open) + 1] = c
        /\ \A i \in 1 .. Len(open) : open'[i] = open[i]
    BY <1>1, <1>2, Pushed
  <1>6. DocumentOK'
    <2>1. DOMAIN open' = 1 .. Len(open) + 1 /\ DOMAIN open = 1 .. Len(open)
      BY <1>5
    <2>2. \A i \in DOMAIN open' : open'[i].at = "item" <=> open'[i].kind = "array"
      BY <1>1, <1>5, <2>1
    <2>3. QED
      BY <1>2, <1>3, <1>5, <2>2
  <1>7. Nesting'
    <2>1. \A i \in 1 .. Len(open) : open[i].at \in {"item", "value"}
      <3>1. open # <<>> => open[Len(open)].at \in {"item", "value"}
        BY <1>2 DEF Nesting, AtKey, Top
      <3>2. QED
        BY <3>1 DEF Nesting
    <2>2. Top' = c
      BY <1>5 DEF Top
    <2>3. open' # <<>>
      BY <1>5
    <2>4. \A i \in 1 .. Len(open') - 1 : open'[i].at \in {"item", "value"}
      BY <1>5, <2>1
    <2>5. QED
      BY <1>3, <1>4, <2>2, <2>3, <2>4 DEF Nesting
  <1>8. QED
    BY <1>2, <1>4, <1>5, <1>6, <1>7

\* The innermost container moves on, the others stay.
LEMMA MovesStep ==
  ASSUME TypeOK, Nesting, KeyBegins \/ KeyEnds \/ ElementEnds
  PROVE  /\ DocumentOK' /\ Nesting'
         /\ Len(open') = Len(open) /\ open # <<>>
         /\ \A i \in 1 .. Len(open) : open'[i].kind = open[i].kind
         /\ \A i \in 1 .. Len(open) : i < Len(open) => open'[i] = open[i]
         /\ KeyBegins => open'[Len(open)].at = "key" /\ open'[Len(open)].key = NoKey
         /\ KeyEnds => open'[Len(open)].at = "value" /\ open'[Len(open)].key = Top.key
         /\ ElementEnds => open'[Len(open)] = Top \/ open'[Len(open)].at = "between"
  <1> USE DEF TypeOK, DocumentOK
  <1>0. open # <<>> /\ Top \in Container /\ Len(open) \in DOMAIN open
    BY DEF KeyBegins, KeyEnds, ElementEnds, Nesting, AtKey, Top
  <1>1. objects' \in Nat /\ frames' \in Nat /\ turn' \in {"idle", "object", "key", "done", "close"}
    BY DEF KeyBegins, KeyEnds, ElementEnds
  <1>2. ASSUME NEW c \in Container, open' = Retop(c), c.kind = Top.kind,
               c.at = "item" <=> c.kind = "array"
        PROVE  /\ DocumentOK' /\ Len(open') = Len(open) /\ open'[Len(open)] = c
               /\ \A i \in 1 .. Len(open) : open'[i].kind = open[i].kind
               /\ \A i \in 1 .. Len(open) : i < Len(open) => open'[i] = open[i]
    <2>1. /\ open' \in Seq(Container) /\ Len(open') = Len(open) /\ open'[Len(open)] = c
          /\ \A i \in 1 .. Len(open) : i < Len(open) => open'[i] = open[i]
      BY <1>0, <1>2, Retopped
    <2>2. DOMAIN open' = 1 .. Len(open) /\ DOMAIN open = 1 .. Len(open)
      BY <2>1
    <2>3. \A i \in DOMAIN open' : open'[i].at = "item" <=> open'[i].kind = "array"
      BY <1>2, <2>1, <2>2
    <2>4. \A i \in 1 .. Len(open) : open'[i].kind = open[i].kind
      BY <1>2, <2>1 DEF Top
    <2>5. QED
      BY <1>1, <2>1, <2>3, <2>4
  <1>3. CASE KeyBegins
    <2> DEFINE c == [Top EXCEPT !.at = "key", !.key = NoKey]
    <2>1. Top.kind = "map"
      <3>1. Top.at = "between"
        BY <1>3 DEF KeyBegins, Nesting
      <3>2. QED
        BY <1>0, <3>1 DEF Top, Container
    <2>2. c \in Container /\ c.kind = Top.kind /\ c.at = "key" /\ c.key = NoKey
      BY <1>0 DEF Container
    <2>3. open' = Retop(c)
      BY <1>3 DEF KeyBegins
    <2> HIDE DEF c
    <2>4. /\ DocumentOK' /\ Len(open') = Len(open) /\ open'[Len(open)] = c
          /\ \A i \in 1 .. Len(open) : open'[i].kind = open[i].kind
          /\ \A i \in 1 .. Len(open) : i < Len(open) => open'[i] = open[i]
      BY <1>2, <2>1, <2>2, <2>3
    <2>5. Nesting'
      BY <1>3, <2>2, <2>4 DEF Nesting, KeyBegins, Top
    <2>6. QED
      BY <1>0, <1>3, <2>2, <2>4, <2>5 DEF KeyBegins, KeyEnds, ElementEnds
  <1>4. CASE KeyEnds
    <2> DEFINE c == [Top EXCEPT !.at = "value"]
    <2>1. Top.kind = "map"
      BY <1>0, <1>4 DEF Top, Container, KeyEnds, AtKey
    <2>2. c \in Container /\ c.kind = Top.kind /\ c.at = "value" /\ c.key = Top.key
      BY <1>0 DEF Container
    <2>3. open' = Retop(c)
      BY <1>4 DEF KeyEnds
    <2> HIDE DEF c
    <2>4. /\ DocumentOK' /\ Len(open') = Len(open) /\ open'[Len(open)] = c
          /\ \A i \in 1 .. Len(open) : open'[i].kind = open[i].kind
          /\ \A i \in 1 .. Len(open) : i < Len(open) => open'[i] = open[i]
      BY <1>2, <2>1, <2>2, <2>3
    <2>5. Nesting'
      <3>1. turn' = "object" /\ Top' = c
        BY <1>4, <2>4 DEF KeyEnds, Top
      <3>2. QED
        BY <2>2, <2>4, <3>1 DEF Nesting
    <2>6. QED
      BY <1>0, <1>4, <2>2, <2>4, <2>5 DEF KeyBegins, KeyEnds, ElementEnds
  <1>5. CASE ElementEnds /\ Top.kind = "array"
    <2>1. UNCHANGED open
      BY <1>5 DEF ElementEnds
    <2>2. Top.at = "item"
      BY <1>0, <1>5 DEF Top
    <2>3. DocumentOK' /\ Nesting'
      BY <1>0, <1>1, <1>5, <2>1, <2>2 DEF Nesting, ElementEnds, Top
    <2>4. QED
      BY <1>0, <1>5, <2>1, <2>3 DEF KeyBegins, KeyEnds, ElementEnds, Top
  <1>6. CASE ElementEnds /\ Top.kind = "map"
    <2> DEFINE c == [Top EXCEPT !.at = "between"]
    <2>2. c \in Container /\ c.kind = Top.kind /\ c.at = "between"
      BY <1>0 DEF Container
    <2>3. open' = Retop(c)
      BY <1>6 DEF ElementEnds
    <2> HIDE DEF c
    <2>4. /\ DocumentOK' /\ Len(open') = Len(open) /\ open'[Len(open)] = c
          /\ \A i \in 1 .. Len(open) : open'[i].kind = open[i].kind
          /\ \A i \in 1 .. Len(open) : i < Len(open) => open'[i] = open[i]
      BY <1>2, <1>6, <2>2, <2>3
    <2>5. Nesting'
      <3>1. turn' \in {"key", "close"} /\ Top' = c /\ open' # <<>>
        BY <1>0, <1>6, <2>4 DEF ElementEnds, Top
      <3>2. QED
        BY <2>2, <2>4, <3>1 DEF Nesting
    <2>6. QED
      BY <1>0, <1>6, <2>2, <2>4, <2>5 DEF KeyBegins, KeyEnds, ElementEnds
  <1>7. QED
    BY <1>0, <1>3, <1>4, <1>5, <1>6 DEF Container

\* The innermost container closes.
LEMMA ClosesStep ==
  ASSUME TypeOK, Nesting, NEW k \in {"array", "map"}, Closes(k)
  PROVE  /\ DocumentOK' /\ Nesting'
         /\ Len(open') = Len(open) - 1 /\ open # <<>> /\ Len(open) >= 1
         /\ open[Len(open)].kind = k /\ Top.at \in {"item", "between"}
         /\ \A i \in 1 .. Len(open) - 1 : open'[i] = open[i]
  <1> USE DEF TypeOK, DocumentOK
  <1>1. open # <<>> /\ turn = "close" /\ Top.kind = k /\ open' = Front /\ turn' = "done"
    BY DEF Closes, Nesting
  <1>2. /\ open' \in Seq(Container) /\ Len(open') = Len(open) - 1
        /\ \A i \in 1 .. Len(open) - 1 : open'[i] = open[i]
    BY <1>1, Popped
  <1>3. Len(open) >= 1 /\ DOMAIN open = 1 .. Len(open) /\ DOMAIN open' = 1 .. Len(open) - 1
    BY <1>1, <1>2
  <1>4. DocumentOK'
    <2>1. \A i \in DOMAIN open' : open'[i].at = "item" <=> open'[i].kind = "array"
      BY <1>2, <1>3
    <2>2. QED
      BY <1>1, <1>2, <2>1 DEF Closes
  <1>5. Nesting'
    <2>1. \A i \in 1 .. Len(open') : open'[i].at \in {"item", "value"}
      BY <1>2, <1>3 DEF Nesting
    <2>2. open' # <<>> => Top' = open'[Len(open')] /\ Len(open') \in 1 .. Len(open')
      BY <1>2 DEF Top
    <2>3. QED
      BY <1>1, <2>1, <2>2, <1>2 DEF Nesting
  <1>6. QED
    BY <1>1, <1>2, <1>3, <1>4, <1>5 DEF Nesting, Top

-----------------------------------------------------------------------------
(***************************************************************************)
(* Every callback keeps the counters, the flag, the slot and the list true *)
(* to the place in the document.                                           *)
(***************************************************************************)

LEMMA ScalarInv ==
  ASSUME ScalarKeys, Inv, NEW s \in Scalars,
         visit_str(s) \/ number(s) \/ visit_ext(s) \/ visit_other(s)
  PROVE  Inv'
  <1>1. /\ ScalarRead(s) /\ UNCHANGED <<depth_, message_depth_, list_, expecting_key_>>
        /\ field_' = IF s.type = "str" /\ expecting_key_ THEN field_of(s.v) ELSE field_
    BY DEF visit_str, number, visit_ext, visit_other, visitor
  <1>2. turn = "object" /\ TypeOK /\ Nesting /\ Counters /\ Entry
    BY <1>1 DEF ScalarRead, ObjectBegins, Inv
  <1>3. /\ DocumentOK' /\ Len(open') = Len(open) /\ turn' = "done"
        /\ \A i \in 1 .. Len(open) :
             /\ open'[i].kind = open[i].kind /\ open'[i].at = open[i].at
             /\ (i < Len(open) \/ ~AtKey \/ s.type # "str") => open'[i] = open[i]
        /\ AtKey /\ s.type = "str" => open'[Len(open)].key = s.v
    BY <1>1, <1>2, ScalarStep, ScalarAssumption
  <1>4. /\ open \in Seq(Container) /\ open' \in Seq(Container) /\ Len(open) \in Nat
        /\ depth_ \in Nat /\ message_depth_ \in Nat
        /\ DOMAIN open = 1 .. Len(open) /\ DOMAIN open' = 1 .. Len(open)
    BY <1>2, <1>3 DEF TypeOK, DocumentOK
  <1>0. Len(open) \in Nat /\ message_depth_ \in Nat
    BY <1>4
  <1>5. TypeOK'
    BY <1>1, <1>2, <1>3, FieldType DEF TypeOK
  <1>6. Nesting'
    <2>1. open' # <<>> => open # <<>> /\ Top'.at = Top.at
      BY <1>3, <1>4 DEF Top
    <2>2. \A i \in 1 .. Len(open') - 1 : open'[i].at \in {"item", "value"}
      BY <1>2, <1>3, <1>4 DEF Nesting
    <2>3. QED
      BY <1>2, <1>3, <2>1, <2>2 DEF Nesting
  <1>7. Counters'
    BY <1>1, <1>2, <1>3, <1>4 DEF Counters, Reading!IsMessage
  <1>8. Entry'
    <2>1. expecting_key_ => AtKey /\ message_depth_ = Len(open) /\ message_depth_ # 0
      BY <1>2, <1>4 DEF Entry, FlagRight, InKey, AtKey
    <2>2. FlagRight'
      <3>1. InKey' <=> InKey
        <4>1. message_depth_' = message_depth_
          BY <1>1
        <4>2. message_depth_ # 0 /\ Len(open) = message_depth_ => Top'.at = Top.at
          BY <1>3, <1>4 DEF Top
        <4>3. QED
          BY <1>3, <4>1, <4>2 DEF InKey
      <3>2. QED
        BY <1>1, <1>2, <3>1, Zenon DEF Entry, FlagRight
    <2>3. SlotRight'
      <3>1. CASE expecting_key_ /\ s.type = "str"
        BY <1>1, <1>3, <1>4, <2>1, <3>1 DEF SlotRight
      <3>2. CASE ~(expecting_key_ /\ s.type = "str") /\ message_depth_ # 0
        <4>1. message_depth_ \in 1 .. Len(open)
          BY <1>2, <1>4, <3>2 DEF Counters
        <4>2. AtKey /\ message_depth_ = Len(open) => expecting_key_
          <5>1. AtKey /\ message_depth_ = Len(open) => InKey
            BY <3>2 DEF InKey, AtKey
          <5>2. QED
            BY <1>2, <5>1, Zenon DEF Entry, FlagRight
        <4>3. s.type = "str" => message_depth_ < Len(open) \/ ~AtKey
          <5>1. s.type = "str" => ~expecting_key_
            BY <3>2
          <5>2. s.type = "str" => ~(AtKey /\ message_depth_ = Len(open))
            BY <4>2, <5>1, Zenon
          <5>3. message_depth_ # Len(open) => message_depth_ < Len(open)
            BY <1>0, <4>1
          <5>4. QED
            BY <5>2, <5>3, Zenon
        <4>7. open'[message_depth_] = open[message_depth_]
          BY <1>3, <4>1, <4>3
        <4>4. field_' = field_ /\ message_depth_' = message_depth_
          BY <1>1, <3>2
        <4>5. QED
          BY <1>2, <4>7, <4>4 DEF Entry, SlotRight
      <3>3. CASE message_depth_ = 0
        BY <1>1, <3>3 DEF SlotRight
      <3>4. QED
        BY <3>1, <3>2, <3>3
    <2>4. ListRight'
      <3>1. Len(open) > message_depth_ => field_' = field_
        <4>1. Len(open) > message_depth_ => ~expecting_key_
          <5>1. Len(open) > message_depth_ => message_depth_ # Len(open)
            BY <1>0
          <5>2. QED
            BY <2>1, <5>1, Zenon
        <4>2. ~expecting_key_ => field_' = field_
          BY <1>1, Zenon
        <4>3. QED
          BY <4>1, <4>2
      <3>2. message_depth_ # 0 /\ Len(open) > message_depth_ =>
              open'[message_depth_ + 1].kind = open[message_depth_ + 1].kind
        BY <1>3, <1>4
      <3>3. InList' <=> InList
        BY <1>1, <1>3, <3>1, <3>2 DEF InList
      <3>4. InList => field_' = field_
        BY <3>1 DEF InList
      <3>5. QED
        BY <1>1, <1>2, <3>3, <3>4 DEF Entry, ListRight
    <2>5. QED
      BY <2>2, <2>3, <2>4 DEF Entry
  <1>9. QED
    BY <1>5, <1>6, <1>7, <1>8 DEF Inv

LEMMA OpensInv ==
  ASSUME ScalarKeys, Inv, start_array \/ start_map
  PROVE  Inv'
  <1>1. TypeOK /\ Nesting /\ Counters /\ Entry
    BY DEF Inv, start_array, start_map, ArrayOpens, MapOpens, ObjectBegins
  <1>2. PICK k \in {"array", "map"} : \/ k = "array" /\ start_array /\ ArrayOpens
                                      \/ k = "map" /\ start_map /\ MapOpens
    BY DEF start_array, start_map
  <1>3. /\ DocumentOK' /\ Nesting'
        /\ Len(open') = Len(open) + 1
        /\ open'[Len(open) + 1].kind = k
        /\ open'[Len(open) + 1].at # "key" /\ open'[Len(open) + 1].at # "value"
        /\ \A i \in 1 .. Len(open) : open'[i] = open[i]
        /\ turn = "object" /\ ~AtKey
    BY <1>1, <1>2, OpensStep
  <1>4. /\ open \in Seq(Container) /\ open' \in Seq(Container) /\ Len(open) \in Nat
        /\ depth_ \in Nat /\ message_depth_ \in Nat /\ message_depth_ <= Len(open)
        /\ DOMAIN open = 1 .. Len(open) /\ DOMAIN open' = 1 .. Len(open) + 1
        /\ depth_ = Len(open)
    BY <1>1, <1>3 DEF TypeOK, DocumentOK, Counters
  <1>0. Len(open) \in Nat /\ message_depth_ \in Nat /\ message_depth_ <= Len(open) /\ depth_ = Len(open)
    BY <1>4
  <1>5. ~expecting_key_
    BY <1>1, <1>3, <1>4 DEF Entry, FlagRight, InKey, AtKey
  <1>6. /\ field_' = field_ /\ expecting_key_' = expecting_key_ /\ depth_' = depth_ + 1
        /\ message_depth_' = IF k = "map" /\ message_depth_ = 0 THEN Len(open) + 1 ELSE message_depth_
        /\ k = "map" => list_' = list_
        /\ k = "array" => list_' = IF ~at_value THEN list_
                                   ELSE IF field_ \in Lists THEN field_ ELSE "unknown"
    BY <1>2, <1>4 DEF start_array, start_map
  <1>7. TypeOK'
    BY <1>1, <1>3, <1>4, <1>6 DEF TypeOK
  <1>8. Counters'
    BY <1>1, <1>3, <1>4, <1>6 DEF Counters, Reading!IsMessage
  <1>9. FlagRight'
    <2>1. ~InKey'
      BY <1>3, <1>4, <1>6 DEF InKey, Top
    <2>2. QED
      BY <1>5, <1>6, <2>1 DEF FlagRight
  <1>10. SlotRight' /\ ListRight'
    <2>1. CASE message_depth_ # 0 /\ Len(open) = message_depth_
      <3>1. open[message_depth_].at = "value"
        <4>1. Top.kind = "map" /\ Top.at \in {"item", "key", "value"} /\ Top.at # "key"
          BY <1>1, <1>3, <1>4, <2>1 DEF Counters, Reading!IsMessage, Nesting, Top, AtKey
        <4>2. Top.at # "item"
          BY <1>1, <1>4, <2>1, <4>1 DEF TypeOK, DocumentOK, Top
        <4>3. QED
          BY <2>1, <4>1, <4>2 DEF Top
      <3>2. at_value /\ list_ = "unknown" /\ message_depth_' = message_depth_
        BY <1>1, <1>4, <1>5, <1>6, <2>1 DEF at_value, Entry, ListRight, InList
      <3>3. field_ = field_of(open[message_depth_].key) /\ open'[message_depth_] = open[message_depth_]
        BY <1>1, <1>3, <1>4, <2>1, <3>1 DEF Entry, SlotRight
      <3>4. InList' <=> k = "array" /\ field_ \in Lists
        BY <1>3, <1>4, <1>6, <2>1, <3>2 DEF InList
      <3>5. ListRight'
        BY <1>6, <3>2, <3>4 DEF ListRight
      <3>6. SlotRight'
        BY <1>6, <3>2, <3>3 DEF SlotRight
      <3>7. QED
        BY <3>5, <3>6
    <2>2. CASE message_depth_ # 0 /\ Len(open) > message_depth_
      <3>1. ~at_value
        <4>1. depth_ # message_depth_
          BY <1>0, <2>2
        <4>2. QED
          BY <4>1 DEF at_value
      <3>6. message_depth_' = message_depth_
        BY <1>6, <2>2
      <3>2. list_' = list_ /\ field_' = field_
        BY <1>6, <3>1
      <3>3. /\ open'[message_depth_] = open[message_depth_]
            /\ open'[message_depth_ + 1] = open[message_depth_ + 1]
        BY <1>3, <1>4, <2>2
      <3>4. InList' <=> InList
        BY <1>3, <1>4, <2>2, <3>6, <3>2, <3>3 DEF InList
      <3>5. QED
        BY <1>1, <3>6, <3>2, <3>3, <3>4 DEF Entry, SlotRight, ListRight
    <2>3. CASE message_depth_ = 0
      <3>1. list_' = "unknown"
        BY <1>1, <1>6, <2>3 DEF Entry, ListRight, InList, at_value
      <3>2. message_depth_' # 0 => message_depth_' = Len(open') /\ k = "map"
        BY <1>3, <1>6, <2>3
      <3>3. message_depth_' # 0 => open'[message_depth_'].at \notin {"key", "value"}
        BY <1>3, <1>4, <3>2
      <3>4. ~InList'
        BY <1>3, <1>4, <3>2 DEF InList
      <3>5. QED
        BY <3>1, <3>3, <3>4 DEF SlotRight, ListRight
    <2>4. Len(open) = message_depth_ \/ Len(open) > message_depth_
      BY <1>0
    <2>5. QED
      BY <2>1, <2>2, <2>3, <2>4
  <1>11. QED
    BY <1>3, <1>7, <1>8, <1>9, <1>10 DEF Inv, Entry

LEMMA MovesInv ==
  ASSUME ScalarKeys, Inv,
         start_map_key \/ end_map_key
           \/ (ElementEnds /\ UNCHANGED <<visitor, message_, delivered>>)
  PROVE  Inv'
  <1>1. TypeOK /\ Nesting /\ Counters /\ Entry
    BY DEF Inv, start_map_key, end_map_key, KeyBegins, KeyEnds, ElementEnds
  <1>2. KeyBegins \/ KeyEnds \/ ElementEnds
    BY DEF start_map_key, end_map_key
  <1>3. /\ DocumentOK' /\ Nesting'
        /\ Len(open') = Len(open) /\ open # <<>>
        /\ \A i \in 1 .. Len(open) : open'[i].kind = open[i].kind
        /\ \A i \in 1 .. Len(open) : i < Len(open) => open'[i] = open[i]
        /\ KeyBegins => open'[Len(open)].at = "key" /\ open'[Len(open)].key = NoKey
        /\ KeyEnds => open'[Len(open)].at = "value" /\ open'[Len(open)].key = Top.key
        /\ ElementEnds => open'[Len(open)] = Top \/ open'[Len(open)].at = "between"
    BY <1>1, <1>2, MovesStep
  <1>4. /\ open \in Seq(Container) /\ open' \in Seq(Container)
        /\ DOMAIN open = 1 .. Len(open) /\ DOMAIN open' = 1 .. Len(open)
    BY <1>1, <1>3 DEF TypeOK, DocumentOK
  <1>5. /\ Len(open) \in Nat \ {0} /\ message_depth_ \in Nat /\ message_depth_ <= Len(open)
        /\ depth_ = Len(open)
    BY <1>1, <1>3, <1>4 DEF TypeOK, Counters
  <1>6. message_depth_' = message_depth_ /\ depth_' = depth_ /\ list_' = list_
    BY DEF start_map_key, end_map_key, visitor
  <1>7. Counters'
    BY <1>1, <1>3, <1>4, <1>5, <1>6 DEF Counters, Reading!IsMessage
  <1>8. message_depth_ # 0 /\ Len(open) # message_depth_ =>
          /\ message_depth_ \in 1 .. Len(open) /\ message_depth_ < Len(open)
          /\ open'[message_depth_] = open[message_depth_]
          /\ open'[message_depth_ + 1].kind = open[message_depth_ + 1].kind
    BY <1>3, <1>5
  <1>9. Top' = open'[Len(open)]
    BY <1>3 DEF Top
  <1>10. CASE start_map_key
    <2>1. KeyBegins /\ Top'.at = "key" /\ open'[Len(open)].key = NoKey
      BY <1>3, <1>9, <1>10 DEF start_map_key
    <2>2. TypeOK'
      BY <1>1, <1>3, <1>6, <1>10, FieldDistinct DEF TypeOK, start_map_key
    <2>3. CASE Len(open) = message_depth_
      <3>1. field_' = "unknown" /\ expecting_key_'
        BY <1>5, <1>10, <2>3 DEF start_map_key
      <3>2. InKey' /\ ~InList /\ ~InList'
        BY <1>3, <1>5, <1>6, <2>1, <2>3 DEF InKey, InList
      <3>3. FlagRight'
        BY <3>1, <3>2, Zenon DEF FlagRight
      <3>4. SlotRight'
        BY <1>5, <1>6, <2>1, <2>3, <3>1, NoKeyAssumption DEF SlotRight
      <3>5. ListRight'
        BY <1>1, <1>6, <3>2 DEF Entry, ListRight
      <3>6. QED
        BY <1>3, <1>7, <2>2, <3>3, <3>4, <3>5 DEF Inv, Entry
    <2>4. CASE Len(open) # message_depth_
      <3>1. field_' = field_ /\ (expecting_key_' <=> expecting_key_)
        BY <1>5, <1>10, <2>4 DEF start_map_key
      <3>2. ~InKey /\ ~InKey' /\ (InList' <=> InList)
        BY <1>3, <1>6, <1>8, <2>4, <3>1 DEF InKey, InList
      <3>3. FlagRight'
        BY <1>1, <3>1, <3>2, Zenon DEF Entry, FlagRight
      <3>4. SlotRight' /\ ListRight'
        BY <1>1, <1>6, <1>8, <2>4, <3>1, <3>2 DEF Entry, SlotRight, ListRight
      <3>5. QED
        BY <1>3, <1>7, <2>2, <3>3, <3>4 DEF Inv, Entry
    <2>5. QED
      BY <2>3, <2>4
  <1>11. CASE end_map_key
    <2>1. KeyEnds /\ Top'.at = "value" /\ open'[Len(open)].key = Top.key /\ AtKey
      BY <1>3, <1>9, <1>11 DEF end_map_key, KeyEnds
    <2>2. TypeOK' /\ field_' = field_
      BY <1>1, <1>3, <1>6, <1>11 DEF TypeOK, end_map_key
    <2>3. FlagRight'
      <3>1. ~expecting_key_'
        BY <1>11 DEF end_map_key
      <3>2. ~InKey'
        BY <2>1 DEF InKey
      <3>3. QED
        BY <3>1, <3>2, Zenon DEF FlagRight
    <2>4. SlotRight'
      <3>1. CASE Len(open) = message_depth_
        BY <1>1, <1>6, <2>1, <2>2, <3>1 DEF Entry, SlotRight, AtKey, Top
      <3>2. CASE Len(open) # message_depth_
        BY <1>1, <1>6, <1>8, <2>2, <3>2 DEF Entry, SlotRight
      <3>3. QED
        BY <3>1, <3>2
    <2>5. ListRight'
      <3>1. InList' <=> InList
        BY <1>3, <1>5, <1>6, <1>8, <2>2 DEF InList
      <3>2. QED
        BY <1>1, <1>6, <2>2, <3>1 DEF Entry, ListRight
    <2>6. QED
      BY <1>3, <1>7, <2>2, <2>3, <2>4, <2>5 DEF Inv, Entry
  <1>12. CASE ElementEnds /\ UNCHANGED <<visitor, message_, delivered>>
    <2>1. field_' = field_ /\ (expecting_key_' <=> expecting_key_) /\ ~AtKey
      BY <1>12 DEF visitor, ElementEnds
    <2>2. TypeOK'
      BY <1>1, <1>3, <1>6, <1>12 DEF TypeOK, visitor
    <2>3. Top'.at # "key"
      BY <1>3, <1>9, <1>12, <2>1 DEF AtKey
    <2>4. FlagRight'
      <3>1. ~InKey /\ ~InKey'
        BY <1>3, <2>1, <2>3 DEF InKey, AtKey
      <3>2. QED
        BY <1>1, <2>1, <3>1, Zenon DEF Entry, FlagRight
    <2>5. SlotRight'
      <3>1. CASE Len(open) = message_depth_
        BY <1>1, <1>3, <1>6, <1>12, <2>1, <3>1 DEF Entry, SlotRight, Top
      <3>2. CASE Len(open) # message_depth_
        BY <1>1, <1>6, <1>8, <2>1, <3>2 DEF Entry, SlotRight
      <3>3. QED
        BY <3>1, <3>2
    <2>6. ListRight'
      <3>1. InList' <=> InList
        BY <1>3, <1>5, <1>6, <1>8, <2>1 DEF InList
      <3>2. QED
        BY <1>1, <1>6, <2>1, <3>1 DEF Entry, ListRight
    <2>7. QED
      BY <1>3, <1>7, <2>2, <2>4, <2>5, <2>6 DEF Inv, Entry
  <1>13. QED
    BY <1>10, <1>11, <1>12

LEMMA ClosesInv ==
  ASSUME ScalarKeys, Inv, end_array \/ end_map
  PROVE  Inv'
  <1>1. TypeOK /\ Nesting /\ Counters /\ Entry
    BY DEF Inv, end_array, end_map, Closes
  <1>2. PICK k \in {"array", "map"} : \/ k = "array" /\ end_array /\ Closes(k)
                                      \/ k = "map" /\ end_map /\ Closes(k)
    BY DEF end_array, end_map
  <1>3. /\ DocumentOK' /\ Nesting'
        /\ Len(open') = Len(open) - 1 /\ open # <<>> /\ Len(open) >= 1
        /\ open[Len(open)].kind = k /\ Top.at \in {"item", "between"}
        /\ \A i \in 1 .. Len(open) - 1 : open'[i] = open[i]
    BY <1>1, <1>2, ClosesStep
  <1>4. /\ open \in Seq(Container) /\ open' \in Seq(Container)
        /\ DOMAIN open = 1 .. Len(open) /\ DOMAIN open' = 1 .. Len(open) - 1
    BY <1>1, <1>3 DEF TypeOK, DocumentOK
  <1>5. /\ Len(open) \in Nat \ {0} /\ message_depth_ \in Nat /\ message_depth_ <= Len(open)
        /\ depth_ = Len(open)
    BY <1>1, <1>3, <1>4 DEF TypeOK, Counters
  <1>6. k = "map" <=> message_depth_ # 0 /\ open[Len(open)].kind = "map"
    BY <1>1, <1>3, <1>5 DEF Counters
  <1>7. /\ field_' = field_ /\ (expecting_key_' <=> expecting_key_) /\ depth_' = Len(open) - 1
        /\ message_depth_' = IF k = "map" /\ Len(open) = message_depth_ THEN 0 ELSE message_depth_
        /\ list_' = IF k = "array" /\ Len(open) - 1 = message_depth_ THEN "unknown" ELSE list_
    BY <1>2, <1>5 DEF end_array, end_map
  <1>8. TypeOK'
    BY <1>1, <1>2, <1>3, <1>5, <1>7 DEF TypeOK, end_array, end_map
  <1>9. k = "array" => message_depth_ # Len(open)
    BY <1>1, <1>3, <1>5 DEF Counters, Reading!IsMessage
  <1>10. Counters'
    <2>1. CASE message_depth_ = Len(open)
      BY <1>1, <1>3, <1>4, <1>5, <1>6, <1>7, <1>9, <2>1 DEF Counters, Reading!IsMessage
    <2>2. CASE message_depth_ # Len(open)
      BY <1>1, <1>3, <1>4, <1>5, <1>7, <2>2 DEF Counters, Reading!IsMessage
    <2>3. QED
      BY <2>1, <2>2
  <1>11. FlagRight'
    <2>1. ~InKey
      BY <1>3 DEF InKey
    <2>2. open' # <<>> => Len(open') \in 1 .. Len(open) - 1 /\ Top' = open[Len(open')]
      BY <1>3, <1>4 DEF Top
    <2>3. ~InKey'
      <3>1. CASE message_depth_' = 0
        BY <3>1 DEF InKey
      <3>2. CASE message_depth_' # 0 /\ Len(open') = message_depth_'
        <4>1. open' # <<>>
          BY <1>4, <3>2
        <4>2. Top'.at \in {"item", "value"}
          BY <1>1, <2>2, <4>1 DEF Nesting
        <4>3. QED
          BY <4>2 DEF InKey
      <3>3. QED
        BY <3>1, <3>2 DEF InKey
    <2>4. QED
      BY <1>1, <1>7, <2>1, <2>3, Zenon DEF Entry, FlagRight
  <1>12. SlotRight' /\ ListRight'
    <2>1. CASE message_depth_ = Len(open)
      <3>1. message_depth_' = 0 /\ list_' = list_ /\ ~InList
        BY <1>5, <1>6, <1>7, <1>9, <1>2, <2>1 DEF InList
      <3>2. QED
        BY <1>1, <3>1 DEF Entry, SlotRight, ListRight, InList
    <2>2. CASE message_depth_ = 0
      BY <1>1, <1>7, <2>2 DEF Entry, SlotRight, ListRight, InList
    <2>3. CASE message_depth_ # 0 /\ message_depth_ = Len(open) - 1
      <3>1. message_depth_' = message_depth_ /\ open'[message_depth_] = open[message_depth_]
        BY <1>3, <1>5, <1>7, <2>3
      <3>2. SlotRight'
        BY <1>1, <1>7, <3>1 DEF Entry, SlotRight
      <3>3. ~InList' /\ (k = "map" => ~InList)
        BY <1>3, <1>5, <2>3, <3>1 DEF InList
      <3>4. ListRight'
        <4>1. list_' = "unknown"
          BY <1>1, <1>2, <1>7, <2>3, <3>3 DEF Entry, ListRight
        <4>2. QED
          BY <3>3, <4>1 DEF ListRight
      <3>5. QED
        BY <3>2, <3>4
    <2>4. CASE message_depth_ # 0 /\ message_depth_ < Len(open) - 1
      <3>1. message_depth_' = message_depth_ /\ list_' = list_
        BY <1>5, <1>7, <2>4
      <3>2. /\ open'[message_depth_] = open[message_depth_]
            /\ open'[message_depth_ + 1] = open[message_depth_ + 1]
        BY <1>3, <1>5, <2>4
      <3>3. InList' <=> InList
        BY <1>3, <1>5, <1>7, <2>4, <3>1, <3>2 DEF InList
      <3>4. QED
        BY <1>1, <1>7, <3>1, <3>2, <3>3 DEF Entry, SlotRight, ListRight
    <2>5. message_depth_ = Len(open) \/ message_depth_ = Len(open) - 1 \/ message_depth_ < Len(open) - 1
      BY <1>5
    <2>6. QED
      BY <2>1, <2>2, <2>3, <2>4, <2>5
  <1>13. QED
    BY <1>3, <1>8, <1>10, <1>11, <1>12 DEF Inv, Entry

LEMMA NextInv ==
  ASSUME ScalarKeys, Inv, [Next]_vars
  PROVE  Inv'
  <1>1. CASE init
    <2>1. open' = <<>> /\ open' \in Seq(Container) /\ DOMAIN open' = {} /\ Len(open') = 0
      BY <1>1 DEF init, FrameBegins
    <2>2. TypeOK'
      <3>1. objects' \in Nat /\ frames' \in Nat /\ turn' = "object"
        BY <1>1 DEF Inv, TypeOK, DocumentOK, init, FrameBegins
      <3>2. DocumentOK'
        BY <2>1, <3>1 DEF DocumentOK
      <3>3. QED
        BY <1>1, <3>2, FieldDistinct DEF TypeOK, init
    <2>3. Nesting' /\ Counters'
      BY <1>1, <2>1 DEF Nesting, Counters, init, FrameBegins
    <2>4. Entry'
      <3>1. ~expecting_key_' /\ ~InKey'
        BY <1>1 DEF init, InKey
      <3>2. FlagRight'
        BY <3>1, Zenon DEF FlagRight
      <3>3. SlotRight' /\ ListRight'
        BY <1>1 DEF init, SlotRight, ListRight, InList
      <3>4. QED
        BY <3>2, <3>3 DEF Entry
    <2>5. QED
      BY <2>2, <2>3, <2>4 DEF Inv
  <1>2. CASE Walk
    <2>1. CASE FrameBreaks \/ FrameEnds
      <3>1. UNCHANGED <<open, objects, frames, visitor>> /\ turn' = "idle"
        BY <1>2, <2>1 DEF Walk, FrameBreaks, FrameEnds
      <3>2. UNCHANGED <<depth_, message_depth_, field_, list_, expecting_key_>>
        BY <3>1 DEF visitor
      <3>3. TypeOK'
        BY <3>1, <3>2 DEF Inv, TypeOK, DocumentOK
      <3>4. QED
        BY <3>1, <3>3 DEF Inv
    <2>2. CASE ElementEnds
      BY <1>2, <2>2, MovesInv DEF Walk
    <2>3. QED
      BY <1>2, <2>1, <2>2 DEF Walk
  <1>3. CASE UNCHANGED vars
    <2>1. UNCHANGED <<open, turn, objects, frames, depth_, message_depth_, field_, list_,
                      expecting_key_>>
      BY <1>3 DEF vars, document, visitor
    <2>2. TypeOK' /\ (Nesting => Nesting') /\ (Counters => Counters')
      BY <2>1 DEF Inv, TypeOK, DocumentOK, Nesting, Counters, Reading!IsMessage, Top
    <2>3. Entry => Entry'
      <3>1. (InKey' <=> InKey) /\ (InList' <=> InList)
        BY <2>1 DEF InKey, InList, Top
      <3>2. FlagRight => FlagRight'
        BY <2>1, <3>1, Zenon DEF FlagRight
      <3>3. QED
        BY <2>1, <3>1, <3>2 DEF Entry, SlotRight, ListRight
    <2>4. QED
      BY <2>1, <2>2, <2>3 DEF Inv
  <1>4. QED
    BY <1>1, <1>2, <1>3, ScalarInv, OpensInv, MovesInv, ClosesInv DEF Next

\* The visitor's fields keep their types: the depth never falls below zero, and the
\* current slot and list are ones the message has.
THEOREM TypeCorrect == ScalarKeys => (Spec => []TypeOK)
  <1> SUFFICES ASSUME ScalarKeys PROVE Spec => []TypeOK
    OBVIOUS
  <1>1. Inv /\ [Next]_vars => Inv'
    BY NextInv
  <1>2. Inv => TypeOK
    BY DEF Inv
  <1>3. QED
    BY InitInv, <1>1, <1>2, PTL DEF Spec

-----------------------------------------------------------------------------
(***************************************************************************)
(* What the counters say in the terms of the nesting.                      *)
(***************************************************************************)

\* FrameReading reads the document and the keys of FrameDecoder.
LEMMA SameSlots ==
  /\ \A k : Reading!field_of(k) = field_of(k)
  /\ Reading!Texts = Texts /\ Reading!Numbers = Numbers /\ Reading!Lists = Lists
  /\ Reading!Empty = Empty
  /\ \A e : Reading!timestamp_from_ext(e) = timestamp_from_ext(e)
  <1>1. Reading!Texts = Texts /\ Reading!Numbers = Numbers /\ Reading!Lists = Lists
    BY DEF Texts, Numbers, Lists, Reading!Texts, Reading!Numbers, Reading!Lists
  <1>2. Reading!message_field = message_field
    BY <1>1 DEF message_field, Reading!message_field
  <1>3. Reading!WireKeys = WireKeys
    BY DEF WireKeys, Reading!WireKeys
  <1>4. \A k : Reading!field_of(k) = field_of(k)
    BY <1>3 DEF field_of, Reading!field_of
  <1>5. Reading!Empty = Empty
    BY <1>1, <1>2 DEF Empty, Reading!Empty, raw_message, Reading!raw_message, Epoch, Reading!Epoch
  <1>6. \A e : Reading!timestamp_from_ext(e) = timestamp_from_ext(e)
    BY DEF timestamp_from_ext, Reading!timestamp_from_ext, Epoch, Reading!Epoch
  <1>7. QED
    BY <1>1, <1>4, <1>5, <1>6

LEMMA SameDocument ==
  /\ Reading!DocumentInit <=> DocumentInit
  /\ \A s : Reading!ScalarRead(s) <=> ScalarRead(s)
  /\ Reading!ArrayOpens <=> ArrayOpens
  /\ Reading!MapOpens <=> MapOpens
  /\ \A k : Reading!Closes(k) <=> Closes(k)
  /\ Reading!FrameBegins <=> FrameBegins
  /\ Reading!FrameBreaks <=> FrameBreaks
  /\ Reading!FrameEnds <=> FrameEnds
  /\ Reading!KeyBegins <=> KeyBegins
  /\ Reading!KeyEnds <=> KeyEnds
  /\ Reading!ElementEnds <=> ElementEnds
  /\ Reading!document = document
  <1>1. /\ Reading!Top = Top /\ Reading!Front = Front
        /\ \A c : Reading!Retop(c) = Retop(c)
        /\ Reading!document = document
    BY DEF Top, Reading!Top, Front, Reading!Front, Retop, Reading!Retop, document, Reading!document
  <1>2. (Reading!AtKey <=> AtKey) /\ (Reading!ObjectBegins <=> ObjectBegins)
    BY <1>1 DEF AtKey, Reading!AtKey, ObjectBegins, Reading!ObjectBegins
  <1>3. Reading!MayNest <=> MayNest
    BY <1>2 DEF MayNest, Reading!MayNest
  <1>4. \A s : Reading!ScalarRead(s) <=> ScalarRead(s)
    BY <1>1, <1>2 DEF ScalarRead, Reading!ScalarRead
  <1>5. (Reading!ArrayOpens <=> ArrayOpens) /\ (Reading!MapOpens <=> MapOpens)
    BY <1>2, <1>3 DEF ArrayOpens, Reading!ArrayOpens, MapOpens, Reading!MapOpens
  <1>6. \A k : Reading!Closes(k) <=> Closes(k)
    BY <1>1 DEF Closes, Reading!Closes
  <1>7. /\ Reading!FrameBegins <=> FrameBegins
        /\ Reading!FrameBreaks <=> FrameBreaks
        /\ Reading!FrameEnds <=> FrameEnds
        /\ Reading!DocumentInit <=> DocumentInit
    BY DEF FrameBegins, Reading!FrameBegins, FrameBreaks, Reading!FrameBreaks, FrameEnds,
           Reading!FrameEnds, DocumentInit, Reading!DocumentInit
  <1>8. /\ Reading!KeyBegins <=> KeyBegins
        /\ Reading!KeyEnds <=> KeyEnds
        /\ Reading!ElementEnds <=> ElementEnds
    BY <1>1, <1>2 DEF KeyBegins, Reading!KeyBegins, KeyEnds, Reading!KeyEnds, ElementEnds,
                      Reading!ElementEnds
  <1>9. QED
    BY <1>1, <1>4, <1>5, <1>6, <1>7, <1>8

LEMMA OneMessage ==
  ASSUME open \in Seq(Container), NEW i \in 1 .. Len(open), NEW j \in 1 .. Len(open),
         Reading!IsMessage(i), Reading!IsMessage(j)
  PROVE  i = j
  <1>1. i \in DOMAIN open /\ j \in DOMAIN open /\ Len(open) \in Nat
    OBVIOUS
  <1>2. ~(i < j) /\ ~(j < i)
    BY <1>1 DEF Reading!IsMessage
  <1>3. QED
    BY <1>1, <1>2

\* The visitor is at a value, or in a list, exactly where the document says so.
LEMMA Position ==
  ASSUME Inv, turn # "idle"
  PROVE  /\ message_depth_ # 0 <=> \E i \in DOMAIN open : Reading!IsMessage(i)
         /\ turn = "object" => (at_value <=> \E i \in DOMAIN open : Reading!IsValueOf(i))
         /\ turn = "object" /\ at_value => field_ = Reading!Slot(Len(open))
         /\ in_list <=> \E i \in DOMAIN open : Reading!IsListOf(i)
         /\ in_list => list_ = Reading!Slot(Len(open) - 1)
  <1>1. TypeOK /\ Nesting /\ Counters /\ Entry
    BY DEF Inv
  <1>2. /\ open \in Seq(Container) /\ DOMAIN open = 1 .. Len(open) /\ Len(open) \in Nat
        /\ message_depth_ \in Nat /\ depth_ = Len(open) /\ message_depth_ <= Len(open)
    BY <1>1 DEF TypeOK, DocumentOK, Counters
  <1>3. \A i \in DOMAIN open : Reading!IsMessage(i) => message_depth_ = i
    BY <1>1, <1>2, OneMessage DEF Counters, Reading!IsMessage
  <1>4. message_depth_ # 0 => Reading!IsMessage(message_depth_) /\ message_depth_ \in DOMAIN open
    BY <1>1, <1>2 DEF Counters
  <1>5. message_depth_ # 0 <=> \E i \in DOMAIN open : Reading!IsMessage(i)
    BY <1>2, <1>3, <1>4
  <1>6. ASSUME turn = "object"
        PROVE  /\ at_value <=> \E i \in DOMAIN open : Reading!IsValueOf(i)
               /\ at_value => field_ = Reading!Slot(Len(open))
    <2>1. at_value <=> message_depth_ # 0 /\ Len(open) = message_depth_ /\ Top.at # "key"
      <3>1. expecting_key_ <=> InKey
        BY <1>1, Zenon DEF Entry, FlagRight
      <3>2. depth_ = message_depth_ <=> Len(open) = message_depth_
        BY <1>2
      <3>3. QED
        BY <3>1, <3>2, Zenon DEF at_value, InKey
    <2>2. message_depth_ # 0 /\ Len(open) = message_depth_ =>
            open # <<>> /\ Top.at \in {"key", "value"} /\ Top = open[message_depth_]
      BY <1>1, <1>2, <1>4, <1>6 DEF Nesting, TypeOK, DocumentOK, Top, Reading!IsMessage
    <2>3. at_value => Reading!IsValueOf(message_depth_) /\ message_depth_ \in DOMAIN open
      BY <1>4, <2>1, <2>2 DEF Reading!IsValueOf
    <2>4. ASSUME NEW i \in DOMAIN open, Reading!IsValueOf(i) PROVE at_value
      BY <1>2, <1>3, <2>1, <2>4 DEF Reading!IsValueOf, Top
    <2>5. at_value => field_ = Reading!Slot(Len(open))
      BY <1>1, <2>1, <2>2, SameSlots DEF Entry, SlotRight, Reading!Slot
    <2>6. QED
      BY <2>3, <2>4, <2>5
  <1>7. in_list <=> InList /\ Len(open) = message_depth_ + 1
    <2>1. list_ # "unknown" <=> InList
      BY <1>1, FieldDistinct DEF Entry, ListRight, InList
    <2>2. QED
      BY <1>2, <2>1 DEF in_list
  <1>8. message_depth_ # 0 /\ Len(open) = message_depth_ + 1 =>
          open[message_depth_].at = "value" /\ field_ = Reading!Slot(message_depth_)
    <2> SUFFICES ASSUME message_depth_ # 0, Len(open) = message_depth_ + 1
                 PROVE  open[message_depth_].at = "value" /\ field_ = Reading!Slot(message_depth_)
      OBVIOUS
    <2>1. open[message_depth_].kind = "map" /\ message_depth_ \in 1 .. Len(open) - 1
      BY <1>2, <1>4 DEF Reading!IsMessage
    <2>2. open[message_depth_].at = "value"
      BY <1>1, <1>4, <2>1 DEF Nesting, TypeOK, DocumentOK
    <2>3. QED
      BY <1>1, <2>2, SameSlots DEF Entry, SlotRight, Reading!Slot
  <1>9. in_list => /\ Reading!IsListOf(message_depth_) /\ message_depth_ \in DOMAIN open
                   /\ list_ = Reading!Slot(Len(open) - 1)
    <2> SUFFICES ASSUME in_list
                 PROVE  /\ Reading!IsListOf(message_depth_) /\ message_depth_ \in DOMAIN open
                        /\ list_ = Reading!Slot(Len(open) - 1)
      OBVIOUS
    <2>1. InList /\ Len(open) = message_depth_ + 1 /\ message_depth_ # 0
      BY <1>7 DEF InList
    <2>2. open[message_depth_].at = "value" /\ field_ = Reading!Slot(message_depth_)
      BY <1>8, <2>1
    <2>3. list_ = field_ /\ Len(open) - 1 = message_depth_
      BY <1>1, <1>2, <2>1 DEF Entry, ListRight
    <2>4. QED
      BY <1>4, <2>1, <2>2, <2>3, SameSlots DEF Reading!IsListOf, InList
  <1>10. ASSUME NEW i \in DOMAIN open, Reading!IsListOf(i) PROVE in_list
    <2>1. message_depth_ = i /\ message_depth_ # 0 /\ Len(open) = message_depth_ + 1
      BY <1>2, <1>3, <1>10 DEF Reading!IsListOf
    <2>2. field_ \in Lists /\ open[message_depth_ + 1].kind = "array"
      BY <1>8, <1>10, <2>1, SameSlots DEF Reading!IsListOf
    <2>3. InList
      BY <1>2, <2>1, <2>2 DEF InList
    <2>4. QED
      BY <1>7, <2>1, <2>3
  <1>11. QED
    BY <1>5, <1>6, <1>9, <1>10

(***************************************************************************)
(* Each callback does what the reading by nesting does.                    *)
(***************************************************************************)

LEMMA ScalarReads ==
  ASSUME Inv, NEW s \in Scalars, visit_str(s) \/ number(s) \/ visit_ext(s) \/ visit_other(s)
  PROVE  Reading!Read(s)
  <1>1. ScalarRead(s) /\ UNCHANGED delivered /\ turn = "object"
    BY DEF visit_str, number, visit_ext, visit_other, ScalarRead, ObjectBegins
  <1>2. /\ at_value <=> \E i \in DOMAIN open : Reading!IsValueOf(i)
        /\ at_value => field_ = Reading!Slot(Len(open))
        /\ in_list <=> \E i \in DOMAIN open : Reading!IsListOf(i)
        /\ in_list => list_ = Reading!Slot(Len(open) - 1)
    BY <1>1, Position
  <1>3. ~(at_value /\ in_list) /\ ~(expecting_key_ /\ (at_value \/ in_list))
    <2>1. Counters /\ Entry /\ TypeOK
      BY <1>1 DEF Inv
    <2>2. depth_ # depth_ + 1 /\ depth_ = Len(open)
      BY <2>1 DEF TypeOK, Counters
    <2>3. expecting_key_ => Len(open) = message_depth_
      BY <2>1, Zenon DEF Entry, FlagRight, InKey
    <2>4. expecting_key_ => ~in_list
      BY <2>2, <2>3 DEF in_list
    <2>5. QED
      BY <2>2, <2>4 DEF at_value, in_list
  <1>4. Reading!Read(s) <=>
          message_' = IF at_value THEN Reading!Filled(field_, s)
                      ELSE IF s.type = "str" /\ in_list
                      THEN [message_ EXCEPT ![list_] = Append(@, s.v)]
                      ELSE message_
    <2>1. CASE at_value
      BY <1>1, <1>2, <2>1, SameDocument DEF Reading!Read
    <2>2. CASE ~at_value
      BY <1>1, <1>2, <2>2, SameDocument DEF Reading!Read
    <2>3. QED
      BY <2>1, <2>2
  <1>5. CASE visit_str(s)
    <2>1. string(s.v) => message_' = Reading!Filled(field_, s)
      BY <1>5, SameSlots DEF string, visit_str, Reading!Filled, Reading!Takes, Reading!Value,
                  Texts, Numbers, Lists
    <2>2. QED
      BY <1>3, <1>4, <1>5, <2>1 DEF visit_str
  <1>6. CASE number(s)
    BY <1>4, <1>6, SameSlots DEF number, Reading!Filled, Reading!Takes, Reading!Value, Texts, Numbers
  <1>7. CASE visit_ext(s)
    BY <1>4, <1>7, SameSlots DEF visit_ext, Reading!Filled, Reading!Takes, Reading!Value, Texts, Numbers
  <1>8. CASE visit_other(s)
    BY <1>4, <1>8, SameSlots DEF visit_other, Reading!Filled, Reading!Takes, Reading!Value, Texts, Numbers
  <1>9. QED
    BY <1>5, <1>6, <1>7, <1>8

LEMMA ContainerReads ==
  ASSUME Inv, start_array \/ start_map \/ end_array \/ end_map
  PROVE  Reading!Next
  <1>1. CASE start_array
    <2>1. ArrayOpens /\ turn = "object"
      BY <1>1 DEF start_array, ArrayOpens, ObjectBegins
    <2>2. /\ at_value <=> \E i \in DOMAIN open : Reading!IsValueOf(i)
          /\ at_value => field_ = Reading!Slot(Len(open))
      BY <2>1, Position
    <2>3. \A i \in DOMAIN open : Reading!IsValueOf(i) => i = Len(open)
      BY DEF Reading!IsValueOf
    <2>4. Reading!ReadArray
      BY <1>1, <2>1, <2>2, <2>3, SameSlots, SameDocument DEF start_array, Reading!ReadArray
    <2>5. QED
      BY <2>4 DEF Reading!Next
  <1>2. CASE start_map
    <2>1. MapOpens /\ turn # "idle"
      BY <1>2 DEF start_map, MapOpens, ObjectBegins
    <2>2. message_depth_ # 0 <=> \E i \in DOMAIN open : Reading!IsMessage(i)
      BY <2>1, Position
    <2>3. Reading!ReadMap
      BY <1>2, <2>1, <2>2, SameSlots, SameDocument DEF start_map, Reading!ReadMap
    <2>4. QED
      BY <2>3 DEF Reading!Next
  <1>3. CASE end_array
    BY <1>3, SameDocument DEF end_array, Reading!ReadEnd, Reading!Next
  <1>4. CASE end_map
    <2>1. Closes("map") /\ turn # "idle"
      BY <1>4 DEF end_map, Closes
    <2>2. TypeOK /\ Counters /\ open # <<>>
      BY <1>4 DEF Inv, end_map, Closes, Nesting
    <2>3. Len(open) \in DOMAIN open /\ Len(open) \in Nat /\ DOMAIN open = 1 .. Len(open)
      BY <2>2 DEF TypeOK, DocumentOK
    <2>4. depth_ = message_depth_ <=> Reading!IsMessage(Len(open))
      <3>1. depth_ = message_depth_ => Reading!IsMessage(Len(open))
        BY <2>2, <2>3 DEF Counters
      <3>2. ASSUME Reading!IsMessage(Len(open)) PROVE depth_ = message_depth_
        <4>1. message_depth_ # 0
          BY <2>1, <2>3, <3>2, Position
        <4>2. message_depth_ \in 1 .. Len(open) /\ Reading!IsMessage(message_depth_)
          BY <2>2, <2>3, <4>1 DEF TypeOK, Counters
        <4>3. QED
          BY <2>2, <2>3, <3>2, <4>2, OneMessage DEF TypeOK, DocumentOK, Counters
      <3>3. QED
        BY <3>1, <3>2
    <2>5. Reading!ReadEnd
      BY <1>4, <2>1, <2>4, SameDocument DEF end_map, Reading!ReadEnd
    <2>6. QED
      BY <2>5 DEF Reading!Next
  <1>5. QED
    BY <1>1, <1>2, <1>3, <1>4

LEMMA StepReads ==
  ASSUME Inv, [Next]_vars
  PROVE  [Reading!Next]_(Reading!vars)
  <1>1. CASE init \/ start_map_key \/ end_map_key \/ Walk
    <2>1. Reading!Walk
      BY <1>1, SameDocument DEF init, start_map_key, end_map_key, Walk, Reading!Walk
    <2>2. QED
      BY <2>1 DEF Reading!Next
  <1>2. CASE start_array \/ start_map \/ end_array \/ end_map
    BY <1>2, ContainerReads
  <1>3. ASSUME NEW s \in Scalars,
               visit_str(s) \/ number(s) \/ visit_ext(s) \/ visit_other(s)
        PROVE  Reading!Next
    BY <1>3, ScalarReads DEF Reading!Next
  <1>4. CASE UNCHANGED vars
    BY <1>4 DEF vars, document, Reading!vars, Reading!document
  <1>5. QED
    BY <1>1, <1>2, <1>3, <1>4 DEF Next

\* The visitor reads every frame as its nesting says, provided no key is a container.
THEOREM ReadsCorrectly == ScalarKeys => (Spec => ReadsAsNested)
  <1> SUFFICES ASSUME ScalarKeys PROVE Spec => ReadsAsNested
    OBVIOUS
  <1>1. Init => Reading!Init
    BY SameSlots, SameDocument DEF Init, Reading!Init
  <1>2. Inv /\ [Next]_vars => Inv'
    BY NextInv
  <1>3. Inv /\ [Next]_vars => [Reading!Next]_(Reading!vars)
    BY StepReads
  <1>4. QED
    BY InitInv, <1>1, <1>2, <1>3, PTL DEF Spec, ReadsAsNested, Reading!Spec
=============================================================================
