------------------------------ MODULE Document ------------------------------
(***************************************************************************)
(* The MessagePack parser as the option stream uses it: it walks over the  *)
(* objects of one frame after another and calls the visitor at each.  The  *)
(* parser is the msgpack library's; the steps here are the points between  *)
(* its callbacks.  What a frame holds is the server's choice, and a frame  *)
(* may end anywhere.                                                       *)
(***************************************************************************)
EXTENDS Naturals, Sequences

CONSTANTS
  Scalars,      \* what a frame may hold, besides arrays and maps, tagged with its type
  NoKey,        \* the key of a map entry whose key is not a string
  ScalarKeys,   \* TRUE: no key is itself an array or a map
  MaxDepth,     \* bound: containers open at once
  MaxObjects,   \* bound: objects in all frames
  MaxFrames     \* bound: frames

ScalarTypes == {"str", "num", "ext", "nil"}

ASSUME ScalarAssumption == \A s \in Scalars : s.type \in ScalarTypes
ASSUME KeyAssumption == ScalarKeys \in BOOLEAN
ASSUME DocumentBounds == MaxDepth \in Nat /\ MaxObjects \in Nat /\ MaxFrames \in Nat

VARIABLES
  open,      \* the containers open now, the outermost first
  turn,      \* what the parser does next
  objects,   \* objects read so far
  frames     \* frames begun so far

document == <<open, turn, objects, frames>>

Strings == {s.v : s \in {t \in Scalars : t.type = "str"}}

\* In a map the parser is between entries, in a key or in a value.
Container == [kind : {"array", "map"}, at : {"item", "between", "key", "value"},
              key : Strings \cup {NoKey}]

DocumentOK ==
  /\ open \in Seq(Container)
  /\ turn \in {"idle", "object", "key", "done", "close"}
  /\ objects \in Nat /\ frames \in Nat
  /\ \A i \in DOMAIN open : open[i].at = "item" <=> open[i].kind = "array"

DocumentInit == open = <<>> /\ turn = "idle" /\ objects = 0 /\ frames = 0

Top == open[Len(open)]

AtKey == open # <<>> /\ Top.at = "key"

\* The containers around the innermost one.
Front == SubSeq(open, 1, Len(open) - 1)

\* The containers with the innermost one moved on to c.
Retop(c) == [open EXCEPT ![Len(open)] = c]

FrameBegins ==
  /\ turn = "idle" /\ frames < MaxFrames
  /\ open' = <<>>
  /\ turn' = "object"
  /\ frames' = frames + 1
  /\ UNCHANGED objects

\* The data ends inside an object, or a byte begins none: the frame is malformed.
FrameBreaks ==
  /\ turn # "idle"
  /\ turn' = "idle"
  /\ UNCHANGED <<open, objects, frames>>

FrameEnds ==
  /\ turn = "done" /\ open = <<>>
  /\ turn' = "idle"
  /\ UNCHANGED <<open, objects, frames>>

ObjectBegins ==
  /\ turn = "object" /\ objects < MaxObjects
  /\ objects' = objects + 1
  /\ UNCHANGED frames

ScalarRead(s) ==
  /\ ObjectBegins
  /\ open' = IF AtKey /\ s.type = "str" THEN Retop([Top EXCEPT !.key = s.v]) ELSE open
  /\ turn' = "done"

MayNest == Len(open) < MaxDepth /\ (ScalarKeys => ~AtKey)

ArrayOpens ==
  /\ ObjectBegins /\ MayNest
  /\ open' = Append(open, [kind |-> "array", at |-> "item", key |-> NoKey])
  /\ turn' \in {"object", "close"}

MapOpens ==
  /\ ObjectBegins /\ MayNest
  /\ open' = Append(open, [kind |-> "map", at |-> "between", key |-> NoKey])
  /\ turn' \in {"key", "close"}

KeyBegins ==
  /\ turn = "key"
  /\ open' = Retop([Top EXCEPT !.at = "key", !.key = NoKey])
  /\ turn' = "object"
  /\ UNCHANGED <<objects, frames>>

KeyEnds ==
  /\ turn = "done" /\ AtKey
  /\ open' = Retop([Top EXCEPT !.at = "value"])
  /\ turn' = "object"
  /\ UNCHANGED <<objects, frames>>

\* An element or a value has ended: the container goes on or closes.
ElementEnds ==
  /\ turn = "done" /\ open # <<>> /\ ~AtKey
  /\ \/ /\ Top.kind = "array"
        /\ turn' \in {"object", "close"}
        /\ UNCHANGED open
     \/ /\ Top.kind = "map"
        /\ turn' \in {"key", "close"}
        /\ open' = Retop([Top EXCEPT !.at = "between"])
  /\ UNCHANGED <<objects, frames>>

Closes(kind) ==
  /\ turn = "close" /\ Top.kind = kind
  /\ open' = Front
  /\ turn' = "done"
  /\ UNCHANGED <<objects, frames>>
=============================================================================
