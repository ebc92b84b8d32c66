--------------------------- MODULE MCFrameDecoder ---------------------------
(***************************************************************************)
(* Small instances of FrameDecoder: the keys of a type, a price and the    *)
(* conditions, an unknown key, and values of each kind.                    *)
(***************************************************************************)
EXTENDS FrameDecoder, TLC

CONSTANTS one, none

Str(v) == [type |-> "str", v |-> v]
Num(v) == [type |-> "num", v |-> v]
Stamp(ext, bytes, seconds, nanos) ==
  [type |-> "ext", ext |-> ext, bytes |-> bytes, seconds |-> seconds, nanos |-> nanos]

\* Each string may be a key or a value.
MCScalars ==
  {Str(v) : v \in {"c", "p", "t", "z"}}
    \cup {Num(one), [type |-> "nil", v |-> none]}
    \cup {Stamp(-1, 12, 5, 7), Stamp(-1, 4, 5, 7), Stamp(-1, 12, -5, 7)}

MCTextTime == [v \in Strings |-> IF v = "z" THEN <<9, 0>> ELSE Epoch]
=============================================================================
