-------------------------------- MODULE Slots --------------------------------
(***************************************************************************)
(* The message of an option stream (frame_decoder.hpp, raw_message): one   *)
(* slot for each key the SDK knows, and what timestamps become.            *)
(***************************************************************************)
EXTENDS Integers, Sequences

Texts   == {"type", "symbol", "text", "exchange", "bid_exchange", "ask_exchange"}
Numbers == {"code", "price", "size", "bid_price", "bid_size", "ask_price", "ask_size"}
Lists   == {"conditions", "trades", "quotes"}

message_field == Texts \cup Numbers \cup Lists \cup {"timestamp", "unknown"}

WireKeys ==
  [T |-> "type", S |-> "symbol", t |-> "timestamp", p |-> "price", s |-> "size",
   x |-> "exchange", c |-> "conditions", bx |-> "bid_exchange", bp |-> "bid_price",
   bs |-> "bid_size", ax |-> "ask_exchange", ap |-> "ask_price", as |-> "ask_size",
   msg |-> "text", code |-> "code", trades |-> "trades", quotes |-> "quotes"]

field_of(key) == IF key \in DOMAIN WireKeys THEN WireKeys[key] ELSE "unknown"

\* Instants are pairs: whole seconds since the epoch, and nanoseconds.
Epoch == <<0, 0>>

raw_message == message_field \ {"unknown"}

Empty == [f \in raw_message |->
            CASE f \in Texts       -> ""
              [] f \in Numbers     -> 0
              [] f \in Lists       -> <<>>
              [] f = "timestamp"   -> Epoch]

\* The timestamp extension (type -1) has three forms: seconds in 4 bytes, 34 bits of seconds
\* and 30 of nanoseconds in 8, and signed seconds and nanoseconds in 12.  e.seconds is below
\* 2^64 / 10^9, so that the nanoseconds since the epoch fit their 64 bits.
timestamp_from_ext(e) ==
  IF e.ext # -1 \/ e.bytes \notin {4, 8, 12} \/ e.seconds < 0
  THEN Epoch
  ELSE <<e.seconds, IF e.bytes = 4 THEN 0 ELSE e.nanos>>
=============================================================================
