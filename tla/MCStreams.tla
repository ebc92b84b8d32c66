------------------------------ MODULE MCStreams ------------------------------
(***************************************************************************)
(* Every stream with all its handlers, with some and with none, and frames *)
(* that carry each type of message, a batch a timestamp breaks, a frame    *)
(* that breaks off and one in the other codec.                             *)
(***************************************************************************)
EXTENDS Streams

Events == {"on_connected", "on_disconnected", "on_error", "on_subscription"}

Table(kind) ==
  CASE kind = "stock"        -> stock_dispatch
    [] kind = "crypto"       -> crypto_dispatch
    [] kind = "news"         -> news_dispatch
    [] kind = "option"       -> option_on_message
    [] kind = "trade_update" -> trade_update_dispatch

HandlersOf(kind) == {Table(kind)[T] : T \in DOMAIN Table(kind)}

MCSettings ==
  UNION {[kind : {kind}, channels : BOOLEAN,
          handlers : {Events \cup HandlersOf(kind), HandlersOf(kind), {"on_error", "on_trade"}, {}}] :
           kind \in Kinds}

TypesOf(kind) ==
  CASE kind = "stock"        -> <<"t", "q", "b", "u", "d", "s", "l", "c", "x", "i">>
    [] kind = "crypto"       -> <<"t", "q", "b", "u", "d", "o">>
    [] kind = "news"         -> <<"n">>
    [] kind = "option"       -> <<"t", "q">>
    [] kind = "trade_update" -> <<"trade_updates">>

Msg(T, msg, stamp) == [T |-> T, msg |-> msg, stamp |-> stamp]

Batch(codec, whole, batch) == [codec |-> codec, whole |-> whole, batch |-> batch]

\* The trade-update stream sends one object in a frame.
Batches(kind) ==
  LET types == TypesOf(kind)
      All   == [i \in DOMAIN types |-> Msg(types[i], "none", "text")]
      Bad(T) == Msg(T, "none", "number")
  IN  IF kind = "trade_update"
      THEN {All, <<Bad("trade_updates")>>, <<Msg("listening", "none", "text")>>,
            <<Msg("none", "none", "text")>>}
      ELSE {All, <<All[1], Bad(types[1]), All[1]>>,
            <<Msg("success", "connected", "text")>>,
            <<Msg("subscription", "none", "text"), Msg("none", "none", "text"), All[1]>>,
            <<Msg("error", "none", "text"), All[1]>>}

MCFrames(s) ==
  LET own   == IF s.kind = "option" THEN "msgpack" ELSE "json"
      other == IF s.kind = "option" THEN "json" ELSE "msgpack"
      some  == CHOOSE b \in Batches(s.kind) : TRUE
  IN  {Batch(own, TRUE, b) : b \in Batches(s.kind)}
        \cup {Batch(own, FALSE, some), Batch(other, TRUE, some)}
=============================================================================
