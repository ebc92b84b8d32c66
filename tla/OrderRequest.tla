----------------------------- MODULE OrderRequest -----------------------------
(***************************************************************************)
(* order_request: its factories and its JSON.  A request is its type, its  *)
(* class and the set of the other fields that are set; the JSON body is    *)
(* the set of its keys, with the values of type and order_class.           *)
(***************************************************************************)
EXTENDS FiniteSets

Single(type, fields) ==
  [type |-> type, class |-> "", set |-> {"symbol", "side", "time_in_force"} \cup fields]

market                == Single("market", {"qty"})
market_notional       == Single("market", {"notional"})
limit                 == Single("limit", {"qty", "limit_price"})
stop                  == Single("stop", {"qty", "stop_price"})
stop_limit            == Single("stop_limit", {"qty", "stop_price", "limit_price"})
trailing_stop_price   == Single("trailing_stop", {"qty", "trail_price"})
trailing_stop_percent == Single("trailing_stop", {"qty", "trail_percent"})

\* An entry order with a take-profit and a stop-loss child.
bracket(entry) ==
  [entry EXCEPT !.class = "bracket", !.set = @ \cup {"take_profit", "stop_loss"}]

\* The symbol, the side and the type stay unset; each leg carries its own.
multi_leg == [type |-> "", class |-> "mleg", set |-> {"qty", "time_in_force", "legs"}]

Entries == {market, market_notional, limit, stop, stop_limit, trailing_stop_price,
            trailing_stop_percent}

Made == Entries \cup {bracket(o) : o \in Entries} \cup {multi_leg}

\* What a caller may set on what a factory has made.
Named(o) == [o EXCEPT !.set = @ \cup {"client_order_id"}]

Body(o, keys) == [keys |-> keys, type |-> o.type, class |-> o.class]

\* Mutant of to_json: the identifier is not sent.
to_json_anonymous(o) ==
  Body(o, IF o.class = "mleg" THEN o.set \ {"symbol", "side", "client_order_id"}
          ELSE (o.set \cup {"symbol"}) \ {"client_order_id"})

\* Mutant of to_json: the top level of a multi-leg order is written like any other's.
to_json_flat(o) == Body(o, o.set \cup {"symbol"})

\* The symbol is written whether it is set or not, unless the order is multi-leg.
to_json(o) ==
  Body(o, IF o.class = "mleg" THEN o.set \ {"symbol", "side"} ELSE o.set \cup {"symbol"})
=============================================================================
