------------------------------- MODULE Queries -------------------------------
(***************************************************************************)
(* The query structs of the clients: what their build() may add, in order. *)
(***************************************************************************)
EXTENDS Endpoints

history_query == Query(<<"symbols", "start", "end", "limit", "page_token", "sort", "feed",
                         "currency", "asof">>)

bar_query == LET q == With(history_query, "timeframe")
             IN  [q EXCEPT !.keys = Append(@, "adjustment")]

latest_query == Query(<<"symbols", "feed", "currency">>)

option_history_query == Query(<<"symbols", "start", "end", "limit", "page_token", "sort">>)

option_bar_query == With(option_history_query, "timeframe")

option_latest_query == Query(<<"symbols", "feed">>)

option_chain_query ==
  Query(<<"feed", "limit", "updated_since", "page_token", "type", "strike_price_gte",
          "strike_price_lte", "expiration_date", "expiration_date_gte", "expiration_date_lte",
          "root_symbol">>)

crypto_history_query == Query(<<"symbols", "start", "end", "limit", "page_token", "sort">>)

crypto_bar_query == With(crypto_history_query, "timeframe")

news_query == Query(<<"symbols", "start", "end", "limit", "sort", "include_content",
                      "exclude_contentless", "page_token">>)

corporate_action_query ==
  Query(<<"symbols", "cusips", "types", "ids", "region", "start", "end", "limit",
          "data_quality", "page_token", "sort">>)

forex_query == Query(<<"currency_pairs", "timeframe", "start", "end", "limit", "sort",
                       "page_token">>)

portfolio_history_query ==
  Query(<<"period", "timeframe", "intraday_reporting", "start", "end", "pnl_reset",
          "extended_hours", "cashflow_types">>)

activity_query == Query(<<"activity_types", "date", "after", "until", "direction",
                          "page_size", "page_token", "category">>)

order_query == Query(<<"status", "limit", "after", "until", "direction", "nested",
                       "symbols", "side">>)

close_position_request == Query(<<"qty", "percentage">>)

asset_query == Query(<<"status", "asset_class", "exchange", "attributes">>)

option_contract_query ==
  Query(<<"underlying_symbols", "show_deliverables", "status", "expiration_date",
          "expiration_date_gte", "expiration_date_lte", "root_symbol", "type", "style",
          "strike_price_gte", "strike_price_lte", "limit", "ppind", "page_token">>)

calendar_query == Query(<<"start", "end", "date_type">>)

locate_query == Query(<<"symbol", "status", "start", "end", "limit", "page_token">>)
=============================================================================
