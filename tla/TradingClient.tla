----------------------------- MODULE TradingClient ----------------------------
(***************************************************************************)
(* The endpoint methods of trading_client, which block.                    *)
(***************************************************************************)
EXTENDS Queries, Tables

Account ==
  [get_account |-> Get("/v2/account", NoQuery, Model),
   get_account_configurations |-> Get("/v2/account/configurations", NoQuery, Model),
   update_account_configurations |->
     Patch("/v2/account/configurations", NoQuery, "account_configurations_update", Model),
   get_portfolio_history |->
     Get("/v2/account/portfolio/history", portfolio_history_query, Model),
   get_activities |-> Get("/v2/account/activities", activity_query, Vector),
   get_activities_by_type |-> Get("/v2/account/activities/{type}", activity_query, Vector)]

Orders ==
  [submit_order |-> Post("/v2/orders", NoQuery, "order_request", Model),
   list_orders |-> Get("/v2/orders", order_query, Vector),
   get_order |-> Get("/v2/orders/{order_id}", Query(<<"nested">>), Model),
   get_order_by_client_order_id |->
     Get("/v2/orders:by_client_order_id", Query(<<"client_order_id">>), Model),
   replace_order |-> Patch("/v2/orders/{order_id}", NoQuery, "replace_order_request", Model),
   cancel_order |-> Del("/v2/orders/{order_id}", NoQuery, Nothing),
   cancel_all_orders |-> Del("/v2/orders", NoQuery, Vector)]

Positions ==
  [list_positions |-> Get("/v2/positions", NoQuery, Vector),
   get_position |-> Get("/v2/positions/{symbol_or_asset_id}", NoQuery, Model),
   close_position |->
     Del("/v2/positions/{symbol_or_asset_id}", close_position_request, Model),
   close_all_positions |-> Del("/v2/positions", With(NoQuery, "cancel_orders"), Vector),
   exercise_option_position |->
     Post("/v2/positions/{symbol_or_contract_id}/exercise", NoQuery, "{}", Nothing),
   do_not_exercise_option_position |->
     Post("/v2/positions/{symbol_or_contract_id}/do-not-exercise", NoQuery, "{}", Nothing)]

Assets ==
  [list_assets |-> Get("/v2/assets", asset_query, Vector),
   get_asset |-> Get("/v2/assets/{symbol_or_asset_id}", NoQuery, Model),
   list_option_contracts_page |->
     Get("/v2/options/contracts", option_contract_query, OnePage(Elements("option_contracts"))),
   list_option_contracts |->
     Get("/v2/options/contracts", option_contract_query, Paginated(Elements("option_contracts"))),
   get_option_contract |-> Get("/v2/options/contracts/{symbol_or_id}", NoQuery, Model)]

Watchlists ==
  [list_watchlists |-> Get("/v2/watchlists", NoQuery, Vector),
   create_watchlist |-> Post("/v2/watchlists", NoQuery, "watchlist_request", Model),
   get_watchlist |-> Get("/v2/watchlists/{watchlist_id}", NoQuery, Model),
   get_watchlist_by_name |-> Get("/v2/watchlists:by_name", Query(<<"name">>), Model),
   update_watchlist |->
     Put("/v2/watchlists/{watchlist_id}", NoQuery, "watchlist_request", Model),
   update_watchlist_by_name |->
     Put("/v2/watchlists:by_name", Query(<<"name">>), "watchlist_request", Model),
   add_asset_to_watchlist |->
     Post("/v2/watchlists/{watchlist_id}", NoQuery, "{symbol}", Model),
   add_asset_to_watchlist_by_name |->
     Post("/v2/watchlists:by_name", Query(<<"name">>), "{symbol}", Model),
   remove_asset_from_watchlist |->
     Del("/v2/watchlists/{watchlist_id}/{symbol}", NoQuery, Model),
   delete_watchlist |-> Del("/v2/watchlists/{watchlist_id}", NoQuery, Nothing),
   delete_watchlist_by_name |-> Del("/v2/watchlists:by_name", Query(<<"name">>), Nothing)]

Calendar ==
  [get_calendar |-> Get("/v2/calendar", calendar_query, Vector),
   get_clock |-> Get("/v2/clock", NoQuery, Model)]

CryptoFunding ==
  [list_crypto_wallets |-> Get("/v2/wallets", Query(<<"asset", "chain">>), Wallets),
   list_crypto_transfers |-> Get("/v2/wallets/transfers", Query(<<"asset">>), Vector),
   get_crypto_transfer |-> Get("/v2/wallets/transfers/{transfer_id}", NoQuery, Model),
   request_crypto_withdrawal |->
     Post("/v2/wallets/transfers", NoQuery, "crypto_withdrawal_request", Model),
   get_crypto_transfer_estimate |->
     Get("/v2/wallets/fees/estimate",
         Query(<<"asset", "from_address", "to_address", "amount">>), Model),
   list_whitelisted_addresses |-> Get("/v2/wallets/whitelists", NoQuery, Vector),
   create_whitelisted_address |->
     Post("/v2/wallets/whitelists", NoQuery, "whitelisted_address_request", Model),
   delete_whitelisted_address |->
     Del("/v2/wallets/whitelists/{whitelisted_address_id}", NoQuery, Nothing)]

Locates ==
  [list_locates_page |-> Get("/v1/locates", locate_query, OnePage(Elements("locates"))),
   list_locates |-> Get("/v1/locates", locate_query, Paginated(Elements("locates"))),
   create_locate |-> Post("/v1/locates", NoQuery, "locate_request", Model),
   get_locate |-> Get("/v1/locates/{locate_id}", NoQuery, Model),
   get_locate_quotes |-> Get("/v1/locates/quotes", Query(<<"symbols">>), Optional("quotes"))]

trading_client ==
  Account ++ Orders ++ Positions ++ Assets ++ Watchlists ++ Calendar ++ CryptoFunding ++ Locates
=============================================================================
