---------------------------- MODULE CallsProofs -----------------------------
(***************************************************************************)
(* Theorems about Calls, for any calls, answers, tokens and attempts.      *)
(***************************************************************************)
EXTENDS Calls, Recursion, FiniteSetTheorems, TLAPS

(***************************************************************************)
(* Lists: the sequences of which nothing is said but their length.         *)
(***************************************************************************)

IsList(s) == Len(s) \in Nat /\ s = [k \in 1..Len(s) |-> s[k]]

LEMMA ListSeq ==
  ASSUME NEW s, IsList(s)
  PROVE  s \in Seq({s[k] : k \in 1..Len(s)}) /\ DOMAIN s = 1..Len(s)
  BY DEF IsList

LEMMA ListOf ==
  ASSUME NEW S, NEW s \in Seq(S)
  PROVE  IsList(s)
  BY DEF IsList

LEMMA ListLength ==
  ASSUME NEW n \in Nat, NEW s, s = [k \in 1..n |-> s[k]]
  PROVE  IsList(s) /\ Len(s) = n
<1>1. s \in Seq({s[k] : k \in 1..n}) /\ Len(s) = n
  OBVIOUS
<1> QED
  BY <1>1, ListOf

LEMMA ListAppend ==
  ASSUME NEW s, IsList(s), NEW e
  PROVE  /\ IsList(Append(s, e)) /\ Len(Append(s, e)) = Len(s) + 1
         /\ DOMAIN Append(s, e) = 1..(Len(s) + 1)
         /\ Append(s, e)[Len(s) + 1] = e
         /\ \A k \in 1..Len(s) : Append(s, e)[k] = s[k]
<1> DEFINE V == {s[k] : k \in 1..Len(s)} \cup {e}
<1>1. s \in Seq(V) /\ e \in V
  BY ListSeq DEF IsList
<1> HIDE DEF V
<1>2. Append(s, e) \in Seq(V) /\ Len(Append(s, e)) = Len(s) + 1
  BY <1>1
<1>3. Append(s, e)[Len(s) + 1] = e /\ \A k \in 1..Len(s) : Append(s, e)[k] = s[k]
  BY <1>1
<1>4. IsList(Append(s, e)) /\ DOMAIN Append(s, e) = 1..Len(Append(s, e))
  BY <1>2, ListOf DEF IsList
<1> QED
  BY <1>2, <1>3, <1>4

LEMMA ListEqual ==
  ASSUME NEW s, NEW t, IsList(s), IsList(t), Len(s) = Len(t), \A k \in 1..Len(s) : s[k] = t[k]
  PROVE  s = t
  BY DEF IsList

(***************************************************************************)
(* The tables of methods.                                                  *)
(***************************************************************************)

\* A query names its keys once each.
WellFormed(query) ==
  /\ IsList(query.keys)
  /\ \A i, j \in 1..Len(query.keys) : query.keys[i] = query.keys[j] => i = j

TakesToken(query) == \E i \in 1..Len(query.keys) : query.keys[i] = "page_token"

\* A method that turns pages gathers what they hold, and one whose caller turns them takes a token.
Sound(method) ==
  /\ WellFormed(method.query)
  /\ method.reply.pages \in {"no", "all", "one"}
  /\ method.reply.pages # "no" => method.reply.shape \in {"append", "merge", "first", "actions"}
  /\ method.reply.pages = "one" => TakesToken(method.query)

AllSound(table) == \A m \in DOMAIN table : Sound(table[m])


LEMMA PortfolioHistoryQueryFormed == WellFormed(Trading!portfolio_history_query)
  BY DEF WellFormed, IsList, Trading!portfolio_history_query, Trading!Query

LEMMA ActivityQueryFormed == WellFormed(Trading!activity_query)
  BY DEF WellFormed, IsList, Trading!activity_query, Trading!Query

LEMMA OrderQueryFormed == WellFormed(Trading!order_query)
  BY DEF WellFormed, IsList, Trading!order_query, Trading!Query

LEMMA ClosePositionRequestFormed == WellFormed(Trading!close_position_request)
  BY DEF WellFormed, IsList, Trading!close_position_request, Trading!Query

LEMMA AssetQueryFormed == WellFormed(Trading!asset_query)
  BY DEF WellFormed, IsList, Trading!asset_query, Trading!Query

LEMMA OptionContractQueryFormed == WellFormed(Trading!option_contract_query)
  BY DEF WellFormed, IsList, Trading!option_contract_query, Trading!Query

LEMMA CalendarQueryFormed == WellFormed(Trading!calendar_query)
  BY DEF WellFormed, IsList, Trading!calendar_query, Trading!Query

LEMMA LocateQueryFormed == WellFormed(Trading!locate_query)
  BY DEF WellFormed, IsList, Trading!locate_query, Trading!Query

LEMMA HistoryQueryFormed == WellFormed(Data!history_query)
  BY DEF WellFormed, IsList, Data!history_query, Data!Query

LEMMA BarQueryFormed == WellFormed(Data!bar_query)
  BY DEF WellFormed, IsList, Data!bar_query, Data!With, Data!history_query, Data!Query

LEMMA LatestQueryFormed == WellFormed(Data!latest_query)
  BY DEF WellFormed, IsList, Data!latest_query, Data!Query

LEMMA OfSymbolFormed == WellFormed(Data!OfSymbol)
  BY DEF WellFormed, IsList, Data!OfSymbol

LEMMA CryptoHistoryQueryFormed == WellFormed(Data!crypto_history_query)
  BY DEF WellFormed, IsList, Data!crypto_history_query, Data!Query

LEMMA CryptoBarQueryFormed == WellFormed(Data!crypto_bar_query)
  BY DEF WellFormed, IsList, Data!crypto_bar_query, Data!With, Data!crypto_history_query,
       Data!Query

LEMMA BySymbolsFormed == WellFormed(Data!BySymbols)
  BY DEF WellFormed, IsList, Data!BySymbols, Data!Query

LEMMA OptionHistoryQueryFormed == WellFormed(Data!option_history_query)
  BY DEF WellFormed, IsList, Data!option_history_query, Data!Query

LEMMA OptionBarQueryFormed == WellFormed(Data!option_bar_query)
  BY DEF WellFormed, IsList, Data!option_bar_query, Data!With, Data!option_history_query,
       Data!Query

LEMMA OptionLatestQueryFormed == WellFormed(Data!option_latest_query)
  BY DEF WellFormed, IsList, Data!option_latest_query, Data!Query

LEMMA OptionChainQueryFormed == WellFormed(Data!option_chain_query)
  BY DEF WellFormed, IsList, Data!option_chain_query, Data!Query

LEMMA NewsQueryFormed == WellFormed(Data!news_query)
  BY DEF WellFormed, IsList, Data!news_query, Data!Query

LEMMA CorporateActionQueryFormed == WellFormed(Data!corporate_action_query)
  BY DEF WellFormed, IsList, Data!corporate_action_query, Data!Query

LEMMA ForexQueryFormed == WellFormed(Data!forex_query)
  BY DEF WellFormed, IsList, Data!forex_query, Data!Query


LEMMA TradingAccountSound == AllSound(Trading!Account)
<1>1. ASSUME NEW m \in DOMAIN Trading!Account PROVE m \in {"get_account",
     "get_account_configurations", "update_account_configurations", "get_portfolio_history",
     "get_activities", "get_activities_by_type"}
  BY DEF Trading!Account
<1>2. /\ Trading!Account.get_account.query = Trading!NoQuery
      /\ Trading!Account.get_account.reply = Trading!Model
      /\ Trading!Account.get_account_configurations.query = Trading!NoQuery
      /\ Trading!Account.get_account_configurations.reply = Trading!Model
      /\ Trading!Account.update_account_configurations.query = Trading!NoQuery
      /\ Trading!Account.update_account_configurations.reply = Trading!Model
      /\ Trading!Account.get_portfolio_history.query = Trading!portfolio_history_query
      /\ Trading!Account.get_portfolio_history.reply = Trading!Model
      /\ Trading!Account.get_activities.query = Trading!activity_query
      /\ Trading!Account.get_activities.reply = Trading!Vector
      /\ Trading!Account.get_activities_by_type.query = Trading!activity_query
      /\ Trading!Account.get_activities_by_type.reply = Trading!Vector
  BY DEF Trading!Account, Trading!Get, Trading!Patch, Trading!Endpoint
<1>3. /\ WellFormed(Trading!NoQuery)
      /\ WellFormed(Trading!portfolio_history_query)
      /\ WellFormed(Trading!activity_query)
  <2>1. /\ WellFormed(Trading!NoQuery)
    BY DEF WellFormed, IsList, Trading!NoQuery, Trading!Query
  <2> QED
    BY <2>1, PortfolioHistoryQueryFormed, ActivityQueryFormed
<1>4. /\ Trading!Model.pages = "no"
      /\ Trading!Vector.pages = "no"
  BY DEF Trading!Model, Trading!Reply, Trading!Vector
<1> QED
  BY <1>1, <1>2, <1>3, <1>4 DEF AllSound, Sound

LEMMA TradingOrdersSound == AllSound(Trading!Orders)
<1>1. ASSUME NEW m \in DOMAIN Trading!Orders PROVE m \in {"submit_order", "list_orders",
     "get_order", "get_order_by_client_order_id", "replace_order", "cancel_order",
     "cancel_all_orders"}
  BY DEF Trading!Orders
<1>2. /\ Trading!Orders.submit_order.query = Trading!NoQuery
      /\ Trading!Orders.submit_order.reply = Trading!Model
      /\ Trading!Orders.list_orders.query = Trading!order_query
      /\ Trading!Orders.list_orders.reply = Trading!Vector
      /\ Trading!Orders.get_order.query = Trading!Query(<<"nested">>)
      /\ Trading!Orders.get_order.reply = Trading!Model
      /\ Trading!Orders.get_order_by_client_order_id.query = Trading!Query(<<"client_order_id">>)
      /\ Trading!Orders.get_order_by_client_order_id.reply = Trading!Model
      /\ Trading!Orders.replace_order.query = Trading!NoQuery
      /\ Trading!Orders.replace_order.reply = Trading!Model
      /\ Trading!Orders.cancel_order.query = Trading!NoQuery
      /\ Trading!Orders.cancel_order.reply = Trading!Nothing
      /\ Trading!Orders.cancel_all_orders.query = Trading!NoQuery
      /\ Trading!Orders.cancel_all_orders.reply = Trading!Vector
  BY DEF Trading!Orders, Trading!Post, Trading!Get, Trading!Patch, Trading!Del, Trading!Endpoint
<1>3. /\ WellFormed(Trading!NoQuery)
      /\ WellFormed(Trading!order_query)
      /\ WellFormed(Trading!Query(<<"nested">>))
      /\ WellFormed(Trading!Query(<<"client_order_id">>))
  <2>1. /\ WellFormed(Trading!NoQuery)
        /\ WellFormed(Trading!Query(<<"nested">>))
        /\ WellFormed(Trading!Query(<<"client_order_id">>))
    BY DEF WellFormed, IsList, Trading!NoQuery, Trading!Query
  <2> QED
    BY <2>1, OrderQueryFormed
<1>4. /\ Trading!Model.pages = "no"
      /\ Trading!Vector.pages = "no"
      /\ Trading!Nothing.pages = "no"
  BY DEF Trading!Model, Trading!Reply, Trading!Vector, Trading!Nothing
<1> QED
  BY <1>1, <1>2, <1>3, <1>4 DEF AllSound, Sound

LEMMA TradingPositionsSound == AllSound(Trading!Positions)
<1>1. ASSUME NEW m \in DOMAIN Trading!Positions PROVE m \in {"list_positions", "get_position",
     "close_position", "close_all_positions", "exercise_option_position",
     "do_not_exercise_option_position"}
  BY DEF Trading!Positions
<1>2. /\ Trading!Positions.list_positions.query = Trading!NoQuery
      /\ Trading!Positions.list_positions.reply = Trading!Vector
      /\ Trading!Positions.get_position.query = Trading!NoQuery
      /\ Trading!Positions.get_position.reply = Trading!Model
      /\ Trading!Positions.close_position.query = Trading!close_position_request
      /\ Trading!Positions.close_position.reply = Trading!Model
      /\ Trading!Positions.close_all_positions.query = Trading!With(Trading!NoQuery, "cancel_orders")
      /\ Trading!Positions.close_all_positions.reply = Trading!Vector
      /\ Trading!Positions.exercise_option_position.query = Trading!NoQuery
      /\ Trading!Positions.exercise_option_position.reply = Trading!Nothing
      /\ Trading!Positions.do_not_exercise_option_position.query = Trading!NoQuery
      /\ Trading!Positions.do_not_exercise_option_position.reply = Trading!Nothing
  BY DEF Trading!Positions, Trading!Get, Trading!Del, Trading!Post, Trading!Endpoint
<1>3. /\ WellFormed(Trading!NoQuery)
      /\ WellFormed(Trading!close_position_request)
      /\ WellFormed(Trading!With(Trading!NoQuery, "cancel_orders"))
  <2>1. /\ WellFormed(Trading!NoQuery)
        /\ WellFormed(Trading!With(Trading!NoQuery, "cancel_orders"))
    BY DEF WellFormed, IsList, Trading!NoQuery, Trading!Query, Trading!With
  <2> QED
    BY <2>1, ClosePositionRequestFormed
<1>4. /\ Trading!Vector.pages = "no"
      /\ Trading!Model.pages = "no"
      /\ Trading!Nothing.pages = "no"
  BY DEF Trading!Vector, Trading!Reply, Trading!Model, Trading!Nothing
<1> QED
  BY <1>1, <1>2, <1>3, <1>4 DEF AllSound, Sound

LEMMA TradingAssetsSound == AllSound(Trading!Assets)
<1>1. ASSUME NEW m \in DOMAIN Trading!Assets PROVE m \in {"list_assets", "get_asset",
     "list_option_contracts_page", "list_option_contracts", "get_option_contract"}
  BY DEF Trading!Assets
<1>2. /\ Trading!Assets.list_assets.query = Trading!asset_query
      /\ Trading!Assets.list_assets.reply = Trading!Vector
      /\ Trading!Assets.get_asset.query = Trading!NoQuery
      /\ Trading!Assets.get_asset.reply = Trading!Model
      /\ Trading!Assets.list_option_contracts_page.query = Trading!option_contract_query
      /\ Trading!Assets.list_option_contracts_page.reply = Trading!OnePage(Trading!Elements("option_contracts"))
      /\ Trading!Assets.list_option_contracts.query = Trading!option_contract_query
      /\ Trading!Assets.list_option_contracts.reply = Trading!Paginated(Trading!Elements("option_contracts"))
      /\ Trading!Assets.get_option_contract.query = Trading!NoQuery
      /\ Trading!Assets.get_option_contract.reply = Trading!Model
  BY DEF Trading!Assets, Trading!Get, Trading!Endpoint
<1>3. /\ WellFormed(Trading!asset_query)
      /\ WellFormed(Trading!NoQuery)
      /\ WellFormed(Trading!option_contract_query)
  <2>1. /\ WellFormed(Trading!NoQuery)
    BY DEF WellFormed, IsList, Trading!NoQuery, Trading!Query
  <2> QED
    BY <2>1, AssetQueryFormed, OptionContractQueryFormed
<1>4. /\ Trading!Vector.pages = "no"
      /\ Trading!Model.pages = "no"
      /\ Trading!OnePage(Trading!Elements("option_contracts")).pages = "one"
      /\ Trading!OnePage(Trading!Elements("option_contracts")).shape \in {"append", "merge", "first", "actions"}
      /\ Trading!Paginated(Trading!Elements("option_contracts")).pages = "all"
      /\ Trading!Paginated(Trading!Elements("option_contracts")).shape \in {"append", "merge", "first", "actions"}
  BY DEF Trading!Vector, Trading!Reply, Trading!Model, Trading!OnePage, Trading!Elements,
       Trading!Paginated
<1>5. /\ TakesToken(Trading!option_contract_query)
  BY DEF TakesToken, Trading!option_contract_query, Trading!Query
<1> QED
  BY <1>1, <1>2, <1>3, <1>4, <1>5 DEF AllSound, Sound

LEMMA TradingWatchlistsSound == AllSound(Trading!Watchlists)
<1>1. ASSUME NEW m \in DOMAIN Trading!Watchlists PROVE m \in {"list_watchlists",
     "create_watchlist", "get_watchlist", "get_watchlist_by_name", "update_watchlist",
     "update_watchlist_by_name", "add_asset_to_watchlist", "add_asset_to_watchlist_by_name",
     "remove_asset_from_watchlist", "delete_watchlist", "delete_watchlist_by_name"}
  BY DEF Trading!Watchlists
<1>2. /\ Trading!Watchlists.list_watchlists.query = Trading!NoQuery
      /\ Trading!Watchlists.list_watchlists.reply = Trading!Vector
      /\ Trading!Watchlists.create_watchlist.query = Trading!NoQuery
      /\ Trading!Watchlists.create_watchlist.reply = Trading!Model
      /\ Trading!Watchlists.get_watchlist.query = Trading!NoQuery
      /\ Trading!Watchlists.get_watchlist.reply = Trading!Model
      /\ Trading!Watchlists.get_watchlist_by_name.query = Trading!Query(<<"name">>)
      /\ Trading!Watchlists.get_watchlist_by_name.reply = Trading!Model
      /\ Trading!Watchlists.update_watchlist.query = Trading!NoQuery
      /\ Trading!Watchlists.update_watchlist.reply = Trading!Model
      /\ Trading!Watchlists.update_watchlist_by_name.query = Trading!Query(<<"name">>)
      /\ Trading!Watchlists.update_watchlist_by_name.reply = Trading!Model
      /\ Trading!Watchlists.add_asset_to_watchlist.query = Trading!NoQuery
      /\ Trading!Watchlists.add_asset_to_watchlist.reply = Trading!Model
      /\ Trading!Watchlists.add_asset_to_watchlist_by_name.query = Trading!Query(<<"name">>)
      /\ Trading!Watchlists.add_asset_to_watchlist_by_name.reply = Trading!Model
      /\ Trading!Watchlists.remove_asset_from_watchlist.query = Trading!NoQuery
      /\ Trading!Watchlists.remove_asset_from_watchlist.reply = Trading!Model
      /\ Trading!Watchlists.delete_watchlist.query = Trading!NoQuery
      /\ Trading!Watchlists.delete_watchlist.reply = Trading!Nothing
      /\ Trading!Watchlists.delete_watchlist_by_name.query = Trading!Query(<<"name">>)
      /\ Trading!Watchlists.delete_watchlist_by_name.reply = Trading!Nothing
  BY DEF Trading!Watchlists, Trading!Get, Trading!Post, Trading!Put, Trading!Del, Trading!Endpoint
<1>3. /\ WellFormed(Trading!NoQuery)
      /\ WellFormed(Trading!Query(<<"name">>))
  BY DEF WellFormed, IsList, Trading!NoQuery, Trading!Query
<1>4. /\ Trading!Vector.pages = "no"
      /\ Trading!Model.pages = "no"
      /\ Trading!Nothing.pages = "no"
  BY DEF Trading!Vector, Trading!Reply, Trading!Model, Trading!Nothing
<1> QED
  BY <1>1, <1>2, <1>3, <1>4 DEF AllSound, Sound

LEMMA TradingCalendarSound == AllSound(Trading!Calendar)
<1>1. ASSUME NEW m \in DOMAIN Trading!Calendar PROVE m \in {"get_calendar", "get_clock"}
  BY DEF Trading!Calendar
<1>2. /\ Trading!Calendar.get_calendar.query = Trading!calendar_query
      /\ Trading!Calendar.get_calendar.reply = Trading!Vector
      /\ Trading!Calendar.get_clock.query = Trading!NoQuery
      /\ Trading!Calendar.get_clock.reply = Trading!Model
  BY DEF Trading!Calendar, Trading!Get, Trading!Endpoint
<1>3. /\ WellFormed(Trading!calendar_query)
      /\ WellFormed(Trading!NoQuery)
  <2>1. /\ WellFormed(Trading!NoQuery)
    BY DEF WellFormed, IsList, Trading!NoQuery, Trading!Query
  <2> QED
    BY <2>1, CalendarQueryFormed
<1>4. /\ Trading!Vector.pages = "no"
      /\ Trading!Model.pages = "no"
  BY DEF Trading!Vector, Trading!Reply, Trading!Model
<1> QED
  BY <1>1, <1>2, <1>3, <1>4 DEF AllSound, Sound

LEMMA TradingCryptoFundingSound == AllSound(Trading!CryptoFunding)
<1>1. ASSUME NEW m \in DOMAIN Trading!CryptoFunding PROVE m \in {"list_crypto_wallets",
     "list_crypto_transfers", "get_crypto_transfer", "request_crypto_withdrawal",
     "get_crypto_transfer_estimate", "list_whitelisted_addresses",
     "create_whitelisted_address", "delete_whitelisted_address"}
  BY DEF Trading!CryptoFunding
<1>2. /\ Trading!CryptoFunding.list_crypto_wallets.query = Trading!Query(<<"asset", "chain">>)
      /\ Trading!CryptoFunding.list_crypto_wallets.reply = Trading!Wallets
      /\ Trading!CryptoFunding.list_crypto_transfers.query = Trading!Query(<<"asset">>)
      /\ Trading!CryptoFunding.list_crypto_transfers.reply = Trading!Vector
      /\ Trading!CryptoFunding.get_crypto_transfer.query = Trading!NoQuery
      /\ Trading!CryptoFunding.get_crypto_transfer.reply = Trading!Model
      /\ Trading!CryptoFunding.request_crypto_withdrawal.query = Trading!NoQuery
      /\ Trading!CryptoFunding.request_crypto_withdrawal.reply = Trading!Model
      /\ Trading!CryptoFunding.get_crypto_transfer_estimate.query = Trading!Query(<<"asset", "from_address", "to_address", "amount">>)
      /\ Trading!CryptoFunding.get_crypto_transfer_estimate.reply = Trading!Model
      /\ Trading!CryptoFunding.list_whitelisted_addresses.query = Trading!NoQuery
      /\ Trading!CryptoFunding.list_whitelisted_addresses.reply = Trading!Vector
      /\ Trading!CryptoFunding.create_whitelisted_address.query = Trading!NoQuery
      /\ Trading!CryptoFunding.create_whitelisted_address.reply = Trading!Model
      /\ Trading!CryptoFunding.delete_whitelisted_address.query = Trading!NoQuery
      /\ Trading!CryptoFunding.delete_whitelisted_address.reply = Trading!Nothing
  BY DEF Trading!CryptoFunding, Trading!Get, Trading!Post, Trading!Del, Trading!Endpoint
<1>3. /\ WellFormed(Trading!Query(<<"asset", "chain">>))
      /\ WellFormed(Trading!Query(<<"asset">>))
      /\ WellFormed(Trading!NoQuery)
      /\ WellFormed(Trading!Query(<<"asset", "from_address", "to_address", "amount">>))
  BY DEF WellFormed, IsList, Trading!Query, Trading!NoQuery
<1>4. /\ Trading!Wallets.pages = "no"
      /\ Trading!Vector.pages = "no"
      /\ Trading!Model.pages = "no"
      /\ Trading!Nothing.pages = "no"
  BY DEF Trading!Wallets, Trading!Reply, Trading!Vector, Trading!Model, Trading!Nothing
<1> QED
  BY <1>1, <1>2, <1>3, <1>4 DEF AllSound, Sound

LEMMA TradingLocatesSound == AllSound(Trading!Locates)
<1>1. ASSUME NEW m \in DOMAIN Trading!Locates PROVE m \in {"list_locates_page", "list_locates",
     "create_locate", "get_locate", "get_locate_quotes"}
  BY DEF Trading!Locates
<1>2. /\ Trading!Locates.list_locates_page.query = Trading!locate_query
      /\ Trading!Locates.list_locates_page.reply = Trading!OnePage(Trading!Elements("locates"))
      /\ Trading!Locates.list_locates.query = Trading!locate_query
      /\ Trading!Locates.list_locates.reply = Trading!Paginated(Trading!Elements("locates"))
      /\ Trading!Locates.create_locate.query = Trading!NoQuery
      /\ Trading!Locates.create_locate.reply = Trading!Model
      /\ Trading!Locates.get_locate.query = Trading!NoQuery
      /\ Trading!Locates.get_locate.reply = Trading!Model
      /\ Trading!Locates.get_locate_quotes.query = Trading!Query(<<"symbols">>)
      /\ Trading!Locates.get_locate_quotes.reply = Trading!Optional("quotes")
  BY DEF Trading!Locates, Trading!Get, Trading!Post, Trading!Endpoint
<1>3. /\ WellFormed(Trading!locate_query)
      /\ WellFormed(Trading!NoQuery)
      /\ WellFormed(Trading!Query(<<"symbols">>))
  <2>1. /\ WellFormed(Trading!NoQuery)
        /\ WellFormed(Trading!Query(<<"symbols">>))
    BY DEF WellFormed, IsList, Trading!NoQuery, Trading!Query
  <2> QED
    BY <2>1, LocateQueryFormed
<1>4. /\ Trading!OnePage(Trading!Elements("locates")).pages = "one"
      /\ Trading!OnePage(Trading!Elements("locates")).shape \in {"append", "merge", "first", "actions"}
      /\ Trading!Paginated(Trading!Elements("locates")).pages = "all"
      /\ Trading!Paginated(Trading!Elements("locates")).shape \in {"append", "merge", "first", "actions"}
      /\ Trading!Model.pages = "no"
      /\ Trading!Optional("quotes").pages = "no"
  BY DEF Trading!OnePage, Trading!Elements, Trading!Reply, Trading!Paginated, Trading!Model,
       Trading!Optional
<1>5. /\ TakesToken(Trading!locate_query)
  BY DEF TakesToken, Trading!locate_query, Trading!Query
<1> QED
  BY <1>1, <1>2, <1>3, <1>4, <1>5 DEF AllSound, Sound

LEMMA DataStockHistorySound == AllSound(Data!StockHistory)
<1>1. ASSUME NEW m \in DOMAIN Data!StockHistory PROVE m \in {"get_stock_bars",
     "get_stock_trades", "get_stock_quotes", "get_stock_auctions", "get_stock_bars_page",
     "get_stock_trades_page", "get_stock_quotes_page", "get_stock_auctions_page"}
  BY DEF Data!StockHistory
<1>2. /\ Data!StockHistory.get_stock_bars.query = Data!bar_query
      /\ Data!StockHistory.get_stock_bars.reply = Data!Paginated(Data!Merged("bars"))
      /\ Data!StockHistory.get_stock_trades.query = Data!history_query
      /\ Data!StockHistory.get_stock_trades.reply = Data!Paginated(Data!Merged("trades"))
      /\ Data!StockHistory.get_stock_quotes.query = Data!history_query
      /\ Data!StockHistory.get_stock_quotes.reply = Data!Paginated(Data!Merged("quotes"))
      /\ Data!StockHistory.get_stock_auctions.query = Data!history_query
      /\ Data!StockHistory.get_stock_auctions.reply = Data!Paginated(Data!Merged("auctions"))
      /\ Data!StockHistory.get_stock_bars_page.query = Data!bar_query
      /\ Data!StockHistory.get_stock_bars_page.reply = Data!OnePage(Data!Merged("bars"))
      /\ Data!StockHistory.get_stock_trades_page.query = Data!history_query
      /\ Data!StockHistory.get_stock_trades_page.reply = Data!OnePage(Data!Merged("trades"))
      /\ Data!StockHistory.get_stock_quotes_page.query = Data!history_query
      /\ Data!StockHistory.get_stock_quotes_page.reply = Data!OnePage(Data!Merged("quotes"))
      /\ Data!StockHistory.get_stock_auctions_page.query = Data!history_query
      /\ Data!StockHistory.get_stock_auctions_page.reply = Data!OnePage(Data!Merged("auctions"))
  BY DEF Data!StockHistory, Data!Get, Data!Endpoint
<1>3. /\ WellFormed(Data!bar_query)
      /\ WellFormed(Data!history_query)
  BY BarQueryFormed, HistoryQueryFormed
<1>4. /\ Data!Paginated(Data!Merged("bars")).pages = "all"
      /\ Data!Paginated(Data!Merged("bars")).shape \in {"append", "merge", "first", "actions"}
      /\ Data!Paginated(Data!Merged("trades")).pages = "all"
      /\ Data!Paginated(Data!Merged("trades")).shape \in {"append", "merge", "first", "actions"}
      /\ Data!Paginated(Data!Merged("quotes")).pages = "all"
      /\ Data!Paginated(Data!Merged("quotes")).shape \in {"append", "merge", "first", "actions"}
      /\ Data!Paginated(Data!Merged("auctions")).pages = "all"
      /\ Data!Paginated(Data!Merged("auctions")).shape \in {"append", "merge", "first", "actions"}
      /\ Data!OnePage(Data!Merged("bars")).pages = "one"
      /\ Data!OnePage(Data!Merged("bars")).shape \in {"append", "merge", "first", "actions"}
      /\ Data!OnePage(Data!Merged("trades")).pages = "one"
      /\ Data!OnePage(Data!Merged("trades")).shape \in {"append", "merge", "first", "actions"}
      /\ Data!OnePage(Data!Merged("quotes")).pages = "one"
      /\ Data!OnePage(Data!Merged("quotes")).shape \in {"append", "merge", "first", "actions"}
      /\ Data!OnePage(Data!Merged("auctions")).pages = "one"
      /\ Data!OnePage(Data!Merged("auctions")).shape \in {"append", "merge", "first", "actions"}
  BY DEF Data!Paginated, Data!Merged, Data!Reply, Data!OnePage
<1>5. /\ TakesToken(Data!bar_query)
      /\ TakesToken(Data!history_query)
  BY DEF TakesToken, Data!bar_query, Data!With, Data!history_query, Data!Query
<1> QED
  BY <1>1, <1>2, <1>3, <1>4, <1>5 DEF AllSound, Sound

LEMMA DataStockLatestSound == AllSound(Data!StockLatest)
<1>1. ASSUME NEW m \in DOMAIN Data!StockLatest PROVE m \in {"get_latest_stock_bars",
     "get_latest_stock_trades", "get_latest_stock_quotes", "get_stock_snapshots",
     "get_latest_stock_bar", "get_latest_stock_trade", "get_latest_stock_quote",
     "get_stock_snapshot"}
  BY DEF Data!StockLatest
<1>2. /\ Data!StockLatest.get_latest_stock_bars.query = Data!latest_query
      /\ Data!StockLatest.get_latest_stock_bars.reply = Data!Map("bars")
      /\ Data!StockLatest.get_latest_stock_trades.query = Data!latest_query
      /\ Data!StockLatest.get_latest_stock_trades.reply = Data!Map("trades")
      /\ Data!StockLatest.get_latest_stock_quotes.query = Data!latest_query
      /\ Data!StockLatest.get_latest_stock_quotes.reply = Data!Map("quotes")
      /\ Data!StockLatest.get_stock_snapshots.query = Data!latest_query
      /\ Data!StockLatest.get_stock_snapshots.reply = Data!Bare
      /\ Data!StockLatest.get_latest_stock_bar.query = Data!OfSymbol
      /\ Data!StockLatest.get_latest_stock_bar.reply = Data!One("bars")
      /\ Data!StockLatest.get_latest_stock_trade.query = Data!OfSymbol
      /\ Data!StockLatest.get_latest_stock_trade.reply = Data!One("trades")
      /\ Data!StockLatest.get_latest_stock_quote.query = Data!OfSymbol
      /\ Data!StockLatest.get_latest_stock_quote.reply = Data!One("quotes")
      /\ Data!StockLatest.get_stock_snapshot.query = Data!OfSymbol
      /\ Data!StockLatest.get_stock_snapshot.reply = Data!One("none")
  BY DEF Data!StockLatest, Data!Get, Data!Endpoint
<1>3. /\ WellFormed(Data!latest_query)
      /\ WellFormed(Data!OfSymbol)
  BY LatestQueryFormed, OfSymbolFormed
<1>4. /\ Data!Map("bars").pages = "no"
      /\ Data!Map("trades").pages = "no"
      /\ Data!Map("quotes").pages = "no"
      /\ Data!Bare.pages = "no"
      /\ Data!One("bars").pages = "no"
      /\ Data!One("trades").pages = "no"
      /\ Data!One("quotes").pages = "no"
      /\ Data!One("none").pages = "no"
  BY DEF Data!Map, Data!Reply, Data!Bare, Data!One
<1> QED
  BY <1>1, <1>2, <1>3, <1>4 DEF AllSound, Sound

LEMMA DataStockReferenceSound == AllSound(Data!StockReference)
<1>1. ASSUME NEW m \in DOMAIN Data!StockReference PROVE m \in {"get_stock_condition_codes",
     "get_stock_exchange_codes"}
  BY DEF Data!StockReference
<1>2. /\ Data!StockReference.get_stock_condition_codes.query = Data!Query(<<"tape">>)
      /\ Data!StockReference.get_stock_condition_codes.reply = Data!Codes
      /\ Data!StockReference.get_stock_exchange_codes.query = Data!NoQuery
      /\ Data!StockReference.get_stock_exchange_codes.reply = Data!Codes
  BY DEF Data!StockReference, Data!Get, Data!Endpoint
<1>3. /\ WellFormed(Data!Query(<<"tape">>))
      /\ WellFormed(Data!NoQuery)
  BY DEF WellFormed, IsList, Data!Query, Data!NoQuery
<1>4. /\ Data!Codes.pages = "no"
  BY DEF Data!Codes, Data!Reply
<1> QED
  BY <1>1, <1>2, <1>3, <1>4 DEF AllSound, Sound

LEMMA DataCryptoSound == AllSound(Data!Crypto)
<1>1. ASSUME NEW m \in DOMAIN Data!Crypto PROVE m \in {"get_crypto_bars", "get_crypto_trades",
     "get_crypto_quotes", "get_latest_crypto_bars", "get_latest_crypto_trades",
     "get_latest_crypto_quotes", "get_latest_crypto_orderbooks", "get_crypto_snapshots"}
  BY DEF Data!Crypto
<1>2. /\ Data!Crypto.get_crypto_bars.query = Data!crypto_bar_query
      /\ Data!Crypto.get_crypto_bars.reply = Data!Paginated(Data!Merged("bars"))
      /\ Data!Crypto.get_crypto_trades.query = Data!crypto_history_query
      /\ Data!Crypto.get_crypto_trades.reply = Data!Paginated(Data!Merged("trades"))
      /\ Data!Crypto.get_crypto_quotes.query = Data!crypto_history_query
      /\ Data!Crypto.get_crypto_quotes.reply = Data!Paginated(Data!Merged("quotes"))
      /\ Data!Crypto.get_latest_crypto_bars.query = Data!BySymbols
      /\ Data!Crypto.get_latest_crypto_bars.reply = Data!Map("bars")
      /\ Data!Crypto.get_latest_crypto_trades.query = Data!BySymbols
      /\ Data!Crypto.get_latest_crypto_trades.reply = Data!Map("trades")
      /\ Data!Crypto.get_latest_crypto_quotes.query = Data!BySymbols
      /\ Data!Crypto.get_latest_crypto_quotes.reply = Data!Map("quotes")
      /\ Data!Crypto.get_latest_crypto_orderbooks.query = Data!BySymbols
      /\ Data!Crypto.get_latest_crypto_orderbooks.reply = Data!Map("orderbooks")
      /\ Data!Crypto.get_crypto_snapshots.query = Data!BySymbols
      /\ Data!Crypto.get_crypto_snapshots.reply = Data!Map("snapshots")
  BY DEF Data!Crypto, Data!Get, Data!Endpoint
<1>3. /\ WellFormed(Data!crypto_bar_query)
      /\ WellFormed(Data!crypto_history_query)
      /\ WellFormed(Data!BySymbols)
  BY CryptoBarQueryFormed, CryptoHistoryQueryFormed, BySymbolsFormed
<1>4. /\ Data!Paginated(Data!Merged("bars")).pages = "all"
      /\ Data!Paginated(Data!Merged("bars")).shape \in {"append", "merge", "first", "actions"}
      /\ Data!Paginated(Data!Merged("trades")).pages = "all"
      /\ Data!Paginated(Data!Merged("trades")).shape \in {"append", "merge", "first", "actions"}
      /\ Data!Paginated(Data!Merged("quotes")).pages = "all"
      /\ Data!Paginated(Data!Merged("quotes")).shape \in {"append", "merge", "first", "actions"}
      /\ Data!Map("bars").pages = "no"
      /\ Data!Map("trades").pages = "no"
      /\ Data!Map("quotes").pages = "no"
      /\ Data!Map("orderbooks").pages = "no"
      /\ Data!Map("snapshots").pages = "no"
  BY DEF Data!Paginated, Data!Merged, Data!Reply, Data!Map
<1> QED
  BY <1>1, <1>2, <1>3, <1>4 DEF AllSound, Sound

LEMMA DataOptionsSound == AllSound(Data!Options)
<1>1. ASSUME NEW m \in DOMAIN Data!Options PROVE m \in {"get_option_bars", "get_option_trades",
     "get_latest_option_trades", "get_latest_option_quotes", "get_option_snapshots",
     "get_option_chain", "get_option_chain_page", "get_option_condition_codes",
     "get_option_exchange_codes"}
  BY DEF Data!Options
<1>2. /\ Data!Options.get_option_bars.query = Data!option_bar_query
      /\ Data!Options.get_option_bars.reply = Data!Paginated(Data!Merged("bars"))
      /\ Data!Options.get_option_trades.query = Data!option_history_query
      /\ Data!Options.get_option_trades.reply = Data!Paginated(Data!Merged("trades"))
      /\ Data!Options.get_latest_option_trades.query = Data!option_latest_query
      /\ Data!Options.get_latest_option_trades.reply = Data!Map("trades")
      /\ Data!Options.get_latest_option_quotes.query = Data!option_latest_query
      /\ Data!Options.get_latest_option_quotes.reply = Data!Map("quotes")
      /\ Data!Options.get_option_snapshots.query = Data!option_latest_query
      /\ Data!Options.get_option_snapshots.reply = Data!Map("snapshots")
      /\ Data!Options.get_option_chain.query = Data!option_chain_query
      /\ Data!Options.get_option_chain.reply = Data!Paginated(Data!Chain)
      /\ Data!Options.get_option_chain_page.query = Data!option_chain_query
      /\ Data!Options.get_option_chain_page.reply = Data!OnePage(Data!Chain)
      /\ Data!Options.get_option_condition_codes.query = Data!NoQuery
      /\ Data!Options.get_option_condition_codes.reply = Data!Codes
      /\ Data!Options.get_option_exchange_codes.query = Data!NoQuery
      /\ Data!Options.get_option_exchange_codes.reply = Data!Codes
  BY DEF Data!Options, Data!Get, Data!Endpoint
<1>3. /\ WellFormed(Data!option_bar_query)
      /\ WellFormed(Data!option_history_query)
      /\ WellFormed(Data!option_latest_query)
      /\ WellFormed(Data!option_chain_query)
      /\ WellFormed(Data!NoQuery)
  <2>1. /\ WellFormed(Data!NoQuery)
    BY DEF WellFormed, IsList, Data!NoQuery, Data!Query
  <2> QED
    BY <2>1, OptionBarQueryFormed, OptionHistoryQueryFormed, OptionLatestQueryFormed,
         OptionChainQueryFormed
<1>4. /\ Data!Paginated(Data!Merged("bars")).pages = "all"
      /\ Data!Paginated(Data!Merged("bars")).shape \in {"append", "merge", "first", "actions"}
      /\ Data!Paginated(Data!Merged("trades")).pages = "all"
      /\ Data!Paginated(Data!Merged("trades")).shape \in {"append", "merge", "first", "actions"}
      /\ Data!Map("trades").pages = "no"
      /\ Data!Map("quotes").pages = "no"
      /\ Data!Map("snapshots").pages = "no"
      /\ Data!Paginated(Data!Chain).pages = "all"
      /\ Data!Paginated(Data!Chain).shape \in {"append", "merge", "first", "actions"}
      /\ Data!OnePage(Data!Chain).pages = "one"
      /\ Data!OnePage(Data!Chain).shape \in {"append", "merge", "first", "actions"}
      /\ Data!Codes.pages = "no"
  BY DEF Data!Paginated, Data!Merged, Data!Reply, Data!Map, Data!Chain, Data!OnePage, Data!Codes
<1>5. /\ TakesToken(Data!option_chain_query)
  BY DEF TakesToken, Data!option_chain_query, Data!Query
<1> QED
  BY <1>1, <1>2, <1>3, <1>4, <1>5 DEF AllSound, Sound

LEMMA DataNewsSound == AllSound(Data!News)
<1>1. ASSUME NEW m \in DOMAIN Data!News PROVE m \in {"get_news", "get_news_page"}
  BY DEF Data!News
<1>2. /\ Data!News.get_news.query = Data!news_query
      /\ Data!News.get_news.reply = Data!Paginated(Data!Elements("news"))
      /\ Data!News.get_news_page.query = Data!news_query
      /\ Data!News.get_news_page.reply = Data!OnePage(Data!Elements("news"))
  BY DEF Data!News, Data!Get, Data!Endpoint
<1>3. /\ WellFormed(Data!news_query)
  BY NewsQueryFormed
<1>4. /\ Data!Paginated(Data!Elements("news")).pages = "all"
      /\ Data!Paginated(Data!Elements("news")).shape \in {"append", "merge", "first", "actions"}
      /\ Data!OnePage(Data!Elements("news")).pages = "one"
      /\ Data!OnePage(Data!Elements("news")).shape \in {"append", "merge", "first", "actions"}
  BY DEF Data!Paginated, Data!Elements, Data!Reply, Data!OnePage
<1>5. /\ TakesToken(Data!news_query)
  BY DEF TakesToken, Data!news_query, Data!Query
<1> QED
  BY <1>1, <1>2, <1>3, <1>4, <1>5 DEF AllSound, Sound

LEMMA DataScreenerSound == AllSound(Data!Screener)
<1>1. ASSUME NEW m \in DOMAIN Data!Screener PROVE m \in {"get_most_actives", "get_movers"}
  BY DEF Data!Screener
<1>2. /\ Data!Screener.get_most_actives.query = Data!Query(<<"by", "top">>)
      /\ Data!Screener.get_most_actives.reply = Data!Model
      /\ Data!Screener.get_movers.query = Data!Query(<<"top">>)
      /\ Data!Screener.get_movers.reply = Data!Model
  BY DEF Data!Screener, Data!Get, Data!Endpoint
<1>3. /\ WellFormed(Data!Query(<<"by", "top">>))
      /\ WellFormed(Data!Query(<<"top">>))
  BY DEF WellFormed, IsList, Data!Query
<1>4. /\ Data!Model.pages = "no"
  BY DEF Data!Model, Data!Reply
<1> QED
  BY <1>1, <1>2, <1>3, <1>4 DEF AllSound, Sound

LEMMA DataReferenceSound == AllSound(Data!Reference)
<1>1. ASSUME NEW m \in DOMAIN Data!Reference PROVE m \in {"get_corporate_actions",
     "get_corporate_actions_page", "get_forex_rates", "get_latest_forex_rates",
     "get_latest_fixed_income_prices", "get_latest_fixed_income_quotes", "get_logo"}
  BY DEF Data!Reference
<1>2. /\ Data!Reference.get_corporate_actions.query = Data!corporate_action_query
      /\ Data!Reference.get_corporate_actions.reply = Data!Paginated(Data!Actions)
      /\ Data!Reference.get_corporate_actions_page.query = Data!corporate_action_query
      /\ Data!Reference.get_corporate_actions_page.reply = Data!OnePage(Data!Actions)
      /\ Data!Reference.get_forex_rates.query = Data!forex_query
      /\ Data!Reference.get_forex_rates.reply = Data!Paginated(Data!Merged("rates"))
      /\ Data!Reference.get_latest_forex_rates.query = Data!Query(<<"currency_pairs">>)
      /\ Data!Reference.get_latest_forex_rates.reply = Data!Map("rates")
      /\ Data!Reference.get_latest_fixed_income_prices.query = Data!Query(<<"isins">>)
      /\ Data!Reference.get_latest_fixed_income_prices.reply = Data!Map("prices")
      /\ Data!Reference.get_latest_fixed_income_quotes.query = Data!Query(<<"isins", "trade_size">>)
      /\ Data!Reference.get_latest_fixed_income_quotes.reply = Data!Map("quotes")
      /\ Data!Reference.get_logo.query = Data!Query(<<"placeholder">>)
      /\ Data!Reference.get_logo.reply = Data!Bytes
  BY DEF Data!Reference, Data!Get, Data!Endpoint
<1>3. /\ WellFormed(Data!corporate_action_query)
      /\ WellFormed(Data!forex_query)
      /\ WellFormed(Data!Query(<<"currency_pairs">>))
      /\ WellFormed(Data!Query(<<"isins">>))
      /\ WellFormed(Data!Query(<<"isins", "trade_size">>))
      /\ WellFormed(Data!Query(<<"placeholder">>))
  <2>1. /\ WellFormed(Data!Query(<<"currency_pairs">>))
        /\ WellFormed(Data!Query(<<"isins">>))
        /\ WellFormed(Data!Query(<<"isins", "trade_size">>))
        /\ WellFormed(Data!Query(<<"placeholder">>))
    BY DEF WellFormed, IsList, Data!Query
  <2> QED
    BY <2>1, CorporateActionQueryFormed, ForexQueryFormed
<1>4. /\ Data!Paginated(Data!Actions).pages = "all"
      /\ Data!Paginated(Data!Actions).shape \in {"append", "merge", "first", "actions"}
      /\ Data!OnePage(Data!Actions).pages = "one"
      /\ Data!OnePage(Data!Actions).shape \in {"append", "merge", "first", "actions"}
      /\ Data!Paginated(Data!Merged("rates")).pages = "all"
      /\ Data!Paginated(Data!Merged("rates")).shape \in {"append", "merge", "first", "actions"}
      /\ Data!Map("rates").pages = "no"
      /\ Data!Map("prices").pages = "no"
      /\ Data!Map("quotes").pages = "no"
      /\ Data!Bytes.pages = "no"
  BY DEF Data!Paginated, Data!Actions, Data!Reply, Data!OnePage, Data!Merged, Data!Map,
       Data!Bytes
<1>5. /\ TakesToken(Data!corporate_action_query)
  BY DEF TakesToken, Data!corporate_action_query, Data!Query
<1> QED
  BY <1>1, <1>2, <1>3, <1>4, <1>5 DEF AllSound, Sound

(***************************************************************************)
(* Every method is written twice, and twice the same.                      *)
(***************************************************************************)

LEMMA TradingTwins == Trading!trading_client = TradingAwaitable!trading_client_awaitable
<1>1. /\ Trading!Account = TradingAwaitable!Account
      /\ Trading!Orders = TradingAwaitable!Orders
      /\ Trading!Positions = TradingAwaitable!Positions
      /\ Trading!Assets = TradingAwaitable!Assets
      /\ Trading!Watchlists = TradingAwaitable!Watchlists
      /\ Trading!Calendar = TradingAwaitable!Calendar
      /\ Trading!CryptoFunding = TradingAwaitable!CryptoFunding
      /\ Trading!Locates = TradingAwaitable!Locates
  BY DEF Trading!Account, TradingAwaitable!Account, Trading!Orders, TradingAwaitable!Orders,
         Trading!Positions, TradingAwaitable!Positions, Trading!Assets, TradingAwaitable!Assets,
         Trading!Watchlists, TradingAwaitable!Watchlists, Trading!Calendar,
         TradingAwaitable!Calendar, Trading!CryptoFunding, TradingAwaitable!CryptoFunding,
         Trading!Locates, TradingAwaitable!Locates, Trading!NoQuery, TradingAwaitable!NoQuery,
         Trading!Query, TradingAwaitable!Query, Trading!Model, TradingAwaitable!Model,
         Trading!Reply, TradingAwaitable!Reply, Trading!Vector, TradingAwaitable!Vector,
         Trading!Get, TradingAwaitable!Get, Trading!Endpoint, TradingAwaitable!Endpoint,
         Trading!Patch, TradingAwaitable!Patch, Trading!portfolio_history_query,
         TradingAwaitable!portfolio_history_query, Trading!activity_query,
         TradingAwaitable!activity_query, Trading!Nothing, TradingAwaitable!Nothing, Trading!Del,
         TradingAwaitable!Del, Trading!Post, TradingAwaitable!Post, Trading!order_query,
         TradingAwaitable!order_query, Trading!With, TradingAwaitable!With,
         Trading!close_position_request, TradingAwaitable!close_position_request,
         Trading!Paginated, TradingAwaitable!Paginated, Trading!OnePage,
         TradingAwaitable!OnePage, Trading!Elements, TradingAwaitable!Elements,
         Trading!asset_query, TradingAwaitable!asset_query, Trading!option_contract_query,
         TradingAwaitable!option_contract_query, Trading!Put, TradingAwaitable!Put,
         Trading!calendar_query, TradingAwaitable!calendar_query, Trading!Wallets,
         TradingAwaitable!Wallets, Trading!Optional, TradingAwaitable!Optional,
         Trading!locate_query, TradingAwaitable!locate_query
<1>2. ASSUME NEW f, NEW g PROVE Trading!++(f, g) = TradingAwaitable!++(f, g)
  BY DEF Trading!++, TradingAwaitable!++
<1> QED
  BY <1>1, <1>2 DEF Trading!trading_client, TradingAwaitable!trading_client_awaitable

LEMMA DataTwins == Data!data_client = DataAwaitable!data_client_awaitable
<1>1. /\ Data!StockHistory = DataAwaitable!StockHistory
      /\ Data!StockLatest = DataAwaitable!StockLatest
      /\ Data!StockReference = DataAwaitable!StockReference
      /\ Data!Crypto = DataAwaitable!Crypto
      /\ Data!Options = DataAwaitable!Options
      /\ Data!News = DataAwaitable!News
      /\ Data!Screener = DataAwaitable!Screener
      /\ Data!Reference = DataAwaitable!Reference
  BY DEF Data!StockHistory, DataAwaitable!StockHistory, Data!StockLatest,
         DataAwaitable!StockLatest, Data!StockReference, DataAwaitable!StockReference,
         Data!Crypto, DataAwaitable!Crypto, Data!Options, DataAwaitable!Options, Data!News,
         DataAwaitable!News, Data!Screener, DataAwaitable!Screener, Data!Reference,
         DataAwaitable!Reference, Data!Paginated, DataAwaitable!Paginated, Data!OnePage,
         DataAwaitable!OnePage, Data!Merged, DataAwaitable!Merged, Data!Reply,
         DataAwaitable!Reply, Data!Get, DataAwaitable!Get, Data!Endpoint, DataAwaitable!Endpoint,
         Data!history_query, DataAwaitable!history_query, Data!Query, DataAwaitable!Query,
         Data!bar_query, DataAwaitable!bar_query, Data!With, DataAwaitable!With, Data!Bare,
         DataAwaitable!Bare, Data!Codes, DataAwaitable!Codes, Data!Map, DataAwaitable!Map, Data!One, DataAwaitable!One,
         Data!latest_query, DataAwaitable!latest_query, Data!OfSymbol, DataAwaitable!OfSymbol,
         Data!NoQuery, DataAwaitable!NoQuery, Data!crypto_history_query,
         DataAwaitable!crypto_history_query, Data!crypto_bar_query,
         DataAwaitable!crypto_bar_query, Data!BySymbols, DataAwaitable!BySymbols, Data!Chain,
         DataAwaitable!Chain, Data!option_history_query, DataAwaitable!option_history_query,
         Data!option_bar_query, DataAwaitable!option_bar_query, Data!option_latest_query,
         DataAwaitable!option_latest_query, Data!option_chain_query,
         DataAwaitable!option_chain_query, Data!Elements, DataAwaitable!Elements,
         Data!news_query, DataAwaitable!news_query, Data!Model, DataAwaitable!Model, Data!Bytes,
         DataAwaitable!Bytes, Data!Actions, DataAwaitable!Actions, Data!corporate_action_query,
         DataAwaitable!corporate_action_query, Data!forex_query, DataAwaitable!forex_query
<1>2. ASSUME NEW f, NEW g PROVE Data!++(f, g) = DataAwaitable!++(f, g)
  BY DEF Data!++, DataAwaitable!++
<1> QED
  BY <1>1, <1>2 DEF Data!data_client, DataAwaitable!data_client_awaitable

LEMMA TwinTables == blocking = awaitable
  BY TradingTwins, DataTwins DEF blocking, awaitable

(***************************************************************************)
(* Tables put together.                                                    *)
(***************************************************************************)

LEMMA JoinedIn ==
  ASSUME NEW f, NEW g
  PROVE  Trading!++(f, g) = f ++ g /\ Data!++(f, g) = f ++ g
  BY DEF ++, Trading!++, Data!++

LEMMA Joined ==
  ASSUME NEW f, NEW g
  PROVE  /\ DOMAIN (f ++ g) = DOMAIN f \cup DOMAIN g
         /\ \A m \in DOMAIN f : (f ++ g)[m] = f[m]
         /\ \A m \in DOMAIN g : m \notin DOMAIN f => (f ++ g)[m] = g[m]
  BY DEF ++

LEMMA JoinedSound ==
  ASSUME NEW f, NEW g, AllSound(f), AllSound(g)
  PROVE  AllSound(f ++ g)
  BY DEF AllSound, ++

LEMMA MethodsSound == AllSound(blocking)
<1>1. AllSound(Trading!trading_client)
  BY JoinedIn, JoinedSound, TradingAccountSound, TradingOrdersSound, TradingPositionsSound,
     TradingAssetsSound, TradingWatchlistsSound, TradingCalendarSound, TradingCryptoFundingSound,
     TradingLocatesSound DEF Trading!trading_client
<1>2. AllSound(Data!data_client)
  BY JoinedIn, JoinedSound, DataStockHistorySound, DataStockLatestSound, DataStockReferenceSound,
     DataCryptoSound, DataOptionsSound, DataNewsSound, DataScreenerSound, DataReferenceSound
     DEF Data!data_client
<1> QED
  BY <1>1, <1>2, JoinedSound DEF blocking

\* submit_order posts its order and returns the one answer.
OrderTable(f) ==
  "submit_order" \in DOMAIN f /\ f["submit_order"] = Trading!Orders["submit_order"]

LEMMA OrderJoined ==
  ASSUME NEW f, NEW g, OrderTable(f)
  PROVE  OrderTable(f ++ g)
  BY DEF OrderTable, ++

LEMMA SubmitOrder ==
  LET method == blocking["submit_order"]
  IN  method.verb = "post" /\ method.body = "order_request" /\ method.reply.pages = "no"
<1>1. "submit_order" \in DOMAIN Trading!Orders /\ "submit_order" \notin DOMAIN Trading!Account
  BY DEF Trading!Orders, Trading!Account
<1>2. OrderTable(Trading!Account ++ Trading!Orders)
  BY <1>1 DEF OrderTable, ++
<1>3. OrderTable(Trading!trading_client)
  BY <1>2, JoinedIn, OrderJoined DEF Trading!trading_client
<1>4. blocking["submit_order"] = Trading!Orders["submit_order"]
  BY <1>3, OrderJoined DEF blocking, OrderTable
<1> QED
  BY <1>4 DEF Trading!Orders, Trading!Post, Trading!Endpoint, Trading!Model, Trading!Reply

(***************************************************************************)
(* The course of a call: the places it passes, one for each answer.  Both  *)
(* clients pass the same ones, for the places depend on nothing else.      *)
(***************************************************************************)

MethodOf(c) == blocking[c.method]

PayloadOf(c) ==
  IF MethodOf(c).body = "order_request" THEN to_json(c.order)
  ELSE [keys |-> {MethodOf(c).body}, type |-> "", class |-> ""]

Asked(c, query) ==
  [verb |-> MethodOf(c).verb, host |-> host(c.method, c.env), path |-> MethodOf(c).path,
   params |-> query, body |-> PayloadOf(c),
   keys |-> trading_headers(resolve(c.argument, c.env, c.vars))]

Place(query, pages, tries, gathered, end, times) ==
  [params |-> query, page |-> pages, attempt |-> tries, result |-> gathered, outcome |-> end,
   placed |-> times]

Start(c) == Place(build(MethodOf(c).query, c.given), 0, 1, Nothing, Pending, 0)

\* What an answer does to the place it finds the call at.
Carried(c, p, a) == IF MethodOf(c).verb = "post" /\ a.done THEN p.placed + 1 ELSE p.placed

Gathered(c, p, a) == Absorb(MethodOf(c).reply, p.result, Taken(MethodOf(c).reply, a.body, p.page + 1))

Turned(c, p) ==
  CASE MethodOf(c).reply.pages = "all" -> set(p.params, "page_token", Tokens[p.page + 1])
    [] MethodOf(c).reply.pages = "one" ->
         build(MethodOf(c).query, [page_token |-> Tokens[p.page + 1]] ++ c.given)

Retried(p, a) == a.status \in {"429", "5xx"} /\ p.attempt < MaxAttempts

Whole(c, a) == a.status = "2xx" /\ (MethodOf(c).reply.shape = "raw" \/ a.body.kind # "garbage")

Final(c, a) == MethodOf(c).reply.pages = "no" \/ ~HasToken(a.body)

Stringless(c, a) ==
  IF Final(c, a) THEN Misfits(MethodOf(c).reply, a.body) ELSE a.body.token = "number"

Again(c, p, a) == Place(p.params, p.page, p.attempt + 1, p.result, Pending, Carried(c, p, a))

Stopped(c, p, a, end) == Place(p.params, p.page, p.attempt, p.result, end, Carried(c, p, a))

Gained(c, p, a, end) ==
  Place(p.params, p.page + 1, p.attempt, Gathered(c, p, a), end, Carried(c, p, a))

Onward(c, p, a) == Place(Turned(c, p), p.page + 1, 1, Gathered(c, p, a), Pending, Carried(c, p, a))

Advances(c, p, a, q) ==
  \/ Retried(p, a) /\ q = Again(c, p, a)
  \/ a.status # "2xx" /\ ~Retried(p, a)
     /\ q = Stopped(c, p, a, Outcome("api_error", <<a.status, message(a)>>))
  \/ a.status = "2xx" /\ ~Whole(c, a) /\ q = Stopped(c, p, a, Outcome("parse_error", <<>>))
  \/ Whole(c, a) /\ Final(c, a) /\ ~Stringless(c, a) /\ q = Gained(c, p, a, Outcome("returned", <<>>))
  \/ Whole(c, a) /\ Stringless(c, a)
     /\ q = Gained(c, p, a, Outcome("type_error", <<>>))
  \/ Whole(c, a) /\ ~Final(c, a) /\ a.body.token = "next" /\ q = Onward(c, p, a)

\* What a server answers a call with at a place.
Answerable(c, p, a) ==
  /\ a.status = "2xx" =>
       /\ ~(HasToken(a.body) /\ a.body.token = "next" /\ p.page >= Len(Tokens))
       /\ \E body \in Bodies(c) : a = Success(body)
  /\ a.done /\ p.placed > 0 => "client_order_id" \notin PayloadOf(c).keys

\* An exchange that takes a call from one place to the next.
Goes(c, p, a, q) == p.outcome = Pending /\ Answerable(c, p, a) /\ Advances(c, p, a, q)

\* The places H that the answers s lead a call c through.
Course(c, s, H) ==
  /\ IsList(s)
  /\ H[0] = Start(c)
  /\ \A k \in 1..Len(s) : Goes(c, H[k - 1], s[k], H[k])

\* G goes one place further than H does after s.
Extends(G, H, s, q) == (\A k \in 0..Len(s) : G[k] = H[k]) /\ G[Len(s) + 1] = q

LEMMA AdvancesOnce ==
  ASSUME NEW c, NEW p, NEW a, NEW q, NEW r, Advances(c, p, a, q), Advances(c, p, a, r)
  PROVE  q = r
<1>1. Retried(p, a) => a.status # "2xx"
  BY DEF Retried
<1>2. Whole(c, a) => a.status = "2xx"
  BY DEF Whole
<1>3. ~Final(c, a) /\ Stringless(c, a) => a.body.token # "next"
  BY DEF Stringless
<1> QED
  BY <1>1, <1>2, <1>3 DEF Advances

LEMMA CourseExtends ==
  ASSUME NEW c, NEW s, NEW H, Course(c, s, H), NEW a, NEW q, Goes(c, H[Len(s)], a, q)
  PROVE  \E G : Course(c, Append(s, a), G) /\ Extends(G, H, s, q)
<1> DEFINE n == Len(s)
           t == Append(s, a)
           G == [k \in 0..(n + 1) |-> IF k = n + 1 THEN q ELSE H[k]]
<1>1. n \in Nat /\ IsList(s)
  BY DEF Course, IsList
<1>2. IsList(t) /\ Len(t) = n + 1 /\ t[n + 1] = a /\ \A k \in 1..n : t[k] = s[k]
  BY <1>1, ListAppend
<1> HIDE DEF t, n
<1>3. G[n + 1] = q /\ \A k \in 0..n : G[k] = H[k]
  BY <1>1
<1>4. G[0] = H[0]
  BY <1>1, <1>3
<1> HIDE DEF G
<1>5. ASSUME NEW k \in 1..(n + 1)
      PROVE  Goes(c, G[k - 1], t[k], G[k])
  <2>1. CASE k = n + 1
    <3>1. G[k - 1] = H[n] /\ G[k] = q /\ t[k] = a
      BY <1>1, <1>2, <1>3, <2>1
    <3> QED
      BY <3>1 DEF n
  <2>2. CASE k # n + 1
    <3>1. k \in 1..n /\ k - 1 \in 0..n /\ k \in 0..n
      BY <1>1, <2>2
    <3>2. G[k - 1] = H[k - 1] /\ G[k] = H[k] /\ t[k] = s[k]
      BY <1>2, <1>3, <3>1
    <3> QED
      BY <3>1, <3>2 DEF Course, n
  <2> QED
    BY <2>1, <2>2
<1>6. Course(c, t, G)
  BY <1>2, <1>4, <1>5 DEF Course
<1> QED
  BY <1>3, <1>6 DEF n, t, Extends

(***************************************************************************)
(* The inductive invariant: the answers given so far lead the call through *)
(* a course, and each client stands on it where its requests have brought  *)
(* it.                                                                     *)
(***************************************************************************)

Here == Place(params, page, attempt, result[twin], outcome[twin], placed[twin])

Follows(t, H) ==
  LET n == Len(sent[t])
  IN  /\ IsList(sent[t]) /\ n <= Len(answers)
      /\ \A k \in 1..n : sent[t][k] = Asked(call, H[k - 1].params)
      /\ result[t] = H[n].result /\ outcome[t] = H[n].outcome /\ placed[t] = H[n].placed

Domains ==
  /\ call \in Sessions
  /\ twin \in Twins
  /\ DOMAIN sent = Twins /\ DOMAIN result = Twins
  /\ DOMAIN outcome = Twins /\ DOMAIN placed = Twins

OnCourse(H) ==
  /\ Course(call, answers, H)
  /\ \A t \in Twins : Follows(t, H)
  /\ H[Len(sent[twin])] = Here

BlockingFirst ==
  /\ Len(sent["blocking"]) = Len(answers)
  /\ twin = "blocking" => sent["awaitable"] = <<>>
  /\ twin = "awaitable" => outcome["blocking"] # Pending

IInv == Domains /\ BlockingFirst /\ \E H : OnCourse(H)

\* A request and what is made of its answer.
Attempt(a) ==
  /\ Retry(a) \/ GiveUp(a) \/ Unparsable(a) \/ Return(a) \/ RefuseString(a) \/ NextPage(a)
  /\ a.status = "2xx" => \E body \in Bodies(call) : a = Success(body)

LEMMA NextCases ==
  ASSUME Next
  PROVE  (\E a : Attempt(a)) \/ Mirror \/ UNCHANGED vars
<1>1. ASSUME NEW a \in Faults(call), Retry(a) \/ GiveUp(a) PROVE Attempt(a)
  BY <1>1 DEF Attempt, Retry, MayRetry, GiveUp
<1>2. ASSUME NEW body \in Bodies(call),
             LET a == Success(body) IN Unparsable(a) \/ Return(a) \/ RefuseString(a) \/ NextPage(a)
      PROVE  Attempt(Success(body))
  BY <1>2 DEF Attempt
<1>3. CASE Fails
  BY <1>1, <1>3 DEF Fails
<1>4. CASE Succeeds
  BY <1>2, <1>4 DEF Succeeds
<1> QED
  BY <1>3, <1>4 DEF Next, Over

LEMMA Methods ==
  ASSUME call \in Sessions, NEW t \in Twins
  PROVE  Method(t) = MethodOf(call)
  BY TwinTables DEF Method, MethodOf

LEMMA Requests ==
  ASSUME Domains
  PROVE  Request = Asked(call, params)
<1>1. Method(twin) = MethodOf(call)
  BY Methods DEF Domains
<1>2. Payload(MethodOf(call)) = PayloadOf(call)
  BY DEF Payload, PayloadOf
<1> QED
  BY <1>1, <1>2 DEF Request, Asked

\* Every attempt takes the client that makes it one place further, and the other nowhere.
LEMMA AttemptAdvances ==
  ASSUME Domains, NEW a, Attempt(a)
  PROVE  /\ Exchange(a) /\ Domains'
         /\ Advances(call, Here, a, Here')
         /\ \A t \in Twins \ {twin} : result'[t] = result[t] /\ outcome'[t] = outcome[t]
<1> DEFINE carried == Carried(call, Here, a)
<1>1. Exchange(a)
  BY DEF Attempt, Retry, GiveUp, Unparsable, Return, RefuseString, NextPage, Take
<1>2. twin' = twin /\ call' = call /\ DOMAIN sent' = Twins /\ DOMAIN placed' = Twins
      /\ outcome[twin] = Pending /\ placed'[twin] = carried
  <2>1. Request.verb = MethodOf(call).verb
    BY Requests DEF Asked
  <2>2. Here.placed = placed[twin]
    BY DEF Here, Place
  <2> QED
    BY <1>1, <2>1, <2>2 DEF Exchange, Domains, Carried
<1>3. Here' = Place(params', page', attempt', result'[twin], outcome'[twin], carried)
  BY <1>2 DEF Here
<1>4. Method(twin) = MethodOf(call)
  BY Methods DEF Domains
<1>5. /\ Here.params = params /\ Here.page = page /\ Here.attempt = attempt
      /\ Here.result = result[twin]
  BY DEF Here, Place
<1>6. (MayRetry(a) <=> Retried(Here, a)) /\ (Parsed(a) <=> Whole(call, a))
      /\ (IsLast(a) <=> Final(call, a)) /\ (NoString(a) <=> Stringless(call, a))
  <2>1. (MayRetry(a) <=> Retried(Here, a)) /\ (Parsed(a) <=> Whole(call, a))
        /\ (IsLast(a) <=> Final(call, a))
    BY <1>4, <1>5 DEF MayRetry, Retried, Parsed, Whole, IsLast, Final
  <2> QED
    BY <1>4, <2>1 DEF NoString, Stringless
<1> HIDE DEF carried
<1> DEFINE Told == /\ DOMAIN result' = Twins /\ DOMAIN outcome' = Twins
                   /\ Advances(call, Here, a, Here')
                   /\ \A t \in Twins \ {twin} : result'[t] = result[t] /\ outcome'[t] = outcome[t]
<1>7. ASSUME NEW kind, NEW about, End(kind, about)
      PROVE  /\ DOMAIN outcome' = Twins /\ outcome'[twin] = Outcome(kind, about)
             /\ \A t \in Twins \ {twin} : outcome'[t] = outcome[t]
  BY <1>7 DEF End, Domains
<1>8. ASSUME Take(a)
      PROVE  /\ DOMAIN result' = Twins /\ result'[twin] = Gathered(call, Here, a)
             /\ \A t \in Twins \ {twin} : result'[t] = result[t]
             /\ page' = page + 1 /\ Whole(call, a)
  BY <1>4, <1>5, <1>6, <1>8 DEF Take, Domains, Gathered
<1> SUFFICES Told
  BY <1>1, <1>2 DEF Domains
<1>9. CASE Retry(a)
  <2>1. Here' = Again(call, Here, a)
    BY <1>2, <1>3, <1>5, <1>9 DEF Retry, Again, carried
  <2>2. Advances(call, Here, a, Here')
    BY <1>6, <1>9, <2>1 DEF Retry, Advances
  <2> QED
    BY <1>2, <1>9, <2>2 DEF Retry, Domains
<1>10. CASE GiveUp(a)
  <2>1. Here' = Stopped(call, Here, a, Outcome("api_error", <<a.status, message(a)>>))
    BY <1>3, <1>5, <1>7, <1>10 DEF GiveUp, progress, Stopped, carried
  <2>2. Advances(call, Here, a, Here')
    BY <1>6, <1>10, <2>1 DEF GiveUp, Advances
  <2> QED
    BY <1>7, <1>10, <2>2 DEF GiveUp, Domains
<1>11. CASE Unparsable(a)
  <2>1. Here' = Stopped(call, Here, a, Outcome("parse_error", <<>>))
    BY <1>3, <1>5, <1>7, <1>11 DEF Unparsable, progress, Stopped, carried
  <2>2. Advances(call, Here, a, Here')
    BY <1>6, <1>11, <2>1 DEF Unparsable, Advances
  <2> QED
    BY <1>7, <1>11, <2>2 DEF Unparsable, Domains
<1>12. CASE Return(a)
  <2>1. Here' = Gained(call, Here, a, Outcome("returned", <<>>))
    BY <1>3, <1>5, <1>7, <1>8, <1>12 DEF Return, Gained, carried
  <2>2. Advances(call, Here, a, Here')
    BY <1>6, <1>8, <1>12, <2>1 DEF Return, Advances
  <2> QED
    BY <1>7, <1>8, <1>12, <2>2 DEF Return
<1>13. CASE RefuseString(a)
  <2>1. Here' = Gained(call, Here, a, Outcome("type_error", <<>>))
    BY <1>3, <1>5, <1>7, <1>8, <1>13 DEF RefuseString, Gained, carried
  <2>2. Advances(call, Here, a, Here')
    BY <1>6, <1>8, <1>13, <2>1 DEF RefuseString, Advances
  <2> QED
    BY <1>7, <1>8, <1>13, <2>2 DEF RefuseString
<1>14. CASE NextPage(a)
  <2>0. params' = Turned(call, Here)
    BY <1>4, <1>5, <1>8, <1>14 DEF NextPage, Turned
  <2>1. Here' = Onward(call, Here, a)
    BY <1>2, <1>3, <1>5, <1>8, <1>14, <2>0 DEF NextPage, Onward, carried
  <2>2. Advances(call, Here, a, Here')
    BY <1>6, <1>8, <1>14, <2>1 DEF NextPage, Advances
  <2> QED
    BY <1>2, <1>8, <1>14, <2>2 DEF NextPage, Domains
<1> QED
  BY <1>9, <1>10, <1>11, <1>12, <1>13, <1>14 DEF Attempt

LEMMA AtHere ==
  /\ Here.params = params /\ Here.page = page /\ Here.attempt = attempt
  /\ Here.result = result[twin] /\ Here.outcome = outcome[twin] /\ Here.placed = placed[twin]
  BY DEF Here, Place

LEMMA StepOnCourse ==
  ASSUME Domains, NEW a, Attempt(a), NEW H, OnCourse(H), NEW G, Course(call, answers', G),
         Len(answers) <= Len(answers'), Len(sent[twin]) + 1 <= Len(answers'),
         \A k \in 0..Len(answers) : G[k] = H[k], G[Len(sent[twin]) + 1] = Here'
  PROVE  OnCourse(G)'
<1> DEFINE n == Len(sent[twin])
<1>1. call' = call /\ twin' = twin /\ Domains'
      /\ sent'[twin] = Append(sent[twin], Request)
      /\ \A t \in Twins \ {twin} : sent'[t] = sent[t] /\ placed'[t] = placed[t]
                                   /\ result'[t] = result[t] /\ outcome'[t] = outcome[t]
  BY AttemptAdvances DEF Exchange, Domains
<1>2. \A t \in Twins : Follows(t, H)
  BY DEF OnCourse
<1>3. Len(answers) \in Nat /\ Len(answers') \in Nat
  BY DEF OnCourse, Course, IsList
<1>4. ASSUME NEW t \in Twins, t # twin PROVE Follows(t, G)'
  <2>1. Follows(t, H) /\ sent'[t] = sent[t] /\ placed'[t] = placed[t]
        /\ result'[t] = result[t] /\ outcome'[t] = outcome[t]
    BY <1>1, <1>2, <1>4
  <2>2. Len(sent[t]) \in Nat /\ Len(sent[t]) <= Len(answers)
    BY <2>1 DEF Follows, IsList
  <2>3. G[Len(sent[t])] = H[Len(sent[t])] /\ \A k \in 1..Len(sent[t]) : G[k - 1] = H[k - 1]
    BY <1>3, <2>2
  <2>4. Len(sent[t]) <= Len(answers')
    BY <1>3, <2>2
  <2> QED
    BY <1>1, <2>1, <2>3, <2>4 DEF Follows
<1>5. IsList(sent[twin]) /\ n \in Nat /\ n <= Len(answers)
      /\ \A k \in 1..n : sent[twin][k] = Asked(call, H[k - 1].params)
  BY <1>2 DEF Follows, IsList, Domains
<1>6. /\ IsList(sent'[twin]) /\ Len(sent'[twin]) = n + 1
      /\ sent'[twin][n + 1] = Request
      /\ \A k \in 1..n : sent'[twin][k] = sent[twin][k]
  BY <1>1, <1>5, ListAppend
<1>7. Request = Asked(call, H[n].params)
  BY Requests, AtHere DEF OnCourse
<1>8. Here'.result = result'[twin] /\ Here'.outcome = outcome'[twin] /\ Here'.placed = placed'[twin]
  BY <1>1 DEF Here, Place
<1>9. ASSUME NEW k \in 1..(n + 1) PROVE sent'[twin][k] = Asked(call, G[k - 1].params)
  <2>1. k - 1 \in 0..Len(answers)
    BY <1>3, <1>5
  <2>2. G[k - 1] = H[k - 1]
    BY <2>1
  <2>3. CASE k = n + 1
    <3>1. k - 1 = n
      BY <1>5, <2>3
    <3> QED
      BY <1>6, <1>7, <2>2, <2>3, <3>1
  <2>4. CASE k # n + 1
    <3>1. k \in 1..n
      BY <1>5, <2>4
    <3> QED
      BY <1>5, <1>6, <2>2, <3>1
  <2> QED
    BY <2>3, <2>4
<1>10. Follows(twin, G)'
  <2>1. n = Len(sent[twin])
    OBVIOUS
  <2> HIDE DEF n
  <2> QED
    BY <1>1, <1>6, <1>8, <1>9, <2>1 DEF Follows
<1>11. G[Len(sent'[twin'])] = Here' /\ Course(call', answers', G)
  BY <1>1, <1>6
<1>12. \A t \in Twins : Follows(t, G)'
  BY <1>4, <1>10, <1>1
<1> QED
  BY <1>11, <1>12 DEF OnCourse

LEMMA AttemptKeeps ==
  ASSUME IInv, NEW a, Attempt(a)
  PROVE  IInv'
<1> DEFINE n == Len(sent[twin])
<1>1. PICK H : OnCourse(H)
  BY DEF IInv
<1>2. Domains /\ BlockingFirst
  BY DEF IInv
<1>3. /\ Exchange(a) /\ Domains' /\ Advances(call, Here, a, Here')
      /\ \A t \in Twins \ {twin} : result'[t] = result[t] /\ outcome'[t] = outcome[t]
  BY <1>2, AttemptAdvances
<1>4. outcome[twin] = Pending /\ MayAnswer(a) /\ twin' = twin /\ call' = call
      /\ sent' = [sent EXCEPT ![twin] = Append(@, Request)]
      /\ answers' = IF n < Len(answers) THEN answers ELSE Append(answers, a)
  BY <1>3 DEF Exchange
<1>5. IsList(sent[twin]) /\ n \in Nat /\ n <= Len(answers) /\ Len(answers) \in Nat /\ IsList(answers)
  BY <1>1, <1>2 DEF OnCourse, Follows, Course, IsList, Domains
<1>6. H[n] = Here /\ Course(call, answers, H) /\ Here.outcome = Pending
  BY <1>1, <1>4, AtHere DEF OnCourse
<1>7. CASE n < Len(answers)
  <2>1. twin = "awaitable"
    BY <1>2, <1>7 DEF BlockingFirst, Domains, Twins
  <2>2. a = answers[n + 1] /\ answers' = answers
    BY <1>4, <1>7 DEF MayAnswer
  <2>3. n + 1 \in 1..Len(answers) /\ (n + 1) - 1 = n
    BY <1>5, <1>7
  <2>4. Advances(call, H[(n + 1) - 1], answers[n + 1], H[n + 1])
    BY <1>6, <2>3 DEF Course, Goes
  <2>5. Advances(call, Here, a, H[n + 1])
    BY <1>6, <2>2, <2>3, <2>4
  <2>6. H[n + 1] = Here'
    BY <1>3, <2>5, AdvancesOnce
  <2>7. Course(call, answers', H) /\ Len(answers) <= Len(answers') /\ n + 1 <= Len(answers')
    BY <1>5, <1>6, <2>2, <2>3
  <2>8. OnCourse(H)'
    BY <1>1, <1>2, <2>6, <2>7, StepOnCourse
  <2>9. BlockingFirst'
    <3>1. "blocking" \in Twins \ {twin} /\ sent'["blocking"] = sent["blocking"]
      BY <1>2, <1>4, <2>1 DEF Twins, Domains
    <3>2. outcome'["blocking"] = outcome["blocking"]
      BY <1>3, <3>1
    <3> QED
      BY <1>2, <1>4, <2>1, <2>2, <3>1, <3>2 DEF BlockingFirst
  <2> QED
    BY <1>3, <2>8, <2>9 DEF IInv
<1>8. CASE ~(n < Len(answers))
  <2>1. n = Len(answers) /\ answers' = Append(answers, a)
    BY <1>4, <1>5, <1>8
  <2>2. twin = "blocking"
    <3>1. SUFFICES ASSUME twin = "awaitable" PROVE FALSE
      BY <1>2 DEF Domains, Twins
    <3>2. outcome["blocking"] # Pending /\ Len(sent["blocking"]) = n
      BY <1>2, <2>1, <3>1 DEF BlockingFirst
    <3>3. outcome["blocking"] = H[n].outcome
      BY <1>1, <3>2 DEF OnCourse, Follows, Twins
    <3> QED
      BY <1>6, <3>2, <3>3
  <2>3. Answerable(call, Here, a)
    <3>1. Request.body = PayloadOf(call)
      BY <1>2, Requests DEF Asked
    <3> QED
      BY <1>4, <1>8, <3>1, AtHere DEF MayAnswer, Answerable, Attempt
  <2>4. Goes(call, H[Len(answers)], a, Here')
    BY <1>3, <1>6, <2>1, <2>3 DEF Goes
  <2>5. PICK G : Course(call, Append(answers, a), G) /\ Extends(G, H, answers, Here')
    BY <1>6, <2>4, CourseExtends
  <2>6. Len(answers') = Len(answers) + 1
    BY <1>5, <2>1, ListAppend
  <2>7. OnCourse(G)'
    BY <1>1, <1>2, <1>5, <2>1, <2>5, <2>6, StepOnCourse DEF Extends
  <2>8. Len(sent'["blocking"]) = n + 1 /\ sent'["awaitable"] = sent["awaitable"]
    <3>1. sent'["blocking"] = Append(sent[twin], Request) /\ sent'["awaitable"] = sent["awaitable"]
      BY <1>2, <1>4, <2>2 DEF Domains, Twins
    <3> QED
      BY <1>5, <3>1, ListAppend
  <2>9. BlockingFirst'
    BY <1>2, <1>4, <2>1, <2>2, <2>6, <2>8 DEF BlockingFirst
  <2> QED
    BY <1>3, <2>7, <2>9 DEF IInv
<1> QED
  BY <1>7, <1>8

LEMMA InitIInv == Init => IInv
<1> SUFFICES ASSUME Init PROVE IInv
  OBVIOUS
<1>1. Domains /\ BlockingFirst
  BY DEF Init, Domains, BlockingFirst, Twins
<1> DEFINE H == [k \in {0} |-> Start(call)]
<1>2. Method("blocking") = MethodOf(call)
  BY Methods DEF Init, Twins
<1>3. Here = Start(call)
  BY <1>2 DEF Init, Here, Start, Twins
<1>4. H[0] = Start(call)
  OBVIOUS
<1> HIDE DEF H
<1>5. IsList(<<>>) /\ Len(<<>>) = 0
  BY DEF IsList
<1>6. Course(call, answers, H)
  BY <1>4, <1>5 DEF Init, Course
<1>7. ASSUME NEW t \in Twins PROVE Follows(t, H)
  <2>1. sent[t] = <<>> /\ answers = <<>> /\ result[t] = Nothing /\ outcome[t] = Pending /\ placed[t] = 0
    BY DEF Init
  <2>2. H[0].result = Nothing /\ H[0].outcome = Pending /\ H[0].placed = 0
    BY <1>4 DEF Start, Place
  <2> QED
    BY <1>5, <2>1, <2>2 DEF Follows
<1>8. H[Len(sent[twin])] = Here
  BY <1>3, <1>4, <1>5 DEF Init, Twins
<1> QED
  BY <1>1, <1>6, <1>7, <1>8 DEF IInv, OnCourse

LEMMA MirrorKeeps ==
  ASSUME IInv, Mirror
  PROVE  IInv'
<1>1. PICK H : OnCourse(H)
  BY DEF IInv
<1>2. /\ twin = "blocking" /\ outcome["blocking"] # Pending /\ twin' = "awaitable"
      /\ page' = 0 /\ attempt' = 1 /\ params' = build(Method("awaitable").query, call.given)
      /\ call' = call /\ sent' = sent /\ result' = result /\ outcome' = outcome
      /\ answers' = answers /\ placed' = placed
  BY DEF Mirror
<1>3. Domains' /\ BlockingFirst' /\ sent["awaitable"] = <<>>
  BY <1>2 DEF IInv, Domains, BlockingFirst, Twins
<1>4. Method("awaitable") = MethodOf(call)
  BY Methods DEF IInv, Domains, Twins
<1>5. Follows("awaitable", H) /\ H[0] = Start(call)
  BY <1>1 DEF OnCourse, Course, Twins
<1>6. result["awaitable"] = Nothing /\ outcome["awaitable"] = Pending /\ placed["awaitable"] = 0
  BY <1>3, <1>5 DEF Follows, Start, Place
<1>7. Here' = Start(call)
  BY <1>2, <1>4, <1>6 DEF Here, Start
<1>8. H[Len(sent'[twin'])] = Here'
  BY <1>2, <1>3, <1>5, <1>7
<1>9. ASSUME NEW t \in Twins PROVE Follows(t, H)'
  BY <1>1, <1>2 DEF OnCourse, Follows
<1>10. OnCourse(H)'
  BY <1>1, <1>2, <1>8, <1>9 DEF OnCourse
<1> QED
  BY <1>3, <1>10 DEF IInv

LEMMA StutterKeeps ==
  ASSUME IInv, UNCHANGED vars
  PROVE  IInv'
<1>1. PICK H : OnCourse(H)
  BY DEF IInv
<1>2. /\ call' = call /\ twin' = twin /\ params' = params /\ page' = page /\ attempt' = attempt
      /\ sent' = sent /\ result' = result /\ outcome' = outcome
      /\ answers' = answers /\ placed' = placed
  BY DEF vars, progress
<1>3. Here' = Here /\ Domains' /\ BlockingFirst'
  BY <1>2 DEF IInv, Here, Domains, BlockingFirst
<1>4. ASSUME NEW t \in Twins PROVE Follows(t, H)'
  BY <1>1, <1>2 DEF OnCourse, Follows
<1>5. OnCourse(H)'
  BY <1>1, <1>2, <1>3, <1>4 DEF OnCourse
<1> QED
  BY <1>3, <1>5 DEF IInv

\* A call is where the answers it took have led it, and its twin where the same answers have
\* led so far.
THEOREM CourseKept == Spec => []IInv
<1>1. IInv /\ [Next]_vars => IInv'
  BY NextCases, AttemptKeeps, MirrorKeeps, StutterKeeps
<1> QED
  BY InitIInv, <1>1, PTL DEF Spec

(***************************************************************************)
(* What holds at every place of a course.  A property of places is given   *)
(* as the set of the numbers k whose place has it.                         *)
(***************************************************************************)

\* What holds at the start and passes from each place to the next holds at every place.
LEMMA CourseInduction ==
  ASSUME NEW c, NEW s, NEW H, Course(c, s, H), NEW S, 0 \in S,
         \A k \in Nat : k + 1 <= Len(s) /\ k \in S /\ Goes(c, H[k], s[k + 1], H[k + 1]) => k + 1 \in S
  PROVE  0..Len(s) \subseteq S
<1> DEFINE T == {k \in Nat : k <= Len(s) => k \in S}
<1>1. Len(s) \in Nat
  BY DEF Course, IsList
<1>2. 0 \in T
  OBVIOUS
<1>3. ASSUME NEW k \in Nat, k \in T PROVE k + 1 \in T
  <2>1. SUFFICES ASSUME k + 1 <= Len(s) PROVE k + 1 \in S
    OBVIOUS
  <2>2. k \in S /\ k + 1 \in 1..Len(s) /\ (k + 1) - 1 = k
    BY <1>1, <1>3, <2>1
  <2>3. Goes(c, H[(k + 1) - 1], s[k + 1], H[k + 1])
    BY <2>2 DEF Course
  <2>4. Goes(c, H[k], s[k + 1], H[k + 1])
    BY <2>2, <2>3
  <2> QED
    BY <2>1, <2>2, <2>4
<1> HIDE DEF T
<1>4. Nat \subseteq T
  BY <1>2, <1>3, SetInduction
<1> QED
  BY <1>1, <1>4 DEF T

\* How a step of a course changes the counts of a place.
LEMMA GoesCounts ==
  ASSUME NEW c, NEW p, NEW a, NEW q, Goes(c, p, a, q)
  PROVE  /\ q.placed = Carried(c, p, a)
         /\ \/ q.outcome = Pending /\ q.page = p.page /\ q.attempt = p.attempt + 1
               /\ p.attempt < MaxAttempts
            \/ q.outcome = Pending /\ q.page = p.page + 1 /\ q.attempt = 1
               /\ Whole(c, a) /\ ~Final(c, a) /\ ~(p.page >= Len(Tokens))
            \/ q.outcome.kind \in {"api_error", "parse_error"}
               /\ q.page = p.page /\ q.attempt = p.attempt
            \/ q.outcome.kind \in {"returned", "type_error"}
               /\ q.page = p.page + 1 /\ q.attempt = p.attempt /\ Whole(c, a)
<1>1. /\ Again(c, p, a).placed = Carried(c, p, a) /\ Again(c, p, a).outcome = Pending
      /\ Again(c, p, a).page = p.page /\ Again(c, p, a).attempt = p.attempt + 1
      /\ Onward(c, p, a).placed = Carried(c, p, a) /\ Onward(c, p, a).outcome = Pending
      /\ Onward(c, p, a).page = p.page + 1 /\ Onward(c, p, a).attempt = 1
  BY DEF Again, Onward, Place
<1>2. ASSUME NEW end
      PROVE  /\ Stopped(c, p, a, end).placed = Carried(c, p, a) /\ Stopped(c, p, a, end).outcome = end
             /\ Stopped(c, p, a, end).page = p.page /\ Stopped(c, p, a, end).attempt = p.attempt
             /\ Gained(c, p, a, end).placed = Carried(c, p, a) /\ Gained(c, p, a, end).outcome = end
             /\ Gained(c, p, a, end).page = p.page + 1 /\ Gained(c, p, a, end).attempt = p.attempt
  BY DEF Stopped, Gained, Place
<1>3. ASSUME NEW kind, NEW about PROVE Outcome(kind, about).kind = kind
  BY DEF Outcome
<1>4. Whole(c, a) /\ ~Final(c, a) /\ a.body.token = "next" => ~(p.page >= Len(Tokens))
  BY DEF Goes, Answerable, Whole, Final
<1>5. Advances(c, p, a, q)
  BY DEF Goes
<1>6. CASE Retried(p, a) /\ q = Again(c, p, a)
  BY <1>1, <1>6 DEF Retried
<1>7. CASE q = Stopped(c, p, a, Outcome("api_error", <<a.status, message(a)>>))
           \/ q = Stopped(c, p, a, Outcome("parse_error", <<>>))
  BY <1>2, <1>3, <1>7
<1>8. CASE Whole(c, a) /\ (q = Gained(c, p, a, Outcome("returned", <<>>))
                           \/ q = Gained(c, p, a, Outcome("type_error", <<>>)))
  BY <1>2, <1>3, <1>8
<1>9. CASE Whole(c, a) /\ ~Final(c, a) /\ a.body.token = "next" /\ q = Onward(c, p, a)
  BY <1>1, <1>4, <1>9
<1> QED
  BY <1>5, <1>6, <1>7, <1>8, <1>9 DEF Advances

\* The ranges a place keeps to after k answers.
InRange(p, k) ==
  /\ p.page \in 0..(Len(Tokens) + 1) /\ (p.outcome = Pending => p.page <= Len(Tokens))
  /\ p.attempt \in 1..MaxAttempts
  /\ p.outcome.kind \in OutcomeKinds
  /\ p.placed \in 0..k

LEMMA CourseInRange ==
  ASSUME NEW c, NEW s, NEW H, Course(c, s, H), NEW k \in 0..Len(s)
  PROVE  InRange(H[k], k)
<1> DEFINE S == {i \in Nat : InRange(H[i], i)}
<1>1. Len(Tokens) \in Nat /\ MaxAttempts \in Nat \ {0}
  BY TokenAssumption, AttemptAssumption, ListOf DEF IsList
<1>2. 0 \in S
  BY <1>1 DEF Course, Start, Place, InRange, Pending, Outcome, OutcomeKinds
<1>3. ASSUME NEW i \in Nat, i \in S, Goes(c, H[i], s[i + 1], H[i + 1]) PROVE i + 1 \in S
  <2> DEFINE p == H[i]
             a == s[i + 1]
             q == H[i + 1]
  <2>1. InRange(p, i) /\ Goes(c, p, a, q)
    BY <1>3
  <2> HIDE DEF p, a, q
  <2>2. q.placed \in 0..(i + 1)
    <3>1. q.placed = p.placed \/ q.placed = p.placed + 1
      BY <2>1, GoesCounts DEF Carried
    <3> QED
      BY <2>1, <3>1 DEF InRange
  <2>3. p.outcome = Pending /\ Pending.kind = "pending"
    BY <2>1 DEF Goes, Pending, Outcome
  <2>4. InRange(q, i + 1)
    BY <1>1, <2>1, <2>2, <2>3, GoesCounts DEF InRange, OutcomeKinds
  <2> QED
    BY <2>4 DEF q
<1> HIDE DEF S
<1>4. 0..Len(s) \subseteq S
  BY <1>2, <1>3, CourseInduction
<1> QED
  BY <1>4 DEF S

\* The pages, the attempts and the orders placed stay within their bounds, and each client has
\* seen no more answers than there were.
THEOREM TypeCorrect == Spec => []TypeOK
<1>1. ASSUME IInv PROVE TypeOK
  <2>1. PICK H : OnCourse(H)
    BY <1>1 DEF IInv
  <2>2. call \in Sessions /\ twin \in Twins
    BY <1>1 DEF IInv, Domains
  <2>3. call.method \in DOMAIN blocking \cap DOMAIN awaitable
    BY <2>2, SessionAssumption, TwinTables
  <2>4. ASSUME NEW t \in Twins
        PROVE  /\ Len(sent[t]) \in 0..Len(answers) /\ outcome[t].kind \in OutcomeKinds
               /\ placed[t] \in 0..Len(sent[t])
    <3>1. Follows(t, H) /\ Course(call, answers, H)
      BY <2>1 DEF OnCourse
    <3>2. Len(sent[t]) \in 0..Len(answers)
      BY <3>1 DEF Follows, Course, IsList
    <3>3. InRange(H[Len(sent[t])], Len(sent[t]))
      BY <3>1, <3>2, CourseInRange
    <3> QED
      BY <3>1, <3>2, <3>3 DEF Follows, InRange
  <2>5. InRange(Here, Len(sent[twin]))
    BY <2>1, <2>2, <2>4, CourseInRange DEF OnCourse
  <2>6. page \in 0..(Len(Tokens) + 1) /\ attempt \in 1..MaxAttempts
    BY <2>5, AtHere DEF InRange
  <2> QED
    BY <2>2, <2>3, <2>4, <2>6 DEF TypeOK
<1> QED
  BY <1>1, CourseKept, PTL

(***************************************************************************)
(* The twins.                                                              *)
(***************************************************************************)

\* The coroutine client sends what its blocking twin has sent and ends as it has, with the same
\* result: it follows the course of the answers, and ends where the course does.
THEOREM TwinsAgree == Spec => []MirrorsBlocking
<1>1. ASSUME IInv PROVE MirrorsBlocking
  <2>1. PICK H : OnCourse(H)
    BY <1>1 DEF IInv
  <2> DEFINE n == Len(answers)
             m == Len(sent["awaitable"])
  <2>2. Follows("awaitable", H) /\ Follows("blocking", H) /\ Len(sent["blocking"]) = n
    BY <1>1, <2>1 DEF IInv, BlockingFirst, OnCourse, Twins
  <2>3. n \in Nat /\ m \in Nat /\ m <= n
    BY <2>1, <2>2 DEF OnCourse, Course, Follows, IsList
  <2>4. ASSUME NEW i \in DOMAIN sent["awaitable"]
        PROVE  i \in DOMAIN sent["blocking"] /\ sent["awaitable"][i] = sent["blocking"][i]
    <3>1. i \in 1..m /\ DOMAIN sent["blocking"] = 1..n
      BY <2>2, ListSeq DEF Follows
    <3>2. i \in 1..n
      BY <2>3, <3>1
    <3> HIDE DEF m, n
    <3> QED
      BY <2>2, <3>1, <3>2 DEF Follows, m, n
  <2>5. ASSUME outcome["awaitable"] # Pending
        PROVE  m = n
    <3>1. SUFFICES ASSUME m # n PROVE FALSE
      OBVIOUS
    <3>2. m + 1 \in 1..n /\ (m + 1) - 1 = m
      BY <2>3, <3>1
    <3>3. H[(m + 1) - 1].outcome = Pending
      BY <2>1, <3>2 DEF OnCourse, Course, Goes
    <3> QED
      BY <2>2, <2>5, <3>2, <3>3 DEF Follows
  <2>6. m = n => outcome["awaitable"] = outcome["blocking"] /\ result["awaitable"] = result["blocking"]
    BY <2>2 DEF Follows
  <2> QED
    BY <2>2, <2>4, <2>5, <2>6 DEF MirrorsBlocking
<1> QED
  BY <1>1, CourseKept, PTL

(***************************************************************************)
(* Requests.                                                               *)
(***************************************************************************)

\* Whatever client sends it, a request is one the call asks for.
LEMMA SentAsked ==
  ASSUME IInv, NEW t \in Twins, NEW i \in DOMAIN sent[t]
  PROVE  \E query : sent[t][i] = Asked(call, query)
<1>1. PICK H : OnCourse(H)
  BY DEF IInv
<1>2. Follows(t, H) /\ i \in 1..Len(sent[t])
  BY <1>1, ListSeq DEF OnCourse, Follows
<1> QED
  BY <1>2 DEF Follows

LEMMA HeadersOfOne ==
  ASSUME NEW account, NEW creds \in [Parts -> {account, ""}], account # "", ~empty(creds)
  PROVE  {key[2] : key \in trading_headers(creds)} = {account}
<1>1. "id" \in Parts /\ "secret" \in Parts /\ "oauth" \in Parts
  BY DEF Parts
<1>2. CASE creds.oauth # ""
  <2>1. trading_headers(creds) = {<<"oauth", creds.oauth>>} /\ creds.oauth = account
    BY <1>1, <1>2 DEF trading_headers
  <2>2. <<"oauth", account>>[2] = account
    OBVIOUS
  <2> QED
    BY <2>1, <2>2, Zenon
<1>3. CASE creds.oauth = ""
  <2>1. creds["id"] = account /\ creds["secret"] = account
    BY <1>1, <1>3 DEF empty
  <2>2. trading_headers(creds) = {<<"id", account>>, <<"secret", account>>}
    BY <1>3, <2>1 DEF trading_headers
  <2>3. <<"id", account>>[2] = account /\ <<"secret", account>>[2] = account
    OBVIOUS
  <2> QED
    BY <2>2, <2>3, Zenon
<1> QED
  BY <1>2, <1>3

LEMMA HeadersOfSome ==
  ASSUME NEW account, NEW creds \in [Parts -> {account, ""}]
  PROVE  {key[2] : key \in trading_headers(creds)} \subseteq {account, ""}
<1>1. creds["id"] \in {account, ""} /\ creds["secret"] \in {account, ""} /\ creds.oauth \in {account, ""}
  BY DEF Parts
<1>2. \A p : \A x \in {account, ""} : <<p, x>>[2] \in {account, ""}
  OBVIOUS
<1>3. ASSUME NEW key \in trading_headers(creds) PROVE key[2] \in {account, ""}
  <2>1. key \in {<<"oauth", creds.oauth>>} \/ key \in {<<p, creds[p]>> : p \in {"id", "secret"}}
    BY DEF trading_headers
  <2> QED
    BY <1>1, <1>2, <2>1
<1> QED
  BY <1>3

LEMMA EnvironmentType ==
  ASSUME NEW vars_, NEW account
  PROVE  get_env(vars_, account) \in [Parts -> {account, ""}]
  BY DEF get_env

\* A request is signed with parts of one account, the caller's or the one resolve() falls back
\* to; of the unprefixed account, when nothing usable is configured, whatever is set.
THEOREM KeysAreOfOneAccount == Spec => []KeysOfOneAccount
<1>1. ASSUME IInv PROVE KeysOfOneAccount
  <2> DEFINE paper == call.env = "paper" /\ ~empty(get_env(call.vars, "paper"))
             creds == resolve(call.argument, call.env, call.vars)
             signers == {key[2] : key \in trading_headers(creds)}
  <2>1. call.argument \in [Parts -> {"argument", ""}]
    BY <1>1, SessionAssumption DEF IInv, Domains
  <2>2. ~empty(call.argument) => signers = {"argument"}
    BY <2>1, HeadersOfOne DEF resolve
  <2>3. empty(call.argument) /\ paper => signers = {"paper"}
    BY EnvironmentType, HeadersOfOne DEF resolve, from_env
  <2>4. ASSUME empty(call.argument), ~paper
        PROVE  signers = {"plain"} \/ (empty(get_env(call.vars, "plain")) /\ signers \subseteq {"plain", ""})
    <3>1. creds = get_env(call.vars, "plain") /\ creds \in [Parts -> {"plain", ""}]
      BY <2>4, EnvironmentType DEF resolve, from_env
    <3>2. signers \subseteq {"plain", ""} /\ (~empty(creds) => signers = {"plain"})
      <4> HIDE DEF creds
      <4> QED
        BY <3>1, HeadersOfOne, HeadersOfSome
    <3> QED
      BY <3>1, <3>2
  <2> HIDE DEF paper, creds
  <2>5. ASSUME NEW t \in Twins, NEW i \in DOMAIN sent[t]
        PROVE  {key[2] : key \in sent[t][i].keys} = signers
    <3>1. PICK query : sent[t][i] = Asked(call, query)
      BY <1>1, SentAsked
    <3>2. sent[t][i].keys = trading_headers(creds)
      BY <3>1 DEF Asked, creds
    <3> QED
      BY <3>2
  <2> HIDE DEF signers
  <2> QED
    BY <2>2, <2>3, <2>4, <2>5 DEF KeysOfOneAccount, paper
<1> QED
  BY <1>1, CourseKept, PTL

(***************************************************************************)
(* Orders.                                                                 *)
(***************************************************************************)

\* How often an order has been placed when k attempts have been made at most: never twice
\* under an identifier, once at least if the call has returned.
PlacedBy(c, p) ==
  /\ p.placed \in Nat /\ p.attempt \in Nat
  /\ p.placed <= p.attempt /\ (p.outcome = Pending => p.placed < p.attempt)
  /\ "client_order_id" \in PayloadOf(c).keys => p.placed <= 1
  /\ p.outcome.kind = "returned" => p.placed >= 1

LEMMA CoursePlaces ==
  ASSUME NEW c, NEW s, NEW H, Course(c, s, H), NEW k \in 0..Len(s),
         MethodOf(c).verb = "post", MethodOf(c).reply.pages = "no"
  PROVE  PlacedBy(c, H[k])
<1> DEFINE S == {i \in Nat : PlacedBy(c, H[i])}
<1>1. 0 \in S
  BY DEF Course, Start, Place, PlacedBy, Pending, Outcome
<1>2. ASSUME NEW i \in Nat, i \in S, Goes(c, H[i], s[i + 1], H[i + 1]) PROVE i + 1 \in S
  <2> DEFINE p == H[i]
             a == s[i + 1]
             q == H[i + 1]
  <2>1. PlacedBy(c, p) /\ Goes(c, p, a, q)
    BY <1>2
  <2> HIDE DEF p, a, q
  <2>2. q.placed = IF a.done THEN p.placed + 1 ELSE p.placed
    BY <2>1, GoesCounts DEF Carried
  <2>3. p.outcome = Pending /\ (a.done /\ p.placed > 0 => "client_order_id" \notin PayloadOf(c).keys)
    BY <2>1 DEF Goes, Answerable
  <2>4. Whole(c, a) => a.done = TRUE
    BY <2>1 DEF Whole, Goes, Answerable, Success
  <2>5. q.attempt \in Nat /\ p.attempt <= q.attempt /\ (q.outcome = Pending => q.attempt = p.attempt + 1)
    BY <2>1, GoesCounts DEF PlacedBy, Final, Pending, Outcome
  <2>6. q.outcome.kind = "returned" => Whole(c, a)
    BY <2>1, GoesCounts DEF Pending, Outcome
  <2>7. p.placed \in Nat /\ p.attempt \in Nat /\ p.placed < p.attempt
        /\ ("client_order_id" \in PayloadOf(c).keys => p.placed <= 1)
    BY <2>1, <2>3 DEF PlacedBy
  <2>8. PlacedBy(c, q)
    BY <2>2, <2>3, <2>4, <2>5, <2>6, <2>7 DEF PlacedBy
  <2> QED
    BY <2>8 DEF q
<1> HIDE DEF S
<1>3. 0..Len(s) \subseteq S
  BY <1>1, <1>2, CourseInduction
<1> QED
  BY <1>3 DEF S

LEMMA OrderPayload ==
  ASSUME NEW c, c.method = "submit_order"
  PROVE  /\ MethodOf(c).verb = "post" /\ MethodOf(c).reply.pages = "no"
         /\ PayloadOf(c) = to_json(c.order)
  BY SubmitOrder DEF MethodOf, PayloadOf

\* An order with a client_order_id is placed once at most, however often it is sent; a call that
\* has returned has placed its order; none is placed more often than it may be attempted.
THEOREM OrderPlacedOnce == Spec => []PlacedOnce
<1>1. ASSUME IInv PROVE PlacedOnce
  <2>1. PICK H : OnCourse(H)
    BY <1>1 DEF IInv
  <2>2. SUFFICES ASSUME call.method = "submit_order", NEW t \in Twins
                 PROVE  /\ "client_order_id" \in call.order.set => placed[t] <= 1
                        /\ outcome[t].kind = "returned" => placed[t] >= 1
                        /\ placed[t] <= MaxAttempts
    BY DEF PlacedOnce
  <2> DEFINE n == Len(sent[t])
  <2>3. Follows(t, H) /\ Course(call, answers, H) /\ n \in 0..Len(answers)
    BY <2>1 DEF OnCourse, Follows, Course, IsList
  <2>4. PlacedBy(call, H[n]) /\ InRange(H[n], n)
    BY <2>2, <2>3, CoursePlaces, CourseInRange, OrderPayload
  <2>5. "client_order_id" \in call.order.set => "client_order_id" \in PayloadOf(call).keys
    BY <2>2, OrderPayload DEF to_json, Body
  <2>6. placed[t] = H[n].placed /\ outcome[t] = H[n].outcome
    BY <2>3 DEF Follows
  <2>7. H[n].placed <= H[n].attempt /\ H[n].attempt \in Nat /\ H[n].placed \in Nat
        /\ H[n].attempt <= MaxAttempts /\ MaxAttempts \in Nat
    BY <2>4, AttemptAssumption DEF PlacedBy, InRange
  <2> QED
    BY <2>4, <2>5, <2>6, <2>7 DEF PlacedBy
<1> QED
  BY <1>1, CourseKept, PTL

\* What OrdersComplete asks of a body.
Complete(body) ==
  LET has(k) == k \in body.keys
  IN  /\ has("qty") <=> ~has("notional")
      /\ body.class = "mleg" <=> has("legs")
      /\ body.class = "mleg" <=> ~has("symbol") /\ ~has("side") /\ body.type = ""
      /\ has("limit_price") <=> body.type \in {"limit", "stop_limit"}
      /\ has("stop_price") <=> body.type \in {"stop", "stop_limit"}
      /\ body.type = "trailing_stop" <=> ~(has("trail_price") <=> has("trail_percent"))
      /\ body.class = "bracket" <=> has("take_profit") /\ has("stop_loss")

\* A bracket and an identifier add keys on which none of the others depends.
LEMMA EntryComplete ==
  ASSUME NEW o \in Entries
  PROVE  DOMAIN o = {"type", "class", "set"}
         /\ o.class = "" /\ "legs" \notin o.set /\ "symbol" \in o.set /\ o.type # ""
         /\ "take_profit" \notin o.set /\ "stop_loss" \notin o.set
         /\ Complete(to_json(o))
<1>1. CASE o = market
  BY <1>1 DEF Complete, to_json, Body, market, Single
<1>2. CASE o = market_notional
  BY <1>2 DEF Complete, to_json, Body, market_notional, Single
<1>3. CASE o = limit
  BY <1>3 DEF Complete, to_json, Body, limit, Single
<1>4. CASE o = stop
  BY <1>4 DEF Complete, to_json, Body, stop, Single
<1>5. CASE o = stop_limit
  BY <1>5 DEF Complete, to_json, Body, stop_limit, Single
<1>6. CASE o = trailing_stop_price
  BY <1>6 DEF Complete, to_json, Body, trailing_stop_price, Single
<1>7. CASE o = trailing_stop_percent
  BY <1>7 DEF Complete, to_json, Body, trailing_stop_percent, Single
<1> QED
  BY <1>1, <1>2, <1>3, <1>4, <1>5, <1>6, <1>7 DEF Entries

LEMMA BracketComplete ==
  ASSUME NEW o \in Entries
  PROVE  DOMAIN bracket(o) = {"type", "class", "set"} /\ Complete(to_json(bracket(o)))
<1>1. /\ bracket(o).type = o.type /\ bracket(o).class = "bracket"
      /\ bracket(o).set = o.set \cup {"take_profit", "stop_loss"}
      /\ DOMAIN bracket(o) = {"type", "class", "set"}
  BY EntryComplete DEF bracket
<1>2. /\ to_json(bracket(o)).type = o.type /\ to_json(bracket(o)).class = "bracket"
      /\ to_json(bracket(o)).keys = o.set \cup {"take_profit", "stop_loss", "symbol"}
  BY <1>1 DEF to_json, Body
<1>3. to_json(o).type = o.type /\ to_json(o).class = "" /\ to_json(o).keys = o.set \cup {"symbol"}
  BY EntryComplete DEF to_json, Body
<1> QED
  BY <1>1, <1>2, <1>3, EntryComplete DEF Complete

LEMMA NamedComplete ==
  ASSUME NEW o, DOMAIN o = {"type", "class", "set"}, Complete(to_json(o))
  PROVE  Complete(to_json(Named(o)))
<1>1. /\ Named(o).type = o.type /\ Named(o).class = o.class
      /\ Named(o).set = o.set \cup {"client_order_id"}
  BY DEF Named
<1>2. /\ to_json(Named(o)).type = to_json(o).type /\ to_json(Named(o)).class = to_json(o).class
      /\ to_json(Named(o)).keys = to_json(o).keys \cup {"client_order_id"}
  BY <1>1 DEF to_json, Body
<1> HIDE DEF Named
<1> QED
  BY <1>2 DEF Complete

LEMMA MadeComplete ==
  ASSUME NEW o \in Made \cup {Named(m) : m \in Made}
  PROVE  Complete(to_json(o))
<1>1. ASSUME NEW m \in Made
      PROVE  DOMAIN m = {"type", "class", "set"} /\ Complete(to_json(m))
  <2>1. CASE m \in Entries
    BY <2>1, EntryComplete
  <2>2. CASE m \in {bracket(e) : e \in Entries}
    BY <2>2, BracketComplete
  <2>3. CASE m = multi_leg
    <3>1. DOMAIN m = {"type", "class", "set"}
      BY <2>3 DEF multi_leg
    <3>2. to_json(m).type = "" /\ to_json(m).class = "mleg"
          /\ to_json(m).keys = {"qty", "time_in_force", "legs"}
      BY <2>3 DEF multi_leg, to_json, Body
    <3> QED
      BY <3>1, <3>2 DEF Complete
  <2> QED
    BY <2>1, <2>2, <2>3 DEF Made
<1>2. ASSUME NEW m \in Made PROVE Complete(to_json(Named(m)))
  BY <1>1, NamedComplete
<1> QED
  BY <1>1, <1>2

\* Every order the factories make says one quantity, the prices its type asks for and no other;
\* the legs of a multi-leg order say what the order does not.
THEOREM OrdersAreComplete == Spec => []OrdersComplete
<1>1. ASSUME IInv PROVE OrdersComplete
  <2>1. SUFFICES ASSUME call.method = "submit_order", NEW t \in Twins, NEW i \in DOMAIN sent[t]
                 PROVE  Complete(sent[t][i].body)
    BY DEF OrdersComplete, Complete
  <2>2. call.order \in Made \cup {Named(o) : o \in Made}
    BY <1>1, <2>1, SessionAssumption DEF IInv, Domains
  <2>3. PICK query : sent[t][i] = Asked(call, query)
    BY <1>1, SentAsked
  <2>4. sent[t][i].body = to_json(call.order)
    BY <2>1, <2>3, OrderPayload DEF Asked
  <2> QED
    BY <2>2, <2>4, MadeComplete
<1> QED
  BY <1>1, CourseKept, PTL

(***************************************************************************)
(* Queries: lists of keys and values that have each key once.              *)
(***************************************************************************)

IsGiven(value) == value # ""

IsQuery(query) ==
  /\ IsList(query)
  /\ \A i, j \in 1..Len(query) : query[i][1] = query[j][1] => i = j

Values(query) ==
  [k \in {query[i][1] : i \in DOMAIN query} |-> query[SelectInSeq(query, LAMBDA p : p[1] = k)][2]]

LEMMA MinOne ==
  ASSUME NEW j \in Int
  PROVE  Min({j}) = j
  BY DEF Min

LEMMA OneIndex ==
  ASSUME NEW s, NEW k, NEW j \in 1..Len(s), s[j][1] = k,
         \A i \in 1..Len(s) : s[i][1] = k => i = j
  PROVE  {i \in 1..Len(s) : s[i][1] = k} = {j} /\ Min({j}) = j
  BY MinOne

LEMMA ValuesAt ==
  ASSUME NEW query, IsQuery(query)
  PROVE  /\ DOMAIN Values(query) = {query[i][1] : i \in 1..Len(query)}
         /\ \A i \in 1..Len(query) : Values(query)[query[i][1]] = query[i][2]
<1>1. DOMAIN query = 1..Len(query)
  BY ListSeq DEF IsQuery
<1>2. ASSUME NEW i \in 1..Len(query) PROVE Values(query)[query[i][1]] = query[i][2]
  <2> DEFINE k == query[i][1]
  <2>0. {j \in 1..Len(query) : query[j][1] = k} = {i} /\ Min({i}) = i
    BY OneIndex DEF IsQuery
  <2>1. SelectInSeq(query, LAMBDA p : p[1] = k) = i
    BY <2>0 DEF SelectInSeq
  <2>2. k \in {query[j][1] : j \in DOMAIN query}
    BY <1>1
  <2> QED
    BY <2>1, <2>2 DEF Values
<1> QED
  BY <1>1, <1>2 DEF Values

LEMMA FunctionsEqual ==
  ASSUME NEW f, NEW g, f = [k \in DOMAIN f |-> f[k]], g = [k \in DOMAIN g |-> g[k]],
         DOMAIN f = DOMAIN g, \A k \in DOMAIN f : f[k] = g[k]
  PROVE  f = g
  OBVIOUS

\* The query `after` is `query` with the key given that value.
SetTo(after, query, key, value) ==
  /\ IsQuery(after)
  /\ DOMAIN Values(after) = {key} \cup DOMAIN Values(query)
  /\ Values(after)[key] = value
  /\ \A k \in DOMAIN Values(query) \ {key} : Values(after)[k] = Values(query)[k]

\* set() gives a key its value, whether it was there or not, and leaves the others theirs.
LEMMA SetQuery ==
  ASSUME NEW query, IsQuery(query), NEW key, NEW value, IsGiven(value)
  PROVE  SetTo(set(query, key, value), query, key, value)
<1> DEFINE n == Len(query)
           pair == <<key, value>>
           after == set(query, key, value)
<1>1. n \in Nat /\ n = Len(query) /\ DOMAIN query = 1..n /\ IsList(query)
      /\ \A i, j \in 1..n : query[i][1] = query[j][1] => i = j
  BY ListSeq DEF IsQuery, IsList
<1>2. pair[1] = key /\ pair[2] = value
  OBVIOUS
<1>5. n \in Nat
  BY <1>1
<1>0. DOMAIN Values(query) = {query[i][1] : i \in 1..n}
      /\ \A i \in 1..n : Values(query)[query[i][1]] = query[i][2]
  BY ValuesAt
<1> HIDE DEF n, pair
<1>3. CASE \E i \in 1..n : query[i][1] = key
  <2>1. PICK j \in 1..n : query[j][1] = key
    BY <1>3
  <2>0. {i \in 1..n : query[i][1] = key} = {j} /\ Min({j}) = j
    <3>1. {i \in 1..n : query[i][1] = key} = {j}
      BY <1>1, <2>1
    <3>2. j \in Int
      BY <1>5, <2>1
    <3> QED
      BY <3>1, <3>2, MinOne
  <2>2. SelectInSeq(query, LAMBDA p : p[1] = key) = j
    BY <1>1, <2>0 DEF SelectInSeq
  <2>3. after = [query EXCEPT ![j] = pair]
    BY <1>1, <2>1, <2>2 DEF set, pair
  <2>4. after = [i \in 1..n |-> after[i]] /\ after[j] = pair
        /\ \A i \in 1..n : i # j => after[i] = query[i]
    BY <1>1, <2>3
  <2> HIDE DEF after
  <2>5. IsList(after) /\ Len(after) = n
    BY <1>1, <2>4, ListLength
  <2>6. after[j][1] = key /\ after[j][2] = value /\ \A i \in 1..n : after[i][1] = query[i][1]
    BY <1>2, <2>1, <2>4
  <2>7. IsQuery(after)
    BY <1>1, <2>5, <2>6 DEF IsQuery
  <2>8. {after[i][1] : i \in 1..n} = {query[i][1] : i \in 1..n} /\ key \in {query[i][1] : i \in 1..n}
    BY <2>1, <2>6
  <2>9. DOMAIN Values(after) = {key} \cup DOMAIN Values(query) /\ Values(after)[key] = value
    BY <1>0, <2>5, <2>6, <2>7, <2>8, ValuesAt
  <2>10. ASSUME NEW k \in DOMAIN Values(query) \ {key} PROVE Values(after)[k] = Values(query)[k]
    <3>1. PICK i \in 1..n : query[i][1] = k
      BY <1>0
    <3>2. i # j /\ after[i] = query[i]
      BY <2>1, <2>4, <3>1
    <3>3. Values(after)[after[i][1]] = after[i][2] /\ Values(query)[query[i][1]] = query[i][2]
      BY <1>0, <2>5, <2>7, ValuesAt
    <3> QED
      BY <3>1, <3>2, <3>3
  <2> QED
    BY <2>7, <2>9, <2>10 DEF after, SetTo
<1>4. CASE ~ \E i \in 1..n : query[i][1] = key
  <2>1. after = Append(query, pair)
    BY <1>1, <1>4 DEF set, add, pair, IsGiven
  <2> HIDE DEF after
  <2>2. IsList(after) /\ Len(after) = n + 1 /\ after[n + 1] = pair
        /\ \A i \in 1..n : after[i] = query[i]
    <3>1. IsList(query) /\ Len(query) = n
      BY <1>1
    <3> QED
      BY <2>1, <3>1, ListAppend
  <2>3. after[n + 1][1] = key /\ after[n + 1][2] = value
    BY <1>2, <2>2
  <2>0. n + 1 \in 1..(n + 1) /\ (\A i \in 1..(n + 1) : i # n + 1 => i \in 1..n)
        /\ \A i \in 1..n : i \in 1..(n + 1)
    BY <1>5
  <2>4. IsQuery(after)
    BY <1>1, <1>4, <2>0, <2>2, <2>3 DEF IsQuery
  <2>5. {after[i][1] : i \in 1..(n + 1)} = {key} \cup {query[i][1] : i \in 1..n}
    <3>1. ASSUME NEW k \in {after[i][1] : i \in 1..(n + 1)} PROVE k \in {key} \cup {query[i][1] : i \in 1..n}
      <4>1. PICK i \in 1..(n + 1) : k = after[i][1]
        BY <3>1
      <4> QED
        BY <2>0, <2>2, <2>3, <4>1
    <3>2. \A i \in 1..n : i \in 1..(n + 1) /\ after[i][1] = query[i][1]
      BY <2>0, <2>2
    <3> QED
      BY <2>0, <2>3, <3>1, <3>2
  <2>6. DOMAIN Values(after) = {key} \cup DOMAIN Values(query) /\ Values(after)[key] = value
    BY <1>0, <2>0, <2>2, <2>3, <2>4, <2>5, ValuesAt
  <2>7. ASSUME NEW k \in DOMAIN Values(query) \ {key} PROVE Values(after)[k] = Values(query)[k]
    <3>1. PICK i \in 1..n : query[i][1] = k
      BY <1>0
    <3>2. after[i] = query[i] /\ i \in 1..(n + 1)
      BY <2>0, <2>2
    <3>3. Values(after)[after[i][1]] = after[i][2] /\ Values(query)[query[i][1]] = query[i][2]
      BY <1>0, <2>2, <2>4, <3>2, ValuesAt
    <3> QED
      BY <3>1, <3>2, <3>3
  <2> QED
    BY <2>4, <2>6, <2>7 DEF after, SetTo
<1> QED
  BY <1>3, <1>4

ValueIn(query, given, k) ==
  IF k \in DOMAIN given THEN given[k] ELSE IF k \in query.always THEN "default" ELSE ""

AllGiven(given) == \A k \in DOMAIN given : IsGiven(given[k])

\* The keys that build() adds.
Added(query, given) ==
  {k \in {query.keys[i] : i \in 1..Len(query.keys)} : k \in DOMAIN given \/ k \in query.always}

LEMMA ValueGiven ==
  ASSUME NEW query, NEW given, AllGiven(given), NEW k
  PROVE  IsGiven(ValueIn(query, given, k)) <=> k \in DOMAIN given \/ k \in query.always
<1>1. "default" # ""
  OBVIOUS
<1> QED
  BY <1>1, Zenon DEF IsGiven, ValueIn, AllGiven

LEMMA AddGiven ==
  ASSUME NEW list, NEW k, NEW value
  PROVE  add(list, k, value) = IF IsGiven(value) THEN Append(list, <<k, value>>) ELSE list
  BY Zenon DEF add, IsGiven

\* build() adds one key after the other.
LEMMA BuildSteps ==
  ASSUME NEW query, WellFormed(query), NEW given
  PROVE  \E b : /\ b[0] = <<>>
                /\ \A n \in 1..Len(query.keys) :
                     b[n] = add(b[n - 1], query.keys[n], ValueIn(query, given, query.keys[n]))
                /\ build(query, given) = b[Len(query.keys)]
<1> DEFINE L == Len(query.keys)
           value(k) == ValueIn(query, given, k)
           pair(i) == <<query.keys[i], value(query.keys[i])>>
           W == {pair(i) : i \in 1..L}
           put(list, i) == IF IsGiven(value(query.keys[i])) THEN Append(list, pair(i)) ELSE list
           step == [p \in Nat \X Seq(W) |-> IF p[1] \in 1..L THEN put(p[2], p[1]) ELSE p[2]]
           Equation(b) == b = [n \in 0..L |-> IF n = 0 THEN <<>>
                                 ELSE add(b[n - 1], query.keys[n], value(query.keys[n]))]
           built == CHOOSE b : Equation(b)
<1>1. L \in Nat
  BY DEF WellFormed, IsList
<1>2. ASSUME NEW list, NEW i PROVE add(list, query.keys[i], value(query.keys[i])) = put(list, i)
  BY AddGiven
<1>3. build(query, given) = built[L]
  BY DEF build, ValueIn
<1> HIDE DEF L, value
<1>4. \A i \in 1..L : pair(i) \in W
  OBVIOUS
<1> HIDE DEF W, pair
<1>5. ASSUME NEW list \in Seq(W), NEW i \in 1..L PROVE put(list, i) \in Seq(W)
  BY <1>4
<1> HIDE DEF put
<1>6. step \in [Nat \X Seq(W) -> Seq(W)]
  BY <1>5
<1>7. <<>> \in Seq(W)
  OBVIOUS
<1>8. PICK f \in [0..L -> Seq(W)] : Recurs(f, 0..L, <<>>, step)
  <2> HIDE DEF step
  <2> QED
    BY <1>1, <1>6, <1>7, RecursionUpTo
<1>9. ASSUME NEW n \in 0..L PROVE f[n] = IF n = 0 THEN <<>> ELSE put(f[n - 1], n)
  <2>1. CASE n = 0
    BY <1>8, <2>1 DEF Recurs
  <2>2. CASE n # 0
    <3>1. n - 1 \in 0..L /\ (n - 1) + 1 = n /\ n \in 1..L /\ n \in Nat
      BY <1>1, <2>2
    <3>2. f[n] = step[<<n, f[n - 1]>>]
      BY <1>8, <3>1 DEF Recurs
    <3>3. <<n, f[n - 1]>> \in Nat \X Seq(W)
      BY <1>8, <3>1
    <3> QED
      BY <2>2, <3>1, <3>2, <3>3
  <2> QED
    BY <2>1, <2>2
<1>10. Equation(f)
  BY <1>2, <1>8, <1>9
<1>11. Equation(built)
  BY <1>10
<1> HIDE DEF built
<1>12. built[0] = <<>> /\ \A n \in 1..L : built[n] = add(built[n - 1], query.keys[n], value(query.keys[n]))
  BY <1>1, <1>11
<1> QED
  BY <1>3, <1>12 DEF L, value

LEMMA BuildQuery ==
  ASSUME NEW query, WellFormed(query), NEW given, AllGiven(given)
  PROVE  /\ IsQuery(build(query, given))
         /\ DOMAIN Values(build(query, given)) = Added(query, given)
         /\ \A k \in Added(query, given) :
              Values(build(query, given))[k] = ValueIn(query, given, k)
<1> DEFINE L == Len(query.keys)
           value(k) == ValueIn(query, given, k)
           adds(k) == k \in DOMAIN given \/ k \in query.always
<1>1. L \in Nat /\ \A i, j \in 1..L : query.keys[i] = query.keys[j] => i = j
  BY DEF WellFormed, IsList
<1>2. PICK b : /\ b[0] = <<>>
               /\ \A n \in 1..L : b[n] = add(b[n - 1], query.keys[n], value(query.keys[n]))
               /\ build(query, given) = b[L]
  BY BuildSteps
<1>3. \A k : IsGiven(value(k)) <=> adds(k)
  BY ValueGiven
<1>4. Added(query, given) = {k \in {query.keys[i] : i \in 1..L} : adds(k)}
  BY DEF Added
<1> HIDE DEF L, value, adds
\* After n keys the list has those of them that are added.
<1> DEFINE Partly(list, n) ==
             /\ IsList(list)
             /\ \A i \in 1..Len(list) :
                  \E j \in 1..n : adds(query.keys[j])
                                  /\ list[i][1] = query.keys[j] /\ list[i][2] = value(query.keys[j])
             /\ \A j \in 1..n : adds(query.keys[j]) =>
                  \E i \in 1..Len(list) : list[i][1] = query.keys[j]
             /\ \A i, j \in 1..Len(list) : list[i][1] = list[j][1] => i = j
           S == {n \in Nat : n <= L => Partly(b[n], n)}
<1>5. 0 \in S
  <2>1. IsList(<<>>) /\ Len(<<>>) = 0
    BY DEF IsList
  <2> QED
    BY <1>2, <2>1
<1>6. ASSUME NEW n \in Nat, n \in S PROVE n + 1 \in S
  <2>1. SUFFICES ASSUME n + 1 <= L PROVE Partly(b[n + 1], n + 1)
    OBVIOUS
  <2> DEFINE list == b[n]
             k == query.keys[n + 1]
             pair == <<k, value(k)>>
  <2>2. n + 1 \in 1..L /\ (n + 1) - 1 = n /\ n <= L
    BY <1>1, <2>1
  <2>3. b[n + 1] = IF adds(k) THEN Append(list, pair) ELSE list
    BY <1>2, <1>3, <2>2, AddGiven
  <2>4. Partly(list, n)
    BY <1>6, <2>2
  <2>5. pair[1] = k /\ pair[2] = value(k)
    OBVIOUS
  <2>6. \A j \in 1..n : query.keys[j] # k /\ j \in 1..(n + 1)
    BY <1>1, <2>2
  <2>7. n + 1 \in 1..(n + 1) /\ \A j \in 1..(n + 1) : j # n + 1 => j \in 1..n
    OBVIOUS
  <2>8. CASE adds(k)
    <3> DEFINE after == Append(list, pair)
    <3> HIDE DEF pair
    <3>1. IsList(after) /\ Len(after) = Len(list) + 1 /\ after[Len(list) + 1] = pair
          /\ \A i \in 1..Len(list) : after[i] = list[i]
      BY <2>4, ListAppend
    <3> DEFINE m == Len(list)
    <3>2. m \in Nat
      BY <2>4 DEF IsList
    <3> HIDE DEF after, list, m
    <3>3. m + 1 \in 1..(m + 1) /\ (\A i \in 1..(m + 1) : i # m + 1 => i \in 1..m)
          /\ \A i \in 1..m : i \in 1..(m + 1)
      BY <3>2
    <3>4. IsList(after) /\ Len(after) = m + 1 /\ after[m + 1][1] = k /\ after[m + 1][2] = value(k)
          /\ \A i \in 1..m : after[i] = list[i]
      BY <2>5, <3>1 DEF m
    <3>5. Partly(list, n) /\ Len(list) = m
      BY <2>4 DEF m
    <3> HIDE DEF k
    <3>6. \A i \in 1..m : list[i][1] # k
      <4>1. ASSUME NEW i \in 1..m PROVE list[i][1] # k
        <5>1. PICK j \in 1..n : list[i][1] = query.keys[j]
          BY <3>5
        <5> QED
          BY <2>6, <5>1
      <4> QED
        BY <4>1
    <3>7. ASSUME NEW i \in 1..(m + 1)
          PROVE  \E j \in 1..(n + 1) : adds(query.keys[j]) /\ after[i][1] = query.keys[j]
                                       /\ after[i][2] = value(query.keys[j])
      <4>1. CASE i = m + 1
        BY <2>7, <2>8, <3>4, <4>1 DEF k
      <4>2. CASE i # m + 1
        BY <2>6, <3>3, <3>4, <3>5, <4>2
      <4> QED
        BY <4>1, <4>2
    <3>8. ASSUME NEW j \in 1..(n + 1), adds(query.keys[j])
          PROVE  \E i \in 1..(m + 1) : after[i][1] = query.keys[j]
      <4>1. CASE j = n + 1
        BY <3>3, <3>4, <4>1 DEF k
      <4>2. CASE j # n + 1
        BY <2>7, <3>3, <3>4, <3>5, <3>8, <4>2
      <4> QED
        BY <4>1, <4>2
    <3>9. ASSUME NEW i \in 1..(m + 1), NEW j \in 1..(m + 1), after[i][1] = after[j][1] PROVE i = j
      BY <3>3, <3>4, <3>5, <3>6, <3>9
    <3>10. Partly(after, n + 1)
      BY <3>4, <3>7, <3>8, <3>9
    <3>11. b[n + 1] = after
      BY <2>3, <2>8 DEF after
    <3> QED
      BY <3>10, <3>11
  <2>9. CASE ~adds(k)
    <3>1. ASSUME NEW j \in 1..(n + 1), adds(query.keys[j])
          PROVE  \E i \in 1..Len(list) : list[i][1] = query.keys[j]
      BY <2>4, <2>7, <2>9, <3>1
    <3> QED
      BY <2>3, <2>4, <2>6, <2>9, <3>1
  <2> QED
    BY <2>8, <2>9
<1> HIDE DEF S
<1>7. Nat \subseteq S
  BY <1>5, <1>6, SetInduction
<1>8. Partly(b[L], L)
  BY <1>1, <1>7 DEF S
<1> DEFINE list == build(query, given)
<1>9. Partly(list, L)
  BY <1>2, <1>8
<1>10. IsQuery(list)
  BY <1>9 DEF IsQuery
<1> HIDE DEF list
<1>11. DOMAIN Values(list) = {list[i][1] : i \in 1..Len(list)}
       /\ \A i \in 1..Len(list) : Values(list)[list[i][1]] = list[i][2]
  BY <1>10, ValuesAt
<1>12. DOMAIN Values(list) = Added(query, given)
  BY <1>4, <1>9, <1>11
<1>13. ASSUME NEW k \in Added(query, given) PROVE Values(list)[k] = value(k)
  <2>1. PICK i \in 1..Len(list) : list[i][1] = k
    BY <1>11, <1>12
  <2>2. PICK j \in 1..L : list[i][1] = query.keys[j] /\ list[i][2] = value(query.keys[j])
    BY <1>9
  <2> QED
    BY <1>11, <2>1, <2>2
<1> QED
  BY <1>10, <1>12, <1>13 DEF list, value

(***************************************************************************)
(* Pages: the queries of a course.                                         *)
(***************************************************************************)

\* A table with a token, and what else it says.
WithToken(g, f, token) ==
  /\ g = [k \in DOMAIN g |-> g[k]] /\ DOMAIN g = {"page_token"} \cup DOMAIN f
  /\ g["page_token"] = token /\ \A k \in DOMAIN f \ {"page_token"} : g[k] = f[k]

LEMMA Tokened ==
  ASSUME NEW f, NEW token
  PROVE  WithToken([page_token |-> token] ++ f, f, token)
  BY DEF WithToken, ++

LEMMA ListElement ==
  ASSUME NEW S, NEW s \in Seq(S), NEW i \in 1..Len(s)
  PROVE  s[i] \in S
  OBVIOUS

LEMMA TokensGiven ==
  ASSUME NEW i \in 1..Len(Tokens)
  PROVE  IsGiven(Tokens[i])
<1> DEFINE S == STRING \ {""}
<1>1. Tokens \in Seq(S)
  BY TokenAssumption, Zenon
<1>2. \A x \in S : IsGiven(x)
  BY Zenon DEF IsGiven
<1> HIDE DEF S
<1> QED
  BY <1>1, <1>2, ListElement

LEMMA SessionsSound ==
  ASSUME NEW c \in Sessions
  PROVE  Sound(MethodOf(c)) /\ AllGiven(c.given)
<1>1. c.method \in DOMAIN blocking
  BY SessionAssumption, Zenon
<1>2. AllGiven(c.given)
  BY SessionAssumption, Zenon DEF AllGiven, IsGiven
<1> QED
  BY <1>1, <1>2, MethodsSound DEF AllSound, MethodOf

\* paginate() turns the page in the query it has.
LEMMA SetToken ==
  ASSUME NEW query, IsQuery(query), NEW token, IsGiven(token)
  PROVE  /\ IsQuery(set(query, "page_token", token))
         /\ Values(set(query, "page_token", token)) = [page_token |-> token] ++ Values(query)
<1> DEFINE after == set(query, "page_token", token)
           f == Values(query)
           g == [page_token |-> token] ++ f
<1>1. SetTo(after, query, "page_token", token)
  BY SetQuery, Zenon
<1>2. WithToken(g, f, token)
  BY Tokened, Zenon
<1>3. Values(after) = [k \in DOMAIN Values(after) |-> Values(after)[k]]
  BY DEF Values
<1> HIDE DEF after, f, g
<1>4. Values(after) = g
  BY <1>1, <1>2, <1>3, FunctionsEqual DEF SetTo, WithToken, f
<1> QED
  BY <1>1, <1>4 DEF SetTo, after, f, g

\* What was given, but for the token.
Alike(f, g) ==
  /\ {"page_token"} \cup DOMAIN f = {"page_token"} \cup DOMAIN g
  /\ \A k \in DOMAIN g \ {"page_token"} : f[k] = g[k]

LEMMA TokenedAlike ==
  ASSUME NEW given, AllGiven(given), NEW token, IsGiven(token)
  PROVE  LET g == [page_token |-> token] ++ given IN Alike(g, given) /\ AllGiven(g)
<1> DEFINE g == [page_token |-> token] ++ given
<1>1. WithToken(g, given, token)
  BY Tokened, Zenon
<1> HIDE DEF g
<1>2. Alike(g, given)
  BY <1>1 DEF Alike, WithToken
<1>3. AllGiven(g)
  BY <1>1 DEF AllGiven, WithToken
<1> QED
  BY <1>2, <1>3 DEF g

\* A caller who turns the page builds the query anew, from what was given first and the token.
LEMMA BuildToken ==
  ASSUME NEW query, WellFormed(query), TakesToken(query), NEW given, AllGiven(given),
         NEW base, AllGiven(base), Alike(base, given), NEW token, IsGiven(token)
  PROVE  /\ IsQuery(build(query, [page_token |-> token] ++ given))
         /\ Values(build(query, [page_token |-> token] ++ given))
              = [page_token |-> token] ++ Values(build(query, base))
<1> DEFINE h == [page_token |-> token] ++ given
           f == Values(build(query, base))
           g == [page_token |-> token] ++ f
           after == Values(build(query, h))
<1>1. WithToken(h, given, token)
  BY Tokened, Zenon
<1>2. WithToken(g, f, token)
  BY Tokened, Zenon
<1>3. AllGiven(h)
  BY TokenedAlike
<1> HIDE DEF h
<1>4. /\ IsQuery(build(query, h)) /\ DOMAIN after = Added(query, h)
      /\ \A k \in Added(query, h) : after[k] = ValueIn(query, h, k)
  BY <1>3, BuildQuery
<1>5. DOMAIN f = Added(query, base) /\ \A k \in Added(query, base) : f[k] = ValueIn(query, base, k)
  BY BuildQuery
<1>6. after = [k \in DOMAIN after |-> after[k]]
  BY DEF Values
<1> HIDE DEF f, g, after
<1>7. "page_token" \in {query.keys[i] : i \in 1..Len(query.keys)}
  BY DEF TakesToken
<1>8. \A k : k # "page_token" => (k \in DOMAIN h <=> k \in DOMAIN base)
  BY <1>1 DEF Alike, WithToken
<1>9. Added(query, h) = {"page_token"} \cup Added(query, base)
  BY <1>1, <1>7, <1>8 DEF Added, WithToken
<1>10. ASSUME NEW k \in Added(query, base) \ {"page_token"}
       PROVE  ValueIn(query, h, k) = ValueIn(query, base, k)
  <2>1. k \in DOMAIN h => h[k] = base[k]
    BY <1>1, <1>8 DEF Alike, WithToken
  <2> QED
    BY <1>8, <2>1 DEF ValueIn
<1>11. ValueIn(query, h, "page_token") = token
  BY <1>1 DEF ValueIn, WithToken
<1>12. after = g
  <2>1. DOMAIN after = DOMAIN g
    BY <1>2, <1>4, <1>5, <1>9 DEF WithToken
  <2>2. ASSUME NEW k \in DOMAIN after PROVE after[k] = g[k]
    BY <1>2, <1>4, <1>5, <1>9, <1>10, <1>11 DEF WithToken
  <2> QED
    BY <1>2, <1>6, <2>1, <2>2, FunctionsEqual DEF WithToken
<1> QED
  BY <1>4, <1>12 DEF after, g, f, h

\* A query a call may have: one that names no key twice and, if the caller turns the pages, one
\* that is built from what was given, with some token or with the one given.
Asks(c, query) ==
  /\ IsQuery(query)
  /\ MethodOf(c).reply.pages = "one" =>
       \E base : AllGiven(base) /\ Alike(base, c.given) /\ query = build(MethodOf(c).query, base)

LEMMA TurnedAsks ==
  ASSUME NEW c \in Sessions, NEW p, Asks(c, p.params), MethodOf(c).reply.pages # "no",
         IsGiven(Tokens[p.page + 1])
  PROVE  /\ Asks(c, Turned(c, p))
         /\ Values(Turned(c, p)) = [page_token |-> Tokens[p.page + 1]] ++ Values(p.params)
<1> DEFINE token == Tokens[p.page + 1]
           next == [page_token |-> token] ++ c.given
<1>1. WellFormed(MethodOf(c).query) /\ AllGiven(c.given)
      /\ MethodOf(c).reply.pages \in {"all", "one"}
      /\ (MethodOf(c).reply.pages = "one" => TakesToken(MethodOf(c).query))
  BY SessionsSound DEF Sound
<1>2. IsQuery(p.params) /\ IsGiven(token)
  BY DEF Asks
<1>3. CASE MethodOf(c).reply.pages = "all"
  <2>1. Turned(c, p) = set(p.params, "page_token", token)
    BY <1>3 DEF Turned
  <2> HIDE DEF token
  <2>2. IsQuery(Turned(c, p)) /\ Values(Turned(c, p)) = [page_token |-> token] ++ Values(p.params)
    BY <1>2, <2>1, SetToken
  <2> QED
    BY <1>3, <2>2 DEF Asks, token
<1>4. CASE MethodOf(c).reply.pages = "one"
  <2>1. Turned(c, p) = build(MethodOf(c).query, next)
    BY <1>4 DEF Turned
  <2>2. PICK base : AllGiven(base) /\ Alike(base, c.given) /\ p.params = build(MethodOf(c).query, base)
    BY <1>4 DEF Asks
  <2> HIDE DEF token
  <2>3. AllGiven(next) /\ Alike(next, c.given)
    BY <1>1, <1>2, TokenedAlike
  <2>4. IsQuery(Turned(c, p)) /\ Values(Turned(c, p)) = [page_token |-> token] ++ Values(p.params)
    BY <1>1, <1>2, <1>4, <2>1, <2>2, BuildToken
  <2> QED
    BY <2>1, <2>3, <2>4 DEF Asks, token
<1> QED
  BY <1>1, <1>3, <1>4

\* What an answer does to the query: a failure leaves it, a page turns it.
LEMMA GoesAsks ==
  ASSUME NEW c \in Sessions, NEW p, NEW a, NEW q, Goes(c, p, a, q), Asks(c, p.params), p.page \in Nat
  PROVE  /\ Asks(c, q.params)
         /\ q.outcome = Pending =>
              IF a.status = "2xx"
              THEN Values(q.params) = [page_token |-> Tokens[p.page + 1]] ++ Values(p.params)
              ELSE q.params = p.params
<1>1. Again(c, p, a).params = p.params /\ Onward(c, p, a).params = Turned(c, p)
  BY DEF Again, Onward, Place
<1>2. ASSUME NEW end
      PROVE  /\ Stopped(c, p, a, end).params = p.params /\ Stopped(c, p, a, end).outcome = end
             /\ Gained(c, p, a, end).params = p.params /\ Gained(c, p, a, end).outcome = end
  BY DEF Stopped, Gained, Place
<1>3. ASSUME NEW kind, NEW about, kind # "pending" PROVE Outcome(kind, about) # Pending
  BY <1>3 DEF Outcome, Pending
<1>4. Advances(c, p, a, q)
  BY DEF Goes
<1>5. CASE Retried(p, a) /\ q = Again(c, p, a)
  BY <1>1, <1>5 DEF Retried
<1>6. CASE q = Stopped(c, p, a, Outcome("api_error", <<a.status, message(a)>>))
           \/ q = Stopped(c, p, a, Outcome("parse_error", <<>>))
           \/ q = Gained(c, p, a, Outcome("returned", <<>>))
           \/ q = Gained(c, p, a, Outcome("type_error", <<>>))
  BY <1>2, <1>3, <1>6
<1>7. CASE Whole(c, a) /\ ~Final(c, a) /\ a.body.token = "next" /\ q = Onward(c, p, a)
  <2>1. a.status = "2xx" /\ MethodOf(c).reply.pages # "no"
    BY <1>7 DEF Whole, Final
  <2>2. ~(p.page >= Len(Tokens))
    BY <1>7, <2>1 DEF Goes, Answerable, Final
  <2>3. Len(Tokens) \in Nat
    BY TokenAssumption, ListOf DEF IsList
  <2>4. IsGiven(Tokens[p.page + 1])
    BY <2>2, <2>3, TokensGiven
  <2> QED
    BY <1>1, <1>7, <2>1, <2>4, TurnedAsks
<1> QED
  BY <1>4, <1>5, <1>6, <1>7 DEF Advances

LEMMA CourseAsks ==
  ASSUME NEW c \in Sessions, NEW s, NEW H, Course(c, s, H), NEW k \in 0..Len(s)
  PROVE  Asks(c, H[k].params)
<1> DEFINE S == {i \in Nat : i <= Len(s) => Asks(c, H[i].params)}
<1>1. 0 \in S
  <2>1. H[0].params = build(MethodOf(c).query, c.given)
    BY DEF Course, Start, Place
  <2>2. WellFormed(MethodOf(c).query) /\ AllGiven(c.given)
    BY SessionsSound DEF Sound
  <2>3. IsQuery(build(MethodOf(c).query, c.given))
    BY <2>2, BuildQuery
  <2>4. Alike(c.given, c.given)
    BY DEF Alike
  <2> QED
    BY <2>1, <2>2, <2>3, <2>4 DEF Asks
<1>2. ASSUME NEW i \in Nat, i + 1 <= Len(s), i \in S, Goes(c, H[i], s[i + 1], H[i + 1]) PROVE i + 1 \in S
  <2>1. Len(s) \in Nat
    BY DEF Course, IsList
  <2>2. i \in 0..Len(s)
    BY <1>2, <2>1
  <2>3. H[i].page \in Nat
    BY <2>2, CourseInRange DEF InRange
  <2>4. Asks(c, H[i].params)
    BY <1>2, <2>1
  <2>5. Asks(c, H[i + 1].params)
    BY <1>2, <2>3, <2>4, GoesAsks
  <2> QED
    BY <2>5
<1> HIDE DEF S
<1>3. 0..Len(s) \subseteq S
  BY <1>1, <1>2, CourseInduction
<1> QED
  BY <1>3 DEF S

\* The answers among the first k that were pages.
PagesOf(s, k) == {i \in 1..k : s[i].status = "2xx"}

LEMMA PagesMore ==
  ASSUME NEW s, NEW k \in Nat
  PROVE  /\ IsFiniteSet(PagesOf(s, k)) /\ Cardinality(PagesOf(s, k)) \in Nat
         /\ Cardinality(PagesOf(s, 0)) = 0
         /\ s[k + 1].status = "2xx" => Cardinality(PagesOf(s, k + 1)) = Cardinality(PagesOf(s, k)) + 1
         /\ s[k + 1].status # "2xx" => PagesOf(s, k + 1) = PagesOf(s, k)
<1>1. IsFiniteSet(1..k) /\ PagesOf(s, k) \subseteq 1..k
  BY FS_Interval DEF PagesOf
<1>2. IsFiniteSet(PagesOf(s, k)) /\ Cardinality(PagesOf(s, k)) \in Nat
  BY <1>1, FS_Subset, FS_CardinalityType
<1>3. PagesOf(s, 0) = {}
  BY DEF PagesOf
<1>4. k + 1 \notin PagesOf(s, k)
  BY DEF PagesOf
<1>5. s[k + 1].status = "2xx" => PagesOf(s, k + 1) = PagesOf(s, k) \cup {k + 1}
  BY DEF PagesOf
<1>6. s[k + 1].status # "2xx" => PagesOf(s, k + 1) = PagesOf(s, k)
  <2>1. SUFFICES ASSUME s[k + 1].status # "2xx" PROVE PagesOf(s, k + 1) = PagesOf(s, k)
    OBVIOUS
  <2>2. \A i \in 1..(k + 1) : i = k + 1 \/ i \in 1..k
    OBVIOUS
  <2>3. \A i \in 1..k : i \in 1..(k + 1)
    OBVIOUS
  <2> QED
    BY <2>1, <2>2, <2>3 DEF PagesOf
<1>7. Cardinality(PagesOf(s, k) \cup {k + 1}) = Cardinality(PagesOf(s, k)) + 1
  BY <1>2, <1>4, FS_AddElement
<1>8. Cardinality(PagesOf(s, 0)) = 0
  BY <1>3, FS_EmptySet
<1> QED
  BY <1>2, <1>5, <1>6, <1>7, <1>8

\* The page of a place is the number of pages so far.
LEMMA CoursePages ==
  ASSUME NEW c, NEW s, NEW H, Course(c, s, H), NEW k \in 0..Len(s), H[k].outcome.kind # "parse_error"
  PROVE  H[k].page = Cardinality(PagesOf(s, k))
<1> DEFINE S == {i \in Nat : H[i].outcome.kind # "parse_error" => H[i].page = Cardinality(PagesOf(s, i))}
<1>1. 0 \in S
  BY PagesMore DEF Course, Start, Place
<1>2. ASSUME NEW i \in Nat, i \in S, Goes(c, H[i], s[i + 1], H[i + 1]) PROVE i + 1 \in S
  <2> DEFINE p == H[i]
             a == s[i + 1]
             q == H[i + 1]
             n == Cardinality(PagesOf(s, i))
             m == Cardinality(PagesOf(s, i + 1))
  <2>1. Goes(c, p, a, q) /\ (p.outcome.kind # "parse_error" => p.page = n)
    BY <1>2
  <2>2. n \in Nat /\ (a.status = "2xx" => m = n + 1) /\ (a.status # "2xx" => m = n)
    BY PagesMore
  <2> HIDE DEF p, a, q, n, m
  <2>3. p.page = n
    BY <2>1 DEF Goes, Pending, Outcome
  <2>4. q.outcome.kind # "parse_error" => q.page = m
    <3>1. Again(c, p, a).page = p.page /\ Onward(c, p, a).page = p.page + 1
      BY DEF Again, Onward, Place
    <3>2. ASSUME NEW end
          PROVE  /\ Stopped(c, p, a, end).page = p.page /\ Stopped(c, p, a, end).outcome = end
                 /\ Gained(c, p, a, end).page = p.page + 1
      BY DEF Stopped, Gained, Place
    <3>3. Outcome("parse_error", <<>>).kind = "parse_error"
      BY DEF Outcome
    <3>4. Advances(c, p, a, q)
      BY <2>1 DEF Goes
    <3>5. (Whole(c, a) => a.status = "2xx") /\ (Retried(p, a) => a.status # "2xx")
      BY DEF Whole, Retried
    <3> QED
      BY <2>2, <2>3, <3>1, <3>2, <3>3, <3>4, <3>5 DEF Advances
  <2> QED
    BY <2>4 DEF q, m
<1> HIDE DEF S
<1>3. 0..Len(s) \subseteq S
  BY <1>1, <1>2, CourseInduction
<1> QED
  BY <1>3 DEF S

\* After a page that is not the last the next place is one page further.
LEMMA GoesTurns ==
  ASSUME NEW c, NEW p, NEW a, NEW q, Goes(c, p, a, q), q.outcome = Pending, a.status = "2xx"
  PROVE  q.page = p.page + 1
<1>1. Onward(c, p, a).page = p.page + 1
  BY DEF Onward, Place
<1>2. ASSUME NEW end PROVE Stopped(c, p, a, end).outcome = end /\ Gained(c, p, a, end).outcome = end
  BY DEF Stopped, Gained, Place
<1>3. ASSUME NEW kind, NEW about, kind # "pending" PROVE Outcome(kind, about) # Pending
  BY <1>3 DEF Outcome, Pending
<1>4. ~Retried(p, a)
  BY DEF Retried
<1>5. Advances(c, p, a, q)
  BY DEF Goes
<1> QED
  BY <1>1, <1>2, <1>3, <1>4, <1>5 DEF Advances

LEMMA AskedAlike ==
  ASSUME NEW c, NEW query, NEW other
  PROVE  [Asked(c, query) EXCEPT !.params = <<>>] = [Asked(c, other) EXCEPT !.params = <<>>]
<1>1. ASSUME NEW x
      PROVE  [Asked(c, x) EXCEPT !.params = <<>>] = Asked(c, <<>>)
  BY DEF Asked
<1> QED
  BY <1>1

\* A failed request is repeated to the letter; the request after a page is the same but for the
\* token, which is the one that page named; no key is given twice.
THEOREM TokensAreFollowed == Spec => []PagesFollowTokens
<1>1. ASSUME IInv PROVE PagesFollowTokens
  <2>1. PICK H : OnCourse(H)
    BY <1>1 DEF IInv
  <2>2. call \in Sessions /\ Course(call, answers, H)
    BY <1>1, <2>1 DEF IInv, Domains, OnCourse
  <2>3. SUFFICES ASSUME NEW t \in Twins
        PROVE  /\ \A i \in DOMAIN sent[t] :
                    \A m, n \in DOMAIN sent[t][i].params :
                      sent[t][i].params[m][1] = sent[t][i].params[n][1] => m = n
               /\ \A i \in 1..Len(sent[t]) - 1 :
                    IF answers[i].status = "2xx"
                    THEN /\ Query(sent[t][i + 1])
                              = [page_token |-> Tokens[PageNumber(i)]] ++ Query(sent[t][i])
                         /\ [sent[t][i + 1] EXCEPT !.params = <<>>] = [sent[t][i] EXCEPT !.params = <<>>]
                    ELSE sent[t][i + 1] = sent[t][i]
    BY Zenon DEF PagesFollowTokens
  <2> DEFINE N == Len(sent[t])
  <2>4. Follows(t, H) /\ N \in Nat /\ N <= Len(answers) /\ Len(answers) \in Nat
        /\ DOMAIN sent[t] = 1..N
    BY <2>1, ListSeq DEF OnCourse, Follows, Course, IsList
  <2> HIDE DEF N
  <2>5. ASSUME NEW i \in 1..N
        PROVE  /\ i - 1 \in 0..Len(answers) /\ sent[t][i] = Asked(call, H[i - 1].params)
               /\ sent[t][i].params = H[i - 1].params /\ IsQuery(sent[t][i].params)
    <3>1. i - 1 \in 0..Len(answers)
      BY <2>4
    <3>2. sent[t][i] = Asked(call, H[i - 1].params)
      BY <2>4 DEF Follows, N
    <3>3. sent[t][i].params = H[i - 1].params
      BY <3>2 DEF Asked
    <3> QED
      BY <2>2, <3>1, <3>2, <3>3, CourseAsks DEF Asks
  <2>6. ASSUME NEW i \in DOMAIN sent[t], NEW m \in DOMAIN sent[t][i].params,
               NEW n \in DOMAIN sent[t][i].params,
               sent[t][i].params[m][1] = sent[t][i].params[n][1]
        PROVE  m = n
    <3> DEFINE query == sent[t][i].params
    <3>1. IsQuery(query)
      BY <2>4, <2>5
    <3> HIDE DEF query
    <3>2. DOMAIN query = 1..Len(query)
      BY <3>1, ListSeq DEF IsQuery
    <3>3. \A x, y \in DOMAIN query : query[x][1] = query[y][1] => x = y
      BY <3>1, <3>2 DEF IsQuery
    <3> QED
      BY <2>6, <3>3 DEF query
  <2>7. ASSUME NEW i \in 1..N - 1
        PROVE  IF answers[i].status = "2xx"
               THEN /\ Query(sent[t][i + 1])
                         = [page_token |-> Tokens[PageNumber(i)]] ++ Query(sent[t][i])
                    /\ [sent[t][i + 1] EXCEPT !.params = <<>>] = [sent[t][i] EXCEPT !.params = <<>>]
               ELSE sent[t][i + 1] = sent[t][i]
    <3>1. i \in Nat /\ i \in 1..N /\ i + 1 \in 1..N /\ i \in 1..Len(answers)
          /\ i + 1 \in 1..Len(answers) /\ (i + 1) - 1 = i
          /\ (i - 1) + 1 = i /\ i - 1 \in 0..Len(answers) /\ i - 1 \in Nat /\ i \in 0..Len(answers)
      BY <2>4
    <3> DEFINE p == H[i - 1]
               a == answers[i]
               q == H[i]
    <3>2. Goes(call, p, a, q)
      BY <2>2, <3>1 DEF Course
    <3>3. Goes(call, H[(i + 1) - 1], answers[i + 1], H[i + 1])
      BY <2>2, <3>1 DEF Course
    <3>4. q.outcome = Pending /\ p.outcome = Pending
      BY <3>1, <3>2, <3>3 DEF Goes
    <3>5. q.page = PageNumber(i)
      BY <2>2, <3>1, <3>4, CoursePages DEF Pending, Outcome, PageNumber, Pages, PagesOf
    <3>6. Asks(call, p.params) /\ p.page \in Nat
      BY <2>2, <3>1, CourseAsks, CourseInRange DEF InRange
    <3>7. sent[t][i] = Asked(call, p.params) /\ sent[t][i + 1] = Asked(call, q.params)
          /\ sent[t][i].params = p.params /\ sent[t][i + 1].params = q.params
      BY <2>5, <3>1
    <3> HIDE DEF p, a, q
    <3>8. CASE a.status = "2xx"
      <4>1. Values(q.params) = [page_token |-> Tokens[p.page + 1]] ++ Values(p.params)
        BY <2>2, <3>2, <3>4, <3>6, <3>8, GoesAsks
      <4>2. q.page = p.page + 1
        BY <3>2, <3>4, <3>8, GoesTurns
      <4>3. Query(sent[t][i]) = Values(p.params) /\ Query(sent[t][i + 1]) = Values(q.params)
        BY <3>7 DEF Query, Values
      <4>4. [sent[t][i + 1] EXCEPT !.params = <<>>] = [sent[t][i] EXCEPT !.params = <<>>]
        BY <3>7, AskedAlike
      <4> QED
        BY <3>5, <3>8, <4>1, <4>2, <4>3, <4>4 DEF a
    <3>9. CASE a.status # "2xx"
      <4>1. q.params = p.params
        BY <2>2, <3>2, <3>4, <3>6, <3>9, GoesAsks
      <4> QED
        BY <3>7, <3>9, <4>1 DEF a
    <3> QED
      BY <3>8, <3>9
  <2> QED
    BY <2>6, <2>7 DEF N
<1> QED
  BY <1>1, CourseKept, PTL

(***************************************************************************)
(* Results: what a call that gathers pages has of each.  An item is        *)
(* <<page, symbol>>, and a line a list of items.                           *)
(***************************************************************************)

LEMMA ListConcat ==
  ASSUME NEW s, IsList(s), NEW t, IsList(t)
  PROVE  /\ IsList(s \o t) /\ Len(s \o t) = Len(s) + Len(t)
         /\ \A k \in 1..Len(s) : (s \o t)[k] = s[k]
         /\ \A k \in 1..Len(t) : (s \o t)[Len(s) + k] = t[k]
<1> DEFINE V == {s[k] : k \in 1..Len(s)} \cup {t[k] : k \in 1..Len(t)}
<1>1. s \in Seq(V) /\ t \in Seq(V)
  <2>1. /\ s \in Seq({s[k] : k \in 1..Len(s)}) /\ t \in Seq({t[k] : k \in 1..Len(t)})
        /\ Len(s) \in Nat /\ Len(t) \in Nat
        /\ s = [k \in 1..Len(s) |-> s[k]] /\ t = [k \in 1..Len(t) |-> t[k]]
    BY ListSeq DEF IsList
  <2> QED
    BY <2>1
<1> HIDE DEF V
<1>2. s \o t \in Seq(V) /\ Len(s \o t) = Len(s) + Len(t)
  BY <1>1
<1>3. /\ \A k \in 1..Len(s) : (s \o t)[k] = s[k]
      /\ \A k \in 1..Len(t) : (s \o t)[Len(s) + k] = t[k]
  BY <1>1
<1> QED
  BY <1>2, <1>3, ListOf

\* The elements of a set in a list, in some order and each once.
LEMMA SetInList ==
  ASSUME NEW S, IsFiniteSet(S)
  PROVE  LET list == SetToSeq(S)
         IN  /\ IsList(list)
             /\ \A i \in 1..Len(list) : list[i] \in S
             /\ \A x \in S : \E i \in 1..Len(list) : list[i] = x
             /\ \A i, j \in 1..Len(list) : list[i] = list[j] => i = j
<1> DEFINE n == Cardinality(S)
           list == SetToSeq(S)
<1>1. n \in Nat /\ ExistsBijection(1..n, S)
  BY FS_CardinalityType
<1>2. \E f \in [1..n -> S] : IsInjective(f)
  BY <1>1 DEF ExistsBijection, Bijection, Injection
<1>3. list \in [1..n -> S] /\ IsInjective(list)
  BY <1>2 DEF SetToSeq
<1> HIDE DEF list
<1>4. list \in Injection(1..n, S)
  BY <1>3 DEF Injection
<1>5. Cardinality(1..n) = n
  BY <1>1, FS_Interval
<1>6. list \in Surjection(1..n, S)
  BY <1>4, <1>5, FS_Injection
<1> HIDE DEF n
<1>7. IsList(list) /\ Len(list) = n
  BY <1>1, <1>3, ListLength
<1>8. \A i, j \in 1..n : list[i] = list[j] => i = j
  BY <1>3 DEF IsInjective
<1>9. \A x \in S : \E i \in 1..n : list[i] = x
  BY <1>6 DEF Surjection
<1> QED
  BY <1>3, <1>7, <1>8, <1>9 DEF list

LEMMA PairsFinite ==
  ASSUME NEW S, IsFiniteSet(S), NEW m
  PROVE  IsFiniteSet({<<m, s>> : s \in S})
<1> DEFINE T == {<<m, s>> : s \in S}
           f == [s \in S |-> <<m, s>>]
<1>1. f \in Surjection(S, T)
  BY DEF Surjection
<1> HIDE DEF f, T
<1>2. IsFiniteSet(T)
  BY <1>1, FS_Surjection
<1> QED
  BY <1>2 DEF T

\* The places of a symbol in a line, and what the line has of it: these items, each once, in the
\* order of their pages, of which there have been m.
Own(line, s) == {i \in 1..Len(line) : line[i][2] = s}

Holds(line, s, items, m) ==
  /\ {line[i] : i \in Own(line, s)} = items
  /\ \A i, j \in Own(line, s) : i < j => line[i][1] < line[j][1]
  /\ \A i \in Own(line, s) : line[i][1] \in 1..m

\* Items of page m, one of a symbol at most.
OfPage(more, m) ==
  /\ IsList(more)
  /\ \A i \in 1..Len(more) : more[i] = <<m, more[i][2]>> /\ more[i][1] = m
  /\ \A i, j \in 1..Len(more) : more[i][2] = more[j][2] => i = j

Names(more, s) == \E i \in 1..Len(more) : more[i][2] = s

LEMMA HoldsMore ==
  ASSUME NEW line, IsList(line), NEW s, NEW items, NEW m \in Nat, Holds(line, s, items, m),
         NEW more, OfPage(more, m + 1)
  PROVE  Holds(line \o more, s, items \cup (IF Names(more, s) THEN {<<m + 1, s>>} ELSE {}), m + 1)
<1> DEFINE after == line \o more
           n == Len(line)
           l == Len(more)
<1>1. n \in Nat /\ l \in Nat /\ IsList(more)
  BY DEF OfPage, IsList
<1>2. /\ Len(after) = n + l
      /\ \A k \in 1..n : after[k] = line[k]
      /\ \A k \in 1..l : after[n + k] = more[k]
  BY <1>1, ListConcat
<1>3. \A k \in 1..l : more[k] = <<m + 1, more[k][2]>> /\ more[k][1] = m + 1
  BY DEF OfPage
<1>4. \A i, j \in 1..l : more[i][2] = more[j][2] => i = j
  BY DEF OfPage
<1>5. Own(line, s) = {i \in 1..n : line[i][2] = s}
  BY DEF Own
<1>6. Names(more, s) <=> \E i \in 1..l : more[i][2] = s
  BY DEF Names
<1> HIDE DEF after, n, l
<1>7. /\ \A i \in 1..n : i \in 1..(n + l)
      /\ \A k \in 1..l : n + k \in 1..(n + l) /\ n + k \notin 1..n
      /\ \A i \in 1..(n + l) : i \in 1..n \/ (i - n \in 1..l /\ n + (i - n) = i)
  BY <1>1
<1>8. ASSUME NEW i \in Own(after, s)
      PROVE  \/ i \in Own(line, s) /\ after[i] = line[i]
             \/ i - n \in 1..l /\ i = n + (i - n) /\ after[i] = more[i - n] /\ more[i - n][2] = s
  BY <1>2, <1>5, <1>7 DEF Own
<1>9. \A i \in Own(line, s) : i \in Own(after, s) /\ after[i] = line[i]
  BY <1>2, <1>5, <1>7 DEF Own
<1>10. \A k \in 1..l : more[k][2] = s => n + k \in Own(after, s) /\ after[n + k] = more[k]
  BY <1>2, <1>7 DEF Own
<1> DEFINE gained == IF Names(more, s) THEN {<<m + 1, s>>} ELSE {}
<1>11. {after[i] : i \in Own(after, s)} = items \cup gained
  <2>1. ASSUME NEW i \in Own(after, s) PROVE after[i] \in items \cup gained
    <3>1. CASE i \in Own(line, s) /\ after[i] = line[i]
      BY <3>1 DEF Holds
    <3>2. CASE i - n \in 1..l /\ after[i] = more[i - n] /\ more[i - n][2] = s
      BY <1>3, <1>6, <3>2
    <3> QED
      BY <1>8, <3>1, <3>2
  <2>2. items \subseteq {after[i] : i \in Own(after, s)}
    BY <1>9 DEF Holds
  <2>3. gained \subseteq {after[i] : i \in Own(after, s)}
    <3>1. SUFFICES ASSUME Names(more, s) PROVE <<m + 1, s>> \in {after[i] : i \in Own(after, s)}
      OBVIOUS
    <3>2. PICK k \in 1..l : more[k][2] = s
      BY <1>6, <3>1
    <3>3. more[k] = <<m + 1, s>>
      BY <1>3, <3>2
    <3> QED
      BY <1>10, <3>2, <3>3
  <2> HIDE DEF gained
  <2> QED
    BY <2>1, <2>2, <2>3
<1>12. ASSUME NEW i \in Own(after, s), NEW j \in Own(after, s), i < j
       PROVE  after[i][1] < after[j][1]
  <2>1. CASE i \in Own(line, s) /\ after[i] = line[i] /\ j \in Own(line, s) /\ after[j] = line[j]
    BY <1>12, <2>1 DEF Holds
  <2>2. CASE i \in Own(line, s) /\ after[i] = line[i] /\ j - n \in 1..l /\ after[j] = more[j - n]
    <3>1. after[i][1] \in 1..m /\ after[j][1] = m + 1
      BY <1>3, <2>2 DEF Holds
    <3> QED
      BY <3>1
  <2>3. CASE i - n \in 1..l /\ i = n + (i - n) /\ j \in Own(line, s)
    <3>1. j \in 1..n
      BY <1>5, <2>3
    <3> QED
      BY <1>1, <1>12, <2>3, <3>1
  <2>4. CASE /\ i - n \in 1..l /\ i = n + (i - n) /\ more[i - n][2] = s
             /\ j - n \in 1..l /\ j = n + (j - n) /\ more[j - n][2] = s
    <3>1. i - n = j - n
      BY <1>4, <2>4
    <3>2. i = j
      BY <2>4, <3>1
    <3>3. i \in Int
      BY <1>1, <2>4
    <3> QED
      BY <1>12, <3>2, <3>3
  <2> QED
    BY <1>8, <2>1, <2>2, <2>3, <2>4
<1>13. ASSUME NEW i \in Own(after, s) PROVE after[i][1] \in 1..(m + 1)
  <2>1. CASE i \in Own(line, s) /\ after[i] = line[i]
    <3>1. after[i][1] \in 1..m
      BY <2>1 DEF Holds
    <3> QED
      BY <3>1
  <2>2. CASE i - n \in 1..l /\ after[i] = more[i - n]
    BY <1>3, <2>2
  <2> QED
    BY <1>8, <2>1, <2>2
<1>14. Holds(after, s, items \cup gained, m + 1)
  BY <1>11, <1>12, <1>13 DEF Holds
<1> QED
  BY <1>14 DEF after

\* Where a reply puts what it has of a symbol.
LineAt(reply, s) == IF reply.shape = "actions" THEN "all" ELSE s

LEMMA NothingAt ==
  ASSUME NEW s \in Slot
  PROVE  Nothing[s] = <<>> /\ "all" \in Slot /\ IsList(<<>>) /\ Len(<<>>) = 0
  BY DEF Nothing, Slot, IsList

\* A page gives one item for each symbol it offers.
LEMMA TakenMore ==
  ASSUME NEW reply, reply.shape \in {"append", "merge", "actions"},
         NEW body, body.entries \subseteq Symbols, NEW m, NEW s \in Slot
  PROVE  LET more == Taken(reply, body, m)[LineAt(reply, s)]
         IN  /\ OfPage(more, m)
             /\ Names(more, s) <=> s \in Offered(reply, body)
             /\ reply.shape # "actions" => \A i \in 1..Len(more) : more[i][2] = s
<1> DEFINE more == Taken(reply, body, m)[LineAt(reply, s)]
           one(x) == <<<<m, x>>>>
<1>1. OfPage(<<>>, m) /\ ~Names(<<>>, s)
  BY DEF OfPage, Names, IsList
<1>2. ASSUME NEW x
      PROVE  OfPage(one(x), m) /\ (Names(one(x), s) <=> x = s) /\ Len(one(x)) = 1 /\ one(x)[1][2] = x
  <2>1. Len(one(x)) = 1 /\ one(x)[1] = <<m, x>> /\ 1..1 = {1} /\ one(x) = [k \in 1..1 |-> one(x)[k]]
    OBVIOUS
  <2>2. <<m, x>>[1] = m /\ <<m, x>>[2] = x
    OBVIOUS
  <2> HIDE DEF one
  <2>3. IsList(one(x))
    BY <2>1, ListLength
  <2> QED
    BY <2>1, <2>2, <2>3 DEF OfPage, Names
<1>3. CASE ~Found(reply, body)
  <2>1. more = <<>>
    BY <1>3, NothingAt DEF Taken, LineAt
  <2>2. Offered(reply, body) = {}
    BY <1>3 DEF Offered
  <2> QED
    BY <1>1, <2>1, <2>2 DEF Offered
<1>4. CASE Found(reply, body) /\ reply.shape = "append"
  <2>1. more = IF s = "all" THEN one("all") ELSE <<>>
    BY <1>4, NothingAt DEF Taken, LineAt, All, Nothing
  <2>2. Offered(reply, body) = {"all"}
    BY <1>4 DEF Offered
  <2> HIDE DEF one, more
  <2>3. OfPage(more, m) /\ (Names(more, s) <=> s = "all") /\ \A i \in 1..Len(more) : more[i][2] = s
    BY <1>1, <1>2, <2>1
  <2> QED
    BY <2>2, <2>3 DEF more
<1>5. CASE Found(reply, body) /\ reply.shape = "merge"
  <2>1. more = IF s \in body.entries THEN one(s) ELSE <<>>
    BY <1>5 DEF Taken, LineAt, PerSymbol
  <2>2. Offered(reply, body) = body.entries
    BY <1>5 DEF Offered
  <2> HIDE DEF one, more
  <2>3. OfPage(more, m) /\ (Names(more, s) <=> s \in body.entries)
        /\ \A i \in 1..Len(more) : more[i][2] = s
    BY <1>1, <1>2, <2>1
  <2> QED
    BY <2>2, <2>3 DEF more
<1>6. CASE Found(reply, body) /\ reply.shape = "actions"
  <2> DEFINE S == {<<m, x>> : x \in body.entries}
  <2>1. more = SetToSeq(S)
    BY <1>6, NothingAt DEF Taken, LineAt, All, Nothing
  <2>2. Offered(reply, body) = body.entries
    BY <1>6 DEF Offered
  <2>3. IsFiniteSet(body.entries)
    BY SymbolAssumption, FS_Subset
  <2>4. IsFiniteSet(S)
    BY <2>3, PairsFinite
  <2>5. \A y \in S : y = <<m, y[2]>> /\ y[1] = m /\ y[2] \in body.entries
    OBVIOUS
  <2>6. \A x \in body.entries : <<m, x>> \in S /\ <<m, x>>[2] = x
    OBVIOUS
  <2> HIDE DEF S, more
  <2>7. /\ IsList(more) /\ \A i \in 1..Len(more) : more[i] \in S
        /\ \A x \in S : \E i \in 1..Len(more) : more[i] = x
        /\ \A i, j \in 1..Len(more) : more[i] = more[j] => i = j
    BY <2>1, <2>4, SetInList
  <2>8. OfPage(more, m)
    <3>1. \A i \in 1..Len(more) : more[i] = <<m, more[i][2]>> /\ more[i][1] = m
      BY <2>5, <2>7
    <3>2. \A i, j \in 1..Len(more) : more[i][2] = more[j][2] => more[i] = more[j]
      BY <3>1
    <3> QED
      BY <2>7, <3>1, <3>2 DEF OfPage
  <2>9. Names(more, s) <=> s \in body.entries
    <3>1. ASSUME s \in body.entries PROVE Names(more, s)
      <4>1. PICK i \in 1..Len(more) : more[i] = <<m, s>>
        BY <2>6, <2>7, <3>1
      <4>2. more[i][2] = s
        BY <4>1
      <4> QED
        BY <4>2 DEF Names
    <3>2. ASSUME Names(more, s) PROVE s \in body.entries
      BY <2>5, <2>7, <3>2 DEF Names
    <3> QED
      BY <3>1, <3>2
  <2> QED
    BY <1>6, <2>2, <2>8, <2>9 DEF more
<1> QED
  BY <1>3, <1>4, <1>5, <1>6

\* What the pages among k answers offer of a symbol.
Items(reply, answered, k, x) ==
  {<<Cardinality(PagesOf(answered, i)), x>> :
     i \in {j \in PagesOf(answered, k) : x \in Offered(reply, answered[j].body)}}

\* The pages among k answers whose chain has the symbol.
InChain(body, x) == is_object(body, "object") /\ x \in body.entries \cup body.odd

Chain(answered, k, x) ==
  {Cardinality(PagesOf(answered, i)) : i \in {j \in PagesOf(answered, k) : InChain(answered[j].body, x)}}

LEMMA PagesSplit ==
  ASSUME NEW s, NEW k \in Nat
  PROVE  /\ s[k + 1].status = "2xx" => PagesOf(s, k + 1) = PagesOf(s, k) \cup {k + 1}
         /\ s[k + 1].status # "2xx" => PagesOf(s, k + 1) = PagesOf(s, k)
  BY PagesMore DEF PagesOf

LEMMA ItemsSame ==
  ASSUME NEW reply, NEW s, NEW k \in Nat, NEW x, s[k + 1].status # "2xx"
  PROVE  Items(reply, s, k + 1, x) = Items(reply, s, k, x)
<1>1. PagesOf(s, k + 1) = PagesOf(s, k)
  BY PagesSplit
<1> QED
  BY <1>1 DEF Items

LEMMA ItemsMore ==
  ASSUME NEW reply, NEW s, NEW k \in Nat, NEW x, s[k + 1].status = "2xx"
  PROVE  Items(reply, s, k + 1, x) = Items(reply, s, k, x) \cup
           (IF x \in Offered(reply, s[k + 1].body)
            THEN {<<Cardinality(PagesOf(s, k)) + 1, x>>} ELSE {})
<1> DEFINE n(i) == Cardinality(PagesOf(s, i))
           offers(i) == x \in Offered(reply, s[i].body)
<1>1. \A i : Items(reply, s, i, x) = {<<n(j), x>> : j \in {j \in PagesOf(s, i) : offers(j)}}
  BY DEF Items
<1>2. PagesOf(s, k + 1) = PagesOf(s, k) \cup {k + 1} /\ n(k + 1) = n(k) + 1
  BY PagesMore, PagesSplit
<1> HIDE DEF n, offers
<1>3. Items(reply, s, k + 1, x)
        = Items(reply, s, k, x) \cup (IF offers(k + 1) THEN {<<n(k) + 1, x>>} ELSE {})
  BY <1>1, <1>2
<1> QED
  BY <1>3 DEF n, offers

LEMMA ChainMore ==
  ASSUME NEW s, NEW k \in Nat, NEW x
  PROVE  /\ Chain(s, 0, x) = {}
         /\ s[k + 1].status # "2xx" => Chain(s, k + 1, x) = Chain(s, k, x)
         /\ s[k + 1].status = "2xx" =>
              Chain(s, k + 1, x) = Chain(s, k, x) \cup
                (IF InChain(s[k + 1].body, x) THEN {Cardinality(PagesOf(s, k)) + 1} ELSE {})
<1> DEFINE n(i) == Cardinality(PagesOf(s, i))
           has(i) == InChain(s[i].body, x)
<1>1. \A i : Chain(s, i, x) = {n(j) : j \in {j \in PagesOf(s, i) : has(j)}}
  BY DEF Chain
<1>2. PagesOf(s, 0) = {}
  BY DEF PagesOf
<1>3. s[k + 1].status = "2xx" => n(k + 1) = n(k) + 1
  BY PagesMore
<1> HIDE DEF n, has
<1>4. Chain(s, 0, x) = {}
  BY <1>1, <1>2
<1>5. s[k + 1].status # "2xx" => Chain(s, k + 1, x) = Chain(s, k, x)
  BY <1>1, PagesSplit
<1>6. ASSUME s[k + 1].status = "2xx"
      PROVE  Chain(s, k + 1, x) = Chain(s, k, x) \cup (IF has(k + 1) THEN {n(k) + 1} ELSE {})
  <2>1. PagesOf(s, k + 1) = PagesOf(s, k) \cup {k + 1} /\ n(k + 1) = n(k) + 1
    BY <1>3, <1>6, PagesSplit
  <2> QED
    BY <1>1, <2>1
<1> QED
  BY <1>4, <1>5, <1>6 DEF n, has

\* What an answer does to the result: a page is gathered, anything else leaves it.
LEMMA GoesResult ==
  ASSUME NEW c, NEW p, NEW a, NEW q, Goes(c, p, a, q), q.outcome.kind # "parse_error"
  PROVE  \/ a.status # "2xx" /\ q.result = p.result
         \/ /\ a.status = "2xx" /\ q.result = Gathered(c, p, a)
            /\ \E body \in Bodies(c) : a = Success(body)
<1>1. Again(c, p, a).result = p.result /\ Onward(c, p, a).result = Gathered(c, p, a)
  BY DEF Again, Onward, Place
<1>2. ASSUME NEW end
      PROVE  /\ Stopped(c, p, a, end).result = p.result /\ Stopped(c, p, a, end).outcome = end
             /\ Gained(c, p, a, end).result = Gathered(c, p, a)
  BY DEF Stopped, Gained, Place
<1>3. Outcome("parse_error", <<>>).kind = "parse_error"
  BY DEF Outcome
<1>4. Advances(c, p, a, q) /\ (a.status = "2xx" => \E body \in Bodies(c) : a = Success(body))
  BY DEF Goes, Answerable
<1>5. (Whole(c, a) => a.status = "2xx") /\ (Retried(p, a) => a.status # "2xx")
  BY DEF Whole, Retried
<1> QED
  BY <1>1, <1>2, <1>3, <1>4, <1>5 DEF Advances

\* What a call has gathered after k answers, where pages are appended.
Collected(c, s, k, p) ==
  LET reply == MethodOf(c).reply
  IN  \A x \in Slot :
        /\ IsList(p.result[x])
        /\ Holds(p.result[LineAt(reply, x)], x, Items(reply, s, k, x), Cardinality(PagesOf(s, k)))
        /\ reply.shape # "actions" => \A i \in 1..Len(p.result[x]) : p.result[x][i][2] = x

LEMMA CourseCollects ==
  ASSUME NEW c \in Sessions, NEW s, NEW H, Course(c, s, H), NEW k \in 0..Len(s),
         MethodOf(c).reply.shape \in {"append", "merge", "actions"},
         H[k].outcome.kind # "parse_error"
  PROVE  Collected(c, s, k, H[k])
<1> DEFINE reply == MethodOf(c).reply
           S == {i \in Nat : i <= Len(s) => (H[i].outcome.kind # "parse_error" => Collected(c, s, i, H[i]))}
<1>1. 0 \in S
  <2>1. H[0].result = Nothing
    BY DEF Course, Start, Place
  <2>2. ASSUME NEW x \in Slot
        PROVE  /\ LineAt(reply, x) \in Slot
               /\ Holds(<<>>, x, Items(reply, s, 0, x), Cardinality(PagesOf(s, 0)))
    <3>1. LineAt(reply, x) \in Slot
      BY NothingAt DEF LineAt
    <3>2. Items(reply, s, 0, x) = {}
      BY DEF Items, PagesOf
    <3>3. Own(<<>>, x) = {}
      BY NothingAt DEF Own
    <3> QED
      BY <3>1, <3>2, <3>3 DEF Holds
  <2>3. Collected(c, s, 0, H[0])
    BY <2>1, <2>2, NothingAt DEF Collected
  <2> QED
    BY <2>3
<1>2. ASSUME NEW i \in Nat, i + 1 <= Len(s), i \in S, Goes(c, H[i], s[i + 1], H[i + 1]) PROVE i + 1 \in S
  <2> DEFINE p == H[i]
             a == s[i + 1]
             q == H[i + 1]
             m == Cardinality(PagesOf(s, i))
             l == Cardinality(PagesOf(s, i + 1))
  <2>1. SUFFICES ASSUME q.outcome.kind # "parse_error" PROVE Collected(c, s, i + 1, q)
    OBVIOUS
  <2>2. Goes(c, p, a, q)
    BY <1>2
  <2>3. Len(s) \in Nat
    BY DEF Course, IsList
  <2>4. p.outcome.kind # "parse_error"
    BY <2>2 DEF Goes, Pending, Outcome
  <2>5. Collected(c, s, i, p)
    BY <1>2, <2>3, <2>4
  <2>6. p.page = m
    <3>1. i \in 0..Len(s)
      BY <1>2, <2>3
    <3> QED
      BY <2>4, <3>1, CoursePages
  <2>7. m \in Nat /\ (a.status = "2xx" => l = m + 1) /\ (a.status # "2xx" => l = m)
    BY PagesMore
  <2> HIDE DEF p, q, m, l
  <2>8. CASE a.status # "2xx" /\ q.result = p.result
    <3>1. ASSUME NEW x \in Slot PROVE Items(reply, s, i + 1, x) = Items(reply, s, i, x)
      <4>1. s[i + 1].status # "2xx"
        BY <2>8
      <4> HIDE DEF reply, a
      <4> QED
        BY <4>1, ItemsSame
    <3> QED
      BY <2>5, <2>7, <2>8, <3>1 DEF Collected, l, m
  <2>9. CASE /\ a.status = "2xx" /\ q.result = Gathered(c, p, a)
             /\ \E body \in Bodies(c) : a = Success(body)
    <3> DEFINE taken == Taken(reply, a.body, m + 1)
    <3>1. a.body.entries \subseteq Symbols
      BY <2>9, BodyAssumption DEF Success
    <3>2. \A x \in Slot : q.result[x] = p.result[x] \o taken[x]
      BY <2>6, <2>9 DEF Gathered, Absorb
    <3> DEFINE more(x) == taken[LineAt(reply, x)]
    <3>3. ASSUME NEW x \in Slot
          PROVE  /\ OfPage(more(x), m + 1)
                 /\ Names(more(x), x) <=> x \in Offered(reply, a.body)
                 /\ reply.shape # "actions" => \A j \in 1..Len(more(x)) : more(x)[j][2] = x
      BY <3>1, TakenMore
    <3> HIDE DEF taken, reply
    <3>4. ASSUME NEW x \in Slot
          PROVE  /\ IsList(q.result[x])
                 /\ Holds(q.result[LineAt(reply, x)], x, Items(reply, s, i + 1, x), l)
                 /\ reply.shape # "actions" => \A j \in 1..Len(q.result[x]) : q.result[x][j][2] = x
      <4> DEFINE y == LineAt(reply, x)
      <4>1. y \in Slot /\ (reply.shape # "actions" => y = x)
        BY NothingAt DEF LineAt
      <4>2. IsList(p.result[x]) /\ IsList(p.result[y]) /\ Holds(p.result[y], x, Items(reply, s, i, x), m)
            /\ (reply.shape # "actions" => \A j \in 1..Len(p.result[x]) : p.result[x][j][2] = x)
        BY <2>5, <4>1 DEF Collected, reply, m
      <4>3. OfPage(taken[y], m + 1) /\ (Names(taken[y], x) <=> x \in Offered(reply, a.body))
            /\ (reply.shape # "actions" => \A j \in 1..Len(taken[y]) : taken[y][j][2] = x)
        BY <3>3
      <4> HIDE DEF y
      <4>4. q.result[y] = p.result[y] \o taken[y]
        BY <3>2, <4>1
      <4>5. Holds(q.result[y], x, Items(reply, s, i, x) \cup
                  (IF Names(taken[y], x) THEN {<<m + 1, x>>} ELSE {}), m + 1)
        BY <2>7, <4>2, <4>3, <4>4, HoldsMore
      <4>6. Items(reply, s, i + 1, x) = Items(reply, s, i, x) \cup
              (IF x \in Offered(reply, a.body) THEN {<<m + 1, x>>} ELSE {})
        <5>1. s[i + 1].status = "2xx" /\ a = s[i + 1]
          BY <2>9
        <5> HIDE DEF a
        <5> QED
          BY <5>1, ItemsMore DEF m
      <4>7. Holds(q.result[y], x, Items(reply, s, i + 1, x), l)
        <5>1. Items(reply, s, i + 1, x) = Items(reply, s, i, x) \cup
                (IF Names(taken[y], x) THEN {<<m + 1, x>>} ELSE {})
          BY <4>3, <4>6
        <5>2. l = m + 1
          BY <2>7, <2>9
        <5> QED
          BY <4>5, <5>1, <5>2
      <4>8. IsList(q.result[x])
        <5>1. IsList(taken[x])
          <6>1. CASE reply.shape # "actions"
            BY <4>1, <4>3, <6>1 DEF OfPage
          <6>2. CASE reply.shape = "actions"
            <7>1. CASE x = "all"
              <8>1. y = x
                BY <6>2, <7>1 DEF y, LineAt
              <8> QED
                BY <4>3, <8>1 DEF OfPage
            <7>2. CASE x # "all"
              <8>1. taken[x] = <<>>
                BY <6>2, <7>2, NothingAt DEF taken, Taken, All, Nothing
              <8> QED
                BY <8>1, NothingAt
            <7> QED
              BY <7>1, <7>2
          <6> QED
            BY <6>1, <6>2
        <5>2. q.result[x] = p.result[x] \o taken[x]
          BY <3>2
        <5> QED
          BY <4>2, <5>1, <5>2, ListConcat
      <4>9. ASSUME reply.shape # "actions", NEW j \in 1..Len(q.result[x]) PROVE q.result[x][j][2] = x
        <5> DEFINE line == p.result[x]
                   new == taken[x]
        <5>1. y = x
          BY <4>1, <4>9
        <5>2. IsList(line) /\ IsList(new) /\ q.result[x] = line \o new
              /\ (\A h \in 1..Len(line) : line[h][2] = x) /\ \A h \in 1..Len(new) : new[h][2] = x
          BY <4>2, <4>3, <4>4, <4>9, <5>1 DEF OfPage
        <5> HIDE DEF line, new
        <5>3. /\ Len(line \o new) = Len(line) + Len(new)
              /\ \A h \in 1..Len(line) : (line \o new)[h] = line[h]
              /\ \A h \in 1..Len(new) : (line \o new)[Len(line) + h] = new[h]
              /\ Len(line) \in Nat /\ Len(new) \in Nat
          BY <5>2, ListConcat DEF IsList
        <5>4. j \in 1..Len(line) \/ (j - Len(line) \in 1..Len(new) /\ Len(line) + (j - Len(line)) = j)
          BY <4>9, <5>2, <5>3
        <5> QED
          BY <5>2, <5>3, <5>4
      <4> QED
        BY <4>7, <4>8, <4>9 DEF y
    <3> QED
      BY <3>4 DEF Collected, reply, l
  <2> QED
    BY <2>1, <2>2, <2>8, <2>9, GoesResult
<1> HIDE DEF S
<1>3. 0..Len(s) \subseteq S
  BY <1>1, <1>2, CourseInduction
<1> QED
  BY <1>3 DEF S

LEMMA MinIs ==
  ASSUME NEW S, S \subseteq Int, NEW x \in S, \A y \in S : x <= y
  PROVE  Min(S) = x
<1>1. Min(S) \in S /\ \A y \in S : Min(S) <= y
  BY DEF Min
<1>2. Min(S) <= x /\ x <= Min(S) /\ Min(S) \in Int /\ x \in Int
  BY <1>1
<1> QED
  BY <1>2

\* What a call has of a chain after k answers: of each symbol the entry of the first page that
\* has it, of m pages.
First(line, x, chain, m) ==
  /\ chain \subseteq 1..m
  /\ \/ chain = {} /\ line = <<>>
     \/ \E f \in chain : (\A y \in chain : f <= y) /\ line = <<<<f, x>>>>

LEMMA FirstKept ==
  ASSUME NEW line, NEW x, NEW chain, NEW m \in Nat, First(line, x, chain, m), NEW has
  PROVE  First(IF line # <<>> THEN line ELSE line \o (IF has = "yes" THEN <<<<m + 1, x>>>> ELSE <<>>),
               x, chain \cup (IF has = "yes" THEN {m + 1} ELSE {}), m + 1)
<1> DEFINE one(f) == <<<<f, x>>>>
           after == IF line # <<>> THEN line ELSE line \o (IF has = "yes" THEN one(m + 1) ELSE <<>>)
           longer == chain \cup (IF has = "yes" THEN {m + 1} ELSE {})
<1>1. \A f : one(f) # <<>> /\ <<>> \o one(f) = one(f)
  OBVIOUS
<1>2. <<>> \o <<>> = <<>>
  OBVIOUS
<1>3. longer \subseteq 1..(m + 1) /\ chain \subseteq 1..m
  BY DEF First
<1>4. First(line, x, chain, m) <=> (chain \subseteq 1..m /\ (\/ chain = {} /\ line = <<>>
        \/ \E f \in chain : (\A y \in chain : f <= y) /\ line = one(f)))
  BY DEF First
<1> HIDE DEF one
<1>5. CASE chain = {} /\ line = <<>>
  <2>1. CASE has = "yes"
    <3>1. after = one(m + 1) /\ longer = {m + 1}
      BY <1>1, <1>5, <2>1
    <3>2. m + 1 \in longer /\ \A y \in longer : m + 1 <= y
      BY <3>1
    <3> QED
      BY <1>3, <3>1, <3>2 DEF First, one
  <2>2. CASE has # "yes"
    <3>1. after = <<>> /\ longer = {}
      BY <1>2, <1>5, <2>2
    <3> QED
      BY <1>3, <3>1 DEF First
  <2> QED
    BY <2>1, <2>2
<1>6. CASE \E f \in chain : (\A y \in chain : f <= y) /\ line = one(f)
  <2>1. PICK f \in chain : (\A y \in chain : f <= y) /\ line = one(f)
    BY <1>6
  <2>2. after = one(f)
    BY <1>1, <2>1
  <2>3. f \in longer /\ \A y \in longer : f <= y
    <3>1. f \in 1..m
      BY <1>3
    <3> QED
      BY <2>1, <3>1
  <2> HIDE DEF after, longer
  <2>4. First(after, x, longer, m + 1)
    BY <1>3, <2>2, <2>3 DEF First, one
  <2> QED
    BY <2>4 DEF after, longer, one
<1> QED
  BY <1>4, <1>5, <1>6

LEMMA TakenFirst ==
  ASSUME NEW reply, reply.shape = "first", NEW body, NEW m, NEW x \in Slot
  PROVE  Taken(reply, body, m)[x] = IF InChain(body, x) THEN <<<<m, x>>>> ELSE <<>>
<1>1. Found(reply, body) <=> is_object(body, "object")
  BY DEF Found
<1>2. Found(reply, body) => Taken(reply, body, m) = PerSymbol(body.entries \cup body.odd, m)
  BY DEF Taken
<1>3. ~Found(reply, body) => Taken(reply, body, m)[x] = <<>>
  BY NothingAt DEF Taken
<1>4. PerSymbol(body.entries \cup body.odd, m)[x]
        = IF x \in body.entries \cup body.odd THEN <<<<m, x>>>> ELSE <<>>
  BY DEF PerSymbol
<1> QED
  BY <1>1, <1>2, <1>3, <1>4 DEF InChain

Chained(s, k, p) ==
  \A x \in Slot : First(p.result[x], x, Chain(s, k, x), Cardinality(PagesOf(s, k)))

LEMMA CourseChains ==
  ASSUME NEW c, NEW s, NEW H, Course(c, s, H), NEW k \in 0..Len(s),
         MethodOf(c).reply.shape = "first", H[k].outcome.kind # "parse_error"
  PROVE  Chained(s, k, H[k])
<1> DEFINE reply == MethodOf(c).reply
           S == {i \in Nat : i <= Len(s) => (H[i].outcome.kind # "parse_error" => Chained(s, i, H[i]))}
<1>1. 0 \in S
  <2>1. H[0].result = Nothing
    BY DEF Course, Start, Place
  <2>2. Chained(s, 0, H[0])
    BY <2>1, NothingAt, ChainMore DEF Chained, First
  <2> QED
    BY <2>2
<1>2. ASSUME NEW i \in Nat, i + 1 <= Len(s), i \in S, Goes(c, H[i], s[i + 1], H[i + 1]) PROVE i + 1 \in S
  <2> DEFINE p == H[i]
             a == s[i + 1]
             q == H[i + 1]
             m == Cardinality(PagesOf(s, i))
             l == Cardinality(PagesOf(s, i + 1))
  <2>1. SUFFICES ASSUME q.outcome.kind # "parse_error" PROVE Chained(s, i + 1, q)
    OBVIOUS
  <2>2. Goes(c, p, a, q)
    BY <1>2
  <2>3. Len(s) \in Nat
    BY DEF Course, IsList
  <2>4. p.outcome.kind # "parse_error"
    BY <2>2 DEF Goes, Pending, Outcome
  <2>5. Chained(s, i, p)
    BY <1>2, <2>3, <2>4
  <2>6. p.page = m
    <3>1. i \in 0..Len(s)
      BY <1>2, <2>3
    <3> QED
      BY <2>4, <3>1, CoursePages
  <2>7. m \in Nat /\ (a.status = "2xx" => l = m + 1) /\ (a.status # "2xx" => l = m)
    BY PagesMore
  <2> HIDE DEF p, q, m, l
  <2>8. CASE a.status # "2xx" /\ q.result = p.result
    <3>1. ASSUME NEW x \in Slot PROVE Chain(s, i + 1, x) = Chain(s, i, x)
      BY <2>8, ChainMore
    <3> QED
      BY <2>5, <2>7, <2>8, <3>1 DEF Chained, l, m
  <2>9. CASE a.status = "2xx" /\ q.result = Gathered(c, p, a)
    <3>1. ASSUME NEW x \in Slot
          PROVE  First(q.result[x], x, Chain(s, i + 1, x), l)
      <4> DEFINE has == IF InChain(a.body, x) THEN "yes" ELSE "no"
                 line == p.result[x]
      <4>1. First(line, x, Chain(s, i, x), m)
        BY <2>5 DEF Chained, m
      <4>2. Taken(reply, a.body, m + 1)[x] = IF has = "yes" THEN <<<<m + 1, x>>>> ELSE <<>>
        BY TakenFirst
      <4>3. q.result[x] = IF line # <<>> THEN line ELSE line \o Taken(reply, a.body, m + 1)[x]
        BY <2>6, <2>9 DEF Gathered, Absorb
      <4>4. Chain(s, i + 1, x) = Chain(s, i, x) \cup (IF has = "yes" THEN {m + 1} ELSE {})
        BY <2>9, ChainMore DEF m
      <4>5. l = m + 1
        BY <2>7, <2>9
      <4> HIDE DEF has, line, a, reply
      <4>6. First(IF line # <<>> THEN line ELSE line \o (IF has = "yes" THEN <<<<m + 1, x>>>> ELSE <<>>),
                  x, Chain(s, i, x) \cup (IF has = "yes" THEN {m + 1} ELSE {}), m + 1)
        BY <2>7, <4>1, FirstKept
      <4> QED
        BY <4>2, <4>3, <4>4, <4>5, <4>6
    <3> QED
      BY <3>1 DEF Chained, l
  <2> QED
    BY <2>1, <2>2, <2>8, <2>9, GoesResult
<1> HIDE DEF S
<1>3. 0..Len(s) \subseteq S
  BY <1>1, <1>2, CourseInduction
<1> QED
  BY <1>3 DEF S

\* A call that gathers pages and has returned has had the page without a successor last.
LEMMA ReturnedLast ==
  ASSUME NEW c, NEW s, NEW H, Course(c, s, H), NEW n \in 0..Len(s),
         H[n].outcome.kind = "returned", MethodOf(c).reply.pages # "no"
  PROVE  n \in PagesOf(s, n) /\ ~HasToken(s[n].body)
<1>1. n # 0
  BY DEF Course, Start, Place, Pending, Outcome
<1>2. Len(s) \in Nat /\ n \in Nat
  BY DEF Course, IsList
<1>3. n \in 1..Len(s)
  BY <1>1, <1>2
<1> DEFINE p == H[n - 1]
           a == s[n]
           q == H[n]
<1>4. Goes(c, p, a, q)
  BY <1>3 DEF Course
<1> HIDE DEF p
<1>5. Again(c, p, a).outcome = Pending /\ Onward(c, p, a).outcome = Pending
  BY DEF Again, Onward, Place
<1>6. ASSUME NEW end PROVE Stopped(c, p, a, end).outcome = end /\ Gained(c, p, a, end).outcome = end
  BY DEF Stopped, Gained, Place
<1>7. ASSUME NEW kind, NEW about PROVE Outcome(kind, about).kind = kind
  BY DEF Outcome
<1>8. Pending.kind = "pending"
  BY <1>7 DEF Pending
<1>9. Whole(c, a) /\ Final(c, a)
  BY <1>4, <1>5, <1>6, <1>7, <1>8 DEF Goes, Advances
<1> QED
  BY <1>2, <1>3, <1>9 DEF Whole, Final, PagesOf

\* A call that gathers pages returns after the page without a successor and no earlier, with
\* every element of every page, once and in the order of the pages; of a chain with the entry of
\* the first page that has the symbol.
THEOREM ResultsAreWhole == Spec => []ReturnedIsWhole
<1>1. ASSUME IInv PROVE ReturnedIsWhole
  <2>1. PICK H : OnCourse(H)
    BY <1>1 DEF IInv
  <2>2. call \in Sessions /\ Course(call, answers, H)
    BY <1>1, <2>1 DEF IInv, Domains, OnCourse
  <2>3. ASSUME NEW t \in Twins, Method(t).reply.pages # "no", outcome[t].kind = "returned"
        PROVE  LET reply    == Method(t).reply
                   n        == Len(sent[t])
                   items(s) == {<<PageNumber(i), s>> :
                                  i \in {j \in Pages(n) : s \in Offered(reply, answers[j].body)}}
                   line(s)  == result[t][IF reply.shape = "actions" THEN "all" ELSE s]
                   own(s)   == {i \in DOMAIN line(s) : reply.shape = "actions" => line(s)[i][2] = s}
                   chain(s) == {PageNumber(i) : i \in {j \in Pages(n) :
                                  /\ is_object(answers[j].body, "object")
                                  /\ s \in answers[j].body.entries \cup answers[j].body.odd}}
               IN  /\ n \in Pages(n) /\ ~HasToken(answers[n].body)
                   /\ \A s \in Slot :
                        IF reply.shape = "first"
                        THEN result[t][s] = IF chain(s) = {} THEN <<>> ELSE <<<<Min(chain(s)), s>>>>
                        ELSE /\ {line(s)[i] : i \in own(s)} = items(s)
                             /\ \A i, j \in own(s) : i < j => line(s)[i][1] < line(s)[j][1]
    <3> DEFINE reply == MethodOf(call).reply
               n == Len(sent[t])
               p == H[n]
               m == Cardinality(PagesOf(answers, n))
    <3>1. Method(t).reply = reply
      BY <2>2, Methods
    <3>2. n \in 0..Len(answers) /\ result[t] = p.result /\ p.outcome = outcome[t]
      <4>1. Follows(t, H) /\ Len(answers) \in Nat
        BY <2>1, <2>2 DEF OnCourse, Course, IsList
      <4>2. n \in Nat /\ n <= Len(answers)
        BY <4>1 DEF Follows, IsList
      <4>3. result[t] = p.result /\ p.outcome = outcome[t]
        BY <4>1 DEF Follows
      <4> QED
        BY <4>1, <4>2, <4>3
    <3>3. reply.pages # "no" /\ p.outcome.kind = "returned"
      BY <2>3, <3>1, <3>2
    <3>4. reply.shape \in {"append", "merge", "first", "actions"}
      BY <2>2, <3>3, SessionsSound DEF Sound
    <3>5. n \in PagesOf(answers, n) /\ ~HasToken(answers[n].body)
      BY <2>2, <3>2, <3>3, ReturnedLast
    <3> HIDE DEF reply, n, p, m
    <3>6. ASSUME NEW s \in Slot, reply.shape = "first"
          PROVE  LET chain == Chain(answers, n, s)
                 IN  p.result[s] = IF chain = {} THEN <<>> ELSE <<<<Min(chain), s>>>>
      <4> DEFINE chain == Chain(answers, n, s)
      <4>1. Chained(answers, n, p)
        BY <2>2, <3>2, <3>3, <3>6, CourseChains DEF p, reply
      <4>2. First(p.result[s], s, chain, m)
        BY <4>1 DEF Chained, m
      <4>3. m \in Nat
        BY <3>2, PagesMore DEF m
      <4> HIDE DEF chain
      <4>4. CASE chain = {} /\ p.result[s] = <<>>
        BY <4>4 DEF chain
      <4>5. CASE \E f \in chain : (\A y \in chain : f <= y) /\ p.result[s] = <<<<f, s>>>>
        <5>1. PICK f \in chain : (\A y \in chain : f <= y) /\ p.result[s] = <<<<f, s>>>>
          BY <4>5
        <5>2. chain \subseteq Int
          BY <4>2, <4>3 DEF First
        <5>3. Min(chain) = f
          BY <5>1, <5>2, MinIs
        <5> QED
          BY <5>1, <5>3 DEF chain
      <4> QED
        BY <4>2, <4>4, <4>5 DEF First
    <3>7. ASSUME NEW s \in Slot, reply.shape # "first"
          PROVE  LET line == p.result[LineAt(reply, s)]
                     own  == {i \in DOMAIN line : reply.shape = "actions" => line[i][2] = s}
                 IN  /\ {line[i] : i \in own} = Items(reply, answers, n, s)
                     /\ \A i, j \in own : i < j => line[i][1] < line[j][1]
      <4> DEFINE line == p.result[LineAt(reply, s)]
                 own  == {i \in DOMAIN line : reply.shape = "actions" => line[i][2] = s}
      <4>1. Collected(call, answers, n, p)
        BY <2>2, <3>2, <3>3, <3>4, <3>7, CourseCollects DEF p, reply
      <4>2. LineAt(reply, s) \in Slot /\ (reply.shape # "actions" => LineAt(reply, s) = s)
        BY NothingAt DEF LineAt
      <4>3. /\ IsList(line) /\ Holds(line, s, Items(reply, answers, n, s), m)
            /\ reply.shape # "actions" => \A i \in 1..Len(line) : line[i][2] = s
        BY <4>1, <4>2 DEF Collected, reply, m
      <4> HIDE DEF line
      <4>4. own = Own(line, s)
        BY <4>3, ListSeq DEF Own
      <4> HIDE DEF own
      <4>5. /\ {line[i] : i \in own} = Items(reply, answers, n, s)
            /\ \A i, j \in own : i < j => line[i][1] < line[j][1]
        BY <4>3, <4>4 DEF Holds
      <4> QED
        BY <4>5 DEF own, line
    <3>8. \A i : PageNumber(i) = Cardinality(PagesOf(answers, i)) /\ Pages(i) = PagesOf(answers, i)
      BY DEF PageNumber, Pages, PagesOf
    <3> DEFINE items(s) == {<<PageNumber(i), s>> :
                              i \in {j \in Pages(n) : s \in Offered(reply, answers[j].body)}}
               line(s)  == result[t][IF reply.shape = "actions" THEN "all" ELSE s]
               own(s)   == {i \in DOMAIN line(s) : reply.shape = "actions" => line(s)[i][2] = s}
               chain(s) == {PageNumber(i) : i \in {j \in Pages(n) :
                              /\ is_object(answers[j].body, "object")
                              /\ s \in answers[j].body.entries \cup answers[j].body.odd}}
    <3>9. \A s : /\ items(s) = Items(reply, answers, n, s) /\ chain(s) = Chain(answers, n, s)
                /\ line(s) = p.result[LineAt(reply, s)]
      BY <3>2, <3>8 DEF Items, Chain, InChain, LineAt
    <3>10. \A s : own(s) = {i \in DOMAIN line(s) : reply.shape = "actions" => line(s)[i][2] = s}
      OBVIOUS
    <3> HIDE DEF items, line, own, chain
    <3>11. ASSUME NEW s \in Slot
           PROVE  IF reply.shape = "first"
                  THEN result[t][s] = IF chain(s) = {} THEN <<>> ELSE <<<<Min(chain(s)), s>>>>
                  ELSE /\ {line(s)[i] : i \in own(s)} = items(s)
                       /\ \A i, j \in own(s) : i < j => line(s)[i][1] < line(s)[j][1]
      <4>1. CASE reply.shape = "first"
        BY <3>2, <3>6, <3>9, <4>1
      <4>2. CASE reply.shape # "first"
        <5>1. /\ {line(s)[i] : i \in own(s)} = items(s)
              /\ \A i, j \in own(s) : i < j => line(s)[i][1] < line(s)[j][1]
          BY <3>7, <3>9, <3>10, <4>2
        <5> QED
          BY <4>2, <5>1
      <4> QED
        BY <4>1, <4>2
    <3>12. n \in Pages(n)
      BY <3>5, <3>8
    <3> QED
      BY <3>1, <3>5, <3>11, <3>12, Zenon DEF n, items, line, own, chain
  <2> QED
    BY <2>3, Zenon DEF ReturnedIsWhole
<1> QED
  BY <1>1, CourseKept, PTL
=============================================================================
