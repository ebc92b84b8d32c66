------------------------------- MODULE DataClient -------------------------------
(***************************************************************************)
(* The endpoint methods of data_client, which block.  The venue of the     *)
(* crypto methods is part of the path.                                     *)
(***************************************************************************)
EXTENDS Queries, Tables

BySymbols == Query(<<"symbols">>)

StockHistory ==
  [get_stock_bars |-> Get("/v2/stocks/bars", bar_query, Paginated(Merged("bars"))),
   get_stock_trades |-> Get("/v2/stocks/trades", history_query, Paginated(Merged("trades"))),
   get_stock_quotes |-> Get("/v2/stocks/quotes", history_query, Paginated(Merged("quotes"))),
   get_stock_auctions |-> Get("/v2/stocks/auctions", history_query, Paginated(Merged("auctions"))),
   get_stock_bars_page |-> Get("/v2/stocks/bars", bar_query, OnePage(Merged("bars"))),
   get_stock_trades_page |-> Get("/v2/stocks/trades", history_query, OnePage(Merged("trades"))),
   get_stock_quotes_page |-> Get("/v2/stocks/quotes", history_query, OnePage(Merged("quotes"))),
   get_stock_auctions_page |-> Get("/v2/stocks/auctions", history_query, OnePage(Merged("auctions")))]

\* The methods for one symbol fill a latest_query with it and the feed.
OfSymbol == [keys |-> <<"symbols", "feed">>, always |-> {"symbols"}]

StockLatest ==
  [get_latest_stock_bars |-> Get("/v2/stocks/bars/latest", latest_query, Map("bars")),
   get_latest_stock_trades |-> Get("/v2/stocks/trades/latest", latest_query, Map("trades")),
   get_latest_stock_quotes |-> Get("/v2/stocks/quotes/latest", latest_query, Map("quotes")),
   get_stock_snapshots |-> Get("/v2/stocks/snapshots", latest_query, Bare),
   get_latest_stock_bar |-> Get("/v2/stocks/bars/latest", OfSymbol, One("bars")),
   get_latest_stock_trade |-> Get("/v2/stocks/trades/latest", OfSymbol, One("trades")),
   get_latest_stock_quote |-> Get("/v2/stocks/quotes/latest", OfSymbol, One("quotes")),
   get_stock_snapshot |-> Get("/v2/stocks/snapshots", OfSymbol, One("none"))]

StockReference ==
  [get_stock_condition_codes |->
     Get("/v2/stocks/meta/conditions/{tick_type}", Query(<<"tape">>), Codes),
   get_stock_exchange_codes |-> Get("/v2/stocks/meta/exchanges", NoQuery, Codes)]

Crypto ==
  [get_crypto_bars |-> Get("/v1beta3/crypto/{loc}/bars", crypto_bar_query, Paginated(Merged("bars"))),
   get_crypto_trades |->
     Get("/v1beta3/crypto/{loc}/trades", crypto_history_query, Paginated(Merged("trades"))),
   get_crypto_quotes |->
     Get("/v1beta3/crypto/{loc}/quotes", crypto_history_query, Paginated(Merged("quotes"))),
   get_latest_crypto_bars |-> Get("/v1beta3/crypto/{loc}/latest/bars", BySymbols, Map("bars")),
   get_latest_crypto_trades |->
     Get("/v1beta3/crypto/{loc}/latest/trades", BySymbols, Map("trades")),
   get_latest_crypto_quotes |->
     Get("/v1beta3/crypto/{loc}/latest/quotes", BySymbols, Map("quotes")),
   get_latest_crypto_orderbooks |->
     Get("/v1beta3/crypto/{loc}/latest/orderbooks", BySymbols, Map("orderbooks")),
   get_crypto_snapshots |->
     Get("/v1beta3/crypto/{loc}/snapshots", BySymbols, Map("snapshots"))]

Options ==
  [get_option_bars |-> Get("/v1beta1/options/bars", option_bar_query, Paginated(Merged("bars"))),
   get_option_trades |->
     Get("/v1beta1/options/trades", option_history_query, Paginated(Merged("trades"))),
   get_latest_option_trades |->
     Get("/v1beta1/options/trades/latest", option_latest_query, Map("trades")),
   get_latest_option_quotes |->
     Get("/v1beta1/options/quotes/latest", option_latest_query, Map("quotes")),
   get_option_snapshots |->
     Get("/v1beta1/options/snapshots", option_latest_query, Map("snapshots")),
   get_option_chain |->
     Get("/v1beta1/options/snapshots/{underlying_symbol}", option_chain_query, Paginated(Chain)),
   get_option_chain_page |->
     Get("/v1beta1/options/snapshots/{underlying_symbol}", option_chain_query,
         OnePage(Chain)),
   get_option_condition_codes |->
     Get("/v1beta1/options/meta/conditions/{tick_type}", NoQuery, Codes),
   get_option_exchange_codes |-> Get("/v1beta1/options/meta/exchanges", NoQuery, Codes)]

News ==
  [get_news |-> Get("/v1beta1/news", news_query, Paginated(Elements("news"))),
   get_news_page |-> Get("/v1beta1/news", news_query, OnePage(Elements("news")))]

Screener ==
  [get_most_actives |->
     Get("/v1beta1/screener/stocks/most-actives", Query(<<"by", "top">>), Model),
   get_movers |-> Get("/v1beta1/screener/{market_type}/movers", Query(<<"top">>), Model)]

Reference ==
  [get_corporate_actions |-> Get("/v1/corporate-actions", corporate_action_query, Paginated(Actions)),
   get_corporate_actions_page |->
     Get("/v1/corporate-actions", corporate_action_query, OnePage(Actions)),
   get_forex_rates |-> Get("/v1beta1/forex/rates", forex_query, Paginated(Merged("rates"))),
   get_latest_forex_rates |->
     Get("/v1beta1/forex/latest/rates", Query(<<"currency_pairs">>), Map("rates")),
   get_latest_fixed_income_prices |->
     Get("/v1beta1/fixed_income/latest/prices", Query(<<"isins">>), Map("prices")),
   get_latest_fixed_income_quotes |->
     Get("/v1beta1/fixed_income/latest/quotes", Query(<<"isins", "trade_size">>),
         Map("quotes")),
   get_logo |-> Get("/v1beta1/logos/{symbol}", Query(<<"placeholder">>), Bytes)]

data_client ==
  StockHistory ++ StockLatest ++ StockReference ++ Crypto ++ Options ++ News ++ Screener
    ++ Reference
=============================================================================
