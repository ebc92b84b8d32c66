SPECIFICATION Spec
CONSTANTS
  Symbols = {"A", "B"}
  Wanted = "A"
  Tokens <- MCTokens
  Sessions <- MCSessions
  Bodies <- MCBodies
  Faults <- MCFaults
  MaxAttempts = 2
  Rich = {"get_stock_bars", "get_stock_bars_page", "get_option_chain", "get_option_chain_page",
          "get_corporate_actions", "list_locates", "get_news_page", "list_crypto_wallets",
          "get_locate_quotes", "get_latest_stock_bar", "get_latest_stock_bars",
          "get_stock_exchange_codes", "get_logo", "cancel_order"}
  Failing = {"get_order", "replace_order"}
  Signed = {"get_clock", "get_stock_snapshots"}
INVARIANTS
  TypeOK
  PagesFollowTokens
  ReturnedIsWhole
  MirrorsBlocking
  KeysOfOneAccount
  PlacedOnce
  OrdersComplete
