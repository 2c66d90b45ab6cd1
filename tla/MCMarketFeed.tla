---------------------------- MODULE MCMarketFeed ----------------------------
(* Three values of TRADER_SYMBOLS: FX with a pair that its venue does not    *)
(* know; equity; crypto with a symbol of no class.  Tick 0 is Sunday.        *)
EXTENDS MarketFeed

Btc == [base |-> "BTC", quote |-> "USDT"]
Eur == [base |-> "EUR", quote |-> "USD"]
Spy == [base |-> "SPY", quote |-> ""]
Odd == [base |-> "ODD", quote |-> "USD"]

MCPairs == {Btc, Eur, Spy, Odd}
MCFeeds == {<<Eur, Btc>>, <<Spy>>, <<Btc, Odd>>}
=============================================================================
