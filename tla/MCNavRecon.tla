----------------------------- MODULE MCNavRecon -----------------------------
(***************************************************************************)
(* Two segments: one with a wallet, an Aave position and a venue, one with *)
(* a wallet and Spark savings.                                             *)
(***************************************************************************)
EXTENDS NavRecon

MCSegments == <<"xlBTC", "xlUSD">>
MCSpellings == {{"USDC", "Usdc"}, {"wallet", " Wallet"}, {"sUSDS", "SUSDS"}}
MCBasePrice == [xlBTC |-> 3, xlUSD |-> 1]

Entry(category, location, tickers, overrides) ==
    [category |-> category, location |-> location, tickers |-> tickers, overrides |-> overrides]
NoNames == [t \in {} |-> None]
MCAccountMap ==
    [Hot |-> Entry("Native reserve", "wallet", NoNames, NoNames),
     HotGas |-> Entry("Native reserve", "wallet", [ETH_GAS |-> "ETH", USDC_GAS |-> "USDC"], NoNames),
     Binance |-> Entry("Exchange funds", "Binance", NoNames, NoNames),
     UsdHot |-> Entry("Native reserve", "wallet", NoNames,
                      [SUSDS |-> [category |-> "Spark Savings", location |-> "Arbitrum", asset |-> "sUSDS"]])]

Row(kind, category, where, asset, qty, price, value) ==
    <<[kind |-> kind, category |-> category, where |-> where, asset |-> asset,
       qty |-> qty, price |-> price, value |-> value]>>
Title(kind, category, where) == Row(kind, category, where, "", None, None, None)
Custody(rows) == Title("banner", "Native reserve", "") \o Title("wallet", "Native reserve", " Wallet") \o rows
Aave(n) == Title("banner", "Aave position", "")
           \o Row("asset", "Aave position", "Aave", "BTC (collateral)", n, 3, 3 * n)
Venue(rows) == Title("banner", "Exchange funds", "") \o Title("wallet", "Exchange funds", "Binance")
               \o rows \o Row("summary", "Exchange funds", "", "", None, None, 9)

Usdc(n) == Row("asset", "Native reserve", "", "USDC", n, 1, n)
MCCatalogs ==
    [xlBTC |->
       {Custody(usdc \o eth) \o aave \o venue :
          usdc \in {<< >>, Usdc(2), Usdc(5), Usdc(2) \o Usdc(3)},
          eth \in {Row("asset", "Native reserve", "", "ETH", 2, 2, 4),
                   Row("asset", "Native reserve", "", "ETH", 2, None, None)},
          aave \in {<< >>, Row("asset", "Native reserve", "", "ETH:AETHWBTC", 1, None, None) \o Aave(1)},
          venue \in {<< >>, Venue(Row("asset", "Exchange funds", "", "BTC", 1, 3, 3)),
                     Venue(Row("perp", "Exchange funds", "", "BTC perp", None, None, 4))}},
     xlUSD |->
       {<< >>, Custody(Usdc(3)) \o Title("banner", "Spark Savings", "")
               \o Row("asset", "Spark Savings", "Arbitrum", "sUSDS", None, None, 4)}]

Fund(account, ticker, qty, value) ==
    <<[account |-> account, ticker |-> ticker, qty |-> qty, value |-> value]>>
MCAnswers ==
    [xlBTC |->
       {wallet \o gas \o venue \o rest :
          wallet \in {Fund("Hot", "USDC", 2, 1), Fund("Hot", "USDC", 2, 1) \o Fund("Hot", "Usdc", 1, 1)},
          gas \in {<< >>, Fund("HotGas", "ETH_GAS", 2, 2) \o Fund("HotGas", "USDC_GAS", 3, 1)},
          venue \in {<< >>, Fund("Binance", "BTC", 1, 1) \o Fund("Binance", "USDC", 0, 0),
                   Fund("Binance", "BTC perp", 1, 1)},
          rest \in {<< >>, Fund("Hot", "ETH:AETHWBTC", 1, 1), Fund("Unknown", "BTC", 1, 1)}},
     xlUSD |->
       {Fund("UsdHot", "USDC", 3, 3), Fund("UsdHot", "USDC", 2, 2) \o Fund("UsdHot", "SUSDS", 4, 4)}]
=============================================================================
