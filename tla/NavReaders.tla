----------------------------- MODULE NavReaders -----------------------------
(***************************************************************************)
(* What one snapshot cycle makes of the answers it gets: the readers of    *)
(* tracker/scrapers (BitGo custody, Aave, Spark, ERC-4626 vaults) and the  *)
(* venue readers and mergers of tracker/services/collector.py.             *)
(*                                                                         *)
(* Answers are partial functions: a call that failed, after its retries,   *)
(* is not in the domain.  None is Python's None, the value of a field a    *)
(* reader could not fill.  Dollars, amounts and prices are integers.       *)
(***************************************************************************)
EXTENDS Integers, FiniteSets, FiniteSetsExt, Functions

CONSTANTS None,
          BaseAsset,   \* the segment's native asset: BTC, ETH or USDC
          Stables,     \* coins counted as one dollar
          ATokens,     \* receipts for collateral the Aave reader values
          DefaultCrossMtm \* NAV_CROSS_MTM[asset], from config.yaml

\* A coin of a wallet or a venue, with what it is worth when it has a price.
Asset == [amount : Int, usd : Int \cup {None}]
Debts == [collateral : Int, debt : Int, health : Int \cup {None}]

ASSUME ReadersAssumption ==
    /\ None \notin Int \cup Debts
    /\ BaseAsset \in {"BTC", "ETH", "USDC"}
    /\ Stables \cap ATokens = {}

Or0(v) == IF v = None THEN 0 ELSE v
Least(S) == IF S \subseteq {None} THEN None ELSE Min(S \ {None})

-----------------------------------------------------------------------------
(* Bugs the properties must catch; nothing below uses them. *)

\* A receipt for ETH lent to Aave gets the price of ETH.
EthPricedWithReceipts == {"ETH", "WETH", "ARBETH", "STETH", "UETH"} \cup ATokens

\* The perp account is added to the spot balance it is part of.
HlAccountValueTwice(perp, spot, prices) ==
    LET cash == SumFunctionOnSet(spot, DOMAIN spot \cap Stables)
    IN IF perp = None THEN [total |-> None, available |-> None, assets |-> [c \in {} |-> 0]]
       ELSE [total |-> cash + perp.equity, available |-> cash - perp.margin,
             assets |-> [c \in {c \in DOMAIN spot : spot[c] # 0} |->
                            [amount |-> spot[c], usd |-> spot[c]]]]

\* Every hedge is taken for one that is short Hyperliquid.
CrossMtmParamsOneWay(bn, hl) ==
    LET Legs(answer) == IF answer = None THEN {} ELSE {p \in answer : p.size # 0}
        b == CHOOSE p \in Legs(bn) : TRUE
        h == CHOOSE p \in Legs(hl) : TRUE
    IN IF Legs(bn) # {} /\ Legs(hl) # {}
         THEN [entry_cost |-> (b.entry - h.entry) * h.size, position_size |-> b.size, direction |-> 1]
       ELSE [entry_cost |-> 0, position_size |-> 0, direction |-> 1]

-----------------------------------------------------------------------------
(* Prices. *)

\* Symbols _price_by_symbol prices at the BTC and at the ETH quote.
BtcPriced == {"BTC", "WBTC", "CBBTC", "TBTC", "UBTC"}
EthPriced == {"ETH", "WETH", "ARBETH", "STETH", "UETH"}

NoPrices == [c \in {} |-> 0]

\* quotes: the two base quotes, or None when fetch_prices raised.
PriceBySymbol(quotes) ==
    IF quotes = None THEN NoPrices
    ELSE [c \in BtcPriced \cup EthPriced |->
            IF c \in BtcPriced THEN quotes.btc ELSE quotes.eth]

\* The live price of each coin a ticker answers for, variants by their base.
PriceBase(coin) ==
    IF coin \in BtcPriced THEN "BTC" ELSE IF coin \in EthPriced THEN "ETH" ELSE coin
AssetPrices(coins, tickers) ==
    LET priced == {c \in coins : c \in Stables \/ PriceBase(c) \in DOMAIN tickers}
    IN [c \in priced |-> IF c \in Stables THEN 1 ELSE tickers[PriceBase(c)]]

\* {**prices, **extra}
With(prices, extra) ==
    [c \in DOMAIN prices \cup DOMAIN extra |->
        IF c \in DOMAIN extra THEN extra[c] ELSE prices[c]]

UsdValue(coin, amount, prices) ==
    IF coin \in Stables THEN amount
    ELSE IF coin \in DOMAIN prices THEN amount * prices[coin] ELSE None

\* amounts by coin -> the coins held, with what each is worth.
Valued(amounts, prices) ==
    [c \in {c \in DOMAIN amounts : amounts[c] # 0} |->
        [amount |-> amounts[c], usd |-> UsdValue(c, amounts[c], prices)]]
TotalUsd(assets) == SumFunction([c \in DOMAIN assets |-> Or0(assets[c].usd)])
Unpriced(assets) == {c \in DOMAIN assets : assets[c].usd = None}

\* _value_assets: a price for what is still unpriced; totals are not redone.
Revalued(assets, prices) ==
    [c \in DOMAIN assets |->
        [assets[c] EXCEPT !.usd = IF @ = None THEN UsdValue(c, assets[c].amount, prices) ELSE @]]

-----------------------------------------------------------------------------
(* Custody (BitGo).  A wallet is [id, address, coins], coins its amounts.  *)

\* pages: the answered pages of the wallet list, 1..n of them; all or nothing.
FetchAllWallets(pages, n) ==
    IF DOMAIN pages = 1..n THEN UNION {pages[i] : i \in 1..n} ELSE None

EvmAddresses(wallets) == {w.address : w \in wallets} \ {None}

\* by wallet, the empty ones left out; what has no price keeps usd = None.
AggregateHoldings(wallets, prices) ==
    LET shown == {w \in wallets : \E c \in DOMAIN w.coins : w.coins[c] # 0}
    IN [w \in shown |-> Valued(w.coins, prices)]

HeldCoins(holdings) == UNION {DOMAIN holdings[w] : w \in DOMAIN holdings}
AmountOf(holdings, coin) ==
    SumFunction([w \in DOMAIN holdings |->
                    IF coin \in DOMAIN holdings[w] THEN holdings[w][coin].amount ELSE 0])

\* Live prices are asked for what stays unpriced, aTokens excepted.
CustodyPrices(wallets, prices, tickers) ==
    LET probe == AggregateHoldings(wallets, prices)
        unpriced == (UNION {Unpriced(probe[w]) : w \in DOMAIN probe}) \ ATokens
    IN With(prices, AssetPrices(unpriced, tickers))

\* What the segment keeps of custody: None, all of it, when the read failed.
CustodyFields(wallets, prices) ==
    LET holdings == AggregateHoldings(wallets, prices)
    IN IF wallets = None THEN [holdings |-> None, amount |-> None, usd |-> None]
       ELSE [holdings |-> holdings,
             amount |-> IF BaseAsset \in HeldCoins(holdings) THEN AmountOf(holdings, BaseAsset) ELSE None,
             usd |-> IF BaseAsset \in HeldCoins(holdings)
                       THEN UsdValue(BaseAsset, AmountOf(holdings, BaseAsset), prices) ELSE None]

-----------------------------------------------------------------------------
(* On-chain positions. *)

\* getUserAccountData: a health factor only of an account in debt.
DecodeAccount(acct) ==
    [collateral |-> acct.collateral, debt |-> acct.debt,
     health |-> IF acct.debt > 0 THEN acct.health ELSE None]

AaveSum(accounts) ==
    IF DOMAIN accounts = {} THEN None
    ELSE [collateral |-> SumFunction([k \in DOMAIN accounts |-> accounts[k].collateral]),
          debt |-> SumFunction([k \in DOMAIN accounts |-> accounts[k].debt]),
          health |-> Least({accounts[k].health : k \in DOMAIN accounts})]

\* answers: by <<address, market>>, those that answered.
AaveForWallet(answers, address) ==
    LET read == {k \in DOMAIN answers : k[1] = address}
    IN AaveSum([k \in read |-> DecodeAccount(answers[k])])

AaveForAddresses(answers, addresses) ==
    LET read == {a \in addresses : AaveForWallet(answers, a) # None}
    IN AaveSum([a \in read |-> AaveForWallet(answers, a)])

\* sUSDS is worth at least a dollar: that is what a failed rate counts as.
SusdsRate(answer) == IF answer = None \/ Or0(answer) <= 0 THEN 1 ELSE answer

\* shares: by <<chain, address>>, those that answered.
SusdsForAddresses(shares, addresses, rate) ==
    LET read == {k \in DOMAIN shares : k[2] \in addresses}
        chains == {k[1] : k \in read}
    IN [c \in chains |->
          rate * SumFunctionOnSet(shares, {k \in read : k[1] = c})]

\* shares by <<vault, address>>, rates by vault: those that answered.  No call
\* converts zero shares.  A stable underlying counts one dollar.
VaultsForAddresses(shares, addresses, rates, underlying, prices) ==
    LET read == {k \in DOMAIN shares : k[2] \in addresses}
        Held(v) == SumFunctionOnSet(shares, {k \in read : k[1] = v})
        ok == {v \in {k[1] : k \in read} : Held(v) = 0 \/ v \in DOMAIN rates}
        Assets(v) == IF Held(v) = 0 THEN 0 ELSE Held(v) * rates[v]
    IN IF ok = {} THEN None
       ELSE [v \in ok |-> [amount |-> Assets(v), usd |-> UsdValue(underlying[v], Assets(v), prices)]]

-----------------------------------------------------------------------------
(* Venues. *)

NoFunds == [total |-> None, available |-> None, assets |-> [c \in {} |-> 0]]

\* perp: [equity, withdrawable, margin] or None; spot: amounts by coin or None.
\* On a unified account the spot balance is the account: perp equity is part
\* of it and only the margin is taken off what is available.
HlAccountValue(perp, spot, prices) ==
    IF perp = None \/ spot = None THEN NoFunds
    ELSE LET assets == Valued(spot, prices)
             cash == TotalUsd(assets)
         IN [total |-> IF cash > 0 THEN cash ELSE perp.equity,
             available |-> IF cash > 0 THEN cash - perp.margin ELSE perp.withdrawable,
             assets |-> assets]

\* balance: [amount, free] by coin or None; account: actualEquity or None.
BinanceCollateral(balance, account, prices) ==
    IF balance = None THEN NoFunds
    ELSE LET assets == Valued([c \in DOMAIN balance |-> balance[c].amount], prices)
         IN [total |-> IF account # None THEN account ELSE TotalUsd(assets),
             available |-> SumFunction([c \in DOMAIN assets \cap Stables |-> balance[c].free]),
             assets |-> assets]

\* summaries: [amount, free] by currency, or None.
DeribitEquity(summaries, prices) ==
    IF summaries = None THEN NoFunds
    ELSE LET assets == Valued([c \in DOMAIN summaries |-> summaries[c].amount], prices)
         IN [total |-> TotalUsd(assets),
             available |-> SumFunction([c \in DOMAIN assets |->
                                           Or0(UsdValue(c, summaries[c].free, prices))]),
             assets |-> assets]

\* One live price for every asset of the three venues still unpriced.
VenuePrices(funds, prices, tickers) ==
    With(prices, AssetPrices(UNION {Unpriced(funds[v].assets) : v \in DOMAIN funds}, tickers))

\* The breakdown stored: venues that answered with assets, or none at all.
ExchangeBalances(funds, prices) ==
    [v \in {v \in DOMAIN funds : DOMAIN funds[v].assets # {}} |-> Revalued(funds[v].assets, prices)]

-----------------------------------------------------------------------------
(* Perpetuals.  A leg is [size, entry, upnl]; size is signed. *)

ActiveLegs(answer) == IF answer = None THEN {} ELSE {p \in answer : p.size # 0}

BuildPerpLegs(bn, hl) ==
    [v \in {"Binance", "Hyperliquid"} |-> IF v = "Binance" THEN ActiveLegs(bn) ELSE ActiveLegs(hl)]

Flat == [entry_cost |-> 0, position_size |-> 0, direction |-> 1]
Abs(n) == IF n < 0 THEN -n ELSE n

\* Binance reports contracts, unsigned; only Hyperliquid's size has a sign.
CrossMtmParams(bn, hl) ==
    LET b == CHOOSE p \in ActiveLegs(bn) : TRUE
        h == CHOOSE p \in ActiveLegs(hl) : TRUE
    IN IF ActiveLegs(bn) # {} /\ ActiveLegs(hl) # {}
         THEN [entry_cost |-> (b.entry - h.entry) * h.size,
               position_size |-> Abs(b.size),
               direction |-> IF h.size < 0 THEN 1 ELSE IF h.size > 0 THEN -1 ELSE 0]
       ELSE IF ActiveLegs(bn) = {} /\ ActiveLegs(hl) = {} THEN Flat
       ELSE DefaultCrossMtm

\* _safe_get: a price difference that could not be read counts as 0.
CrossMtm(quotes, params) ==
    LET diff == IF quotes = None THEN 0 ELSE (quotes.hlBtc - quotes.btc) * params.direction
    IN params.entry_cost - diff * params.position_size
=============================================================================
