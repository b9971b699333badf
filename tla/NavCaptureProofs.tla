-------------------------- MODULE NavCaptureProofs --------------------------
(***************************************************************************)
(* What holds of NavCapture for any books, any sets of calls that fail     *)
(* together, any number of cycles at once and any native asset.            *)
(*                                                                         *)
(* A stored row is right about the books it was read of, whichever calls   *)
(* failed (RowRight): each reader and merger is followed from the answers  *)
(* it gets to the columns it fills.  That, and that no two rows have one   *)
(* timestamp, is the invariant (CaptureInv).  The dashboard takes every    *)
(* column from the newest row that has it; the columns of one source are   *)
(* empty together, so what it shows of a source comes from one row, the    *)
(* last the source answered for.                                           *)
(***************************************************************************)
EXTENDS NavCapture, SumTheorems

-----------------------------------------------------------------------------
(* Sums. *)

\* A sum, one member apart, whether it is there or not.
LEMMA SumSplit ==
    ASSUME NEW f, NEW S, IsFiniteSet(S), \A x \in S : f[x] \in Int
    PROVE  \A y : /\ SumFunctionOnSet(f, S)
                       = (IF y \in S THEN f[y] ELSE 0) + SumFunctionOnSet(f, S \ {y})
                  /\ IsFiniteSet(S \ {y})
<1>1. SumFunctionOnSet(f, S) \in Int
  BY SumType
<1>2. SUFFICES ASSUME NEW y
               PROVE  /\ SumFunctionOnSet(f, S)
                           = (IF y \in S THEN f[y] ELSE 0) + SumFunctionOnSet(f, S \ {y})
                      /\ IsFiniteSet(S \ {y})
  OBVIOUS
<1>3. CASE y \in S
  <2>1. SumFunctionOnSet(f, S) = f[y] + SumFunctionOnSet(f, S \ {y})
    BY <1>3, SumOfOneMore
  <2>2. IsFiniteSet(S \ {y})
    BY FS_Subset, S \ {y} \subseteq S
  <2>3. QED
    BY <1>3, <2>1, <2>2
<1>4. CASE y \notin S
  <2>1. S \ {y} = S
    BY <1>4
  <2>2. SumFunctionOnSet(f, S \ {y}) = SumFunctionOnSet(f, S) /\ IsFiniteSet(S \ {y})
    BY <2>1
  <2>3. (IF y \in S THEN f[y] ELSE 0) = 0
    BY <1>4
  <2> DEFINE total == SumFunctionOnSet(f, S)
             rest == SumFunctionOnSet(f, S \ {y})
             one == IF y \in S THEN f[y] ELSE 0
  <2>4. total = one + rest
    <3>1. total \in Int /\ rest = total /\ one = 0
      BY <1>1, <2>2, <2>3
    <3> HIDE DEF total, rest, one
    <3>2. QED
      BY <3>1
  <2>5. QED
    BY <2>2, <2>4
<1>5. QED
  BY <1>3, <1>4

\* A sum to which only one or two members contribute.
LEMMA SumOfTwo ==
    ASSUME NEW f, NEW S, IsFiniteSet(S), \A x \in S : f[x] \in Int,
           NEW y, NEW z, y # z, \A x \in S \ {y, z} : f[x] = 0
    PROVE  SumFunctionOnSet(f, S) = (IF y \in S THEN f[y] ELSE 0) + (IF z \in S THEN f[z] ELSE 0)
<1>1. SumFunctionOnSet(f, S) = (IF y \in S THEN f[y] ELSE 0) + SumFunctionOnSet(f, S \ {y})
      /\ IsFiniteSet(S \ {y})
  BY SumSplit
<1>2. SumFunctionOnSet(f, S \ {y})
        = (IF z \in S \ {y} THEN f[z] ELSE 0) + SumFunctionOnSet(f, (S \ {y}) \ {z})
      /\ IsFiniteSet((S \ {y}) \ {z})
  <2>1. \A x \in S \ {y} : f[x] \in Int
    OBVIOUS
  <2>2. QED
    BY <1>1, <2>1, SumSplit
<1>3. SumFunctionOnSet(f, (S \ {y}) \ {z}) = SumFunctionOnSet(f, {})
  BY <1>2, SumOfTheRest
<1>4. SumFunctionOnSet(f, {}) = 0
  BY SumOfNone
<1>5. (z \in S \ {y}) <=> z \in S
  OBVIOUS
<1>6. (z \in S => f[z] \in Int) /\ (y \in S => f[y] \in Int)
  OBVIOUS
<1>7. QED
  BY <1>1, <1>2, <1>3, <1>4, <1>5, <1>6

\* A sum to which at most one member contributes.
LEMMA SumAtMostOne ==
    ASSUME NEW f, NEW S, IsFiniteSet(S), \A x \in S : f[x] \in Int,
           NEW y, \A x \in S \ {y} : f[x] = 0
    PROVE  SumFunctionOnSet(f, S) = IF y \in S THEN f[y] ELSE 0
<1>1. SumFunctionOnSet(f, S) = (IF y \in S THEN f[y] ELSE 0) + SumFunctionOnSet(f, S \ {y})
      /\ IsFiniteSet(S \ {y})
  BY SumSplit
<1>2. SumFunctionOnSet(f, S \ {y}) = SumFunctionOnSet(f, {})
  BY <1>1, SumOfTheRest
<1>3. SumFunctionOnSet(f, {}) = 0
  BY SumOfNone
<1>4. y \in S => f[y] \in Int
  OBVIOUS
<1>5. QED
  BY <1>1, <1>2, <1>3, <1>4

-----------------------------------------------------------------------------
(* The columns of a row. *)

\* The fields of a row put together of three.
LEMMA WithFields ==
    ASSUME NEW f, NEW g, DOMAIN f \cap DOMAIN g = {}
    PROVE  /\ DOMAIN With(f, g) = DOMAIN f \cup DOMAIN g
           /\ \A x \in DOMAIN g : With(f, g)[x] = g[x]
           /\ \A x \in DOMAIN f : With(f, g)[x] = f[x]
BY DEF With

\* Where each column of a stored row comes from (_build_snapshot_data): the
\* parts have no column in common, so no part writes over another.
LEMMA ColumnsOfRow ==
    ASSUME NEW r, NEW chain, NEW legs
    PROVE  LET row == BuildSnapshot(r, chain, legs)
           IN /\ DOMAIN row = Fields
              /\ row["btc_price"] = QuoteOf(r.quotes, "BTC")
              /\ row["eth_price"] = QuoteOf(r.quotes, "ETH")
              /\ row["exchange_balances_json"] =
                       ExchangeBalances(r.funds, VenuePrices(r.funds, r.prices, r.tickers))
              /\ \A f \in {"bitgo_holdings_json", "wallet_native_amount", "wallet_balance_usd"} :
                    row[f] = CustodyColumns(r)[f]
              /\ \A f \in {"aave_supply_usd", "aave_borrow_usdc", "aave_health_rate",
                           "aave_net_usd", "aave_supply_amount"} :
                    row[f] = AaveFields(chain.aave, r.quotes)[f]
              /\ \A f \in {"susds_arbi_balance", "susds_eth_balance"} :
                    row[f] = SparkFields(chain.susds)[f]
              /\ \A f \in {"vault_usd", "vault_positions_json"} :
                    row[f] = VaultFields(chain.vaults)[f]
              /\ \A f \in {"hl_deposit_usdc", "hl_available_usdc", "binance_collateral_usdc",
                           "binance_available_usdc", "deribit_equity_usd", "deribit_available_usd"} :
                    row[f] = FundColumns(r.funds)[f]
              /\ \A f \in {"perp_positions_json", "price_diff_hl_bn", "cross_mtm_value"} :
                    row[f] = LegColumns(r.quotes, legs)[f]
<1> DEFINE row == BuildSnapshot(r, chain, legs)
           C == {"bitgo_holdings_json", "wallet_native_amount", "wallet_balance_usd"}
           A == {"aave_supply_usd", "aave_borrow_usdc", "aave_health_rate",
                 "aave_net_usd", "aave_supply_amount"}
           K == {"susds_arbi_balance", "susds_eth_balance"}
           V == {"vault_usd", "vault_positions_json"}
           U == {"hl_deposit_usdc", "hl_available_usdc", "binance_collateral_usdc",
                 "binance_available_usdc", "deribit_equity_usd", "deribit_available_usd"}
           L == {"perp_positions_json", "price_diff_hl_bn", "cross_mtm_value"}
           shared == [btc_price |-> QuoteOf(r.quotes, "BTC"), eth_price |-> QuoteOf(r.quotes, "ETH"),
                      exchange_balances_json |->
                          ExchangeBalances(r.funds, VenuePrices(r.funds, r.prices, r.tickers))]
           custody == CustodyColumns(r)
           aave == AaveFields(chain.aave, r.quotes)
           spark == SparkFields(chain.susds)
           vault == VaultFields(chain.vaults)
           fund == FundColumns(r.funds)
           leg == LegColumns(r.quotes, legs)
<1>1. DOMAIN custody = C
  BY DEF CustodyColumns
<1>2. DOMAIN aave = A
  BY DEF AaveFields
<1>3. DOMAIN spark = K
  BY DEF SparkFields
<1>4. DOMAIN vault = V
  BY DEF VaultFields
<1>5. DOMAIN fund = U
  BY DEF FundColumns
<1>6. DOMAIN leg = L
  BY DEF LegColumns
<1>7. DOMAIN shared = {"btc_price", "eth_price", "exchange_balances_json"}
  OBVIOUS
<1>8. row = With(With(shared, custody), With(With(With(aave, spark), vault), With(fund, leg)))
  BY DEF BuildSnapshot
<1>9. shared["btc_price"] = QuoteOf(r.quotes, "BTC") /\ shared["eth_price"] = QuoteOf(r.quotes, "ETH")
      /\ shared["exchange_balances_json"] =
           ExchangeBalances(r.funds, VenuePrices(r.funds, r.prices, r.tickers))
  OBVIOUS
<1> HIDE DEF row, shared, custody, aave, spark, vault, fund, leg
<1> DEFINE B == {"btc_price", "eth_price", "exchange_balances_json"}
<1>10. /\ B \cap C = {} /\ A \cap K = {} /\ (A \cup K) \cap V = {} /\ U \cap L = {}
       /\ ((A \cup K) \cup V) \cap (U \cup L) = {}
       /\ (B \cup C) \cap (((A \cup K) \cup V) \cup (U \cup L)) = {}
  OBVIOUS
<1>11. Fields = (B \cup C) \cup (((A \cup K) \cup V) \cup (U \cup L))
       /\ "btc_price" \in B /\ "eth_price" \in B /\ "exchange_balances_json" \in B
  BY DEF Fields
<1> HIDE DEF A, B, C, K, L, U, V
<1> DEFINE head == With(shared, custody)
           lent == With(aave, spark)
           venues == With(fund, leg)
           chained == With(lent, vault)
           tail == With(chained, venues)
<1>12. row = With(head, tail)
  BY <1>8
<1>13. DOMAIN head = B \cup C /\ (\A f \in C : head[f] = custody[f])
       /\ (\A f \in B : head[f] = shared[f])
  <2>1. DOMAIN shared \cap DOMAIN custody = {}
    BY <1>1, <1>7, <1>10 DEF B
  <2>2. /\ DOMAIN With(shared, custody) = DOMAIN shared \cup DOMAIN custody
        /\ \A x \in DOMAIN custody : With(shared, custody)[x] = custody[x]
        /\ \A x \in DOMAIN shared : With(shared, custody)[x] = shared[x]
    BY <2>1, WithFields
  <2>3. QED
    BY <2>2, <1>1, <1>7, <1>10 DEF B
<1>14. DOMAIN lent = A \cup K /\ (\A f \in K : lent[f] = spark[f]) /\ (\A f \in A : lent[f] = aave[f])
  <2>1. DOMAIN aave \cap DOMAIN spark = {}
    BY <1>2, <1>3, <1>10
  <2>2. /\ DOMAIN With(aave, spark) = DOMAIN aave \cup DOMAIN spark
        /\ \A x \in DOMAIN spark : With(aave, spark)[x] = spark[x]
        /\ \A x \in DOMAIN aave : With(aave, spark)[x] = aave[x]
    BY <2>1, WithFields
  <2>3. QED
    BY <2>2, <1>2, <1>3, <1>10
<1>15. DOMAIN venues = U \cup L /\ (\A f \in L : venues[f] = leg[f]) /\ (\A f \in U : venues[f] = fund[f])
  <2>1. DOMAIN fund \cap DOMAIN leg = {}
    BY <1>5, <1>6, <1>10
  <2>2. /\ DOMAIN With(fund, leg) = DOMAIN fund \cup DOMAIN leg
        /\ \A x \in DOMAIN leg : With(fund, leg)[x] = leg[x]
        /\ \A x \in DOMAIN fund : With(fund, leg)[x] = fund[x]
    BY <2>1, WithFields
  <2>3. QED
    BY <2>2, <1>5, <1>6, <1>10
<1> HIDE DEF head, lent, venues
<1>16. DOMAIN chained = (A \cup K) \cup V /\ (\A f \in V : chained[f] = vault[f])
       /\ (\A f \in A \cup K : chained[f] = lent[f])
  <2>1. DOMAIN lent \cap DOMAIN vault = {}
    BY <1>4, <1>10, <1>14
  <2>2. /\ DOMAIN With(lent, vault) = DOMAIN lent \cup DOMAIN vault
        /\ \A x \in DOMAIN vault : With(lent, vault)[x] = vault[x]
        /\ \A x \in DOMAIN lent : With(lent, vault)[x] = lent[x]
    BY <2>1, WithFields
  <2>3. QED
    BY <2>2, <1>4, <1>10, <1>14
<1> HIDE DEF chained
<1>17. DOMAIN tail = ((A \cup K) \cup V) \cup (U \cup L)
       /\ (\A f \in U \cup L : tail[f] = venues[f])
       /\ (\A f \in (A \cup K) \cup V : tail[f] = chained[f])
  <2>1. DOMAIN chained \cap DOMAIN venues = {}
    BY <1>10, <1>15, <1>16
  <2>2. /\ DOMAIN With(chained, venues) = DOMAIN chained \cup DOMAIN venues
        /\ \A x \in DOMAIN venues : With(chained, venues)[x] = venues[x]
        /\ \A x \in DOMAIN chained : With(chained, venues)[x] = chained[x]
    BY <2>1, WithFields
  <2>3. QED
    BY <2>2, <1>10, <1>15, <1>16
<1> HIDE DEF tail
<1>18. DOMAIN row = Fields
       /\ (\A f \in ((A \cup K) \cup V) \cup (U \cup L) : row[f] = tail[f])
       /\ (\A f \in B \cup C : row[f] = head[f])
  <2>1. DOMAIN head \cap DOMAIN tail = {}
    BY <1>10, <1>11, <1>12, <1>13, <1>17
  <2>2. /\ DOMAIN With(head, tail) = DOMAIN head \cup DOMAIN tail
        /\ \A x \in DOMAIN tail : With(head, tail)[x] = tail[x]
        /\ \A x \in DOMAIN head : With(head, tail)[x] = head[x]
    BY <2>1, WithFields
  <2>3. QED
    BY <2>2, <1>10, <1>11, <1>12, <1>13, <1>17
<1>19. (\A f \in B : row[f] = shared[f]) /\ (\A f \in C : row[f] = custody[f])
  BY <1>13, <1>18
<1>20. (\A f \in L : row[f] = leg[f]) /\ (\A f \in U : row[f] = fund[f])
  BY <1>15, <1>17, <1>18
<1>21. \A f \in (A \cup K) \cup V : row[f] = chained[f]
  BY <1>17, <1>18
<1>22. (\A f \in V : row[f] = vault[f]) /\ (\A f \in A \cup K : row[f] = lent[f])
  BY <1>16, <1>21
<1>23. (\A f \in K : row[f] = spark[f]) /\ (\A f \in A : row[f] = aave[f])
  BY <1>14, <1>22
<1>24. row["btc_price"] = shared["btc_price"] /\ row["eth_price"] = shared["eth_price"]
       /\ row["exchange_balances_json"] = shared["exchange_balances_json"]
  BY <1>11, <1>19
<1>25. QED
  BY <1>9, <1>18, <1>19, <1>20, <1>22, <1>23, <1>24
     DEF row, custody, aave, spark, vault, fund, leg, A, C, K, L, U, V

QuotesOf(F) == Answer(F, <<"quotes">>, Quotes)
PricesOf(F) == PriceBySymbol(QuotesOf(F))
TickersOf(F) == Answered(Tickers, [c \in DOMAIN Tickers |-> <<"ticker", c>>], F)
PagesOf(b, F) ==
    Answered([i \in 1..2 |-> WalletPage(b, i)], [i \in 1..2 |-> <<"wallets", i>>], F)
WalletsOf(b, F) == FetchAllWallets(PagesOf(b, F), 2)
HlFunds(b, F) == HlAccountValue(Answer(F, <<"hl">>, HlPerp(b)), HlSpot(b), PricesOf(F))
BnFunds(b, F) == BinanceCollateral(Answer(F, <<"balance">>, BnBalance(b)),
                                   Answer(F, <<"account">>, BnAccount(b)), PricesOf(F))
DeribitFunds(b, F) == DeribitEquity(Answer(F, <<"deribit">>, Summaries(b)), PricesOf(F))

\* The readings of a cycle's first moment, one by one.
LEMMA FirstFields ==
    ASSUME NEW b, NEW F
    PROVE  LET r == FirstReads(b, F)
           IN /\ r.quotes = QuotesOf(F) /\ r.prices = PricesOf(F) /\ r.tickers = TickersOf(F)
              /\ r.wallets = WalletsOf(b, F)
              /\ r.addresses = IF WalletsOf(b, F) = None THEN {} ELSE EvmAddresses(WalletsOf(b, F))
              /\ DOMAIN r.funds = Venues
              /\ r.funds["Hyperliquid"] = HlFunds(b, F)
              /\ r.funds["Binance"] = BnFunds(b, F)
              /\ r.funds["Deribit"] = DeribitFunds(b, F)
<1> DEFINE q == QuotesOf(F)
           p == PricesOf(F)
           w == WalletsOf(b, F)
           t == TickersOf(F)
           ad == IF w = None THEN {} ELSE EvmAddresses(w)
           fu == [v \in Venues |-> CASE v = "Hyperliquid" -> HlFunds(b, F)
                                     [] v = "Binance" -> BnFunds(b, F)
                                     [] v = "Deribit" -> DeribitFunds(b, F)]
<1>1. FirstReads(b, F) = [quotes |-> q, prices |-> p, tickers |-> t, wallets |-> w,
                          addresses |-> ad, funds |-> fu]
  BY DEF FirstReads, QuotesOf, PricesOf, TickersOf, PagesOf, WalletsOf, HlFunds, BnFunds, DeribitFunds
<1>2. DOMAIN fu = Venues /\ fu["Hyperliquid"] = HlFunds(b, F) /\ fu["Binance"] = BnFunds(b, F)
      /\ fu["Deribit"] = DeribitFunds(b, F)
  BY DEF Venues
<1> HIDE DEF q, p, w, t, ad, fu
<1>3. QED
  BY <1>1, <1>2 DEF q, p, w, t, ad

-----------------------------------------------------------------------------
(* Venues. *)

\* A hedge is two coins of one sign, with an account at each venue.
LEMMA HedgeOf ==
    ASSUME NEW b \in SUBSET Positions, Consistent(b)
    PROVE  /\ HedgeSize(b) \in {-2, 0, 2}
           /\ HedgeSize(b) # 0 => ("hl" \in b \/ "classic" \in b) /\ ("binance" \in b \/ "um" \in b)
           /\ "basis" \in b => HedgeSize(b) = -2 /\ "reverse" \notin b
           /\ "reverse" \in b => HedgeSize(b) = 2 /\ "basis" \notin b
           /\ "basis" \notin b /\ "reverse" \notin b => HedgeSize(b) = 0
           /\ HlUpnl(b) = 3 * HedgeSize(b) /\ BnUpnl(b) = -HedgeSize(b)
           /\ HlUpnl(b) \in Int /\ BnUpnl(b) \in Int
<1>1. HedgeSize(b) = (IF "reverse" \in b THEN 2 ELSE 0) - (IF "basis" \in b THEN 2 ELSE 0)
  BY DEF HedgeSize, Units
<1>2. ~("basis" \in b /\ "reverse" \in b)
      /\ ("basis" \in b \/ "reverse" \in b =>
            ("hl" \in b \/ "classic" \in b) /\ ("binance" \in b \/ "um" \in b))
  BY DEF Consistent
<1>3. HedgeSize(b) \in {-2, 0, 2}
  BY <1>1, <1>2
<1>4. HlUpnl(b) = 3 * HedgeSize(b) /\ BnUpnl(b) = -HedgeSize(b)
  BY <1>3 DEF HlUpnl, BnUpnl
<1>5. QED
  BY <1>1, <1>2, <1>3, <1>4

\* A venue with one coin, held or not.
LEMMA OneCoin ==
    ASSUME NEW coin, NEW n \in Int, NEW prices, NEW u \in Int \cup {None},
           UsdValue(coin, n, prices) = u,
           NEW amounts, DOMAIN amounts = {coin}, amounts[coin] = n, NEW v, v = Valued(amounts, prices)
    PROVE  /\ DOMAIN v = (IF n = 0 THEN {} ELSE {coin})
           /\ n # 0 => v[coin] = [amount |-> n, usd |-> u]
           /\ TotalUsd(v) = (IF n = 0 THEN 0 ELSE Or0(u))
<1> DEFINE f == [c \in DOMAIN v |-> Or0(v[c].usd)]
<1>1. DOMAIN v = (IF n = 0 THEN {} ELSE {coin})
  BY DEF Valued
<1>2. n # 0 => v[coin] = [amount |-> n, usd |-> u]
  BY DEF Valued
<1>3. n # 0 => v[coin].usd = u
  BY <1>2
<1>4. TotalUsd(v) = SumFunctionOnSet(f, DOMAIN v)
  BY DEF TotalUsd, SumFunction
<1>5. CASE n = 0
  <2>1. DOMAIN v = {}
    BY <1>1, <1>5
  <2> HIDE DEF f
  <2>2. TotalUsd(v) = 0
    BY <1>4, <2>1, SumOfNone
  <2>3. QED
    BY <1>5, <2>1, <2>2
<1>6. CASE n # 0
  <2>1. DOMAIN v = {coin} /\ f[coin] = Or0(u)
    BY <1>1, <1>3, <1>6
  <2>2. Or0(u) \in Int
    BY DEF Or0
  <2> HIDE DEF f
  <2>3. SumFunctionOnSet(f, {coin}) = f[coin]
    BY <2>1, <2>2, SumOfOne
  <2>4. TotalUsd(v) = Or0(u)
    BY <1>4, <2>1, <2>3
  <2>5. QED
    BY <1>2, <1>6, <2>1, <2>4
<1>7. QED
  BY <1>5, <1>6

\* A dollar coin is worth its amount.
LEMMA UsdcValue ==
    ASSUME NEW n, NEW prices
    PROVE  UsdValue("USDC", n, prices) = n
BY CaptureAssumption DEF UsdValue

\* A venue's dollars, valued: what they add up to, and when there are none.
LEMMA UsdcOnly ==
    ASSUME NEW n \in Int, NEW prices, NEW amounts, DOMAIN amounts = {"USDC"}, amounts["USDC"] = n
    PROVE  /\ DOMAIN Valued(amounts, prices) = (IF n = 0 THEN {} ELSE {"USDC"})
           /\ n # 0 => Valued(amounts, prices)["USDC"] = [amount |-> n, usd |-> n]
           /\ TotalUsd(Valued(amounts, prices)) = n
<1> DEFINE v == Valued(amounts, prices)
<1>1. UsdValue("USDC", n, prices) = n /\ n \in Int \cup {None} /\ n # None
  BY UsdcValue, ReadersAssumption
<1>2. /\ DOMAIN v = (IF n = 0 THEN {} ELSE {"USDC"})
      /\ n # 0 => v["USDC"] = [amount |-> n, usd |-> n]
      /\ TotalUsd(v) = (IF n = 0 THEN 0 ELSE Or0(n))
  BY <1>1, OneCoin
<1>3. (IF n = 0 THEN 0 ELSE Or0(n)) = n
  BY <1>1 DEF Or0
<1>4. QED
  BY <1>2, <1>3

\* What the Hyperliquid account is worth, unified or classic.
HlWorth(b) == Units(b, "hl", 20) + Units(b, "classic", 7) + HlUpnl(b)

\* The equity a venue answers with; without an asset it has none, unless funds
\* no asset is listed for are there.
LEMMA HlEquity ==
    ASSUME NEW b \in SUBSET Positions, Consistent(b), NEW F
    PROVE  LET funds == HlFunds(b, F)
           IN /\ funds.total = IF <<"hl">> \in F THEN None ELSE HlWorth(b)
              /\ DOMAIN funds.assets \subseteq {"USDC"}
              /\ DOMAIN funds.assets = {} /\ <<"hl">> \notin F /\ FundsAreListed(b, "Hyperliquid")
                   => HlWorth(b) = 0
              /\ HlWorth(b) \in Int
              /\ \A c \in DOMAIN funds.assets : funds.assets[c] \in Asset
<1> DEFINE n == IF "hl" \in b THEN 20 + HlUpnl(b) ELSE 0
           spot == HlSpot(b)
           assets == Valued(spot, PricesOf(F))
           perp == HlPerp(b)
<1>1. /\ n \in Int /\ (n > 0 \/ n = 0)
      /\ n > 0 => HlWorth(b) = n
      /\ n = 0 => HlWorth(b) = perp.equity
      /\ n = 0 /\ FundsAreListed(b, "Hyperliquid") => HlWorth(b) = 0
      /\ HlWorth(b) \in Int
  <2>1. /\ HlUpnl(b) \in {-6, 0, 6} /\ (HlUpnl(b) # 0 => "hl" \in b \/ "classic" \in b)
        /\ perp.equity = Units(b, "hl", 1) + Units(b, "classic", 7) + HlUpnl(b)
    BY HedgeOf DEF HlPerp
  <2>2. ~("hl" \in b /\ "classic" \in b) /\ (FundsAreListed(b, "Hyperliquid") => "classic" \notin b)
    BY DEF Consistent, FundsAreListed
  <2> HIDE DEF perp
  <2>3. CASE "hl" \in b
    BY <2>1, <2>2, <2>3 DEF Units, HlWorth
  <2>4. CASE "hl" \notin b
    BY <2>1, <2>2, <2>4 DEF Units, HlWorth
  <2>5. QED
    BY <2>3, <2>4
<1>2. DOMAIN spot = {"USDC"} /\ spot["USDC"] = n
  BY DEF HlSpot, Units
<1> HIDE DEF n
<1>3. /\ DOMAIN assets = (IF n = 0 THEN {} ELSE {"USDC"}) /\ TotalUsd(assets) = n
      /\ n # 0 => assets["USDC"] = [amount |-> n, usd |-> n]
  BY <1>1, <1>2, UsdcOnly
<1>4. None # perp /\ None # spot
  BY CaptureAssumption DEF NoneIsNoAnswer
<1>5. CASE <<"hl">> \in F
  <2>1. HlFunds(b, F) = NoFunds
    BY <1>5 DEF HlFunds, Answer, HlAccountValue
  <2>2. NoFunds.total = None /\ DOMAIN NoFunds.assets = {}
    BY DEF NoFunds
  <2>3. QED
    BY <1>1, <1>5, <2>1, <2>2
<1>6. CASE <<"hl">> \notin F
  <2> DEFINE cash == TotalUsd(assets)
  <2>1. HlFunds(b, F) = [total |-> IF cash > 0 THEN cash ELSE perp.equity,
                         available |-> IF cash > 0 THEN cash - perp.margin ELSE perp.withdrawable,
                         assets |-> assets]
    BY <1>2, <1>4, <1>6 DEF HlFunds, Answer, HlAccountValue
  <2>2. HlFunds(b, F).total = (IF cash > 0 THEN cash ELSE perp.equity)
        /\ HlFunds(b, F).assets = assets
    BY <2>1
  <2>3. HlFunds(b, F).total = HlWorth(b)
    BY <1>1, <1>3, <2>2
  <2>4. \A c \in DOMAIN assets : assets[c] \in Asset
    BY <1>1, <1>3 DEF Asset
  <2>5. QED
    BY <1>1, <1>3, <1>6, <2>2, <2>3, <2>4
<1>7. QED
  BY <1>5, <1>6

\* The prices a cycle has: of ETH if the quotes answered, of no other coin here.
LEMMA QuotedPrices ==
    ASSUME NEW F
    PROVE  /\ <<"quotes">> \in F => QuotesOf(F) = None /\ DOMAIN PricesOf(F) = {}
           /\ <<"quotes">> \notin F =>
                /\ QuotesOf(F) = Quotes /\ QuotesOf(F) # None
                /\ "ETH" \in DOMAIN PricesOf(F) /\ PricesOf(F)["ETH"] = 2
           /\ "XLM" \notin DOMAIN PricesOf(F) /\ "AETHWETH" \notin DOMAIN PricesOf(F)
<1>1. Quotes # None /\ Quotes.eth = 2
  BY CaptureAssumption DEF NoneIsNoAnswer, Quotes
<1>2. CASE <<"quotes">> \in F
  <2>1. QuotesOf(F) = None
    BY <1>2 DEF QuotesOf, Answer
  <2>2. DOMAIN PricesOf(F) = {}
    BY <2>1 DEF PricesOf, PriceBySymbol, NoPrices
  <2>3. QED
    BY <1>2, <2>1, <2>2
<1>3. CASE <<"quotes">> \notin F
  <2>1. QuotesOf(F) = Quotes
    BY <1>3 DEF QuotesOf, Answer
  <2>2. DOMAIN PricesOf(F) = BtcPriced \cup EthPriced
        /\ \A c \in BtcPriced \cup EthPriced :
             PricesOf(F)[c] = IF c \in BtcPriced THEN Quotes.btc ELSE Quotes.eth
    BY <1>1, <2>1 DEF PricesOf, PriceBySymbol
  <2>3. "ETH" \in EthPriced /\ "ETH" \notin BtcPriced
        /\ "XLM" \notin BtcPriced \cup EthPriced /\ "AETHWETH" \notin BtcPriced \cup EthPriced
    BY DEF BtcPriced, EthPriced
  <2>4. QED
    BY <1>1, <1>3, <2>1, <2>2, <2>3
<1>4. QED
  BY <1>2, <1>3

\* What ether is worth, by the quotes.
LEMMA EthValue ==
    ASSUME NEW F, NEW n \in Int
    PROVE  UsdValue("ETH", n, PricesOf(F)) = IF <<"quotes">> \in F THEN None ELSE n * 2
BY QuotedPrices, CaptureAssumption DEF UsdValue

\* What Binance's account is worth to a cycle: futures cash and profit are in
\* the account's own figure only.
BnWorth(b, F) ==
    Units(b, "binance", 9) + (IF <<"account">> \in F THEN 0 ELSE Units(b, "um", 3) + BnUpnl(b))

\* Binance's equity: the account's own figure, or the balance without it.
LEMMA BnEquity ==
    ASSUME NEW b \in SUBSET Positions, Consistent(b), NEW F
    PROVE  LET funds == BnFunds(b, F)
           IN /\ funds.total = IF <<"balance">> \in F THEN None ELSE BnWorth(b, F)
              /\ DOMAIN funds.assets \subseteq {"USDC"}
              /\ DOMAIN funds.assets = {} /\ <<"balance">> \notin F /\ FundsAreListed(b, "Binance")
                   => BnWorth(b, F) = 0
              /\ BnWorth(b, F) \in Int
              /\ \A c \in DOMAIN funds.assets : funds.assets[c] \in Asset
<1> DEFINE told == BnWorth(b, F)
           n == Units(b, "binance", 9)
           account == BnAccount(b)
           balance == BnBalance(b)
           amounts == [c \in DOMAIN balance |-> balance[c].amount]
           assets == Valued(amounts, PricesOf(F))
           said == Answer(F, <<"account">>, account)
           prices == PricesOf(F)
           free == SumFunction([c \in DOMAIN assets \cap Stables |-> balance[c].free])
<1>1. /\ n \in Int /\ account \in Int /\ told \in Int
      /\ n = 0 /\ FundsAreListed(b, "Binance") => told = 0
      /\ told = IF <<"account">> \in F THEN n ELSE account
  <2>1. /\ BnUpnl(b) \in {-2, 0, 2} /\ (BnUpnl(b) # 0 => "binance" \in b \/ "um" \in b)
        /\ account = n + Units(b, "um", 3) + BnUpnl(b)
        /\ told = n + (IF <<"account">> \in F THEN 0 ELSE Units(b, "um", 3) + BnUpnl(b))
        /\ Units(b, "um", 3) = (IF "um" \in b THEN 3 ELSE 0)
        /\ n = (IF "binance" \in b THEN 9 ELSE 0)
    BY HedgeOf DEF BnAccount, BnWorth, Units
  <2>2. FundsAreListed(b, "Binance") /\ "um" \in b => "binance" \in b
    BY DEF FundsAreListed
  <2> HIDE DEF n, told, account
  <2>3. QED
    BY <2>1, <2>2
<1>2. DOMAIN amounts = {"USDC"} /\ amounts["USDC"] = n
  BY DEF BnBalance
<1>3. n # None /\ account # None /\ None # balance
  BY <1>1, ReadersAssumption, CaptureAssumption DEF NoneIsNoAnswer
<1> HIDE DEF n, amounts, account, balance, prices, told
<1>4. /\ DOMAIN assets = (IF n = 0 THEN {} ELSE {"USDC"}) /\ TotalUsd(assets) = n
      /\ n # 0 => assets["USDC"] = [amount |-> n, usd |-> n]
  BY <1>1, <1>2, UsdcOnly
<1>5. CASE <<"balance">> \in F
  <2>1. BnFunds(b, F) = NoFunds
    BY <1>5 DEF BnFunds, Answer, BinanceCollateral
  <2>2. NoFunds.total = None /\ DOMAIN NoFunds.assets = {}
    BY DEF NoFunds
  <2>3. QED
    BY <1>1, <1>5, <2>1, <2>2 DEF told
<1>6. CASE <<"balance">> \notin F
  <2>1. BnFunds(b, F) = [total |-> IF said # None THEN said ELSE TotalUsd(assets),
                         available |-> free, assets |-> assets]
    BY <1>3, <1>6 DEF BnFunds, Answer, BinanceCollateral, amounts, balance, account
  <2> HIDE DEF free, assets, said
  <2>2. BnFunds(b, F).total = (IF said # None THEN said ELSE TotalUsd(assets))
        /\ BnFunds(b, F).assets = assets
    BY <2>1
  <2>3. BnFunds(b, F).total = told
    BY <1>1, <1>3, <1>4, <2>2 DEF said, Answer
  <2>4. \A c \in DOMAIN assets : assets[c] \in Asset
    BY <1>1, <1>4 DEF Asset, assets
  <2>5. QED
    BY <1>1, <1>4, <1>6, <2>2, <2>3, <2>4 DEF told
<1>7. QED
  BY <1>5, <1>6

\* Deribit's equity, which nothing but the quotes can value.
LEMMA DeribitsEquity ==
    ASSUME NEW b \in SUBSET Positions, NEW F
    PROVE  LET funds == DeribitFunds(b, F)
               told == IF <<"quotes">> \in F THEN 0 ELSE Units(b, "deribit", 2)
           IN /\ funds.total = IF <<"deribit">> \in F THEN None ELSE told
              /\ DOMAIN funds.assets \subseteq {"ETH"}
              /\ DOMAIN funds.assets = {} /\ <<"deribit">> \notin F => told = 0
              /\ told \in Int
              /\ \A c \in DOMAIN funds.assets : funds.assets[c] \in Asset
<1> DEFINE told == IF <<"quotes">> \in F THEN 0 ELSE Units(b, "deribit", 2)
           n == Units(b, "deribit", 1)
           summaries == Summaries(b)
           amounts == [c \in DOMAIN summaries |-> summaries[c].amount]
           assets == Valued(amounts, PricesOf(F))
           u == IF <<"quotes">> \in F THEN None ELSE n * 2
           prices == PricesOf(F)
           free == SumFunction([c \in DOMAIN assets |-> Or0(UsdValue(c, summaries[c].free, prices))])
<1>1. /\ n \in Int /\ told \in Int /\ u \in Int \cup {None}
      /\ (n = 0 => told = 0)
      /\ (IF n = 0 THEN 0 ELSE Or0(u)) = told
  <2>1. None \notin Int
    BY ReadersAssumption
  <2>2. CASE "deribit" \in b
    <3>1. n = 1 /\ Units(b, "deribit", 2) = 2
      BY <2>2 DEF Units
    <3> HIDE DEF n
    <3>2. QED
      BY <2>1, <3>1 DEF Or0
  <2>3. CASE "deribit" \notin b
    <3>1. n = 0 /\ Units(b, "deribit", 2) = 0
      BY <2>3 DEF Units
    <3> HIDE DEF n
    <3>2. QED
      BY <2>1, <3>1 DEF Or0
  <2>4. QED
    BY <2>2, <2>3
<1>2. DOMAIN amounts = {"ETH"} /\ amounts["ETH"] = n
  BY DEF Summaries
<1>3. None # summaries
  BY CaptureAssumption DEF NoneIsNoAnswer
<1> HIDE DEF n, amounts, summaries
<1>4. UsdValue("ETH", n, prices) = u
  BY <1>1, EthValue
<1> HIDE DEF prices, u
<1>5. /\ DOMAIN assets = (IF n = 0 THEN {} ELSE {"ETH"}) /\ TotalUsd(assets) = told
      /\ n # 0 => assets["ETH"] = [amount |-> n, usd |-> u]
  <2>1. /\ DOMAIN assets = (IF n = 0 THEN {} ELSE {"ETH"})
        /\ n # 0 => assets["ETH"] = [amount |-> n, usd |-> u]
        /\ TotalUsd(assets) = (IF n = 0 THEN 0 ELSE Or0(u))
    BY <1>1, <1>2, <1>4, OneCoin DEF prices
  <2>2. QED
    BY <1>1, <2>1
<1> HIDE DEF told
<1>6. CASE <<"deribit">> \in F
  <2>1. DeribitFunds(b, F) = NoFunds
    BY <1>6 DEF DeribitFunds, Answer, DeribitEquity
  <2>2. NoFunds.total = None /\ DOMAIN NoFunds.assets = {}
    BY DEF NoFunds
  <2>3. QED
    BY <1>1, <1>6, <2>1, <2>2 DEF told
<1>7. CASE <<"deribit">> \notin F
  <2>1. DeribitFunds(b, F) = [total |-> TotalUsd(assets), available |-> free, assets |-> assets]
    BY <1>3, <1>7 DEF DeribitFunds, Answer, DeribitEquity, amounts, summaries, prices
  <2> HIDE DEF free, assets
  <2>2. DeribitFunds(b, F).total = told /\ DeribitFunds(b, F).assets = assets
    BY <1>5, <2>1
  <2>3. \A c \in DOMAIN assets : assets[c] \in Asset
    BY <1>1, <1>5 DEF Asset
  <2>4. QED
    BY <1>1, <1>5, <1>7, <2>2, <2>3 DEF told
<1>8. QED
  BY <1>6, <1>7

-----------------------------------------------------------------------------
(* The worth of a book. *)

\* Four things are finitely many.
LEMMA FourAreFinite ==
    ASSUME NEW p, NEW q, NEW r, NEW s
    PROVE  IsFiniteSet({p, q, r, s})
<1>1. IsFiniteSet({p}) /\ IsFiniteSet({q}) /\ IsFiniteSet({r}) /\ IsFiniteSet({s})
  BY FS_Singleton
<1>2. IsFiniteSet({p} \cup {q}) /\ IsFiniteSet({r} \cup {s})
  BY <1>1, FS_Union
<1>3. IsFiniteSet(({p} \cup {q}) \cup ({r} \cup {s}))
  BY <1>2, FS_Union
<1>4. ({p} \cup {q}) \cup ({r} \cup {s}) = {p, q, r, s}
  OBVIOUS
<1>5. QED
  BY <1>3, <1>4

\* A book is finite, so that its worth is a sum.
LEMMA PositionsAreFinite == IsFiniteSet(Positions)
<1> DEFINE A == {"reserve", "stash", "loan", "lend"}
           B == {"spark", "sparkEth", "vault", "hl"}
           C == {"binance", "deribit", "basis", "reverse"}
           D == {"classic", "um", "hl", "binance"}
<1>1. IsFiniteSet(A) /\ IsFiniteSet(B) /\ IsFiniteSet(C) /\ IsFiniteSet(D)
  BY FourAreFinite
<1>2. Positions = (A \cup B) \cup (C \cup D)
  BY DEF Positions
<1> HIDE DEF A, B, C, D
<1>3. IsFiniteSet(A \cup B) /\ IsFiniteSet(C \cup D)
  BY <1>1, FS_Union
<1>4. IsFiniteSet((A \cup B) \cup (C \cup D))
  BY <1>3, FS_Union
<1>5. QED
  BY <1>2, <1>4

\* What a position is worth is a number.
LEMMA WorthOf == \A p \in Positions : Worth(p) \in Int
BY DEF Positions, Worth

\* What a book is worth, position by position.
LEMMA BookWorthOf ==
    ASSUME NEW b \in SUBSET Positions
    PROVE  /\ BookWorth(b) \in Int
           /\ \A p \in Positions : BookWorth(b) = (IF p \in b THEN Worth(p) ELSE 0) + BookWorth(b \ {p})
           /\ BookWorth({}) = 0
<1> DEFINE f == [p \in b |-> Worth(p)]
<1>1. IsFiniteSet(b)
  BY PositionsAreFinite, FS_Subset
<1>2. \A p \in b : f[p] = Worth(p) /\ f[p] \in Int
  BY WorthOf
<1>3. BookWorth(b) = SumFunctionOnSet(f, b)
  BY DEF BookWorth, SumFunction
<1>4. BookWorth({}) = 0
  BY SumOfNone DEF BookWorth, SumFunction
<1>5. ASSUME NEW p \in Positions
      PROVE  BookWorth(b) = (IF p \in b THEN Worth(p) ELSE 0) + BookWorth(b \ {p})
  <2> DEFINE g == [x \in b \ {p} |-> Worth(x)]
  <2>1. BookWorth(b \ {p}) = SumFunctionOnSet(g, b \ {p})
    BY DEF BookWorth, SumFunction
  <2>2. \A x \in b \ {p} : g[x] = f[x]
    OBVIOUS
  <2> HIDE DEF f, g
  <2>3. SumFunctionOnSet(f, b) = (IF p \in b THEN f[p] ELSE 0) + SumFunctionOnSet(f, b \ {p})
        /\ IsFiniteSet(b \ {p})
    BY <1>1, <1>2, SumSplit
  <2>4. SumFunctionOnSet(f, b \ {p}) = SumFunctionOnSet(g, b \ {p})
    BY <2>2, <2>3, SumAgrees
  <2>5. (IF p \in b THEN f[p] ELSE 0) = (IF p \in b THEN Worth(p) ELSE 0)
    BY <1>2
  <2>6. QED
    BY <1>3, <2>1, <2>3, <2>4, <2>5
<1> HIDE DEF f
<1>6. BookWorth(b) \in Int
  BY <1>1, <1>2, <1>3, SumType
<1>7. QED
  BY <1>4, <1>5, <1>6

\* What a book of two positions at most is worth.
LEMMA BookWorthOfTwo ==
    ASSUME NEW p \in Positions, NEW q \in Positions, p # q, NEW b, b \subseteq {p, q}
    PROVE  BookWorth(b) = (IF p \in b THEN Worth(p) ELSE 0) + (IF q \in b THEN Worth(q) ELSE 0)
<1>1. b \in SUBSET Positions /\ b \ {p} \in SUBSET Positions
  OBVIOUS
<1>2. BookWorth(b) = (IF p \in b THEN Worth(p) ELSE 0) + BookWorth(b \ {p})
  BY <1>1, BookWorthOf
<1>3. BookWorth(b \ {p}) = (IF q \in b \ {p} THEN Worth(q) ELSE 0) + BookWorth((b \ {p}) \ {q})
  BY <1>1, BookWorthOf
<1>4. (b \ {p}) \ {q} = {} /\ (q \in b \ {p} <=> q \in b)
  OBVIOUS
<1>5. BookWorth((b \ {p}) \ {q}) = 0
  BY <1>1, <1>4, BookWorthOf
<1>6. Worth(p) \in Int /\ Worth(q) \in Int
  BY WorthOf
<1>7. QED
  BY <1>2, <1>3, <1>4, <1>5, <1>6

-----------------------------------------------------------------------------
(* Custody. *)

Hot(b) == [id |-> "w1", address |-> "0x1",
           coins |-> [c \in {"ETH", "AETHWETH"} |->
                        IF c = "ETH" THEN Units(b, "reserve", 3) ELSE Units(b, "loan", 10)]]
Spare == [id |-> "w2", address |-> "0x2", coins |-> [c \in {"ETH"} |-> 0]]
Cold(b) == [id |-> "w3", address |-> None, coins |-> [c \in {"XLM"} |-> Units(b, "stash", 1)]]
CustodyAnswers(F) == <<"wallets", 1>> \notin F /\ <<"wallets", 2>> \notin F

\* The wallet list: all three wallets, or nothing when a page failed.
LEMMA WalletsRead ==
    ASSUME NEW b \in SUBSET Positions, NEW F
    PROVE  /\ CustodyAnswers(F) => WalletsOf(b, F) = {Hot(b), Spare, Cold(b)} /\ WalletsOf(b, F) # None
           /\ ~CustodyAnswers(F) => WalletsOf(b, F) = None
           /\ {Hot(b), Spare, Cold(b)} \subseteq Wallets
<1> DEFINE pages == PagesOf(b, F)
           calls == [i \in 1..2 |-> <<"wallets", i>>]
<1>1. DOMAIN pages = {k \in 1..2 : <<"wallets", k>> \notin F}
      /\ \A k \in DOMAIN pages : pages[k] = WalletPage(b, k)
  BY DEF PagesOf, Answered
<1>2. 1..2 = {1, 2}
  OBVIOUS
<1>3. WalletPage(b, 1) = {Hot(b), Spare} /\ WalletPage(b, 2) = {Cold(b)}
  BY DEF WalletPage, Hot, Spare, Cold
<1>4. WalletPage(b, 1) \cup WalletPage(b, 2) # None
  BY CaptureAssumption DEF NoneIsNoAnswer
<1> HIDE DEF pages
<1>5. ASSUME CustodyAnswers(F)
      PROVE  WalletsOf(b, F) = {Hot(b), Spare, Cold(b)} /\ WalletsOf(b, F) # None
  <2>1. DOMAIN pages = 1..2
    BY <1>1, <1>2, <1>5 DEF CustodyAnswers
  <2>2. UNION {pages[i] : i \in 1..2} = WalletPage(b, 1) \cup WalletPage(b, 2)
    BY <1>1, <1>2, <2>1
  <2>3. WalletsOf(b, F) = WalletPage(b, 1) \cup WalletPage(b, 2)
    BY <2>1, <2>2 DEF WalletsOf, FetchAllWallets, pages
  <2>4. {Hot(b), Spare} \cup {Cold(b)} = {Hot(b), Spare, Cold(b)}
    OBVIOUS
  <2>5. QED
    BY <1>3, <1>4, <2>3, <2>4
<1>6. ASSUME ~CustodyAnswers(F) PROVE WalletsOf(b, F) = None
  <2>1. DOMAIN pages # 1..2
    BY <1>1, <1>2, <1>6 DEF CustodyAnswers
  <2>2. QED
    BY <2>1 DEF WalletsOf, FetchAllWallets, pages
<1>7. WalletPage(b, 1) \subseteq Wallets /\ WalletPage(b, 2) \subseteq Wallets
  BY <1>2 DEF Wallets
<1>8. QED
  BY <1>3, <1>5, <1>6, <1>7

\* The addresses custody named: both, or none when it did not answer.
LEMMA AddressesRead ==
    ASSUME NEW b \in SUBSET Positions, NEW F
    PROVE  FirstReads(b, F).addresses = IF CustodyAnswers(F) THEN {"0x1", "0x2"} ELSE {}
<1>1. CASE CustodyAnswers(F)
  <2>1. WalletsOf(b, F) = {Hot(b), Spare, Cold(b)} /\ WalletsOf(b, F) # None
    BY <1>1, WalletsRead
  <2>2. Hot(b).address = "0x1" /\ Spare.address = "0x2" /\ Cold(b).address = None
    BY DEF Hot, Spare, Cold
  <2>3. None # "0x1" /\ None # "0x2"
    BY CaptureAssumption DEF NoneIsNoAnswer, Addresses
  <2>4. EvmAddresses(WalletsOf(b, F)) = {"0x1", "0x2"}
    BY <2>1, <2>2, <2>3 DEF EvmAddresses
  <2>5. QED
    BY <1>1, <2>1, <2>4, FirstFields
<1>2. CASE ~CustodyAnswers(F)
  BY <1>2, WalletsRead, FirstFields
<1>3. QED
  BY <1>1, <1>2

\* The live prices that answered, of XLM and of ETH.
LEMMA TickersAre ==
    ASSUME NEW F
    PROVE  /\ DOMAIN TickersOf(F) = {c \in {"XLM", "ETH"} : <<"ticker", c>> \notin F}
           /\ "XLM" \in DOMAIN TickersOf(F) => TickersOf(F)["XLM"] = 5
           /\ "ETH" \in DOMAIN TickersOf(F) => TickersOf(F)["ETH"] = 2
<1>1. DOMAIN Tickers = {"XLM", "ETH"} /\ Tickers["XLM"] = 5 /\ Tickers["ETH"] = 2
  BY DEF Tickers
<1>2. DOMAIN TickersOf(F) = {c \in DOMAIN Tickers : <<"ticker", c>> \notin F}
      /\ \A c \in DOMAIN TickersOf(F) : TickersOf(F)[c] = Tickers[c]
  BY DEF TickersOf, Answered
<1>3. QED
  BY <1>1, <1>2

\* Live prices: what they are asked for and what they answer.
LEMMA AssetPricesAre ==
    ASSUME NEW coins, NEW F
    PROVE  LET p == AssetPrices(coins, TickersOf(F))
           IN /\ DOMAIN p \subseteq coins
              /\ "ETH" \in DOMAIN p <=> "ETH" \in coins /\ <<"ticker", "ETH">> \notin F
              /\ "XLM" \in DOMAIN p <=> "XLM" \in coins /\ <<"ticker", "XLM">> \notin F
              /\ "ETH" \in DOMAIN p => p["ETH"] = 2
              /\ "XLM" \in DOMAIN p => p["XLM"] = 5
<1> DEFINE t == TickersOf(F)
           p == AssetPrices(coins, t)
<1>1. PriceBase("ETH") = "ETH" /\ PriceBase("XLM") = "XLM"
  BY DEF PriceBase, BtcPriced, EthPriced
<1>2. "ETH" \notin Stables /\ "XLM" \notin Stables
  BY CaptureAssumption
<1>3. DOMAIN p = {c \in coins : c \in Stables \/ PriceBase(c) \in DOMAIN t}
      /\ \A c \in DOMAIN p : p[c] = IF c \in Stables THEN 1 ELSE t[PriceBase(c)]
  BY DEF AssetPrices
<1>4. /\ DOMAIN t = {c \in {"XLM", "ETH"} : <<"ticker", c>> \notin F}
      /\ "XLM" \in DOMAIN t => t["XLM"] = 5
      /\ "ETH" \in DOMAIN t => t["ETH"] = 2
  BY TickersAre
<1> HIDE DEF t, p
<1>5. ("ETH" \in DOMAIN t <=> <<"ticker", "ETH">> \notin F)
      /\ ("XLM" \in DOMAIN t <=> <<"ticker", "XLM">> \notin F)
  BY <1>4
<1>6. "ETH" \in DOMAIN p <=> "ETH" \in coins /\ <<"ticker", "ETH">> \notin F
  BY <1>1, <1>2, <1>3, <1>5
<1>7. "XLM" \in DOMAIN p <=> "XLM" \in coins /\ <<"ticker", "XLM">> \notin F
  BY <1>1, <1>2, <1>3, <1>5
<1>8. ("ETH" \in DOMAIN p => p["ETH"] = 2) /\ ("XLM" \in DOMAIN p => p["XLM"] = 5)
  BY <1>1, <1>2, <1>3, <1>4
<1>9. DOMAIN p \subseteq coins
  BY <1>3
<1>10. QED
  BY <1>6, <1>7, <1>8, <1>9 DEF p, t

\* The wallets there are, and the coins in them.
LEMMA WalletCoins ==
    ASSUME NEW b \in SUBSET Positions
    PROVE  /\ DOMAIN Hot(b).coins = {"ETH", "AETHWETH"}
           /\ Hot(b).coins["ETH"] = Units(b, "reserve", 3)
           /\ Hot(b).coins["AETHWETH"] = Units(b, "loan", 10)
           /\ DOMAIN Spare.coins = {"ETH"} /\ Spare.coins["ETH"] = 0
           /\ DOMAIN Cold(b).coins = {"XLM"} /\ Cold(b).coins["XLM"] = Units(b, "stash", 1)
           /\ Hot(b) # Cold(b)
<1>1. Hot(b).id = "w1" /\ Cold(b).id = "w3"
  BY DEF Hot, Cold
<1>2. DOMAIN Hot(b).coins = {"ETH", "AETHWETH"}
      /\ Hot(b).coins["ETH"] = Units(b, "reserve", 3) /\ Hot(b).coins["AETHWETH"] = Units(b, "loan", 10)
  BY DEF Hot
<1>3. DOMAIN Spare.coins = {"ETH"} /\ Spare.coins["ETH"] = 0
  BY DEF Spare
<1>4. DOMAIN Cold(b).coins = {"XLM"} /\ Cold(b).coins["XLM"] = Units(b, "stash", 1)
  BY DEF Cold
<1>5. QED
  BY <1>1, <1>2, <1>3, <1>4

\* What is stored of each wallet: those with a coin in them, valued.
LEMMA HoldingsOf ==
    ASSUME NEW b \in SUBSET Positions, NEW prices
    PROVE  LET h == AggregateHoldings({Hot(b), Spare, Cold(b)}, prices)
           IN /\ DOMAIN h \subseteq {Hot(b), Cold(b)}
              /\ Hot(b) \in DOMAIN h <=> "reserve" \in b \/ "loan" \in b
              /\ Cold(b) \in DOMAIN h <=> "stash" \in b
              /\ \A w \in DOMAIN h : h[w] = Valued(w.coins, prices)
<1> DEFINE W == {Hot(b), Spare, Cold(b)}
           h == AggregateHoldings(W, prices)
<1>1. DOMAIN h = {w \in W : \E c \in DOMAIN w.coins : w.coins[c] # 0}
      /\ \A w \in DOMAIN h : h[w] = Valued(w.coins, prices)
  BY DEF AggregateHoldings
<1> HIDE DEF h
<1>2. Spare \in DOMAIN h => Spare \in {Hot(b), Cold(b)}
  BY <1>1, WalletCoins
<1>3. Hot(b) \in DOMAIN h <=> "reserve" \in b \/ "loan" \in b
  BY <1>1, WalletCoins DEF Units
<1>4. Cold(b) \in DOMAIN h <=> "stash" \in b
  BY <1>1, WalletCoins DEF Units
<1>5. DOMAIN h \subseteq {Hot(b), Cold(b)}
  BY <1>1, <1>2
<1>6. QED
  BY <1>1, <1>3, <1>4, <1>5 DEF h

\* The coins of custody the quotes leave without a price, receipts aside.
LEMMA UnpricedCoins ==
    ASSUME NEW b \in SUBSET Positions, NEW F
    PROVE  LET probe == AggregateHoldings({Hot(b), Spare, Cold(b)}, PricesOf(F))
               unpriced == UNION {Unpriced(probe[w]) : w \in DOMAIN probe}
           IN /\ "reserve" \in b /\ <<"quotes">> \in F => "ETH" \in unpriced
              /\ "stash" \in b => "XLM" \in unpriced
<1> DEFINE probe == AggregateHoldings({Hot(b), Spare, Cold(b)}, PricesOf(F))
<1>1. /\ Hot(b) \in DOMAIN probe <=> "reserve" \in b \/ "loan" \in b
      /\ Cold(b) \in DOMAIN probe <=> "stash" \in b
      /\ \A w \in DOMAIN probe : probe[w] = Valued(w.coins, PricesOf(F))
  BY HoldingsOf
<1> HIDE DEF probe
<1>2. ASSUME "reserve" \in b, <<"quotes">> \in F
      PROVE  \E w \in DOMAIN probe : "ETH" \in Unpriced(probe[w])
  <2>1. Hot(b).coins["ETH"] = 3 /\ "ETH" \in DOMAIN Hot(b).coins
    BY <1>2, WalletCoins DEF Units
  <2>2. UsdValue("ETH", 3, PricesOf(F)) = None
    BY <1>2, EthValue
  <2>3. "ETH" \in DOMAIN Valued(Hot(b).coins, PricesOf(F))
        /\ Valued(Hot(b).coins, PricesOf(F))["ETH"].usd = None
    <3> DEFINE amounts == Hot(b).coins
               v == Valued(amounts, PricesOf(F))
    <3>1. DOMAIN v = {c \in DOMAIN amounts : amounts[c] # 0}
          /\ \A c \in DOMAIN v : v[c].usd = UsdValue(c, amounts[c], PricesOf(F))
      BY DEF Valued
    <3>2. "ETH" \in DOMAIN amounts /\ amounts["ETH"] = 3
      BY <2>1
    <3> HIDE DEF amounts, v
    <3>3. "ETH" \in DOMAIN v /\ v["ETH"].usd = None
      BY <2>2, <3>1, <3>2
    <3>4. QED
      BY <3>3 DEF v, amounts
  <2>4. Hot(b) \in DOMAIN probe /\ probe[Hot(b)] = Valued(Hot(b).coins, PricesOf(F))
    BY <1>1, <1>2
  <2>5. "ETH" \in Unpriced(probe[Hot(b)])
    BY <2>3, <2>4 DEF Unpriced
  <2>6. QED
    BY <2>4, <2>5
<1>3. ASSUME "stash" \in b
      PROVE  \E w \in DOMAIN probe : "XLM" \in Unpriced(probe[w])
  <2>1. Cold(b).coins["XLM"] = 1 /\ "XLM" \in DOMAIN Cold(b).coins
    BY <1>3, WalletCoins DEF Units
  <2>2. UsdValue("XLM", 1, PricesOf(F)) = None
    BY QuotedPrices, CaptureAssumption DEF UsdValue
  <2>3. "XLM" \in DOMAIN Valued(Cold(b).coins, PricesOf(F))
        /\ Valued(Cold(b).coins, PricesOf(F))["XLM"].usd = None
    <3> DEFINE amounts == Cold(b).coins
               v == Valued(amounts, PricesOf(F))
    <3>1. DOMAIN v = {c \in DOMAIN amounts : amounts[c] # 0}
          /\ \A c \in DOMAIN v : v[c].usd = UsdValue(c, amounts[c], PricesOf(F))
      BY DEF Valued
    <3>2. "XLM" \in DOMAIN amounts /\ amounts["XLM"] = 1
      BY <2>1
    <3> HIDE DEF amounts, v
    <3>3. "XLM" \in DOMAIN v /\ v["XLM"].usd = None
      BY <2>2, <3>1, <3>2
    <3>4. QED
      BY <3>3 DEF v, amounts
  <2>4. Cold(b) \in DOMAIN probe /\ probe[Cold(b)] = Valued(Cold(b).coins, PricesOf(F))
    BY <1>1, <1>3
  <2>5. "XLM" \in Unpriced(probe[Cold(b)])
    BY <2>3, <2>4 DEF Unpriced
  <2>6. QED
    BY <2>4, <2>5
<1>4. QED
  BY <1>2, <1>3 DEF probe

CustodyPricesOf(b, F) == CustodyPrices(WalletsOf(b, F), PricesOf(F), TickersOf(F))
EthPriceKnown(F) == <<"quotes">> \notin F \/ <<"ticker", "ETH">> \notin F

\* What custody is valued with: quotes first, live prices for the rest.
LEMMA CustodyPricesAre ==
    ASSUME NEW b \in SUBSET Positions, NEW F, CustodyAnswers(F)
    PROVE  /\ "reserve" \in b => /\ "ETH" \in DOMAIN CustodyPricesOf(b, F) <=> EthPriceKnown(F)
                                 /\ EthPriceKnown(F) => CustodyPricesOf(b, F)["ETH"] = 2
           /\ "stash" \in b => /\ "XLM" \in DOMAIN CustodyPricesOf(b, F) <=> <<"ticker", "XLM">> \notin F
                               /\ <<"ticker", "XLM">> \notin F => CustodyPricesOf(b, F)["XLM"] = 5
           /\ "AETHWETH" \notin DOMAIN CustodyPricesOf(b, F)
<1> DEFINE W == {Hot(b), Spare, Cold(b)}
           probe == AggregateHoldings(W, PricesOf(F))
           unpriced == UNION {Unpriced(probe[w]) : w \in DOMAIN probe}
           asked == unpriced \ ATokens
           extra == AssetPrices(asked, TickersOf(F))
           prices == PricesOf(F)
           p == CustodyPricesOf(b, F)
<1>1. p = With(prices, extra)
  <2>1. WalletsOf(b, F) = W
    BY WalletsRead
  <2>2. CustodyPrices(W, PricesOf(F), TickersOf(F)) = With(prices, extra)
    BY Zenon DEF CustodyPrices
  <2>3. QED
    BY <2>1, <2>2 DEF CustodyPricesOf
<1>2. ("reserve" \in b /\ <<"quotes">> \in F => "ETH" \in unpriced)
      /\ ("stash" \in b => "XLM" \in unpriced)
  BY UnpricedCoins
<1> HIDE DEF unpriced
<1>3. /\ DOMAIN extra \subseteq asked
      /\ "ETH" \in DOMAIN extra <=> "ETH" \in asked /\ <<"ticker", "ETH">> \notin F
      /\ "XLM" \in DOMAIN extra <=> "XLM" \in asked /\ <<"ticker", "XLM">> \notin F
      /\ "ETH" \in DOMAIN extra => extra["ETH"] = 2
      /\ "XLM" \in DOMAIN extra => extra["XLM"] = 5
  BY AssetPricesAre
<1>4. "ETH" \notin ATokens /\ "XLM" \notin ATokens /\ "AETHWETH" \in ATokens
  BY CaptureAssumption
<1>5. /\ <<"quotes">> \in F => DOMAIN prices = {}
      /\ <<"quotes">> \notin F => "ETH" \in DOMAIN prices /\ prices["ETH"] = 2
      /\ "XLM" \notin DOMAIN prices /\ "AETHWETH" \notin DOMAIN prices
  BY QuotedPrices
<1> HIDE DEF extra, prices, p
<1>6. /\ DOMAIN p = DOMAIN prices \cup DOMAIN extra
      /\ \A c \in DOMAIN extra : p[c] = extra[c]
      /\ \A c \in DOMAIN prices \ DOMAIN extra : p[c] = prices[c]
  BY <1>1 DEF With
<1>7. "AETHWETH" \notin DOMAIN p
  BY <1>3, <1>4, <1>5, <1>6
<1>8. "stash" \in b => /\ "XLM" \in DOMAIN p <=> <<"ticker", "XLM">> \notin F
                       /\ <<"ticker", "XLM">> \notin F => p["XLM"] = 5
  BY <1>2, <1>3, <1>4, <1>5, <1>6
<1>9. ASSUME "reserve" \in b
      PROVE  /\ "ETH" \in DOMAIN p <=> EthPriceKnown(F)
             /\ EthPriceKnown(F) => p["ETH"] = 2
  <2>1. CASE <<"quotes">> \in F
    BY <1>2, <1>3, <1>4, <1>5, <1>6, <1>9, <2>1 DEF EthPriceKnown
  <2>2. CASE <<"quotes">> \notin F
    BY <1>3, <1>5, <1>6, <2>2 DEF EthPriceKnown
  <2>3. QED
    BY <2>1, <2>2
<1>10. QED
  BY <1>7, <1>8, <1>9 DEF p

\* Nobody prices a receipt, and a failed price counts nothing.
LEMMA HotWorth ==
    ASSUME NEW b \in SUBSET Positions, NEW F, CustodyAnswers(F)
    PROVE  LET v == Valued(Hot(b).coins, CustodyPricesOf(b, F))
           IN /\ TotalUsd(v) = IF "reserve" \in b /\ EthPriceKnown(F) THEN 6 ELSE 0
              /\ v \in Tables
<1> DEFINE P == CustodyPricesOf(b, F)
           amounts == Hot(b).coins
           v == Valued(amounts, P)
           f == [c \in DOMAIN v |-> Or0(v[c].usd)]
<1>1. /\ DOMAIN amounts = {"ETH", "AETHWETH"}
      /\ amounts["ETH"] = Units(b, "reserve", 3) /\ amounts["AETHWETH"] = Units(b, "loan", 10)
      /\ Units(b, "reserve", 3) \in {0, 3} /\ Units(b, "loan", 10) \in {0, 10}
      /\ "reserve" \in b <=> Units(b, "reserve", 3) # 0
      /\ "reserve" \in b => Units(b, "reserve", 3) = 3
  BY WalletCoins DEF Units
<1>2. DOMAIN v = {c \in DOMAIN amounts : amounts[c] # 0}
      /\ (\A c \in DOMAIN v : v[c] = [amount |-> amounts[c], usd |-> UsdValue(c, amounts[c], P)])
      /\ (\A c \in DOMAIN v : v[c].usd = UsdValue(c, amounts[c], P))
      /\ v = [c \in DOMAIN v |-> v[c]]
  BY DEF Valued
<1>3. /\ "reserve" \in b => ("ETH" \in DOMAIN P <=> EthPriceKnown(F)) /\ (EthPriceKnown(F) => P["ETH"] = 2)
      /\ "AETHWETH" \notin DOMAIN P
  BY CustodyPricesAre
<1>4. "ETH" \notin Stables /\ "AETHWETH" \notin Stables
  BY CaptureAssumption, ReadersAssumption
<1> HIDE DEF amounts, v, P
<1>5. \A c \in DOMAIN v : c \in {"ETH", "AETHWETH"}
  BY <1>1, <1>2
<1>6. "AETHWETH" \in DOMAIN v => v["AETHWETH"].usd = None
  BY <1>2, <1>3, <1>4 DEF UsdValue
<1>7. "ETH" \in DOMAIN v <=> "reserve" \in b
  BY <1>1, <1>2
<1>8. "ETH" \in DOMAIN v => v["ETH"].usd = IF EthPriceKnown(F) THEN 6 ELSE None
  <2>1. SUFFICES ASSUME "ETH" \in DOMAIN v PROVE v["ETH"].usd = IF EthPriceKnown(F) THEN 6 ELSE None
    OBVIOUS
  <2>2. amounts["ETH"] = 3 /\ v["ETH"].usd = UsdValue("ETH", 3, P)
    BY <1>1, <1>2, <1>7, <2>1
  <2>3. CASE EthPriceKnown(F)
    <3>1. UsdValue("ETH", 3, P) = 3 * 2
      BY <1>3, <1>4, <1>7, <2>1, <2>3 DEF UsdValue
    <3>2. QED
      BY <2>2, <2>3, <3>1
  <2>4. CASE ~EthPriceKnown(F)
    BY <1>3, <1>4, <1>7, <2>1, <2>2, <2>4 DEF UsdValue
  <2>5. QED
    BY <2>3, <2>4
<1>9. Or0(None) = 0 /\ Or0(6) = 6
  BY ReadersAssumption DEF Or0
<1>10. \A c \in DOMAIN v : v[c].usd \in Int \cup {None} /\ f[c] \in Int
       /\ (c # "ETH" => f[c] = 0)
  BY <1>5, <1>6, <1>8, <1>9
<1>11. IsFiniteSet({"ETH", "AETHWETH"})
  BY FourAreFinite, {"ETH", "AETHWETH"} = {"ETH", "ETH", "ETH", "AETHWETH"}
<1>12. IsFiniteSet(DOMAIN v)
  BY <1>5, <1>11, FS_Subset
<1>13. TotalUsd(v) = SumFunctionOnSet(f, DOMAIN v)
  BY DEF TotalUsd, SumFunction
<1>14. "ETH" \in DOMAIN v => f["ETH"] = IF EthPriceKnown(F) THEN 6 ELSE 0
  BY <1>8, <1>9
<1> HIDE DEF f
<1>15. SumFunctionOnSet(f, DOMAIN v) = IF "ETH" \in DOMAIN v THEN f["ETH"] ELSE 0
  BY <1>10, <1>12, SumAtMostOne
<1>16. TotalUsd(v) = IF "reserve" \in b /\ EthPriceKnown(F) THEN 6 ELSE 0
  BY <1>7, <1>13, <1>14, <1>15
<1>17. v \in Tables
  <2>1. DOMAIN v \in SUBSET Coins
    BY <1>5 DEF Coins
  <2>2. \A c \in DOMAIN v : amounts[c] \in Int
    BY <1>1, <1>5
  <2>3. \A c \in DOMAIN v : v[c] \in Asset
    BY <1>2, <1>10, <2>2 DEF Asset
  <2>4. v \in [DOMAIN v -> Asset]
    BY <1>2, <2>3
  <2>5. QED
    BY <2>1, <2>4 DEF Tables
<1>18. QED
  BY <1>16, <1>17 DEF v, amounts, P

\* The cold wallet counts by the live price, or nothing.
LEMMA ColdWorth ==
    ASSUME NEW b \in SUBSET Positions, NEW F, CustodyAnswers(F)
    PROVE  LET v == Valued(Cold(b).coins, CustodyPricesOf(b, F))
           IN /\ TotalUsd(v) = IF "stash" \in b /\ <<"ticker", "XLM">> \notin F THEN 5 ELSE 0
              /\ v \in Tables
<1> DEFINE P == CustodyPricesOf(b, F)
           amounts == Cold(b).coins
           v == Valued(amounts, P)
           n == Units(b, "stash", 1)
           u == UsdValue("XLM", n, P)
<1>1. /\ DOMAIN amounts = {"XLM"} /\ amounts["XLM"] = n
      /\ n \in {0, 1} /\ ("stash" \in b => n = 1) /\ ("stash" \notin b => n = 0)
  BY WalletCoins DEF Units
<1>2. /\ "stash" \in b => /\ "XLM" \in DOMAIN P <=> <<"ticker", "XLM">> \notin F
                          /\ <<"ticker", "XLM">> \notin F => P["XLM"] = 5
      /\ "XLM" \notin Stables
  BY CustodyPricesAre, CaptureAssumption
<1>3. v = [c \in DOMAIN v |-> v[c]]
  BY DEF Valued
<1> HIDE DEF amounts, P, n
<1>4. "stash" \in b => u = IF <<"ticker", "XLM">> \notin F THEN 5 ELSE None
  <2>1. SUFFICES ASSUME "stash" \in b
                 PROVE  UsdValue("XLM", n, P) = IF <<"ticker", "XLM">> \notin F THEN 5 ELSE None
    OBVIOUS
  <2>2. n = 1
    BY <1>1, <2>1
  <2>3. CASE <<"ticker", "XLM">> \notin F
    BY <1>2, <2>1, <2>2, <2>3 DEF UsdValue
  <2>4. CASE <<"ticker", "XLM">> \in F
    BY <1>2, <2>1, <2>2, <2>4 DEF UsdValue
  <2>5. QED
    BY <2>3, <2>4
<1>5. Or0(None) = 0 /\ Or0(5) = 5
  BY ReadersAssumption DEF Or0
<1>6. CASE "stash" \in b
  <2>1. u \in Int \cup {None} /\ n \in Int /\ n # 0
    BY <1>1, <1>4, <1>6
  <2> HIDE DEF u
  <2>2. /\ DOMAIN v = (IF n = 0 THEN {} ELSE {"XLM"})
        /\ n # 0 => v["XLM"] = [amount |-> n, usd |-> u]
        /\ TotalUsd(v) = (IF n = 0 THEN 0 ELSE Or0(u))
    <3>1. UsdValue("XLM", n, P) = u /\ v = Valued(amounts, P)
      BY DEF u
    <3>2. DOMAIN amounts = {"XLM"} /\ amounts["XLM"] = n
      BY <1>1
    <3> HIDE DEF v
    <3>3. QED
      BY <2>1, <3>1, <3>2, OneCoin
  <2>3. TotalUsd(v) = IF "stash" \in b /\ <<"ticker", "XLM">> \notin F THEN 5 ELSE 0
    BY <1>4, <1>5, <1>6, <2>1, <2>2 DEF u
  <2>4. DOMAIN v = {"XLM"} /\ v["XLM"] \in Asset
    BY <2>1, <2>2 DEF Asset
  <2>5. v \in Tables
    BY <1>3, <2>4 DEF Tables, Coins
  <2>6. QED
    BY <2>3, <2>5 DEF amounts, P
<1>7. CASE "stash" \notin b
  <2>1. DOMAIN v = {}
    BY <1>1, <1>7 DEF Valued
  <2>2. TotalUsd(v) = 0
    <3> DEFINE f == [c \in DOMAIN v |-> Or0(v[c].usd)]
    <3>1. TotalUsd(v) = SumFunctionOnSet(f, DOMAIN v)
      BY DEF TotalUsd, SumFunction
    <3> HIDE DEF f
    <3>2. QED
      BY <2>1, <3>1, SumOfNone
  <2>3. v \in Tables
    <3>1. v \in [{} -> Asset]
      BY <1>3, <2>1
    <3>2. QED
      BY <3>1 DEF Tables
  <2>4. QED
    BY <1>7, <2>2, <2>3 DEF amounts, P
<1>8. QED
  BY <1>6, <1>7

NativeTold(b, F) ==
    BookWorth({p \in b \cap {"reserve", "stash"} :
                 IF p = "stash" THEN <<"ticker", "XLM">> \notin F
                 ELSE <<"quotes">> \notin F \/ <<"ticker", "ETH">> \notin F})

\* What custody's positions with a price are worth, by the calls that answered.
LEMMA NativeToldIs ==
    ASSUME NEW b \in SUBSET Positions, NEW F
    PROVE  NativeTold(b, F) = (IF "reserve" \in b /\ EthPriceKnown(F) THEN 6 ELSE 0)
                              + (IF "stash" \in b /\ <<"ticker", "XLM">> \notin F THEN 5 ELSE 0)
<1> DEFINE S == {p \in b \cap {"reserve", "stash"} :
                   IF p = "stash" THEN <<"ticker", "XLM">> \notin F
                   ELSE <<"quotes">> \notin F \/ <<"ticker", "ETH">> \notin F}
<1>1. /\ S \subseteq {"reserve", "stash"}
      /\ "reserve" \in S <=> "reserve" \in b /\ EthPriceKnown(F)
      /\ "stash" \in S <=> "stash" \in b /\ <<"ticker", "XLM">> \notin F
  BY DEF EthPriceKnown
<1>2. "reserve" \in Positions /\ "stash" \in Positions /\ Worth("reserve") = 6 /\ Worth("stash") = 5
  BY DEF Positions, Worth
<1>3. NativeTold(b, F) = BookWorth(S)
  BY DEF NativeTold
<1> HIDE DEF S
<1>4. BookWorth(S) = (IF "reserve" \in S THEN Worth("reserve") ELSE 0)
                     + (IF "stash" \in S THEN Worth("stash") ELSE 0)
  BY <1>1, <1>2, BookWorthOfTwo
<1>5. QED
  BY <1>1, <1>2, <1>3, <1>4

\* What a cycle stores of custody: None, all of it, or the wallets by detail.
LEMMA CustodyIs ==
    ASSUME NEW b \in SUBSET Positions, NEW F, NEW r, r = FirstReads(b, F)
    PROVE  LET custody == CustodyColumns(r)
               h == custody["bitgo_holdings_json"]
           IN /\ ~CustodyAnswers(F) => h = None /\ custody["wallet_native_amount"] = None
              /\ CustodyAnswers(F) =>
                   /\ h # None
                   /\ DOMAIN h = {} <=> b \cap {"reserve", "stash", "loan"} = {}
                   /\ DOMAIN h = {} => custody["wallet_native_amount"] = None
                   /\ SumFunction([w \in DOMAIN h |-> TotalUsd(h[w])]) = NativeTold(b, F)
<1> DEFINE W == WalletsOf(b, F)
           P == CustodyPricesOf(b, F)
           fields == CustodyFields(W, P)
           custody == CustodyColumns(r)
           h == AggregateHoldings(W, P)
<1>1. custody = [bitgo_holdings_json |-> fields.holdings,
                 wallet_native_amount |-> fields.amount, wallet_balance_usd |-> fields.usd]
  <2>1. r.wallets = W /\ r.prices = PricesOf(F) /\ r.tickers = TickersOf(F)
    BY FirstFields
  <2>2. CustodyPrices(r.wallets, r.prices, r.tickers) = P
    BY <2>1 DEF CustodyPricesOf
  <2>3. QED
    BY <2>1, <2>2 DEF CustodyColumns
<1>2. custody["bitgo_holdings_json"] = fields.holdings
      /\ custody["wallet_native_amount"] = fields.amount
  BY <1>1
<1> HIDE DEF custody
<1>3. CASE ~CustodyAnswers(F)
  <2>1. fields = [holdings |-> None, amount |-> None, usd |-> None]
    BY <1>3, WalletsRead DEF CustodyFields
  <2>2. QED
    BY <1>2, <1>3, <2>1 DEF custody
<1>4. CASE CustodyAnswers(F)
  <2>1. W = {Hot(b), Spare, Cold(b)} /\ W # None
    BY <1>4, WalletsRead
  <2>2. fields.holdings = h
        /\ fields.amount = IF BaseAsset \in HeldCoins(h) THEN AmountOf(h, BaseAsset) ELSE None
    BY <2>1 DEF CustodyFields
  <2>3. /\ DOMAIN h \subseteq {Hot(b), Cold(b)}
        /\ Hot(b) \in DOMAIN h <=> "reserve" \in b \/ "loan" \in b
        /\ Cold(b) \in DOMAIN h <=> "stash" \in b
        /\ \A w \in DOMAIN h : h[w] = Valued(w.coins, P)
    BY <2>1, HoldingsOf
  <2>4. h = [w \in DOMAIN h |-> h[w]]
    BY DEF AggregateHoldings
  <2>5. /\ TotalUsd(Valued(Hot(b).coins, P)) = (IF "reserve" \in b /\ EthPriceKnown(F) THEN 6 ELSE 0)
        /\ Valued(Hot(b).coins, P) \in Tables
    BY <1>4, HotWorth
  <2>6. /\ TotalUsd(Valued(Cold(b).coins, P)) = (IF "stash" \in b /\ <<"ticker", "XLM">> \notin F THEN 5 ELSE 0)
        /\ Valued(Cold(b).coins, P) \in Tables
    BY <1>4, ColdWorth
  <2> HIDE DEF h, fields, W, P
  <2>7. h # None
    <3>1. {Hot(b), Spare, Cold(b)} \subseteq Wallets
      BY WalletsRead
    <3>2. DOMAIN h \in SUBSET Wallets
      BY <2>3, <3>1
    <3>3. \A w \in DOMAIN h : h[w] \in Tables
      BY <2>3, <2>5, <2>6
    <3>4. h \in [DOMAIN h -> Tables]
      BY <2>4, <3>3
    <3>5. QED
      BY <3>2, <3>4, CaptureAssumption DEF NoneIsNoAnswer
  <2>8. DOMAIN h = {} <=> b \cap {"reserve", "stash", "loan"} = {}
    BY <2>3
  <2>9. DOMAIN h = {} => fields.amount = None
    BY <2>2 DEF HeldCoins
  <2> DEFINE f == [w \in DOMAIN h |-> TotalUsd(h[w])]
  <2>10. SumFunction(f) = NativeTold(b, F)
    <3>1. /\ Hot(b) \in DOMAIN h => f[Hot(b)] = (IF "reserve" \in b /\ EthPriceKnown(F) THEN 6 ELSE 0)
          /\ Cold(b) \in DOMAIN h =>
               f[Cold(b)] = (IF "stash" \in b /\ <<"ticker", "XLM">> \notin F THEN 5 ELSE 0)
      BY <2>3, <2>5, <2>6
    <3>2. DOMAIN f = DOMAIN h
      OBVIOUS
    <3> HIDE DEF f
    <3>3. IsFiniteSet({Hot(b), Hot(b), Hot(b), Cold(b)})
      BY FourAreFinite
    <3>4. IsFiniteSet(DOMAIN f)
      BY <2>3, <3>2, <3>3, FS_Subset
    <3>5. \A w \in DOMAIN f : f[w] \in Int
      BY <2>3, <3>1, <3>2
    <3>6. Hot(b) # Cold(b)
      BY WalletCoins
    <3>7. SumFunctionOnSet(f, DOMAIN f) = (IF Hot(b) \in DOMAIN f THEN f[Hot(b)] ELSE 0)
                           + (IF Cold(b) \in DOMAIN f THEN f[Cold(b)] ELSE 0)
      <4>1. \A w \in DOMAIN f \ {Hot(b), Cold(b)} : f[w] = 0
        BY <2>3, <3>2
      <4>2. QED
        BY <3>4, <3>5, <3>6, <4>1, SumOfTwo
    <3>8. SumFunction(f) = (IF "reserve" \in b /\ EthPriceKnown(F) THEN 6 ELSE 0)
                           + (IF "stash" \in b /\ <<"ticker", "XLM">> \notin F THEN 5 ELSE 0)
      BY <2>3, <3>1, <3>2, <3>7 DEF SumFunction
    <3>9. QED
      BY <3>8, NativeToldIs
  <2>11. custody["bitgo_holdings_json"] = h
    BY <1>2, <2>2
  <2>12. QED
    BY <1>2, <1>4, <2>7, <2>8, <2>9, <2>10, <2>11 DEF custody
<1>5. QED
  BY <1>3, <1>4

-----------------------------------------------------------------------------
(* Aave. *)

AaveAnswers(b, F, addresses) ==
    Answered([k \in addresses \X Markets |-> Account(b, k)],
             [k \in addresses \X Markets |-> <<"aave", k[1], k[2]>>], F)
AaveRead(b, F, addresses) == AaveForAddresses(AaveAnswers(b, F, addresses), addresses)

\* What a wallet owes and lent, and when it has a health factor.
LEMMA AccountOf ==
    ASSUME NEW b \in SUBSET Positions, NEW k
    PROVE  LET a == DecodeAccount(Account(b, k))
           IN /\ a.collateral = IF k = <<"0x1", "core">> THEN Units(b, "loan", 20)
                                ELSE IF k = <<"0x2", "prime">> THEN Units(b, "lend", 4) ELSE 0
              /\ a.debt = IF k = <<"0x1", "core">> THEN Units(b, "loan", 8) ELSE 0
              /\ a.collateral \in Int /\ a.debt \in Int /\ a.health \in {25, None}
<1> DEFINE acct == Account(b, k)
<1>1. DecodeAccount(acct) = [collateral |-> acct.collateral, debt |-> acct.debt,
                             health |-> IF acct.debt > 0 THEN acct.health ELSE None]
  BY DEF DecodeAccount
<1>2. CASE k = <<"0x1", "core">>
  <2>1. acct = [collateral |-> Units(b, "loan", 20), debt |-> Units(b, "loan", 8), health |-> 25]
    BY <1>2 DEF Account
  <2> HIDE DEF acct
  <2>2. QED
    BY <1>1, <1>2, <2>1 DEF acct, Units
<1>3. CASE k = <<"0x2", "prime">>
  <2>1. acct = [collateral |-> Units(b, "lend", 4), debt |-> 0, health |-> None]
    BY <1>3 DEF Account
  <2>2. k # <<"0x1", "core">>
    BY <1>3
  <2> HIDE DEF acct
  <2>3. QED
    BY <1>1, <1>3, <2>1, <2>2 DEF acct, Units
<1>4. CASE k # <<"0x1", "core">> /\ k # <<"0x2", "prime">>
  <2>1. acct = [collateral |-> 0, debt |-> 0, health |-> None]
    BY <1>4 DEF Account
  <2> HIDE DEF acct
  <2>2. QED
    BY <1>1, <1>4, <2>1 DEF acct
<1>5. QED
  BY <1>2, <1>3, <1>4

\* Two accounts added, or one, or none.
LEMMA AaveSumOf ==
    ASSUME NEW accounts, IsFiniteSet(DOMAIN accounts),
           \A k \in DOMAIN accounts : /\ accounts[k].collateral \in Int /\ accounts[k].debt \in Int
                                      /\ accounts[k].health \in {25, None}
    PROVE  LET s == AaveSum(accounts)
           IN /\ s = None <=> DOMAIN accounts = {}
              /\ DOMAIN accounts # {} =>
                   /\ s.collateral = SumFunctionOnSet([k \in DOMAIN accounts |-> accounts[k].collateral], DOMAIN accounts)
                   /\ s.debt = SumFunctionOnSet([k \in DOMAIN accounts |-> accounts[k].debt], DOMAIN accounts)
                   /\ s.collateral \in Int /\ s.debt \in Int /\ s.health \in {25, None}
<1> DEFINE s == AaveSum(accounts)
           c == [k \in DOMAIN accounts |-> accounts[k].collateral]
           d == [k \in DOMAIN accounts |-> accounts[k].debt]
           H == {accounts[k].health : k \in DOMAIN accounts}
<1>1. CASE DOMAIN accounts = {}
  BY <1>1 DEF AaveSum
<1>2. CASE DOMAIN accounts # {}
  <2>1. s = [collateral |-> SumFunctionOnSet(c, DOMAIN accounts),
             debt |-> SumFunctionOnSet(d, DOMAIN accounts), health |-> Least(H)]
    BY <1>2 DEF AaveSum, SumFunction
  <2>2. H \subseteq {25, None}
    OBVIOUS
  <2> HIDE DEF H
  <2>3. Least(H) \in {25, None}
    <3>1. CASE H \subseteq {None}
      BY <3>1 DEF Least
    <3>2. CASE ~(H \subseteq {None})
      <4>1. H \ {None} = {25}
        BY <2>2, <3>2
      <4>2. Min({25}) \in {25}
        <5>1. \E x \in {25} : \A y \in {25} : x <= y
          OBVIOUS
        <5>2. QED
          BY <5>1 DEF Min
      <4>3. QED
        BY <3>2, <4>1, <4>2 DEF Least
    <3>3. QED
      BY <3>1, <3>2
  <2>4. (\A k \in DOMAIN accounts : c[k] \in Int /\ d[k] \in Int)
    OBVIOUS
  <2> HIDE DEF c, d
  <2>5. SumFunctionOnSet(c, DOMAIN accounts) \in Int /\ SumFunctionOnSet(d, DOMAIN accounts) \in Int
    BY <2>4, SumType
  <2>6. s \in Debts
    BY <2>1, <2>3, <2>5 DEF Debts
  <2>7. s # None
    BY <2>6, ReadersAssumption
  <2>8. QED
    BY <1>2, <2>1, <2>3, <2>5, <2>7 DEF c, d
<1>3. QED
  BY <1>1, <1>2

MarketAnswers(F, a) == {m \in Markets : <<"aave", a, m>> \notin F}
Lent(b, F, a) ==
    IF a = "0x1" THEN (IF <<"aave", "0x1", "core">> \in F THEN 0 ELSE Units(b, "loan", 20))
    ELSE (IF <<"aave", "0x2", "prime">> \in F THEN 0 ELSE Units(b, "lend", 4))
Owed(b, F, a) ==
    IF a = "0x1" THEN (IF <<"aave", "0x1", "core">> \in F THEN 0 ELSE Units(b, "loan", 8)) ELSE 0

\* A wallet's markets added up; None when every market failed.
LEMMA AaveOfWallet ==
    ASSUME NEW b \in SUBSET Positions, NEW F, NEW a \in {"0x1", "0x2"}
    PROVE  LET w == AaveForWallet(AaveAnswers(b, F, {"0x1", "0x2"}), a)
           IN /\ w = None <=> MarketAnswers(F, a) = {}
              /\ w # None => /\ w.collateral = Lent(b, F, a) /\ w.debt = Owed(b, F, a)
                             /\ w.health \in {25, None}
              /\ Lent(b, F, a) \in Int /\ Owed(b, F, a) \in Int
<1> DEFINE addresses == {"0x1", "0x2"}
           answers == AaveAnswers(b, F, addresses)
           read == {k \in DOMAIN answers : k[1] = a}
           accounts == [k \in read |-> DecodeAccount(answers[k])]
           w == AaveForWallet(answers, a)
           c == [k \in DOMAIN accounts |-> accounts[k].collateral]
           d == [k \in DOMAIN accounts |-> accounts[k].debt]
           home == IF a = "0x1" THEN <<"0x1", "core">> ELSE <<"0x2", "prime">>
<1>1. DOMAIN answers = {k \in addresses \X Markets : <<"aave", k[1], k[2]>> \notin F}
      /\ \A k \in DOMAIN answers : answers[k] = Account(b, k)
  <2> HIDE DEF addresses
  <2>1. QED
    BY DEF AaveAnswers, Answered
<1>2. w = AaveSum(accounts)
  BY DEF AaveForWallet
<1> HIDE DEF answers, w
<1>3. read = {k \in {a} \X Markets : <<"aave", a, k[2]>> \notin F}
  BY <1>1
<1>4. \A k \in read : /\ DecodeAccount(answers[k]).collateral
                           = (IF k = <<"0x1", "core">> THEN Units(b, "loan", 20)
                              ELSE IF k = <<"0x2", "prime">> THEN Units(b, "lend", 4) ELSE 0)
                      /\ DecodeAccount(answers[k]).debt = (IF k = <<"0x1", "core">> THEN Units(b, "loan", 8) ELSE 0)
                      /\ DecodeAccount(answers[k]).collateral \in Int
                      /\ DecodeAccount(answers[k]).debt \in Int
                      /\ DecodeAccount(answers[k]).health \in {25, None}
  BY <1>1, AccountOf
<1>5. Markets = {"core", "prime"}
  BY DEF Markets
<1>6. read \subseteq {<<a, "core">>, <<a, "prime">>}
  <2>1. {a} \X Markets \subseteq {<<a, "core">>, <<a, "prime">>}
    BY <1>5
  <2>2. read \subseteq {a} \X Markets
    BY <1>3
  <2>3. QED
    BY <2>1, <2>2
<1>7. (<<a, "core">> \in read <=> <<"aave", a, "core">> \notin F)
      /\ (<<a, "prime">> \in read <=> <<"aave", a, "prime">> \notin F)
  BY <1>3, <1>5
<1> HIDE DEF read
<1>8. IsFiniteSet(read)
  <2>1. IsFiniteSet({<<a, "core">>, <<a, "core">>, <<a, "core">>, <<a, "prime">>})
    BY FourAreFinite
  <2>2. QED
    BY <1>6, <2>1, FS_Subset
<1>9. DOMAIN accounts = read /\ \A k \in read : accounts[k] = DecodeAccount(answers[k])
  OBVIOUS
<1> HIDE DEF accounts
<1>10. \A k \in read : c[k] = (IF k = <<"0x1", "core">> THEN Units(b, "loan", 20)
                              ELSE IF k = <<"0x2", "prime">> THEN Units(b, "lend", 4) ELSE 0)
                       /\ d[k] = (IF k = <<"0x1", "core">> THEN Units(b, "loan", 8) ELSE 0)
                       /\ c[k] \in Int /\ d[k] \in Int
  BY <1>4, <1>9
<1>11. /\ w = None <=> DOMAIN accounts = {}
       /\ DOMAIN accounts # {} =>
            /\ w.collateral = SumFunctionOnSet(c, DOMAIN accounts)
            /\ w.debt = SumFunctionOnSet(d, DOMAIN accounts)
            /\ w.health \in {25, None}
  BY <1>2, <1>4, <1>8, <1>9, AaveSumOf
<1> HIDE DEF c, d
<1>12. \A k \in read \ {home} : c[k] = 0 /\ d[k] = 0
  BY <1>6, <1>10
<1>13. SumFunctionOnSet(c, read) = (IF home \in read THEN c[home] ELSE 0)
       /\ SumFunctionOnSet(d, read) = (IF home \in read THEN d[home] ELSE 0)
  BY <1>8, <1>10, <1>12, SumAtMostOne
<1>14. (IF home \in read THEN c[home] ELSE 0) = Lent(b, F, a)
       /\ (IF home \in read THEN d[home] ELSE 0) = Owed(b, F, a)
  <2>1. CASE a = "0x1"
    BY <1>7, <1>10, <2>1 DEF Lent, Owed
  <2>2. CASE a = "0x2"
    BY <1>7, <1>10, <2>2 DEF Lent, Owed
  <2>3. QED
    BY <2>1, <2>2
<1>15. read = {} <=> MarketAnswers(F, a) = {}
  BY <1>5, <1>6, <1>7 DEF MarketAnswers
<1>16. Lent(b, F, a) \in Int /\ Owed(b, F, a) \in Int
  BY DEF Lent, Owed, Units
<1>17. QED
  BY <1>9, <1>11, <1>13, <1>14, <1>15, <1>16 DEF w, answers

AaveTold(b, F) ==
    BookWorth({p \in b \cap {"loan", "lend"} :
                 (IF p = "loan" THEN <<"aave", "0x1", "core">> ELSE <<"aave", "0x2", "prime">>) \notin F})

\* What Aave's positions are worth: lent less owed.
LEMMA AaveToldIs ==
    ASSUME NEW b \in SUBSET Positions, NEW F
    PROVE  AaveTold(b, F) = Lent(b, F, "0x1") + Lent(b, F, "0x2") - Owed(b, F, "0x1")
<1> DEFINE S == {p \in b \cap {"loan", "lend"} :
                   (IF p = "loan" THEN <<"aave", "0x1", "core">> ELSE <<"aave", "0x2", "prime">>) \notin F}
<1>1. /\ S \subseteq {"loan", "lend"}
      /\ "loan" \in S <=> "loan" \in b /\ <<"aave", "0x1", "core">> \notin F
      /\ "lend" \in S <=> "lend" \in b /\ <<"aave", "0x2", "prime">> \notin F
  OBVIOUS
<1>2. "loan" \in Positions /\ "lend" \in Positions /\ Worth("loan") = 12 /\ Worth("lend") = 4
  BY DEF Positions, Worth
<1>3. AaveTold(b, F) = BookWorth(S)
  BY DEF AaveTold
<1> HIDE DEF S
<1>4. BookWorth(S) = (IF "loan" \in S THEN Worth("loan") ELSE 0)
                     + (IF "lend" \in S THEN Worth("lend") ELSE 0)
  BY <1>1, <1>2, BookWorthOfTwo
<1>5. Lent(b, F, "0x1") - Owed(b, F, "0x1") = IF "loan" \in S THEN 12 ELSE 0
  BY <1>1 DEF Lent, Owed, Units
<1>6. Lent(b, F, "0x2") = IF "lend" \in S THEN 4 ELSE 0
  BY <1>1 DEF Lent, Units
<1>7. Lent(b, F, "0x1") \in Int /\ Owed(b, F, "0x1") \in Int
  BY DEF Lent, Owed, Units
<1>8. QED
  BY <1>1, <1>2, <1>3, <1>4, <1>5, <1>6, <1>7

\* What a cycle reads of Aave, over the addresses custody named.
LEMMA AaveIs ==
    ASSUME NEW b \in SUBSET Positions, NEW F
    PROVE  /\ AaveRead(b, F, {}) = None
           /\ LET a == AaveRead(b, F, {"0x1", "0x2"})
              IN /\ a = None <=> AaveCalls \subseteq F
                 /\ a # None => /\ a.collateral = Lent(b, F, "0x1") + Lent(b, F, "0x2")
                                /\ a.debt = Owed(b, F, "0x1")
                                /\ a.collateral \in Int /\ a.debt \in Int
<1>1. AaveRead(b, F, {}) = None
  <2> DEFINE answers == AaveAnswers(b, F, {})
             read == {a \in {} : AaveForWallet(answers, a) # None}
  <2>1. AaveRead(b, F, {}) = AaveSum([a \in read |-> AaveForWallet(answers, a)])
    BY DEF AaveRead, AaveForAddresses
  <2>2. read = {}
    OBVIOUS
  <2> HIDE DEF read
  <2>3. DOMAIN [a \in read |-> AaveForWallet(answers, a)] = {}
    BY <2>2
  <2>4. QED
    BY <2>1, <2>3 DEF AaveSum
<1> DEFINE addresses == {"0x1", "0x2"}
           answers == AaveAnswers(b, F, addresses)
           read == {a \in addresses : AaveForWallet(answers, a) # None}
           accounts == [a \in read |-> AaveForWallet(answers, a)]
           s == AaveRead(b, F, addresses)
           c == [k \in DOMAIN accounts |-> accounts[k].collateral]
           d == [k \in DOMAIN accounts |-> accounts[k].debt]
<1>2. s = AaveSum(accounts)
  BY DEF AaveRead, AaveForAddresses
<1>3. \A a \in addresses :
        /\ AaveForWallet(answers, a) = None <=> MarketAnswers(F, a) = {}
        /\ AaveForWallet(answers, a) # None =>
             /\ AaveForWallet(answers, a).collateral = Lent(b, F, a)
             /\ AaveForWallet(answers, a).debt = Owed(b, F, a)
             /\ AaveForWallet(answers, a).health \in {25, None}
        /\ Lent(b, F, a) \in Int /\ Owed(b, F, a) \in Int
  BY AaveOfWallet
<1> HIDE DEF answers, s
<1>4. /\ DOMAIN accounts = read /\ read \subseteq addresses
      /\ \A a \in read : /\ accounts[a].collateral = Lent(b, F, a) /\ accounts[a].debt = Owed(b, F, a)
                         /\ accounts[a].health \in {25, None}
                         /\ Lent(b, F, a) \in Int /\ Owed(b, F, a) \in Int
      /\ \A a \in addresses : a \in read <=> MarketAnswers(F, a) # {}
  BY <1>3
<1> HIDE DEF accounts, read
<1>5. \A a \in read : c[a] = Lent(b, F, a) /\ d[a] = Owed(b, F, a) /\ c[a] \in Int /\ d[a] \in Int
  BY <1>4
<1>6. IsFiniteSet(read)
  <2>1. IsFiniteSet({"0x1", "0x1", "0x1", "0x2"})
    BY FourAreFinite
  <2>2. QED
    BY <1>4, <2>1, FS_Subset
<1>7. /\ s = None <=> DOMAIN accounts = {}
      /\ DOMAIN accounts # {} =>
           /\ s.collateral = SumFunctionOnSet(c, DOMAIN accounts)
           /\ s.debt = SumFunctionOnSet(d, DOMAIN accounts)
           /\ s.collateral \in Int /\ s.debt \in Int
  BY <1>2, <1>4, <1>6, AaveSumOf
<1> HIDE DEF c, d
<1>8. /\ SumFunctionOnSet(c, read) = (IF "0x1" \in read THEN c["0x1"] ELSE 0) + (IF "0x2" \in read THEN c["0x2"] ELSE 0)
      /\ SumFunctionOnSet(d, read) = (IF "0x1" \in read THEN d["0x1"] ELSE 0) + (IF "0x2" \in read THEN d["0x2"] ELSE 0)
  <2>1. \A x \in read \ {"0x1", "0x2"} : c[x] = 0 /\ d[x] = 0
    BY <1>4
  <2>2. "0x1" # "0x2"
    OBVIOUS
  <2>3. QED
    BY <1>5, <1>6, <2>1, <2>2, SumOfTwo
<1>9. /\ "0x1" \notin read => <<"aave", "0x1", "core">> \in F
      /\ "0x2" \notin read => <<"aave", "0x2", "prime">> \in F
  BY <1>4 DEF MarketAnswers, Markets
<1>10. (IF "0x1" \in read THEN c["0x1"] ELSE 0) = Lent(b, F, "0x1")
       /\ (IF "0x1" \in read THEN d["0x1"] ELSE 0) = Owed(b, F, "0x1")
  BY <1>5, <1>9 DEF Lent, Owed
<1>11. (IF "0x2" \in read THEN c["0x2"] ELSE 0) = Lent(b, F, "0x2")
       /\ (IF "0x2" \in read THEN d["0x2"] ELSE 0) = 0
  BY <1>5, <1>9 DEF Lent, Owed
<1>12. read = {} <=> AaveCalls \subseteq F
  <2>1. AaveCalls = {<<"aave", a, k>> : a \in {"0x1", "0x2"}, k \in {"core", "prime"}}
    BY DEF AaveCalls, Addresses, Markets
  <2>2. AaveCalls \subseteq F <=> /\ <<"aave", "0x1", "core">> \in F /\ <<"aave", "0x1", "prime">> \in F
                                  /\ <<"aave", "0x2", "core">> \in F /\ <<"aave", "0x2", "prime">> \in F
    BY <2>1
  <2>3. read = {} <=> MarketAnswers(F, "0x1") = {} /\ MarketAnswers(F, "0x2") = {}
    BY <1>4
  <2>4. \A a : MarketAnswers(F, a) = {} <=> <<"aave", a, "core">> \in F /\ <<"aave", a, "prime">> \in F
    BY DEF MarketAnswers, Markets
  <2>5. QED
    BY <2>2, <2>3, <2>4
<1>13. Owed(b, F, "0x1") \in Int
  BY <1>3
<1>14. QED
  BY <1>1, <1>4, <1>7, <1>8, <1>10, <1>11, <1>12, <1>13 DEF s

-----------------------------------------------------------------------------
(* Savings and vaults. *)

SusdsRead(b, F, addresses) ==
    SusdsForAddresses(Answered([k \in Chains \X addresses |-> Susds(b, k)],
                               [k \in Chains \X addresses |-> <<"susds", k[1], k[2]>>], F),
                      addresses, SusdsRate(Answer(F, <<"rate">>, 2)))
Rate(F) == IF <<"rate">> \in F THEN 1 ELSE 2
Saved(b, F, chain) ==
    IF chain = "arb" THEN (IF <<"susds", "arb", "0x1">> \in F THEN 0 ELSE Units(b, "spark", 5))
    ELSE (IF <<"susds", "eth", "0x2">> \in F THEN 0 ELSE Units(b, "sparkEth", 4))

\* A rate that failed counts as one.
LEMMA RateIs == ASSUME NEW F PROVE SusdsRate(Answer(F, <<"rate">>, 2)) = Rate(F)
<1>1. 2 # None
  BY ReadersAssumption
<1>2. CASE <<"rate">> \in F
  BY <1>2 DEF SusdsRate, Answer, Rate
<1>3. CASE <<"rate">> \notin F
  BY <1>1, <1>3 DEF SusdsRate, Answer, Or0, Rate
<1>4. QED
  BY <1>2, <1>3

\* What a cycle reads of Spark on one chain; no figure when every call failed.
LEMMA SusdsIs ==
    ASSUME NEW b \in SUBSET Positions, NEW F
    PROVE  /\ DOMAIN SusdsRead(b, F, {}) = {}
           /\ LET s == SusdsRead(b, F, {"0x1", "0x2"})
              IN /\ \A chain \in Chains : chain \in DOMAIN s <=> ~(SusdsCalls(chain) \subseteq F)
                 /\ \A chain \in DOMAIN s : s[chain] = Rate(F) * Saved(b, F, chain)
                                            /\ chain \in Chains
<1>1. ASSUME NEW addresses
      PROVE  LET read == {k \in Chains \X addresses : <<"susds", k[1], k[2]>> \notin F}
                 s == SusdsRead(b, F, addresses)
             IN /\ DOMAIN s = {k[1] : k \in read}
                /\ \A chain \in DOMAIN s :
                     s[chain] = Rate(F) * SumFunctionOnSet([k \in read |-> Susds(b, k)], {k \in read : k[1] = chain})
  <2> DEFINE answers == Answered([k \in Chains \X addresses |-> Susds(b, k)],
                                 [k \in Chains \X addresses |-> <<"susds", k[1], k[2]>>], F)
             read == {k \in Chains \X addresses : <<"susds", k[1], k[2]>> \notin F}
  <2>1. answers = [k \in read |-> Susds(b, k)]
    BY DEF Answered
  <2>2. DOMAIN answers = read
    BY <2>1
  <2> HIDE DEF answers
  <2>3. {k \in DOMAIN answers : k[2] \in addresses} = read
    BY <2>2
  <2>4. SusdsRead(b, F, addresses) =
          [c \in {k[1] : k \in read} |-> Rate(F) * SumFunctionOnSet(answers, {k \in read : k[1] = c})]
    BY <2>3, RateIs DEF SusdsRead, SusdsForAddresses, answers
  <2>5. QED
    BY <2>1, <2>4
<1>2. DOMAIN SusdsRead(b, F, {}) = {}
  <2> DEFINE none == {k \in Chains \X {} : <<"susds", k[1], k[2]>> \notin F}
  <2>1. DOMAIN SusdsRead(b, F, {}) = {k[1] : k \in none}
    BY <1>1
  <2>2. none = {}
    OBVIOUS
  <2> HIDE DEF none
  <2>3. QED
    BY <2>1, <2>2
<1> DEFINE A == {"0x1", "0x2"}
           read == {k \in Chains \X A : <<"susds", k[1], k[2]>> \notin F}
           f == [k \in read |-> Susds(b, k)]
           s == SusdsRead(b, F, A)
<1>3. /\ DOMAIN s = {k[1] : k \in read}
      /\ \A chain \in DOMAIN s : s[chain] = Rate(F) * SumFunctionOnSet(f, {k \in read : k[1] = chain})
  BY <1>1
<1> HIDE DEF s
<1>4. \A k \in read : f[k] = IF k = <<"arb", "0x1">> THEN Units(b, "spark", 5)
                             ELSE IF k = <<"eth", "0x2">> THEN Units(b, "sparkEth", 4) ELSE 0
  BY DEF Susds
<1>5. Units(b, "spark", 5) \in Int /\ Units(b, "sparkEth", 4) \in Int
  BY DEF Units
<1> HIDE DEF f
<1>6. ASSUME NEW chain \in {"arb", "eth"}
      PROVE  SumFunctionOnSet(f, {k \in read : k[1] = chain}) = Saved(b, F, chain)
  <2> DEFINE S == {k \in read : k[1] = chain}
             home == IF chain = "arb" THEN <<"arb", "0x1">> ELSE <<"eth", "0x2">>
  <2>1. S \subseteq {<<chain, "0x1">>, <<chain, "0x2">>}
    OBVIOUS
  <2>2. home \in S <=> <<"susds", home[1], home[2]>> \notin F
    BY DEF Chains
  <2>3. \A k \in S : k \in read
    OBVIOUS
  <2> HIDE DEF S, read
  <2>4. IsFiniteSet(S)
    <3>1. IsFiniteSet({<<chain, "0x1">>, <<chain, "0x1">>, <<chain, "0x1">>, <<chain, "0x2">>})
      BY FourAreFinite
    <3>2. QED
      BY <2>1, <3>1, FS_Subset
  <2>5. (\A k \in S : f[k] \in Int) /\ (\A k \in S \ {home} : f[k] = 0)
    BY <1>4, <1>5, <2>1, <2>3
  <2>6. SumFunctionOnSet(f, S) = IF home \in S THEN f[home] ELSE 0
    BY <2>4, <2>5, SumAtMostOne
  <2>7. (IF home \in S THEN f[home] ELSE 0) = Saved(b, F, chain)
    <3>1. CASE chain = "arb"
      BY <1>4, <2>2, <2>3, <3>1 DEF Saved
    <3>2. CASE chain = "eth"
      BY <1>4, <2>2, <2>3, <3>2 DEF Saved
    <3>3. QED
      BY <3>1, <3>2
  <2>8. QED
    BY <2>6, <2>7 DEF S
<1>7. DOMAIN s \subseteq Chains
  BY <1>3
<1>8. ASSUME NEW chain \in Chains
      PROVE  chain \in DOMAIN s <=> ~(SusdsCalls(chain) \subseteq F)
  <2>1. SusdsCalls(chain) = {<<"susds", chain, "0x1">>, <<"susds", chain, "0x2">>}
    BY DEF SusdsCalls, Addresses
  <2>2. chain \in DOMAIN s <=> \E a \in A : <<chain, a>> \in read
    <3>1. \A k \in read : k = <<k[1], k[2]>> /\ k[2] \in A
      OBVIOUS
    <3>2. \A a \in A : <<chain, a>>[1] = chain
      OBVIOUS
    <3> HIDE DEF read, A
    <3>3. chain \in DOMAIN s <=> \E k \in read : k[1] = chain
      BY <1>3
    <3>4. QED
      BY <3>1, <3>2, <3>3
  <2>3. \A a \in A : <<chain, a>> \in read <=> <<"susds", chain, a>> \notin F
    BY <1>8
  <2>4. QED
    BY <2>1, <2>2, <2>3
<1>9. QED
  BY <1>2, <1>3, <1>6, <1>7, <1>8 DEF s, Chains

VaultsRead(b, F, addresses, prices) ==
    VaultsForAddresses(
        Answered([k \in {"usdc"} \X addresses |-> VaultShares(b, k)],
                 [k \in {"usdc"} \X addresses |-> <<"shares", k[1], k[2]>>], F),
        addresses,
        Answered([v \in {"usdc"} |-> 2], [v \in {"usdc"} |-> <<"convert", v>>], F),
        [v \in {"usdc"} |-> "USDC"], prices)
ShareAnswers(b, F, addresses) ==
    Answered([k \in {"usdc"} \X addresses |-> VaultShares(b, k)],
             [k \in {"usdc"} \X addresses |-> <<"shares", k[1], k[2]>>], F)
ShareKeys(F, addresses) == {k \in {"usdc"} \X addresses : <<"shares", k[1], k[2]>> \notin F}
ConvertRates(F) == Answered([v \in {"usdc"} |-> 2], [v \in {"usdc"} |-> <<"convert", v>>], F)
HeldIn(b, F, addresses, v) ==
    SumFunctionOnSet(ShareAnswers(b, F, addresses), {k \in ShareKeys(F, addresses) : k[1] = v})
AssetsIn(b, F, addresses, v) ==
    IF HeldIn(b, F, addresses, v) = 0 THEN 0 ELSE HeldIn(b, F, addresses, v) * ConvertRates(F)[v]
VaultsOk(b, F, addresses) ==
    {v \in {k[1] : k \in ShareKeys(F, addresses)} :
        HeldIn(b, F, addresses, v) = 0 \/ v \in DOMAIN ConvertRates(F)}
SharesRead(b, F) == IF <<"shares", "usdc", "0x1">> \in F THEN 0 ELSE Units(b, "vault", 3)
VaultsSilent(b, F) ==
    VaultCalls \subseteq F \/ (SharesRead(b, F) # 0 /\ <<"convert", "usdc">> \in F)

\* The vault's shares added up over the addresses.
LEMMA SharesHeld ==
    ASSUME NEW b \in SUBSET Positions, NEW F,
           NEW read, \A k \in read : k = <<"usdc", "0x1">> \/ k = <<"usdc", "0x2">>,
           \A a \in {"0x1", "0x2"} : <<"usdc", a>> \in read <=> <<"shares", "usdc", a>> \notin F,
           NEW shares, DOMAIN shares = read, \A k \in read : shares[k] = VaultShares(b, k)
    PROVE  /\ SumFunctionOnSet(shares, {k \in read : k[1] = "usdc"}) = SharesRead(b, F)
           /\ {k[1] : k \in read} = IF VaultCalls \subseteq F THEN {} ELSE {"usdc"}
<1>1. \A k \in read : k = <<"usdc", "0x1">> \/ k = <<"usdc", "0x2">>
  OBVIOUS
<1>2. \A a \in {"0x1", "0x2"} : <<"usdc", a>> \in read <=> <<"shares", "usdc", a>> \notin F
  OBVIOUS
<1>3. <<"usdc", "0x1">>[1] = "usdc" /\ <<"usdc", "0x2">>[1] = "usdc"
  OBVIOUS
<1>4. {k \in read : k[1] = "usdc"} = read
  BY <1>1, <1>3
<1>5. IsFiniteSet(read)
  <2>1. IsFiniteSet({<<"usdc", "0x1">>, <<"usdc", "0x1">>, <<"usdc", "0x1">>, <<"usdc", "0x2">>})
    BY FourAreFinite
  <2>2. QED
    BY <1>1, <2>1, FS_Subset
<1>6. \A k \in read : shares[k] = IF k = <<"usdc", "0x1">> THEN Units(b, "vault", 3) ELSE 0
  BY DEF VaultShares
<1>7. Units(b, "vault", 3) \in Int
  BY DEF Units
<1>8. SumFunctionOnSet(shares, read)
        = IF <<"usdc", "0x1">> \in read THEN shares[<<"usdc", "0x1">>] ELSE 0
  BY <1>5, <1>6, <1>7, SumAtMostOne
<1>9. SumFunctionOnSet(shares, read) = SharesRead(b, F)
  BY <1>2, <1>6, <1>8 DEF SharesRead
<1>10. VaultCalls = {<<"shares", "usdc", "0x1">>, <<"shares", "usdc", "0x2">>}
  BY DEF VaultCalls, Addresses
<1>11. {k[1] : k \in read} = IF VaultCalls \subseteq F THEN {} ELSE {"usdc"}
  BY <1>1, <1>2, <1>3, <1>10
<1>12. QED
  BY <1>4, <1>9, <1>11

\* A table of one vault is worth what that vault is.
LEMMA OneVault ==
    ASSUME NEW ok, ok \subseteq {"usdc"}, NEW v, NEW n \in Int,
           DOMAIN v = ok, v = [x \in ok |-> v[x]], \A x \in ok : v[x] = [amount |-> n, usd |-> n]
    PROVE  /\ v # None
           /\ TotalUsd(v) = IF "usdc" \in ok THEN n ELSE 0
           /\ \A x \in ok : v[x].usd # None
<1> DEFINE f == [c \in DOMAIN v |-> Or0(v[c].usd)]
<1>1. \A x \in ok : v[x] \in Asset /\ v[x].usd = n
  BY DEF Asset
<1>2. v \in [ok -> Asset]
  BY <1>1
<1>3. v # None
  BY <1>2, CaptureAssumption DEF NoneIsNoAnswer
<1>4. n # None
  BY ReadersAssumption
<1>5. \A x \in ok : f[x] = n
  BY <1>1, <1>4 DEF Or0
<1>6. TotalUsd(v) = SumFunctionOnSet(f, ok)
  BY DEF TotalUsd, SumFunction
<1> HIDE DEF f
<1>7. IsFiniteSet(ok)
  BY FS_Singleton, FS_Subset
<1>8. SumFunctionOnSet(f, ok) = IF "usdc" \in ok THEN f["usdc"] ELSE 0
  <2>1. (\A x \in ok : f[x] \in Int) /\ (\A x \in ok \ {"usdc"} : f[x] = 0)
    BY <1>5
  <2>2. QED
    BY <1>7, <2>1, SumAtMostOne
<1>9. QED
  BY <1>1, <1>3, <1>4, <1>5, <1>6, <1>8

\* What a cycle reads of the vault: shares, converted unless there are none.
LEMMA VaultsIs ==
    ASSUME NEW b \in SUBSET Positions, NEW F, NEW prices
    PROVE  /\ VaultsRead(b, F, {}, prices) = None
           /\ LET v == VaultsRead(b, F, {"0x1", "0x2"}, prices)
              IN /\ v = None <=> VaultsSilent(b, F)
                 /\ v # None => TotalUsd(v) = 2 * SharesRead(b, F)
<1> DEFINE under == [v \in {"usdc"} |-> "USDC"]
           rates == ConvertRates(F)
<1>1. /\ "usdc" \in DOMAIN rates <=> <<"convert", "usdc">> \notin F
      /\ "usdc" \in DOMAIN rates => rates["usdc"] = 2
  BY DEF ConvertRates, Answered
<1>2. under["usdc"] = "USDC"
  OBVIOUS
<1>3. ASSUME NEW addresses
      PROVE  /\ DOMAIN ShareAnswers(b, F, addresses) = ShareKeys(F, addresses)
             /\ \A k \in ShareKeys(F, addresses) : ShareAnswers(b, F, addresses)[k] = VaultShares(b, k)
             /\ VaultsRead(b, F, addresses, prices)
                  = IF VaultsOk(b, F, addresses) = {} THEN None
                    ELSE [x \in VaultsOk(b, F, addresses) |->
                             [amount |-> AssetsIn(b, F, addresses, x),
                              usd |-> UsdValue(under[x], AssetsIn(b, F, addresses, x), prices)]]
  <2> DEFINE answers == ShareAnswers(b, F, addresses)
             read == ShareKeys(F, addresses)
  <2>1. DOMAIN answers = read /\ \A k \in read : answers[k] = VaultShares(b, k)
    BY DEF ShareAnswers, ShareKeys, Answered
  <2>2. \A k \in read : k[2] \in addresses
    BY DEF ShareKeys
  <2> HIDE DEF answers, read
  <2>3. {k \in DOMAIN answers : k[2] \in addresses} = read
    BY <2>1, <2>2
  <2>4. VaultsRead(b, F, addresses, prices) = VaultsForAddresses(answers, addresses, rates, under, prices)
    BY DEF VaultsRead, answers, ShareAnswers, ConvertRates
  <2> HIDE DEF rates, under
  <2> DEFINE Held(x) == SumFunctionOnSet(answers, {k \in read : k[1] = x})
             ok == {x \in {k[1] : k \in read} : Held(x) = 0 \/ x \in DOMAIN rates}
             Assets(x) == IF Held(x) = 0 THEN 0 ELSE Held(x) * rates[x]
  <2>5. VaultsForAddresses(answers, addresses, rates, under, prices)
          = IF ok = {} THEN None
            ELSE [x \in ok |-> [amount |-> Assets(x), usd |-> UsdValue(under[x], Assets(x), prices)]]
    BY <2>3 DEF VaultsForAddresses
  <2>6. ok = VaultsOk(b, F, addresses) /\ \A x : Assets(x) = AssetsIn(b, F, addresses, x)
    BY DEF VaultsOk, AssetsIn, HeldIn, answers, read, rates
  <2> HIDE DEF ok, Assets, Held
  <2>7. QED
    BY <2>1, <2>4, <2>5, <2>6 DEF answers, read
<1> HIDE DEF rates, under
<1>4. VaultsRead(b, F, {}, prices) = None
  <2>1. ShareKeys(F, {}) = {}
    BY DEF ShareKeys
  <2>2. VaultsOk(b, F, {}) = {}
    BY <2>1 DEF VaultsOk
  <2>3. QED
    BY <1>3, <2>2
<1> DEFINE A == {"0x1", "0x2"}
           read == ShareKeys(F, A)
           shares == ShareAnswers(b, F, A)
           ok == VaultsOk(b, F, A)
           heldShares == HeldIn(b, F, A, "usdc")
           n == AssetsIn(b, F, A, "usdc")
           v == VaultsRead(b, F, A, prices)
<1>5. DOMAIN shares = read /\ (\A k \in read : shares[k] = VaultShares(b, k))
      /\ read = {k \in {"usdc"} \X A : <<"shares", k[1], k[2]>> \notin F}
  BY <1>3 DEF ShareKeys
<1>6. heldShares = SharesRead(b, F)
      /\ {k[1] : k \in read} = IF VaultCalls \subseteq F THEN {} ELSE {"usdc"}
  <2>1. heldShares = SumFunctionOnSet(shares, {k \in read : k[1] = "usdc"})
    BY DEF HeldIn
  <2>2. (\A k \in read : k = <<"usdc", "0x1">> \/ k = <<"usdc", "0x2">>)
        /\ (\A a \in {"0x1", "0x2"} : <<"usdc", a>> \in read <=> <<"shares", "usdc", a>> \notin F)
    <3>1. A = {"0x1", "0x2"}
      OBVIOUS
    <3> HIDE DEF A
    <3>2. \A k \in read : k[1] = "usdc" /\ k = <<k[1], k[2]>> /\ k[2] \in A
      BY DEF ShareKeys
    <3>3. \A a \in A : <<"usdc", a>> \in read <=> <<"shares", "usdc", a>> \notin F
      BY DEF ShareKeys
    <3>4. QED
      BY <3>1, <3>2, <3>3
  <2>3. DOMAIN shares = read /\ (\A k \in read : shares[k] = VaultShares(b, k))
    BY <1>5
  <2> HIDE DEF read, shares, heldShares, A
  <2>4. QED
    BY <2>1, <2>2, <2>3, SharesHeld
<1>7. /\ ok \subseteq {"usdc"}
      /\ "usdc" \in ok <=> ~(VaultCalls \subseteq F) /\ (heldShares = 0 \/ "usdc" \in DOMAIN rates)
  BY <1>6 DEF VaultsOk, rates
<1>8. "usdc" \in ok <=> ~VaultsSilent(b, F)
  BY <1>1, <1>6, <1>7 DEF VaultsSilent
<1>9. SharesRead(b, F) \in Int
  BY DEF SharesRead, Units
<1>10. "usdc" \in ok => n = 2 * SharesRead(b, F)
  <2>1. n = IF heldShares = 0 THEN 0 ELSE heldShares * rates["usdc"]
    BY DEF AssetsIn, rates
  <2> HIDE DEF heldShares, n, ok
  <2>2. QED
    BY <1>1, <1>6, <1>7, <1>9, <2>1
<1>11. v = IF ok = {} THEN None
           ELSE [x \in ok |-> [amount |-> AssetsIn(b, F, A, x),
                               usd |-> UsdValue(under[x], AssetsIn(b, F, A, x), prices)]]
  BY <1>3
<1>12. CASE ok = {}
  BY <1>4, <1>8, <1>11, <1>12
<1>13. CASE ok # {}
  <2>1. ok = {"usdc"}
    BY <1>7, <1>13
  <2>2. UsdValue(under["usdc"], n, prices) = n
    BY <1>2, UsdcValue
  <2>3. v = [x \in ok |-> [amount |-> AssetsIn(b, F, A, x),
                           usd |-> UsdValue(under[x], AssetsIn(b, F, A, x), prices)]]
    BY <1>11, <1>13
  <2> HIDE DEF v, ok
  <2>4. v["usdc"] = [amount |-> n, usd |-> UsdValue(under["usdc"], n, prices)] /\ DOMAIN v = ok
        /\ v = [x \in ok |-> v[x]]
    BY <2>1, <2>3
  <2>5. \A x \in ok : v[x] = [amount |-> n, usd |-> n]
    BY <2>1, <2>2, <2>4
  <2>6. n \in Int
    BY <1>9, <1>10, <2>1
  <2> HIDE DEF n
  <2>7. v # None /\ TotalUsd(v) = n
    BY <2>1, <2>4, <2>5, <2>6, OneVault
  <2>8. QED
    BY <1>4, <1>8, <1>10, <2>1, <2>7 DEF v, n, ok
<1>14. QED
  BY <1>12, <1>13

-----------------------------------------------------------------------------
(* The columns of a stored row. *)

\* A field of a stored row, by the calls that answered: first and chain are the
\* books custody and funds, and the chain, were read of.
AaveSilent(F) == ~CustodyAnswers(F) \/ AaveCalls \subseteq F
SusdsSilent(F, chain) == ~CustodyAnswers(F) \/ SusdsCalls(chain) \subseteq F
VaultSilent(chain, F) == ~CustodyAnswers(F) \/ VaultsSilent(chain, F)

CustodyColumn(row, first, F) ==
    LET h == row["bitgo_holdings_json"]
    IN /\ ~CustodyAnswers(F) => h = None /\ row["wallet_native_amount"] = None
       /\ CustodyAnswers(F) =>
            /\ h # None
            /\ DOMAIN h = {} <=> first \cap {"reserve", "stash", "loan"} = {}
            /\ DOMAIN h = {} => row["wallet_native_amount"] = None
            /\ SumFunction([w \in DOMAIN h |-> TotalUsd(h[w])]) = NativeTold(first, F)

\* The segment's own coin: in both columns when it is held and has a price; in
\* neither of a segment whose coin is in no wallet.
CoinColumns(row, first, F) ==
    /\ ~CustodyAnswers(F) \/ BaseAsset # "ETH" =>
         row["wallet_native_amount"] = None /\ row["wallet_balance_usd"] = None
    /\ CustodyAnswers(F) /\ BaseAsset = "ETH" /\ "reserve" \in first /\ EthPriceKnown(F) =>
         row["wallet_native_amount"] # None /\ row["wallet_balance_usd"] # None

AaveColumn(row, chain, F) ==
    /\ AaveSilent(F) => \A f \in {"aave_supply_usd", "aave_borrow_usdc", "aave_net_usd", "aave_supply_amount"} :
                          row[f] = None
    /\ ~AaveSilent(F) => /\ row["aave_supply_usd"] = Lent(chain, F, "0x1") + Lent(chain, F, "0x2")
                         /\ row["aave_borrow_usdc"] = Owed(chain, F, "0x1")
                         /\ row["aave_net_usd"] # None

SusdsColumn(row, field, chain, F, name) ==
    row[field] = IF SusdsSilent(F, name) THEN None ELSE Rate(F) * Saved(chain, F, name)

VaultColumn(row, chain, F) ==
    /\ VaultSilent(chain, F) => row["vault_usd"] = None /\ row["vault_positions_json"] = None
    /\ ~VaultSilent(chain, F) =>
         /\ row["vault_usd"] = 2 * SharesRead(chain, F)
         /\ row["vault_positions_json"] # None
         /\ TotalUsd(row["vault_positions_json"]) = row["vault_usd"]

\* The readings on the chain, one by one.
LEMMA ChainFields ==
    ASSUME NEW b, NEW F, NEW r
    PROVE  LET chain == ChainReads(b, F, r)
           IN /\ chain.aave = AaveRead(b, F, r.addresses)
              /\ chain.susds = SusdsRead(b, F, r.addresses)
              /\ chain.vaults = VaultsRead(b, F, r.addresses, r.prices)
BY DEF ChainReads, AaveRead, AaveAnswers, SusdsRead, VaultsRead

\* Custody's columns hold what CustodyIs says.
LEMMA CustodyColumnIs ==
    ASSUME NEW b \in SUBSET Positions, NEW F, NEW row,
           row["bitgo_holdings_json"] = CustodyColumns(FirstReads(b, F))["bitgo_holdings_json"],
           row["wallet_native_amount"] = CustodyColumns(FirstReads(b, F))["wallet_native_amount"]
    PROVE  CustodyColumn(row, b, F)
<1> DEFINE r == FirstReads(b, F)
           custody == CustodyColumns(r)
           h == custody["bitgo_holdings_json"]
<1>1. /\ ~CustodyAnswers(F) => h = None /\ custody["wallet_native_amount"] = None
      /\ CustodyAnswers(F) =>
           /\ h # None
           /\ DOMAIN h = {} <=> b \cap {"reserve", "stash", "loan"} = {}
           /\ DOMAIN h = {} => custody["wallet_native_amount"] = None
           /\ SumFunction([w \in DOMAIN h |-> TotalUsd(h[w])]) = NativeTold(b, F)
  <2> HIDE DEF r
  <2>1. QED
    BY CustodyIs DEF r
<1>2. row["bitgo_holdings_json"] = h
  OBVIOUS
<1> HIDE DEF h
<1>3. QED
  BY <1>1, <1>2 DEF CustodyColumn

\* The wallets hold ether only as far as there is a reserve, and its amount is
\* a number; no wallet holds bitcoin or dollars.
LEMMA CoinsHeld ==
    ASSUME NEW b \in SUBSET Positions, NEW prices
    PROVE  LET h == AggregateHoldings({Hot(b), Spare, Cold(b)}, prices)
           IN /\ "reserve" \in b => "ETH" \in HeldCoins(h)
              /\ "BTC" \notin HeldCoins(h) /\ "USDC" \notin HeldCoins(h)
              /\ AmountOf(h, "ETH") \in Int
<1> DEFINE h == AggregateHoldings({Hot(b), Spare, Cold(b)}, prices)
           f == [w \in DOMAIN h |-> IF "ETH" \in DOMAIN h[w] THEN h[w]["ETH"].amount ELSE 0]
<1>1. /\ DOMAIN h \subseteq {Hot(b), Cold(b)}
      /\ Hot(b) \in DOMAIN h <=> "reserve" \in b \/ "loan" \in b
      /\ \A w \in DOMAIN h : h[w] = Valued(w.coins, prices)
  BY HoldingsOf
<1>2. /\ DOMAIN Hot(b).coins = {"ETH", "AETHWETH"} /\ DOMAIN Cold(b).coins = {"XLM"}
      /\ Hot(b).coins["ETH"] = (IF "reserve" \in b THEN 3 ELSE 0)
  BY WalletCoins DEF Units
<1> DEFINE hot == Valued(Hot(b).coins, prices)
           cold == Valued(Cold(b).coins, prices)
<1>3. /\ DOMAIN hot = {c \in {"ETH", "AETHWETH"} : Hot(b).coins[c] # 0}
      /\ "ETH" \in DOMAIN hot => hot["ETH"].amount = Hot(b).coins["ETH"]
      /\ DOMAIN cold \subseteq {"XLM"}
  BY <1>2 DEF Valued
<1>4. AmountOf(h, "ETH") = SumFunctionOnSet(f, DOMAIN h)
  BY DEF AmountOf, SumFunction
<1> HIDE DEF h, hot, cold
<1>5. \A w \in DOMAIN h : (w = Hot(b) /\ h[w] = hot) \/ (w = Cold(b) /\ h[w] = cold)
  <2>1. ASSUME NEW w \in DOMAIN h PROVE (w = Hot(b) /\ h[w] = hot) \/ (w = Cold(b) /\ h[w] = cold)
    <3>1. (w = Hot(b) \/ w = Cold(b)) /\ h[w] = Valued(w.coins, prices)
      BY <1>1
    <3>2. CASE w = Hot(b)
      BY <3>1, <3>2, Zenon DEF hot
    <3>3. CASE w = Cold(b)
      BY <3>1, <3>3, Zenon DEF cold
    <3>4. QED
      BY <3>1, <3>2, <3>3
  <2>2. QED
    BY <2>1
<1>6. \A w \in DOMAIN h : f[w] \in Int
  BY <1>2, <1>3, <1>5
<1>7. IsFiniteSet(DOMAIN h)
  <2>1. IsFiniteSet({Hot(b), Hot(b), Hot(b), Cold(b)})
    BY FourAreFinite
  <2>2. DOMAIN h \subseteq {Hot(b), Hot(b), Hot(b), Cold(b)}
    BY <1>1
  <2>3. QED
    BY <2>1, <2>2, FS_Subset
<1> HIDE DEF f
<1>8. AmountOf(h, "ETH") \in Int
  BY <1>4, <1>6, <1>7, SumType
<1>9. "BTC" \notin HeldCoins(h) /\ "USDC" \notin HeldCoins(h)
  BY <1>3, <1>5 DEF HeldCoins
<1>10. ASSUME "reserve" \in b
       PROVE  "ETH" \in HeldCoins(h)
  <2>1. Hot(b) \in DOMAIN h /\ "ETH" \in DOMAIN h[Hot(b)]
    <3>1. Hot(b) \in DOMAIN h /\ h[Hot(b)] = hot
      BY <1>1, <1>10 DEF hot
    <3>2. QED
      BY <1>2, <1>3, <1>10, <3>1
  <2>2. QED
    BY <2>1 DEF HeldCoins
<1>11. QED
  BY <1>8, <1>9, <1>10 DEF h

\* The columns of the segment's own coin hold what the wallets do.
LEMMA CoinColumnsAre ==
    ASSUME NEW b \in SUBSET Positions, NEW F, NEW row,
           row["wallet_native_amount"] = CustodyColumns(FirstReads(b, F))["wallet_native_amount"],
           row["wallet_balance_usd"] = CustodyColumns(FirstReads(b, F))["wallet_balance_usd"]
    PROVE  CoinColumns(row, b, F)
<1> DEFINE r == FirstReads(b, F)
           W == WalletsOf(b, F)
           P == CustodyPricesOf(b, F)
           h == AggregateHoldings(W, P)
           fields == CustodyFields(W, P)
<1>1. row["wallet_native_amount"] = fields.amount /\ row["wallet_balance_usd"] = fields.usd
  <2>1. r.wallets = W /\ r.prices = PricesOf(F) /\ r.tickers = TickersOf(F)
    BY FirstFields
  <2>2. CustodyPrices(r.wallets, r.prices, r.tickers) = P
    BY <2>1 DEF CustodyPricesOf
  <2>3. QED
    BY <2>1, <2>2 DEF CustodyColumns
<1>2. CASE ~CustodyAnswers(F)
  <2>1. fields = [holdings |-> None, amount |-> None, usd |-> None]
    BY <1>2, WalletsRead DEF CustodyFields
  <2>2. QED
    BY <1>1, <1>2, <2>1 DEF CoinColumns
<1>3. CASE CustodyAnswers(F)
  <2>1. W = {Hot(b), Spare, Cold(b)} /\ W # None
    BY <1>3, WalletsRead
  <2> DEFINE n == AmountOf(h, BaseAsset)
             u == UsdValue(BaseAsset, n, P)
  <2>2. /\ fields.amount = IF BaseAsset \in HeldCoins(h) THEN n ELSE None
        /\ fields.usd = IF BaseAsset \in HeldCoins(h) THEN u ELSE None
    BY <2>1 DEF CustodyFields
  <2>3. /\ "reserve" \in b => "ETH" \in HeldCoins(h)
        /\ "BTC" \notin HeldCoins(h) /\ "USDC" \notin HeldCoins(h)
        /\ AmountOf(h, "ETH") \in Int
    BY <2>1, CoinsHeld
  <2> HIDE DEF fields, h
  <2>4. CASE BaseAsset # "ETH"
    BY <1>1, <2>2, <2>3, <2>4, ReadersAssumption DEF CoinColumns
  <2>5. CASE BaseAsset = "ETH"
    <3>1. ASSUME "reserve" \in b, EthPriceKnown(F)
          PROVE  n # None /\ u # None
      <4>1. "ETH" \in DOMAIN P /\ P["ETH"] = 2
        BY <1>3, <3>1, CustodyPricesAre
      <4>2. "ETH" \notin Stables /\ n \in Int
        BY <2>3, <2>5, CaptureAssumption
      <4> HIDE DEF n, P
      <4>3. u = n * 2
        BY <2>5, <4>1, <4>2 DEF UsdValue
      <4>4. QED
        BY <4>2, <4>3, ReadersAssumption
    <3>2. QED
      BY <1>1, <1>3, <2>2, <2>3, <2>5, <3>1 DEF CoinColumns
  <2>6. QED
    BY <2>4, <2>5
<1>4. QED
  BY <1>2, <1>3

\* Aave's columns hold what AaveIs says.
LEMMA AaveColumnIs ==
    ASSUME NEW b \in SUBSET Positions, NEW o \in SUBSET Positions, NEW F, NEW row,
           \A f \in {"aave_supply_usd", "aave_borrow_usdc", "aave_net_usd", "aave_supply_amount"} :
             row[f] = AaveFields(ChainReads(o, F, FirstReads(b, F)).aave, QuotesOf(F))[f]
    PROVE  AaveColumn(row, o, F)
<1> DEFINE a == AaveRead(o, F, FirstReads(b, F).addresses)
           fields == AaveFields(a, QuotesOf(F))
<1>1. \A f \in {"aave_supply_usd", "aave_borrow_usdc", "aave_net_usd", "aave_supply_amount"} : row[f] = fields[f]
  BY ChainFields
<1>2. FirstReads(b, F).addresses = IF CustodyAnswers(F) THEN {"0x1", "0x2"} ELSE {}
  BY AddressesRead
<1>3. /\ a = None <=> AaveSilent(F)
      /\ a # None => /\ a.collateral = Lent(o, F, "0x1") + Lent(o, F, "0x2")
                     /\ a.debt = Owed(o, F, "0x1")
                     /\ a.collateral \in Int /\ a.debt \in Int
  BY <1>2, AaveIs DEF AaveSilent
<1>4. CASE a = None
  <2>1. \A f \in {"aave_supply_usd", "aave_borrow_usdc", "aave_net_usd", "aave_supply_amount"} : fields[f] = None
    BY <1>4 DEF AaveFields
  <2> HIDE DEF fields, a
  <2>2. QED
    BY <1>1, <1>3, <1>4, <2>1 DEF AaveColumn
<1>5. CASE a # None
  <2>1. fields["aave_supply_usd"] = a.collateral /\ fields["aave_borrow_usdc"] = a.debt
        /\ fields["aave_net_usd"] = a.collateral - a.debt
    BY <1>5 DEF AaveFields
  <2> HIDE DEF fields, a
  <2>2. a.collateral - a.debt # None
    BY <1>3, <1>5, ReadersAssumption
  <2>3. QED
    BY <1>1, <1>3, <1>5, <2>1, <2>2 DEF AaveColumn
<1>6. QED
  BY <1>4, <1>5

\* Spark's column for a chain holds what SusdsIs says.
LEMMA SusdsColumnIs ==
    ASSUME NEW b \in SUBSET Positions, NEW o \in SUBSET Positions, NEW F, NEW row,
           \A f \in {"susds_arbi_balance", "susds_eth_balance"} :
             row[f] = SparkFields(ChainReads(o, F, FirstReads(b, F)).susds)[f]
    PROVE  SusdsColumn(row, "susds_arbi_balance", o, F, "arb") /\ SusdsColumn(row, "susds_eth_balance", o, F, "eth")
<1> DEFINE s == SusdsRead(o, F, FirstReads(b, F).addresses)
           fields == SparkFields(s)
<1>1. \A f \in {"susds_arbi_balance", "susds_eth_balance"} : row[f] = fields[f]
  BY ChainFields
<1>2. FirstReads(b, F).addresses = IF CustodyAnswers(F) THEN {"0x1", "0x2"} ELSE {}
  BY AddressesRead
<1>3. \A chain \in {"arb", "eth"} : /\ chain \in DOMAIN s <=> ~SusdsSilent(F, chain)
                                    /\ chain \in DOMAIN s => s[chain] = Rate(F) * Saved(o, F, chain)
  <2>1. CASE CustodyAnswers(F)
    <3>1. s = SusdsRead(o, F, {"0x1", "0x2"})
      BY <1>2, <2>1
    <3> DEFINE t == SusdsRead(o, F, {"0x1", "0x2"})
    <3>2. /\ \A chain \in Chains : chain \in DOMAIN t <=> ~(SusdsCalls(chain) \subseteq F)
          /\ \A chain \in DOMAIN t : t[chain] = Rate(F) * Saved(o, F, chain)
      <4> HIDE DEF s, fields
      <4>1. QED
        BY ONLY SusdsIs, o \in SUBSET Positions
    <3>3. s = t
      BY <3>1
    <3> HIDE DEF s, t
    <3>4. QED
      BY <2>1, <3>2, <3>3 DEF SusdsSilent, Chains
  <2>2. CASE ~CustodyAnswers(F)
    <3>1. s = SusdsRead(o, F, {})
      BY <1>2, <2>2
    <3>2. DOMAIN s = {}
      BY <3>1, SusdsIs
    <3> HIDE DEF s
    <3>3. QED
      BY <2>2, <3>2 DEF SusdsSilent
  <2>3. QED
    BY <2>1, <2>2
<1>4. /\ fields["susds_arbi_balance"] = IF "arb" \in DOMAIN s THEN s["arb"] ELSE None
      /\ fields["susds_eth_balance"] = IF "eth" \in DOMAIN s THEN s["eth"] ELSE None
  BY DEF SparkFields
<1> HIDE DEF s, fields
<1>5. QED
  BY <1>1, <1>3, <1>4 DEF SusdsColumn

\* The vaults' columns hold what VaultsIs says.
LEMMA VaultColumnIs ==
    ASSUME NEW b \in SUBSET Positions, NEW o \in SUBSET Positions, NEW F, NEW row,
           \A f \in {"vault_usd", "vault_positions_json"} :
             row[f] = VaultFields(ChainReads(o, F, FirstReads(b, F)).vaults)[f]
    PROVE  VaultColumn(row, o, F)
<1> DEFINE v == VaultsRead(o, F, FirstReads(b, F).addresses, FirstReads(b, F).prices)
           fields == VaultFields(v)
<1>1. \A f \in {"vault_usd", "vault_positions_json"} : row[f] = fields[f]
  BY ChainFields
<1>2. FirstReads(b, F).addresses = IF CustodyAnswers(F) THEN {"0x1", "0x2"} ELSE {}
  BY AddressesRead
<1>3. /\ v = None <=> VaultSilent(o, F)
      /\ v # None => TotalUsd(v) = 2 * SharesRead(o, F)
  BY <1>2, VaultsIs DEF VaultSilent
<1>4. /\ fields["vault_usd"] = IF v = None THEN None ELSE TotalUsd(v)
      /\ fields["vault_positions_json"] = v
  BY DEF VaultFields
<1> HIDE DEF v, fields
<1>5. QED
  BY <1>1, <1>3, <1>4 DEF VaultColumn

\* Venues: an equity for a venue that answered, zero for one without an asset,
\* as far as funds are listed.
VenueColumns(row, b, F) ==
    /\ row["hl_deposit_usdc"] = IF <<"hl">> \in F THEN None ELSE HlWorth(b)
    /\ row["binance_collateral_usdc"] = IF <<"balance">> \in F THEN None ELSE BnWorth(b, F)
    /\ row["deribit_equity_usd"] =
         IF <<"deribit">> \in F THEN None
         ELSE IF <<"quotes">> \in F THEN 0 ELSE Units(b, "deribit", 2)
    /\ \A v \in Venues : EquityOf(row, v) \in Int \cup {None}
    /\ \A v \in Venues : FundsAreListed(b, v) /\ DOMAIN AssetsOf(row, v) = {} /\ EquityOf(row, v) # None
                          => EquityOf(row, v) = 0
    /\ row["exchange_balances_json"] # None

\* Every price a venue's assets are valued with is a number.
LEMMA PricesAreNumbers ==
    ASSUME NEW F, NEW funds
    PROVE  LET P == VenuePrices(funds, PricesOf(F), TickersOf(F))
           IN \A c \in DOMAIN P : P[c] \in Int
<1> DEFINE t == TickersOf(F)
           p == PricesOf(F)
           coins == UNION {Unpriced(funds[v].assets) : v \in DOMAIN funds}
           extra == AssetPrices(coins, t)
           P == VenuePrices(funds, p, t)
<1>1. \A c \in DOMAIN p : p[c] \in Int
  BY DEF PricesOf, PriceBySymbol, QuotesOf, Answer, Quotes, NoPrices
<1>2. \A c \in DOMAIN t : t[c] \in Int
  <2>1. /\ DOMAIN t \subseteq {"XLM", "ETH"}
        /\ "XLM" \in DOMAIN t => t["XLM"] = 5
        /\ "ETH" \in DOMAIN t => t["ETH"] = 2
    BY TickersAre
  <2> HIDE DEF t
  <2>2. QED
    BY <2>1
<1>3. P = With(p, extra)
  BY DEF VenuePrices
<1> HIDE DEF p, t, coins
<1>4. \A c \in DOMAIN extra : extra[c] \in Int
  BY <1>2 DEF AssetPrices
<1> HIDE DEF extra, P
<1>5. \A c \in DOMAIN P : P[c] \in Int
  BY <1>1, <1>3, <1>4 DEF With
<1>6. QED
  BY <1>5 DEF P, p, t

\* Pricing what was unpriced keeps the assets and makes no new ones.
LEMMA RevaluedIs ==
    ASSUME NEW assets, NEW P, \A c \in DOMAIN P : P[c] \in Int,
           DOMAIN assets \subseteq Coins, \A c \in DOMAIN assets : assets[c] \in Asset
    PROVE  DOMAIN Revalued(assets, P) = DOMAIN assets /\ Revalued(assets, P) \in Tables
<1> DEFINE v == Revalued(assets, P)
<1>1. DOMAIN v = DOMAIN assets /\ v = [c \in DOMAIN v |-> v[c]]
  BY DEF Revalued
<1>2. ASSUME NEW c \in DOMAIN assets
      PROVE  v[c] \in Asset
  <2> DEFINE a == assets[c]
             u == UsdValue(c, a.amount, P)
             x == IF a.usd = None THEN u ELSE a.usd
  <2>1. a \in Asset
    OBVIOUS
  <2>2. v[c] = [a EXCEPT !.usd = x]
    BY DEF Revalued
  <2>3. u \in Int \cup {None}
    BY <2>1 DEF UsdValue, Asset
  <2>4. x \in Int \cup {None}
    <3> HIDE DEF a, u
    <3>1. QED
      BY <2>1, <2>3 DEF Asset
  <2> HIDE DEF a, x
  <2>5. [a EXCEPT !.usd = x] \in Asset
    BY <2>1, <2>4 DEF Asset
  <2>6. QED
    BY <2>2, <2>5
<1> HIDE DEF v
<1>3. v \in [DOMAIN assets -> Asset]
  BY <1>1, <1>2
<1>4. QED
  BY <1>1, <1>3 DEF v, Tables

\* The venues' columns hold what the three equities say.
LEMMA VenueColumnsAre ==
    ASSUME NEW b \in SUBSET Positions, Consistent(b), NEW F, NEW row,
           \A f \in {"hl_deposit_usdc", "binance_collateral_usdc", "deribit_equity_usd"} :
             row[f] = FundColumns(FirstReads(b, F).funds)[f],
           row["exchange_balances_json"] =
             ExchangeBalances(FirstReads(b, F).funds,
                              VenuePrices(FirstReads(b, F).funds, PricesOf(F), TickersOf(F)))
    PROVE  VenueColumns(row, b, F)
<1> DEFINE funds == FirstReads(b, F).funds
           P == VenuePrices(funds, PricesOf(F), TickersOf(F))
           hl == HlWorth(b)
           bn == BnWorth(b, F)
           de == IF <<"quotes">> \in F THEN 0 ELSE Units(b, "deribit", 2)
           balances == ExchangeBalances(funds, P)
<1>1. DOMAIN funds = Venues /\ funds["Hyperliquid"] = HlFunds(b, F)
      /\ funds["Binance"] = BnFunds(b, F) /\ funds["Deribit"] = DeribitFunds(b, F)
  BY FirstFields
<1>2. \A c \in DOMAIN P : P[c] \in Int
  BY PricesAreNumbers
<1>3. /\ row["hl_deposit_usdc"] = funds["Hyperliquid"].total
      /\ row["binance_collateral_usdc"] = funds["Binance"].total
      /\ row["deribit_equity_usd"] = funds["Deribit"].total
      /\ row["exchange_balances_json"] = balances
  BY DEF FundColumns
<1> HIDE DEF funds, P
<1>4. LET f == HlFunds(b, F)
      IN /\ f.total = IF <<"hl">> \in F THEN None ELSE hl
         /\ DOMAIN f.assets \subseteq {"USDC"}
         /\ DOMAIN f.assets = {} /\ <<"hl">> \notin F /\ FundsAreListed(b, "Hyperliquid") => hl = 0
         /\ hl \in Int
         /\ \A c \in DOMAIN f.assets : f.assets[c] \in Asset
  BY HlEquity
<1>5. LET f == BnFunds(b, F)
      IN /\ f.total = IF <<"balance">> \in F THEN None ELSE bn
         /\ DOMAIN f.assets \subseteq {"USDC"}
         /\ DOMAIN f.assets = {} /\ <<"balance">> \notin F /\ FundsAreListed(b, "Binance") => bn = 0
         /\ bn \in Int
         /\ \A c \in DOMAIN f.assets : f.assets[c] \in Asset
  BY BnEquity
<1>6. LET f == DeribitFunds(b, F)
      IN /\ f.total = IF <<"deribit">> \in F THEN None ELSE de
         /\ DOMAIN f.assets \subseteq {"ETH"}
         /\ DOMAIN f.assets = {} /\ <<"deribit">> \notin F => de = 0
         /\ de \in Int
         /\ \A c \in DOMAIN f.assets : f.assets[c] \in Asset
  BY DeribitsEquity
<1> HIDE DEF hl, bn, de
<1>7. Venues = {"Binance", "Hyperliquid", "Deribit"}
  BY DEF Venues
<1>8. \A v \in Venues : /\ DOMAIN funds[v].assets \subseteq Coins
                        /\ \A c \in DOMAIN funds[v].assets : funds[v].assets[c] \in Asset
                        /\ funds[v].total = EquityOf(row, v)
                        /\ funds[v].total \in Int \cup {None}
                        /\ DOMAIN funds[v].assets = {} /\ funds[v].total # None /\ FundsAreListed(b, v)
                             => funds[v].total = 0
  BY <1>1, <1>3, <1>4, <1>5, <1>6, <1>7 DEF Coins, EquityOf
<1>9. /\ DOMAIN balances = {v \in Venues : DOMAIN funds[v].assets # {}}
      /\ \A v \in DOMAIN balances : balances[v] = Revalued(funds[v].assets, P)
      /\ balances = [v \in DOMAIN balances |-> balances[v]]
  BY <1>1 DEF ExchangeBalances
<1> HIDE DEF balances
<1>10. \A v \in DOMAIN balances : DOMAIN balances[v] = DOMAIN funds[v].assets /\ balances[v] \in Tables
  BY <1>2, <1>8, <1>9, RevaluedIs
<1>11. balances # None
  <2>1. balances \in [DOMAIN balances -> Tables] /\ DOMAIN balances \in SUBSET Venues
    BY <1>9, <1>10
  <2>2. \A V \in SUBSET Venues : None \notin [V -> Tables]
    BY CaptureAssumption DEF NoneIsNoAnswer
  <2>3. QED
    BY <2>1, <2>2
<1>12. \A v \in Venues : DOMAIN AssetsOf(row, v) = DOMAIN funds[v].assets
  <2>1. SUFFICES ASSUME NEW v \in Venues PROVE DOMAIN AssetsOf(row, v) = DOMAIN funds[v].assets
    OBVIOUS
  <2>2. CASE v \in DOMAIN balances
    BY <1>3, <1>10, <2>2 DEF AssetsOf
  <2>3. CASE v \notin DOMAIN balances
    <3>1. DOMAIN funds[v].assets = {}
      BY <1>9, <2>3
    <3>2. AssetsOf(row, v) = [c \in {} |-> 0]
      BY <1>3, <2>3 DEF AssetsOf
    <3>3. DOMAIN AssetsOf(row, v) = {}
      BY <3>2
    <3>4. QED
      BY <3>1, <3>3
  <2>4. QED
    BY <2>2, <2>3
<1>13. \A v \in Venues : EquityOf(row, v) \in Int \cup {None}
  BY <1>8
<1>14. \A v \in Venues : FundsAreListed(b, v) /\ DOMAIN AssetsOf(row, v) = {} /\ EquityOf(row, v) # None
                          => EquityOf(row, v) = 0
  BY <1>8, <1>12
<1>15. row["exchange_balances_json"] # None
  BY <1>3, <1>11
<1>16. /\ row["hl_deposit_usdc"] = IF <<"hl">> \in F THEN None ELSE hl
       /\ row["binance_collateral_usdc"] = IF <<"balance">> \in F THEN None ELSE bn
       /\ row["deribit_equity_usd"] = IF <<"deribit">> \in F THEN None ELSE de
  BY <1>1, <1>3, <1>4, <1>5, <1>6
<1>17. QED
  BY <1>13, <1>14, <1>15, <1>16 DEF VenueColumns, hl, bn, de

-----------------------------------------------------------------------------
(* The legs of the hedge. *)

Leg == [size : Int, entry : Int, upnl : Int]

\* The legs the two venues answer with.
LEMMA LegsAre ==
    ASSUME NEW b \in SUBSET Positions, NEW F
    PROVE  LET bn == Answer(F, <<"positions", "Binance">>, BnLegs(b))
               hl == Answer(F, <<"positions", "Hyperliquid">>, HlLegs(b))
           IN ActiveLegs(bn) \in SUBSET Leg /\ ActiveLegs(hl) \in SUBSET Leg
<1>1. HedgeSize(b) \in Int
  BY DEF HedgeSize, Units
<1>2. Abs(HedgeSize(b)) \in Int /\ BnUpnl(b) \in Int /\ HlUpnl(b) \in Int
  BY <1>1 DEF Abs, BnUpnl, HlUpnl
<1>3. BnLegs(b) \subseteq Leg /\ HlLegs(b) \subseteq Leg
  BY <1>1, <1>2 DEF BnLegs, HlLegs, Leg
<1>4. QED
  BY <1>3 DEF ActiveLegs, Answer

\* The legs are stored even when there are none.
LEMMA LegColumnIs ==
    ASSUME NEW b \in SUBSET Positions, NEW F, NEW quotes
    PROVE  LegColumns(quotes, LegReads(b, F))["perp_positions_json"] # None
<1> DEFINE bn == Answer(F, <<"positions", "Binance">>, BnLegs(b))
           hl == Answer(F, <<"positions", "Hyperliquid">>, HlLegs(b))
           legs == BuildPerpLegs(bn, hl)
           V == {"Binance", "Hyperliquid"}
<1>1. LegColumns(quotes, LegReads(b, F))["perp_positions_json"] = legs
  <2>1. LegReads(b, F).bnLegs = bn /\ LegReads(b, F).hlLegs = hl
    BY DEF LegReads
  <2>2. LegColumns(quotes, LegReads(b, F))["perp_positions_json"]
          = BuildPerpLegs(LegReads(b, F).bnLegs, LegReads(b, F).hlLegs)
    BY DEF LegColumns
  <2>3. QED
    BY <2>1, <2>2
<1>2. ActiveLegs(bn) \in SUBSET Leg /\ ActiveLegs(hl) \in SUBSET Leg
  BY LegsAre
<1> HIDE DEF bn, hl
<1>3. legs \in [V -> SUBSET Leg]
  BY <1>2 DEF BuildPerpLegs
<1>4. V \in SUBSET Venues
  BY DEF Venues
<1> HIDE DEF V, legs
<1>5. legs # None
  <2>1. \A W \in SUBSET Venues : None \notin [W -> SUBSET Leg]
    BY CaptureAssumption DEF NoneIsNoAnswer, Leg
  <2>2. QED
    BY <1>3, <1>4, <2>1
<1>6. QED
  BY <1>1, <1>5

\* With both venues and the quotes read, the two legs' profit.
LEMMA CrossMtmIs ==
    ASSUME NEW b \in SUBSET Positions, Consistent(b), NEW F,
           F \cap (PositionCalls \cup {<<"quotes">>}) = {}
    PROVE  LegColumns(QuotesOf(F), LegReads(b, F))["cross_mtm_value"] = HlUpnl(b) + BnUpnl(b)
<1> DEFINE H == HedgeSize(b)
           bnLeg == [size |-> Abs(H), entry |-> 29, upnl |-> BnUpnl(b)]
           hlLeg == [size |-> H, entry |-> 30, upnl |-> HlUpnl(b)]
           legs == LegReads(b, F)
           params == CrossMtmParams(legs.bnLegs, legs.hlLegs)
<1>1. <<"quotes">> \notin F /\ <<"positions", "Binance">> \notin F /\ <<"positions", "Hyperliquid">> \notin F
  BY DEF PositionCalls
<1>2. H \in {-2, 0, 2} /\ HlUpnl(b) = 3 * H /\ BnUpnl(b) = -H
  BY HedgeOf
<1>3. legs.bnLegs = {bnLeg} /\ legs.hlLegs = {hlLeg}
  BY <1>1 DEF LegReads, Answer, BnLegs, HlLegs
<1>4. {bnLeg} # None /\ {hlLeg} # None
  BY CaptureAssumption DEF NoneIsNoAnswer, BnLegs, HlLegs
<1>5. bnLeg.size = Abs(H) /\ bnLeg.entry = 29 /\ hlLeg.size = H /\ hlLeg.entry = 30
  OBVIOUS
<1>6. Abs(H) = (IF H = 0 THEN 0 ELSE 2) /\ Abs(2) = 2
  BY <1>2 DEF Abs
<1> HIDE DEF bnLeg, hlLeg, H
<1>7. ActiveLegs({bnLeg}) = (IF H = 0 THEN {} ELSE {bnLeg})
      /\ ActiveLegs({hlLeg}) = (IF H = 0 THEN {} ELSE {hlLeg})
  BY <1>2, <1>4, <1>5, <1>6 DEF ActiveLegs
<1>8. QuotesOf(F) # None /\ QuotesOf(F).hlBtc = 33 /\ QuotesOf(F).btc = 30
  BY <1>1, QuotedPrices DEF Quotes
<1>9. LegColumns(QuotesOf(F), legs)["cross_mtm_value"] = CrossMtm(QuotesOf(F), params)
  BY DEF LegColumns
<1>10. params = CrossMtmParams({bnLeg}, {hlLeg})
  BY <1>3
<1> HIDE DEF legs, params
<1>11. CrossMtm(QuotesOf(F), params) = params.entry_cost - (3 * params.direction) * params.position_size
  BY <1>8 DEF CrossMtm
<1>12. CASE H = 0
  <2>1. params = Flat
    BY <1>7, <1>10, <1>12 DEF CrossMtmParams
  <2>2. params.entry_cost = 0 /\ params.direction = 1 /\ params.position_size = 0
    BY <2>1 DEF Flat
  <2>3. QED
    BY <1>2, <1>9, <1>11, <1>12, <2>2 DEF legs, H
<1>13. CASE H # 0
  <2>1. /\ (CHOOSE p \in {bnLeg} : TRUE) = bnLeg
        /\ (CHOOSE p \in {hlLeg} : TRUE) = hlLeg
    OBVIOUS
  <2>2. ActiveLegs({bnLeg}) = {bnLeg} /\ ActiveLegs({hlLeg}) = {hlLeg}
    BY <1>7, <1>13
  <2>3. params = [entry_cost |-> (bnLeg.entry - hlLeg.entry) * hlLeg.size,
                  position_size |-> Abs(bnLeg.size),
                  direction |-> IF hlLeg.size < 0 THEN 1 ELSE IF hlLeg.size > 0 THEN -1 ELSE 0]
    BY <1>10, <2>1, <2>2 DEF CrossMtmParams
  <2>4. /\ params.entry_cost = (29 - 30) * H /\ params.position_size = 2
        /\ params.direction = IF H < 0 THEN 1 ELSE IF H > 0 THEN -1 ELSE 0
    BY <1>5, <1>6, <1>13, <2>3
  <2>5. CASE H = -2
    BY <1>2, <1>9, <1>11, <2>4, <2>5 DEF legs, H
  <2>6. CASE H = 2
    BY <1>2, <1>9, <1>11, <2>4, <2>6 DEF legs, H
  <2>7. QED
    BY <1>2, <1>13, <2>5, <2>6
<1>14. QED
  BY <1>12, <1>13

\* A row as it is stored, by the books it was read of and the calls that failed.
RowRight(row, first, chain, now, F) ==
    /\ DOMAIN row = Fields
    /\ row["btc_price"] = (IF <<"quotes">> \in F THEN None ELSE 30)
    /\ row["eth_price"] = (IF <<"quotes">> \in F THEN None ELSE 2)
    /\ CustodyColumn(row, first, F)
    /\ CoinColumns(row, first, F)
    /\ AaveColumn(row, chain, F)
    /\ SusdsColumn(row, "susds_arbi_balance", chain, F, "arb")
    /\ SusdsColumn(row, "susds_eth_balance", chain, F, "eth")
    /\ VaultColumn(row, chain, F)
    /\ VenueColumns(row, first, F)
    /\ row["perp_positions_json"] # None
    /\ row["cross_mtm_value"] = LegColumns(QuotesOf(F), LegReads(now, F))["cross_mtm_value"]

\* Whatever fails, BuildSnapshot stores a row that is right about the books it
\* was read of.
LEMMA RowIsRight ==
    ASSUME NEW first \in SUBSET Positions, Consistent(first), NEW chain \in SUBSET Positions,
           NEW now \in SUBSET Positions, NEW F,
           NEW j, j.first = first, j.chain = chain, j.failed = F
    PROVE  RowRight(RowOf(j, now), first, chain, now, F)
<1> DEFINE r == FirstReads(first, F)
           c == ChainReads(chain, F, r)
           legs == LegReads(now, F)
           row == BuildSnapshot(r, c, legs)
<1>1. RowOf(j, now) = row
  BY DEF RowOf
<1>2. r.quotes = QuotesOf(F) /\ r.prices = PricesOf(F) /\ r.tickers = TickersOf(F)
  BY FirstFields
<1> DEFINE funds == r.funds
<1>3. /\ DOMAIN row = Fields
      /\ row["btc_price"] = QuoteOf(r.quotes, "BTC")
      /\ row["eth_price"] = QuoteOf(r.quotes, "ETH")
      /\ row["exchange_balances_json"] =
               ExchangeBalances(r.funds, VenuePrices(r.funds, r.prices, r.tickers))
      /\ \A f \in {"bitgo_holdings_json", "wallet_native_amount", "wallet_balance_usd"} :
            row[f] = CustodyColumns(r)[f]
      /\ \A f \in {"aave_supply_usd", "aave_borrow_usdc", "aave_health_rate",
                   "aave_net_usd", "aave_supply_amount"} :
            row[f] = AaveFields(c.aave, r.quotes)[f]
      /\ \A f \in {"susds_arbi_balance", "susds_eth_balance"} :
            row[f] = SparkFields(c.susds)[f]
      /\ \A f \in {"vault_usd", "vault_positions_json"} :
            row[f] = VaultFields(c.vaults)[f]
      /\ \A f \in {"hl_deposit_usdc", "hl_available_usdc", "binance_collateral_usdc",
                   "binance_available_usdc", "deribit_equity_usd", "deribit_available_usd"} :
            row[f] = FundColumns(r.funds)[f]
      /\ \A f \in {"perp_positions_json", "price_diff_hl_bn", "cross_mtm_value"} :
            row[f] = LegColumns(r.quotes, legs)[f]
  <2> HIDE DEF r, c, legs
  <2>1. QED
    BY ColumnsOfRow
<1> HIDE DEF row
<1>4. /\ row["btc_price"] = (IF <<"quotes">> \in F THEN None ELSE 30)
      /\ row["eth_price"] = (IF <<"quotes">> \in F THEN None ELSE 2)
  <2>1. row["btc_price"] = QuoteOf(QuotesOf(F), "BTC") /\ row["eth_price"] = QuoteOf(QuotesOf(F), "ETH")
    BY <1>2, <1>3
  <2>2. /\ <<"quotes">> \in F => QuotesOf(F) = None
        /\ <<"quotes">> \notin F => QuotesOf(F) # None /\ QuotesOf(F).btc = 30 /\ QuotesOf(F).eth = 2
    BY QuotedPrices DEF Quotes
  <2>3. QED
    BY <2>1, <2>2 DEF QuoteOf
<1>5. CustodyColumn(row, first, F)
  <2>1. /\ row["bitgo_holdings_json"] = CustodyColumns(r)["bitgo_holdings_json"]
        /\ row["wallet_native_amount"] = CustodyColumns(r)["wallet_native_amount"]
    BY <1>3
  <2>2. QED
    BY <2>1, CustodyColumnIs
<1>6. AaveColumn(row, chain, F)
  <2>1. \A f \in {"aave_supply_usd", "aave_borrow_usdc", "aave_net_usd", "aave_supply_amount"} :
          row[f] = AaveFields(c.aave, QuotesOf(F))[f]
    BY <1>2, <1>3
  <2>2. QED
    BY <2>1, AaveColumnIs
<1>7. SusdsColumn(row, "susds_arbi_balance", chain, F, "arb")
      /\ SusdsColumn(row, "susds_eth_balance", chain, F, "eth")
  <2>1. \A f \in {"susds_arbi_balance", "susds_eth_balance"} : row[f] = SparkFields(c.susds)[f]
    BY <1>3
  <2>2. QED
    BY <2>1, SusdsColumnIs
<1>8. VaultColumn(row, chain, F)
  <2>1. \A f \in {"vault_usd", "vault_positions_json"} : row[f] = VaultFields(c.vaults)[f]
    BY <1>3
  <2>2. QED
    BY <2>1, VaultColumnIs
<1>9. VenueColumns(row, first, F)
  <2>1. \A f \in {"hl_deposit_usdc", "binance_collateral_usdc", "deribit_equity_usd"} :
          row[f] = FundColumns(r.funds)[f]
    BY <1>3
  <2>2. row["exchange_balances_json"] =
             ExchangeBalances(r.funds, VenuePrices(r.funds, PricesOf(F), TickersOf(F)))
    BY <1>2, <1>3
  <2>3. QED
    BY <2>1, <2>2, VenueColumnsAre
<1>10. row["perp_positions_json"] = LegColumns(QuotesOf(F), legs)["perp_positions_json"]
       /\ row["cross_mtm_value"] = LegColumns(QuotesOf(F), legs)["cross_mtm_value"]
  BY <1>2, <1>3
<1>11. row["perp_positions_json"] # None
  BY <1>10, LegColumnIs
<1>12. DOMAIN row = Fields
  BY <1>3
<1>13. CoinColumns(row, first, F)
  <2>1. /\ row["wallet_native_amount"] = CustodyColumns(r)["wallet_native_amount"]
        /\ row["wallet_balance_usd"] = CustodyColumns(r)["wallet_balance_usd"]
    BY <1>3
  <2>2. QED
    BY <2>1, CoinColumnsAre
<1>14. RowRight(row, first, chain, now, F)
  <2> HIDE DEF r, c
  <2>1. QED
    BY <1>4, <1>5, <1>6, <1>7, <1>8, <1>9, <1>10, <1>11, <1>12, <1>13 DEF RowRight
<1>15. QED
  BY <1>1, <1>14 DEF row

-----------------------------------------------------------------------------
(* The invariant. *)

\* A cycle under way in a book h at time c: what is quiet has not moved yet.
JobOk(j, h, c) ==
    /\ j \in Job
    /\ j # Idle => /\ j.t \in 1..c /\ Consistent(j.first)
                   /\ j.quiet => j.first = h
                   /\ j.quiet /\ j.stage = "chain" => j.chain = h

\* A row stored: of one book, if the cycle was quiet.
SnapOk(s, c) ==
    /\ s.t \in 1..c
    /\ s.failed \in Outages \cup {{}} /\ s.quiet \in BOOLEAN
    /\ s.first \in SUBSET Positions /\ s.chain \in SUBSET Positions /\ Consistent(s.first)
    /\ \E now \in SUBSET Positions :
         /\ RowRight(s.row, s.first, s.chain, now, s.failed)
         /\ s.quiet => s.chain = s.first /\ now = s.first

\* No two cycles, under way or stored, have one timestamp.
ClocksApart ==
    /\ \A a, o \in Actors : a # o /\ job[a] # Idle /\ job[o] # Idle => job[a].t # job[o].t
    /\ \A a \in Actors, s \in snaps : job[a] # Idle => s.t # job[a].t
    /\ \A s, o \in snaps : s.t = o.t => s = o

CaptureInv ==
    /\ held \in SUBSET Positions /\ Consistent(held)
    /\ clock \in 0..MaxCycles
    /\ DOMAIN job = Actors /\ job = [a \in Actors |-> job[a]]
    /\ \A a \in Actors : JobOk(job[a], held, clock)
    /\ \A s \in snaps : SnapOk(s, clock)
    /\ ClocksApart
    /\ outages \in 0..MaxOutages /\ moves \in 0..MaxMoves

\* A cycle's stage tells what it has read.
LEMMA JobsByStage ==
    ASSUME NEW j \in Job
    PROVE  /\ j.stage = "idle" <=> j = Idle
           /\ j.stage \in {"idle", "first", "chain"}
           /\ j # Idle => /\ j.t \in 1..MaxCycles /\ j.failed \in Outages \cup {{}}
                          /\ j.first \in SUBSET Positions /\ j.quiet \in BOOLEAN
           /\ j.stage = "first" =>
                j \in [stage : {"first"}, t : 1..MaxCycles, failed : Outages \cup {{}},
                       first : SUBSET Positions, quiet : BOOLEAN]
           /\ j.stage = "chain" =>
                j \in [stage : {"chain"}, t : 1..MaxCycles, failed : Outages \cup {{}},
                       first : SUBSET Positions, chain : SUBSET Positions, quiet : BOOLEAN]
<1>1. Idle.stage = "idle"
  BY DEF Idle
<1>2. CASE j = Idle
  BY <1>1, <1>2
<1>3. CASE j \in [stage : {"first"}, t : 1..MaxCycles, failed : Outages \cup {{}},
                  first : SUBSET Positions, quiet : BOOLEAN]
  BY <1>1, <1>3
<1>4. CASE j \in [stage : {"chain"}, t : 1..MaxCycles, failed : Outages \cup {{}},
                  first : SUBSET Positions, chain : SUBSET Positions, quiet : BOOLEAN]
  BY <1>1, <1>4
<1>5. QED
  BY <1>2, <1>3, <1>4 DEF Job

-----------------------------------------------------------------------------
(* The steps. *)

\* What is said of cycles and rows at a time still holds later.
LEMMA LaterClock ==
    ASSUME NEW c \in Nat, NEW d \in Nat, c <= d
    PROVE  /\ \A j, h : JobOk(j, h, c) => JobOk(j, h, d)
           /\ \A s : SnapOk(s, c) => SnapOk(s, d)
<1>1. 1..c \subseteq 1..d
  OBVIOUS
<1>2. QED
  BY <1>1 DEF JobOk, SnapOk

\* The invariant holds before any cycle.
LEMMA CaptureStarts == Init => CaptureInv
<1> SUFFICES ASSUME Init PROVE CaptureInv
  OBVIOUS
<1>1. held \in SUBSET Positions /\ Consistent(held)
  BY CaptureAssumption DEF Init
<1>2. DOMAIN job = Actors /\ job = [a \in Actors |-> job[a]] /\ \A a \in Actors : job[a] = Idle
  BY DEF Init
<1>3. \A a \in Actors : JobOk(job[a], held, clock)
  BY <1>2 DEF JobOk, Job
<1>4. ClocksApart
  BY <1>2 DEF ClocksApart, Init
<1>5. clock \in 0..MaxCycles /\ outages \in 0..MaxOutages /\ moves \in 0..MaxMoves
  BY CaptureAssumption DEF Init
<1>6. \A s \in snaps : SnapOk(s, clock)
  BY DEF Init
<1>7. QED
  BY <1>1, <1>2, <1>3, <1>4, <1>5, <1>6 DEF CaptureInv

\* A cycle that begins gets a timestamp nobody has.
LEMMA BeginCaptures ==
    ASSUME CaptureInv, NEW a \in Actors, NEW failed \in Outages \cup {{}}, Begin(a, failed)
    PROVE  CaptureInv'
<1> DEFINE j == [stage |-> "first", t |-> clock + 1, failed |-> failed, first |-> held, quiet |-> TRUE]
<1>1. /\ held \in SUBSET Positions /\ Consistent(held) /\ clock \in 0..MaxCycles
      /\ DOMAIN job = Actors /\ \A o \in Actors : JobOk(job[o], held, clock)
      /\ \A s \in snaps : SnapOk(s, clock)
      /\ outages \in 0..MaxOutages /\ moves \in 0..MaxMoves /\ ClocksApart
  BY DEF CaptureInv
<1>2. /\ job[a] = Idle /\ clock < MaxCycles /\ clock' = clock + 1
      /\ held' = held /\ snaps' = snaps /\ moves' = moves
      /\ failed # {} => outages < MaxOutages
      /\ outages' = IF failed = {} THEN outages ELSE outages + 1
  BY DEF Begin
<1>3. /\ DOMAIN job' = Actors /\ job' = [o \in Actors |-> job'[o]] /\ job'[a] = j
      /\ \A o \in Actors \ {a} : job'[o] = job[o]
  BY <1>1 DEF Begin
<1>4. MaxCycles \in Nat /\ MaxOutages \in Nat /\ MaxMoves \in Nat
  BY CaptureAssumption
<1>5. clock' \in 1..MaxCycles /\ outages' \in 0..MaxOutages
  BY <1>1, <1>2, <1>4
<1>6. j \in Job /\ j.t = clock' /\ j.first = held /\ j.stage = "first"
  BY <1>1, <1>2, <1>5 DEF Job
<1> HIDE DEF j
<1>7. j # Idle
  BY <1>6, JobsByStage
<1>8. JobOk(j, held, clock')
  BY <1>1, <1>2, <1>4, <1>6 DEF JobOk
<1>9. (\A o \in Actors \ {a} : JobOk(job[o], held, clock')) /\ (\A s \in snaps : SnapOk(s, clock'))
  BY <1>1, <1>2, <1>4, LaterClock
<1>10. \A o \in Actors : JobOk(job'[o], held', clock')
  BY <1>2, <1>3, <1>8, <1>9
<1>11. /\ \A o \in Actors : job[o] # Idle => job[o].t \in 1..clock
       /\ \A s \in snaps : s.t \in 1..clock
  BY <1>1 DEF JobOk, SnapOk
<1>12. /\ \A o \in Actors \ {a} : job[o] # Idle => job[o].t # j.t
       /\ \A s \in snaps : s.t # j.t
  BY <1>1, <1>2, <1>4, <1>6, <1>11
<1>13. ClocksApart'
  <2>1. \A x, y \in Actors : x # y /\ job'[x] # Idle /\ job'[y] # Idle => job'[x].t # job'[y].t
    BY <1>1, <1>3, <1>12 DEF ClocksApart
  <2>2. \A x \in Actors, s \in snaps : job'[x] # Idle => s.t # job'[x].t
    BY <1>1, <1>3, <1>12 DEF ClocksApart
  <2>3. QED
    BY <1>1, <1>2, <2>1, <2>2 DEF ClocksApart
<1>14. clock' \in 0..MaxCycles
  BY <1>5
<1>15. \A s \in snaps' : SnapOk(s, clock')
  BY <1>2, <1>9
<1>16. held' \in SUBSET Positions /\ Consistent(held') /\ moves' \in 0..MaxMoves
  BY <1>1, <1>2
<1>17. QED
  BY <1>3, <1>5, <1>10, <1>13, <1>14, <1>15, <1>16 DEF CaptureInv

\* A cycle that was quiet up to here reads the chain of the book it began with.
LEMMA ReadChainCaptures ==
    ASSUME CaptureInv, NEW a \in Actors, ReadChain(a)
    PROVE  CaptureInv'
<1> DEFINE i == job[a]
           j == [stage |-> "chain", t |-> i.t, failed |-> i.failed,
                 first |-> i.first, chain |-> held, quiet |-> i.quiet]
<1>1. /\ held \in SUBSET Positions /\ DOMAIN job = Actors
      /\ \A o \in Actors : JobOk(job[o], held, clock)
      /\ ClocksApart
  BY DEF CaptureInv
<1>2. /\ i.stage = "first" /\ held' = held /\ snaps' = snaps /\ clock' = clock
      /\ moves' = moves /\ outages' = outages
  BY DEF ReadChain
<1>3. /\ DOMAIN job' = Actors /\ job' = [o \in Actors |-> job'[o]] /\ job'[a] = j
      /\ \A o \in Actors \ {a} : job'[o] = job[o]
  BY <1>1 DEF ReadChain
<1>4. JobOk(i, held, clock)
  BY <1>1
<1> HIDE DEF i
<1>5. i \in Job
  BY <1>4 DEF JobOk
<1>6. /\ i # Idle
      /\ i.t \in 1..MaxCycles /\ i.failed \in Outages \cup {{}}
      /\ i.first \in SUBSET Positions /\ i.quiet \in BOOLEAN
  BY <1>2, <1>5, JobsByStage
<1>7. i.t \in 1..clock /\ Consistent(i.first) /\ (i.quiet => i.first = held)
  BY <1>4, <1>6 DEF JobOk
<1>8. j \in Job /\ j.t = i.t /\ j.first = i.first /\ j.chain = held /\ j.quiet = i.quiet /\ j.stage = "chain"
  BY <1>1, <1>6 DEF Job
<1> HIDE DEF j
<1>9. j # Idle
  BY <1>8, JobsByStage
<1>10. JobOk(j, held, clock)
  BY <1>7, <1>8 DEF JobOk
<1>11. \A o \in Actors : JobOk(job'[o], held', clock')
  BY <1>1, <1>2, <1>3, <1>10
<1>12. ClocksApart'
  <2>1. \A x \in Actors : job'[x] # Idle <=> job[x] # Idle
    BY <1>3, <1>6, <1>9 DEF i
  <2>2. \A x \in Actors : job'[x].t = job[x].t
    BY <1>3, <1>8 DEF i
  <2>3. QED
    BY <1>1, <1>2, <2>1, <2>2 DEF ClocksApart
<1>13. QED
  BY <1>2, <1>3, <1>11, <1>12 DEF CaptureInv

\* A row stored is right, and the only one with its timestamp.
LEMMA StoreCaptures ==
    ASSUME CaptureInv, NEW a \in Actors, Store(a)
    PROVE  CaptureInv'
<1> DEFINE j == job[a]
           new == [t |-> j.t, row |-> RowOf(j, held), failed |-> j.failed,
                   first |-> j.first, chain |-> j.chain, quiet |-> j.quiet]
<1>1. /\ held \in SUBSET Positions /\ DOMAIN job = Actors
      /\ \A o \in Actors : JobOk(job[o], held, clock)
      /\ \A s \in snaps : SnapOk(s, clock)
      /\ ClocksApart
  BY DEF CaptureInv
<1>2. /\ j.stage = "chain" /\ held' = held /\ clock' = clock /\ snaps' = snaps \cup {new}
      /\ moves' = moves /\ outages' = outages
  BY DEF Store
<1>3. /\ DOMAIN job' = Actors /\ job' = [o \in Actors |-> job'[o]] /\ job'[a] = Idle
      /\ \A o \in Actors \ {a} : job'[o] = job[o]
  BY <1>1 DEF Store
<1>4. JobOk(j, held, clock)
  BY <1>1
<1> DEFINE row == RowOf(j, held)
<1>5. /\ new.t = j.t /\ new.row = row /\ new.failed = j.failed
      /\ new.first = j.first /\ new.chain = j.chain /\ new.quiet = j.quiet
  OBVIOUS
<1>6. j \in Job
  BY <1>4 DEF JobOk
<1>7. /\ j # Idle
      /\ j.failed \in Outages \cup {{}}
      /\ j.first \in SUBSET Positions /\ j.chain \in SUBSET Positions /\ j.quiet \in BOOLEAN
  <2> HIDE DEF j
  <2>1. QED
    BY <1>2, <1>6, JobsByStage
<1>8. /\ j.t \in 1..clock /\ Consistent(j.first)
      /\ j.quiet => j.first = held /\ j.chain = held
  BY <1>2, <1>4, <1>7 DEF JobOk
<1>9. RowRight(row, j.first, j.chain, held, j.failed)
  <2> HIDE DEF j
  <2>1. QED
    BY <1>1, <1>7, <1>8, RowIsRight
<1> HIDE DEF row, new
<1>10. SnapOk(new, clock)
  <2> HIDE DEF j
  <2>1. QED
    BY <1>1, <1>5, <1>7, <1>8, <1>9 DEF SnapOk
<1>11. JobOk(Idle, held, clock)
  BY DEF JobOk, Job
<1>12. \A o \in Actors : JobOk(job'[o], held', clock')
  BY <1>1, <1>2, <1>3, <1>11
<1>13. \A s \in snaps' : SnapOk(s, clock')
  BY <1>1, <1>2, <1>10
<1>14. ClocksApart'
  <2>1. \A s \in snaps : s.t # j.t
    BY <1>1, <1>7 DEF ClocksApart
  <2>2. \A x, y \in Actors : x # y /\ job'[x] # Idle /\ job'[y] # Idle => job'[x].t # job'[y].t
    BY <1>1, <1>3 DEF ClocksApart
  <2>3. \A x \in Actors, s \in snaps' : job'[x] # Idle => s.t # job'[x].t
    BY <1>1, <1>2, <1>3, <1>5, <1>7 DEF ClocksApart
  <2>4. \A s, o \in snaps' : s.t = o.t => s = o
    BY <1>1, <1>2, <1>5, <2>1 DEF ClocksApart
  <2>5. QED
    BY <2>2, <2>3, <2>4 DEF ClocksApart
<1>15. QED
  BY <1>2, <1>3, <1>12, <1>13, <1>14 DEF CaptureInv

\* A position that moves ends the quiet of every cycle under way.
LEMMA MoveCaptures ==
    ASSUME CaptureInv, NEW p \in Positions, Move(p)
    PROVE  CaptureInv'
<1> DEFINE b == IF p \in held THEN held \ {p} ELSE held \cup {p}
           Loud(j) == IF j = Idle THEN Idle ELSE [j EXCEPT !.quiet = FALSE]
<1>1. /\ held \in SUBSET Positions /\ DOMAIN job = Actors
      /\ \A o \in Actors : JobOk(job[o], held, clock)
      /\ moves \in 0..MaxMoves
      /\ ClocksApart
  BY DEF CaptureInv
<1>2. /\ moves < MaxMoves /\ Consistent(b) /\ held' = b /\ moves' = moves + 1
      /\ snaps' = snaps /\ clock' = clock /\ outages' = outages
  BY DEF Move
<1>3. job' = [o \in Actors |-> Loud(job[o])]
  BY DEF Move
<1>4. b \in SUBSET Positions
  BY <1>1
<1> HIDE DEF b
<1>5. ASSUME NEW j, JobOk(j, held, clock)
      PROVE  /\ JobOk(Loud(j), b, clock)
             /\ Loud(j) # Idle <=> j # Idle
             /\ j # Idle => Loud(j).t = j.t
  <2>1. CASE j = Idle
    BY <2>1 DEF JobOk, Job
  <2>2. CASE j # Idle
    <3> DEFINE l == [j EXCEPT !.quiet = FALSE]
    <3>1. j \in Job /\ j.t \in 1..clock /\ Consistent(j.first)
      BY <1>5, <2>2 DEF JobOk
    <3>2. l \in Job /\ l.t = j.t /\ l.first = j.first /\ l.quiet = FALSE /\ l.stage = j.stage
      <4>1. CASE j.stage = "first"
        <5>1. j \in [stage : {"first"}, t : 1..MaxCycles, failed : Outages \cup {{}},
                     first : SUBSET Positions, quiet : BOOLEAN]
          BY <3>1, <4>1, JobsByStage
        <5>2. QED
          BY <5>1 DEF Job
      <4>2. CASE j.stage = "chain"
        <5>1. j \in [stage : {"chain"}, t : 1..MaxCycles, failed : Outages \cup {{}},
                     first : SUBSET Positions, chain : SUBSET Positions, quiet : BOOLEAN]
          BY <3>1, <4>2, JobsByStage
        <5>2. QED
          BY <5>1 DEF Job
      <4>3. QED
        BY <2>2, <3>1, <4>1, <4>2, JobsByStage
    <3> HIDE DEF l
    <3>3. l # Idle
      BY <2>2, <3>1, <3>2, JobsByStage
    <3>4. JobOk(l, b, clock)
      BY <3>1, <3>2 DEF JobOk
    <3>5. Loud(j) = l
      BY <2>2 DEF l
    <3>6. QED
      BY <2>2, <3>2, <3>3, <3>4, <3>5
  <2>3. QED
    BY <2>1, <2>2
<1> HIDE DEF Loud
<1>6. DOMAIN job' = Actors /\ job' = [o \in Actors |-> job'[o]] /\ \A o \in Actors : job'[o] = Loud(job[o])
  BY <1>3
<1>7. \A o \in Actors : JobOk(job'[o], held', clock')
  BY <1>1, <1>2, <1>5, <1>6
<1>8. \A o \in Actors : (job'[o] # Idle <=> job[o] # Idle) /\ (job[o] # Idle => job'[o].t = job[o].t)
  BY <1>1, <1>5, <1>6
<1>9. ClocksApart'
  BY <1>1, <1>2, <1>8 DEF ClocksApart
<1>10. moves' \in 0..MaxMoves
  BY <1>1, <1>2, CaptureAssumption
<1>11. held' \in SUBSET Positions /\ Consistent(held')
  BY <1>2, <1>4
<1>12. QED
  BY <1>2, <1>6, <1>7, <1>9, <1>10, <1>11 DEF CaptureInv

\* Every step keeps the invariant.
LEMMA StepsCapture ==
    ASSUME CaptureInv, [Next]_vars
    PROVE  CaptureInv'
<1>1. ASSUME NEW a \in Actors, NEW failed \in Outages \cup {{}}, Begin(a, failed)
      PROVE  CaptureInv'
  BY <1>1, BeginCaptures
<1>2. ASSUME NEW a \in Actors, ReadChain(a)
      PROVE  CaptureInv'
  BY <1>2, ReadChainCaptures
<1>3. ASSUME NEW a \in Actors, Store(a)
      PROVE  CaptureInv'
  BY <1>3, StoreCaptures
<1>4. ASSUME NEW p \in Positions, Move(p)
      PROVE  CaptureInv'
  BY <1>4, MoveCaptures
<1>5. ASSUME UNCHANGED vars
      PROVE  CaptureInv'
  BY <1>5 DEF CaptureInv, ClocksApart, vars
<1>6. QED
  BY <1>1, <1>2, <1>3, <1>4, <1>5 DEF Next, Over

\* The invariant holds in every state.
THEOREM CaptureInvHolds == Spec => []CaptureInv
<1>1. Init => CaptureInv
  BY CaptureStarts
<1>2. CaptureInv /\ [Next]_vars => CaptureInv'
  BY StepsCapture
<1>3. QED
  BY <1>1, <1>2, PTL DEF Spec

\* Every state is of its type: a stored row has every column, a timestamp already
\* taken and the books it was read of (collect_snapshot_cycle).
THEOREM CaptureTypeCorrect == Spec => []TypeOK
<1>1. ASSUME CaptureInv PROVE TypeOK
  <2>1. job \in [Actors -> Job]
    BY <1>1 DEF CaptureInv, JobOk
  <2>2. \A s \in snaps : IsSnapshot(s)
    BY <1>1 DEF CaptureInv, SnapOk, IsSnapshot, RowRight
  <2>3. QED
    BY <1>1, <2>1, <2>2 DEF CaptureInv, TypeOK
<1>2. QED
  BY <1>1, CaptureInvHolds, PTL

-----------------------------------------------------------------------------
(* What one row is worth. *)

\* What a stored row holds, whatever the perpetuals were read of.
LEMMA StoredRow ==
    ASSUME NEW c, NEW s, SnapOk(s, c)
    PROVE  /\ s.t \in 1..c /\ s.first \in SUBSET Positions /\ s.chain \in SUBSET Positions
           /\ Consistent(s.first)
           /\ s.row["btc_price"] = (IF <<"quotes">> \in s.failed THEN None ELSE 30)
           /\ s.row["eth_price"] = (IF <<"quotes">> \in s.failed THEN None ELSE 2)
           /\ s.row["btc_price"] \in Int \cup {None} /\ s.row["eth_price"] \in Int \cup {None}
           /\ CustodyColumn(s.row, s.first, s.failed)
           /\ CoinColumns(s.row, s.first, s.failed)
           /\ AaveColumn(s.row, s.chain, s.failed)
           /\ SusdsColumn(s.row, "susds_arbi_balance", s.chain, s.failed, "arb")
           /\ SusdsColumn(s.row, "susds_eth_balance", s.chain, s.failed, "eth")
           /\ VaultColumn(s.row, s.chain, s.failed)
           /\ VenueColumns(s.row, s.first, s.failed)
           /\ s.row["perp_positions_json"] # None
BY DEF SnapOk, RowRight

\* The parts of a row are numbers.
LEMMA PartsAreInt ==
    ASSUME NEW b \in SUBSET Positions, NEW F
    PROVE  /\ NativeTold(b, F) \in Int
           /\ \A a \in {"0x1", "0x2"} : Lent(b, F, a) \in Int /\ Owed(b, F, a) \in Int
           /\ Rate(F) \in {1, 2}
           /\ \A chain \in {"arb", "eth"} : Saved(b, F, chain) \in Int /\ Rate(F) * Saved(b, F, chain) \in Int
           /\ SharesRead(b, F) \in Int
           /\ HlUpnl(b) \in Int /\ BnUpnl(b) \in Int
           /\ HlWorth(b) \in Int /\ BnWorth(b, F) \in Int
<1>1. NativeTold(b, F) \in Int
  BY NativeToldIs
<1>2. \A a \in {"0x1", "0x2"} : Lent(b, F, a) \in Int /\ Owed(b, F, a) \in Int
  BY DEF Lent, Owed, Units
<1>3. Rate(F) \in {1, 2} /\ SharesRead(b, F) \in Int
  BY DEF Rate, SharesRead, Units
<1>4. \A chain \in {"arb", "eth"} : Saved(b, F, chain) \in Int
  BY DEF Saved, Units
<1>5. HlUpnl(b) \in Int /\ BnUpnl(b) \in Int
  BY DEF HlUpnl, BnUpnl, HedgeSize, Units
<1>6. \A chain \in {"arb", "eth"} : Rate(F) * Saved(b, F, chain) \in Int
  BY <1>3, <1>4
<1>7. HlWorth(b) \in Int /\ BnWorth(b, F) \in Int
  BY <1>5 DEF HlWorth, BnWorth, Units
<1>8. QED
  BY <1>1, <1>2, <1>3, <1>4, <1>5, <1>6, <1>7

\* The segment's price, in a row or merged, is a number or missing.
LEMMA PriceIs ==
    ASSUME NEW m, m["btc_price"] \in Int \cup {None}, m["eth_price"] \in Int \cup {None}
    PROVE  SegmentPrice(m) \in Int \cup {None}
BY ReadersAssumption DEF SegmentPrice

\* The parts of the NAV in the row of one cycle.
LEMMA RowParts ==
    ASSUME NEW c, NEW s, SnapOk(s, c), NEW price \in Int \cup {None}
    PROVE  LET p == Components(s.row, price)
               F == s.failed
           IN /\ p.native = IF CustodyAnswers(F) THEN NativeTold(s.first, F) ELSE 0
              /\ p.collateral = IF AaveSilent(F) THEN 0
                                ELSE Lent(s.chain, F, "0x1") + Lent(s.chain, F, "0x2")
              /\ p.loan = IF AaveSilent(F) THEN 0 ELSE Owed(s.chain, F, "0x1")
              /\ p.spark = (IF SusdsSilent(F, "arb") THEN 0 ELSE Rate(F) * Saved(s.chain, F, "arb"))
                           + (IF SusdsSilent(F, "eth") THEN 0 ELSE Rate(F) * Saved(s.chain, F, "eth"))
              /\ p.vaults = IF VaultSilent(s.chain, F) THEN 0 ELSE 2 * SharesRead(s.chain, F)
<1> DEFINE p == Components(s.row, price)
           F == s.failed
           m == s.row
           h == m["bitgo_holdings_json"]
           sum == SumFunction([w \in DOMAIN h |-> TotalUsd(h[w])])
<1>1. /\ p.native = IF h # None /\ DOMAIN h # {} THEN sum
                    ELSE IF price # None THEN Or0(m["wallet_native_amount"]) * price ELSE 0
      /\ p.collateral = Or0(m["aave_supply_usd"])
      /\ p.loan = Or0(m["aave_borrow_usdc"])
      /\ p.spark = Or0(m["susds_arbi_balance"]) + Or0(m["susds_eth_balance"])
      /\ p.vaults = Or0(m["vault_usd"])
  BY DEF Components
<1>2. /\ s.first \in SUBSET Positions /\ s.chain \in SUBSET Positions
      /\ CustodyColumn(m, s.first, F)
      /\ AaveColumn(m, s.chain, F)
      /\ SusdsColumn(m, "susds_arbi_balance", s.chain, F, "arb")
      /\ SusdsColumn(m, "susds_eth_balance", s.chain, F, "eth")
      /\ VaultColumn(m, s.chain, F)
  BY StoredRow
<1>3. (~CustodyAnswers(F) => h = None /\ m["wallet_native_amount"] = None)
      /\ (CustodyAnswers(F) => /\ h # None
                               /\ DOMAIN h = {} <=> s.first \cap {"reserve", "stash", "loan"} = {}
                               /\ DOMAIN h = {} => m["wallet_native_amount"] = None
                               /\ sum = NativeTold(s.first, F))
  BY <1>2 DEF CustodyColumn
<1> HIDE DEF p, sum, h, m, F
<1>4. p.native = IF CustodyAnswers(F) THEN NativeTold(s.first, F) ELSE 0
  <2>1. m["wallet_native_amount"] = None => (IF price # None THEN Or0(m["wallet_native_amount"]) * price ELSE 0) = 0
    BY DEF Or0
  <2>2. CASE ~CustodyAnswers(F)
    BY <1>1, <1>3, <2>1, <2>2
  <2>3. CASE CustodyAnswers(F) /\ DOMAIN h # {}
    BY <1>1, <1>3, <2>3
  <2>4. CASE CustodyAnswers(F) /\ DOMAIN h = {}
    <3>1. "reserve" \notin s.first /\ "stash" \notin s.first
      BY <1>3, <2>4
    <3>2. NativeTold(s.first, F) = 0
      BY <1>2, <3>1, NativeToldIs
    <3>3. p.native = 0
      BY <1>1, <1>3, <2>1, <2>4
    <3>4. QED
      BY <2>4, <3>2, <3>3
  <2>5. QED
    BY <2>2, <2>3, <2>4
<1>5. None \notin Int
  BY ReadersAssumption
<1>6. /\ Lent(s.chain, F, "0x1") \in Int /\ Lent(s.chain, F, "0x2") \in Int /\ Owed(s.chain, F, "0x1") \in Int
      /\ Rate(F) * Saved(s.chain, F, "arb") \in Int /\ Rate(F) * Saved(s.chain, F, "eth") \in Int
      /\ SharesRead(s.chain, F) \in Int
  BY <1>2, PartsAreInt
<1>7. p.collateral = IF AaveSilent(F) THEN 0 ELSE Lent(s.chain, F, "0x1") + Lent(s.chain, F, "0x2")
  BY <1>1, <1>2, <1>5, <1>6 DEF AaveColumn, Or0
<1>8. p.loan = IF AaveSilent(F) THEN 0 ELSE Owed(s.chain, F, "0x1")
  BY <1>1, <1>2, <1>5, <1>6 DEF AaveColumn, Or0
<1>9. Or0(m["susds_arbi_balance"]) = IF SusdsSilent(F, "arb") THEN 0 ELSE Rate(F) * Saved(s.chain, F, "arb")
  BY <1>2, <1>5, <1>6 DEF SusdsColumn, Or0
<1>10. Or0(m["susds_eth_balance"]) = IF SusdsSilent(F, "eth") THEN 0 ELSE Rate(F) * Saved(s.chain, F, "eth")
  BY <1>2, <1>5, <1>6 DEF SusdsColumn, Or0
<1>11. p.vaults = IF VaultSilent(s.chain, F) THEN 0 ELSE 2 * SharesRead(s.chain, F)
  BY <1>1, <1>2, <1>5, <1>6 DEF VaultColumn, Or0
<1>12. QED
  BY <1>1, <1>4, <1>7, <1>8, <1>9, <1>10, <1>11 DEF p, F

\* A book's worth, every position by name.
LEMMA BookWorthByName ==
    ASSUME NEW b \in SUBSET Positions
    PROVE  BookWorth(b) = Units(b, "reserve", 6) + Units(b, "stash", 5) + Units(b, "loan", 12)
                          + Units(b, "lend", 4) + Units(b, "spark", 10) + Units(b, "sparkEth", 8)
                          + Units(b, "vault", 6) + Units(b, "hl", 20) + Units(b, "binance", 9)
                          + Units(b, "deribit", 2) - Units(b, "basis", 4) + Units(b, "reverse", 4)
                          + Units(b, "classic", 7) + Units(b, "um", 3)
<1> DEFINE b1 == b \ {"reserve"}   b2 == b1 \ {"stash"}     b3 == b2 \ {"loan"}
           b4 == b3 \ {"lend"}     b5 == b4 \ {"spark"}     b6 == b5 \ {"sparkEth"}
           b7 == b6 \ {"vault"}    b8 == b7 \ {"hl"}        b9 == b8 \ {"binance"}
           b10 == b9 \ {"deribit"} b11 == b10 \ {"basis"}   b12 == b11 \ {"reverse"}
           b13 == b12 \ {"classic"} b14 == b13 \ {"um"}
           V(x, p) == IF p \in x THEN Worth(p) ELSE 0
<1>1. /\ b1 \in SUBSET Positions /\ b2 \in SUBSET Positions /\ b3 \in SUBSET Positions
      /\ b4 \in SUBSET Positions /\ b5 \in SUBSET Positions /\ b6 \in SUBSET Positions
      /\ b7 \in SUBSET Positions /\ b8 \in SUBSET Positions /\ b9 \in SUBSET Positions
      /\ b10 \in SUBSET Positions /\ b11 \in SUBSET Positions
      /\ b12 \in SUBSET Positions /\ b13 \in SUBSET Positions
  OBVIOUS
<1>2. b14 = {}
  BY DEF Positions
<1>a. /\ Worth("reserve") = 6 /\ Worth("stash") = 5 /\ Worth("loan") = 12 /\ Worth("lend") = 4
      /\ Worth("spark") = 10 /\ Worth("sparkEth") = 8 /\ Worth("vault") = 6 /\ Worth("hl") = 20
      /\ Worth("classic") = 7 /\ Worth("binance") = 9 /\ Worth("um") = 3 /\ Worth("deribit") = 2
      /\ Worth("basis") = -4 /\ Worth("reverse") = 4
  BY DEF Worth
<1>b. /\ ("stash" \in b1 <=> "stash" \in b) /\ ("loan" \in b2 <=> "loan" \in b)
      /\ ("lend" \in b3 <=> "lend" \in b) /\ ("spark" \in b4 <=> "spark" \in b)
      /\ ("sparkEth" \in b5 <=> "sparkEth" \in b) /\ ("vault" \in b6 <=> "vault" \in b)
      /\ ("hl" \in b7 <=> "hl" \in b)
  OBVIOUS
<1>c. /\ ("binance" \in b8 <=> "binance" \in b) /\ ("deribit" \in b9 <=> "deribit" \in b)
      /\ ("basis" \in b10 <=> "basis" \in b) /\ ("reverse" \in b11 <=> "reverse" \in b)
      /\ ("classic" \in b12 <=> "classic" \in b) /\ ("um" \in b13 <=> "um" \in b)
  OBVIOUS
<1>4. \A x \in SUBSET Positions, p \in Positions :
         BookWorth(x) = V(x, p) + BookWorth(x \ {p}) /\ BookWorth(x) \in Int
  BY BookWorthOf
<1> HIDE DEF b1, b2, b3, b4, b5, b6, b7, b8, b9, b10, b11, b12, b13, b14
<1>3. /\ V(b, "reserve") = Units(b, "reserve", 6)
      /\ V(b1, "stash") = Units(b, "stash", 5) /\ V(b2, "loan") = Units(b, "loan", 12)
      /\ V(b3, "lend") = Units(b, "lend", 4) /\ V(b4, "spark") = Units(b, "spark", 10)
      /\ V(b5, "sparkEth") = Units(b, "sparkEth", 8) /\ V(b6, "vault") = Units(b, "vault", 6)
      /\ V(b7, "hl") = Units(b, "hl", 20) /\ V(b8, "binance") = Units(b, "binance", 9)
      /\ V(b9, "deribit") = Units(b, "deribit", 2) /\ V(b10, "basis") = -Units(b, "basis", 4)
      /\ V(b11, "reverse") = Units(b, "reverse", 4)
      /\ V(b12, "classic") = Units(b, "classic", 7) /\ V(b13, "um") = Units(b, "um", 3)
  BY <1>a, <1>b, <1>c DEF Units
<1> HIDE DEF V
<1>5. /\ BookWorth(b) = V(b, "reserve") + BookWorth(b1)
      /\ BookWorth(b1) = V(b1, "stash") + BookWorth(b2)
      /\ BookWorth(b2) = V(b2, "loan") + BookWorth(b3)
      /\ BookWorth(b3) = V(b3, "lend") + BookWorth(b4)
      /\ BookWorth(b4) = V(b4, "spark") + BookWorth(b5)
      /\ BookWorth(b5) = V(b5, "sparkEth") + BookWorth(b6)
      /\ BookWorth(b6) = V(b6, "vault") + BookWorth(b7)
      /\ BookWorth(b7) = V(b7, "hl") + BookWorth(b8)
      /\ BookWorth(b8) = V(b8, "binance") + BookWorth(b9)
      /\ BookWorth(b9) = V(b9, "deribit") + BookWorth(b10)
      /\ BookWorth(b10) = V(b10, "basis") + BookWorth(b11)
      /\ BookWorth(b11) = V(b11, "reverse") + BookWorth(b12)
      /\ BookWorth(b12) = V(b12, "classic") + BookWorth(b13)
      /\ BookWorth(b13) = V(b13, "um") + BookWorth(b14)
  <2>1. {"reserve", "stash", "loan", "lend", "spark", "sparkEth", "vault", "hl", "binance",
         "deribit", "basis", "reverse", "classic", "um"} \subseteq Positions
    BY DEF Positions
  <2>2. /\ BookWorth(b) = V(b, "reserve") + BookWorth(b \ {"reserve"})
        /\ BookWorth(b1) = V(b1, "stash") + BookWorth(b1 \ {"stash"})
        /\ BookWorth(b2) = V(b2, "loan") + BookWorth(b2 \ {"loan"})
        /\ BookWorth(b3) = V(b3, "lend") + BookWorth(b3 \ {"lend"})
        /\ BookWorth(b4) = V(b4, "spark") + BookWorth(b4 \ {"spark"})
        /\ BookWorth(b5) = V(b5, "sparkEth") + BookWorth(b5 \ {"sparkEth"})
    BY <1>1, <1>4, <2>1
  <2>3. /\ BookWorth(b6) = V(b6, "vault") + BookWorth(b6 \ {"vault"})
        /\ BookWorth(b7) = V(b7, "hl") + BookWorth(b7 \ {"hl"})
        /\ BookWorth(b8) = V(b8, "binance") + BookWorth(b8 \ {"binance"})
        /\ BookWorth(b9) = V(b9, "deribit") + BookWorth(b9 \ {"deribit"})
        /\ BookWorth(b10) = V(b10, "basis") + BookWorth(b10 \ {"basis"})
        /\ BookWorth(b11) = V(b11, "reverse") + BookWorth(b11 \ {"reverse"})
        /\ BookWorth(b12) = V(b12, "classic") + BookWorth(b12 \ {"classic"})
        /\ BookWorth(b13) = V(b13, "um") + BookWorth(b13 \ {"um"})
    BY <1>1, <1>4, <2>1
  <2>4. QED
    BY <2>2, <2>3 DEF b1, b2, b3, b4, b5, b6, b7, b8, b9, b10, b11, b12, b13, b14
<1>6. BookWorth(b14) = 0
  <2>1. BookWorth({}) = 0
    BY BookWorthOf
  <2>2. QED
    BY <1>2, <2>1
<1>7. \A p, n : n \in Int => Units(b, p, n) \in Int
  BY DEF Units
<1>8. QED
  BY <1>3, <1>5, <1>6, <1>7

\* A quiet cycle read the legs of the book it began with.
LEMMA CrossMtmFollows == CaptureInv => CrossMtmIsLegsProfit
<1> SUFFICES ASSUME CaptureInv, NEW s \in snaps, s.quiet,
                    s.failed \cap (PositionCalls \cup {<<"quotes">>}) = {}
             PROVE  s.row["cross_mtm_value"] = HlUpnl(s.first) + BnUpnl(s.first)
  BY DEF CrossMtmIsLegsProfit
<1>1. SnapOk(s, clock)
  BY DEF CaptureInv
<1>2. PICK now \in SUBSET Positions :
        RowRight(s.row, s.first, s.chain, now, s.failed) /\ (s.quiet => s.chain = s.first /\ now = s.first)
  BY <1>1 DEF SnapOk
<1>3. s.row["cross_mtm_value"] = LegColumns(QuotesOf(s.failed), LegReads(s.first, s.failed))["cross_mtm_value"]
  BY <1>2 DEF RowRight
<1>4. s.first \in SUBSET Positions /\ Consistent(s.first)
  BY <1>1 DEF SnapOk
<1>5. QED
  BY <1>3, <1>4, CrossMtmIs

\* With every call answered and nothing moved, the parts of the row add up to
\* the positions of the book, the hedge to the profit of its legs.
LEMMA WorthFollows == CaptureInv => SnapshotIsWorth
<1> SUFFICES ASSUME CaptureInv, NEW s \in snaps, s.quiet, s.failed = {}
             PROVE  NavUsd(s.row, SegmentPrice(s.row)) = BookWorth(s.first)
  BY DEF SnapshotIsWorth
<1>1. SnapOk(s, clock)
  BY DEF CaptureInv
<1> DEFINE b == s.first
           F == s.failed
           m == s.row
           price == SegmentPrice(m)
           p == Components(m, price)
<1>2. s.chain = b
  BY <1>1 DEF SnapOk
<1>3. price \in Int \cup {None}
  BY <1>1, StoredRow, PriceIs
<1>4. CustodyAnswers(F) /\ EthPriceKnown(F) /\ <<"ticker", "XLM">> \notin F
  BY DEF CustodyAnswers, EthPriceKnown
<1>5. ~AaveSilent(F) /\ ~SusdsSilent(F, "arb") /\ ~SusdsSilent(F, "eth") /\ ~VaultSilent(b, F)
  <2>1. \E a, k : <<"aave", a, k>> \in AaveCalls
    BY DEF AaveCalls, Addresses, Markets
  <2>2. (\E a : <<"susds", "arb", a>> \in SusdsCalls("arb")) /\ (\E a : <<"susds", "eth", a>> \in SusdsCalls("eth"))
    BY DEF SusdsCalls, Addresses
  <2>3. \E a : <<"shares", "usdc", a>> \in VaultCalls
    BY DEF VaultCalls, Addresses
  <2>4. QED
    BY <1>4, <2>1, <2>2, <2>3 DEF AaveSilent, SusdsSilent, VaultSilent, VaultsSilent
<1>6. b \in SUBSET Positions
  BY <1>1, StoredRow
<1>7. /\ p.native = NativeTold(b, F)
      /\ p.collateral = Lent(b, F, "0x1") + Lent(b, F, "0x2")
      /\ p.loan = Owed(b, F, "0x1")
      /\ p.spark = Rate(F) * Saved(b, F, "arb") + Rate(F) * Saved(b, F, "eth")
      /\ p.vaults = 2 * SharesRead(b, F)
  <2> HIDE DEF price
  <2>1. /\ p.native = IF CustodyAnswers(F) THEN NativeTold(b, F) ELSE 0
        /\ p.collateral = IF AaveSilent(F) THEN 0 ELSE Lent(s.chain, F, "0x1") + Lent(s.chain, F, "0x2")
        /\ p.loan = IF AaveSilent(F) THEN 0 ELSE Owed(s.chain, F, "0x1")
        /\ p.spark = (IF SusdsSilent(F, "arb") THEN 0 ELSE Rate(F) * Saved(s.chain, F, "arb"))
                     + (IF SusdsSilent(F, "eth") THEN 0 ELSE Rate(F) * Saved(s.chain, F, "eth"))
        /\ p.vaults = IF VaultSilent(s.chain, F) THEN 0 ELSE 2 * SharesRead(s.chain, F)
    BY <1>1, <1>3, RowParts
  <2> HIDE DEF p, F, b
  <2>2. QED
    BY <1>2, <1>4, <1>5, <2>1
<1>8. NativeTold(b, F) = Units(b, "reserve", 6) + Units(b, "stash", 5)
  <2>1. NativeTold(b, F) = (IF "reserve" \in b /\ EthPriceKnown(F) THEN 6 ELSE 0)
                           + (IF "stash" \in b /\ <<"ticker", "XLM">> \notin F THEN 5 ELSE 0)
    BY <1>6, NativeToldIs
  <2>2. QED
    BY <1>4, <2>1 DEF Units
<1>9. /\ Lent(b, F, "0x1") = Units(b, "loan", 20) /\ Lent(b, F, "0x2") = Units(b, "lend", 4)
      /\ Owed(b, F, "0x1") = Units(b, "loan", 8)
  BY DEF Lent, Owed
<1>10. /\ Rate(F) = 2 /\ Saved(b, F, "arb") = Units(b, "spark", 5) /\ Saved(b, F, "eth") = Units(b, "sparkEth", 4)
       /\ SharesRead(b, F) = Units(b, "vault", 3)
  BY DEF Rate, Saved, SharesRead
<1>11. VenueColumns(m, b, F)
  BY <1>1, StoredRow
<1>12. /\ m["hl_deposit_usdc"] = Units(b, "hl", 20) + Units(b, "classic", 7) + HlUpnl(b)
       /\ m["binance_collateral_usdc"] = Units(b, "binance", 9) + (Units(b, "um", 3) + BnUpnl(b))
       /\ m["deribit_equity_usd"] = Units(b, "deribit", 2)
  BY <1>11 DEF VenueColumns, HlWorth, BnWorth
<1>13. p.exchange = Or0(m["hl_deposit_usdc"]) + Or0(m["binance_collateral_usdc"]) + Or0(m["deribit_equity_usd"])
  BY DEF Components
<1>14. NavUsd(m, price) = p.native + p.collateral - p.loan + p.spark + p.vaults + p.exchange
  BY DEF NavUsd
<1> HIDE DEF p, price, m, F
<1>15. HlUpnl(b) + BnUpnl(b) = Units(b, "reverse", 4) - Units(b, "basis", 4)
  BY DEF HlUpnl, BnUpnl, HedgeSize, Units
<1>16. HlUpnl(b) \in Int /\ BnUpnl(b) \in Int
  BY <1>6, PartsAreInt
<1>17. \A x, n : n \in Int => Units(b, x, n) \in Int
  BY DEF Units
<1>18. p.exchange = Units(b, "hl", 20) + Units(b, "classic", 7) + Units(b, "binance", 9)
                    + Units(b, "um", 3) + Units(b, "deribit", 2)
                    + Units(b, "reverse", 4) - Units(b, "basis", 4)
  <2>1. None \notin Int
    BY ReadersAssumption
  <2>2. \A x \in Int : Or0(x) = x
    BY <2>1 DEF Or0
  <2>3. p.exchange = (Units(b, "hl", 20) + Units(b, "classic", 7) + HlUpnl(b))
                     + (Units(b, "binance", 9) + (Units(b, "um", 3) + BnUpnl(b))) + Units(b, "deribit", 2)
    BY <1>12, <1>13, <1>16, <1>17, <2>2
  <2>4. QED
    BY <1>15, <1>16, <1>17, <2>3
<1>19. /\ 2 * Units(b, "spark", 5) = Units(b, "spark", 10) /\ 2 * Units(b, "sparkEth", 4) = Units(b, "sparkEth", 8)
       /\ 2 * Units(b, "vault", 3) = Units(b, "vault", 6)
       /\ Units(b, "loan", 20) - Units(b, "loan", 8) = Units(b, "loan", 12)
  BY DEF Units
<1>20. BookWorth(b) = Units(b, "reserve", 6) + Units(b, "stash", 5) + Units(b, "loan", 12)
                      + Units(b, "lend", 4) + Units(b, "spark", 10) + Units(b, "sparkEth", 8)
                      + Units(b, "vault", 6) + Units(b, "hl", 20) + Units(b, "binance", 9)
                      + Units(b, "deribit", 2) - Units(b, "basis", 4) + Units(b, "reverse", 4)
                      + Units(b, "classic", 7) + Units(b, "um", 3)
  BY <1>6, BookWorthByName
<1>21. NavUsd(m, price) = BookWorth(b)
  BY <1>7, <1>8, <1>9, <1>10, <1>14, <1>17, <1>18, <1>19, <1>20
<1>22. QED
  BY <1>21 DEF m, price

\* Each part of the row is at most the positions it was read of, and the loan
\* is missing only when its collateral is.
LEMMA ReadsFollow == CaptureInv => ReadsNeverInvent
<1> SUFFICES ASSUME CaptureInv, NEW s \in snaps
             PROVE  LET c == Components(s.row, SegmentPrice(s.row))
                        there == (s.first \cap {"reserve", "stash"})
                                 \cup (s.chain \cap {"loan", "lend", "spark", "sparkEth", "vault"})
                    IN c.native + c.collateral - c.loan + c.spark + c.vaults <= BookWorth(there)
  BY DEF ReadsNeverInvent
<1>1. SnapOk(s, clock)
  BY DEF CaptureInv
<1> DEFINE f == s.first
           b == s.chain
           F == s.failed
           price == SegmentPrice(s.row)
           c == Components(s.row, price)
           there == (f \cap {"reserve", "stash"}) \cup (b \cap {"loan", "lend", "spark", "sparkEth", "vault"})
<1>2. price \in Int \cup {None}
  BY <1>1, StoredRow, PriceIs
<1>3. f \in SUBSET Positions /\ b \in SUBSET Positions
  BY <1>1, StoredRow
<1> HIDE DEF price
<1>4. /\ c.native = IF CustodyAnswers(F) THEN NativeTold(f, F) ELSE 0
      /\ c.collateral = IF AaveSilent(F) THEN 0 ELSE Lent(b, F, "0x1") + Lent(b, F, "0x2")
      /\ c.loan = IF AaveSilent(F) THEN 0 ELSE Owed(b, F, "0x1")
      /\ c.spark = (IF SusdsSilent(F, "arb") THEN 0 ELSE Rate(F) * Saved(b, F, "arb"))
                   + (IF SusdsSilent(F, "eth") THEN 0 ELSE Rate(F) * Saved(b, F, "eth"))
      /\ c.vaults = IF VaultSilent(b, F) THEN 0 ELSE 2 * SharesRead(b, F)
  BY <1>1, <1>2, RowParts
<1> HIDE DEF c, F
<1>5. NativeTold(f, F) = (IF "reserve" \in f /\ EthPriceKnown(F) THEN 6 ELSE 0)
                         + (IF "stash" \in f /\ <<"ticker", "XLM">> \notin F THEN 5 ELSE 0)
  BY <1>3, NativeToldIs
<1>6. /\ "reserve" \in there <=> "reserve" \in f
      /\ "stash" \in there <=> "stash" \in f
      /\ \A p \in {"loan", "lend", "spark", "sparkEth", "vault"} : p \in there <=> p \in b
      /\ \A p \in {"hl", "classic", "binance", "um", "deribit", "basis", "reverse"} : p \notin there
      /\ there \in SUBSET Positions
  BY <1>3 DEF Positions
<1> HIDE DEF there
<1>7. BookWorth(there) = Units(f, "reserve", 6) + Units(f, "stash", 5) + Units(b, "loan", 12)
                         + Units(b, "lend", 4) + Units(b, "spark", 10) + Units(b, "sparkEth", 8)
                         + Units(b, "vault", 6)
  <2>1. BookWorth(there) = Units(there, "reserve", 6) + Units(there, "stash", 5) + Units(there, "loan", 12)
                           + Units(there, "lend", 4) + Units(there, "spark", 10) + Units(there, "sparkEth", 8)
                           + Units(there, "vault", 6) + Units(there, "hl", 20) + Units(there, "binance", 9)
                           + Units(there, "deribit", 2) - Units(there, "basis", 4) + Units(there, "reverse", 4)
                           + Units(there, "classic", 7) + Units(there, "um", 3)
    BY <1>6, BookWorthByName
  <2>2. QED
    BY <1>6, <2>1 DEF Units
<1>8. c.native \in Int /\ c.native <= Units(f, "reserve", 6) + Units(f, "stash", 5)
  BY <1>4, <1>5 DEF Units
<1>9. c.collateral - c.loan \in Int /\ c.collateral - c.loan <= Units(b, "loan", 12) + Units(b, "lend", 4)
      /\ c.collateral \in Int /\ c.loan \in Int
  <2>1. CASE AaveSilent(F)
    BY <1>4, <2>1 DEF Units
  <2>2. CASE ~AaveSilent(F)
    BY <1>4, <2>2 DEF Lent, Owed, Units
  <2>3. QED
    BY <2>1, <2>2
<1>10. c.spark \in Int /\ c.spark <= Units(b, "spark", 10) + Units(b, "sparkEth", 8)
  <2>1. Rate(F) * Saved(b, F, "arb") \in 0..Units(b, "spark", 10)
    BY DEF Rate, Saved, Units
  <2>2. Rate(F) * Saved(b, F, "eth") \in 0..Units(b, "sparkEth", 8)
    BY DEF Rate, Saved, Units
  <2>3. Units(b, "spark", 10) \in Nat /\ Units(b, "sparkEth", 8) \in Nat
    BY DEF Units
  <2>4. QED
    BY <1>4, <2>1, <2>2, <2>3
<1>11. c.vaults \in Int /\ c.vaults <= Units(b, "vault", 6)
  BY <1>4 DEF SharesRead, Units
<1>12. c.native + c.collateral - c.loan + c.spark + c.vaults <= BookWorth(there)
  <2>1. \A x, p, n : n \in Int => Units(x, p, n) \in Int
    BY DEF Units
  <2>2. QED
    BY <1>7, <1>8, <1>9, <1>10, <1>11, <2>1
<1>13. QED
  BY <1>12 DEF c, there, price

-----------------------------------------------------------------------------
(* What is shown of many rows. *)

\* Among stored rows there is one newest.
LEMMA NewestIs ==
    ASSUME CaptureInv, NEW S \in SUBSET snaps, S # {}
    PROVE  /\ Newest(S) \in S /\ \A o \in S : o.t <= Newest(S).t
           /\ \A s \in S : (\A o \in S : o.t <= s.t) => s = Newest(S)
<1>1. clock \in Nat /\ \A s \in snaps : s.t \in 1..clock
  BY CaptureAssumption DEF CaptureInv, SnapOk
<1>2. \A s, o \in snaps : s.t = o.t => s = o
  BY DEF CaptureInv, ClocksApart
<1> DEFINE ages == {clock - s.t : s \in S}
<1>3. ages \subseteq Nat /\ ages # {}
  BY <1>1
<1>4. Min(ages) \in ages /\ \A y \in ages : Min(ages) <= y
  <2> HIDE DEF ages
  <2>1. QED
    BY <1>3, MinOfNaturals
<1>5. PICK n \in S : Min(ages) = clock - n.t
  BY <1>4
<1>6. \A o \in S : clock - n.t <= clock - o.t
  BY <1>4, <1>5
<1>7. \A o \in S : o.t \in Int
  BY <1>1
<1>8. \A o \in S : o.t <= n.t
  BY <1>1, <1>6, <1>7
<1>9. Newest(S) \in S /\ \A o \in S : o.t <= Newest(S).t
  BY <1>8 DEF Newest
<1>10. ASSUME NEW s \in S, \A o \in S : o.t <= s.t
       PROVE  s = Newest(S)
  <2>1. s.t <= Newest(S).t /\ Newest(S).t <= s.t
    BY <1>9, <1>10
  <2>2. s.t = Newest(S).t
    BY <1>7, <1>9, <2>1
  <2>3. QED
    BY <1>2, <1>9, <2>2
<1>11. QED
  BY <1>9, <1>10

\* What is shown of a field: the newest row that has one.
LEMMA ShownIs ==
    ASSUME CaptureInv, NEW f \in Fields
    PROVE  /\ Known(snaps, f) => /\ Origin(snaps, f) \in snaps
                                 /\ Origin(snaps, f).row[f] # None
                                 /\ Merged[f] = Origin(snaps, f).row[f]
           /\ ~Known(snaps, f) => Merged[f] = None
           /\ \A s \in snaps : s.row[f] # None /\ (\A o \in snaps : o.row[f] # None => o.t <= s.t)
                => Known(snaps, f) /\ Origin(snaps, f) = s /\ Merged[f] = s.row[f]
<1> DEFINE S == {s \in snaps : s.row[f] # None}
<1>1. Merged[f] = IF Known(snaps, f) THEN Origin(snaps, f).row[f] ELSE None
  BY DEF Merged, MergeWithHistory
<1>2. Origin(snaps, f) = Newest(S)
  BY DEF Origin
<1>3. Known(snaps, f) <=> S # {}
  BY DEF Known
<1>4. S # {} => /\ Newest(S) \in S
                /\ \A s \in S : (\A o \in S : o.t <= s.t) => s = Newest(S)
  <2>1. S \in SUBSET snaps
    OBVIOUS
  <2> HIDE DEF S
  <2>2. QED
    BY <2>1, NewestIs
<1>5. ASSUME NEW s \in snaps, s.row[f] # None, \A o \in snaps : o.row[f] # None => o.t <= s.t
      PROVE  Known(snaps, f) /\ Origin(snaps, f) = s /\ Merged[f] = s.row[f]
  <2>1. s \in S /\ \A o \in S : o.t <= s.t
    BY <1>5
  <2> HIDE DEF S
  <2>2. QED
    BY <1>1, <1>2, <1>3, <1>4, <2>1
<1>6. QED
  BY <1>1, <1>2, <1>3, <1>4, <1>5

-----------------------------------------------------------------------------
(* What a source told a cycle, by the row the cycle stored. *)

\* The column by which one sees whether a source answered a cycle.
ColumnOf(source) ==
    CASE source = "custody" -> "bitgo_holdings_json"
      [] source = "Aave" -> "aave_supply_usd"
      [] source = "arb" -> "susds_arbi_balance"
      [] source = "eth" -> "susds_eth_balance"
      [] source = "vaults" -> "vault_usd"
      [] source = "Hyperliquid" -> "hl_deposit_usdc"
      [] source = "Binance" -> "binance_collateral_usdc"
      [] source = "Deribit" -> "deribit_equity_usd"
      [] source = "prices" -> "eth_price"

\* Custody told a cycle something when the row has wallets, and what they add
\* up to; they are none when it was found empty.
LEMMA CustodyTold ==
    ASSUME NEW c, NEW s, SnapOk(s, c)
    PROVE  LET h == s.row["bitgo_holdings_json"]
           IN /\ Told(s, "custody") = None <=> h = None
              /\ h # None => /\ DOMAIN h = {} <=> Emptied(s)
                             /\ SumFunction([w \in DOMAIN h |-> TotalUsd(h[w])]) = Told(s, "custody")
<1> DEFINE T == {p \in s.first \cap {"reserve", "stash"} :
                   IF p = "stash" THEN Ok(s, <<"ticker", "XLM">>)
                   ELSE Ok(s, <<"quotes">>) \/ Ok(s, <<"ticker", "ETH">>)}
<1>1. Told(s, "custody") = IF CustodyAnswers(s.failed) THEN NativeTold(s.first, s.failed) ELSE None
  <2>1. Told(s, "custody") = IF ~CustodyRead(s) THEN None ELSE BookWorth(T)
    BY DEF Told, Chains
  <2>2. NativeTold(s.first, s.failed) = BookWorth(T)
    <3> DEFINE U == {p \in s.first \cap {"reserve", "stash"} :
                       IF p = "stash" THEN <<"ticker", "XLM">> \notin s.failed
                       ELSE <<"quotes">> \notin s.failed \/ <<"ticker", "ETH">> \notin s.failed}
    <3>1. NativeTold(s.first, s.failed) = BookWorth(U)
      BY DEF NativeTold
    <3>2. T = U
      BY DEF Ok
    <3>3. QED
      BY <3>1, <3>2
  <2>3. CustodyRead(s) <=> CustodyAnswers(s.failed)
    BY DEF CustodyRead, CustodyAnswers, Ok
  <2> HIDE DEF T
  <2>4. QED
    BY <2>1, <2>2, <2>3
<1> HIDE DEF T
<1>2. CustodyColumn(s.row, s.first, s.failed) /\ s.first \in SUBSET Positions
  BY StoredRow
<1>3. NativeTold(s.first, s.failed) # None
  BY <1>2, PartsAreInt, ReadersAssumption
<1>4. Emptied(s) <=> CustodyAnswers(s.failed) /\ s.first \cap {"reserve", "stash", "loan"} = {}
  BY DEF Emptied, CustodyRead, CustodyAnswers, Ok
<1>5. QED
  BY <1>1, <1>2, <1>3, <1>4 DEF CustodyColumn

\* Aave told a cycle something when the row has its columns, all of them.
LEMMA AaveSays ==
    ASSUME NEW c, NEW s, SnapOk(s, c)
    PROVE  /\ \A f \in {"aave_supply_usd", "aave_borrow_usdc", "aave_net_usd"} :
                Told(s, "Aave") = None <=> s.row[f] = None
           /\ Told(s, "Aave") # None =>
                Told(s, "Aave") = Or0(s.row["aave_supply_usd"]) - Or0(s.row["aave_borrow_usdc"])
           /\ s.row["aave_supply_usd"] = None => s.row["aave_supply_amount"] = None
<1> DEFINE F == s.failed
           b == s.chain
<1>1. Told(s, "Aave") = IF AaveSilent(F) THEN None ELSE AaveTold(b, F)
  <2> DEFINE T == {p \in s.chain \cap {"loan", "lend"} :
                     Ok(s, IF p = "loan" THEN <<"aave", "0x1", "core">> ELSE <<"aave", "0x2", "prime">>)}
  <2>1. Told(s, "Aave") = IF ~CustodyRead(s) \/ AaveCalls \subseteq s.failed THEN None ELSE BookWorth(T)
    BY DEF Told, Chains
  <2>2. AaveTold(b, F) = BookWorth(T)
    <3> DEFINE U == {p \in s.chain \cap {"loan", "lend"} :
                       (IF p = "loan" THEN <<"aave", "0x1", "core">> ELSE <<"aave", "0x2", "prime">>)
                       \notin s.failed}
    <3>1. AaveTold(b, F) = BookWorth(U)
      BY DEF AaveTold
    <3>2. T = U
      BY DEF Ok
    <3>3. QED
      BY <3>1, <3>2
  <2>3. AaveSilent(F) <=> ~CustodyRead(s) \/ AaveCalls \subseteq s.failed
    BY DEF AaveSilent, CustodyRead, CustodyAnswers, Ok
  <2> HIDE DEF T
  <2>4. QED
    BY <2>1, <2>2, <2>3
<1>2. AaveColumn(s.row, b, F) /\ b \in SUBSET Positions
  BY StoredRow
<1>3. AaveTold(b, F) = Lent(b, F, "0x1") + Lent(b, F, "0x2") - Owed(b, F, "0x1")
  BY <1>2, AaveToldIs
<1>4. Lent(b, F, "0x1") \in Int /\ Lent(b, F, "0x2") \in Int /\ Owed(b, F, "0x1") \in Int
  BY <1>2, PartsAreInt
<1>5. None \notin Int
  BY ReadersAssumption
<1> HIDE DEF F, b
<1>6. CASE AaveSilent(F)
  BY <1>1, <1>2, <1>6 DEF AaveColumn
<1>7. CASE ~AaveSilent(F)
  <2>1. /\ s.row["aave_supply_usd"] = Lent(b, F, "0x1") + Lent(b, F, "0x2")
        /\ s.row["aave_borrow_usdc"] = Owed(b, F, "0x1")
        /\ s.row["aave_net_usd"] # None
    BY <1>2, <1>7 DEF AaveColumn
  <2>2. s.row["aave_supply_usd"] \in Int /\ s.row["aave_borrow_usdc"] \in Int
    BY <1>4, <2>1
  <2>3. Told(s, "Aave") = s.row["aave_supply_usd"] - s.row["aave_borrow_usdc"]
    BY <1>1, <1>3, <1>4, <1>7, <2>1
  <2>4. Told(s, "Aave") \in Int
    BY <2>2, <2>3
  <2>5. s.row["aave_supply_usd"] # None /\ s.row["aave_borrow_usdc"] # None /\ Told(s, "Aave") # None
    BY <1>5, <2>2, <2>4
  <2>6. QED
    BY <2>1, <2>3, <2>5 DEF Or0
<1>8. QED
  BY <1>6, <1>7

\* Spark told a cycle what the row has for that chain.
LEMMA SavingsTold ==
    ASSUME NEW c, NEW s, SnapOk(s, c), NEW source \in Chains
    PROVE  /\ Told(s, source) = None <=> s.row[ColumnOf(source)] = None
           /\ Told(s, source) = s.row[ColumnOf(source)]
<1> DEFINE F == s.failed
           b == s.chain
           T == {p \in b : IF source = "arb" THEN p = "spark" /\ <<"susds", "arb", "0x1">> \notin F
                           ELSE p = "sparkEth" /\ <<"susds", "eth", "0x2">> \notin F}
           d == IF <<"rate">> \notin F THEN 1 ELSE 2
<1>1. Told(s, source) = IF SusdsSilent(F, source) THEN None ELSE BookWorth(T) \div d
  BY DEF Told, Chains, CustodyRead, CustodyAnswers, SusdsSilent, Ok
<1>2. /\ SusdsColumn(s.row, "susds_arbi_balance", b, F, "arb")
      /\ SusdsColumn(s.row, "susds_eth_balance", b, F, "eth") /\ b \in SUBSET Positions
  BY StoredRow
<1>3. s.row[ColumnOf(source)] = IF SusdsSilent(F, source) THEN None ELSE Rate(F) * Saved(b, F, source)
  BY <1>2 DEF SusdsColumn, ColumnOf, Chains
<1>4. BookWorth(T) \div d = Rate(F) * Saved(b, F, source)
  <2>1. CASE source = "arb"
    <3>1. T \subseteq {"spark", "sparkEth"} /\ "sparkEth" \notin T
          /\ ("spark" \in T <=> "spark" \in b /\ <<"susds", "arb", "0x1">> \notin F)
      BY <2>1
    <3>2. "spark" \in Positions /\ "sparkEth" \in Positions /\ Worth("spark") = 10
      BY DEF Positions, Worth
    <3> HIDE DEF T
    <3>3. BookWorth(T) = (IF "spark" \in T THEN Worth("spark") ELSE 0)
                         + (IF "sparkEth" \in T THEN Worth("sparkEth") ELSE 0)
      BY <3>1, <3>2, BookWorthOfTwo
    <3>4. BookWorth(T) = IF "spark" \in b /\ <<"susds", "arb", "0x1">> \notin F THEN 10 ELSE 0
      BY <3>1, <3>2, <3>3
    <3>5. QED
      BY <2>1, <3>4 DEF Rate, Saved, Units
  <2>2. CASE source = "eth"
    <3>1. T \subseteq {"spark", "sparkEth"} /\ "spark" \notin T
          /\ ("sparkEth" \in T <=> "sparkEth" \in b /\ <<"susds", "eth", "0x2">> \notin F)
      BY <2>2
    <3>2. "spark" \in Positions /\ "sparkEth" \in Positions /\ Worth("sparkEth") = 8
      BY DEF Positions, Worth
    <3> HIDE DEF T
    <3>3. BookWorth(T) = (IF "spark" \in T THEN Worth("spark") ELSE 0)
                         + (IF "sparkEth" \in T THEN Worth("sparkEth") ELSE 0)
      BY <3>1, <3>2, BookWorthOfTwo
    <3>4. BookWorth(T) = IF "sparkEth" \in b /\ <<"susds", "eth", "0x2">> \notin F THEN 8 ELSE 0
      BY <3>1, <3>2, <3>3
    <3>5. QED
      BY <2>2, <3>4 DEF Rate, Saved, Units
  <2>3. QED
    BY <2>1, <2>2 DEF Chains
<1>5. QED
  BY <1>1, <1>3, <1>4

\* The vaults told a cycle what the row has, by position and in one sum.
LEMMA VaultsTold ==
    ASSUME NEW c, NEW s, SnapOk(s, c)
    PROVE  /\ Told(s, "vaults") = s.row["vault_usd"]
           /\ s.row["vault_usd"] = None <=> s.row["vault_positions_json"] = None
           /\ s.row["vault_usd"] # None => TotalUsd(s.row["vault_positions_json"]) = s.row["vault_usd"]
                                           /\ s.row["vault_usd"] \in Int
<1> DEFINE F == s.failed
           b == s.chain
           seen == b \cap {p \in {"vault"} : <<"shares", "usdc", "0x1">> \notin F}
<1>1. Told(s, "vaults") = IF \/ ~CustodyAnswers(F)
                             \/ VaultCalls \subseteq F
                             \/ seen # {} /\ <<"convert", "usdc">> \in F
                          THEN None ELSE BookWorth(seen)
  BY DEF Told, CustodyRead, CustodyAnswers, Ok, Chains
<1>2. VaultColumn(s.row, b, F) /\ b \in SUBSET Positions
  BY StoredRow
<1>3. /\ seen \subseteq {"vault", "hl"} /\ "hl" \notin seen
      /\ "vault" \in seen <=> "vault" \in b /\ <<"shares", "usdc", "0x1">> \notin F
  OBVIOUS
<1>4. "vault" \in Positions /\ "hl" \in Positions /\ Worth("vault") = 6
  BY DEF Positions, Worth
<1> HIDE DEF seen, F, b
<1>5. BookWorth(seen) = (IF "vault" \in seen THEN Worth("vault") ELSE 0)
                        + (IF "hl" \in seen THEN Worth("hl") ELSE 0)
  BY <1>3, <1>4, BookWorthOfTwo
<1>6. BookWorth(seen) = IF "vault" \in seen THEN 6 ELSE 0
  BY <1>3, <1>4, <1>5
<1>7. seen # {} <=> "vault" \in seen
  BY <1>3
<1>8. SharesRead(b, F) = IF "vault" \in seen THEN 3 ELSE 0
  BY <1>3 DEF SharesRead, Units
<1>9. Told(s, "vaults") = IF VaultSilent(b, F) THEN None ELSE 2 * SharesRead(b, F)
  BY <1>1, <1>6, <1>7, <1>8 DEF VaultSilent, VaultsSilent
<1>10. None \notin Int /\ 2 * SharesRead(b, F) \in Int
  BY <1>8, ReadersAssumption
<1>11. QED
  BY <1>2, <1>9, <1>10 DEF VaultColumn

\* A venue told a cycle what the row has of it.
LEMMA VenuesTold ==
    ASSUME NEW c, NEW s, SnapOk(s, c), NEW source \in Venues
    PROVE  /\ Told(s, source) = s.row[ColumnOf(source)]
           /\ s.row[ColumnOf(source)] \in Int \cup {None}
<1>1. VenueColumns(s.row, s.first, s.failed) /\ s.first \in SUBSET Positions
  BY StoredRow
<1>2. HlUpnl(s.first) \in Int /\ BnUpnl(s.first) \in Int
  BY <1>1, PartsAreInt
<1>3. CASE source = "Hyperliquid"
  BY <1>1, <1>2, <1>3 DEF VenueColumns, HlWorth, Told, ColumnOf, Ok, Units, Chains
<1>4. CASE source = "Binance"
  BY <1>1, <1>2, <1>4 DEF VenueColumns, BnWorth, Told, ColumnOf, Ok, Units, Chains
<1>5. CASE source = "Deribit"
  BY <1>1, <1>5 DEF VenueColumns, Told, ColumnOf, Ok, Units, Chains
<1>6. QED
  BY <1>3, <1>4, <1>5 DEF Venues

\* The quotes told a cycle both prices or neither.
LEMMA PricesTold ==
    ASSUME NEW c, NEW s, SnapOk(s, c)
    PROVE  /\ Told(s, "prices") = s.row["eth_price"]
           /\ Told(s, "prices") = None <=> s.row["btc_price"] = None
<1>1. Told(s, "prices") = IF <<"quotes">> \in s.failed THEN None ELSE 2
  BY DEF Told, Ok, Chains, Quotes
<1>2. /\ s.row["btc_price"] = IF <<"quotes">> \in s.failed THEN None ELSE 30
      /\ s.row["eth_price"] = IF <<"quotes">> \in s.failed THEN None ELSE 2
  BY StoredRow
<1>3. None # 30 /\ None # 2
  BY ReadersAssumption
<1>4. QED
  BY <1>1, <1>2, <1>3

\* A source told a cycle nothing exactly when its column is empty.
LEMMA HeardIs ==
    ASSUME NEW c, NEW s, SnapOk(s, c), NEW source \in Sources
    PROVE  Told(s, source) = None <=> s.row[ColumnOf(source)] = None
<1>1. CASE source = "custody"
  BY <1>1, CustodyTold DEF ColumnOf
<1>2. CASE source = "Aave"
  BY <1>2, AaveSays DEF ColumnOf
<1>3. CASE source = "vaults"
  BY <1>3, VaultsTold DEF ColumnOf
<1>4. CASE source \in Chains
  BY <1>4, SavingsTold
<1>5. CASE source \in Venues
  BY <1>5, VenuesTold
<1>6. CASE source = "prices"
  BY <1>6, PricesTold DEF ColumnOf
<1>7. QED
  BY <1>1, <1>2, <1>3, <1>4, <1>5, <1>6 DEF Sources

\* A field that follows a source is shown of its last answer.
LEMMA LastAnswerShown ==
    ASSUME CaptureInv, NEW source \in Sources, NEW s \in LastTold(source), NEW f \in Fields,
           \A o \in snaps : Told(o, source) = None <=> o.row[f] = None
    PROVE  /\ s \in snaps /\ SnapOk(s, clock) /\ Told(s, source) # None /\ s.row[f] # None
           /\ Known(snaps, f) /\ Origin(snaps, f) = s /\ Merged[f] = s.row[f]
<1>1. s \in snaps /\ Told(s, source) # None /\ \A o \in snaps : Told(o, source) # None => o.t <= s.t
  BY DEF LastTold
<1>2. s.row[f] # None /\ \A o \in snaps : o.row[f] # None => o.t <= s.t
  BY <1>1
<1>3. SnapOk(s, clock)
  BY <1>1 DEF CaptureInv
<1>4. QED
  BY <1>1, <1>2, <1>3, ShownIs

\* The columns the dashboard reads are columns of the row.
LEMMA ColumnsAreFields ==
    /\ \A source \in Sources : ColumnOf(source) \in Fields
    /\ {"aave_borrow_usdc", "aave_net_usd", "wallet_native_amount", "wallet_balance_usd"} \subseteq Fields
BY DEF ColumnOf, Sources, Chains, Venues, Fields

\* Every source's columns are shown of the newest cycle it answered.
LEMMA ShownFollows == CaptureInv => ShownIsLastAnswer
<1> DEFINE m == Merged
           price == SegmentPrice(m)
           c == Components(m, price)
<1> SUFFICES ASSUME CaptureInv, NEW source \in Sources, NEW s \in LastTold(source),
                    ~(source = "custody" /\ Emptied(s))
             PROVE  Counted(m, c, source) = Told(s, source)
  BY DEF ShownIsLastAnswer
<1>1. \A o \in snaps : SnapOk(o, clock)
  BY DEF CaptureInv
<1>2. \A o \in snaps : Told(o, source) = None <=> o.row[ColumnOf(source)] = None
  BY <1>1, HeardIs
<1>3. ColumnOf(source) \in Fields
  BY ColumnsAreFields
<1>4. /\ s \in snaps /\ SnapOk(s, clock) /\ Told(s, source) # None
      /\ m[ColumnOf(source)] = s.row[ColumnOf(source)] /\ s.row[ColumnOf(source)] # None
  BY <1>2, <1>3, LastAnswerShown
<1>5. CASE source = "custody"
  <2> DEFINE h == s.row["bitgo_holdings_json"]
  <2>1. m["bitgo_holdings_json"] = h /\ h # None
    BY <1>4, <1>5 DEF ColumnOf
  <2>2. DOMAIN h # {} /\ SumFunction([w \in DOMAIN h |-> TotalUsd(h[w])]) = Told(s, source)
    BY <1>4, <1>5, <2>1, CustodyTold
  <2> HIDE DEF h, m, price
  <2>3. c.native = SumFunction([w \in DOMAIN h |-> TotalUsd(h[w])])
    BY <2>1, <2>2 DEF Components
  <2>4. QED
    BY <1>5, <2>2, <2>3 DEF Counted
<1>6. CASE source = "Aave"
  <2>1. \A o \in snaps : Told(o, source) = None <=> o.row["aave_borrow_usdc"] = None
    BY <1>1, <1>6, AaveSays
  <2>2. "aave_borrow_usdc" \in Fields
    BY DEF Fields
  <2>3. m["aave_borrow_usdc"] = s.row["aave_borrow_usdc"]
    BY <2>1, <2>2, LastAnswerShown
  <2>4. m["aave_supply_usd"] = s.row["aave_supply_usd"]
    BY <1>4, <1>6 DEF ColumnOf
  <2>5. Told(s, source) = Or0(s.row["aave_supply_usd"]) - Or0(s.row["aave_borrow_usdc"])
    BY <1>4, <1>6, AaveSays
  <2> HIDE DEF m, price
  <2>6. c.collateral = Or0(m["aave_supply_usd"]) /\ c.loan = Or0(m["aave_borrow_usdc"])
    BY DEF Components
  <2>7. QED
    BY <1>6, <2>3, <2>4, <2>5, <2>6 DEF Counted
<1>7. CASE source \in Chains
  <2>1. Told(s, source) = s.row[ColumnOf(source)]
    BY <1>4, <1>7, SavingsTold
  <2> HIDE DEF m, price
  <2>2. Counted(m, c, source) = Or0(m[ColumnOf(source)])
    BY <1>7 DEF Counted, ColumnOf, Chains
  <2>3. QED
    BY <1>4, <2>1, <2>2 DEF Or0
<1>8. CASE source = "vaults"
  <2>1. Told(s, source) = s.row[ColumnOf(source)]
    BY <1>4, <1>8, VaultsTold DEF ColumnOf
  <2> HIDE DEF m, price
  <2>2. Counted(m, c, source) = Or0(m[ColumnOf(source)])
    BY <1>8 DEF Counted, Components, ColumnOf
  <2>3. QED
    BY <1>4, <2>1, <2>2 DEF Or0
<1>9. CASE source \in Venues
  <2>1. Told(s, source) = s.row[ColumnOf(source)]
    BY <1>4, <1>9, VenuesTold
  <2> HIDE DEF m, price
  <2>2. Counted(m, c, source) = Or0(m[ColumnOf(source)])
    BY <1>9 DEF Counted, ColumnOf, Venues
  <2>3. QED
    BY <1>4, <2>1, <2>2 DEF Or0
<1>10. CASE source = "prices"
  <2>1. Told(s, source) = s.row["eth_price"]
    BY <1>4, <1>10, PricesTold
  <2> HIDE DEF m, price
  <2>2. Counted(m, c, source) = m["eth_price"]
    BY <1>10 DEF Counted
  <2>3. QED
    BY <1>4, <1>10, <2>1, <2>2 DEF ColumnOf
<1>11. QED
  BY <1>5, <1>6, <1>7, <1>8, <1>9, <1>10 DEF Sources

-----------------------------------------------------------------------------
(* What is announced as old. *)

\* The fields announced under a label.
AnnouncedOf(label) == {f \in BackFilled(snaps) \cap DOMAIN SourceFields : SourceFields[f] = label}

\* A label is announced when a field under it is back-filled, with the oldest of
\* the timestamps those fields come from.
LEMMA MarkedIs ==
    ASSUME CaptureInv, NEW label
    PROVE  LET marked == CarriedForward(snaps)
           IN /\ label \in DOMAIN marked <=> AnnouncedOf(label) # {}
              /\ AnnouncedOf(label) # {} =>
                   /\ \A f \in AnnouncedOf(label) : marked[label] <= Origin(snaps, f).t
                   /\ \E f \in AnnouncedOf(label) : marked[label] = Origin(snaps, f).t
<1> DEFINE marked == CarriedForward(snaps)
           announced == BackFilled(snaps) \cap DOMAIN SourceFields
           times == {Origin(snaps, f).t : f \in AnnouncedOf(label)}
<1>1. marked = [l \in {SourceFields[f] : f \in announced} |->
                  Min({Origin(snaps, f).t : f \in {f \in announced : SourceFields[f] = l}})]
  BY DEF CarriedForward
<1>2. AnnouncedOf(label) = {f \in announced : SourceFields[f] = label}
  BY DEF AnnouncedOf
<1>3. label \in DOMAIN marked <=> AnnouncedOf(label) # {}
  BY <1>1, <1>2
<1>4. label \in DOMAIN marked => marked[label] = Min(times)
  BY <1>1, <1>2
<1>5. \A f \in AnnouncedOf(label) : Origin(snaps, f).t \in Nat
  <2> SUFFICES ASSUME NEW f \in AnnouncedOf(label)
               PROVE  Origin(snaps, f).t \in Nat
    OBVIOUS
  <2>1. f \in Fields /\ Known(snaps, f)
    BY DEF AnnouncedOf, BackFilled
  <2>2. Origin(snaps, f) \in snaps
    BY <2>1, ShownIs
  <2>3. Origin(snaps, f).t \in 1..clock /\ clock \in Nat
    BY <2>2, CaptureAssumption DEF CaptureInv, SnapOk
  <2>4. QED
    BY <2>3
<1>6. ASSUME AnnouncedOf(label) # {}
      PROVE  Min(times) \in times /\ \A y \in times : Min(times) <= y
  <2>1. times \subseteq Nat /\ times # {}
    BY <1>5, <1>6
  <2> HIDE DEF times
  <2>2. QED
    BY <2>1, MinOfNaturals
<1> HIDE DEF marked
<1>7. QED
  BY <1>3, <1>4, <1>6 DEF marked

\* The fields under a label are empty together, or else never filled: but for
\* custody's, when the segment's coin or its price was missing.
LEMMA OwnColumns ==
    ASSUME CaptureInv, NEW source \in Labels, NEW s \in LastTold(source), Complete(s, source),
           NEW f \in DOMAIN SourceFields, SourceFields[f] = source
    PROVE  IF \E o \in snaps : o.row[f] # None
             THEN s.row[f] # None /\ \A o \in snaps : o.row[f] # None => o.t <= s.t
             ELSE TRUE
<1>1. \A o \in snaps : SnapOk(o, clock)
  BY DEF CaptureInv
<1>2. s \in snaps /\ Told(s, source) # None /\ \A o \in snaps : Told(o, source) # None => o.t <= s.t
  BY DEF LastTold
<1>3. CASE \A o \in snaps : Told(o, source) = None <=> o.row[f] = None
  BY <1>2, <1>3
<1>4. CASE source \in Venues
  <2>1. f = ColumnOf(source)
    BY <1>4 DEF SourceFields, ColumnOf, Venues
  <2>2. QED
    BY <1>1, <1>3, <1>4, <2>1, VenuesTold
<1>5. CASE source = "Aave"
  <2>1. f \in {"aave_supply_usd", "aave_net_usd"}
    BY <1>5 DEF SourceFields
  <2>2. QED
    BY <1>1, <1>3, <1>5, <2>1, AaveSays
<1>6. CASE source = "prices"
  <2>1. f \in {"btc_price", "eth_price"}
    BY <1>6 DEF SourceFields
  <2>2. QED
    BY <1>1, <1>3, <1>6, <2>1, PricesTold
<1>7. CASE source = "custody"
  <2>1. f \in {"bitgo_holdings_json", "wallet_native_amount", "wallet_balance_usd"}
    BY <1>7 DEF SourceFields
  <2>2. ASSUME NEW o \in snaps
        PROVE  Told(o, source) = None <=> ~CustodyAnswers(o.failed)
    <3>1. CustodyColumn(o.row, o.first, o.failed)
      BY <1>1, StoredRow
    <3>2. CustodyAnswers(o.failed) <=> o.row["bitgo_holdings_json"] # None
      BY <3>1 DEF CustodyColumn
    <3>3. QED
      BY <1>1, <1>7, <3>2, CustodyTold
  <2>3. CASE f = "bitgo_holdings_json"
    BY <1>1, <1>3, <1>7, <2>3, CustodyTold
  <2>4. CASE f # "bitgo_holdings_json"
    <3>1. \A o \in snaps : CoinColumns(o.row, o.first, o.failed)
      BY <1>1, StoredRow
    <3>2. CASE BaseAsset # "ETH"
      BY <2>1, <2>4, <3>1, <3>2 DEF CoinColumns
    <3>3. CASE BaseAsset = "ETH"
      <4>1. "reserve" \in s.first /\ EthPriceKnown(s.failed) /\ CustodyAnswers(s.failed)
        BY <1>2, <1>7, <2>2, <3>3 DEF Complete, EthPriceKnown, Ok
      <4>2. s.row[f] # None
        BY <1>2, <2>1, <2>4, <3>1, <3>3, <4>1 DEF CoinColumns
      <4>3. \A o \in snaps : o.row[f] # None => Told(o, source) # None
        BY <2>1, <2>2, <2>4, <3>1 DEF CoinColumns
      <4>4. QED
        BY <1>2, <4>2, <4>3
    <3>4. QED
      BY <3>2, <3>3
  <2>5. QED
    BY <2>3, <2>4
<1>8. QED
  BY <1>4, <1>5, <1>6, <1>7 DEF Labels, Venues

\* So a label is announced, when it is, with the age of the source's last answer.
LEMMA StaleFollows == CaptureInv => StaleIsMarked
<1> DEFINE marked == CarriedForward(snaps)
<1> SUFFICES ASSUME CaptureInv, NEW source \in Labels, NEW s \in LastTold(source)
             PROVE  /\ s # Newest(snaps) => source \in DOMAIN marked /\ marked[source] <= s.t
                    /\ Complete(s, source) =>
                         IF s = Newest(snaps) THEN source \notin DOMAIN marked
                         ELSE marked[source] = s.t
  BY DEF StaleIsMarked
<1>1. \A o \in snaps : SnapOk(o, clock)
  BY DEF CaptureInv
<1>2. source \in Sources
  BY DEF Labels, Sources, Venues
<1>3. s \in snaps
  BY DEF LastTold
<1>4. Newest(snaps) \in snaps /\ (\A o \in snaps : o.t <= Newest(snaps).t)
      /\ \A x \in snaps : (\A o \in snaps : o.t <= x.t) => x = Newest(snaps)
  BY <1>3, NewestIs
<1>5. \A o \in snaps : o.t \in Int
  BY <1>1, CaptureAssumption DEF SnapOk
<1>6. /\ source \in DOMAIN marked <=> AnnouncedOf(source) # {}
      /\ AnnouncedOf(source) # {} =>
           /\ \A f \in AnnouncedOf(source) : marked[source] <= Origin(snaps, f).t
           /\ \E f \in AnnouncedOf(source) : marked[source] = Origin(snaps, f).t
  BY MarkedIs
<1> HIDE DEF marked
\* The source's first column is announced when the newest row lacks it.
<1>7. ASSUME s # Newest(snaps)
      PROVE  ColumnOf(source) \in AnnouncedOf(source) /\ Origin(snaps, ColumnOf(source)) = s
  <2> DEFINE f == ColumnOf(source)
  <2>1. f \in Fields /\ \A o \in snaps : Told(o, source) = None <=> o.row[f] = None
    BY <1>1, <1>2, HeardIs, ColumnsAreFields
  <2>2. f \in DOMAIN SourceFields /\ SourceFields[f] = source
    BY DEF ColumnOf, SourceFields, Labels
  <2> HIDE DEF f
  <2>3. Known(snaps, f) /\ Origin(snaps, f) = s
    BY <1>2, <2>1, LastAnswerShown
  <2>4. Newest(snaps).row[f] = None
    <3> SUFFICES ASSUME Newest(snaps).row[f] # None PROVE FALSE
      OBVIOUS
    <3>1. Newest(snaps).t <= s.t
      BY <1>4, <2>1 DEF LastTold
    <3>2. \A o \in snaps : o.t <= s.t
      BY <1>3, <1>4, <1>5, <3>1
    <3>3. QED
      BY <1>3, <1>4, <1>7, <3>2
  <2>5. f \in AnnouncedOf(source)
    BY <2>1, <2>2, <2>3, <2>4 DEF AnnouncedOf, BackFilled
  <2>6. QED
    BY <2>3, <2>5 DEF f
\* Of an answer that left nothing out, every announced column is its own.
<1>8. ASSUME Complete(s, source), NEW f \in AnnouncedOf(source)
      PROVE  s # Newest(snaps) /\ Origin(snaps, f) = s
  <2>1. /\ f \in Fields /\ f \in DOMAIN SourceFields /\ SourceFields[f] = source
        /\ Newest(snaps).row[f] = None /\ \E o \in snaps : o.row[f] # None
    BY <1>8 DEF AnnouncedOf, BackFilled, Known
  <2>2. s.row[f] # None /\ \A o \in snaps : o.row[f] # None => o.t <= s.t
    BY <1>8, <2>1, OwnColumns
  <2>3. QED
    BY <1>3, <2>1, <2>2, ShownIs
<1>9. CASE s = Newest(snaps)
  BY <1>6, <1>8, <1>9
<1>10. CASE s # Newest(snaps)
  <2>1. source \in DOMAIN marked /\ marked[source] <= s.t
    BY <1>6, <1>7, <1>10
  <2>2. Complete(s, source) => marked[source] = s.t
    BY <1>6, <1>7, <1>8, <1>10
  <2>3. QED
    BY <1>10, <2>1, <2>2
<1>11. QED
  BY <1>9, <1>10 DEF marked

\* Two fields every row has or lacks together are shown of one row.
LEMMA ShownTogether ==
    ASSUME NEW f, NEW g, \A s \in snaps : s.row[f] = None <=> s.row[g] = None
    PROVE  (Known(snaps, f) <=> Known(snaps, g)) /\ Origin(snaps, f) = Origin(snaps, g)
<1>1. {s \in snaps : s.row[f] # None} = {s \in snaps : s.row[g] # None}
  OBVIOUS
<1>2. QED
  BY <1>1 DEF Known, Origin

\* The sum over some of the three venues.
LEMMA SumOfVenues ==
    ASSUME NEW e, NEW L \in SUBSET Venues, \A v \in Venues : e[v] \in Int,
           NEW g, \A v \in L : g[v] = e[v]
    PROVE  SumFunctionOnSet(g, L) = (IF "Hyperliquid" \in L THEN e["Hyperliquid"] ELSE 0)
                                    + (IF "Binance" \in L THEN e["Binance"] ELSE 0)
                                    + (IF "Deribit" \in L THEN e["Deribit"] ELSE 0)
<1>1. IsFiniteSet(Venues)
  <2>1. IsFiniteSet({"Binance"}) /\ IsFiniteSet({"Hyperliquid"}) /\ IsFiniteSet({"Deribit"})
    BY FS_Singleton
  <2>2. IsFiniteSet({"Binance"} \cup {"Hyperliquid"})
    BY <2>1, FS_Union
  <2>3. IsFiniteSet(({"Binance"} \cup {"Hyperliquid"}) \cup {"Deribit"})
    BY <2>1, <2>2, FS_Union
  <2>4. Venues = ({"Binance"} \cup {"Hyperliquid"}) \cup {"Deribit"}
    BY DEF Venues
  <2>5. QED
    BY <2>3, <2>4
<1>2. IsFiniteSet(L) /\ \A v \in L : g[v] \in Int
  BY <1>1, FS_Subset
<1> DEFINE L1 == L \ {"Hyperliquid"}
           L2 == L1 \ {"Binance"}
           L3 == L2 \ {"Deribit"}
<1>3. \A S, y : IsFiniteSet(S) /\ (\A x \in S : g[x] \in Int) =>
                 /\ SumFunctionOnSet(g, S) = (IF y \in S THEN g[y] ELSE 0) + SumFunctionOnSet(g, S \ {y})
                 /\ IsFiniteSet(S \ {y})
  BY SumSplit
<1>4. /\ SumFunctionOnSet(g, L) = (IF "Hyperliquid" \in L THEN g["Hyperliquid"] ELSE 0) + SumFunctionOnSet(g, L1)
      /\ IsFiniteSet(L1) /\ \A v \in L1 : g[v] \in Int
  BY <1>2, <1>3
<1>5. /\ SumFunctionOnSet(g, L1) = (IF "Binance" \in L1 THEN g["Binance"] ELSE 0) + SumFunctionOnSet(g, L2)
      /\ SumFunctionOnSet(g, L2) = (IF "Deribit" \in L2 THEN g["Deribit"] ELSE 0) + SumFunctionOnSet(g, L3)
  <2> HIDE DEF L1
  <2>1. /\ SumFunctionOnSet(g, L1) = (IF "Binance" \in L1 THEN g["Binance"] ELSE 0) + SumFunctionOnSet(g, L2)
        /\ IsFiniteSet(L2) /\ \A v \in L2 : g[v] \in Int
    BY <1>3, <1>4
  <2> HIDE DEF L2
  <2>2. QED
    BY <1>3, <2>1
<1>6. L3 = {}
  BY DEF Venues
<1>7. SumFunctionOnSet(g, L3) = 0
  BY <1>6, SumOfNone
<1>8. /\ (IF "Hyperliquid" \in L THEN g["Hyperliquid"] ELSE 0) = (IF "Hyperliquid" \in L THEN e["Hyperliquid"] ELSE 0)
      /\ (IF "Binance" \in L1 THEN g["Binance"] ELSE 0) = (IF "Binance" \in L THEN e["Binance"] ELSE 0)
      /\ (IF "Deribit" \in L2 THEN g["Deribit"] ELSE 0) = (IF "Deribit" \in L THEN e["Deribit"] ELSE 0)
      /\ e["Hyperliquid"] \in Int /\ e["Binance"] \in Int /\ e["Deribit"] \in Int
  BY DEF Venues
<1> HIDE DEF L1, L2, L3
<1>9. QED
  BY <1>4, <1>5, <1>7, <1>8

\* A venue that answered, whose money stands in an asset, is left out only when it
\* has no equity.
LEMMA LeftOutFollows ==
    ASSUME CaptureInv, snaps # {}, NEW v \in Venues \ ListedVenues(Merged),
           EquityOf(Newest(snaps).row, v) # None, FundsAreListed(Newest(snaps).first, v)
    PROVE  EquityOf(Merged, v) = 0
<1> DEFINE m == Merged
           n == Newest(snaps)
<1>1. \A o \in snaps : SnapOk(o, clock)
  BY DEF CaptureInv
<1>2. n \in snaps /\ \A o \in snaps : o.t <= n.t
  BY NewestIs
<1>3. ASSUME NEW f \in Fields, n.row[f] # None
      PROVE  m[f] = n.row[f]
  <2>1. \A o \in snaps : o.row[f] # None => o.t <= n.t
    BY <1>2
  <2>2. QED
    BY <1>2, <1>3, <2>1, ShownIs
<1>4. VenueColumns(n.row, n.first, n.failed)
  BY <1>1, <1>2, StoredRow
<1>5. m["exchange_balances_json"] = n.row["exchange_balances_json"]
  <2>1. "exchange_balances_json" \in Fields /\ n.row["exchange_balances_json"] # None
    BY <1>4 DEF VenueColumns, Fields
  <2>2. QED
    BY <1>3, <2>1
<1>6. EquityOf(m, v) = EquityOf(n.row, v)
  <2>1. {"hl_deposit_usdc", "binance_collateral_usdc", "deribit_equity_usd"} \subseteq Fields
    BY DEF Fields
  <2>2. CASE v = "Hyperliquid"
    <3>1. EquityOf(n.row, v) = n.row["hl_deposit_usdc"] /\ EquityOf(m, v) = m["hl_deposit_usdc"]
      BY <2>2 DEF EquityOf
    <3>2. QED
      BY <1>3, <2>1, <3>1
  <2>3. CASE v = "Binance"
    <3>1. EquityOf(n.row, v) = n.row["binance_collateral_usdc"] /\ EquityOf(m, v) = m["binance_collateral_usdc"]
      BY <2>3 DEF EquityOf
    <3>2. QED
      BY <1>3, <2>1, <3>1
  <2>4. CASE v = "Deribit"
    <3>1. EquityOf(n.row, v) = n.row["deribit_equity_usd"] /\ EquityOf(m, v) = m["deribit_equity_usd"]
      BY <2>4 DEF EquityOf
    <3>2. QED
      BY <1>3, <2>1, <3>1
  <2>5. QED
    BY <2>2, <2>3, <2>4 DEF Venues
<1>7. DOMAIN AssetsOf(n.row, v) = {}
  <2>1. AssetsOf(m, v) = AssetsOf(n.row, v)
    BY <1>5 DEF AssetsOf
  <2>2. DOMAIN AssetsOf(m, v) = {}
    BY DEF ListedVenues
  <2>3. QED
    BY <2>1, <2>2
<1>8. QED
  BY <1>4, <1>6, <1>7 DEF VenueColumns

\* Every venue is counted with its row or without one, collateral is never shown
\* by its quantity, and the vaults' positions come from the row their sum is of.
LEMMA ScreenFollows == CaptureInv => ScreenAddsUp
<1> DEFINE m == Merged
           c == Catalog(m)
           price == SegmentPrice(m)
           p == Components(m, price)
<1> SUFFICES ASSUME CaptureInv, snaps # {}, c.net # None
             PROVE  c.net = c.native + c.collateral - c.loan + c.spark + c.vaults
                            + (TotalEquity(c) + UnlistedEquity(m))
  BY LeftOutFollows DEF ScreenAddsUp
<1>1. \A o \in snaps : SnapOk(o, clock)
  BY DEF CaptureInv
<1>2. None \notin Int
  BY ReadersAssumption
<1>3. ASSUME NEW f \in Fields, \A o \in snaps : o.row[f] \in Int \cup {None}
      PROVE  m[f] \in Int \cup {None}
  BY <1>3, ShownIs
<1> DEFINE e == [v \in Venues |-> Or0(EquityOf(m, v))]
<1>4. /\ \A v \in Venues : e[v] \in Int
      /\ e["Hyperliquid"] = Or0(m["hl_deposit_usdc"]) /\ e["Binance"] = Or0(m["binance_collateral_usdc"])
      /\ e["Deribit"] = Or0(m["deribit_equity_usd"])
  <2>1. {"hl_deposit_usdc", "binance_collateral_usdc", "deribit_equity_usd"} \subseteq Fields
    BY DEF Fields
  <2>2. \A o \in snaps : \A v \in Venues : EquityOf(o.row, v) \in Int \cup {None}
    BY <1>1, StoredRow DEF VenueColumns
  <2>3. \A o \in snaps : /\ o.row["hl_deposit_usdc"] \in Int \cup {None}
                         /\ o.row["binance_collateral_usdc"] \in Int \cup {None}
                         /\ o.row["deribit_equity_usd"] \in Int \cup {None}
    BY <2>2 DEF Venues, EquityOf
  <2>4. /\ m["hl_deposit_usdc"] \in Int \cup {None} /\ m["binance_collateral_usdc"] \in Int \cup {None}
        /\ m["deribit_equity_usd"] \in Int \cup {None}
    BY <1>3, <2>1, <2>3
  <2>5. /\ e["Hyperliquid"] = Or0(m["hl_deposit_usdc"]) /\ e["Binance"] = Or0(m["binance_collateral_usdc"])
        /\ e["Deribit"] = Or0(m["deribit_equity_usd"])
    BY DEF Venues, EquityOf
  <2>6. /\ Or0(m["hl_deposit_usdc"]) \in Int /\ Or0(m["binance_collateral_usdc"]) \in Int
        /\ Or0(m["deribit_equity_usd"]) \in Int
    BY <2>4 DEF Or0
  <2> HIDE DEF m, e
  <2>7. QED
    BY <2>5, <2>6 DEF Venues
<1>8. p.exchange = e["Hyperliquid"] + e["Binance"] + e["Deribit"]
  <2>1. p.exchange = Or0(m["hl_deposit_usdc"]) + Or0(m["binance_collateral_usdc"]) + Or0(m["deribit_equity_usd"])
    BY DEF Components
  <2> HIDE DEF m, p, e
  <2>2. QED
    BY <1>4, <2>1
<1>9. TotalEquity(c) + UnlistedEquity(m) = p.exchange /\ TotalEquity(c) \in Int /\ UnlistedEquity(m) \in Int
  <2> DEFINE L == ListedVenues(m)
             rows == VenueRows(m)
             g == [v \in DOMAIN rows |-> Or0(rows[v].equity)]
             u == [v \in Venues \ L |-> Or0(EquityOf(m, v))]
  <2>1. c.venues = rows
    BY DEF Catalog
  <2>2. TotalEquity(c) = SumFunctionOnSet(g, DOMAIN g) /\ UnlistedEquity(m) = SumFunctionOnSet(u, DOMAIN u)
    BY <2>1 DEF TotalEquity, UnlistedEquity, SumFunction
  <2>3. DOMAIN rows = L /\ \A v \in L : rows[v].equity = EquityOf(m, v)
    BY DEF VenueRows
  <2>4. L \in SUBSET Venues
    BY DEF ListedVenues
  <2>5. /\ DOMAIN g = L /\ \A v \in L : g[v] = e[v]
        /\ DOMAIN u = Venues \ L /\ \A v \in Venues \ L : u[v] = e[v]
    BY <2>3, <2>4
  <2> HIDE DEF m, L, rows, c, e, g, u
  <2>6. SumFunctionOnSet(g, L) = (IF "Hyperliquid" \in L THEN e["Hyperliquid"] ELSE 0)
                                 + (IF "Binance" \in L THEN e["Binance"] ELSE 0)
                                 + (IF "Deribit" \in L THEN e["Deribit"] ELSE 0)
    BY <1>4, <2>4, <2>5, SumOfVenues
  <2>7. SumFunctionOnSet(u, Venues \ L) = (IF "Hyperliquid" \in Venues \ L THEN e["Hyperliquid"] ELSE 0)
                                          + (IF "Binance" \in Venues \ L THEN e["Binance"] ELSE 0)
                                          + (IF "Deribit" \in Venues \ L THEN e["Deribit"] ELSE 0)
    BY <1>4, <2>5, SumOfVenues
  <2>8. {"Hyperliquid", "Binance", "Deribit"} \subseteq Venues
    BY DEF Venues
  <2> HIDE DEF p
  <2>9. QED
    BY <1>4, <1>8, <2>2, <2>5, <2>6, <2>7, <2>8
<1>10. /\ c.net = NavUsd(m, price) /\ c.native = p.native
       /\ c.collateral = CollateralRow(m, price) /\ c.loan = Or0(m["aave_borrow_usdc"])
       /\ c.spark = Or0(m["susds_arbi_balance"]) + Or0(m["susds_eth_balance"])
       /\ c.vaults = IF m["vault_positions_json"] = None THEN 0 ELSE TotalUsd(m["vault_positions_json"])
  BY DEF Catalog
<1>11. /\ p.collateral = Or0(m["aave_supply_usd"]) /\ p.loan = Or0(m["aave_borrow_usdc"])
       /\ p.spark = Or0(m["susds_arbi_balance"]) + Or0(m["susds_eth_balance"])
       /\ p.vaults = Or0(m["vault_usd"])
       /\ NavUsd(m, price) = p.native + p.collateral - p.loan + p.spark + p.vaults + p.exchange
  BY DEF Components, NavUsd
\* No collateral is shown by its quantity where its value is missing.
<1>12. c.collateral = p.collateral
  <2>1. CASE m["aave_supply_usd"] # None
    <3> HIDE DEF m, c, p, price
    <3>1. QED
      BY <1>10, <1>11, <2>1 DEF CollateralRow, Or0
  <2>2. CASE m["aave_supply_usd"] = None
    <3>1. "aave_supply_usd" \in Fields /\ "aave_supply_amount" \in Fields
      BY DEF Fields
    <3>2. ~Known(snaps, "aave_supply_usd")
      BY <2>2, <3>1, ShownIs
    <3>3. \A o \in snaps : o.row["aave_supply_amount"] = None
      BY <1>1, <3>2, AaveSays DEF Known
    <3>4. m["aave_supply_amount"] = None
      BY <3>1, <3>3, ShownIs DEF Known
    <3>5. price \in Int \cup {None}
      <4>2. \A o \in snaps : o.row["btc_price"] \in Int \cup {None} /\ o.row["eth_price"] \in Int \cup {None}
        BY <1>1, StoredRow
      <4>3. "btc_price" \in Fields /\ "eth_price" \in Fields
        BY DEF Fields
      <4>4. m["btc_price"] \in Int \cup {None} /\ m["eth_price"] \in Int \cup {None}
        BY <1>3, <4>2, <4>3
      <4> HIDE DEF m
      <4>5. QED
        BY <4>4, PriceIs
    <3> HIDE DEF m, c, p, price
    <3>6. CollateralRow(m, price) = 0 /\ p.collateral = 0
      BY <1>11, <2>2, <3>4, <3>5 DEF CollateralRow, Or0
    <3>7. QED
      BY <1>10, <3>6
  <2>3. QED
    BY <2>1, <2>2
\* The vaults' positions and their worth come from one row.
<1>13. c.vaults = p.vaults
  <2>1. "vault_usd" \in Fields /\ "vault_positions_json" \in Fields
    BY DEF Fields
  <2>2. \A o \in snaps : /\ o.row["vault_usd"] = None <=> o.row["vault_positions_json"] = None
                         /\ o.row["vault_usd"] # None =>
                              TotalUsd(o.row["vault_positions_json"]) = o.row["vault_usd"]
    BY <1>1, VaultsTold
  <2>3. /\ Known(snaps, "vault_usd") <=> Known(snaps, "vault_positions_json")
        /\ Origin(snaps, "vault_usd") = Origin(snaps, "vault_positions_json")
    BY <2>2, ShownTogether
  <2> DEFINE o == Origin(snaps, "vault_usd")
  <2>4. CASE Known(snaps, "vault_usd")
    <3>1. /\ o \in snaps /\ o.row["vault_usd"] # None
          /\ m["vault_usd"] = o.row["vault_usd"]
          /\ m["vault_positions_json"] = o.row["vault_positions_json"]
      BY <2>1, <2>3, <2>4, ShownIs
    <3> HIDE DEF m, c, p, o
    <3>2. QED
      BY <1>10, <1>11, <2>2, <3>1 DEF Or0
  <2>5. CASE ~Known(snaps, "vault_usd")
    <3>1. m["vault_usd"] = None /\ m["vault_positions_json"] = None
      BY <2>1, <2>3, <2>5, ShownIs
    <3> HIDE DEF m, c, p
    <3>2. QED
      BY <1>10, <1>11, <3>1 DEF Or0
  <2>6. QED
    BY <2>4, <2>5
<1> HIDE DEF m, c, p, price
<1>14. QED
  BY <1>9, <1>10, <1>11, <1>12, <1>13

-----------------------------------------------------------------------------
(* The theorems. *)

\* The cross mark-to-market of a quiet cycle that read both venues and the quotes
\* is the profit of the two legs, for any book (compute_cross_mtm_params).
THEOREM CrossMtmHolds == Spec => []CrossMtmIsLegsProfit
<1>1. CaptureInv => CrossMtmIsLegsProfit
  BY CrossMtmFollows
<1>2. QED
  BY <1>1, CaptureInvHolds, PTL

\* A quiet cycle in which every call answered stores exactly the worth of the
\* book, for any book and any native asset (_build_snapshot_data,
\* compute_nav_components).
THEOREM SnapshotWorthHolds == Spec => []SnapshotIsWorth
<1>1. CaptureInv => SnapshotIsWorth
  BY WorthFollows
<1>2. QED
  BY <1>1, CaptureInvHolds, PTL

\* Whichever calls fail, a cycle stores no more of the wallets and the chain than
\* was there (the readers of tracker/scrapers).
THEOREM ReadsInventNothing == Spec => []ReadsNeverInvent
<1>1. CaptureInv => ReadsNeverInvent
  BY ReadsFollow
<1>2. QED
  BY <1>1, CaptureInvHolds, PTL

\* Whatever failed in which cycle, and in whatever order rows were stored, the NAV
\* counts for every source what it said to the newest cycle it answered
\* (_merge_snapshot_with_history).
THEOREM ShownHolds == Spec => []ShownIsLastAnswer
<1>1. CaptureInv => ShownIsLastAnswer
  BY ShownFollows
<1>2. QED
  BY <1>1, CaptureInvHolds, PTL

\* Every source with a label, the quotes and Deribit included, is announced when
\* the newest cycle got none of it, never as newer than its last answer; an answer
\* that filled every column is not announced while it is the newest, and later
\* with its own age (_merge_snapshot_with_history).
THEOREM StaleHolds == Spec => []StaleIsMarked
<1>1. CaptureInv => StaleIsMarked
  BY StaleFollows
<1>2. QED
  BY <1>1, CaptureInvHolds, PTL

\* The sections of the catalog and the equity of the venues without a row add up
\* to the NAV, whichever calls failed in whichever cycle; and a venue without a
\* row that has money did not answer the newest cycle or holds it in no asset
\* (_build_catalog_for_segment).
THEOREM ScreenHolds == Spec => []ScreenAddsUp
<1>1. CaptureInv => ScreenAddsUp
  BY ScreenFollows
<1>2. QED
  BY <1>1, CaptureInvHolds, PTL
=============================================================================
