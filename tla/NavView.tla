------------------------------ MODULE NavView ------------------------------
(***************************************************************************)
(* From readings to figures: the Snapshot row a cycle stores               *)
(* (collector.py, _build_snapshot_data and the mergers), and what the      *)
(* dashboard and the report make of the stored rows (nav/views.py,         *)
(* services/nav_report.py).  A snapshot is [t, row]; a row is a function   *)
(* of the model's columns.  Columns that are JSON text in the code hold    *)
(* the values the text stands for.                                         *)
(***************************************************************************)
EXTENDS NavReaders

Fields ==
    {"btc_price", "eth_price", "bitgo_holdings_json", "wallet_native_amount", "wallet_balance_usd",
     "aave_supply_usd", "aave_supply_amount", "aave_borrow_usdc", "aave_net_usd", "aave_health_rate",
     "susds_arbi_balance", "susds_eth_balance", "vault_usd", "vault_positions_json",
     "hl_deposit_usdc", "hl_available_usdc", "binance_collateral_usdc", "binance_available_usdc",
     "deribit_equity_usd", "deribit_available_usd", "exchange_balances_json",
     "perp_positions_json", "price_diff_hl_bn", "cross_mtm_value"}

-----------------------------------------------------------------------------
(* Bugs the properties must catch; nothing below uses them. *)

\* The dashboard has no label for the venues yet.
SourceFieldsBeforeVenues ==
    [f \in {"wallet_balance_usd", "wallet_native_amount", "bitgo_holdings_json",
            "aave_supply_usd", "aave_net_usd"} |->
        IF f \in {"aave_supply_usd", "aave_net_usd"} THEN "Aave" ELSE "custody"]

\* A chain on which nothing is left is not written.
SparkFieldsIfAny(susds) ==
    [susds_arbi_balance |-> IF "arb" \in DOMAIN susds /\ susds["arb"] # 0 THEN susds["arb"] ELSE None,
     susds_eth_balance |-> IF "eth" \in DOMAIN susds /\ susds["eth"] # 0 THEN susds["eth"] ELSE None]

\* The column for the positions is forgotten.
VaultFieldsUsdOnly(vaults) == [vault_usd |-> IF vaults = None THEN None ELSE TotalUsd(vaults)]

\* A venue is listed for what it trades, not for what it holds.
ListedVenuesTrading(m) ==
    {v \in {"Binance", "Hyperliquid", "Deribit"} :
        v \in DOMAIN m["perp_positions_json"] /\ m["perp_positions_json"][v] # {}}

-----------------------------------------------------------------------------
\* Columns whose back-fill the dashboard announces, by the label it uses.
SourceFields ==
    [f \in {"wallet_balance_usd", "wallet_native_amount", "bitgo_holdings_json",
            "aave_supply_usd", "aave_net_usd", "btc_price", "eth_price",
            "binance_collateral_usdc", "hl_deposit_usdc", "deribit_equity_usd"} |->
        CASE f \in {"aave_supply_usd", "aave_net_usd"} -> "Aave"
          [] f \in {"btc_price", "eth_price"} -> "prices"
          [] f = "binance_collateral_usdc" -> "Binance"
          [] f = "hl_deposit_usdc" -> "Hyperliquid"
          [] f = "deribit_equity_usd" -> "Deribit"
          [] OTHER -> "custody"]

-----------------------------------------------------------------------------
(* One row. *)

QuoteOf(quotes, asset) ==
    CASE asset = "USDC" -> 1
      [] asset = "ETH" -> IF quotes = None THEN None ELSE quotes.eth
      [] asset = "BTC" -> IF quotes = None THEN None ELSE quotes.btc

\* The collateral's quantity is worked back from its value, if both are there.
AaveFields(aave, quotes) ==
    LET price == QuoteOf(quotes, BaseAsset)
    IN IF aave = None
         THEN [f \in {"aave_supply_usd", "aave_borrow_usdc", "aave_health_rate",
                      "aave_net_usd", "aave_supply_amount"} |-> None]
       ELSE [aave_supply_usd |-> aave.collateral, aave_borrow_usdc |-> aave.debt,
             aave_health_rate |-> aave.health, aave_net_usd |-> aave.collateral - aave.debt,
             aave_supply_amount |-> IF aave.collateral # 0 /\ Or0(price) # 0
                                      THEN aave.collateral \div price ELSE None]

SparkFields(susds) ==
    [susds_arbi_balance |-> IF "arb" \in DOMAIN susds THEN susds["arb"] ELSE None,
     susds_eth_balance |-> IF "eth" \in DOMAIN susds THEN susds["eth"] ELSE None]

VaultFields(vaults) ==
    [vault_usd |-> IF vaults = None THEN None ELSE TotalUsd(vaults),
     vault_positions_json |-> vaults]

CustodyColumns(r) ==
    LET custody == CustodyFields(r.wallets, CustodyPrices(r.wallets, r.prices, r.tickers))
    IN [bitgo_holdings_json |-> custody.holdings,
        wallet_native_amount |-> custody.amount, wallet_balance_usd |-> custody.usd]

FundColumns(funds) ==
    [hl_deposit_usdc |-> funds["Hyperliquid"].total,
     hl_available_usdc |-> funds["Hyperliquid"].available,
     binance_collateral_usdc |-> funds["Binance"].total,
     binance_available_usdc |-> funds["Binance"].available,
     deribit_equity_usd |-> funds["Deribit"].total,
     deribit_available_usd |-> funds["Deribit"].available]

LegColumns(quotes, legs) ==
    LET params == CrossMtmParams(legs.bnLegs, legs.hlLegs)
    IN [perp_positions_json |-> BuildPerpLegs(legs.bnLegs, legs.hlLegs),
        price_diff_hl_bn |-> IF quotes = None THEN None
                             ELSE (quotes.hlBtc - quotes.btc) * params.direction,
        cross_mtm_value |-> CrossMtm(quotes, params)]

\* r, chain, legs: what the readers returned in one cycle, in the order read.
\* Balances and legs are written even when there are none, so that they are
\* never taken from an older row.
BuildSnapshot(r, chain, legs) ==
    LET wallets == CustodyColumns(r)
        onChain == With(With(AaveFields(chain.aave, r.quotes), SparkFields(chain.susds)),
                        VaultFields(chain.vaults))
        venues == With(FundColumns(r.funds), LegColumns(r.quotes, legs))
        shared == [btc_price |-> QuoteOf(r.quotes, "BTC"), eth_price |-> QuoteOf(r.quotes, "ETH"),
                   exchange_balances_json |->
                       ExchangeBalances(r.funds, VenuePrices(r.funds, r.prices, r.tickers))]
    IN With(With(shared, wallets), With(onChain, venues))

-----------------------------------------------------------------------------
(* The stored rows, seen together. *)

Newest(snaps) == CHOOSE s \in snaps : \A o \in snaps : o.t <= s.t

\* The snapshot a shown figure comes from: the newest that has one.
Origin(snaps, f) == Newest({s \in snaps : s.row[f] # None})
Known(snaps, f) == \E s \in snaps : s.row[f] # None

MergeWithHistory(snaps) ==
    [f \in Fields |-> IF Known(snaps, f) THEN Origin(snaps, f).row[f] ELSE None]

BackFilled(snaps) == {f \in Fields : Newest(snaps).row[f] = None /\ Known(snaps, f)}

\* Per source, the oldest timestamp any of its announced columns came from.
CarriedForward(snaps) ==
    LET announced == BackFilled(snaps) \cap DOMAIN SourceFields
        Of(label) == {f \in announced : SourceFields[f] = label}
    IN [label \in {SourceFields[f] : f \in announced} |->
          Min({Origin(snaps, f).t : f \in Of(label)})]

SegmentPrice(m) ==
    CASE BaseAsset = "ETH" -> m["eth_price"]
      [] BaseAsset = "BTC" -> m["btc_price"]
      [] BaseAsset = "USDC" -> 1

\* compute_nav_components: the parts, native by wallet detail or, without any
\* wallet, by the one amount older rows kept.
Components(m, price) ==
    LET wallets == m["bitgo_holdings_json"]
        detailed == wallets # None /\ DOMAIN wallets # {}
    IN [native |-> IF detailed
                     THEN SumFunction([w \in DOMAIN wallets |-> TotalUsd(wallets[w])])
                   ELSE IF price # None THEN Or0(m["wallet_native_amount"]) * price ELSE 0,
        collateral |-> Or0(m["aave_supply_usd"]),
        loan |-> Or0(m["aave_borrow_usdc"]),
        spark |-> Or0(m["susds_arbi_balance"]) + Or0(m["susds_eth_balance"]),
        vaults |-> Or0(m["vault_usd"]),
        exchange |-> Or0(m["hl_deposit_usdc"]) + Or0(m["binance_collateral_usdc"])
                     + Or0(m["deribit_equity_usd"])]

NavUsd(m, price) ==
    LET c == Components(m, price)
    IN c.native + c.collateral - c.loan + c.spark + c.vaults + c.exchange

-----------------------------------------------------------------------------
(* The catalog: the sections of the screen, and of the report's detail.    *)

Venues == {"Binance", "Hyperliquid", "Deribit"}
EquityOf(m, v) ==
    CASE v = "Binance" -> m["binance_collateral_usdc"]
      [] v = "Hyperliquid" -> m["hl_deposit_usdc"]
      [] v = "Deribit" -> m["deribit_equity_usd"]
AssetsOf(m, v) ==
    LET balances == m["exchange_balances_json"]
    IN IF v \in DOMAIN balances THEN balances[v] ELSE [c \in {} |-> 0]
LegsOf(m, v) ==
    LET legs == m["perp_positions_json"] IN IF v \in DOMAIN legs THEN legs[v] ELSE {}
LegsPnl(m, v) == SumFunction([p \in LegsOf(m, v) |-> p.upnl])

\* A venue is listed when it has assets or legs, never for its equity alone.
ListedVenues(m) == {v \in Venues : DOMAIN AssetsOf(m, v) # {} \/ LegsOf(m, v) # {}}

\* Cash rows are scaled to what the equity leaves beside the legs' profit.
CashRows(m, v) ==
    LET assets == AssetsOf(m, v)
    IN IF TotalUsd(assets) = 0 THEN 0
       ELSE IF EquityOf(m, v) = None THEN TotalUsd(assets)
       ELSE EquityOf(m, v) - LegsPnl(m, v)

CollateralRow(m, price) ==
    IF m["aave_supply_usd"] # None THEN m["aave_supply_usd"]
    ELSE IF price # None THEN Or0(m["aave_supply_amount"]) * price ELSE 0

VenueRows(m) ==
    [v \in ListedVenues(m) |->
        [equity |-> EquityOf(m, v), cash |-> CashRows(m, v), pnl |-> LegsPnl(m, v)]]

\* The sections with something to show; without any there is no net figure.
Sections(m) ==
    LET wallets == m["bitgo_holdings_json"]
        Some(fields) == \E f \in fields : Or0(m[f]) # 0
        positions == m["vault_positions_json"]
    IN {title \in {"Native reserve", "Aave position", "Spark Savings", "Vaults", "Exchange funds"} :
          CASE title = "Native reserve" ->
                 IF wallets # None /\ DOMAIN wallets # {} THEN TRUE ELSE Some({"wallet_native_amount"})
            [] title = "Aave position" ->
                 Some({"aave_supply_amount", "aave_supply_usd", "aave_borrow_usdc"})
            [] title = "Spark Savings" -> Some({"susds_arbi_balance", "susds_eth_balance"})
            [] title = "Vaults" ->
                 positions # None /\ \E v \in DOMAIN positions : positions[v].usd # None
            [] title = "Exchange funds" -> ListedVenues(m) # {}}

Catalog(m) ==
    LET price == SegmentPrice(m)
        positions == m["vault_positions_json"]
    IN [native |-> Components(m, price).native,
        collateral |-> CollateralRow(m, price),
        loan |-> Or0(m["aave_borrow_usdc"]),
        health |-> m["aave_health_rate"],
        spark |-> Or0(m["susds_arbi_balance"]) + Or0(m["susds_eth_balance"]),
        vaults |-> IF positions = None THEN 0 ELSE TotalUsd(positions),
        venues |-> VenueRows(m),
        sections |-> Sections(m),
        net |-> IF Sections(m) # {} THEN NavUsd(m, price) ELSE None,
        gross |-> NavUsd(m, price) + Or0(m["aave_borrow_usdc"])]

\* The row "Total exchange equity".
TotalEquity(c) == SumFunction([v \in DOMAIN c.venues |-> Or0(c.venues[v].equity)])

\* build_report: the newest snapshot at or before as_of, back-filled.
LatestMerged(snaps, asOf) == MergeWithHistory({s \in snaps : s.t <= asOf})
=============================================================================
