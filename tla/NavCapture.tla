----------------------------- MODULE NavCapture -----------------------------
(***************************************************************************)
(* Snapshot cycles of one NAV segment against a moving book, and what the  *)
(* screen shows of them: collector.py, collect_snapshot_cycle, over        *)
(* NavReaders, and nav/views.py over NavView.                              *)
(*                                                                         *)
(* A cycle takes its timestamp first, then reads custody, quotes and venue *)
(* funds; the on-chain positions of the addresses custody named; last the  *)
(* perpetuals, and stores one row.  Two cycles may run at once: the one    *)
(* Huey schedules and one started by hand (take_snapshot, the API), which  *)
(* takes no lock.  The book is the set of positions open; each sits where  *)
(* the functions below say, and any call may fail.  A hedge is one BTC leg *)
(* at each venue: the code takes the first leg of a list, whatever asset   *)
(* it is in.  The quotes and tickers do not move; what custody, tickers    *)
(* and venue funds say is of one moment, which only a cycle in which       *)
(* something moved could tell from the code's several.                     *)
(***************************************************************************)
EXTENDS NavView

CONSTANTS Actors,     \* the scheduled cycle, the cycle by hand
          Books,      \* sets of positions open at first
          Outages,    \* sets of calls that may fail together in a cycle
          MaxCycles,  \* bound: cycles begun
          MaxOutages, \* bound: cycles with a call that failed
          MaxMoves    \* bound: positions opened or closed

VARIABLES held,    \* the positions open now
          clock,   \* the timestamp of the last cycle begun
          job,     \* per actor: the cycle it is in
          snaps,   \* the Snapshot rows
          outages, moves

vars == <<held, clock, job, snaps, outages, moves>>

-----------------------------------------------------------------------------
(* The book, and the answers about it. *)

Positions == {"reserve", "stash", "loan", "lend", "spark", "sparkEth",
              "vault", "hl", "classic", "binance", "um", "deribit", "basis", "reverse"}
Units(b, p, n) == IF p \in b THEN n ELSE 0

\* A hedge, short Hyperliquid or the reverse, has an account at each venue:
\* a unified or a classic, spot-less wallet; margin assets or futures cash.
Consistent(b) ==
    /\ {"basis", "reverse"} \cap b # {} =>
         {"hl", "classic"} \cap b # {} /\ {"binance", "um"} \cap b # {}
    /\ ~({"basis", "reverse"} \subseteq b)
    /\ ~({"hl", "classic"} \subseteq b)
HedgeSize(b) == Units(b, "reverse", 2) - Units(b, "basis", 2)

Quotes == [btc |-> 30, eth |-> 2, hlBtc |-> 33]
HlUpnl(b) == (33 - 30) * HedgeSize(b)
BnUpnl(b) == (29 - 30) * HedgeSize(b)
Tickers == [c \in {"XLM", "ETH"} |-> IF c = "XLM" THEN 5 ELSE 2]

\* The aTokens in a wallet are the receipt for what it lent to Aave.
WalletPage(b, i) ==
    IF i = 1
      THEN {[id |-> "w1", address |-> "0x1",
             coins |-> [c \in {"ETH", "AETHWETH"} |->
                          IF c = "ETH" THEN Units(b, "reserve", 3) ELSE Units(b, "loan", 10)]],
            [id |-> "w2", address |-> "0x2", coins |-> [c \in {"ETH"} |-> 0]]}
      ELSE {[id |-> "w3", address |-> None, coins |-> [c \in {"XLM"} |-> Units(b, "stash", 1)]]}

Addresses == {"0x1", "0x2"}
Markets == {"core", "prime"}
Chains == {"arb", "eth"}

Account(b, k) ==
    IF k = <<"0x1", "core">>
      THEN [collateral |-> Units(b, "loan", 20), debt |-> Units(b, "loan", 8), health |-> 25]
    ELSE IF k = <<"0x2", "prime">>
      THEN [collateral |-> Units(b, "lend", 4), debt |-> 0, health |-> None]
    ELSE [collateral |-> 0, debt |-> 0, health |-> None]

Susds(b, k) ==
    IF k = <<"arb", "0x1">> THEN Units(b, "spark", 5)
    ELSE IF k = <<"eth", "0x2">> THEN Units(b, "sparkEth", 4) ELSE 0

VaultShares(b, k) == IF k = <<"usdc", "0x1">> THEN Units(b, "vault", 3) ELSE 0

\* A unified wallet's perp account is part of its spot balance; a classic
\* one's is all there is.
HlPerp(b) == [equity |-> Units(b, "hl", 1) + Units(b, "classic", 7) + HlUpnl(b),
              withdrawable |-> Units(b, "classic", 5),
              margin |-> Units(b, "hl", 1) + Units(b, "classic", 2)]
HlSpot(b) == [c \in {"USDC"} |-> Units(b, "hl", 20 + HlUpnl(b))]
\* Cash of the futures account is in the equity and in no asset's balance.
BnBalance(b) == [c \in {"USDC"} |-> [amount |-> Units(b, "binance", 9), free |-> Units(b, "binance", 4)]]
BnAccount(b) == Units(b, "binance", 9) + Units(b, "um", 3) + BnUpnl(b)
Summaries(b) == [c \in {"ETH"} |-> [amount |-> Units(b, "deribit", 1), free |-> Units(b, "deribit", 1)]]
BnLegs(b) == {[size |-> Abs(HedgeSize(b)), entry |-> 29, upnl |-> BnUpnl(b)]}
HlLegs(b) == {[size |-> HedgeSize(b), entry |-> 30, upnl |-> HlUpnl(b)]}

\* What a position is worth, whoever reads it.
Worth(p) ==
    CASE p = "reserve" -> 6 [] p = "stash" -> 5 [] p = "loan" -> 12 [] p = "lend" -> 4
      [] p = "spark" -> 10 [] p = "sparkEth" -> 8 [] p = "vault" -> 6
      [] p = "hl" -> 20 [] p = "classic" -> 7 [] p = "binance" -> 9 [] p = "um" -> 3
      [] p = "deribit" -> 2
      [] p = "basis" -> -4 [] p = "reverse" -> 4
BookWorth(b) == SumFunction([p \in b |-> Worth(p)])

\* The calls of a cycle, as Outages names them.
AaveCalls == {<<"aave", a, k>> : a \in Addresses, k \in Markets}
SusdsCalls(chain) == {<<"susds", chain, a>> : a \in Addresses}
VaultCalls == {<<"shares", "usdc", a>> : a \in Addresses}
ChainCalls == AaveCalls \cup (UNION {SusdsCalls(c) : c \in Chains}) \cup VaultCalls
              \cup {<<"rate">>, <<"convert", "usdc">>}
FirstCalls == {<<"wallets", 1>>, <<"wallets", 2>>, <<"quotes">>, <<"ticker", "XLM">>,
               <<"ticker", "ETH">>, <<"hl">>, <<"balance">>, <<"account">>, <<"deribit">>}
PositionCalls == {<<"positions", "Binance">>, <<"positions", "Hyperliquid">>}
Calls == FirstCalls \cup ChainCalls \cup PositionCalls

\* None is no answer: no set, no table, nothing a call returns.
Wallets == UNION {WalletPage(b, i) : b \in SUBSET Positions, i \in 1..2}
Coins == {"ETH", "AETHWETH", "XLM", "USDC"}
Tables == UNION {[C -> Asset] : C \in SUBSET Coins}
NoneIsNoAnswer ==
    /\ None \notin Addresses
    /\ \A b \in SUBSET Positions :
         None \notin {Quotes, WalletPage(b, 1) \cup WalletPage(b, 2), HlPerp(b), HlSpot(b),
                     BnBalance(b), Summaries(b), BnLegs(b), HlLegs(b)}
    /\ \A W \in SUBSET Wallets : None \notin [W -> Tables]
    /\ \A V \in SUBSET Venues : None \notin [V -> Tables] \cup [V -> SUBSET [size : Int, entry : Int, upnl : Int]]
    /\ \A V \in SUBSET {"usdc"} : None \notin [V -> Asset]

ASSUME CaptureAssumption ==
    /\ NoneIsNoAnswer
    /\ "USDC" \in Stables /\ "AETHWETH" \in ATokens
    /\ {"ETH", "XLM"} \cap (Stables \cup ATokens) = {}
    /\ Outages \subseteq SUBSET Calls /\ {} \notin Outages
    /\ Books \subseteq SUBSET Positions /\ \A b \in Books : Consistent(b)
    /\ MaxCycles \in Nat /\ MaxOutages \in Nat /\ MaxMoves \in Nat

-----------------------------------------------------------------------------
(* One cycle's readings; failed: the calls that fail in it. *)

Answer(failed, call, value) == IF call \in failed THEN None ELSE value
Answered(values, calls, failed) ==
    [k \in {k \in DOMAIN values : calls[k] \notin failed} |-> values[k]]

\* Custody, quotes, tickers and venue funds, all of the same moment.
FirstReads(b, failed) ==
    LET pages == Answered([i \in 1..2 |-> WalletPage(b, i)], [i \in 1..2 |-> <<"wallets", i>>], failed)
        quotes == Answer(failed, <<"quotes">>, Quotes)
        prices == PriceBySymbol(quotes)
        wallets == FetchAllWallets(pages, 2)
    IN [quotes |-> quotes, prices |-> prices,
        tickers |-> Answered(Tickers, [c \in DOMAIN Tickers |-> <<"ticker", c>>], failed),
        wallets |-> wallets,
        addresses |-> IF wallets = None THEN {} ELSE EvmAddresses(wallets),
        funds |-> [v \in Venues |->
          CASE v = "Hyperliquid" -> HlAccountValue(Answer(failed, <<"hl">>, HlPerp(b)), HlSpot(b), prices)
            [] v = "Binance" -> BinanceCollateral(Answer(failed, <<"balance">>, BnBalance(b)),
                                                  Answer(failed, <<"account">>, BnAccount(b)), prices)
            [] v = "Deribit" -> DeribitEquity(Answer(failed, <<"deribit">>, Summaries(b)), prices)]]

\* Nothing is read on chain for a segment whose custody named no address.
ChainReads(b, failed, first) ==
    LET addresses == first.addresses
        rate == SusdsRate(Answer(failed, <<"rate">>, 2))
        rates == Answered([v \in {"usdc"} |-> 2], [v \in {"usdc"} |-> <<"convert", v>>], failed)
    IN [aave |-> AaveForAddresses(
                   Answered([k \in addresses \X Markets |-> Account(b, k)],
                            [k \in addresses \X Markets |-> <<"aave", k[1], k[2]>>], failed), addresses),
        susds |-> SusdsForAddresses(
                   Answered([k \in Chains \X addresses |-> Susds(b, k)],
                            [k \in Chains \X addresses |-> <<"susds", k[1], k[2]>>], failed),
                   addresses, rate),
        vaults |-> VaultsForAddresses(
                   Answered([k \in {"usdc"} \X addresses |-> VaultShares(b, k)],
                            [k \in {"usdc"} \X addresses |-> <<"shares", k[1], k[2]>>], failed),
                   addresses, rates, [v \in {"usdc"} |-> "USDC"], first.prices)]

LegReads(b, failed) ==
    [bnLegs |-> Answer(failed, <<"positions", "Binance">>, BnLegs(b)),
     hlLegs |-> Answer(failed, <<"positions", "Hyperliquid">>, HlLegs(b))]

-----------------------------------------------------------------------------
Idle == [stage |-> "idle"]
Job == {Idle}
       \cup [stage : {"first"}, t : 1..MaxCycles, failed : Outages \cup {{}},
             first : SUBSET Positions, quiet : BOOLEAN]
       \cup [stage : {"chain"}, t : 1..MaxCycles, failed : Outages \cup {{}},
             first : SUBSET Positions, chain : SUBSET Positions, quiet : BOOLEAN]

\* A stored row; what was open when it was read is kept for the properties.
IsSnapshot(s) ==
    /\ s.t \in 1..clock
    /\ DOMAIN s.row = Fields
    /\ s.failed \in Outages \cup {{}}
    /\ {s.first, s.chain} \subseteq SUBSET Positions
    /\ s.quiet \in BOOLEAN

TypeOK ==
    /\ held \subseteq Positions /\ Consistent(held)
    /\ clock \in 0..MaxCycles
    /\ job \in [Actors -> Job]
    /\ \A s \in snaps : IsSnapshot(s)
    /\ outages \in 0..MaxOutages /\ moves \in 0..MaxMoves

Init ==
    /\ held \in Books
    /\ clock = 0
    /\ job = [a \in Actors |-> Idle]
    /\ snaps = {}
    /\ outages = 0 /\ moves = 0

Begin(a, failed) ==
    /\ job[a] = Idle
    /\ clock < MaxCycles
    /\ failed # {} => outages < MaxOutages
    /\ clock' = clock + 1
    /\ job' = [job EXCEPT ![a] = [stage |-> "first", t |-> clock + 1, failed |-> failed,
                                  first |-> held, quiet |-> TRUE]]
    /\ outages' = IF failed = {} THEN outages ELSE outages + 1
    /\ UNCHANGED <<held, snaps, moves>>

ReadChain(a) ==
    /\ job[a].stage = "first"
    /\ job' = [job EXCEPT ![a] = [stage |-> "chain", t |-> @.t, failed |-> @.failed,
                                  first |-> @.first, chain |-> held, quiet |-> @.quiet]]
    /\ UNCHANGED <<held, clock, snaps, outages, moves>>

\* The row of a finished cycle; older and newer cycles may be stored already.
RowOf(j, now) ==
    LET first == FirstReads(j.first, j.failed)
    IN BuildSnapshot(first, ChainReads(j.chain, j.failed, first), LegReads(now, j.failed))

Store(a) ==
    /\ job[a].stage = "chain"
    /\ LET j == job[a]
       IN snaps' = snaps \cup {[t |-> j.t, row |-> RowOf(j, held), failed |-> j.failed,
                                first |-> j.first, chain |-> j.chain, quiet |-> j.quiet]}
    /\ job' = [job EXCEPT ![a] = Idle]
    /\ UNCHANGED <<held, clock, outages, moves>>

\* A position is opened or closed, for every cycle under way in mid-reading.
Move(p) ==
    LET b == IF p \in held THEN held \ {p} ELSE held \cup {p}
    IN /\ moves < MaxMoves /\ Consistent(b)
       /\ held' = b
       /\ job' = [a \in Actors |-> IF job[a] = Idle THEN Idle ELSE [job[a] EXCEPT !.quiet = FALSE]]
       /\ moves' = moves + 1
       /\ UNCHANGED <<clock, snaps, outages>>

Over == clock = MaxCycles /\ (\A a \in Actors : job[a] = Idle) /\ UNCHANGED vars

Next ==
    \/ \E a \in Actors :
         \/ \E failed \in Outages \cup {{}} : Begin(a, failed)
         \/ ReadChain(a)
         \/ Store(a)
    \/ \E p \in Positions : Move(p)
    \/ Over

Spec == Init /\ [][Next]_vars

-----------------------------------------------------------------------------
(* Properties. *)

Merged == MergeWithHistory(snaps)
Ok(s, call) == call \notin s.failed
CustodyRead(s) == Ok(s, <<"wallets", 1>>) /\ Ok(s, <<"wallets", 2>>)

\* What a source told a cycle, by the calls that answered; None: nothing.
Told(s, source) ==
    CASE source = "custody" ->
           IF ~CustodyRead(s) THEN None
           ELSE BookWorth({p \in s.first \cap {"reserve", "stash"} :
                         IF p = "stash" THEN Ok(s, <<"ticker", "XLM">>)
                         ELSE Ok(s, <<"quotes">>) \/ Ok(s, <<"ticker", "ETH">>)})
      [] source = "Aave" ->
           IF ~CustodyRead(s) \/ AaveCalls \subseteq s.failed THEN None
           ELSE BookWorth({p \in s.chain \cap {"loan", "lend"} :
                         Ok(s, IF p = "loan" THEN <<"aave", "0x1", "core">>
                               ELSE <<"aave", "0x2", "prime">>)})
      [] source \in Chains ->
           IF ~CustodyRead(s) \/ SusdsCalls(source) \subseteq s.failed THEN None
           ELSE BookWorth({p \in s.chain : IF source = "arb" THEN p = "spark" /\ Ok(s, <<"susds", "arb", "0x1">>)
                                       ELSE p = "sparkEth" /\ Ok(s, <<"susds", "eth", "0x2">>)})
                \div (IF Ok(s, <<"rate">>) THEN 1 ELSE 2)
      [] source = "vaults" ->
           LET seen == s.chain \cap {p \in {"vault"} : Ok(s, <<"shares", "usdc", "0x1">>)}
           IN IF \/ ~CustodyRead(s)
                 \/ VaultCalls \subseteq s.failed
                 \/ seen # {} /\ ~Ok(s, <<"convert", "usdc">>)
                THEN None ELSE BookWorth(seen)
      [] source = "Hyperliquid" ->
           IF Ok(s, <<"hl">>)
             THEN Units(s.first, "hl", 20) + Units(s.first, "classic", 7) + HlUpnl(s.first) ELSE None
      [] source = "Binance" ->
           IF ~Ok(s, <<"balance">>) THEN None
           ELSE Units(s.first, "binance", 9)
                + (IF Ok(s, <<"account">>) THEN Units(s.first, "um", 3) + BnUpnl(s.first) ELSE 0)
      [] source = "Deribit" ->
           IF ~Ok(s, <<"deribit">>) THEN None
           ELSE IF Ok(s, <<"quotes">>) THEN Units(s.first, "deribit", 2) ELSE 0
      [] source = "prices" -> IF Ok(s, <<"quotes">>) THEN Quotes.eth ELSE None

Sources == {"custody", "Aave", "vaults", "prices"} \cup Chains \cup Venues

\* What the screen shows for a source, of a merged row m with parts c.
Counted(m, c, source) ==
    CASE source = "custody" -> c.native
      [] source = "Aave" -> c.collateral - c.loan
      [] source = "arb" -> Or0(m["susds_arbi_balance"])
      [] source = "eth" -> Or0(m["susds_eth_balance"])
      [] source = "vaults" -> c.vaults
      [] source = "Hyperliquid" -> Or0(m["hl_deposit_usdc"])
      [] source = "Binance" -> Or0(m["binance_collateral_usdc"])
      [] source = "Deribit" -> Or0(m["deribit_equity_usd"])
      [] source = "prices" -> m["eth_price"]

\* Custody that answered and was empty: the one answer the fallback undoes.
Emptied(s) == CustodyRead(s) /\ s.first \cap {"reserve", "stash", "loan"} = {}

LastTold(source) == {s \in snaps : Told(s, source) # None
                       /\ \A o \in snaps : Told(o, source) # None => o.t <= s.t}

\* For every source, whatever failed in which cycle and in whatever order the
\* rows were stored, the screen has exactly what the source said to the newest
\* cycle it answered: closed positions do not return, open ones do not vanish
\* (_merge_snapshot_with_history over rows built by _build_snapshot_data).
\* The exception is a custody that was found empty.
ShownIsLastAnswer ==
    LET m == Merged
        c == Components(m, SegmentPrice(m))
    IN snaps # {} =>
         \A source \in Sources : \A s \in LastTold(source) :
           (source = "custody" /\ Emptied(s)) \/ Counted(m, c, source) = Told(s, source)

Labels == {"custody", "Aave", "Binance", "Hyperliquid", "Deribit", "prices"}

\* Custody fills its three columns only when it holds the segment's own coin
\* and a price for it is known.
Complete(s, source) ==
    source = "custody" /\ BaseAsset = "ETH" =>
        "reserve" \in s.first /\ (Ok(s, <<"quotes">>) \/ Ok(s, <<"ticker", "ETH">>))

\* Every source the dashboard has a label for is announced when the newest
\* cycle got none of it, and never as newer than its last answer is; an answer
\* with every column the segment can have is not announced while it is the
\* newest, and later with its own age (_SOURCE_FIELDS,
\* _merge_snapshot_with_history).  The one answer that may leave a column out
\* is custody's: without the coin or its price it is announced as soon as an
\* older row has the column, though it answered and nav/views.py:29 calls these
\* fields the sign of a source that failed.
StaleIsMarked ==
    LET marked == CarriedForward(snaps)
    IN snaps # {} =>
         \A source \in Labels : \A s \in LastTold(source) :
           /\ s # Newest(snaps) => source \in DOMAIN marked /\ marked[source] <= s.t
           /\ Complete(s, source) =>
                IF s = Newest(snaps) THEN source \notin DOMAIN marked
                ELSE marked[source] = s.t

\* A cycle in which every call answered and nothing moved stores exactly the
\* worth of the book: no aToken, margin, loan or futures profit counts twice.
\* A unified Hyperliquid account is its spot balance, as the comment at the
\* choice says (collector.py:242-245); the docstring of fetch_hl_account_value
\* (200-201) says perp equity plus spot value, the double count ruled out here.
SnapshotIsWorth ==
    \A s \in snaps : s.quiet /\ s.failed = {} => NavUsd(s.row, SegmentPrice(s.row)) = BookWorth(s.first)

\* The cross mark-to-market of a cycle that read both venues and the quotes is
\* the profit of the two legs, whichever venue is the short one: the signs of
\* the entry cost, the difference and the direction agree
\* (compute_cross_mtm_params, compute_cross_mtm).
CrossMtmIsLegsProfit ==
    \A s \in snaps :
        s.quiet /\ s.failed \cap (PositionCalls \cup {<<"quotes">>}) = {}
        => s.row["cross_mtm_value"] = HlUpnl(s.first) + BnUpnl(s.first)

\* Whichever calls fail, what a cycle stores of the wallets and the chain is
\* no more than what was there: a partial read leaves whole positions out, a
\* loan never without its collateral (fetch_susds_rate, fetch_aave_for_wallet).
ReadsNeverInvent ==
    \A s \in snaps :
        LET c == Components(s.row, SegmentPrice(s.row))
            there == (s.first \cap {"reserve", "stash"})
                     \cup (s.chain \cap {"loan", "lend", "spark", "sparkEth", "vault"})
        IN c.native + c.collateral - c.loan + c.spark + c.vaults <= BookWorth(there)

\* A venue's equity comes with an asset, not of a classic wallet or of futures
\* cash alone.
FundsAreListed(b, v) ==
    /\ v = "Hyperliquid" => "classic" \notin b
    /\ v = "Binance" /\ "um" \in b => "binance" \in b

\* What the NAV counts of venues that the catalog has no row for.
UnlistedEquity(m) == SumFunction([v \in Venues \ ListedVenues(m) |-> Or0(EquityOf(m, v))])

\* Whatever failed in which cycle, the sections of the catalog add up to the NAV
\* it is headed with but for the equity of venues without a row; and a venue is
\* without one only when it did not answer the newest cycle (its equity is then
\* an older one's) or all it has is money no asset stands for, which the comment
\* "summing to the venue's EQUITY (= what's in NAV)" (nav/views.py) forgets
\* (_build_catalog_for_segment).
ScreenAddsUp ==
    LET m == Merged
        c == Catalog(m)
        newest == Newest(snaps)
    IN snaps # {} /\ c.net # None =>
        /\ c.net = c.native + c.collateral - c.loan + c.spark + c.vaults
                   + (TotalEquity(c) + UnlistedEquity(m))
        /\ \A v \in Venues \ ListedVenues(m) :
              EquityOf(newest.row, v) # None /\ FundsAreListed(newest.first, v) => EquityOf(m, v) = 0
=============================================================================
