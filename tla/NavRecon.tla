------------------------------ MODULE NavRecon ------------------------------
(***************************************************************************)
(* Reconciling a report with NAV Fund Services: navfund/client.py asks for *)
(* a fund's positions, mapping.py and normalize.py bring them to our       *)
(* categories, locations and assets, recon.py puts the two books side by   *)
(* side, and tracker/services/gsheets.py and slack_alert.py publish the    *)
(* result in the Detail tab and in a message.                              *)
(*                                                                         *)
(* A catalog is the sequence of the Detail tab's rows,                     *)
(* [kind, category, where, asset, qty, price, value]; a fund's answer is a *)
(* sequence of [account, ticker, qty, value], the value in the fund's base *)
(* currency.  Names are strings; two spellings of one name differ in case  *)
(* or spaces.                                                              *)
(***************************************************************************)
EXTENDS Integers, Sequences, SequencesExt, FiniteSetsExt, Functions

CONSTANTS
    None,        \* a missing value
    Failed,      \* the result of a segment whose fund did not answer
    Segments,    \* segments, in the order of the report
    Spellings,   \* sets of spellings of one name
    AccountMap,  \* account_map.yaml: [category, location, tickers, overrides] by account
    BasePrice,   \* USD price of a segment's base asset
    Catalogs,    \* catalogs a segment may have; << >>: no data
    Answers      \* positions a segment's fund may report

Threshold == 1
Retries == 2

VARIABLES catalog, \* per segment, from the report
          asked,   \* "funds", the segment asked for, or "done"
          attempt, \* of the request under way
          answer,  \* per segment reconciled: what its fund reported, or Failed
          recon    \* per segment reconciled, or None: no reconciliation

reconVars == <<catalog, asked, attempt, answer, recon>>

-----------------------------------------------------------------------------
(* What the report and the funds may say. *)

Kinds == {"banner", "wallet", "asset", "perp", "summary"}

CatalogRows ==
    [kind : Kinds, category : STRING, where : STRING, asset : STRING,
     qty : Int \cup {None}, price : Int \cup {None}, value : Int \cup {None}]

AnswerRows == [account : STRING, ticker : STRING, qty : Int, value : Int]

ASSUME ReconAssumption ==
    /\ None \notin Int \cup {"BREAK"}
    /\ Segments \in Seq(STRING \ {"funds", "done"})
    /\ \A s \in ToSet(Segments) :
         /\ Catalogs[s] \subseteq Seq(CatalogRows)
         /\ Answers[s] \subseteq Seq(AnswerRows)
         /\ BasePrice[s] \in Int

Or0(x) == IF x = None THEN 0 ELSE x
Mag(n) == IF n < 0 THEN -n ELSE n

\* Columns of a catalog or an answer, to be added up.
Quantities(lines) == [i \in DOMAIN lines |-> Or0(lines[i].qty)]
Values(lines) == [i \in DOMAIN lines |-> Or0(lines[i].value)]

-----------------------------------------------------------------------------
(* Keys. *)

\* Case and spaces do not count.
NormalizeKey(name) ==
    IF \E s \in Spellings : name \in s THEN CHOOSE s \in Spellings : name \in s ELSE {name}

Key(category, location, asset) ==
    <<NormalizeKey(category), NormalizeKey(location), NormalizeKey(asset)>>

Matching(name, f) == {n \in DOMAIN f : NormalizeKey(n) = NormalizeKey(name)}

\* Ours for an account and a ticker of theirs; None for an account not mapped.
Resolve(account, ticker) ==
    IF Matching(account, AccountMap) = {} THEN None
    ELSE LET entry == AccountMap[CHOOSE a \in Matching(account, AccountMap) : TRUE]
             named == Matching(ticker, entry.tickers)
             moved == Matching(ticker, entry.overrides)
             asset == IF named = {} THEN ticker ELSE entry.tickers[CHOOSE t \in named : TRUE]
         IN IF moved = {}
              THEN [category |-> entry.category, location |-> entry.location, asset |-> asset]
            ELSE LET over == entry.overrides[CHOOSE t \in moved : TRUE]
                 IN IF over.asset = None THEN [over EXCEPT !.asset = asset] ELSE over

-----------------------------------------------------------------------------
(* Our side. *)

\* Custody and venue rows belong to the header above them in their section.
Location(c, i) ==
    LET headers == {h \in 1..i : c[h].kind = "wallet" /\ c[h].category = c[i].category}
    IN IF c[i].category \in {"Aave position", "Spark Savings"} THEN c[i].where
       ELSE IF headers = {} THEN "" ELSE c[Max(headers)].where

RowKey(c, i) == Key(c[i].category, Location(c, i), c[i].asset)

\* Perpetuals count as positions, totals do not.
Positions(c) == {i \in DOMAIN c : c[i].kind \in {"asset", "perp"}}

FlattenOurs(c) ==
    [k \in {RowKey(c, i) : i \in Positions(c)} |->
        LET same == {i \in Positions(c) : RowKey(c, i) = k}
            priced == {i \in same : c[i].price # None}
            valued == {i \in same : c[i].value # None}
        IN [category |-> c[Min(same)].category, asset |-> c[Min(same)].asset,
            qty |-> SumFunctionOnSet(Quantities(c), same),
            usd |-> IF valued = {} THEN None ELSE SumFunctionOnSet(Values(c), valued),
            price |-> IF priced = {} THEN None ELSE c[Min(priced)].price]]

-----------------------------------------------------------------------------
(* Their side. *)

Mapped(raw) == {i \in DOMAIN raw : Resolve(raw[i].account, raw[i].ticker) # None}
Unmapped(raw) == DOMAIN raw \ Mapped(raw)
Ours(raw, i) == Resolve(raw[i].account, raw[i].ticker)

\* Rows of one location and asset, as they are spelled.
SamePlace(raw, i) ==
    {j \in Mapped(raw) : /\ Ours(raw, j).location = Ours(raw, i).location
                        /\ Ours(raw, j).asset = Ours(raw, i).asset}

-----------------------------------------------------------------------------
(* Bugs the properties must catch; nothing below uses them. *)

\* An account's second row for a place replaces the first.
BucketLast(raw, i) ==
    LET same == SamePlace(raw, i)
    IN [first |-> Min(same), category |-> Ours(raw, Min(same)).category,
        location |-> Ours(raw, i).location, asset |-> Ours(raw, i).asset,
        qty |-> raw[Max(same)].qty, base |-> raw[Max(same)].value]

\* Their quantity is valued at the price of the segment's base asset.
NavUsdAtBase(ours, navs, k, base) == IF k \in DOMAIN navs THEN navs[k].base * base ELSE None

\* Positions of theirs alone are listed when they are breaks.
ListedIfFlagged(r) == r.presence = "NAV only" /\ r.flagged

-----------------------------------------------------------------------------
\* They make one bucket, of the category of the first.
Bucket(raw, i) ==
    LET same == SamePlace(raw, i)
    IN [first |-> Min(same), category |-> Ours(raw, Min(same)).category,
        location |-> Ours(raw, i).location, asset |-> Ours(raw, i).asset,
        qty |-> SumFunctionOnSet(Quantities(raw), same),
        base |-> SumFunctionOnSet(Values(raw), same)]

RollupByAsset(raw) == {Bucket(raw, i) : i \in Mapped(raw)}
BucketKey(b) == Key(b.category, b.location, b.asset)
BucketsAt(raw, k) == {b \in RollupByAsset(raw) : BucketKey(b) = k}

\* Of buckets with one key the last is kept.
FlattenNav(raw) ==
    [k \in {BucketKey(b) : b \in RollupByAsset(raw)} |->
        CHOOSE b \in BucketsAt(raw, k) : \A other \in BucketsAt(raw, k) : other.first <= b.first]

-----------------------------------------------------------------------------
(* Side by side. *)

\* Their quantity at our price for the row, if there is one.
NavUsd(ours, navs, k, base) ==
    IF k \notin DOMAIN navs THEN None
    ELSE IF k \in DOMAIN ours /\ Or0(ours[k].price) # 0 THEN navs[k].qty * ours[k].price
    ELSE navs[k].base * base

OurUsd(ours, k) == IF k \in DOMAIN ours THEN ours[k].usd ELSE None

AToken(asset) == asset \in {"ETH:AETHWBTC", "AETHWBTC"}

\* The aToken and the Aave position it stands for are each on one side only.
Structural(ours, navs, k) ==
    LET source == IF k \in DOMAIN ours THEN ours[k] ELSE navs[k]
    IN \/ AToken(source.asset) /\ OurUsd(ours, k) = None
       \/ source.category = "Aave position" /\ k \notin DOMAIN navs

RowOf(ours, navs, k, base) ==
    LET both == k \in DOMAIN ours \cap DOMAIN navs
        diff == Or0(OurUsd(ours, k)) - Or0(NavUsd(ours, navs, k, base))
        structural == Structural(ours, navs, k)
    IN [presence |-> IF both THEN "both"
                     ELSE IF k \in DOMAIN ours THEN "ours only" ELSE "NAV only",
        navQty |-> IF k \in DOMAIN navs THEN navs[k].qty ELSE None,
        navBase |-> IF k \in DOMAIN navs THEN navs[k].base ELSE None,
        diffQty |-> IF both THEN ours[k].qty - navs[k].qty ELSE None,
        diffUsd |-> diff,
        structural |-> structural,
        flagged |-> ~structural /\ Mag(diff) > Threshold]

\* reconcile_segment: a row for every key of either side.
ReconcileSegment(c, raw, base) ==
    LET ours == FlattenOurs(c)
        navs == FlattenNav(raw)
    IN [k \in DOMAIN ours \cup DOMAIN navs |-> RowOf(ours, navs, k, base)]

Differences(rows) == [k \in DOMAIN rows |-> rows[k].diffUsd]
DiffTotal(rows) == SumFunction(Differences(rows))
Flagged(rows) == {k \in DOMAIN rows : rows[k].flagged}

-----------------------------------------------------------------------------
(* The Detail tab: [role, nav, diff, flag], empty cells None. *)

Line(role) == [role |-> role, nav |-> None, diff |-> None, flag |-> None]

ReconCells(role, r) ==
    [role |-> role, nav |-> r.navBase, diff |-> r.diffUsd,
     flag |-> IF r.flagged THEN "BREAK"
              ELSE IF role = "asset" /\ r.structural THEN "expected" ELSE None]

\* Perpetuals have no cells.
CatalogLine(c, i, rows) ==
    IF c[i].kind = "asset" THEN ReconCells("asset", rows[RowKey(c, i)])
    ELSE Line(IF c[i].kind = "perp" THEN "asset" ELSE c[i].kind)

\* A zero row of theirs is no position.
Listed(r) ==
    /\ r.presence = "NAV only"
    /\ r.flagged \/ Or0(r.navQty) # 0 \/ Or0(r.navBase) # 0

ListedKeys(rows) == {k \in DOMAIN rows : Listed(rows[k])}

NavOnlyLines(rows) ==
    LET keys == SetToSeq(ListedKeys(rows))
    IN [i \in DOMAIN keys |-> ReconCells("navonly", rows[keys[i]])]

UnmappedLines(raw) ==
    LET left == SetToSeq(Unmapped(raw))
    IN [i \in DOMAIN left |-> [Line("unmapped") EXCEPT !.nav = raw[left[i]].value]]

FooterLine(raw, rows) ==
    [Line("footer") EXCEPT !.nav = SumFunctionOnSet(Values(raw), Mapped(raw)),
                           !.diff = DiffTotal(rows)]

\* A segment without a result keeps its own rows; one without data is one row.
SegmentLines(c, raw, rows) ==
    IF c = << >> THEN <<Line("asset")>>
    ELSE IF rows = None THEN [i \in DOMAIN c |-> Line(c[i].kind)] \o <<Line("footer")>>
    ELSE [i \in DOMAIN c |-> CatalogLine(c, i, rows)]
         \o <<FooterLine(raw, rows)>> \o NavOnlyLines(rows) \o UnmappedLines(raw)

ResultOf(seg) ==
    IF recon = None \/ seg \notin DOMAIN recon \/ recon[seg] = Failed THEN None ELSE recon[seg]
RawOf(seg) == IF ResultOf(seg) = None THEN << >> ELSE answer[seg]

Detail ==
    <<Line("stamp"), Line("header")>>
    \o FlattenSeq([i \in DOMAIN Segments |->
         SegmentLines(catalog[Segments[i]], RawOf(Segments[i]), ResultOf(Segments[i]))
         \o <<Line("spacer")>>])
    \o <<Line("total")>>

\* The rows the rule for breaks colours.  Its formula names row 2 and its range
\* begins at row 3, so each row is coloured by the flag of the row above it.
Highlighted == {i \in 3..Len(Detail) : Detail[i - 1].flag = "BREAK"}

\* What the message says of a segment.
SlackLine(seg) ==
    IF catalog[seg] = << >> THEN "no data"
    ELSE IF recon = None \/ seg \notin DOMAIN recon THEN "unreconciled"
    ELSE IF recon[seg] = Failed THEN "failed"
    ELSE IF Flagged(recon[seg]) # {} THEN "issue" ELSE "reconciled"

-----------------------------------------------------------------------------
(* Asking. *)

NoResult == [s \in {} |-> None]

\* Segments without data are not asked for.
After(n) ==
    LET left == {i \in DOMAIN Segments : i > n /\ catalog[Segments[i]] # << >>}
    IN IF left = {} THEN "done" ELSE Segments[Min(left)]
Index(seg) == CHOOSE i \in DOMAIN Segments : Segments[i] = seg

ReconInit ==
    /\ catalog \in {c \in [ToSet(Segments) -> UNION {Catalogs[s] : s \in DOMAIN Catalogs}] :
                      \A s \in DOMAIN c : c[s] \in Catalogs[s]}
    /\ asked = "funds" /\ attempt = 1
    /\ answer = NoResult /\ recon = NoResult

FundList ==
    /\ asked = "funds"
    /\ asked' = After(0) /\ attempt' = 1
    /\ UNCHANGED <<catalog, answer, recon>>

Answered ==
    /\ asked \in ToSet(Segments)
    /\ \E raw \in Answers[asked] :
         /\ answer' = [s \in DOMAIN answer \cup {asked} |-> IF s = asked THEN raw ELSE answer[s]]
         /\ recon' = [s \in DOMAIN recon \cup {asked} |->
                        IF s = asked THEN ReconcileSegment(catalog[s], raw, BasePrice[s]) ELSE recon[s]]
    /\ asked' = After(Index(asked)) /\ attempt' = 1
    /\ UNCHANGED catalog

\* No connection, or a server's error: once more, signed anew.
Retry ==
    /\ asked # "done" /\ attempt < Retries
    /\ attempt' = attempt + 1
    /\ UNCHANGED <<catalog, asked, answer, recon>>

\* The last attempt failed, or the gateway refused: without the list of funds
\* nothing is reconciled, without its positions one segment is not.
GiveUp ==
    /\ asked # "done"
    /\ IF asked = "funds"
         THEN recon' = None /\ asked' = "done" /\ UNCHANGED answer
         ELSE /\ recon' = [s \in DOMAIN recon \cup {asked} |-> IF s = asked THEN Failed ELSE recon[s]]
              /\ answer' = [s \in DOMAIN answer \cup {asked} |-> IF s = asked THEN Failed ELSE answer[s]]
              /\ asked' = After(Index(asked))
    /\ attempt' = 1
    /\ UNCHANGED catalog

\* The list has no such fund, or no date of it: found out before the segment is
\* asked for and outside its try, so that the whole reconciliation is dropped.
FundUndated ==
    /\ asked \in ToSet(Segments) /\ attempt = 1
    /\ recon' = None /\ asked' = "done"
    /\ UNCHANGED <<catalog, attempt, answer>>

Published == asked = "done" /\ UNCHANGED reconVars

ReconNext == FundList \/ Answered \/ Retry \/ GiveUp \/ FundUndated \/ Published

ReconSpec == ReconInit /\ [][ReconNext]_reconVars

-----------------------------------------------------------------------------
(* Properties of what is published. *)

Reconciled == {s \in ToSet(Segments) : ResultOf(s) # None}

\* Rows of one wallet or venue that share a key, as two vault shares of one
\* symbol do, and rows of perpetuals.
Twins(c) == \E i, j \in Positions(c) : i # j /\ RowKey(c, i) = RowKey(c, j)
Perps(c) == \E i \in DOMAIN c : c[i].kind = "perp"

\* Each place of ours has one spelling in the answer.
OneSpelling(raw) ==
    \A i, j \in Mapped(raw) :
      /\ NormalizeKey(Ours(raw, i).location) = NormalizeKey(Ours(raw, j).location)
      /\ NormalizeKey(Ours(raw, i).asset) = NormalizeKey(Ours(raw, j).asset)
      => j \in SamePlace(raw, i)

\* A position of theirs has the key of a perpetual.
PerpMatched(c, raw) ==
    \E i \in Positions(c) : c[i].kind = "perp" /\ RowKey(c, i) \in DOMAIN FlattenNav(raw)

Block(s) == SegmentLines(catalog[s], RawOf(s), ResultOf(s))

\* The columns of a segment's lines without their footer.
NavColumn(lines) == [i \in DOMAIN lines |-> IF lines[i].role = "footer" THEN 0 ELSE Or0(lines[i].nav)]
DiffColumn(lines) == [i \in DOMAIN lines |-> IF lines[i].role = "footer" THEN 0 ELSE Or0(lines[i].diff)]

\* Everything the fund reports is in the tab once: beside a row of ours, in a
\* row of its own, or among the unmapped accounts (recon.py:20, normalize.py:15:
\* nothing is dropped).  It takes one spelling for each place, one row for each
\* asset of ours, and no position of theirs beside a perpetual, which has no cells.
NothingIsLost ==
    asked = "done" => \A s \in Reconciled :
      OneSpelling(RawOf(s)) /\ ~Twins(catalog[s]) /\ ~PerpMatched(catalog[s], RawOf(s)) =>
        SumFunction(NavColumn(Block(s))) = SumFunction(Values(RawOf(s)))

\* The column of differences adds up to the footer, and the message calls out
\* a segment exactly when a row of it reads BREAK (recon.py:160-162,
\* gsheets.py:387-388); a perpetual's difference counts but is not shown.
SheetAddsUp ==
    asked = "done" => \A s \in Reconciled :
      ~Twins(catalog[s]) /\ ~Perps(catalog[s]) =>
        /\ SumFunction(DiffColumn(Block(s))) = DiffTotal(ResultOf(s))
        /\ SlackLine(s) = "issue" <=> \E i \in DOMAIN Block(s) : Block(s)[i].flag = "BREAK"

\* When the quantities agree and our row is priced, the price the fund used
\* makes no difference and no break: what the comment at the choice says
\* (recon.py:142-151).  The module's docstring (13-18) says the opposite, that
\* diff_usd is then "non-zero even when quantities agree".
PriceDriftIsNoBreak ==
    asked = "done" => \A s \in Reconciled :
      \A k \in DOMAIN ResultOf(s) :
        LET ours == FlattenOurs(catalog[s])[k]
        IN ResultOf(s)[k].diffQty = 0 /\ Or0(ours.price) # 0 /\ ours.usd = ours.qty * ours.price
             => ResultOf(s)[k].diffUsd = 0 /\ ~ResultOf(s)[k].flagged

-----------------------------------------------------------------------------
(* What the repository says and the code does not do. *)

\* The rows coloured as breaks are the rows that read BREAK
\* (sheet_format.py:212-214).
HighlightedRowsAreBreaks ==
    asked = "done" => Highlighted = {i \in DOMAIN Detail : Detail[i].flag = "BREAK"}
=============================================================================
