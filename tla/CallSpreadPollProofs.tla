--------------------------- MODULE CallSpreadPollProofs ------------------------
(***************************************************************************)
(* What comes of a CallSpread poll, for any number of polls and failures.  *)
(*                                                                         *)
(* CallSpreadBook, its snapshot, for any codes, quotes and fills: the      *)
(* alert rules grade as the screen does, and the profit on screen is the   *)
(* book's.                                                                 *)
(*                                                                         *)
(* HistoryStore, the point it leaves in the history, for any number of     *)
(* threads, points and kills: appends survive until they expire, and a     *)
(* chart is whole.                                                         *)
(***************************************************************************)
EXTENDS CallSpreadBook, HistoryStore, SumTheorems

Trades == Seq([code : Codes, premium : Int])
Books == [qty : [Codes -> Int], usdt : Int, margin : Int]
Readings ==
    {p \in [book : Books, market : Markets, legs : SUBSET Codes] :
        p.legs = {c \in Codes : p.book.qty[c] # 0}}

\* What the variables hold.
TypeInv ==
    /\ book \in Books /\ market \in Markets
    /\ fills \in Trades /\ cash \in Int
    /\ token \in {"none", "live", "revoked"} /\ stage \in {"idle", "positions", "trades"}
    /\ tries \in {0, 1}
    /\ stage = "trades" => read \in Readings
    /\ shown \in Snapshots \cup {None}
    /\ poll \in [n : Int, faulty : BOOLEAN, revoked : Int, traded : BOOLEAN, worth : Int]

-----------------------------------------------------------------------------
(* The figures of one reading. *)

\* What a quote consists of.
LEMMA QuotesType ==
    ASSUME NEW m \in Markets
    PROVE  /\ m.spot \in Nat \ {0} /\ m.mark \in [Codes -> Int] /\ m.delta \in [Codes -> Int]
           /\ m.dte \in Int
BY BookAssumption

\* What a reading consists of, and that its legs can be counted up.
LEMMA ReadingType ==
    ASSUME NEW p \in Readings
    PROVE  /\ p.book.qty \in [Codes -> Int] /\ p.book.usdt \in Int /\ p.book.margin \in Int
           /\ p.market.spot \in Int /\ p.market.mark \in [Codes -> Int] /\ p.market.dte \in Int
           /\ p.legs \subseteq Codes /\ p.legs = {c \in Codes : p.book.qty[c] # 0}
           /\ IsFiniteSet(p.legs) /\ IsFiniteSet(Shorts(p))
<1>1. p.market \in Markets /\ p.book \in Books /\ p.legs \subseteq Codes
      /\ p.legs = {c \in Codes : p.book.qty[c] # 0}
  BY DEF Readings
<1>2. IsFiniteSet(p.legs)
  BY <1>1, BookAssumption, FS_Subset
<1>3. Shorts(p) \subseteq p.legs
  BY DEF Shorts
<1>4. IsFiniteSet(Shorts(p))
  BY <1>2, <1>3, FS_Subset
<1>5. QED
  BY <1>1, <1>2, <1>4, QuotesType DEF Books

\* Coin held, reserved and available are numbers.
LEMMA FiguresType ==
    ASSUME NEW p \in Readings
    PROVE  Held(p) \in Int /\ Reserved(p) \in Int /\ Available(p) \in Int
<1>1. SumFunctionOnSet(p.book.qty, Shorts(p)) \in Int
  <2>1. \A c \in Shorts(p) : p.book.qty[c] \in Int
    BY ReadingType DEF Shorts
  <2>2. QED
    BY <2>1, ReadingType, SumType
<1>2. Reserved(p) \in Int
  BY <1>1, ReadingType, BookAssumption DEF Reserved, CoverageRatio
<1>3. Held(p) \in Int
  BY ReadingType, BookAssumption DEF Held
<1>4. QED
  BY <1>2, <1>3 DEF Available

\* A position of every code has a value.
LEMMA MarkValueType ==
    ASSUME NEW p \in Readings
    PROVE  MarkValue(p) \in [Codes -> Int]
BY ReadingType DEF MarkValue

\* The alerts compute again what the screen shows, from the same figures.
LEMMA SnapshotAgrees ==
    ASSUME NEW p \in Readings, NEW trades, 0 < Policy.floor
    PROVE  LET s == Snapshot(p, trades) IN
           /\ s.rules.delta = "critical" <=> s.status \in {"critical", "unknown"}
           /\ s.rules.delta = "warning" <=> s.status = "warning"
           /\ s.rules.coverage = "critical" <=> ~s.covered
           /\ s.rules.roll = "critical" <=> s.roll = "critical"
           /\ s.rules.roll = "good" <=> s.roll = "good"
<1> DEFINE s == Snapshot(p, trades)
<1>1. /\ s.status = DeltaStatus(p) /\ s.covered = (Available(p) >= 0) /\ s.roll = RollStatus(p)
      /\ s.rules.delta = DeltaRule(p) /\ s.rules.coverage = CoverageRule(p)
      /\ s.rules.roll = RollRule(p)
  BY DEF Snapshot
<1>2. /\ DeltaRule(p) = "critical" <=> DeltaStatus(p) \in {"critical", "unknown"}
      /\ DeltaRule(p) = "warning" <=> DeltaStatus(p) = "warning"
  BY DEF DeltaRule, DeltaStatus
<1>3. CoverageRule(p) = "critical" <=> ~(Available(p) >= 0)
  <2>1. Available(p) < 0 <=> ~(Available(p) >= 0)
    BY FiguresType
  <2>2. QED
    BY <2>1 DEF CoverageRule
<1>4. /\ RollRule(p) = "critical" <=> RollStatus(p) = "critical"
      /\ RollRule(p) = "good" <=> RollStatus(p) = "good"
  BY DEF RollRule
<1>5. QED
  BY <1>1, <1>2, <1>3, <1>4

-----------------------------------------------------------------------------
(* The profit. *)

\* The premium of every fill.
Premiums(fs) == [i \in DOMAIN fs |-> fs[i].premium]

\* Fills are numbered from 1 and have a code and a premium.
LEMMA FillsType ==
    ASSUME NEW fs \in Trades
    PROVE  /\ IsFiniteSet(DOMAIN fs) /\ DOMAIN fs = 1..Len(fs) /\ Len(fs) \in Nat
           /\ \A i \in DOMAIN fs : fs[i].code \in Codes /\ fs[i].premium \in Int
<1>1. Len(fs) \in Nat /\ DOMAIN fs = 1..Len(fs)
  BY DEF Trades
<1>2. IsFiniteSet(1..Len(fs))
  BY <1>1, FS_Interval
<1> DEFINE F == [code : Codes, premium : Int]
<1>3. fs \in Seq(F)
  BY DEF Trades
<1>4. \A i \in DOMAIN fs : fs[i] \in F
  <2> HIDE DEF F
  <2>1. QED
    BY <1>1, <1>3
<1>5. QED
  BY <1>1, <1>2, <1>4

\* The premium of a code is a number, whichever fills were fetched.
LEMMA PremiumType ==
    ASSUME fills \in Trades, NEW trades \in SUBSET DOMAIN fills, NEW c
    PROVE  Premium(trades, c) \in Int
<1> DEFINE f == [i \in trades |-> IF fills[i].code = c THEN fills[i].premium ELSE 0]
<1>1. \A i \in trades : f[i] \in Int
  BY FillsType
<1>2. IsFiniteSet(trades)
  BY FillsType, FS_Subset
<1>3. SumFunctionOnSet(f, trades) \in Int
  <2> HIDE DEF f
  <2>1. QED
    BY <1>1, <1>2, SumType
<1>4. QED
  BY <1>3 DEF Premium

\* Only known codes are traded.
LEMMA TradedType ==
    ASSUME fills \in Trades, NEW trades \in SUBSET DOMAIN fills
    PROVE  Traded(trades) \subseteq Codes
BY FillsType DEF Traded

\* What a leg has realized, without the case that it was never traded.
Realized(trades, legs) ==
    [c \in legs \cup Traded(trades) |-> IF c \in Traded(trades) THEN Premium(trades, c) ELSE 0]

\* The two parts of the profit as sums over one set, None cleared away.
LEMMA PnlIs ==
    ASSUME fills \in Trades, NEW trades \in SUBSET DOMAIN fills, NEW p \in Readings
    PROVE  /\ Pnl(p, trades).realized
                = IF trades = {} THEN p.book.usdt
                  ELSE SumFunctionOnSet(Realized(trades, p.legs), p.legs \cup Traded(trades))
           /\ Pnl(p, trades).unrealized = SumFunctionOnSet(MarkValue(p), p.legs)
<1> DEFINE legs == PnlLegs(p, trades)
<1> DEFINE r == [c \in DOMAIN legs |-> IF legs[c].realized = None THEN 0 ELSE legs[c].realized]
<1>1. DOMAIN legs = p.legs \cup Traded(trades)
  BY DEF PnlLegs
<1>2. \A c \in DOMAIN legs : legs[c].realized = IF c \in Traded(trades) THEN Premium(trades, c) ELSE None
  BY DEF PnlLegs
<1>3. None \notin Int
  BY BookAssumption
<1>4. \A c \in DOMAIN legs : (IF legs[c].realized = None THEN 0 ELSE legs[c].realized)
                              = IF c \in Traded(trades) THEN Premium(trades, c) ELSE 0
  <2> HIDE DEF legs
  <2>1. QED
    BY <1>2, <1>3, PremiumType
<1>5. r = Realized(trades, p.legs)
  <2> HIDE DEF legs
  <2>1. QED
    BY <1>1, <1>4 DEF Realized
<1>6. DOMAIN r = p.legs \cup Traded(trades)
  BY <1>1
<1>7. Pnl(p, trades).realized = IF trades = {} THEN p.book.usdt ELSE SumFunctionOnSet(r, DOMAIN r)
  BY DEF Pnl, SumFunction
<1>8. Pnl(p, trades).unrealized = SumFunctionOnSet(MarkValue(p), p.legs)
  BY DEF Pnl
<1>9. QED
  <2> HIDE DEF r
  <2>1. QED
    BY <1>5, <1>6, <1>7, <1>8

\* What the legs have realized can be summed up.
LEMMA RealizedType ==
    ASSUME fills \in Trades, NEW trades \in SUBSET DOMAIN fills, NEW legs \in SUBSET Codes
    PROVE  /\ IsFiniteSet(legs \cup Traded(trades)) /\ IsFiniteSet(Traded(trades))
           /\ \A c \in legs \cup Traded(trades) : Realized(trades, legs)[c] \in Int
<1>1. legs \cup Traded(trades) \subseteq Codes
  BY TradedType
<1>2. IsFiniteSet(legs \cup Traded(trades)) /\ IsFiniteSet(Traded(trades))
  BY <1>1, TradedType, BookAssumption, FS_Subset
<1>3. QED
  BY <1>2, PremiumType DEF Realized

\* The profit is two numbers.
LEMMA PnlType ==
    ASSUME fills \in Trades, NEW trades \in SUBSET DOMAIN fills, NEW p \in Readings
    PROVE  Pnl(p, trades) \in [realized : Int, unrealized : Int]
<1>1. Pnl(p, trades).realized \in Int
  <2>1. SumFunctionOnSet(Realized(trades, p.legs), p.legs \cup Traded(trades)) \in Int
    BY ReadingType, RealizedType, SumType
  <2>2. QED
    BY <2>1, PnlIs, ReadingType
<1>2. Pnl(p, trades).unrealized \in Int
  <2>1. \A c \in p.legs : MarkValue(p)[c] \in Int
    BY MarkValueType, ReadingType
  <2>2. SumFunctionOnSet(MarkValue(p), p.legs) \in Int
    BY <2>1, ReadingType, SumType
  <2>3. QED
    BY <2>2, PnlIs
<1>3. \E r, u : Pnl(p, trades) = [realized |-> r, unrealized |-> u]
  BY DEF Pnl
<1>4. QED
  BY <1>1, <1>2, <1>3

\* A snapshot of a reading has the fields the screen shows.
LEMMA SnapshotType ==
    ASSUME fills \in Trades, NEW trades \in SUBSET DOMAIN fills, NEW p \in Readings
    PROVE  Snapshot(p, trades) \in Snapshots
<1>1. Pnl(p, trades) \in [realized : Int, unrealized : Int]
  BY PnlType
<1>2. DeltaStatus(p) \in Grades \cup {"unknown"} /\ RollStatus(p) \in Grades \cup {"unknown"}
  BY DEF DeltaStatus, RollStatus, Grades
<1>3. /\ DeltaRule(p) \in Grades /\ CoverageRule(p) \in Grades /\ StrikeRule(p) \in Grades
      /\ RollRule(p) \in Grades
      /\ (IF MarksInverted(p) THEN "warning" ELSE "good") \in Grades
  BY <1>2 DEF DeltaRule, CoverageRule, StrikeRule, RollRule, Grades
<1>4. QED
  BY <1>1, <1>2, <1>3 DEF Snapshot, Snapshots, Rules

\* Of all fills, the premium realized by the legs is the premium received.
LEMMA RealizedIsCash ==
    ASSUME fills \in Trades, NEW legs \in SUBSET Codes
    PROVE  SumFunctionOnSet(Realized(DOMAIN fills, legs), legs \cup Traded(DOMAIN fills))
             = SumFunctionOnSet(Premiums(fills), DOMAIN fills)
<1> DEFINE D == DOMAIN fills
<1> DEFINE K == Traded(D)
<1> DEFINE f == Premiums(fills)
<1> DEFINE key == [i \in D |-> fills[i].code]
<1> DEFINE g == Realized(D, legs)
<1> DEFINE by == [k \in K |-> SumFunctionOnSet([i \in D |-> IF key[i] = k THEN f[i] ELSE 0], D)]
<1>1. IsFiniteSet(D) /\ IsFiniteSet(K) /\ \A i \in D : f[i] \in Int /\ key[i] \in K
  BY FillsType, RealizedType DEF Premiums, Traded
<1>2. SumFunctionOnSet(by, K) = SumFunctionOnSet(f, D)
  <2> HIDE DEF D, K, f, key
  <2>1. QED
    BY <1>1, SumByKey
<1>3. \A c \in K : g[c] = by[c]
  <2>1. SUFFICES ASSUME NEW c \in K PROVE g[c] = by[c]
    OBVIOUS
  <2>2. g[c] = Premium(D, c)
    BY DEF Realized
  <2>3. [i \in D |-> IF fills[i].code = c THEN fills[i].premium ELSE 0]
          = [i \in D |-> IF key[i] = c THEN f[i] ELSE 0]
    BY DEF Premiums
  <2>4. QED
    BY <2>2, <2>3 DEF Premium
<1>4. SumFunctionOnSet(g, K) = SumFunctionOnSet(by, K)
  <2> HIDE DEF g, by, K
  <2>1. QED
    BY <1>1, <1>3, SumAgrees
<1>5. SumFunctionOnSet(g, legs \cup K) = SumFunctionOnSet(g, K)
  <2>1. IsFiniteSet(legs \cup K) /\ \A c \in legs \cup K : g[c] \in Int
    BY RealizedType
  <2>2. K \subseteq legs \cup K /\ \A c \in (legs \cup K) \ K : g[c] = 0
    BY DEF Realized
  <2> HIDE DEF g, K
  <2>3. QED
    BY <2>1, <2>2, SumOfTheRest
<1>6. QED
  BY <1>2, <1>4, <1>5

\* The legs that are not held are worth nothing.
LEMMA UnrealizedIsWorth ==
    ASSUME NEW p \in Readings
    PROVE  SumFunctionOnSet(MarkValue(p), p.legs) = SumFunctionOnSet(MarkValue(p), Codes)
<1>1. \A c \in Codes : MarkValue(p)[c] \in Int
  BY MarkValueType
<1>2. \A c \in Codes \ p.legs : MarkValue(p)[c] = 0
  BY ReadingType DEF MarkValue
<1>3. QED
  BY <1>1, <1>2, ReadingType, BookAssumption, SumOfTheRest

\* With every fill at hand, the profit is what was received plus what is held.
LEMMA PnlOfAll ==
    ASSUME fills \in Trades, NEW p \in Readings, cash \in Int,
           cash = SumFunctionOnSet(Premiums(fills), DOMAIN fills),
           fills = << >> => p.book.usdt = 0
    PROVE  LET s == Snapshot(p, DOMAIN fills)
           IN s.pnl.realized + s.pnl.unrealized = cash + SumFunction(MarkValue(p))
<1>1. Snapshot(p, DOMAIN fills).pnl = Pnl(p, DOMAIN fills)
  BY DEF Snapshot
<1>2. Pnl(p, DOMAIN fills).realized = cash
  <2>1. CASE DOMAIN fills = {}
    <3>1. fills = << >>
      BY <2>1 DEF Trades
    <3>2. cash = 0
      BY <2>1, SumOfNone
    <3>3. QED
      BY <2>1, <3>1, <3>2, PnlIs
  <2>2. CASE DOMAIN fills # {}
    BY <2>2, PnlIs, RealizedIsCash, ReadingType
  <2>3. QED
    BY <2>1, <2>2
<1>3. Pnl(p, DOMAIN fills).unrealized = SumFunctionOnSet(MarkValue(p), Codes)
  BY PnlIs, UnrealizedIsWorth
<1>4. SumFunction(MarkValue(p)) = SumFunctionOnSet(MarkValue(p), Codes)
  BY DEF SumFunction, MarkValue
<1>5. QED
  BY <1>1, <1>2, <1>3, <1>4

-----------------------------------------------------------------------------
(* The types, action by action. *)

\* A fill changes the books by whole contracts and its premium.
LEMMA TradeType ==
    ASSUME TypeInv, NEW c \in Codes, NEW sell \in BOOLEAN, Trade(c, sell)
    PROVE  TypeInv'
<1> DEFINE premium == IF sell THEN market.mark[c] ELSE -market.mark[c]
<1>1. premium \in Int
  BY QuotesType DEF TypeInv
<1>2. fills' = Append(fills, [code |-> c, premium |-> premium])
      /\ book' = [book EXCEPT !.qty[c] = IF sell THEN @ - 1 ELSE @ + 1, !.usdt = @ + premium]
      /\ cash' = cash + premium /\ poll' = [poll EXCEPT !.traded = @ \/ stage = "trades"]
      /\ UNCHANGED <<market, token, stage, tries, read, shown>>
  BY DEF Trade
<1> HIDE DEF premium
<1>3. fills' \in Trades
  <2> DEFINE F == [code : Codes, premium : Int]
  <2>1. [code |-> c, premium |-> premium] \in F
    BY <1>1
  <2>2. fills \in Seq(F)
    BY DEF TypeInv, Trades
  <2>3. Append(fills, [code |-> c, premium |-> premium]) \in Seq(F)
    <3> HIDE DEF F
    <3>1. QED
      BY <2>1, <2>2
  <2>4. QED
    BY <1>2, <2>3 DEF Trades
<1>4. book' \in Books
  <2>1. book.qty[c] \in Int /\ book.usdt \in Int /\ book \in Books
    BY DEF TypeInv, Books
  <2>2. (IF sell THEN book.qty[c] - 1 ELSE book.qty[c] + 1) \in Int /\ book.usdt + premium \in Int
    BY <1>1, <2>1
  <2>3. QED
    BY <1>2, <2>1, <2>2 DEF Books
<1>5. cash' \in Int
  BY <1>1, <1>2 DEF TypeInv
<1>6. poll' \in [n : Int, faulty : BOOLEAN, revoked : Int, traded : BOOLEAN, worth : Int]
  BY <1>2 DEF TypeInv
<1>7. QED
  BY <1>2, <1>3, <1>4, <1>5, <1>6 DEF TypeInv

\* Conversions, moves of the market and revoked tokens keep the types.
LEMMA WorldType ==
    ASSUME TypeInv, Convert \/ Move \/ Revoke
    PROVE  TypeInv'
<1>1. CASE Convert
  <2>1. market.spot \in Int
    BY QuotesType DEF TypeInv
  <2>2. book' \in Books
    <3>1. book' = [book EXCEPT !.usdt = @ - market.spot, !.margin = @ + 1]
      BY <1>1 DEF Convert
    <3>2. book \in Books /\ book.usdt - market.spot \in Int /\ book.margin + 1 \in Int
      BY <2>1 DEF TypeInv, Books
    <3>3. QED
      BY <3>1, <3>2 DEF Books
  <2>3. QED
    BY <1>1, <2>2 DEF Convert, clientVars, TypeInv
<1>2. CASE Move
  <2>1. market' \in Markets
    BY <1>2 DEF Move
  <2>2. UNCHANGED <<book, fills, cash, token, stage, tries, read, shown, poll>>
    BY <1>2 DEF Move, clientVars
  <2>3. QED
    BY <2>1, <2>2 DEF TypeInv
<1>3. CASE Revoke
  <2>1. poll' \in [n : Int, faulty : BOOLEAN, revoked : Int, traded : BOOLEAN, worth : Int]
    BY <1>3 DEF Revoke, TypeInv
  <2>2. QED
    BY <1>3, <2>1 DEF Revoke, TypeInv
<1>4. QED
  BY <1>1, <1>2, <1>3

\* What is fetched is a reading, and its worth is a number.
LEMMA PositionsType ==
    ASSUME TypeInv
    PROVE  PositionsNow \in Readings /\ SumFunction(MarkValue(PositionsNow)) \in Int
<1>1. PositionsNow \in Readings
  BY DEF PositionsNow, Readings, TypeInv
<1>2. MarkValue(PositionsNow) \in [Codes -> Int]
  BY <1>1, MarkValueType
<1>3. SumFunctionOnSet(MarkValue(PositionsNow), Codes) \in Int
  BY <1>2, BookAssumption, SumType
<1>4. QED
  BY <1>1, <1>2, <1>3 DEF SumFunction

\* A poll that ends publishes a snapshot.
LEMMA PublishType ==
    ASSUME TypeInv, stage = "trades", NEW trades \in SUBSET DOMAIN fills, Publish(trades)
    PROVE  shown' \in Snapshots /\ stage' = "idle" /\ tries' = 0
BY SnapshotType DEF Publish, TypeInv

\* The steps of a poll that succeed keep the types.
LEMMA PollType ==
    ASSUME TypeInv, Begin \/ GetToken \/ ReadPositions \/ ReadTrades
    PROVE  TypeInv'
<1>1. CASE Begin
  <2>1. poll' \in [n : Int, faulty : BOOLEAN, revoked : Int, traded : BOOLEAN, worth : Int]
    BY <1>1 DEF Begin, TypeInv
  <2>2. QED
    BY <1>1, <2>1 DEF Begin, TypeInv
<1>2. CASE GetToken
  BY <1>2 DEF GetToken, TypeInv
<1>3. CASE ReadPositions
  <2>1. poll' \in [n : Int, faulty : BOOLEAN, revoked : Int, traded : BOOLEAN, worth : Int]
    <3>1. cash + SumFunction(MarkValue(PositionsNow)) \in Int
      BY PositionsType DEF TypeInv
    <3>2. poll' = [poll EXCEPT !.worth = cash + SumFunction(MarkValue(PositionsNow))]
      BY <1>3 DEF ReadPositions
    <3>3. QED
      BY <3>1, <3>2 DEF TypeInv
  <2>2. read' \in Readings
    BY <1>3, PositionsType DEF ReadPositions
  <2>3. QED
    BY <1>3, <2>1, <2>2 DEF ReadPositions, TypeInv
<1>4. CASE ReadTrades
  <2>1. TradesNow \subseteq DOMAIN fills
    BY DEF TradesNow
  <2>2. shown' \in Snapshots /\ stage' = "idle" /\ tries' = 0
    BY <1>4, <2>1, PublishType DEF ReadTrades
  <2>3. QED
    BY <1>4, <2>2 DEF ReadTrades, TypeInv
<1>5. QED
  BY <1>1, <1>2, <1>3, <1>4

\* A failed call ends the poll: without positions the screen stays, without
\* fills it is computed from the positions.
LEMMA FailureType ==
    ASSUME TypeInv, stage # "idle", CallFails
    PROVE  /\ stage' = "idle" /\ tries' = 0 /\ shown' \in Snapshots \cup {None}
           /\ stage = "positions" => shown' = shown
           /\ stage = "trades" => shown' = Snapshot(read, {}) /\ read \in Readings
<1>1. CASE stage = "positions"
  BY <1>1 DEF CallFails, TypeInv
<1>2. CASE stage = "trades"
  <2>1. Publish({})
    BY <1>2 DEF CallFails
  <2>2. shown' \in Snapshots /\ stage' = "idle" /\ tries' = 0
    BY <1>2, <2>1, PublishType
  <2>3. QED
    BY <1>2, <2>1, <2>2 DEF Publish, TypeInv
<1>3. QED
  BY <1>1, <1>2 DEF TypeInv

\* The steps of a poll that fail keep the types.
LEMMA FailType ==
    ASSUME TypeInv, Rejected \/ Fails
    PROVE  TypeInv'
<1>1. CASE Rejected
  <2>1. CASE tries = 0
    BY <1>1, <2>1 DEF Rejected, TypeInv
  <2>2. CASE tries # 0
    <3>1. CallFails /\ stage # "idle" /\ UNCHANGED <<token, book, market, fills, cash, poll>>
      BY <1>1, <2>2 DEF Rejected
    <3>2. QED
      BY <3>1, FailureType DEF TypeInv
  <2>3. QED
    BY <2>1, <2>2
<1>2. CASE Fails
  <2>1. CallFails /\ stage # "idle" /\ UNCHANGED <<token, book, market, fills, cash>>
        /\ poll' = [poll EXCEPT !.faulty = TRUE]
    BY <1>2 DEF Fails
  <2>2. poll' \in [n : Int, faulty : BOOLEAN, revoked : Int, traded : BOOLEAN, worth : Int]
    BY <2>1 DEF TypeInv
  <2>3. QED
    BY <2>1, <2>2, FailureType DEF TypeInv
<1>3. QED
  BY <1>1, <1>2

\* The types hold at first,
LEMMA TypeInit == BookInit => TypeInv
<1>1. SUFFICES ASSUME BookInit PROVE TypeInv
  OBVIOUS
<1>2. book \in Books
  BY <1>1 DEF BookInit, Books
<1>3. fills \in Trades /\ cash \in Int
  BY <1>1 DEF BookInit, Trades
<1>4. poll \in [n : Int, faulty : BOOLEAN, revoked : Int, traded : BOOLEAN, worth : Int]
  BY <1>1 DEF BookInit
<1>5. QED
  BY <1>1, <1>2, <1>3, <1>4 DEF BookInit, TypeInv

\* and every step keeps them,
LEMMA TypeStep == TypeInv /\ [BookNext]_bookVars => TypeInv'
<1>1. SUFFICES ASSUME TypeInv, [BookNext]_bookVars PROVE TypeInv'
  OBVIOUS
<1>2. CASE \E c \in Codes, sell \in BOOLEAN : Trade(c, sell)
  BY <1>1, <1>2, TradeType
<1>3. CASE Convert \/ Move \/ Revoke
  BY <1>1, <1>3, WorldType
<1>4. CASE Begin \/ GetToken \/ ReadPositions \/ ReadTrades
  BY <1>1, <1>4, PollType
<1>5. CASE Rejected \/ Fails
  BY <1>1, <1>5, FailType
<1>6. CASE UNCHANGED bookVars
  BY <1>1, <1>6 DEF bookVars, clientVars, TypeInv
<1>7. QED
  BY <1>1, <1>2, <1>3, <1>4, <1>5, <1>6 DEF BookNext, Over

\* so they hold for ever.
LEMMA TypesHold == BookSpec => []TypeInv
BY TypeInit, TypeStep, PTL DEF BookSpec

-----------------------------------------------------------------------------
(* What is on screen. *)

\* With a floor above zero, whatever is on screen is graded by the alert
\* rules as the screen grades it (RulesAgreeWithScreen); it was always
\* computed from positions that were read, with fills or without.
THEOREM AlertsGradeTheScreen ==
    ASSUME 0 < Policy.floor
    PROVE  BookSpec => []RulesAgreeWithScreen
<1>1. BookInit => RulesAgreeWithScreen
  BY DEF BookInit, RulesAgreeWithScreen
<1>2. TypeInv /\ RulesAgreeWithScreen /\ [BookNext]_bookVars => RulesAgreeWithScreen'
  <2>1. SUFFICES ASSUME TypeInv, RulesAgreeWithScreen, [BookNext]_bookVars
                 PROVE  RulesAgreeWithScreen'
    OBVIOUS
  <2>2. CASE shown' = shown
    BY <2>1, <2>2 DEF RulesAgreeWithScreen
  <2>3. CASE shown' # shown
    <3>1. ReadTrades \/ Rejected \/ Fails
      BY <2>1, <2>3 DEF BookNext, Trade, Convert, Move, Revoke, Begin, GetToken, ReadPositions, Over,
                        bookVars, clientVars
    <3>2. \E trades : shown' = Snapshot(read, trades) /\ read \in Readings
      <4>1. CASE ReadTrades
        BY <2>1, <4>1 DEF ReadTrades, Publish, TypeInv
      <4>2. CASE Rejected \/ Fails
        <5>1. CallFails /\ stage # "idle"
          BY <2>3, <4>2 DEF Rejected, Fails
        <5>2. QED
          BY <2>1, <2>3, <5>1, FailureType DEF TypeInv
      <4>3. QED
        BY <3>1, <4>1, <4>2
    <3>3. PICK trades : shown' = Snapshot(read, trades) /\ read \in Readings
      BY <3>2
    <3>4. QED
      BY <3>3, SnapshotAgrees DEF RulesAgreeWithScreen
  <2>4. QED
    BY <2>2, <2>3
<1>3. QED
  BY <1>1, <1>2, TypesHold, PTL DEF BookSpec

\* What makes PnlIsTheBooks inductive: the cash is that of the fills, a book
\* never traded has no premium, a poll knows of the tokens that were rejected,
\* and the positions it has read are worth what it says while nothing was
\* traded since.
PnlInv ==
    /\ cash = SumFunctionOnSet(Premiums(fills), DOMAIN fills)
    /\ fills = << >> => book.usdt = 0
    /\ stage # "idle" => tries + (IF token = "revoked" THEN 1 ELSE 0) <= poll.revoked
    /\ stage = "trades" /\ ~poll.traded =>
         /\ poll.worth = cash + SumFunction(MarkValue(read))
         /\ fills = << >> => read.book.usdt = 0
    /\ PnlIsTheBooks

\* One more fill adds its premium.
LEMMA CashOfOneMore ==
    ASSUME NEW fs \in Trades, NEW t \in [code : Codes, premium : Int]
    PROVE  LET more == Append(fs, t) IN
           SumFunctionOnSet(Premiums(more), DOMAIN more)
             = SumFunctionOnSet(Premiums(fs), DOMAIN fs) + t.premium
<1> DEFINE F == [code : Codes, premium : Int]
<1> DEFINE more == Append(fs, t)
<1> DEFINE n == Len(fs) + 1
<1>1. fs \in Seq(F) /\ t \in F
  BY DEF Trades
<1>2. /\ more \in Seq(F) /\ Len(fs) \in Nat /\ DOMAIN fs = 1..Len(fs)
      /\ DOMAIN more = 1..n /\ more[n] = t
      /\ \A i \in 1..Len(fs) : more[i] = fs[i]
  <2> HIDE DEF F
  <2>1. QED
    BY <1>1
<1>3. more \in Trades
  BY <1>2 DEF Trades
<1>4. IsFiniteSet(DOMAIN more) /\ IsFiniteSet(DOMAIN fs)
      /\ \A i \in DOMAIN more : Premiums(more)[i] \in Int
  <2> HIDE DEF more
  <2>1. QED
    BY <1>3, FillsType DEF Premiums
<1>5. n \in DOMAIN more /\ DOMAIN more \ {n} = DOMAIN fs
  BY <1>2
<1>6. SumFunctionOnSet(Premiums(more), DOMAIN more)
        = Premiums(more)[n] + SumFunctionOnSet(Premiums(more), DOMAIN fs)
  <2> HIDE DEF more, n
  <2>1. QED
    BY <1>4, <1>5, SumOfOneMore
<1>7. \A i \in DOMAIN fs : Premiums(more)[i] = Premiums(fs)[i]
  BY <1>2 DEF Premiums
<1>8. SumFunctionOnSet(Premiums(more), DOMAIN fs) = SumFunctionOnSet(Premiums(fs), DOMAIN fs)
  <2> HIDE DEF more
  <2>1. QED
    BY <1>4, <1>7, SumAgrees
<1>9. Premiums(more)[n] = t.premium
  <2> HIDE DEF more, n
  <2>1. QED
    BY <1>2, <1>5 DEF Premiums
<1>10. SumFunctionOnSet(Premiums(fs), DOMAIN fs) \in Int /\ t.premium \in Int
  <2>1. \A i \in DOMAIN fs : Premiums(fs)[i] \in Int
    BY FillsType DEF Premiums
  <2>2. QED
    BY <1>4, <2>1, SumType
<1>11. SumFunctionOnSet(Premiums(more), DOMAIN more)
         = SumFunctionOnSet(Premiums(fs), DOMAIN fs) + t.premium
  <2> HIDE DEF more, n
  <2>1. QED
    BY <1>6, <1>8, <1>9, <1>10
<1>12. QED
  BY <1>11

\* A fill reaches no screen and no reading; what a poll has read it dates.
LEMMA TradePnl ==
    ASSUME TypeInv, PnlInv, NEW c \in Codes, NEW sell \in BOOLEAN, Trade(c, sell)
    PROVE  PnlInv'
<1> DEFINE premium == IF sell THEN market.mark[c] ELSE -market.mark[c]
<1> DEFINE t == [code |-> c, premium |-> premium]
<1>1. fills' = Append(fills, t) /\ cash' = cash + premium
      /\ poll' = [poll EXCEPT !.traded = @ \/ stage = "trades"]
      /\ UNCHANGED <<market, token, stage, tries, read, shown>>
  BY DEF Trade
<1>2. premium \in Int /\ t \in [code : Codes, premium : Int] /\ fills \in Trades
  BY QuotesType DEF TypeInv
<1>3. cash' = SumFunctionOnSet(Premiums(fills'), DOMAIN fills')
  <2>1. t.premium = premium
    OBVIOUS
  <2> HIDE DEF t, premium
  <2>2. QED
    BY <1>1, <1>2, <2>1, CashOfOneMore DEF PnlInv
<1>4. Len(fills) \in Nat /\ Len(fills') = Len(fills) + 1 /\ fills' # << >>
  <2> HIDE DEF t
  <2>1. QED
    BY <1>1, <1>2 DEF Trades
<1>5. /\ poll'.n = poll.n /\ poll'.faulty = poll.faulty /\ poll'.revoked = poll.revoked
      /\ poll'.worth = poll.worth /\ (stage = "trades" => poll'.traded)
      /\ (stage # "trades" => poll'.traded = poll.traded)
  BY <1>1 DEF TypeInv
<1>6. stage' # "idle" => tries' + (IF token' = "revoked" THEN 1 ELSE 0) <= poll'.revoked
  BY <1>1, <1>5 DEF PnlInv
<1>7. PnlIsTheBooks'
  <2>1. SUFFICES ASSUME stage = "idle", poll.n > 0, ~poll.faulty, poll.revoked <= 1, ~poll.traded,
                        Len(fills') <= TradeLimit
                 PROVE  shown # None /\ shown.pnl.realized + shown.pnl.unrealized = poll.worth
    BY <1>1, <1>5 DEF PnlIsTheBooks
  <2>2. Len(fills) <= TradeLimit
    BY <1>4, <2>1, BookAssumption
  <2>3. QED
    BY <2>1, <2>2 DEF PnlInv, PnlIsTheBooks
<1>8. QED
  BY <1>1, <1>3, <1>4, <1>5, <1>6, <1>7 DEF PnlInv

\* What happens to a book that was traded before changes no poll's figures.
LEMMA WorldPnl ==
    ASSUME TypeInv, PnlInv, Convert \/ Move \/ Revoke
    PROVE  PnlInv'
<1>1. CASE Convert
  <2>1. UNCHANGED <<fills, cash, token, stage, tries, read, shown, poll>>
    BY <1>1 DEF Convert, clientVars
  <2>2. fills # << >>
    <3>1. book.usdt >= market.spot /\ market.spot \in Nat \ {0}
      BY <1>1, QuotesType DEF Convert, TypeInv
    <3>2. QED
      BY <3>1 DEF PnlInv
  <2>3. QED
    BY <2>1, <2>2 DEF PnlInv, PnlIsTheBooks, MarkValue, Premiums
<1>2. CASE Move
  <2>1. UNCHANGED <<book, fills, cash, token, stage, tries, read, shown, poll>>
    BY <1>2 DEF Move, clientVars
  <2>2. QED
    BY <2>1 DEF PnlInv, PnlIsTheBooks, MarkValue, Premiums
<1>3. CASE Revoke
  <2>1. /\ UNCHANGED <<book, fills, cash, stage, tries, read, shown>>
        /\ token = "live" /\ token' = "revoked"
        /\ poll' = [poll EXCEPT !.revoked = IF stage = "idle" THEN @ ELSE @ + 1]
    BY <1>3 DEF Revoke
  <2>2. /\ poll'.n = poll.n /\ poll'.faulty = poll.faulty /\ poll'.traded = poll.traded
        /\ poll'.worth = poll.worth /\ poll.revoked \in Int /\ tries \in Int
        /\ poll'.revoked = IF stage = "idle" THEN poll.revoked ELSE poll.revoked + 1
    BY <2>1 DEF TypeInv
  <2>3. stage' # "idle" => tries' + (IF token' = "revoked" THEN 1 ELSE 0) <= poll'.revoked
    BY <2>1, <2>2 DEF PnlInv
  <2>4. PnlIsTheBooks'
    BY <2>1, <2>2 DEF PnlInv, PnlIsTheBooks
  <2>5. QED
    BY <2>1, <2>2, <2>3, <2>4 DEF PnlInv, MarkValue, Premiums
<1>4. QED
  BY <1>1, <1>2, <1>3

\* The requests before the fills leave the screen alone; the positions are
\* read together with what they are worth.
LEMMA PollPnl ==
    ASSUME TypeInv, PnlInv, Begin \/ GetToken \/ ReadPositions
    PROVE  PnlInv'
<1>1. CASE Begin
  <2>1. UNCHANGED <<book, fills, cash, token, read, shown>> /\ stage' = "positions" /\ tries' = 0
        /\ poll'.revoked = IF token = "revoked" THEN 1 ELSE 0
    BY <1>1 DEF Begin
  <2>2. QED
    BY <2>1 DEF PnlInv, PnlIsTheBooks, Premiums
<1>2. CASE GetToken
  <2>1. UNCHANGED <<book, fills, cash, stage, tries, read, shown, poll>>
        /\ token = "none" /\ token' = "live" /\ stage # "idle"
    BY <1>2 DEF GetToken
  <2>2. QED
    BY <2>1 DEF PnlInv, PnlIsTheBooks, MarkValue, Premiums
<1>3. CASE ReadPositions
  <2>1. UNCHANGED <<book, fills, cash, token, shown>> /\ stage' = "trades" /\ tries' = 0
        /\ read' = PositionsNow /\ stage = "positions" /\ token = "live"
        /\ poll' = [poll EXCEPT !.worth = cash + SumFunction(MarkValue(PositionsNow))]
    BY <1>3 DEF ReadPositions
  <2>2. /\ poll'.revoked = poll.revoked /\ poll.revoked \in Int /\ tries \in {0, 1}
        /\ poll'.worth = cash + SumFunction(MarkValue(PositionsNow))
    BY <2>1 DEF TypeInv
  <2>3. 0 <= poll'.revoked
    BY <2>1, <2>2 DEF PnlInv
  <2>4. SumFunction(MarkValue(read')) = SumFunction(MarkValue(PositionsNow))
        /\ read'.book.usdt = book.usdt
    BY <2>1 DEF PositionsNow
  <2>5. QED
    BY <2>1, <2>2, <2>3, <2>4 DEF PnlInv, PnlIsTheBooks, MarkValue, Premiums
<1>4. QED
  BY <1>1, <1>2, <1>3

\* The fills came: what is published is the book's, if all of them did.
LEMMA TradesPnl ==
    ASSUME TypeInv, PnlInv, ReadTrades
    PROVE  PnlInv'
<1>1. UNCHANGED <<book, fills, cash, token, poll>> /\ stage = "trades" /\ stage' = "idle"
      /\ shown' = Snapshot(read, TradesNow)
  BY DEF ReadTrades, Publish
<1>2. PnlIsTheBooks'
  <2>1. SUFFICES ASSUME ~poll.traded, Len(fills) <= TradeLimit
                 PROVE  shown' # None
                        /\ shown'.pnl.realized + shown'.pnl.unrealized = poll.worth
    BY <1>1 DEF PnlIsTheBooks
  <2>2. TradesNow = DOMAIN fills
    <3>1. fills \in Trades
      BY DEF TypeInv
    <3>2. \A i \in DOMAIN fills : i > Len(fills) - TradeLimit
      BY <2>1, <3>1, FillsType, BookAssumption
    <3>3. QED
      BY <3>2 DEF TradesNow
  <2>3. read \in Readings /\ fills \in Trades /\ cash \in Int
    BY <1>1 DEF TypeInv
  <2>4. shown' # None
    BY <1>1, <2>2, <2>3, SnapshotType, BookAssumption
  <2>5. poll.worth = cash + SumFunction(MarkValue(read)) /\ (fills = << >> => read.book.usdt = 0)
    BY <1>1, <2>1 DEF PnlInv
  <2>6. QED
    BY <1>1, <2>2, <2>3, <2>4, <2>5, PnlOfAll DEF PnlInv
<1>3. QED
  BY <1>1, <1>2 DEF PnlInv, Premiums

\* A poll that ends without its positions or fills is known to have failed.
LEMMA FailPnl ==
    ASSUME TypeInv, PnlInv, Rejected \/ Fails
    PROVE  PnlInv'
<1>1. CASE Rejected
  <2>1. UNCHANGED <<book, fills, cash, poll>> /\ stage # "idle" /\ token = "revoked"
        /\ poll.revoked \in Int /\ tries \in {0, 1} /\ tries + 1 <= poll.revoked
    BY <1>1 DEF Rejected, TypeInv, PnlInv
  <2>2. CASE tries = 0
    <3>1. token' = "none" /\ tries' = 1 /\ UNCHANGED <<stage, read, shown>>
      BY <1>1, <2>2 DEF Rejected
    <3>2. QED
      BY <2>1, <2>2, <3>1 DEF PnlInv, PnlIsTheBooks, MarkValue, Premiums
  <2>3. CASE tries = 1
    <3>1. CallFails
      BY <1>1, <2>3 DEF Rejected
    <3>2. stage' = "idle" /\ ~(poll.revoked <= 1)
      BY <2>1, <2>3, <3>1, FailureType
    <3>3. QED
      BY <2>1, <3>2 DEF PnlInv, PnlIsTheBooks, Premiums
  <2>4. QED
    BY <2>1, <2>2, <2>3
<1>2. CASE Fails
  <2>1. CallFails /\ stage # "idle" /\ UNCHANGED <<token, book, fills, cash>>
        /\ poll' = [poll EXCEPT !.faulty = TRUE]
    BY <1>2 DEF Fails
  <2>2. stage' = "idle" /\ poll'.faulty
    BY <2>1, FailureType DEF TypeInv
  <2>3. QED
    BY <2>1, <2>2 DEF PnlInv, PnlIsTheBooks, Premiums
<1>3. QED
  BY <1>1, <1>2

\* Nothing was traded and nothing polled at first.
LEMMA PnlInit == BookInit => PnlInv
<1>1. SUFFICES ASSUME BookInit PROVE PnlInv
  OBVIOUS
<1>2. fills = << >> /\ cash = 0 /\ stage = "idle" /\ poll.n = 0 /\ book.usdt = 0
  BY <1>1 DEF BookInit
<1>3. DOMAIN fills = {}
  BY <1>2
<1>4. QED
  BY <1>2, <1>3, SumOfNone DEF PnlInv, PnlIsTheBooks

\* Every step keeps what the profit rests on.
LEMMA PnlStep == TypeInv /\ PnlInv /\ [BookNext]_bookVars => PnlInv'
<1>1. SUFFICES ASSUME TypeInv, PnlInv, [BookNext]_bookVars PROVE PnlInv'
  OBVIOUS
<1>2. CASE \E c \in Codes, sell \in BOOLEAN : Trade(c, sell)
  BY <1>1, <1>2, TradePnl
<1>3. CASE Convert \/ Move \/ Revoke
  BY <1>1, <1>3, WorldPnl
<1>4. CASE Begin \/ GetToken \/ ReadPositions
  BY <1>1, <1>4, PollPnl
<1>5. CASE ReadTrades
  BY <1>1, <1>5, TradesPnl
<1>6. CASE Rejected \/ Fails
  BY <1>1, <1>6, FailPnl
<1>7. CASE UNCHANGED bookVars
  BY <1>1, <1>7 DEF bookVars, clientVars, PnlInv, PnlIsTheBooks, MarkValue, Premiums
<1>8. QED
  BY <1>1, <1>2, <1>3, <1>4, <1>5, <1>6, <1>7 DEF BookNext, Over

\* After a poll that got all it asked for, with no fill between its two
\* requests and none cut off, the profit on screen is the premium that ever
\* changed hands plus the value of the legs held when they were read
\* (PnlIsTheBooks, build_snapshot over both fetches of _fetch_book): whatever
\* was traded before, closed, converted or moved, and whichever tokens were
\* revoked once.
THEOREM ProfitIsTheBooks == BookSpec => []PnlIsTheBooks
<1>1. PnlInv => PnlIsTheBooks
  BY DEF PnlInv
<1>2. QED
  BY <1>1, PnlInit, PnlStep, TypesHold, PTL DEF BookSpec

-----------------------------------------------------------------------------
(* Putting places in order *)

\* How Order puts two places (the stable sort of store.py's _load).
Comes(key, i, j) == key[i] < key[j] \/ (key[i] = key[j] /\ i < j)

InOrder(f, ps, key) ==
    /\ f \in [1..Cardinality(ps) -> ps]
    /\ \A m, n \in 1..Cardinality(ps) : m < n => Comes(key, f[m], f[n])

\* Of finitely many places one comes last.
LEMMA SomeComesLast ==
    ASSUME NEW ps, IsFiniteSet(ps), ps \subseteq Nat, ps # {}, NEW key, key \in [ps -> Nat]
    PROVE  \E z \in ps : \A y \in ps \ {z} : Comes(key, y, z)
<1> DEFINE ComesLast(s, z) == \A y \in s \ {z} : Comes(key, y, z)
<1> DEFINE T == {s \in SUBSET ps : s = {} \/ \E z \in s : ComesLast(s, z)}
<1>1. ASSUME NEW s \in SUBSET ps, \A x \in s : s \ {x} \in T PROVE s \in T
  <2>1. CASE s = {}
    BY <2>1
  <2>2. CASE s # {}
    <3>1. PICK x \in s : TRUE
      BY <2>2
    <3>2. s \ {x} \in T
      BY <1>1, <3>1
    <3>3. CASE s \ {x} = {}
      BY <3>1, <3>3
    <3>4. CASE s \ {x} # {}
      <4>1. PICK z \in s \ {x} : ComesLast(s \ {x}, z)
        BY <3>2, <3>4
      <4>2. x \in Nat /\ z \in Nat /\ key[x] \in Nat /\ key[z] \in Nat /\ x # z
        BY <3>1, <4>1
      <4>3. CASE Comes(key, x, z)
        <5>1. ComesLast(s, z)
          BY <4>1, <4>3
        <5>2. QED
          BY <4>1, <5>1
      <4>4. CASE ~Comes(key, x, z)
        <5>1. Comes(key, z, x)
          BY <4>2, <4>4 DEF Comes
        <5>2. ASSUME NEW y \in s \ {x} PROVE Comes(key, y, x)
          <6>1. y = z \/ Comes(key, y, z)
            BY <4>1
          <6>2. y \in Nat /\ key[y] \in Nat
            OBVIOUS
          <6>3. QED
            BY <4>2, <5>1, <6>1, <6>2 DEF Comes
        <5>3. ComesLast(s, x)
          BY <5>2
        <5>4. QED
          BY <3>1, <5>3
      <4>5. QED
        BY <4>3, <4>4
    <3>5. QED
      BY <3>3, <3>4
  <2>3. QED
    BY <2>1, <2>2
<1>2. SUBSET ps \subseteq T
  <2> HIDE DEF T
  <2>1. QED
    BY <1>1, FiniteSubsetInduction
<1>3. ps \in T
  BY <1>2
<1>4. QED
  BY <1>3

\* So they can be put in order, the last one after the others.
LEMMA SomeOrder ==
    ASSUME NEW ps, IsFiniteSet(ps), ps \subseteq Nat, NEW key, key \in [ps -> Nat]
    PROVE  \E f : InOrder(f, ps, key)
<1> DEFINE T == {s \in SUBSET ps : \E f : InOrder(f, s, key)}
<1>1. ASSUME NEW s \in SUBSET ps, \A x \in s : s \ {x} \in T PROVE s \in T
  <2>1. IsFiniteSet(s) /\ Cardinality(s) \in Nat
    BY FS_Subset, FS_CardinalityType
  <2>2. CASE s = {}
    <3>1. Cardinality(s) = 0
      BY <2>2, FS_EmptySet
    <3>2. InOrder([n \in 1..0 |-> 0], s, key)
      BY <3>1 DEF InOrder
    <3>3. QED
      BY <3>2
  <2>3. CASE s # {}
    <3>1. PICK z \in s : \A y \in s \ {z} : Comes(key, y, z)
      <4>1. [i \in s |-> key[i]] \in [s -> Nat] /\ s \subseteq Nat
        OBVIOUS
      <4>2. PICK z \in s : \A y \in s \ {z} : Comes([i \in s |-> key[i]], y, z)
        BY <2>1, <2>3, <4>1, SomeComesLast
      <4>3. QED
        BY <4>2 DEF Comes
    <3>2. PICK f : InOrder(f, s \ {z}, key)
      BY <1>1, <3>1
    <3>3. Cardinality(s \ {z}) = Cardinality(s) - 1
      BY <2>1, <3>1, FS_RemoveElement
    <3>4. Cardinality(s) # 0
      BY <2>1, <2>3, FS_EmptySet
    <3> DEFINE c == Cardinality(s)
    <3> DEFINE g == [n \in 1..c |-> IF n = c THEN z ELSE f[n]]
    <3>5. c \in Nat \ {0} /\ Cardinality(s \ {z}) = c - 1
      BY <2>1, <3>3, <3>4
    <3>6. /\ f \in [1..c - 1 -> s \ {z}]
          /\ \A m, n \in 1..c - 1 : m < n => Comes(key, f[m], f[n])
      BY <3>2, <3>5 DEF InOrder
    <3> HIDE DEF c
    <3>7. g \in [1..c -> s]
      BY <3>1, <3>5, <3>6
    <3>8. ASSUME NEW m \in 1..c, NEW n \in 1..c, m < n PROVE Comes(key, g[m], g[n])
      <4>1. m \in 1..c - 1 /\ g[m] = f[m]
        BY <3>5, <3>8
      <4>2. CASE n = c
        <5>1. f[m] \in s \ {z} /\ g[n] = z
          BY <3>6, <4>1, <4>2
        <5>2. QED
          BY <3>1, <4>1, <5>1
      <4>3. CASE n # c
        <5>1. n \in 1..c - 1 /\ g[n] = f[n]
          BY <3>5, <4>3
        <5>2. QED
          BY <3>6, <3>8, <4>1, <5>1
      <4>4. QED
        BY <4>2, <4>3
    <3>9. InOrder(g, s, key)
      BY <3>7, <3>8 DEF InOrder, c
    <3>10. QED
      BY <3>9
  <2>4. QED
    BY <2>2, <2>3
<1>2. SUBSET ps \subseteq T
  <2> HIDE DEF T
  <2>1. QED
    BY <1>1, FiniteSubsetInduction
<1>3. QED
  BY <1>2

\* Order puts them all in order, each once.
LEMMA OrderEffect ==
    ASSUME NEW ps, IsFiniteSet(ps), ps \subseteq Nat, NEW key, key \in [ps -> Nat]
    PROVE  /\ InOrder(Order(ps, key), ps, key)
           /\ \A i \in ps : \E n \in 1..Cardinality(ps) : Order(ps, key)[n] = i
<1> DEFINE c == Cardinality(ps)
<1> DEFINE f == Order(ps, key)
<1>1. c \in Nat
  BY FS_CardinalityType
<1>2. InOrder(f, ps, key)
  <2>1. PICK g : InOrder(g, ps, key)
    BY SomeOrder
  <2>2. \A h \in [1..c -> ps] :
           (\A m, n \in DOMAIN h : m < n => \/ key[h[m]] < key[h[n]]
                                            \/ key[h[m]] = key[h[n]] /\ h[m] < h[n])
           <=> InOrder(h, ps, key)
    BY DEF InOrder, Comes
  <2>3. QED
    BY <2>1, <2>2 DEF Order, InOrder
<1> HIDE DEF f
<1>3. f \in Injection(1..c, ps)
  <2>1. f \in [1..c -> ps]
    BY <1>2 DEF InOrder
  <2>2. ASSUME NEW m \in 1..c, NEW n \in 1..c, m < n PROVE f[m] # f[n]
    <3>1. Comes(key, f[m], f[n]) /\ f[m] \in Nat /\ key[f[m]] \in Nat
      BY <1>2, <2>1, <2>2 DEF InOrder
    <3>2. QED
      BY <3>1 DEF Comes
  <2>3. \A m, n \in 1..c : f[m] = f[n] => m = n
    BY <1>1, <2>2
  <2>4. QED
    BY <2>1, <2>3 DEF Injection, IsInjective
<1>4. IsFiniteSet(1..c) /\ Cardinality(1..c) = c
  BY <1>1, FS_Interval
<1>5. f \in Surjection(1..c, ps)
  BY <1>3, <1>4, FS_Injection
<1>6. QED
  BY <1>2, <1>5 DEF Surjection, f

-----------------------------------------------------------------------------
(* The lists *)

LEMMA PointsAreNoMarks ==
    /\ \A x \in Points : x[1] \in Nat /\ x # Torn /\ x # Junk
    /\ NoPoint \in Points
    /\ Points \subseteq Lines /\ Torn \in Lines /\ Junk \in Lines
<1> USE HistoryAssumption
<1>1. Points \subseteq Nat \X Nat
  BY DEF Points
<1>2. NoPoint \in Points
  BY DEF NoPoint, Points
<1>3. QED
  BY <1>1, <1>2 DEF Lines

LEMMA OnePointMore ==
    ASSUME NEW list \in Seq(Points), NEW x \in Points
    PROVE  ToSet(Append(list, x)) = ToSet(list) \cup {x}
<1> DEFINE n == Len(list)
<1>1. n \in Nat /\ DOMAIN list = 1..n
  OBVIOUS
<1>2. /\ DOMAIN Append(list, x) = 1..n + 1 /\ Append(list, x)[n + 1] = x
      /\ \A i \in 1..n : Append(list, x)[i] = list[i]
  OBVIOUS
<1> DEFINE longer == Append(list, x)
<1> HIDE DEF n, longer
<1>3. \A i \in 1..n + 1 : i \in 1..n \/ i = n + 1
  BY <1>1
<1>4. n + 1 \in 1..n + 1 /\ \A i \in 1..n : i \in 1..n + 1
  BY <1>1
<1>5. ToSet(longer) = ToSet(list) \cup {x}
  BY <1>1, <1>2, <1>3, <1>4 DEF ToSet, longer
<1>6. QED
  BY <1>5 DEF longer

\* What Selected makes of a list: the lines at those places, and no others.
LEMMA SelectedEffect ==
    ASSUME NEW lines, lines \in Seq(Lines), NEW V,
           NEW ps, ps \subseteq DOMAIN lines, \A i \in ps : lines[i] \in V,
           NEW key, key \in [ps -> Nat]
    PROVE  /\ Selected(lines, ps, key) \in Seq(V)
           /\ ToSet(Selected(lines, ps, key)) = {lines[i] : i \in ps}
<1> DEFINE c == Cardinality(ps)
<1> DEFINE f == Order(ps, key)
<1>1. ps \subseteq Nat /\ IsFiniteSet(ps) /\ c \in Nat
  <2>1. Len(lines) \in Nat /\ DOMAIN lines = 1..Len(lines)
    OBVIOUS
  <2>2. IsFiniteSet(1..Len(lines)) /\ ps \subseteq 1..Len(lines)
    BY <2>1, FS_Interval
  <2>3. QED
    BY <2>2, FS_Subset, FS_CardinalityType
<1>2. /\ f \in [1..c -> ps]
      /\ \A i \in ps : \E n \in 1..c : f[n] = i
  BY <1>1, OrderEffect DEF InOrder
<1> HIDE DEF c, f
<1>3. Selected(lines, ps, key) = [n \in 1..c |-> lines[f[n]]]
  BY DEF Selected, c, f
<1>4. Selected(lines, ps, key) \in Seq(V)
  <2>1. [n \in 1..c |-> lines[f[n]]] \in [1..c -> V]
    BY <1>2
  <2>2. QED
    BY <1>1, <1>3, <2>1
<1>5. ToSet(Selected(lines, ps, key)) = {lines[i] : i \in ps}
  <2> DEFINE l == Selected(lines, ps, key)
  <2>1. DOMAIN l = 1..c /\ \A n \in 1..c : l[n] = lines[f[n]]
    BY <1>3
  <2> HIDE DEF l
  <2>2. \A n \in DOMAIN l : l[n] \in {lines[i] : i \in ps}
    BY <1>2, <2>1
  <2>3. ASSUME NEW i \in ps PROVE \E n \in DOMAIN l : l[n] = lines[i]
    BY <1>2, <2>1
  <2>4. ToSet(l) = {lines[i] : i \in ps}
    BY <2>2, <2>3 DEF ToSet
  <2>5. QED
    BY <2>4 DEF l
<1>6. QED
  BY <1>4, <1>5

\* What is loaded of the file, and what is kept of the list in memory, are the
\* points that have not expired (store.py's _load, _prune).
LEMMA KeptEffect ==
    ASSUME NEW lines, lines \in Seq(Lines)
    PROVE  /\ Loaded(lines) \in Seq(Points) /\ Kept(lines) \in Seq(Points)
           /\ ToSet(Loaded(lines)) = {x \in PointsIn(lines) : IsFresh(x)}
           /\ ToSet(Kept(lines)) = {x \in PointsIn(lines) : IsFresh(x)}
<1> DEFINE ps == FreshPlaces(lines)
<1>1. ps \subseteq DOMAIN lines /\ \A i \in ps : lines[i] \in Points
  BY DEF FreshPlaces
<1>2. \A i \in ps : lines[i][1] \in Nat
  BY <1>1, PointsAreNoMarks
<1>3. {lines[i] : i \in ps} = {x \in PointsIn(lines) : IsFresh(x)}
  BY DEF FreshPlaces, PointsIn, ToSet
<1>4. [i \in ps |-> lines[i][1]] \in [ps -> Nat] /\ [i \in ps |-> 0] \in [ps -> Nat]
  BY <1>2
<1>5. Loaded(lines) = Selected(lines, ps, [i \in ps |-> lines[i][1]])
  BY DEF Loaded
<1>6. Kept(lines) = Selected(lines, ps, [i \in ps |-> 0])
  BY DEF Kept
<1> HIDE DEF ps
<1>7. \A key \in [ps -> Nat] : /\ Selected(lines, ps, key) \in Seq(Points)
                               /\ ToSet(Selected(lines, ps, key)) = {lines[i] : i \in ps}
  BY <1>1, SelectedEffect
<1>8. QED
  BY <1>3, <1>4, <1>5, <1>6, <1>7

EndsTorn(lines) == lines # << >> /\ Last(lines) = Torn

\* A line appended behind a torn one is lost with it; else it is on file (an
\* open in append mode, store.py's append).
LEMMA AppendedEffect ==
    ASSUME NEW lines, lines \in Seq(Lines), NEW x, x \in Points \cup {Torn}
    PROVE  /\ Appended(lines, x) \in Seq(Lines)
           /\ PointsIn(lines) \subseteq PointsIn(Appended(lines, x))
           /\ ~EndsTorn(lines) /\ x # Torn => x \in PointsIn(Appended(lines, x))
           /\ EndsTorn(Appended(lines, x)) => x = Torn /\ ~EndsTorn(lines)
<1>1. x \in Lines /\ Junk \in Lines /\ Junk # Torn /\ Torn \notin Points
  BY PointsAreNoMarks, HistoryAssumption
<1>2. CASE EndsTorn(lines)
  <2> DEFINE n == Len(lines)
  <2> DEFINE new == Append(Front(lines), Junk)
  <2>1. n \in Nat \ {0} /\ lines[n] = Torn /\ lines \in [1..n -> Lines]
    BY <1>2 DEF EndsTorn, Last
  <2>2. Appended(lines, x) = new
    BY <1>2 DEF Appended, EndsTorn
  <2>3. /\ Front(lines) \in Seq(Lines) /\ Len(Front(lines)) = n - 1
        /\ \A i \in 1..n - 1 : Front(lines)[i] = lines[i]
    BY <2>1 DEF Front
  <2>4. /\ new \in Seq(Lines) /\ Len(new) = n /\ new[n] = Junk
        /\ \A i \in 1..n - 1 : new[i] = lines[i]
    <3> HIDE DEF n
    <3>1. Len(Append(Front(lines), Junk)) = n - 1 + 1
      BY <1>1, <2>3
    <3>2. Append(Front(lines), Junk)[n - 1 + 1] = Junk
      BY <1>1, <2>3
    <3>3. n - 1 + 1 = n
      BY <2>1
    <3>4. QED
      BY <1>1, <2>3, <3>1, <3>2, <3>3
  <2> HIDE DEF new, n
  <2>5. ~EndsTorn(new)
    BY <1>1, <2>4 DEF EndsTorn, Last
  <2>6. ASSUME NEW i \in 1..n, lines[i] \in Points PROVE lines[i] \in ToSet(new)
    <3>1. i \in 1..n - 1
      BY <1>1, <2>1, <2>6
    <3>2. i \in DOMAIN new /\ new[i] = lines[i]
      BY <2>1, <2>4, <3>1
    <3>3. QED
      BY <3>2 DEF ToSet
  <2>7. PointsIn(lines) \subseteq PointsIn(new)
    BY <2>1, <2>6 DEF PointsIn, ToSet
  <2>8. QED
    BY <1>2, <2>2, <2>4, <2>5, <2>7
<1>3. CASE ~EndsTorn(lines)
  <2> DEFINE new == Append(lines, x)
  <2>1. Appended(lines, x) = new
    BY <1>3 DEF Appended, EndsTorn
  <2>2. /\ new \in Seq(Lines) /\ Len(new) = Len(lines) + 1 /\ new[Len(lines) + 1] = x
        /\ \A i \in 1..Len(lines) : new[i] = lines[i]
        /\ Len(lines) \in Nat /\ DOMAIN lines = 1..Len(lines) /\ DOMAIN new = 1..Len(lines) + 1
    BY <1>1
  <2> HIDE DEF new
  <2>3. EndsTorn(new) => x = Torn
    BY <2>2 DEF EndsTorn, Last
  <2>4. PointsIn(lines) \subseteq PointsIn(new)
    BY <2>2 DEF PointsIn, ToSet
  <2>5. x # Torn => x \in PointsIn(new)
    BY <2>2 DEF PointsIn, ToSet
  <2>6. QED
    BY <1>3, <2>1, <2>2, <2>3, <2>4, <2>5
<1>4. QED
  BY <1>2, <1>3

-----------------------------------------------------------------------------
\* With the types: no line is torn but by a kill.
HistoryTypes == TypeOK /\ torn <= kills

\* A list with one of its lines replaced, or one more.
LEMMA OverlaidType ==
    ASSUME NEW lines, lines \in Seq(Lines), NEW i \in Int, NEW x \in Lines
    PROVE  Overlaid(lines, i, x) \in Seq(Lines)
<1>1. lines \in [1..Len(lines) -> Lines] /\ Len(lines) \in Nat
  OBVIOUS
<1>2. [lines EXCEPT ![i] = x] \in [1..Len(lines) -> Lines]
  BY <1>1
<1>3. [lines EXCEPT ![i] = x] \in Seq(Lines)
  BY <1>1, <1>2
<1>4. QED
  BY <1>3 DEF Overlaid

\* Every step keeps the types.
LEMMA HistoryTypesStay ==
    ASSUME HistoryTypes, [Next]_vars
    PROVE  HistoryTypes'
<1> USE DEF HistoryTypes, TypeOK, clock, history
<1>1. \A a \in Actors : ProcOf(a) \in Procs
  BY DEF ProcOf, Procs
<1>2. Seq(Points) \subseteq Seq(Lines)
  BY DEF Lines
<1>3. CASE Tick
  BY <1>3, HistoryAssumption DEF Tick
<1>4. ASSUME NEW p \in Procs, Boot(p) PROVE HistoryTypes'
  BY <1>4, KeptEffect DEF Boot
<1>5. ASSUME NEW p \in Procs, Kill(p) PROVE HistoryTypes'
  <2>1. Appended(file, Torn) \in Seq(Lines)
    BY AppendedEffect
  <2>2. /\ kills' \in 0..MaxKills /\ up' \in SUBSET Procs /\ gutted' \in BOOLEAN
        /\ torn' \in 0..MaxKills /\ torn' <= kills'
    BY <1>5, HistoryAssumption DEF Kill
  <2>3. /\ pc' \in [Actors -> {"idle", "range"} \cup PollStages \cup LockStages]
        /\ left' \in [Actors -> Seq(Points)] /\ point' \in [Actors -> Points]
        /\ before' \in [Actors -> SUBSET Points]
    BY <1>5, PointsAreNoMarks DEF Kill
  <2>4. mem' \in [Procs -> Seq(Points)] /\ file' \in Seq(Lines)
    BY <1>5, <2>1 DEF Kill
  <2>5. QED
    BY <1>5, <2>2, <2>3, <2>4 DEF Kill
<1>6. ASSUME NEW a \in Actors, TakePoint(a) PROVE HistoryTypes'
  <2>1. made + 1 \in 1..MaxPoints /\ <<now, made + 1>> \in Points
    BY <1>6, HistoryAssumption DEF TakePoint, Points
  <2>2. QED
    BY <1>6, <2>1, HistoryAssumption DEF TakePoint, Goto, PollStages
<1>7. ASSUME NEW a \in Actors, AppendInMemory(a) PROVE HistoryTypes'
  BY <1>1, <1>7 DEF AppendInMemory, Goto, LockStages
<1>8. ASSUME NEW a \in Actors, AppendLine(a) PROVE HistoryTypes'
  BY <1>8, AppendedEffect DEF AppendLine, Goto, LockStages
<1>9. ASSUME NEW a \in Actors, PruneNothing(a) \/ RewriteDone(a) PROVE HistoryTypes'
  <2>1. CASE PruneNothing(a)
    BY <2>1, PointsAreNoMarks DEF PruneNothing, Goto
  <2>2. CASE RewriteDone(a)
    BY <2>2, PointsAreNoMarks DEF RewriteDone, Goto
  <2>3. QED
    BY <1>9, <2>1, <2>2
<1>10. ASSUME NEW a \in Actors, PruneOpen(a) PROVE HistoryTypes'
  <2>1. Kept(mem[ProcOf(a)]) \in Seq(Points)
    BY <1>1, <1>2, KeptEffect
  <2>2. mem' \in [Procs -> Seq(Points)] /\ left' \in [Actors -> Seq(Points)]
    BY <1>1, <1>10, <2>1 DEF PruneOpen
  <2>3. pc' \in [Actors -> {"idle", "range"} \cup PollStages \cup LockStages]
    BY <1>10 DEF PruneOpen, Goto, LockStages
  <2>4. file' \in Seq(Lines) /\ pruned' \in BOOLEAN
    BY <1>10 DEF PruneOpen
  <2>5. QED
    BY <1>10, <2>2, <2>3, <2>4 DEF PruneOpen
<1>11. ASSUME NEW a \in Actors, RewriteLine(a) PROVE HistoryTypes'
  <2>1. left[a] \in Seq(Points) /\ left[a] # << >>
    BY <1>11 DEF RewriteLine
  <2>2. Head(left[a]) \in Points /\ Tail(left[a]) \in Seq(Points)
    BY <2>1
  <2>3. Head(left[a]) \in Lines
    BY <2>2, PointsAreNoMarks
  <2>4. \A i \in Int : Overlaid(file, i, Head(left[a])) \in Seq(Lines)
    BY <2>3, OverlaidType
  <2>5. Len(mem[ProcOf(a)]) - Len(left[a]) + 1 \in Int
    BY <1>1
  <2>6. QED
    BY <1>11, <2>2, <2>4, <2>5 DEF RewriteLine
<1>12. ASSUME NEW a \in Actors, ReloadClear(a) \/ ServeRange(a) PROVE HistoryTypes'
  <2>1. PointsIn(file) \in SUBSET Points /\ {} \in SUBSET Points /\ << >> \in Seq(Points)
    BY DEF PointsIn
  <2>2. CASE ReloadClear(a)
    BY <2>1, <2>2 DEF ReloadClear, Goto, LockStages
  <2>3. CASE ServeRange(a)
    BY <2>1, <2>3 DEF ServeRange, Goto
  <2>4. QED
    BY <1>12, <2>2, <2>3
<1>13. ASSUME NEW a \in Actors, ReloadLoad(a) PROVE HistoryTypes'
  BY <1>13, KeptEffect DEF ReloadLoad, Goto
<1>14. CASE UNCHANGED vars
  BY <1>14 DEF vars
<1>15. QED
  BY <1>3, <1>4, <1>5, <1>6, <1>7, <1>8, <1>9, <1>10, <1>11, <1>12, <1>13, <1>14 DEF Next

LEMMA HistoryTypesHold == Spec => []HistoryTypes
<1>1. ASSUME Init PROVE HistoryTypes
  <2> USE DEF Init
  <2>1. 0 \in 0..MaxTime /\ 0 \in 0..MaxPoints /\ 0 \in 0..MaxKills /\ 0 <= 0
    BY HistoryAssumption
  <2>2. /\ mem \in [Procs -> Seq(Points)] /\ left \in [Actors -> Seq(Points)]
        /\ point \in [Actors -> Points] /\ before \in [Actors -> SUBSET Points]
    BY <1>1, PointsAreNoMarks
  <2>3. file \in Seq(Lines) /\ pc \in [Actors -> {"idle", "range"} \cup PollStages \cup LockStages]
    BY <1>1
  <2>4. QED
    BY <1>1, <2>1, <2>2, <2>3 DEF HistoryTypes, TypeOK
<1>2. HistoryTypes /\ [Next]_vars => HistoryTypes'
  BY HistoryTypesStay
<1>3. QED
  BY <1>1, <1>2, PTL DEF Spec

\* Every variable of the model of store.py keeps its type.
THEOREM HistoryTypeCorrect == Spec => []TypeOK
<1>1. HistoryTypes => TypeOK
  BY DEF HistoryTypes
<1>2. QED
  BY <1>1, HistoryTypesHold, PTL

-----------------------------------------------------------------------------
(* Appends survive *)

\* The points that should be on file: those append() has written, or returned
\* for, and that have not expired.
Written == acked \cup {point[a] : a \in {b \in Actors : pc[b] \in {"prune", "rewrite"}}}
Due == {x \in Written : IsFresh(x)}

\* Who writes: processes that run; and without Refresh, the poller alone.
WritersInv ==
    /\ \A a \in Actors : ProcOf(a) \notin up => pc[a] = "idle"
    /\ Rewriting => pruned
    /\ ~refreshing => \A a \in Threads : pc[a] \notin PollStages

\* A torn line at the end has yet to swallow its point.
Swallowed == IF EndsTorn(file) THEN torn - 1 ELSE torn
OnFileInv ==
    (~refreshing \/ ~pruned) /\ ~gutted /\ ~Rewriting
    => Cardinality(Due \ PointsIn(file)) <= Swallowed

\* The poller's list has what is due, also what the file lacks.
InMemoryInv ==
    ~refreshing /\ ~gutted /\ Poller \in up =>
      /\ Cardinality(Due \ ToSet(mem[Poller])) <= torn
      /\ pc[Poller] \in {"write", "prune", "rewrite"} /\ IsFresh(point[Poller])
           => point[Poller] \in ToSet(mem[Poller])

\* A rewrite by the poller alone has put the first lines of its list on file.
SplitsInto(list, lines, rest) ==
    /\ Len(lines) + Len(rest) = Len(list)
    /\ \A i \in 1..Len(lines) : lines[i] = list[i]
    /\ \A i \in 1..Len(rest) : rest[i] = list[Len(lines) + i]
RewriteInv ==
    ~refreshing /\ pc[Poller] = "rewrite" => SplitsInto(mem[Poller], file, left[Poller])

SurviveInv == WritersInv /\ OnFileInv /\ InMemoryInv /\ RewriteInv

LEMMA PointsFinite ==
    ASSUME NEW S, NEW T, S \subseteq T, T \subseteq Points
    PROVE  /\ IsFiniteSet(T) /\ Cardinality(S) \in Nat /\ Cardinality(T) \in Nat
           /\ Cardinality(S) <= Cardinality(T)
<1>1. MaxTime \in Nat /\ MaxPoints \in Nat
  BY HistoryAssumption
<1>2. IsFiniteSet(0..MaxTime) /\ IsFiniteSet(1..MaxPoints)
  BY <1>1, FS_Interval
<1>3. IsFiniteSet(Points)
  BY <1>2, FS_Product DEF Points
<1>4. IsFiniteSet(S) /\ IsFiniteSet(T) /\ Cardinality(S) <= Cardinality(T)
  BY <1>3, FS_Subset
<1>5. QED
  BY <1>4, FS_CardinalityType

LEMMA DueArePoints == TypeOK => Written \subseteq Points /\ Due \subseteq Points
BY DEF TypeOK, Written, Due

LEMMA OneElementMore ==
    ASSUME NEW S, IsFiniteSet(S), NEW x
    PROVE  Cardinality(S \cup {x}) <= Cardinality(S) + 1
<1>1. Cardinality(S) \in Nat
  BY FS_CardinalityType
<1>2. CASE x \in S
  <2>1. S \cup {x} = S
    BY <1>2
  <2>2. Cardinality(S \cup {x}) = Cardinality(S)
    BY <2>1
  <2>3. QED
    BY <1>1, <2>2
<1>3. CASE x \notin S
  <2>1. Cardinality(S \cup {x}) = Cardinality(S) + 1
    BY <1>3, FS_AddElement
  <2>2. QED
    BY <1>1, <2>1
<1>4. QED
  BY <1>2, <1>3

LEMMA PointsAge ==
    ASSUME HistoryTypes, Tick
    PROVE  \A x \in Points : IsFresh(x)' => IsFresh(x)
<1>1. now \in Nat /\ Retention \in Nat /\ now' = now + 1
  BY HistoryAssumption DEF Tick, HistoryTypes, TypeOK
<1>2. \A x \in Points : x[1] \in Nat
  BY PointsAreNoMarks
<1>3. QED
  BY <1>1, <1>2 DEF IsFresh

\* Nothing becomes due but by the write of its line.
LEMMA DueSteps ==
    ASSUME HistoryTypes, [Next]_vars, NEW x, x \in Due', x \notin Due
    PROVE  \E b \in Actors : AppendLine(b) /\ x = point[b]
<1> USE DEF HistoryTypes, TypeOK, clock, history
<1>1. CASE Tick
  <2>1. Written' = Written
    BY <1>1 DEF Tick, Written
  <2>2. \A y \in Points : IsFresh(y)' => IsFresh(y)
    BY <1>1, PointsAge
  <2>3. QED
    BY <2>1, <2>2, DueArePoints DEF Due
<1>2. ASSUME NEW p \in Procs, Boot(p) PROVE FALSE
  BY <1>2 DEF Boot, Due, Written, IsFresh
<1>3. ASSUME NEW p \in Procs, Kill(p) PROVE FALSE
  BY <1>3 DEF Kill, Due, Written, IsFresh
<1>4. ASSUME NEW b \in Actors, TakePoint(b) PROVE FALSE
  BY <1>4 DEF TakePoint, Due, Written, IsFresh, Goto
<1>5. ASSUME NEW b \in Actors, AppendInMemory(b) PROVE FALSE
  BY <1>5 DEF AppendInMemory, Due, Written, IsFresh, Goto
<1>6. ASSUME NEW b \in Actors, AppendLine(b) PROVE x = point[b]
  BY <1>6 DEF AppendLine, Due, Written, IsFresh, Goto
<1>7. ASSUME NEW b \in Actors, PruneNothing(b) \/ RewriteDone(b) PROVE FALSE
  BY <1>7 DEF PruneNothing, RewriteDone, Due, Written, IsFresh, Goto
<1>8. ASSUME NEW b \in Actors, PruneOpen(b) PROVE FALSE
  BY <1>8 DEF PruneOpen, Due, Written, IsFresh, Goto
<1>9. ASSUME NEW b \in Actors, RewriteLine(b) PROVE FALSE
  BY <1>9 DEF RewriteLine, Due, Written, IsFresh
<1>10. ASSUME NEW b \in Actors, ReloadClear(b) \/ ReloadLoad(b) \/ ServeRange(b) PROVE FALSE
  BY <1>10 DEF ReloadClear, ReloadLoad, ServeRange, Due, Written, IsFresh, Goto
<1>11. CASE UNCHANGED vars
  BY <1>11 DEF vars, Due, Written, IsFresh
<1>12. QED
  BY <1>1, <1>2, <1>3, <1>4, <1>5, <1>6, <1>7, <1>8, <1>9, <1>10, <1>11 DEF Next

\* What the actors' processes are.
LEMMA TheActors ==
    /\ Poller # Web /\ Poller \notin Threads /\ Poller \in Actors /\ ProcOf(Poller) = Poller
    /\ Procs = {Poller, Web} /\ Threads \subseteq Actors
    /\ \A a \in Actors : a # Poller => a \in Threads /\ ProcOf(a) = Web
BY HistoryAssumption DEF ProcOf, Actors, Procs

LEMMA SomeThingsStay ==
    ASSUME [Next]_vars
    PROVE  refreshing' = refreshing /\ (gutted => gutted')
<1>1. refreshing' = refreshing
  BY DEF Next, vars, clock, history, Tick, Boot, Kill, TakePoint, AppendInMemory, AppendLine,
         PruneNothing, PruneOpen, RewriteLine, RewriteDone, ReloadClear, ReloadLoad, ServeRange
<1>2. ASSUME NEW p \in Procs, Kill(p) PROVE gutted => gutted'
  BY <1>2 DEF Kill
<1>3. ASSUME ~\E p \in Procs : Kill(p) PROVE gutted => gutted'
  BY <1>3 DEF Next, vars, clock, history, Tick, Boot, TakePoint, AppendInMemory, AppendLine,
         PruneNothing, PruneOpen, RewriteLine, RewriteDone, ReloadClear, ReloadLoad, ServeRange
<1>4. QED
  BY <1>1, <1>2, <1>3

\* Only a process that runs does anything, and only the poller appends unless
\* the worker serves Refresh.
LEMMA WritersHold ==
    ASSUME HistoryTypes, WritersInv, [Next]_vars
    PROVE  WritersInv'
<1> DEFINE Stages == {"idle", "range"} \cup PollStages \cup LockStages
<1>1. pc \in [Actors -> Stages]
  BY DEF HistoryTypes, TypeOK
<1> HIDE DEF Stages
<1> USE TheActors DEF clock, history, WritersInv, Rewriting, PollStages
<1>2. CASE Tick
  BY <1>2 DEF Tick
<1>3. ASSUME NEW p \in Procs, Boot(p) PROVE WritersInv'
  BY <1>3 DEF Boot
<1>4. ASSUME NEW p \in Procs, Kill(p) PROVE WritersInv'
  <2>1. \A a \in Actors : pc'[a] = IF ProcOf(a) = p THEN "idle" ELSE pc[a]
    BY <1>4 DEF Kill
  <2>2. up' = up \ {p} /\ UNCHANGED <<refreshing, pruned>>
    BY <1>4 DEF Kill
  <2>3. QED
    BY <2>1, <2>2
<1>5. ASSUME NEW a \in Actors, TakePoint(a) PROVE WritersInv'
  <2>1. /\ ProcOf(a) \in up /\ (a = Poller \/ refreshing)
        /\ UNCHANGED <<up, refreshing, pruned>>
    BY <1>5 DEF TakePoint
  <2>2. \A b \in Actors : pc'[b] = IF b = a THEN "append" ELSE pc[b]
    BY <1>1, <1>5 DEF TakePoint, Goto
  <2>3. (\A b \in Actors : ProcOf(b) \notin up => pc[b] = "idle")'
    BY <2>1, <2>2
  <2>4. (~refreshing => \A b \in Threads : pc[b] \notin PollStages)'
    BY <2>1, <2>2 DEF Actors
  <2>5. (Rewriting => pruned)'
    BY <2>1, <2>2
  <2>6. QED
    BY <2>3, <2>4, <2>5
<1>6. ASSUME NEW a \in Actors, AppendInMemory(a) PROVE WritersInv'
  BY <1>1, <1>6 DEF AppendInMemory, Goto
<1>7. ASSUME NEW a \in Actors, AppendLine(a) PROVE WritersInv'
  BY <1>1, <1>7 DEF AppendLine, Goto
<1>8. ASSUME NEW a \in Actors, PruneNothing(a) PROVE WritersInv'
  BY <1>1, <1>8 DEF PruneNothing, Goto
<1>9. ASSUME NEW a \in Actors, PruneOpen(a) PROVE WritersInv'
  BY <1>1, <1>9 DEF PruneOpen, Goto
<1>10. ASSUME NEW a \in Actors, RewriteLine(a) PROVE WritersInv'
  BY <1>10 DEF RewriteLine
<1>11. ASSUME NEW a \in Actors, RewriteDone(a) PROVE WritersInv'
  BY <1>1, <1>11 DEF RewriteDone, Goto
<1>12. ASSUME NEW a \in Actors, ReloadClear(a) PROVE WritersInv'
  BY <1>1, <1>12 DEF ReloadClear, Goto
<1>13. ASSUME NEW a \in Actors, ReloadLoad(a) PROVE WritersInv'
  BY <1>1, <1>13 DEF ReloadLoad, Goto
<1>14. ASSUME NEW a \in Actors, ServeRange(a) PROVE WritersInv'
  BY <1>1, <1>14 DEF ServeRange, Goto
<1>15. CASE UNCHANGED vars
  BY <1>15 DEF vars
<1>16. QED
  BY <1>2, <1>3, <1>4, <1>5, <1>6, <1>7, <1>8, <1>9, <1>10, <1>11, <1>12, <1>13, <1>14, <1>15
     DEF Next

\* The next line of a rewrite goes to the end of a file that has the first
\* lines of the list.
LEMMA OneMoreLine ==
    ASSUME NEW f, f \in Seq(Lines), NEW l, l \in Seq(Points), NEW m, m \in Seq(Points),
           l # << >>, SplitsInto(m, f, l)
    PROVE  SplitsInto(m, Overlaid(f, Len(m) - Len(l) + 1, Head(l)), Tail(l))
<1> DEFINE g == Overlaid(f, Len(m) - Len(l) + 1, Head(l))
<1> DEFINE n == Len(f)
<1> DEFINE k == Len(l)
<1> DEFINE q == Len(m)
<1>1. n \in Nat /\ k \in Nat \ {0} /\ q \in Nat /\ n + k = q
  BY DEF SplitsInto
<1>2. Head(l) = l[1] /\ l[1] \in Lines
  BY DEF Lines
<1>3. /\ Len(Tail(l)) = k - 1
      /\ \A i \in 1..k - 1 : Tail(l)[i] = l[i + 1]
  OBVIOUS
<1>4. q - k + 1 = n + 1 /\ ~(n + 1 <= n)
  <2> HIDE DEF n, k, q
  <2>1. QED
    BY <1>1
<1>5. g = Append(f, l[1])
  BY <1>2, <1>4 DEF Overlaid
<1>6. Len(g) = n + 1 /\ g[n + 1] = l[1] /\ \A i \in 1..n : g[i] = f[i]
  BY <1>2, <1>5
<1>7. /\ \A i \in 1..n : f[i] = m[i]
      /\ \A i \in 1..k : l[i] = m[n + i]
  BY DEF SplitsInto
<1> HIDE DEF n, k, q, g
<1>8. \A i \in 1..n + 1 : g[i] = m[i]
  <2>1. 1 \in 1..k
    BY <1>1
  <2>2. g[n + 1] = m[n + 1]
    BY <1>6, <1>7, <2>1
  <2>3. \A i \in 1..n + 1 : i = n + 1 \/ i \in 1..n
    BY <1>1
  <2>4. QED
    BY <1>6, <1>7, <2>2, <2>3
<1>9. \A i \in 1..k - 1 : Tail(l)[i] = m[n + 1 + i]
  <2>1. \A i \in 1..k - 1 : i + 1 \in 1..k /\ n + (i + 1) = n + 1 + i
    BY <1>1
  <2>2. QED
    BY <1>3, <1>7, <2>1
<1>10. (n + 1) + (k - 1) = q
  BY <1>1
<1>11. QED
  <2>1. SplitsInto(m, g, Tail(l))
    BY <1>3, <1>6, <1>8, <1>9, <1>10 DEF q, SplitsInto
  <2>2. QED
    BY <2>1 DEF g

LEMMA RewriteHolds ==
    ASSUME HistoryTypes, WritersInv, RewriteInv, [Next]_vars
    PROVE  RewriteInv'
<1> SUFFICES ASSUME ~refreshing', pc'[Poller] = "rewrite"
             PROVE  RewriteInv'
  BY DEF RewriteInv
<1> USE DEF HistoryTypes, TypeOK, clock, history
<1> USE TheActors
<1>1. ~refreshing /\ \A a \in Actors : pc[a] \in PollStages => a = Poller
  <2>1. QED
    BY SomeThingsStay DEF WritersInv
<1>2. SUFFICES ASSUME pc[Poller] = "rewrite" => ~(file' = file /\ mem'[Poller] = mem[Poller] /\ left'[Poller] = left[Poller])
               PROVE  RewriteInv'
  BY <1>1 DEF RewriteInv
<1>3. ASSUME NEW p \in Procs, Boot(p) PROVE FALSE
  BY <1>1, <1>2, <1>3 DEF Boot, WritersInv
<1>4. ASSUME NEW p \in Procs, Kill(p) PROVE FALSE
  <2>1. p = Web
    BY <1>4 DEF Kill
  <2>2. pc'[Poller] = pc[Poller] /\ mem'[Poller] = mem[Poller] /\ left'[Poller] = left[Poller]
    BY <1>4, <2>1 DEF Kill
  <2>3. file' = file
    BY <1>1, <1>4, <2>1 DEF Kill, PollStages
  <2>4. QED
    BY <1>2, <2>2, <2>3
<1>5. ASSUME NEW a \in Actors, PruneOpen(a) PROVE RewriteInv'
  <2>1. a = Poller
    BY <1>1, <1>5 DEF PruneOpen, Goto, PollStages
  <2>2. mem'[Poller] = left'[Poller] /\ file' = << >> /\ mem'[Poller] \in Seq(Points)
    <3>1. Kept(mem[Poller]) \in Seq(Points)
      <4>1. mem[Poller] \in Seq(Points) /\ Seq(Points) \subseteq Seq(Lines)
        BY DEF Lines
      <4>2. QED
        BY <4>1, KeptEffect
    <3>2. QED
      BY <1>5, <2>1, <3>1 DEF PruneOpen
  <2>3. QED
    BY <2>2 DEF RewriteInv, SplitsInto
<1>6. ASSUME NEW a \in Actors, RewriteLine(a) PROVE RewriteInv'
  <2>1. a = Poller
    BY <1>1, <1>6 DEF RewriteLine, PollStages
  <2>2. /\ left[Poller] # << >> /\ left' = [left EXCEPT ![Poller] = Tail(left[Poller])]
        /\ file' = Overlaid(file, Len(mem[Poller]) - Len(left[Poller]) + 1, Head(left[Poller]))
        /\ mem' = mem /\ pc[Poller] = "rewrite"
    BY <1>6, <2>1 DEF RewriteLine
  <2>3. /\ file \in Seq(Lines) /\ left[Poller] \in Seq(Points) /\ mem[Poller] \in Seq(Points)
        /\ left'[Poller] = Tail(left[Poller])
    BY <2>2
  <2>4. SplitsInto(mem[Poller], file', left'[Poller])
    BY <1>1, <2>2, <2>3, OneMoreLine DEF RewriteInv
  <2>5. QED
    BY <2>2, <2>4 DEF RewriteInv
<1>7. ASSUME NEW a \in Actors, TakePoint(a) \/ AppendInMemory(a) \/ AppendLine(a) PROVE FALSE
  BY <1>1, <1>7 DEF TakePoint, AppendInMemory, AppendLine, Goto, PollStages
<1>8. ASSUME NEW a \in Actors, PruneNothing(a) \/ RewriteDone(a) PROVE FALSE
  BY <1>1, <1>8 DEF PruneNothing, RewriteDone, Goto, PollStages
<1>9. ASSUME NEW a \in Actors, ReloadClear(a) \/ ReloadLoad(a) \/ ServeRange(a) PROVE FALSE
  BY <1>2, <1>9 DEF ReloadClear, ReloadLoad, ServeRange, Goto
<1>10. CASE Tick \/ UNCHANGED vars
  BY <1>2, <1>10 DEF Tick, vars
<1>11. QED
  BY <1>3, <1>4, <1>5, <1>6, <1>7, <1>8, <1>9, <1>10 DEF Next

\* The file keeps what it has of the points due while no point falls due.
LEMMA OnFileStays ==
    ASSUME HistoryTypes, OnFileInv, Due' \subseteq Due, file' = file, torn' = torn,
           UNCHANGED <<refreshing, pruned>>, gutted => gutted', Rewriting => Rewriting'
    PROVE  OnFileInv'
<1>1. /\ PointsIn(file)' = PointsIn(file) /\ Swallowed' = Swallowed
  BY DEF PointsIn, Points, Swallowed, EndsTorn
<1>2. Swallowed \in Int
  BY DEF HistoryTypes, TypeOK, Swallowed
<1>3. /\ Cardinality(Due' \ PointsIn(file)) \in Nat /\ Cardinality(Due \ PointsIn(file)) \in Nat
      /\ Cardinality(Due' \ PointsIn(file)) <= Cardinality(Due \ PointsIn(file))
  <2>1. Due \subseteq Points
    BY DueArePoints DEF HistoryTypes
  <2>2. QED
    BY <2>1, PointsFinite
<1>4. QED
  BY <1>1, <1>2, <1>3 DEF OnFileInv

\* ... and so it does, whatever the step.
LEMMA OnFileHolds ==
    ASSUME HistoryTypes, SurviveInv, [Next]_vars
    PROVE  OnFileInv'
<1> SUFFICES ASSUME ~gutted', ~Rewriting', ~refreshing' \/ ~pruned' PROVE OnFileInv'
  BY DEF OnFileInv
<1> USE TheActors DEF clock, history
<1>1. /\ torn \in Nat /\ file \in Seq(Lines) /\ Due \subseteq Points
      /\ \A a \in Actors : point[a] \in Points
      /\ DOMAIN pc = Actors
  BY DueArePoints DEF HistoryTypes, TypeOK
<1>2. ASSUME UNCHANGED <<refreshing, pruned>>, gutted => gutted', Rewriting => Rewriting'
      PROVE  Cardinality(Due \ PointsIn(file)) <= Swallowed
  BY <1>2 DEF SurviveInv, OnFileInv
<1>3. ASSUME Cardinality(Due' \ PointsIn(file')) <= Swallowed' PROVE OnFileInv'
  BY <1>3 DEF OnFileInv, PointsIn
<1>4. Swallowed \in Int /\ Swallowed' \in Int
  BY <1>1, HistoryTypesStay DEF Swallowed, HistoryTypes, TypeOK
<1>5. ASSUME NEW p \in Procs, Kill(p) PROVE OnFileInv'
  <2>1. Due' \subseteq Due
    BY <1>5, DueSteps DEF Kill, AppendLine, HistoryTypes, TypeOK
  <2>2. UNCHANGED <<refreshing, pruned>> /\ (gutted => gutted') /\ (Rewriting => Rewriting')
    BY <1>5 DEF Kill, Rewriting
  <2>3. CASE file' = file /\ torn' = torn
    BY <2>1, <2>2, <2>3, OnFileStays DEF SurviveInv
  <2>4. CASE file' = Appended(file, Torn) /\ torn' = torn + 1
    <3>1. PointsIn(file) \subseteq PointsIn(file') /\ (EndsTorn(file') => ~EndsTorn(file))
      BY <1>1, <2>4, AppendedEffect
    <3>2. Swallowed <= Swallowed'
      BY <1>1, <2>4, <3>1 DEF Swallowed
    <3>3. Due' \ PointsIn(file') \subseteq Due \ PointsIn(file)
      BY <2>1, <3>1
    <3>4. Cardinality(Due \ PointsIn(file)) <= Swallowed
      BY <1>2, <2>2
    <3>5. Cardinality(Due' \ PointsIn(file')) <= Swallowed'
      BY <1>1, <1>4, <3>2, <3>3, <3>4, PointsFinite
    <3>6. QED
      BY <1>3, <3>5
  <2>5. QED
    BY <1>5, <2>3, <2>4 DEF Kill
<1>6. ASSUME NEW a \in Actors, AppendLine(a) PROVE OnFileInv'
  <2>1. /\ file' = Appended(file, point[a]) /\ torn' = torn
        /\ UNCHANGED <<refreshing, pruned>> /\ (gutted => gutted') /\ (Rewriting => Rewriting')
    BY <1>1, <1>6 DEF AppendLine, Goto, Rewriting
  <2>2. Due' \subseteq Due \cup {point[a]}
    <3>1. ASSUME NEW b \in Actors, AppendLine(b) PROVE b = a
      BY <1>1, <1>6, <3>1 DEF AppendLine, Goto
    <3>2. QED
      BY <3>1, DueSteps
  <2>3. CASE EndsTorn(file)
    <3> DEFINE S == Due \ PointsIn(file)
    <3>1. PointsIn(file) \subseteq PointsIn(file') /\ ~EndsTorn(file')
      BY <1>1, <2>1, <2>3, AppendedEffect
    <3>2. Due' \ PointsIn(file') \subseteq S \cup {point[a]}
      BY <2>2, <3>1
    <3>3. S \cup {point[a]} \subseteq Points /\ S \subseteq Points
      BY <1>1
    <3>4. Cardinality(S \cup {point[a]}) <= Cardinality(S) + 1
      BY <3>3, OneElementMore, PointsFinite
    <3>5. Swallowed = torn - 1 /\ Swallowed' = torn
      BY <2>1, <2>3, <3>1 DEF Swallowed
    <3>6. Cardinality(S) <= Swallowed
      BY <1>2, <2>1
    <3> HIDE DEF S
    <3>7. /\ Cardinality(Due' \ PointsIn(file')) <= Cardinality(S \cup {point[a]})
          /\ Cardinality(S) \in Nat
          /\ Cardinality(Due' \ PointsIn(file')) \in Nat
          /\ Cardinality(S \cup {point[a]}) \in Nat
      BY <3>2, <3>3, PointsFinite
    <3>8. Cardinality(Due' \ PointsIn(file')) <= Swallowed'
      BY <1>1, <3>4, <3>5, <3>6, <3>7
    <3>9. QED
      BY <1>3, <3>8
  <2>4. CASE ~EndsTorn(file)
    <3>1. point[a] \in Points /\ point[a] # Torn
      BY <1>1, PointsAreNoMarks
    <3>2. /\ PointsIn(file) \subseteq PointsIn(file') /\ point[a] \in PointsIn(file')
          /\ ~EndsTorn(file')
      BY <1>1, <2>1, <2>4, <3>1, AppendedEffect
    <3>3. Due' \ PointsIn(file') \subseteq Due \ PointsIn(file)
      BY <2>2, <3>2
    <3>4. Cardinality(Due' \ PointsIn(file')) <= Swallowed
      BY <1>1, <1>2, <1>4, <2>1, <3>3, PointsFinite
    <3>5. Swallowed' = Swallowed
      BY <2>1, <2>4, <3>2 DEF Swallowed
    <3>6. QED
      BY <1>3, <3>4, <3>5
  <2>5. QED
    BY <2>3, <2>4
<1>7. ASSUME NEW a \in Actors, RewriteDone(a) PROVE OnFileInv'
  <2>1. ~refreshing /\ ~gutted /\ pc[a] = "rewrite" /\ a = Poller
    BY <1>7 DEF RewriteDone, Goto, SurviveInv, WritersInv, Rewriting, PollStages
  <2>2. /\ SplitsInto(mem[Poller], file, << >>)
        /\ file' = file /\ torn' = torn /\ left[Poller] = << >>
    BY <1>7, <2>1 DEF RewriteDone, SurviveInv, RewriteInv
  <2>3. mem[Poller] \in Seq(Points)
    BY DEF HistoryTypes, TypeOK
  <2>4. Len(file) = Len(mem[Poller]) /\ \A i \in 1..Len(file) : file[i] = mem[Poller][i]
    BY <1>1, <2>2, <2>3 DEF SplitsInto
  <2>5. PointsIn(file) = ToSet(mem[Poller])
    BY <1>1, <2>3, <2>4 DEF PointsIn, ToSet
  <2>6. ~EndsTorn(file)
    BY <1>1, <2>3, <2>4, PointsAreNoMarks DEF EndsTorn, Last
  <2>7. Cardinality(Due \ ToSet(mem[Poller])) <= torn
    BY <2>1 DEF SurviveInv, WritersInv, InMemoryInv
  <2>8. Due' \subseteq Due
    BY <1>1, <1>7, <2>2, DueSteps DEF RewriteDone, AppendLine, Goto
  <2>9. Cardinality(Due' \ PointsIn(file)) <= torn
    <3>1. Due' \ PointsIn(file) \subseteq Due \ PointsIn(file) /\ Due \ PointsIn(file) \subseteq Points
      BY <1>1, <2>8
    <3>2. QED
      BY <1>1, <2>5, <2>7, <3>1, PointsFinite
  <2>10. Swallowed' = torn
    BY <2>2, <2>6 DEF Swallowed, EndsTorn
  <2>11. QED
    BY <1>3, <2>2, <2>9, <2>10
<1>8. ASSUME NEW a \in Actors, PruneOpen(a) \/ RewriteLine(a) PROVE FALSE
  BY <1>1, <1>8 DEF PruneOpen, RewriteLine, Rewriting, Goto
<1>9. ASSUME ~\E a \in Actors : AppendLine(a), UNCHANGED <<refreshing, pruned, gutted, file, torn>>,
             Rewriting => Rewriting'
      PROVE  OnFileInv'
  <2>1. Due' \subseteq Due
    BY <1>9, DueSteps
  <2>2. QED
    BY <1>9, <2>1, OnFileStays DEF SurviveInv
<1>10. CASE Tick
  <2>1. Rewriting => Rewriting'
    BY <1>10 DEF Tick, Rewriting
  <2>2. ~\E a \in Actors : AppendLine(a)
    BY <1>1, <1>10 DEF Tick, AppendLine, Goto
  <2>3. QED
    BY <1>9, <1>10, <2>1, <2>2 DEF Tick
<1>11. ASSUME NEW p \in Procs, Boot(p) PROVE OnFileInv'
  <2>1. Rewriting => Rewriting'
    BY <1>11 DEF Boot, Rewriting
  <2>2. ~\E a \in Actors : AppendLine(a)
    BY <1>1, <1>11 DEF Boot, AppendLine, Goto
  <2>3. QED
    BY <1>9, <1>11, <2>1, <2>2 DEF Boot
<1>12. ASSUME NEW a \in Actors, TakePoint(a) PROVE OnFileInv'
  <2>1. Rewriting => Rewriting'
    BY <1>1, <1>12 DEF TakePoint, Rewriting, Goto
  <2>2. ~\E b \in Actors : AppendLine(b)
    BY <1>1, <1>12 DEF TakePoint, AppendLine, Goto
  <2>3. QED
    BY <1>9, <1>12, <2>1, <2>2 DEF TakePoint
<1>13. ASSUME NEW a \in Actors, AppendInMemory(a) PROVE OnFileInv'
  <2>1. Rewriting => Rewriting'
    BY <1>1, <1>13 DEF AppendInMemory, Rewriting, Goto
  <2>2. ~\E b \in Actors : AppendLine(b)
    BY <1>1, <1>13 DEF AppendInMemory, AppendLine, Goto
  <2>3. QED
    BY <1>9, <1>13, <2>1, <2>2 DEF AppendInMemory
<1>14. ASSUME NEW a \in Actors, PruneNothing(a) PROVE OnFileInv'
  <2>1. Rewriting => Rewriting'
    BY <1>1, <1>14 DEF PruneNothing, Rewriting, Goto
  <2>2. ~\E b \in Actors : AppendLine(b)
    BY <1>1, <1>14 DEF PruneNothing, AppendLine, Goto
  <2>3. QED
    BY <1>9, <1>14, <2>1, <2>2 DEF PruneNothing
<1>15. ASSUME NEW a \in Actors, ReloadClear(a) \/ ReloadLoad(a) \/ ServeRange(a) PROVE OnFileInv'
  <2>1. Rewriting => Rewriting'
    BY <1>1, <1>15 DEF ReloadClear, ReloadLoad, ServeRange, Rewriting, Goto
  <2>2. ~\E b \in Actors : AppendLine(b)
    BY <1>1, <1>15 DEF ReloadClear, ReloadLoad, ServeRange, AppendLine, Goto
  <2>3. QED
    BY <1>9, <1>15, <2>1, <2>2 DEF ReloadClear, ReloadLoad, ServeRange
<1>16. CASE UNCHANGED vars
  <2>1. Rewriting => Rewriting'
    BY <1>16 DEF vars, Rewriting
  <2>2. ~\E a \in Actors : AppendLine(a)
    BY <1>1, <1>16 DEF vars, AppendLine, Goto
  <2>3. QED
    BY <1>9, <1>16, <2>1, <2>2 DEF vars
<1>17. QED
  BY <1>5, <1>6, <1>7, <1>8, <1>10, <1>11, <1>12, <1>13, <1>14, <1>15, <1>16 DEF Next

\* The poller's list keeps what is due.
LEMMA InMemoryHolds ==
    ASSUME HistoryTypes, SurviveInv, [Next]_vars
    PROVE  InMemoryInv'
<1> SUFFICES ASSUME ~refreshing', ~gutted', Poller \in up' PROVE InMemoryInv'
  BY DEF InMemoryInv
<1> USE TheActors DEF clock, history
<1> DEFINE Missing == Due \ ToSet(mem[Poller])
<1>1. /\ torn \in Nat /\ Due \subseteq Points /\ DOMAIN pc = Actors /\ DOMAIN mem = Procs
      /\ DOMAIN point = Actors /\ mem[Poller] \in Seq(Points) /\ point[Poller] \in Points
      /\ Seq(Points) \subseteq Seq(Lines) /\ file \in Seq(Lines)
  BY DueArePoints DEF HistoryTypes, TypeOK, Lines
<1>2. refreshing' = refreshing /\ (gutted => gutted')
  BY SomeThingsStay
<1>3. ~refreshing /\ ~gutted /\ \A a \in Actors : pc[a] \in PollStages => a = Poller
  BY <1>2 DEF SurviveInv, WritersInv
<1>4. ASSUME Poller \in up
      PROVE  /\ Cardinality(Missing) <= torn
             /\ pc[Poller] \in {"write", "prune", "rewrite"} /\ IsFresh(point[Poller])
                  => point[Poller] \in ToSet(mem[Poller])
  BY <1>3, <1>4 DEF SurviveInv, InMemoryInv
\* It is enough that nothing due goes missing, and the point at hand is there.
<1>5. ASSUME Poller \in up, torn' \in Nat, torn <= torn', Missing' \subseteq Missing,
             pc'[Poller] \in {"write", "prune", "rewrite"} /\ IsFresh(point[Poller])'
               => point'[Poller] \in ToSet(mem'[Poller])
      PROVE  InMemoryInv'
  <2>1. Missing \subseteq Points
    BY <1>1
  <2>2. Cardinality(Missing') <= torn'
    <3> HIDE DEF Missing
    <3>1. QED
      BY <1>1, <1>4, <1>5, <2>1, PointsFinite
  <2>3. QED
    BY <1>5, <2>2 DEF InMemoryInv, ToSet
<1>6. CASE Tick
  <2>1. \A x \in Points : IsFresh(x)' => IsFresh(x)
    BY <1>6, PointsAge
  <2>2. Due' \subseteq Due
    BY <1>6, <2>1, DueArePoints, HistoryTypesStay DEF Tick, Due, Written, HistoryTypes
  <2>3. QED
    BY <1>1, <1>4, <1>5, <1>6, <2>1, <2>2 DEF Tick, ToSet
<1>7. ASSUME ~\E a \in Actors : AppendLine(a) PROVE Due' \subseteq Due
  BY <1>7, DueSteps
\* Steps that leave the poller's list, its point and its place alone.
<1>8. ASSUME ~\E a \in Actors : AppendLine(a), mem'[Poller] = mem[Poller], up' \cap {Poller} = up \cap {Poller},
             torn' \in Nat, torn <= torn', point'[Poller] = point[Poller], now' = now,
             pc'[Poller] \in {"write", "prune", "rewrite"} => pc[Poller] \in {"write", "prune", "rewrite"}
      PROVE  InMemoryInv'
  <2>1. Missing' \subseteq Missing
    BY <1>7, <1>8 DEF ToSet
  <2>2. IsFresh(point[Poller])' = IsFresh(point[Poller])
    BY <1>8 DEF IsFresh
  <2> HIDE DEF Missing
  <2>3. Poller \in up
    BY <1>8
  <2>4. QED
    BY <1>4, <1>5, <1>8, <2>1, <2>2, <2>3 DEF ToSet
<1>9. ASSUME NEW p \in Procs, Boot(p) PROVE InMemoryInv'
  <2>1. ~\E a \in Actors : AppendLine(a)
    BY <1>1, <1>9 DEF Boot, AppendLine, Goto
  <2>2. CASE p = Web
    BY <1>1, <1>8, <1>9, <2>1, <2>2 DEF Boot
  <2>3. CASE p = Poller
    <3>1. pc[Poller] = "idle" /\ pc' = pc /\ file' = file /\ torn' = torn /\ now' = now
      BY <1>9, <2>3 DEF Boot, SurviveInv, WritersInv
    <3>2. mem'[Poller] = Loaded(file)
      BY <1>1, <1>9, <2>3 DEF Boot
    <3>3. Due' \ ToSet(mem'[Poller]) \subseteq Due \ PointsIn(file)
      <4>1. \A x \in Due' : x \in Due /\ IsFresh(x)
        BY <1>7, <2>1 DEF Due
      <4>2. QED
        BY <1>1, <3>2, <4>1, KeptEffect
    <3>4. Cardinality(Due \ PointsIn(file)) <= Swallowed
      BY <1>3, <3>1 DEF SurviveInv, OnFileInv, Rewriting, PollStages
    <3>5. Swallowed <= torn /\ Swallowed \in Int
      BY <1>1 DEF Swallowed
    <3>6. Cardinality(Due' \ ToSet(mem'[Poller])) <= torn
      BY <1>1, <3>3, <3>4, <3>5, PointsFinite
    <3>7. QED
      BY <3>1, <3>6 DEF InMemoryInv, ToSet
  <2>4. QED
    BY <2>2, <2>3
<1>10. ASSUME NEW p \in Procs, Kill(p) PROVE InMemoryInv'
  <2>1. p = Web
    BY <1>10 DEF Kill
  <2>2. ~\E a \in Actors : AppendLine(a)
    BY <1>1, <1>10 DEF Kill, AppendLine, HistoryTypes, TypeOK
  <2>3. pc'[Poller] = pc[Poller] /\ point'[Poller] = point[Poller] /\ mem'[Poller] = mem[Poller]
    BY <1>10, <2>1 DEF Kill
  <2>4. torn' \in Nat /\ torn <= torn'
    BY <1>1, <1>10 DEF Kill
  <2>5. now' = now /\ up' = up \ {Web}
    BY <1>10, <2>1 DEF Kill
  <2>6. QED
    BY <1>8, <2>2, <2>3, <2>4, <2>5
<1>11. ASSUME NEW a \in Actors, TakePoint(a) PROVE InMemoryInv'
  <2>1. ~\E b \in Actors : AppendLine(b)
    BY <1>1, <1>11 DEF TakePoint, AppendLine, Goto
  <2>2. a = Poller /\ pc'[Poller] = "append"
    BY <1>1, <1>3, <1>11 DEF TakePoint, Goto
  <2>3. mem' = mem /\ torn' = torn /\ up' = up
    BY <1>11 DEF TakePoint
  <2>4. QED
    BY <1>1, <1>5, <1>7, <2>1, <2>2, <2>3 DEF ToSet
<1>12. ASSUME NEW a \in Actors, AppendInMemory(a) PROVE InMemoryInv'
  <2>1. ~\E b \in Actors : AppendLine(b)
    BY <1>1, <1>12 DEF AppendInMemory, AppendLine, Goto
  <2>2. a = Poller
    BY <1>3, <1>12 DEF AppendInMemory, Goto, PollStages
  <2>3. mem'[Poller] = Append(mem[Poller], point[Poller]) /\ torn' = torn /\ up' = up /\ point' = point
    BY <1>1, <1>12, <2>2 DEF AppendInMemory
  <2>4. ToSet(mem'[Poller]) = ToSet(mem[Poller]) \cup {point[Poller]}
    BY <1>1, <2>3, OnePointMore
  <2>5. Missing' \subseteq Missing
    BY <1>7, <2>1, <2>4 DEF ToSet
  <2> HIDE DEF Missing
  <2>6. QED
    BY <1>1, <1>5, <2>3, <2>4, <2>5
<1>13. ASSUME NEW a \in Actors, AppendLine(a) PROVE InMemoryInv'
  <2>1. a = Poller /\ pc[Poller] = "write"
    BY <1>3, <1>13 DEF AppendLine, Goto, PollStages
  <2>2. /\ mem' = mem /\ torn' = torn /\ up' = up /\ point' = point /\ now' = now
        /\ pc'[Poller] = "prune"
    BY <1>1, <1>13, <2>1 DEF AppendLine, Goto
  <2>3. IsFresh(point[Poller]) => point[Poller] \in ToSet(mem[Poller])
    BY <1>4, <2>1, <2>2
  <2>4. ASSUME NEW x \in Due' PROVE x \in Due \/ x \in ToSet(mem[Poller])
    <3>1. CASE x \in Due
      BY <3>1
    <3>2. CASE x \notin Due
      <4>1. PICK b \in Actors : AppendLine(b) /\ x = point[b]
        BY <3>2, DueSteps
      <4>2. b = Poller
        BY <1>3, <4>1 DEF AppendLine, Goto, PollStages
      <4>3. IsFresh(x)
        BY <2>2 DEF Due, IsFresh
      <4>4. QED
        BY <2>3, <4>1, <4>2, <4>3
    <3>3. QED
      BY <3>1, <3>2
  <2>5. Missing' \subseteq Missing
    BY <2>2, <2>4 DEF ToSet
  <2>6. IsFresh(point[Poller])' = IsFresh(point[Poller])
    BY <2>2 DEF IsFresh
  <2> HIDE DEF Missing
  <2>7. QED
    BY <1>1, <1>5, <2>2, <2>3, <2>5, <2>6
<1>14. ASSUME NEW a \in Actors, PruneNothing(a) \/ RewriteDone(a) PROVE InMemoryInv'
  <2>1. ~\E b \in Actors : AppendLine(b)
    BY <1>1, <1>14 DEF PruneNothing, RewriteDone, AppendLine, Goto
  <2>2. a = Poller /\ pc'[Poller] = "idle" /\ mem' = mem /\ torn' = torn /\ up' = up
    BY <1>1, <1>3, <1>14 DEF PruneNothing, RewriteDone, Goto, PollStages
  <2>3. QED
    BY <1>1, <1>5, <1>7, <2>1, <2>2 DEF ToSet
<1>15. ASSUME NEW a \in Actors, PruneOpen(a) PROVE InMemoryInv'
  <2>1. ~\E b \in Actors : AppendLine(b)
    BY <1>1, <1>15 DEF PruneOpen, AppendLine, Goto
  <2>2. a = Poller /\ pc[Poller] = "prune"
    BY <1>3, <1>15 DEF PruneOpen, Goto, PollStages
  <2>3. /\ mem'[Poller] = Kept(mem[Poller])
        /\ torn' = torn /\ up' = up /\ point' = point /\ now' = now
    BY <1>1, <1>15, <2>2 DEF PruneOpen
  <2>4. ToSet(mem'[Poller]) = {x \in ToSet(mem[Poller]) : IsFresh(x)}
    <3>1. ToSet(mem'[Poller]) = {x \in PointsIn(mem[Poller]) : IsFresh(x)}
      BY <1>1, <2>3, KeptEffect
    <3>2. PointsIn(mem[Poller]) = ToSet(mem[Poller])
      BY <1>1 DEF PointsIn, ToSet
    <3>3. QED
      BY <3>1, <3>2
  <2>5. \A x : IsFresh(x)' = IsFresh(x)
    BY <2>3 DEF IsFresh
  <2>6. Missing' \subseteq Missing
    <3>1. \A x \in Due' : x \in Due /\ IsFresh(x)
      BY <1>7, <2>1 DEF Due
    <3>2. QED
      BY <2>4, <3>1 DEF ToSet
  <2> HIDE DEF Missing
  <2>7. QED
    BY <1>1, <1>4, <1>5, <2>2, <2>3, <2>4, <2>5, <2>6
<1>16. ASSUME NEW a \in Actors, RewriteLine(a) PROVE InMemoryInv'
  <2>1. ~\E b \in Actors : AppendLine(b)
    BY <1>1, <1>16 DEF RewriteLine, AppendLine, Goto
  <2>2. QED
    BY <1>1, <1>8, <1>16, <2>1 DEF RewriteLine
<1>17. ASSUME NEW a \in Actors, ReloadClear(a) \/ ReloadLoad(a) PROVE InMemoryInv'
  <2>1. ~\E b \in Actors : AppendLine(b)
    BY <1>1, <1>17 DEF ReloadClear, ReloadLoad, AppendLine, Goto
  <2>2. mem'[Poller] = mem[Poller] /\ torn' = torn /\ up' = up /\ point' = point /\ now' = now
    BY <1>1, <1>17 DEF ReloadClear, ReloadLoad
  <2>3. pc'[Poller] \in {"write", "prune", "rewrite"} => pc[Poller] \in {"write", "prune", "rewrite"}
    BY <1>1, <1>17 DEF ReloadClear, ReloadLoad, Goto
  <2>4. QED
    BY <1>1, <1>8, <2>1, <2>2, <2>3
<1>18. ASSUME NEW a \in Actors, ServeRange(a) PROVE InMemoryInv'
  <2>1. ~\E b \in Actors : AppendLine(b)
    BY <1>1, <1>18 DEF ServeRange, AppendLine, Goto
  <2>2. QED
    BY <1>1, <1>8, <1>18, <2>1 DEF ServeRange, Goto
<1>19. CASE UNCHANGED vars
  <2>1. ~\E b \in Actors : AppendLine(b)
    BY <1>1, <1>19 DEF vars, AppendLine, Goto
  <2>2. QED
    BY <1>1, <1>8, <1>19, <2>1 DEF vars
<1>20. QED
  BY <1>6, <1>9, <1>10, <1>11, <1>12, <1>13, <1>14, <1>15, <1>16, <1>17, <1>18, <1>19 DEF Next

LEMMA AppendsSurviveHolds == Spec => []SurviveInv
<1>1. ASSUME Init PROVE SurviveInv
  <2> USE <1>1 DEF Init
  <2>1. ~Rewriting /\ ~EndsTorn(file) /\ WritersInv
    BY TheActors DEF Rewriting, EndsTorn, WritersInv, PollStages
  <2>2. Due = {}
    BY DEF Due, Written
  <2>3. OnFileInv /\ InMemoryInv
    <3>1. Swallowed = 0 /\ torn = 0
      BY <2>1 DEF Swallowed
    <3>2. Cardinality(Due \ PointsIn(file)) = 0
      <4>1. Due \ PointsIn(file) = {}
        BY <2>2
      <4>2. QED
        BY <4>1, FS_EmptySet
    <3>3. OnFileInv
      BY <3>1, <3>2 DEF OnFileInv
    <3>4. InMemoryInv
      BY DEF InMemoryInv
    <3>5. QED
      BY <3>3, <3>4
  <2>4. RewriteInv
    BY TheActors DEF RewriteInv
  <2>5. QED
    BY <2>1, <2>3, <2>4 DEF SurviveInv
<1>2. ASSUME HistoryTypes, SurviveInv, [Next]_vars PROVE SurviveInv'
  BY <1>2, WritersHold, OnFileHolds, InMemoryHolds, RewriteHolds DEF SurviveInv
<1>3. QED
  BY <1>1, <1>2, HistoryTypesHold, PTL DEF Spec

\* While only the poller appends, and until one of several writers prunes, a
\* point append() has returned for is on file until it expires; kills in the
\* middle of an append cost at most as many of them (store.py's append, _prune
\* and _rewrite).
THEOREM AppendsAlwaysSurvive == Spec => []AppendsSurvive
<1>1. HistoryTypes /\ SurviveInv => AppendsSurvive
  <2> SUFFICES ASSUME HistoryTypes, SurviveInv, ~refreshing \/ ~pruned, ~gutted, ~Rewriting
               PROVE  Cardinality(Lost) <= torn
    BY DEF AppendsSurvive
  <2>1. Cardinality(Due \ PointsIn(file)) <= Swallowed
    BY DEF SurviveInv, OnFileInv
  <2>2. Swallowed \in Int /\ torn \in Nat /\ Swallowed <= torn
    BY DEF Swallowed, HistoryTypes, TypeOK
  <2>3. Lost \subseteq Due \ PointsIn(file)
    BY DEF Lost, Due, Written
  <2>4. Due \subseteq Points
    BY DueArePoints DEF HistoryTypes
  <2>5. QED
    BY <2>1, <2>2, <2>3, <2>4, PointsFinite
<1>2. QED
  BY <1>1, HistoryTypesHold, AppendsSurviveHolds, PTL

-----------------------------------------------------------------------------
(* A chart is whole *)

\* Until a rewrite the file loses no point a request began with ...
ChartOnFileInv ==
    ~pruned => \A a \in Threads : pc[a] \in {"load", "range"} => before[a] \subseteq PointsIn(file)

\* ... nor does the list in memory, but while it is loaded again.
ChartInMemoryInv ==
    ~pruned /\ (\A b \in Threads : pc[b] # "load") =>
      \A a \in Threads : pc[a] = "range" =>
        {x \in before[a] : IsFresh(x)} \subseteq ToSet(mem[Web])

ChartInv == WritersInv /\ ChartOnFileInv /\ ChartInMemoryInv

LEMMA ChartOnFileHolds ==
    ASSUME HistoryTypes, ChartInv, [Next]_vars
    PROVE  ChartOnFileInv'
<1> SUFFICES ASSUME ~pruned', NEW a \in Threads, pc'[a] \in {"load", "range"}
             PROVE  before'[a] \subseteq PointsIn(file')
  BY DEF ChartOnFileInv, PointsIn
<1> USE TheActors DEF clock, history
<1>1. a \in Actors /\ DOMAIN pc = Actors /\ DOMAIN before = Actors /\ file \in Seq(Lines)
      /\ \A b \in Actors : point[b] \in Points
  BY DEF HistoryTypes, TypeOK
<1>2. ~pruned => ~Rewriting /\ (pc[a] \in {"load", "range"} => before[a] \subseteq PointsIn(file))
  BY DEF ChartInv, ChartOnFileInv, WritersInv
<1>3. ASSUME ~pruned, PointsIn(file) \subseteq PointsIn(file'),
             pc[a] \in {"load", "range"}, before'[a] = before[a]
      PROVE  before'[a] \subseteq PointsIn(file')
  BY <1>2, <1>3
<1>4. CASE Tick \/ UNCHANGED vars
  BY <1>3, <1>4 DEF Tick, vars
<1>5. ASSUME NEW p \in Procs, Boot(p) PROVE before'[a] \subseteq PointsIn(file')
  BY <1>3, <1>5 DEF Boot
<1>6. ASSUME NEW p \in Procs, Kill(p) PROVE before'[a] \subseteq PointsIn(file')
  <2>1. pc'[a] = pc[a] /\ before'[a] = before[a] /\ pruned' = pruned
    BY <1>1, <1>6 DEF Kill
  <2>2. PointsIn(file) \subseteq PointsIn(Appended(file, Torn))
    BY <1>1, AppendedEffect
  <2>3. file' = file \/ file' = Appended(file, Torn)
    BY <1>6 DEF Kill
  <2>4. QED
    BY <1>3, <2>1, <2>2, <2>3
<1>7. ASSUME NEW b \in Actors, TakePoint(b) \/ AppendInMemory(b) \/ PruneNothing(b)
      PROVE  before'[a] \subseteq PointsIn(file')
  BY <1>1, <1>3, <1>7 DEF TakePoint, AppendInMemory, PruneNothing, Goto
<1>8. ASSUME NEW b \in Actors, AppendLine(b) PROVE before'[a] \subseteq PointsIn(file')
  <2>1. PointsIn(file) \subseteq PointsIn(Appended(file, point[b]))
    BY <1>1, AppendedEffect
  <2>2. QED
    BY <1>1, <1>3, <1>8, <2>1 DEF AppendLine, Goto
<1>9. ASSUME NEW b \in Actors, PruneOpen(b) PROVE FALSE
  BY <1>9 DEF PruneOpen
<1>10. ASSUME NEW b \in Actors, RewriteLine(b) \/ RewriteDone(b) PROVE FALSE
  BY <1>2, <1>10 DEF RewriteLine, RewriteDone, Rewriting, Goto
<1>11. ASSUME NEW b \in Actors, ReloadClear(b) PROVE before'[a] \subseteq PointsIn(file')
  BY <1>1, <1>3, <1>11 DEF ReloadClear, Goto
<1>12. ASSUME NEW b \in Actors, ReloadLoad(b) \/ ServeRange(b)
       PROVE  before'[a] \subseteq PointsIn(file')
  BY <1>1, <1>3, <1>12 DEF ReloadLoad, ServeRange, Goto
<1>13. QED
  BY <1>4, <1>5, <1>6, <1>7, <1>8, <1>9, <1>10, <1>11, <1>12 DEF Next

LEMMA ChartInMemoryHolds ==
    ASSUME HistoryTypes, ChartInv, [Next]_vars
    PROVE  ChartInMemoryInv'
<1> SUFFICES ASSUME ~pruned', \A b \in Threads : pc'[b] # "load",
                    NEW a \in Threads, pc'[a] = "range", NEW x \in before'[a], IsFresh(x)'
             PROVE  x \in ToSet(mem'[Web])
  BY DEF ChartInMemoryInv, ToSet
<1> USE TheActors DEF clock, history
<1>1. /\ a \in Actors /\ DOMAIN pc = Actors /\ DOMAIN before = Actors /\ DOMAIN mem = Procs
      /\ file \in Seq(Lines) /\ before[a] \subseteq Points
      /\ mem[Web] \in Seq(Points) /\ \A b \in Actors : point[b] \in Points
  BY DEF HistoryTypes, TypeOK
\* A step that leaves no list shorter, and no thread loading.
<1>2. ASSUME pruned' = pruned, \A b \in Threads : pc[b] # "load", pc[a] = "range",
             before'[a] = before[a], IsFresh(x)' => IsFresh(x),
             ToSet(mem[Web]) \subseteq ToSet(mem'[Web])
      PROVE  x \in ToSet(mem'[Web])
  BY <1>2 DEF ChartInv, ChartInMemoryInv
<1>3. CASE Tick
  <2>1. x \in Points
    BY <1>1, <1>3 DEF Tick
  <2>2. IsFresh(x)' => IsFresh(x)
    BY <1>3, <2>1, PointsAge
  <2>3. QED
    BY <1>2, <1>3, <2>2 DEF Tick
<1>4. ASSUME NEW p \in Procs, Boot(p) PROVE x \in ToSet(mem'[Web])
  <2>1. p = Poller
    BY <1>1, <1>4 DEF Boot, ChartInv, WritersInv
  <2>2. mem'[Web] = mem[Web] /\ pc' = pc /\ before' = before /\ pruned' = pruned /\ now' = now
    BY <1>1, <1>4, <2>1 DEF Boot
  <2>3. IsFresh(x)' => IsFresh(x)
    BY <2>2 DEF IsFresh
  <2>4. QED
    BY <1>2, <2>2, <2>3
<1>5. ASSUME NEW p \in Procs, Kill(p) PROVE x \in ToSet(mem'[Web])
  <2>1. p = Poller
    BY <1>1, <1>5 DEF Kill
  <2>2. /\ mem'[Web] = mem[Web] /\ before'[a] = before[a] /\ pruned' = pruned /\ now' = now
        /\ \A b \in Threads : pc'[b] = pc[b]
    BY <1>1, <1>5, <2>1 DEF Kill
  <2>3. IsFresh(x)' => IsFresh(x)
    BY <2>2 DEF IsFresh
  <2>4. QED
    BY <1>2, <2>2, <2>3
<1>6. ASSUME NEW b \in Actors, TakePoint(b) \/ AppendLine(b) \/ PruneNothing(b)
      PROVE  x \in ToSet(mem'[Web])
  <2>1. pc[a] = "range" /\ \A c \in Threads : pc[c] # "load"
    BY <1>1, <1>6 DEF TakePoint, AppendLine, PruneNothing, Goto
  <2>2. mem' = mem /\ before' = before /\ pruned' = pruned /\ now' = now
    BY <1>6 DEF TakePoint, AppendLine, PruneNothing
  <2>3. IsFresh(x)' => IsFresh(x)
    BY <2>2 DEF IsFresh
  <2>4. QED
    BY <1>2, <2>1, <2>2, <2>3
<1>7. ASSUME NEW b \in Actors, AppendInMemory(b) PROVE x \in ToSet(mem'[Web])
  <2>1. pc[a] = "range" /\ \A c \in Threads : pc[c] # "load"
    BY <1>1, <1>7 DEF AppendInMemory, Goto
  <2>2. before' = before /\ pruned' = pruned /\ now' = now
    BY <1>7 DEF AppendInMemory
  <2>3. IsFresh(x)' => IsFresh(x)
    BY <2>2 DEF IsFresh
  <2>4. mem'[Web] = mem[Web] \/ mem'[Web] = Append(mem[Web], point[b])
    BY <1>1, <1>7 DEF AppendInMemory
  <2>5. ToSet(mem[Web]) \subseteq ToSet(Append(mem[Web], point[b]))
    BY <1>1, OnePointMore
  <2>6. QED
    BY <1>2, <2>1, <2>2, <2>3, <2>4, <2>5
<1>8. ASSUME NEW b \in Actors, PruneOpen(b) PROVE FALSE
  BY <1>8 DEF PruneOpen
<1>9. ASSUME NEW b \in Actors, RewriteLine(b) \/ RewriteDone(b) PROVE FALSE
  BY <1>9 DEF RewriteLine, RewriteDone, Goto, ChartInv, WritersInv, Rewriting
<1>10. ASSUME NEW b \in Actors, ReloadClear(b) PROVE FALSE
  BY <1>1, <1>10 DEF ReloadClear, Goto
<1>11. ASSUME NEW b \in Actors, ReloadLoad(b) PROVE x \in ToSet(mem'[Web])
  <2>1. mem'[Web] = Loaded(file) /\ before' = before /\ pruned' = pruned /\ now' = now
    BY <1>1, <1>11 DEF ReloadLoad
  <2>2. pc[a] \in {"load", "range"}
    BY <1>1, <1>11 DEF ReloadLoad, Goto
  <2>3. x \in PointsIn(file)
    BY <2>1, <2>2 DEF ChartInv, ChartOnFileInv
  <2>4. IsFresh(x)
    BY <2>1 DEF IsFresh
  <2>5. QED
    BY <1>1, <2>1, <2>3, <2>4, KeptEffect
<1>12. ASSUME NEW b \in Actors, ServeRange(b) PROVE x \in ToSet(mem'[Web])
  <2>1. pc[a] = "range" /\ a # b /\ \A c \in Threads : pc[c] # "load"
    BY <1>1, <1>12 DEF ServeRange, Goto
  <2>2. mem' = mem /\ before'[a] = before[a] /\ pruned' = pruned /\ now' = now
    BY <1>1, <1>12, <2>1 DEF ServeRange
  <2>3. IsFresh(x)' => IsFresh(x)
    BY <2>2 DEF IsFresh
  <2>4. QED
    BY <1>2, <2>1, <2>2, <2>3
<1>13. CASE UNCHANGED vars
  BY <1>2, <1>13 DEF vars, IsFresh
<1>14. QED
  BY <1>3, <1>4, <1>5, <1>6, <1>7, <1>8, <1>9, <1>10, <1>11, <1>12, <1>13 DEF Next

\* A chart has every point that was on file when its request began and has not
\* expired, until the first rewrite of the file and unless another thread of
\* the worker is just reloading (store.py's reload and range, views.py).
THEOREM ChartsAreWhole == Spec => ChartIsWhole
<1>1. Init => ChartInv
  <2> SUFFICES ASSUME Init PROVE ChartInv
    OBVIOUS
  <2>1. \A a \in Actors : pc[a] = "idle"
    BY DEF Init
  <2>2. QED
    BY <2>1, TheActors DEF ChartInv, WritersInv, ChartOnFileInv, ChartInMemoryInv, Rewriting, PollStages
<1>2. HistoryTypes /\ ChartInv /\ [Next]_vars => ChartInv'
  BY WritersHold, ChartOnFileHolds, ChartInMemoryHolds DEF ChartInv
<1> DEFINE Served(a) ==
        /\ pc[a] = "range" /\ pc'[a] = "idle" /\ Web \in up'
        /\ ~pruned
        /\ \A b \in Threads : pc[b] # "load"
        => {x \in before[a] : IsFresh(x)} \subseteq ToSet(mem[Web])
<1>3. ChartInv => \A a \in Threads : Served(a)
  BY DEF ChartInv, ChartInMemoryInv
<1>4. QED
  BY <1>1, <1>2, <1>3, HistoryTypesHold, PTL DEF Spec, ChartIsWhole

=============================================================================
