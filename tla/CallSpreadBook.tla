--------------------------- MODULE CallSpreadBook ---------------------------
(***************************************************************************)
(* What a poll makes of the book: callspread/sts.py fetches positions and  *)
(* then fills under a cached token, model.py turns them into the snapshot  *)
(* on screen, alerts.py grades it.  The book is traded, premium is         *)
(* converted, the market moves and tokens are revoked at any moment, also  *)
(* between the two fetches.                                                *)
(*                                                                         *)
(* Prices and quantities are integers, deltas and thresholds per cent.     *)
(* Amounts of coin are carried times the spot, so that nothing is divided; *)
(* an answer whose rows carry no spot at all is left out.                  *)
(***************************************************************************)
EXTENDS Integers, Sequences, FiniteSets, Functions

CONSTANTS
    None,       \* a missing value
    Strike,     \* option codes and their strikes
    Markets,    \* quotes: [spot, mark, delta, dte]; mark and delta by code
    Policy,     \* [custody, ratio, floor, buffer, upper, warn, rollDays, approach]
    TradeLimit, \* fills the API returns (1000)
    MaxFills,   \* bound: fills
    MaxMoves,   \* bound: moves of the market
    MaxPolls,   \* bound: polls
    MaxFaults,  \* bound: failed calls
    MaxRevokes  \* bound: tokens revoked

Codes == DOMAIN Strike
Grades == {"good", "warning", "serious", "critical"}
Rules == [delta : Grades, coverage : Grades, strike : Grades, roll : Grades, marks : Grades]

\* What the screen shows of a poll, see Snapshot.
Snapshots ==
    [pnl : [realized : Int, unrealized : Int], source : {"trades", "usdt-balance"},
     status : Grades \cup {"unknown"}, covered : BOOLEAN, roll : Grades \cup {"unknown"},
     rules : Rules]

ASSUME BookAssumption ==
    /\ IsFiniteSet(Codes)
    /\ Markets \subseteq [spot : Nat \ {0}, mark : [Codes -> Int], delta : [Codes -> Int], dte : Int]
    /\ Policy \in [custody : Int, ratio : Int, floor : Int, buffer : Int, upper : Int,
                   warn : Int, rollDays : Int, approach : Int]
    /\ None \notin Int \cup Snapshots
    /\ TradeLimit \in Nat

VARIABLES
    book,    \* [qty, usdt, margin]: contracts by code, premium, CC posted
    market,
    fills,   \* executed trades, [code, premium]
    cash,    \* premium received less premium paid, ever
    token,   \* the client's: "none", "live", or "revoked" by the server
    stage,   \* of the poll: "idle", "positions", "trades"
    tries,   \* requests of the stage rejected with 401
    read,    \* the positions fetched
    shown,   \* the snapshot and its rules; None before the first
    poll,    \* about the poll: [n, faulty, revoked, traded, worth]
    moves, faults, revokes

clientVars == <<token, stage, tries, read, shown, poll>>
bookVars == <<book, market, fills, cash, clientVars, moves, faults, revokes>>

-----------------------------------------------------------------------------
Mag(n) == IF n < 0 THEN -n ELSE n

\* Positions with no contracts are not reported.
PositionsNow == [book |-> book, market |-> market, legs |-> {c \in Codes : book.qty[c] # 0}]

\* The newest fills come first; older ones are cut off.
TradesNow == {i \in DOMAIN fills : i > Len(fills) - TradeLimit}

-----------------------------------------------------------------------------
(* model.py *)

MarkValue(p) == [c \in Codes |-> p.book.qty[c] * p.market.mark[c]]

\* aggregate_fills: the premium of a code, signed by side.
Premium(trades, c) ==
    SumFunctionOnSet([i \in trades |-> IF fills[i].code = c THEN fills[i].premium ELSE 0], trades)
Traded(trades) == {fills[i].code : i \in trades}

\* A bug the properties must catch: legs that are closed are left out.
PnlLegsHeld(p, trades) ==
    [c \in p.legs |->
        [realized |-> IF c \in Traded(trades) THEN Premium(trades, c) ELSE None,
         unrealized |-> MarkValue(p)[c]]]

\* Legs that are held, and those that were traded and are held no more.
PnlLegs(p, trades) ==
    [c \in p.legs \cup Traded(trades) |->
        [realized |-> IF c \in Traded(trades) THEN Premium(trades, c) ELSE None,
         unrealized |-> IF c \in p.legs THEN MarkValue(p)[c] ELSE 0]]

\* Without fills the premium not yet converted stands in for the realized part.
Pnl(p, trades) ==
    LET legs == PnlLegs(p, trades)
        realized == [c \in DOMAIN legs |-> IF legs[c].realized = None THEN 0 ELSE legs[c].realized]
    IN [realized |-> IF trades = {} THEN p.book.usdt ELSE SumFunction(realized),
        unrealized |-> SumFunctionOnSet(MarkValue(p), p.legs)]

\* Coin held, times the spot: posted, in custody, and premium to be converted.
Held(p) == (p.book.margin + Policy.custody) * p.market.spot + p.book.usdt
Shorts(p) == {c \in p.legs : p.book.qty[c] < 0}
Longs(p) == p.legs \ Shorts(p)

\* In hundredths: coin a short leg ties up, and what is left to write on.
CoverageRatio == IF Policy.ratio = 0 THEN 100 ELSE Policy.ratio
Reserved(p) == -SumFunctionOnSet(p.book.qty, Shorts(p)) * p.market.spot * CoverageRatio
Available(p) == 100 * Held(p) - Reserved(p)

\* Delta in hundredths; coin and premium have a delta of one.
OptionsDelta(p) ==
    SumFunctionOnSet([c \in Codes |-> p.book.qty[c] * p.market.spot * p.market.delta[c]], p.legs)
PortfolioDelta(p) == OptionsDelta(p) + 100 * Held(p)

\* Blended delta against a level: the sign of delta / held - level.
Against(p, level) == PortfolioDelta(p) - level * Held(p)

DeltaStatus(p) ==
    IF Held(p) = 0 THEN "unknown"
    ELSE IF Against(p, Policy.floor) < 0 THEN "critical"
    ELSE IF Against(p, Policy.floor + Policy.buffer) < 0 THEN "warning"
    ELSE IF Policy.upper # 0 /\ Against(p, Policy.upper) > 0 THEN "serious"
    ELSE "good"

\* Legs are in the order of their strikes.
First(legs) == CHOOSE c \in legs : \A d \in legs : Strike[c] <= Strike[d]

\* The lower strike of the spread must mark above the higher.
MarksInverted(p) ==
    /\ Shorts(p) # {} /\ Longs(p) # {}
    /\ Mag(p.market.mark[First(Shorts(p))]) < Mag(p.market.mark[First(Longs(p))])

RollStatus(p) ==
    LET dte == p.market.dte
    IN IF p.legs = {} THEN "unknown"
       ELSE IF dte <= 0 \/ 2 * dte <= Policy.rollDays THEN "critical"
       ELSE IF dte <= Policy.rollDays THEN "serious"
       ELSE IF dte - Policy.rollDays <= Policy.approach THEN "warning"
       ELSE "good"

-----------------------------------------------------------------------------
(* alerts.py, evaluate_rules *)

\* A bug the properties must catch: the floor itself is taken for a breach.
DeltaRuleAtFloor(p) ==
    IF Held(p) = 0 \/ Against(p, Policy.floor) <= 0 THEN "critical"
    ELSE IF Against(p, Policy.floor + Policy.buffer) < 0 THEN "warning" ELSE "good"

\* A blended delta that is not known counts as zero.
DeltaRule(p) ==
    IF Held(p) = 0
      THEN IF 0 < Policy.floor THEN "critical"
           ELSE IF 0 < Policy.floor + Policy.buffer THEN "warning" ELSE "good"
    ELSE IF Against(p, Policy.floor) < 0 THEN "critical"
    ELSE IF Against(p, Policy.floor + Policy.buffer) < 0 THEN "warning" ELSE "good"

CoverageRule(p) ==
    IF Available(p) < 0 THEN "critical"
    ELSE IF 100 * Available(p) < Reserved(p) * Policy.warn THEN "warning" ELSE "good"

\* A distance that is not known counts as zero.
StrikeRule(p) ==
    IF Shorts(p) = {} THEN "warning"
    ELSE LET strike == Strike[First(Shorts(p))]
         IN IF p.market.spot > strike THEN "critical"
            ELSE IF 20 * p.market.spot > 19 * strike THEN "warning" ELSE "good"

RollRule(p) ==
    IF RollStatus(p) \in {"unknown", "serious"} THEN "warning" ELSE RollStatus(p)

Snapshot(p, trades) ==
    [pnl |-> Pnl(p, trades), source |-> IF trades = {} THEN "usdt-balance" ELSE "trades",
     status |-> DeltaStatus(p), covered |-> Available(p) >= 0, roll |-> RollStatus(p),
     rules |-> [delta |-> DeltaRule(p), coverage |-> CoverageRule(p), strike |-> StrikeRule(p),
                roll |-> RollRule(p), marks |-> IF MarksInverted(p) THEN "warning" ELSE "good"]]

-----------------------------------------------------------------------------
BookInit ==
    /\ book \in [qty : {[c \in Codes |-> 0]}, usdt : {0}, margin : {0, 1}]
    /\ market \in Markets
    /\ fills = << >> /\ cash = 0
    /\ token = "none" /\ stage = "idle" /\ tries = 0
    /\ read = None /\ shown = None
    /\ poll = [n |-> 0, faulty |-> FALSE, revoked |-> 0, traded |-> FALSE, worth |-> 0]
    /\ moves = 0 /\ faults = 0 /\ revokes = 0

(* The world.  A trade fills at the mark. *)

Trade(c, sell) ==
    LET premium == IF sell THEN market.mark[c] ELSE -market.mark[c]
    IN /\ Len(fills) < MaxFills /\ book.usdt + premium >= 0
       /\ fills' = Append(fills, [code |-> c, premium |-> premium])
       /\ book' = [book EXCEPT !.qty[c] = IF sell THEN @ - 1 ELSE @ + 1, !.usdt = @ + premium]
       /\ cash' = cash + premium
       /\ poll' = [poll EXCEPT !.traded = @ \/ stage = "trades"]
       /\ UNCHANGED <<market, token, stage, tries, read, shown, moves, faults, revokes>>

\* Premium buys coin.
Convert ==
    /\ book.usdt >= market.spot
    /\ book' = [book EXCEPT !.usdt = @ - market.spot, !.margin = @ + 1]
    /\ UNCHANGED <<market, fills, cash, clientVars, moves, faults, revokes>>

Move ==
    /\ moves < MaxMoves /\ moves' = moves + 1
    /\ market' \in {m \in Markets : m.dte <= market.dte} \ {market}
    /\ UNCHANGED <<book, fills, cash, clientVars, faults, revokes>>

Revoke ==
    /\ token = "live" /\ revokes < MaxRevokes
    /\ token' = "revoked" /\ revokes' = revokes + 1
    /\ poll' = [poll EXCEPT !.revoked = IF stage = "idle" THEN @ ELSE @ + 1]
    /\ UNCHANGED <<book, market, fills, cash, stage, tries, read, shown, moves, faults>>

-----------------------------------------------------------------------------
(* A poll.  Only one runs at a time in a process, under its lock. *)

Begin ==
    /\ stage = "idle" /\ poll.n < MaxPolls
    /\ stage' = "positions" /\ tries' = 0
    /\ poll' = [n |-> poll.n + 1, faulty |-> FALSE, revoked |-> IF token = "revoked" THEN 1 ELSE 0,
                traded |-> FALSE, worth |-> 0]
    /\ UNCHANGED <<book, market, fills, cash, token, read, shown, moves, faults, revokes>>

GetToken ==
    /\ stage # "idle" /\ token = "none"
    /\ token' = "live"
    /\ UNCHANGED <<book, market, fills, cash, stage, tries, read, shown, poll, moves, faults, revokes>>

ReadPositions ==
    /\ stage = "positions" /\ token = "live"
    /\ read' = PositionsNow
    /\ stage' = "trades" /\ tries' = 0
    /\ poll' = [poll EXCEPT !.worth = cash + SumFunction(MarkValue(PositionsNow))]
    /\ UNCHANGED <<book, market, fills, cash, token, shown, moves, faults, revokes>>

Publish(trades) ==
    /\ shown' = Snapshot(read, trades)
    /\ read' = None /\ stage' = "idle" /\ tries' = 0

ReadTrades ==
    /\ stage = "trades" /\ token = "live"
    /\ Publish(TradesNow)
    /\ UNCHANGED <<book, market, fills, cash, token, poll, moves, faults, revokes>>

\* Without the positions the poll fails and the screen stays, without the
\* fills it goes on.
CallFails ==
    IF stage = "positions"
      THEN stage' = "idle" /\ tries' = 0 /\ UNCHANGED <<read, shown>>
      ELSE Publish({})

\* 401: the token is dropped and the request sent again, once.
Rejected ==
    /\ stage # "idle" /\ token = "revoked"
    /\ IF tries = 0
         THEN token' = "none" /\ tries' = 1 /\ UNCHANGED <<stage, read, shown>>
         ELSE CallFails /\ UNCHANGED token
    /\ UNCHANGED <<book, market, fills, cash, poll, moves, faults, revokes>>

\* No token, no connection, or an error of the server's.
Fails ==
    /\ stage # "idle" /\ token # "revoked" /\ faults < MaxFaults
    /\ faults' = faults + 1
    /\ CallFails
    /\ poll' = [poll EXCEPT !.faulty = TRUE]
    /\ UNCHANGED <<book, market, fills, cash, token, moves, revokes>>

Over == stage = "idle" /\ poll.n = MaxPolls /\ UNCHANGED bookVars

BookNext ==
    \/ \E c \in Codes, sell \in BOOLEAN : Trade(c, sell)
    \/ Convert \/ Move \/ Revoke
    \/ Begin \/ GetToken \/ ReadPositions \/ ReadTrades \/ Rejected \/ Fails
    \/ Over

BookSpec == BookInit /\ [][BookNext]_bookVars

-----------------------------------------------------------------------------
(* Properties. *)

\* A poll in which no call failed, and no token was revoked twice, ends with
\* its own snapshot on screen: premium that changed hands, of closed legs too,
\* plus the value of the legs held, as of the moment the positions were read
\* (model.py:420-423, 445-446, sts.py:77).  It takes a moment without fills
\* between the two fetches, and no more fills than the API returns.
PnlIsTheBooks ==
    stage = "idle" /\ poll.n > 0 /\ ~poll.faulty /\ poll.revoked <= 1 /\ ~poll.traded
    /\ Len(fills) <= TradeLimit =>
      shown # None /\ shown.pnl.realized + shown.pnl.unrealized = poll.worth

\* The alert rules grade what the screen shows, though they compute it again:
\* the delta monitor, the coverage and the roll schedule.  A book without coin
\* is unknown to the one and critical to the other (alerts.py:62-64), for its
\* delta counts as zero there and the floor is above zero.
RulesAgreeWithScreen ==
    shown # None =>
      LET rules == shown.rules
      IN /\ rules.delta = "critical" <=> shown.status \in {"critical", "unknown"}
         /\ rules.delta = "warning" <=> shown.status = "warning"
         /\ rules.coverage = "critical" <=> ~shown.covered
         /\ rules.roll = "critical" <=> shown.roll = "critical"
         /\ rules.roll = "good" <=> shown.roll = "good"
=============================================================================
