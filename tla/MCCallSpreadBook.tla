-------------------------- MODULE MCCallSpreadBook --------------------------
(***************************************************************************)
(* A spread of two strikes and four quotes: far below the strikes, near    *)
(* the lower one with crossed marks, between them, and at expiry.          *)
(***************************************************************************)
EXTENDS CallSpreadBook

MCStrike == [low |-> 6, high |-> 8]
Quote(spot, low, high, deltaLow, deltaHigh, dte) ==
    [spot |-> spot, mark |-> [low |-> low, high |-> high],
     delta |-> [low |-> deltaLow, high |-> deltaHigh], dte |-> dte]
MCMarkets ==
    {Quote(3, 2, 1, 20, 10, 9), Quote(6, 1, 2, 60, 25, 6),
     Quote(7, 3, 1, 80, 50, 4), Quote(9, 3, 1, 100, 75, 0)}
MCPolicy == [custody |-> 0, ratio |-> 100, floor |-> 40, buffer |-> 20, upper |-> 90,
             warn |-> 50, rollDays |-> 4, approach |-> 2]
=============================================================================
