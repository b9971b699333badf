---------------------------- MODULE MCNavCapture ----------------------------
(* Constants of NavCapture for TLC: which calls fail together. *)
EXTENDS NavCapture, TLC

CONSTANTS huey, operator

ConfiguredCrossMtm == [entry_cost |-> 4, position_size |-> 2, direction |-> 1]

\* Everything open but the reverse hedge, over a unified wallet; a book of
\* funds without assets that one move leaves without custody, without a venue,
\* or hedged either way.
SomeBooks == {Positions \ {"reverse", "classic"}, {"reserve", "vault", "classic", "um"}}

Interchangeable == Permutations(Actors)

\* A page of wallets, the quotes alone and with every ticker, one market or
\* all of Aave, one address or all of a chain, the rate, the vault's shares or
\* their conversion, each venue, one or both position lists, and everything.
SomeOutages ==
    {{<<"wallets", 2>>}, {<<"quotes">>},
     {<<"quotes">>, <<"ticker", "XLM">>, <<"ticker", "ETH">>},
     {<<"aave", "0x1", "core">>}, AaveCalls,
     {<<"susds", "arb", "0x1">>}, SusdsCalls("arb"), {<<"rate">>},
     VaultCalls, {<<"convert", "usdc">>},
     {<<"hl">>}, {<<"balance">>}, {<<"account">>},
     {<<"positions", "Binance">>}, PositionCalls, Calls}
=============================================================================
