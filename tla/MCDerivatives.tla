--------------------------- MODULE MCDerivatives ---------------------------
(***************************************************************************)
(* Instances of Derivatives.  A scenario says which orders may come, one   *)
(* after the other, and what happens beside the trading; all of them are   *)
(* explored in one run.  Which orders match, and when, is left open.       *)
(***************************************************************************)
EXTENDS Derivatives

CONSTANTS rich, poor, bot

VARIABLE scenario

\* The poor user's two contracts are called as soon as the price falls.
MCBalances == rich :> 6 @@ poor :> 7 @@ bot :> 20

Net(a) == <<a, Future, "NET">>
Long(a) == <<a, Future, "LONG">>
Short(a) == <<a, Future, "SHORT">>
Opt(a) == <<a, Option, "NET">>

Buy(k, n, x) == [key |-> k, side |-> "BUY", qty |-> n, price |-> x]
Sell(k, n, x) == [key |-> k, side |-> "SELL", qty |-> n, price |-> x]

AnyOf(keys, qtys, prices) ==
    [key : keys, side : {"BUY", "SELL"}, qty : qtys, price : prices]

\* The same choice n times.
Times(n, choice) == [i \in 1..n |-> choice]

Scenarios == <<
    \* Any orders of a hedged account and a bot.
    [script |-> Times(3, AnyOf({Long(rich), Short(rich), Net(bot)}, 1..2, {10})), more |-> {}],
    \* More closing orders than there is to close.
    [script |-> <<{Sell(Short(rich), 2, 10)}, {Buy(Net(bot), 2, 10)},
                  {Buy(Short(rich), 1, 10)}, {Buy(Short(rich), 1, 10), Buy(Short(rich), 2, 10)},
                  {Sell(Net(bot), 2, 10)}>>, more |-> {}],
    \* A change of leverage between positions.
    [script |-> Times(2, AnyOf({Long(rich), Net(bot)}, 1..2, {8, 10})), more |-> {"leverage"}],
    \* Options: a holder, and the bot that writes them ...
    [script |-> Times(3, AnyOf({Opt(rich), Opt(bot)}, 1..2, {1, 2})), more |-> {}],
    \* ... and their expiry.
    [script |-> Times(2, AnyOf({Opt(rich), Opt(bot)}, 1..2, {1})), more |-> {"daily"}],
    \* The daily settlement of futures, with orders before it, during it and after it.
    [script |-> <<{Buy(Long(rich), 2, 10)}, {Sell(Net(bot), 1, 10), Sell(Net(bot), 2, 10)},
                  {Sell(Long(rich), 1, 10), Buy(Long(rich), 1, 10)}>>, more |-> {"daily"}],
    \* Margin calls and forced liquidations, while the user closes as well.
    [script |-> <<{Buy(Long(poor), 2, 10)}, {Sell(Net(bot), 2, 10)},
                  {Buy(Net(bot), 2, 8)}, {Sell(Long(poor), 1, 8)}>>, more |-> {"risk"}],
    \* Two instances at the same account.
    [script |-> <<{Buy(Long(poor), 2, 10)}, {Sell(Net(bot), 2, 10)}, {Buy(Net(bot), 2, 8)}>>,
     more |-> {"overlap"}]>>

MCInit == DerivInit /\ scenario \in ToSet(Scenarios)

NextOrder ==
    LET n == Cardinality({i \in DOMAIN orders : ~orders[i].forced}) + 1
    IN  IF n \in DOMAIN scenario.script THEN scenario.script[n] ELSE {}

Risky == scenario.more \cap {"risk", "overlap"} # {}

MCTrading ==
    \/ \E o \in NextOrder : Place(o.key, o.side, o.qty, o.price)
    \/ \E b, s \in DOMAIN orders : \E n \in 1..MaxQty : \E x \in Prices(orders[b].key[2]) :
           Match(b, s, n, x)
    \/ \E i \in DOMAIN orders :
           EngineCloses(i) /\ (Risky => orders[i].key[1] = poor)
    \/ SettleTrade
    \/ SettleClose

\* Once the poor user's first order is filled: ticks for that account, of one instance
\* while the price comes and goes, or of two after one change of the price.
Watched == 1 \in DOMAIN orders /\ orders[1].status = "FILLED"

MCRisk ==
    /\ Watched
    /\ \/ \E t \in Ticks :
              /\ t[2] = poor /\ (t[1] = 1 \/ "overlap" \in scenario.more)
              /\ \/ RiskReads(t) \/ RiskChecks(t) \/ RiskDecides(t)
                 \/ RiskLiquidates(t) \/ RiskFails(t)
       \/ \E c \in DOMAIN calls : CallFallsDue(c)
       \/ \E x \in Marks : MarkMoves(x) /\ ("overlap" \in scenario.more => mark = Price0)

MCNext ==
    /\ UNCHANGED scenario
    /\ \/ MCTrading
       \/ "leverage" \in scenario.more /\ Leveraging
       \/ Risky /\ MCRisk
       \/ "daily" \in scenario.more /\ Daily

MCSpec == MCInit /\ [][MCNext]_<<derivVars, scenario>>
=============================================================================
