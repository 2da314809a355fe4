---------------------------- MODULE Derivatives ----------------------------
(***************************************************************************)
(* One-day futures and options: the margin an order holds, the positions   *)
(* that trades change, the daily settlement and the forced liquidation.    *)
(* One future and one option.  Users keep a long and a short position of   *)
(* the future apart, bots one net position; options are always net.        *)
(* Trading fees are left to Fees and Settlement: the accounts are exempt.  *)
(* Everything that changes an account runs under its lock, in a            *)
(* transaction: one action.  A tick of the risk watch does not: it reads,  *)
(* looks, decides and liquidates in steps, of several instances at once    *)
(* (the reads of one Promise.all are taken to be one).                     *)
(***************************************************************************)
EXTENDS Sums, Sequences, FiniteSets, TLC, SequencesExt

CONSTANTS
    Users, Bots,
    Balances,            \* [Users \cup Bots -> Nat], at the start
    FutureUnit, OptionUnit,  \* won per price unit and contract
    BpsBase,             \* 10_000
    InitialBps,          \* the exchange's rates, when no leverage is chosen
    MaintenanceBps,
    WriterBps, Strike,
    EmergencyBps,        \* 9_000
    Leverages,           \* 0: none chosen
    Marks,               \* prices of the future
    Premiums,            \* prices of the option
    Price0,
    Instances,           \* of the API
    MaxQty, MaxOrders, MaxRuns, MaxCalls

Accounts == Users \cup Bots
Future == "future"
Option == "option"
Symbols == {Future, Option}
Unit(s) == IF s = Future THEN FutureUnit ELSE OptionUnit

ASSUME DerivativesAssumption ==
    /\ IsFiniteSet(Accounts) /\ Users \cap Bots = {}
    /\ Balances \in [Accounts -> Nat]
    /\ {FutureUnit, OptionUnit, BpsBase, InitialBps, EmergencyBps, MaxQty} \subseteq Nat \ {0}
    /\ {MaintenanceBps, WriterBps, Strike} \subseteq Nat
    /\ Leverages \subseteq Nat /\ 0 \in Leverages
    /\ Marks \cup Premiums \subseteq Nat \ {0} /\ Price0 \in Marks

\* rowSideOf: the rows an account may have.
SidesOf(a, s) == IF s = Future /\ a \in Users THEN {"LONG", "SHORT"} ELSE {"NET"}
Keys == {k \in Accounts \X Symbols \X {"LONG", "SHORT", "NET"} : k[3] \in SidesOf(k[1], k[2])}

\* A risk tick of an instance, account by account.
Ticks == Instances \X Accounts

VARIABLES
    cash,     \* account -> balance, hold and debt
    pos,      \* key -> qty (short: negative), entry, margin, leverage
    orders,   \* all orders; `left` is what the engine still has of one
    events,   \* trades and closes on their way to settlement, in order
    mark,     \* price of the future
    calls,    \* all margin calls: "open", "due" or "closed"
    tick,     \* the risk ticks: what they have read and decided
    blind,    \* history: accounts liquidated by a tick that had missed a liquidation
    phase,    \* "trading", "maintenance", then "after"
    run,      \* the daily settlement: symbol, prices, positions to do, any closed
    done,     \* symbols settled today -> price
    claimed,  \* processed_events of the settlement
    runs,
    overflow, \* history: contracts of closing fills that had nothing to close
    usedPrices \* history: prices at which positions were settled, by symbol

money == <<cash, pos>>
daily == <<phase, run, done, claimed, runs, usedPrices>>
risk == <<mark, calls, tick, blind>>
derivVars == <<money, orders, events, risk, daily, overflow>>

\* `missed` is history: a liquidation was ordered or filled after the positions were read.
NoTick == [stage |-> "idle", pos |-> <<>>, call |-> 0, due |-> FALSE, mark |-> 0,
           cash |-> 0, qtys |-> <<>>, missed |-> FALSE]
NoRun == [symbol |-> "none", prices |-> <<>>, todo |-> {}, closed |-> FALSE]

DerivInit ==
    /\ cash = [a \in Accounts |-> [balance |-> Balances[a], hold |-> 0, debt |-> 0]]
    /\ pos = [k \in Keys |-> [qty |-> 0, entry |-> 0, margin |-> 0, leverage |-> 0]]
    /\ orders = <<>> /\ events = <<>>
    /\ mark = Price0
    /\ calls = <<>>
    /\ tick = [t \in Ticks |-> NoTick] /\ blind = {}
    /\ phase = "trading"
    /\ run = NoRun /\ done = <<>> /\ claimed = {} /\ runs = 0
    /\ overflow = 0 /\ usedPrices = [s \in Symbols |-> {}]

----------------------------------------------------------------------------
(***************************************************************************)
(* Margin                                                                  *)
(***************************************************************************)
Abs(n) == IF n < 0 THEN -n ELSE n
Larger(a, b) == IF a > b THEN a ELSE b
Smaller(a, b) == IF a < b THEN a ELSE b
CeilDiv(n, d) == (n + d - 1) \div d
CeilBps(value, bps) == CeilDiv(value * bps, BpsBase)

FutureInitialBps(leverage) == IF leverage = 0 THEN InitialBps ELSE CeilDiv(BpsBase, leverage)

FutureMaintenanceBps(leverage) ==
    IF leverage = 0 THEN MaintenanceBps ELSE (FutureInitialBps(leverage) * 2) \div 3

FutureMarginPerContract(price, leverage) ==
    CeilBps(price * FutureUnit, FutureInitialBps(leverage))

FuturePositionMargin(entry, leverage) == CeilBps(entry * FutureUnit, FutureInitialBps(leverage))

OptionWriterMargin == CeilBps(Strike * OptionUnit, WriterBps)

\* futurePositionMargin from the entry value, optionPositionMargin from the quantity.
PositionMargin(s, qty, entry, leverage) ==
    IF s = Future
    THEN IF qty = 0 THEN 0 ELSE FuturePositionMargin(entry, leverage)
    ELSE IF qty < 0 THEN OptionWriterMargin * Abs(qty) ELSE 0

KeysOf(a) == {k \in Keys : k[1] = a}

\* futuresEncumbrance
Encumbered(a) == Total([k \in KeysOf(a) |-> pos[k].margin]) + cash[a].debt

Available(a) == cash[a].balance - cash[a].hold - Encumbered(a)

----------------------------------------------------------------------------
(***************************************************************************)
(* Orders                                                                  *)
(***************************************************************************)
Live(i) == orders[i].status \in {"OPEN", "PARTIAL"}
Unfilled(i) == orders[i].qty - orders[i].filled
Signed(side, n) == IF side = "BUY" THEN n ELSE -n

\* A buy of LONG or a sell of SHORT opens.
IsOpening(side, ps) == (side = "BUY") = (ps = "LONG")

UnfilledOf(S) == Total([i \in S |-> Unfilled(i)])

\* Orders that are going to close the position already.
ClosingOrders(k, side) ==
    {i \in DOMAIN orders : /\ orders[i].key = k /\ orders[i].side = side /\ Live(i)
                           /\ k[3] = "NET" => orders[i].per = 0}

IgnoreClosingOrders(k, side) == Abs(pos[k].qty)

\* What may still be closed.
Closable(k, side) == Abs(pos[k].qty) - UnfilledOf(ClosingOrders(k, side))

\* futuresOrderHoldPerUnit and optionOrderHoldPerUnit; -1: refused.
HoldPerUnit(k, side, n, price) ==
    LET qty == pos[k].qty
        closes == Signed(side, qty) < 0 /\ n <= Closable(k, side)
    IN  IF k[2] = Future
        THEN IF k[3] = "NET"
             THEN IF closes THEN 0 ELSE FutureMarginPerContract(price, pos[k].leverage)
             ELSE IF IsOpening(side, k[3])
                  THEN FutureMarginPerContract(price, pos[k].leverage)
                  ELSE IF n <= Closable(k, side) THEN 0 ELSE -1
        ELSE IF side = "BUY" THEN price * OptionUnit
             ELSE IF closes THEN 0
                  ELSE IF k[1] \in Bots THEN OptionWriterMargin ELSE -1

NewOrder(k, side, n, per, limit, forced) ==
    [key |-> k, side |-> side, qty |-> n, filled |-> 0, left |-> n, per |-> per,
     limit |-> limit, status |-> "OPEN", forced |-> forced]

\* OrderService.place
Place(k, side, n, price) ==
    LET per == HoldPerUnit(k, side, n, price) IN
    /\ phase # "maintenance"
    /\ Len(orders) < MaxOrders
    /\ per >= 0
    /\ per > 0 => Available(k[1]) >= per * n
    /\ cash' = [cash EXCEPT ![k[1]].hold = @ + per * n]
    /\ orders' = Append(orders, NewOrder(k, side, n, per, price, FALSE))
    /\ UNCHANGED <<pos, events, risk, daily, overflow>>

\* setLeverage: only while there is no position and no order.
Flat(a) == \A k \in KeysOf(a) : k[2] = Future => pos[k].qty = 0
NoLiveOrder(a) ==
    \A i \in DOMAIN orders : ~(orders[i].key[1] = a /\ orders[i].key[2] = Future /\ Live(i))

LeverageIsFree(a) == NoLiveOrder(a)
LeverageMayChange(a) == Flat(a) /\ NoLiveOrder(a)

SetLeverage(a, leverage) ==
    /\ LeverageMayChange(a)
    /\ pos' = [k \in Keys |-> IF k[1] = a /\ k[2] = Future
                              THEN [pos[k] EXCEPT !.leverage = leverage] ELSE pos[k]]
    /\ UNCHANGED <<cash, orders, events, risk, daily, overflow>>

----------------------------------------------------------------------------
(***************************************************************************)
(* The matching engine, and the events it publishes in order               *)
(***************************************************************************)
Match(b, s, n, price) ==
    /\ phase # "maintenance"
    /\ orders[b].side = "BUY" /\ orders[s].side = "SELL"
    /\ orders[b].key[2] = orders[s].key[2]
    /\ n <= orders[b].left /\ n <= orders[s].left
    /\ price <= orders[b].limit /\ price >= orders[s].limit
    /\ orders' = [orders EXCEPT ![b].left = @ - n, ![s].left = @ - n]
    /\ events' = Append(events, [kind |-> "trade", buy |-> b, sell |-> s,
                                 qty |-> n, price |-> price])
    /\ UNCHANGED <<money, risk, daily, overflow>>

\* A cancel, or the rest of a market order.
EngineCloses(i) ==
    /\ orders[i].left > 0
    /\ orders' = [orders EXCEPT ![i].left = 0]
    /\ events' = Append(events, [kind |-> "closed", buy |-> i, sell |-> i, qty |-> 0, price |-> 0])
    /\ UNCHANGED <<money, risk, daily, overflow>>

----------------------------------------------------------------------------
(***************************************************************************)
(* Settlement of trades                                                    *)
(***************************************************************************)
KeepEntry(entry, basis) == entry

\* What a partial close leaves of the entry value.
RestOfEntry(entry, basis) == entry - basis

\* applyFutureFill: close first, at a proportional part of the entry value
\* (rounded down), then open the other way with what is left.
ApplyFill(s, p, side, price, n) ==
    LET opens  == p.qty = 0 \/ (p.qty > 0) = (side = "BUY")
        closed == IF opens THEN 0 ELSE Smaller(n, Abs(p.qty))
        basis  == IF closed = 0 THEN 0 ELSE (p.entry * closed) \div Abs(p.qty)
        rest   == n - closed
        qty    == p.qty + Signed(side, n)
        entry  == IF closed = 0 THEN p.entry + price * n
                  ELSE IF rest > 0 THEN price * rest
                  ELSE IF qty = 0 THEN 0 ELSE RestOfEntry(p.entry, basis)
    IN  [pos      |-> [p EXCEPT !.qty = qty, !.entry = entry,
                                !.margin = PositionMargin(s, qty, entry, p.leverage)],
         realized |-> (IF p.qty > 0 THEN 1 ELSE -1) * (price * closed - basis) * Unit(s),
         overflow |-> 0]

CloseAll(k, p, side, n) == n

\* A close never opens the other side.
HedgeQty(k, p, side, n) == IF IsOpening(side, k[3]) THEN n ELSE Smaller(n, Abs(p.qty))

\* applyHedgeFill
ApplyHedgeFill(k, p, side, price, n) ==
    LET closing == HedgeQty(k, p, side, n) IN
    IF closing = 0
    THEN [pos |-> p, realized |-> 0, overflow |-> n]
    ELSE [ApplyFill(Future, p, side, price, closing) EXCEPT !.overflow = n - closing]

ApplyLeg(k, p, side, price, n) ==
    IF k[3] = "NET" THEN ApplyFill(k[2], p, side, price, n) ELSE ApplyHedgeFill(k, p, side, price, n)

Pay(c, amount) == [c EXCEPT !.balance = @ + amount]

\* applyFuturesCash: a loss takes what is not held, the rest becomes debt; a
\* profit pays debt first.
AddCash(c, amount) ==
    IF amount >= 0
    THEN LET repay == Smaller(amount, c.debt)
         IN  [c EXCEPT !.balance = @ + amount - repay, !.debt = @ - repay]
    ELSE LET paid == Smaller(-amount, Larger(0, c.balance - c.hold))
         IN  [c EXCEPT !.balance = @ - paid, !.debt = @ - amount - paid]

Filled(o, n) ==
    [o EXCEPT !.filled = @ + n, !.status = IF o.filled + n >= o.qty THEN "FILLED" ELSE "PARTIAL"]

\* History: the ticks at work on an account while a liquidation of it goes on.
Missing(A) ==
    [t \in Ticks |-> IF t[2] \in A /\ tick[t].stage # "idle"
                     THEN [tick[t] EXCEPT !.missed = TRUE] ELSE tick[t]]

\* settleFuturesTrade and settleOptionTrade.  The legs are applied one after the
\* other: in a trade of an account with itself the second sees the first.
SettleTrade ==
    LET e  == Head(events)
        kb == orders[e.buy].key
        ks == orders[e.sell].key
        s  == kb[2]
        bought == ApplyLeg(kb, pos[kb], "BUY", e.price, e.qty)
        sold   == ApplyLeg(ks, IF ks = kb THEN bought.pos ELSE pos[ks], "SELL", e.price, e.qty)
        released(a) == (IF kb[1] = a THEN orders[e.buy].per * e.qty ELSE 0)
                     + (IF ks[1] = a THEN orders[e.sell].per * e.qty ELSE 0)
        realized(a) == (IF kb[1] = a THEN bought.realized ELSE 0)
                     + (IF ks[1] = a THEN sold.realized ELSE 0)
        premium(a)  == ((IF ks[1] = a THEN 1 ELSE 0) - (IF kb[1] = a THEN 1 ELSE 0))
                       * e.price * e.qty * OptionUnit
        freed(a)    == [cash[a] EXCEPT !.hold = @ - released(a)]
    IN  /\ events # <<>> /\ e.kind = "trade"
        /\ events' = Tail(events)
        /\ pos' = [pos EXCEPT ![kb] = bought.pos, ![ks] = sold.pos]
        /\ cash' = [a \in Accounts |->
               IF a \notin {kb[1], ks[1]} THEN cash[a]
               ELSE IF s = Future THEN AddCash(freed(a), realized(a))
               ELSE Pay(freed(a), premium(a))]
        /\ orders' = [orders EXCEPT ![e.buy] = Filled(@, e.qty), ![e.sell] = Filled(@, e.qty)]
        /\ overflow' = overflow + bought.overflow + sold.overflow
        /\ tick' = Missing({orders[i].key[1] : i \in {i \in {e.buy, e.sell} : orders[i].forced}})
        /\ UNCHANGED <<mark, calls, blind, daily>>

\* order.closed: what is left of the hold is released (Settlement has the rest).
SettleClose ==
    LET e == Head(events)
        o == orders[e.buy]
    IN  /\ events # <<>> /\ e.kind = "closed"
        /\ events' = Tail(events)
        /\ orders' = [orders EXCEPT ![e.buy].status = "CANCELED"]
        /\ cash' = [cash EXCEPT ![o.key[1]].hold = @ - o.per * (o.qty - o.filled)]
        /\ UNCHANGED <<pos, risk, daily, overflow>>

----------------------------------------------------------------------------
(***************************************************************************)
(* Risk: margin calls and forced liquidation                               *)
(***************************************************************************)
Unrealized(p, x) ==
    (IF p.qty > 0 THEN 1 ELSE -1) * (Abs(p.qty) * x - p.entry) * FutureUnit

\* assessFuturesRisk, on the positions, the mark, and the balance less the debt read.
Assess(ps, x, net) ==
    LET open == {k \in DOMAIN ps : ps[k].qty # 0}
        unrealized == Total([k \in open |-> Unrealized(ps[k], x)])
        initial == Total(
            [k \in open |-> FutureMarginPerContract(x, ps[k].leverage) * Abs(ps[k].qty)])
        maintenance == Total(
            [k \in open |-> CeilBps(Abs(ps[k].qty) * x * FutureUnit,
                                    FutureMaintenanceBps(ps[k].leverage))])
        equity == net + unrealized
    IN  [open      |-> open,
         initial   |-> initial,
         shortfall |-> IF open = {} THEN 0 ELSE Larger(0, initial - equity),
         below     |-> open # {} /\ equity < maintenance,
         emergency |-> {k \in open : /\ ps[k].margin > 0
                                     /\ -Unrealized(ps[k], x) * BpsBase >= ps[k].margin * EmergencyBps}]

\* marginCallLiquidationQty
DeadlineQty(qty, r) ==
    IF r.initial <= 0 \/ r.shortfall >= r.initial THEN Abs(qty)
    ELSE Larger(1, Smaller(Abs(qty), CeilDiv(Abs(qty) * r.shortfall, r.initial)))

CallsOf(a) == {c \in DOMAIN calls : calls[c].account = a /\ calls[c].state # "closed"}

\* tick of one account.  One instance does one tick at a time; those of two are
\* kept apart by a Redis lock of four seconds that is not renewed and not looked at
\* again, so a slow tick is no reason for another instance to wait.  First the
\* positions, the open calls and the mark are read (of several calls, any) ...
RiskReads(t) ==
    LET held == [k \in {k \in KeysOf(t[2]) : k[2] = Future} |-> pos[k]]
        open == CallsOf(t[2])
    IN  /\ phase # "maintenance"
        /\ tick[t].stage = "idle"
        /\ open # {} \/ \E k \in DOMAIN held : held[k].qty # 0
        /\ \E c \in IF open = {} THEN {0} ELSE open :
               tick' = [tick EXCEPT ![t] =
                   [NoTick EXCEPT !.stage = "read", !.pos = held, !.mark = mark, !.call = c,
                                  !.due = c # 0 /\ calls[c].state = "due"]]
        /\ UNCHANGED <<money, orders, events, mark, calls, blind, daily, overflow>>

ForgetPending(a) == FALSE

\* pendingLiquidationAccounts
LiquidationPending(a) ==
    \E i \in DOMAIN orders : orders[i].key[1] = a /\ orders[i].forced /\ Live(i)

\* ... then the balance, the debt and the live liquidations.
RiskChecks(t) ==
    /\ tick[t].stage = "read"
    /\ tick' = [tick EXCEPT ![t] =
           IF LiquidationPending(t[2]) THEN NoTick
           ELSE [@ EXCEPT !.stage = "checked", !.cash = cash[t[2]].balance - cash[t[2]].debt]]
    /\ UNCHANGED <<money, orders, events, mark, calls, blind, daily, overflow>>

\* closeCall: nothing, when it is closed already.
Closed(c) == IF c = 0 THEN calls ELSE [calls EXCEPT ![c].state = "closed"]

RiskEnds(t) == tick' = [tick EXCEPT ![t] = NoTick]

WillLiquidate(t, qtys) ==
    /\ tick' = [tick EXCEPT ![t].stage = "liquidate", ![t].qtys = qtys]
    /\ calls' = Closed(tick[t].call)

\* The decision, with what it writes of margin calls.  (An emergency without a call
\* leaves a call that is closed from the start: not kept.)
RiskDecides(t) ==
    LET ps == tick[t].pos
        c == tick[t].call
        r == Assess(ps, tick[t].mark, tick[t].cash)
    IN  /\ tick[t].stage = "checked"
        /\ \/ /\ r.emergency # {}
              /\ WillLiquidate(t, [k \in r.emergency |-> Abs(ps[k].qty)])
           \/ /\ r.emergency = {} /\ c # 0 /\ r.shortfall = 0
              /\ calls' = Closed(c) /\ RiskEnds(t)
           \/ /\ r.emergency = {} /\ c # 0 /\ r.shortfall # 0 /\ tick[t].due
              /\ WillLiquidate(t, [k \in r.open |-> DeadlineQty(ps[k].qty, r)])
           \/ /\ r.emergency = {} /\ c = 0 /\ r.below
              /\ Len(calls) < MaxCalls
              /\ calls' = Append(calls, [account |-> t[2], state |-> "open"])
              /\ RiskEnds(t)
           \/ /\ r.emergency = {}
              /\ IF c = 0 THEN ~r.below ELSE r.shortfall # 0 /\ ~tick[t].due
              /\ calls' = calls /\ RiskEnds(t)
        /\ UNCHANGED <<money, orders, events, mark, blind, daily, overflow>>

\* A market order of the other side, limited to a tenth off the mark.
ForcedOrder(k, qty, n, x) ==
    IF qty > 0 THEN NewOrder(k, "SELL", n, 0, Larger(1, (x * 10) \div 11), TRUE)
    ELSE NewOrder(k, "BUY", n, 0, CeilDiv(x * 11, 10), TRUE)

\* liquidate, in a transaction of its own.  The cancels of the account's other
\* orders that go out with it: EngineCloses.
RiskLiquidates(t) ==
    LET ks == SetToSeq(DOMAIN tick[t].qtys) IN
    /\ tick[t].stage = "liquidate"
    /\ Len(orders) + Len(ks) <= MaxOrders
    /\ orders' = orders \o [i \in DOMAIN ks |->
           ForcedOrder(ks[i], tick[t].pos[ks[i]].qty, tick[t].qtys[ks[i]], tick[t].mark)]
    /\ tick' = [Missing({t[2]}) EXCEPT ![t] = NoTick]
    /\ blind' = IF tick[t].missed THEN blind \cup {t[2]} ELSE blind
    /\ UNCHANGED <<money, events, mark, calls, daily, overflow>>

\* A statement fails or the instance stops: a call may be closed and nothing ordered.
RiskFails(t) ==
    /\ tick[t].stage # "idle"
    /\ RiskEnds(t)
    /\ UNCHANGED <<money, orders, events, mark, calls, blind, daily, overflow>>

\* Half an hour goes by.
CallFallsDue(c) ==
    /\ calls[c].state = "open"
    /\ calls' = [calls EXCEPT ![c].state = "due"]
    /\ UNCHANGED <<money, orders, events, mark, tick, blind, daily, overflow>>

MarkMoves(x) ==
    /\ phase # "maintenance" /\ mark # x
    /\ mark' = x
    /\ UNCHANGED <<money, orders, events, calls, tick, blind, daily, overflow>>

----------------------------------------------------------------------------
(***************************************************************************)
(* The daily settlement                                                    *)
(***************************************************************************)
\* Orders are refused from 04:10 on, for ten minutes.
BeginMaintenance ==
    /\ phase = "trading"
    /\ phase' = "maintenance"
    /\ UNCHANGED <<money, orders, events, risk, run, done, claimed, runs, overflow, usedPrices>>

EndMaintenance ==
    /\ phase = "maintenance"
    /\ phase' = "after"
    /\ UNCHANGED <<money, orders, events, risk, run, done, claimed, runs, overflow, usedPrices>>

AllSymbols == Symbols

\* Symbols without a record of the day.
Pending == Symbols \ DOMAIN done

OpenKeys(s) == {k \in Keys : k[2] = s /\ pos[k].qty # 0}

Settling(s, prices, closed) ==
    [symbol |-> s, prices |-> prices, todo |-> OpenKeys(s), closed |-> closed]

\* settle, at 04:11 or when an instance has started again.  The minute of
\* maintenance is taken to be enough for what was traded to be settled.  It first
\* asks the engine to cancel the live orders of these symbols, whose ends are
\* among those that EngineCloses allows.
StartSettlement(future, intrinsic) ==
    /\ run = NoRun
    /\ runs < MaxRuns
    /\ phase \in {"maintenance", "after"}
    /\ phase = "maintenance" => events = <<>>
    /\ Pending # {}
    /\ run' = Settling(IF Future \in Pending THEN Future ELSE Option,
                       [s \in Symbols |-> IF s = Future THEN future ELSE intrinsic], FALSE)
    /\ runs' = runs + 1
    /\ UNCHANGED <<money, orders, events, risk, phase, done, claimed, overflow, usedPrices>>

\* settlePosition and settleOptionPosition, once per day and position.
SettlePosition(k) ==
    LET p == pos[k]
        price == run.prices[k[2]]
        fill == ApplyFill(k[2], p, IF p.qty > 0 THEN "SELL" ELSE "BUY", price, Abs(p.qty))
        amount == IF k[2] = Future THEN fill.realized ELSE p.qty * price * OptionUnit
        closes == k \notin claimed /\ p.qty # 0
    IN  /\ k \in run.todo
        /\ run' = [run EXCEPT !.todo = @ \ {k}, !.closed = @ \/ closes]
        /\ claimed' = claimed \cup {k}
        /\ IF closes
           THEN /\ pos' = [pos EXCEPT ![k] = fill.pos]
                /\ cash' = [cash EXCEPT ![k[1]] = AddCash(@, amount)]
                /\ usedPrices' = [usedPrices EXCEPT ![k[2]] = @ \cup {price}]
           ELSE UNCHANGED <<money, usedPrices>>
        /\ UNCHANGED <<orders, events, risk, phase, done, runs, overflow>>

AllClosed == [c \in DOMAIN calls |-> [calls[c] EXCEPT !.state = "closed"]]

\* All positions of the symbol are done: its record of the day.  At the end, if
\* any position was closed, no margin call stays open.
FinishSymbol ==
    /\ run # NoRun /\ run.todo = {}
    /\ done' = [s \in DOMAIN done \cup {run.symbol} |->
                   IF s = run.symbol THEN run.prices[s] ELSE done[s]]
    /\ IF run.symbol = Future /\ Option \in Pending
       THEN /\ run' = Settling(Option, run.prices, run.closed)
            /\ calls' = calls
       ELSE /\ run' = NoRun
            /\ calls' = IF run.closed THEN AllClosed ELSE calls
    /\ UNCHANGED <<money, orders, events, mark, tick, blind, phase, claimed, runs, overflow, usedPrices>>

\* The instance stops in the middle, or a position cannot be settled.
SettlementStops ==
    /\ run # NoRun
    /\ run' = NoRun
    /\ UNCHANGED <<money, orders, events, risk, phase, done, claimed, runs, overflow, usedPrices>>

----------------------------------------------------------------------------
Prices(s) == IF s = Future THEN Marks ELSE Premiums

Trading ==
    \/ \E k \in Keys, side \in {"BUY", "SELL"}, n \in 1..MaxQty :
           \E x \in Prices(k[2]) : Place(k, side, n, x)
    \/ \E b, s \in DOMAIN orders : \E n \in 1..MaxQty : \E x \in Prices(orders[b].key[2]) :
           Match(b, s, n, x)
    \/ \E i \in DOMAIN orders : EngineCloses(i)
    \/ SettleTrade
    \/ SettleClose

Leveraging == \E a \in Accounts, leverage \in Leverages : SetLeverage(a, leverage)

Risk ==
    \/ \E t \in Ticks : \/ RiskReads(t) \/ RiskChecks(t) \/ RiskDecides(t)
                        \/ RiskLiquidates(t) \/ RiskFails(t)
    \/ \E c \in DOMAIN calls : CallFallsDue(c)
    \/ \E x \in Marks : MarkMoves(x)

Daily ==
    \/ BeginMaintenance
    \/ EndMaintenance
    \/ \E x \in Marks, v \in Premiums \cup {0} : StartSettlement(x, v)
    \/ \E k \in run.todo : SettlePosition(k)
    \/ FinishSymbol
    \/ SettlementStops

DerivNext == Trading \/ Leveraging \/ Risk \/ Daily

DerivSpec == DerivInit /\ [][DerivNext]_derivVars

----------------------------------------------------------------------------
DerivTypeOK ==
    /\ cash \in [Accounts -> [balance : Nat, hold : Nat, debt : Nat]]
    /\ pos \in [Keys -> [qty : Int, entry : Nat, margin : Nat, leverage : Leverages]]
    /\ orders \in Seq([key : Keys, side : {"BUY", "SELL"}, qty : Nat \ {0}, filled : Nat,
                       left : Nat, per : Nat, limit : Nat, forced : BOOLEAN,
                       status : {"OPEN", "PARTIAL", "FILLED", "CANCELED"}])
    /\ mark \in Marks
    /\ calls \in Seq([account : Accounts, state : {"open", "due", "closed"}])
    /\ blind \subseteq Accounts
    /\ phase \in {"trading", "maintenance", "after"}
    /\ DOMAIN done \subseteq Symbols /\ claimed \subseteq Keys
    /\ \A k \in Keys : /\ k[3] = "LONG" => pos[k].qty >= 0
                       /\ k[3] = "SHORT" => pos[k].qty <= 0
                       /\ pos[k].qty = 0 => pos[k].entry = 0

(***************************************************************************)
(* What an account has held is what its live orders have reserved, to the  *)
(* won, and its balance always covers it (the database demands it): losses *)
(* beyond that are debt.                                                   *)
(***************************************************************************)
HoldsAreBacked ==
    \A a \in Accounts :
        /\ cash[a].hold = Total([i \in {i \in DOMAIN orders : orders[i].key[1] = a /\ Live(i)}
                                    |-> orders[i].per * Unfilled(i)])
        /\ cash[a].hold <= cash[a].balance

(***************************************************************************)
(* Trades and the daily settlement move money between accounts and make    *)
(* none: what one gains another loses, whatever is partly closed, turned   *)
(* over, settled in pieces or by a second run.  It takes a close that      *)
(* found nothing to close, or two settlement prices, to break it.          *)
(***************************************************************************)
SettlementPrice(s) == IF usedPrices[s] = {} THEN 0 ELSE CHOOSE x \in usedPrices[s] : TRUE

NetQty(s) == Total([k \in {k \in Keys : k[2] = s} |-> pos[k].qty])

NetEntry == Total([k \in {k \in Keys : k[2] = Future} |->
                       IF pos[k].qty > 0 THEN pos[k].entry ELSE -pos[k].entry])

MoneyIsConserved ==
    (overflow = 0 /\ \A s \in Symbols : Cardinality(usedPrices[s]) <= 1) =>
        Total([a \in Accounts |-> cash[a].balance - cash[a].debt - Balances[a]])
            + FutureUnit * (NetQty(Future) * SettlementPrice(Future) - NetEntry)
            + OptionUnit * NetQty(Option) * SettlementPrice(Option) = 0

(***************************************************************************)
(* The margin of a position is the one its entry value and its leverage    *)
(* demand, however it came about: what is released is what was taken.      *)
(***************************************************************************)
MarginIsExact ==
    \A k \in Keys : pos[k].margin =
        PositionMargin(k[2], pos[k].qty, pos[k].entry, pos[k].leverage)

(***************************************************************************)
(* "Blocked when the order is accepted, so 0 normally": users cannot close *)
(* more than they hold, with any number of closing orders on their way,    *)
(* as long as nobody closes for them (liquidation, daily settlement).      *)
(***************************************************************************)
ClosesAreHeld ==
    (/\ \A i \in DOMAIN orders : ~orders[i].forced
     /\ usedPrices[Future] = {}) => overflow = 0

(***************************************************************************)
(* "Judge again once the result is seen (against a double liquidation)".   *)
(* For an account no liquidation of which was decided in ignorance of an   *)
(* earlier one: each of its positions has one live liquidation at most,    *)
(* and none is larger than what is left of the position, unless the user   *)
(* has closed, or the daily settlement has.  However many instances tick,  *)
(* fail or are slow, and whatever fills in between.  (A tick that reads    *)
(* positions, and looks for live liquidations when the last one is just    *)
(* through, does decide so; and so do two ticks at a time.)                *)
(***************************************************************************)
Liquidations(k) == {i \in DOMAIN orders : orders[i].key = k /\ orders[i].forced /\ Live(i)}

OnlyLiquidated(k) ==
    /\ k[3] \in {"LONG", "SHORT"} /\ k \notin claimed
    /\ \A i \in DOMAIN orders : orders[i].key = k /\ ~orders[i].forced => IsOpening(orders[i].side, k[3])

LiquidationsFit ==
    \A k \in Keys : k[1] \notin blind =>
        \A i \in Liquidations(k) :
            /\ \A j \in Liquidations(k) : j = i
            /\ OnlyLiquidated(k) => Unfilled(i) <= Abs(pos[k].qty)

(***************************************************************************)
(* Positions opened after the settlement of the day belong to the next     *)
(* one: once a symbol has its record of the day, only trades change the    *)
(* positions in it, whatever runs still come to catch up.                  *)
(***************************************************************************)
NewPositionsSurvive ==
    [][\A k \in Keys : (k[2] \in DOMAIN done /\ pos'[k].qty # pos[k].qty) =>
           events # <<>> /\ events' = Tail(events)]_derivVars
=============================================================================
