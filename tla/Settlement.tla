----------------------------- MODULE Settlement -----------------------------
(***************************************************************************)
(* The tables of orders and accounts and everything of the spot market     *)
(* that writes them: the order service, which takes a reserve, and the     *)
(* settlement consumer, which applies the rows the matching engine records. *)
(*                                                                         *)
(* Of the engine only this is assumed: a trade it records joins a buy and  *)
(* a sell of two accounts at a price both accept.  Its rows may overfill   *)
(* an order, come after its close or contradict each other; they may be    *)
(* settled in any order and any number of times, or never.  Exchange, with *)
(* the engine and the streams in full, is checked to be such a system;     *)
(* every such system is proved to implement Market (SettlementProofs).     *)
(***************************************************************************)
EXTENDS Fees, Sums, Sequences, FiniteSets

CONSTANTS
    Accounts,
    Orders,      \* one symbol's orders; Terms gives each its terms
    Terms,       \* [Orders -> [acct, side, type, price, qty]]
    Exempt,      \* the accounts of bots pay no fee
    Cash0,       \* [Accounts -> Nat]
    Shares0      \* [Accounts -> Nat]

\* A MARKET buy has the price cap that place() sends, a MARKET sell no price.
OrderTerms == [acct : Accounts, side : {"BUY", "SELL"}, type : {"LIMIT", "MARKET"},
               price : Nat, qty : Nat \ {0}]

ASSUME SettlementAssumption ==
    /\ Terms \in [Orders -> OrderTerms]
    /\ Cash0 \in [Accounts -> Nat]
    /\ Shares0 \in [Accounts -> Nat]

VARIABLES
    charging,    \* the date from which executions are charged has come
    order,       \* [Orders -> [status, filled, unit]], unit: hold_per_unit
    account,     \* [Accounts -> [balance, hold, shares, holdQty, debt]]
    log,         \* the rows recorded by the matching engine, by id
    processed    \* processed_events: the rows settled

ledgerVars == <<charging, order, account, log, processed>>

Active(o) == order[o].status \in {"OPEN", "PARTIAL"}
Terminal(o) == order[o].status \in {"FILLED", "CANCELED"}
IsTrade(i) == log[i].topic = "trade.executed"

LedgerInit ==
    /\ charging \in BOOLEAN
    /\ order = [o \in Orders |-> [status |-> "NONE", filled |-> 0, unit |-> 0]]
    /\ account = [a \in Accounts |-> [balance |-> Cash0[a], hold |-> 0,
                                      shares |-> Shares0[a], holdQty |-> 0, debt |-> 0]]
    /\ log = <<>>
    /\ processed = {}

\* TRADING_FEES_EFFECTIVE_AT passes.
StartCharging ==
    /\ ~charging
    /\ charging' = TRUE
    /\ UNCHANGED <<order, account, log, processed>>

----------------------------------------------------------------------------
(***************************************************************************)
(* The order service                                                       *)
(***************************************************************************)
HoldPerUnit(o) ==
    IF Terms[o].side = "SELL" THEN 0
    ELSE IF charging /\ Terms[o].acct \notin Exempt THEN HoldWithFee(Terms[o].price)
    ELSE Terms[o].price

\* The account row with the order's reserve taken.
WithReserve(o) ==
    LET a == account[Terms[o].acct] IN
    IF Terms[o].side = "BUY" THEN [a EXCEPT !.hold = @ + HoldPerUnit(o) * Terms[o].qty]
    ELSE [a EXCEPT !.holdQty = @ + Terms[o].qty]

HasFunds(o) ==
    LET a == account[Terms[o].acct] IN
    IF Terms[o].side = "BUY" THEN a.balance - a.hold >= HoldPerUnit(o) * Terms[o].qty
    ELSE a.shares - a.holdQty >= Terms[o].qty

\* place: under the account lock, check and take the reserve and insert the
\* order.  A refusal changes nothing.
PlaceOrder(o) ==
    /\ order[o].status = "NONE"
    /\ HasFunds(o)
    /\ account' = [account EXCEPT ![Terms[o].acct] = WithReserve(o)]
    /\ order' = [order EXCEPT ![o] = [status |-> "OPEN", filled |-> 0,
                                      unit |-> HoldPerUnit(o)]]
    /\ UNCHANGED <<charging, log, processed>>

----------------------------------------------------------------------------
(***************************************************************************)
(* The settlement consumer                                                 *)
(***************************************************************************)
\* stateAfterTrade throws on a terminal order and on an overfill.
AcceptsBelow(o, qty) == Active(o) /\ order[o].filled + qty < Terms[o].qty

AcceptsTrade(o, qty) == Active(o) /\ order[o].filled + qty <= Terms[o].qty

StateAfterTrade(o, qty) ==
    LET filled == order[o].filled + qty
    IN  [order[o] EXCEPT !.status = IF filled >= Terms[o].qty THEN "FILLED" ELSE "PARTIAL",
                         !.filled = filled]

\* closeMustWaitForTrades: fills the close counts are not settled yet.
CloseNeverWaits(row) == FALSE

CloseMustWait(row) == Active(row.order) /\ row.filled > order[row.order].filled

\* An event whose transaction would not throw.
CanSettle(i) ==
    \/ i \in processed
    \/ IF IsTrade(i)
       THEN AcceptsTrade(log[i].buy, log[i].qty) /\ AcceptsTrade(log[i].sell, log[i].qty)
       ELSE ~CloseMustWait(log[i])

\* settleTradingFees: the fee of one side, by the time of the trade.  What the
\* cash that is not on hold cannot pay is booked as debt.
Fee(a, t) == IF t.charged /\ a \notin Exempt THEN TradingFee(t.price * t.qty) ELSE 0

Unpaid(row, fee) ==
    LET shortfall == row.hold + fee - row.balance
    IN  IF fee > 0 /\ shortfall > 0 THEN shortfall ELSE 0

ChargeFee(row, fee) ==
    [row EXCEPT !.balance = @ + Unpaid(row, fee) - fee, !.debt = @ + Unpaid(row, fee)]

\* The account rows after a trade: cost, hold and shares of the buyer, proceeds
\* and shares of the seller, a fee of each.
BuyerAfterTradeAtCost(t) ==
    LET a == Terms[t.buy].acct IN
    ChargeFee([account[a] EXCEPT !.balance = @ - t.price * t.qty,
                                 !.hold = @ - t.price * t.qty,
                                 !.shares = @ + t.qty], Fee(a, t))

BuyerAfterTrade(t) ==
    LET a == Terms[t.buy].acct IN
    ChargeFee([account[a] EXCEPT !.balance = @ - t.price * t.qty,
                                 !.hold = @ - order[t.buy].unit * t.qty,
                                 !.shares = @ + t.qty], Fee(a, t))

SellerAfterTrade(t) ==
    LET a == Terms[t.sell].acct IN
    ChargeFee([account[a] EXCEPT !.balance = @ + t.price * t.qty,
                                 !.shares = @ - t.qty,
                                 !.holdQty = @ - t.qty], Fee(a, t))

SettleTrade(t) ==
    /\ account' = [account EXCEPT ![Terms[t.buy].acct] = BuyerAfterTrade(t),
                                  ![Terms[t.sell].acct] = SellerAfterTrade(t)]
    /\ order' = [order EXCEPT ![t.buy] = StateAfterTrade(t.buy, t.qty),
                              ![t.sell] = StateAfterTrade(t.sell, t.qty)]

\* stateAfterClose has no effect on a terminal order, nor for a stale close.
Stale(c) == Terminal(c.order) \/ c.filled < order[c.order].filled

\* closeOrder: the order ends and what its rest had reserved is released.
CloseOrder(c) ==
    IF Stale(c) THEN UNCHANGED <<order, account>>
    ELSE LET o == c.order
             filled == IF c.filled < Terms[o].qty THEN c.filled ELSE Terms[o].qty
             rest == Terms[o].qty - filled
             a == account[Terms[o].acct]
         IN  /\ order' = [order EXCEPT ![o].status = c.status, ![o].filled = filled]
             /\ account' = [account EXCEPT ![Terms[o].acct] =
                    IF Terms[o].side = "BUY" THEN [a EXCEPT !.hold = @ - order[o].unit * rest]
                    ELSE [a EXCEPT !.holdQty = @ - rest]]

\* The transaction of one event, a no-op for one already processed.
SettleAgain(i) ==
    /\ CanSettle(i)
    /\ processed' = processed \cup {i}
    /\ UNCHANGED <<charging, log>>
    /\ IF IsTrade(i) THEN SettleTrade(log[i]) ELSE CloseOrder(log[i])

Settle(i) ==
    /\ CanSettle(i)
    /\ processed' = processed \cup {i}
    /\ UNCHANGED <<charging, log>>
    /\ IF i \in processed THEN UNCHANGED <<order, account>>
       ELSE IF IsTrade(i) THEN SettleTrade(log[i]) ELSE CloseOrder(log[i])

----------------------------------------------------------------------------
(***************************************************************************)
(* The matching engine, as far as settlement depends on it                 *)
(***************************************************************************)
TradeRows == [topic : {"trade.executed"}, price : Nat \ {0}, qty : Nat \ {0},
              buy : Orders, sell : Orders, charged : BOOLEAN]

CloseRows == [topic : {"order.closed"}, order : Orders, filled : Nat,
              status : {"FILLED", "CANCELED"}]

\* applyOrder matches orders that are placed, of two accounts and opposite sides,
\* at the maker's price, which the taker's price accepts.  A trade is dated now.
Matches(t) ==
    /\ order[t.buy].status # "NONE" /\ order[t.sell].status # "NONE"
    /\ Terms[t.buy].side = "BUY" /\ Terms[t.sell].side = "SELL"
    /\ Terms[t.buy].acct # Terms[t.sell].acct
    /\ t.price <= Terms[t.buy].price /\ t.price >= Terms[t.sell].price
    /\ t.charged => charging

Recordable(row) ==
    \/ row \in TradeRows /\ Matches(row)
    \/ row \in CloseRows /\ order[row.order].status # "NONE"

\* The transaction of an order event adds rows, finitely many, behind the ones
\* there are.
Record ==
    /\ DOMAIN log \subseteq DOMAIN log'
    /\ IsFiniteSet(DOMAIN log')
    /\ \A i \in DOMAIN log' :
          IF i \in DOMAIN log THEN log'[i] = log[i] ELSE Recordable(log'[i])
    /\ UNCHANGED <<charging, order, account, processed>>

LedgerNext ==
    \/ StartCharging
    \/ \E o \in Orders : PlaceOrder(o)
    \/ Record
    \/ \E i \in DOMAIN log : Settle(i)

LedgerSpec == LedgerInit /\ [][LedgerNext]_ledgerVars

----------------------------------------------------------------------------
(***************************************************************************)
(* Properties                                                              *)
(***************************************************************************)
LedgerTypeOK ==
    /\ charging \in BOOLEAN
    /\ order \in [Orders -> [status : {"NONE", "OPEN", "PARTIAL", "FILLED", "CANCELED"},
                             filled : Nat, unit : Nat]]
    /\ account \in [Accounts -> [balance : Int, hold : Int, shares : Int, holdQty : Int,
                                 debt : Nat]]
    /\ \A i \in DOMAIN log : log[i] \in TradeRows \cup CloseRows
    /\ processed \subseteq DOMAIN log

\* The database constraints accounts_hold_within_balance and
\* holdings_hold_within_qty never fail a transaction: in whatever order trades
\* and closes are settled, no hold exceeds what it is a part of.
HoldsAreFunded ==
    \A a \in Accounts : /\ account[a].hold <= account[a].balance
                        /\ account[a].holdQty <= account[a].shares

\* What an account has on hold is what its live orders may still take: cash for
\* the unexecuted rest of its buys, shares for that of its sells.  Lost and late
\* closes, redeliveries and restarts neither leak nor release a hold twice
\* (items 4 and 5 of check-consistency.ts).
HoldMatchesActiveOrders ==
    \A a \in Accounts :
        LET live(side) == {o \in Orders : Active(o) /\ Terms[o].acct = a
                                          /\ Terms[o].side = side}
            rest(o) == Terms[o].qty - order[o].filled
        IN  /\ account[a].hold = Total([o \in live("BUY") |-> order[o].unit * rest(o)])
            /\ account[a].holdQty = Total([o \in live("SELL") |-> rest(o)])

\* An order that was accepted with its fee reserved never leaves its owner in
\* debt: only the owner of a buy from before fees were charged can owe a fee.
DebtOnlyOfOldOrders ==
    \A a \in Accounts : account[a].debt > 0 =>
        \E o \in Orders : /\ Terms[o].acct = a /\ Terms[o].side = "BUY"
                          /\ order[o].status # "NONE" /\ order[o].unit = Terms[o].price

(***************************************************************************)
(* The tables implement Market: what an account can spend and what each    *)
(* order has executed change in the steps of Market and in no other way.   *)
(***************************************************************************)
Owner == [o \in Orders |-> Terms[o].acct]
Side == [o \in Orders |-> Terms[o].side]
Qty == [o \in Orders |-> Terms[o].qty]
Limit == [o \in Orders |-> Terms[o].price]

freeCash == [a \in Accounts |-> account[a].balance - account[a].hold]
freeShares == [a \in Accounts |-> account[a].shares - account[a].holdQty]
debt == [a \in Accounts |-> account[a].debt]
phase == [o \in Orders |-> IF order[o].status = "NONE" THEN "new"
                           ELSE IF Active(o) THEN "live" ELSE "closed"]
unit == [o \in Orders |-> order[o].unit]
executed == [o \in Orders |-> order[o].filled]
escrow == [o \in Orders |->
             IF ~Active(o) THEN 0
             ELSE LET rest == Terms[o].qty - order[o].filled
                  IN  IF Terms[o].side = "BUY" THEN order[o].unit * rest ELSE rest]

\* Every constant and variable of Market is one of the names above.
M == INSTANCE Market

\* Every behaviour of the tables is one of the abstract market: no repeated,
\* late or contradictory row makes an account spend what it does not have, an
\* order trade after it ended, or a reserve go astray.
ImplementsMarket == M!Spec
=============================================================================
