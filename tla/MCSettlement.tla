---------------------------- MODULE MCSettlement ----------------------------
(***************************************************************************)
(* Two buys of one account, a sell of another, and a matching engine that  *)
(* records one row at a time, any row it may.  Half of a notional is its   *)
(* fee; once fees are charged the buyer can afford only one of its buys.   *)
(***************************************************************************)
EXTENDS TradeBus, Recovery, TLC

CONSTANTS
    a1, a2, b1, b2, s1, w1, w2,
    MaxRows,      \* bound: rows recorded in a behaviour
    MaxBusRows    \* bound: rows recorded in a behaviour with the stream

VARIABLE onStream

T(a, side, type, price, qty) ==
    [acct |-> a, side |-> side, type |-> type, price |-> price, qty |-> qty]

MCAccounts == {a1, a2}
MCOrders == {b1, b2, s1}
MCTerms == b1 :> T(a1, "BUY", "LIMIT", 3, 2) @@ b2 :> T(a1, "BUY", "MARKET", 2, 1)
           @@ s1 :> T(a2, "SELL", "MARKET", 0, 2)
MCCash == a1 :> 11 @@ a2 :> 0
MCShares == a1 :> 0 @@ a2 :> 2

SmallRows ==
    LET trade == [topic : {"trade.executed"}, price : {1, 3}, qty : 1..2, buy : {b1, b2},
                  sell : {s1}, charged : BOOLEAN]
        close == [topic : {"order.closed"}, order : {b1, s1}, filled : 0..2,
                  status : {"CANCELED"}]
    IN  {t \in trade : t.buy = b2 => t.qty = 1} \cup close

\* The trade that fills b2, the one that fills half of b1, and the close of b1.
BusRows ==
    {[topic |-> "trade.executed", price |-> 1, qty |-> 1, buy |-> b, sell |-> s1,
      charged |-> TRUE] : b \in {b1, b2}}
    \cup {[topic |-> "order.closed", order |-> b1, filled |-> 1, status |-> "CANCELED"]}

RecordRow(rows, max) ==
    /\ Len(log) < max
    /\ \E row \in rows : Recordable(row) /\ log' = Append(log, row)
    /\ UNCHANGED <<charging, order, account, processed>>

\* Two kinds of behaviour: any row is settled at any time, or rows are settled
\* from the stream.
Tables ==
    /\ \/ StartCharging
       \/ \E o \in Orders : PlaceOrder(o)
       \/ RecordRow(SmallRows, MaxRows)
       \/ \E i \in DOMAIN log : Settle(i)
    /\ UNCHANGED busVars

FromStream ==
    \/ BusStep
    \/ (\E o \in Orders : PlaceOrder(o)) /\ UNCHANGED busVars
    \/ RecordRow(BusRows, MaxBusRows) /\ UNCHANGED busVars

MCInit == BusInit /\ onStream \in BOOLEAN /\ (onStream => charging)

MCNext ==
    /\ IF onStream THEN FromStream ELSE Tables
    /\ UNCHANGED onStream

MCSpec == MCInit /\ [][MCNext]_<<tradeBusVars, onStream>>
=============================================================================
