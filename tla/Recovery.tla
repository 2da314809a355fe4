------------------------------ MODULE Recovery ------------------------------
(***************************************************************************)
(* recover:settlement, the script an operator runs, with the services      *)
(* stopped, when recorded trades were left unsettled.  It does not ask the *)
(* settlement consumer: it rebuilds the reserves from the orders and all   *)
(* recorded trades, replays the unsettled ones on copies of the rows, and  *)
(* writes the result in one transaction, or nothing if it has any issue.   *)
(* Of the markets it knows, like Settlement, the one of shares.            *)
(***************************************************************************)
EXTENDS Settlement, SequencesExt

\* loadRecoveryInput
AllTrades == {i \in DOMAIN log : IsTrade(i)}
UnsettledTrades == AllTrades \ processed

TradesOf(o, rows) == {i \in rows : o \in {log[i].buy, log[i].sell}}

FillQty(o, rows) == Total([i \in TradesOf(o, rows) |-> log[i].qty])

RecordedFillQty(o) == FillQty(o, AllTrades)
UnsettledFillQty(o) == FillQty(o, UnsettledTrades)

\* By time and then by a random id: trades of one moment come in any order.
ReplayOrders == SetToSeqs(UnsettledTrades)

ValidOrder(o) ==
    /\ RecordedFillQty(o) <= Terms[o].qty
    /\ order[o].filled <= RecordedFillQty(o)
    /\ Terminal(o) => order[o].filled = RecordedFillQty(o)

----------------------------------------------------------------------------
(***************************************************************************)
(* buildReservationPrestate: what the accounts must have reserved before   *)
(* and after the replay, whatever their rows say.                          *)
(***************************************************************************)
ActiveRemainder(o) ==
    IF Active(o) /\ RecordedFillQty(o) < Terms[o].qty THEN Terms[o].qty - RecordedFillQty(o) ELSE 0

RestOnly(o) == ActiveRemainder(o)

PreReplayQty(o) == UnsettledFillQty(o) + ActiveRemainder(o)

OrdersOf(a, side) ==
    {o \in Orders : order[o].status # "NONE" /\ Terms[o].acct = a /\ Terms[o].side = side}

Reserves(a, rest) ==
    [hold |-> Total([o \in OrdersOf(a, "BUY") |-> order[o].unit * rest[o]]),
     holdQty |-> Total([o \in OrdersOf(a, "SELL") |-> rest[o]])]

Prestate ==
    [a \in Accounts |->
        LET r == Reserves(a, [o \in Orders |-> PreReplayQty(o)])
        IN  [account[a] EXCEPT !.hold = r.hold, !.holdQty = r.holdQty]]

\* Both checks of an account row, those of a holding included.
IsSound(row) == 0 <= row.hold /\ row.hold <= row.balance
                /\ 0 <= row.holdQty /\ row.holdQty <= row.shares

----------------------------------------------------------------------------
(***************************************************************************)
(* buildSettlementPlan: the trades one by one.  It is not the code of the  *)
(* consumer and has no fees.                                               *)
(***************************************************************************)
ReplayTrade(rows, t) ==
    LET cost == t.price * t.qty
        bought == [rows EXCEPT ![Terms[t.buy].acct].balance = @ - cost,
                               ![Terms[t.buy].acct].hold = @ - order[t.buy].unit * t.qty,
                               ![Terms[t.buy].acct].shares = @ + t.qty]
    IN  [bought EXCEPT ![Terms[t.sell].acct].balance = @ + cost,
                       ![Terms[t.sell].acct].shares = @ - t.qty,
                       ![Terms[t.sell].acct].holdQty = @ - t.qty]

Replay(trades) ==
    LET prestate == Prestate
    IN  FoldLeft(LAMBDA plan, i :
                    LET rows == ReplayTrade(plan.account, log[i])
                    IN  [account |-> rows,
                         sound |-> plan.sound /\ IsSound(rows[Terms[log[i].buy].acct])
                                              /\ IsSound(rows[Terms[log[i].sell].acct])],
                 [account |-> prestate, sound |-> \A a \in Accounts : IsSound(prestate[a])],
                 trades)

PlannedOrder(o) ==
    IF ~Active(o) THEN order[o]
    ELSE LET recorded == RecordedFillQty(o)
         IN  [order[o] EXCEPT !.filled = recorded,
                              !.status = IF recorded >= Terms[o].qty THEN "FILLED"
                                         ELSE IF recorded > 0 THEN "PARTIAL" ELSE "OPEN"]

----------------------------------------------------------------------------
(***************************************************************************)
(* buildRecoveryPlan                                                       *)
(***************************************************************************)
\* Trades from after the start of fees are left to the consumer.
FeeAwareReplayRequired == \E i \in UnsettledTrades : log[i].charged

RecoveryPlan(trades) ==
    LET replay == Replay(trades)
        after(a) == replay.account[a]
    IN  [account |-> replay.account,
         order |-> [o \in Orders |-> PlannedOrder(o)],
         safe |-> /\ \A o \in Orders : ValidOrder(o)
                  /\ replay.sound
                  /\ \A a \in Accounts :
                        [hold |-> after(a).hold, holdQty |-> after(a).holdQty]
                           = Reserves(a, [o \in Orders |-> ActiveRemainder(o)])
                  /\ ~FeeAwareReplayRequired]

----------------------------------------------------------------------------
(***************************************************************************)
(* Properties                                                              *)
(***************************************************************************)
Consumer(ord, acc) == INSTANCE Settlement WITH order <- ord, account <- acc

\* The tables after the consumer has settled the trades one by one.
Consumed(trades) ==
    FoldLeft(LAMBDA s, i :
                LET t == log[i]
                IN  [accepted |-> /\ s.accepted
                                  /\ Consumer(s.order, s.account)!AcceptsTrade(t.buy, t.qty)
                                  /\ Consumer(s.order, s.account)!AcceptsTrade(t.sell, t.qty),
                     order |-> [s.order EXCEPT
                        ![t.buy] = Consumer(s.order, s.account)!StateAfterTrade(t.buy, t.qty),
                        ![t.sell] = Consumer(s.order, s.account)!StateAfterTrade(t.sell, t.qty)],
                     account |-> [s.account EXCEPT
                        ![Terms[t.buy].acct] = Consumer(s.order, s.account)!BuyerAfterTrade(t),
                        ![Terms[t.sell].acct] = Consumer(s.order, s.account)!SellerAfterTrade(t)]],
             [accepted |-> TRUE, order |-> order, account |-> account],
             trades)

\* "Reconstructs only the state changes that the normal settlement consumer
\* would have made": whatever is unsettled, the script is ready to settle it
\* exactly if the consumer could settle all of it, and leaves the same tables.
RecoveryMatchesSettlement ==
    \A trades \in ReplayOrders :
        LET plan == RecoveryPlan(trades)
            tables == Consumed(trades)
        IN  /\ plan.safe <=> tables.accepted /\ ~FeeAwareReplayRequired
            /\ plan.safe => plan.order = tables.order /\ plan.account = tables.account
=============================================================================
