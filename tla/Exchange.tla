------------------------------ MODULE Exchange ------------------------------
(***************************************************************************)
(* The spot pipeline for one symbol, from the REST call to the account:    *)
(*                                                                         *)
(*   order service --outbox--> stream "orders" --> matching engine         *)
(*        matching engine --outbox--> stream "trades" --> settlement       *)
(*                                                                         *)
(* One PostgreSQL database is shared by the three programs, each of which  *)
(* works in transactions of its own; a transaction is one step here.  A    *)
(* stream delivers its entries in order to one consumer group; an entry    *)
(* stays in the pending list (PEL) until it is acknowledged, and is        *)
(* delivered again from there.  The leading matching engine is the one     *)
(* that holds the Redis lease; its book lives in memory only.              *)
(*                                                                         *)
(* The tables of orders and accounts, the order service and settlement are *)
(* those of Settlement; fees are in force throughout.  Not here: the cost  *)
(* basis and the ledger entries of a trade, candles and Pub/Sub.           *)
(***************************************************************************)
EXTENDS OrderBook, Settlement

CONSTANTS
    OpenPrice,   \* lastPrice before the first trade
    Engines,     \* matching-engine processes
    NoEngine,    \* the lease is free
    NoStage,     \* an engine has no event in flight
    MaxCancels,  \* bound: cancel requests in a behaviour
    FaultKinds,  \* the kinds of fault that may occur
    MaxFaults    \* bound: faults in a behaviour

AllFaults == {"late_commit", "duplicate", "retain", "crash", "ambiguous", "zombie"}

ASSUME ExchangeAssumption ==
    \* place() sends the price cap of a MARKET buy, and no price for a MARKET sell
    /\ \A o \in Orders : Terms[o].price = NoPrice <=>
                            Terms[o].type = "MARKET" /\ Terms[o].side = "SELL"
    /\ NoEngine \notin Engines
    /\ FaultKinds \subseteq AllFaults
    /\ MaxFaults \in Nat /\ MaxCancels \in Nat

\* The log of Settlement is outbox_events of schema matching, by id.  Its trade
\* rows are the table trades, its close rows the closed_order_markers.
VARIABLES
    \* the database, schema order
    created,      \* the orders by created_at
    cancels,      \* cancel requests accepted, per order
    outbox,       \* unpublished rows of order.outbox, by created_at
    \* the database, schema matching
    claimed,      \* processed_order_events
    relayed,      \* rows of log marked published (they are marked in id order)
    \* Redis
    orderStream, orderPel,   \* stream:orders, not yet delivered / pending
    tradeStream, tradePel,   \* stream:trades, likewise, as positions in log
    lease,                   \* the process that holds the leader lease
    \* the matching-engine processes
    engine,       \* [Engines -> [mode, book, seen, stage]]
    faults,
    torn          \* history: the ledger may have moved behind the book's back

dbVars == <<charging, order, account, created, cancels, outbox>>
matchVars == <<claimed, log>>
orderBus == <<orderStream, orderPel>>
tradeBus == <<relayed, tradeStream, tradePel>>
vars == <<dbVars, matchVars, processed, orderBus, tradeBus, lease, engine, faults, torn>>

Fault(kind) ==
    /\ kind \in FaultKinds /\ faults < MaxFaults
    /\ faults' = faults + 1
    /\ torn' = (torn \/ kind \in {"ambiguous", "zombie"})
NoFault == UNCHANGED <<faults, torn>>

----------------------------------------------------------------------------
(***************************************************************************)
(* Reading the database                                                    *)
(***************************************************************************)
Trades(o) == {i \in DOMAIN log : IsTrade(i) /\ o \in {log[i].buy, log[i].sell}}
RecordedQty(o) == Total([i \in Trades(o) |-> log[i].qty])

\* closed_order_markers is written in the transaction of the close row
Marked(o) == \E i \in DOMAIN log : ~IsTrade(i) /\ log[i].order = o

LastPrice ==
    LET i == SelectLastInSeq(log, LAMBDA r : r.topic = "trade.executed")
    IN  IF i = 0 THEN OpenPrice ELSE log[i].price

Placed(o) == [topic |-> "order.placed", order |-> o, n |-> 0]
CancelRequested(o, n) == [topic |-> "order.cancel.requested", order |-> o, n |-> n]

----------------------------------------------------------------------------
Init ==
    /\ LedgerInit /\ charging
    /\ created = <<>> /\ outbox = <<>>
    /\ cancels = [o \in Orders |-> 0]
    /\ claimed = {}
    /\ orderStream = <<>> /\ orderPel = <<>>
    /\ relayed = 0 /\ tradeStream = <<>> /\ tradePel = <<>>
    /\ lease = NoEngine
    /\ engine = [e \in Engines |-> [mode |-> "standby", book |-> EmptyBook(OpenPrice),
                                    seen |-> {}, stage |-> NoStage]]
    /\ faults = 0 /\ torn = FALSE

----------------------------------------------------------------------------
(***************************************************************************)
(* The order service                                                       *)
(***************************************************************************)
\* created_at is set before the transaction commits: an order of another account
\* that commits later may sort before the one that committed last.
InsertLate(o) ==
    LET p  == Last(created)
        at == SelectInSeq(outbox, LAMBDA ev : ev = Placed(p))
    IN  /\ Terms[p].acct # Terms[o].acct
        /\ created' = InsertAt(created, Len(created), o)
        /\ outbox' = InsertAt(outbox, IF at = 0 THEN 1 ELSE at, Placed(o))

\* place: reserve and order row, and in the same transaction the outbox row.
Place(o) ==
    /\ PlaceOrder(o)
    /\ \/ /\ created' = Append(created, o)
          /\ outbox' = Append(outbox, Placed(o))
          /\ NoFault
       \/ created # <<>> /\ InsertLate(o) /\ Fault("late_commit")
    /\ UNCHANGED <<cancels, claimed, orderBus, tradeBus, lease, engine>>

\* cancel: only an outbox row; the order ends when its close is settled.  A
\* request is accepted again when the 30 s de-duplication key has expired.
RequestCancel(o) ==
    /\ Active(o)
    /\ Total(cancels) < MaxCancels
    /\ cancels' = [cancels EXCEPT ![o] = @ + 1]
    /\ outbox' = Append(outbox, CancelRequested(o, cancels'[o]))
    /\ NoFault
    /\ UNCHANGED <<charging, order, account, created, matchVars, processed, orderBus, tradeBus,
                   lease, engine>>

\* OutboxRelayer.flush, one row: XADD, then mark it published.  When marking
\* fails the row is published again by a later pass.
RelayOrder ==
    /\ outbox # <<>>
    /\ orderStream' = Append(orderStream, Head(outbox))
    /\ \/ outbox' = Tail(outbox) /\ NoFault
       \/ outbox' = outbox /\ Fault("duplicate")
    /\ UNCHANGED <<charging, order, account, created, cancels, matchVars, processed, orderPel,
                   tradeBus, lease, engine>>

----------------------------------------------------------------------------
(***************************************************************************)
(* The matching engine                                                     *)
(***************************************************************************)
\* bootstrap: the open LIMIT rows without a close marker, by creation.
Restorable(o) == Active(o) /\ Terms[o].type = "LIMIT" /\ ~Marked(o)

RestorableRow(o) ==
    [id |-> o, acct |-> Terms[o].acct, side |-> Terms[o].side, price |-> Terms[o].price,
     total |-> Terms[o].qty,
     qty |-> RemainingRestingQty(Terms[o].qty, order[o].filled, RecordedQty(o))]

RestorableRows ==
    FoldLeft(LAMBDA rows, o : IF Restorable(o) THEN Append(rows, RestorableRow(o)) ELSE rows,
             <<>>, created)

Lead(e) ==
    /\ lease = NoEngine
    /\ engine[e].mode = "standby"
    /\ lease' = e
    /\ engine' = [engine EXCEPT ![e] =
                    [mode |-> "leading", book |-> RestoreBook(LastPrice, RestorableRows),
                     seen |-> {}, stage |-> NoStage]]
    /\ NoFault
    /\ UNCHANGED <<dbVars, matchVars, processed, orderBus, tradeBus>>

\* pruneDurablyClosedOrders
Prune(book) == WithoutOrders(book, {o \in Orders : Marked(o)})

\* The data the recovery of a pending event is judged by.
AlreadyApplied(book, ev) ==
    \/ Marked(ev.order)
    \/ ev.topic = "order.cancel.requested" /\ ~Active(ev.order)
    \/ /\ ev.topic = "order.placed"
       /\ \/ BookContainsOrder(book, ev.order)
          \/ order[ev.order].status # "OPEN"
          \/ Trades(ev.order) # {}

\* An event is dropped, acknowledged and remembered without a transaction of
\* its own.  (An order restored by bootstrap before its first delivery has that
\* delivery claimed.)
Skips(e, book, ev, recovery) ==
    \/ ev \in engine[e].seen
    \/ ev.topic = "order.placed" /\ BookContainsOrder(book, ev.order)
    \/ Marked(ev.order)
    \/ recovery /\ AlreadyApplied(book, ev)

ClaimsOnSkip(e, book, ev) ==
    /\ ev \notin engine[e].seen
    /\ ev.topic = "order.placed" /\ BookContainsOrder(book, ev.order)

\* The rows of a match: its trades, then its closes.
CloseRow(c) == [topic |-> "order.closed", order |-> c.id, filled |-> c.filled,
                status |-> c.status]

TradeRowTakerBuys(f) ==
    [topic |-> "trade.executed", price |-> f.price, qty |-> f.qty,
     buy |-> f.taker, sell |-> f.maker, charged |-> charging]

TradeRow(f) ==
    LET buys == Terms[f.taker].side = "BUY"
    IN  [topic |-> "trade.executed", price |-> f.price, qty |-> f.qty,
         buy |-> IF buys THEN f.taker ELSE f.maker,
         sell |-> IF buys THEN f.maker ELSE f.taker, charged |-> charging]

SettlementRowsClosesFirst(result) ==
    [i \in DOMAIN result.closed |-> CloseRow(result.closed[i])]
    \o [i \in DOMAIN result.fills |-> TradeRow(result.fills[i])]

SettlementRows(result) ==
    [i \in DOMAIN result.fills |-> TradeRow(result.fills[i])]
    \o [i \in DOMAIN result.closed |-> CloseRow(result.closed[i])]

StagePlaced(book, ev) ==
    LET t == Terms[ev.order]
        r == ApplyOrder(book, [id |-> ev.order, acct |-> t.acct, side |-> t.side,
                               type |-> t.type, price |-> t.price, qty |-> t.qty])
    IN  [ev |-> ev, book |-> r.book, rows |-> SettlementRows(r)]

\* closeMissingBookOrder: an active order that is not in the book is closed only
\* when its settled quantity is what was matched; a mismatch yields no close.
CloseMissingNever(o) == <<>>

CloseMissing(o) ==
    IF Active(o) /\ RecordedQty(o) = order[o].filled
    THEN <<[topic |-> "order.closed", order |-> o, filled |-> order[o].filled,
            status |-> IF order[o].filled = Terms[o].qty THEN "FILLED" ELSE "CANCELED"]>>
    ELSE <<>>

StageCancel(book, ev) ==
    LET resting == {r \in BookOrders(book) : r.id = ev.order}
    IN  [ev |-> ev, book |-> CancelOrder(book, ev.order),
         rows |-> IF resting = {} THEN CloseMissing(ev.order)
                  ELSE LET r == CHOOSE r \in resting : TRUE
                       IN  <<CloseRow(ClosedCanceled(r.id, r.total - r.qty))>>]

Stage(book, ev) ==
    IF ev.topic = "order.placed" THEN StagePlaced(book, ev) ELSE StageCancel(book, ev)

\* handleEvent up to its transaction: prune the book, drop the event or compute
\* its outcome on a copy of the book.  pelWith is the PEL with the event in it.
Handle(e, ev, recovery, pelWith) ==
    LET book == Prune(engine[e].book) IN
    /\ engine[e].mode = "leading" /\ engine[e].stage = NoStage
    /\ IF Skips(e, book, ev, recovery)
       THEN /\ engine' = [engine EXCEPT ![e].book = book, ![e].seen = @ \cup {ev}]
            /\ claimed' = IF ClaimsOnSkip(e, book, ev) THEN claimed \cup {ev} ELSE claimed
            /\ orderPel' = RemoveFirst(pelWith, ev)
       ELSE /\ engine' = [engine EXCEPT ![e].book = book, ![e].stage = Stage(book, ev)]
            /\ orderPel' = pelWith
            /\ UNCHANGED claimed

\* Trades are only looked for when an entry is recovered.  An order that an earlier
\* leader restored and traded, and that bootstrap has now left out, is matched
\* with its full quantity by its own first delivery.
Rematched(e, ev) ==
    /\ engine'[e].stage # NoStage
    /\ ev.topic = "order.placed" /\ ev \notin claimed /\ Trades(ev.order) # {}

\* processMessages on entries read for the first time
HandleNew(e) ==
    /\ orderStream # <<>>
    /\ Handle(e, Head(orderStream), FALSE, Append(orderPel, Head(orderStream)))
    /\ orderStream' = Tail(orderStream)
    /\ torn' = (torn \/ Rematched(e, Head(orderStream)))
    /\ UNCHANGED faults
    /\ UNCHANGED <<dbVars, log, processed, tradeBus, lease>>

\* processMessages on pending entries claimed back by XAUTOCLAIM
HandlePending(e) ==
    /\ \E i \in DOMAIN orderPel : Handle(e, orderPel[i], TRUE, orderPel)
    /\ NoFault
    /\ UNCHANGED <<dbVars, log, processed, orderStream, tradeBus, lease>>

\* persistPlacedEvent, persistCancelEvent: the claim, the trades, the markers
\* and the outbox rows in one transaction; a claimed event has no effect.
Persist(stage) ==
    /\ claimed' = claimed \cup {stage.ev}
    /\ log' = IF stage.ev \in claimed THEN log ELSE log \o stage.rows

\* What the process keeps after its transaction.
AfterPersist(e) ==
    LET st == engine[e].stage IN
    [engine EXCEPT ![e].stage = NoStage, ![e].seen = @ \cup {st.ev},
                   ![e].book = IF st.ev \in claimed THEN @ ELSE st.book]

\* The transaction commits, the book is replaced, the entry is acknowledged; the
\* acknowledgement may fail and leave the entry pending.
Commit(e) ==
    /\ engine[e].mode = "leading" /\ engine[e].stage # NoStage
    /\ Persist(engine[e].stage)
    /\ engine' = AfterPersist(e)
    /\ \/ orderPel' = RemoveFirst(orderPel, engine[e].stage.ev) /\ NoFault
       \/ UNCHANGED orderPel /\ Fault("retain")
    /\ UNCHANGED <<dbVars, processed, orderStream, tradeBus, lease>>

CommitFailsAcknowledged(e) ==
    /\ engine[e].mode = "leading" /\ engine[e].stage # NoStage
    /\ engine' = [engine EXCEPT ![e].stage = NoStage]
    /\ orderPel' = RemoveFirst(orderPel, engine[e].stage.ev)
    /\ Fault("retain")
    /\ UNCHANGED <<dbVars, matchVars, processed, orderStream, tradeBus, lease>>

\* The transaction fails: the book is kept, the entry stays pending, and the
\* engine goes on with the next one.
CommitFails(e) ==
    /\ engine[e].mode = "leading" /\ engine[e].stage # NoStage
    /\ engine' = [engine EXCEPT ![e].stage = NoStage]
    /\ Fault("retain")
    /\ UNCHANGED <<dbVars, matchVars, processed, orderBus, tradeBus, lease>>

\* The transaction commits but its result is lost on the way back: the process
\* takes it for a failure and keeps the old book.
CommitUnknown(e) ==
    /\ engine[e].mode = "leading" /\ engine[e].stage # NoStage
    /\ Persist(engine[e].stage)
    /\ engine' = [engine EXCEPT ![e].stage = NoStage]
    /\ Fault("ambiguous")
    /\ UNCHANGED <<dbVars, processed, orderBus, tradeBus, lease>>

Standby(e) == [engine EXCEPT ![e] = [mode |-> "standby", book |-> EmptyBook(OpenPrice),
                                     seen |-> {}, stage |-> NoStage]]

\* The leading process dies, or loses its lease with no event in flight: its book
\* is gone, and a batch it had read but not handled is pending.
Crash(e) ==
    /\ engine[e].mode = "leading"
    /\ engine' = Standby(e)
    /\ lease' = NoEngine
    /\ \E n \in 0..Len(orderStream) :
          /\ orderPel' = orderPel \o SubSeq(orderStream, 1, n)
          /\ orderStream' = SubSeq(orderStream, n + 1, Len(orderStream))
    /\ Fault("crash")
    /\ UNCHANGED <<dbVars, matchVars, processed, tradeBus>>

\* The lease runs out while an event is in flight.  Nothing in the transaction
\* looks at the lease, so it may still commit; the entry is not acknowledged.
LoseLease(e) ==
    /\ engine[e].mode = "leading" /\ engine[e].stage # NoStage
    /\ engine' = [engine EXCEPT ![e].mode = "zombie"]
    /\ lease' = NoEngine
    /\ Fault("zombie")
    /\ UNCHANGED <<dbVars, matchVars, processed, orderBus, tradeBus>>

ZombieCommit(e) ==
    /\ engine[e].mode = "zombie"
    /\ Persist(engine[e].stage)
    /\ engine' = Standby(e)
    /\ NoFault
    /\ UNCHANGED <<dbVars, processed, orderBus, tradeBus, lease>>

\* flushSettlementOutbox, one row: XADD, then mark it published, in id order.  A
\* flush that overlaps another one, or whose marking fails, publishes a row twice.
RelayTrade ==
    /\ \E e \in Engines : engine[e].mode = "leading"
    /\ \/ /\ relayed < Len(log)
          /\ tradeStream' = Append(tradeStream, relayed + 1)
          /\ relayed' = relayed + 1 /\ NoFault
       \/ /\ \E i \in DOMAIN log :
                i <= relayed + 1 /\ tradeStream' = Append(tradeStream, i)
          /\ UNCHANGED relayed /\ Fault("duplicate")
    /\ UNCHANGED <<dbVars, matchVars, processed, orderBus, tradePel, lease, engine>>

----------------------------------------------------------------------------
(***************************************************************************)
(* Settlement                                                              *)
(***************************************************************************)
\* An entry read for the first time is settled and acknowledged, or left
\* pending: refused, failed, or settled with the acknowledgement lost.
SettleNew ==
    /\ tradeStream # <<>>
    /\ tradeStream' = Tail(tradeStream)
    /\ LET i == Head(tradeStream) IN
       \/ Settle(i) /\ UNCHANGED tradePel /\ NoFault
       \/ /\ ~CanSettle(i)
          /\ tradePel' = Append(tradePel, i)
          /\ NoFault /\ UNCHANGED ledgerVars
       \/ /\ tradePel' = Append(tradePel, i)
          /\ Fault("retain") /\ UNCHANGED ledgerVars
       \/ Settle(i) /\ tradePel' = Append(tradePel, i) /\ Fault("retain")
    /\ UNCHANGED <<created, cancels, outbox, claimed, orderBus, relayed, lease, engine>>

\* A pending entry is claimed back and settled.
SettlePending ==
    /\ \E k \in DOMAIN tradePel :
          Settle(tradePel[k]) /\ tradePel' = RemoveAt(tradePel, k)
    /\ NoFault
    /\ UNCHANGED <<created, cancels, outbox, claimed, orderBus, relayed, tradeStream,
                   lease, engine>>

----------------------------------------------------------------------------
EngineStep(e) == HandleNew(e) \/ HandlePending(e) \/ Commit(e)

EngineFault(e) == CommitFails(e) \/ CommitUnknown(e) \/ Crash(e) \/ LoseLease(e)

Next ==
    \/ \E o \in Orders : Place(o) \/ RequestCancel(o)
    \/ RelayOrder
    \/ \E e \in Engines : Lead(e) \/ EngineStep(e) \/ EngineFault(e) \/ ZombieCommit(e)
    \/ RelayTrade
    \/ SettleNew
    \/ SettlePending

Spec == Init /\ [][Next]_vars

(***************************************************************************)
(* Fairness: the pipeline does not stop while one of its programs has a    *)
(* step to take.  The relays and the standby loop are driven by timers, and *)
(* the read loops of both consumers always come back to their pending      *)
(* entries.  Nothing obliges a client to place or to cancel, and no fault  *)
(* has to happen.                                                          *)
(***************************************************************************)
PipelineStep ==
    \/ RelayOrder \/ RelayTrade
    \/ \E e \in Engines : Lead(e) \/ EngineStep(e)
    \/ SettleNew \/ SettlePending

Fairness == WF_vars(PipelineStep)

FairSpec == Spec /\ Fairness

----------------------------------------------------------------------------
(***************************************************************************)
(* Properties                                                              *)
(***************************************************************************)
\* The close of an order is decided once and last: it counts exactly the trades
\* recorded for the order, and none is recorded after it, however many cancels,
\* fills and restarts raced for the order (the marker, and trades before closes).
\* A transaction that commits behind the leader's back, or an order matched anew
\* (Rematched), may break this and the next two; the tables still follow their
\* rules (ImplementsLedger).
CloseIsLastWord ==
    torn \/ \A i \in DOMAIN log :
        ~IsTrade(i) =>
            LET o == log[i].order IN
            /\ log[i].filled = RecordedQty(o)
            /\ \A j \in Trades(o) : j < i
            /\ \A j \in DOMAIN log : ~IsTrade(j) /\ log[j].order = o => j = i

\* The matching ledger never gives an order more than its quantity.
NoRecordedOverfill == \A o \in Orders : RecordedQty(o) <= Terms[o].qty

\* A recorded trade can always be settled, whatever was settled, retained or
\* closed before it: the assertions of stateAfterTrade never fire.
RecordedTradesSettle ==
    torn \/ \A i \in DOMAIN log \ processed :
        IsTrade(i) => /\ AcceptsTrade(log[i].buy, log[i].qty)
                      /\ AcceptsTrade(log[i].sell, log[i].qty)

\* The leader's memory agrees with the ledger: a resting order that is not closed
\* has exactly the quantity no recorded trade has taken, no two resting orders
\* could trade, and the last price is that of the last trade.  A restart reads
\* the orders table, the trades and the markers at different stages of delivery.
BookAgreesWithLedger ==
    torn \/ \A e \in Engines :
        engine[e].mode = "leading" =>
            LET book == engine[e].book IN
            /\ book.last = LastPrice
            /\ \A r \in BookOrders(book) :
                  ~Marked(r.id) => /\ Active(r.id)
                                   /\ r.qty = Terms[r.id].qty - RecordedQty(r.id)
            /\ \A b \in ToSet(book.bids), s \in ToSet(book.asks) : b.price < s.price

\* With every order event delivered and handled, no two live limit orders that
\* rest with the exchange could trade with each other: a row that crosses the
\* restored book has been executed in the past.
NoCrossedOrdersLeft ==
    (/\ outbox = <<>> /\ orderStream = <<>> /\ orderPel = <<>>
     /\ \E e \in Engines : engine[e].mode = "leading" /\ engine[e].stage = NoStage)
    => LET open == {o \in Orders : Active(o) /\ Terms[o].type = "LIMIT" /\ ~Marked(o)}
       IN  \A b, s \in open :
              /\ Terms[b].side = "BUY" /\ Terms[s].side = "SELL"
              /\ Terms[b].acct # Terms[s].acct
              => Terms[b].price < Terms[s].price

\* The pipeline does to the tables only what Settlement says of them: the engine
\* and the streams, whatever fails, record no trade but of placed orders at a
\* price both accept, rewrite no row and settle none that is not recorded.
ImplementsLedger == LedgerSpec

\* Every recorded trade and close is settled in the end, in whatever order the
\* redeliveries bring them: a close that waits for its trades is tried again.
LedgerSettles == []<>(DOMAIN log \subseteq processed)

\* An accepted cancel request ends its order, while every live order is in the
\* book.  (Of an order that a restart left out, and whose trades are not settled
\* yet, the request has no effect: see CloseMissing.)
CancelEnds == []<>(\A o \in Orders : cancels[o] > 0 => Terminal(o))

\* A MARKET order never stays open.
MarketOrderEnds ==
    []<>(\A o \in Orders : Terms[o].type = "MARKET" => order[o].status = "NONE" \/ Terminal(o))
=============================================================================
