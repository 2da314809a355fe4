----------------------------- MODULE OrderBook -----------------------------
(***************************************************************************)
(* The in-memory book of the matching engine and its pure operations       *)
(* (apps/matching-engine/src/orderbook.ts, and the restart replay of       *)
(* engine.ts).                                                             *)
(*                                                                         *)
(* A book has two lists of resting orders, best price first and, at one    *)
(* price, earliest arrival first.  The arrival number "seq" of the code is *)
(* the position in the list here: orders are inserted behind their equals. *)
(***************************************************************************)
EXTENDS Integers, Sequences, FiniteSets, SequencesExt

Sides == {"BUY", "SELL"}

\* price: null of a MARKET order without a protective bound.
NoPrice == 0

EmptyBook(lastPrice) == [bids |-> <<>>, asks |-> <<>>, last |-> lastPrice]

\* The list an order of a side rests in, and the list it trades against.
ListOf(side) == IF side = "BUY" THEN "bids" ELSE "asks"
Opposite(side) == IF side = "BUY" THEN "asks" ELSE "bids"

\* p is a strictly better price than q for orders of this side.
Better(side, p, q) == IF side = "BUY" THEN p > q ELSE p < q

BookOrders(book) == ToSet(book.bids) \cup ToSet(book.asks)
BookContainsOrder(book, id) == \E r \in BookOrders(book) : r.id = id

(***************************************************************************)
(* Insertion: behind every order that is better or equal in price.         *)
(***************************************************************************)
InsertBeforeEquals(book, o) ==
    LET list == book[ListOf(o.side)]
        at   == SelectInSeq(list, LAMBDA r : ~Better(o.side, r.price, o.price))
    IN  [book EXCEPT ![ListOf(o.side)] =
            IF at = 0 THEN Append(list, o) ELSE InsertAt(list, at, o)]

InsertResting(book, o) ==
    LET list == book[ListOf(o.side)]
        at   == SelectInSeq(list, LAMBDA r : Better(o.side, o.price, r.price))
    IN  [book EXCEPT ![ListOf(o.side)] =
            IF at = 0 THEN Append(list, o) ELSE InsertAt(list, at, o)]

(***************************************************************************)
(* Matching.  The loop of applyOrder visits the opposite list from its     *)
(* best order: a fold over that list whose state is what is left of the    *)
(* incoming order, the makers kept, the fills and closes, and how the loop *)
(* ended ("run" while it has not).                                         *)
(***************************************************************************)
\* (A faulty definition that stands just before a right one is an error the
\* properties are seen to catch; no module uses it.)
CrossesStrictly(inc, makerPrice) ==
    \/ inc.type = "MARKET" /\ inc.price = NoPrice
    \/ inc.side = "BUY"  /\ makerPrice < inc.price
    \/ inc.side = "SELL" /\ makerPrice > inc.price

Crosses(inc, makerPrice) ==
    \/ inc.type = "MARKET" /\ inc.price = NoPrice
    \/ inc.side = "BUY"  /\ makerPrice <= inc.price
    \/ inc.side = "SELL" /\ makerPrice >= inc.price

ClosedFilled(o)      == [id |-> o.id, filled |-> o.total, status |-> "FILLED"]
ClosedCanceled(id, n) == [id |-> id, filled |-> n, status |-> "CANCELED"]

\* One fill at the maker's price; a maker with nothing left leaves the book.
FillMaker(inc, st, maker) ==
    LET qty == Min({st.left, maker.qty})
    IN  [st EXCEPT
            !.left   = @ - qty,
            !.fills  = Append(@, [price |-> maker.price, qty |-> qty,
                                  maker |-> maker.id, taker |-> inc.id]),
            !.last   = maker.price,
            !.keep   = IF qty = maker.qty THEN @
                       ELSE Append(@, [maker EXCEPT !.qty = @ - qty]),
            !.closed = IF qty = maker.qty THEN Append(@, ClosedFilled(maker))
                       ELSE @]

KeepMaker(st, maker, end) == [st EXCEPT !.keep = Append(@, maker), !.end = end]

\* The loop body; the faulty one trades an account with itself.
MatchMakerSelfTrade(inc, st, maker) ==
    IF st.end # "run" \/ st.left = 0 \/ ~Crosses(inc, maker.price)
    THEN KeepMaker(st, maker, IF st.end = "run" THEN "done" ELSE st.end)
    ELSE FillMaker(inc, st, maker)

MatchMaker(inc, st, maker) ==
    IF st.end # "run" \/ st.left = 0 \/ ~Crosses(inc, maker.price)
    THEN KeepMaker(st, maker, IF st.end = "run" THEN "done" ELSE st.end)
    ELSE IF maker.acct = inc.acct THEN KeepMaker(st, maker, "self")
    ELSE FillMaker(inc, st, maker)

MatchLoop(book, inc) ==
    FoldLeft(LAMBDA st, maker : MatchMaker(inc, st, maker),
             [left |-> inc.qty, keep |-> <<>>, fills |-> <<>>, closed |-> <<>>,
              last |-> book.last, end |-> "run"],
             book[Opposite(inc.side)])

\* applyOrder: match, then close the taker or let its LIMIT remainder rest.
ApplyOrder(book, inc) ==
    LET st      == MatchLoop(book, inc)
        matched == [book EXCEPT ![Opposite(inc.side)] = st.keep, !.last = st.last]
        ioc     == st.left > 0 /\ (st.end = "self" \/ inc.type = "MARKET")
        rests   == st.left > 0 /\ ~ioc
        taker   == [id |-> inc.id, acct |-> inc.acct, side |-> inc.side,
                    price |-> inc.price, qty |-> st.left, total |-> inc.qty]
    IN  [book     |-> IF rests THEN InsertResting(matched, taker) ELSE matched,
         fills    |-> st.fills,
         resting  |-> IF rests THEN st.left ELSE 0,
         canceled |-> IF ioc THEN st.left ELSE 0,
         closed   |-> IF rests THEN st.closed
                      ELSE Append(st.closed,
                                  IF st.left = 0 THEN ClosedFilled(taker)
                                  ELSE ClosedCanceled(inc.id, inc.qty - st.left))]

(***************************************************************************)
(* cancelOrder: take an order out of the book, wherever it rests.          *)
(***************************************************************************)
ListWithout(list, ids) ==
    FoldLeft(LAMBDA kept, r : IF r.id \in ids THEN kept ELSE Append(kept, r), <<>>, list)

WithoutOrders(book, ids) ==
    [book EXCEPT !.bids = ListWithout(@, ids), !.asks = ListWithout(@, ids)]

CancelOrder(book, id) == WithoutOrders(book, {id})

(***************************************************************************)
(* Restart: a row still open in the database is put back in the book       *)
(* without matching, with what no recorded trade has taken from it.  A row *)
(* that would cross the rows already restored is quarantined: it stays out *)
(* of the book, and nothing else about it changes.                         *)
(***************************************************************************)
RemainingSettled(total, persistedFilled, recordedTrades) ==
    Max({0, total - persistedFilled})

RemainingRestingQty(total, persistedFilled, recordedTrades) ==
    Max({0, total - Max({persistedFilled, recordedTrades})})

CrossesRestoredBook(book, side, price) ==
    IF side = "BUY" THEN \E a \in ToSet(book.asks) : price >= a.price
                    ELSE \E b \in ToSet(book.bids) : price <= b.price

RestoreRowFullQty(book, row) ==
    IF row.qty = 0 \/ CrossesRestoredBook(book, row.side, row.price) THEN book
    ELSE InsertResting(book, [row EXCEPT !.qty = row.total])

RestoreRow(book, row) ==
    IF row.qty = 0 \/ CrossesRestoredBook(book, row.side, row.price) THEN book
    ELSE InsertResting(book, row)

\* rows in replay order: creation time, then id
RestoreBook(lastPrice, rows) == FoldLeft(RestoreRow, EmptyBook(lastPrice), rows)

(***************************************************************************)
(* levels: the snapshot sent to clients, at most depth prices a side.      *)
(***************************************************************************)
LevelsPerOrder(list, depth) ==
    SubSeq([i \in DOMAIN list |-> [price |-> list[i].price, qty |-> list[i].qty]],
           1, Min({depth, Len(list)}))

Levels(list, depth) ==
    FoldLeft(LAMBDA out, o :
                 IF out # <<>> /\ Last(out).price = o.price
                 THEN [out EXCEPT ![Len(out)].qty = @ + o.qty]
                 ELSE IF Len(out) = depth THEN out
                 ELSE Append(out, [price |-> o.price, qty |-> o.qty]),
             <<>>, list)
=============================================================================
