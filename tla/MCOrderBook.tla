---------------------------- MODULE MCOrderBook ----------------------------
(***************************************************************************)
(* A book driven by every short sequence of orders and cancels, compared   *)
(* with definitions of price-time priority that are not written as a loop. *)
(***************************************************************************)
EXTENDS OrderBook, Sums, TLC

CONSTANTS
    Accts,      \* owners of orders
    Prices,     \* limit prices
    MaxQty,     \* largest order
    MaxOrders,  \* orders in one behaviour
    Depth,      \* levels in a snapshot
    OpenPrice   \* last price of the day before

ASSUME MCBounds == /\ Prices \subseteq Nat \ {NoPrice}
                   /\ MaxQty \in Nat \ {0} /\ Depth \in Nat \ {0}

VARIABLES
    book,    \* the engine's book
    placed,  \* orders applied so far, in arrival order
    before,  \* the book before the last order
    result   \* what applyOrder returned for it

vars == <<book, placed, before, result>>

\* Accounts are only compared with each other.
Symmetry == Permutations(Accts)

Idle == [fills |-> <<>>, closed |-> <<>>, resting |-> 0, canceled |-> 0]

Incoming(id) ==
    {inc \in [id : {id}, acct : Accts, side : Sides, type : {"LIMIT", "MARKET"},
              price : Prices \cup {NoPrice}, qty : 1..MaxQty] :
        \* a LIMIT has a price; a MARKET buy is sent with its price cap
        inc.price = NoPrice => inc.type = "MARKET" /\ inc.side = "SELL"}

Init == /\ book = EmptyBook(OpenPrice)
        /\ placed = <<>>
        /\ before = EmptyBook(OpenPrice)
        /\ result = Idle

Place ==
    /\ Len(placed) < MaxOrders
    /\ \E inc \in Incoming(Len(placed) + 1) :
        LET r == ApplyOrder(book, inc)
        IN  /\ book' = r.book
            /\ placed' = Append(placed, inc)
            /\ before' = book
            /\ result' = [fills |-> r.fills, closed |-> r.closed,
                          resting |-> r.resting, canceled |-> r.canceled]

Cancel ==
    \E r \in BookOrders(book) :
        /\ book' = CancelOrder(book, r.id)
        /\ before' = book'
        /\ result' = Idle
        /\ UNCHANGED placed

Next == Place \/ Cancel

Spec == Init /\ [][Next]_vars

----------------------------------------------------------------------------
(***************************************************************************)
(* Reference definitions                                                   *)
(***************************************************************************)
\* Arrival numbers are the order ids, so price-time priority is this order.
Ahead(r, s) == Better(r.side, r.price, s.price) \/ (r.price = s.price /\ r.id < s.id)

SumQty(S) == Total([r \in S |-> r.qty])

\* Makers the incoming order may reach: crossing, and not behind one of its own.
Reachable(inc) ==
    LET M == {m \in ToSet(before[Opposite(inc.side)]) : Crosses(inc, m.price)}
    IN  {m \in M : \A o \in M : o.acct = inc.acct => o # m /\ Ahead(m, o)}

\* What price-time priority gives each maker: the demand left by those ahead.
Share(inc, m) ==
    LET ahead == {o \in Reachable(inc) : Ahead(o, m)}
    IN  Min({m.qty, Max({0, inc.qty - SumQty(ahead)})})

----------------------------------------------------------------------------
(***************************************************************************)
(* Properties                                                              *)
(***************************************************************************)
\* Both lists keep price-time priority, whatever was filled, inserted or
\* canceled before: insertResting and the in-place edits of applyOrder.
PriceTimeSorted ==
    \A side \in {"bids", "asks"} :
        \A i, j \in DOMAIN book[side] : i < j => Ahead(book[side][i], book[side][j])

\* No two resting orders could trade with each other: an order that crosses
\* trades, or is canceled when the crossing order is its owner's.
NeverCrossed ==
    \A b \in ToSet(book.bids), a \in ToSet(book.asks) : b.price < a.price

\* The fills of the last order are the shares of price-time priority, each
\* at its maker's price; the rest of the order rests, or is canceled.
MatchIsPriceTime ==
    result # Idle =>
        LET inc   == Last(placed)
            owed  == {[price |-> m.price, qty |-> Share(inc, m), maker |-> m.id,
                       taker |-> inc.id] : m \in {x \in Reachable(inc) : Share(inc, x) > 0}}
            taken == SumQty(ToSet(result.fills))
        IN  /\ ToSet(result.fills) = owed
            /\ Len(result.fills) = Cardinality(owed)
            /\ result.resting + result.canceled + taken = inc.qty
            /\ result.resting > 0 =>
                  inc.type = "LIMIT"
                  /\ \A m \in Reachable(inc) : Share(inc, m) = m.qty
            \* closes: makers that are used up, then the taker unless it rests
            /\ {c.id : c \in ToSet(result.closed)} =
                  {m.id : m \in {x \in Reachable(inc) : Share(inc, x) = x.qty}}
                  \cup (IF result.resting = 0 THEN {inc.id} ELSE {})
            /\ \A c \in ToSet(result.closed) :
                  c.status = "FILLED" <=> c.filled = placed[c.id].qty

\* A restart that replays the open rows in creation order rebuilds the very
\* same book: bootstrap's replay, for a book whose orders all arrived in
\* creation order.
RestartRebuildsBook ==
    LET open == {i \in DOMAIN placed : BookContainsOrder(book, i)}
        row(i) == CHOOSE r \in BookOrders(book) : r.id = i
    IN  \A k \in [1..Cardinality(open) -> open] :
            (\A i, j \in DOMAIN k : i < j => k[i] < k[j])
            => RestoreBook(book.last, [i \in DOMAIN k |-> row(k[i])]) = book

\* Each level of the snapshot holds everything resting at its price, and the
\* levels are the best prices of the side.
SnapshotShowsBestLevels ==
    \A side \in {"bids", "asks"} :
        LET L      == Levels(book[side], Depth)
            prices == {r.price : r \in ToSet(book[side])}
        IN  /\ Len(L) = Min({Depth, Cardinality(prices)})
            /\ \A k \in DOMAIN L :
                  /\ L[k].qty = SumQty({r \in ToSet(book[side]) : r.price = L[k].price})
                  /\ L[k].price \in prices
            /\ \A p \in prices \ {L[k].price : k \in DOMAIN L} :
                  \A k \in DOMAIN L :
                      Better(IF side = "bids" THEN "BUY" ELSE "SELL", L[k].price, p)
=============================================================================
