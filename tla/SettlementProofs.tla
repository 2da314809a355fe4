-------------------------- MODULE SettlementProofs --------------------------
(***************************************************************************)
(* Proofs about the tables of orders and accounts and about what drives    *)
(* them.                                                                   *)
(*                                                                         *)
(* The tables: whatever the matching engine records and in whatever order  *)
(* its rows are settled, the tables implement Market, so what is proved of *)
(* Market holds of them.  The refinement needs an invariant: a row of the  *)
(* log still says what it said of placed orders when it was recorded, no   *)
(* order is filled beyond its quantity, and an order that is not placed is *)
(* untouched.  The same invariant makes what is on hold the sum of what    *)
(* live orders may take.                                                   *)
(*                                                                         *)
(* The stream: what is trimmed from the stream of trades has been settled, *)
(* and a settlement that is fed by the stream does nothing to the tables   *)
(* that Settlement does not do.                                            *)
(*                                                                         *)
(* The pipeline: the order service, the matching engine and the streams    *)
(* between them, with every fault, are such a system.  They carry nothing  *)
(* but placed orders, their events, and rows that may be recorded of them. *)
(*                                                                         *)
(* The log and the book: as long as no transaction commits behind the      *)
(* leader's back, the log gives each order one close, last, of all that    *)
(* it has traded, and the leader's book is what the log leaves of the      *)
(* orders.  What a match does to the two is computed in advance of its     *)
(* transaction, and a restart computes the book from other tables; the     *)
(* invariant says that both come out the same.                             *)
(*                                                                         *)
(* The recovery script: it settles what the settlement consumer left, and  *)
(* leaves what the consumer would have left.                               *)
(***************************************************************************)
EXTENDS Exchange, TradeBus, Recovery, Lemmas

MP == INSTANCE MarketProofs

\* What the log keeps of the moment a row was recorded.
LogIsRecordable == \A i \in DOMAIN log : Recordable(log[i])

\* An order that is not placed is untouched, and none is filled beyond its
\* quantity.
OrdersAreSound ==
    \A o \in Orders : /\ order[o].filled <= Terms[o].qty
                      /\ order[o].status = "NONE" => order[o].filled = 0 /\ order[o].unit = 0

LedgerInv == LedgerTypeOK /\ LogIsRecordable /\ OrdersAreSound

LEMMA FeeIsNat ==
    ASSUME NEW x \in Nat
    PROVE  TradingFee(x) \in Nat
  BY FeesAssumption, SMT DEF TradingFee

\* The terms of an order.
LEMMA TermsFacts ==
    ASSUME NEW o \in Orders
    PROVE  /\ Terms[o].acct \in Accounts
           /\ Terms[o].side \in {"BUY", "SELL"}
           /\ Terms[o].price \in Nat
           /\ Terms[o].qty \in Nat \ {0}
  BY SettlementAssumption DEF OrderTerms

LEMMA HoldPerUnitType ==
    ASSUME NEW o \in Orders
    PROVE  HoldPerUnit(o) \in Nat
  BY TermsFacts, FeeIsNat DEF HoldPerUnit, HoldWithFee

AccountRows == [balance : Int, hold : Int, shares : Int, holdQty : Int, debt : Nat]

\* A fee changes the balance and the debt of an account row: it is paid from what
\* is not on hold, and the rest is owed.
LEMMA ChargeFeeFacts ==
    ASSUME NEW row \in AccountRows, NEW fee \in Nat,
           NEW free, free = row.balance - row.hold
    PROVE  /\ ChargeFee(row, fee) \in AccountRows /\ free \in Int
           /\ ChargeFee(row, fee).shares = row.shares
           /\ ChargeFee(row, fee).holdQty = row.holdQty
           /\ ChargeFee(row, fee).balance - ChargeFee(row, fee).hold
                = M!LeftAfter(free, fee)
           /\ ChargeFee(row, fee).debt = row.debt + M!OwedAfter(free, fee)
  <1> DEFINE u == Unpaid(row, fee)
             b == row.balance + u - fee
             d == row.debt + u
             new == ChargeFee(row, fee)
  <1>1. /\ row.balance \in Int /\ row.hold \in Int /\ row.debt \in Nat
    BY DEF AccountRows
  <1>2. u \in Nat /\ u = M!OwedAfter(free, fee) /\ free \in Int
    BY <1>1 DEF Unpaid, M!OwedAfter
  <1>3. b \in Int /\ d \in Nat
    BY <1>1, <1>2
  <1>4. new = [row EXCEPT !.balance = b, !.debt = d]
    BY DEF ChargeFee
  <1>5. b - row.hold = M!LeftAfter(free, fee)
    BY <1>1, <1>2 DEF M!LeftAfter
  <1> HIDE DEF u, b, d, new
  <1>6. /\ new.balance = b /\ new.debt = d
        /\ new.hold = row.hold /\ new.shares = row.shares /\ new.holdQty = row.holdQty
        /\ new \in AccountRows
    BY <1>3, <1>4 DEF AccountRows
  <1>7. QED
    BY <1>2, <1>5, <1>6 DEF new, d

LEMMA InitLedgerInv == LedgerInit => LedgerInv
  <1> SUFFICES ASSUME LedgerInit
               PROVE  LedgerInv
    OBVIOUS
  <1>1. LedgerTypeOK
    BY SettlementAssumption DEF LedgerInit, LedgerTypeOK
  <1>2. LogIsRecordable
    BY DEF LedgerInit, LogIsRecordable
  <1>3. OrdersAreSound
    BY TermsFacts DEF LedgerInit, OrdersAreSound
  <1>4. QED
    BY <1>1, <1>2, <1>3 DEF LedgerInv

LEMMA PlaceLedgerInv ==
    ASSUME LedgerInv, NEW o \in Orders, PlaceOrder(o)
    PROVE  LedgerInv'
  <1> DEFINE a == Terms[o].acct
  <1>1. /\ a \in Accounts /\ Terms[o].qty \in Nat /\ HoldPerUnit(o) \in Nat
    BY TermsFacts, HoldPerUnitType
  <1>2. /\ order[o].status = "NONE"
        /\ account' = [account EXCEPT ![a] = WithReserve(o)]
        /\ order' = [order EXCEPT ![o] = [status |-> "OPEN", filled |-> 0,
                                          unit |-> HoldPerUnit(o)]]
        /\ charging' = charging /\ log' = log /\ processed' = processed
    BY DEF PlaceOrder
  <1>3. HoldPerUnit(o) * Terms[o].qty \in Nat
    BY <1>1
  <1>4. WithReserve(o) \in AccountRows
    BY <1>1, <1>3 DEF WithReserve, AccountRows, LedgerInv, LedgerTypeOK
  <1>5. LedgerTypeOK'
    BY <1>1, <1>2, <1>4, HoldPerUnitType DEF LedgerInv, LedgerTypeOK, AccountRows
  <1>6. LogIsRecordable'
    BY <1>2 DEF LedgerInv, LedgerTypeOK, LogIsRecordable, Recordable, Matches, TradeRows,
                CloseRows
  <1>7. OrdersAreSound'
    BY <1>1, <1>2, TermsFacts DEF LedgerInv, LedgerTypeOK, OrdersAreSound
  <1>8. QED
    BY <1>5, <1>6, <1>7 DEF LedgerInv

LEMMA RecordLedgerInv ==
    ASSUME LedgerInv, Record
    PROVE  LedgerInv'
  <1>1. /\ DOMAIN log \subseteq DOMAIN log'
        /\ \A i \in DOMAIN log' : Recordable(log'[i])
        /\ charging' = charging /\ order' = order /\ account' = account
        /\ processed' = processed
    BY DEF Record, LedgerInv, LogIsRecordable
  <1>2. LedgerTypeOK'
    BY <1>1 DEF LedgerInv, LedgerTypeOK, Recordable
  <1>3. LogIsRecordable'
    BY <1>1 DEF LogIsRecordable, Recordable, Matches
  <1>4. OrdersAreSound'
    BY <1>1 DEF LedgerInv, OrdersAreSound
  <1>5. QED
    BY <1>2, <1>3, <1>4 DEF LedgerInv

\* What a row that is settled for the first time is.
LEMMA SettledRowFacts ==
    ASSUME LedgerInv, NEW i \in DOMAIN log, i \notin processed, Settle(i)
    PROVE  /\ IsTrade(i) => /\ log[i] \in TradeRows /\ Matches(log[i])
                            /\ AcceptsTrade(log[i].buy, log[i].qty)
                            /\ AcceptsTrade(log[i].sell, log[i].qty)
                            /\ SettleTrade(log[i])
           /\ ~IsTrade(i) => /\ log[i] \in CloseRows /\ order[log[i].order].status # "NONE"
                             /\ ~CloseMustWait(log[i])
                             /\ CloseOrder(log[i])
           /\ charging' = charging /\ log' = log /\ processed' = processed \cup {i}
  <1>1. Recordable(log[i])
    BY DEF LedgerInv, LogIsRecordable
  <1>2. QED
    BY <1>1 DEF Settle, CanSettle, Recordable, IsTrade, TradeRows, CloseRows

\* What a trade that can be settled says of its two orders.
LEMMA TradeFacts ==
    ASSUME LedgerInv, NEW t \in TradeRows, Matches(t),
           AcceptsTrade(t.buy, t.qty), AcceptsTrade(t.sell, t.qty)
    PROVE  /\ t.buy \in Orders /\ t.sell \in Orders /\ t.buy # t.sell
           /\ Terms[t.buy].acct \in Accounts /\ Terms[t.sell].acct \in Accounts
           /\ Terms[t.buy].acct # Terms[t.sell].acct
           /\ t.price \in Nat \ {0} /\ t.qty \in Nat \ {0} /\ t.charged \in BOOLEAN
           /\ order[t.buy].unit \in Nat /\ order[t.sell].unit \in Nat
           /\ order[t.buy].filled \in Nat /\ order[t.sell].filled \in Nat
           /\ t.price * t.qty \in Nat
           /\ \A a \in Accounts : Fee(a, t) \in Nat
  <1>1. /\ t.buy \in Orders /\ t.sell \in Orders /\ t.charged \in BOOLEAN
        /\ t.price \in Nat \ {0} /\ t.qty \in Nat \ {0}
    BY DEF TradeRows
  <1>2. t.price * t.qty \in Nat
    BY <1>1
  <1>3. \A a \in Accounts : Fee(a, t) \in Nat
    BY <1>2, FeeIsNat DEF Fee
  <1>4. /\ order[t.buy].unit \in Nat /\ order[t.sell].unit \in Nat
        /\ order[t.buy].filled \in Nat /\ order[t.sell].filled \in Nat
    BY <1>1 DEF LedgerInv, LedgerTypeOK
  <1>5. QED
    BY <1>1, <1>2, <1>3, <1>4, TermsFacts DEF Matches

\* The columns of an account row.
LEMMA RowTypes ==
    ASSUME NEW row \in AccountRows
    PROVE  /\ row.balance \in Int /\ row.hold \in Int /\ row.shares \in Int
           /\ row.holdQty \in Int /\ row.debt \in Nat
  BY DEF AccountRows

LEMMA BuyerFacts ==
    ASSUME LedgerInv, NEW t \in TradeRows, Matches(t),
           AcceptsTrade(t.buy, t.qty), AcceptsTrade(t.sell, t.qty),
           NEW a \in Accounts, a = Terms[t.buy].acct,
           NEW free, free = account[a].balance - account[a].hold
                                + (order[t.buy].unit - t.price) * t.qty
    PROVE  /\ BuyerAfterTrade(t) \in AccountRows /\ free \in Int
           /\ BuyerAfterTrade(t).balance - BuyerAfterTrade(t).hold
                = M!LeftAfter(free, Fee(a, t))
           /\ BuyerAfterTrade(t).debt = account[a].debt + M!OwedAfter(free, Fee(a, t))
           /\ BuyerAfterTrade(t).shares - BuyerAfterTrade(t).holdQty
                = account[a].shares - account[a].holdQty + t.qty
  <1> DEFINE old == account[a]
             cost == t.price * t.qty
             held == order[t.buy].unit * t.qty
             x == old.balance - cost
             y == old.hold - held
             z == old.shares + t.qty
             row == [old EXCEPT !.balance = x, !.hold = y, !.shares = z]
  <1>1. /\ t.price \in Nat /\ t.qty \in Nat
        /\ order[t.buy].unit \in Nat /\ Fee(a, t) \in Nat
        /\ old \in AccountRows
    BY TradeFacts DEF LedgerInv, LedgerTypeOK, AccountRows
  <1>2. BuyerAfterTrade(t) = ChargeFee(row, Fee(a, t))
    BY DEF BuyerAfterTrade
  <1>3. /\ cost \in Int /\ held \in Int
        /\ (order[t.buy].unit - t.price) * t.qty = held - cost
    BY <1>1
  <1> HIDE DEF cost, held
  <1>4. x \in Int /\ y \in Int /\ z \in Int
    BY <1>1, <1>3, RowTypes
  <1>5. x - y = free /\ z - old.holdQty = old.shares - old.holdQty + t.qty
    BY <1>1, <1>3, RowTypes
  <1> HIDE DEF x, y, z
  <1>6. /\ row \in AccountRows
        /\ row.balance = x /\ row.hold = y /\ row.shares = z
        /\ row.holdQty = old.holdQty /\ row.debt = old.debt
    BY <1>1, <1>4 DEF AccountRows
  <1> HIDE DEF row, old
  <1>7. /\ ChargeFee(row, Fee(a, t)) \in AccountRows /\ free \in Int
        /\ ChargeFee(row, Fee(a, t)).balance - ChargeFee(row, Fee(a, t)).hold
                = M!LeftAfter(free, Fee(a, t))
        /\ ChargeFee(row, Fee(a, t)).debt = old.debt + M!OwedAfter(free, Fee(a, t))
        /\ ChargeFee(row, Fee(a, t)).shares = z
        /\ ChargeFee(row, Fee(a, t)).holdQty = old.holdQty
    <2>1. Fee(a, t) \in Nat /\ row \in AccountRows
      BY <1>1, <1>6
    <2>2. free = row.balance - row.hold
      BY <1>5, <1>6
    <2>3. QED
      BY <2>1, <2>2, <1>6, ChargeFeeFacts, SMTT(60)
  <1>8. QED
    BY <1>2, <1>5, <1>7 DEF old

LEMMA SellerFacts ==
    ASSUME LedgerInv, NEW t \in TradeRows, Matches(t),
           AcceptsTrade(t.buy, t.qty), AcceptsTrade(t.sell, t.qty),
           NEW a \in Accounts, a = Terms[t.sell].acct,
           NEW free, free = account[a].balance - account[a].hold + t.price * t.qty
    PROVE  /\ SellerAfterTrade(t) \in AccountRows /\ free \in Int
           /\ SellerAfterTrade(t).balance - SellerAfterTrade(t).hold
                = M!LeftAfter(free, Fee(a, t))
           /\ SellerAfterTrade(t).debt = account[a].debt + M!OwedAfter(free, Fee(a, t))
           /\ SellerAfterTrade(t).shares - SellerAfterTrade(t).holdQty
                = account[a].shares - account[a].holdQty
  <1> DEFINE old == account[a]
             cost == t.price * t.qty
             x == old.balance + cost
             y == old.shares - t.qty
             z == old.holdQty - t.qty
             row == [old EXCEPT !.balance = x, !.shares = y, !.holdQty = z]
  <1>1. /\ t.qty \in Nat /\ cost \in Int /\ Fee(a, t) \in Nat
        /\ old \in AccountRows
    BY TradeFacts DEF LedgerInv, LedgerTypeOK, AccountRows
  <1>2. SellerAfterTrade(t) = ChargeFee(row, Fee(a, t))
    BY DEF SellerAfterTrade
  <1>3. free = old.balance - old.hold + cost
    OBVIOUS
  <1> HIDE DEF cost
  <1>4. x \in Int /\ y \in Int /\ z \in Int
    BY <1>1, RowTypes
  <1>5. x - old.hold = free /\ y - z = old.shares - old.holdQty
    BY <1>1, <1>3, RowTypes
  <1> HIDE DEF x, y, z
  <1>6. /\ row \in AccountRows
        /\ row.balance = x /\ row.shares = y /\ row.holdQty = z
        /\ row.hold = old.hold /\ row.debt = old.debt
    BY <1>1, <1>4 DEF AccountRows
  <1> HIDE DEF row, old
  <1>7. /\ ChargeFee(row, Fee(a, t)) \in AccountRows /\ free \in Int
        /\ ChargeFee(row, Fee(a, t)).balance - ChargeFee(row, Fee(a, t)).hold
                = M!LeftAfter(free, Fee(a, t))
        /\ ChargeFee(row, Fee(a, t)).debt = old.debt + M!OwedAfter(free, Fee(a, t))
        /\ ChargeFee(row, Fee(a, t)).shares = y
        /\ ChargeFee(row, Fee(a, t)).holdQty = z
    <2>1. Fee(a, t) \in Nat /\ row \in AccountRows
      BY <1>1, <1>6
    <2>2. free = row.balance - row.hold
      BY <1>5, <1>6
    <2>3. QED
      BY <2>1, <2>2, <1>6, ChargeFeeFacts
  <1>8. QED
    BY <1>2, <1>5, <1>7 DEF old

LEMMA TradeLedgerInv ==
    ASSUME LedgerInv, NEW t \in TradeRows, Matches(t),
           AcceptsTrade(t.buy, t.qty), AcceptsTrade(t.sell, t.qty), SettleTrade(t),
           charging' = charging, log' = log, NEW i \in DOMAIN log,
           processed' = processed \cup {i}
    PROVE  LedgerInv'
  <1> DEFINE B == Terms[t.buy].acct
             S == Terms[t.sell].acct
             b == StateAfterTrade(t.buy, t.qty)
             s == StateAfterTrade(t.sell, t.qty)
  <1>1. /\ account' = [account EXCEPT ![B] = BuyerAfterTrade(t), ![S] = SellerAfterTrade(t)]
        /\ order' = [order EXCEPT ![t.buy] = b, ![t.sell] = s]
    BY DEF SettleTrade
  <1>2. /\ t.buy \in Orders /\ t.sell \in Orders /\ B \in Accounts /\ S \in Accounts
        /\ t.qty \in Nat
    BY TradeFacts
  <1>3. BuyerAfterTrade(t) \in AccountRows /\ SellerAfterTrade(t) \in AccountRows
    BY <1>2, BuyerFacts, SellerFacts
  <1>4. \A o \in {t.buy, t.sell} :
            LET n == StateAfterTrade(o, t.qty)
            IN  /\ n \in [status : {"FILLED", "PARTIAL"}, filled : Nat, unit : Nat]
                /\ n.filled <= Terms[o].qty
    <2> SUFFICES ASSUME NEW o \in Orders, AcceptsTrade(o, t.qty)
                 PROVE  LET n == StateAfterTrade(o, t.qty)
                        IN  /\ n \in [status : {"FILLED", "PARTIAL"}, filled : Nat, unit : Nat]
                            /\ n.filled <= Terms[o].qty
      BY <1>2
    <2> DEFINE f == order[o].filled + t.qty
               w == IF f >= Terms[o].qty THEN "FILLED" ELSE "PARTIAL"
    <2>1. order[o] \in [status : {"NONE", "OPEN", "PARTIAL", "FILLED", "CANCELED"},
                        filled : Nat, unit : Nat]
      BY DEF LedgerInv, LedgerTypeOK
    <2>2. f \in Nat /\ f <= Terms[o].qty /\ w \in {"FILLED", "PARTIAL"}
      BY <1>2, <2>1 DEF AcceptsTrade
    <2>3. StateAfterTrade(o, t.qty) = [order[o] EXCEPT !.status = w, !.filled = f]
      BY DEF StateAfterTrade
    <2> HIDE DEF f, w
    <2>4. QED
      BY <2>1, <2>2, <2>3
  <1>5. /\ b \in [status : {"FILLED", "PARTIAL"}, filled : Nat, unit : Nat]
        /\ s \in [status : {"FILLED", "PARTIAL"}, filled : Nat, unit : Nat]
        /\ b.filled <= Terms[t.buy].qty /\ s.filled <= Terms[t.sell].qty
    BY <1>4
  <1> HIDE DEF B, S, b, s
  <1>6. LedgerTypeOK'
    BY <1>1, <1>2, <1>3, <1>5 DEF LedgerInv, LedgerTypeOK, AccountRows
  <1>7. \A o \in Orders : order[o].status # "NONE" => order'[o].status # "NONE"
    BY <1>1, <1>2, <1>5 DEF LedgerInv, LedgerTypeOK
  <1>8. LogIsRecordable'
    BY <1>7 DEF LedgerInv, LogIsRecordable, Recordable, Matches, TradeRows, CloseRows
  <1>9. OrdersAreSound'
    BY <1>1, <1>2, <1>5 DEF LedgerInv, LedgerTypeOK, OrdersAreSound
  <1>10. QED
    BY <1>6, <1>8, <1>9 DEF LedgerInv

\* A close that takes effect counts exactly what is settled: one that counts more
\* waits and one that counts less is stale.
LEMMA CloseFacts ==
    ASSUME LedgerInv, NEW c \in CloseRows, order[c.order].status # "NONE",
           ~CloseMustWait(c), ~Stale(c), CloseOrder(c),
           NEW o, o = c.order,
           NEW rest, rest = Terms[o].qty - order[o].filled
    PROVE  /\ o \in Orders /\ Active(o) /\ Terms[o].acct \in Accounts
           /\ c.status \in {"FILLED", "CANCELED"}
           /\ rest \in Nat /\ order[o].unit * rest \in Nat
           /\ order' = [order EXCEPT ![o] = [@ EXCEPT !.status = c.status]]
           /\ account' = [account EXCEPT ![Terms[o].acct] =
                IF Terms[o].side = "BUY"
                THEN [account[Terms[o].acct] EXCEPT !.hold = @ - order[o].unit * rest]
                ELSE [account[Terms[o].acct] EXCEPT !.holdQty = @ - rest]]
  <1> DEFINE filled == IF c.filled < Terms[o].qty THEN c.filled ELSE Terms[o].qty
  <1>1. o \in Orders /\ c.filled \in Nat /\ c.status \in {"FILLED", "CANCELED"}
    BY DEF CloseRows
  <1>2. /\ order[o] \in [status : {"NONE", "OPEN", "PARTIAL", "FILLED", "CANCELED"},
                         filled : Nat, unit : Nat]
        /\ order[o].filled <= Terms[o].qty /\ Terms[o].qty \in Nat
        /\ Terms[o].acct \in Accounts
    BY <1>1, TermsFacts DEF LedgerInv, LedgerTypeOK, OrdersAreSound
  <1>3. Active(o) /\ ~(c.filled < order[o].filled)
    BY <1>2 DEF Stale, Terminal, Active
  <1>4. c.filled = order[o].filled
    BY <1>1, <1>2, <1>3 DEF CloseMustWait
  <1>5. rest \in Nat /\ filled = order[o].filled /\ rest = Terms[o].qty - filled
    BY <1>2, <1>4
  <1>6. order[o].unit * rest \in Nat
    BY <1>2, <1>5
  <1>7. order' = [order EXCEPT ![o].status = c.status, ![o].filled = filled]
    BY DEF CloseOrder
  <1>8. account' = [account EXCEPT ![Terms[o].acct] =
            IF Terms[o].side = "BUY"
            THEN [account[Terms[o].acct] EXCEPT !.hold = @ - order[o].unit * rest]
            ELSE [account[Terms[o].acct] EXCEPT !.holdQty = @ - rest]]
    BY <1>5 DEF CloseOrder
  <1> HIDE DEF filled
  <1>9. order' = [order EXCEPT ![o] = [@ EXCEPT !.status = c.status]]
    BY <1>1, <1>2, <1>5, <1>7 DEF LedgerInv, LedgerTypeOK
  <1>10. QED
    BY <1>1, <1>2, <1>3, <1>5, <1>6, <1>8, <1>9

LEMMA CloseLedgerInv ==
    ASSUME LedgerInv, NEW c \in CloseRows, order[c.order].status # "NONE",
           ~CloseMustWait(c), ~Stale(c), CloseOrder(c),
           charging' = charging, log' = log, NEW i \in DOMAIN log,
           processed' = processed \cup {i},
           NEW o, o = c.order,
           NEW rest, rest = Terms[o].qty - order[o].filled
    PROVE  LedgerInv'
  <1> DEFINE a == Terms[o].acct
             held == order[o].unit * rest
             new == IF Terms[o].side = "BUY" THEN [account[a] EXCEPT !.hold = @ - held]
                    ELSE [account[a] EXCEPT !.holdQty = @ - rest]
  <1>1. /\ o \in Orders /\ a \in Accounts /\ c.status \in {"FILLED", "CANCELED"}
        /\ Active(o) /\ rest \in Nat /\ held \in Nat
        /\ order' = [order EXCEPT ![o] = [@ EXCEPT !.status = c.status]]
        /\ account' = [account EXCEPT ![a] = new]
    <2>1. /\ o \in Orders /\ a \in Accounts /\ c.status \in {"FILLED", "CANCELED"}
          /\ Active(o) /\ rest \in Nat /\ held \in Nat
      BY CloseFacts
    <2>2. order' = [order EXCEPT ![o] = [@ EXCEPT !.status = c.status]]
      BY CloseFacts
    <2>3. account' = [account EXCEPT ![a] = new]
      BY CloseFacts
    <2>4. QED
      BY <2>1, <2>2, <2>3
  <1> HIDE DEF held
  <1>2. new \in AccountRows
    BY <1>1, SMTT(60) DEF LedgerInv, LedgerTypeOK, AccountRows
  <1> HIDE DEF new
  <1>3. LedgerTypeOK'
    BY <1>1, <1>2 DEF LedgerInv, LedgerTypeOK, AccountRows
  <1>4. \A x \in Orders : /\ order[x].status # "NONE" => order'[x].status # "NONE"
                          /\ order'[x].status = "NONE" => order'[x] = order[x]
                          /\ order'[x].filled = order[x].filled
    BY <1>1 DEF LedgerInv, LedgerTypeOK
  <1>5. LogIsRecordable'
    BY <1>4 DEF LedgerInv, LogIsRecordable, Recordable, Matches, TradeRows, CloseRows
  <1>6. OrdersAreSound'
    BY <1>4 DEF LedgerInv, OrdersAreSound
  <1>7. QED
    BY <1>3, <1>5, <1>6 DEF LedgerInv

\* A row that is settled again, or a close without effect, changes no table.
LEMMA NoEffect ==
    ASSUME NEW i \in DOMAIN log, Settle(i), i \in processed \/ (~IsTrade(i) /\ Stale(log[i]))
    PROVE  /\ order' = order /\ account' = account /\ charging' = charging /\ log' = log
           /\ processed' = processed \cup {i}
  BY DEF Settle, CloseOrder

LEMMA SettleLedgerInv ==
    ASSUME LedgerInv, NEW i \in DOMAIN log, Settle(i)
    PROVE  LedgerInv'
  <1>1. CASE i \notin processed /\ IsTrade(i)
    BY <1>1, SettledRowFacts, TradeLedgerInv
  <1>2. CASE i \notin processed /\ ~IsTrade(i) /\ ~Stale(log[i])
    BY <1>2, SettledRowFacts, CloseLedgerInv
  <1>3. CASE i \in processed \/ (~IsTrade(i) /\ Stale(log[i]))
    BY <1>3, NoEffect DEF LedgerInv, LedgerTypeOK, LogIsRecordable, Recordable, Matches,
                          OrdersAreSound
  <1>4. QED
    BY <1>1, <1>2, <1>3

LEMMA NextLedgerInv == LedgerInv /\ [LedgerNext]_ledgerVars => LedgerInv'
  <1> SUFFICES ASSUME LedgerInv, [LedgerNext]_ledgerVars
               PROVE  LedgerInv'
    OBVIOUS
  <1>1. CASE StartCharging
    BY <1>1 DEF StartCharging, LedgerInv, LedgerTypeOK, LogIsRecordable, Recordable, Matches,
                OrdersAreSound
  <1>2. CASE \E o \in Orders : PlaceOrder(o)
    BY <1>2, PlaceLedgerInv
  <1>3. CASE Record
    BY <1>3, RecordLedgerInv
  <1>4. CASE \E i \in DOMAIN log : Settle(i)
    BY <1>4, SettleLedgerInv
  <1>5. CASE UNCHANGED ledgerVars
    BY <1>5 DEF ledgerVars, LedgerInv, LedgerTypeOK, LogIsRecordable, Recordable, Matches,
                OrdersAreSound
  <1>6. QED
    BY <1>1, <1>2, <1>3, <1>4, <1>5 DEF LedgerNext

LEMMA LedgerInvariant == LedgerSpec => []LedgerInv
  BY InitLedgerInv, NextLedgerInv, PTL DEF LedgerSpec

----------------------------------------------------------------------------
(***************************************************************************)
(* Each step of the tables is a step of Market, or none.                   *)
(***************************************************************************)
LEMMA MarketConstants == MP!MarketAssumption
  BY SettlementAssumption DEF MP!MarketAssumption, OrderTerms, Owner, Side, Qty, Limit

LEMMA InitIsMarketInit == LedgerInit => M!Init
  BY SettlementAssumption
  DEF LedgerInit, M!Init, freeCash, freeShares, debt, phase, unit, executed, escrow, Active

LEMMA StartChargingStep == StartCharging => M!StartCharging
  BY DEF StartCharging, M!StartCharging, freeCash, freeShares, debt, phase, unit, executed,
         escrow, Active

LEMMA UnchangedStep ==
    ASSUME order' = order, account' = account, charging' = charging
    PROVE  UNCHANGED M!mvars
  BY DEF M!mvars, freeCash, freeShares, debt, phase, unit, executed, escrow, Active

\* What Market sees of one and of two changed account rows, ...
LEMMA AccountStep ==
    ASSUME NEW a \in Accounts, NEW row, account' = [account EXCEPT ![a] = row],
           account \in [Accounts -> AccountRows]
    PROVE  /\ freeCash' = [freeCash EXCEPT ![a] = row.balance - row.hold]
           /\ freeShares' = [freeShares EXCEPT ![a] = row.shares - row.holdQty]
           /\ debt' = [debt EXCEPT ![a] = row.debt]
  BY DEF freeCash, freeShares, debt

\* (The name keeps the provers from rewriting the update when they match it.)
UpdateTwo(f, a, x, b, y) == [f EXCEPT ![a] = x, ![b] = y]

LEMMA TwoAccountsStep ==
    ASSUME NEW a \in Accounts, NEW row, NEW b \in Accounts, NEW other, a # b,
           account' = UpdateTwo(account, a, row, b, other),
           account \in [Accounts -> AccountRows]
    PROVE  /\ freeCash' = UpdateTwo(freeCash, a, row.balance - row.hold,
                                             b, other.balance - other.hold)
           /\ freeShares' = UpdateTwo(freeShares, a, row.shares - row.holdQty,
                                                 b, other.shares - other.holdQty)
           /\ debt' = UpdateTwo(debt, a, row.debt, b, other.debt)
  BY DEF freeCash, freeShares, debt, UpdateTwo

PhaseOf(row) == IF row.status = "NONE" THEN "new"
                ELSE IF row.status \in {"OPEN", "PARTIAL"} THEN "live" ELSE "closed"

EscrowOf(o, row) ==
    IF row.status \notin {"OPEN", "PARTIAL"} THEN 0
    ELSE IF Terms[o].side = "BUY" THEN row.unit * (Terms[o].qty - row.filled)
    ELSE Terms[o].qty - row.filled

\* ... and of one and of two changed order rows.
LEMMA OrderStep ==
    ASSUME LedgerInv, NEW o \in Orders, NEW row, order' = [order EXCEPT ![o] = row]
    PROVE  /\ phase' = [phase EXCEPT ![o] = PhaseOf(row)]
           /\ unit' = [unit EXCEPT ![o] = row.unit]
           /\ executed' = [executed EXCEPT ![o] = row.filled]
           /\ escrow' = [escrow EXCEPT ![o] = EscrowOf(o, row)]
  <1>1. DOMAIN order = Orders
    BY DEF LedgerInv, LedgerTypeOK
  <1>2. phase' = [phase EXCEPT ![o] = PhaseOf(row)]
    BY <1>1 DEF phase, PhaseOf, Active
  <1>3. unit' = [unit EXCEPT ![o] = row.unit]
    BY <1>1 DEF unit
  <1>4. executed' = [executed EXCEPT ![o] = row.filled]
    BY <1>1 DEF executed
  <1>5. escrow' = [escrow EXCEPT ![o] = EscrowOf(o, row)]
    BY <1>1 DEF escrow, EscrowOf, Active
  <1>6. QED
    BY <1>2, <1>3, <1>4, <1>5

LEMMA TwoOrdersStep ==
    ASSUME LedgerInv, NEW o \in Orders, NEW row, NEW p \in Orders, NEW other, o # p,
           order' = UpdateTwo(order, o, row, p, other)
    PROVE  /\ phase' = UpdateTwo(phase, o, PhaseOf(row), p, PhaseOf(other))
           /\ unit' = UpdateTwo(unit, o, row.unit, p, other.unit)
           /\ executed' = UpdateTwo(executed, o, row.filled, p, other.filled)
           /\ escrow' = UpdateTwo(escrow, o, EscrowOf(o, row), p, EscrowOf(p, other))
  <1>1. DOMAIN order = Orders
    BY DEF LedgerInv, LedgerTypeOK
  <1>2. phase' = UpdateTwo(phase, o, PhaseOf(row), p, PhaseOf(other))
    BY <1>1 DEF UpdateTwo, phase, PhaseOf, Active
  <1>3. unit' = UpdateTwo(unit, o, row.unit, p, other.unit)
    BY <1>1 DEF UpdateTwo, unit
  <1>4. executed' = UpdateTwo(executed, o, row.filled, p, other.filled)
    BY <1>1 DEF UpdateTwo, executed
  <1>5. escrow' = UpdateTwo(escrow, o, EscrowOf(o, row), p, EscrowOf(p, other))
    BY <1>1 DEF UpdateTwo, escrow, EscrowOf, Active
  <1>6. QED
    BY <1>2, <1>3, <1>4, <1>5

LEMMA PlaceOrderStep ==
    ASSUME LedgerInv, NEW o \in Orders, PlaceOrder(o)
    PROVE  M!Submit(o)
  <1> DEFINE a == Terms[o].acct
             r == IF Terms[o].side = "BUY" THEN HoldPerUnit(o) * Terms[o].qty
                  ELSE Terms[o].qty
  <1>1. /\ a \in Accounts /\ Terms[o].qty \in Nat \ {0} /\ HoldPerUnit(o) \in Nat
        /\ Terms[o].side \in {"BUY", "SELL"}
    BY TermsFacts, HoldPerUnitType
  <1>2. /\ order[o].status = "NONE" /\ HasFunds(o)
        /\ account' = [account EXCEPT ![a] = WithReserve(o)]
        /\ order' = [order EXCEPT ![o] = [status |-> "OPEN", filled |-> 0,
                                          unit |-> HoldPerUnit(o)]]
        /\ charging' = charging
    BY DEF PlaceOrder
  <1>3. /\ M!UnitReserve(o) = HoldPerUnit(o)
        /\ M!ReserveAt(o, M!UnitReserve(o), Qty[o]) = r
        /\ Owner[o] = a /\ Side[o] = Terms[o].side
    BY DEF M!UnitReserve, M!ReserveAt, HoldPerUnit, Owner, Side, Limit, Qty, HoldWithFee,
           M!HoldWithFee, TradingFee, M!TradingFee
  <1>4. r \in Nat
    BY <1>1
  <1> DEFINE placed == [status |-> "OPEN", filled |-> 0, unit |-> HoldPerUnit(o)]
  <1>5. /\ phase' = [phase EXCEPT ![o] = "live"]
        /\ unit' = [unit EXCEPT ![o] = HoldPerUnit(o)]
        /\ executed' = [executed EXCEPT ![o] = 0]
        /\ escrow' = [escrow EXCEPT ![o] = r]
    <2>1. /\ PhaseOf(placed) = "live" /\ EscrowOf(o, placed) = r
          /\ placed.unit = HoldPerUnit(o) /\ placed.filled = 0
      BY <1>1 DEF PhaseOf, EscrowOf
    <2> HIDE DEF placed, r
    <2>2. order' = [order EXCEPT ![o] = placed]
      BY <1>2 DEF placed
    <2>3. /\ phase' = [phase EXCEPT ![o] = PhaseOf(placed)]
          /\ unit' = [unit EXCEPT ![o] = placed.unit]
          /\ executed' = [executed EXCEPT ![o] = placed.filled]
          /\ escrow' = [escrow EXCEPT ![o] = EscrowOf(o, placed)]
      BY <2>2, OrderStep
    <2>4. QED
      BY <2>1, <2>3
  <1>6. executed' = executed
    BY <1>2, <1>5 DEF LedgerInv, OrdersAreSound, executed
  <1>7. phase[o] = "new"
    BY <1>2 DEF phase
  <1>8. /\ account \in [Accounts -> AccountRows]
        /\ account[a] \in AccountRows
    BY <1>1 DEF LedgerInv, LedgerTypeOK, AccountRows
  <1>9. /\ freeCash' = [freeCash EXCEPT ![a] = WithReserve(o).balance - WithReserve(o).hold]
        /\ freeShares' = [freeShares EXCEPT ![a] = WithReserve(o).shares
                                                   - WithReserve(o).holdQty]
        /\ debt' = [debt EXCEPT ![a] = WithReserve(o).debt]
    BY <1>1, <1>2, <1>8, AccountStep
  <1>10. /\ freeCash[a] = account[a].balance - account[a].hold
         /\ freeShares[a] = account[a].shares - account[a].holdQty
         /\ debt[a] = account[a].debt
    BY <1>1 DEF freeCash, freeShares, debt
  <1>11. CASE Terms[o].side = "BUY"
    <2>1. r = HoldPerUnit(o) * Terms[o].qty
      BY <1>11
    <2> HIDE DEF r
    <2>2. WithReserve(o) = [account[a] EXCEPT !.hold = @ + r]
      BY <1>11, <2>1 DEF WithReserve
    <2>3. freeCash[a] >= r
      BY <1>2, <1>10, <1>11, <2>1 DEF HasFunds
    <2>4. /\ freeCash' = [freeCash EXCEPT ![a] = @ - r]
          /\ freeShares' = freeShares /\ debt' = debt
      <3> DEFINE h == account[a].hold + r
      <3>1. /\ account[a].balance \in Int /\ account[a].hold \in Int /\ h \in Int
            /\ WithReserve(o) = [account[a] EXCEPT !.hold = h]
            /\ account[a].balance - h = account[a].balance - account[a].hold - r
        BY <1>4, <1>8, <2>2, RowTypes DEF r
      <3> HIDE DEF h
      <3>2. /\ WithReserve(o).hold = h /\ WithReserve(o).balance = account[a].balance
            /\ WithReserve(o).shares = account[a].shares
            /\ WithReserve(o).holdQty = account[a].holdQty
            /\ WithReserve(o).debt = account[a].debt
        BY <1>8, <3>1 DEF AccountRows
      <3>3. /\ freeCash' = [freeCash EXCEPT ![a] = freeCash[a] - r]
            /\ freeShares' = [freeShares EXCEPT ![a] = freeShares[a]]
            /\ debt' = [debt EXCEPT ![a] = debt[a]]
        BY <1>9, <1>10, <3>1, <3>2
      <3>4. QED
        BY <3>3 DEF freeShares, debt
    <2>5. QED
      BY <1>2, <1>3, <1>5, <1>6, <1>7, <1>11, <2>3, <2>4 DEF M!Submit, M!CanSubmit
  <1>12. CASE Terms[o].side = "SELL"
    <2>1. r = Terms[o].qty
      BY <1>12
    <2> HIDE DEF r
    <2>2. WithReserve(o) = [account[a] EXCEPT !.holdQty = @ + r]
      BY <1>12, <2>1 DEF WithReserve
    <2>3. freeShares[a] >= r
      BY <1>2, <1>10, <1>12, <2>1 DEF HasFunds
    <2>4. /\ freeShares' = [freeShares EXCEPT ![a] = @ - r]
          /\ freeCash' = freeCash /\ debt' = debt
      <3> DEFINE h == account[a].holdQty + r
      <3>1. /\ account[a].shares \in Int /\ account[a].holdQty \in Int /\ h \in Int
            /\ WithReserve(o) = [account[a] EXCEPT !.holdQty = h]
            /\ account[a].shares - h = account[a].shares - account[a].holdQty - r
        BY <1>4, <1>8, <2>2, RowTypes DEF r
      <3> HIDE DEF h
      <3>2. /\ WithReserve(o).holdQty = h /\ WithReserve(o).shares = account[a].shares
            /\ WithReserve(o).balance = account[a].balance
            /\ WithReserve(o).hold = account[a].hold
            /\ WithReserve(o).debt = account[a].debt
        BY <1>8, <3>1 DEF AccountRows
      <3>3. /\ freeShares' = [freeShares EXCEPT ![a] = freeShares[a] - r]
            /\ freeCash' = [freeCash EXCEPT ![a] = freeCash[a]]
            /\ debt' = [debt EXCEPT ![a] = debt[a]]
        BY <1>9, <1>10, <3>1, <3>2
      <3>4. QED
        BY <3>3 DEF freeCash, debt
    <2>5. QED
      BY <1>2, <1>3, <1>5, <1>6, <1>7, <1>12, <2>3, <2>4 DEF M!Submit, M!CanSubmit
  <1>13. QED
    BY <1>1, <1>11, <1>12

\* A close that takes effect is a close of the order in Market.
LEMMA CloseStep ==
    ASSUME LedgerInv, NEW c \in CloseRows, order[c.order].status # "NONE",
           ~CloseMustWait(c), ~Stale(c), CloseOrder(c), charging' = charging,
           NEW o, o = c.order,
           NEW rest, rest = Terms[o].qty - order[o].filled
    PROVE  M!Close(o)
  <1> DEFINE a == Terms[o].acct
             held == order[o].unit * rest
             new == IF Terms[o].side = "BUY" THEN [account[a] EXCEPT !.hold = @ - held]
                    ELSE [account[a] EXCEPT !.holdQty = @ - rest]
             closed == [order[o] EXCEPT !.status = c.status]
  <1>1. /\ o \in Orders /\ a \in Accounts /\ c.status \in {"FILLED", "CANCELED"}
        /\ Active(o) /\ rest \in Nat /\ held \in Nat
    BY CloseFacts
  <1>2. order' = [order EXCEPT ![o] = closed]
    BY CloseFacts
  <1>3. account' = [account EXCEPT ![a] = new]
    BY CloseFacts
  <1>4. /\ Terms[o].side \in {"BUY", "SELL"}
        /\ account \in [Accounts -> AccountRows] /\ account[a] \in AccountRows
        /\ order[o] \in [status : {"NONE", "OPEN", "PARTIAL", "FILLED", "CANCELED"},
                          filled : Nat, unit : Nat]
    BY <1>1, TermsFacts DEF LedgerInv, LedgerTypeOK, AccountRows
  <1>5. /\ closed.status = c.status /\ closed.filled = order[o].filled
        /\ closed.unit = order[o].unit
    BY <1>4
  <1> HIDE DEF closed
  <1>6. /\ phase' = [phase EXCEPT ![o] = PhaseOf(closed)]
        /\ unit' = [unit EXCEPT ![o] = closed.unit]
        /\ executed' = [executed EXCEPT ![o] = closed.filled]
        /\ escrow' = [escrow EXCEPT ![o] = EscrowOf(o, closed)]
    BY <1>1, <1>2, OrderStep
  <1>7. /\ phase' = [phase EXCEPT ![o] = "closed"]
        /\ escrow' = [escrow EXCEPT ![o] = 0]
        /\ unit' = unit /\ executed' = executed
    <2>1. PhaseOf(closed) = "closed" /\ EscrowOf(o, closed) = 0
      BY <1>1, <1>5 DEF PhaseOf, EscrowOf
    <2>2. unit[o] = closed.unit /\ executed[o] = closed.filled
      BY <1>1, <1>5 DEF unit, executed
    <2>3. QED
      BY <1>6, <2>1, <2>2 DEF unit, executed
  <1>8. phase[o] = "live" /\ escrow[o] = IF Terms[o].side = "BUY" THEN held ELSE rest
    BY <1>1 DEF phase, escrow, Active
  <1>9. /\ freeCash' = [freeCash EXCEPT ![a] = new.balance - new.hold]
        /\ freeShares' = [freeShares EXCEPT ![a] = new.shares - new.holdQty]
        /\ debt' = [debt EXCEPT ![a] = new.debt]
    <2> HIDE DEF new
    <2>1. QED
      BY <1>1, <1>3, <1>4, AccountStep
  <1>10. /\ freeCash[a] = account[a].balance - account[a].hold
         /\ freeShares[a] = account[a].shares - account[a].holdQty
         /\ debt[a] = account[a].debt
         /\ Owner[o] = a /\ Side[o] = Terms[o].side
    BY <1>1 DEF freeCash, freeShares, debt, Owner, Side
  <1> HIDE DEF held
  <1>11. CASE Terms[o].side = "BUY"
    <2> DEFINE h == account[a].hold - held
    <2>1. /\ account[a].balance \in Int /\ account[a].hold \in Int /\ h \in Int
          /\ new = [account[a] EXCEPT !.hold = h]
          /\ account[a].balance - h = account[a].balance - account[a].hold + held
      BY <1>1, <1>4, <1>11, RowTypes
    <2> HIDE DEF h, new
    <2>2. /\ new.hold = h /\ new.balance = account[a].balance
          /\ new.shares = account[a].shares /\ new.holdQty = account[a].holdQty
          /\ new.debt = account[a].debt
      BY <1>4, <2>1 DEF AccountRows
    <2>3. /\ freeCash' = [freeCash EXCEPT ![a] = freeCash[a] + escrow[o]]
          /\ freeShares' = [freeShares EXCEPT ![a] = freeShares[a]]
          /\ debt' = [debt EXCEPT ![a] = debt[a]]
      BY <1>8, <1>9, <1>10, <1>11, <2>1, <2>2
    <2>4. freeShares' = freeShares /\ debt' = debt
      BY <2>3 DEF freeShares, debt
    <2>5. QED
      BY <1>7, <1>8, <1>10, <1>11, <2>3, <2>4 DEF M!Close
  <1>12. CASE Terms[o].side = "SELL"
    <2> DEFINE h == account[a].holdQty - rest
    <2>1. /\ account[a].shares \in Int /\ account[a].holdQty \in Int /\ h \in Int
          /\ new = [account[a] EXCEPT !.holdQty = h]
          /\ account[a].shares - h = account[a].shares - account[a].holdQty + rest
      BY <1>1, <1>4, <1>12, RowTypes
    <2> HIDE DEF h, new
    <2>2. /\ new.holdQty = h /\ new.shares = account[a].shares
          /\ new.balance = account[a].balance /\ new.hold = account[a].hold
          /\ new.debt = account[a].debt
      BY <1>4, <2>1 DEF AccountRows
    <2>3. /\ freeShares' = [freeShares EXCEPT ![a] = freeShares[a] + escrow[o]]
          /\ freeCash' = [freeCash EXCEPT ![a] = freeCash[a]]
          /\ debt' = [debt EXCEPT ![a] = debt[a]]
      BY <1>8, <1>9, <1>10, <1>12, <2>1, <2>2
    <2>4. freeCash' = freeCash /\ debt' = debt
      BY <2>3 DEF freeCash, debt
    <2>5. QED
      BY <1>7, <1>8, <1>10, <1>12, <2>3, <2>4 DEF M!Close
  <1>13. QED
    BY <1>4, <1>11, <1>12

\* What Market sees of an order that trades.
LEMMA TradedOrder ==
    ASSUME LedgerInv, NEW o \in Orders, NEW n \in Nat \ {0}, AcceptsTrade(o, n)
    PROVE  /\ phase[o] = "live" /\ n <= M!Remaining(o)
           /\ PhaseOf(StateAfterTrade(o, n)) = M!PhaseAfter(o, n)
           /\ StateAfterTrade(o, n).unit = unit[o]
           /\ StateAfterTrade(o, n).filled = executed[o] + n
           /\ EscrowOf(o, StateAfterTrade(o, n))
                = IF Terms[o].side = "BUY" THEN escrow[o] - unit[o] * n ELSE escrow[o] - n
  <1> DEFINE row == order[o]
             q == Terms[o].qty
             f == row.filled + n
             w == IF f >= q THEN "FILLED" ELSE "PARTIAL"
             new == StateAfterTrade(o, n)
  <1>1. /\ q \in Nat \ {0} /\ row.filled \in Nat /\ row.unit \in Nat
        /\ row \in [status : {"NONE", "OPEN", "PARTIAL", "FILLED", "CANCELED"},
                    filled : Nat, unit : Nat]
    BY TermsFacts DEF LedgerInv, LedgerTypeOK
  <1>2. row.status \in {"OPEN", "PARTIAL"} /\ f <= q /\ f \in Nat
    BY <1>1 DEF AcceptsTrade, Active
  <1>3. new = [row EXCEPT !.status = w, !.filled = f]
    BY DEF StateAfterTrade
  <1>4. new.status = w /\ new.filled = f /\ new.unit = row.unit
    <2> HIDE DEF new, w, f, row
    <2>1. QED
      BY <1>1, <1>3
  <1>5. /\ phase[o] = "live" /\ unit[o] = row.unit /\ executed[o] = row.filled
        /\ Qty[o] = q
        /\ escrow[o] = IF Terms[o].side = "BUY" THEN row.unit * (q - row.filled)
                       ELSE q - row.filled
    BY <1>2 DEF phase, unit, executed, Qty, escrow, Active
  <1> HIDE DEF new, row, q
  <1>6. n <= M!Remaining(o)
    BY <1>1, <1>2, <1>5 DEF M!Remaining
  <1>7. PhaseOf(new) = M!PhaseAfter(o, n)
    BY <1>1, <1>2, <1>4, <1>5 DEF PhaseOf, M!PhaseAfter
  <1>8. f = q => row.unit * (q - row.filled) = row.unit * n
    BY <1>1
  <1>9. row.unit * (q - f) = row.unit * (q - row.filled) - row.unit * n
    BY <1>1, <1>2
  <1>10. row.unit * (q - row.filled) \in Int /\ row.unit * n \in Int
    BY <1>1
  <1>11. EscrowOf(o, new)
            = IF Terms[o].side = "BUY" THEN escrow[o] - unit[o] * n ELSE escrow[o] - n
    BY <1>1, <1>2, <1>4, <1>5, <1>8, <1>9, <1>10 DEF EscrowOf, q
  <1>12. QED
    BY <1>4, <1>5, <1>6, <1>7, <1>11 DEF new

\* A trade that is settled for the first time is a trade of Market.
LEMMA TradeStep ==
    ASSUME LedgerInv, NEW t \in TradeRows, Matches(t),
           AcceptsTrade(t.buy, t.qty), AcceptsTrade(t.sell, t.qty), SettleTrade(t),
           charging' = charging
    PROVE  M!Trade
  <1> DEFINE B == Owner[t.buy]
             S == Owner[t.sell]
             n == t.qty
             x == t.price * t.qty
             fB == Fee(B, t)
             fS == Fee(S, t)
             freeB == freeCash[B] + (unit[t.buy] - t.price) * n
             freeS == freeCash[S] + t.price * n
  <1>1. /\ t.buy \in Orders /\ t.sell \in Orders /\ t.buy # t.sell
        /\ B \in Accounts /\ S \in Accounts /\ B # S
        /\ B = Terms[t.buy].acct /\ S = Terms[t.sell].acct
        /\ t.price \in Nat \ {0} /\ n \in Nat \ {0} /\ t.charged \in BOOLEAN
    BY TradeFacts DEF Owner
  <1>2. /\ account \in [Accounts -> AccountRows]
        /\ account' = [account EXCEPT ![B] = BuyerAfterTrade(t), ![S] = SellerAfterTrade(t)]
        /\ order' = [order EXCEPT ![t.buy] = StateAfterTrade(t.buy, n),
                                  ![t.sell] = StateAfterTrade(t.sell, n)]
    BY <1>1 DEF SettleTrade, LedgerInv, LedgerTypeOK, AccountRows
  <1>3. /\ M!Fee(B, x, t.charged) = fB /\ M!Fee(S, x, t.charged) = fS
    BY DEF M!Fee, Fee, M!TradingFee, TradingFee
  <1>4. /\ unit[t.buy] = order[t.buy].unit
        /\ freeCash[B] = account[B].balance - account[B].hold
        /\ freeCash[S] = account[S].balance - account[S].hold
        /\ freeShares[B] = account[B].shares - account[B].holdQty
        /\ freeShares[S] = account[S].shares - account[S].holdQty
        /\ debt[B] = account[B].debt /\ debt[S] = account[S].debt
    BY <1>1 DEF unit, freeCash, freeShares, debt
  <1>5. /\ BuyerAfterTrade(t).balance - BuyerAfterTrade(t).hold = M!LeftAfter(freeB, fB)
        /\ BuyerAfterTrade(t).debt = debt[B] + M!OwedAfter(freeB, fB)
        /\ BuyerAfterTrade(t).shares - BuyerAfterTrade(t).holdQty = freeShares[B] + n
    <2>1. freeB = account[B].balance - account[B].hold + (order[t.buy].unit - t.price) * t.qty
      BY <1>4
    <2> HIDE DEF freeB, fB
    <2>2. /\ BuyerAfterTrade(t).balance - BuyerAfterTrade(t).hold
                = M!LeftAfter(freeB, Fee(B, t))
          /\ BuyerAfterTrade(t).debt = account[B].debt + M!OwedAfter(freeB, Fee(B, t))
          /\ BuyerAfterTrade(t).shares - BuyerAfterTrade(t).holdQty
                = account[B].shares - account[B].holdQty + t.qty
      BY <1>1, <2>1, BuyerFacts
    <2>3. QED
      BY <1>4, <2>2 DEF fB
  <1>6. /\ SellerAfterTrade(t).balance - SellerAfterTrade(t).hold = M!LeftAfter(freeS, fS)
        /\ SellerAfterTrade(t).debt = debt[S] + M!OwedAfter(freeS, fS)
        /\ SellerAfterTrade(t).shares - SellerAfterTrade(t).holdQty = freeShares[S]
    <2>1. freeS = account[S].balance - account[S].hold + t.price * t.qty
      BY <1>4
    <2> HIDE DEF freeS, fS
    <2>2. /\ SellerAfterTrade(t).balance - SellerAfterTrade(t).hold
                = M!LeftAfter(freeS, Fee(S, t))
          /\ SellerAfterTrade(t).debt = account[S].debt + M!OwedAfter(freeS, Fee(S, t))
          /\ SellerAfterTrade(t).shares - SellerAfterTrade(t).holdQty
                = account[S].shares - account[S].holdQty
      BY <1>1, <2>1, SellerFacts
    <2>3. QED
      BY <1>4, <2>2 DEF fS
  <1> HIDE DEF B, S, freeB, freeS, fB, fS
  <1>7. /\ freeCash' = [freeCash EXCEPT ![B] = M!LeftAfter(freeB, fB),
                                        ![S] = M!LeftAfter(freeS, fS)]
        /\ freeShares' = [freeShares EXCEPT ![B] = freeShares[B] + n,
                                            ![S] = freeShares[S]]
        /\ debt' = [debt EXCEPT ![B] = debt[B] + M!OwedAfter(freeB, fB),
                                ![S] = debt[S] + M!OwedAfter(freeS, fS)]
    <2> DEFINE b == BuyerAfterTrade(t)
               s == SellerAfterTrade(t)
    <2>1. /\ b.balance - b.hold = M!LeftAfter(freeB, fB)
          /\ b.debt = debt[B] + M!OwedAfter(freeB, fB)
          /\ b.shares - b.holdQty = freeShares[B] + n
      BY <1>5
    <2>2. /\ s.balance - s.hold = M!LeftAfter(freeS, fS)
          /\ s.debt = debt[S] + M!OwedAfter(freeS, fS)
          /\ s.shares - s.holdQty = freeShares[S]
      BY <1>6
    <2>3. account' = UpdateTwo(account, B, b, S, s)
      BY <1>2 DEF UpdateTwo
    <2>4. account \in [Accounts -> AccountRows] /\ B \in Accounts /\ S \in Accounts /\ B # S
      BY <1>1, <1>2
    <2> HIDE DEF b, s
    <2>5. /\ freeCash' = UpdateTwo(freeCash, B, b.balance - b.hold, S, s.balance - s.hold)
          /\ freeShares' = UpdateTwo(freeShares, B, b.shares - b.holdQty,
                                                S, s.shares - s.holdQty)
          /\ debt' = UpdateTwo(debt, B, b.debt, S, s.debt)
      BY <2>3, <2>4, TwoAccountsStep
    <2>6. QED
      BY <2>1, <2>2, <2>5 DEF UpdateTwo
  <1>8. freeShares' = [freeShares EXCEPT ![B] = freeShares[B] + n]
    BY <1>1, <1>7 DEF freeShares
  <1>9. /\ phase[t.buy] = "live" /\ phase[t.sell] = "live"
        /\ n <= M!Remaining(t.buy) /\ n <= M!Remaining(t.sell)
    BY <1>1, TradedOrder
  <1>10. /\ phase' = [phase EXCEPT ![t.buy] = M!PhaseAfter(t.buy, n),
                                   ![t.sell] = M!PhaseAfter(t.sell, n)]
         /\ unit' = [unit EXCEPT ![t.buy] = unit[t.buy], ![t.sell] = unit[t.sell]]
         /\ executed' = [executed EXCEPT ![t.buy] = executed[t.buy] + n,
                                         ![t.sell] = executed[t.sell] + n]
         /\ escrow' = [escrow EXCEPT ![t.buy] = escrow[t.buy] - unit[t.buy] * n,
                                     ![t.sell] = escrow[t.sell] - n]
    <2> DEFINE b == StateAfterTrade(t.buy, n)
               s == StateAfterTrade(t.sell, n)
    <2>1. Terms[t.buy].side = "BUY" /\ Terms[t.sell].side = "SELL"
      BY DEF Matches
    <2>2. /\ PhaseOf(b) = M!PhaseAfter(t.buy, n)
          /\ b.unit = unit[t.buy] /\ b.filled = executed[t.buy] + n
          /\ EscrowOf(t.buy, b) = escrow[t.buy] - unit[t.buy] * n
      BY <1>1, <2>1, TradedOrder
    <2>3. /\ PhaseOf(s) = M!PhaseAfter(t.sell, n)
          /\ s.unit = unit[t.sell] /\ s.filled = executed[t.sell] + n
          /\ EscrowOf(t.sell, s) = escrow[t.sell] - n
      BY <1>1, <2>1, TradedOrder
    <2> HIDE DEF b, s
    <2>4. order' = UpdateTwo(order, t.buy, b, t.sell, s)
      BY <1>2 DEF b, s, UpdateTwo
    <2>5. /\ phase' = UpdateTwo(phase, t.buy, PhaseOf(b), t.sell, PhaseOf(s))
          /\ unit' = UpdateTwo(unit, t.buy, b.unit, t.sell, s.unit)
          /\ executed' = UpdateTwo(executed, t.buy, b.filled, t.sell, s.filled)
          /\ escrow' = UpdateTwo(escrow, t.buy, EscrowOf(t.buy, b), t.sell, EscrowOf(t.sell, s))
      BY <1>1, <2>4, TwoOrdersStep
    <2>6. QED
      BY <2>2, <2>3, <2>5 DEF UpdateTwo
  <1>11. unit' = unit
    BY <1>10 DEF unit
  <1>12. /\ Side[t.buy] = "BUY" /\ Side[t.sell] = "SELL"
         /\ t.price <= Limit[t.buy] /\ t.price >= Limit[t.sell]
         /\ (t.charged => charging)
         /\ Qty[t.buy] \in Nat /\ Limit[t.buy] \in Nat /\ executed[t.buy] \in Nat
    BY <1>1, TermsFacts DEF Matches, Side, Limit, Qty, executed, LedgerInv, LedgerTypeOK
  <1>13. n \in 1..Qty[t.buy] /\ t.price \in 1..Limit[t.buy]
    BY <1>1, <1>9, <1>12 DEF M!Remaining
  <1>14. M!Execute(t.buy, t.sell, n, t.price, t.charged)
    <2>1. M!ExecuteAnySize(t.buy, t.sell, n, t.price, t.charged)
      BY <1>1, <1>3, <1>7, <1>8, <1>9, <1>10, <1>11, <1>12
      DEF M!ExecuteAnySize, B, S, freeB, freeS
    <2>2. QED
      BY <1>9, <2>1 DEF M!Execute
  <1>15. QED
    BY <1>1, <1>13, <1>14 DEF M!Trade

LEMMA SettleStep ==
    ASSUME LedgerInv, NEW i \in DOMAIN log, Settle(i)
    PROVE  M!Next \/ UNCHANGED M!mvars
  <1>1. CASE i \notin processed /\ IsTrade(i)
    BY <1>1, SettledRowFacts, TradeStep DEF M!Next
  <1>2. CASE i \notin processed /\ ~IsTrade(i) /\ ~Stale(log[i])
    <2>1. log[i].order \in Orders
      BY <1>2, SettledRowFacts DEF CloseRows
    <2>2. M!Close(log[i].order)
      BY <1>2, SettledRowFacts, CloseStep
    <2>3. QED
      BY <2>1, <2>2 DEF M!Next
  <1>3. CASE i \in processed \/ (~IsTrade(i) /\ Stale(log[i]))
    BY <1>3, NoEffect, UnchangedStep
  <1>4. QED
    BY <1>1, <1>2, <1>3

LEMMA NextIsMarketNext == LedgerInv /\ [LedgerNext]_ledgerVars => [M!Next]_(M!mvars)
  <1> SUFFICES ASSUME LedgerInv, [LedgerNext]_ledgerVars
               PROVE  M!Next \/ UNCHANGED M!mvars
    OBVIOUS
  <1>1. CASE StartCharging
    BY <1>1, StartChargingStep DEF M!Next
  <1>2. CASE \E o \in Orders : PlaceOrder(o)
    BY <1>2, PlaceOrderStep DEF M!Next
  <1>3. CASE Record
    BY <1>3, UnchangedStep DEF Record
  <1>4. CASE \E i \in DOMAIN log : Settle(i)
    BY <1>4, SettleStep
  <1>5. CASE UNCHANGED ledgerVars
    BY <1>5, UnchangedStep DEF ledgerVars
  <1>6. QED
    BY <1>1, <1>2, <1>3, <1>4, <1>5 DEF LedgerNext

----------------------------------------------------------------------------
\* The tables keep their types, and only rows of the log are settled: place,
\* settleTrade, closeOrder and the guard on processed_events.
THEOREM LedgerTypeCorrect == LedgerSpec => []LedgerTypeOK
  BY LedgerInvariant, PTL DEF LedgerInv

\* Whatever rows the matching engine records and however often and in whatever
\* order they are settled, the tables change as Market does (settleTrade,
\* closeOrder, stateAfterTrade, stateAfterClose, place).
THEOREM LedgerImplementsMarket == LedgerSpec => ImplementsMarket
  BY InitIsMarketInit, NextIsMarketNext, LedgerInvariant, PTL
  DEF LedgerSpec, ImplementsMarket, M!Spec

\* What is proved of Market is proved of this instance of it.
LEMMA SameMarket == M!Spec => MP!Spec
  <1>1. M!Init => MP!Init
    BY DEF M!Init, MP!Init
  <1>2. M!StartCharging => MP!StartCharging
    BY DEF M!StartCharging, MP!StartCharging
  <1>3. ASSUME NEW o \in Orders, M!Submit(o)
        PROVE  MP!Submit(o)
    BY <1>3
    DEF M!Submit, MP!Submit, M!CanSubmit, MP!CanSubmit, M!ReserveAt, MP!ReserveAt,
        M!UnitReserve, MP!UnitReserve, M!HoldWithFee, MP!HoldWithFee, M!TradingFee,
        MP!TradingFee
  <1>4. ASSUME NEW b \in Orders, NEW s \in Orders, NEW n, NEW p, NEW c,
               M!Execute(b, s, n, p, c)
        PROVE  MP!Execute(b, s, n, p, c)
    BY <1>4
    DEF M!Execute, MP!Execute, M!ExecuteAnySize, MP!ExecuteAnySize, M!Remaining,
        MP!Remaining, M!PhaseAfter, MP!PhaseAfter, M!Fee, MP!Fee, M!OwedAfter,
        MP!OwedAfter, M!LeftAfter, MP!LeftAfter, M!TradingFee, MP!TradingFee
  <1>5. ASSUME NEW o \in Orders, M!Close(o)
        PROVE  MP!Close(o)
    BY <1>5 DEF M!Close, MP!Close
  <1>6. [M!Next]_(M!mvars) => [MP!Next]_(MP!mvars)
    BY <1>2, <1>3, <1>4, <1>5 DEF M!Next, MP!Next, M!Trade, MP!Trade, M!mvars, MP!mvars
  <1>7. QED
    BY <1>1, <1>6, PTL DEF M!Spec, MP!Spec

\* The database constraints on holds never fail a settlement or an order.
THEOREM LedgerHoldsAreFunded == LedgerSpec => []HoldsAreFunded
  <1>1. MP!Spec => []MP!Solvent
    BY MP!MarketSolvent, MarketConstants, FeesAssumption DEF MP!FeesAssumption
  <1>2. LedgerTypeOK /\ MP!Solvent => HoldsAreFunded
    BY DEF LedgerTypeOK, MP!Solvent, HoldsAreFunded, freeCash, freeShares
  <1>3. QED
    BY <1>1, <1>2, SameMarket, LedgerTypeCorrect, LedgerImplementsMarket, PTL DEF ImplementsMarket

\* Only the owner of a buy from before fees were charged can owe a fee.
THEOREM LedgerDebtOnlyOfOldOrders == LedgerSpec => []DebtOnlyOfOldOrders
  <1>1. MP!Spec => []MP!DebtOnlyOfUnreservedFees
    BY MP!MarketDebtOnlyOfUnreservedFees, MarketConstants, FeesAssumption
    DEF MP!FeesAssumption
  <1>2. LedgerTypeOK /\ MP!DebtOnlyOfUnreservedFees => DebtOnlyOfOldOrders
    BY DEF LedgerTypeOK, MP!DebtOnlyOfUnreservedFees, DebtOnlyOfOldOrders, debt, phase, unit,
           Owner, Side, Limit
  <1>3. QED
    BY <1>1, <1>2, SameMarket, LedgerTypeCorrect, LedgerImplementsMarket, PTL DEF ImplementsMarket

----------------------------------------------------------------------------
(***************************************************************************)
(* What is on hold is what the orders that are live may still take: a sum  *)
(* over the orders placed, of which there are finitely many at any time.   *)
(***************************************************************************)
OrderRows == [status : {"NONE", "OPEN", "PARTIAL", "FILLED", "CANCELED"}, filled : Nat,
              unit : Nat]

OrderTables == [Orders -> OrderRows]

PlacedIn(table) == {o \in Orders : table[o].status # "NONE"}

\* What the order takes of its owner's hold on that side.
Part(table, a, side) ==
    [o \in Orders |-> IF Terms[o].acct = a /\ Terms[o].side = side
                      THEN EscrowOf(o, table[o]) ELSE 0]

Reserved(table, a, side) == SumOver(Part(table, a, side), PlacedIn(table))

HoldsExact ==
    /\ IsFiniteSet(PlacedIn(order))
    /\ \A a \in Accounts : /\ account[a].hold = Reserved(order, a, "BUY")
                           /\ account[a].holdQty = Reserved(order, a, "SELL")

LEMMA EscrowType ==
    ASSUME NEW o \in Orders, NEW row \in OrderRows
    PROVE  EscrowOf(o, row) \in Int
  <1>1. row.filled \in Nat /\ row.unit \in Nat /\ Terms[o].qty \in Nat
    BY TermsFacts DEF OrderRows
  <1>2. Terms[o].qty - row.filled \in Int /\ row.unit * (Terms[o].qty - row.filled) \in Int
    BY <1>1
  <1> QED BY <1>2 DEF EscrowOf

LEMMA PartType ==
    ASSUME NEW table \in OrderTables, NEW a, NEW side, NEW f, f = Part(table, a, side)
    PROVE  /\ \A o \in Orders : f[o] \in Int
           /\ \A o \in PlacedIn(table) : o \in Orders /\ f[o] \in Int
  BY EscrowType DEF OrderTables, Part, PlacedIn

\* One order changes: the hold of its owner changes by what it takes more or less.
ChangeOf(old, new, o, a, side) ==
    IF Terms[o].acct = a /\ Terms[o].side = side THEN EscrowOf(o, new[o]) - EscrowOf(o, old[o])
    ELSE 0

LEMMA ReservedChange ==
    ASSUME NEW old \in OrderTables, IsFiniteSet(PlacedIn(old)), NEW o \in PlacedIn(old),
           NEW new \in OrderTables, \A p \in Orders \ {o} : new[p] = old[p],
           new[o].status # "NONE", NEW a, NEW side
    PROVE  /\ PlacedIn(new) = PlacedIn(old)
           /\ Reserved(new, a, side) = Reserved(old, a, side) + ChangeOf(old, new, o, a, side)
  <1>1. /\ o \in Orders /\ PlacedIn(new) = PlacedIn(old)
    BY DEF PlacedIn
  <1>2. PICK P : P = PlacedIn(old)
    OBVIOUS
  <1>3. PICK f : f = Part(old, a, side)
    OBVIOUS
  <1>4. PICK g : g = Part(new, a, side)
    OBVIOUS
  <1>5. /\ \A p \in P : p \in Orders /\ f[p] \in Int /\ g[p] \in Int
        /\ IsFiniteSet(P) /\ o \in P
    BY <1>1, <1>2, <1>3, <1>4, PartType
  <1>6. \A p \in P \ {o} : g[p] = f[p]
    BY <1>3, <1>4, <1>5 DEF Part
  <1>7. SumOver(g, P) = SumOver(f, P) - f[o] + g[o]
    BY <1>5, <1>6, SumChange
  <1>8. SumOver(f, P) \in Int
    BY <1>5, SumType
  <1>9. g[o] - f[o] = ChangeOf(old, new, o, a, side)
    BY <1>1, <1>3, <1>4 DEF Part, ChangeOf
  <1>10. SumOver(g, P) = SumOver(f, P) + (g[o] - f[o])
    BY <1>5, <1>7, <1>8
  <1> QED BY <1>1, <1>2, <1>3, <1>4, <1>9, <1>10 DEF Reserved

\* An order is placed.
LEMMA PlacedStaysFinite ==
    ASSUME NEW old \in OrderTables, IsFiniteSet(PlacedIn(old)), NEW o \in Orders,
           NEW new \in OrderTables, \A p \in Orders \ {o} : new[p] = old[p],
           new[o].status # "NONE"
    PROVE  IsFiniteSet(PlacedIn(new))
  <1>1. PlacedIn(new) = PlacedIn(old) \cup {o}
    BY DEF PlacedIn
  <1> QED BY <1>1, FS_AddElement

LEMMA ReservedPlaced ==
    ASSUME NEW old \in OrderTables, IsFiniteSet(PlacedIn(old)), NEW o \in Orders,
           old[o].status = "NONE",
           NEW new \in OrderTables, \A p \in Orders \ {o} : new[p] = old[p],
           new[o].status # "NONE", NEW a, NEW side
    PROVE  Reserved(new, a, side) = Reserved(old, a, side) + ChangeOf(old, new, o, a, side)
  <1>1. PICK P : P = PlacedIn(old)
    OBVIOUS
  <1>2. PICK U : U = PlacedIn(new)
    OBVIOUS
  <1>3. PICK f : f = Part(old, a, side)
    OBVIOUS
  <1>4. PICK g : g = Part(new, a, side)
    OBVIOUS
  <1>5. /\ U = P \cup {o} /\ o \notin P /\ IsFiniteSet(P)
    BY <1>1, <1>2 DEF PlacedIn
  <1>6. /\ \A p \in P : p \in Orders /\ f[p] \in Int
        /\ \A p \in U : p \in Orders /\ g[p] \in Int
    BY <1>1, <1>2, <1>3, <1>4, PartType
  <1>7. \A p \in P : g[p] = f[p]
    BY <1>3, <1>4, <1>5, <1>6 DEF Part
  <1>8. SumOver(g, U) = SumOver(g, P) + g[o]
    BY <1>5, <1>6, SumAdd
  <1>9. SumOver(g, P) = SumOver(f, P)
    BY <1>5, <1>6, <1>7, SumSame
  <1>10. g[o] = ChangeOf(old, new, o, a, side)
    <2>1. EscrowOf(o, old[o]) = 0
      BY DEF EscrowOf
    <2>2. EscrowOf(o, new[o]) \in Int
      BY EscrowType DEF OrderTables
    <2> QED BY <1>4, <2>1, <2>2 DEF Part, ChangeOf
  <1> QED BY <1>1, <1>2, <1>3, <1>4, <1>8, <1>9, <1>10 DEF Reserved

----------------------------------------------------------------------------
\* What the transactions do to the holds.
LEMMA TablesOK ==
    ASSUME LedgerInv
    PROVE  /\ order \in OrderTables /\ account \in [Accounts -> AccountRows]
           /\ \A o \in Orders : order[o] \in OrderRows /\ order[o].filled <= Terms[o].qty
  BY DEF LedgerInv, LedgerTypeOK, OrdersAreSound, OrderTables, OrderRows, AccountRows

\* If the order and the holds change alike, the holds stay exact.
HoldsMoveWith(o, new, newAccount) ==
    \A a \in Accounts :
        /\ newAccount[a].hold = account[a].hold + ChangeOf(order, new, o, a, "BUY")
        /\ newAccount[a].holdQty = account[a].holdQty + ChangeOf(order, new, o, a, "SELL")

HoldsExactOf(table, rows) ==
    \A a \in Accounts : /\ rows[a].hold = Reserved(table, a, "BUY")
                        /\ rows[a].holdQty = Reserved(table, a, "SELL")

LEMMA PlaceHolds ==
    ASSUME LedgerInv, LedgerInv', HoldsExact, NEW o \in Orders, PlaceOrder(o)
    PROVE  HoldsExact'
  <1>1. /\ order[o].status = "NONE"
        /\ account' = [account EXCEPT ![Terms[o].acct] = WithReserve(o)]
        /\ order' = [order EXCEPT ![o] = [status |-> "OPEN", filled |-> 0,
                                          unit |-> HoldPerUnit(o)]]
    BY DEF PlaceOrder
  <1>2. /\ Terms[o].acct \in Accounts /\ Terms[o].qty \in Nat \ {0} /\ HoldPerUnit(o) \in Nat
        /\ Terms[o].side \in {"BUY", "SELL"}
    BY TermsFacts, HoldPerUnitType
  <1>3. /\ order \in OrderTables /\ order' \in OrderTables
        /\ account \in [Accounts -> AccountRows]
    <2>1. (order \in OrderTables)'
      BY DEF LedgerInv, LedgerTypeOK, OrderTables, OrderRows
    <2> QED BY <2>1, TablesOK
  <1>4. /\ \A p \in Orders \ {o} : order'[p] = order[p]
        /\ order'[o].status = "OPEN" /\ order'[o].filled = 0 /\ order'[o].unit = HoldPerUnit(o)
    BY <1>1, <1>3 DEF OrderTables
  <1>5. PICK r : r = HoldPerUnit(o) * Terms[o].qty
    OBVIOUS
  <1>6. r \in Nat
    BY <1>2, <1>5
  <1>7. EscrowOf(o, order[o]) = 0 /\ EscrowOf(o, order'[o]) = IF Terms[o].side = "BUY" THEN r ELSE Terms[o].qty
    BY <1>1, <1>2, <1>4, <1>5 DEF EscrowOf
  <1>8. HoldsMoveWith(o, order', account')
    <2> SUFFICES ASSUME NEW a \in Accounts
                 PROVE  /\ account'[a].hold = account[a].hold + ChangeOf(order, order', o, a, "BUY")
                        /\ account'[a].holdQty = account[a].holdQty + ChangeOf(order, order', o, a, "SELL")
      BY DEF HoldsMoveWith
    <2>1. account[a] \in AccountRows /\ account[a].hold \in Int /\ account[a].holdQty \in Int
      BY <1>3, RowTypes
    <2>2. CASE a # Terms[o].acct
      <3>1. account'[a] = account[a]
        BY <1>1, <1>3, <2>2
      <3> QED BY <2>1, <2>2, <3>1 DEF ChangeOf
    <2>3. CASE a = Terms[o].acct /\ Terms[o].side = "BUY"
      <3>1. account'[a] = [account[a] EXCEPT !.hold = account[a].hold + r]
        BY <1>1, <1>3, <1>5, <2>3 DEF WithReserve
      <3>2. account'[a].hold = account[a].hold + r /\ account'[a].holdQty = account[a].holdQty
        BY <2>1, <3>1 DEF AccountRows
      <3>3. /\ ChangeOf(order, order', o, a, "BUY") = r
            /\ ChangeOf(order, order', o, a, "SELL") = 0
        BY <1>6, <1>7, <2>3 DEF ChangeOf
      <3> QED BY <2>1, <3>2, <3>3
    <2>4. CASE a = Terms[o].acct /\ Terms[o].side = "SELL"
      <3>1. account'[a] = [account[a] EXCEPT !.holdQty = account[a].holdQty + Terms[o].qty]
        BY <1>1, <1>3, <2>4 DEF WithReserve
      <3>2. account'[a].hold = account[a].hold
            /\ account'[a].holdQty = account[a].holdQty + Terms[o].qty
        BY <2>1, <3>1 DEF AccountRows
      <3>3. /\ ChangeOf(order, order', o, a, "SELL") = Terms[o].qty
            /\ ChangeOf(order, order', o, a, "BUY") = 0
        BY <1>2, <1>7, <2>4 DEF ChangeOf
      <3> QED BY <2>1, <3>2, <3>3
    <2> QED BY <1>2, <2>2, <2>3, <2>4
  <1>11. /\ order[o].status = "NONE" /\ order'[o].status # "NONE" /\ IsFiniteSet(PlacedIn(order))
         /\ \A p \in Orders \ {o} : order'[p] = order[p]
         /\ order \in OrderTables /\ order' \in OrderTables
    BY <1>1, <1>3, <1>4 DEF HoldsExact
  <1>9. IsFiniteSet(PlacedIn(order'))
    BY <1>1, <1>3, <1>4, <1>11, PlacedStaysFinite
  <1>10. HoldsExactOf(order', account')
    <2> SUFFICES ASSUME NEW a \in Accounts
                 PROVE  /\ account'[a].hold = Reserved(order', a, "BUY")
                        /\ account'[a].holdQty = Reserved(order', a, "SELL")
      BY DEF HoldsExactOf
    <2>1. Reserved(order', a, "BUY") = Reserved(order, a, "BUY") + ChangeOf(order, order', o, a, "BUY")
      BY <1>11, ReservedPlaced
    <2>2. Reserved(order', a, "SELL") = Reserved(order, a, "SELL") + ChangeOf(order, order', o, a, "SELL")
      BY <1>11, ReservedPlaced
    <2> QED BY <1>8, <2>1, <2>2 DEF HoldsMoveWith, HoldsExact
  <1> QED BY <1>9, <1>10 DEF HoldsExactOf, HoldsExact

LEMMA CloseHolds ==
    ASSUME LedgerInv, LedgerInv', HoldsExact,
           NEW c \in CloseRows, order[c.order].status # "NONE",
           ~CloseMustWait(c), ~Stale(c), CloseOrder(c),
           NEW o, o = c.order,
           NEW rest, rest = Terms[o].qty - order[o].filled
    PROVE  HoldsExact'
  <1>1. PICK held : held = order[o].unit * rest
    OBVIOUS
  <1>2. /\ o \in Orders /\ Active(o) /\ Terms[o].acct \in Accounts /\ c.status \in {"FILLED", "CANCELED"}
        /\ rest \in Nat /\ held \in Nat
    BY <1>1, CloseFacts
  <1>3. order' = [order EXCEPT ![o] = [@ EXCEPT !.status = c.status]]
    BY CloseFacts
  <1>4. account' = [account EXCEPT ![Terms[o].acct] =
                IF Terms[o].side = "BUY"
                THEN [account[Terms[o].acct] EXCEPT !.hold = @ - held]
                ELSE [account[Terms[o].acct] EXCEPT !.holdQty = @ - rest]]
    BY <1>1, CloseFacts, SMTT(60)
  <1>5. /\ order \in OrderTables /\ order' \in OrderTables
        /\ account \in [Accounts -> AccountRows]
    <2>1. (order \in OrderTables)'
      BY DEF LedgerInv, LedgerTypeOK, OrderTables, OrderRows
    <2> QED BY <2>1, TablesOK
  <1>6. /\ \A p \in Orders \ {o} : order'[p] = order[p]
        /\ order'[o].status = c.status /\ o \in PlacedIn(order)
    BY <1>2, <1>3, <1>5 DEF OrderTables, OrderRows, PlacedIn
  <1>7. EscrowOf(o, order'[o]) = 0
        /\ EscrowOf(o, order[o]) = IF Terms[o].side = "BUY" THEN held ELSE rest
    BY <1>1, <1>2, <1>6 DEF EscrowOf, Active
  <1>8. HoldsMoveWith(o, order', account')
    <2> SUFFICES ASSUME NEW a \in Accounts
                 PROVE  /\ account'[a].hold = account[a].hold + ChangeOf(order, order', o, a, "BUY")
                        /\ account'[a].holdQty = account[a].holdQty + ChangeOf(order, order', o, a, "SELL")
      BY DEF HoldsMoveWith
    <2>1. account[a] \in AccountRows /\ account[a].hold \in Int /\ account[a].holdQty \in Int
      BY <1>5, RowTypes
    <2>2. CASE a # Terms[o].acct
      <3>1. account'[a] = account[a]
        BY <1>4, <1>5, <2>2
      <3> QED BY <2>1, <2>2, <3>1 DEF ChangeOf
    <2>3. CASE a = Terms[o].acct /\ Terms[o].side = "BUY"
      <3>1. account'[a] = [account[a] EXCEPT !.hold = account[a].hold - held]
        BY <1>4, <1>5, <2>3
      <3>2. account'[a].hold = account[a].hold - held /\ account'[a].holdQty = account[a].holdQty
        BY <2>1, <3>1 DEF AccountRows
      <3>3. /\ ChangeOf(order, order', o, a, "BUY") = 0 - held
            /\ ChangeOf(order, order', o, a, "SELL") = 0
        BY <1>2, <1>7, <2>3 DEF ChangeOf
      <3> QED BY <1>2, <2>1, <3>2, <3>3
    <2>4. CASE a = Terms[o].acct /\ Terms[o].side # "BUY"
      <3>1. account'[a] = [account[a] EXCEPT !.holdQty = account[a].holdQty - rest]
        BY <1>4, <1>5, <2>4
      <3>2. account'[a].hold = account[a].hold
            /\ account'[a].holdQty = account[a].holdQty - rest
        BY <2>1, <3>1 DEF AccountRows
      <3>3. Terms[o].side = "SELL"
        BY <1>2, <2>4, TermsFacts
      <3>4. /\ ChangeOf(order, order', o, a, "SELL") = 0 - rest
            /\ ChangeOf(order, order', o, a, "BUY") = 0
        BY <1>2, <1>7, <2>4, <3>3 DEF ChangeOf
      <3> QED BY <1>2, <2>1, <3>2, <3>4
    <2> QED BY <2>2, <2>3, <2>4
  <1>9. order'[o].status # "NONE" /\ IsFiniteSet(PlacedIn(order))
    BY <1>2, <1>6 DEF HoldsExact
  <1>10. PlacedIn(order') = PlacedIn(order)
    BY <1>5, <1>6, <1>9, ReservedChange
  <1>11. HoldsExactOf(order', account')
    <2> SUFFICES ASSUME NEW a \in Accounts
                 PROVE  /\ account'[a].hold = Reserved(order', a, "BUY")
                        /\ account'[a].holdQty = Reserved(order', a, "SELL")
      BY DEF HoldsExactOf
    <2>1. Reserved(order', a, "BUY") = Reserved(order, a, "BUY") + ChangeOf(order, order', o, a, "BUY")
      BY <1>5, <1>6, <1>9, ReservedChange
    <2>2. Reserved(order', a, "SELL") = Reserved(order, a, "SELL") + ChangeOf(order, order', o, a, "SELL")
      BY <1>5, <1>6, <1>9, ReservedChange
    <2> QED BY <1>8, <2>1, <2>2 DEF HoldsMoveWith, HoldsExact
  <1> QED BY <1>9, <1>10, <1>11 DEF HoldsExactOf, HoldsExact

LEMMA TradedEscrow ==
    ASSUME LedgerInv, NEW o \in Orders, NEW n \in Nat \ {0}, AcceptsTrade(o, n)
    PROVE  EscrowOf(o, StateAfterTrade(o, n)) - EscrowOf(o, order[o])
             = IF Terms[o].side = "BUY" THEN 0 - order[o].unit * n ELSE 0 - n
  <1>1. /\ escrow[o] = EscrowOf(o, order[o]) /\ unit[o] = order[o].unit
        /\ order[o].unit \in Nat /\ escrow[o] \in Int
    <2>1. order[o] \in OrderRows
      BY TablesOK
    <2>2. escrow[o] = EscrowOf(o, order[o]) /\ unit[o] = order[o].unit
      BY DEF escrow, EscrowOf, Active, unit
    <2> QED BY <2>1, <2>2, EscrowType DEF OrderRows
  <1>2. order[o].unit * n \in Nat
    BY <1>1
  <1>3. EscrowOf(o, StateAfterTrade(o, n))
            = IF Terms[o].side = "BUY" THEN escrow[o] - order[o].unit * n ELSE escrow[o] - n
    BY <1>1, TradedOrder
  <1> QED BY <1>1, <1>2, <1>3

\* What a fee leaves alone.
LEMMA ChargeFeeKeepsHolds ==
    ASSUME NEW row \in AccountRows, NEW fee
    PROVE  ChargeFee(row, fee).hold = row.hold /\ ChargeFee(row, fee).holdQty = row.holdQty
  BY DEF ChargeFee, AccountRows

LEMMA TradeHolds ==
    ASSUME LedgerInv, LedgerInv', HoldsExact, NEW t \in TradeRows, Matches(t),
           AcceptsTrade(t.buy, t.qty), AcceptsTrade(t.sell, t.qty), SettleTrade(t)
    PROVE  HoldsExact'
  <1>1. PICK B : B = Terms[t.buy].acct
    OBVIOUS
  <1>2. PICK S : S = Terms[t.sell].acct
    OBVIOUS
  <1>3. PICK n : n = t.qty
    OBVIOUS
  <1>4. PICK held : held = order[t.buy].unit * n
    OBVIOUS
  <1>5. PICK b : b = StateAfterTrade(t.buy, n)
    OBVIOUS
  <1>6. PICK s : s = StateAfterTrade(t.sell, n)
    OBVIOUS
  <1>7. PICK mid : mid = [order EXCEPT ![t.buy] = b]
    OBVIOUS
  <1>8. /\ t.buy \in Orders /\ t.sell \in Orders /\ t.buy # t.sell
        /\ B \in Accounts /\ S \in Accounts /\ B # S
        /\ n \in Nat \ {0} /\ order[t.buy].unit \in Nat /\ held \in Nat
        /\ Terms[t.buy].side = "BUY" /\ Terms[t.sell].side = "SELL"
    BY <1>1, <1>2, <1>3, <1>4, TradeFacts DEF Matches
  <1>9. /\ order \in OrderTables /\ order' \in OrderTables
        /\ account \in [Accounts -> AccountRows]
    <2>1. (order \in OrderTables)'
      BY DEF LedgerInv, LedgerTypeOK, OrderTables, OrderRows
    <2> QED BY <2>1, TablesOK
  <1>10. /\ account' = [account EXCEPT ![B] = BuyerAfterTrade(t), ![S] = SellerAfterTrade(t)]
         /\ order' = [order EXCEPT ![t.buy] = b, ![t.sell] = s]
    BY <1>1, <1>2, <1>3, <1>5, <1>6 DEF SettleTrade
  <1>11. /\ order'[t.buy] = b /\ order'[t.sell] = s
         /\ \A p \in Orders \ {t.buy, t.sell} : order'[p] = order[p]
    BY <1>8, <1>9, <1>10 DEF OrderTables
  <1>12. /\ b \in OrderRows /\ s \in OrderRows
    BY <1>8, <1>9, <1>11 DEF OrderTables
  <1>13. b.status # "NONE" /\ s.status # "NONE"
    <2>1. \A o \in {t.buy, t.sell} : order[o] \in OrderRows
      BY <1>8, TablesOK
    <2>2. /\ b.status \in {"FILLED", "PARTIAL"}
          /\ s.status \in {"FILLED", "PARTIAL"}
      BY <1>5, <1>6, <2>1 DEF StateAfterTrade, OrderRows
    <2> QED BY <2>2
  <1>14. /\ mid \in OrderTables /\ mid[t.buy] = b
         /\ \A p \in Orders \ {t.buy} : mid[p] = order[p]
         /\ t.buy \in PlacedIn(order) /\ IsFiniteSet(PlacedIn(order))
         /\ t.sell \in PlacedIn(order)
    BY <1>7, <1>8, <1>9, <1>12 DEF OrderTables, PlacedIn, HoldsExact, Matches
  <1>15. mid[t.buy].status # "NONE" /\ order'[t.sell].status # "NONE"
         /\ \A p \in Orders \ {t.sell} : order'[p] = mid[p]
    BY <1>8, <1>11, <1>13, <1>14
  <1>16. PlacedIn(mid) = PlacedIn(order)
    BY <1>9, <1>14, <1>15, ReservedChange
  <1>17. t.sell \in PlacedIn(mid) /\ IsFiniteSet(PlacedIn(mid))
    BY <1>14, <1>16
  <1>18. PlacedIn(order') = PlacedIn(mid)
    BY <1>9, <1>14, <1>15, <1>17, ReservedChange
  <1>19. /\ EscrowOf(t.buy, b) - EscrowOf(t.buy, order[t.buy]) = 0 - held
         /\ EscrowOf(t.sell, s) - EscrowOf(t.sell, order[t.sell]) = 0 - n
    <2>1. AcceptsTrade(t.buy, n) /\ AcceptsTrade(t.sell, n)
      BY <1>3
    <2> QED BY <1>4, <1>5, <1>6, <1>8, <2>1, TradedEscrow
  <1>20. ASSUME NEW a \in Accounts
         PROVE  /\ ChangeOf(order, mid, t.buy, a, "BUY") = IF a = B THEN 0 - held ELSE 0
                /\ ChangeOf(order, mid, t.buy, a, "SELL") = 0
                /\ ChangeOf(mid, order', t.sell, a, "BUY") = 0
                /\ ChangeOf(mid, order', t.sell, a, "SELL") = IF a = S THEN 0 - n ELSE 0
    <2>1. mid[t.sell] = order[t.sell]
      BY <1>8, <1>14
    <2> QED BY <1>1, <1>2, <1>8, <1>11, <1>14, <1>19, <2>1 DEF ChangeOf
  <1>21. ASSUME NEW a \in Accounts
         PROVE  /\ account'[a].hold = account[a].hold + (IF a = B THEN 0 - held ELSE 0)
                /\ account'[a].holdQty = account[a].holdQty + (IF a = S THEN 0 - n ELSE 0)
    <2>1. account[a] \in AccountRows /\ account[a].hold \in Int /\ account[a].holdQty \in Int
      BY <1>9, RowTypes
    <2>2. CASE a = B
      <3>1. account'[a] = BuyerAfterTrade(t)
        BY <1>8, <1>9, <1>10, <2>2
      <3>2. PICK row : row = [account[a] EXCEPT !.balance = @ - t.price * t.qty,
                                 !.hold = @ - order[t.buy].unit * t.qty,
                                 !.shares = @ + t.qty]
        OBVIOUS
      <3>3. account'[a] = ChargeFee(row, Fee(a, t))
        BY <1>1, <2>2, <3>1, <3>2 DEF BuyerAfterTrade
      <3>4. row \in AccountRows /\ row.hold = account[a].hold - held /\ row.holdQty = account[a].holdQty
        <4>1. t.price * t.qty \in Nat /\ t.qty \in Nat
          BY TradeFacts
        <4>2. PICK x, y, z : /\ x = account[a].balance - t.price * t.qty
                             /\ y = account[a].hold - held /\ z = account[a].shares + t.qty
          OBVIOUS
        <4>3. x \in Int /\ y \in Int /\ z \in Int
          BY <1>8, <2>1, <4>1, <4>2, RowTypes
        <4>4. row = [account[a] EXCEPT !.balance = x, !.hold = y, !.shares = z]
          BY <1>3, <1>4, <3>2, <4>2
        <4> QED BY <2>1, <4>2, <4>3, <4>4 DEF AccountRows
      <3> QED BY <1>8, <2>1, <2>2, <3>3, <3>4, ChargeFeeKeepsHolds
    <2>3. CASE a = S
      <3>1. account'[a] = SellerAfterTrade(t)
        BY <1>8, <1>9, <1>10, <2>3
      <3>2. PICK row : row = [account[a] EXCEPT !.balance = @ + t.price * t.qty,
                                 !.shares = @ - t.qty,
                                 !.holdQty = @ - t.qty]
        OBVIOUS
      <3>3. account'[a] = ChargeFee(row, Fee(a, t))
        BY <1>2, <2>3, <3>1, <3>2 DEF SellerAfterTrade
      <3>4. row \in AccountRows /\ row.hold = account[a].hold /\ row.holdQty = account[a].holdQty - n
        <4>1. t.price * t.qty \in Nat /\ t.qty \in Nat
          BY TradeFacts
        <4>2. PICK x, y, z : /\ x = account[a].balance + t.price * t.qty
                             /\ y = account[a].shares - t.qty /\ z = account[a].holdQty - n
          OBVIOUS
        <4>3. x \in Int /\ y \in Int /\ z \in Int
          BY <1>8, <2>1, <4>1, <4>2, RowTypes
        <4>4. row = [account[a] EXCEPT !.balance = x, !.shares = y, !.holdQty = z]
          BY <1>3, <3>2, <4>2
        <4> QED BY <2>1, <4>2, <4>3, <4>4 DEF AccountRows
      <3> QED BY <1>8, <2>1, <2>3, <3>3, <3>4, ChargeFeeKeepsHolds
    <2>4. CASE a # B /\ a # S
      <3>1. account'[a] = account[a]
        BY <1>9, <1>10, <2>4
      <3> QED BY <2>1, <2>4, <3>1
    <2> QED BY <2>2, <2>3, <2>4
  <1>22. HoldsExactOf(order', account')
    <2> SUFFICES ASSUME NEW a \in Accounts
                 PROVE  /\ account'[a].hold = Reserved(order', a, "BUY")
                        /\ account'[a].holdQty = Reserved(order', a, "SELL")
      BY DEF HoldsExactOf
    <2>1. /\ Reserved(mid, a, "BUY") = Reserved(order, a, "BUY") + ChangeOf(order, mid, t.buy, a, "BUY")
          /\ Reserved(mid, a, "SELL") = Reserved(order, a, "SELL") + ChangeOf(order, mid, t.buy, a, "SELL")
      BY <1>9, <1>14, <1>15, ReservedChange
    <2>2. /\ Reserved(order', a, "BUY") = Reserved(mid, a, "BUY") + ChangeOf(mid, order', t.sell, a, "BUY")
          /\ Reserved(order', a, "SELL") = Reserved(mid, a, "SELL") + ChangeOf(mid, order', t.sell, a, "SELL")
      BY <1>9, <1>14, <1>15, <1>17, ReservedChange
    <2>3. /\ account[a].hold = Reserved(order, a, "BUY") /\ account[a].hold \in Int
          /\ account[a].holdQty = Reserved(order, a, "SELL") /\ account[a].holdQty \in Int
      <3>1. account[a] \in AccountRows
        BY <1>9
      <3> QED BY <3>1, RowTypes DEF HoldsExact
    <2> QED BY <1>8, <1>20, <1>21, <2>1, <2>2, <2>3
  <1> QED BY <1>14, <1>16, <1>18, <1>22 DEF HoldsExactOf, HoldsExact

LEMMA SettleHolds ==
    ASSUME LedgerInv, LedgerInv', HoldsExact, NEW i \in DOMAIN log, Settle(i)
    PROVE  HoldsExact'
  <1>1. CASE i \notin processed /\ IsTrade(i)
    BY <1>1, SettledRowFacts, TradeHolds
  <1>2. CASE i \notin processed /\ ~IsTrade(i) /\ ~Stale(log[i])
    BY <1>2, SettledRowFacts, CloseHolds
  <1>3. CASE i \in processed \/ (~IsTrade(i) /\ Stale(log[i]))
    BY <1>3, NoEffect DEF HoldsExact
  <1>4. QED
    BY <1>1, <1>2, <1>3

LEMMA InitHolds == LedgerInit => HoldsExact
  <1> SUFFICES ASSUME LedgerInit PROVE HoldsExact
    OBVIOUS
  <1>1. PlacedIn(order) = {} /\ IsFiniteSet({})
    BY FS_EmptySet DEF LedgerInit, PlacedIn
  <1>2. \A a \in Accounts : account[a].hold = 0 /\ account[a].holdQty = 0
    BY DEF LedgerInit
  <1>3. \A a, side : Reserved(order, a, side) = 0
    BY <1>1, SumEmpty DEF Reserved
  <1> QED BY <1>1, <1>2, <1>3 DEF HoldsExact

LEMMA NextHolds == LedgerInv /\ LedgerInv' /\ HoldsExact /\ [LedgerNext]_ledgerVars => HoldsExact'
  <1> SUFFICES ASSUME LedgerInv, LedgerInv', HoldsExact, [LedgerNext]_ledgerVars
               PROVE  HoldsExact'
    OBVIOUS
  <1>1. CASE \E o \in Orders : PlaceOrder(o)
    BY <1>1, PlaceHolds
  <1>2. CASE \E i \in DOMAIN log : Settle(i)
    BY <1>2, SettleHolds
  <1>3. CASE StartCharging \/ Record \/ UNCHANGED ledgerVars
    BY <1>3 DEF StartCharging, Record, ledgerVars, HoldsExact
  <1> QED BY <1>1, <1>2, <1>3 DEF LedgerNext

\* The sum over the live orders is the sum over all placed ones.
LEMMA ReservedIsTotal ==
    ASSUME LedgerInv, IsFiniteSet(PlacedIn(order)), NEW a \in Accounts
    PROVE  LET live(side) == {o \in Orders : Active(o) /\ Terms[o].acct = a
                                              /\ Terms[o].side = side}
               rest(o) == Terms[o].qty - order[o].filled
           IN  /\ Reserved(order, a, "BUY") = Total([o \in live("BUY") |-> order[o].unit * rest(o)])
               /\ Reserved(order, a, "SELL") = Total([o \in live("SELL") |-> rest(o)])
  <1> DEFINE live(side) == {o \in Orders : Active(o) /\ Terms[o].acct = a /\ Terms[o].side = side}
             rest(o) == Terms[o].qty - order[o].filled
  <1>1. PICK P : P = PlacedIn(order)
    OBVIOUS
  <1>2. \A o \in Orders : Terms[o].qty \in Nat /\ order[o] \in OrderRows /\ rest(o) \in Int
                             /\ order[o].unit * rest(o) \in Int
    <2> SUFFICES ASSUME NEW o \in Orders
                 PROVE  Terms[o].qty \in Nat /\ order[o] \in OrderRows /\ rest(o) \in Int
                             /\ order[o].unit * rest(o) \in Int
      OBVIOUS
    <2>1. Terms[o].qty \in Nat /\ order[o] \in OrderRows
      BY TermsFacts, TablesOK
    <2>2. order[o].unit \in Nat /\ order[o].filled \in Nat
      BY <2>1 DEF OrderRows
    <2>3. rest(o) \in Int
      BY <2>1, <2>2
    <2> HIDE DEF rest
    <2>4. order[o].unit * rest(o) \in Int
      BY <2>2, <2>3
    <2> QED BY <2>1, <2>3, <2>4
  <1>3. \A side : live(side) \subseteq P
    BY <1>1 DEF PlacedIn, Active
  <1>4. Reserved(order, a, "BUY") = Total([o \in live("BUY") |-> order[o].unit * rest(o)])
    <2>1. PICK T : T = live("BUY")
      OBVIOUS
    <2>2. PICK f : f = [o \in T |-> order[o].unit * rest(o)]
      OBVIOUS
    <2>3. PICK h : h = Part(order, a, "BUY")
      OBVIOUS
    <2>4. /\ T \in SUBSET P /\ DOMAIN f = T /\ IsFiniteSet(P)
          /\ \A o \in T : f[o] \in Int
      <3>1. T \subseteq P /\ T \subseteq Orders
        BY <1>3, <2>1
      <3> HIDE DEF rest
      <3> QED BY <1>1, <1>2, <2>2, <3>1
    <2>5. \A o \in P : h[o] = IF o \in T THEN f[o] ELSE 0
      BY <1>1, <2>1, <2>2, <2>3 DEF Part, PlacedIn, Active, EscrowOf
    <2>6. Total(f) = SumOver(h, P)
      BY <2>4, <2>5, TotalOfPart
    <2> QED BY <1>1, <2>1, <2>2, <2>3, <2>6 DEF Reserved
  <1>5. Reserved(order, a, "SELL") = Total([o \in live("SELL") |-> rest(o)])
    <2>1. PICK T : T = live("SELL")
      OBVIOUS
    <2>2. PICK f : f = [o \in T |-> rest(o)]
      OBVIOUS
    <2>3. PICK h : h = Part(order, a, "SELL")
      OBVIOUS
    <2>4. /\ T \in SUBSET P /\ DOMAIN f = T /\ IsFiniteSet(P)
          /\ \A o \in T : f[o] \in Int
      <3>1. T \subseteq P /\ T \subseteq Orders
        BY <1>3, <2>1
      <3> HIDE DEF rest
      <3> QED BY <1>1, <1>2, <2>2, <3>1
    <2>5. \A o \in P : h[o] = IF o \in T THEN f[o] ELSE 0
      BY <1>1, <2>1, <2>2, <2>3 DEF Part, PlacedIn, Active, EscrowOf
    <2>6. Total(f) = SumOver(h, P)
      BY <2>4, <2>5, TotalOfPart
    <2> QED BY <1>1, <2>1, <2>2, <2>3, <2>6 DEF Reserved
  <1> QED BY <1>4, <1>5

LEMMA HoldsExactAlways == LedgerSpec => []HoldsExact
<1>1. LedgerInit => HoldsExact
  BY InitHolds
<1>2. LedgerInv /\ LedgerInv' /\ HoldsExact /\ [LedgerNext]_ledgerVars => HoldsExact'
  BY NextHolds
<1> QED BY <1>1, <1>2, LedgerInvariant, PTL DEF LedgerSpec

\* Holds neither leak nor are they released twice: whatever rows are recorded and
\* however they are settled, what an account has on hold is what its live orders
\* may still take (settleTrade, closeOrder and place; items 4 and 5 of
\* check-consistency.ts).
THEOREM LedgerHoldsMatchOrders == LedgerSpec => []HoldMatchesActiveOrders
<1>1. LedgerInv /\ HoldsExact => HoldMatchesActiveOrders
  BY ReservedIsTotal DEF HoldsExact, HoldMatchesActiveOrders
<1> QED BY <1>1, LedgerInvariant, HoldsExactAlways, PTL

----------------------------------------------------------------------------
(***************************************************************************)
(* The stream of trades                                                    *)
(***************************************************************************)
(***************************************************************************)
(* The entries up to the last one delivered are pending or settled, and    *)
(* what a trimmer means to remove is delivered and not pending.  Entries   *)
(* become pending only behind the last one delivered: neither can change.  *)
(***************************************************************************)
StreamInv ==
    /\ stream \in Seq(DOMAIN log)
    /\ delivered \in 0..Len(stream)
    /\ pel \subseteq 1..delivered
    /\ \A p \in 1..delivered : p \in pel \/ stream[p] \in processed

Spent(p) == p \in 1..delivered /\ p \notin pel

TrimInv ==
    /\ trimmed \in Nat
    /\ trimmer \in [Workers -> [step : {"idle", "floor", "trim"}, cutoff : Nat]]
    /\ \A p \in 1..trimmed : Spent(p)
    /\ \A w \in Workers : trimmer[w].step = "trim" =>
           \A p \in 1..(trimmer[w].cutoff - 1) : Spent(p)

BusInv == StreamInv /\ TrimInv

LEMMA BusInvInit == BusInit => BusInv
<1> SUFFICES ASSUME BusInit PROVE BusInv
  OBVIOUS
<1> USE DEF BusInit
<1>1. stream \in Seq(DOMAIN log) /\ Len(stream) = 0
  OBVIOUS
<1>2. StreamInv
  BY <1>1 DEF StreamInv
<1>3. TrimInv
  BY DEF TrimInv, Idle
<1> QED
  BY <1>2, <1>3 DEF BusInv

\* What is spent stays so while entries are delivered or acknowledged.
LEMMA SpentForGood ==
  ASSUME BusInv, delivered' \in Nat, delivered <= delivered',
         \A p \in pel' : p \in pel \/ p > delivered
  PROVE  \A p : Spent(p) => Spent(p)'
BY DEF BusInv, StreamInv, Spent

\* A step that leaves the stream alone
LEMMA StreamInvElsewhere ==
  ASSUME StreamInv, UNCHANGED <<stream, delivered, pel>>,
         DOMAIN log \subseteq DOMAIN log', processed \subseteq processed'
  PROVE  StreamInv'
<1>1. stream' \in Seq(DOMAIN log')
  <2>1. stream \in [1..Len(stream) -> DOMAIN log] /\ Len(stream) \in Nat
    BY DEF StreamInv
  <2>2. stream \in [1..Len(stream) -> DOMAIN log']
    BY <2>1
  <2> QED
    BY <2>1, <2>2
<1> QED
  BY <1>1 DEF StreamInv

LEMMA TrimInvElsewhere ==
  ASSUME BusInv, UNCHANGED <<trimmed, trimmer>>, delivered' \in Nat, delivered <= delivered',
         \A p \in pel' : p \in pel \/ p > delivered
  PROVE  TrimInv'
BY SpentForGood DEF BusInv, TrimInv

LEMMA AppendKeeps ==
  ASSUME StreamInv, NEW i \in DOMAIN log, stream' = Append(stream, i),
         UNCHANGED <<log, processed, delivered, pel>>
  PROVE  StreamInv'
<1>1. Len(stream') = Len(stream) + 1 /\ stream' \in Seq(DOMAIN log) /\ Len(stream) \in Nat
  BY DEF StreamInv
<1>2. \A p \in 1..delivered : stream'[p] = stream[p]
  BY <1>1 DEF StreamInv
<1> QED
  BY <1>1, <1>2 DEF StreamInv

LEMMA BusInvStep == BusInv /\ [BusNext]_tradeBusVars => BusInv'
<1> SUFFICES ASSUME BusInv, [BusNext]_tradeBusVars PROVE BusInv'
  OBVIOUS
<1>0. delivered \in Nat /\ Len(stream) \in Nat /\ pel \subseteq Nat
  BY DEF BusInv, StreamInv
<1>1. ASSUME NEW i \in DOMAIN log, Relay(i) \/ RelayAgain(i) PROVE BusInv'
  <2>1. StreamInv'
    BY <1>1, AppendKeeps DEF BusInv, Relay, RelayAgain, ledgerVars
  <2>2. TrimInv'
    BY <1>0, <1>1, TrimInvElsewhere DEF Relay, RelayAgain
  <2> QED
    BY <2>1, <2>2 DEF BusInv
<1>2. CASE Deliver
  <2>1. StreamInv'
    BY <1>0, <1>2 DEF BusInv, StreamInv, Deliver, ledgerVars
  <2>2. TrimInv'
    BY <1>0, <1>2, TrimInvElsewhere DEF Deliver
  <2> QED
    BY <2>1, <2>2 DEF BusInv
<1>3. ASSUME NEW p \in pel, Process(p) PROVE BusInv'
  <2>1. /\ stream[p] \in processed' /\ processed \subseteq processed'
        /\ pel' \in {pel, pel \ {p}}
        /\ UNCHANGED <<log, stream, delivered, trimmed, trimmer>>
    BY <1>3 DEF Process, Settle
  <2>2. StreamInv'
    BY <2>1 DEF BusInv, StreamInv
  <2>3. TrimInv'
    BY <1>0, <2>1, TrimInvElsewhere
  <2> QED
    BY <2>2, <2>3 DEF BusInv
<1>4. ASSUME NEW w \in Workers, ReadGroup(w) \/ ReadFloor(w) \/ Trim(w) \/ Abandon(w)
      PROVE  BusInv'
  <2>1. UNCHANGED <<log, processed, stream, delivered, pel>>
    BY <1>4 DEF ReadGroup, ReadFloor, Trim, Abandon, ledgerVars
  <2>2. StreamInv'
    BY <2>1, StreamInvElsewhere DEF BusInv
  <2>3. \A q : Spent(q)' <=> Spent(q)
    BY <2>1 DEF Spent
  <2>4. CASE ReadGroup(w)
    <3>1. pel = {} => \A q \in 1..(delivered - 1) : Spent(q)
      BY <1>0 DEF Spent
    <3> QED
      BY <1>0, <2>2, <2>3, <2>4, <3>1
         DEF BusInv, TrimInv, ReadGroup, DeliveredIsBoundary, SetTrimmer
  <2>5. CASE ReadFloor(w)
    <3>1. ASSUME NEW q \in pel, \A r \in pel : q <= r
          PROVE  \A r \in 1..(q - 1) : Spent(r)
      BY <1>0, <3>1 DEF Spent, BusInv, StreamInv
    <3>2. CASE SetTrimmer(w, "idle", 0)
      BY <2>2, <2>3, <2>5, <3>2 DEF BusInv, TrimInv, ReadFloor, SetTrimmer
    <3>3. CASE \E q \in pel : (\A r \in pel : q <= r) /\ SetTrimmer(w, "trim", q)
      BY <1>0, <2>2, <2>3, <2>5, <3>1, <3>3 DEF BusInv, TrimInv, ReadFloor, SetTrimmer
    <3> QED
      BY <2>5, <3>2, <3>3 DEF ReadFloor
  <2>6. CASE Trim(w)
    <3>1. trimmer[w].step = "trim" /\ trimmer[w].cutoff \in Nat /\ trimmed \in Nat
      BY <2>6 DEF Trim, BusInv, TrimInv
    <3>2. trimmed' \in Nat /\ \A q \in 1..trimmed' : Spent(q)
      BY <2>6, <3>1 DEF Trim, BusInv, TrimInv
    <3> QED
      BY <2>2, <2>3, <2>6, <3>2 DEF BusInv, TrimInv, Trim, SetTrimmer
  <2>7. CASE Abandon(w)
    BY <2>2, <2>3, <2>7 DEF BusInv, TrimInv, Abandon, SetTrimmer
  <2> QED
    BY <1>4, <2>4, <2>5, <2>6, <2>7
<1>5. CASE (Elsewhere /\ UNCHANGED busVars) \/ UNCHANGED tradeBusVars
  <2>1. UNCHANGED <<stream, delivered, pel, trimmed, trimmer>>
    BY <1>5 DEF busVars, tradeBusVars
  <2>2. DOMAIN log \subseteq DOMAIN log' /\ processed \subseteq processed'
    BY <1>5 DEF Elsewhere, StartCharging, PlaceOrder, Record, tradeBusVars, ledgerVars
  <2>3. StreamInv'
    BY <2>1, <2>2, StreamInvElsewhere DEF BusInv
  <2>4. TrimInv'
    BY <1>0, <2>1, TrimInvElsewhere
  <2> QED
    BY <2>3, <2>4 DEF BusInv
<1> QED
  BY <1>1, <1>2, <1>3, <1>4, <1>5 DEF BusNext, BusStep

(***************************************************************************)
(* trimAcknowledgedStream never discards a trade or a close that is not    *)
(* settled, for any number of workers, rows and repeated entries.          *)
(***************************************************************************)
THEOREM TrimmedAlwaysSettled == BusSpec => []TrimmedIsSettled
<1>1. BusInv => TrimmedIsSettled
  BY DEF BusInv, StreamInv, TrimInv, Spent, TrimmedIsSettled
<1> QED
  BY <1>1, BusInvInit, BusInvStep, PTL DEF BusSpec

(***************************************************************************)
(* The tables behind the stream are those of Settlement: what its engine   *)
(* may do with rows covers whatever the stream does with entries.          *)
(***************************************************************************)
LEMMA BusStepIsLedgerStep ==
  BusInv /\ [BusNext]_tradeBusVars => [LedgerNext]_ledgerVars
<1> SUFFICES ASSUME BusInv, [BusNext]_tradeBusVars PROVE [LedgerNext]_ledgerVars
  OBVIOUS
<1>1. ASSUME NEW p \in pel, Process(p) PROVE LedgerNext
  <2>1. p \in 1..Len(stream) /\ stream \in Seq(DOMAIN log)
    BY DEF BusInv, StreamInv
  <2>2. stream[p] \in DOMAIN log
    BY <2>1
  <2> QED
    BY <1>1, <2>2 DEF Process, LedgerNext
<1>2. CASE Elsewhere
  BY <1>2 DEF Elsewhere, LedgerNext
<1>3. CASE UNCHANGED ledgerVars
  BY <1>3
<1>4. CASE UNCHANGED tradeBusVars
  BY <1>4 DEF tradeBusVars
<1> QED
  BY <1>1, <1>2, <1>3, <1>4
     DEF BusNext, BusStep, Relay, RelayAgain, Deliver, ReadGroup, ReadFloor, Trim, Abandon

THEOREM BusRefinesLedger == BusSpec => LedgerSpec
<1>1. BusInit => LedgerInit
  BY DEF BusInit
<1> QED
  BY <1>1, BusInvInit, BusInvStep, BusStepIsLedgerStep, PTL DEF BusSpec, LedgerSpec

----------------------------------------------------------------------------
(***************************************************************************)
(* What the pipeline carries, by the tables: orders placed, events of      *)
(* them, rows that may be recorded, and what may rest in a book.           *)
(***************************************************************************)
LastPrices == Nat \cup {OpenPrice}
Events == [topic : {"order.placed", "order.cancel.requested"}, order : Orders, n : Nat]
Rows == TradeRows \cup CloseRows

Submitted == {o \in Orders : order[o].status # "NONE"}
SubmittedEvents == {ev \in Events : ev.order \in Submitted}
RowsToRecord == {row \in Rows : Recordable(row)}

\* r is what rests of a LIMIT order.
RestOf(r) ==
    LET t == Terms[r.id] IN
    /\ r.id \in Submitted /\ t.type = "LIMIT" /\ r.acct = t.acct /\ r.side = t.side
    /\ r.price = t.price /\ r.total = t.qty /\ r.qty <= r.total

RestsOf(list) == \A i \in 1..Len(list) : RestOf(list[i])

BookOfOrders(book) ==
    /\ book \in BooksIn(Orders, Accounts, LastPrices) /\ GoodBook(book)
    /\ RestsOf(book.bids) /\ RestsOf(book.asks)

StageOfOrder(st) ==
    /\ st.ev \in SubmittedEvents /\ BookOfOrders(st.book) /\ st.rows \in Seq(RowsToRecord)

EngineOfOrders(x) ==
    /\ x = [mode |-> x.mode, book |-> x.book, seen |-> x.seen, stage |-> x.stage]
    /\ BookOfOrders(x.book)
    /\ x.stage # NoStage => StageOfOrder(x.stage)
    /\ x.mode = "zombie" => x.stage # NoStage

QueuesOfOrders ==
    /\ created \in Seq(Submitted)
    /\ cancels \in [Orders -> Nat]
    /\ outbox \in Seq(SubmittedEvents)
    /\ orderStream \in Seq(SubmittedEvents) /\ orderPel \in Seq(SubmittedEvents)

StreamsOfRows ==
    /\ log \in Seq(Rows) /\ relayed \in Nat /\ relayed <= Len(log)
    /\ tradeStream \in Seq(1..Len(log)) /\ tradePel \in Seq(1..Len(log))

EnginesOfOrders ==
    /\ engine = [e \in Engines |-> engine[e]]
    /\ \A e \in Engines : EngineOfOrders(engine[e])

Carried == charging = TRUE /\ QueuesOfOrders /\ StreamsOfRows /\ EnginesOfOrders

PipeInv == LedgerInv /\ Carried

----------------------------------------------------------------------------
LEMMA OrderTermsFacts ==
    ASSUME NEW o \in Orders
    PROVE  LET t == Terms[o] IN
           /\ t.acct \in Accounts /\ t.side \in Sides /\ t.type \in {"LIMIT", "MARKET"}
           /\ t.price \in Nat /\ t.qty \in Nat /\ t.qty # 0
           /\ t.type = "LIMIT" => t.price # 0
           /\ t.price = 0 => t.type = "MARKET" /\ t.side = "SELL"
  BY SettlementAssumption, ExchangeAssumption DEF OrderTerms, NoPrice, Sides

LEMMA PartRests ==
    ASSUME NEW I, NEW A, NEW s \in Seq(RestingIn(I, A)), NEW t \in Seq(RestingIn(I, A)),
           PartOf(s, t), RestsOf(t)
    PROVE  RestsOf(s)
<1> SUFFICES ASSUME NEW i \in 1..Len(s) PROVE RestOf(s[i])
  BY DEF RestsOf
<1>1. PICK j \in 1..Len(t) : SameOrder(s[i], t[j])
  BY PartOrdered
<1>2. PICK r, q : r = s[i] /\ q = t[j] /\ r \in RestingIn(I, A) /\ q \in RestingIn(I, A)
  <2>1. s[i] \in RestingIn(I, A) /\ t[j] \in RestingIn(I, A)
    OBVIOUS
  <2> QED BY <2>1
<1>3. /\ r.qty \in Nat /\ q.qty \in Nat /\ q.total \in Nat /\ SameOrder(r, q) /\ RestOf(q)
  BY <1>1, <1>2, RestingFields DEF RestsOf
<1>4. RestOf(r)
  BY <1>3 DEF RestOf, SameOrder
<1> QED BY <1>2, <1>4

LEMMA WithoutOfOrders ==
    ASSUME NEW book, BookOfOrders(book), NEW ids
    PROVE  BookOfOrders(WithoutOrders(book, ids))
<1>1. PICK b, L : b = WithoutOrders(book, ids) /\ L = LastPrices
  OBVIOUS
<1>2. book \in BooksIn(Orders, Accounts, L) /\ GoodBook(book)
  BY <1>1 DEF BookOfOrders
<1>3. /\ b \in BooksIn(Orders, Accounts, L)
      /\ PartOf(b.bids, book.bids) /\ PartOf(b.asks, book.asks) /\ GoodBook(b)
  BY <1>1, <1>2, WithoutGood
<1>4. /\ b.bids \in Seq(RestingIn(Orders, Accounts)) /\ b.asks \in Seq(RestingIn(Orders, Accounts))
      /\ book.bids \in Seq(RestingIn(Orders, Accounts)) /\ book.asks \in Seq(RestingIn(Orders, Accounts))
  BY <1>2, <1>3 DEF BooksIn
<1>5. RestsOf(b.bids) /\ RestsOf(b.asks)
  BY <1>3, <1>4, PartRests DEF BookOfOrders
<1> QED BY <1>1, <1>3, <1>5 DEF BookOfOrders

LEMMA EmptyOfOrders ==
    ASSUME NEW last \in LastPrices
    PROVE  BookOfOrders(EmptyBook(last))
<1>1. PICK L : L = LastPrices
  OBVIOUS
<1>2. EmptyBook(last) \in BooksIn(Orders, Accounts, L) /\ GoodBook(EmptyBook(last))
  BY <1>1, EmptyGood
<1>3. 1..Len(<<>>) = {}
  OBVIOUS
<1> QED BY <1>1, <1>2, <1>3 DEF BookOfOrders, EmptyBook, RestsOf

----------------------------------------------------------------------------
(***************************************************************************)
(* Restart: the rows read from the tables, and the book replayed from them. *)
(***************************************************************************)
RestorableOrders == {o \in Orders : Restorable(o)}
RowsRead == {RestorableRow(o) : o \in RestorableOrders}

AddRow(rows, o) == IF Restorable(o) THEN Append(rows, RestorableRow(o)) ELSE rows

ReadStep(g, T) == IF T = {} THEN <<>> ELSE AddRow(g[T \ {Max(T)}], created[Max(T)])

\* The replay reads the orders one by one.
LEMMA RowsIterate ==
    ASSUME created \in Seq(Submitted)
    PROVE  \E f : /\ f[0] = <<>> /\ f[Len(created)] = RestorableRows
                  /\ \A i \in 0..Len(created) : f[i] \in Seq(RowsRead)
                  /\ \A i \in 0..(Len(created) - 1) : f[i + 1] = AddRow(f[i], created[i + 1])
<1> DEFINE V == Seq(RowsRead)
           n == Len(created)
           step == [i \in 1..n |-> [v \in V |-> AddRow(v, created[i])]]
           Iter(g) == g = [T \in SUBSET DOMAIN created |-> ReadStep(g, T)]
<1>1. n \in Nat /\ DOMAIN created = 1..n /\ \A i \in 1..n : created[i] \in Submitted
  OBVIOUS
<1>2. <<>> \in V
  OBVIOUS
<1>3. \A i \in 1..n : \A v \in V : AddRow(v, created[i]) \in V
  <2> TAKE i \in 1..n
  <2> TAKE v \in V
  <2>1. PICK o, R : o = created[i] /\ o \in Orders /\ R = RowsRead
    BY <1>1 DEF Submitted
  <2>2. CASE Restorable(o)
    <3>1. RestorableRow(o) \in R
      BY <2>1, <2>2 DEF RowsRead, RestorableOrders
    <3>2. v \in Seq(R)
      BY <2>1
    <3>3. Append(v, RestorableRow(o)) \in Seq(R)
      BY <3>1, <3>2
    <3> QED BY <2>1, <2>2, <3>3 DEF AddRow
  <2>3. CASE ~Restorable(o)
    BY <2>1, <2>3 DEF AddRow
  <2> QED BY <2>2, <2>3
<1>4. PICK g \in [SUBSET (1..n) -> V] : FoldsFrom(n, <<>>, step, g)
  <2>1. \A i \in 1..n : \A v \in V : step[i][v] \in V
    BY <1>3
  <2> HIDE DEF V, step, n
  <2> QED BY <1>1, <1>2, <2>1, FoldIterates
<1>5. Iter(g)
  <2>1. \A T \in SUBSET (1..n) : T # {} => Max(T) \in 1..n /\ T \ {Max(T)} \in SUBSET (1..n)
    BY <1>1, GreatestExists
  <2>2. \A T \in SUBSET (1..n) : g[T] = ReadStep(g, T)
    <3> TAKE T \in SUBSET (1..n)
    <3>1. CASE T = {}
      BY <3>1, <1>4 DEF FoldsFrom, ReadStep
    <3>2. CASE T # {}
      <4>1. PICK m \in 1..n : m = Max(T) /\ T \ {m} \in SUBSET (1..n)
        BY <2>1, <3>2
      <4>2. g[T] = step[m][g[T \ {m}]] /\ g[T \ {m}] \in V
        BY <1>4, <3>2, <4>1 DEF FoldsFrom
      <4>3. step[m][g[T \ {m}]] = AddRow(g[T \ {m}], created[m])
        BY <4>2
      <4> QED BY <3>2, <4>1, <4>2, <4>3 DEF ReadStep
    <3> QED BY <3>1, <3>2
  <2> HIDE DEF V, step, n
  <2> QED BY <1>1, <2>2
<1> DEFINE c == CHOOSE h : Iter(h)
<1>6. Iter(c)
  <2> HIDE DEF Iter
  <2> QED BY <1>5
<1>7. RestorableRows = c[DOMAIN created]
  BY DEF RestorableRows, FoldLeft, MapThenFoldSet, ReadStep, AddRow
<1> DEFINE f == [i \in 0..n |-> c[1..i]]
<1>8. f[0] = <<>>
  <2>1. 1..0 = {} /\ 1..0 \in SUBSET (1..n) /\ 0 \in 0..n
    BY <1>1
  <2> HIDE DEF n
  <2> QED BY <1>1, <1>6, <2>1 DEF ReadStep
<1>9. \A i \in 0..(n - 1) : f[i + 1] = AddRow(f[i], created[i + 1])
  <2> TAKE i \in 0..(n - 1)
  <2>1. PICK T : T = 1..(i + 1)
    OBVIOUS
  <2>2. T \in SUBSET (1..n) /\ T # {} /\ i \in Nat /\ i \in 0..n /\ i + 1 \in 0..n
    <3> HIDE DEF n
    <3>1. i \in Nat /\ i \in 0..n /\ i + 1 \in 0..n
      BY <1>1
    <3>2. T \in SUBSET (1..n) /\ i + 1 \in T
      BY <1>1, <2>1
    <3> QED BY <3>1, <3>2
  <2>3. Max(T) = i + 1 /\ T \ {i + 1} = 1..i
    BY <2>1, <2>2, GreatestOfInterval
  <2>4. c[T] = ReadStep(c, T)
    <3> HIDE DEF c, n
    <3> QED BY <1>1, <1>6, <2>2
  <2>5. c[T] = AddRow(c[1..i], created[i + 1])
    BY <2>2, <2>3, <2>4 DEF ReadStep
  <2> HIDE DEF c
  <2> QED BY <2>1, <2>2, <2>5
<1>10. f[n] = RestorableRows
  <2>1. n \in 0..n
    BY <1>1
  <2> HIDE DEF c, n
  <2> QED BY <1>1, <1>7, <2>1
<1>11. \A i \in 0..n : f[i] \in V
  <2> DEFINE G == {i \in Nat : i <= n => f[i] \in V}
  <2>1. 0 \in G
    BY <1>2, <1>8
  <2>2. ASSUME NEW i \in Nat, i \in G PROVE i + 1 \in G
    <3> SUFFICES ASSUME i + 1 <= n PROVE f[i + 1] \in V
      OBVIOUS
    <3>1. i \in 0..(n - 1) /\ i + 1 \in 1..n /\ i <= n
      BY <1>1
    <3>2. f[i + 1] = AddRow(f[i], created[i + 1]) /\ f[i] \in V
      BY <3>1, <1>9, <2>2
    <3> HIDE DEF f, V, n
    <3> QED BY <3>1, <3>2, <1>3
  <2>3. Nat \subseteq G
    <3> HIDE DEF G
    <3> QED BY <2>1, <2>2, NatInduct
  <2> HIDE DEF f, V
  <2> QED BY <2>3, <1>1
<1> HIDE DEF f
<1> QED BY <1>8, <1>9, <1>10, <1>11

LEMMA RestorableRowsType ==
    ASSUME created \in Seq(Submitted)
    PROVE  RestorableRows \in Seq(RowsRead)
<1>1. PICK f : /\ f[Len(created)] = RestorableRows
               /\ \A i \in 0..Len(created) : f[i] \in Seq(RowsRead)
  BY RowsIterate
<1>2. Len(created) \in 0..Len(created)
  BY SeqDomain
<1> QED BY <1>1, <1>2

\* ----- what is recorded of an order
LEMMA RecordedIsNat ==
    ASSUME NEW o \in Orders, log \in Seq(Rows)
    PROVE  RecordedQty(o) \in Nat /\ IsFiniteSet(Trades(o))
<1>1. PICK n \in Nat : n = Len(log) /\ DOMAIN log = 1..n /\ \A i \in 1..n : log[i] \in Rows
  OBVIOUS
<1>2. IsFiniteSet(1..n) /\ Trades(o) \subseteq 1..n
  <2>1. 1 \in Int /\ n \in Int
    OBVIOUS
  <2> QED BY <1>1, <2>1, FS_Interval DEF Trades
<1>3. IsFiniteSet(Trades(o))
  BY <1>2, FS_Subset
<1> DEFINE f == [i \in Trades(o) |-> log[i].qty]
<1>4. \A i \in Trades(o) : f[i] \in Nat
  BY <1>1 DEF Trades, IsTrade, Rows, TradeRows, CloseRows
<1>5. DOMAIN f = Trades(o)
  OBVIOUS
<1>6. SumOver(f, Trades(o)) \in Nat
  <2> HIDE DEF f
  <2> QED BY <1>3, <1>4, SumNat
<1> QED BY <1>3, <1>5, <1>6 DEF RecordedQty, Total

LEMMA GreaterOfTwo ==
    ASSUME NEW a \in Int, NEW b \in Int
    PROVE  Max({a, b}) = IF a <= b THEN b ELSE a
<1>1. CASE a <= b
  <2>1. b \in {a, b} /\ \A y \in {a, b} : b >= y
    BY <1>1
  <2>2. \A x \in {a, b} : (\A y \in {a, b} : x >= y) => x = b
    BY <1>1
  <2> QED BY <1>1, <2>1, <2>2 DEF Max
<1>2. CASE ~(a <= b)
  <2>1. a \in {a, b} /\ \A y \in {a, b} : a >= y
    BY <1>2
  <2>2. \A x \in {a, b} : (\A y \in {a, b} : x >= y) => x = a
    BY <1>2
  <2> QED BY <1>2, <2>1, <2>2 DEF Max
<1> QED BY <1>1, <1>2

LEMMA RemainingIs ==
    ASSUME NEW total \in Nat, NEW filled \in Nat, NEW recorded \in Nat
    PROVE  LET q == RemainingRestingQty(total, filled, recorded) IN
           /\ q \in Nat /\ q <= total
           /\ filled <= recorded /\ recorded <= total => q = total - recorded
<1>1. PICK m \in Nat : m = Max({filled, recorded}) /\ m >= filled /\ m >= recorded
                       /\ (filled <= recorded => m = recorded)
  BY GreaterOfTwo
<1>2. PICK q : q = Max({0, total - m}) /\ q = IF 0 <= total - m THEN total - m ELSE 0
  <2>1. 0 \in Int /\ total - m \in Int
    OBVIOUS
  <2> QED BY <2>1, GreaterOfTwo
<1> QED BY <1>1, <1>2 DEF RemainingRestingQty

\* A row read is what rests of an order, as far as the trades are recorded.
RowFacts(row) ==
    /\ row \in RowsIn(Orders, Accounts) /\ RestOf(row) /\ Restorable(row.id)
    /\ row.qty = RemainingRestingQty(row.total, order[row.id].filled, RecordedQty(row.id))

LEMMA RowReadIs ==
    ASSUME LedgerTypeOK, log \in Seq(Rows), NEW row \in RowsRead
    PROVE  RowFacts(row)
<1>1. PICK o \in Orders : Restorable(o) /\ row = RestorableRow(o)
  BY DEF RowsRead, RestorableOrders
<1>2. PICK q : q = RemainingRestingQty(Terms[o].qty, order[o].filled, RecordedQty(o))
  OBVIOUS
<1>3. /\ row = [id |-> o, acct |-> Terms[o].acct, side |-> Terms[o].side,
                price |-> Terms[o].price, total |-> Terms[o].qty, qty |-> q]
  BY <1>1, <1>2 DEF RestorableRow
<1>4. order[o].filled \in Nat /\ order[o].status # "NONE" /\ Terms[o].type = "LIMIT"
  BY <1>1 DEF LedgerTypeOK, Restorable, Active
<1>5. /\ Terms[o].acct \in Accounts /\ Terms[o].side \in Sides
      /\ Terms[o].price \in Nat /\ Terms[o].qty \in Nat
  BY OrderTermsFacts
<1>6. RecordedQty(o) \in Nat
  BY RecordedIsNat
<1>7. q \in Nat /\ q <= Terms[o].qty
  BY <1>2, <1>4, <1>5, <1>6, RemainingIs
<1>8. row \in RowsIn(Orders, Accounts)
  BY <1>3, <1>5, <1>7 DEF RowsIn
<1>9. RestOf(row)
  BY <1>3, <1>4, <1>7 DEF RestOf, Submitted
<1>10. /\ Restorable(row.id)
       /\ row.qty = RemainingRestingQty(row.total, order[row.id].filled, RecordedQty(row.id))
  BY <1>1, <1>2, <1>3
<1> QED BY <1>8, <1>9, <1>10 DEF RowFacts

LEMMA LastPriceType ==
    ASSUME log \in Seq(Rows)
    PROVE  LastPrice \in LastPrices
<1>1. PICK T : T = {i \in 1..Len(log) : log[i].topic = "trade.executed"}
  OBVIOUS
<1>2. LastPrice = LET i == IF T # {} THEN Max(T) ELSE 0 IN IF i = 0 THEN OpenPrice ELSE log[i].price
  BY <1>1 DEF LastPrice, SelectLastInSeq
<1>3. CASE T = {}
  BY <1>2, <1>3 DEF LastPrices
<1>4. CASE T # {}
  <2>1. PICK n \in Nat : n = Len(log) /\ \A i \in 1..n : log[i] \in Rows
    OBVIOUS
  <2>2. PICK m \in 1..n : m = Max(T) /\ m \in T
    <3>1. T \in SUBSET (1..n)
      BY <1>1, <2>1
    <3> QED BY <1>4, <3>1, GreatestExists
  <2>3. m # 0 /\ log[m] \in Rows /\ log[m].topic = "trade.executed"
    BY <1>1, <2>1, <2>2
  <2>4. log[m].price \in Nat
    BY <2>3 DEF Rows, TradeRows, CloseRows
  <2> QED BY <1>2, <1>4, <2>2, <2>3, <2>4 DEF LastPrices
<1> QED BY <1>3, <1>4

LEMMA RestoredOfOrders ==
    ASSUME LedgerTypeOK, log \in Seq(Rows), created \in Seq(Submitted),
           NEW b, b = RestoreBook(LastPrice, RestorableRows)
    PROVE  /\ BookOfOrders(b) /\ b.last = LastPrice
           /\ \A r : InBook(b, r) => RowFacts(r)
<1>1. PICK rows, L, last : rows = RestorableRows /\ L = LastPrices /\ last = LastPrice
  OBVIOUS
<1>2. rows \in Seq(RowsRead) /\ last \in L
  BY <1>1, RestorableRowsType, LastPriceType
<1>3. \A i \in 1..Len(rows) : RowFacts(rows[i])
  BY <1>2, RowReadIs
<1>4. rows \in Seq(RowsIn(Orders, Accounts))
  <2>1. RowsRead \subseteq RowsIn(Orders, Accounts)
    BY RowReadIs DEF RowFacts
  <2> QED BY <1>2, <2>1
<1>5. b \in BooksIn(Orders, Accounts, L) /\ GoodBook(b) /\ b.last = last /\ FromRows(b, rows)
  BY <1>1, <1>2, <1>4, RestoreBookGood
<1>6. \A r : InBook(b, r) => RowFacts(r)
  BY <1>3, <1>5 DEF FromRows
<1>7. RestsOf(b.bids) /\ RestsOf(b.asks)
  BY <1>6 DEF InBook, RowFacts, RestsOf
<1> QED BY <1>1, <1>5, <1>6, <1>7 DEF BookOfOrders

----------------------------------------------------------------------------
(***************************************************************************)
(* A placed event: what it leaves in the book and the rows it records.     *)
(***************************************************************************)
IncomingOf(o) ==
    LET t == Terms[o] IN
    [id |-> o, acct |-> t.acct, side |-> t.side, type |-> t.type, price |-> t.price, qty |-> t.qty]

LEMMA IncomingType ==
    ASSUME NEW o \in Orders, NEW inc, inc = IncomingOf(o)
    PROVE  /\ inc \in IncomingIn(Orders, Accounts) /\ inc.id = o /\ inc.acct = Terms[o].acct
           /\ inc.side = Terms[o].side /\ inc.type = Terms[o].type
           /\ inc.price = Terms[o].price /\ inc.qty = Terms[o].qty
<1>1. LET t == Terms[o] IN
           /\ t.acct \in Accounts /\ t.side \in Sides /\ t.type \in {"LIMIT", "MARKET"}
           /\ t.price \in Nat /\ t.qty \in Nat /\ t.qty # 0
  BY OrderTermsFacts
<1> QED BY <1>1 DEF IncomingOf, IncomingIn

\* The list an order meets, and what the loop makes of it.
MeetsAt(book, inc, list, st) == list = book[Opposite(inc.side)] /\ st = MatchLoop(book, inc)

LEMMA LoopFacts ==
    ASSUME NEW book, BookOfOrders(book), NEW o \in Orders, NEW inc, inc = IncomingOf(o),
           NEW list, NEW st, MeetsAt(book, inc, list, st)
    PROVE  /\ list \in Seq(RestingIn(Orders, Accounts))
           /\ st \in LoopsIn(Orders, Accounts, LastPrices)
           /\ Shape(list, book.last, inc, st, Len(list))
           /\ RestsOf(list)
           /\ OneSide(list, IF inc.side = "BUY" THEN "SELL" ELSE "BUY")
<1>1. PICK L : L = LastPrices /\ Nat \subseteq L /\ book \in BooksIn(Orders, Accounts, L)
  BY DEF BookOfOrders, LastPrices
<1>2. inc \in IncomingIn(Orders, Accounts) /\ inc.side \in Sides
  BY IncomingType, OrderTermsFacts
<1>3. list = book[Opposite(inc.side)] /\ st = MatchLoop(book, inc)
  BY DEF MeetsAt
<1>4. /\ list \in Seq(RestingIn(Orders, Accounts)) /\ st \in LoopsIn(Orders, Accounts, L)
      /\ Shape(list, book.last, inc, st, Len(list))
  BY <1>1, <1>2, <1>3, MatchShape
<1>5. RestsOf(list) /\ OneSide(list, IF inc.side = "BUY" THEN "SELL" ELSE "BUY")
  BY <1>2, <1>3 DEF BookOfOrders, Opposite, Sides, GoodBook
<1> QED BY <1>1, <1>4, <1>5

LEMMA AppliedOfOrders ==
    ASSUME NEW book, BookOfOrders(book), NEW o \in Submitted, NEW inc, inc = IncomingOf(o),
           NEW list, NEW st, MeetsAt(book, inc, list, st), NEW b, b = ApplyOrder(book, inc).book
    PROVE  BookOfOrders(b) /\ Applied(book, inc, st, b)
<1>1. PICK L : L = LastPrices /\ Nat \subseteq L /\ book \in BooksIn(Orders, Accounts, L)
  BY DEF BookOfOrders, LastPrices
<1>2. /\ o \in Orders /\ inc \in IncomingIn(Orders, Accounts) /\ inc.side \in Sides
      /\ st = MatchLoop(book, inc) /\ list = book[Opposite(inc.side)] /\ GoodBook(book)
  BY IncomingType, OrderTermsFacts DEF Submitted, MeetsAt, BookOfOrders
<1>3. b \in BooksIn(Orders, Accounts, L) /\ Applied(book, inc, st, b)
  BY <1>1, <1>2, AppliedIs
<1>4. GoodBook(b)
  BY <1>1, <1>2, <1>3, AppliedGood
<1>5. PICK same, grown, K : /\ same = book[ListOf(inc.side)] /\ grown = b[ListOf(inc.side)]
                            /\ K = st.keep
  OBVIOUS
<1>6. /\ list \in Seq(RestingIn(Orders, Accounts)) /\ st \in LoopsIn(Orders, Accounts, LastPrices)
      /\ Shape(list, book.last, inc, st, Len(list)) /\ RestsOf(list)
  BY <1>2, LoopFacts
<1>7. b[Opposite(inc.side)] = K /\ RestsOf(K)
  <2>1. PartOf(K, list)
    BY <1>5, <1>6, KeptIsPart
  <2>2. K \in Seq(RestingIn(Orders, Accounts))
    BY <1>5, <1>6 DEF LoopsIn
  <2> QED BY <1>3, <1>5, <1>6, <2>1, <2>2, PartRests DEF Applied
<1>8. same \in Seq(RestingIn(Orders, Accounts)) /\ RestsOf(same)
  BY <1>2, <1>5 DEF BookOfOrders, BooksIn, ListOf, Sides
<1>9. RestsOf(grown)
  <2>1. PICK taker : taker = [id |-> inc.id, acct |-> inc.acct, side |-> inc.side,
                       price |-> inc.price, qty |-> st.left, total |-> inc.qty]
    OBVIOUS
  <2>2. CASE grown = same
    BY <1>8, <2>2
  <2>3. CASE grown # same
    <3>1. st.left > 0 /\ inc.type # "MARKET" /\ Inserted(same, taker, grown)
      BY <1>3, <1>5, <2>1, <2>3 DEF Applied
    <3>2. st.left \in Nat /\ st.left # 0 /\ st.left <= inc.qty
      BY <3>1, <1>6 DEF LoopsIn, Shape
    <3>3. taker \in RestingIn(Orders, Accounts)
      BY <1>2, <2>1, <3>2 DEF RestingIn, IncomingIn
    <3>4. RestOf(taker)
      <4>1. inc.type = "LIMIT"
        BY <1>2, <3>1 DEF IncomingIn
      <4> QED BY <1>2, <2>1, <3>2, <4>1, IncomingType DEF RestOf
    <3>5. \A i \in 1..Len(grown) : grown[i] = taker \/ \E j \in 1..Len(same) : grown[i] = same[j]
      BY <1>8, <3>1, <3>3, InsertedElements
    <3> QED BY <1>8, <3>4, <3>5 DEF RestsOf
  <2> QED BY <2>2, <2>3
<1>10. RestsOf(b.bids) /\ RestsOf(b.asks)
  BY <1>2, <1>5, <1>7, <1>9 DEF ListOf, Opposite, Sides
<1> QED BY <1>1, <1>3, <1>4, <1>10 DEF BookOfOrders

LEMMA LoopLengths ==
    ASSUME NEW list \in Seq(RestingIn(Orders, Accounts)), NEW inc, NEW last,
           NEW st \in LoopsIn(Orders, Accounts, LastPrices), Shape(list, last, inc, st, Len(list))
    PROVE  LET c == Len(st.closed) f == Len(st.fills) k == Len(st.keep) IN
           /\ c \in Nat /\ f \in Nat /\ k \in Nat /\ c + k = Len(list)
           /\ c <= f /\ f <= c + 1 /\ f <= Len(list) /\ Len(list) \in Nat
<1>1. PICK c, f, k : c = Len(st.closed) /\ f = Len(st.fills) /\ k = Len(st.keep)
  OBVIOUS
<1>2. st.closed \in Seq(ClosesIn(Orders)) /\ st.fills \in Seq(FillsIn(Orders))
      /\ st.keep \in Seq(RestingIn(Orders, Accounts))
  BY DEF LoopsIn
<1>3. c \in Nat /\ f \in Nat /\ k \in Nat /\ Len(list) \in Nat
  BY <1>1, <1>2
<1>4. c <= f /\ f <= c + 1 /\ c + k = Len(list)
  BY <1>1 DEF Shape, Kept
<1>5. f = c + 1 => k >= 1
  BY <1>1 DEF Shape, Partial
<1>6. f <= Len(list)
  <2>1. PICK m : m = Len(list) /\ m \in Nat /\ c + k = m
    BY <1>3, <1>4
  <2>2. f <= m
    BY <1>3, <1>4, <1>5, <2>1
  <2> QED BY <2>1, <2>2
<1> QED BY <1>1, <1>3, <1>4, <1>6

\* A fill joins the incoming order and a resting one.
FillOf(inc, f) ==
    LET m == Terms[f.maker] IN
    /\ f.maker \in Submitted /\ f.taker = inc.id /\ m.type = "LIMIT"
    /\ m.side \in Sides /\ m.side # inc.side /\ m.acct # inc.acct
    /\ f.price = m.price /\ f.qty \in Nat \ {0} /\ Crosses(inc, f.price)

LEMMA FillFacts ==
    ASSUME NEW book, BookOfOrders(book), NEW o \in Submitted, NEW inc, inc = IncomingOf(o),
           NEW list, NEW st, MeetsAt(book, inc, list, st), NEW j \in 1..Len(st.fills)
    PROVE  FillOf(inc, st.fills[j])
<1>1. /\ list \in Seq(RestingIn(Orders, Accounts)) /\ st \in LoopsIn(Orders, Accounts, LastPrices)
      /\ Shape(list, book.last, inc, st, Len(list)) /\ RestsOf(list)
      /\ OneSide(list, IF inc.side = "BUY" THEN "SELL" ELSE "BUY")
  BY LoopFacts DEF Submitted
<1>2. j \in 1..Len(list)
  <2>1. Len(st.fills) \in Nat /\ Len(list) \in Nat /\ Len(st.fills) <= Len(list)
    BY <1>1, LoopLengths
  <2> QED BY <2>1
<1>3. PICK r, f : r = list[j] /\ f = st.fills[j] /\ r \in RestingIn(Orders, Accounts)
  BY <1>1, <1>2
<1>4. /\ f.price = r.price /\ f.maker = r.id /\ f.taker = inc.id /\ f.qty \in Nat \ {0}
      /\ Crosses(inc, r.price) /\ r.acct # inc.acct
  BY <1>1, <1>3 DEF Shape, Used
<1>5. RestOf(r) /\ r.side = (IF inc.side = "BUY" THEN "SELL" ELSE "BUY") /\ r.side \in Sides
  BY <1>1, <1>2, <1>3, RestingFields DEF RestsOf, OneSide
<1>6. /\ r.id \in Submitted /\ Terms[r.id].type = "LIMIT" /\ Terms[r.id].acct = r.acct
      /\ Terms[r.id].side = r.side /\ Terms[r.id].price = r.price
  BY <1>5 DEF RestOf
<1>7. r.side # inc.side
  BY <1>5 DEF Sides
<1>8. FillOf(inc, f)
  BY <1>4, <1>5, <1>6, <1>7 DEF FillOf
<1> QED BY <1>3, <1>8

LEMMA TradeRowRecordable ==
    ASSUME charging = TRUE, NEW o \in Submitted, NEW inc, inc = IncomingOf(o),
           NEW f, FillOf(inc, f)
    PROVE  TradeRow(f) \in RowsToRecord
<1>1. /\ o \in Orders /\ inc.id = o /\ inc.acct = Terms[o].acct /\ inc.side = Terms[o].side
      /\ inc.type = Terms[o].type /\ inc.price = Terms[o].price
  BY IncomingType DEF Submitted
<1>2. PICK m : m = f.maker /\ m \in Submitted /\ m \in Orders /\ f.taker = o
  BY <1>1 DEF FillOf, Submitted
<1>3. /\ Terms[m].type = "LIMIT" /\ Terms[m].side \in Sides /\ Terms[m].side # Terms[o].side
      /\ Terms[m].acct # Terms[o].acct /\ f.price = Terms[m].price /\ f.qty \in Nat \ {0}
      /\ Crosses(inc, f.price)
  BY <1>1, <1>2 DEF FillOf
<1>4. /\ Terms[m].price \in Nat \ {0} /\ Terms[o].price \in Nat /\ Terms[o].side \in Sides
      /\ Terms[o].price = 0 => Terms[o].side = "SELL"
  BY <1>2, <1>1, <1>3, OrderTermsFacts
<1>5. PICK row : row = TradeRow(f)
  OBVIOUS
<1>6. CASE Terms[o].side = "BUY"
  <2>1. row = [topic |-> "trade.executed", price |-> f.price, qty |-> f.qty, buy |-> o, sell |-> m,
               charged |-> charging]
    BY <1>2, <1>5, <1>6 DEF TradeRow
  <2>2. f.price <= Terms[o].price
    BY <1>1, <1>3, <1>4, <1>6 DEF Crosses, NoPrice
  <2>3. row \in TradeRows
    BY <1>1, <1>2, <1>3, <1>4, <2>1 DEF TradeRows
  <2>4. Matches(row)
    BY <1>1, <1>2, <1>3, <1>4, <1>6, <2>1, <2>2 DEF Matches, Submitted, Sides
  <2> QED BY <1>5, <2>3, <2>4 DEF RowsToRecord, Rows, Recordable
<1>7. CASE Terms[o].side = "SELL"
  <2>1. row = [topic |-> "trade.executed", price |-> f.price, qty |-> f.qty, buy |-> m, sell |-> o,
               charged |-> charging]
    BY <1>2, <1>5, <1>7 DEF TradeRow
  <2>2. f.price >= Terms[o].price
    BY <1>1, <1>3, <1>4, <1>7 DEF Crosses, NoPrice
  <2>3. row \in TradeRows
    BY <1>1, <1>2, <1>3, <1>4, <2>1 DEF TradeRows
  <2>4. Matches(row)
    BY <1>1, <1>2, <1>3, <1>4, <1>7, <2>1, <2>2 DEF Matches, Submitted, Sides
  <2> QED BY <1>5, <2>3, <2>4 DEF RowsToRecord, Rows, Recordable
<1> QED BY <1>4, <1>6, <1>7 DEF Sides

\* A close of an order placed.
CloseOf(c) == c \in ClosesIn(Orders) /\ c.id \in Submitted

LEMMA CloseRowRecordable ==
    ASSUME NEW c, CloseOf(c)
    PROVE  CloseRow(c) \in RowsToRecord
<1>1. c.id \in Orders /\ c.filled \in Nat /\ c.status \in {"FILLED", "CANCELED"} /\ c.id \in Submitted
  BY DEF CloseOf, ClosesIn
<1>2. CloseRow(c) \in CloseRows
  BY <1>1 DEF CloseRow, CloseRows
<1>3. Recordable(CloseRow(c))
  BY <1>1, <1>2 DEF Recordable, CloseRow, Submitted
<1> QED BY <1>2, <1>3 DEF RowsToRecord, Rows

\* The closes of a match: of makers that are used up, and of a taker that does not rest.
ClosesFrom(inc, st, closed) ==
    \/ closed = st.closed /\ st.left > 0 /\ st.end # "self" /\ inc.type # "MARKET"
    \/ /\ st.left = 0
       /\ closed = Append(st.closed, [id |-> inc.id, filled |-> inc.qty, status |-> "FILLED"])
    \/ /\ st.left > 0 /\ (st.end = "self" \/ inc.type = "MARKET")
       /\ closed = Append(st.closed, [id |-> inc.id, filled |-> inc.qty - st.left,
                                      status |-> "CANCELED"])

LEMMA ApplyResult ==
    ASSUME NEW book, NEW inc, NEW st, st = MatchLoop(book, inc), st.left \in Nat,
           NEW r, r = ApplyOrder(book, inc)
    PROVE  r.fills = st.fills /\ ClosesFrom(inc, st, r.closed)
<1>1. r.fills = st.fills
  BY DEF ApplyOrder
<1>2. PICK ioc : ioc = (st.left > 0 /\ (st.end = "self" \/ inc.type = "MARKET"))
  OBVIOUS
<1>3. r.closed = IF st.left > 0 /\ ~ioc THEN st.closed
                 ELSE Append(st.closed,
                             IF st.left = 0
                             THEN [id |-> inc.id, filled |-> inc.qty, status |-> "FILLED"]
                             ELSE [id |-> inc.id, filled |-> inc.qty - st.left,
                                   status |-> "CANCELED"])
  BY <1>2 DEF ApplyOrder, ClosedFilled, ClosedCanceled
<1>4. CASE st.left = 0
  BY <1>1, <1>3, <1>4 DEF ClosesFrom
<1>5. CASE st.left > 0 /\ ioc
  <2>1. st.left # 0
    BY <1>5
  <2> QED BY <1>1, <1>2, <1>3, <1>5, <2>1 DEF ClosesFrom
<1>6. CASE st.left > 0 /\ ~ioc
  BY <1>1, <1>2, <1>3, <1>6 DEF ClosesFrom
<1> QED BY <1>4, <1>5, <1>6

LEMMA ClosesOfOrders ==
    ASSUME NEW book, BookOfOrders(book), NEW o \in Submitted, NEW inc, inc = IncomingOf(o),
           NEW list, NEW st, MeetsAt(book, inc, list, st),
           NEW closed, ClosesFrom(inc, st, closed)
    PROVE  closed \in Seq(ClosesIn(Orders)) /\ \A j \in 1..Len(closed) : CloseOf(closed[j])
<1>1. /\ list \in Seq(RestingIn(Orders, Accounts)) /\ st \in LoopsIn(Orders, Accounts, LastPrices)
      /\ Shape(list, book.last, inc, st, Len(list)) /\ RestsOf(list) /\ o \in Orders
  BY LoopFacts DEF Submitted
<1>2. /\ inc.id = o /\ inc.qty \in Nat /\ st.left \in Nat /\ st.left <= inc.qty
  BY <1>1, IncomingType DEF LoopsIn, Shape, IncomingIn
<1>3. PICK s : s = st.closed /\ s \in Seq(ClosesIn(Orders))
  BY <1>1 DEF LoopsIn
<1>4. \A j \in 1..Len(s) : CloseOf(s[j])
  <2> TAKE j \in 1..Len(s)
  <2>1. s[j] \in ClosesIn(Orders)
    BY <1>3
  <2>2. j \in 1..Len(list)
    <3>1. Len(st.closed) \in Nat /\ Len(list) \in Nat /\ Len(st.fills) \in Nat
          /\ Len(st.closed) <= Len(st.fills) /\ Len(st.fills) <= Len(list)
      BY <1>1, LoopLengths
    <3> QED BY <1>3, <3>1
  <2>3. s[j].id = list[j].id
    <3>1. st.closed[j] = ClosedFilled(list[j])
      BY <1>1, <1>3 DEF Shape, Used
    <3> QED BY <1>3, <3>1 DEF ClosedFilled
  <2>4. list[j].id \in Submitted
    BY <1>1, <2>2 DEF RestsOf, RestOf
  <2> QED BY <2>1, <2>3, <2>4 DEF CloseOf
<1>5. CASE closed = s
  BY <1>3, <1>4, <1>5
<1>6. CASE closed # s
  <2>1. PICK x : /\ x = IF st.left = 0 THEN [id |-> inc.id, filled |-> inc.qty, status |-> "FILLED"]
                        ELSE [id |-> inc.id, filled |-> inc.qty - st.left, status |-> "CANCELED"]
                 /\ closed = Append(s, x)
    BY <1>2, <1>3, <1>6 DEF ClosesFrom
  <2>2. x \in ClosesIn(Orders) /\ x.id = o
    BY <1>1, <1>2, <2>1 DEF ClosesIn
  <2>3. CloseOf(x)
    BY <2>2 DEF CloseOf
  <2>4. closed \in Seq(ClosesIn(Orders))
    BY <1>3, <2>1, <2>2
  <2>5. Len(closed) = Len(s) + 1 /\ closed[Len(s) + 1] = x /\ \A j \in 1..Len(s) : closed[j] = s[j]
    BY <1>3, <2>1, AppendIs
  <2>6. Len(s) \in Nat
    BY <1>3
  <2>7. \A j \in 1..(Len(s) + 1) : j \in 1..Len(s) \/ j = Len(s) + 1
    BY <2>6
  <2> QED BY <1>4, <2>3, <2>4, <2>5, <2>7
<1> QED BY <1>5, <1>6

LEMMA MatchRowsRecordable ==
    ASSUME charging = TRUE, NEW book, BookOfOrders(book), NEW o \in Submitted,
           NEW r, r = ApplyOrder(book, IncomingOf(o))
    PROVE  SettlementRows(r) \in Seq(RowsToRecord) /\ BookOfOrders(r.book)
<1>1. PICK inc, list, st : /\ inc = IncomingOf(o) /\ list = book[Opposite(inc.side)]
                           /\ st = MatchLoop(book, inc)
  OBVIOUS
<1>2. MeetsAt(book, inc, list, st) /\ o \in Orders
  BY <1>1 DEF MeetsAt, Submitted
<1>3. BookOfOrders(r.book)
  BY <1>1, <1>2, AppliedOfOrders
<1>4. st.left \in Nat /\ st.fills \in Seq(FillsIn(Orders))
  BY <1>1, <1>2, LoopFacts DEF LoopsIn
<1>5. r.fills = st.fills /\ ClosesFrom(inc, st, r.closed)
  BY <1>1, <1>4, ApplyResult
<1>6. r.closed \in Seq(ClosesIn(Orders)) /\ \A j \in 1..Len(r.closed) : CloseOf(r.closed[j])
  BY <1>1, <1>2, <1>5, ClosesOfOrders
<1>7. \A j \in 1..Len(r.fills) : FillOf(inc, r.fills[j])
  BY <1>1, <1>2, <1>5, FillFacts
<1>8. PICK T, C, R : /\ T = [i \in DOMAIN r.fills |-> TradeRow(r.fills[i])]
                     /\ C = [i \in DOMAIN r.closed |-> CloseRow(r.closed[i])]
                     /\ R = RowsToRecord
  OBVIOUS
<1>9. T \in Seq(R)
  <2>1. \A i \in 1..Len(r.fills) : TradeRow(r.fills[i]) \in R
    BY <1>1, <1>7, <1>8, TradeRowRecordable
  <2>2. DOMAIN r.fills = 1..Len(r.fills) /\ Len(r.fills) \in Nat
    BY <1>4, <1>5
  <2> QED BY <1>8, <2>1, <2>2
<1>10. C \in Seq(R)
  <2>1. \A i \in 1..Len(r.closed) : CloseRow(r.closed[i]) \in R
    BY <1>6, <1>8, CloseRowRecordable
  <2>2. DOMAIN r.closed = 1..Len(r.closed) /\ Len(r.closed) \in Nat
    BY <1>6
  <2> QED BY <1>8, <2>1, <2>2
<1>11. SettlementRows(r) = T \o C
  BY <1>8 DEF SettlementRows
<1>12. T \o C \in Seq(R)
  BY <1>9, <1>10, ConcatIs
<1> QED BY <1>3, <1>8, <1>11, <1>12

LEMMA RestingFacts ==
    ASSUME NEW book, BookOfOrders(book), NEW r \in BookOrders(book)
    PROVE  r \in RestingIn(Orders, Accounts) /\ RestOf(r)
<1>1. /\ book.bids \in Seq(RestingIn(Orders, Accounts)) /\ RestsOf(book.bids)
      /\ book.asks \in Seq(RestingIn(Orders, Accounts)) /\ RestsOf(book.asks)
  BY DEF BookOfOrders, BooksIn
<1>2. PICK list : /\ list \in Seq(RestingIn(Orders, Accounts)) /\ RestsOf(list) /\ r \in ToSet(list)
  BY <1>1 DEF BookOrders
<1>3. PICK i \in 1..Len(list) : r = list[i]
  BY <1>2 DEF ToSet
<1> QED BY <1>2, <1>3 DEF RestsOf

LEMMA StageIs ==
    ASSUME LedgerTypeOK, charging = TRUE, NEW book, BookOfOrders(book), NEW ev \in SubmittedEvents
    PROVE  StageOfOrder(Stage(book, ev))
<1>1. PICK o, R : o = ev.order /\ o \in Submitted /\ o \in Orders /\ R = RowsToRecord
  BY DEF SubmittedEvents, Submitted
<1>2. CASE ev.topic = "order.placed"
  <2>1. PICK r : r = ApplyOrder(book, IncomingOf(o))
    OBVIOUS
  <2>2. Stage(book, ev) = [ev |-> ev, book |-> r.book, rows |-> SettlementRows(r)]
    BY <1>1, <1>2, <2>1 DEF Stage, StagePlaced, IncomingOf
  <2>3. SettlementRows(r) \in Seq(RowsToRecord) /\ BookOfOrders(r.book)
    BY <1>1, <2>1, MatchRowsRecordable
  <2> QED BY <2>2, <2>3 DEF StageOfOrder
<1>3. CASE ev.topic # "order.placed"
  <2>1. PICK resting, rows :
           /\ resting = {r \in BookOrders(book) : r.id = o}
           /\ rows = IF resting = {} THEN CloseMissing(o)
                     ELSE LET r == CHOOSE r \in resting : TRUE
                          IN  <<CloseRow(ClosedCanceled(r.id, r.total - r.qty))>>
    OBVIOUS
  <2>2. Stage(book, ev) = [ev |-> ev, book |-> WithoutOrders(book, {o}), rows |-> rows]
    BY <1>1, <1>3, <2>1 DEF Stage, StageCancel, CancelOrder
  <2>3. ASSUME NEW c, CloseOf(c) PROVE <<CloseRow(c)>> \in Seq(R)
    <3>1. CloseRow(c) \in R
      BY <1>1, <2>3, CloseRowRecordable
    <3> QED BY <3>1
  <2>4. ASSUME resting = {} PROVE rows \in Seq(R)
    <3>1. CASE Active(o) /\ RecordedQty(o) = order[o].filled
      <4>1. PICK c : c = [id |-> o, filled |-> order[o].filled,
                          status |-> IF order[o].filled = Terms[o].qty THEN "FILLED" ELSE "CANCELED"]
        OBVIOUS
      <4>2. CloseOf(c)
        BY <1>1, <4>1 DEF CloseOf, ClosesIn, LedgerTypeOK
      <4>3. CloseMissing(o) = <<CloseRow(c)>>
        BY <3>1, <4>1 DEF CloseMissing, CloseRow
      <4> QED BY <2>1, <2>3, <2>4, <4>2, <4>3
    <3>2. CASE ~(Active(o) /\ RecordedQty(o) = order[o].filled)
      <4>1. rows = <<>>
        BY <2>1, <2>4, <3>2 DEF CloseMissing
      <4> QED BY <4>1
    <3> QED BY <3>1, <3>2
  <2>5. ASSUME resting # {} PROVE rows \in Seq(R)
    <3>1. PICK r \in resting : rows = <<CloseRow(ClosedCanceled(r.id, r.total - r.qty))>>
      BY <2>1, <2>5
    <3>2. r \in RestingIn(Orders, Accounts) /\ RestOf(r) /\ r.id = o
      BY <2>1, RestingFacts
    <3>3. r.qty \in Nat /\ r.total \in Nat /\ r.qty <= r.total
      BY <3>2, RestingFields DEF RestOf
    <3>4. CloseOf(ClosedCanceled(r.id, r.total - r.qty))
      BY <1>1, <3>2, <3>3 DEF CloseOf, ClosesIn, ClosedCanceled
    <3> QED BY <2>3, <3>1, <3>4
  <2>6. rows \in Seq(R)
    BY <2>4, <2>5
  <2>7. BookOfOrders(WithoutOrders(book, {o}))
    BY WithoutOfOrders
  <2> QED BY <1>1, <2>2, <2>6, <2>7 DEF StageOfOrder
<1> QED BY <1>2, <1>3

\* ----- queues
LEMMA RemoveAtType ==
    ASSUME NEW R, NEW s \in Seq(R), NEW i \in 1..Len(s)
    PROVE  RemoveAt(s, i) \in Seq(R)
<1>1. PICK n \in Nat : n = Len(s)
  OBVIOUS
<1>2. i \in 1..n
  BY <1>1
<1>3. SubSeq(s, 1, i - 1) \in Seq(R) /\ SubSeq(s, i + 1, n) \in Seq(R)
  BY <1>1, <1>2
<1> QED BY <1>1, <1>3, ConcatIs DEF RemoveAt

LEMMA RemoveFirstType ==
    ASSUME NEW R, NEW s \in Seq(R), NEW x
    PROVE  RemoveFirst(s, x) \in Seq(R)
<1>1. CASE \E i \in 1..Len(s) : s[i] = x
  <2>1. PICK n \in Nat : n = Len(s)
    OBVIOUS
  <2>2. PICK T : T = {i \in 1..n : s[i] = x}
    OBVIOUS
  <2>3. T # {} /\ T \in SUBSET (1..n)
    BY <1>1, <2>1, <2>2
  <2>4. PICK k : k = Min(T) /\ k \in T
    BY <2>3, LeastExists
  <2>5. RemoveFirst(s, x) = RemoveAt(s, k)
    BY <1>1, <2>1, <2>2, <2>3, <2>4 DEF RemoveFirst, SelectInSeq
  <2>6. k \in 1..Len(s)
    BY <2>1, <2>3, <2>4
  <2> QED BY <2>5, <2>6, RemoveAtType
<1>2. CASE ~(\E i \in 1..Len(s) : s[i] = x)
  BY <1>2 DEF RemoveFirst
<1> QED BY <1>1, <1>2

LEMMA InsertAtType ==
    ASSUME NEW R, NEW s \in Seq(R), NEW x \in R, NEW k \in 1..(Len(s) + 1)
    PROVE  InsertAt(s, k, x) \in Seq(R)
<1>1. PICK n \in Nat : n = Len(s)
  OBVIOUS
<1>2. k \in 1..(n + 1) /\ k \in Nat
  BY <1>1
<1>3. PICK u, v : u = SubSeq(s, 1, k - 1) /\ v = SubSeq(s, k, n)
  OBVIOUS
<1>4. u \in Seq(R) /\ v \in Seq(R) /\ <<x>> \in Seq(R)
  <2>1. u \in Seq(R)
    BY <1>1, <1>2, <1>3
  <2>2. v \in Seq(R)
    BY <1>1, <1>2, <1>3
  <2> QED BY <2>1, <2>2
<1>5. u \o <<x>> \in Seq(R)
  BY <1>4, ConcatIs
<1>6. (u \o <<x>>) \o v \in Seq(R)
  BY <1>4, <1>5, ConcatIs
<1> QED BY <1>1, <1>3, <1>6 DEF InsertAt

LEMMA SeqGrows ==
    ASSUME NEW R, NEW Q, R \subseteq Q, NEW s \in Seq(R)
    PROVE  s \in Seq(Q)
  OBVIOUS

----------------------------------------------------------------------------
(***************************************************************************)
(* Everything the pipeline carries stays what it is while the tables move.  *)
(***************************************************************************)
EnginesKeep == \A x : EngineOfOrders(x) => EngineOfOrders(x)'

LEMMA CarriedStays ==
    ASSUME Submitted \subseteq Submitted', charging' = charging
    PROVE  /\ SubmittedEvents \subseteq SubmittedEvents' /\ RowsToRecord \subseteq RowsToRecord'
           /\ EnginesKeep
<1>1. SubmittedEvents \subseteq SubmittedEvents'
  BY DEF SubmittedEvents
<1>2. RowsToRecord \subseteq RowsToRecord'
  <2> SUFFICES ASSUME NEW row \in Rows, Recordable(row) PROVE Recordable(row)'
    BY DEF RowsToRecord
  <2>1. CASE row \in TradeRows /\ Matches(row)
    <3>1. row.buy \in Orders /\ row.sell \in Orders
      BY <2>1 DEF TradeRows
    <3>2. order'[row.buy].status # "NONE" /\ order'[row.sell].status # "NONE"
      BY <2>1, <3>1 DEF Matches, Submitted
    <3>3. Matches(row)'
      BY <2>1, <3>2 DEF Matches
    <3> QED BY <2>1, <3>3 DEF Recordable
  <2>2. CASE row \in CloseRows /\ order[row.order].status # "NONE"
    <3>1. row.order \in Orders
      BY <2>2 DEF CloseRows
    <3>2. order'[row.order].status # "NONE"
      BY <2>2, <3>1 DEF Submitted
    <3> QED BY <2>2, <3>2 DEF Recordable
  <2> QED BY <2>1, <2>2 DEF Recordable
<1>3. \A r : RestOf(r) => RestOf(r)'
  BY DEF RestOf
<1>4. ASSUME NEW b, BookOfOrders(b) PROVE BookOfOrders(b)'
  BY <1>3, <1>4 DEF BookOfOrders, RestsOf
<1>5. ASSUME NEW st, StageOfOrder(st) PROVE StageOfOrder(st)'
  <2>1. st.rows \in Seq(RowsToRecord') /\ st.ev \in SubmittedEvents'
    BY <1>1, <1>2, <1>5, SeqGrows DEF StageOfOrder
  <2> QED BY <1>4, <1>5, <2>1 DEF StageOfOrder
<1>6. EnginesKeep
  BY <1>4, <1>5 DEF EngineOfOrders, EnginesKeep
<1> QED BY <1>1, <1>2, <1>6

LEMMA TablesStay ==
    ASSUME order' = order, charging' = charging
    PROVE  /\ Submitted' = Submitted /\ SubmittedEvents' = SubmittedEvents
           /\ RowsToRecord' = RowsToRecord /\ EnginesKeep
<1>1. Submitted' = Submitted
  BY DEF Submitted
<1>2. SubmittedEvents' = SubmittedEvents
  BY <1>1 DEF SubmittedEvents
<1>3. RowsToRecord' = RowsToRecord
  BY DEF RowsToRecord, Recordable, Matches
<1>4. EnginesKeep
  BY <1>1, CarriedStays
<1> QED BY <1>1, <1>2, <1>3, <1>4

LEMMA EnginesUnchanged ==
    ASSUME EnginesOfOrders, EnginesKeep, engine' = engine
    PROVE  EnginesOfOrders'
  BY DEF EnginesOfOrders, EnginesKeep

LEMMA EngineChanges ==
    ASSUME EnginesOfOrders, EnginesKeep, NEW e \in Engines, NEW y, EngineOfOrders(y)',
           engine' = [engine EXCEPT ![e] = y]
    PROVE  EnginesOfOrders'
<1>1. engine' = [f \in Engines |-> IF f = e THEN y ELSE engine[f]]
  BY DEF EnginesOfOrders
<1>2. ASSUME NEW f \in Engines, NEW z, z = engine'[f] PROVE EngineOfOrders(z)'
  <2>1. CASE f = e
    <3>1. z = y
      BY <1>1, <1>2, <2>1
    <3> QED BY <3>1
  <2>2. CASE f # e
    <3>1. z = engine[f] /\ EngineOfOrders(z)
      BY <1>1, <1>2, <2>2 DEF EnginesOfOrders
    <3> QED BY <3>1 DEF EnginesKeep
  <2> QED BY <2>1, <2>2
<1>3. \A f \in Engines : EngineOfOrders(engine[f])'
  BY <1>2 DEF EngineOfOrders
<1>4. (engine = [f \in Engines |-> engine[f]])'
  BY <1>1
<1> QED BY <1>3, <1>4 DEF EnginesOfOrders

LEMMA PipeInit == Init => PipeInv
<1> SUFFICES ASSUME Init PROVE PipeInv
  OBVIOUS
<1>1. LedgerInv /\ charging = TRUE /\ log = <<>>
  BY InitLedgerInv DEF Init, LedgerInit, LedgerInv, LedgerTypeOK
<1>2. QueuesOfOrders
  BY DEF Init, QueuesOfOrders
<1>3. StreamsOfRows
  <2>1. Len(<<>>) = 0
    OBVIOUS
  <2> QED BY <1>1, <2>1 DEF Init, StreamsOfRows
<1>4. EnginesOfOrders
  <2>1. BookOfOrders(EmptyBook(OpenPrice))
    BY EmptyOfOrders DEF LastPrices
  <2>2. engine = [e \in Engines |-> [mode |-> "standby", book |-> EmptyBook(OpenPrice),
                                     seen |-> {}, stage |-> NoStage]]
    BY DEF Init
  <2>3. \A e \in Engines : engine[e] = [mode |-> "standby", book |-> EmptyBook(OpenPrice),
                                        seen |-> {}, stage |-> NoStage]
    BY <2>2
  <2>4. engine = [e \in Engines |-> engine[e]]
    BY <2>2
  <2> QED BY <2>1, <2>3, <2>4 DEF EnginesOfOrders, EngineOfOrders
<1> QED BY <1>1, <1>2, <1>3, <1>4 DEF PipeInv, Carried

----------------------------------------------------------------------------
(***************************************************************************)
(* Every step of the pipeline is one of the tables, or none, and carries   *)
(* on what the pipeline carries.                                           *)
(***************************************************************************)
LedgerStep == LedgerNext \/ UNCHANGED ledgerVars

LEMMA PlaceStep ==
    ASSUME PipeInv, NEW o \in Orders, Place(o)
    PROVE  LedgerStep /\ Carried'
<1>1. /\ PlaceOrder(o) /\ engine' = engine
      /\ cancels' = cancels /\ orderStream' = orderStream /\ orderPel' = orderPel
      /\ relayed' = relayed /\ tradeStream' = tradeStream /\ tradePel' = tradePel
  BY DEF Place, orderBus, tradeBus
<1>2. /\ charging' = charging /\ log' = log
      /\ order' = [order EXCEPT ![o] = [status |-> "OPEN", filled |-> 0, unit |-> HoldPerUnit(o)]]
  BY <1>1 DEF PlaceOrder
<1>3. /\ QueuesOfOrders /\ StreamsOfRows /\ EnginesOfOrders /\ charging = TRUE
      /\ LedgerTypeOK
  BY DEF PipeInv, Carried, LedgerInv
<1>4. Submitted \subseteq Submitted' /\ o \in Submitted'
  BY <1>2, <1>3 DEF LedgerTypeOK, Submitted
<1>5. /\ SubmittedEvents \subseteq SubmittedEvents' /\ EnginesKeep
  BY <1>2, <1>4, CarriedStays
<1>6. Placed(o) \in SubmittedEvents'
  BY <1>4 DEF SubmittedEvents, Events, Placed
<1>7. PICK S, E : S = Submitted' /\ E = SubmittedEvents'
  OBVIOUS
<1>8. created \in Seq(S) /\ outbox \in Seq(E) /\ orderStream \in Seq(E) /\ orderPel \in Seq(E)
  BY <1>3, <1>4, <1>5, <1>7, SeqGrows DEF QueuesOfOrders
<1>9. created' \in Seq(S) /\ outbox' \in Seq(E)
  <2>1. CASE created' = Append(created, o) /\ outbox' = Append(outbox, Placed(o))
    BY <1>4, <1>6, <1>7, <1>8, <2>1
  <2>2. CASE created # <<>> /\ InsertLate(o)
    <3>1. PICK at : /\ created' = InsertAt(created, Len(created), o)
                    /\ at = SelectInSeq(outbox, LAMBDA ev : ev = Placed(Last(created)))
                    /\ outbox' = InsertAt(outbox, IF at = 0 THEN 1 ELSE at, Placed(o))
      BY <2>2 DEF InsertLate
    <3>2. created' \in Seq(S)
      <4>1. Len(created) \in 1..(Len(created) + 1)
        BY <1>8, <2>2
      <4> QED BY <1>4, <1>7, <1>8, <3>1, <4>1, InsertAtType
    <3>3. at = 0 \/ at \in 1..Len(outbox)
      <4>1. PICK T : T = {i \in 1..Len(outbox) : outbox[i] = Placed(Last(created))}
        OBVIOUS
      <4>2. at = IF T # {} THEN Min(T) ELSE 0
        BY <3>1, <4>1 DEF SelectInSeq
      <4>3. Len(outbox) \in Nat
        BY <1>8
      <4>4. T # {} => Min(T) \in T
        BY <4>1, <4>3, LeastExists
      <4> QED BY <4>1, <4>2, <4>4
    <3>4. PICK k : k = IF at = 0 THEN 1 ELSE at
      OBVIOUS
    <3>5. k \in 1..(Len(outbox) + 1)
      <4>1. Len(outbox) \in Nat
        BY <1>8
      <4> QED BY <3>3, <3>4, <4>1
    <3>6. outbox' \in Seq(E)
      BY <1>6, <1>7, <1>8, <3>1, <3>4, <3>5, InsertAtType
    <3> QED BY <3>2, <3>6
  <2> QED BY <2>1, <2>2 DEF Place
<1>10. QueuesOfOrders'
  BY <1>1, <1>3, <1>7, <1>8, <1>9 DEF QueuesOfOrders
<1>11. StreamsOfRows'
  BY <1>1, <1>2, <1>3 DEF StreamsOfRows
<1>12. EnginesOfOrders'
  BY <1>1, <1>3, <1>5, EnginesUnchanged
<1>13. LedgerStep
  BY <1>1 DEF LedgerStep, LedgerNext
<1> QED BY <1>2, <1>3, <1>10, <1>11, <1>12, <1>13 DEF Carried

\* The steps that leave the tables alone.
TablesKeep == charging' = charging /\ order' = order /\ log' = log

LEMMA TablesKeepFacts ==
    ASSUME PipeInv, TablesKeep
    PROVE  /\ charging' = TRUE /\ LedgerTypeOK /\ EnginesOfOrders /\ EnginesKeep
           /\ Submitted' = Submitted /\ SubmittedEvents' = SubmittedEvents
           /\ created \in Seq(Submitted) /\ cancels \in [Orders -> Nat]
           /\ outbox \in Seq(SubmittedEvents) /\ orderStream \in Seq(SubmittedEvents)
           /\ orderPel \in Seq(SubmittedEvents) /\ StreamsOfRows /\ log \in Seq(Rows)
<1>1. charging = TRUE /\ LedgerTypeOK /\ EnginesOfOrders /\ QueuesOfOrders /\ StreamsOfRows
  BY DEF PipeInv, Carried, LedgerInv
<1>2. Submitted' = Submitted /\ SubmittedEvents' = SubmittedEvents /\ EnginesKeep
  BY TablesStay DEF TablesKeep
<1> QED BY <1>1, <1>2 DEF TablesKeep, QueuesOfOrders, StreamsOfRows

LEMMA StreamsUnchanged ==
    ASSUME StreamsOfRows, log' = log, relayed' = relayed, tradeStream' = tradeStream,
           tradePel' = tradePel
    PROVE  StreamsOfRows'
  BY DEF StreamsOfRows

LEMMA RequestCancelStep ==
    ASSUME PipeInv, NEW o \in Orders, RequestCancel(o)
    PROVE  LedgerStep /\ Carried'
<1>1. /\ UNCHANGED ledgerVars /\ TablesKeep /\ engine' = engine /\ created' = created
      /\ orderStream' = orderStream /\ orderPel' = orderPel
      /\ relayed' = relayed /\ tradeStream' = tradeStream /\ tradePel' = tradePel
      /\ Active(o) /\ cancels' = [cancels EXCEPT ![o] = cancels[o] + 1]
      /\ outbox' = Append(outbox, CancelRequested(o, cancels'[o]))
  BY DEF RequestCancel, orderBus, tradeBus, matchVars, ledgerVars, TablesKeep
<1>2. /\ charging' = TRUE /\ EnginesOfOrders /\ EnginesKeep
      /\ Submitted' = Submitted /\ SubmittedEvents' = SubmittedEvents
      /\ created \in Seq(Submitted) /\ cancels \in [Orders -> Nat]
      /\ outbox \in Seq(SubmittedEvents) /\ orderStream \in Seq(SubmittedEvents)
      /\ orderPel \in Seq(SubmittedEvents) /\ StreamsOfRows
  BY <1>1, TablesKeepFacts
<1>3. cancels' \in [Orders -> Nat] /\ cancels'[o] \in Nat
  BY <1>1, <1>2
<1>4. CancelRequested(o, cancels'[o]) \in SubmittedEvents
  BY <1>1, <1>3 DEF CancelRequested, SubmittedEvents, Events, Submitted, Active
<1>5. outbox' \in Seq(SubmittedEvents)
  BY <1>1, <1>2, <1>4
<1>6. QueuesOfOrders'
  BY <1>1, <1>2, <1>3, <1>5 DEF QueuesOfOrders
<1>7. StreamsOfRows' /\ EnginesOfOrders'
  BY <1>1, <1>2, StreamsUnchanged, EnginesUnchanged DEF TablesKeep
<1> QED BY <1>1, <1>2, <1>6, <1>7 DEF Carried, LedgerStep

LEMMA RelayOrderStep ==
    ASSUME PipeInv, RelayOrder
    PROVE  LedgerStep /\ Carried'
<1>1. /\ UNCHANGED ledgerVars /\ TablesKeep /\ engine' = engine /\ created' = created
      /\ cancels' = cancels /\ orderPel' = orderPel
      /\ relayed' = relayed /\ tradeStream' = tradeStream /\ tradePel' = tradePel
      /\ outbox # <<>> /\ orderStream' = Append(orderStream, Head(outbox))
      /\ outbox' = Tail(outbox) \/ outbox' = outbox
  BY DEF RelayOrder, tradeBus, matchVars, ledgerVars, TablesKeep
<1>2. /\ charging' = TRUE /\ EnginesOfOrders /\ EnginesKeep
      /\ Submitted' = Submitted /\ SubmittedEvents' = SubmittedEvents
      /\ created \in Seq(Submitted) /\ cancels \in [Orders -> Nat]
      /\ outbox \in Seq(SubmittedEvents) /\ orderStream \in Seq(SubmittedEvents)
      /\ orderPel \in Seq(SubmittedEvents) /\ StreamsOfRows
  BY <1>1, TablesKeepFacts
<1>3. PICK E : E = SubmittedEvents
  OBVIOUS
<1>4. outbox' \in Seq(E) /\ orderStream' \in Seq(E)
  <2>1. outbox \in Seq(E) /\ orderStream \in Seq(E)
    BY <1>2, <1>3
  <2>2. PICK ev : ev = Head(outbox) /\ ev \in E
    BY <1>1, <2>1
  <2>3. Tail(outbox) \in Seq(E)
    BY <1>1, <2>1
  <2>4. outbox' \in Seq(E)
    BY <1>1, <2>1, <2>3
  <2>5. orderStream' = Append(orderStream, ev)
    BY <1>1, <2>2
  <2>6. orderStream' \in Seq(E)
    BY <2>1, <2>2, <2>5
  <2> QED BY <2>4, <2>6
<1>5. QueuesOfOrders'
  BY <1>1, <1>2, <1>3, <1>4 DEF QueuesOfOrders
<1>6. StreamsOfRows' /\ EnginesOfOrders'
  BY <1>1, <1>2, StreamsUnchanged, EnginesUnchanged DEF TablesKeep
<1> QED BY <1>1, <1>2, <1>5, <1>6 DEF Carried, LedgerStep

LEMMA LeadStep ==
    ASSUME PipeInv, NEW e \in Engines, Lead(e)
    PROVE  LedgerStep /\ Carried'
<1>1. /\ UNCHANGED ledgerVars /\ TablesKeep /\ created' = created /\ outbox' = outbox
      /\ cancels' = cancels /\ orderPel' = orderPel /\ orderStream' = orderStream
      /\ relayed' = relayed /\ tradeStream' = tradeStream /\ tradePel' = tradePel
  BY DEF Lead, dbVars, orderBus, tradeBus, matchVars, ledgerVars, TablesKeep
<1>2. /\ charging' = TRUE /\ EnginesOfOrders /\ EnginesKeep /\ LedgerTypeOK
      /\ Submitted' = Submitted /\ SubmittedEvents' = SubmittedEvents
      /\ created \in Seq(Submitted) /\ cancels \in [Orders -> Nat]
      /\ outbox \in Seq(SubmittedEvents) /\ orderStream \in Seq(SubmittedEvents)
      /\ orderPel \in Seq(SubmittedEvents) /\ StreamsOfRows /\ log \in Seq(Rows)
  BY <1>1, TablesKeepFacts
<1>3. PICK b, y : /\ b = RestoreBook(LastPrice, RestorableRows)
                  /\ y = [mode |-> "leading", book |-> b, seen |-> {}, stage |-> NoStage]
                  /\ engine' = [engine EXCEPT ![e] = y]
  BY DEF Lead
<1>4. BookOfOrders(b)
  BY <1>2, <1>3, RestoredOfOrders
<1>5. EngineOfOrders(y)
  BY <1>3, <1>4 DEF EngineOfOrders
<1>6. EnginesOfOrders'
  BY <1>2, <1>3, <1>5, EngineChanges DEF EnginesKeep
<1>7. QueuesOfOrders'
  BY <1>1, <1>2 DEF QueuesOfOrders
<1>8. StreamsOfRows'
  BY <1>1, <1>2, StreamsUnchanged DEF TablesKeep
<1> QED BY <1>1, <1>2, <1>6, <1>7, <1>8 DEF Carried, LedgerStep

\* One engine becomes y, the others stay.
LEMMA EngineBecomes ==
    ASSUME NEW e \in Engines, NEW y, DOMAIN engine = Engines,
           engine' = [f \in Engines |-> engine'[f]],
           engine'[e] = y, \A f \in Engines : f # e => engine'[f] = engine[f]
    PROVE  engine' = [engine EXCEPT ![e] = y]
  OBVIOUS

LEMMA StandbyOfOrders ==
    EngineOfOrders([mode |-> "standby", book |-> EmptyBook(OpenPrice),
                    seen |-> {}, stage |-> NoStage])
<1>1. BookOfOrders(EmptyBook(OpenPrice))
  BY EmptyOfOrders DEF LastPrices
<1> QED BY <1>1 DEF EngineOfOrders

\* ----- an event, up to its transaction
LEMMA HandleOfOrders ==
    ASSUME PipeInv, TablesKeep, NEW e \in Engines, NEW ev \in SubmittedEvents, NEW recovery,
           NEW pending \in Seq(SubmittedEvents), Handle(e, ev, recovery, pending)
    PROVE  EnginesOfOrders' /\ orderPel' \in Seq(SubmittedEvents)
<1>1. /\ charging = TRUE /\ EnginesOfOrders /\ EnginesKeep /\ LedgerTypeOK
  BY TablesKeepFacts DEF PipeInv, Carried
<1>2. PICK x, b : x = engine[e] /\ b = Prune(engine[e].book)
  OBVIOUS
<1>3. /\ x = [mode |-> x.mode, book |-> x.book, seen |-> x.seen, stage |-> x.stage]
      /\ BookOfOrders(x.book) /\ x.mode = "leading" /\ x.stage = NoStage
      /\ DOMAIN engine = Engines
  BY <1>1, <1>2 DEF EnginesOfOrders, EngineOfOrders, Handle
<1>4. BookOfOrders(b)
  BY <1>2, <1>3, WithoutOfOrders DEF Prune
<1>5. CASE Skips(e, b, ev, recovery)
  <2>1. /\ engine' = [engine EXCEPT ![e].book = b, ![e].seen = @ \cup {ev}]
        /\ orderPel' = RemoveFirst(pending, ev)
    BY <1>2, <1>5 DEF Handle
  <2>2. PICK y : y = [mode |-> x.mode, book |-> b, seen |-> x.seen \cup {ev}, stage |-> x.stage]
    OBVIOUS
  <2>3. engine' = [engine EXCEPT ![e] = y]
    <3>1. engine'[e] = y
      BY <1>2, <1>3, <2>1, <2>2
    <3>2. \A f \in Engines : f # e => engine'[f] = engine[f]
      BY <1>2, <1>3, <2>1, <2>2
    <3>3. engine' = [f \in Engines |-> engine'[f]]
      BY <1>2, <1>3, <2>1, <2>2
    <3> QED BY <1>2, <1>3, <2>1, <2>2, <3>1, <3>2, <3>3, EngineBecomes
  <2>4. EngineOfOrders(y)
    BY <1>3, <1>4, <2>2 DEF EngineOfOrders
  <2> QED BY <1>1, <2>1, <2>3, <2>4, EngineChanges, RemoveFirstType DEF EnginesKeep
<1>6. CASE ~Skips(e, b, ev, recovery)
  <2>1. /\ engine' = [engine EXCEPT ![e].book = b, ![e].stage = Stage(b, ev)]
        /\ orderPel' = pending
    BY <1>2, <1>6 DEF Handle
  <2>2. PICK y, st : /\ st = Stage(b, ev)
                     /\ y = [mode |-> x.mode, book |-> b, seen |-> x.seen, stage |-> st]
    OBVIOUS
  <2>3. engine' = [engine EXCEPT ![e] = y]
    <3>1. engine'[e] = y
      BY <1>2, <1>3, <2>1, <2>2
    <3>2. \A f \in Engines : f # e => engine'[f] = engine[f]
      BY <1>2, <1>3, <2>1, <2>2
    <3>3. engine' = [f \in Engines |-> engine'[f]]
      BY <1>2, <1>3, <2>1, <2>2
    <3> QED BY <1>2, <1>3, <2>1, <2>2, <3>1, <3>2, <3>3, EngineBecomes
  <2>4. StageOfOrder(st)
    BY <1>1, <1>4, <2>2, StageIs
  <2>5. EngineOfOrders(y)
    BY <1>3, <1>4, <2>2, <2>4 DEF EngineOfOrders
  <2> QED BY <1>1, <2>1, <2>3, <2>5, EngineChanges DEF EnginesKeep
<1> QED BY <1>5, <1>6

LEMMA HandleNewStep ==
    ASSUME PipeInv, NEW e \in Engines, HandleNew(e)
    PROVE  LedgerStep /\ Carried'
<1>1. /\ UNCHANGED ledgerVars /\ TablesKeep /\ created' = created /\ outbox' = outbox
      /\ cancels' = cancels /\ orderStream # <<>> /\ orderStream' = Tail(orderStream)
      /\ relayed' = relayed /\ tradeStream' = tradeStream /\ tradePel' = tradePel
      /\ Handle(e, Head(orderStream), FALSE, Append(orderPel, Head(orderStream)))
  BY DEF HandleNew, dbVars, orderBus, tradeBus, matchVars, ledgerVars, TablesKeep
<1>2. /\ charging' = TRUE /\ Submitted' = Submitted /\ SubmittedEvents' = SubmittedEvents
      /\ created \in Seq(Submitted) /\ cancels \in [Orders -> Nat]
      /\ outbox \in Seq(SubmittedEvents) /\ orderStream \in Seq(SubmittedEvents)
      /\ orderPel \in Seq(SubmittedEvents) /\ StreamsOfRows
  BY <1>1, TablesKeepFacts
<1>3. PICK E : E = SubmittedEvents
  OBVIOUS
<1>4. PICK ev : ev = Head(orderStream) /\ ev \in E
  BY <1>1, <1>2, <1>3
<1>5. PICK pending : pending = Append(orderPel, ev) /\ pending \in Seq(E)
  <2>1. orderPel \in Seq(E) /\ ev \in E
    BY <1>2, <1>3, <1>4
  <2>2. Append(orderPel, ev) \in Seq(E)
    BY <2>1
  <2> QED BY <2>2
<1>6. EnginesOfOrders' /\ orderPel' \in Seq(E)
  BY <1>1, <1>3, <1>4, <1>5, HandleOfOrders
<1>7. Tail(orderStream) \in Seq(E)
  BY <1>1, <1>2, <1>3
<1>8. QueuesOfOrders'
  BY <1>1, <1>2, <1>3, <1>6, <1>7 DEF QueuesOfOrders
<1>9. StreamsOfRows'
  BY <1>1, <1>2, StreamsUnchanged DEF TablesKeep
<1> QED BY <1>1, <1>2, <1>6, <1>8, <1>9 DEF Carried, LedgerStep

LEMMA HandlePendingStep ==
    ASSUME PipeInv, NEW e \in Engines, HandlePending(e)
    PROVE  LedgerStep /\ Carried'
<1>1. PICK i \in DOMAIN orderPel :
      /\ UNCHANGED ledgerVars /\ TablesKeep /\ created' = created /\ outbox' = outbox
      /\ cancels' = cancels /\ orderStream' = orderStream
      /\ relayed' = relayed /\ tradeStream' = tradeStream /\ tradePel' = tradePel
      /\ Handle(e, orderPel[i], TRUE, orderPel)
  BY DEF HandlePending, dbVars, orderBus, tradeBus, matchVars, ledgerVars, TablesKeep
<1>2. /\ charging' = TRUE /\ Submitted' = Submitted /\ SubmittedEvents' = SubmittedEvents
      /\ created \in Seq(Submitted) /\ cancels \in [Orders -> Nat]
      /\ outbox \in Seq(SubmittedEvents) /\ orderStream \in Seq(SubmittedEvents)
      /\ orderPel \in Seq(SubmittedEvents) /\ StreamsOfRows
  BY <1>1, TablesKeepFacts
<1>3. PICK E : E = SubmittedEvents
  OBVIOUS
<1>4. PICK ev, pending : ev = orderPel[i] /\ ev \in E /\ pending = orderPel /\ pending \in Seq(E)
  BY <1>2, <1>3
<1>5. EnginesOfOrders' /\ orderPel' \in Seq(E)
  BY <1>1, <1>3, <1>4, HandleOfOrders
<1>6. QueuesOfOrders'
  BY <1>1, <1>2, <1>3, <1>5 DEF QueuesOfOrders
<1>7. StreamsOfRows'
  BY <1>1, <1>2, StreamsUnchanged DEF TablesKeep
<1> QED BY <1>1, <1>2, <1>5, <1>6, <1>7 DEF Carried, LedgerStep

\* ----- its transaction
LEMMA PersistIsRecord ==
    ASSUME PipeInv, charging' = charging, order' = order, account' = account,
           processed' = processed, NEW st, StageOfOrder(st), Persist(st)
    PROVE  LedgerStep /\ StreamsOfRows /\ log' \in Seq(Rows) /\ Len(log') >= Len(log)
<1>1. log \in Seq(Rows) /\ StreamsOfRows
  BY DEF PipeInv, Carried, StreamsOfRows
<1>2. CASE st.ev \in claimed
  BY <1>1, <1>2 DEF Persist, LedgerStep, ledgerVars
<1>3. CASE st.ev \notin claimed
  <2>1. PICK rows : rows = st.rows /\ log' = log \o rows /\ rows \in Seq(RowsToRecord)
    BY <1>3 DEF Persist, StageOfOrder
  <2>2. RowsToRecord \subseteq Rows /\ rows \in Seq(Rows)
    <3>1. RowsToRecord \subseteq Rows
      BY DEF RowsToRecord
    <3> QED BY <2>1, <3>1, SeqGrows
  <2>3. PICK N : N = log' /\ N \in Seq(Rows) /\ Joined(log, rows, N)
    BY <1>1, <2>1, <2>2, ConcatIs
  <2>4. PICK n \in Nat, m \in Nat : n = Len(log) /\ m = Len(rows)
    BY <1>1, <2>1
  <2>5. /\ Len(N) = n + m /\ DOMAIN log = 1..n /\ DOMAIN N = 1..(n + m)
        /\ \A k \in 1..n : N[k] = log[k]
        /\ \A k \in 1..m : N[n + k] = rows[k]
    BY <1>1, <2>3, <2>4 DEF Joined
  <2>6. \A k \in 1..m : Recordable(rows[k])
    BY <2>1, <2>4 DEF RowsToRecord
  <2>7. \A i \in DOMAIN N : IF i \in DOMAIN log THEN N[i] = log[i] ELSE Recordable(N[i])
    <3> TAKE i \in DOMAIN N
    <3>1. CASE i \in 1..n
      BY <2>5, <3>1
    <3>2. CASE i \notin 1..n
      <4>1. i - n \in 1..m /\ i = n + (i - n)
        BY <2>4, <2>5, <3>2
      <4> QED BY <2>5, <2>6, <3>2, <4>1
    <3> QED BY <3>1, <3>2
  <2>8. DOMAIN log \subseteq DOMAIN N
    BY <2>4, <2>5
  <2>9. Record
    <3>1. IsFiniteSet(DOMAIN N)
      BY <2>4, <2>5, FS_Interval
    <3> QED BY <2>3, <2>7, <2>8, <3>1 DEF Record
  <2> QED BY <1>1, <2>3, <2>4, <2>5, <2>9 DEF LedgerStep, LedgerNext
<1> QED BY <1>2, <1>3

\* What all three ways of a transaction to commit have in common.
Commits(e) ==
    /\ engine[e].stage # NoStage /\ Persist(engine[e].stage)
    /\ charging' = charging /\ order' = order /\ account' = account /\ processed' = processed
    /\ created' = created /\ cancels' = cancels /\ outbox' = outbox
    /\ orderStream' = orderStream /\ relayed' = relayed /\ tradeStream' = tradeStream
    /\ tradePel' = tradePel
    /\ orderPel' = orderPel \/ orderPel' = RemoveFirst(orderPel, engine[e].stage.ev)
    /\ \/ engine[e].mode = "leading" /\ engine' = AfterPersist(e)
       \/ engine[e].mode = "leading" /\ engine' = [engine EXCEPT ![e].stage = NoStage]
       \/ engine' = Standby(e)

LEMMA CommitsStep ==
    ASSUME PipeInv, NEW e \in Engines, Commits(e)
    PROVE  LedgerStep /\ Carried'
<1>1. /\ charging = TRUE /\ QueuesOfOrders /\ StreamsOfRows /\ EnginesOfOrders
  BY DEF PipeInv, Carried
<1>2. PICK x, st : x = engine[e] /\ st = x.stage /\ st # NoStage /\ Persist(st)
  BY DEF Commits
<1>3. /\ EngineOfOrders(x) /\ StageOfOrder(st) /\ BookOfOrders(x.book) /\ DOMAIN engine = Engines
      /\ x = [mode |-> x.mode, book |-> x.book, seen |-> x.seen, stage |-> x.stage]
  BY <1>1, <1>2 DEF EnginesOfOrders, EngineOfOrders
<1>4. LedgerStep /\ log \in Seq(Rows) /\ log' \in Seq(Rows) /\ Len(log') >= Len(log)
  BY <1>2, <1>3, PersistIsRecord DEF Commits, StreamsOfRows
<1>5. /\ Submitted' = Submitted /\ SubmittedEvents' = SubmittedEvents /\ EnginesKeep
  BY TablesStay DEF Commits
<1>6. QueuesOfOrders'
  <2>1. orderPel' \in Seq(SubmittedEvents)
    BY <1>1, RemoveFirstType DEF Commits, QueuesOfOrders
  <2> QED BY <1>1, <1>5, <2>1 DEF Commits, QueuesOfOrders
<1>7. StreamsOfRows'
  <2>1. PICK n \in Nat, m \in Nat : n = Len(log) /\ m = Len(log') /\ n <= m
    BY <1>4
  <2>2. 1..n \subseteq 1..m
    BY <2>1
  <2>3. tradeStream \in Seq(1..n) /\ tradePel \in Seq(1..n) /\ relayed \in Nat /\ relayed <= n
    BY <1>1, <2>1 DEF StreamsOfRows
  <2>4. tradeStream \in Seq(1..m) /\ tradePel \in Seq(1..m) /\ relayed <= m
    BY <2>1, <2>2, <2>3, SeqGrows
  <2> QED BY <1>4, <2>1, <2>3, <2>4 DEF Commits, StreamsOfRows
<1>8. EnginesOfOrders'
  <2>1. PICK y : engine' = [engine EXCEPT ![e] = y] /\ EngineOfOrders(y)
    <3>1. CASE x.mode = "leading" /\ engine' = AfterPersist(e)
      <4>1. PICK y : y = [mode |-> x.mode, book |-> IF st.ev \in claimed THEN x.book ELSE st.book,
                          seen |-> x.seen \cup {st.ev}, stage |-> NoStage]
        OBVIOUS
      <4>2. engine' = [engine EXCEPT ![e] = y]
        <5>1. engine'[e] = y
          BY <1>2, <1>3, <3>1, <4>1 DEF AfterPersist
        <5>2. \A f \in Engines : f # e => engine'[f] = engine[f]
          BY <1>2, <1>3, <3>1, <4>1 DEF AfterPersist
        <5>3. engine' = [f \in Engines |-> engine'[f]]
          BY <1>2, <1>3, <3>1, <4>1 DEF AfterPersist
        <5> QED BY <1>2, <1>3, <3>1, <4>1, <5>1, <5>2, <5>3, EngineBecomes
      <4>3. BookOfOrders(y.book)
        BY <1>3, <4>1 DEF StageOfOrder
      <4>4. EngineOfOrders(y)
        BY <3>1, <4>1, <4>3 DEF EngineOfOrders
      <4> QED BY <4>2, <4>4
    <3>2. CASE x.mode = "leading" /\ engine' = [engine EXCEPT ![e].stage = NoStage]
      <4>1. PICK y : y = [mode |-> x.mode, book |-> x.book, seen |-> x.seen, stage |-> NoStage]
        OBVIOUS
      <4>2. engine' = [engine EXCEPT ![e] = y]
        <5>1. engine'[e] = y
          BY <1>2, <1>3, <3>2, <4>1
        <5>2. \A f \in Engines : f # e => engine'[f] = engine[f]
          BY <1>2, <1>3, <3>2, <4>1
        <5>3. engine' = [f \in Engines |-> engine'[f]]
          BY <1>2, <1>3, <3>2, <4>1
        <5> QED BY <1>2, <1>3, <3>2, <4>1, <5>1, <5>2, <5>3, EngineBecomes
      <4>3. EngineOfOrders(y)
        BY <1>3, <3>2, <4>1 DEF EngineOfOrders
      <4> QED BY <4>2, <4>3
    <3>3. CASE engine' = Standby(e)
      BY <3>3, StandbyOfOrders DEF Standby
    <3> QED BY <1>2, <3>1, <3>2, <3>3 DEF Commits
  <2> QED BY <1>1, <1>5, <2>1, EngineChanges DEF EnginesKeep
<1> QED BY <1>1, <1>4, <1>6, <1>7, <1>8 DEF Carried, Commits

LEMMA CommitStep ==
    ASSUME PipeInv, NEW e \in Engines, Commit(e) \/ CommitUnknown(e) \/ ZombieCommit(e)
    PROVE  LedgerStep /\ Carried'
<1>1. CASE Commit(e)
  BY <1>1, CommitsStep DEF Commits, Commit, dbVars, tradeBus
<1>2. CASE CommitUnknown(e)
  BY <1>2, CommitsStep DEF Commits, CommitUnknown, dbVars, tradeBus, orderBus
<1>3. CASE ZombieCommit(e)
  <2>1. engine[e].stage # NoStage
    BY <1>3 DEF ZombieCommit, PipeInv, Carried, EnginesOfOrders, EngineOfOrders
  <2> QED BY <1>3, <2>1, CommitsStep DEF Commits, ZombieCommit, dbVars, tradeBus, orderBus
<1> QED BY <1>1, <1>2, <1>3

\* ----- the faults of a process
LEMMA CommitFailsStep ==
    ASSUME PipeInv, NEW e \in Engines, CommitFails(e)
    PROVE  LedgerStep /\ Carried'
<1>1. /\ UNCHANGED ledgerVars /\ TablesKeep /\ created' = created /\ outbox' = outbox
      /\ cancels' = cancels /\ orderPel' = orderPel /\ orderStream' = orderStream
      /\ relayed' = relayed /\ tradeStream' = tradeStream /\ tradePel' = tradePel
      /\ engine[e].mode = "leading" /\ engine' = [engine EXCEPT ![e].stage = NoStage]
  BY DEF CommitFails, dbVars, orderBus, tradeBus, matchVars, ledgerVars, TablesKeep
<1>2. /\ charging' = TRUE /\ EnginesOfOrders /\ EnginesKeep
      /\ Submitted' = Submitted /\ SubmittedEvents' = SubmittedEvents
      /\ created \in Seq(Submitted) /\ cancels \in [Orders -> Nat]
      /\ outbox \in Seq(SubmittedEvents) /\ orderStream \in Seq(SubmittedEvents)
      /\ orderPel \in Seq(SubmittedEvents) /\ StreamsOfRows
  BY <1>1, TablesKeepFacts
<1>3. PICK x : x = engine[e]
  OBVIOUS
<1>4. /\ EngineOfOrders(x) /\ DOMAIN engine = Engines /\ x.mode = "leading"
      /\ x = [mode |-> x.mode, book |-> x.book, seen |-> x.seen, stage |-> x.stage]
  BY <1>1, <1>2, <1>3 DEF EnginesOfOrders, EngineOfOrders
<1>5. PICK y : y = [mode |-> x.mode, book |-> x.book, seen |-> x.seen, stage |-> NoStage]
  OBVIOUS
<1>6. engine' = [engine EXCEPT ![e] = y]
  <2>1. engine'[e] = y
    BY <1>1, <1>3, <1>4, <1>5
  <2>2. \A f \in Engines : f # e => engine'[f] = engine[f]
    BY <1>1, <1>3, <1>4, <1>5
  <2>3. engine' = [f \in Engines |-> engine'[f]]
    BY <1>1, <1>3, <1>4, <1>5
  <2> QED BY <1>1, <1>3, <1>4, <1>5, <2>1, <2>2, <2>3, EngineBecomes
<1>7. EngineOfOrders(y)
  BY <1>4, <1>5 DEF EngineOfOrders
<1>8. EnginesOfOrders'
  BY <1>2, <1>6, <1>7, EngineChanges DEF EnginesKeep
<1>9. QueuesOfOrders'
  BY <1>1, <1>2 DEF QueuesOfOrders
<1>10. StreamsOfRows'
  BY <1>1, <1>2, StreamsUnchanged DEF TablesKeep
<1> QED BY <1>1, <1>2, <1>8, <1>9, <1>10 DEF Carried, LedgerStep

LEMMA LoseLeaseStep ==
    ASSUME PipeInv, NEW e \in Engines, LoseLease(e)
    PROVE  LedgerStep /\ Carried'
<1>1. /\ UNCHANGED ledgerVars /\ TablesKeep /\ created' = created /\ outbox' = outbox
      /\ cancels' = cancels /\ orderPel' = orderPel /\ orderStream' = orderStream
      /\ relayed' = relayed /\ tradeStream' = tradeStream /\ tradePel' = tradePel
      /\ engine[e].stage # NoStage /\ engine' = [engine EXCEPT ![e].mode = "zombie"]
  BY DEF LoseLease, dbVars, orderBus, tradeBus, matchVars, ledgerVars, TablesKeep
<1>2. /\ charging' = TRUE /\ EnginesOfOrders /\ EnginesKeep
      /\ Submitted' = Submitted /\ SubmittedEvents' = SubmittedEvents
      /\ created \in Seq(Submitted) /\ cancels \in [Orders -> Nat]
      /\ outbox \in Seq(SubmittedEvents) /\ orderStream \in Seq(SubmittedEvents)
      /\ orderPel \in Seq(SubmittedEvents) /\ StreamsOfRows
  BY <1>1, TablesKeepFacts
<1>3. PICK x : x = engine[e]
  OBVIOUS
<1>4. /\ EngineOfOrders(x) /\ DOMAIN engine = Engines /\ x.stage # NoStage
      /\ x = [mode |-> x.mode, book |-> x.book, seen |-> x.seen, stage |-> x.stage]
  BY <1>1, <1>2, <1>3 DEF EnginesOfOrders, EngineOfOrders
<1>5. PICK y : y = [mode |-> "zombie", book |-> x.book, seen |-> x.seen, stage |-> x.stage]
  OBVIOUS
<1>6. engine' = [engine EXCEPT ![e] = y]
  <2>1. engine'[e] = y
    BY <1>1, <1>3, <1>4, <1>5
  <2>2. \A f \in Engines : f # e => engine'[f] = engine[f]
    BY <1>1, <1>3, <1>4, <1>5
  <2>3. engine' = [f \in Engines |-> engine'[f]]
    BY <1>1, <1>3, <1>4, <1>5
  <2> QED BY <1>1, <1>3, <1>4, <1>5, <2>1, <2>2, <2>3, EngineBecomes
<1>7. EngineOfOrders(y)
  BY <1>4, <1>5 DEF EngineOfOrders
<1>8. EnginesOfOrders'
  BY <1>2, <1>6, <1>7, EngineChanges DEF EnginesKeep
<1>9. QueuesOfOrders'
  BY <1>1, <1>2 DEF QueuesOfOrders
<1>10. StreamsOfRows'
  BY <1>1, <1>2, StreamsUnchanged DEF TablesKeep
<1> QED BY <1>1, <1>2, <1>8, <1>9, <1>10 DEF Carried, LedgerStep

LEMMA CrashStep ==
    ASSUME PipeInv, NEW e \in Engines, Crash(e)
    PROVE  LedgerStep /\ Carried'
<1>1. PICK n \in 0..Len(orderStream) :
      /\ UNCHANGED ledgerVars /\ TablesKeep /\ created' = created /\ outbox' = outbox
      /\ cancels' = cancels /\ engine' = Standby(e)
      /\ orderPel' = orderPel \o SubSeq(orderStream, 1, n)
      /\ orderStream' = SubSeq(orderStream, n + 1, Len(orderStream))
      /\ relayed' = relayed /\ tradeStream' = tradeStream /\ tradePel' = tradePel
  BY DEF Crash, dbVars, orderBus, tradeBus, matchVars, ledgerVars, TablesKeep
<1>2. /\ charging' = TRUE /\ EnginesOfOrders /\ EnginesKeep
      /\ Submitted' = Submitted /\ SubmittedEvents' = SubmittedEvents
      /\ created \in Seq(Submitted) /\ cancels \in [Orders -> Nat]
      /\ outbox \in Seq(SubmittedEvents) /\ orderStream \in Seq(SubmittedEvents)
      /\ orderPel \in Seq(SubmittedEvents) /\ StreamsOfRows
  BY <1>1, TablesKeepFacts
<1>3. PICK E, s, p : E = SubmittedEvents /\ s = orderStream /\ p = orderPel
  OBVIOUS
<1>4. s \in Seq(E) /\ p \in Seq(E)
  BY <1>2, <1>3
<1>5. PICK len \in Nat : len = Len(s) /\ n \in 0..len
  BY <1>1, <1>3, <1>4
<1>6. PICK u, v : u = SubSeq(s, 1, n) /\ v = SubSeq(s, n + 1, len)
  OBVIOUS
<1>7. u \in Seq(E)
  BY <1>4, <1>5, <1>6
<1>8. v \in Seq(E)
  BY <1>4, <1>5, <1>6
<1>9. p \o u \in Seq(E)
  BY <1>4, <1>7, ConcatIs
<1>10. orderPel' \in Seq(E) /\ orderStream' \in Seq(E)
  BY <1>1, <1>3, <1>5, <1>6, <1>8, <1>9
<1>11. QueuesOfOrders'
  BY <1>1, <1>2, <1>3, <1>10 DEF QueuesOfOrders
<1>12. EnginesOfOrders'
  BY <1>1, <1>2, StandbyOfOrders, EngineChanges DEF EnginesKeep, Standby
<1>13. StreamsOfRows'
  BY <1>1, <1>2, StreamsUnchanged DEF TablesKeep
<1> QED BY <1>1, <1>2, <1>11, <1>12, <1>13 DEF Carried, LedgerStep

\* ----- the rows on their way to settlement
LEMMA RelayTradeStep ==
    ASSUME PipeInv, RelayTrade
    PROVE  LedgerStep /\ Carried'
<1>1. /\ UNCHANGED ledgerVars /\ TablesKeep /\ created' = created /\ outbox' = outbox
      /\ cancels' = cancels /\ orderPel' = orderPel /\ orderStream' = orderStream
      /\ tradePel' = tradePel /\ engine' = engine
      /\ \/ /\ relayed < Len(log)
            /\ tradeStream' = Append(tradeStream, relayed + 1) /\ relayed' = relayed + 1
         \/ /\ \E i \in DOMAIN log : tradeStream' = Append(tradeStream, i)
            /\ relayed' = relayed
  BY DEF RelayTrade, dbVars, orderBus, matchVars, ledgerVars, TablesKeep
<1>2. /\ charging' = TRUE /\ EnginesOfOrders /\ EnginesKeep
      /\ Submitted' = Submitted /\ SubmittedEvents' = SubmittedEvents
      /\ created \in Seq(Submitted) /\ cancels \in [Orders -> Nat]
      /\ outbox \in Seq(SubmittedEvents) /\ orderStream \in Seq(SubmittedEvents)
      /\ orderPel \in Seq(SubmittedEvents) /\ StreamsOfRows
  BY <1>1, TablesKeepFacts
<1>3. PICK n \in Nat : n = Len(log) /\ DOMAIN log = 1..n
  BY <1>2 DEF StreamsOfRows
<1>4. tradeStream \in Seq(1..n) /\ relayed \in Nat /\ relayed <= n
  BY <1>2, <1>3 DEF StreamsOfRows
<1>5. PICK i \in 1..n : tradeStream' = Append(tradeStream, i)
                        /\ (relayed' = relayed \/ (relayed' = relayed + 1 /\ relayed < n))
  <2>1. CASE relayed < n /\ tradeStream' = Append(tradeStream, relayed + 1) /\ relayed' = relayed + 1
    <3>1. relayed + 1 \in 1..n
      BY <1>3, <1>4, <2>1
    <3> QED BY <2>1, <3>1
  <2>2. CASE (\E i \in 1..n : tradeStream' = Append(tradeStream, i)) /\ relayed' = relayed
    BY <2>2
  <2> QED BY <1>1, <1>3, <2>1, <2>2
<1>6. tradeStream' \in Seq(1..n)
  BY <1>4, <1>5
<1>7. relayed' \in Nat /\ relayed' <= n
  BY <1>3, <1>4, <1>5
<1>8. StreamsOfRows'
  BY <1>1, <1>2, <1>3, <1>6, <1>7 DEF StreamsOfRows, TablesKeep
<1>9. EnginesOfOrders'
  BY <1>1, <1>2, EnginesUnchanged
<1>10. QueuesOfOrders'
  BY <1>1, <1>2 DEF QueuesOfOrders
<1> QED BY <1>1, <1>2, <1>8, <1>9, <1>10 DEF Carried, LedgerStep

LEMMA SettleKeepsSubmitted ==
    ASSUME LedgerInv, NEW i \in DOMAIN log, Settle(i)
    PROVE  Submitted \subseteq Submitted'
<1> SUFFICES ASSUME NEW o \in Orders, order[o].status # "NONE" PROVE order'[o].status # "NONE"
  BY DEF Submitted
<1>1. log[i] \in TradeRows \cup CloseRows /\ LedgerTypeOK
  BY DEF LedgerInv, LedgerTypeOK
<1>2. CASE i \in processed
  BY <1>2 DEF Settle
<1>3. CASE i \notin processed /\ IsTrade(i)
  <2>1. PICK t : t = log[i] /\ t.buy \in Orders /\ t.sell \in Orders
    BY <1>1, <1>3 DEF IsTrade, TradeRows, CloseRows
  <2>2. order' = [order EXCEPT ![t.buy] = StateAfterTrade(t.buy, t.qty),
                               ![t.sell] = StateAfterTrade(t.sell, t.qty)]
    BY <1>3, <2>1 DEF Settle, SettleTrade
  <2>3. ASSUME NEW q \in Orders PROVE StateAfterTrade(q, t.qty).status # "NONE"
    BY <1>1 DEF StateAfterTrade, LedgerTypeOK
  <2>4. order'[o] \in {order[o], StateAfterTrade(t.buy, t.qty), StateAfterTrade(t.sell, t.qty)}
    BY <1>1, <2>1, <2>2 DEF LedgerTypeOK
  <2> QED BY <2>1, <2>3, <2>4
<1>4. CASE i \notin processed /\ ~IsTrade(i)
  <2>1. PICK c : c = log[i] /\ c.order \in Orders /\ c.status \in {"FILLED", "CANCELED"}
    BY <1>1, <1>4 DEF IsTrade, TradeRows, CloseRows
  <2>2. CASE order' = order
    BY <2>2
  <2>3. CASE ~Stale(c)
    <3>1. PICK filled : order' = [order EXCEPT ![c.order].status = c.status,
                                               ![c.order].filled = filled]
      BY <1>4, <2>1, <2>3 DEF Settle, CloseOrder
    <3>2. order'[o].status = IF o = c.order THEN c.status ELSE order[o].status
      BY <1>1, <2>1, <3>1 DEF LedgerTypeOK
    <3> QED BY <2>1, <3>2
  <2> QED BY <1>4, <2>1, <2>2, <2>3 DEF Settle, CloseOrder
<1> QED BY <1>2, <1>3, <1>4

\* The tables may settle a row, and nothing but the trade stream moves.
SettlesOne ==
    /\ UNCHANGED ledgerVars \/ \E i \in DOMAIN log : Settle(i)
    /\ engine' = engine /\ created' = created /\ outbox' = outbox
    /\ cancels' = cancels /\ orderPel' = orderPel /\ orderStream' = orderStream
    /\ relayed' = relayed

LEMMA SettlesOneStep ==
    ASSUME PipeInv, SettlesOne, tradeStream' \in Seq(1..Len(log)), tradePel' \in Seq(1..Len(log))
    PROVE  LedgerStep /\ Carried'
<1>1. /\ LedgerInv /\ charging = TRUE /\ QueuesOfOrders /\ StreamsOfRows /\ EnginesOfOrders
  BY DEF PipeInv, Carried
<1>2. log' = log /\ charging' = charging /\ LedgerStep /\ Submitted \subseteq Submitted'
  <2>1. CASE UNCHANGED ledgerVars
    BY <2>1 DEF ledgerVars, LedgerStep, Submitted
  <2>2. CASE \E i \in DOMAIN log : Settle(i)
    <3>1. PICK i \in DOMAIN log : Settle(i)
      BY <2>2
    <3>2. Submitted \subseteq Submitted'
      BY <1>1, <3>1, SettleKeepsSubmitted
    <3> QED BY <3>1, <3>2 DEF Settle, LedgerStep, LedgerNext
  <2> QED BY <2>1, <2>2 DEF SettlesOne
<1>3. SubmittedEvents \subseteq SubmittedEvents' /\ EnginesKeep
  BY <1>2, CarriedStays
<1>4. EnginesOfOrders'
  BY <1>1, <1>3, EnginesUnchanged DEF SettlesOne
<1>5. StreamsOfRows'
  BY <1>1, <1>2 DEF StreamsOfRows, SettlesOne
<1>6. PICK S, E : S = Submitted' /\ E = SubmittedEvents'
  OBVIOUS
<1>7. created \in Seq(S) /\ outbox \in Seq(E) /\ orderStream \in Seq(E) /\ orderPel \in Seq(E)
  BY <1>1, <1>2, <1>3, <1>6, SeqGrows DEF QueuesOfOrders
<1>8. QueuesOfOrders'
  BY <1>1, <1>6, <1>7 DEF QueuesOfOrders, SettlesOne
<1> QED BY <1>1, <1>2, <1>4, <1>5, <1>8 DEF Carried

LEMMA SettleNewStep ==
    ASSUME PipeInv, SettleNew
    PROVE  LedgerStep /\ Carried'
<1>1. PICK n \in Nat : n = Len(log) /\ DOMAIN log = 1..n
                       /\ tradeStream \in Seq(1..n) /\ tradePel \in Seq(1..n)
  BY DEF PipeInv, Carried, StreamsOfRows
<1>2. tradeStream # <<>> /\ tradeStream' = Tail(tradeStream)
  BY DEF SettleNew
<1>3. PICK i \in 1..n : i = Head(tradeStream)
  BY <1>1, <1>2, SMTT(60)
<1>4. tradeStream' \in Seq(1..n)
  BY <1>1, <1>2
<1>5. Append(tradePel, i) \in Seq(1..n)
  BY <1>1
<1>6. /\ tradePel' = tradePel \/ tradePel' = Append(tradePel, i)
      /\ UNCHANGED ledgerVars \/ Settle(i)
  BY <1>3 DEF SettleNew
<1>7. tradePel' \in Seq(1..n)
  BY <1>1, <1>5, <1>6
<1>8. SettlesOne
  BY <1>1, <1>6 DEF SettlesOne, SettleNew, orderBus
<1> QED BY <1>1, <1>4, <1>7, <1>8, SettlesOneStep

LEMMA SettlePendingStep ==
    ASSUME PipeInv, SettlePending
    PROVE  LedgerStep /\ Carried'
<1>1. PICK n \in Nat : n = Len(log) /\ DOMAIN log = 1..n
                       /\ tradeStream \in Seq(1..n) /\ tradePel \in Seq(1..n)
  BY DEF PipeInv, Carried, StreamsOfRows
<1>2. PICK k \in DOMAIN tradePel : Settle(tradePel[k]) /\ tradePel' = RemoveAt(tradePel, k)
  BY DEF SettlePending
<1>3. k \in 1..Len(tradePel) /\ tradePel[k] \in 1..n
  BY <1>1, <1>2
<1>4. tradePel' \in Seq(1..n)
  BY <1>1, <1>2, <1>3, RemoveAtType
<1>5. SettlesOne /\ tradeStream' = tradeStream
  BY <1>1, <1>2, <1>3 DEF SettlesOne, SettlePending, orderBus
<1> QED BY <1>1, <1>4, <1>5, SettlesOneStep

----------------------------------------------------------------------------
LEMMA StutterStep ==
    ASSUME PipeInv, UNCHANGED vars
    PROVE  LedgerStep /\ Carried'
<1>1. /\ UNCHANGED ledgerVars /\ TablesKeep /\ engine' = engine /\ created' = created
      /\ outbox' = outbox /\ cancels' = cancels /\ orderPel' = orderPel
      /\ orderStream' = orderStream
      /\ relayed' = relayed /\ tradeStream' = tradeStream /\ tradePel' = tradePel
  BY DEF vars, dbVars, matchVars, orderBus, tradeBus, ledgerVars, TablesKeep
<1>2. /\ charging' = TRUE /\ EnginesOfOrders /\ EnginesKeep
      /\ Submitted' = Submitted /\ SubmittedEvents' = SubmittedEvents
      /\ created \in Seq(Submitted) /\ cancels \in [Orders -> Nat]
      /\ outbox \in Seq(SubmittedEvents) /\ orderStream \in Seq(SubmittedEvents)
      /\ orderPel \in Seq(SubmittedEvents) /\ StreamsOfRows
  BY <1>1, TablesKeepFacts
<1>3. QueuesOfOrders'
  BY <1>1, <1>2 DEF QueuesOfOrders
<1>4. StreamsOfRows' /\ EnginesOfOrders'
  BY <1>1, <1>2, StreamsUnchanged, EnginesUnchanged DEF TablesKeep
<1> QED BY <1>1, <1>2, <1>3, <1>4 DEF Carried, LedgerStep

LEMMA NextIsLedgerStep ==
    ASSUME PipeInv, [Next]_vars
    PROVE  LedgerStep /\ PipeInv'
<1>1. LedgerStep /\ Carried'
  <2>1. CASE \E o \in Orders : Place(o) \/ RequestCancel(o)
    BY <2>1, PlaceStep, RequestCancelStep
  <2>2. CASE RelayOrder
    BY <2>2, RelayOrderStep
  <2>3. CASE \E e \in Engines : Lead(e) \/ EngineStep(e) \/ EngineFault(e) \/ ZombieCommit(e)
    <3>1. PICK e \in Engines : Lead(e) \/ EngineStep(e) \/ EngineFault(e) \/ ZombieCommit(e)
      BY <2>3
    <3>2. CASE Lead(e)
      BY <3>2, LeadStep
    <3>3. CASE EngineStep(e)
      BY <3>3, HandleNewStep, HandlePendingStep, CommitStep DEF EngineStep
    <3>4. CASE EngineFault(e)
      BY <3>4, CommitFailsStep, CommitStep, CrashStep, LoseLeaseStep DEF EngineFault
    <3>5. CASE ZombieCommit(e)
      BY <3>5, CommitStep
    <3> QED BY <3>1, <3>2, <3>3, <3>4, <3>5
  <2>4. CASE RelayTrade
    BY <2>4, RelayTradeStep
  <2>5. CASE SettleNew
    BY <2>5, SettleNewStep
  <2>6. CASE SettlePending
    BY <2>6, SettlePendingStep
  <2>7. CASE UNCHANGED vars
    BY <2>7, StutterStep
  <2> QED BY <2>1, <2>2, <2>3, <2>4, <2>5, <2>6, <2>7 DEF Next
<1>2. LedgerInv'
  BY <1>1, NextLedgerInv DEF PipeInv, LedgerStep
<1> QED BY <1>1, <1>2 DEF PipeInv

LEMMA PipeInvAlways == Spec => []PipeInv
<1>1. PipeInv /\ [Next]_vars => PipeInv'
  BY NextIsLedgerStep
<1> QED BY PipeInit, <1>1, PTL DEF Spec

\* Whatever fails, the matching engine and the streams do to the tables of
\* orders and accounts only what Settlement says of them: they record trades of
\* placed orders at a price both accept, rewrite no row and settle none that is
\* not recorded.
THEOREM ExchangeImplementsLedger == Spec => ImplementsLedger
<1>1. Init => LedgerInit
  BY DEF Init
<1>2. PipeInv /\ [Next]_vars => [LedgerNext]_ledgerVars
  BY NextIsLedgerStep DEF LedgerStep
<1> QED BY <1>1, <1>2, PipeInvAlways, PTL DEF Spec, ImplementsLedger, LedgerSpec

\* What is proved of the tables holds of the pipeline: the tables implement the
\* abstract market, holds are funded and are exactly what live orders may take,
\* and only the owner of an order from before fees can owe one, whatever is
\* crashed, delivered twice, delayed or committed behind the leader's back.
THEOREM PipelineKeepsAccounts ==
    Spec => /\ ImplementsMarket /\ []HoldsAreFunded
            /\ []HoldMatchesActiveOrders /\ []DebtOnlyOfOldOrders
<1>1. LedgerSpec => /\ ImplementsMarket /\ []HoldsAreFunded
                    /\ []HoldMatchesActiveOrders /\ []DebtOnlyOfOldOrders
  BY LedgerImplementsMarket, LedgerHoldsAreFunded, LedgerHoldsMatchOrders,
     LedgerDebtOnlyOfOldOrders
<1>2. Spec => LedgerSpec
  BY ExchangeImplementsLedger DEF ImplementsLedger
<1> QED BY <1>1, <1>2

----------------------------------------------------------------------------
(***************************************************************************)
(* What a log says of each order.  L is the log, or the log with the rows  *)
(* of an event behind it.                                                  *)
(***************************************************************************)
Traded(o, row) == row.topic = "trade.executed" /\ (row.buy = o \/ row.sell = o)
Closes(o, row) == row.topic = "order.closed" /\ row.order = o

Took(o) == [row \in Rows |-> IF Traded(o, row) THEN row.qty ELSE 0]
RecordedIn(L, o) == SumAlong(L, Took(o))
MarkedIn(L, o) == \E i \in DOMAIN L : Closes(o, L[i])

NoTrade(L) == \A i \in DOMAIN L : L[i].topic # "trade.executed"
LastTrade(L, i) ==
    /\ i \in DOMAIN L /\ L[i].topic = "trade.executed"
    /\ \A j \in DOMAIN L : L[j].topic = "trade.executed" => j <= i
LastPriceIn(L, p) == (NoTrade(L) /\ p = OpenPrice) \/ \E i : LastTrade(L, i) /\ p = L[i].price

\* A close counts the trades of its order, all before it, and is the only one.
WordIsLast(L) ==
    \A o \in Orders : \A i \in DOMAIN L : Closes(o, L[i]) =>
        /\ L[i].filled = RecordedIn(L, o)
        /\ \A j \in DOMAIN L : /\ Traded(o, L[j]) => j < i
                               /\ Closes(o, L[j]) => j = i

\* No order gets more than its quantity, and one that gets it all is closed.
WithinOrders(L) ==
    \A o \in Orders : /\ RecordedIn(L, o) <= Terms[o].qty
                      /\ RecordedIn(L, o) = Terms[o].qty => MarkedIn(L, o)

LogKept(L) == WordIsLast(L) /\ WithinOrders(L)

LEMMA TookType ==
    ASSUME NEW o \in Orders
    PROVE  /\ Took(o) \in [Rows -> Int]
           /\ \A row \in Rows : /\ Took(o)[row] \in Nat
                                /\ Traded(o, row) => Took(o)[row] = row.qty /\ row.qty # 0
                                /\ ~Traded(o, row) => Took(o)[row] = 0
<1>1. \A row \in Rows : Traded(o, row) => row.qty \in Nat /\ row.qty # 0
  BY DEF Rows, Traded, TradeRows, CloseRows
<1> QED BY <1>1 DEF Took

LEMMA RowIs ==
    ASSUME NEW row \in Rows
    PROVE  /\ row.topic = "trade.executed" \/ row.topic = "order.closed"
           /\ row.topic = "trade.executed" => row \in TradeRows
           /\ row.topic = "order.closed" => row \in CloseRows
  BY DEF Rows, TradeRows, CloseRows

LEMMA RecordedInType ==
    ASSUME NEW o \in Orders, NEW L \in Seq(Rows)
    PROVE  /\ RecordedIn(L, o) \in Nat
           /\ \A i \in DOMAIN L : Traded(o, L[i]) => L[i].qty <= RecordedIn(L, o)
           /\ (\A i \in DOMAIN L : ~Traded(o, L[i])) => RecordedIn(L, o) = 0
           /\ RecordedIn(L, o) = 0 => \A i \in DOMAIN L : ~Traded(o, L[i])
<1>1. PICK w : w = Took(o) /\ w \in [Rows -> Int] /\ \A row \in Rows : w[row] \in Nat
  BY TookType
<1>2. IsFiniteSet(DOMAIN L) /\ \A i \in DOMAIN L : L[i] \in Rows
  BY SeqDomain
<1>3. \A i \in DOMAIN L : w[L[i]] \in Nat
  BY <1>1, <1>2
<1>4. SumAlong(L, w) \in Nat /\ \A i \in DOMAIN L : w[L[i]] <= SumAlong(L, w)
  BY <1>1, <1>3, AlongMember
<1>5. \A i \in DOMAIN L : Traded(o, L[i]) => L[i].qty <= RecordedIn(L, o) /\ L[i].qty # 0
  BY <1>1, <1>2, <1>4, TookType DEF RecordedIn
<1>6. ASSUME \A i \in DOMAIN L : ~Traded(o, L[i]) PROVE RecordedIn(L, o) = 0
  <2> DEFINE f == [i \in DOMAIN L |-> w[L[i]]]
  <2>1. \A i \in DOMAIN L : f[i] = 0
    BY <1>1, <1>2, <1>6, TookType
  <2>2. RecordedIn(L, o) = SumOver(f, DOMAIN L)
    BY <1>1 DEF RecordedIn, SumAlong
  <2> HIDE DEF f
  <2> QED BY <1>2, <2>1, <2>2, SumOfZeros
<1>7. ASSUME RecordedIn(L, o) = 0, NEW i \in DOMAIN L, Traded(o, L[i]) PROVE FALSE
  <2>1. L[i].qty <= 0 /\ L[i].qty # 0 /\ L[i] \in Rows
    BY <1>2, <1>5, <1>7
  <2>2. L[i].qty \in Nat
    BY <2>1, <1>7 DEF Rows, TradeRows, CloseRows, Traded
  <2> QED BY <2>1, <2>2
<1> QED BY <1>1, <1>4, <1>5, <1>6, <1>7 DEF RecordedIn

\* ----- rows behind a log
BehindIs(L, N, U, l, n) ==
    /\ l = Len(L) /\ n = Len(N) /\ l \in Nat /\ n \in Nat
    /\ DOMAIN L = 1..l /\ DOMAIN N = 1..n /\ DOMAIN U = 1..(l + n)
    /\ \A i \in 1..l : i \in 1..(l + n) /\ U[i] = L[i]
    /\ \A i \in 1..n : l + i \in 1..(l + n) /\ U[l + i] = N[i]
    /\ \A i \in 1..(l + n) : i \in 1..l \/ \E k \in 1..n : i = l + k

LEMMA Behind ==
    ASSUME NEW L \in Seq(Rows), NEW N \in Seq(Rows), NEW U \in Seq(Rows), Joined(L, N, U)
    PROVE  \E l, n : BehindIs(L, N, U, l, n)
<1>1. PICK l, n : /\ l = Len(L) /\ n = Len(N) /\ l \in Nat /\ n \in Nat
                  /\ DOMAIN L = 1..l /\ DOMAIN N = 1..n
  BY SeqDomain
<1>2. U \in Seq(Rows) /\ Joined(L, N, U)
  OBVIOUS
<1>3. DOMAIN U = 1..(l + n)
  BY <1>1, <1>2, SeqDomain DEF Joined
<1>4. \A i \in 1..l : i \in 1..(l + n)
  BY <1>1
<1>5. \A i \in 1..n : l + i \in 1..(l + n)
  BY <1>1
<1>6. ASSUME NEW i \in 1..(l + n), i \notin 1..l PROVE \E k \in 1..n : i = l + k
  <2>1. PICK k : k = i - l
    OBVIOUS
  <2>2. k \in 1..n /\ i = l + k
    BY <1>1, <1>6, <2>1
  <2> QED BY <2>2
<1>7. BehindIs(L, N, U, l, n)
  BY <1>1, <1>2, <1>3, <1>4, <1>5, <1>6 DEF Joined, BehindIs
<1> QED BY <1>2, <1>7

LEMMA RecordedBehind ==
    ASSUME NEW L \in Seq(Rows), NEW N \in Seq(Rows), NEW U \in Seq(Rows), Joined(L, N, U),
           NEW o \in Orders
    PROVE  /\ RecordedIn(U, o) = RecordedIn(L, o) + RecordedIn(N, o)
           /\ MarkedIn(U, o) <=> MarkedIn(L, o) \/ MarkedIn(N, o)
<1>1. PICK l, n : BehindIs(L, N, U, l, n)
  BY Behind
<1>3. MarkedIn(U, o) <=> MarkedIn(L, o) \/ MarkedIn(N, o)
  <2>1. ASSUME NEW i \in 1..l, Closes(o, L[i]) PROVE MarkedIn(U, o)
    BY <1>1, <2>1 DEF MarkedIn, BehindIs
  <2>2. ASSUME NEW i \in 1..n, Closes(o, N[i]) PROVE MarkedIn(U, o)
    BY <1>1, <2>2 DEF MarkedIn, BehindIs
  <2>3. ASSUME NEW i \in 1..(l + n), Closes(o, U[i]) PROVE MarkedIn(L, o) \/ MarkedIn(N, o)
    <3>1. CASE i \in 1..l
      BY <1>1, <2>3, <3>1 DEF MarkedIn, BehindIs
    <3>2. CASE \E k \in 1..n : i = l + k
      <4>1. PICK k \in 1..n : U[i] = N[k] /\ k \in DOMAIN N
        BY <1>1, <3>2 DEF BehindIs
      <4> QED BY <2>3, <4>1 DEF MarkedIn
    <3> QED BY <1>1, <3>1, <3>2 DEF BehindIs
  <2> QED BY <1>1, <2>1, <2>2, <2>3 DEF MarkedIn, BehindIs
<1>4. PICK w : w = Took(o) /\ w \in [Rows -> Int]
  BY TookType
<1>5. SumAlong(U, w) = SumAlong(L, w) + SumAlong(N, w)
  BY <1>4, AlongConcat
<1> QED BY <1>3, <1>4, <1>5 DEF RecordedIn

\* The rows of an event: of orders that were not closed, each closed at most
\* once, after its trades, with what it has got in all.
OfOpenOrders(L, N) ==
    \A o \in Orders : MarkedIn(L, o) => \A k \in DOMAIN N : ~Traded(o, N[k]) /\ ~Closes(o, N[k])
ClosesOnce(L, N) ==
    \A o \in Orders : \A k \in DOMAIN N : Closes(o, N[k]) =>
        /\ N[k].filled = RecordedIn(L, o) + RecordedIn(N, o)
        /\ \A j \in DOMAIN N : /\ Traded(o, N[j]) => j < k
                               /\ Closes(o, N[j]) => j = k
TakesNoMore(L, N) ==
    \A o \in Orders :
        LET q == RecordedIn(L, o) + RecordedIn(N, o) IN
        q <= Terms[o].qty /\ (q = Terms[o].qty => MarkedIn(L, o) \/ MarkedIn(N, o))

LEMMA BatchKeeps ==
    ASSUME NEW L \in Seq(Rows), NEW N \in Seq(Rows), NEW U \in Seq(Rows), Joined(L, N, U),
           LogKept(L),
           OfOpenOrders(L, N), ClosesOnce(L, N), TakesNoMore(L, N)
    PROVE  LogKept(U)
<1>1. PICK l, n : BehindIs(L, N, U, l, n)
  BY Behind
<1>2. ASSUME NEW o \in Orders
      PROVE  /\ RecordedIn(U, o) = RecordedIn(L, o) + RecordedIn(N, o)
             /\ MarkedIn(U, o) <=> MarkedIn(L, o) \/ MarkedIn(N, o)
             /\ RecordedIn(L, o) \in Nat /\ RecordedIn(N, o) \in Nat
  <2>1. /\ RecordedIn(U, o) = RecordedIn(L, o) + RecordedIn(N, o)
        /\ MarkedIn(U, o) <=> MarkedIn(L, o) \/ MarkedIn(N, o)
    BY RecordedBehind
  <2>2. RecordedIn(L, o) \in Nat /\ RecordedIn(N, o) \in Nat
    BY RecordedInType
  <2> QED BY <2>1, <2>2
<1>3. WithinOrders(U)
  BY <1>2 DEF WithinOrders, TakesNoMore
<1>4. ASSUME NEW o \in Orders, NEW i \in 1..(l + n), Closes(o, U[i])
      PROVE  /\ U[i].filled = RecordedIn(U, o)
             /\ \A j \in 1..(l + n) : /\ Traded(o, U[j]) => j < i
                                      /\ Closes(o, U[j]) => j = i
  <2>1. CASE i \in 1..l
    <3>1. Closes(o, L[i]) /\ MarkedIn(L, o) /\ i \in DOMAIN L
      BY <1>1, <1>4, <2>1 DEF BehindIs, MarkedIn
    <3>2. \A k \in DOMAIN N : ~Traded(o, N[k]) /\ ~Closes(o, N[k])
      BY <3>1 DEF OfOpenOrders
    <3>3. RecordedIn(N, o) = 0
      BY <3>2, RecordedInType
    <3>4. /\ L[i].filled = RecordedIn(L, o)
          /\ \A j \in DOMAIN L : /\ Traded(o, L[j]) => j < i
                                 /\ Closes(o, L[j]) => j = i
      BY <3>1 DEF LogKept, WordIsLast
    <3>5. U[i].filled = RecordedIn(U, o)
      BY <1>1, <1>2, <2>1, <3>3, <3>4 DEF BehindIs
    <3>6. ASSUME NEW j \in 1..(l + n), Traded(o, U[j]) \/ Closes(o, U[j])
          PROVE  j \in DOMAIN L /\ U[j] = L[j]
      <4>1. CASE j \in 1..l
        BY <1>1, <4>1 DEF BehindIs
      <4>2. CASE j \notin 1..l
        <5>1. PICK k \in 1..n : j = l + k
          BY <1>1, <4>2 DEF BehindIs
        <5>2. U[j] = N[k] /\ k \in DOMAIN N
          BY <1>1, <5>1 DEF BehindIs
        <5> QED BY <3>2, <3>6, <5>2
      <4> QED BY <4>1, <4>2
    <3> QED BY <3>4, <3>5, <3>6
  <2>2. CASE i \notin 1..l
    <3>1. PICK k \in 1..n : i = l + k /\ U[i] = N[k] /\ k \in DOMAIN N
      BY <1>1, <2>2 DEF BehindIs
    <3>2. ~MarkedIn(L, o)
      BY <1>4, <3>1 DEF OfOpenOrders
    <3>3. /\ N[k].filled = RecordedIn(L, o) + RecordedIn(N, o)
          /\ \A j \in DOMAIN N : /\ Traded(o, N[j]) => j < k
                                 /\ Closes(o, N[j]) => j = k
      BY <1>4, <3>1 DEF ClosesOnce
    <3>4. l \in Nat /\ n \in Nat
      BY <1>1 DEF BehindIs
    <3>5. ASSUME NEW j \in 1..(l + n)
          PROVE  (Traded(o, U[j]) => j < i) /\ (Closes(o, U[j]) => j = i)
      <4>1. CASE j \in 1..l
        <5>1. U[j] = L[j] /\ j \in DOMAIN L
          BY <1>1, <4>1 DEF BehindIs
        <5>2. ~Closes(o, U[j])
          BY <3>2, <5>1 DEF MarkedIn
        <5>3. j < i
          BY <3>1, <3>4, <4>1
        <5> QED BY <5>2, <5>3
      <4>2. CASE j \notin 1..l
        <5>1. PICK m \in 1..n : j = l + m /\ U[j] = N[m] /\ m \in DOMAIN N
          BY <1>1, <4>2 DEF BehindIs
        <5>2. (Traded(o, U[j]) => m < k) /\ (Closes(o, U[j]) => m = k)
          BY <3>3, <5>1
        <5> QED BY <3>1, <3>4, <5>1, <5>2
      <4> QED BY <4>1, <4>2
    <3>6. U[i].filled = RecordedIn(U, o)
      BY <1>2, <3>1, <3>3
    <3> QED BY <3>5, <3>6
  <2> QED BY <2>1, <2>2
<1>5. DOMAIN U = 1..(l + n)
  BY <1>1 DEF BehindIs
<1>6. WordIsLast(U)
  BY <1>4, <1>5 DEF WordIsLast
<1> QED BY <1>3, <1>6 DEF LogKept

\* ----- the log as the tables of trades and markers
LEMMA LogIs ==
    ASSUME log \in Seq(Rows)
    PROVE  /\ \A o \in Orders : RecordedQty(o) = RecordedIn(log, o)
           /\ \A o : Marked(o) <=> MarkedIn(log, o)
           /\ \A o, i : i \in Trades(o) <=> i \in DOMAIN log /\ Traded(o, log[i])
           /\ LastPriceIn(log, LastPrice)
<1>1. DOMAIN log = 1..Len(log) /\ IsFiniteSet(DOMAIN log) /\ Len(log) \in Nat
      /\ \A i \in DOMAIN log : log[i] \in Rows
  BY SeqDomain
<1>2. \A o, i : i \in Trades(o) <=> i \in DOMAIN log /\ Traded(o, log[i])
  BY DEF Trades, IsTrade, Traded
<1>3. \A o : Marked(o) <=> MarkedIn(log, o)
  BY <1>1, RowIs DEF Marked, MarkedIn, IsTrade, Closes
<1>4. ASSUME NEW o \in Orders PROVE RecordedQty(o) = RecordedIn(log, o)
  <2>1. PICK f, h : /\ f = [i \in Trades(o) |-> log[i].qty]
                    /\ h = [i \in DOMAIN log |-> Took(o)[log[i]]]
    OBVIOUS
  <2>2. PICK S, Q : S = DOMAIN log /\ Q = Trades(o) /\ Q \in SUBSET S /\ IsFiniteSet(S)
    BY <1>1, <1>2
  <2>3. \A i \in Q : Traded(o, log[i]) /\ log[i] \in Rows /\ i \in S
    BY <1>1, <1>2, <2>2
  <2>4. \A i \in Q : f[i] = log[i].qty /\ log[i].qty \in Int
    <3>1. \A i \in Q : log[i].qty \in Int
      BY <2>3 DEF Rows, TradeRows, CloseRows, Traded
    <3> QED BY <2>1, <2>2, <3>1
  <2>5. \A i \in S : h[i] = IF i \in Q THEN f[i] ELSE 0
    <3> TAKE i \in S
    <3>1. h[i] = Took(o)[log[i]] /\ log[i] \in Rows
      BY <1>1, <2>1, <2>2
    <3>2. CASE i \in Q
      BY <2>3, <2>4, <3>1, <3>2, TookType
    <3>3. CASE i \notin Q
      <4>1. ~Traded(o, log[i])
        BY <1>2, <2>2, <3>3
      <4> QED BY <3>1, <3>3, <4>1, TookType
    <3> QED BY <3>2, <3>3
  <2>6. DOMAIN f = Q
    BY <2>1, <2>2
  <2>7. Total(f) = SumOver(h, S)
    <3>1. \A i \in Q : f[i] \in Int
      BY <2>4
    <3> QED BY ONLY <2>2, <2>5, <2>6, <3>1, TotalOfPart
  <2> QED BY <2>1, <2>2, <2>7 DEF RecordedQty, RecordedIn, SumAlong
<1>5. LastPriceIn(log, LastPrice)
  <2>1. PICK S, n : S = {i \in 1..Len(log) : log[i].topic = "trade.executed"}
                    /\ n = Len(log) /\ n \in Nat
    BY <1>1
  <2>2. LastPrice = LET i == IF S # {} THEN Max(S) ELSE 0 IN IF i = 0 THEN OpenPrice ELSE log[i].price
    BY <2>1 DEF LastPrice, SelectLastInSeq
  <2>3. CASE S = {}
    <3>1. NoTrade(log)
      BY <1>1, <2>1, <2>3 DEF NoTrade
    <3> QED BY <2>2, <2>3, <3>1 DEF LastPriceIn
  <2>4. CASE S # {}
    <3>1. S \in SUBSET (1..n)
      BY <2>1
    <3>2. PICK m \in 1..n : m = Max(S) /\ m \in S /\ \A y \in S : m >= y
      BY <2>1, <2>4, <3>1, GreatestExists
    <3>3. m # 0 /\ LastPrice = log[m].price
      BY <2>2, <2>4, <3>2
    <3>4. \A j \in 1..n : log[j].topic = "trade.executed" => j <= m
      <4> TAKE j \in 1..n
      <4>1. log[j].topic = "trade.executed" => j \in S
        BY <2>1
      <4> QED BY <3>2, <4>1
    <3>5. LastTrade(log, m)
      BY <1>1, <2>1, <3>2, <3>4 DEF LastTrade
    <3> QED BY <3>3, <3>5 DEF LastPriceIn
  <2> QED BY <2>3, <2>4
<1> QED BY <1>2, <1>3, <1>4, <1>5

----------------------------------------------------------------------------
(***************************************************************************)
(* A book that fits a log: every order of it is open, and rests with what  *)
(* no trade of the log has taken.                                          *)
(***************************************************************************)
AloneIn(list) == \A i, j \in 1..Len(list) : list[i].id = list[j].id => i = j

FitsOf(r, L) == ~MarkedIn(L, r.id) /\ r.qty = Terms[r.id].qty - RecordedIn(L, r.id)
FitsIn(list, L) == \A i \in 1..Len(list) : FitsOf(list[i], L)

BookFits(book, L) ==
    /\ FitsIn(book.bids, L) /\ FitsIn(book.asks, L)
    /\ AloneIn(book.bids) /\ AloneIn(book.asks)
    /\ LastPriceIn(L, book.last)

LEMMA WithoutAlone ==
    ASSUME NEW R, NEW list \in Seq(R), NEW ids, NEW s, s = ListWithout(list, ids)
    PROVE  /\ AloneIn(list) => AloneIn(s)
           /\ \A k \in 1..Len(s) : s[k].id \notin ids /\ \E j \in 1..Len(list) : s[k] = list[j]
<1>1. PICK m : PickedFrom(s, list, m)
  BY WithoutIs
<1>2. \A k \in 1..Len(s) : s[k].id \notin ids
  BY WithoutIs
<1>3. s \in Seq(R) /\ Len(s) \in Nat
  <2>1. s \in Seq(R)
    BY WithoutIs
  <2> QED BY <2>1
<1>4. ASSUME AloneIn(list), NEW k \in 1..Len(s), NEW l \in 1..Len(s), s[k].id = s[l].id
      PROVE  k = l
  <2>1. /\ m[k] \in 1..Len(list) /\ m[l] \in 1..Len(list)
        /\ list[m[k]].id = list[m[l]].id
    BY <1>1, <1>4 DEF PickedFrom
  <2>2. m[k] = m[l]
    BY <1>4, <2>1 DEF AloneIn
  <2>3. ~(k < l) /\ ~(l < k)
    <3>1. Len(list) \in Nat
      BY SeqDomain
    <3>2. m[k] \in Int /\ m[l] \in Int
      BY <2>1, <3>1
    <3>3. (k < l => m[k] < m[l]) /\ (l < k => m[l] < m[k])
      BY <1>1, <1>4 DEF PickedFrom
    <3> QED BY <2>2, <3>2, <3>3
  <2> QED BY <1>3, <2>3
<1>5. \A k \in 1..Len(s) : \E j \in 1..Len(list) : s[k] = list[j]
  BY <1>1 DEF PickedFrom
<1>6. AloneIn(list) => AloneIn(s)
  BY <1>4 DEF AloneIn
<1> QED BY <1>2, <1>5, <1>6

LEMMA WithoutFits ==
    ASSUME NEW book, BookOfOrders(book), NEW L, BookFits(book, L),
           NEW ids, NEW b, b = WithoutOrders(book, ids)
    PROVE  BookFits(b, L) /\ \A r : InBook(b, r) => InBook(book, r) /\ r.id \notin ids
<1>1. /\ book \in BooksIn(Orders, Accounts, LastPrices)
      /\ book.bids \in Seq(RestingIn(Orders, Accounts)) /\ book.asks \in Seq(RestingIn(Orders, Accounts))
  BY DEF BookOfOrders, BooksIn
<1>2. PICK p, q, s, t, R : /\ p = book.bids /\ q = book.asks /\ p \in Seq(R) /\ q \in Seq(R)
                           /\ s = ListWithout(p, ids) /\ t = ListWithout(q, ids)
  BY <1>1
<1>3. b.bids = s /\ b.asks = t /\ b.last = book.last
  BY <1>1, <1>2 DEF WithoutOrders, BooksIn
<1>4. /\ AloneIn(p) => AloneIn(s)
      /\ \A k \in 1..Len(s) : s[k].id \notin ids /\ \E j \in 1..Len(p) : s[k] = p[j]
  BY <1>2, WithoutAlone
<1>5. /\ AloneIn(q) => AloneIn(t)
      /\ \A k \in 1..Len(t) : t[k].id \notin ids /\ \E j \in 1..Len(q) : t[k] = q[j]
  BY <1>2, WithoutAlone, SMTT(60)
<1>6. FitsIn(s, L) /\ FitsIn(t, L)
  BY <1>2, <1>4, <1>5 DEF BookFits, FitsIn
<1>7. BookFits(b, L)
  BY <1>2, <1>3, <1>4, <1>5, <1>6 DEF BookFits
<1>8. \A r : InBook(b, r) => InBook(book, r) /\ r.id \notin ids
  <2> TAKE r
  <2> SUFFICES ASSUME InBook(b, r) PROVE InBook(book, r) /\ r.id \notin ids
    OBVIOUS
  <2>1. (\E k \in 1..Len(s) : s[k] = r) \/ (\E k \in 1..Len(t) : t[k] = r)
    BY <1>3 DEF InBook
  <2>2. CASE \E k \in 1..Len(s) : s[k] = r
    <3>1. r.id \notin ids /\ \E j \in 1..Len(p) : p[j] = r
      BY <1>4, <2>2
    <3> QED BY <1>2, <3>1 DEF InBook
  <2>3. CASE \E k \in 1..Len(t) : t[k] = r
    <3>1. r.id \notin ids /\ \E j \in 1..Len(q) : q[j] = r
      BY <1>5, <2>3
    <3> QED BY <1>2, <3>1 DEF InBook
  <2> QED BY <2>1, <2>2, <2>3
<1> QED BY <1>7, <1>8

LEMMA CloseBatch ==
    ASSUME NEW L \in Seq(Rows), LogKept(L), NEW o \in Orders, ~MarkedIn(L, o),
           NEW row \in CloseRows, row.order = o, row.filled = RecordedIn(L, o),
           NEW N \in Seq(Rows), N = <<row>>, NEW U \in Seq(Rows), Joined(L, N, U)
    PROVE  /\ LogKept(U)
           /\ \A p \in Orders \ {o} : /\ RecordedIn(U, p) = RecordedIn(L, p)
                                      /\ MarkedIn(U, p) <=> MarkedIn(L, p)
           /\ \A p : LastPriceIn(L, p) => LastPriceIn(U, p)
<1>1. DOMAIN N = {1} /\ N[1] = row /\ Len(N) = 1
  OBVIOUS
<1>2. /\ Closes(o, row) /\ \A p : ~Traded(p, row) /\ (Closes(p, row) => p = o)
      /\ row.topic # "trade.executed"
  BY DEF CloseRows, Closes, Traded
<1>3. ASSUME NEW p \in Orders PROVE RecordedIn(N, p) = 0 /\ RecordedIn(L, p) \in Nat
  <2>1. \A i \in DOMAIN N : ~Traded(p, N[i])
    BY <1>1, <1>2
  <2>2. RecordedIn(N, p) = 0
    BY <2>1, RecordedInType
  <2> QED BY <2>2, RecordedInType
<1>4. ASSUME NEW p \in Orders
      PROVE  /\ RecordedIn(U, p) = RecordedIn(L, p)
             /\ MarkedIn(U, p) <=> MarkedIn(L, p) \/ p = o
  <2>1. /\ RecordedIn(U, p) = RecordedIn(L, p) + RecordedIn(N, p)
        /\ MarkedIn(U, p) <=> MarkedIn(L, p) \/ MarkedIn(N, p)
    BY ONLY L \in Seq(Rows), N \in Seq(Rows), U \in Seq(Rows), Joined(L, N, U), p \in Orders,
            RecordedBehind
  <2>2. MarkedIn(N, p) <=> p = o
    BY <1>1, <1>2 DEF MarkedIn
  <2> QED BY <1>3, <2>1, <2>2
<1>5. OfOpenOrders(L, N)
  BY <1>1, <1>2 DEF OfOpenOrders
<1>6. ClosesOnce(L, N)
  <2> SUFFICES ASSUME NEW p \in Orders, NEW k \in DOMAIN N, Closes(p, N[k])
               PROVE  /\ N[k].filled = RecordedIn(L, p) + RecordedIn(N, p)
                      /\ \A j \in DOMAIN N : /\ Traded(p, N[j]) => j < k
                                             /\ Closes(p, N[j]) => j = k
    BY DEF ClosesOnce
  <2>1. p = o /\ k = 1 /\ N[k] = row
    BY <1>1, <1>2
  <2>2. row.filled = RecordedIn(L, p) + RecordedIn(N, p)
    BY <1>3, <2>1
  <2> QED BY <1>1, <1>2, <2>1, <2>2
<1>7. TakesNoMore(L, N)
  <2> SUFFICES ASSUME NEW p \in Orders, NEW q, q = RecordedIn(L, p) + RecordedIn(N, p)
               PROVE  q <= Terms[p].qty /\ (q = Terms[p].qty => MarkedIn(L, p) \/ MarkedIn(N, p))
    BY DEF TakesNoMore
  <2>1. q = RecordedIn(L, p)
    BY <1>3
  <2> QED BY <2>1 DEF LogKept, WithinOrders
<1>8. LogKept(U)
  BY <1>1, <1>5, <1>6, <1>7, BatchKeeps
<1>9. ASSUME NEW p, LastPriceIn(L, p) PROVE LastPriceIn(U, p)
  <2>1. PICK l, n : BehindIs(L, N, U, l, n)
    BY Behind
  <2>2. /\ l \in Nat /\ n = 1 /\ DOMAIN U = 1..(l + 1) /\ DOMAIN L = 1..l
        /\ U[l + 1] = row /\ \A i \in 1..l : U[i] = L[i]
    BY <1>1, <2>1 DEF BehindIs
  <2>3. \A i \in 1..(l + 1) : i \in 1..l \/ i = l + 1
    BY <2>2
  <2>4. \A i \in 1..(l + 1) : U[i].topic = "trade.executed" => i \in 1..l /\ L[i].topic = "trade.executed"
    BY <1>2, <2>2, <2>3
  <2>5. CASE NoTrade(L) /\ p = OpenPrice
    <3>1. NoTrade(U)
      BY <2>2, <2>4, <2>5 DEF NoTrade
    <3> QED BY <2>5, <3>1 DEF LastPriceIn
  <2>6. CASE \E i : LastTrade(L, i) /\ p = L[i].price
    <3>1. PICK i : LastTrade(L, i) /\ p = L[i].price
      BY <2>6
    <3>2. i \in 1..l /\ U[i] = L[i] /\ i \in 1..(l + 1)
      BY <2>2, <3>1 DEF LastTrade
    <3>3. LastTrade(U, i) /\ p = U[i].price
      BY <2>2, <2>4, <3>1, <3>2 DEF LastTrade
    <3> QED BY <3>3 DEF LastPriceIn
  <2> QED BY <1>9, <2>5, <2>6 DEF LastPriceIn
<1> QED BY <1>4, <1>8, <1>9

----------------------------------------------------------------------------
(***************************************************************************)
(* What an order does: its rows keep the log, and the book it leaves fits  *)
(* the log with them.                                                      *)
(***************************************************************************)
\* The makers met: the first c are used up, the n-th is perhaps filled in part.
MakersMet(L, o, list, st, n, c) ==
    /\ n = Len(st.fills) /\ c = Len(st.closed) /\ n \in Nat /\ c \in Nat /\ c <= n /\ n <= c + 1
    /\ Len(list) \in Nat /\ n <= Len(list) /\ c + Len(st.keep) = Len(list) /\ AloneIn(list)
    /\ \A j \in 1..Len(list) : /\ list[j] \in RestingIn(Orders, Accounts) /\ RestOf(list[j])
                               /\ FitsOf(list[j], L) /\ list[j].id # o
    /\ \A j \in 1..n : /\ st.fills[j].maker = list[j].id /\ st.fills[j].qty \in Nat \ {0}
                       /\ j <= c => st.fills[j].qty = list[j].qty
                       /\ j > c => st.fills[j].qty < list[j].qty

\* The rows of the match: its trades, then its closes.
RowsOf(st, closed, N) ==
    /\ N \in Seq(Rows) /\ Len(N) = Len(st.fills) + Len(closed)
    /\ \A j \in 1..Len(st.fills) : N[j] = TradeRow(st.fills[j])
    /\ \A k \in 1..Len(closed) : N[Len(st.fills) + k] = CloseRow(closed[k])

\* An order that has not been matched meets a book.
Meets(L, book, o, inc, list, st) ==
    /\ BookOfOrders(book) /\ BookFits(book, L) /\ MeetsAt(book, inc, list, st)
    /\ o \in Submitted /\ inc = IncomingOf(o)
    /\ RecordedIn(L, o) = 0 /\ ~MarkedIn(L, o) /\ \A r : InBook(book, r) => r.id # o

LEMMA MeetsMakers ==
    ASSUME NEW L, NEW book, NEW o, NEW inc, NEW list, NEW st, Meets(L, book, o, inc, list, st)
    PROVE  \E n, c : MakersMet(L, o, list, st, n, c)
<1>1. /\ BookOfOrders(book) /\ o \in Orders /\ o \in Submitted /\ inc = IncomingOf(o)
      /\ MeetsAt(book, inc, list, st)
  BY DEF Meets, Submitted
<1>2. /\ list \in Seq(RestingIn(Orders, Accounts)) /\ st \in LoopsIn(Orders, Accounts, LastPrices)
      /\ Shape(list, book.last, inc, st, Len(list)) /\ RestsOf(list)
  BY <1>1, LoopFacts
<1>12. LET c == Len(st.closed) f == Len(st.fills) k == Len(st.keep) IN
       /\ c \in Nat /\ f \in Nat /\ k \in Nat /\ c + k = Len(list)
       /\ c <= f /\ f <= c + 1 /\ f <= Len(list) /\ Len(list) \in Nat
  BY <1>2, LoopLengths
<1>3. PICK n, c, k, m : /\ n = Len(st.fills) /\ c = Len(st.closed) /\ k = Len(st.keep)
                        /\ m = Len(list) /\ n \in Nat /\ c \in Nat /\ c <= n /\ n <= c + 1
                        /\ n <= m /\ m \in Nat /\ c + k = m
  BY <1>12
<1>4. list = book.bids \/ list = book.asks
  BY <1>1 DEF MeetsAt, Opposite
<1>5. AloneIn(list) /\ FitsIn(list, L)
  BY <1>4 DEF Meets, BookFits
<1>6. \A j \in 1..m : list[j].id # o
  <2> TAKE j \in 1..m
  <2>1. InBook(book, list[j])
    BY <1>3, <1>4 DEF InBook
  <2> QED BY <2>1 DEF Meets
<1>7. \A j \in 1..m : list[j] \in RestingIn(Orders, Accounts) /\ RestOf(list[j]) /\ FitsOf(list[j], L)
  BY <1>2, <1>3, <1>5 DEF RestsOf, FitsIn
<1>8. \A j \in 1..n : st.fills[j].maker = list[j].id /\ st.fills[j].qty \in Nat \ {0}
  BY <1>2, <1>3 DEF Shape, Used
<1>9. \A j \in 1..c : st.fills[j].qty = list[j].qty
  BY <1>2, <1>3 DEF Shape, Used
<1>10. ASSUME NEW j \in 1..n PROVE /\ j <= c => st.fills[j].qty = list[j].qty
                                   /\ j > c => st.fills[j].qty < list[j].qty
  <2>1. j <= c => j \in 1..c
    BY <1>3
  <2>2. ASSUME j > c PROVE st.fills[j].qty < list[j].qty
    <3>1. j = n /\ n = c + 1
      BY <1>3, <2>2
    <3> QED BY <1>2, <1>3, <3>1 DEF Shape, Partial
  <2> QED BY <1>9, <2>1, <2>2
<1>11. MakersMet(L, o, list, st, n, c)
  BY <1>3, <1>5, <1>6, <1>7, <1>8, <1>10 DEF MakersMet
<1> QED BY <1>11

LEMMA TradeRowIs ==
    ASSUME NEW inc, NEW f, FillOf(inc, f), NEW row, row = TradeRow(f)
    PROVE  /\ row.topic = "trade.executed" /\ row.qty = f.qty /\ row.price = f.price
           /\ \A p : Traded(p, row) <=> p = inc.id \/ p = f.maker
           /\ \A p : ~Closes(p, row)
<1>1. f.taker = inc.id
  BY DEF FillOf
<1> QED BY <1>1 DEF TradeRow, Traded, Closes

LEMMA CloseRowIs ==
    ASSUME NEW c, NEW row, row = CloseRow(c)
    PROVE  /\ row.topic # "trade.executed" /\ row.filled = c.filled
           /\ \A p : Closes(p, row) <=> p = c.id
           /\ \A p : ~Traded(p, row)
  BY DEF CloseRow, Traded, Closes

\* Which rows are of an order.
RowsTell(o, list, st, closed, N, n, d) ==
    /\ DOMAIN N = 1..(n + d) /\ \A i \in 1..(n + d) : i \in 1..n \/ \E k \in 1..d : i = n + k
    /\ \A j \in 1..n : /\ j \in 1..(n + d) /\ N[j].topic = "trade.executed"
                       /\ N[j].qty = st.fills[j].qty /\ N[j].price = st.fills[j].price
                       /\ \A p : Traded(p, N[j]) <=> p = o \/ p = list[j].id
                       /\ \A p : ~Closes(p, N[j])
    /\ \A k \in 1..d : /\ n + k \in 1..(n + d) /\ N[n + k].topic # "trade.executed"
                       /\ N[n + k].filled = closed[k].filled
                       /\ \A p : Closes(p, N[n + k]) <=> p = closed[k].id
                       /\ \A p : ~Traded(p, N[n + k])

LEMMA RowsAre ==
    ASSUME NEW L, NEW book, NEW o, NEW inc, NEW list, NEW st, Meets(L, book, o, inc, list, st),
           NEW n, NEW c, MakersMet(L, o, list, st, n, c),
           NEW closed, NEW d \in Nat, d = Len(closed), NEW N, RowsOf(st, closed, N)
    PROVE  RowsTell(o, list, st, closed, N, n, d)
<1>1. n \in Nat /\ n = Len(st.fills) /\ \A j \in 1..n : st.fills[j].maker = list[j].id
  BY DEF MakersMet
<1>2. BookOfOrders(book) /\ o \in Submitted /\ inc = IncomingOf(o) /\ MeetsAt(book, inc, list, st)
      /\ inc.id = o
  BY DEF Meets, IncomingOf
<1>3. \A j \in 1..n : FillOf(inc, st.fills[j])
  BY <1>1, <1>2, FillFacts
<1>4. /\ \A j \in 1..n : N[j] = TradeRow(st.fills[j])
      /\ \A k \in 1..d : N[n + k] = CloseRow(closed[k])
  BY <1>1 DEF RowsOf
<1>5. DOMAIN N = 1..(n + d)
  BY <1>1, SeqDomain DEF RowsOf
<1>6. /\ \A j \in 1..n : j \in 1..(n + d)
      /\ \A k \in 1..d : n + k \in 1..(n + d)
  BY <1>1
<1>7. ASSUME NEW i \in 1..(n + d), i \notin 1..n PROVE \E k \in 1..d : i = n + k
  <2>1. PICK k : k = i - n
    OBVIOUS
  <2>2. k \in 1..d /\ i = n + k
    BY <1>1, <1>7, <2>1
  <2> QED BY <2>2
<1>8. ASSUME NEW j \in 1..n
      PROVE  /\ N[j].topic = "trade.executed"
             /\ N[j].qty = st.fills[j].qty /\ N[j].price = st.fills[j].price
             /\ \A p : Traded(p, N[j]) <=> p = o \/ p = list[j].id
             /\ \A p : ~Closes(p, N[j])
  <2>1. PICK f, row : f = st.fills[j] /\ row = N[j] /\ row = TradeRow(f) /\ FillOf(inc, f)
                      /\ f.maker = list[j].id
    BY <1>1, <1>3, <1>4
  <2> QED BY <1>2, <2>1, TradeRowIs
<1>9. ASSUME NEW k \in 1..d
      PROVE  /\ N[n + k].topic # "trade.executed"
             /\ N[n + k].filled = closed[k].filled
             /\ \A p : Closes(p, N[n + k]) <=> p = closed[k].id
             /\ \A p : ~Traded(p, N[n + k])
  <2>1. PICK x, row : x = closed[k] /\ row = N[n + k] /\ row = CloseRow(x)
    BY <1>4
  <2> QED BY <2>1, CloseRowIs
<1> QED BY <1>5, <1>6, <1>7, <1>8, <1>9 DEF RowsTell

\* What the rows give each order: the taker all that was filled, a maker what was
\* taken from it, and nobody else anything.
LEMMA MatchGives ==
    ASSUME NEW L, NEW book, NEW o, NEW inc, NEW list, NEW st, Meets(L, book, o, inc, list, st),
           NEW n, NEW c, MakersMet(L, o, list, st, n, c),
           NEW closed, NEW d \in Nat, d = Len(closed),
           NEW N, RowsOf(st, closed, N), NEW p \in Orders
    PROVE  /\ p = o => RecordedIn(N, p) = Terms[o].qty - st.left
           /\ \A j \in 1..n : p = list[j].id => RecordedIn(N, p) = st.fills[j].qty
           /\ p # o /\ (\A j \in 1..n : p # list[j].id) => RecordedIn(N, p) = 0
<1>1. RowsTell(o, list, st, closed, N, n, d)
  BY RowsAre
<1>2. /\ n = Len(st.fills) /\ n \in Nat /\ AloneIn(list) /\ Len(list) \in Nat /\ n <= Len(list)
      /\ \A j \in 1..n : j \in 1..Len(list) /\ list[j].id # o /\ st.fills[j].qty \in Nat
                         /\ list[j].id \in Orders
  <2>1. n = Len(st.fills) /\ n \in Nat /\ AloneIn(list) /\ Len(list) \in Nat /\ n <= Len(list)
    BY DEF MakersMet
  <2>2. \A j \in 1..n : j \in 1..Len(list)
    BY <2>1
  <2>3. \A j \in 1..Len(list) : list[j].id # o /\ list[j].id \in Orders
    BY RestingFields DEF MakersMet
  <2>4. \A j \in 1..n : st.fills[j].qty \in Nat
    BY DEF MakersMet
  <2> QED BY <2>1, <2>2, <2>3, <2>4
<1>3. N \in Seq(Rows) /\ \A i \in DOMAIN N : N[i] \in Rows
  BY SeqDomain DEF RowsOf
<1>4. PICK f, S : f = [i \in DOMAIN N |-> Took(p)[N[i]]] /\ S = 1..(n + d) /\ DOMAIN N = S
                  /\ RecordedIn(N, p) = SumOver(f, S)
  BY <1>1 DEF RowsTell, RecordedIn, SumAlong
<1>5. IsFiniteSet(S) /\ 1..n \in SUBSET S /\ \A i \in S : i \in 1..n \/ \E k \in 1..d : i = n + k
  <2>1. 1 \in Int /\ n + d \in Int
    BY <1>2
  <2>2. \A i \in 1..n : i \in S
    BY <1>2, <1>4
  <2> QED BY <1>1, <1>4, <2>1, <2>2, FS_Interval DEF RowsTell
<1>6. \A i \in S : /\ f[i] \in Nat
                   /\ Traded(p, N[i]) => f[i] = N[i].qty
                   /\ ~Traded(p, N[i]) => f[i] = 0
  <2> TAKE i \in S
  <2>1. f[i] = Took(p)[N[i]] /\ N[i] \in Rows
    BY <1>3, <1>4
  <2> QED BY <2>1, TookType
<1>7. \A i \in S \ 1..n : f[i] = 0
  <2> TAKE i \in S \ 1..n
  <2>1. PICK k \in 1..d : i = n + k
    BY <1>5
  <2>2. ~Traded(p, N[i])
    BY <1>1, <2>1 DEF RowsTell
  <2> QED BY <1>6, <2>2
<1>8. \A i \in 1..n : /\ p = o \/ p = list[i].id => f[i] = st.fills[i].qty
                      /\ p # o /\ p # list[i].id => f[i] = 0
  <2> TAKE i \in 1..n
  <2>1. /\ i \in S /\ N[i].qty = st.fills[i].qty
        /\ Traded(p, N[i]) <=> p = o \/ p = list[i].id
    <3>1. i \in S
      BY <1>5
    <3>2. N[i].qty = st.fills[i].qty
      BY <1>1 DEF RowsTell
    <3>3. Traded(p, N[i]) <=> p = o \/ p = list[i].id
      <4>1. \A q : Traded(q, N[i]) <=> q = o \/ q = list[i].id
        BY <1>1 DEF RowsTell
      <4> QED BY <4>1
    <3> QED BY <3>1, <3>2, <3>3
  <2> QED BY <1>6, <2>1
<1>9. ASSUME p = o PROVE RecordedIn(N, p) = Terms[o].qty - st.left
  <2>1. \A i \in S : f[i] \in Int
    BY <1>6
  <2>2. SumOver(f, S) = SumOver(f, 1..n)
    BY <1>5, <1>7, <2>1, SumZeros
  <2>3. /\ BookOfOrders(book) /\ inc = IncomingOf(o) /\ o \in Orders
        /\ MeetsAt(book, inc, list, st) /\ st = MatchLoop(book, inc)
    BY DEF Meets, MeetsAt, Submitted
  <2>4. PICK P : P = LastPrices /\ Nat \subseteq P /\ book \in BooksIn(Orders, Accounts, P)
    BY <2>3 DEF BookOfOrders, LastPrices
  <2>5. inc \in IncomingIn(Orders, Accounts) /\ inc.qty = Terms[o].qty /\ inc.qty \in Nat
    BY <2>3, IncomingType DEF IncomingIn
  <2>6. st.left + SumAlong(st.fills, QtyOf(Orders)) = inc.qty
    BY <2>3, <2>4, <2>5, MatchSum
  <2>7. st \in LoopsIn(Orders, Accounts, LastPrices)
    BY <2>3, LoopFacts
  <2>8. st.left \in Nat /\ st.fills \in Seq(FillsIn(Orders))
    BY <2>7 DEF LoopsIn
  <2>9. PICK s, w : s = st.fills /\ w = QtyOf(Orders) /\ s \in Seq(FillsIn(Orders))
                    /\ DOMAIN s = 1..n /\ \A x \in FillsIn(Orders) : w[x] = x.qty
    <3>1. DOMAIN st.fills = 1..n
      BY <1>2, <2>8, SeqDomain
    <3>2. \A x \in FillsIn(Orders) : QtyOf(Orders)[x] = x.qty
      BY DEF QtyOf
    <3> QED BY <2>8, <3>1, <3>2
  <2>10. PICK g : g = [i \in DOMAIN s |-> w[s[i]]]
    OBVIOUS
  <2>11. SumAlong(st.fills, QtyOf(Orders)) = SumOver(g, 1..n)
    BY <2>9, <2>10 DEF SumAlong
  <2>12. \A i \in 1..n : g[i] = f[i] /\ f[i] \in Int
    <3> TAKE i \in 1..n
    <3>1. s[i] \in FillsIn(Orders) /\ g[i] = s[i].qty
      BY <2>9, <2>10, SeqDomain
    <3>2. f[i] = st.fills[i].qty /\ f[i] \in Int
      BY <1>5, <1>8, <1>9, <2>1
    <3> QED BY <2>9, <3>1, <3>2
  <2>13. IsFiniteSet(1..n)
    BY <1>5, FS_Subset
  <2>14. SumOver(g, 1..n) = SumOver(f, 1..n) /\ SumOver(f, 1..n) \in Int
    BY <2>12, <2>13, SumSame, SumType
  <2> QED BY <1>4, <1>9, <2>2, <2>5, <2>6, <2>8, <2>11, <2>14
<1>10. ASSUME NEW j \in 1..n, p = list[j].id PROVE RecordedIn(N, p) = st.fills[j].qty
  <2>1. j \in S /\ f[j] = st.fills[j].qty /\ f[j] \in Int
    BY <1>5, <1>6, <1>8, <1>10
  <2>2. \A i \in S \ {j} : f[i] = 0
    <3> TAKE i \in S \ {j}
    <3>1. CASE i \in 1..n
      <4>1. list[i].id # list[j].id
        BY <1>2, <1>10, <3>1 DEF AloneIn
      <4> QED BY <1>2, <1>8, <1>10, <3>1, <4>1
    <3>2. CASE i \notin 1..n
      BY <1>7, <3>2
    <3> QED BY <3>1, <3>2
  <2>3. SumOver(f, S) = f[j]
    BY <1>5, <2>1, <2>2, SumOfOne, ZenonT(60)
  <2> QED BY <1>4, <2>1, <2>3
<1>11. ASSUME p # o, \A j \in 1..n : p # list[j].id PROVE RecordedIn(N, p) = 0
  <2>1. \A i \in S : f[i] = 0
    BY <1>7, <1>8, <1>11
  <2>2. SumOver(f, S) = 0
    BY <1>5, <2>1, SumOfZeros
  <2> QED BY <1>4, <2>2
<1> QED BY <1>9, <1>10, <1>11

\* The closes of a match, in terms of its makers: those used up, then the taker
\* unless it rests.
Rests(inc, st) == st.left > 0 /\ st.end # "self" /\ inc.type # "MARKET"

EndsOf(o, inc, list, st, closed, c, d) ==
    /\ d = Len(closed) /\ d \in Nat /\ (d = c \/ d = c + 1)
    /\ \A k \in 1..c : closed[k].id = list[k].id /\ closed[k].filled = Terms[list[k].id].qty
    /\ d = c <=> Rests(inc, st)
    /\ d = c + 1 => closed[d].id = o /\ closed[d].filled = Terms[o].qty - st.left

LEMMA ClosedAre ==
    ASSUME NEW L, NEW book, NEW o, NEW inc, NEW list, NEW st, Meets(L, book, o, inc, list, st),
           NEW n, NEW c, MakersMet(L, o, list, st, n, c),
           NEW closed, ClosesFrom(inc, st, closed)
    PROVE  \E d : EndsOf(o, inc, list, st, closed, c, d)
<1>1. /\ BookOfOrders(book) /\ o \in Orders /\ o \in Submitted /\ inc = IncomingOf(o)
      /\ MeetsAt(book, inc, list, st)
  BY DEF Meets, Submitted
<1>2. /\ st \in LoopsIn(Orders, Accounts, LastPrices)
      /\ Shape(list, book.last, inc, st, Len(list))
  BY <1>1, LoopFacts
<1>3. inc.id = o /\ inc.qty = Terms[o].qty /\ Terms[o].qty \in Nat /\ st.left \in Nat
  BY <1>1, <1>2, IncomingType, OrderTermsFacts DEF LoopsIn
<1>4. PICK s : s = st.closed /\ s \in Seq(ClosesIn(Orders)) /\ c = Len(s) /\ c \in Nat
               /\ c <= Len(list) /\ Len(list) \in Nat
  <2>1. st.closed \in Seq(ClosesIn(Orders))
    BY <1>2 DEF LoopsIn
  <2>2. c = Len(st.closed) /\ c \in Nat /\ c <= n /\ n <= Len(list) /\ n \in Nat /\ Len(list) \in Nat
    BY DEF MakersMet
  <2> QED BY <2>1, <2>2
<1>5. ASSUME NEW k \in 1..c PROVE s[k].id = list[k].id /\ s[k].filled = Terms[list[k].id].qty
  <2>1. s[k] = ClosedFilled(list[k])
    BY <1>2, <1>4 DEF Shape, Used
  <2>2. RestOf(list[k])
    <3>1. k \in 1..Len(list)
      BY <1>4
    <3> QED BY <3>1 DEF MakersMet
  <2> QED BY <2>1, <2>2 DEF ClosedFilled, RestOf
<1>6. CASE closed = s /\ Rests(inc, st)
  <2>1. EndsOf(o, inc, list, st, closed, c, c)
    BY <1>4, <1>5, <1>6 DEF EndsOf
  <2> QED BY <2>1
<1>7. CASE ~(closed = s /\ Rests(inc, st))
  <2>1. PICK x : closed = Append(s, x) /\ x.id = o /\ x.filled = inc.qty - st.left /\ ~Rests(inc, st)
    <3>1. PICK y, z : y = [id |-> inc.id, filled |-> inc.qty, status |-> "FILLED"]
                      /\ z = [id |-> inc.id, filled |-> inc.qty - st.left, status |-> "CANCELED"]
      OBVIOUS
    <3>2. CASE st.left = 0
      <4>1. closed = Append(s, y) /\ y.id = o /\ y.filled = inc.qty - st.left /\ ~Rests(inc, st)
        BY <1>3, <1>4, <1>7, <3>1, <3>2 DEF ClosesFrom, Rests
      <4> QED BY <4>1
    <3>3. CASE st.left # 0
      <4>1. closed = Append(s, z) /\ z.id = o /\ z.filled = inc.qty - st.left /\ ~Rests(inc, st)
        BY <1>3, <1>4, <1>7, <3>1, <3>3 DEF ClosesFrom, Rests
      <4> QED BY <4>1
    <3> QED BY <3>2, <3>3
  <2>2. Len(closed) = c + 1 /\ closed[c + 1] = x /\ \A k \in 1..c : closed[k] = s[k]
    BY <1>4, <2>1, AppendIs
  <2>3. c + 1 \in Nat /\ c + 1 # c
    BY <1>4
  <2>4. EndsOf(o, inc, list, st, closed, c, c + 1)
    BY <1>3, <1>5, <2>1, <2>2, <2>3 DEF EndsOf
  <2> QED BY <2>4
<1> QED BY <1>6, <1>7

\* A match: an order meets the makers, these are the rows, and U is the log with them.
Matched(L, book, o, inc, list, st, n, c, closed, d, N, U) ==
    /\ Meets(L, book, o, inc, list, st) /\ MakersMet(L, o, list, st, n, c)
    /\ RowsOf(st, closed, N) /\ EndsOf(o, inc, list, st, closed, c, d)
    /\ L \in Seq(Rows) /\ N \in Seq(Rows) /\ U \in Seq(Rows) /\ Joined(L, N, U)

LEMMA MatchedFacts ==
    ASSUME NEW L, NEW book, NEW o, NEW inc, NEW list, NEW st, NEW n, NEW c, NEW closed, NEW d,
           NEW N, NEW U, Matched(L, book, o, inc, list, st, n, c, closed, d, N, U)
    PROVE  /\ o \in Orders /\ o \in Submitted /\ st.left \in Nat /\ Terms[o].qty \in Nat
           /\ st.left <= Terms[o].qty /\ RecordedIn(L, o) = 0 /\ ~MarkedIn(L, o)
           /\ n \in Nat /\ c \in Nat /\ c <= n /\ n <= c + 1 /\ Len(list) \in Nat /\ n <= Len(list)
           /\ d \in Nat /\ d = Len(closed) /\ AloneIn(list)
           /\ RowsTell(o, list, st, closed, N, n, d)
<1>1. /\ BookOfOrders(book) /\ o \in Orders /\ o \in Submitted /\ inc = IncomingOf(o)
      /\ MeetsAt(book, inc, list, st) /\ RecordedIn(L, o) = 0 /\ ~MarkedIn(L, o)
      /\ Meets(L, book, o, inc, list, st)
  BY DEF Matched, Meets, Submitted
<1>2. /\ st \in LoopsIn(Orders, Accounts, LastPrices)
      /\ Shape(list, book.last, inc, st, Len(list))
  BY <1>1, LoopFacts
<1>3. inc.qty = Terms[o].qty /\ Terms[o].qty \in Nat /\ st.left \in Nat /\ st.left <= inc.qty
  BY <1>1, <1>2, IncomingType, OrderTermsFacts DEF LoopsIn, Shape
<1>4. /\ n \in Nat /\ c \in Nat /\ c <= n /\ n <= c + 1 /\ Len(list) \in Nat /\ n <= Len(list)
      /\ AloneIn(list) /\ MakersMet(L, o, list, st, n, c)
  BY DEF Matched, MakersMet
<1>5. d \in Nat /\ d = Len(closed) /\ RowsOf(st, closed, N)
  BY DEF Matched, EndsOf
<1>6. RowsTell(o, list, st, closed, N, n, d)
  BY <1>1, <1>4, <1>5, RowsAre
<1> QED BY <1>1, <1>3, <1>4, <1>5, <1>6

\* What the rows are to each order.
LEMMA RowsTo ==
    ASSUME NEW L, NEW book, NEW o, NEW inc, NEW list, NEW st, NEW n, NEW c, NEW closed, NEW d,
           NEW N, NEW U, Matched(L, book, o, inc, list, st, n, c, closed, d, N, U),
           NEW p \in Orders
    PROVE  /\ \/ p = o
              \/ \E j \in 1..Len(list) : p = list[j].id
              \/ /\ p # o /\ \A j \in 1..Len(list) : p # list[j].id
                 /\ RecordedIn(N, p) = 0 /\ ~MarkedIn(N, p)
                 /\ \A i \in DOMAIN N : ~Traded(p, N[i]) /\ ~Closes(p, N[i])
           /\ p = o => /\ RecordedIn(N, p) = Terms[o].qty - st.left
                       /\ MarkedIn(N, p) <=> ~Rests(inc, st)
           /\ \A j \in 1..Len(list) : p = list[j].id =>
                 /\ p # o
                 /\ j <= n => RecordedIn(N, p) = st.fills[j].qty
                 /\ j > n => RecordedIn(N, p) = 0
                 /\ MarkedIn(N, p) <=> j <= c
<1>1. /\ Meets(L, book, o, inc, list, st) /\ MakersMet(L, o, list, st, n, c)
      /\ RowsOf(st, closed, N) /\ EndsOf(o, inc, list, st, closed, c, d)
  BY DEF Matched
<1>2. /\ n \in Nat /\ c \in Nat /\ c <= n /\ n <= c + 1 /\ Len(list) \in Nat /\ n <= Len(list)
      /\ d \in Nat /\ d = Len(closed) /\ AloneIn(list) /\ RowsTell(o, list, st, closed, N, n, d)
  BY MatchedFacts
<1>3. \A j \in 1..Len(list) : list[j].id # o
  BY <1>1 DEF MakersMet
<1>4. /\ p = o => RecordedIn(N, p) = Terms[o].qty - st.left
      /\ \A j \in 1..n : p = list[j].id => RecordedIn(N, p) = st.fills[j].qty
      /\ p # o /\ (\A j \in 1..n : p # list[j].id) => RecordedIn(N, p) = 0
  BY <1>1, <1>2, MatchGives
<1>5. ASSUME NEW i \in 1..(n + d)
      PROVE  /\ Traded(p, N[i]) => p = o \/ \E j \in 1..Len(list) : p = list[j].id
             /\ Closes(p, N[i]) => \E k \in 1..d : i = n + k /\ p = closed[k].id
  <2>1. CASE i \in 1..n
    <3>1. /\ \A q : Traded(q, N[i]) <=> q = o \/ q = list[i].id
          /\ \A q : ~Closes(q, N[i])
      BY <1>2, <2>1 DEF RowsTell
    <3>2. i \in 1..Len(list)
      BY <1>2, <2>1
    <3> QED BY <3>1, <3>2
  <2>2. CASE i \notin 1..n
    <3>1. PICK k \in 1..d : i = n + k
      BY <1>2, <2>2 DEF RowsTell
    <3>2. /\ \A q : Closes(q, N[n + k]) <=> q = closed[k].id
          /\ \A q : ~Traded(q, N[n + k])
      BY <1>2 DEF RowsTell
    <3> QED BY <3>1, <3>2
  <2> QED BY <2>1, <2>2
<1>6. DOMAIN N = 1..(n + d)
  BY <1>2 DEF RowsTell
<1>7. MarkedIn(N, p) <=> \E k \in 1..d : p = closed[k].id
  <2>1. ASSUME NEW k \in 1..d, p = closed[k].id PROVE MarkedIn(N, p)
    <3>1. n + k \in 1..(n + d) /\ \A q : Closes(q, N[n + k]) <=> q = closed[k].id
      BY <1>2 DEF RowsTell
    <3> QED BY <1>6, <2>1, <3>1 DEF MarkedIn
  <2> QED BY <1>5, <1>6, <2>1 DEF MarkedIn
<1>8. /\ \A k \in 1..c : closed[k].id = list[k].id
      /\ d = c \/ d = c + 1
      /\ d = c <=> Rests(inc, st)
      /\ d = c + 1 => closed[d].id = o
  BY <1>1 DEF EndsOf
<1>9. \A k \in 1..d : k \in 1..c \/ (k = d /\ d = c + 1)
  BY <1>2, <1>8
<1>10. \A k \in 1..c : k \in 1..d /\ k \in 1..Len(list)
  BY <1>2, <1>8
<1>11. p = o => (MarkedIn(N, p) <=> ~Rests(inc, st))
  <2>1. ASSUME p = o, NEW k \in 1..d, p = closed[k].id PROVE d = c + 1
    BY <1>3, <1>8, <1>9, <1>10, <2>1
  <2>2. ASSUME p = o, d = c + 1 PROVE \E k \in 1..d : p = closed[k].id
    <3>1. d \in 1..d
      BY <1>2, <2>2
    <3> QED BY <1>8, <2>2, <3>1
  <2>3. d = c + 1 <=> ~Rests(inc, st)
    BY <1>2, <1>8
  <2> QED BY <1>7, <2>1, <2>2, <2>3
<1>12. ASSUME NEW j \in 1..Len(list), p = list[j].id
       PROVE  /\ p # o
              /\ j <= n => RecordedIn(N, p) = st.fills[j].qty
              /\ j > n => RecordedIn(N, p) = 0
              /\ MarkedIn(N, p) <=> j <= c
  <2>1. p # o
    BY <1>3, <1>12
  <2>2. j <= n => RecordedIn(N, p) = st.fills[j].qty
    <3>1. j <= n => j \in 1..n
      BY <1>2
    <3> QED BY <1>4, <1>12, <3>1
  <2>3. ASSUME j > n PROVE RecordedIn(N, p) = 0
    <3>1. \A i \in 1..n : i \in 1..Len(list) /\ i # j
      BY <1>2, <2>3
    <3>2. \A i \in 1..n : p # list[i].id
      BY <1>2, <1>12, <3>1 DEF AloneIn
    <3> QED BY <1>4, <2>1, <3>2
  <2>4. ASSUME j <= c PROVE MarkedIn(N, p)
    <3>1. j \in 1..c
      BY <1>2, <2>4
    <3> QED BY <1>7, <1>8, <1>10, <1>12, <3>1
  <2>5. ASSUME NEW k \in 1..d, p = closed[k].id PROVE j <= c
    <3>1. k \in 1..c
      BY <1>8, <1>9, <2>1, <2>5
    <3>2. k = j
      BY <1>2, <1>8, <1>10, <1>12, <2>5, <3>1 DEF AloneIn
    <3> QED BY <1>2, <3>1, <3>2
  <2> QED BY <1>7, <2>1, <2>2, <2>3, <2>4, <2>5
<1>13. ASSUME p # o, \A j \in 1..Len(list) : p # list[j].id
       PROVE  /\ RecordedIn(N, p) = 0 /\ ~MarkedIn(N, p)
              /\ \A i \in DOMAIN N : ~Traded(p, N[i]) /\ ~Closes(p, N[i])
  <2>1. RecordedIn(N, p) = 0
    <3>1. \A j \in 1..n : j \in 1..Len(list)
      BY <1>2
    <3> QED BY <1>4, <1>13, <3>1
  <2>2. \A k \in 1..d : p # closed[k].id
    BY <1>8, <1>9, <1>10, <1>13
  <2> QED BY <1>5, <1>6, <1>7, <1>13, <2>1, <2>2
<1>14. p = o \/ (\E j \in 1..Len(list) : p = list[j].id)
       \/ (p # o /\ \A j \in 1..Len(list) : p # list[j].id)
  OBVIOUS
<1> QED BY <1>4, <1>11, <1>12, <1>13, <1>14

LEMMA MatchKeepsLog ==
    ASSUME NEW L, NEW book, NEW o, NEW inc, NEW list, NEW st, NEW n, NEW c, NEW closed, NEW d,
           NEW N, NEW U, Matched(L, book, o, inc, list, st, n, c, closed, d, N, U), LogKept(L)
    PROVE  LogKept(U)
<1>1. /\ L \in Seq(Rows) /\ N \in Seq(Rows) /\ U \in Seq(Rows) /\ Joined(L, N, U)
      /\ MakersMet(L, o, list, st, n, c) /\ EndsOf(o, inc, list, st, closed, c, d)
  BY DEF Matched
<1>2. /\ o \in Orders /\ o \in Submitted /\ st.left \in Nat /\ Terms[o].qty \in Nat
      /\ st.left <= Terms[o].qty /\ RecordedIn(L, o) = 0 /\ ~MarkedIn(L, o)
      /\ n \in Nat /\ c \in Nat /\ c <= n /\ n <= c + 1 /\ Len(list) \in Nat /\ n <= Len(list)
      /\ d \in Nat /\ d = Len(closed) /\ AloneIn(list)
      /\ RowsTell(o, list, st, closed, N, n, d)
  BY MatchedFacts
<1>3. ASSUME NEW j \in 1..Len(list)
      PROVE  /\ list[j].id \in Orders /\ list[j].id # o /\ list[j].qty \in Nat
             /\ ~MarkedIn(L, list[j].id)
             /\ list[j].qty = Terms[list[j].id].qty - RecordedIn(L, list[j].id)
             /\ list[j].qty # 0
             /\ j <= n => st.fills[j].qty \in Nat /\ st.fills[j].qty # 0
             /\ j <= c => st.fills[j].qty = list[j].qty
             /\ j <= n /\ j > c => st.fills[j].qty < list[j].qty
  <2>1. list[j] \in RestingIn(Orders, Accounts) /\ FitsOf(list[j], L) /\ list[j].id # o
    BY <1>1 DEF MakersMet
  <2>2. ASSUME j <= n
        PROVE  /\ st.fills[j].qty \in Nat /\ st.fills[j].qty # 0
               /\ j <= c => st.fills[j].qty = list[j].qty
               /\ j > c => st.fills[j].qty < list[j].qty
    <3>1. j \in 1..n
      BY <1>2, <2>2
    <3> QED BY <1>1, <3>1 DEF MakersMet
  <2>3. j <= c => j <= n
    BY <1>2
  <2> QED BY <2>1, <2>2, <2>3, RestingFields DEF FitsOf
<1>4. OfOpenOrders(L, N)
  <2> SUFFICES ASSUME NEW p \in Orders, MarkedIn(L, p), NEW k \in DOMAIN N
               PROVE  ~Traded(p, N[k]) /\ ~Closes(p, N[k])
    BY DEF OfOpenOrders
  <2>1. p # o /\ \A j \in 1..Len(list) : p # list[j].id
    BY <1>2, <1>3
  <2> QED BY <2>1, RowsTo
<1>5. ClosesOnce(L, N)
  <2> SUFFICES ASSUME NEW p \in Orders, NEW k \in DOMAIN N, Closes(p, N[k])
               PROVE  /\ N[k].filled = RecordedIn(L, p) + RecordedIn(N, p)
                      /\ \A j \in DOMAIN N : /\ Traded(p, N[j]) => j < k
                                             /\ Closes(p, N[j]) => j = k
    BY DEF ClosesOnce
  <2>1. DOMAIN N = 1..(n + d)
    BY <1>2 DEF RowsTell
  <2>2. ASSUME NEW i \in DOMAIN N, Closes(p, N[i])
        PROVE  \E m \in 1..d : i = n + m /\ p = closed[m].id /\ N[i].filled = closed[m].filled
    <3>1. i \notin 1..n
      <4>1. \A m \in 1..n : \A q : ~Closes(q, N[m])
        BY <1>2 DEF RowsTell
      <4> QED BY <2>2, <4>1
    <3>2. PICK m \in 1..d : i = n + m
      BY <1>2, <2>1, <3>1 DEF RowsTell
    <3>3. /\ \A q : Closes(q, N[n + m]) <=> q = closed[m].id
          /\ N[n + m].filled = closed[m].filled
      BY <1>2 DEF RowsTell
    <3> QED BY <2>2, <3>2, <3>3
  <2>3. PICK m \in 1..d : k = n + m /\ p = closed[m].id /\ N[k].filled = closed[m].filled
    BY <2>2
  <2>4. /\ \A h \in 1..c : closed[h].id = list[h].id /\ closed[h].filled = Terms[list[h].id].qty
        /\ d = c \/ d = c + 1
        /\ d = c + 1 => closed[d].id = o /\ closed[d].filled = Terms[o].qty - st.left
    BY <1>1 DEF EndsOf
  <2>5. /\ \A h \in 1..d : h \in 1..c \/ (h = d /\ d = c + 1)
        /\ \A h \in 1..c : h \in 1..Len(list)
    BY <1>2, <2>4
  <2>6. ASSUME NEW h \in 1..d, p = closed[h].id PROVE h = m
    <3>1. CASE h \in 1..c /\ m \in 1..c
      <4>1. list[h].id = list[m].id /\ h \in 1..Len(list) /\ m \in 1..Len(list) /\ AloneIn(list)
        <5>1. closed[h].id = list[h].id /\ closed[m].id = list[m].id
          BY <2>4, <3>1
        <5> QED BY <1>2, <2>3, <2>5, <2>6, <3>1, <5>1
      <4> QED BY <4>1 DEF AloneIn
    <3>2. CASE ~(h \in 1..c /\ m \in 1..c)
      <4>1. closed[d].id = o /\ d = c + 1
        BY <2>4, <2>5, <3>2
      <4>2. p = o
        BY <2>3, <2>5, <2>6, <3>2, <4>1
      <4>3. h \notin 1..c /\ m \notin 1..c
        BY <1>3, <2>3, <2>4, <2>5, <2>6, <4>2
      <4> QED BY <2>5, <4>3
    <3> QED BY <3>1, <3>2
  <2>7. N[k].filled = RecordedIn(L, p) + RecordedIn(N, p)
    <3>1. CASE m \in 1..c
      <4>1. m \in 1..Len(list) /\ m <= c /\ m <= n /\ p = list[m].id
        BY <1>2, <2>3, <2>4, <2>5, <3>1
      <4>2. RecordedIn(N, p) = st.fills[m].qty /\ st.fills[m].qty = list[m].qty
        BY <1>3, <4>1, RowsTo
      <4>3. list[m].qty = Terms[p].qty - RecordedIn(L, p) /\ N[k].filled = Terms[p].qty
        BY <1>3, <2>3, <2>4, <3>1, <4>1
      <4>4. Terms[p].qty \in Nat /\ RecordedIn(L, p) \in Nat
        BY <1>1, OrderTermsFacts, RecordedInType
      <4> QED BY <4>2, <4>3, <4>4
    <3>2. CASE m \notin 1..c
      <4>1. m = d /\ d = c + 1
        BY <2>5, <3>2
      <4>2. p = o /\ N[k].filled = Terms[o].qty - st.left
        BY <2>3, <2>4, <4>1
      <4>3. RecordedIn(N, p) = Terms[o].qty - st.left
        BY <4>2, RowsTo
      <4> QED BY <1>2, <4>2, <4>3
    <3> QED BY <3>1, <3>2
  <2>8. ASSUME NEW j \in DOMAIN N PROVE /\ Traded(p, N[j]) => j < k
                                        /\ Closes(p, N[j]) => j = k
    <3>1. ASSUME Traded(p, N[j]) PROVE j < k
      <4>1. j \in 1..n
        <5>1. SUFFICES ASSUME j \notin 1..n PROVE FALSE
          OBVIOUS
        <5>2. PICK h \in 1..d : j = n + h
          BY <1>2, <2>1, <5>1 DEF RowsTell
        <5>3. \A q : ~Traded(q, N[n + h])
          BY <1>2 DEF RowsTell
        <5> QED BY <3>1, <5>2, <5>3
      <4> QED BY <1>2, <2>3, <4>1
    <3>2. ASSUME Closes(p, N[j]) PROVE j = k
      <4>1. PICK h \in 1..d : j = n + h /\ p = closed[h].id
        BY <2>2, <3>2
      <4> QED BY <2>3, <2>6, <4>1
    <3> QED BY <3>1, <3>2
  <2> QED BY <2>7, <2>8
<1>6. TakesNoMore(L, N)
  <2> SUFFICES ASSUME NEW p \in Orders, NEW q, q = RecordedIn(L, p) + RecordedIn(N, p)
               PROVE  q <= Terms[p].qty /\ (q = Terms[p].qty => MarkedIn(L, p) \/ MarkedIn(N, p))
    BY DEF TakesNoMore
  <2>1. Terms[p].qty \in Nat /\ RecordedIn(L, p) \in Nat /\ RecordedIn(N, p) \in Nat
    BY <1>1, OrderTermsFacts, RecordedInType
  <2>2. CASE p = o
    <3>1. RecordedIn(N, p) = Terms[o].qty - st.left /\ (MarkedIn(N, p) <=> ~Rests(inc, st))
      BY <2>2, RowsTo
    <3>2. q = Terms[p].qty - st.left
      BY <1>2, <2>2, <3>1
    <3>3. q = Terms[p].qty => ~Rests(inc, st)
      BY <1>2, <2>1, <3>2 DEF Rests
    <3> QED BY <1>2, <2>1, <3>1, <3>2, <3>3
  <2>3. ASSUME NEW j \in 1..Len(list), p = list[j].id
        PROVE  q <= Terms[p].qty /\ (q = Terms[p].qty => MarkedIn(N, p))
    <3>1. /\ j <= n => RecordedIn(N, p) = st.fills[j].qty
          /\ j > n => RecordedIn(N, p) = 0
          /\ MarkedIn(N, p) <=> j <= c
      BY <2>3, RowsTo
    <3>2. /\ list[j].qty = Terms[p].qty - RecordedIn(L, p)
          /\ list[j].qty # 0 /\ list[j].qty \in Nat
          /\ j <= c => st.fills[j].qty = list[j].qty
          /\ j <= n /\ j > c => st.fills[j].qty < list[j].qty
      BY <1>3, <2>3
    <3>3. CASE j <= c
      <4>1. j <= n
        BY <1>2, <3>3
      <4> QED BY <2>1, <3>1, <3>2, <3>3, <4>1
    <3>4. CASE ~(j <= c) /\ j <= n
      <4>1. j > c
        BY <1>2, <3>4
      <4> QED BY <2>1, <3>1, <3>2, <3>4, <4>1
    <3>5. CASE ~(j <= n)
      <4>1. j > n
        BY <1>2, <3>5
      <4> QED BY <2>1, <3>1, <3>2, <4>1
    <3> QED BY <3>3, <3>4, <3>5
  <2>4. CASE RecordedIn(N, p) = 0 /\ p # o
    <3>1. q = RecordedIn(L, p)
      BY <2>1, <2>4
    <3> QED BY <3>1 DEF LogKept, WithinOrders
  <2>5. p = o \/ (\E j \in 1..Len(list) : p = list[j].id) \/ (RecordedIn(N, p) = 0 /\ p # o)
    BY RowsTo
  <2> QED BY <2>2, <2>3, <2>4, <2>5
<1> QED BY <1>1, <1>4, <1>5, <1>6, BatchKeeps

LEMMA LastCarries ==
    ASSUME NEW L \in Seq(Rows), NEW N \in Seq(Rows), NEW U \in Seq(Rows), Joined(L, N, U),
           NoTrade(N), NEW p, LastPriceIn(L, p)
    PROVE  LastPriceIn(U, p)
<1>1. PICK l, n : BehindIs(L, N, U, l, n)
  BY Behind
<1>2. /\ DOMAIN L = 1..l /\ DOMAIN N = 1..n /\ DOMAIN U = 1..(l + n)
      /\ \A i \in 1..l : i \in 1..(l + n) /\ U[i] = L[i]
      /\ \A i \in 1..n : U[l + i] = N[i]
      /\ \A i \in 1..(l + n) : i \in 1..l \/ \E k \in 1..n : i = l + k
  BY <1>1 DEF BehindIs
<1>3. ASSUME NEW i \in 1..(l + n), U[i].topic = "trade.executed"
      PROVE  i \in 1..l /\ L[i].topic = "trade.executed"
  <2>1. CASE i \in 1..l
    BY <1>2, <1>3, <2>1
  <2>2. CASE i \notin 1..l
    BY <1>2, <1>3, <2>2 DEF NoTrade
  <2> QED BY <2>1, <2>2
<1>4. CASE NoTrade(L) /\ p = OpenPrice
  <2>1. NoTrade(U)
    BY <1>2, <1>3, <1>4 DEF NoTrade
  <2> QED BY <1>4, <2>1 DEF LastPriceIn
<1>5. CASE \E i : LastTrade(L, i) /\ p = L[i].price
  <2>1. PICK i : LastTrade(L, i) /\ p = L[i].price
    BY <1>5
  <2>2. i \in 1..l /\ U[i] = L[i] /\ i \in 1..(l + n)
    BY <1>2, <2>1 DEF LastTrade
  <2>3. LastTrade(U, i) /\ p = U[i].price
    BY <1>2, <1>3, <2>1, <2>2 DEF LastTrade
  <2> QED BY <2>3 DEF LastPriceIn
<1> QED BY <1>4, <1>5 DEF LastPriceIn

LEMMA MatchLast ==
    ASSUME NEW L, NEW book, NEW o, NEW inc, NEW list, NEW st, NEW n, NEW c, NEW closed, NEW d,
           NEW N, NEW U, Matched(L, book, o, inc, list, st, n, c, closed, d, N, U)
    PROVE  LastPriceIn(U, st.last)
<1>1. /\ L \in Seq(Rows) /\ N \in Seq(Rows) /\ U \in Seq(Rows) /\ Joined(L, N, U)
      /\ MakersMet(L, o, list, st, n, c) /\ Meets(L, book, o, inc, list, st)
  BY DEF Matched
<1>2. n \in Nat /\ d \in Nat /\ RowsTell(o, list, st, closed, N, n, d) /\ n = Len(st.fills)
  BY <1>1, MatchedFacts DEF MakersMet
<1>3. LastOf(book.last, st) /\ LastPriceIn(L, book.last)
  <2>1. o \in Orders /\ BookOfOrders(book) /\ inc = IncomingOf(o) /\ MeetsAt(book, inc, list, st)
    BY <1>1 DEF Meets, Submitted
  <2>2. Shape(list, book.last, inc, st, Len(list))
    BY <2>1, LoopFacts
  <2> QED BY <1>1, <2>2 DEF Shape, Meets, BookFits
<1>4. DOMAIN N = 1..(n + d)
  BY <1>2 DEF RowsTell
<1>5. ASSUME NEW i \in 1..(n + d), N[i].topic = "trade.executed" PROVE i \in 1..n
  <2>1. SUFFICES ASSUME i \notin 1..n PROVE FALSE
    OBVIOUS
  <2>2. PICK k \in 1..d : i = n + k
    BY <1>2, <2>1 DEF RowsTell
  <2>3. N[n + k].topic # "trade.executed"
    BY <1>2 DEF RowsTell
  <2> QED BY <1>5, <2>2, <2>3
<1>6. CASE n = 0
  <2>1. 1..n = {}
    BY <1>6
  <2>2. NoTrade(N)
    BY <1>4, <1>5, <2>1 DEF NoTrade
  <2>3. LastPriceIn(U, book.last)
    BY ONLY <1>1, <1>3, <2>2, LastCarries
  <2>4. st.fills = <<>>
    <3>1. st \in LoopsIn(Orders, Accounts, LastPrices)
      <4>1. o \in Orders /\ BookOfOrders(book) /\ inc = IncomingOf(o) /\ MeetsAt(book, inc, list, st)
        BY <1>1 DEF Meets, Submitted
      <4> QED BY <4>1, LoopFacts
    <3>2. st.fills \in Seq(FillsIn(Orders))
      BY <3>1 DEF LoopsIn
    <3>3. PICK s, R : s = st.fills /\ s \in Seq(R) /\ Len(s) = 0
      BY <1>2, <1>6, <3>2
    <3>4. s = <<>>
      BY <3>3
    <3> QED BY <3>3, <3>4
  <2> QED BY <1>3, <2>3, <2>4 DEF LastOf
<1>7. CASE n # 0
  <2>1. n \in 1..n /\ st.fills # <<>>
    BY <1>2, <1>7
  <2>2. N[n].topic = "trade.executed" /\ N[n].price = st.fills[n].price /\ n \in 1..(n + d)
    BY <1>2, <2>1 DEF RowsTell
  <2>3. st.last = N[n].price
    BY <1>2, <1>3, <2>1, <2>2 DEF LastOf
  <2>4. PICK l, m : BehindIs(L, N, U, l, m)
    BY <1>1, Behind
  <2>5. /\ l \in Nat /\ m \in Nat /\ DOMAIN N = 1..m /\ DOMAIN U = 1..(l + m)
        /\ \A i \in 1..m : l + i \in 1..(l + m) /\ U[l + i] = N[i]
        /\ \A i \in 1..(l + m) : i \in 1..l \/ \E k \in 1..m : i = l + k
    BY <2>4 DEF BehindIs
  <2>6. n \in 1..m /\ U[l + n] = N[n] /\ l + n \in DOMAIN U
    BY <1>4, <2>2, <2>5
  <2>7. ASSUME NEW j \in 1..(l + m), U[j].topic = "trade.executed" PROVE j <= l + n
    <3>1. CASE j \in 1..l
      BY <1>2, <2>5, <3>1
    <3>2. CASE j \notin 1..l
      <4>1. PICK k \in 1..m : j = l + k /\ U[j] = N[k]
        BY <2>5, <3>2
      <4>2. k \in 1..n
        BY <1>4, <1>5, <2>5, <2>7, <4>1
      <4> QED BY <1>2, <2>5, <4>1, <4>2
    <3> QED BY <3>1, <3>2
  <2>8. LastTrade(U, l + n)
    BY <2>2, <2>5, <2>6, <2>7 DEF LastTrade
  <2> QED BY <2>3, <2>6, <2>8 DEF LastPriceIn
<1> QED BY <1>6, <1>7

\* An order of no part in the match is as it was.
LEMMA OthersFit ==
    ASSUME NEW L, NEW book, NEW o, NEW inc, NEW list, NEW st, NEW n, NEW c, NEW closed, NEW d,
           NEW N, NEW U, Matched(L, book, o, inc, list, st, n, c, closed, d, N, U),
           NEW r, r.id \in Orders, FitsOf(r, L), RecordedIn(N, r.id) = 0, ~MarkedIn(N, r.id)
    PROVE  FitsOf(r, U)
<1>1. PICK p : p = r.id /\ p \in Orders
  OBVIOUS
<1>2. L \in Seq(Rows) /\ N \in Seq(Rows) /\ U \in Seq(Rows) /\ Joined(L, N, U)
  BY DEF Matched
<1>3. /\ RecordedIn(U, p) = RecordedIn(L, p) + RecordedIn(N, p)
      /\ MarkedIn(U, p) <=> MarkedIn(L, p) \/ MarkedIn(N, p)
  BY <1>1, <1>2, RecordedBehind
<1>4. RecordedIn(L, p) \in Nat /\ RecordedIn(N, p) = 0 /\ ~MarkedIn(N, p)
  BY <1>1, <1>2, RecordedInType
<1>5. RecordedIn(U, p) = RecordedIn(L, p) /\ ~MarkedIn(U, p)
  BY <1>1, <1>3, <1>4 DEF FitsOf
<1> QED BY <1>1, <1>5 DEF FitsOf

\* The makers left: the first of them perhaps with less.
LEMMA KeptFits ==
    ASSUME NEW L, NEW book, NEW o, NEW inc, NEW list, NEW st, NEW n, NEW c, NEW closed, NEW d,
           NEW N, NEW U, Matched(L, book, o, inc, list, st, n, c, closed, d, N, U),
           NEW K, K = st.keep
    PROVE  FitsIn(K, U) /\ AloneIn(K)
<1>1. /\ L \in Seq(Rows) /\ N \in Seq(Rows) /\ U \in Seq(Rows) /\ Joined(L, N, U)
      /\ MakersMet(L, o, list, st, n, c) /\ Meets(L, book, o, inc, list, st)
  BY DEF Matched
<1>2. /\ n \in Nat /\ c \in Nat /\ c <= n /\ n <= c + 1 /\ Len(list) \in Nat /\ n <= Len(list)
      /\ AloneIn(list)
  BY MatchedFacts
<1>3. n = Len(st.fills) /\ c = Len(st.closed)
  BY <1>1 DEF MakersMet
<1>4. /\ list \in Seq(RestingIn(Orders, Accounts))
      /\ st \in LoopsIn(Orders, Accounts, LastPrices)
      /\ Shape(list, book.last, inc, st, Len(list))
  <2>1. o \in Orders /\ BookOfOrders(book) /\ inc = IncomingOf(o) /\ MeetsAt(book, inc, list, st)
    BY <1>1 DEF Meets, Submitted
  <2> QED BY <2>1, LoopFacts
<1>5. \A k \in 1..Len(K) : c + k \in 1..Len(list) /\ SameOrder(K[k], list[c + k])
  BY <1>3, <1>4, KeptFrom
<1>6. /\ \A k \in 1..Len(K) : (k > 1 \/ n = c) => K[k] = list[c + k]
      /\ n = c + 1 => K[1] = [list[n] EXCEPT !.qty = list[n].qty - st.fills[n].qty]
  BY <1>3, <1>4 DEF Shape, Kept, Partial
<1>7. ASSUME NEW k \in 1..Len(K) PROVE FitsOf(K[k], U)
  <2>1. PICK j, r, p : /\ j = c + k /\ j \in 1..Len(list) /\ r = list[j] /\ p = r.id
                       /\ SameOrder(K[k], r)
    BY <1>5
  <2>2. r \in RestingIn(Orders, Accounts) /\ FitsOf(r, L)
    BY <1>1, <2>1 DEF MakersMet
  <2>3. p \in Orders /\ r.qty \in Nat
    BY <2>1, <2>2, RestingFields
  <2>4. j > c /\ k \in Nat /\ k >= 1
    BY <1>2, <2>1
  <2>5. /\ j <= n => RecordedIn(N, p) = st.fills[j].qty
        /\ j > n => RecordedIn(N, p) = 0
        /\ MarkedIn(N, p) <=> j <= c
    BY <2>1, <2>3, RowsTo
  <2>6. ~MarkedIn(N, p)
    BY <1>2, <2>1, <2>4, <2>5
  <2>7. CASE k > 1 \/ n = c
    <3>1. K[k] = r
      BY <1>6, <2>1, <2>7
    <3>2. j > n
      BY <1>2, <2>1, <2>4, <2>7
    <3>3. r.id \in Orders /\ RecordedIn(N, r.id) = 0 /\ ~MarkedIn(N, r.id)
      BY <2>1, <2>3, <2>5, <2>6, <3>2
    <3>4. FitsOf(r, U)
      BY <2>2, <3>3, OthersFit
    <3> QED BY <3>1, <3>4
  <2>8. CASE ~(k > 1 \/ n = c)
    <3>1. k = 1 /\ n = c + 1 /\ j = n
      BY <1>2, <2>1, <2>4, <2>8
    <3>2. K[k] = [r EXCEPT !.qty = r.qty - st.fills[j].qty]
      BY <1>6, <2>1, <3>1
    <3>3. K[k].qty = r.qty - st.fills[j].qty /\ K[k].id = p
      BY <2>1, <2>2, <3>2 DEF RestingIn
    <3>4. RecordedIn(N, p) = st.fills[j].qty
      BY <1>2, <2>1, <2>5, <3>1
    <3>5. /\ RecordedIn(U, p) = RecordedIn(L, p) + RecordedIn(N, p)
          /\ MarkedIn(U, p) <=> MarkedIn(L, p) \/ MarkedIn(N, p)
      BY <1>1, <2>3, RecordedBehind
    <3>6. RecordedIn(L, p) \in Nat /\ RecordedIn(N, p) \in Nat /\ Terms[p].qty \in Nat
      BY <1>1, <2>3, RecordedInType, OrderTermsFacts
    <3>7. r.qty = Terms[p].qty - RecordedIn(L, p) /\ ~MarkedIn(L, p)
      BY <2>1, <2>2 DEF FitsOf
    <3>8. K[k].qty = Terms[p].qty - RecordedIn(U, p)
      BY <3>3, <3>4, <3>5, <3>6, <3>7
    <3> QED BY <2>6, <3>3, <3>5, <3>7, <3>8 DEF FitsOf
  <2> QED BY <2>7, <2>8
<1>8. ASSUME NEW k \in 1..Len(K), NEW h \in 1..Len(K), K[k].id = K[h].id PROVE k = h
  <2>1. /\ c + k \in 1..Len(list) /\ c + h \in 1..Len(list)
        /\ list[c + k].id = list[c + h].id
    BY <1>5, <1>8 DEF SameOrder
  <2>2. c + k = c + h
    BY <1>2, <2>1 DEF AloneIn
  <2> QED BY <1>2, <2>2
<1> QED BY <1>7, <1>8 DEF FitsIn, AloneIn

LEMMA AloneInserted ==
    ASSUME NEW R, NEW list \in Seq(R), NEW r \in R, AloneIn(list),
           \A i \in 1..Len(list) : list[i].id # r.id, NEW G, Inserted(list, r, G)
    PROVE  AloneIn(G)
<1>1. PICK p \in 1..(Len(list) + 1) : InsertedAt(list, r, p, G)
  BY DEF Inserted
<1>2. Len(list) \in Nat /\ p \in Nat /\ Len(G) = Len(list) + 1
  BY <1>1 DEF InsertedAt
<1>3. \A i \in 1..Len(G) : /\ i = p => G[i] = r
                           /\ i < p => i \in 1..Len(list) /\ G[i] = list[i]
                           /\ i > p => i - 1 \in 1..Len(list) /\ G[i] = list[i - 1]
  BY <1>1, InsertedFrom
<1> SUFFICES ASSUME NEW i \in 1..Len(G), NEW j \in 1..Len(G), G[i].id = G[j].id PROVE i = j
  BY DEF AloneIn
<1>4. CASE i = p
  <2>1. ~(j < p) /\ ~(j > p)
    BY <1>3, <1>4
  <2> QED BY <1>2, <1>4, <2>1
<1>5. CASE j = p
  <2>1. ~(i < p) /\ ~(i > p)
    BY <1>3, <1>5
  <2> QED BY <1>2, <1>5, <2>1
<1>6. CASE i # p /\ j # p
  <2>1. PICK a, b : /\ a = IF i < p THEN i ELSE i - 1
                    /\ b = IF j < p THEN j ELSE j - 1
    OBVIOUS
  <2>2. a \in 1..Len(list) /\ G[i] = list[a]
    BY <1>2, <1>3, <1>6, <2>1
  <2>3. b \in 1..Len(list) /\ G[j] = list[b]
    BY <1>2, <1>3, <1>6, <2>1
  <2>4. a = b
    BY <2>2, <2>3 DEF AloneIn
  <2> QED BY <1>2, <1>6, <2>1, <2>4
<1> QED BY <1>4, <1>5, <1>6

\* The list of the order's own side: as it was, or with the order's remainder in it.
LEMMA SideFits ==
    ASSUME NEW L, NEW book, NEW o, NEW inc, NEW list, NEW st, NEW n, NEW c, NEW closed, NEW d,
           NEW N, NEW U, Matched(L, book, o, inc, list, st, n, c, closed, d, N, U),
           NEW b, Applied(book, inc, st, b), NEW grown, grown = b[ListOf(inc.side)]
    PROVE  FitsIn(grown, U) /\ AloneIn(grown)
<1>1. /\ L \in Seq(Rows) /\ N \in Seq(Rows) /\ U \in Seq(Rows) /\ Joined(L, N, U)
      /\ Meets(L, book, o, inc, list, st)
  BY DEF Matched
<1>2. /\ o \in Orders /\ o \in Submitted /\ inc = IncomingOf(o) /\ BookOfOrders(book)
      /\ MeetsAt(book, inc, list, st) /\ BookFits(book, L)
  BY <1>1 DEF Meets, Submitted
<1>3. /\ inc.id = o /\ inc.side = Terms[o].side /\ inc.qty = Terms[o].qty /\ inc.side \in Sides
      /\ Terms[o].qty \in Nat /\ inc.acct \in Accounts /\ inc.price \in Nat
  BY <1>2, IncomingType, OrderTermsFacts
<1>4. /\ st.left \in Nat /\ st.left <= Terms[o].qty /\ RecordedIn(L, o) = 0 /\ ~MarkedIn(L, o)
  BY MatchedFacts
<1>5. PICK same : same = book[ListOf(inc.side)]
  OBVIOUS
<1>6. /\ same \in Seq(RestingIn(Orders, Accounts)) /\ AloneIn(same) /\ FitsIn(same, L)
      /\ OneSide(same, inc.side) /\ RestsOf(same)
      /\ \A i \in 1..Len(same) : InBook(book, same[i])
  BY <1>2, <1>3, <1>5 DEF BookOfOrders, BooksIn, BookFits, GoodBook, ListOf, Sides, InBook
<1>7. /\ OneSide(list, IF inc.side = "BUY" THEN "SELL" ELSE "BUY")
      /\ RestsOf(list)
  BY <1>2, LoopFacts
<1>8. ASSUME NEW i \in 1..Len(same) PROVE same[i].id \in Orders /\ same[i].id # o /\ FitsOf(same[i], U)
  <2>1. PICK r : r = same[i] /\ r \in RestingIn(Orders, Accounts) /\ FitsOf(r, L) /\ r.id # o
                 /\ r.side = inc.side /\ RestOf(r)
    <3>1. same[i] \in RestingIn(Orders, Accounts)
      BY <1>6
    <3> QED BY <1>1, <1>6, <3>1 DEF FitsIn, Meets, OneSide, RestsOf
  <2>2. r.id \in Orders
    BY <2>1, RestingFields
  <2>3. \A j \in 1..Len(list) : r.id # list[j].id
    <3> TAKE j \in 1..Len(list)
    <3>1. Terms[list[j].id].side # inc.side
      BY <1>3, <1>7 DEF OneSide, RestsOf, RestOf, Sides
    <3>2. Terms[r.id].side = inc.side
      BY <2>1 DEF RestOf
    <3> QED BY <3>1, <3>2
  <2>4. RecordedIn(N, r.id) = 0 /\ ~MarkedIn(N, r.id)
    BY <2>1, <2>2, <2>3, RowsTo
  <2>5. FitsOf(r, U)
    BY <2>1, <2>2, <2>4, OthersFit
  <2> QED BY <2>1, <2>2, <2>5
<1>9. CASE grown = same
  BY <1>6, <1>8, <1>9 DEF FitsIn
<1>10. CASE grown # same
  <2>1. PICK r : r = [id |-> inc.id, acct |-> inc.acct, side |-> inc.side,
                      price |-> inc.price, qty |-> st.left, total |-> inc.qty]
    OBVIOUS
  <2>2. Rests(inc, st) /\ Inserted(same, r, grown)
    BY <1>5, <1>10, <2>1 DEF Applied, Rests
  <2>3. r \in RestingIn(Orders, Accounts) /\ r.id = o /\ r.qty = st.left
    BY <1>2, <1>3, <1>4, <2>1, <2>2 DEF RestingIn, Rests
  <2>4. AloneIn(grown)
    BY <1>6, <1>8, <2>2, <2>3, AloneInserted
  <2>5. FitsOf(r, U)
    <3>1. RecordedIn(N, o) = Terms[o].qty - st.left /\ ~MarkedIn(N, o)
      BY <1>2, <2>2, RowsTo
    <3>2. /\ RecordedIn(U, o) = RecordedIn(L, o) + RecordedIn(N, o)
          /\ MarkedIn(U, o) <=> MarkedIn(L, o) \/ MarkedIn(N, o)
      BY <1>1, <1>2, RecordedBehind
    <3>3. st.left = Terms[o].qty - RecordedIn(U, o) /\ ~MarkedIn(U, o)
      BY <1>3, <1>4, <3>1, <3>2
    <3> QED BY <2>3, <3>3 DEF FitsOf
  <2>6. \A i \in 1..Len(grown) : grown[i] = r \/ \E j \in 1..Len(same) : grown[i] = same[j]
    BY <1>6, <2>2, <2>3, InsertedElements
  <2> QED BY <1>8, <2>4, <2>5, <2>6 DEF FitsIn
<1> QED BY <1>9, <1>10

LEMMA MatchFits ==
    ASSUME NEW L, NEW book, NEW o, NEW inc, NEW list, NEW st, NEW n, NEW c, NEW closed, NEW d,
           NEW N, NEW U, Matched(L, book, o, inc, list, st, n, c, closed, d, N, U),
           NEW b, Applied(book, inc, st, b)
    PROVE  BookFits(b, U)
<1>1. inc.side \in Sides
  <2>1. o \in Orders /\ inc = IncomingOf(o)
    BY DEF Matched, Meets, Submitted
  <2> QED BY <2>1, IncomingType, OrderTermsFacts
<1>2. PICK grown, K : grown = b[ListOf(inc.side)] /\ K = st.keep
  OBVIOUS
<1>3. FitsIn(grown, U) /\ AloneIn(grown)
  BY <1>2, SideFits
<1>4. FitsIn(K, U) /\ AloneIn(K)
  BY <1>2, KeptFits
<1>5. b[Opposite(inc.side)] = K /\ b.last = st.last
  BY <1>2 DEF Applied
<1>6. LastPriceIn(U, st.last)
  BY MatchLast
<1> QED BY <1>1, <1>2, <1>3, <1>4, <1>5, <1>6 DEF BookFits, ListOf, Opposite, Sides

\* An order that no row of the log is of is matched: what is to be recorded keeps
\* the log, and the book that is left fits it.
LEMMA PlacedFits ==
    ASSUME charging = TRUE, NEW L \in Seq(Rows), LogKept(L),
           NEW book, BookOfOrders(book), BookFits(book, L),
           NEW o \in Submitted, RecordedIn(L, o) = 0, ~MarkedIn(L, o),
           \A r : InBook(book, r) => r.id # o,
           NEW r, r = ApplyOrder(book, IncomingOf(o)),
           NEW N, N = SettlementRows(r), NEW U \in Seq(Rows), Joined(L, N, U)
    PROVE  LogKept(U) /\ BookFits(r.book, U)
<1>1. PICK inc, list, st : /\ inc = IncomingOf(o) /\ list = book[Opposite(inc.side)]
                           /\ st = MatchLoop(book, inc)
  OBVIOUS
<1>2. MeetsAt(book, inc, list, st) /\ o \in Orders
  BY <1>1 DEF MeetsAt, Submitted
<1>3. Meets(L, book, o, inc, list, st)
  BY <1>1, <1>2 DEF Meets
<1>4. PICK n, c : MakersMet(L, o, list, st, n, c)
  BY <1>3, MeetsMakers
<1>5. st.left \in Nat /\ st.fills \in Seq(FillsIn(Orders))
  BY <1>1, <1>2, LoopFacts DEF LoopsIn
<1>6. PICK closed : closed = r.closed /\ r.fills = st.fills /\ ClosesFrom(inc, st, closed)
  BY <1>1, <1>5, ApplyResult
<1>7. PICK d : EndsOf(o, inc, list, st, closed, c, d)
  BY <1>3, <1>4, <1>6, ClosedAre
<1>8. N \in Seq(Rows)
  <2>1. N \in Seq(RowsToRecord)
    BY MatchRowsRecordable
  <2>2. RowsToRecord \subseteq Rows
    BY DEF RowsToRecord
  <2> QED BY <2>1, <2>2
<1>9. RowsOf(st, closed, N)
  <2>1. closed \in Seq(ClosesIn(Orders))
    BY <1>1, <1>2, <1>6, ClosesOfOrders
  <2>2. PICK T, C, f : /\ T = [i \in DOMAIN st.fills |-> TradeRow(st.fills[i])]
                       /\ C = [i \in DOMAIN closed |-> CloseRow(closed[i])]
                       /\ f = st.fills
    OBVIOUS
  <2>3. N = T \o C
    BY <1>6, <2>2 DEF SettlementRows
  <2>4. /\ DOMAIN f = 1..Len(f) /\ Len(f) \in Nat
        /\ DOMAIN closed = 1..Len(closed) /\ Len(closed) \in Nat
    BY <1>5, <2>1, <2>2
  <2>5. PICK X : T \in Seq(X) /\ C \in Seq(X)
    <3>1. T \in Seq({TradeRow(f[i]) : i \in 1..Len(f)} \cup {CloseRow(closed[i]) : i \in 1..Len(closed)})
      BY <2>2, <2>4
    <3>2. C \in Seq({TradeRow(f[i]) : i \in 1..Len(f)} \cup {CloseRow(closed[i]) : i \in 1..Len(closed)})
      BY <2>2, <2>4
    <3> QED BY <3>1, <3>2
  <2>6. Joined(T, C, N)
    BY <2>3, <2>5, ConcatIs
  <2>7. Len(T) = Len(f) /\ Len(C) = Len(closed)
    BY <2>2, <2>4
  <2>8. /\ \A j \in 1..Len(f) : T[j] = TradeRow(f[j])
        /\ \A k \in 1..Len(closed) : C[k] = CloseRow(closed[k])
    BY <2>2, <2>4
  <2> QED BY <1>8, <2>2, <2>6, <2>7, <2>8, ZenonT(60) DEF RowsOf, Joined
<1>10. Matched(L, book, o, inc, list, st, n, c, closed, d, N, U)
  BY <1>3, <1>4, <1>7, <1>8, <1>9 DEF Matched
<1>11. PICK b : b = r.book /\ Applied(book, inc, st, b)
  BY <1>1, <1>2, AppliedOfOrders
<1>12. LogKept(U)
  BY <1>10, MatchKeepsLog
<1>13. BookFits(b, U)
  BY <1>10, <1>11, MatchFits
<1> QED BY <1>11, <1>12, <1>13

LEMMA JoinedNone ==
    ASSUME NEW R, NEW L \in Seq(R), NEW U \in Seq(R), Joined(L, <<>>, U)
    PROVE  U = L
<1>1. Len(U) = Len(L) /\ \A k \in 1..Len(L) : U[k] = L[k]
  BY DEF Joined
<1> QED BY <1>1

\* A cancel: what has been recorded of the order is what its close counts.
LEMMA CloseFits ==
    ASSUME NEW L \in Seq(Rows), LogKept(L), NEW book, BookOfOrders(book), BookFits(book, L),
           NEW o \in Orders, ~MarkedIn(L, o),
           NEW row \in CloseRows, row.order = o, row.filled = RecordedIn(L, o),
           NEW U \in Seq(Rows), Joined(L, <<row>>, U),
           NEW b, b = WithoutOrders(book, {o})
    PROVE  LogKept(U) /\ BookFits(b, U)
<1>1. PICK N \in Seq(Rows) : N = <<row>> /\ Joined(L, N, U)
  <2>1. row \in Rows
    BY DEF Rows
  <2>2. <<row>> \in Seq(Rows)
    BY ONLY <2>1
  <2> QED BY <2>2
<1>2. /\ LogKept(U)
      /\ \A p \in Orders \ {o} : /\ RecordedIn(U, p) = RecordedIn(L, p)
                                 /\ MarkedIn(U, p) <=> MarkedIn(L, p)
      /\ \A p : LastPriceIn(L, p) => LastPriceIn(U, p)
  BY ONLY L \in Seq(Rows), LogKept(L), o \in Orders, ~MarkedIn(L, o), row \in CloseRows,
          row.order = o, row.filled = RecordedIn(L, o), U \in Seq(Rows), <1>1, CloseBatch
<1>3. PICK ids : ids = {o}
  OBVIOUS
<1>4. BookFits(b, L) /\ \A r : InBook(b, r) => InBook(book, r) /\ r.id \notin ids
  BY <1>3, WithoutFits
<1>5. BookOfOrders(b)
  BY <1>3, WithoutOfOrders
<1>6. ASSUME NEW r, InBook(b, r), FitsOf(r, L) PROVE FitsOf(r, U)
  <2>1. r.id # o
    BY <1>3, <1>4, <1>6
  <2>2. r.id \in Orders
    <3>1. PICK P : P = LastPrices /\ b \in BooksIn(Orders, Accounts, P)
      BY <1>5 DEF BookOfOrders
    <3>2. r \in BookOrders(b)
      BY <1>6, <3>1, InBookIs
    <3> QED BY <1>5, <3>2, RestingFacts, RestingFields
  <2>3. RecordedIn(U, r.id) = RecordedIn(L, r.id) /\ (MarkedIn(U, r.id) <=> MarkedIn(L, r.id))
    BY <1>2, <2>1, <2>2
  <2> QED BY <1>6, <2>3 DEF FitsOf
<1>7. FitsIn(b.bids, U) /\ FitsIn(b.asks, U)
  BY <1>4, <1>6 DEF BookFits, FitsIn, InBook
<1>8. BookFits(b, U)
  BY <1>2, <1>4, <1>7 DEF BookFits
<1> QED BY <1>2, <1>8

LEMMA CancelFits ==
    ASSUME LedgerTypeOK, log \in Seq(Rows), LogKept(log),
           NEW book, BookOfOrders(book), BookFits(book, log),
           NEW ev \in SubmittedEvents, ev.topic # "order.placed", ~Marked(ev.order),
           NEW st, st = Stage(book, ev), NEW U \in Seq(Rows), Joined(log, st.rows, U)
    PROVE  LogKept(U) /\ BookFits(st.book, U)
<1>1. PICK o, b : o = ev.order /\ o \in Submitted /\ o \in Orders /\ b = WithoutOrders(book, {o})
  BY DEF SubmittedEvents, Submitted
<1>2. PICK resting, rows :
           /\ resting = {r \in BookOrders(book) : r.id = o}
           /\ rows = IF resting = {} THEN CloseMissing(o)
                     ELSE LET r == CHOOSE r \in resting : TRUE
                          IN  <<CloseRow(ClosedCanceled(r.id, r.total - r.qty))>>
  OBVIOUS
<1>3. st.book = b /\ st.rows = rows
  BY <1>1, <1>2 DEF Stage, StageCancel, CancelOrder
<1>4. ~MarkedIn(log, o) /\ RecordedQty(o) = RecordedIn(log, o) /\ RecordedIn(log, o) \in Nat
  <2>1. ~MarkedIn(log, o) /\ RecordedQty(o) = RecordedIn(log, o)
    BY <1>1, LogIs
  <2> QED BY <1>1, <2>1, RecordedInType
<1>5. ASSUME NEW row \in CloseRows, row.order = o, row.filled = RecordedIn(log, o), rows = <<row>>
      PROVE  LogKept(U) /\ BookFits(b, U)
  <2>1. Joined(log, <<row>>, U)
    BY <1>3, <1>5
  <2> QED BY ONLY <1>1, <1>4, <1>5, <2>1, CloseFits, LogKept(log), BookOfOrders(book),
                  BookFits(book, log), log \in Seq(Rows), U \in Seq(Rows)
<1>6. CASE resting = {}
  <2>1. CASE Active(o) /\ RecordedQty(o) = order[o].filled
    <3>1. PICK row : /\ row = [topic |-> "order.closed", order |-> o, filled |-> order[o].filled,
                               status |-> IF order[o].filled = Terms[o].qty THEN "FILLED"
                                          ELSE "CANCELED"]
                     /\ rows = <<row>>
      BY <1>2, <1>6, <2>1 DEF CloseMissing
    <3>2. row.order = o /\ row.filled = RecordedIn(log, o)
      BY <1>4, <2>1, <3>1
    <3>3. row \in CloseRows
      <4>1. order[o].filled \in Nat
        BY <1>1 DEF LedgerTypeOK
      <4> QED BY <1>1, <3>1, <4>1 DEF CloseRows
    <3> QED BY <1>3, <1>5, <3>1, <3>2, <3>3
  <2>2. CASE ~(Active(o) /\ RecordedQty(o) = order[o].filled)
    <3>1. rows = <<>>
      BY <1>2, <1>6, <2>2 DEF CloseMissing
    <3>2. Joined(log, <<>>, U)
      BY <1>3, <3>1
    <3>3. U = log
      BY ONLY <3>2, log \in Seq(Rows), U \in Seq(Rows), JoinedNone
    <3>4. PICK ids : ids = {o}
      OBVIOUS
    <3>5. BookFits(b, log)
      BY <1>1, <3>4, WithoutFits
    <3> QED BY <1>3, <3>3, <3>5
  <2> QED BY <2>1, <2>2
<1>7. CASE resting # {}
  <2>1. PICK r \in resting : rows = <<CloseRow(ClosedCanceled(r.id, r.total - r.qty))>>
    BY <1>2, <1>7
  <2>2. r \in BookOrders(book) /\ r \in RestingIn(Orders, Accounts) /\ RestOf(r) /\ r.id = o
    BY <1>2, RestingFacts
  <2>3. FitsOf(r, log)
    <3>1. PICK P : P = LastPrices /\ book \in BooksIn(Orders, Accounts, P)
      BY DEF BookOfOrders
    <3>2. InBook(book, r)
      BY <2>2, <3>1, InBookIs
    <3> QED BY <3>2 DEF InBook, BookFits, FitsIn
  <2>4. /\ r.qty \in Nat /\ r.total = Terms[o].qty /\ Terms[o].qty \in Nat
        /\ r.qty = Terms[o].qty - RecordedIn(log, o)
    BY <1>1, <2>2, <2>3, RestingFields, OrderTermsFacts DEF RestOf, FitsOf
  <2>5. r.total - r.qty = RecordedIn(log, o)
    BY <1>4, <2>4
  <2>6. PICK row : row = CloseRow(ClosedCanceled(r.id, r.total - r.qty)) /\ rows = <<row>>
    BY <2>1
  <2>7. row.order = o /\ row.filled = RecordedIn(log, o) /\ row \in CloseRows
    BY <1>1, <1>4, <2>2, <2>5, <2>6 DEF CloseRow, ClosedCanceled, CloseRows
  <2> QED BY <1>3, <1>5, <2>6, <2>7
<1> QED BY <1>6, <1>7

\* What an engine is about to record, as long as the event is not claimed.
StageFits(st) ==
    st.ev \in claimed \/ \A U \in Seq(Rows) :
        Joined(log, st.rows, U) => LogKept(U) /\ BookFits(st.book, U)

LEMMA NewStageFits ==
    ASSUME LedgerTypeOK, charging = TRUE, log \in Seq(Rows), LogKept(log),
           NEW book, BookOfOrders(book), BookFits(book, log),
           NEW ev \in SubmittedEvents, ~Marked(ev.order),
           ev.topic = "order.placed" => /\ ~BookContainsOrder(book, ev.order)
                                        /\ ev \in claimed \/ Trades(ev.order) = {},
           NEW st, st = Stage(book, ev)
    PROVE  StageFits(st)
<1>1. PICK o : o = ev.order /\ o \in Submitted /\ o \in Orders
  BY DEF SubmittedEvents, Submitted
<1>2. CASE ev.topic # "order.placed"
  BY <1>2, CancelFits DEF StageFits
<1>3. CASE ev.topic = "order.placed"
  <2>1. PICK r, inc : inc = IncomingOf(o) /\ r = ApplyOrder(book, inc)
    OBVIOUS
  <2>2. st = [ev |-> ev, book |-> r.book, rows |-> SettlementRows(r)]
    BY <1>1, <1>3, <2>1 DEF Stage, StagePlaced, IncomingOf
  <2>3. CASE ev \in claimed
    BY <2>2, <2>3 DEF StageFits
  <2>4. CASE Trades(o) = {}
    <3>1. ~MarkedIn(log, o) /\ RecordedIn(log, o) = 0
      <4>1. ~MarkedIn(log, o) /\ \A i \in DOMAIN log : ~Traded(o, log[i])
        BY <1>1, <2>4, LogIs
      <4> QED BY <1>1, <4>1, RecordedInType
    <3>2. \A x : InBook(book, x) => x.id # o
      <4>1. PICK P : P = LastPrices /\ book \in BooksIn(Orders, Accounts, P)
        BY DEF BookOfOrders
      <4>2. \A x : InBook(book, x) <=> x \in BookOrders(book)
        BY <4>1, InBookIs
      <4> QED BY <1>1, <1>3, <4>2 DEF BookContainsOrder
    <3>3. ASSUME NEW U \in Seq(Rows), Joined(log, st.rows, U)
          PROVE  LogKept(U) /\ BookFits(st.book, U)
      <4>1. PICK N : N = SettlementRows(r) /\ Joined(log, N, U)
        BY <2>2, <3>3
      <4>2. LogKept(U) /\ BookFits(r.book, U)
        BY <1>1, <2>1, <3>1, <3>2, <4>1, PlacedFits
      <4> QED BY <2>2, <4>2
    <3> QED BY <3>3 DEF StageFits
  <2> QED BY <1>1, <1>3, <2>3, <2>4
<1> QED BY <1>2, <1>3

\* Every order is placed once, so no two rows are of one order.
CreatedOnce == \A i, j \in 1..Len(created) : created[i] = created[j] => i = j

LEMMA RowsAlone ==
    ASSUME created \in Seq(Submitted), CreatedOnce
    PROVE  AloneIn(RestorableRows)
<1>1. PICK f : /\ f[0] = <<>> /\ f[Len(created)] = RestorableRows
               /\ \A i \in 0..Len(created) : f[i] \in Seq(RowsRead)
               /\ \A i \in 0..(Len(created) - 1) : f[i + 1] = AddRow(f[i], created[i + 1])
  BY RowsIterate
<1>2. PICK n : n = Len(created) /\ n \in Nat
  BY SeqDomain
<1> DEFINE Good(s, i) == /\ AloneIn(s)
                         /\ \A k \in 1..Len(s) : \E j \in 1..i : s[k].id = created[j]
           G == {i \in Nat : i <= n => Good(f[i], i)}
<1>3. 0 \in G
  <2>1. 1..Len(<<>>) = {}
    OBVIOUS
  <2> QED BY <1>1, <2>1 DEF AloneIn
<1>4. ASSUME NEW i \in Nat, i \in G PROVE i + 1 \in G
  <2> SUFFICES ASSUME i + 1 <= n PROVE Good(f[i + 1], i + 1)
    OBVIOUS
  <2>1. i \in 0..(n - 1) /\ i \in 0..n /\ i + 1 \in 1..n /\ i <= n /\ \A j \in 1..i : j \in 1..(i + 1) /\ j \in 1..n /\ j # i + 1
    BY <1>2
  <2>2. PICK s, t, o : s = f[i] /\ t = f[i + 1] /\ o = created[i + 1] /\ s \in Seq(RowsRead)
                       /\ t = AddRow(s, o)
    BY <1>1, <1>2, <2>1
  <2>3. AloneIn(s) /\ \A k \in 1..Len(s) : \E j \in 1..i : s[k].id = created[j]
    BY <1>4, <2>1, <2>2
  <2>4. CASE t = s
    BY <2>1, <2>2, <2>3, <2>4
  <2>5. CASE t # s
    <3>1. PICK x : x = RestorableRow(o) /\ t = Append(s, x) /\ x.id = o
      BY <2>2, <2>5 DEF AddRow, RestorableRow
    <3>2. PICK m : m = Len(s) /\ m \in Nat /\ Len(t) = m + 1 /\ t[m + 1] = x
                   /\ \A k \in 1..m : t[k] = s[k]
      <4>1. PICK R : s \in Seq(R)
        BY <2>2
      <4>2. /\ Len(s) \in Nat /\ Len(t) = Len(s) + 1 /\ t[Len(s) + 1] = x
            /\ \A k \in 1..Len(s) : t[k] = s[k]
        BY ONLY <3>1, <4>1, AppendIs
      <4> QED BY <4>2
    <3>3. \A k \in 1..m : s[k].id # o
      <4> TAKE k \in 1..m
      <4>1. PICK j \in 1..i : s[k].id = created[j]
        BY <2>3, <3>2
      <4> QED BY <1>2, <2>1, <2>2, <4>1 DEF CreatedOnce
    <3>4. \A k \in 1..(m + 1) : k \in 1..m \/ k = m + 1
      BY <3>2
    <3>5. AloneIn(t)
      <4> SUFFICES ASSUME NEW k \in 1..(m + 1), NEW h \in 1..(m + 1), t[k].id = t[h].id
                   PROVE  k = h
        BY <3>2 DEF AloneIn
      <4> QED BY <2>3, <3>1, <3>2, <3>3, <3>4 DEF AloneIn
    <3>6. \A k \in 1..(m + 1) : \E j \in 1..(i + 1) : t[k].id = created[j]
      <4> TAKE k \in 1..(m + 1)
      <4>1. CASE k \in 1..m
        BY <2>1, <2>3, <3>2, <4>1
      <4>2. CASE k = m + 1
        <5>1. t[k].id = created[i + 1] /\ i + 1 \in 1..(i + 1)
          BY <2>2, <3>1, <3>2, <4>2
        <5> QED BY <5>1
      <4> QED BY <3>4, <4>1, <4>2
    <3> QED BY <2>2, <3>2, <3>5, <3>6
  <2> QED BY <2>4, <2>5
<1>5. n \in G
  <2> HIDE DEF G
  <2> QED BY <1>2, <1>3, <1>4, NatInduct
<1> QED BY <1>1, <1>2, <1>5

LEMMA RestoreRowAlone ==
    ASSUME NEW I, NEW A, NEW P, NEW book \in BooksIn(I, A, P), NEW row \in RowsIn(I, A),
           AloneIn(book.bids), AloneIn(book.asks), \A r : InBook(book, r) => r.id # row.id,
           NEW b, b = RestoreRow(book, row)
    PROVE  AloneIn(b.bids) /\ AloneIn(b.asks)
<1>1. CASE row.qty = 0 \/ CrossesRestoredBook(book, row.side, row.price)
  BY <1>1 DEF RestoreRow
<1>2. CASE ~(row.qty = 0 \/ CrossesRestoredBook(book, row.side, row.price))
  <2>1. b = InsertResting(book, row)
    BY <1>2 DEF RestoreRow
  <2>2. row \in RestingIn(I, A)
    BY <1>2 DEF RowsIn, RestingIn
  <2>3. PICK side : side = row.side /\ side \in Sides
    BY <2>2, RestingFields
  <2>4. PICK same, grown, list : /\ same = book[ListOf(side)] /\ grown = b[ListOf(side)]
                                 /\ list = book[Opposite(side)]
    OBVIOUS
  <2>5. /\ b[Opposite(side)] = list
        /\ same \in Seq(RestingIn(I, A)) /\ Inserted(same, row, grown)
    BY <2>1, <2>2, <2>3, <2>4, InsertRestingIs
  <2>6. AloneIn(same) /\ AloneIn(list) /\ \A i \in 1..Len(same) : same[i].id # row.id
    BY <2>3, <2>4 DEF ListOf, Opposite, Sides, InBook
  <2>7. AloneIn(grown)
    BY <2>2, <2>5, <2>6, AloneInserted
  <2> QED BY <2>3, <2>4, <2>5, <2>6, <2>7 DEF ListOf, Opposite, Sides
<1> QED BY <1>1, <1>2

LEMMA RestoreBookAlone ==
    ASSUME NEW I, NEW A, NEW P, NEW last \in P, NEW rows \in Seq(RowsIn(I, A)), AloneIn(rows),
           NEW b, b = RestoreBook(last, rows)
    PROVE  AloneIn(b.bids) /\ AloneIn(b.asks)
<1>1. PICK V : V = GoodBooksIn(I, A, P)
  OBVIOUS
<1>2. PICK f \in [0..Len(rows) -> V] :
              /\ f[0] = EmptyBook(last) /\ f[Len(rows)] = b
              /\ \A i \in 0..(Len(rows) - 1) : f[i + 1] = RestoreRow(f[i], rows[i + 1])
  BY <1>1, RestoreIterates
<1>3. PICK n : n = Len(rows) /\ n \in Nat /\ \A i \in 1..n : rows[i] \in RowsIn(I, A)
  OBVIOUS
<1> DEFINE Good(v, i) == /\ AloneIn(v.bids) /\ AloneIn(v.asks)
                         /\ \A r : InBook(v, r) => \E j \in 1..i : r = rows[j]
           G == {i \in Nat : i <= n => Good(f[i], i)}
<1>4. 0 \in G
  <2>1. 1..Len(<<>>) = {}
    OBVIOUS
  <2> QED BY <1>2, <2>1 DEF AloneIn, EmptyBook, InBook
<1>5. ASSUME NEW i \in Nat, i \in G PROVE i + 1 \in G
  <2> SUFFICES ASSUME i + 1 <= n PROVE Good(f[i + 1], i + 1)
    OBVIOUS
  <2>1. /\ i \in 0..(n - 1) /\ i \in 0..n /\ i + 1 \in 1..n /\ i <= n /\ i + 1 \in 1..(i + 1)
        /\ \A j \in 1..i : j \in 1..(i + 1) /\ j \in 1..n /\ j # i + 1
    BY <1>3
  <2>2. PICK v, w, row : v = f[i] /\ w = f[i + 1] /\ row = rows[i + 1] /\ row \in RowsIn(I, A)
                         /\ v \in V /\ w = RestoreRow(v, row)
    BY <1>2, <1>3, <2>1
  <2>3. /\ AloneIn(v.bids) /\ AloneIn(v.asks)
        /\ \A r : InBook(v, r) => \E j \in 1..i : r = rows[j]
    BY <1>5, <2>1, <2>2
  <2>4. v \in BooksIn(I, A, P) /\ GoodBook(v)
    BY <1>1, <2>2 DEF GoodBooksIn
  <2>5. \A r : InBook(v, r) => r.id # row.id
    <3> SUFFICES ASSUME NEW r, InBook(v, r) PROVE r.id # row.id
      OBVIOUS
    <3>1. PICK j \in 1..i : r = rows[j]
      BY <2>3
    <3> QED BY <1>3, <2>1, <2>2, <3>1 DEF AloneIn
  <2>6. AloneIn(w.bids) /\ AloneIn(w.asks)
    BY <2>2, <2>3, <2>4, <2>5, RestoreRowAlone
  <2>7. \A r : InBook(w, r) => InBook(v, r) \/ r = row
    BY <2>2, <2>4, RestoreRowGood
  <2>8. \A r : InBook(w, r) => \E j \in 1..(i + 1) : r = rows[j]
    BY <2>1, <2>2, <2>3, <2>7
  <2> QED BY <2>2, <2>6, <2>8
<1>6. n \in G
  <2> HIDE DEF G
  <2> QED BY <1>3, <1>4, <1>5, NatInduct
<1> QED BY <1>2, <1>3, <1>6

\* The book a new leader restores.
LEMMA RestoredFits ==
    ASSUME LedgerTypeOK, log \in Seq(Rows), created \in Seq(Submitted), CreatedOnce, LogKept(log),
           \A o \in Orders : order[o].filled <= RecordedIn(log, o),
           NEW b, b = RestoreBook(LastPrice, RestorableRows)
    PROVE  BookFits(b, log)
<1>1. /\ BookOfOrders(b) /\ b.last = LastPrice
      /\ \A r : InBook(b, r) => RowFacts(r)
  BY RestoredOfOrders
<1>2. PICK rows, P, last : rows = RestorableRows /\ P = LastPrices /\ last = LastPrice
  OBVIOUS
<1>3. rows \in Seq(RowsIn(Orders, Accounts)) /\ last \in P /\ AloneIn(rows)
  <2>1. rows \in Seq(RowsRead) /\ last \in P /\ AloneIn(rows)
    BY <1>2, RestorableRowsType, LastPriceType, RowsAlone
  <2>2. RowsRead \subseteq RowsIn(Orders, Accounts)
    BY RowReadIs DEF RowFacts
  <2> QED BY <2>1, <2>2
<1>4. AloneIn(b.bids) /\ AloneIn(b.asks)
  BY <1>2, <1>3, RestoreBookAlone
<1>5. LastPriceIn(log, b.last)
  BY <1>1, LogIs
<1>6. ASSUME NEW r, InBook(b, r) PROVE FitsOf(r, log)
  <2>1. RowFacts(r)
    BY <1>1, <1>6
  <2>2. PICK o : o = r.id /\ o \in Orders /\ Restorable(o) /\ r.total = Terms[o].qty
                 /\ r.qty = RemainingRestingQty(r.total, order[o].filled, RecordedQty(o))
    BY <2>1 DEF RowFacts, RestOf, Submitted
  <2>3. RecordedQty(o) = RecordedIn(log, o) /\ ~MarkedIn(log, o)
    BY <2>2, LogIs DEF Restorable
  <2>4. /\ order[o].filled \in Nat /\ Terms[o].qty \in Nat /\ RecordedIn(log, o) \in Nat
        /\ order[o].filled <= RecordedIn(log, o) /\ RecordedIn(log, o) <= Terms[o].qty
    BY <2>2, OrderTermsFacts, RecordedInType DEF LedgerTypeOK, LogKept, WithinOrders
  <2>5. PICK x, y, z : /\ x = Terms[o].qty /\ y = order[o].filled /\ z = RecordedIn(log, o)
                       /\ x \in Nat /\ y \in Nat /\ z \in Nat /\ y <= z /\ z <= x
                       /\ r.qty = RemainingRestingQty(x, y, z)
    BY <2>2, <2>3, <2>4
  <2>6. r.qty = x - z
    BY ONLY <2>5, RemainingIs
  <2> QED BY <2>2, <2>3, <2>5, <2>6 DEF FitsOf
<1>7. FitsIn(b.bids, log) /\ FitsIn(b.asks, log)
  BY <1>6 DEF FitsIn, InBook
<1> QED BY <1>4, <1>5, <1>7 DEF BookFits

----------------------------------------------------------------------------
(***************************************************************************)
(* The tables and the log: what an order has filled is the sum of its      *)
(* settled trades, and an order that ended before its quantity was closed. *)
(***************************************************************************)
SettledOf(L, P, o) == SumOver([i \in P |-> Took(o)[L[i]]], P)

FilledCounts == \A o \in Orders : order[o].filled = SettledOf(log, processed, o)

EndsByClose ==
    \A o \in Orders : Terminal(o) /\ order[o].filled # Terms[o].qty =>
        \E i \in DOMAIN log : Closes(o, log[i]) /\ log[i].filled = order[o].filled

TablesInv == IsFiniteSet(processed) /\ FilledCounts /\ EndsByClose

LEMMA SettledNat ==
    ASSUME NEW L, NEW P, IsFiniteSet(P), \A i \in P : L[i] \in Rows, NEW o \in Orders
    PROVE  SettledOf(L, P, o) \in Nat
<1>1. PICK f : f = [i \in P |-> Took(o)[L[i]]]
  OBVIOUS
<1>2. \A i \in P : f[i] \in Nat
  BY <1>1, TookType
<1>3. SumOver(f, P) \in Nat
  BY <1>2, SumNat
<1> QED BY <1>1, <1>3 DEF SettledOf

LEMMA SettledSame ==
    ASSUME NEW L, NEW K, NEW P, IsFiniteSet(P), \A i \in P : L[i] \in Rows /\ K[i] = L[i],
           NEW o \in Orders
    PROVE  SettledOf(K, P, o) = SettledOf(L, P, o)
<1>1. [i \in P |-> Took(o)[L[i]]] = [i \in P |-> Took(o)[K[i]]]
  OBVIOUS
<1> QED BY <1>1 DEF SettledOf

LEMMA SettledOne ==
    ASSUME NEW L, NEW P, IsFiniteSet(P), NEW i, i \notin P, NEW Q, Q = P \cup {i},
           \A j \in Q : L[j] \in Rows, NEW o \in Orders
    PROVE  SettledOf(L, Q, o) = SettledOf(L, P, o) + Took(o)[L[i]]
<1>1. PICK f, g : f = [j \in Q |-> Took(o)[L[j]]] /\ g = [j \in P |-> Took(o)[L[j]]]
  OBVIOUS
<1>2. \A j \in Q : f[j] \in Int
  BY <1>1, TookType
<1>3. SumOver(f, Q) = SumOver(f, P) + f[i]
  BY <1>2, SumAdd
<1>4. \A j \in P : f[j] \in Int /\ g[j] = f[j]
  BY <1>1, <1>2
<1>5. SumOver(g, P) = SumOver(f, P)
  BY <1>4, SumSame
<1>6. f[i] = Took(o)[L[i]]
  BY <1>1
<1> QED BY <1>1, <1>3, <1>5, <1>6 DEF SettledOf

LEMMA TablesInit == LedgerInit => TablesInv
<1> SUFFICES ASSUME LedgerInit PROVE TablesInv
  OBVIOUS
<1>1. processed = {} /\ \A o \in Orders : order[o].filled = 0 /\ order[o].status = "NONE"
  BY DEF LedgerInit
<1>2. \A o \in Orders : SettledOf(log, processed, o) = 0
  BY <1>1, SumEmpty DEF SettledOf
<1>3. IsFiniteSet(processed)
  BY <1>1, FS_EmptySet
<1> QED BY <1>1, <1>2, <1>3 DEF TablesInv, FilledCounts, EndsByClose, Terminal

LEMMA TablesPlace ==
    ASSUME LedgerInv, TablesInv, NEW o \in Orders, PlaceOrder(o)
    PROVE  TablesInv'
<1>1. /\ order[o].status = "NONE" /\ log' = log /\ processed' = processed
      /\ order' = [order EXCEPT ![o] = [status |-> "OPEN", filled |-> 0, unit |-> HoldPerUnit(o)]]
  BY DEF PlaceOrder
<1>2. order[o].filled = 0
  BY <1>1 DEF LedgerInv, OrdersAreSound
<1>3. DOMAIN order = Orders
  BY DEF LedgerInv, LedgerTypeOK
<1>4. /\ order'[o].status = "OPEN" /\ order'[o].filled = 0
      /\ \A p \in Orders \ {o} : order'[p] = order[p]
  BY <1>1, <1>3
<1>5. \A p \in Orders : order'[p].filled = order[p].filled
  BY <1>2, <1>4
<1>6. FilledCounts'
  BY <1>1, <1>5 DEF TablesInv, FilledCounts
<1>7. EndsByClose'
  BY <1>1, <1>4, <1>5 DEF TablesInv, EndsByClose, Terminal
<1> QED BY <1>1, <1>6, <1>7 DEF TablesInv

LEMMA TablesRecord ==
    ASSUME LedgerInv, TablesInv, Record
    PROVE  TablesInv'
<1>1. /\ order' = order /\ processed' = processed /\ DOMAIN log \subseteq DOMAIN log'
      /\ \A i \in DOMAIN log : log'[i] = log[i]
  BY DEF Record
<1>2. \A i \in processed : log[i] \in Rows /\ log'[i] = log[i]
  BY <1>1 DEF LedgerInv, LedgerTypeOK, Rows
<1>3. \A o \in Orders : SettledOf(log', processed, o) = SettledOf(log, processed, o)
  <2> TAKE o \in Orders
  <2>1. PICK L, K, P : L = log /\ K = log' /\ P = processed
    OBVIOUS
  <2>2. IsFiniteSet(P) /\ \A i \in P : L[i] \in Rows /\ K[i] = L[i]
    BY <1>2, <2>1 DEF TablesInv
  <2>3. SettledOf(K, P, o) = SettledOf(L, P, o)
    BY ONLY <2>2, o \in Orders, SettledSame
  <2> QED BY <2>1, <2>3
<1>4. FilledCounts'
  BY <1>1, <1>3 DEF TablesInv, FilledCounts
<1>5. EndsByClose'
  BY <1>1 DEF TablesInv, EndsByClose, Terminal, Closes
<1> QED BY <1>1, <1>4, <1>5 DEF TablesInv

LEMMA TablesSettle ==
    ASSUME LedgerInv, TablesInv, NEW i \in DOMAIN log, Settle(i)
    PROVE  TablesInv'
<1>1. log' = log /\ processed' = processed \cup {i}
  BY DEF Settle
<1>2. IsFiniteSet(processed')
  BY <1>1, FS_AddElement DEF TablesInv
<1>3. CASE i \in processed
  <2>1. processed' = processed /\ order' = order
    BY <1>1, <1>3 DEF Settle
  <2> QED BY <1>1, <2>1 DEF TablesInv, FilledCounts, EndsByClose, Terminal
<1>4. CASE i \notin processed
  <2>1. \A o \in Orders : SettledOf(log, processed', o) = order[o].filled + Took(o)[log[i]]
    <3> TAKE o \in Orders
    <3>1. PICK P, Q : P = processed /\ Q = processed' /\ Q = P \cup {i}
      BY <1>1
    <3>2. IsFiniteSet(P) /\ i \notin P /\ \A j \in Q : log[j] \in Rows
      BY <1>4, <3>1 DEF TablesInv, LedgerInv, LedgerTypeOK, Rows
    <3>3. SettledOf(log, Q, o) = SettledOf(log, P, o) + Took(o)[log[i]]
      BY <3>1, <3>2, SettledOne
    <3> QED BY <3>1, <3>3 DEF TablesInv, FilledCounts
  <2>2. \A o \in Orders : order[o].filled \in Nat /\ log[i] \in Rows
    BY DEF LedgerInv, LedgerTypeOK, Rows
  <2>3. CASE IsTrade(i)
    <3>1. PICK t : t = log[i] /\ t \in TradeRows /\ Matches(t) /\ AcceptsTrade(t.buy, t.qty)
                   /\ AcceptsTrade(t.sell, t.qty) /\ SettleTrade(t)
      BY <1>4, <2>3, SettledRowFacts
    <3>2. t.buy \in Orders /\ t.sell \in Orders /\ t.buy # t.sell /\ t.qty \in Nat
      BY <3>1, TradeFacts
    <3>3. order' = [order EXCEPT ![t.buy] = StateAfterTrade(t.buy, t.qty),
                                 ![t.sell] = StateAfterTrade(t.sell, t.qty)]
      BY <3>1 DEF SettleTrade
    <3>4. order \in [Orders -> [status : {"NONE", "OPEN", "PARTIAL", "FILLED", "CANCELED"},
                                filled : Nat, unit : Nat]]
      BY DEF LedgerInv, LedgerTypeOK
    <3>5. /\ order'[t.buy] = StateAfterTrade(t.buy, t.qty)
          /\ order'[t.sell] = StateAfterTrade(t.sell, t.qty)
          /\ \A o \in Orders \ {t.buy, t.sell} : order'[o] = order[o]
      BY <3>2, <3>3, <3>4
    <3>6. \A o \in {t.buy, t.sell} :
              /\ StateAfterTrade(o, t.qty).filled = order[o].filled + t.qty
              /\ StateAfterTrade(o, t.qty).status = "FILLED" => order[o].filled + t.qty = Terms[o].qty
              /\ StateAfterTrade(o, t.qty).status # "CANCELED"
      <4> TAKE o \in {t.buy, t.sell}
      <4>1. AcceptsTrade(o, t.qty) /\ o \in Orders /\ Terms[o].qty \in Nat /\ order[o].filled \in Nat
        BY <2>2, <3>1, <3>2, TermsFacts
      <4>2. PICK f, s : f = order[o].filled + t.qty /\ s = IF f >= Terms[o].qty THEN "FILLED" ELSE "PARTIAL"
        OBVIOUS
      <4>3. StateAfterTrade(o, t.qty) = [order[o] EXCEPT !.status = s, !.filled = f]
        BY <4>2 DEF StateAfterTrade
      <4>4. StateAfterTrade(o, t.qty).filled = f /\ StateAfterTrade(o, t.qty).status = s
        BY <3>4, <4>1, <4>3
      <4>5. f <= Terms[o].qty /\ f \in Nat
        BY <3>2, <4>1, <4>2 DEF AcceptsTrade
      <4> QED BY <4>1, <4>2, <4>4, <4>5
    <3>7. \A o \in Orders : Took(o)[log[i]] = IF o \in {t.buy, t.sell} THEN t.qty ELSE 0
      BY <2>2, <3>1, <3>2, TookType DEF Traded, TradeRows
    <3>8. FilledCounts'
      <4> SUFFICES ASSUME NEW o \in Orders
                   PROVE  order'[o].filled = SettledOf(log', processed', o)
        BY DEF FilledCounts
      <4>1. SettledOf(log', processed', o) = order[o].filled + Took(o)[log[i]]
        BY <1>1, <2>1
      <4>2. CASE o \in {t.buy, t.sell}
        BY <3>5, <3>6, <3>7, <4>1, <4>2
      <4>3. CASE o \notin {t.buy, t.sell}
        BY <2>2, <3>5, <3>7, <4>1, <4>3
      <4> QED BY <4>2, <4>3
    <3>9. EndsByClose'
      <4> SUFFICES ASSUME NEW o \in Orders, order'[o].status \in {"FILLED", "CANCELED"},
                          order'[o].filled # Terms[o].qty
                   PROVE  \E k \in DOMAIN log : Closes(o, log[k]) /\ log[k].filled = order'[o].filled
        BY <1>1 DEF EndsByClose, Terminal
      <4>1. o \notin {t.buy, t.sell}
        BY <3>5, <3>6
      <4>2. order'[o] = order[o]
        BY <3>5, <4>1
      <4> QED BY <4>2 DEF TablesInv, EndsByClose, Terminal
    <3> QED BY <1>2, <3>8, <3>9 DEF TablesInv
  <2>4. CASE ~IsTrade(i)
    <3>1. PICK c : c = log[i] /\ c \in CloseRows /\ order[c.order].status # "NONE"
                   /\ ~CloseMustWait(c) /\ CloseOrder(c)
      BY <1>4, <2>4, SettledRowFacts
    <3>2. PICK p : p = c.order /\ p \in Orders /\ Closes(p, c)
      BY <3>1 DEF CloseRows, Closes
    <3>3. \A o \in Orders : Took(o)[log[i]] = 0
      BY <2>2, <3>1, TookType DEF Traded, CloseRows
    <3>4. \A o \in Orders : SettledOf(log', processed', o) = order[o].filled
      <4> TAKE o \in Orders
      <4>1. PICK x, y : x = order[o].filled /\ y = Took(o)[log[i]] /\ x \in Nat /\ y = 0
        BY <2>2, <3>3
      <4>2. SettledOf(log, processed', o) = x + y
        BY <2>1, <4>1
      <4>3. SettledOf(log, processed', o) = x
        BY <4>1, <4>2
      <4> QED BY <1>1, <4>1, <4>3
    <3>5. CASE Stale(c)
      <4>1. order' = order
        BY <3>1, <3>5 DEF CloseOrder
      <4>2. FilledCounts'
        BY <3>4, <4>1 DEF FilledCounts
      <4>3. EndsByClose'
        BY <1>1, <4>1 DEF TablesInv, EndsByClose, Terminal
      <4> QED BY <1>2, <4>2, <4>3 DEF TablesInv
    <3>6. CASE ~Stale(c)
      <4>1. PICK rest : rest = Terms[p].qty - order[p].filled
        OBVIOUS
      <4>2. order' = [order EXCEPT ![p] = [@ EXCEPT !.status = c.status]] /\ Active(p)
        BY <3>1, <3>2, <3>6, <4>1, CloseFacts
      <4>3. order \in [Orders -> [status : {"NONE", "OPEN", "PARTIAL", "FILLED", "CANCELED"},
                                  filled : Nat, unit : Nat]]
        BY DEF LedgerInv, LedgerTypeOK
      <4>4. /\ \A o \in Orders : order'[o].filled = order[o].filled
            /\ \A o \in Orders \ {p} : order'[o] = order[o]
        BY <3>2, <4>2, <4>3
      <4>5. c.filled = order[p].filled
        <5>1. c.filled \in Nat /\ order[p].filled \in Nat
          BY <2>2, <3>1, <3>2 DEF CloseRows
        <5>2. ~(c.filled > order[p].filled) /\ ~(c.filled < order[p].filled)
          BY <3>1, <3>2, <3>6, <4>2 DEF CloseMustWait, Stale
        <5> QED BY <5>1, <5>2
      <4>6. FilledCounts'
        BY <3>4, <4>4 DEF FilledCounts
      <4>7. EndsByClose'
        <5> SUFFICES ASSUME NEW o \in Orders, order'[o].status \in {"FILLED", "CANCELED"},
                            order'[o].filled # Terms[o].qty
                     PROVE  \E k \in DOMAIN log : Closes(o, log[k]) /\ log[k].filled = order'[o].filled
          BY <1>1 DEF EndsByClose, Terminal
        <5>1. CASE o = p
          BY <3>1, <3>2, <4>4, <4>5, <5>1
        <5>2. CASE o # p
          <6>1. order'[o] = order[o]
            BY <4>4, <5>2
          <6> QED BY <6>1 DEF TablesInv, EndsByClose, Terminal
        <5> QED BY <5>1, <5>2
      <4> QED BY <1>2, <4>6, <4>7 DEF TablesInv
    <3> QED BY <3>5, <3>6
  <2> QED BY <2>3, <2>4
<1> QED BY <1>3, <1>4

LEMMA TablesNext == LedgerInv /\ TablesInv /\ [LedgerNext]_ledgerVars => TablesInv'
<1> SUFFICES ASSUME LedgerInv, TablesInv, [LedgerNext]_ledgerVars PROVE TablesInv'
  OBVIOUS
<1>1. CASE StartCharging \/ UNCHANGED ledgerVars
  <2>1. order' = order /\ log' = log /\ processed' = processed
    BY <1>1 DEF StartCharging, ledgerVars
  <2> QED BY <2>1 DEF TablesInv, FilledCounts, EndsByClose, Terminal
<1>2. CASE \E o \in Orders : PlaceOrder(o)
  BY <1>2, TablesPlace
<1>3. CASE Record
  BY <1>3, TablesRecord
<1>4. CASE \E i \in DOMAIN log : Settle(i)
  BY <1>4, TablesSettle
<1> QED BY <1>1, <1>2, <1>3, <1>4 DEF LedgerNext

LEMMA SettledWithin ==
    ASSUME NEW L \in Seq(Rows), NEW P \in SUBSET DOMAIN L, NEW o \in Orders
    PROVE  SettledOf(L, P, o) <= RecordedIn(L, o)
<1>1. PICK S : S = DOMAIN L /\ IsFiniteSet(S) /\ P \in SUBSET S /\ \A i \in S : L[i] \in Rows
  BY SeqDomain
<1>2. PICK f, g : f = [i \in S |-> Took(o)[L[i]]] /\ g = [i \in P |-> Took(o)[L[i]]]
  OBVIOUS
<1>3. \A i \in S : f[i] \in Nat
  BY <1>1, <1>2, TookType
<1>4. SumOver(f, P) <= SumOver(f, S)
  BY <1>1, <1>3, SumOfPart
<1>5. SumOver(g, P) = SumOver(f, P)
  <2>1. IsFiniteSet(P)
    BY <1>1, FS_Subset
  <2>2. \A i \in P : f[i] \in Int /\ g[i] = f[i]
    BY <1>1, <1>2, <1>3
  <2> QED BY <2>1, <2>2, SumSame
<1>6. RecordedIn(L, o) = SumOver(f, S)
  BY <1>1, <1>2 DEF RecordedIn, SumAlong
<1> QED BY <1>2, <1>4, <1>5, <1>6 DEF SettledOf

\* What is filled is part of what is recorded; an unsettled trade is another part.
LEMMA FilledWithin ==
    ASSUME LedgerInv, TablesInv, log \in Seq(Rows), NEW o \in Orders
    PROVE  /\ order[o].filled \in Nat /\ order[o].filled <= RecordedIn(log, o)
           /\ \A i \in DOMAIN log \ processed :
                 Traded(o, log[i]) => /\ order[o].filled + log[i].qty <= RecordedIn(log, o)
                                      /\ log[i].qty \in Nat /\ log[i].qty # 0
<1>1. PICK P : P = processed /\ P \in SUBSET DOMAIN log /\ IsFiniteSet(P)
  BY DEF LedgerInv, LedgerTypeOK, TablesInv
<1>2. \A i \in DOMAIN log : log[i] \in Rows
  BY SeqDomain
<1>3. order[o].filled \in Nat /\ order[o].filled = SettledOf(log, P, o)
  BY <1>1 DEF LedgerInv, LedgerTypeOK, TablesInv, FilledCounts
<1>4. SettledOf(log, P, o) <= RecordedIn(log, o)
  BY <1>1, SettledWithin
<1>5. ASSUME NEW i \in DOMAIN log \ processed, Traded(o, log[i])
      PROVE  /\ order[o].filled + log[i].qty <= RecordedIn(log, o)
             /\ log[i].qty \in Nat /\ log[i].qty # 0
  <2>1. PICK Q : Q = P \cup {i} /\ Q \in SUBSET DOMAIN log
    BY <1>1
  <2>2. i \notin P /\ \A j \in Q : log[j] \in Rows
    BY <1>1, <1>2, <2>1
  <2>3. SettledOf(log, Q, o) = SettledOf(log, P, o) + Took(o)[log[i]]
    BY <1>1, <2>1, <2>2, SettledOne
  <2>4. SettledOf(log, Q, o) <= RecordedIn(log, o)
    BY <2>1, SettledWithin
  <2>5. PICK r : r = log[i] /\ r \in Rows /\ Traded(o, r)
    BY <1>2, <1>5
  <2>6. Took(o)[r] = r.qty /\ r.qty # 0 /\ r.qty \in Nat
    BY <2>5, TookType
  <2> QED BY <1>3, <2>3, <2>4, <2>5, <2>6
<1> QED BY <1>3, <1>4, <1>5

----------------------------------------------------------------------------
\* ----- every order is created once
Once(s) == \A i, j \in 1..Len(s) : s[i] = s[j] => i = j

LEMMA OnceInserted ==
    ASSUME NEW R, NEW s \in Seq(R), Once(s), NEW x, \A i \in 1..Len(s) : s[i] # x,
           NEW at \in 1..(Len(s) + 1), NEW N, Shifted(s, x, at, N)
    PROVE  Once(N)
<1>1. PICK n \in Nat : n = Len(s) /\ at \in 1..(n + 1)
  BY SeqDomain
<1>2. Len(N) = n + 1 /\ N[at] = x
  BY <1>1 DEF Shifted
<1>3. \A k \in 1..(n + 1) : k # at => \E j \in 1..n : N[k] = s[j] /\ ((k < at /\ j = k) \/ (k > at /\ j = k - 1))
  <2> SUFFICES ASSUME NEW k \in 1..(n + 1), k # at
               PROVE  \E j \in 1..n : N[k] = s[j] /\ ((k < at /\ j = k) \/ (k > at /\ j = k - 1))
    OBVIOUS
  <2>1. CASE k < at
    <3>1. k \in 1..(at - 1) /\ k \in 1..n
      BY <1>1, <2>1
    <3>2. N[k] = s[k]
      BY <3>1 DEF Shifted
    <3> QED BY <2>1, <3>1, <3>2
  <2>2. CASE k > at
    <3>1. PICK j : j = k - 1 /\ j \in at..n /\ j \in 1..n /\ k = j + 1
      BY <1>1, <2>2
    <3>2. N[j + 1] = s[j]
      BY <1>1, <3>1 DEF Shifted
    <3> QED BY <2>2, <3>1, <3>2
  <2> QED BY <1>1, <2>1, <2>2
<1>4. ASSUME NEW k \in 1..(n + 1), NEW l \in 1..(n + 1), N[k] = N[l] PROVE k = l
  <2>1. CASE k = at \/ l = at
    BY <1>1, <1>2, <1>3, <1>4, <2>1
  <2>2. CASE k # at /\ l # at
    <3>1. PICK i \in 1..n : N[k] = s[i] /\ ((k < at /\ i = k) \/ (k > at /\ i = k - 1))
      BY <1>3, <2>2
    <3>2. PICK j \in 1..n : N[l] = s[j] /\ ((l < at /\ j = l) \/ (l > at /\ j = l - 1))
      BY <1>3, <2>2
    <3>3. i = j
      BY <1>1, <1>4, <3>1, <3>2 DEF Once
    <3> QED BY <1>1, <3>1, <3>2, <3>3
  <2> QED BY <2>1, <2>2
<1> QED BY <1>2, <1>4 DEF Once

LEMMA PlaceCreatesOnce ==
    ASSUME PipeInv, CreatedOnce, NEW o \in Orders, Place(o)
    PROVE  CreatedOnce'
<1>1. created \in Seq(Submitted) /\ order[o].status = "NONE"
  BY DEF PipeInv, Carried, QueuesOfOrders, Place, PlaceOrder
<1>2. PICK s, R, n, N : /\ s = created /\ R = Orders /\ n = Len(s) /\ N = created'
  OBVIOUS
<1>3. /\ s \in Seq(R) /\ n \in Nat /\ o \in R /\ Once(s)
      /\ \A i \in 1..n : s[i] # o
  <2>1. \A i \in 1..n : s[i] \in Submitted
    BY <1>1, <1>2
  <2>2. Submitted \subseteq Orders
    BY DEF Submitted
  <2>3. s \in Seq(R)
    BY <1>1, <1>2, <2>2, SeqGrows
  <2>4. n \in Nat
    BY <1>2, <2>3
  <2> QED BY <1>1, <1>2, <2>1, <2>3, <2>4 DEF Submitted, Once, CreatedOnce
<1>4. CASE N = Append(s, o)
  <2>1. /\ Len(N) = n + 1 /\ N[n + 1] = o /\ \A k \in 1..n : N[k] = s[k]
    BY <1>2, <1>3, <1>4, AppendIs
  <2>2. PICK at : at = n + 1 /\ at \in 1..(n + 1)
    BY <1>3
  <2>3. Shifted(s, o, at, N)
    BY <1>2, <1>3, <2>1, <2>2 DEF Shifted
  <2>4. Once(N)
    BY ONLY <1>2, <1>3, <2>2, <2>3, OnceInserted
  <2> QED BY <1>2, <2>4 DEF Once, CreatedOnce
<1>5. CASE s # <<>> /\ N = InsertAt(s, n, o)
  <2>1. n \in 1..n /\ n \in 1..(n + 1)
    BY <1>2, <1>3, <1>5
  <2>2. Shifted(s, o, n, N)
    BY <1>2, <1>3, <1>5, <2>1, InsertAtIs
  <2>3. Once(N)
    BY ONLY <1>2, <1>3, <2>1, <2>2, OnceInserted
  <2> QED BY <1>2, <2>3 DEF Once, CreatedOnce
<1> QED BY <1>2, <1>4, <1>5 DEF Place, InsertLate

----------------------------------------------------------------------------
(***************************************************************************)
(* The leader's memory and the log, while no transaction has committed     *)
(* behind its back.  L is the log, C the claimed events, l the lease.      *)
(***************************************************************************)
StageKeeps(st, L, C) ==
    st.ev \in C \/ \A U \in Seq(Rows) : Joined(L, st.rows, U) => LogKept(U) /\ BookFits(st.book, U)

EngineFits(e, x, l, L, C) ==
    /\ x.mode \in {"standby", "leading"}
    /\ x.mode = "standby" => x.stage = NoStage
    /\ x.mode = "leading" => l = e /\ BookFits(x.book, L)
    /\ x.stage # NoStage => StageKeeps(x.stage, L, C)

BookKept ==
    torn \/ /\ LogKept(log)
            /\ \A e \in Engines : EngineFits(e, engine[e], lease, log, claimed)

KeptInv == TablesInv /\ CreatedOnce /\ BookKept

LEMMA ClaimedMore ==
    ASSUME NEW e, NEW x, NEW l, NEW L, NEW C, EngineFits(e, x, l, L, C), NEW D, C \subseteq D
    PROVE  EngineFits(e, x, l, L, D)
  BY DEF EngineFits, StageKeeps

LEMMA IdleFits ==
    ASSUME NEW x, x.mode = "standby", x.stage = NoStage, NEW e, NEW l, NEW L, NEW C
    PROVE  EngineFits(e, x, l, L, C)
  BY DEF EngineFits

\* All engines but one that leads, or is to lead, are idle.
LEMMA OthersIdle ==
    ASSUME \A f \in Engines : EngineFits(f, engine[f], lease, log, claimed),
           NEW e \in Engines, lease = e \/ lease = NoEngine
    PROVE  \A f \in Engines \ {e} : engine[f].mode = "standby" /\ engine[f].stage = NoStage
<1> SUFFICES ASSUME NEW f \in Engines \ {e}
             PROVE  engine[f].mode = "standby" /\ engine[f].stage = NoStage
  OBVIOUS
<1>1. lease # f
  BY ExchangeAssumption
<1> QED BY <1>1 DEF EngineFits

LEMMA OneEngineFits ==
    ASSUME EnginesOfOrders, NEW e \in Engines, NEW y, engine' = [engine EXCEPT ![e] = y],
           EngineFits(e, y, lease', log', claimed'),
           \A f \in Engines \ {e} : EngineFits(f, engine[f], lease', log', claimed'),
           LogKept(log')
    PROVE  BookKept'
<1>1. DOMAIN engine = Engines
  BY DEF EnginesOfOrders
<1>2. engine'[e] = y /\ \A f \in Engines \ {e} : engine'[f] = engine[f]
  BY <1>1
<1>3. \A f \in Engines : EngineFits(f, engine'[f], lease', log', claimed')
  <2> TAKE f \in Engines
  <2>1. CASE f = e
    BY <1>2, <2>1
  <2>2. CASE f # e
    <3>1. engine'[f] = engine[f] /\ EngineFits(f, engine[f], lease', log', claimed')
      BY <1>2, <2>2
    <3> QED BY <3>1
  <2> QED BY <2>1, <2>2
<1> QED BY <1>3 DEF BookKept

\* The steps of the tables, the relays and the consumers.
LEMMA KeptElsewhere ==
    ASSUME BookKept, torn => torn', log' = log, claimed' = claimed, lease' = lease,
           engine' = engine
    PROVE  BookKept'
<1>1. CASE torn
  BY <1>1 DEF BookKept
<1>2. CASE ~torn
  BY <1>2 DEF BookKept
<1> QED BY <1>1, <1>2

LEMMA LeadKeeps ==
    ASSUME PipeInv, KeptInv, NEW e \in Engines, Lead(e)
    PROVE  BookKept'
<1>1. /\ torn' = torn /\ log' = log /\ claimed' = claimed /\ lease = NoEngine /\ lease' = e
  BY DEF Lead, NoFault, matchVars
<1>2. CASE torn
  BY <1>1, <1>2 DEF BookKept
<1>3. CASE ~torn
  <2>1. /\ LogKept(log) /\ \A f \in Engines : EngineFits(f, engine[f], lease, log, claimed)
        /\ LedgerInv /\ LedgerTypeOK /\ log \in Seq(Rows) /\ created \in Seq(Submitted)
        /\ CreatedOnce /\ TablesInv /\ EnginesOfOrders
    BY <1>3 DEF BookKept, KeptInv, PipeInv, LedgerInv, Carried, QueuesOfOrders, StreamsOfRows
  <2>2. PICK b, y : /\ b = RestoreBook(LastPrice, RestorableRows)
                    /\ y = [mode |-> "leading", book |-> b, seen |-> {}, stage |-> NoStage]
                    /\ engine' = [engine EXCEPT ![e] = y]
    BY DEF Lead
  <2>3. \A o \in Orders : order[o].filled <= RecordedIn(log, o)
    BY <2>1, FilledWithin
  <2>4. BookFits(b, log)
    BY <2>1, <2>2, <2>3, RestoredFits
  <2>5. EngineFits(e, y, lease', log', claimed')
    BY <1>1, <2>2, <2>4 DEF EngineFits
  <2>6. \A f \in Engines \ {e} : EngineFits(f, engine[f], lease', log', claimed')
    BY <1>1, <2>1, OthersIdle, IdleFits
  <2> QED BY <1>1, <2>1, <2>2, <2>5, <2>6, OneEngineFits
<1> QED BY <1>2, <1>3

\* ----- an event, up to its transaction
LEMMA HandleKeeps ==
    ASSUME PipeInv, KeptInv, ~torn, NEW e \in Engines, NEW ev \in SubmittedEvents,
           NEW recovery, NEW pending, Handle(e, ev, recovery, pending),
           log' = log, lease' = lease,
           NEW b, b = Prune(engine[e].book),
           \/ Skips(e, b, ev, recovery) \/ engine'[e].stage = NoStage
           \/ ev.topic # "order.placed" \/ ev \in claimed \/ Trades(ev.order) = {}
    PROVE  BookKept'
<1>1. /\ LogKept(log) /\ \A f \in Engines : EngineFits(f, engine[f], lease, log, claimed)
      /\ LedgerTypeOK /\ charging = TRUE /\ log \in Seq(Rows) /\ EnginesOfOrders
  BY DEF BookKept, KeptInv, PipeInv, LedgerInv, Carried, StreamsOfRows
<1>2. PICK x : x = engine[e]
  OBVIOUS
<1>3. /\ x = [mode |-> x.mode, book |-> x.book, seen |-> x.seen, stage |-> x.stage]
      /\ BookOfOrders(x.book) /\ x.mode = "leading" /\ x.stage = NoStage
      /\ DOMAIN engine = Engines /\ lease = e /\ BookFits(x.book, log)
  BY <1>1, <1>2 DEF EnginesOfOrders, EngineOfOrders, Handle, EngineFits
<1>4. BookOfOrders(b)
  BY <1>2, <1>3, WithoutOfOrders DEF Prune
<1>5. BookFits(b, log)
  <2>1. PICK ids, L, k : ids = {o \in Orders : Marked(o)} /\ L = log /\ k = x.book
    OBVIOUS
  <2>2. b = WithoutOrders(k, ids) /\ BookOfOrders(k) /\ BookFits(k, L)
    BY <1>2, <1>3, <2>1 DEF Prune
  <2>3. BookFits(b, L)
    BY ONLY <2>2, WithoutFits
  <2> QED BY <2>1, <2>3
<1>6. CASE Skips(e, b, ev, recovery)
  <2>1. /\ engine' = [engine EXCEPT ![e].book = b, ![e].seen = @ \cup {ev}]
        /\ claimed \subseteq claimed'
    BY <1>6 DEF Handle
  <2>2. PICK y : y = [mode |-> x.mode, book |-> b, seen |-> x.seen \cup {ev}, stage |-> x.stage]
    OBVIOUS
  <2>3. engine' = [engine EXCEPT ![e] = y]
    <3>1. engine'[e] = y
      BY <1>2, <1>3, <2>1, <2>2
    <3>2. \A f \in Engines : f # e => engine'[f] = engine[f]
      BY <1>2, <1>3, <2>1, <2>2
    <3>3. engine' = [f \in Engines |-> engine'[f]]
      BY <1>2, <1>3, <2>1, <2>2
    <3> QED BY <1>2, <1>3, <2>1, <2>2, <3>1, <3>2, <3>3, EngineBecomes
  <2>4. EngineFits(e, y, lease', log', claimed')
    BY <1>3, <1>5, <2>2 DEF EngineFits
  <2>5. \A f \in Engines \ {e} : EngineFits(f, engine[f], lease', log', claimed')
    BY <1>1, <2>1, ClaimedMore
  <2> QED BY <1>1, <2>3, <2>4, <2>5, OneEngineFits
<1>7. CASE ~Skips(e, b, ev, recovery)
  <2>1. /\ engine' = [engine EXCEPT ![e].book = b, ![e].stage = Stage(b, ev)]
        /\ claimed' = claimed
    BY <1>7 DEF Handle
  <2>2. PICK y, st : /\ st = Stage(b, ev)
                     /\ y = [mode |-> x.mode, book |-> b, seen |-> x.seen, stage |-> st]
    OBVIOUS
  <2>3. engine' = [engine EXCEPT ![e] = y]
    <3>1. engine'[e] = y
      BY <1>2, <1>3, <2>1, <2>2
    <3>2. \A f \in Engines : f # e => engine'[f] = engine[f]
      BY <1>2, <1>3, <2>1, <2>2
    <3>3. engine' = [f \in Engines |-> engine'[f]]
      BY <1>2, <1>3, <2>1, <2>2
    <3> QED BY <1>2, <1>3, <2>1, <2>2, <3>1, <3>2, <3>3, EngineBecomes
  <2>4. engine'[e].stage = st
    BY <1>2, <1>3, <2>2, <2>3
  <2>5. st # NoStage => StageFits(st)
    <3>1. ASSUME st # NoStage
          PROVE  ~Marked(ev.order) /\ (ev.topic = "order.placed" =>
                    /\ ~BookContainsOrder(b, ev.order)
                    /\ ev \in claimed \/ Trades(ev.order) = {})
      BY <1>7, <2>4, <3>1 DEF Skips
    <3> QED BY <1>1, <1>4, <1>5, <2>2, <3>1, NewStageFits
  <2>6. EngineFits(e, y, lease', log', claimed')
    BY <1>3, <1>5, <2>1, <2>2, <2>5 DEF EngineFits, StageFits, StageKeeps
  <2>7. \A f \in Engines \ {e} : EngineFits(f, engine[f], lease', log', claimed')
    BY <1>1, <2>1
  <2> QED BY <1>1, <2>3, <2>6, <2>7, OneEngineFits
<1> QED BY <1>6, <1>7

LEMMA HandleNewKeeps ==
    ASSUME PipeInv, KeptInv, NEW e \in Engines, HandleNew(e)
    PROVE  BookKept'
<1>1. PICK ev, pending, b :
      /\ ev = Head(orderStream) /\ pending = Append(orderPel, ev) /\ b = Prune(engine[e].book)
      /\ orderStream # <<>> /\ log' = log /\ lease' = lease
      /\ Handle(e, ev, FALSE, pending) /\ torn' = (torn \/ Rematched(e, ev))
  BY DEF HandleNew
<1>2. ev \in SubmittedEvents
  BY <1>1 DEF PipeInv, Carried, QueuesOfOrders
<1>3. CASE torn'
  BY <1>3 DEF BookKept
<1>4. CASE ~torn'
  <2>1. ~torn /\ ~Rematched(e, ev)
    BY <1>1, <1>4
  <2>2. \/ engine'[e].stage = NoStage
        \/ ev.topic # "order.placed" \/ ev \in claimed \/ Trades(ev.order) = {}
    BY <2>1 DEF Rematched
  <2> QED BY <1>1, <1>2, <2>1, <2>2, HandleKeeps
<1> QED BY <1>3, <1>4
LEMMA HandlePendingKeeps ==
    ASSUME PipeInv, KeptInv, NEW e \in Engines, HandlePending(e)
    PROVE  BookKept'
<1>1. PICK i \in DOMAIN orderPel : /\ Handle(e, orderPel[i], TRUE, orderPel)
                                   /\ log' = log /\ lease' = lease /\ torn' = torn
  BY DEF HandlePending, NoFault
<1>2. PICK ev, pending, b : ev = orderPel[i] /\ pending = orderPel /\ b = Prune(engine[e].book)
                            /\ Handle(e, ev, TRUE, pending)
  BY <1>1
<1>3. ev \in SubmittedEvents
  BY <1>1, <1>2 DEF PipeInv, Carried, QueuesOfOrders
<1>4. CASE torn
  BY <1>1, <1>4 DEF BookKept
<1>5. CASE ~torn
  <2>1. Skips(e, b, ev, TRUE) \/ ev.topic # "order.placed" \/ Trades(ev.order) = {}
    BY DEF Skips, AlreadyApplied
  <2> QED BY <1>1, <1>2, <1>3, <1>5, <2>1, HandleKeeps
<1> QED BY <1>4, <1>5

\* ----- its transaction
LEMMA CommitKeeps ==
    ASSUME PipeInv, KeptInv, NEW e \in Engines, Commit(e)
    PROVE  BookKept'
<1>1. /\ engine[e].mode = "leading" /\ engine[e].stage # NoStage /\ Persist(engine[e].stage)
      /\ engine' = AfterPersist(e) /\ lease' = lease
      /\ torn' = torn \/ torn' = (torn \/ "retain" \in {"ambiguous", "zombie"})
  BY DEF Commit, NoFault, Fault
<1>2. CASE torn
  BY <1>1, <1>2 DEF BookKept
<1>3. CASE ~torn
  <2>1. /\ LogKept(log) /\ \A f \in Engines : EngineFits(f, engine[f], lease, log, claimed)
        /\ log \in Seq(Rows) /\ EnginesOfOrders
    BY <1>3 DEF BookKept, KeptInv, PipeInv, Carried, StreamsOfRows
  <2>2. PICK x, st : x = engine[e] /\ st = x.stage /\ st # NoStage /\ Persist(st)
    BY <1>1
  <2>3. /\ x = [mode |-> x.mode, book |-> x.book, seen |-> x.seen, stage |-> x.stage]
        /\ StageOfOrder(st) /\ x.mode = "leading" /\ DOMAIN engine = Engines
        /\ lease = e /\ BookFits(x.book, log) /\ StageKeeps(st, log, claimed)
    BY <1>1, <2>1, <2>2 DEF EnginesOfOrders, EngineOfOrders, EngineFits
  <2>4. PICK y : y = [mode |-> x.mode, book |-> IF st.ev \in claimed THEN x.book ELSE st.book,
                      seen |-> x.seen \cup {st.ev}, stage |-> NoStage]
    OBVIOUS
  <2>5. engine' = [engine EXCEPT ![e] = y]
    <3>1. engine'[e] = y
      BY <1>1, <2>2, <2>3, <2>4 DEF AfterPersist
    <3>2. \A f \in Engines : f # e => engine'[f] = engine[f]
      BY <1>1, <2>2, <2>3, <2>4 DEF AfterPersist
    <3>3. engine' = [f \in Engines |-> engine'[f]]
      BY <1>1, <2>2, <2>3, <2>4 DEF AfterPersist
    <3> QED BY <2>2, <2>3, <2>4, <3>1, <3>2, <3>3, EngineBecomes
  <2>6. LogKept(log') /\ BookFits(y.book, log')
    <3>1. CASE st.ev \in claimed
      <4>1. log' = log /\ y.book = x.book
        BY <2>2, <2>4, <3>1 DEF Persist
      <4> QED BY <2>1, <2>3, <4>1
    <3>2. CASE st.ev \notin claimed
      <4>1. PICK rows : rows = st.rows /\ log' = log \o rows /\ rows \in Seq(Rows)
        <5>1. st.rows \in Seq(RowsToRecord) /\ RowsToRecord \subseteq Rows
          BY <2>3 DEF StageOfOrder, RowsToRecord
        <5>2. st.rows \in Seq(Rows)
          BY <5>1, SeqGrows
        <5> QED BY <2>2, <3>2, <5>2 DEF Persist
      <4>2. PICK U : U = log' /\ U \in Seq(Rows) /\ Joined(log, rows, U)
        BY <2>1, <4>1, ConcatIs
      <4>3. LogKept(U) /\ BookFits(st.book, U)
        BY <2>3, <3>2, <4>1, <4>2 DEF StageKeeps
      <4>4. y.book = st.book
        BY <2>4, <3>2
      <4> QED BY <4>2, <4>3, <4>4
    <3> QED BY <3>1, <3>2
  <2>7. EngineFits(e, y, lease', log', claimed')
    BY <1>1, <2>3, <2>4, <2>6 DEF EngineFits
  <2>8. \A f \in Engines \ {e} : EngineFits(f, engine[f], lease', log', claimed')
    BY <2>1, <2>3, OthersIdle, IdleFits
  <2> QED BY <2>1, <2>5, <2>6, <2>7, <2>8, OneEngineFits
<1> QED BY <1>2, <1>3

\* ----- the faults of a process
LEMMA CommitFailsKeeps ==
    ASSUME PipeInv, KeptInv, NEW e \in Engines, CommitFails(e)
    PROVE  BookKept'
<1>1. /\ engine[e].mode = "leading" /\ engine' = [engine EXCEPT ![e].stage = NoStage]
      /\ lease' = lease /\ log' = log /\ claimed' = claimed
      /\ torn' = (torn \/ "retain" \in {"ambiguous", "zombie"})
  BY DEF CommitFails, Fault, matchVars
<1>2. CASE torn
  BY <1>1, <1>2 DEF BookKept
<1>3. CASE ~torn
  <2>1. /\ LogKept(log) /\ \A f \in Engines : EngineFits(f, engine[f], lease, log, claimed)
        /\ EnginesOfOrders
    BY <1>3 DEF BookKept, KeptInv, PipeInv, Carried
  <2>2. PICK x : x = engine[e]
    OBVIOUS
  <2>3. /\ x = [mode |-> x.mode, book |-> x.book, seen |-> x.seen, stage |-> x.stage]
        /\ x.mode = "leading" /\ DOMAIN engine = Engines
        /\ lease = e /\ BookFits(x.book, log)
    BY <1>1, <2>1, <2>2 DEF EnginesOfOrders, EngineOfOrders, EngineFits
  <2>4. PICK y : y = [mode |-> x.mode, book |-> x.book, seen |-> x.seen, stage |-> NoStage]
    OBVIOUS
  <2>5. engine' = [engine EXCEPT ![e] = y]
    <3>1. engine'[e] = y
      BY <1>1, <2>2, <2>3, <2>4
    <3>2. \A f \in Engines : f # e => engine'[f] = engine[f]
      BY <1>1, <2>2, <2>3, <2>4
    <3>3. engine' = [f \in Engines |-> engine'[f]]
      BY <1>1, <2>2, <2>3, <2>4
    <3> QED BY <2>2, <2>3, <2>4, <3>1, <3>2, <3>3, EngineBecomes
  <2>6. EngineFits(e, y, lease', log', claimed')
    BY <1>1, <2>3, <2>4 DEF EngineFits
  <2> QED BY <1>1, <2>1, <2>5, <2>6, OneEngineFits
<1> QED BY <1>2, <1>3

LEMMA CrashKeeps ==
    ASSUME PipeInv, KeptInv, NEW e \in Engines, Crash(e)
    PROVE  BookKept'
<1>1. /\ engine[e].mode = "leading" /\ engine' = Standby(e)
      /\ lease' = NoEngine /\ log' = log /\ claimed' = claimed
      /\ torn' = (torn \/ "crash" \in {"ambiguous", "zombie"})
  BY DEF Crash, Fault, matchVars
<1>2. CASE torn
  BY <1>1, <1>2 DEF BookKept
<1>3. CASE ~torn
  <2>1. /\ LogKept(log) /\ \A f \in Engines : EngineFits(f, engine[f], lease, log, claimed)
        /\ EnginesOfOrders
    BY <1>3 DEF BookKept, KeptInv, PipeInv, Carried
  <2>2. lease = e
    BY <1>1, <2>1 DEF EngineFits
  <2>3. PICK y : /\ y = [mode |-> "standby", book |-> EmptyBook(OpenPrice),
                         seen |-> {}, stage |-> NoStage]
                 /\ engine' = [engine EXCEPT ![e] = y]
    BY <1>1 DEF Standby
  <2>4. y.mode = "standby" /\ y.stage = NoStage
    BY <2>3
  <2>5. \A f \in Engines \ {e} : EngineFits(f, engine[f], lease', log', claimed')
    BY <2>1, <2>2, OthersIdle, IdleFits
  <2>6. EngineFits(e, y, lease', log', claimed')
    BY <2>4, IdleFits
  <2> QED BY <1>1, <2>1, <2>3, <2>5, <2>6, OneEngineFits
<1> QED BY <1>2, <1>3

LEMMA BehindItsBack ==
    ASSUME KeptInv, PipeInv, NEW e \in Engines,
           CommitUnknown(e) \/ LoseLease(e) \/ ZombieCommit(e)
    PROVE  BookKept'
<1>1. CASE CommitUnknown(e)
  BY <1>1 DEF CommitUnknown, Fault, BookKept
<1>2. CASE LoseLease(e)
  BY <1>2 DEF LoseLease, Fault, BookKept
<1>3. CASE ZombieCommit(e)
  <2>1. engine[e].mode = "zombie" /\ torn' = torn
    BY <1>3 DEF ZombieCommit, NoFault
  <2>2. torn
    BY <2>1 DEF KeptInv, BookKept, EngineFits
  <2> QED BY <2>1, <2>2 DEF BookKept
<1> QED BY <1>1, <1>2, <1>3

LEMMA TornStays ==
    ASSUME NoFault \/ \E k \in AllFaults : Fault(k), torn
    PROVE  torn'
<1>1. CASE NoFault
  BY <1>1 DEF NoFault
<1>2. ASSUME NEW k, Fault(k) PROVE torn'
  BY <1>2 DEF Fault
<1> QED BY <1>1, <1>2

LEMMA KeptStep ==
    ASSUME PipeInv, KeptInv, [Next]_vars
    PROVE  BookKept' /\ CreatedOnce'
<1>1. BookKept /\ CreatedOnce
  BY DEF KeptInv
<1>2. CASE \E o \in Orders : Place(o)
  <2>1. PICK o \in Orders : Place(o)
    BY <1>2
  <2>2. log' = log /\ claimed' = claimed /\ lease' = lease /\ engine' = engine
    BY <2>1 DEF Place, PlaceOrder
  <2>3. NoFault \/ \E k \in AllFaults : Fault(k)
    BY <2>1 DEF Place, AllFaults
  <2> QED BY <1>1, <2>1, <2>2, <2>3, TornStays, KeptElsewhere, PlaceCreatesOnce
<1>3. CASE \/ \E o \in Orders : RequestCancel(o)
           \/ RelayOrder \/ RelayTrade \/ SettleNew \/ SettlePending \/ UNCHANGED vars
  <2>1. /\ NoFault \/ \E k \in AllFaults : Fault(k)
        /\ created' = created
        /\ log' = log /\ claimed' = claimed /\ lease' = lease /\ engine' = engine
    <3>1. CASE \E o \in Orders : RequestCancel(o)
      BY <3>1 DEF RequestCancel, matchVars
    <3>2. CASE RelayOrder
      BY <3>2 DEF RelayOrder, matchVars, AllFaults
    <3>3. CASE RelayTrade
      BY <3>3 DEF RelayTrade, matchVars, dbVars, AllFaults
    <3>4. CASE SettleNew
      BY <3>4 DEF SettleNew, Settle, ledgerVars, AllFaults
    <3>5. CASE SettlePending
      BY <3>5 DEF SettlePending, Settle
    <3>6. CASE UNCHANGED vars
      BY <3>6 DEF vars, matchVars, dbVars, NoFault
    <3> QED BY <1>3, <3>1, <3>2, <3>3, <3>4, <3>5, <3>6
  <2> QED BY <1>1, <2>1, TornStays, KeptElsewhere DEF CreatedOnce
<1>4. CASE \E e \in Engines : Lead(e) \/ EngineStep(e) \/ EngineFault(e) \/ ZombieCommit(e)
  <2>1. PICK e \in Engines : Lead(e) \/ EngineStep(e) \/ EngineFault(e) \/ ZombieCommit(e)
    BY <1>4
  <2>2. BookKept'
    <3>1. CASE Lead(e)
      BY <3>1, LeadKeeps
    <3>2. CASE EngineStep(e)
      BY <3>2, HandleNewKeeps, HandlePendingKeeps, CommitKeeps DEF EngineStep
    <3>3. CASE EngineFault(e)
      BY <3>3, CommitFailsKeeps, BehindItsBack, CrashKeeps DEF EngineFault
    <3>4. CASE ZombieCommit(e)
      BY <3>4, BehindItsBack
    <3> QED BY <2>1, <3>1, <3>2, <3>3, <3>4
  <2>3. created' = created
    BY <2>1 DEF Lead, EngineStep, EngineFault, ZombieCommit, HandleNew, HandlePending, Commit,
                CommitFails, CommitUnknown, Crash, LoseLease, dbVars
  <2> QED BY <1>1, <2>2, <2>3 DEF CreatedOnce
<1> QED BY <1>2, <1>3, <1>4 DEF Next

LEMMA KeptInit == Init => KeptInv
<1> SUFFICES ASSUME Init PROVE KeptInv
  OBVIOUS
<1>1. TablesInv
  BY TablesInit DEF Init
<1>2. created = <<>> /\ log = <<>>
  BY DEF Init, LedgerInit
<1>3. CreatedOnce
  <2>1. 1..Len(created) = {}
    BY <1>2
  <2> QED BY <2>1 DEF CreatedOnce
<1>4. LogKept(log)
  <2>1. log \in Seq(Rows) /\ DOMAIN log = {}
    BY <1>2
  <2>2. \A o \in Orders : RecordedIn(log, o) = 0
    BY <2>1, RecordedInType
  <2>3. \A o \in Orders : Terms[o].qty \in Nat /\ Terms[o].qty # 0
    BY OrderTermsFacts
  <2>4. \A o \in Orders : 0 <= Terms[o].qty /\ 0 # Terms[o].qty
    BY <2>3
  <2>5. WithinOrders(log)
    BY <2>2, <2>4 DEF WithinOrders
  <2>6. WordIsLast(log)
    BY <2>1 DEF WordIsLast
  <2> QED BY <2>5, <2>6 DEF LogKept
<1>5. \A e \in Engines : EngineFits(e, engine[e], lease, log, claimed)
  <2> TAKE e \in Engines
  <2>1. engine[e].mode = "standby" /\ engine[e].stage = NoStage
    BY DEF Init
  <2> QED BY <2>1, IdleFits
<1> QED BY <1>1, <1>3, <1>4, <1>5 DEF KeptInv, BookKept

LEMMA KeptAlways == Spec => [](PipeInv /\ KeptInv)
<1>1. Init => PipeInv /\ KeptInv
  BY PipeInit, KeptInit
<1>2. PipeInv /\ KeptInv /\ [Next]_vars => (PipeInv /\ KeptInv)'
  <2> SUFFICES ASSUME PipeInv, KeptInv, [Next]_vars PROVE PipeInv' /\ KeptInv'
    OBVIOUS
  <2>1. PipeInv' /\ LedgerStep
    BY NextIsLedgerStep
  <2>2. TablesInv'
    BY <2>1, TablesNext DEF PipeInv, KeptInv, LedgerStep
  <2> QED BY <2>1, <2>2, KeptStep DEF KeptInv
<1> QED BY <1>1, <1>2, PTL DEF Spec

LEMMA KeptIsLastWord == PipeInv /\ KeptInv => CloseIsLastWord
<1> SUFFICES ASSUME PipeInv, KeptInv, ~torn, NEW i \in DOMAIN log, ~IsTrade(i),
                    NEW o, o = log[i].order
             PROVE  /\ log[i].filled = RecordedQty(o)
                    /\ \A j \in Trades(o) : j < i
                    /\ \A j \in DOMAIN log : ~IsTrade(j) /\ log[j].order = o => j = i
  BY DEF CloseIsLastWord
<1>1. log \in Seq(Rows) /\ WordIsLast(log)
  BY DEF PipeInv, Carried, StreamsOfRows, KeptInv, BookKept, LogKept
<1>2. \A j \in DOMAIN log : log[j] \in Rows
  BY <1>1, SeqDomain
<1>3. \A j \in DOMAIN log : ~IsTrade(j) /\ log[j].order = o => Closes(o, log[j])
  BY <1>2, RowIs DEF IsTrade, Closes
<1>4. Closes(o, log[i]) /\ o \in Orders
  BY <1>2, <1>3, RowIs DEF IsTrade, CloseRows
<1>5. /\ log[i].filled = RecordedIn(log, o)
      /\ \A j \in DOMAIN log : /\ Traded(o, log[j]) => j < i
                               /\ Closes(o, log[j]) => j = i
  BY <1>1, <1>4 DEF WordIsLast
<1>6. RecordedQty(o) = RecordedIn(log, o)
  BY <1>1, <1>4, LogIs
<1>7. \A j : j \in Trades(o) <=> j \in DOMAIN log /\ Traded(o, log[j])
  BY <1>1, LogIs
<1> QED BY <1>3, <1>5, <1>6, <1>7

\* An order that has ended has nothing recorded beyond what is filled, and, unless
\* it was closed, its quantity is filled.
LEMMA EndedIsClosed ==
    ASSUME PipeInv, KeptInv, ~torn, NEW o \in Orders, Terminal(o)
    PROVE  order[o].filled = RecordedIn(log, o) /\ Marked(o)
<1>1. /\ log \in Seq(Rows) /\ WordIsLast(log) /\ WithinOrders(log) /\ LedgerInv /\ TablesInv
  BY DEF PipeInv, Carried, StreamsOfRows, KeptInv, BookKept, LogKept
<1>2. order[o].filled \in Nat /\ order[o].filled <= RecordedIn(log, o)
  BY <1>1, FilledWithin
<1>3. RecordedIn(log, o) \in Nat /\ RecordedIn(log, o) <= Terms[o].qty /\ Terms[o].qty \in Nat
  BY <1>1, RecordedInType, OrderTermsFacts DEF WithinOrders
<1>4. CASE order[o].filled = Terms[o].qty
  <2>1. RecordedIn(log, o) = Terms[o].qty
    BY <1>2, <1>3, <1>4
  <2>2. MarkedIn(log, o)
    BY <1>1, <2>1 DEF WithinOrders
  <2> QED BY <1>1, <1>4, <2>1, <2>2, LogIs
<1>5. CASE order[o].filled # Terms[o].qty
  <2>1. PICK i \in DOMAIN log : Closes(o, log[i]) /\ log[i].filled = order[o].filled
    BY <1>1, <1>5 DEF TablesInv, EndsByClose
  <2>2. log[i].filled = RecordedIn(log, o)
    BY <1>1, <2>1 DEF WordIsLast
  <2>3. MarkedIn(log, o)
    BY <2>1 DEF MarkedIn
  <2> QED BY <1>1, <2>1, <2>2, <2>3, LogIs
<1> QED BY <1>4, <1>5

LEMMA KeptTradesSettle == PipeInv /\ KeptInv => RecordedTradesSettle
<1> SUFFICES ASSUME PipeInv, KeptInv, ~torn, NEW i \in DOMAIN log \ processed, IsTrade(i)
             PROVE  AcceptsTrade(log[i].buy, log[i].qty) /\ AcceptsTrade(log[i].sell, log[i].qty)
  BY DEF RecordedTradesSettle
<1>1. /\ log \in Seq(Rows) /\ WithinOrders(log) /\ LedgerInv /\ TablesInv
  BY DEF PipeInv, Carried, StreamsOfRows, KeptInv, BookKept, LogKept
<1>2. PICK t : t = log[i] /\ t \in TradeRows /\ Matches(t) /\ t.buy \in Orders /\ t.sell \in Orders
  <2>1. Recordable(log[i])
    BY <1>1 DEF LedgerInv, LogIsRecordable
  <2> QED BY <2>1 DEF Recordable, IsTrade, TradeRows, CloseRows
<1>3. ASSUME NEW o \in Orders, o = t.buy \/ o = t.sell
      PROVE  AcceptsTrade(o, t.qty)
  <2>1. Traded(o, t) /\ order[o].status # "NONE"
    BY <1>2, <1>3 DEF Traded, IsTrade, Matches
  <2>2. /\ order[o].filled \in Nat /\ order[o].filled + t.qty <= RecordedIn(log, o)
        /\ t.qty \in Nat /\ t.qty # 0
    BY <1>1, <1>2, <2>1, FilledWithin
  <2>3. RecordedIn(log, o) \in Nat /\ RecordedIn(log, o) <= Terms[o].qty /\ Terms[o].qty \in Nat
    BY <1>1, RecordedInType, OrderTermsFacts DEF WithinOrders
  <2>4. ~Terminal(o)
    <3>1. order[o].filled # RecordedIn(log, o)
      BY <2>2, <2>3
    <3> QED BY <3>1, EndedIsClosed
  <2>5. Active(o)
    BY <1>1, <2>1, <2>4 DEF LedgerInv, LedgerTypeOK, Terminal, Active
  <2>6. order[o].filled + t.qty <= Terms[o].qty
    BY <2>2, <2>3
  <2> QED BY <2>5, <2>6 DEF AcceptsTrade
<1> QED BY <1>2, <1>3

LEMMA OneLastPrice ==
    ASSUME NEW L \in Seq(Rows), NEW p, NEW q, LastPriceIn(L, p), LastPriceIn(L, q)
    PROVE  p = q
<1>1. PICK n : n = Len(L) /\ n \in Nat /\ DOMAIN L = 1..n
  BY SeqDomain
<1>2. CASE NoTrade(L)
  BY <1>2 DEF LastPriceIn, NoTrade, LastTrade
<1>3. CASE ~NoTrade(L)
  <2>1. PICK i, j : LastTrade(L, i) /\ LastTrade(L, j) /\ p = L[i].price /\ q = L[j].price
    BY <1>3 DEF LastPriceIn
  <2>2. i <= j /\ j <= i /\ i \in 1..n /\ j \in 1..n
    BY <1>1, <2>1 DEF LastTrade
  <2>3. i = j
    BY <1>1, <2>2
  <2> QED BY <2>1, <2>3
<1> QED BY <1>2, <1>3

LEMMA KeptBookAgrees == PipeInv /\ KeptInv => BookAgreesWithLedger
<1> SUFFICES ASSUME PipeInv, KeptInv, ~torn, NEW e \in Engines, engine[e].mode = "leading",
                    NEW book, book = engine[e].book
             PROVE  /\ book.last = LastPrice
                    /\ \A r \in BookOrders(book) :
                          ~Marked(r.id) => /\ Active(r.id)
                                           /\ r.qty = Terms[r.id].qty - RecordedQty(r.id)
                    /\ \A b \in ToSet(book.bids), s \in ToSet(book.asks) : b.price < s.price
  BY DEF BookAgreesWithLedger
<1>1. log \in Seq(Rows) /\ LedgerInv
  BY DEF PipeInv, Carried, StreamsOfRows
<1>2. BookOfOrders(book) /\ BookFits(book, log)
  BY DEF PipeInv, Carried, EnginesOfOrders, EngineOfOrders, KeptInv, BookKept, EngineFits
<1>3. book.last = LastPrice
  <2>1. LastPriceIn(log, LastPrice)
    BY <1>1, LogIs
  <2>2. LastPriceIn(log, book.last)
    BY <1>2 DEF BookFits
  <2>3. PICK p, q : p = book.last /\ q = LastPrice /\ LastPriceIn(log, p) /\ LastPriceIn(log, q)
    BY <2>1, <2>2
  <2>4. p = q
    BY <1>1, <2>3, OneLastPrice
  <2> QED BY <2>3, <2>4
<1>4. PICK R : /\ book.bids \in Seq(R) /\ book.asks \in Seq(R)
  BY <1>2 DEF BookOfOrders, BooksIn
<1>5. /\ DOMAIN book.bids = 1..Len(book.bids) /\ DOMAIN book.asks = 1..Len(book.asks)
  BY <1>4
<1>6. ASSUME NEW r \in BookOrders(book), ~Marked(r.id)
      PROVE  Active(r.id) /\ r.qty = Terms[r.id].qty - RecordedQty(r.id)
  <2>1. FitsOf(r, log) /\ RestOf(r)
    <3>1. CASE r \in ToSet(book.bids)
      <4>1. PICK i \in 1..Len(book.bids) : r = book.bids[i]
        BY <1>5, <3>1 DEF ToSet
      <4> QED BY <1>2, <4>1 DEF BookFits, FitsIn, BookOfOrders, RestsOf
    <3>2. CASE r \in ToSet(book.asks)
      <4>1. PICK i \in 1..Len(book.asks) : r = book.asks[i]
        BY <1>5, <3>2 DEF ToSet
      <4> QED BY <1>2, <4>1 DEF BookFits, FitsIn, BookOfOrders, RestsOf
    <3> QED BY <3>1, <3>2 DEF BookOrders
  <2>2. PICK o \in Orders : o = r.id /\ order[o].status # "NONE"
    BY <2>1 DEF RestOf, Submitted
  <2>3. RecordedQty(o) = RecordedIn(log, o)
    BY <1>1, LogIs
  <2>4. ~Terminal(o)
    BY <1>6, <2>2, EndedIsClosed
  <2>5. Active(o)
    BY <1>1, <2>2, <2>4 DEF LedgerInv, LedgerTypeOK, Terminal, Active
  <2>6. r.qty = Terms[o].qty - RecordedQty(o)
    BY <2>1, <2>2, <2>3 DEF FitsOf
  <2> QED BY <2>2, <2>5, <2>6
<1>7. ASSUME NEW b \in ToSet(book.bids), NEW s \in ToSet(book.asks) PROVE b.price < s.price
  <2>1. NotCrossed(book)
    BY <1>2 DEF BookOfOrders, GoodBook
  <2>2. PICK i \in 1..Len(book.bids) : b = book.bids[i]
    BY <1>5 DEF ToSet
  <2>3. PICK j \in 1..Len(book.asks) : s = book.asks[j]
    BY <1>5 DEF ToSet
  <2> QED BY <2>1, <2>2, <2>3 DEF NotCrossed
<1> QED BY <1>3, <1>6, <1>7

\* The close of an order is decided once and last: however many cancels, fills
\* and restarts raced for the order, it counts exactly the trades recorded for
\* the order, none is recorded after it, and there is no other.
THEOREM ClosesAreLastWords == Spec => []CloseIsLastWord
<1>1. PipeInv /\ KeptInv => CloseIsLastWord
  BY KeptIsLastWord
<1> QED BY <1>1, KeptAlways, PTL

\* Whatever has been settled, retained or closed before it, a trade the engine
\* recorded is accepted by stateAfterTrade: none is ever stuck in the stream.
THEOREM TradesAlwaysSettle == Spec => []RecordedTradesSettle
<1>1. PipeInv /\ KeptInv => RecordedTradesSettle
  BY KeptTradesSettle
<1> QED BY <1>1, KeptAlways, PTL

\* What the leading engine has in memory is what the ledger says: each order that
\* rests and is not closed has the quantity no recorded trade has taken, no two
\* could trade, and the last price is that of the last trade, through any number
\* of restarts from tables that are behind the trades.
THEOREM LeaderAgreesWithLedger == Spec => []BookAgreesWithLedger
<1>1. PipeInv /\ KeptInv => BookAgreesWithLedger
  BY KeptBookAgrees
<1> QED BY <1>1, KeptAlways, PTL

----------------------------------------------------------------------------
(***************************************************************************)
(* The recovery script and the consumer, fed the same unsettled trades.    *)
(* The tables the consumer has after some of them depend on how much each  *)
(* order has traded, not on their order (TablesAfter), and it can settle   *)
(* them all exactly if no order gets more than it may take (TakesAll):     *)
(* which is what the script checks of the sums it reads, since what an     *)
(* order has filled is what was settled of it (ValidOrders).  If it may,   *)
(* the reserves the script rebuilds are the holds the accounts have        *)
(* (PrestateIs), the two change the same rows alike (AccountsAlong), and   *)
(* no row becomes unsound on the way: a trade frees at least what it       *)
(* costs.                                                                  *)
(***************************************************************************)
\* An order is open until it trades and partial until it is filled, and a buy
\* has set aside its price at least.
RowFits(o, row) ==
    /\ row.status = "OPEN" => row.filled = 0
    /\ row.status = "PARTIAL" => 0 < row.filled /\ row.filled < Terms[o].qty
    /\ row.status # "NONE" /\ Terms[o].side = "BUY" => Terms[o].price <= row.unit

RowsFit == \A o \in Orders : RowFits(o, order[o])

ReplayInv == IsFiniteSet(DOMAIN log) /\ RowsFit

\* The row of an order after a trade.
TradedRow(o, row, n) ==
    [row EXCEPT !.status = IF row.filled + n >= Terms[o].qty THEN "FILLED" ELSE "PARTIAL",
                !.filled = row.filled + n]

IsTraded(o, row, n, new) ==
    /\ new \in OrderRows /\ new.filled = row.filled + n /\ new.unit = row.unit
    /\ new.status = IF row.filled + n >= Terms[o].qty THEN "FILLED" ELSE "PARTIAL"

LEMMA TradedRowIs ==
    ASSUME NEW o \in Orders, NEW row \in OrderRows, NEW n \in Nat
    PROVE  IsTraded(o, row, n, TradedRow(o, row, n))
<1>1. PICK f, s : f = row.filled + n /\ s = IF f >= Terms[o].qty THEN "FILLED" ELSE "PARTIAL"
  OBVIOUS
<1>2. f \in Nat /\ s \in {"FILLED", "PARTIAL"}
  BY <1>1 DEF OrderRows
<1>3. TradedRow(o, row, n) = [row EXCEPT !.status = s, !.filled = f]
  BY <1>1 DEF TradedRow
<1>4. PICK new : new = [row EXCEPT !.status = s, !.filled = f]
  OBVIOUS
<1>5. new \in OrderRows /\ new.filled = f /\ new.unit = row.unit /\ new.status = s
  BY <1>2, <1>4 DEF OrderRows
<1> QED BY <1>1, <1>3, <1>4, <1>5 DEF IsTraded

LEMMA TradedFits ==
    ASSUME NEW o \in Orders, NEW row \in OrderRows, RowFits(o, row), row.status # "NONE",
           NEW n \in Nat \ {0}, NEW new, IsTraded(o, row, n, new)
    PROVE  RowFits(o, new)
<1>1. row.filled \in Nat /\ Terms[o].qty \in Nat
  BY TermsFacts DEF OrderRows
<1> QED BY <1>1 DEF RowFits, IsTraded

LEMMA ReplayInvInit == LedgerInit => ReplayInv
<1> SUFFICES ASSUME LedgerInit PROVE ReplayInv
  OBVIOUS
<1>1. DOMAIN log = {} /\ \A o \in Orders : order[o].status = "NONE"
  BY DEF LedgerInit
<1>2. RowsFit
  BY <1>1 DEF RowsFit, RowFits
<1>3. IsFiniteSet(DOMAIN log)
  <2>1. IsFiniteSet({})
    BY FS_EmptySet
  <2> QED BY <1>1, <2>1
<1> QED BY <1>2, <1>3 DEF ReplayInv

LEMMA ReplayInvPlace ==
    ASSUME LedgerInv, ReplayInv, NEW o \in Orders, PlaceOrder(o)
    PROVE  ReplayInv'
<1>1. /\ log' = log
      /\ order' = [order EXCEPT ![o] = [status |-> "OPEN", filled |-> 0, unit |-> HoldPerUnit(o)]]
  BY DEF PlaceOrder
<1>2. /\ order'[o] = [status |-> "OPEN", filled |-> 0, unit |-> HoldPerUnit(o)]
      /\ \A p \in Orders \ {o} : order'[p] = order[p]
  BY <1>1, TablesOK DEF OrderTables
<1>3. Terms[o].side = "BUY" => Terms[o].price <= HoldPerUnit(o)
  <2>1. PICK price \in Nat, fee \in Nat : price = Terms[o].price /\ fee = TradingFee(price)
    BY TermsFacts, FeeIsNat
  <2>2. price <= price + fee /\ price <= price
    BY <2>1
  <2> QED BY <2>1, <2>2 DEF HoldPerUnit, HoldWithFee
<1>4. RowFits(o, order'[o])
  BY <1>2, <1>3 DEF RowFits
<1>5. \A p \in Orders : RowFits(p, order'[p])
  BY <1>2, <1>4 DEF ReplayInv, RowsFit
<1>6. RowsFit'
  BY <1>5 DEF RowsFit, RowFits
<1> QED BY <1>1, <1>6 DEF ReplayInv

LEMMA ReplayInvSettle ==
    ASSUME LedgerInv, ReplayInv, NEW i \in DOMAIN log, Settle(i)
    PROVE  ReplayInv'
<1>0. log' = log
  BY DEF Settle
<1>1. \A o \in Orders : order[o] \in OrderRows /\ RowFits(o, order[o])
  BY TablesOK DEF ReplayInv, RowsFit
<1>2. \A o \in Orders : RowFits(o, order'[o])
  <2>1. CASE i \in processed \/ (~IsTrade(i) /\ Stale(log[i]))
    BY <1>1, <2>1, NoEffect
  <2>2. CASE i \notin processed /\ IsTrade(i)
    <3>1. PICK t : t = log[i] /\ t \in TradeRows /\ Matches(t) /\ AcceptsTrade(t.buy, t.qty)
                   /\ AcceptsTrade(t.sell, t.qty) /\ SettleTrade(t)
      BY <2>2, SettledRowFacts
    <3>2. t.buy \in Orders /\ t.sell \in Orders /\ t.buy # t.sell /\ t.qty \in Nat \ {0}
      BY <3>1, TradeFacts
    <3>3. /\ order'[t.buy] = TradedRow(t.buy, order[t.buy], t.qty)
          /\ order'[t.sell] = TradedRow(t.sell, order[t.sell], t.qty)
          /\ \A o \in Orders \ {t.buy, t.sell} : order'[o] = order[o]
      BY <3>1, <3>2, TablesOK DEF SettleTrade, StateAfterTrade, TradedRow, OrderTables
    <3>4. order[t.buy].status # "NONE" /\ order[t.sell].status # "NONE"
      BY <3>1 DEF Matches
    <3>5. RowFits(t.buy, order'[t.buy]) /\ RowFits(t.sell, order'[t.sell])
      <4>1. PICK x, y, n : x = order[t.buy] /\ y = order[t.sell] /\ n = t.qty
        OBVIOUS
      <4>2. RowFits(t.buy, TradedRow(t.buy, x, n))
        BY <1>1, <3>2, <3>4, <4>1, TradedRowIs, TradedFits
      <4>3. RowFits(t.sell, TradedRow(t.sell, y, n))
        BY <1>1, <3>2, <3>4, <4>1, TradedRowIs, TradedFits
      <4> QED BY <3>3, <4>1, <4>2, <4>3
    <3> QED BY <1>1, <3>3, <3>5
  <2>3. CASE i \notin processed /\ ~IsTrade(i) /\ ~Stale(log[i])
    <3>1. PICK c : c = log[i] /\ c \in CloseRows /\ order[c.order].status # "NONE"
                   /\ ~CloseMustWait(c) /\ CloseOrder(c) /\ ~Stale(c)
      BY <2>3, SettledRowFacts
    <3>2. PICK o, rest : o = c.order /\ rest = Terms[o].qty - order[o].filled
      OBVIOUS
    <3>3. /\ o \in Orders /\ c.status \in {"FILLED", "CANCELED"}
          /\ order' = [order EXCEPT ![o] = [@ EXCEPT !.status = c.status]]
      BY <3>1, <3>2, CloseFacts
    <3>4. /\ order'[o] = [order[o] EXCEPT !.status = c.status]
          /\ \A p \in Orders \ {o} : order'[p] = order[p]
      BY <3>3, TablesOK DEF OrderTables
    <3>5. order'[o].status = c.status /\ order'[o].unit = order[o].unit
      BY <1>1, <3>3, <3>4 DEF OrderRows
    <3>6. RowFits(o, order'[o])
      BY <1>1, <3>1, <3>2, <3>3, <3>5 DEF RowFits
    <3> QED BY <1>1, <3>4, <3>6
  <2> QED BY <2>1, <2>2, <2>3
<1>3. RowsFit'
  BY <1>2 DEF RowsFit, RowFits
<1> QED BY <1>0, <1>3 DEF ReplayInv

LEMMA ReplayInvNext == LedgerInv /\ ReplayInv /\ [LedgerNext]_ledgerVars => ReplayInv'
<1> SUFFICES ASSUME LedgerInv, ReplayInv, [LedgerNext]_ledgerVars PROVE ReplayInv'
  OBVIOUS
<1>1. CASE StartCharging \/ UNCHANGED ledgerVars
  BY <1>1 DEF StartCharging, ledgerVars, ReplayInv, RowsFit, RowFits
<1>2. CASE Record
  <2>1. order' = order /\ IsFiniteSet(DOMAIN log')
    BY <1>2 DEF Record
  <2>2. RowsFit'
    BY <2>1 DEF ReplayInv, RowsFit, RowFits
  <2> QED BY <2>1, <2>2 DEF ReplayInv
<1> QED BY <1>1, <1>2, ReplayInvPlace, ReplayInvSettle DEF LedgerNext

----------------------------------------------------------------------------
\* ----- what a trade does to the tables, whatever they are
LEMMA EscrowTraded ==
    ASSUME NEW o \in Orders, NEW row \in OrderRows, row.status \in {"OPEN", "PARTIAL"},
           NEW n \in Nat \ {0}, row.filled + n <= Terms[o].qty, NEW new, IsTraded(o, row, n, new)
    PROVE  EscrowOf(o, new) - EscrowOf(o, row)
             = IF Terms[o].side = "BUY" THEN 0 - row.unit * n ELSE 0 - n
<1>1. PICK q \in Nat, f \in Nat, u \in Nat : q = Terms[o].qty /\ f = row.filled /\ u = row.unit
  BY TermsFacts DEF OrderRows
<1>2. f + n \in Nat /\ f + n <= q
  BY <1>1
<1>3. EscrowOf(o, row) = IF Terms[o].side = "BUY" THEN u * (q - f) ELSE q - f
  BY <1>1 DEF EscrowOf
<1>4. EscrowOf(o, new) = IF Terms[o].side = "BUY" THEN u * (q - (f + n)) ELSE q - (f + n)
  <2>1. CASE f + n = q
    <3>1. EscrowOf(o, new) = 0
      BY <1>1, <2>1 DEF EscrowOf, IsTraded
    <3>2. q - (f + n) = 0 /\ u * 0 = 0
      BY <1>1, <2>1
    <3> QED BY <3>1, <3>2
  <2>2. CASE f + n < q
    BY <1>1, <1>2, <2>2 DEF EscrowOf, IsTraded
  <2> QED BY <1>1, <1>2, <2>1, <2>2
<1>5. PICK x \in Int, y \in Int, z \in Int : x = u * (q - f) /\ y = u * (q - (f + n)) /\ z = u * n
  BY <1>1
<1>6. y = x - z
  BY <1>1, <1>5
<1>7. row.unit * n = z
  BY <1>1, <1>5
<1>8. (q - (f + n)) - (q - f) = 0 - n /\ y - x = 0 - z
  BY <1>1, <1>5, <1>6
<1> QED BY <1>1, <1>3, <1>4, <1>5, <1>7, <1>8

\* A buy and a sell change, and the reserves by what the two then take.
TradeChanges(old, new, b, s, x, y, held, n) ==
    /\ b \in PlacedIn(old) /\ s \in PlacedIn(old) /\ b # s
    /\ Terms[b].side = "BUY" /\ Terms[s].side = "SELL"
    /\ x \in OrderRows /\ y \in OrderRows /\ x.status # "NONE" /\ y.status # "NONE"
    /\ new = [old EXCEPT ![b] = x, ![s] = y]
    /\ EscrowOf(b, x) - EscrowOf(b, old[b]) = 0 - held
    /\ EscrowOf(s, y) - EscrowOf(s, old[s]) = 0 - n

ReservesFall(old, new, b, s, held, n) ==
    \A a \in Accounts :
        /\ Reserved(new, a, "BUY") = IF a = Terms[b].acct THEN Reserved(old, a, "BUY") - held
                                     ELSE Reserved(old, a, "BUY")
        /\ Reserved(new, a, "SELL") = IF a = Terms[s].acct THEN Reserved(old, a, "SELL") - n
                                      ELSE Reserved(old, a, "SELL")

LEMMA ReservedType ==
    ASSUME NEW table \in OrderTables, IsFiniteSet(PlacedIn(table)), NEW a, NEW side
    PROVE  Reserved(table, a, side) \in Int
<1>1. PICK f, P : f = Part(table, a, side) /\ P = PlacedIn(table)
  OBVIOUS
<1>2. \A o \in P : f[o] \in Int
  BY <1>1, PartType
<1> QED BY <1>1, <1>2, SumType DEF Reserved

LEMMA TradedReserves ==
    ASSUME NEW old \in OrderTables, IsFiniteSet(PlacedIn(old)), NEW new, NEW b, NEW s, NEW x, NEW y,
           NEW held \in Nat, NEW n \in Nat, TradeChanges(old, new, b, s, x, y, held, n)
    PROVE  /\ new \in OrderTables /\ PlacedIn(new) = PlacedIn(old)
           /\ ReservesFall(old, new, b, s, held, n)
<1>1. PICK mid : mid = [old EXCEPT ![b] = x]
  OBVIOUS
<1>2. /\ b \in Orders /\ s \in Orders /\ b # s /\ b \in PlacedIn(old)
      /\ mid \in OrderTables /\ mid[b] = x /\ mid[s] = old[s] /\ mid[b].status # "NONE"
      /\ \A p \in Orders \ {b} : mid[p] = old[p]
  BY <1>1 DEF TradeChanges, OrderTables, PlacedIn
<1>3. /\ new \in OrderTables /\ new[s] = y /\ new[s].status # "NONE"
      /\ \A p \in Orders \ {s} : new[p] = mid[p]
  BY <1>1, <1>2 DEF TradeChanges, OrderTables
<1>4. PlacedIn(mid) = PlacedIn(old)
  BY <1>2, ReservedChange
<1>5. s \in PlacedIn(mid) /\ IsFiniteSet(PlacedIn(mid))
  BY <1>4 DEF TradeChanges
<1>6. PlacedIn(new) = PlacedIn(mid)
  BY <1>2, <1>3, <1>5, ReservedChange
<1>7. ASSUME NEW a \in Accounts
      PROVE  /\ ChangeOf(old, mid, b, a, "BUY") = IF a = Terms[b].acct THEN 0 - held ELSE 0
             /\ ChangeOf(old, mid, b, a, "SELL") = 0
             /\ ChangeOf(mid, new, s, a, "BUY") = 0
             /\ ChangeOf(mid, new, s, a, "SELL") = IF a = Terms[s].acct THEN 0 - n ELSE 0
  BY <1>2, <1>3 DEF ChangeOf, TradeChanges
<1>8. ASSUME NEW a \in Accounts
      PROVE  /\ Reserved(new, a, "BUY") = IF a = Terms[b].acct THEN Reserved(old, a, "BUY") - held
                                          ELSE Reserved(old, a, "BUY")
             /\ Reserved(new, a, "SELL") = IF a = Terms[s].acct THEN Reserved(old, a, "SELL") - n
                                           ELSE Reserved(old, a, "SELL")
  <2>1. /\ Reserved(mid, a, "BUY") = Reserved(old, a, "BUY") + ChangeOf(old, mid, b, a, "BUY")
        /\ Reserved(mid, a, "SELL") = Reserved(old, a, "SELL") + ChangeOf(old, mid, b, a, "SELL")
    BY <1>2, ReservedChange
  <2>2. /\ Reserved(new, a, "BUY") = Reserved(mid, a, "BUY") + ChangeOf(mid, new, s, a, "BUY")
        /\ Reserved(new, a, "SELL") = Reserved(mid, a, "SELL") + ChangeOf(mid, new, s, a, "SELL")
    BY <1>2, <1>3, <1>5, ReservedChange
  <2>3. Reserved(old, a, "BUY") \in Int /\ Reserved(old, a, "SELL") \in Int
    BY ReservedType
  <2> QED BY <1>7, <2>1, <2>2, <2>3
<1>9. ReservesFall(old, new, b, s, held, n)
  BY <1>8 DEF ReservesFall
<1> QED BY <1>3, <1>4, <1>6, <1>9

----------------------------------------------------------------------------
AccountTables == [Accounts -> AccountRows]

BuyerRow(row, cost, held, n) ==
    [row EXCEPT !.balance = @ - cost, !.hold = @ - held, !.shares = @ + n]

SellerRow(row, cost, n) ==
    [row EXCEPT !.balance = @ + cost, !.shares = @ - n, !.holdQty = @ - n]

IsBuyerRow(row, cost, held, n, new) ==
    /\ new \in AccountRows
    /\ new.balance = row.balance - cost /\ new.hold = row.hold - held
    /\ new.shares = row.shares + n /\ new.holdQty = row.holdQty

IsSellerRow(row, cost, n, new) ==
    /\ new \in AccountRows
    /\ new.balance = row.balance + cost /\ new.hold = row.hold
    /\ new.shares = row.shares - n /\ new.holdQty = row.holdQty - n

LEMMA TradeRowsAre ==
    ASSUME NEW row \in AccountRows, NEW cost \in Int, NEW held \in Int, NEW n \in Int
    PROVE  /\ IsBuyerRow(row, cost, held, n, BuyerRow(row, cost, held, n))
           /\ IsSellerRow(row, cost, n, SellerRow(row, cost, n))
<1>1. PICK b \in Int, h \in Int, s \in Int, q \in Int :
          b = row.balance /\ h = row.hold /\ s = row.shares /\ q = row.holdQty
  BY RowTypes
<1>2. PICK b1 \in Int, b2 \in Int, h1 \in Int, s1 \in Int, s2 \in Int, q2 \in Int :
          /\ b1 = b - cost /\ b2 = b + cost /\ h1 = h - held /\ s1 = s + n /\ s2 = s - n
          /\ q2 = q - n
  OBVIOUS
<1>3. IsBuyerRow(row, cost, held, n, BuyerRow(row, cost, held, n))
  <2>1. PICK new : new = [row EXCEPT !.balance = b1, !.hold = h1, !.shares = s1]
    OBVIOUS
  <2>2. BuyerRow(row, cost, held, n) = new
    BY <1>1, <1>2, <2>1 DEF BuyerRow
  <2>3. new \in AccountRows /\ new.balance = b1 /\ new.hold = h1 /\ new.shares = s1 /\ new.holdQty = q
    BY <1>1, <2>1 DEF AccountRows
  <2> QED BY <1>1, <1>2, <2>2, <2>3 DEF IsBuyerRow
<1>4. IsSellerRow(row, cost, n, SellerRow(row, cost, n))
  <2>1. PICK new : new = [row EXCEPT !.balance = b2, !.shares = s2, !.holdQty = q2]
    OBVIOUS
  <2>2. SellerRow(row, cost, n) = new
    BY <1>1, <1>2, <2>1 DEF SellerRow
  <2>3. new \in AccountRows /\ new.balance = b2 /\ new.hold = h /\ new.shares = s2 /\ new.holdQty = q2
    BY <1>1, <2>1 DEF AccountRows
  <2> QED BY <1>1, <1>2, <2>2, <2>3 DEF IsSellerRow
<1> QED BY <1>3, <1>4

\* A trade that may be recorded, between orders placed: what is left of it here.
Joins(t, b, s, B, S) ==
    /\ t.buy = b /\ t.sell = s /\ b \in Orders /\ s \in Orders /\ b # s
    /\ B = Terms[b].acct /\ S = Terms[s].acct /\ B \in Accounts /\ S \in Accounts /\ B # S
    /\ Terms[b].side = "BUY" /\ Terms[s].side = "SELL"
    /\ t.price \in Nat /\ t.qty \in Nat \ {0} /\ t.price <= Terms[b].price

LEMMA ReplayTradeIs ==
    ASSUME NEW acc \in AccountTables, NEW t, NEW b, NEW s, NEW B, NEW S, Joins(t, b, s, B, S)
    PROVE  ReplayTrade(acc, t)
             = [acc EXCEPT ![B] = BuyerRow(acc[B], t.price * t.qty, order[b].unit * t.qty, t.qty),
                           ![S] = SellerRow(acc[S], t.price * t.qty, t.qty)]
<1>1. PICK cost, held, n : cost = t.price * t.qty /\ held = order[b].unit * t.qty /\ n = t.qty
  OBVIOUS
<1>2. PICK x, y : x = acc[B] /\ y = acc[S] /\ x \in AccountRows /\ y \in AccountRows
  BY DEF AccountTables, Joins
<1>3. PICK r3 : r3 = [acc EXCEPT ![B].balance = @ - cost, ![B].hold = @ - held, ![B].shares = @ + n]
  OBVIOUS
<1>4. r3 = [acc EXCEPT ![B] = BuyerRow(x, cost, held, n)]
  <2>1. PICK r1 : r1 = [acc EXCEPT ![B].balance = @ - cost]
    OBVIOUS
  <2>2. PICK r2 : r2 = [r1 EXCEPT ![B].hold = @ - held]
    OBVIOUS
  <2>3. r3 = [r2 EXCEPT ![B].shares = @ + n]
    BY <1>3, <2>1, <2>2
  <2>4. PICK x1, x2, x3 : /\ x1 = [x EXCEPT !.balance = @ - cost]
                          /\ x2 = [x1 EXCEPT !.hold = @ - held]
                          /\ x3 = [x2 EXCEPT !.shares = @ + n]
    OBVIOUS
  <2>5. B \in DOMAIN acc
    BY DEF AccountTables, Joins
  <2>6. r1 = [acc EXCEPT ![B] = x1]
    BY <1>2, <2>1, <2>4, <2>5
  <2>7. r2 = [acc EXCEPT ![B] = x2]
    BY <2>2, <2>4, <2>5, <2>6
  <2>8. r3 = [acc EXCEPT ![B] = x3]
    BY <2>3, <2>4, <2>5, <2>7
  <2>9. x3 = BuyerRow(x, cost, held, n)
    BY <2>4 DEF BuyerRow
  <2> QED BY <2>8, <2>9
<1>5. PICK r6 : r6 = [r3 EXCEPT ![S].balance = @ + cost, ![S].shares = @ - n, ![S].holdQty = @ - n]
  OBVIOUS
<1>10. ReplayTrade(acc, t) = r6
  <2>1. t.buy = b /\ t.sell = s /\ Terms[b].acct = B /\ Terms[s].acct = S
    BY DEF Joins
  <2> QED BY <1>1, <1>3, <1>5, <2>1 DEF ReplayTrade
<1>6. B \in DOMAIN acc /\ S \in DOMAIN acc /\ S \in DOMAIN r3 /\ B # S
  BY <1>4 DEF AccountTables, Joins
<1>7. r3[S] = y
  BY <1>2, <1>4, <1>6
<1>8. r6 = [r3 EXCEPT ![S] = SellerRow(y, cost, n)]
  <2>1. PICK r4 : r4 = [r3 EXCEPT ![S].balance = @ + cost]
    OBVIOUS
  <2>2. PICK r5 : r5 = [r4 EXCEPT ![S].shares = @ - n]
    OBVIOUS
  <2>3. r6 = [r5 EXCEPT ![S].holdQty = @ - n]
    BY <1>5, <2>1, <2>2
  <2>4. PICK x1, x2, x3 : /\ x1 = [y EXCEPT !.balance = @ + cost]
                          /\ x2 = [x1 EXCEPT !.shares = @ - n]
                          /\ x3 = [x2 EXCEPT !.holdQty = @ - n]
    OBVIOUS
  <2>6. r4 = [r3 EXCEPT ![S] = x1]
    BY <1>6, <1>7, <2>1, <2>4
  <2>7. r5 = [r3 EXCEPT ![S] = x2]
    BY <1>6, <2>2, <2>4, <2>6
  <2>8. r6 = [r3 EXCEPT ![S] = x3]
    BY <1>6, <2>3, <2>4, <2>7
  <2>9. x3 = SellerRow(y, cost, n)
    BY <2>4 DEF SellerRow
  <2> QED BY <2>8, <2>9
<1> QED BY <1>1, <1>2, <1>4, <1>8, <1>10

----------------------------------------------------------------------------
\* ----- the consumer, on tables of its own
LEMMA ConsumerNoFee ==
    ASSUME NEW ord, NEW acc, NEW row \in AccountRows
    PROVE  Consumer(ord, acc)!ChargeFee(row, 0) = row
<1>1. PICK r : r = [row EXCEPT !.balance = @ + 0 - 0, !.debt = @ + 0]
  OBVIOUS
<1>2. Consumer(ord, acc)!Unpaid(row, 0) = 0
  BY DEF Consumer!Unpaid
<1>3. Consumer(ord, acc)!ChargeFee(row, 0) = r
  BY <1>1, <1>2 DEF Consumer!ChargeFee
<1>4. row.balance + 0 - 0 = row.balance /\ row.debt + 0 = row.debt
  BY RowTypes
<1>5. r = [row EXCEPT !.balance = row.balance, !.debt = row.debt]
  BY <1>1, <1>4
<1>6. r = row
  BY <1>5 DEF AccountRows
<1> QED BY <1>3, <1>6

LEMMA ConsumerRows ==
    ASSUME NEW ord, NEW acc \in AccountTables, NEW t, NEW b, NEW s, NEW B, NEW S,
           Joins(t, b, s, B, S), ~t.charged, order[b].unit \in Nat, ord[b].unit = order[b].unit
    PROVE  /\ Consumer(ord, acc)!BuyerAfterTrade(t)
                = BuyerRow(acc[B], t.price * t.qty, order[b].unit * t.qty, t.qty)
           /\ Consumer(ord, acc)!SellerAfterTrade(t) = SellerRow(acc[S], t.price * t.qty, t.qty)
<1>1. PICK cost \in Nat, held \in Nat, n \in Nat :
          cost = t.price * t.qty /\ held = order[b].unit * t.qty /\ n = t.qty
  BY DEF Joins
<1>2. PICK x \in AccountRows, y \in AccountRows : x = acc[B] /\ y = acc[S]
  BY DEF AccountTables, Joins
<1>3. Consumer(ord, acc)!Fee(B, t) = 0 /\ Consumer(ord, acc)!Fee(S, t) = 0
  BY DEF Consumer!Fee
<1>4. PICK p, q : p = BuyerRow(x, cost, held, n) /\ q = SellerRow(y, cost, n)
  OBVIOUS
<1>5. p \in AccountRows /\ q \in AccountRows
  <2>1. cost \in Int /\ held \in Int /\ n \in Int
    BY <1>1
  <2>2. IsBuyerRow(x, cost, held, n, p) /\ IsSellerRow(y, cost, n, q)
    BY <1>2, <1>4, <2>1, TradeRowsAre
  <2> QED BY <2>2 DEF IsBuyerRow, IsSellerRow
<1>6. Consumer(ord, acc)!BuyerAfterTrade(t) = Consumer(ord, acc)!ChargeFee(p, 0)
  <2>1. p = [acc[B] EXCEPT !.balance = @ - t.price * t.qty, !.hold = @ - ord[b].unit * t.qty,
                           !.shares = @ + t.qty]
    BY <1>1, <1>2, <1>4 DEF BuyerRow
  <2> QED BY <1>3, <2>1 DEF Consumer!BuyerAfterTrade, Joins
<1>7. Consumer(ord, acc)!SellerAfterTrade(t) = Consumer(ord, acc)!ChargeFee(q, 0)
  <2>1. q = [acc[S] EXCEPT !.balance = @ + t.price * t.qty, !.shares = @ - t.qty,
                           !.holdQty = @ - t.qty]
    BY <1>1, <1>2, <1>4 DEF SellerRow
  <2> QED BY <1>3, <2>1 DEF Consumer!SellerAfterTrade, Joins
<1>8. Consumer(ord, acc)!BuyerAfterTrade(t) = p /\ Consumer(ord, acc)!SellerAfterTrade(t) = q
  BY <1>5, <1>6, <1>7, ConsumerNoFee
<1> QED BY <1>1, <1>2, <1>4, <1>8

Takes(ord, o, n) == ord[o].status \in {"OPEN", "PARTIAL"} /\ ord[o].filled + n <= Terms[o].qty

\* One trade of Consumed.
Consume(st, t) ==
    [accepted |-> /\ st.accepted
                  /\ Consumer(st.order, st.account)!AcceptsTrade(t.buy, t.qty)
                  /\ Consumer(st.order, st.account)!AcceptsTrade(t.sell, t.qty),
     order |-> [st.order EXCEPT
        ![t.buy] = Consumer(st.order, st.account)!StateAfterTrade(t.buy, t.qty),
        ![t.sell] = Consumer(st.order, st.account)!StateAfterTrade(t.sell, t.qty)],
     account |-> [st.account EXCEPT
        ![Terms[t.buy].acct] = Consumer(st.order, st.account)!BuyerAfterTrade(t),
        ![Terms[t.sell].acct] = Consumer(st.order, st.account)!SellerAfterTrade(t)]]

UnitsKept(ord) == \A o \in Orders : ord[o].unit = order[o].unit

ReplayStates == [accepted : BOOLEAN, order : OrderTables, account : AccountTables]
KeptStates == {st \in ReplayStates : UnitsKept(st.order)}

Consumes(st, t, b, s, new) ==
    /\ new.accepted = (st.accepted /\ Takes(st.order, b, t.qty) /\ Takes(st.order, s, t.qty))
    /\ new.order = [st.order EXCEPT ![b] = TradedRow(b, st.order[b], t.qty),
                                    ![s] = TradedRow(s, st.order[s], t.qty)]
    /\ new.account = ReplayTrade(st.account, t)

LEMMA ConsumeIs ==
    ASSUME order \in OrderTables, NEW st \in KeptStates, NEW t, NEW b, NEW s, NEW B, NEW S,
           Joins(t, b, s, B, S), ~t.charged
    PROVE  Consume(st, t) \in KeptStates /\ Consumes(st, t, b, s, Consume(st, t))
<1>1. PICK ord, acc, c : ord = st.order /\ acc = st.account /\ c = st.accepted
  OBVIOUS
<1>2. /\ ord \in OrderTables /\ acc \in AccountTables /\ c \in BOOLEAN /\ UnitsKept(ord)
      /\ b \in Orders /\ s \in Orders /\ B \in Accounts /\ S \in Accounts /\ b # s /\ B # S
      /\ order[b].unit \in Nat /\ t.qty \in Nat
  BY <1>1 DEF KeptStates, ReplayStates, Joins, OrderTables, OrderRows
<1>3. PICK x, y : x = TradedRow(b, ord[b], t.qty) /\ y = TradedRow(s, ord[s], t.qty)
  OBVIOUS
<1>4. PICK ord2 : ord2 = [ord EXCEPT ![b] = x, ![s] = y]
  OBVIOUS
<1>5. /\ Consumer(ord, acc)!StateAfterTrade(b, t.qty) = x
      /\ Consumer(ord, acc)!StateAfterTrade(s, t.qty) = y
  BY <1>3 DEF Consumer!StateAfterTrade, TradedRow
<1>6. IsTraded(b, ord[b], t.qty, x) /\ IsTraded(s, ord[s], t.qty, y)
  BY <1>2, <1>3, TradedRowIs DEF OrderTables
<1>7. ord2 \in OrderTables /\ UnitsKept(ord2)
  BY <1>2, <1>4, <1>6 DEF OrderTables, UnitsKept, IsTraded
<1>8. PICK p, q : /\ p = BuyerRow(acc[B], t.price * t.qty, order[b].unit * t.qty, t.qty)
                  /\ q = SellerRow(acc[S], t.price * t.qty, t.qty)
  OBVIOUS
<1>9. /\ Consumer(ord, acc)!BuyerAfterTrade(t) = p /\ Consumer(ord, acc)!SellerAfterTrade(t) = q
  BY <1>2, <1>8, ConsumerRows DEF UnitsKept
<1>10. PICK acc2 : acc2 = ReplayTrade(acc, t)
  OBVIOUS
<1>11. acc2 = [acc EXCEPT ![B] = p, ![S] = q]
  BY <1>2, <1>8, <1>10, ReplayTradeIs
<1>12. p \in AccountRows /\ q \in AccountRows
  <2>1. PICK cost \in Int, held \in Int : cost = t.price * t.qty /\ held = order[b].unit * t.qty
    BY <1>2 DEF Joins
  <2> QED BY <1>2, <1>8, <2>1, TradeRowsAre DEF IsBuyerRow, IsSellerRow, AccountTables
<1>13. acc2 \in AccountTables
  BY <1>2, <1>11, <1>12 DEF AccountTables
<1>14. PICK d : d = (c /\ Takes(ord, b, t.qty) /\ Takes(ord, s, t.qty))
  OBVIOUS
<1>15. d \in BOOLEAN
  BY <1>14
<1>16. /\ Consumer(ord, acc)!AcceptsTrade(b, t.qty) = Takes(ord, b, t.qty)
       /\ Consumer(ord, acc)!AcceptsTrade(s, t.qty) = Takes(ord, s, t.qty)
  BY DEF Consumer!AcceptsTrade, Consumer!Active, Takes
<1>17. Consume(st, t) = [accepted |-> d, order |-> ord2, account |-> acc2]
  BY <1>1, <1>4, <1>5, <1>9, <1>11, <1>14, <1>16 DEF Consume, Joins
<1>18. Consumes(st, t, b, s, Consume(st, t))
  BY <1>1, <1>3, <1>4, <1>10, <1>14, <1>17 DEF Consumes
<1> QED BY <1>7, <1>13, <1>15, <1>17, <1>18 DEF KeptStates, ReplayStates

----------------------------------------------------------------------------
\* ----- the trades, one by one
Upto(trades, k) == {trades[j] : j \in 1..k}

InOrder(trades, n, U) ==
    /\ IsFiniteSet(U) /\ U = UnsettledTrades
    /\ trades \in [1..n -> U] /\ DOMAIN trades = 1..n
    /\ \A i, j \in 1..n : i # j => trades[i] # trades[j]
    /\ Upto(trades, n) = U

LEMMA UnsettledFinite == ASSUME ReplayInv PROVE IsFiniteSet(UnsettledTrades) /\ IsFiniteSet(AllTrades)
<1>1. PICK D : D = DOMAIN log /\ IsFiniteSet(D)
  BY DEF ReplayInv
<1>2. UnsettledTrades \in SUBSET D /\ AllTrades \in SUBSET D
  BY <1>1 DEF UnsettledTrades, AllTrades
<1> QED BY <1>1, <1>2, FS_Subset

LEMMA TradesInOrder ==
    ASSUME ReplayInv, NEW trades \in ReplayOrders
    PROVE  \E n \in Nat : \E U : InOrder(trades, n, U)
<1>1. PICK U : U = UnsettledTrades /\ IsFiniteSet(U)
  BY UnsettledFinite
<1>2. PICK n \in Nat : n = Cardinality(U)
  BY <1>1, FS_CardinalityType
<1>3. /\ trades \in [1..n -> U] /\ DOMAIN trades = 1..n
      /\ \A i, j \in 1..n : i # j => trades[i] # trades[j]
  BY <1>1, <1>2 DEF ReplayOrders, SetToSeqs
<1>4. PICK S : S = 1..n /\ IsFiniteSet(S) /\ Cardinality(S) = n
  BY FS_Interval
<1>5. trades \in Injection(S, U)
  BY <1>3, <1>4 DEF Injection, IsInjective
<1>6. trades \in Surjection(S, U)
  BY <1>1, <1>2, <1>4, <1>5, FS_Injection
<1>7. Upto(trades, n) = U
  BY <1>3, <1>4, <1>6 DEF Surjection, Upto
<1> QED BY <1>1, <1>3, <1>7 DEF InOrder

LEMMA UnsettledIs ==
    ASSUME LedgerInv, NEW i \in UnsettledTrades, NEW t, t = log[i]
    PROVE  /\ i \in DOMAIN log /\ i \notin processed /\ IsTrade(i) /\ t \in TradeRows
           /\ order[t.buy].status # "NONE" /\ order[t.sell].status # "NONE"
           /\ Joins(t, t.buy, t.sell, Terms[t.buy].acct, Terms[t.sell].acct)
<1>1. i \in DOMAIN log /\ i \notin processed /\ IsTrade(i) /\ Recordable(t)
  BY DEF UnsettledTrades, AllTrades, LedgerInv, LogIsRecordable
<1>2. t \in TradeRows /\ Matches(t)
  BY <1>1 DEF Recordable, IsTrade, CloseRows
<1>3. t.buy \in Orders /\ t.sell \in Orders /\ t.price \in Nat /\ t.qty \in Nat \ {0}
  BY <1>2 DEF TradeRows
<1> QED BY <1>1, <1>2, <1>3, TermsFacts DEF Matches, Joins

Uncharged == \A i \in UnsettledTrades : ~log[i].charged

ConsumedFirst == [accepted |-> TRUE, order |-> order, account |-> account]

ConsumedStep(trades, g, T) ==
    IF T = {} THEN ConsumedFirst ELSE Consume(g[T \ {Max(T)}], log[trades[Max(T)]])

ConsumedAlong(f, n, trades) ==
    /\ f[0] = ConsumedFirst /\ f[n] = Consumed(trades)
    /\ \A i \in 0..(n - 1) : f[i + 1] = Consume(f[i], log[trades[i + 1]])

LEMMA FirstKept == ASSUME LedgerInv PROVE ConsumedFirst \in KeptStates
<1>1. order \in OrderTables /\ account \in AccountTables /\ UnitsKept(order)
  BY TablesOK DEF AccountTables, UnitsKept
<1> QED BY <1>1 DEF ConsumedFirst, KeptStates, ReplayStates

LEMMA ConsumeKeeps ==
    ASSUME LedgerInv, Uncharged, NEW i \in UnsettledTrades, NEW st \in KeptStates
    PROVE  Consume(st, log[i]) \in KeptStates
<1>1. PICK t : t = log[i]
  OBVIOUS
<1>2. Joins(t, t.buy, t.sell, Terms[t.buy].acct, Terms[t.sell].acct) /\ ~t.charged
  BY <1>1, UnsettledIs DEF Uncharged
<1>3. PICK b, s, B, S : Joins(t, b, s, B, S)
  BY <1>2
<1>4. order \in OrderTables
  BY TablesOK
<1> QED BY <1>1, <1>2, <1>3, <1>4, ConsumeIs

LEMMA ConsumedIterate ==
    ASSUME LedgerInv, Uncharged, NEW trades, NEW n \in Nat, NEW U, InOrder(trades, n, U)
    PROVE  \E f \in [0..n -> KeptStates] : ConsumedAlong(f, n, trades)
<1> DEFINE V == KeptStates
           start == ConsumedFirst
           step == [i \in 1..n |-> [v \in V |-> Consume(v, log[trades[i]])]]
           Iter(g) == g = [T \in SUBSET DOMAIN trades |-> ConsumedStep(trades, g, T)]
<1>1. DOMAIN trades = 1..n /\ \A i \in 1..n : trades[i] \in UnsettledTrades
  BY DEF InOrder
<1>2. start \in V
  BY FirstKept
<1>3. \A i \in 1..n : \A v \in V : Consume(v, log[trades[i]]) \in V
  BY <1>1, ConsumeKeeps
<1>4. PICK g \in [SUBSET (1..n) -> V] : FoldsFrom(n, start, step, g)
  <2>1. \A i \in 1..n : \A v \in V : step[i][v] \in V
    BY <1>3
  <2> HIDE DEF step, start, V
  <2> QED BY <1>2, <2>1, FoldIterates
<1>5. Iter(g)
  <2>1. \A T \in SUBSET (1..n) : T # {} => Max(T) \in 1..n /\ T \ {Max(T)} \in SUBSET (1..n)
    BY GreatestExists
  <2>2. \A T \in SUBSET (1..n) : g[T] = ConsumedStep(trades, g, T)
    <3> TAKE T \in SUBSET (1..n)
    <3>1. CASE T = {}
      BY <3>1, <1>4 DEF FoldsFrom, ConsumedStep
    <3>2. CASE T # {}
      <4>1. PICK m \in 1..n : m = Max(T) /\ T \ {m} \in SUBSET (1..n)
        BY <2>1, <3>2
      <4>2. g[T] = step[m][g[T \ {m}]] /\ g[T \ {m}] \in V
        BY <1>4, <3>2, <4>1 DEF FoldsFrom
      <4>3. step[m][g[T \ {m}]] = Consume(g[T \ {m}], log[trades[m]])
        BY <4>2
      <4> QED BY <3>2, <4>1, <4>2, <4>3 DEF ConsumedStep
    <3> QED BY <3>1, <3>2
  <2> HIDE DEF step, start, V
  <2> QED BY <1>1, <2>2
<1> DEFINE c == CHOOSE h : Iter(h)
<1>6. Iter(c)
  <2> HIDE DEF Iter
  <2> QED BY <1>5
<1>7. Consumed(trades) = c[DOMAIN trades]
  BY DEF Consumed, FoldLeft, MapThenFoldSet, ConsumedStep, Consume, ConsumedFirst
<1> DEFINE f == [i \in 0..n |-> c[1..i]]
<1>8. f[0] = ConsumedFirst
  <2>1. 1..0 = {} /\ 1..0 \in SUBSET (1..n) /\ 0 \in 0..n
    OBVIOUS
  <2> QED BY <1>1, <1>6, <2>1 DEF ConsumedStep
<1>9. \A i \in 0..(n - 1) : f[i + 1] = Consume(f[i], log[trades[i + 1]])
  <2> TAKE i \in 0..(n - 1)
  <2>1. PICK T : T = 1..(i + 1)
    OBVIOUS
  <2>2. T \in SUBSET (1..n) /\ T # {} /\ i \in Nat /\ i \in 0..n /\ i + 1 \in 0..n
    <3>1. i \in Nat /\ i \in 0..n /\ i + 1 \in 0..n
      OBVIOUS
    <3>2. T \in SUBSET (1..n) /\ i + 1 \in T
      BY <2>1
    <3> QED BY <3>1, <3>2
  <2>3. Max(T) = i + 1 /\ T \ {i + 1} = 1..i
    BY <2>1, <2>2, GreatestOfInterval
  <2>4. c[T] = ConsumedStep(trades, c, T)
    <3> HIDE DEF c
    <3> QED BY <1>1, <1>6, <2>2
  <2>5. c[T] = Consume(c[1..i], log[trades[i + 1]])
    BY <2>2, <2>3, <2>4 DEF ConsumedStep
  <2> HIDE DEF c
  <2> QED BY <2>1, <2>2, <2>5
<1>10. f[n] = Consumed(trades)
  <2>1. n \in 0..n
    OBVIOUS
  <2> HIDE DEF c
  <2> QED BY <1>1, <1>7, <2>1
<1>11. \A i \in 0..n : f[i] \in V
  <2> DEFINE G == {i \in Nat : i <= n => f[i] \in V}
  <2>1. 0 \in G
    BY <1>2, <1>8
  <2>2. ASSUME NEW i \in Nat, i \in G PROVE i + 1 \in G
    <3> SUFFICES ASSUME i + 1 <= n PROVE f[i + 1] \in V
      OBVIOUS
    <3>1. i \in 0..(n - 1) /\ i + 1 \in 1..n /\ i <= n
      OBVIOUS
    <3>2. f[i] \in V
      BY <2>2, <3>1
    <3> HIDE DEF f, V
    <3> QED BY <1>3, <1>9, <3>1, <3>2
  <2> HIDE DEF G
  <2>3. \A i \in Nat : i \in G
    BY <2>1, <2>2, NatInduct
  <2>4. ASSUME NEW i \in 0..n PROVE f[i] \in V
    <3>1. i \in Nat /\ i <= n /\ i \in G
      BY <2>3
    <3> HIDE DEF f, V
    <3> QED BY <3>1 DEF G
  <2> QED BY <2>4
<1>12. f \in [0..n -> V]
  BY <1>11
<1> HIDE DEF c, f, V
<1> QED BY <1>8, <1>9, <1>10, <1>12 DEF ConsumedAlong, V

PlanStates == [account : AccountTables, sound : BOOLEAN]

\* One trade of Replay.
ReplayOne(plan, t) ==
    LET rows == ReplayTrade(plan.account, t)
    IN  [account |-> rows, sound |-> plan.sound /\ IsSound(rows[Terms[t.buy].acct])
                                                /\ IsSound(rows[Terms[t.sell].acct])]

ReplayFirst == [account |-> Prestate, sound |-> \A a \in Accounts : IsSound(Prestate[a])]

ReplayStep(trades, g, T) ==
    IF T = {} THEN ReplayFirst ELSE ReplayOne(g[T \ {Max(T)}], log[trades[Max(T)]])

ReplayAlong(f, n, trades) ==
    /\ f[0] = ReplayFirst /\ f[n] = Replay(trades)
    /\ \A i \in 0..(n - 1) : f[i + 1] = ReplayOne(f[i], log[trades[i + 1]])

LEMMA ReplayKeeps ==
    ASSUME LedgerInv, NEW i \in UnsettledTrades, NEW plan \in PlanStates
    PROVE  ReplayOne(plan, log[i]) \in PlanStates
<1>1. PICK t, acc, rows, sound : /\ t = log[i] /\ acc = plan.account /\ rows = ReplayTrade(acc, t)
                                 /\ sound = (plan.sound /\ IsSound(rows[Terms[t.buy].acct])
                                                        /\ IsSound(rows[Terms[t.sell].acct]))
  OBVIOUS
<1>2. PICK b, s, B, S : Joins(t, b, s, B, S)
  BY <1>1, UnsettledIs
<1>3. acc \in AccountTables /\ order[b].unit \in Nat
  BY <1>1, <1>2, TablesOK DEF PlanStates, Joins, OrderRows
<1>4. PICK cost \in Int, held \in Int, n \in Int :
          cost = t.price * t.qty /\ held = order[b].unit * t.qty /\ n = t.qty
  BY <1>2, <1>3 DEF Joins
<1>5. acc[B] \in AccountRows /\ acc[S] \in AccountRows
  BY <1>2, <1>3 DEF AccountTables, Joins
<1>6. PICK x, y : x = BuyerRow(acc[B], cost, held, n) /\ y = SellerRow(acc[S], cost, n)
  OBVIOUS
<1>7. x \in AccountRows /\ y \in AccountRows
  BY <1>5, <1>6, TradeRowsAre DEF IsBuyerRow, IsSellerRow
<1>8. rows = [acc EXCEPT ![B] = x, ![S] = y]
  BY <1>1, <1>2, <1>3, <1>4, <1>6, ReplayTradeIs
<1>9. rows \in AccountTables /\ sound \in BOOLEAN
  BY <1>1, <1>3, <1>7, <1>8 DEF AccountTables
<1> QED BY <1>1, <1>9 DEF ReplayOne, PlanStates

LEMMA ReplayIterate ==
    ASSUME LedgerInv, Prestate \in AccountTables, NEW trades, NEW n \in Nat, NEW U, InOrder(trades, n, U)
    PROVE  \E f \in [0..n -> PlanStates] : ReplayAlong(f, n, trades)
<1> DEFINE V == PlanStates
           start == ReplayFirst
           step == [i \in 1..n |-> [v \in V |-> ReplayOne(v, log[trades[i]])]]
           Iter(g) == g = [T \in SUBSET DOMAIN trades |-> ReplayStep(trades, g, T)]
<1>1. DOMAIN trades = 1..n /\ \A i \in 1..n : trades[i] \in UnsettledTrades
  BY DEF InOrder
<1>2. start \in V
  BY DEF ReplayFirst, PlanStates
<1>3. \A i \in 1..n : \A v \in V : ReplayOne(v, log[trades[i]]) \in V
  BY <1>1, ReplayKeeps
<1>4. PICK g \in [SUBSET (1..n) -> V] : FoldsFrom(n, start, step, g)
  <2>1. \A i \in 1..n : \A v \in V : step[i][v] \in V
    BY <1>3
  <2> HIDE DEF step, start, V
  <2> QED BY <1>2, <2>1, FoldIterates
<1>5. Iter(g)
  <2>1. \A T \in SUBSET (1..n) : T # {} => Max(T) \in 1..n /\ T \ {Max(T)} \in SUBSET (1..n)
    BY GreatestExists
  <2>2. \A T \in SUBSET (1..n) : g[T] = ReplayStep(trades, g, T)
    <3> TAKE T \in SUBSET (1..n)
    <3>1. CASE T = {}
      BY <3>1, <1>4 DEF FoldsFrom, ReplayStep
    <3>2. CASE T # {}
      <4>1. PICK m \in 1..n : m = Max(T) /\ T \ {m} \in SUBSET (1..n)
        BY <2>1, <3>2
      <4>2. g[T] = step[m][g[T \ {m}]] /\ g[T \ {m}] \in V
        BY <1>4, <3>2, <4>1 DEF FoldsFrom
      <4>3. step[m][g[T \ {m}]] = ReplayOne(g[T \ {m}], log[trades[m]])
        BY <4>2
      <4> QED BY <3>2, <4>1, <4>2, <4>3 DEF ReplayStep
    <3> QED BY <3>1, <3>2
  <2> HIDE DEF step, start, V
  <2> QED BY <1>1, <2>2
<1> DEFINE c == CHOOSE h : Iter(h)
<1>6. Iter(c)
  <2> HIDE DEF Iter
  <2> QED BY <1>5
<1>7. Replay(trades) = c[DOMAIN trades]
  BY DEF Replay, FoldLeft, MapThenFoldSet, ReplayStep, ReplayOne, ReplayFirst
<1> DEFINE f == [i \in 0..n |-> c[1..i]]
<1>8. f[0] = ReplayFirst
  <2>1. 1..0 = {} /\ 1..0 \in SUBSET (1..n) /\ 0 \in 0..n
    OBVIOUS
  <2> QED BY <1>1, <1>6, <2>1 DEF ReplayStep
<1>9. \A i \in 0..(n - 1) : f[i + 1] = ReplayOne(f[i], log[trades[i + 1]])
  <2> TAKE i \in 0..(n - 1)
  <2>1. PICK T : T = 1..(i + 1)
    OBVIOUS
  <2>2. T \in SUBSET (1..n) /\ T # {} /\ i \in Nat /\ i \in 0..n /\ i + 1 \in 0..n
    <3>1. i \in Nat /\ i \in 0..n /\ i + 1 \in 0..n
      OBVIOUS
    <3>2. T \in SUBSET (1..n) /\ i + 1 \in T
      BY <2>1
    <3> QED BY <3>1, <3>2
  <2>3. Max(T) = i + 1 /\ T \ {i + 1} = 1..i
    BY <2>1, <2>2, GreatestOfInterval
  <2>4. c[T] = ReplayStep(trades, c, T)
    <3> HIDE DEF c
    <3> QED BY <1>1, <1>6, <2>2
  <2>5. c[T] = ReplayOne(c[1..i], log[trades[i + 1]])
    BY <2>2, <2>3, <2>4 DEF ReplayStep
  <2> HIDE DEF c
  <2> QED BY <2>1, <2>2, <2>5
<1>10. f[n] = Replay(trades)
  <2>1. n \in 0..n
    OBVIOUS
  <2> HIDE DEF c
  <2> QED BY <1>1, <1>7, <2>1
<1>11. \A i \in 0..n : f[i] \in V
  <2> DEFINE G == {i \in Nat : i <= n => f[i] \in V}
  <2>1. 0 \in G
    BY <1>2, <1>8
  <2>2. ASSUME NEW i \in Nat, i \in G PROVE i + 1 \in G
    <3> SUFFICES ASSUME i + 1 <= n PROVE f[i + 1] \in V
      OBVIOUS
    <3>1. i \in 0..(n - 1) /\ i + 1 \in 1..n /\ i <= n
      OBVIOUS
    <3>2. f[i] \in V
      BY <2>2, <3>1
    <3> HIDE DEF f, V
    <3> QED BY <1>3, <1>9, <3>1, <3>2
  <2> HIDE DEF G
  <2>3. \A i \in Nat : i \in G
    BY <2>1, <2>2, NatInduct
  <2>4. ASSUME NEW i \in 0..n PROVE f[i] \in V
    <3>1. i \in Nat /\ i <= n /\ i \in G
      BY <2>3
    <3> HIDE DEF f, V
    <3> QED BY <3>1 DEF G
  <2> QED BY <2>4
<1>12. f \in [0..n -> V]
  BY <1>11
<1> HIDE DEF c, f, V
<1> QED BY <1>8, <1>9, <1>10, <1>12 DEF ReplayAlong, V

----------------------------------------------------------------------------
\* ----- the orders after some of the unsettled trades
OrderAfter(o, m) == IF m = 0 THEN order[o] ELSE TradedRow(o, order[o], m)

TakesUpTo(o, m) == m # 0 => Active(o) /\ order[o].filled + m <= Terms[o].qty

TablesAfter(P) == [o \in Orders |-> OrderAfter(o, SettledOf(log, P, o))]

TakesAll(P) == \A o \in Orders : TakesUpTo(o, SettledOf(log, P, o))

LEMMA OrderAfterType ==
    ASSUME LedgerInv, NEW o \in Orders, NEW m \in Nat
    PROVE  /\ OrderAfter(o, m) \in OrderRows /\ OrderAfter(o, m).unit = order[o].unit
           /\ OrderAfter(o, m).filled = order[o].filled + m
<1>1. order[o] \in OrderRows /\ order[o].filled \in Nat
  BY TablesOK DEF OrderRows
<1>2. CASE m = 0
  BY <1>1, <1>2 DEF OrderAfter
<1>3. CASE m # 0
  BY <1>1, <1>3, TradedRowIs DEF OrderAfter, IsTraded
<1> QED BY <1>2, <1>3

LEMMA SameRow ==
    ASSUME NEW x \in OrderRows, NEW y \in OrderRows,
           x.status = y.status, x.filled = y.filled, x.unit = y.unit
    PROVE  x = y
  BY DEF OrderRows

LEMMA AfterTrade ==
    ASSUME LedgerInv, RowsFit, NEW o \in Orders, NEW m \in Nat, NEW n \in Nat \ {0}
    PROVE  /\ TradedRow(o, OrderAfter(o, m), n) = OrderAfter(o, m + n)
           /\ TakesUpTo(o, m + n) <=>
                 /\ TakesUpTo(o, m) /\ OrderAfter(o, m).status \in {"OPEN", "PARTIAL"}
                 /\ OrderAfter(o, m).filled + n <= Terms[o].qty
<1>1. PICK f \in Nat, q \in Nat : f = order[o].filled /\ q = Terms[o].qty
  BY TablesOK, TermsFacts DEF OrderRows
<1>2. order[o] \in OrderRows /\ m + n # 0 /\ m + n \in Nat
  BY TablesOK
<1>3. CASE m = 0
  <2>1. m + n = n /\ OrderAfter(o, m) = order[o] /\ OrderAfter(o, m + n) = TradedRow(o, order[o], n)
    BY <1>2, <1>3 DEF OrderAfter
  <2>2. TakesUpTo(o, m + n) <=> Active(o) /\ order[o].filled + n <= Terms[o].qty
    BY <1>2, <2>1 DEF TakesUpTo
  <2> QED BY <1>3, <2>1, <2>2 DEF TakesUpTo, Active
<1>4. CASE m # 0
  <2>1. PICK r, row : r = order[o] /\ row = TradedRow(o, r, m) /\ row = OrderAfter(o, m)
                      /\ IsTraded(o, r, m, row)
    BY <1>2, <1>4, TradedRowIs DEF OrderAfter
  <2>2. OrderAfter(o, m + n) = TradedRow(o, r, m + n)
    BY <1>2, <2>1 DEF OrderAfter
  <2>3. TradedRow(o, row, n) = TradedRow(o, r, m + n)
    <3>1. PICK x, y : x = TradedRow(o, row, n) /\ y = TradedRow(o, r, m + n)
      OBVIOUS
    <3>2. IsTraded(o, row, n, x) /\ IsTraded(o, r, m + n, y)
      BY <1>2, <2>1, <3>1, TradedRowIs DEF IsTraded
    <3>3. r.filled \in Nat /\ row.filled = r.filled + m /\ row.unit = r.unit
      BY <1>2, <2>1 DEF IsTraded, OrderRows
    <3>4. (r.filled + m) + n = r.filled + (m + n)
      BY <3>3
    <3>5. /\ x \in OrderRows /\ y \in OrderRows /\ x.status = y.status
          /\ x.filled = y.filled /\ x.unit = y.unit
      BY <3>2, <3>3, <3>4 DEF IsTraded
    <3> QED BY <3>1, <3>5, SameRow
  <2>4. row.filled = f + m /\ (row.status \in {"OPEN", "PARTIAL"} <=> f + m < q)
    BY <1>1, <2>1 DEF IsTraded
  <2>5. TakesUpTo(o, m + n) <=> Active(o) /\ f + (m + n) <= q
    BY <1>1, <1>2 DEF TakesUpTo
  <2>6. TakesUpTo(o, m) <=> Active(o) /\ f + m <= q
    BY <1>1, <1>4 DEF TakesUpTo
  <2>7. f + (m + n) <= q <=> f + m <= q /\ f + m < q /\ f + m + n <= q
    BY <1>1
  <2> QED BY <1>1, <2>1, <2>2, <2>3, <2>4, <2>5, <2>6, <2>7
<1> QED BY <1>3, <1>4

LEMMA TakenOne ==
    ASSUME LedgerInv, ReplayInv, NEW P \in SUBSET UnsettledTrades, NEW i \in UnsettledTrades \ P,
           NEW Q, Q = P \cup {i}, NEW o \in Orders, NEW t, t = log[i]
    PROVE  /\ SettledOf(log, P, o) \in Nat
           /\ SettledOf(log, Q, o) = IF o \in {t.buy, t.sell} THEN SettledOf(log, P, o) + t.qty
                                     ELSE SettledOf(log, P, o)
<1>1. /\ IsFiniteSet(P) /\ i \notin P /\ \A j \in Q : log[j] \in Rows
  <2>1. IsFiniteSet(P)
    BY UnsettledFinite, FS_Subset
  <2>2. \A j \in Q : j \in UnsettledTrades
    OBVIOUS
  <2>3. \A j \in UnsettledTrades : log[j] \in Rows
    BY UnsettledIs DEF Rows
  <2> QED BY <2>1, <2>2, <2>3
<1>2. SettledOf(log, Q, o) = SettledOf(log, P, o) + Took(o)[t]
  BY <1>1, SettledOne
<1>3. SettledOf(log, P, o) \in Nat
  BY <1>1, SettledNat
<1>4. t \in TradeRows /\ t.qty \in Nat /\ t \in Rows
  BY UnsettledIs DEF TradeRows, Rows
<1>5. Took(o)[t] = IF o \in {t.buy, t.sell} THEN t.qty ELSE 0
  BY <1>4, TookType DEF Traded, TradeRows
<1> QED BY <1>2, <1>3, <1>4, <1>5

LEMMA TablesAfterType ==
    ASSUME LedgerInv, ReplayInv, NEW P \in SUBSET UnsettledTrades
    PROVE  TablesAfter(P) \in OrderTables
<1>1. IsFiniteSet(P) /\ \A j \in P : log[j] \in Rows
  BY UnsettledFinite, UnsettledIs, FS_Subset DEF Rows
<1>2. \A o \in Orders : SettledOf(log, P, o) \in Nat
  BY <1>1, SettledNat
<1> QED BY <1>2, OrderAfterType DEF TablesAfter, OrderTables

LEMMA TablesAfterOne ==
    ASSUME LedgerInv, ReplayInv, NEW P \in SUBSET UnsettledTrades, NEW i \in UnsettledTrades \ P,
           NEW Q, Q = P \cup {i}, NEW t, t = log[i], NEW b, NEW s, b = t.buy, s = t.sell,
           NEW old, old = TablesAfter(P)
    PROVE  /\ TablesAfter(Q) = [old EXCEPT ![b] = TradedRow(b, old[b], t.qty),
                                           ![s] = TradedRow(s, old[s], t.qty)]
           /\ TakesAll(Q) <=> TakesAll(P) /\ Takes(old, b, t.qty) /\ Takes(old, s, t.qty)
<1>1. b \in Orders /\ s \in Orders /\ b # s /\ t.qty \in Nat \ {0}
  BY UnsettledIs DEF Joins
<1>2. PICK m, k : m = [o \in Orders |-> SettledOf(log, P, o)]
                  /\ k = [o \in Orders |-> SettledOf(log, Q, o)]
  OBVIOUS
<1>3. \A o \in Orders : m[o] \in Nat /\ k[o] = IF o \in {b, s} THEN m[o] + t.qty ELSE m[o]
  BY <1>2, TakenOne
<1>4. PICK n \in Nat \ {0} : n = t.qty
  BY <1>1
<1>5. \A o \in Orders : old[o] = OrderAfter(o, m[o])
  BY <1>2 DEF TablesAfter
<1>6. ASSUME NEW o \in {b, s}
      PROVE  /\ OrderAfter(o, k[o]) = TradedRow(o, old[o], n)
             /\ TakesUpTo(o, k[o]) <=> TakesUpTo(o, m[o]) /\ Takes(old, o, n)
  <2>1. PICK j \in Nat : j = m[o] /\ k[o] = j + n /\ old[o] = OrderAfter(o, j) /\ o \in Orders
    BY <1>1, <1>3, <1>4, <1>5
  <2>2. RowsFit
    BY DEF ReplayInv
  <2>3. /\ TradedRow(o, OrderAfter(o, j), n) = OrderAfter(o, j + n)
        /\ TakesUpTo(o, j + n) <=>
                 /\ TakesUpTo(o, j) /\ OrderAfter(o, j).status \in {"OPEN", "PARTIAL"}
                 /\ OrderAfter(o, j).filled + n <= Terms[o].qty
    BY <2>1, <2>2, AfterTrade
  <2> QED BY <2>1, <2>3 DEF Takes
<1>7. TablesAfter(Q) = [old EXCEPT ![b] = TradedRow(b, old[b], n), ![s] = TradedRow(s, old[s], n)]
  <2>1. TablesAfter(Q) = [o \in Orders |-> OrderAfter(o, k[o])]
    BY <1>2 DEF TablesAfter
  <2>2. old = [o \in Orders |-> OrderAfter(o, m[o])]
    BY <1>2 DEF TablesAfter
  <2>3. \A o \in Orders \ {b, s} : OrderAfter(o, k[o]) = old[o]
    BY <1>3, <1>5
  <2> QED BY <1>1, <1>6, <2>1, <2>2, <2>3
<1>8. TakesAll(Q) <=> TakesAll(P) /\ Takes(old, b, n) /\ Takes(old, s, n)
  <2>1. TakesAll(Q) <=> \A o \in Orders : TakesUpTo(o, k[o])
    BY <1>2 DEF TakesAll
  <2>2. TakesAll(P) <=> \A o \in Orders : TakesUpTo(o, m[o])
    BY <1>2 DEF TakesAll
  <2>3. \A o \in Orders \ {b, s} : TakesUpTo(o, k[o]) <=> TakesUpTo(o, m[o])
    BY <1>3
  <2> QED BY <1>1, <1>6, <2>1, <2>2, <2>3
<1> QED BY <1>4, <1>7, <1>8

----------------------------------------------------------------------------
\* ----- the consumer's tables after k trades
LEMMA UptoIs ==
    ASSUME NEW trades, NEW n \in Nat, NEW U, InOrder(trades, n, U), NEW k \in 0..(n - 1)
    PROVE  /\ Upto(trades, k) \in SUBSET UnsettledTrades
           /\ trades[k + 1] \in UnsettledTrades \ Upto(trades, k)
           /\ Upto(trades, k + 1) = Upto(trades, k) \cup {trades[k + 1]}
<1>1. /\ k + 1 \in 1..n /\ 1..(k + 1) = (1..k) \cup {k + 1}
      /\ \A j \in 1..k : j \in 1..n /\ j # k + 1
  OBVIOUS
<1> QED BY <1>1 DEF InOrder, Upto

LEMMA TakenNone ==
    ASSUME LedgerInv
    PROVE  TablesAfter({}) = order /\ TakesAll({})
<1>1. \A o \in Orders : SettledOf(log, {}, o) = 0
  BY SumEmpty DEF SettledOf
<1>2. \A o \in Orders : TablesAfter({})[o] = order[o]
  BY <1>1 DEF TablesAfter, OrderAfter
<1>3. DOMAIN order = Orders /\ TablesAfter({}) = [o \in Orders |-> TablesAfter({})[o]]
  BY TablesOK DEF TablesAfter, OrderTables
<1>4. order = [o \in Orders |-> order[o]]
  BY TablesOK DEF OrderTables
<1> QED BY <1>1, <1>2, <1>3, <1>4 DEF TakesAll, TakesUpTo

OrdersAlong(st, P) == st.order = TablesAfter(P) /\ (st.accepted <=> TakesAll(P))

LEMMA OrdersAlongStep ==
    ASSUME LedgerInv, ReplayInv, Uncharged, NEW P \in SUBSET UnsettledTrades,
           NEW i \in UnsettledTrades \ P, NEW st \in KeptStates, OrdersAlong(st, P)
    PROVE  OrdersAlong(Consume(st, log[i]), P \cup {i})
<1>1. PICK t, b, s, Q : t = log[i] /\ b = t.buy /\ s = t.sell /\ Q = P \cup {i}
  OBVIOUS
<1>2. Joins(t, b, s, Terms[b].acct, Terms[s].acct) /\ ~t.charged
  BY <1>1, UnsettledIs DEF Uncharged
<1>3. PICK B, S : Joins(t, b, s, B, S)
  BY <1>2
<1>4. PICK new : new = Consume(st, t) /\ Consumes(st, t, b, s, new)
  BY <1>2, <1>3, TablesOK, ConsumeIs
<1>5. PICK old : old = TablesAfter(P)
  OBVIOUS
<1>6. /\ TablesAfter(Q) = [old EXCEPT ![b] = TradedRow(b, old[b], t.qty),
                                      ![s] = TradedRow(s, old[s], t.qty)]
      /\ TakesAll(Q) <=> TakesAll(P) /\ Takes(old, b, t.qty) /\ Takes(old, s, t.qty)
  BY <1>1, <1>5, TablesAfterOne
<1>7. st.order = old /\ (st.accepted <=> TakesAll(P))
  BY <1>5 DEF OrdersAlong
<1>8. /\ new.accepted = (st.accepted /\ Takes(old, b, t.qty) /\ Takes(old, s, t.qty))
      /\ new.order = [old EXCEPT ![b] = TradedRow(b, old[b], t.qty), ![s] = TradedRow(s, old[s], t.qty)]
  BY <1>4, <1>7 DEF Consumes
<1>9. new.order = TablesAfter(Q) /\ (new.accepted <=> TakesAll(Q))
  BY <1>6, <1>7, <1>8
<1> QED BY <1>1, <1>4, <1>9 DEF OrdersAlong

LEMMA ConsumedOrders ==
    ASSUME LedgerInv, ReplayInv, Uncharged, NEW trades, NEW n \in Nat, NEW U,
           InOrder(trades, n, U), NEW f \in [0..n -> KeptStates], ConsumedAlong(f, n, trades)
    PROVE  \A k \in 0..n : OrdersAlong(f[k], Upto(trades, k))
<1> DEFINE G == {k \in Nat : k <= n => OrdersAlong(f[k], Upto(trades, k))}
<1>1. 0 \in G
  <2>1. Upto(trades, 0) = {} /\ f[0] = ConsumedFirst
    BY DEF Upto, ConsumedAlong
  <2>2. OrdersAlong(ConsumedFirst, {})
    BY TakenNone DEF OrdersAlong, ConsumedFirst
  <2>3. OrdersAlong(f[0], Upto(trades, 0))
    BY <2>1, <2>2
  <2> HIDE DEF Upto
  <2> QED BY <2>3
<1>2. ASSUME NEW k \in Nat, k \in G PROVE k + 1 \in G
  <2> SUFFICES ASSUME k + 1 <= n PROVE OrdersAlong(f[k + 1], Upto(trades, k + 1))
    OBVIOUS
  <2>1. k \in 0..(n - 1) /\ k \in 0..n /\ k <= n
    OBVIOUS
  <2>2. PICK st, P, i : st = f[k] /\ P = Upto(trades, k) /\ i = trades[k + 1]
    OBVIOUS
  <2>3. st \in KeptStates /\ OrdersAlong(st, P) /\ f[k + 1] = Consume(st, log[i])
    BY <1>2, <2>1, <2>2 DEF ConsumedAlong
  <2>4. /\ P \in SUBSET UnsettledTrades /\ i \in UnsettledTrades \ P
        /\ Upto(trades, k + 1) = P \cup {i}
    BY <2>1, <2>2, UptoIs
  <2>5. OrdersAlong(Consume(st, log[i]), P \cup {i})
    BY <2>3, <2>4, OrdersAlongStep
  <2> QED BY <2>3, <2>4, <2>5
<1>3. \A k \in Nat : k \in G
  <2> HIDE DEF G
  <2> QED BY <1>1, <1>2, NatInduct
<1> QED BY <1>3

----------------------------------------------------------------------------
\* ----- the accounts after k trades
FreeOf(acc) ==
    \A a \in Accounts : acc[a].hold <= acc[a].balance /\ acc[a].holdQty <= acc[a].shares

LEMMA TakesWithin ==
    ASSUME LedgerInv, ReplayInv, NEW P \in SUBSET UnsettledTrades, TakesAll(P),
           NEW ord, ord = TablesAfter(P)
    PROVE  /\ ord \in OrderTables /\ PlacedIn(ord) = PlacedIn(order)
           /\ \A o \in Orders : ord[o].unit = order[o].unit /\ ord[o].filled <= Terms[o].qty
<1>1. ord \in OrderTables
  BY TablesAfterType
<1>2. ASSUME NEW o \in Orders
      PROVE  /\ ord[o].unit = order[o].unit /\ ord[o].filled <= Terms[o].qty
             /\ ord[o].status # "NONE" <=> order[o].status # "NONE"
  <2>1. IsFiniteSet(P) /\ \A j \in P : log[j] \in Rows
    BY UnsettledFinite, UnsettledIs, FS_Subset DEF Rows
  <2>2. PICK m \in Nat : m = SettledOf(log, P, o)
    BY <2>1, SettledNat
  <2>3. TakesUpTo(o, m) /\ ord[o] = OrderAfter(o, m)
    BY <2>2 DEF TakesAll, TablesAfter
  <2>4. ord[o].unit = order[o].unit /\ ord[o].filled = order[o].filled + m
    BY <2>3, OrderAfterType
  <2>5. order[o].filled <= Terms[o].qty /\ order[o].filled \in Nat /\ order[o] \in OrderRows
    BY TablesOK DEF OrderRows
  <2>6. CASE m = 0
    BY <2>3, <2>4, <2>5, <2>6 DEF OrderAfter
  <2>7. CASE m # 0
    <3>1. order[o].filled + m <= Terms[o].qty /\ order[o].status # "NONE"
      BY <2>3, <2>7 DEF TakesUpTo, Active
    <3>2. IsTraded(o, order[o], m, ord[o])
      BY <2>3, <2>5, <2>7, TradedRowIs DEF OrderAfter
    <3> QED BY <2>4, <3>1, <3>2 DEF IsTraded
  <2> QED BY <2>6, <2>7
<1> QED BY <1>1, <1>2 DEF PlacedIn

LEMMA ReservedNat ==
    ASSUME NEW table \in OrderTables, IsFiniteSet(PlacedIn(table)),
           \A o \in Orders : table[o].filled <= Terms[o].qty, NEW a, NEW side
    PROVE  Reserved(table, a, side) \in Nat
<1>1. PICK f, P : f = Part(table, a, side) /\ P = PlacedIn(table)
  OBVIOUS
<1>2. ASSUME NEW o \in Orders PROVE f[o] \in Nat
  <2>1. PICK q \in Nat, x \in Nat, u \in Nat : /\ q = Terms[o].qty /\ x = table[o].filled
                                              /\ u = table[o].unit /\ x <= q
    BY TermsFacts DEF OrderTables, OrderRows
  <2>2. PICK r \in Nat : r = q - x
    BY <2>1
  <2>3. u * r \in Nat
    BY <2>1, <2>2
  <2>4. EscrowOf(o, table[o]) \in Nat
    BY <2>1, <2>2, <2>3 DEF EscrowOf
  <2> QED BY <1>1, <2>4 DEF Part
<1>3. \A o \in P : f[o] \in Nat
  BY <1>1, <1>2 DEF PlacedIn
<1> QED BY <1>1, <1>3, SumNat DEF Reserved

AccountsAlong(st, plan) ==
    /\ plan.account = st.account /\ plan.sound = TRUE
    /\ HoldsExactOf(st.order, st.account) /\ FreeOf(st.account)

LEMMA SoundIs ==
    ASSUME NEW acc \in AccountTables, FreeOf(acc), NEW table \in OrderTables, HoldsExactOf(table, acc),
           IsFiniteSet(PlacedIn(table)), \A o \in Orders : table[o].filled <= Terms[o].qty
    PROVE  \A a \in Accounts : IsSound(acc[a])
<1> TAKE a \in Accounts
<1>1. Reserved(table, a, "BUY") \in Nat /\ Reserved(table, a, "SELL") \in Nat
  BY ReservedNat
<1>2. acc[a].hold \in Nat /\ acc[a].holdQty \in Nat
  BY <1>1 DEF HoldsExactOf
<1>3. acc[a].hold <= acc[a].balance /\ acc[a].holdQty <= acc[a].shares
  BY DEF FreeOf
<1> QED BY <1>2, <1>3 DEF IsSound

LEMMA TwoChanged ==
    ASSUME NEW X, NEW Y, NEW f \in [X -> Y], NEW x \in X, NEW z \in X, x # z, NEW u \in Y, NEW v \in Y,
           NEW g, g = [f EXCEPT ![x] = u, ![z] = v]
    PROVE  /\ g \in [X -> Y] /\ g[x] = u /\ g[z] = v
           /\ \A y \in X \ {x, z} : g[y] = f[y]
  OBVIOUS

\* A trade that the orders take, on tables whose holds are exact.
TradeOn(old, acc, t, b, s, new, after) ==
    /\ old \in OrderTables /\ IsFiniteSet(PlacedIn(old)) /\ UnitsKept(old)
    /\ b \in PlacedIn(old) /\ s \in PlacedIn(old) /\ Takes(old, b, t.qty) /\ Takes(old, s, t.qty)
    /\ acc \in AccountTables /\ HoldsExactOf(old, acc) /\ FreeOf(acc)
    /\ new = [old EXCEPT ![b] = TradedRow(b, old[b], t.qty), ![s] = TradedRow(s, old[s], t.qty)]
    /\ after = ReplayTrade(acc, t)

\* What a trade leaves on hold and free.
LEMMA TradedAccounts ==
    ASSUME LedgerInv, ReplayInv, NEW i \in UnsettledTrades, NEW t, t = log[i],
           NEW b, NEW s, b = t.buy, s = t.sell, NEW old, NEW acc, NEW new, NEW after,
           TradeOn(old, acc, t, b, s, new, after)
    PROVE  after \in AccountTables /\ HoldsExactOf(new, after) /\ FreeOf(after)
<1>0. /\ old \in OrderTables /\ IsFiniteSet(PlacedIn(old)) /\ UnitsKept(old)
      /\ b \in PlacedIn(old) /\ s \in PlacedIn(old) /\ Takes(old, b, t.qty) /\ Takes(old, s, t.qty)
      /\ acc \in AccountTables /\ HoldsExactOf(old, acc) /\ FreeOf(acc)
      /\ new = [old EXCEPT ![b] = TradedRow(b, old[b], t.qty), ![s] = TradedRow(s, old[s], t.qty)]
      /\ after = ReplayTrade(acc, t)
  BY DEF TradeOn
<1>1. PICK B, S : Joins(t, b, s, B, S)
  BY UnsettledIs
<1>2. /\ b \in Orders /\ s \in Orders /\ b # s /\ B \in Accounts /\ S \in Accounts /\ B # S
      /\ B = Terms[b].acct /\ S = Terms[s].acct
      /\ Terms[b].side = "BUY" /\ Terms[s].side = "SELL"
      /\ old[b] \in OrderRows /\ old[s] \in OrderRows /\ order[b].unit \in Nat
      /\ old[b].unit = order[b].unit
  BY <1>0, <1>1, TablesOK DEF Joins, OrderTables, OrderRows, UnitsKept
<1>3. PICK p \in Nat, n \in Nat \ {0}, u \in Nat : p = t.price /\ n = t.qty /\ u = order[b].unit
  BY <1>1, <1>2 DEF Joins
<1>4. p <= u
  <2>1. order[b].status # "NONE"
    BY UnsettledIs
  <2>2. Terms[b].price <= u
    BY <1>2, <1>3, <2>1 DEF ReplayInv, RowsFit, RowFits
  <2>3. p <= Terms[b].price /\ Terms[b].price \in Nat
    BY <1>1, <1>2, <1>3, TermsFacts DEF Joins
  <2> QED BY <2>2, <2>3
<1>5. PICK cost \in Nat, held \in Nat : cost = p * n /\ held = u * n /\ cost <= held
  <2>1. p * n \in Nat /\ u * n \in Nat
    BY <1>3
  <2>2. PICK d \in Nat : u = p + d
    <3>1. u - p \in Nat /\ u = p + (u - p)
      BY <1>3, <1>4
    <3> QED BY <3>1
  <2>3. d * n \in Nat /\ u * n = p * n + d * n
    BY <1>3, <2>2
  <2> QED BY <2>1, <2>3
<1>6. PICK x, y : x = TradedRow(b, old[b], n) /\ y = TradedRow(s, old[s], n)
  OBVIOUS
<1>7. IsTraded(b, old[b], n, x) /\ IsTraded(s, old[s], n, y)
  BY <1>2, <1>3, <1>6, TradedRowIs
<1>8. EscrowOf(b, x) - EscrowOf(b, old[b]) = 0 - held
  <2>1. EscrowOf(b, x) - EscrowOf(b, old[b])
          = IF Terms[b].side = "BUY" THEN 0 - old[b].unit * n ELSE 0 - n
    BY <1>0, <1>2, <1>3, <1>7, EscrowTraded DEF Takes
  <2> QED BY <1>2, <1>3, <1>5, <2>1
<1>9. EscrowOf(s, y) - EscrowOf(s, old[s]) = 0 - n
  <2>1. EscrowOf(s, y) - EscrowOf(s, old[s])
          = IF Terms[s].side = "BUY" THEN 0 - old[s].unit * n ELSE 0 - n
    BY <1>0, <1>2, <1>3, <1>7, EscrowTraded DEF Takes
  <2> QED BY <1>2, <2>1
<1>10. TradeChanges(old, new, b, s, x, y, held, n)
  BY <1>0, <1>2, <1>3, <1>6, <1>7, <1>8, <1>9 DEF TradeChanges, IsTraded
<1>11. ReservesFall(old, new, b, s, held, n)
  BY <1>0, <1>3, <1>10, TradedReserves
<1>12. after = [acc EXCEPT ![B] = BuyerRow(acc[B], cost, held, n), ![S] = SellerRow(acc[S], cost, n)]
  BY <1>0, <1>1, <1>3, <1>5, ReplayTradeIs
<1>13. acc[B] \in AccountRows /\ acc[S] \in AccountRows
  BY <1>0, <1>2 DEF AccountTables
<1>14. PICK bought, sold : bought = BuyerRow(acc[B], cost, held, n) /\ sold = SellerRow(acc[S], cost, n)
  OBVIOUS
<1>15. IsBuyerRow(acc[B], cost, held, n, bought) /\ IsSellerRow(acc[S], cost, n, sold)
  <2>1. cost \in Int /\ held \in Int /\ n \in Int
    BY <1>3, <1>5
  <2> QED BY <1>13, <1>14, <2>1, TradeRowsAre
<1>16. /\ after[B] = bought /\ after[S] = sold /\ after \in AccountTables
       /\ \A a \in Accounts \ {B, S} : after[a] = acc[a]
  <2>1. bought \in AccountRows /\ sold \in AccountRows
    BY <1>15 DEF IsBuyerRow, IsSellerRow
  <2>2. after = [acc EXCEPT ![B] = bought, ![S] = sold]
    BY <1>12, <1>14
  <2>3. acc \in [Accounts -> AccountRows]
    BY <1>0 DEF AccountTables
  <2>4. B \in Accounts /\ S \in Accounts /\ B # S
    BY <1>2
  <2>5. /\ after \in [Accounts -> AccountRows] /\ after[B] = bought /\ after[S] = sold
        /\ \A a \in Accounts \ {B, S} : after[a] = acc[a]
    BY ONLY <2>1, <2>2, <2>3, <2>4, TwoChanged
  <2> QED BY <2>5 DEF AccountTables
<1>17. ASSUME NEW a \in Accounts
       PROVE  /\ after[a].hold = IF a = B THEN acc[a].hold - held ELSE acc[a].hold
              /\ after[a].holdQty = IF a = S THEN acc[a].holdQty - n ELSE acc[a].holdQty
              /\ after[a].hold <= after[a].balance /\ after[a].holdQty <= after[a].shares
  <2>1. acc[a] \in AccountRows /\ acc[a].hold <= acc[a].balance /\ acc[a].holdQty <= acc[a].shares
    BY <1>0 DEF AccountTables, FreeOf
  <2>2. PICK m \in Int, h \in Int, k \in Int, g \in Int :
            /\ m = acc[a].balance /\ h = acc[a].hold /\ k = acc[a].shares /\ g = acc[a].holdQty
            /\ h <= m /\ g <= k
    BY <2>1, RowTypes
  <2>3. CASE a = B
    <3>1. /\ after[a].balance = m - cost /\ after[a].hold = h - held
          /\ after[a].shares = k + n /\ after[a].holdQty = g
      BY <1>15, <1>16, <2>2, <2>3 DEF IsBuyerRow
    <3>2. h - held <= m - cost /\ g <= k + n
      BY <1>3, <1>5, <2>2
    <3> QED BY <1>2, <2>2, <2>3, <3>1, <3>2
  <2>4. CASE a = S
    <3>1. /\ after[a].balance = m + cost /\ after[a].hold = h
          /\ after[a].shares = k - n /\ after[a].holdQty = g - n
      BY <1>15, <1>16, <2>2, <2>4 DEF IsSellerRow
    <3>2. h <= m + cost /\ g - n <= k - n
      BY <1>3, <1>5, <2>2
    <3> QED BY <1>2, <2>2, <2>4, <3>1, <3>2
  <2>5. CASE a # B /\ a # S
    BY <1>16, <2>1, <2>5
  <2> QED BY <2>3, <2>4, <2>5
<1>18. HoldsExactOf(new, after)
  <2> SUFFICES ASSUME NEW a \in Accounts
               PROVE  /\ after[a].hold = Reserved(new, a, "BUY")
                      /\ after[a].holdQty = Reserved(new, a, "SELL")
    BY DEF HoldsExactOf
  <2>1. acc[a].hold = Reserved(old, a, "BUY") /\ acc[a].holdQty = Reserved(old, a, "SELL")
    BY <1>0 DEF HoldsExactOf
  <2>2. /\ Reserved(new, a, "BUY") = IF a = B THEN Reserved(old, a, "BUY") - held
                                     ELSE Reserved(old, a, "BUY")
        /\ Reserved(new, a, "SELL") = IF a = S THEN Reserved(old, a, "SELL") - n
                                      ELSE Reserved(old, a, "SELL")
    BY <1>2, <1>11 DEF ReservesFall
  <2>3. /\ after[a].hold = IF a = B THEN acc[a].hold - held ELSE acc[a].hold
        /\ after[a].holdQty = IF a = S THEN acc[a].holdQty - n ELSE acc[a].holdQty
    BY <1>17
  <2> QED BY <2>1, <2>2, <2>3
<1>19. FreeOf(after)
  BY <1>17 DEF FreeOf
<1> QED BY <1>16, <1>18, <1>19

LEMMA AccountsAlongStep ==
    ASSUME LedgerInv, ReplayInv, IsFiniteSet(PlacedIn(order)), Uncharged,
           NEW P \in SUBSET UnsettledTrades, NEW i \in UnsettledTrades \ P, NEW Q, Q = P \cup {i},
           TakesAll(Q), NEW st \in KeptStates, NEW plan, OrdersAlong(st, P), AccountsAlong(st, plan)
    PROVE  AccountsAlong(Consume(st, log[i]), ReplayOne(plan, log[i]))
<1>1. PICK t, b, s : t = log[i] /\ b = t.buy /\ s = t.sell
  OBVIOUS
<1>2. /\ Joins(t, b, s, Terms[b].acct, Terms[s].acct) /\ ~t.charged
      /\ order[b].status # "NONE" /\ order[s].status # "NONE"
  BY <1>1, UnsettledIs DEF Uncharged
<1>3. PICK B, S : Joins(t, b, s, B, S)
  BY <1>2
<1>4. PICK new : new = Consume(st, t) /\ Consumes(st, t, b, s, new)
  BY <1>2, <1>3, TablesOK, ConsumeIs
<1>5. PICK old, acc, ord, after : /\ old = TablesAfter(P) /\ acc = st.account /\ ord = TablesAfter(Q)
                                  /\ after = ReplayTrade(acc, t)
  OBVIOUS
<1>6. /\ ord = [old EXCEPT ![b] = TradedRow(b, old[b], t.qty), ![s] = TradedRow(s, old[s], t.qty)]
      /\ TakesAll(P) /\ Takes(old, b, t.qty) /\ Takes(old, s, t.qty)
  BY <1>1, <1>5, TablesAfterOne
<1>7. old \in OrderTables /\ PlacedIn(old) = PlacedIn(order) /\ UnitsKept(old)
  BY <1>5, <1>6, TakesWithin DEF UnitsKept
<1>8. b \in PlacedIn(old) /\ s \in PlacedIn(old) /\ IsFiniteSet(PlacedIn(old))
  BY <1>2, <1>7 DEF Joins, PlacedIn
<1>9. acc \in AccountTables /\ HoldsExactOf(old, acc) /\ FreeOf(acc) /\ plan.account = acc /\ plan.sound
  BY <1>5 DEF AccountsAlong, OrdersAlong, KeptStates, ReplayStates
<1>10. after \in AccountTables /\ HoldsExactOf(ord, after) /\ FreeOf(after)
  <2>1. TradeOn(old, acc, t, b, s, ord, after)
    BY <1>5, <1>6, <1>7, <1>8, <1>9 DEF TradeOn
  <2> QED BY <1>1, <2>1, TradedAccounts
<1>11. /\ ord \in OrderTables /\ IsFiniteSet(PlacedIn(ord))
       /\ \A o \in Orders : ord[o].filled <= Terms[o].qty
  <2>1. Q \in SUBSET UnsettledTrades
    OBVIOUS
  <2> QED BY <1>5, <2>1, TakesWithin
<1>12. \A a \in Accounts : IsSound(after[a])
  BY <1>10, <1>11, SoundIs
<1>13. new.account = after /\ new.order = ord
  BY <1>4, <1>5, <1>6 DEF Consumes, OrdersAlong
<1>14. PICK plan2 : plan2 = ReplayOne(plan, t)
  OBVIOUS
<1>15. plan2.account = after /\ plan2.sound = TRUE
  BY <1>3, <1>5, <1>9, <1>12, <1>14 DEF ReplayOne, Joins
<1> QED BY <1>1, <1>4, <1>10, <1>13, <1>14, <1>15 DEF AccountsAlong

\* The consumer that settles them all settles the first of them.
LEMMA TakesUpto ==
    ASSUME LedgerInv, ReplayInv, NEW trades, NEW n \in Nat, NEW U, InOrder(trades, n, U), TakesAll(U)
    PROVE  \A k \in 0..n : TakesAll(Upto(trades, k))
<1> DEFINE G == {d \in Nat : d <= n => TakesAll(Upto(trades, n - d))}
<1>1. 0 \in G
  <2>1. n - 0 = n /\ Upto(trades, n) = U
    BY DEF InOrder
  <2>2. TakesAll(Upto(trades, n - 0))
    BY <2>1
  <2> QED BY <2>2
<1>2. ASSUME NEW d \in Nat, d \in G PROVE d + 1 \in G
  <2> SUFFICES ASSUME d + 1 <= n PROVE TakesAll(Upto(trades, n - (d + 1)))
    OBVIOUS
  <2>1. PICK k \in 0..(n - 1) : k = n - (d + 1) /\ k + 1 = n - d
    OBVIOUS
  <2>2. PICK P, i, Q : P = Upto(trades, k) /\ i = trades[k + 1] /\ Q = Upto(trades, k + 1)
    OBVIOUS
  <2>3. P \in SUBSET UnsettledTrades /\ i \in UnsettledTrades \ P /\ Q = P \cup {i}
    BY <2>2, UptoIs
  <2>4. TakesAll(Q)
    <3>1. d <= n
      OBVIOUS
    <3> QED BY <1>2, <2>1, <2>2, <3>1
  <2>5. TakesAll(P)
    BY <2>3, <2>4, TablesAfterOne
  <2> QED BY <2>1, <2>2, <2>5
<1>3. \A d \in Nat : d \in G
  <2> HIDE DEF G
  <2> QED BY <1>1, <1>2, NatInduct
<1>4. ASSUME NEW k \in 0..n PROVE TakesAll(Upto(trades, k))
  <2>1. PICK d \in Nat : d = n - k /\ d <= n /\ n - d = k
    OBVIOUS
  <2> QED BY <1>3, <2>1
<1> QED BY <1>4

LEMMA ReplayedAccounts ==
    ASSUME LedgerInv, ReplayInv, IsFiniteSet(PlacedIn(order)), Uncharged,
           NEW trades, NEW n \in Nat, NEW U, InOrder(trades, n, U), TakesAll(U),
           NEW f \in [0..n -> KeptStates], ConsumedAlong(f, n, trades),
           NEW g, ReplayAlong(g, n, trades), AccountsAlong(ConsumedFirst, ReplayFirst)
    PROVE  AccountsAlong(f[n], g[n])
<1> DEFINE G == {k \in Nat : k <= n => AccountsAlong(f[k], g[k])}
<1>1. 0 \in G
  BY DEF ConsumedAlong, ReplayAlong
<1>2. ASSUME NEW k \in Nat, k \in G PROVE k + 1 \in G
  <2> SUFFICES ASSUME k + 1 <= n PROVE AccountsAlong(f[k + 1], g[k + 1])
    OBVIOUS
  <2>1. k \in 0..(n - 1) /\ k \in 0..n /\ k + 1 \in 0..n /\ k <= n
    OBVIOUS
  <2>2. PICK st, plan, P, i, Q : /\ st = f[k] /\ plan = g[k] /\ P = Upto(trades, k)
                                 /\ i = trades[k + 1] /\ Q = Upto(trades, k + 1)
    OBVIOUS
  <2>3. st \in KeptStates /\ OrdersAlong(st, P) /\ AccountsAlong(st, plan)
    BY <1>2, <2>1, <2>2, ConsumedOrders
  <2>4. f[k + 1] = Consume(st, log[i]) /\ g[k + 1] = ReplayOne(plan, log[i])
    BY <2>1, <2>2 DEF ConsumedAlong, ReplayAlong
  <2>5. P \in SUBSET UnsettledTrades /\ i \in UnsettledTrades \ P /\ Q = P \cup {i}
    BY <2>1, <2>2, UptoIs
  <2>6. TakesAll(Q)
    BY <2>1, <2>2, TakesUpto
  <2>7. AccountsAlong(Consume(st, log[i]), ReplayOne(plan, log[i]))
    BY <2>3, <2>5, <2>6, AccountsAlongStep
  <2> QED BY <2>4, <2>7
<1>3. n \in G
  <2> HIDE DEF G
  <2> QED BY <1>1, <1>2, NatInduct
<1> QED BY <1>3

----------------------------------------------------------------------------
\* ----- what the script reads: the trades by order
TookAt(o) == [i \in DOMAIN log |-> Took(o)[log[i]]]

LEMMA TookAtIs ==
    ASSUME LedgerInv, NEW o \in Orders, NEW w, w = TookAt(o)
    PROVE  \A i \in DOMAIN log :
              /\ w[i] \in Nat /\ log[i] \in Rows
              /\ w[i] = IF IsTrade(i) /\ o \in {log[i].buy, log[i].sell} THEN log[i].qty ELSE 0
<1>1. \A i \in DOMAIN log : log[i] \in Rows
  BY DEF LedgerInv, LedgerTypeOK, Rows
<1> QED BY <1>1, TookType DEF TookAt, Traded, IsTrade

LEMMA SettledAmong ==
    ASSUME LedgerInv, ReplayInv, NEW o \in Orders, NEW P \in SUBSET DOMAIN log, NEW w, w = TookAt(o)
    PROVE  SettledOf(log, P, o) = SumOver(w, P)
<1>1. PICK f : f = [i \in P |-> Took(o)[log[i]]]
  OBVIOUS
<1>2. IsFiniteSet(P)
  BY FS_Subset DEF ReplayInv
<1>3. \A i \in P : w[i] \in Int /\ f[i] = w[i]
  <2>1. \A i \in P : w[i] \in Int
    BY TookAtIs
  <2> QED BY <1>1, <2>1 DEF TookAt
<1>4. SumOver(f, P) = SumOver(w, P)
  BY <1>2, <1>3, SumSame
<1> QED BY <1>1, <1>4 DEF SettledOf

LEMMA FillQtyIs ==
    ASSUME LedgerInv, ReplayInv, NEW o \in Orders, NEW P \in SUBSET AllTrades
    PROVE  FillQty(o, P) = SettledOf(log, P, o)
<1>1. P \in SUBSET DOMAIN log /\ IsFiniteSet(P) /\ \A i \in P : IsTrade(i)
  BY UnsettledFinite, FS_Subset DEF AllTrades
<1>2. PICK w, T, f : w = TookAt(o) /\ T = TradesOf(o, P) /\ f = [i \in T |-> log[i].qty]
  OBVIOUS
<1>3. T \in SUBSET P /\ DOMAIN f = T
  BY <1>2 DEF TradesOf
<1>4. \A i \in P : w[i] \in Nat /\ w[i] = IF i \in T THEN log[i].qty ELSE 0
  BY <1>1, <1>2, TookAtIs DEF TradesOf
<1>5. \A i \in T : f[i] \in Int
  BY <1>2, <1>3, <1>4
<1>6. \A i \in P : w[i] = IF i \in T THEN f[i] ELSE 0
  BY <1>2, <1>4
<1>7. Total(f) = SumOver(w, P)
  BY <1>1, <1>3, <1>5, <1>6, TotalOfPart
<1>8. SettledOf(log, P, o) = SumOver(w, P)
  BY <1>1, <1>2, SettledAmong
<1> QED BY <1>2, <1>7, <1>8 DEF FillQty

\* What is recorded of an order is what is settled of it and what is not.
LEMMA RecordedFillIs ==
    ASSUME LedgerInv, ReplayInv, TablesInv, NEW o \in Orders,
           NEW m, m = SettledOf(log, UnsettledTrades, o)
    PROVE  m \in Nat /\ UnsettledFillQty(o) = m /\ RecordedFillQty(o) = order[o].filled + m
<1>1. PICK w, A, U, C, P : /\ w = TookAt(o) /\ A = AllTrades /\ U = UnsettledTrades
                           /\ C = A \ U /\ P = processed
  OBVIOUS
<1>2. /\ A \in SUBSET DOMAIN log /\ U \in SUBSET A /\ C \in SUBSET P /\ P \in SUBSET DOMAIN log
      /\ IsFiniteSet(A) /\ IsFiniteSet(U) /\ IsFiniteSet(P)
  BY <1>1, UnsettledFinite DEF AllTrades, UnsettledTrades, LedgerInv, LedgerTypeOK, TablesInv
<1>3. \A i \in DOMAIN log : w[i] \in Nat /\ (~IsTrade(i) => w[i] = 0)
  BY <1>1, TookAtIs
<1>4. (\A i \in A : w[i] \in Int) /\ (\A i \in P : w[i] \in Int) /\ \A i \in U : w[i] \in Nat
  BY <1>2, <1>3
<1>5. SumOver(w, A) = SumOver(w, U) + SumOver(w, C)
  BY <1>1, <1>2, <1>4, SumUnion
<1>6. SumOver(w, P) = SumOver(w, C)
  <2>1. \A i \in P \ C : w[i] = 0
    BY <1>1, <1>2, <1>3 DEF AllTrades, UnsettledTrades
  <2> QED BY <1>2, <1>4, <2>1, SumZeros
<1>7. U \in SUBSET DOMAIN log
  BY <1>2
<1>8. /\ SettledOf(log, A, o) = SumOver(w, A) /\ SettledOf(log, U, o) = SumOver(w, U)
      /\ SettledOf(log, P, o) = SumOver(w, P)
  BY <1>1, <1>2, <1>7, SettledAmong
<1>9. SumOver(w, U) \in Nat
  BY <1>2, <1>4, SumNat
<1>10. order[o].filled = SettledOf(log, P, o)
  BY <1>1 DEF TablesInv, FilledCounts
<1>11. FillQty(o, A) = SettledOf(log, A, o) /\ FillQty(o, U) = SettledOf(log, U, o)
  BY <1>1, <1>2, FillQtyIs
<1>12. order[o].filled \in Nat
  BY TablesOK DEF OrderRows
<1> QED BY <1>1, <1>5, <1>6, <1>8, <1>9, <1>10, <1>11, <1>12 DEF RecordedFillQty, UnsettledFillQty

----------------------------------------------------------------------------
\* ----- what the script checks and plans, and what the consumer would do
LEMMA ValidOrders ==
    ASSUME LedgerInv, ReplayInv, TablesInv
    PROVE  (\A o \in Orders : ValidOrder(o)) <=> TakesAll(UnsettledTrades)
<1>1. ASSUME NEW o \in Orders
      PROVE  ValidOrder(o) <=> TakesUpTo(o, SettledOf(log, UnsettledTrades, o))
  <2>1. PICK m, recorded : m = SettledOf(log, UnsettledTrades, o) /\ recorded = RecordedFillQty(o)
    OBVIOUS
  <2>2. m \in Nat /\ recorded = order[o].filled + m
    BY <2>1, RecordedFillIs
  <2>3. PICK f \in Nat, q \in Nat : f = order[o].filled /\ q = Terms[o].qty /\ f <= q
    BY TablesOK, TermsFacts DEF OrderRows
  <2>4. order[o].status = "NONE" => m = 0
    <3> SUFFICES ASSUME order[o].status = "NONE" PROVE m = 0
      OBVIOUS
    <3>1. PICK U, w : U = UnsettledTrades /\ w = TookAt(o)
      OBVIOUS
    <3>2. \A i \in U : i \in DOMAIN log /\ o \notin {log[i].buy, log[i].sell}
      BY <3>1, UnsettledIs
    <3>3. \A i \in U : w[i] = 0
      BY <3>1, <3>2, TookAtIs
    <3>4. IsFiniteSet(U) /\ U \in SUBSET DOMAIN log
      BY <3>1, <3>2, UnsettledFinite
    <3>5. SettledOf(log, U, o) = SumOver(w, U) /\ SumOver(w, U) = 0
      BY <3>1, <3>3, <3>4, SettledAmong, SumOfZeros
    <3> QED BY <2>1, <3>1, <3>5
  <2>5. order[o].status \in {"NONE", "OPEN", "PARTIAL", "FILLED", "CANCELED"}
    BY TablesOK DEF OrderRows
  <2>6. ValidOrder(o) <=> f + m <= q /\ f <= f + m /\ (Terminal(o) => f = f + m)
    BY <2>1, <2>2, <2>3 DEF ValidOrder
  <2>7. TakesUpTo(o, m) <=> m = 0 \/ (Active(o) /\ f + m <= q)
    BY <2>3 DEF TakesUpTo
  <2>8. m = 0 => f + m <= q /\ f = f + m
    BY <2>2, <2>3
  <2>9. m # 0 => f <= f + m /\ f # f + m
    BY <2>2, <2>3
  <2> QED BY <2>1, <2>2, <2>3, <2>4, <2>5, <2>6, <2>7, <2>8, <2>9 DEF Active, Terminal
<1> QED BY <1>1 DEF TakesAll

\* The rest of an order that is live.
LiveRest(o, row) ==
    IF row.status \in {"OPEN", "PARTIAL"} THEN Terms[o].qty - row.filled ELSE 0

LEMMA RestsBefore ==
    ASSUME LedgerInv, ReplayInv, TablesInv, TakesAll(UnsettledTrades), NEW o \in Orders
    PROVE  PreReplayQty(o) = LiveRest(o, order[o])
<1>1. PICK m : m = SettledOf(log, UnsettledTrades, o)
  OBVIOUS
<1>2. m \in Nat /\ UnsettledFillQty(o) = m /\ RecordedFillQty(o) = order[o].filled + m
  BY <1>1, RecordedFillIs
<1>3. TakesUpTo(o, m)
  BY <1>1 DEF TakesAll
<1>4. PICK f \in Nat, q \in Nat : f = order[o].filled /\ q = Terms[o].qty /\ f <= q
  BY TablesOK, TermsFacts DEF OrderRows
<1>5. PreReplayQty(o) = m + (IF Active(o) /\ f + m < q THEN q - (f + m) ELSE 0)
  BY <1>2, <1>4 DEF PreReplayQty, ActiveRemainder
<1>6. CASE Active(o)
  <2>1. f + m <= q
    BY <1>2, <1>3, <1>4 DEF TakesUpTo
  <2>2. m + (IF f + m < q THEN q - (f + m) ELSE 0) = q - f
    BY <1>2, <1>4, <2>1
  <2> QED BY <1>4, <1>5, <1>6, <2>2 DEF LiveRest, Active
<1>7. CASE ~Active(o)
  <2>1. m = 0
    BY <1>3, <1>7 DEF TakesUpTo
  <2> QED BY <1>5, <1>7, <2>1 DEF LiveRest, Active
<1> QED BY <1>6, <1>7

LEMMA RestsAfter ==
    ASSUME LedgerInv, ReplayInv, TablesInv, NEW U, U = UnsettledTrades, TakesAll(U), NEW o \in Orders
    PROVE  /\ ActiveRemainder(o) = LiveRest(o, TablesAfter(U)[o])
           /\ PlannedOrder(o) = TablesAfter(U)[o]
<1>1. PICK m : m = SettledOf(log, U, o)
  OBVIOUS
<1>2. m \in Nat /\ RecordedFillQty(o) = order[o].filled + m
  BY <1>1, RecordedFillIs
<1>3. TakesUpTo(o, m) /\ TablesAfter(U)[o] = OrderAfter(o, m)
  BY <1>1 DEF TakesAll, TablesAfter
<1>4. PICK f \in Nat, q \in Nat \ {0} : f = order[o].filled /\ q = Terms[o].qty /\ f <= q
  BY TablesOK, TermsFacts DEF OrderRows
<1>5. PICK row : row = order[o] /\ row \in OrderRows /\ RowFits(o, row)
  BY TablesOK DEF ReplayInv, RowsFit
<1>6. ActiveRemainder(o) = IF Active(o) /\ f + m < q THEN q - (f + m) ELSE 0
  BY <1>2, <1>4 DEF ActiveRemainder
<1>7. CASE m = 0
  <2>1. OrderAfter(o, m) = row /\ f + m = f
    BY <1>4, <1>5, <1>7 DEF OrderAfter
  <2>2. Active(o) <=> row.status \in {"OPEN", "PARTIAL"}
    BY <1>5 DEF Active
  <2>3. ActiveRemainder(o) = LiveRest(o, row)
    BY <1>4, <1>5, <1>6, <2>1, <2>2 DEF LiveRest
  <2>4. PlannedOrder(o) = row
    <3>1. CASE ~Active(o)
      BY <1>5, <3>1 DEF PlannedOrder
    <3>2. CASE Active(o)
      <4>1. row.status = IF f >= q THEN "FILLED" ELSE IF f > 0 THEN "PARTIAL" ELSE "OPEN"
        BY <1>4, <1>5, <2>2, <3>2 DEF RowFits
      <4>2. PlannedOrder(o) = [row EXCEPT !.filled = f, !.status = row.status]
        BY <1>2, <1>4, <1>5, <2>1, <3>2, <4>1 DEF PlannedOrder
      <4> QED BY <1>4, <1>5, <4>2 DEF OrderRows
    <3> QED BY <3>1, <3>2
  <2> QED BY <1>3, <2>1, <2>3, <2>4
<1>8. CASE m # 0
  <2>1. Active(o) /\ f + m <= q
    BY <1>3, <1>4, <1>8 DEF TakesUpTo
  <2>2. PICK g \in Nat \ {0} : g = f + m /\ g <= q
    BY <1>2, <1>4, <1>8, <2>1
  <2>3. PICK s, new : s = (IF g >= q THEN "FILLED" ELSE "PARTIAL") /\ new = OrderAfter(o, m)
    OBVIOUS
  <2>4. new = [row EXCEPT !.status = s, !.filled = g]
    BY <1>4, <1>5, <1>8, <2>2, <2>3 DEF OrderAfter, TradedRow
  <2>5. new.status = s /\ new.filled = g
    BY <1>5, <2>4 DEF OrderRows
  <2>6. PlannedOrder(o) = [row EXCEPT !.filled = g, !.status = s]
    <3>1. s = IF g >= q THEN "FILLED" ELSE IF g > 0 THEN "PARTIAL" ELSE "OPEN"
      BY <2>2, <2>3
    <3> QED BY <1>2, <1>4, <1>5, <2>1, <2>2, <3>1 DEF PlannedOrder
  <2>7. PlannedOrder(o) = new
    BY <1>5, <2>4, <2>6 DEF OrderRows
  <2>8. ActiveRemainder(o) = LiveRest(o, new)
    BY <1>4, <1>6, <2>1, <2>2, <2>3, <2>5 DEF LiveRest
  <2> QED BY <1>3, <2>3, <2>7, <2>8
<1> QED BY <1>7, <1>8

\* What the script has reserved for the rests of a table's orders.
LEMMA ReservesAre ==
    ASSUME LedgerInv, IsFiniteSet(PlacedIn(order)), NEW table \in OrderTables,
           PlacedIn(table) = PlacedIn(order), UnitsKept(table),
           NEW rest, \A o \in Orders : rest[o] = LiveRest(o, table[o]), NEW a \in Accounts
    PROVE  Reserves(a, rest) = [hold |-> Reserved(table, a, "BUY"), holdQty |-> Reserved(table, a, "SELL")]
<1>1. PICK P : P = PlacedIn(order)
  OBVIOUS
<1>2. ASSUME NEW o \in Orders
      PROVE  /\ rest[o] \in Int /\ order[o].unit * rest[o] \in Int
             /\ EscrowOf(o, table[o]) = IF Terms[o].side = "BUY" THEN order[o].unit * rest[o] ELSE rest[o]
  <2>1. PICK f \in Nat, q \in Nat, u \in Nat : /\ f = table[o].filled /\ q = Terms[o].qty
                                              /\ u = order[o].unit /\ u = table[o].unit
    BY TablesOK, TermsFacts DEF OrderTables, OrderRows, UnitsKept
  <2>2. rest[o] = IF table[o].status \in {"OPEN", "PARTIAL"} THEN q - f ELSE 0
    BY <2>1 DEF LiveRest
  <2>3. PICK r \in Int : r = rest[o] /\ (table[o].status \in {"OPEN", "PARTIAL"} => r = q - f)
                         /\ (table[o].status \notin {"OPEN", "PARTIAL"} => r = 0)
    BY <2>1, <2>2
  <2>4. u * r \in Int /\ u * 0 = 0
    BY <2>1, <2>3
  <2> QED BY <2>1, <2>3, <2>4 DEF EscrowOf
<1>3. Reserved(table, a, "BUY") = Total([o \in OrdersOf(a, "BUY") |-> order[o].unit * rest[o]])
  <2>1. PICK T, f, h : /\ T = OrdersOf(a, "BUY") /\ f = [o \in T |-> order[o].unit * rest[o]]
                       /\ h = Part(table, a, "BUY")
    OBVIOUS
  <2>2. T \in SUBSET P /\ DOMAIN f = T /\ \A o \in T : o \in Orders
    BY <1>1, <2>1 DEF OrdersOf, PlacedIn
  <2>3. \A o \in T : f[o] \in Int
    BY <1>2, <2>1, <2>2
  <2>4. \A o \in P : h[o] = IF o \in T THEN f[o] ELSE 0
    BY <1>1, <1>2, <2>1 DEF Part, PlacedIn, OrdersOf
  <2>5. Total(f) = SumOver(h, P)
    BY <1>1, <2>2, <2>3, <2>4, TotalOfPart
  <2> QED BY <1>1, <2>1, <2>5 DEF Reserved
<1>4. Reserved(table, a, "SELL") = Total([o \in OrdersOf(a, "SELL") |-> rest[o]])
  <2>1. PICK T, f, h : /\ T = OrdersOf(a, "SELL") /\ f = [o \in T |-> rest[o]]
                       /\ h = Part(table, a, "SELL")
    OBVIOUS
  <2>2. T \in SUBSET P /\ DOMAIN f = T /\ \A o \in T : o \in Orders
    BY <1>1, <2>1 DEF OrdersOf, PlacedIn
  <2>3. \A o \in T : f[o] \in Int
    BY <1>2, <2>1, <2>2
  <2>4. \A o \in P : h[o] = IF o \in T THEN f[o] ELSE 0
    BY <1>1, <1>2, <2>1 DEF Part, PlacedIn, OrdersOf
  <2>5. Total(f) = SumOver(h, P)
    BY <1>1, <2>2, <2>3, <2>4, TotalOfPart
  <2> QED BY <1>1, <2>1, <2>5 DEF Reserved
<1> QED BY <1>3, <1>4 DEF Reserves

LEMMA PrestateIs ==
    ASSUME LedgerInv, ReplayInv, TablesInv, HoldsExact, TakesAll(UnsettledTrades)
    PROVE  Prestate = account
<1>1. PICK rest : rest = [o \in Orders |-> PreReplayQty(o)]
  OBVIOUS
<1>2. \A o \in Orders : rest[o] = LiveRest(o, order[o])
  BY <1>1, RestsBefore
<1>3. order \in OrderTables /\ UnitsKept(order) /\ account \in AccountTables
  BY TablesOK DEF UnitsKept, AccountTables
<1>4. IsFiniteSet(PlacedIn(order))
  BY DEF HoldsExact
<1>5. ASSUME NEW a \in Accounts
      PROVE  [account[a] EXCEPT !.hold = Reserves(a, rest).hold, !.holdQty = Reserves(a, rest).holdQty]
               = account[a]
  <2>1. PICK r : r = Reserves(a, rest)
    OBVIOUS
  <2>2. r = [hold |-> Reserved(order, a, "BUY"), holdQty |-> Reserved(order, a, "SELL")]
    BY <1>2, <1>3, <1>4, <2>1, ReservesAre
  <2>3. r.hold = account[a].hold /\ r.holdQty = account[a].holdQty
    BY <2>2 DEF HoldsExact
  <2>4. PICK row : row = account[a] /\ row \in AccountRows
    BY <1>3 DEF AccountTables
  <2>5. [row EXCEPT !.hold = row.hold, !.holdQty = row.holdQty] = row
    BY <2>4 DEF AccountRows
  <2> QED BY <2>1, <2>3, <2>4, <2>5
<1>6. Prestate = [a \in Accounts |-> account[a]]
  BY <1>1, <1>5, Zenon DEF Prestate
<1> QED BY <1>3, <1>6 DEF AccountTables

LEMMA ReplayStarts ==
    ASSUME LedgerInv, HoldsExact, HoldsAreFunded, Prestate = account
    PROVE  AccountsAlong(ConsumedFirst, ReplayFirst)
<1>1. HoldsExactOf(order, account) /\ FreeOf(account) /\ IsFiniteSet(PlacedIn(order))
  BY DEF HoldsExact, HoldsExactOf, HoldsAreFunded, FreeOf
<1>2. order \in OrderTables /\ account \in AccountTables /\ \A o \in Orders : order[o].filled <= Terms[o].qty
  BY TablesOK DEF AccountTables
<1>3. \A a \in Accounts : IsSound(account[a])
  BY <1>1, <1>2, SoundIs
<1> QED BY <1>1, <1>3 DEF AccountsAlong, ConsumedFirst, ReplayFirst

\* What is on hold after the replay is what the script has reserved.
HoldsAsReserved(acc) ==
    \A a \in Accounts : [hold |-> acc[a].hold, holdQty |-> acc[a].holdQty]
                          = Reserves(a, [o \in Orders |-> ActiveRemainder(o)])

LEMMA HoldsReserved ==
    ASSUME LedgerInv, ReplayInv, TablesInv, HoldsExact, NEW U, U = UnsettledTrades, TakesAll(U),
           NEW acc, HoldsExactOf(TablesAfter(U), acc)
    PROVE  HoldsAsReserved(acc)
<1>1. PICK rest, table : rest = [o \in Orders |-> ActiveRemainder(o)] /\ table = TablesAfter(U)
  OBVIOUS
<1>2. \A o \in Orders : rest[o] = LiveRest(o, table[o])
  BY <1>1, RestsAfter
<1>3. U \in SUBSET UnsettledTrades /\ IsFiniteSet(PlacedIn(order))
  BY DEF HoldsExact
<1>4. table \in OrderTables /\ PlacedIn(table) = PlacedIn(order) /\ UnitsKept(table)
  BY <1>1, <1>3, TakesWithin DEF UnitsKept
<1>5. ASSUME NEW a \in Accounts
      PROVE  [hold |-> acc[a].hold, holdQty |-> acc[a].holdQty] = Reserves(a, rest)
  <2>1. Reserves(a, rest) = [hold |-> Reserved(table, a, "BUY"), holdQty |-> Reserved(table, a, "SELL")]
    BY <1>2, <1>3, <1>4, ReservesAre
  <2>2. acc[a].hold = Reserved(table, a, "BUY") /\ acc[a].holdQty = Reserved(table, a, "SELL")
    BY <1>1 DEF HoldsExactOf
  <2> QED BY <2>1, <2>2
<1> QED BY <1>1, <1>5 DEF HoldsAsReserved

\* The script and the consumer, on one order of the trades.
TradesMatched(trades) ==
    /\ RecoveryPlan(trades).safe <=> Consumed(trades).accepted /\ ~FeeAwareReplayRequired
    /\ RecoveryPlan(trades).safe => /\ RecoveryPlan(trades).order = Consumed(trades).order
                                    /\ RecoveryPlan(trades).account = Consumed(trades).account

LEMMA PlanIs ==
    ASSUME NEW trades
    PROVE  /\ RecoveryPlan(trades).safe <=> /\ \A o \in Orders : ValidOrder(o)
                                            /\ Replay(trades).sound
                                            /\ HoldsAsReserved(Replay(trades).account)
                                            /\ ~FeeAwareReplayRequired
           /\ RecoveryPlan(trades).account = Replay(trades).account
           /\ RecoveryPlan(trades).order = [o \in Orders |-> PlannedOrder(o)]
BY DEF RecoveryPlan, HoldsAsReserved

LEMMA TradesMatch ==
    ASSUME LedgerInv, ReplayInv, TablesInv, HoldsExact, HoldsAreFunded, NEW trades \in ReplayOrders
    PROVE  TradesMatched(trades)
<1>0. PICK n \in Nat : \E W : InOrder(trades, n, W)
  BY TradesInOrder
<1>1. PICK U : InOrder(trades, n, U)
  BY <1>0
<1>2. U = UnsettledTrades /\ Upto(trades, n) = U
  BY <1>1 DEF InOrder
<1>3. PICK plan, made : plan = Replay(trades) /\ made = Consumed(trades)
  OBVIOUS
<1>4. CASE FeeAwareReplayRequired
  BY <1>4, PlanIs DEF TradesMatched
<1>5. CASE ~FeeAwareReplayRequired
  <2>1. Uncharged
    BY <1>5 DEF FeeAwareReplayRequired, Uncharged
  <2>2. PICK f \in [0..n -> KeptStates] : ConsumedAlong(f, n, trades)
    BY <1>1, <2>1, ConsumedIterate
  <2>3. f[n] = made /\ OrdersAlong(made, U)
    <3>1. n \in 0..n /\ f[n] = made
      BY <1>3, <2>2 DEF ConsumedAlong
    <3>2. OrdersAlong(f[n], Upto(trades, n))
      BY <1>1, <2>1, <2>2, <3>1, ConsumedOrders
    <3> QED BY <1>2, <3>1, <3>2
  <2>4. made.order = TablesAfter(U) /\ (made.accepted <=> TakesAll(U))
    BY <2>3 DEF OrdersAlong
  <2>5. (\A o \in Orders : ValidOrder(o)) <=> TakesAll(U)
    BY <1>2, ValidOrders
  <2>6. CASE ~TakesAll(U)
    BY <1>3, <2>4, <2>5, <2>6, PlanIs DEF TradesMatched
  <2>7. CASE TakesAll(U)
    <3>1. Prestate = account /\ account \in AccountTables
      BY <1>2, <2>7, PrestateIs, TablesOK DEF AccountTables
    <3>2. AccountsAlong(ConsumedFirst, ReplayFirst)
      BY <3>1, ReplayStarts
    <3>3. PICK g \in [0..n -> PlanStates] : ReplayAlong(g, n, trades)
      BY <1>1, <3>1, ReplayIterate
    <3>4. IsFiniteSet(PlacedIn(order))
      BY DEF HoldsExact
    <3>5. AccountsAlong(f[n], g[n])
      BY <1>1, <2>1, <2>2, <2>7, <3>2, <3>3, <3>4, ReplayedAccounts
    <3>6. AccountsAlong(made, plan)
      BY <1>3, <2>3, <3>3, <3>5 DEF ReplayAlong
    <3>7. plan.account = made.account /\ plan.sound = TRUE /\ HoldsExactOf(TablesAfter(U), plan.account)
      BY <2>4, <3>6 DEF AccountsAlong
    <3>8. HoldsAsReserved(plan.account)
      BY <1>2, <2>7, <3>7, HoldsReserved
    <3>9. [o \in Orders |-> PlannedOrder(o)] = TablesAfter(U)
      <4>1. \A o \in Orders : PlannedOrder(o) = TablesAfter(U)[o]
        BY <1>2, <2>7, RestsAfter
      <4> QED BY <4>1 DEF TablesAfter
    <3> QED BY <1>3, <1>5, <2>4, <2>5, <2>7, <3>7, <3>8, <3>9, PlanIs DEF TradesMatched
  <2> QED BY <2>6, <2>7
<1> QED BY <1>4, <1>5

\* The recovery script does what the settlement consumer would do: whatever was
\* recorded and however it was settled, in every order in which it may read the
\* unsettled trades, it is ready to settle them exactly if the consumer could
\* settle them all, none charged a fee, and it leaves the same orders and accounts
\* (buildRecoveryPlan of settlement-recovery-plan.ts against settleTrade).
THEOREM RecoveryAlwaysMatches == LedgerSpec => []RecoveryMatchesSettlement
<1>1. LedgerInit => ReplayInv /\ TablesInv
  BY ReplayInvInit, TablesInit
<1>2. LedgerInv /\ ReplayInv /\ TablesInv /\ [LedgerNext]_ledgerVars => ReplayInv' /\ TablesInv'
  BY ReplayInvNext, TablesNext
<1>3. LedgerInv /\ ReplayInv /\ TablesInv /\ HoldsExact /\ HoldsAreFunded => RecoveryMatchesSettlement
  BY TradesMatch DEF RecoveryMatchesSettlement, TradesMatched
<1> QED BY <1>1, <1>2, <1>3, LedgerInvariant, HoldsExactAlways, LedgerHoldsAreFunded, PTL DEF LedgerSpec
=============================================================================
