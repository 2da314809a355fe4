----------------------------- MODULE BookProofs -----------------------------
(***************************************************************************)
(* The lists of a book that is driven by any sequence of orders and        *)
(* cancels.                                                                *)
(*                                                                         *)
(* BookInv is the inductive invariant.  It says of each list what          *)
(* insertResting relies on when it looks for the place of an order, and    *)
(* that every id in the book is at most the number of orders placed: the   *)
(* next order is therefore the latest of its price.                        *)
(* KnownInv adds what was placed of every order in the book, and MatchInv  *)
(* that the last answer is that of the book before it to the last order:   *)
(* what is said of a match is said of these two.  A replay and a snapshot  *)
(* are functions of the book alone, so BookInv is enough for them.         *)
(***************************************************************************)
EXTENDS MCOrderBook, Lemmas

LastPrices == Nat \cup {OpenPrice}
Books == BooksIn(Nat, Accts, LastPrices)
ArrivedBy(list, n) == \A i \in 1..Len(list) : list[i].id <= n

BookInv ==
    /\ placed \in Seq(IncomingIn(Nat, Accts))
    /\ book \in Books /\ GoodBook(book)
    /\ TimeOrdered(book.bids) /\ TimeOrdered(book.asks)
    /\ ArrivedBy(book.bids, Len(placed)) /\ ArrivedBy(book.asks, Len(placed))

LEMMA InFrontIsAhead == ASSUME NEW r, NEW s PROVE InFront(r, s) <=> Ahead(r, s)
  BY DEF InFront, Ahead

\* The order put in arrived after all the others.
LEMMA InsertTimed ==
    ASSUME NEW I, NEW A, I \subseteq Nat, NEW list \in Seq(RestingIn(I, A)),
           NEW o \in RestingIn(I, A), NEW N,
           NEW p \in 1..(Len(list) + 1), InsertedAt(list, o, p, N),
           OneSide(list, o.side), TimeOrdered(list), \A i \in 1..Len(list) : list[i].id < o.id
    PROVE  TimeOrdered(N)
<1>1. Len(list) \in Nat /\ p \in Nat /\ Len(N) = Len(list) + 1
  BY DEF InsertedAt
<1>2. \A k \in 1..Len(list) : list[k].price \in Nat /\ list[k].id \in Nat /\ list[k].side = o.side
  <2> TAKE k \in 1..Len(list)
  <2>1. list[k] \in RestingIn(I, A)
    OBVIOUS
  <2> QED BY <2>1, RestingFields DEF OneSide
<1>3. o.price \in Nat /\ o.side \in Sides /\ o.id \in Nat
  BY RestingFields
<1>4. SUFFICES ASSUME NEW i \in 1..Len(N), NEW j \in 1..Len(N), i < j
               PROVE  InFront(N[i], N[j])
  BY DEF TimeOrdered
<1>5. CASE j < p
  <2>1. i < p /\ i \in Nat /\ j \in Nat
    BY <1>4, <1>5, <1>1
  <2> QED BY <1>4, <1>5, <2>1, InsertedFrom DEF TimeOrdered
<1>6. CASE j = p
  <2>1. i < p /\ i \in 1..(p - 1) /\ i \in 1..Len(list)
    BY <1>1, <1>4, <1>6
  <2>2. N[i] = list[i] /\ ~Better(o.side, o.price, list[i].price) /\ N[j] = o
    BY <1>6, <2>1 DEF InsertedAt
  <2>3. list[i].price = o.price \/ Better(o.side, list[i].price, o.price)
    BY <1>2, <1>3, <2>1, <2>2, BetterIs
  <2> QED BY <1>2, <2>1, <2>2, <2>3 DEF InFront
<1>7. CASE j > p
  <2>1. j - 1 \in 1..Len(list) /\ N[j] = list[j - 1]
    BY <1>7, InsertedFrom
  <2>2. CASE i < p
    <3>1. i \in 1..Len(list) /\ N[i] = list[i]
      BY <2>2, InsertedFrom
    <3>2. i < j - 1
      BY <1>1, <1>7, <2>2
    <3> QED BY <2>1, <3>1, <3>2 DEF TimeOrdered
  <2>3. CASE i = p
    <3>1. N[i] = o /\ p <= Len(list) /\ p \in 1..Len(list)
      BY <1>1, <1>7, <2>3, InsertedFrom
    <3>2. Better(o.side, o.price, list[p].price)
      BY <3>1 DEF InsertedAt
    <3>3. ~Better(o.side, list[j - 1].price, list[p].price)
      <4>1. CASE p = j - 1
        BY <4>1, <1>2, <1>3, <3>1, BetterIs
      <4>2. CASE p # j - 1
        <5>1. p < j - 1
          BY <4>2, <1>1, <1>7
        <5>2. InFront(list[p], list[j - 1])
          BY <5>1, <3>1, <2>1 DEF TimeOrdered
        <5> QED BY <5>2, <1>2, <1>3, <2>1, <3>1, BetterIs DEF InFront
      <4> QED BY <4>1, <4>2
    <3>4. Better(o.side, o.price, list[j - 1].price)
      BY <1>2, <1>3, <2>1, <3>1, <3>2, <3>3, BetterIs, SMTT(60)
    <3> QED BY <2>1, <3>1, <3>4 DEF InFront
  <2>4. CASE i > p
    <3>1. i - 1 \in 1..Len(list) /\ N[i] = list[i - 1]
      BY <2>4, InsertedFrom
    <3>2. i - 1 < j - 1
      BY <1>4
    <3> QED BY <2>1, <3>1, <3>2 DEF TimeOrdered
  <2> QED BY <1>1, <2>2, <2>3, <2>4
<1> QED BY <1>1, <1>5, <1>6, <1>7

LEMMA BookInvInit == Init => BookInv
<1> SUFFICES ASSUME Init PROVE BookInv
  OBVIOUS
<1>1. book = EmptyBook(OpenPrice) /\ placed = <<>>
  BY DEF Init
<1>2. book \in Books /\ GoodBook(book)
  BY <1>1, EmptyGood DEF Books, LastPrices
<1>3. book.bids = <<>> /\ book.asks = <<>> /\ 1..Len(<<>>) = {}
  BY <1>1 DEF EmptyBook
<1> QED BY <1>1, <1>2, <1>3 DEF BookInv, TimeOrdered, ArrivedBy

\* What applyOrder answers, from where its loop ended.
Outcome(b, inc) ==
    LET r == ApplyOrder(b, inc)
    IN  [fills |-> r.fills, closed |-> r.closed, resting |-> r.resting, canceled |-> r.canceled]

\* What an order that is placed is, and what is recorded of it.
LEMMA PlacedIs ==
    ASSUME BookInv, Place
    PROVE  \E inc \in IncomingIn(Nat, Accts) :
              /\ inc.id = Len(placed) + 1
              /\ book' = ApplyOrder(book, inc).book /\ placed' = Append(placed, inc)
              /\ before' = book /\ result' = Outcome(book, inc)
<1>1. PICK inc \in Incoming(Len(placed) + 1) :
          /\ book' = ApplyOrder(book, inc).book /\ placed' = Append(placed, inc)
          /\ before' = book /\ result' = Outcome(book, inc)
  BY DEF Place, Outcome
<1>2. placed \in Seq(IncomingIn(Nat, Accts)) /\ Len(placed) \in Nat
  BY DEF BookInv
<1>3. inc \in [id : {Len(placed) + 1}, acct : Accts, side : Sides, type : {"LIMIT", "MARKET"},
               price : Prices \cup {NoPrice}, qty : 1..MaxQty]
  BY <1>1 DEF Incoming
<1>4. Prices \cup {NoPrice} \subseteq Nat /\ 1..MaxQty \subseteq Nat \ {0}
  BY MCBounds DEF NoPrice
<1>5. inc \in IncomingIn(Nat, Accts) /\ inc.id = Len(placed) + 1
  <2>1. inc.id = Len(placed) + 1 /\ inc.id \in Nat
    BY <1>2, <1>3
  <2>2. inc \in [id : Nat, acct : Accts, side : Sides, type : {"LIMIT", "MARKET"},
                 price : Nat, qty : Nat \ {0}]
    BY <1>3, <1>4, <2>1
  <2> QED BY <2>1, <2>2 DEF IncomingIn
<1> QED BY <1>1, <1>5

LEMMA PlacePreserves == BookInv /\ Place => BookInv'
<1> SUFFICES ASSUME BookInv, Place PROVE BookInv'
  OBVIOUS
<1>1. PICK inc \in IncomingIn(Nat, Accts) :
          /\ inc.id = Len(placed) + 1
          /\ book' = ApplyOrder(book, inc).book /\ placed' = Append(placed, inc)
  BY PlacedIs
<1>2. placed \in Seq(IncomingIn(Nat, Accts)) /\ Len(placed) \in Nat
  BY DEF BookInv
<1>3. inc \in IncomingIn(Nat, Accts) /\ inc.id = Len(placed) + 1
  BY <1>1
<1>4. placed' \in Seq(IncomingIn(Nat, Accts)) /\ Len(placed') = Len(placed) + 1
  BY <1>1, <1>2, <1>3
<1>5. PICK b, st : b = book' /\ st = MatchLoop(book, inc)
  OBVIOUS
<1>6. b \in Books /\ Applied(book, inc, st, b) /\ GoodBook(b)
  <2>1. PICK L : L = LastPrices /\ Nat \subseteq L
    BY DEF LastPrices
  <2>2. book \in BooksIn(Nat, Accts, L) /\ GoodBook(book) /\ b = ApplyOrder(book, inc).book
    BY <1>1, <1>5, <2>1 DEF BookInv, Books
  <2>3. b \in BooksIn(Nat, Accts, L) /\ Applied(book, inc, st, b)
    BY <1>3, <1>5, <2>1, <2>2, AppliedIs
  <2>4. GoodBook(b)
    BY <1>3, <1>5, <2>1, <2>2, <2>3, AppliedGood
  <2> QED BY <2>1, <2>3, <2>4 DEF Books
<1>7. PICK side : side = inc.side /\ side \in Sides
  BY <1>3 DEF IncomingIn
<1>8. PICK list, same, grown, K, n :
          /\ list = book[Opposite(side)] /\ same = book[ListOf(side)]
          /\ grown = b[ListOf(side)] /\ K = st.keep /\ n = Len(placed)
  OBVIOUS
<1>9. /\ list \in Seq(RestingIn(Nat, Accts)) /\ same \in Seq(RestingIn(Nat, Accts))
      /\ TimeOrdered(list) /\ TimeOrdered(same) /\ ArrivedBy(list, n) /\ ArrivedBy(same, n)
      /\ OneSide(same, side)
  BY <1>7, <1>8 DEF BookInv, Books, BooksIn, GoodBook, ListOf, Opposite, Sides
<1>10. b[Opposite(side)] = K /\ PartOf(K, list)
  <2>1. /\ list \in Seq(RestingIn(Nat, Accts)) /\ st \in LoopsIn(Nat, Accts, LastPrices)
        /\ Shape(list, book.last, inc, st, Len(list))
    <3>1. PICK L : L = LastPrices /\ Nat \subseteq L /\ book \in BooksIn(Nat, Accts, L)
      BY DEF BookInv, Books, LastPrices
    <3> QED BY <1>3, <1>5, <1>7, <1>8, <3>1, MatchShape
  <2>2. PartOf(K, list)
    BY <1>8, <2>1, KeptIsPart
  <2> QED BY <1>6, <1>7, <1>8, <2>2 DEF Applied
<1>11. TimeOrdered(K) /\ ArrivedBy(K, n + 1)
  <2>1. TimeOrdered(K) /\ \A k \in 1..Len(K) : \E j \in 1..Len(list) : SameOrder(K[k], list[j])
    BY <1>9, <1>10, PartOrdered
  <2>2. \A j \in 1..Len(list) : list[j].id \in Nat /\ list[j].id <= n
    <3> TAKE j \in 1..Len(list)
    <3>1. list[j] \in RestingIn(Nat, Accts)
      BY <1>9
    <3> QED BY <3>1, <1>9, RestingFields DEF ArrivedBy
  <2>3. n \in Nat
    BY <1>2, <1>8
  <2>4. ASSUME NEW k \in 1..Len(K) PROVE K[k].id <= n + 1
    <3>1. PICK j \in 1..Len(list), i \in Nat : i = list[j].id /\ i <= n /\ SameOrder(K[k], list[j])
      BY <2>1, <2>2
    <3>2. K[k].id = i
      BY <3>1 DEF SameOrder
    <3> QED BY <2>3, <3>1, <3>2
  <2> QED BY <2>1, <2>4 DEF ArrivedBy
<1>12. TimeOrdered(grown) /\ ArrivedBy(grown, n + 1)
  <2>1. \A k \in 1..Len(same) : same[k].id \in Nat /\ same[k].id <= n
    <3> TAKE k \in 1..Len(same)
    <3>1. same[k] \in RestingIn(Nat, Accts)
      BY <1>9
    <3> QED BY <3>1, <1>9, RestingFields DEF ArrivedBy
  <2>2. n \in Nat
    BY <1>2, <1>8
  <2>3. CASE grown = same
    BY <2>1, <2>2, <2>3, <1>9 DEF ArrivedBy
  <2>4. CASE grown # same
    <3>1. PICK o : o = [id |-> inc.id, acct |-> inc.acct, side |-> inc.side,
                        price |-> inc.price, qty |-> st.left, total |-> inc.qty]
      OBVIOUS
    <3>2. st.left > 0 /\ Inserted(same, o, grown)
      BY <1>6, <1>7, <1>8, <2>4, <3>1 DEF Applied
    <3>3. o \in RestingIn(Nat, Accts) /\ o.side = side /\ o.id = n + 1
      <4>1. st \in LoopsIn(Nat, Accts, LastPrices)
        <5>1. PICK L : L = LastPrices /\ Nat \subseteq L /\ book \in BooksIn(Nat, Accts, L)
          BY DEF BookInv, Books, LastPrices
        <5> QED BY <1>3, <1>5, <1>7, <1>8, <5>1, MatchShape
      <4>2. st.left \in Nat /\ st.left # 0
        BY <3>2, <4>1 DEF LoopsIn
      <4> QED BY <4>2, <1>3, <1>7, <1>8, <3>1 DEF RestingIn, IncomingIn
    <3>4. PICK p \in 1..(Len(same) + 1) : InsertedAt(same, o, p, grown)
      BY <3>2 DEF Inserted
    <3>5. \A k \in 1..Len(same) : same[k].id < o.id
      BY <2>1, <2>2, <3>3
    <3>6. TimeOrdered(grown)
      BY <1>9, <3>3, <3>4, <3>5, InsertTimed
    <3>7. ASSUME NEW i \in 1..Len(grown) PROVE grown[i].id <= n + 1
      <4>1. i < p \/ i = p \/ i > p
        BY <1>9, <3>4 DEF InsertedAt
      <4>2. grown[i] = o \/ \E j \in 1..Len(same) : grown[i] = same[j]
        BY <1>9, <3>3, <3>4, <4>1, InsertedFrom
      <4> QED BY <4>2, <2>1, <2>2, <3>3
    <3> QED BY <3>6, <3>7 DEF ArrivedBy
  <2> QED BY <2>3, <2>4
<1>13. /\ TimeOrdered(b.bids) /\ TimeOrdered(b.asks)
       /\ ArrivedBy(b.bids, n + 1) /\ ArrivedBy(b.asks, n + 1)
  BY <1>7, <1>8, <1>10, <1>11, <1>12 DEF ListOf, Opposite, Sides
<1> QED BY <1>4, <1>5, <1>6, <1>8, <1>13 DEF BookInv

LEMMA CancelPreserves == BookInv /\ Cancel => BookInv'
<1> SUFFICES ASSUME BookInv, Cancel PROVE BookInv'
  OBVIOUS
<1>1. PICK ids, b, n : /\ b = book' /\ b = WithoutOrders(book, ids) /\ placed' = placed
                       /\ n = Len(placed)
  BY DEF Cancel, CancelOrder
<1>2. /\ b \in Books /\ PartOf(b.bids, book.bids) /\ PartOf(b.asks, book.asks) /\ GoodBook(b)
  BY <1>1, WithoutGood DEF BookInv, Books
<1>3. ASSUME NEW s, NEW t, PartOf(s, t), TimeOrdered(t), ArrivedBy(t, n)
      PROVE  TimeOrdered(s) /\ ArrivedBy(s, n)
  <2>1. TimeOrdered(s) /\ \A k \in 1..Len(s) : \E j \in 1..Len(t) : SameOrder(s[k], t[j])
    BY <1>3, PartOrdered
  <2> QED BY <2>1, <1>3 DEF ArrivedBy, SameOrder
<1>4. /\ TimeOrdered(book.bids) /\ TimeOrdered(book.asks)
      /\ ArrivedBy(book.bids, n) /\ ArrivedBy(book.asks, n)
  BY <1>1 DEF BookInv
<1>5. /\ TimeOrdered(b.bids) /\ TimeOrdered(b.asks)
      /\ ArrivedBy(b.bids, n) /\ ArrivedBy(b.asks, n)
  BY <1>2, <1>3, <1>4
<1> QED BY <1>1, <1>2, <1>5 DEF BookInv

LEMMA BookInvAlways == Spec => []BookInv
<1>1. BookInv /\ [Next]_vars => BookInv'
  <2> SUFFICES ASSUME BookInv, [Next]_vars PROVE BookInv'
    OBVIOUS
  <2>1. CASE Place
    BY <2>1, PlacePreserves
  <2>2. CASE Cancel
    BY <2>2, CancelPreserves
  <2>3. CASE UNCHANGED vars
    BY <2>3 DEF vars, BookInv
  <2> QED BY <2>1, <2>2, <2>3 DEF Next
<1> QED BY BookInvInit, <1>1, PTL DEF Spec

\* Both lists stay in price-time priority whatever is placed and canceled: the
\* binary search of insertResting always meets a sorted list, and the in-place
\* edits of applyOrder and cancelOrder leave one.
THEOREM BookStaysSorted == Spec => []PriceTimeSorted
<1>1. BookInv => PriceTimeSorted
  <2> SUFFICES ASSUME BookInv PROVE PriceTimeSorted
    OBVIOUS
  <2>1. ASSUME NEW list \in Seq(RestingIn(Nat, Accts)), TimeOrdered(list)
        PROVE  \A i, j \in DOMAIN list : i < j => Ahead(list[i], list[j])
    <3>1. DOMAIN list = 1..Len(list)
      OBVIOUS
    <3> QED BY <2>1, <3>1, InFrontIsAhead DEF TimeOrdered
  <2>2. \A side \in {"bids", "asks"} : book[side] \in Seq(RestingIn(Nat, Accts)) /\ TimeOrdered(book[side])
    BY DEF BookInv, Books, BooksIn
  <2> QED BY <2>1, <2>2 DEF PriceTimeSorted
<1> QED BY <1>1, BookInvAlways, PTL

\* No bid of the book reaches an ask: applyOrder lets an order rest only after
\* the crossing makers are gone, and cancels it at a maker of its own account.
THEOREM BookNeverCrossed == Spec => []NeverCrossed
<1>1. BookInv => NeverCrossed
  <2> SUFFICES ASSUME BookInv, NEW b \in ToSet(book.bids), NEW a \in ToSet(book.asks)
               PROVE  b.price < a.price
    BY DEF NeverCrossed
  <2>1. DOMAIN book.bids = 1..Len(book.bids) /\ DOMAIN book.asks = 1..Len(book.asks)
    <3>1. book.bids \in Seq(RestingIn(Nat, Accts)) /\ book.asks \in Seq(RestingIn(Nat, Accts))
      BY DEF BookInv, Books, BooksIn
    <3> QED BY <3>1
  <2>2. PICK i \in 1..Len(book.bids) : b = book.bids[i]
    BY <2>1 DEF ToSet
  <2>3. PICK j \in 1..Len(book.asks) : a = book.asks[j]
    BY <2>1 DEF ToSet
  <2> QED BY <2>2, <2>3 DEF BookInv, GoodBook, NotCrossed
<1> QED BY <1>1, BookInvAlways, PTL
----------------------------------------------------------------------------
(***************************************************************************)
(* A match: what the loop gives the makers is what price-time priority     *)
(* gives them.                                                             *)
(***************************************************************************)
\* S is what stands in s, each thing once, and F values it as q values its places.
Pictures(s, n, F, q, S) ==
    /\ \A i \in 1..n : F[s[i]] = q[i] /\ q[i] \in Int
    /\ \A i, j \in 1..n : s[i] = s[j] => i = j
    /\ S = {s[i] : i \in 1..n}

LEMMA ImageTotal ==
    ASSUME NEW n \in Nat, NEW s, NEW F, NEW q, NEW S, Pictures(s, n, F, q, S)
    PROVE  IsFiniteSet(S) /\ Cardinality(S) = n /\ SumOver(F, S) = SumOver(q, 1..n)
<1> SUFFICES ASSUME \A i \in 1..n : F[s[i]] = q[i] /\ q[i] \in Int,
                    \A i, j \in 1..n : s[i] = s[j] => i = j, S = {s[i] : i \in 1..n}
             PROVE  IsFiniteSet(S) /\ Cardinality(S) = n /\ SumOver(F, S) = SumOver(q, 1..n)
  BY DEF Pictures
<1> DEFINE Seen(m) == {s[i] : i \in 1..m}
           G == {m \in Nat : m <= n => /\ IsFiniteSet(Seen(m)) /\ Cardinality(Seen(m)) = m
                                       /\ SumOver(F, Seen(m)) = SumOver(q, 1..m)}
<1>1. \A i \in 1..n : s[i] \in S /\ F[s[i]] = q[i] /\ F[s[i]] \in Int
  OBVIOUS
<1>2. 0 \in G
  <2>1. Seen(0) = {} /\ 1..0 = {}
    OBVIOUS
  <2>2. IsFiniteSet({}) /\ Cardinality({}) = 0
    BY FS_EmptySet
  <2>3. SumOver(F, {}) = 0 /\ SumOver(q, {}) = 0
    BY SumEmpty
  <2> QED BY <2>1, <2>2, <2>3
<1>3. ASSUME NEW m \in Nat, m \in G PROVE m + 1 \in G
  <2> SUFFICES ASSUME m + 1 <= n
               PROVE  /\ IsFiniteSet(Seen(m + 1)) /\ Cardinality(Seen(m + 1)) = m + 1
                      /\ SumOver(F, Seen(m + 1)) = SumOver(q, 1..(m + 1))
    OBVIOUS
  <2>1. m <= n /\ m + 1 \in 1..n /\ \A i \in 1..m : i \in 1..n /\ i # m + 1
    OBVIOUS
  <2>2. IsFiniteSet(Seen(m)) /\ Cardinality(Seen(m)) = m /\ SumOver(F, Seen(m)) = SumOver(q, 1..m)
    BY <1>3, <2>1
  <2>3. PICK T, U, x : T = Seen(m) /\ U = Seen(m + 1) /\ x = s[m + 1]
    OBVIOUS
  <2>4. U = T \cup {x}
    <3>1. 1..(m + 1) = (1..m) \cup {m + 1}
      OBVIOUS
    <3> QED BY <2>3, <3>1
  <2>5. x \notin T
    BY <2>1, <2>3
  <2>6. \A y \in U : F[y] \in Int
    <3> TAKE y \in U
    <3>1. PICK i \in 1..(m + 1) : y = s[i]
      BY <2>3
    <3>2. i \in 1..n
      BY <2>1, <3>1
    <3> QED BY <1>1, <3>1, <3>2
  <2>7. SumOver(F, U) = SumOver(F, T) + F[x]
    <3> HIDE DEF Seen
    <3>1. IsFiniteSet(T)
      BY <2>2, <2>3
    <3> QED BY ONLY <2>4, <2>5, <2>6, <3>1, SumAdd
  <2>8. SumOver(q, 1..(m + 1)) = SumOver(q, 1..m) + q[m + 1]
    <3>1. \A j \in 1..(m + 1) : q[j] \in Int
      BY <2>1
    <3> QED BY ONLY <3>1, m \in Nat, SumAppend
  <2>9. IsFiniteSet(U) /\ Cardinality(U) = m + 1
    <3>1. IsFiniteSet(T) /\ Cardinality(T) = m
      BY <2>2, <2>3
    <3> QED BY ONLY <2>4, <2>5, <3>1, FS_AddElement
  <2>10. F[x] = q[m + 1]
    BY <1>1, <2>1, <2>3
  <2> HIDE DEF Seen
  <2> QED BY <2>2, <2>3, <2>7, <2>8, <2>9, <2>10
<1>4. n \in G
  <2> HIDE DEF G
  <2> QED BY <1>2, <1>3, NatInduct
<1> QED BY <1>4

\* The same, of rows by their quantities.
Lists(s, n, q, S) ==
    /\ \A i \in 1..n : s[i].qty = q[i] /\ q[i] \in Int
    /\ \A i, j \in 1..n : s[i] = s[j] => i = j
    /\ S = {s[i] : i \in 1..n}

LEMMA ImageSum ==
    ASSUME NEW n \in Nat, NEW s, NEW q, NEW S, Lists(s, n, q, S)
    PROVE  IsFiniteSet(S) /\ Cardinality(S) = n /\ SumQty(S) = SumOver(q, 1..n)
<1>1. PICK F : F = [r \in S |-> r.qty]
  OBVIOUS
<1>2. Pictures(s, n, F, q, S)
  BY <1>1 DEF Lists, Pictures
<1>3. IsFiniteSet(S) /\ Cardinality(S) = n /\ SumOver(F, S) = SumOver(q, 1..n)
  BY <1>2, ImageTotal
<1>4. SumQty(S) = SumOver(F, S)
  BY <1>1 DEF SumQty, Total
<1> QED BY <1>3, <1>4

LEMMA GreaterOfTwo ==
    ASSUME NEW x \in Int
    PROVE  Max({0, x}) = IF x <= 0 THEN 0 ELSE x
<1>1. CASE x <= 0
  <2>1. 0 \in {0, x} /\ \A y \in {0, x} : 0 >= y
    BY <1>1
  <2>2. \A z \in {0, x} : (\A y \in {0, x} : z >= y) => z = 0
    BY <1>1
  <2> QED BY <1>1, <2>1, <2>2 DEF Max
<1>2. CASE ~ (x <= 0)
  <2>1. x \in {0, x} /\ \A y \in {0, x} : x >= y
    BY <1>2
  <2>2. \A z \in {0, x} : (\A y \in {0, x} : z >= y) => z = x
    BY <1>2
  <2> QED BY <1>2, <2>1, <2>2 DEF Max
<1> QED BY <1>1, <1>2

\* What a maker of m units gets of a demand of which p units are for those ahead.
ShareOf(demand, p, m) ==
    IF demand <= p THEN 0 ELSE IF m <= demand - p THEN m ELSE demand - p

LEMMA ShareIs ==
    ASSUME NEW inc \in IncomingIn(Nat, Accts), NEW m \in RestingIn(Nat, Accts),
           NEW p \in Nat, SumQty({o \in Reachable(inc) : Ahead(o, m)}) = p
    PROVE  Share(inc, m) = ShareOf(inc.qty, p, m.qty)
<1>1. inc.qty \in Nat /\ m.qty \in Nat
  BY DEF IncomingIn, RestingIn
<1>2. PICK x \in Int : x = inc.qty - p
  BY <1>1
<1>3. PICK d \in Nat : d = Max({0, x}) /\ d = IF x <= 0 THEN 0 ELSE x
  <2>1. Max({0, x}) = IF x <= 0 THEN 0 ELSE x
    BY GreaterOfTwo
  <2> QED BY <2>1
<1>4. Share(inc, m) = Min({m.qty, d})
  BY <1>2, <1>3 DEF Share
<1>5. PICK u \in Nat : u = m.qty
  BY <1>1
<1>6. Min({u, d}) = IF u <= d THEN u ELSE d
  BY LesserOfTwo
<1>7. PICK e \in Nat : e = inc.qty
  BY <1>1
<1>8. Share(inc, m) = IF u <= d THEN u ELSE d
  BY <1>4, <1>5, <1>6
<1>9. (IF u <= d THEN u ELSE d) = ShareOf(e, p, u)
  <2>1. x = e - p
    BY <1>2, <1>7
  <2>2. d = IF x <= 0 THEN 0 ELSE x
    BY <1>3
  <2>3. CASE e <= p
    BY ONLY <2>1, <2>2, <2>3, p \in Nat, e \in Nat, u \in Nat DEF ShareOf
  <2>4. CASE ~ (e <= p)
    BY ONLY <2>1, <2>2, <2>4, p \in Nat, e \in Nat, u \in Nat DEF ShareOf
  <2> QED BY <2>3, <2>4
<1> QED BY <1>5, <1>7, <1>8, <1>9

\* An order that reaches a maker reaches those of no worse price.
LEMMA CrossesOn ==
    ASSUME NEW inc \in IncomingIn(Nat, Accts),
           NEW other, other = IF inc.side = "BUY" THEN "SELL" ELSE "BUY",
           NEW p \in Nat, NEW q \in Nat, ~Better(other, q, p), Crosses(inc, q)
    PROVE  Crosses(inc, p)
<1>1. inc.side \in Sides /\ inc.price \in Nat
  BY DEF IncomingIn
<1> QED BY <1>1 DEF Better, Crosses, Sides

LEMMA AheadBy ==
    ASSUME NEW list \in Seq(RestingIn(Nat, Accts)), NEW side, OneSide(list, side),
           TimeOrdered(list), NEW i \in 1..Len(list), NEW j \in 1..Len(list)
    PROVE  /\ Ahead(list[i], list[j]) <=> i < j
           /\ list[i].price = list[j].price /\ list[i].id = list[j].id => i = j
<1>1. \A k \in 1..Len(list) : /\ list[k].price \in Nat /\ list[k].id \in Nat
                              /\ list[k].side = side /\ side \in Sides
  <2> TAKE k \in 1..Len(list)
  <2>1. list[k] \in RestingIn(Nat, Accts)
    OBVIOUS
  <2> QED BY <2>1, RestingFields DEF OneSide
<1>2. PICK r, s : r = list[i] /\ s = list[j]
  OBVIOUS
<1>3. i < j => Ahead(r, s)
  BY <1>2, InFrontIsAhead DEF TimeOrdered
<1>4. j < i => Ahead(s, r)
  BY <1>2, InFrontIsAhead DEF TimeOrdered
<1>5. /\ r.price \in Nat /\ s.price \in Nat /\ r.id \in Nat /\ s.id \in Nat
      /\ r.side = side /\ s.side = side /\ side \in Sides
  BY <1>1, <1>2
<1>6. /\ ~ (Ahead(r, s) /\ Ahead(s, r)) /\ (Ahead(r, s) => ~ (r.price = s.price /\ r.id = s.id))
      /\ Ahead(s, r) => ~ (r.price = s.price /\ r.id = s.id)
  BY <1>5 DEF Ahead, Better, Sides
<1>7. i < j \/ j < i \/ i = j
  OBVIOUS
<1>8. i = j => r = s
  BY <1>2
<1>9. Ahead(r, s) <=> i < j
  BY <1>3, <1>4, <1>6, <1>7, <1>8
<1>10. r.price = s.price /\ r.id = s.id => i = j
  BY <1>3, <1>4, <1>6, <1>7
<1> QED BY <1>2, <1>9, <1>10

\* The makers an order may reach are the first c of the list.
Reaches(inc, list, c) ==
    /\ \A j \in 1..c : Crosses(inc, list[j].price) /\ list[j].acct # inc.acct
    /\ c < Len(list) => ~Crosses(inc, list[c + 1].price) \/ list[c + 1].acct = inc.acct

LEMMA ReachIs ==
    ASSUME NEW inc \in IncomingIn(Nat, Accts),
           NEW list \in Seq(RestingIn(Nat, Accts)), list = before[Opposite(inc.side)],
           NEW other, other = IF inc.side = "BUY" THEN "SELL" ELSE "BUY",
           OneSide(list, other), PriceOrdered(list, other), TimeOrdered(list)
    PROVE  \E c \in 0..Len(list) : Reaches(inc, list, c) /\ Reachable(inc) = {list[j] : j \in 1..c}
<1>1. PICK n \in Nat : n = Len(list) /\ DOMAIN list = 1..n
  OBVIOUS
<1> DEFINE Ends(j) == ~Crosses(inc, list[j].price) \/ list[j].acct = inc.acct
           T == {j \in 1..n : Ends(j)}
<1>2. PICK c \in 0..n : /\ \A j \in 1..c : ~Ends(j)
                        /\ c < n => Ends(c + 1)
  <2>1. CASE T = {}
    <3>1. \A j \in 1..n : ~Ends(j)
      BY <2>1
    <3>2. n \in 0..n /\ ~(n < n)
      OBVIOUS
    <3> HIDE DEF Ends, T
    <3> QED BY ONLY <3>1, <3>2
  <2>2. CASE T # {}
    <3>1. PICK m : m = Min(T) /\ m \in T /\ \A y \in T : m <= y
      <4> HIDE DEF T
      <4>1. T \in SUBSET (1..n)
        BY DEF T
      <4> QED BY <2>2, <4>1, LeastExists
    <3>2. m \in 1..n /\ Ends(m) /\ m - 1 \in 0..n /\ (m - 1) + 1 = m
      <4>1. m \in 1..n /\ Ends(m)
        BY <3>1
      <4>2. m - 1 \in 0..n /\ (m - 1) + 1 = m
        BY ONLY <4>1, n \in Nat
      <4> QED BY <4>1, <4>2
    <3>3. \A j \in 1..(m - 1) : ~Ends(j)
      <4> TAKE j \in 1..(m - 1)
      <4>1. j \in 1..n /\ ~(m <= j)
        BY <3>2
      <4> QED BY <3>1, <4>1
    <3> HIDE DEF Ends, T
    <3>4. m - 1 < n => Ends((m - 1) + 1)
      BY <3>2
    <3> QED BY <3>2, <3>3, <3>4
  <2> QED BY <2>1, <2>2
<1>3. Reaches(inc, list, c)
  BY <1>1, <1>2 DEF Reaches
<1>4. ASSUME NEW j \in 1..c PROVE list[j] \in Reachable(inc)
  <2>1. j \in 1..n /\ Crosses(inc, list[j].price) /\ list[j].acct # inc.acct
    BY <1>2
  <2>2. ASSUME NEW o \in ToSet(list), o.acct = inc.acct, Crosses(inc, o.price)
        PROVE  o # list[j] /\ Ahead(list[j], o)
    <3>1. PICK k \in 1..n : o = list[k]
      BY <1>1 DEF ToSet
    <3>2. k \notin 1..c
      BY <1>2, <2>2, <3>1
    <3>3. j < k
      BY <3>2
    <3>4. Ahead(list[j], list[k])
      BY <1>1, <2>1, <3>3, AheadBy
    <3> QED BY <2>1, <2>2, <3>1, <3>4
  <2>3. list[j] \in ToSet(list)
    BY <1>1, <2>1 DEF ToSet
  <2> QED BY <2>1, <2>2, <2>3 DEF Reachable
<1>5. ASSUME NEW m \in Reachable(inc) PROVE \E j \in 1..c : m = list[j]
  <2>1. /\ m \in ToSet(list) /\ Crosses(inc, m.price)
        /\ \A o \in ToSet(list) : Crosses(inc, o.price) /\ o.acct = inc.acct => o # m /\ Ahead(m, o)
    BY DEF Reachable
  <2>2. PICK j \in 1..n : m = list[j]
    BY <1>1, <2>1 DEF ToSet
  <2>3. SUFFICES ASSUME j > c PROVE FALSE
    BY <2>2
  <2>4. PICK k : k = c + 1 /\ k \in 1..n /\ k <= j /\ Ends(k)
    BY <1>2, <2>3
  <2>5. CASE ~Crosses(inc, list[k].price)
    <3>1. k # j
      BY <2>1, <2>2, <2>5
    <3>2. k < j
      BY <2>4, <3>1
    <3>3. PICK p, q : p = list[k].price /\ q = list[j].price /\ p \in Nat /\ q \in Nat
      <4>1. list[k] \in RestingIn(Nat, Accts) /\ list[j] \in RestingIn(Nat, Accts)
        BY <1>1, <2>4
      <4> QED BY <4>1, RestingFields
    <3>4. ~Better(other, q, p)
      BY <1>1, <2>4, <3>2, <3>3 DEF PriceOrdered
    <3>5. Crosses(inc, q)
      BY <2>1, <2>2, <3>3
    <3>6. Crosses(inc, p)
      BY <3>3, <3>4, <3>5, CrossesOn
    <3> QED BY <2>5, <3>3, <3>6
  <2>6. CASE Crosses(inc, list[k].price)
    <3>1. list[k].acct = inc.acct
      BY <2>4, <2>6
    <3>2. list[k] \in ToSet(list)
      BY <1>1, <2>4 DEF ToSet
    <3>3. Ahead(list[j], list[k])
      BY <2>1, <2>2, <2>6, <3>1, <3>2
    <3>4. j < k
      BY <1>1, <2>4, <3>3, AheadBy
    <3> QED BY <2>4, <3>4
  <2> QED BY <2>5, <2>6
<1>6. Reachable(inc) = {list[j] : j \in 1..c}
  BY <1>4, <1>5
<1> QED BY <1>1, <1>3, <1>6

\* What those ahead of a maker have.
ReachedTo(inc, list, c) == Reachable(inc) = {list[j] : j \in 1..c}
HaveQtys(list, q) == \A j \in 1..Len(list) : q[j] = list[j].qty
AheadHave(inc, list, c, q) ==
    \A j \in 1..c : SumQty({o \in Reachable(inc) : Ahead(o, list[j])}) = SumOver(q, 1..(j - 1))

LEMMA AheadSum ==
    ASSUME NEW inc, NEW list \in Seq(RestingIn(Nat, Accts)),
           NEW side, OneSide(list, side), TimeOrdered(list),
           NEW c \in 0..Len(list), ReachedTo(inc, list, c), NEW q, HaveQtys(list, q)
    PROVE  AheadHave(inc, list, c, q)
<1> SUFFICES ASSUME Reachable(inc) = {list[j] : j \in 1..c},
                    \A j \in 1..Len(list) : q[j] = list[j].qty, NEW j \in 1..c
             PROVE  SumQty({o \in Reachable(inc) : Ahead(o, list[j])}) = SumOver(q, 1..(j - 1))
  BY DEF ReachedTo, HaveQtys, AheadHave
<1>1. PICK n \in Nat : n = Len(list)
  OBVIOUS
<1>2. \A k \in 1..n : q[k] = list[k].qty /\ q[k] \in Int
  <2> TAKE k \in 1..n
  <2>1. list[k] \in RestingIn(Nat, Accts)
    BY <1>1
  <2> QED BY <1>1, <2>1, RestingFields
<1>3. PICK m \in Nat : m = j - 1
  OBVIOUS
<1>4. \A k \in 1..m : k \in 1..c /\ k \in 1..n /\ k < j
  BY <1>1, <1>3
<1>5. j \in 1..n /\ \A k \in 1..c : k \in 1..n
  BY <1>1
<1>6. PICK S : S = {o \in Reachable(inc) : Ahead(o, list[j])}
  OBVIOUS
<1>7. S = {list[k] : k \in 1..m}
  <2>1. ASSUME NEW o \in S PROVE \E k \in 1..m : o = list[k]
    <3>1. PICK k \in 1..c : o = list[k]
      BY <1>6, <2>1
    <3>2. Ahead(list[k], list[j])
      BY <1>6, <2>1, <3>1
    <3>3. k < j
      BY <1>1, <1>5, <3>2, AheadBy
    <3>4. k \in 1..m
      BY <1>3, <3>3
    <3> QED BY <3>1, <3>4
  <2>2. ASSUME NEW k \in 1..m PROVE list[k] \in S
    <3>1. k \in 1..c /\ k \in 1..n /\ k < j
      BY <1>4
    <3>2. Ahead(list[k], list[j])
      BY <1>1, <1>5, <3>1, AheadBy
    <3> QED BY <1>6, <3>1, <3>2
  <2> QED BY <2>1, <2>2
<1>8. \A k, l \in 1..m : list[k] = list[l] => k = l
  <2> TAKE k, l \in 1..m
  <2>1. k \in 1..Len(list) /\ l \in 1..Len(list)
    BY <1>1, <1>4
  <2> QED BY <2>1, AheadBy
<1>9. \A k \in 1..m : list[k].qty = q[k] /\ q[k] \in Int
  BY <1>2, <1>4
<1>10. SumQty(S) = SumOver(q, 1..m)
  <2>1. Lists(list, m, q, S)
    BY <1>7, <1>8, <1>9 DEF Lists
  <2> QED BY <2>1, ImageSum
<1> QED BY <1>3, <1>6, <1>10


\* A demand e along a line of n makers, of which it may reach c: the first d of them
\* are used up, the f-th is perhaps filled in part, and l is left of the demand.
InLine(n, c, f, d, q, g, l, e) ==
    /\ c <= n /\ f <= c /\ d <= f /\ f <= d + 1
    /\ \A i \in 1..n : q[i] \in Nat /\ q[i] # 0
    /\ \A i \in 1..f : g[i] \in Nat /\ g[i] # 0
    /\ \A i \in 1..d : g[i] = q[i]
    /\ e = l + SumOver(g, 1..f)
    /\ f = d + 1 => l = 0
    /\ f = d + 1 => g[f] < q[f]
    /\ c > f => l = 0
Shared(c, f, d, q, g, e) ==
    \A j \in 1..c : LET share == ShareOf(e, SumOver(q, 1..(j - 1)), q[j]) IN
        /\ j <= f => share = g[j]
        /\ j > f => share = 0
        /\ share = q[j] <=> j <= d

LEMMA SharesInLine ==
    ASSUME NEW n \in Nat, NEW c \in Nat, NEW f \in Nat, NEW d \in Nat,
           NEW q, NEW g, NEW l \in Nat, NEW e \in Nat, InLine(n, c, f, d, q, g, l, e)
    PROVE  Shared(c, f, d, q, g, e)
<1> SUFFICES ASSUME c <= n, f <= c, d <= f, f <= d + 1,
                    \A i \in 1..n : q[i] \in Nat /\ q[i] # 0,
                    \A i \in 1..f : g[i] \in Nat /\ g[i] # 0,
                    \A i \in 1..d : g[i] = q[i],
                    e = l + SumOver(g, 1..f),
                    f = d + 1 => l = 0, f = d + 1 => g[f] < q[f], c > f => l = 0,
                    NEW j \in 1..c
             PROVE  LET share == ShareOf(e, SumOver(q, 1..(j - 1)), q[j]) IN
                    /\ j <= f => share = g[j]
                    /\ j > f => share = 0
                    /\ share = q[j] <=> j <= d
  BY DEF InLine, Shared
<1>1. ASSUME NEW i \in Nat, i <= n
      PROVE  /\ SumOver(q, 1..i) \in Nat /\ IsFiniteSet(1..i) /\ \A m \in 1..i : q[m] \in Nat
             /\ \A m \in 1..i : q[m] \in Int
  <2>1. IsFiniteSet(1..i)
    BY FS_Interval
  <2>2. \A m \in 1..i : q[m] \in Nat
    BY <1>1
  <2>3. SumOver(q, 1..i) \in Nat
    BY ONLY <2>1, <2>2, SumNat
  <2> QED BY <2>1, <2>2, <2>3
<1>2. ASSUME NEW i \in Nat, i + 1 <= n
      PROVE  SumOver(q, 1..(i + 1)) = SumOver(q, 1..i) + q[i + 1]
  <2>1. \A m \in 1..(i + 1) : q[m] \in Int
    BY <1>2
  <2> QED BY ONLY i \in Nat, <2>1, SumAppend
<1>3. ASSUME NEW i \in Nat, NEW m \in Nat, m <= n, i <= m
      PROVE  SumOver(q, 1..i) <= SumOver(q, 1..m)
  <2>1. PICK S, Q : S = 1..m /\ Q = 1..i
    OBVIOUS
  <2>2. Q \in SUBSET S
    BY <1>3, <2>1
  <2>3. IsFiniteSet(S) /\ \A x \in S : q[x] \in Nat
    BY <1>1, <1>3, <2>1
  <2>4. SumOver(q, Q) <= SumOver(q, S)
    BY ONLY <2>2, <2>3, SumOfPart
  <2> QED BY <2>1, <2>4
<1>4. PICK D \in Nat : D = SumOver(q, 1..d) /\ D = SumOver(g, 1..d)
  <2>1. d <= n
    OBVIOUS
  <2>2. IsFiniteSet(1..d) /\ (\A i \in 1..d : q[i] \in Int) /\ SumOver(q, 1..d) \in Nat
    BY <1>1, <2>1
  <2>3. SumOver(g, 1..d) = SumOver(q, 1..d)
    BY ONLY <2>2, \A i \in 1..d : g[i] = q[i], SumSame
  <2> QED BY <2>2, <2>3
<1>5. f = d => e = l + D
  BY <1>4
<1>6. f = d + 1 => e = D + g[f]
  <2> SUFFICES ASSUME f = d + 1 PROVE e = D + g[f]
    OBVIOUS
  <2>1. \A i \in 1..(d + 1) : g[i] \in Int
    OBVIOUS
  <2>2. SumOver(g, 1..(d + 1)) = SumOver(g, 1..d) + g[d + 1]
    BY ONLY <2>1, d \in Nat, SumAppend
  <2>3. l = 0 /\ g[d + 1] \in Nat
    OBVIOUS
  <2>4. PICK u \in Nat : u = g[d + 1]
    BY <2>3
  <2>5. SumOver(g, 1..f) = D + u
    BY <1>4, <2>2, <2>4
  <2>6. e = 0 + (D + u)
    BY <2>3, <2>5
  <2> QED BY <2>4, <2>6
<1>7. PICK p \in Nat, x \in Nat :
          p = SumOver(q, 1..(j - 1)) /\ x = q[j] /\ x # 0 /\ SumOver(q, 1..j) = p + x
  <2>1. j - 1 \in Nat /\ (j - 1) + 1 = j /\ j - 1 <= n /\ j <= n /\ j \in 1..n
    OBVIOUS
  <2>2. SumOver(q, 1..(j - 1)) \in Nat
    BY <1>1, <2>1
  <2>3. SumOver(q, 1..((j - 1) + 1)) = SumOver(q, 1..(j - 1)) + q[(j - 1) + 1]
    BY <1>2, <2>1
  <2> QED BY <2>1, <2>2, <2>3
<1>8. CASE j <= d
  <2>1. SumOver(q, 1..j) <= SumOver(q, 1..d)
    <3>1. j \in Nat /\ d <= n
      OBVIOUS
    <3> QED BY <1>3, <1>8, <3>1
  <2>2. p + x <= D
    BY <1>4, <1>7, <2>1
  <2>3. D <= e
    <3>1. CASE f = d
      BY <1>5, <3>1
    <3>2. CASE f = d + 1
      <4>1. g[f] \in Nat
        BY <3>2
      <4>2. PICK u \in Nat : u = g[f]
        BY <4>1
      <4>3. e = D + u
        BY <1>6, <3>2, <4>2
      <4> QED BY <4>3
    <3> QED BY <3>1, <3>2
  <2>4. ShareOf(e, p, x) = x
    BY ONLY <2>2, <2>3, <1>7, e \in Nat, p \in Nat, x \in Nat, D \in Nat DEF ShareOf
  <2>5. g[j] = x /\ j <= f /\ ~ (j > f)
    BY <1>7, <1>8
  <2> QED BY <1>7, <1>8, <2>4, <2>5
<1>9. CASE j = f /\ f = d + 1
  <2>1. PICK u \in Nat : u = g[f] /\ u # 0 /\ u < x
    BY <1>7, <1>9
  <2>2. j - 1 = d
    BY <1>9
  <2>3. p = D
    BY <1>4, <1>7, <2>2
  <2>4. e = D + u
    BY <1>6, <1>9, <2>1
  <2>5. ShareOf(e, p, x) = u
    BY ONLY <2>1, <2>3, <2>4, e \in Nat, p \in Nat, x \in Nat, u \in Nat, D \in Nat DEF ShareOf
  <2>6. u # x /\ ~ (j <= d) /\ ~ (j > f)
    BY <1>9, <2>1
  <2> QED BY <1>7, <1>9, <2>1, <2>5, <2>6
<1>10. CASE j > f
  <2>1. l = 0
    BY <1>10
  <2>2. ASSUME NEW m \in {d, f} PROVE SumOver(q, 1..m) <= p
    <3>1. m \in Nat /\ j - 1 \in Nat /\ j - 1 <= n /\ m <= j - 1
      BY <1>10
    <3> QED BY <1>3, <1>7, <3>1
  <2>3. D <= p
    BY <1>4, <2>2
  <2>4. e <= p
    <3>1. CASE f = d
      BY <1>5, <2>1, <2>3, <3>1
    <3>2. CASE f = d + 1
      <4>1. PICK u \in Nat, v \in Nat : u = g[f] /\ v = q[f] /\ u < v
        BY <3>2
      <4>2. e = D + u
        BY <1>6, <3>2, <4>1
      <4>3. SumOver(q, 1..(d + 1)) = SumOver(q, 1..d) + q[d + 1]
        <5>1. d + 1 <= n
          BY <3>2
        <5> QED BY <1>2, <5>1
      <4>4. D + v <= p
        BY <1>4, <2>2, <3>2, <4>1, <4>3
      <4> QED BY ONLY <4>1, <4>2, <4>4, e \in Nat, p \in Nat, u \in Nat, v \in Nat, D \in Nat
    <3> QED BY <3>1, <3>2
  <2>5. ShareOf(e, p, x) = 0
    BY <2>4 DEF ShareOf
  <2>6. ~ (j <= d) /\ ~ (j <= f)
    BY <1>10
  <2> QED BY <1>7, <1>10, <2>5, <2>6
<1>11. j <= d \/ (j = f /\ f = d + 1) \/ j > f
  OBVIOUS
<1> QED BY <1>8, <1>9, <1>10, <1>11
\* What the loop has filled, against what the makers it reaches should get.
Fair(inc, st, c, q) ==
    /\ Len(st.fills) <= c /\ Len(st.closed) <= Len(st.fills)
    /\ \A j \in 1..c : LET share == ShareOf(inc.qty, SumOver(q, 1..(j - 1)), q[j]) IN
          /\ j <= Len(st.fills) => share = st.fills[j].qty
          /\ j > Len(st.fills) => share = 0
          /\ share = q[j] <=> j <= Len(st.closed)
    /\ st.left > 0 /\ st.end # "self" => Len(st.closed) = c

LEMMA LoopIsFair ==
    ASSUME NEW inc \in IncomingIn(Nat, Accts), NEW list \in Seq(RestingIn(Nat, Accts)), NEW last,
           NEW st \in LoopsIn(Nat, Accts, LastPrices), Shape(list, last, inc, st, Len(list)),
           st.left + SumAlong(st.fills, QtyOf(Nat)) = inc.qty,
           NEW c \in 0..Len(list), Reaches(inc, list, c),
           NEW q, \A j \in 1..Len(list) : q[j] = list[j].qty
    PROVE  Fair(inc, st, c, q)
<1>1. PICK n \in Nat, f \in Nat, d \in Nat, k \in Nat, l \in Nat, e \in Nat :
          /\ n = Len(list) /\ f = Len(st.fills) /\ d = Len(st.closed) /\ k = Len(st.keep)
          /\ l = st.left /\ e = inc.qty
  <2>1. st.fills \in Seq(FillsIn(Nat)) /\ st.closed \in Seq(ClosesIn(Nat))
        /\ st.keep \in Seq(RestingIn(Nat, Accts)) /\ st.left \in Nat /\ inc.qty \in Nat
    BY DEF LoopsIn, IncomingIn
  <2>2. /\ Len(st.fills) \in Nat /\ Len(st.closed) \in Nat /\ Len(list) \in Nat
        /\ Len(st.keep) \in Nat
    BY <2>1
  <2> QED BY <2>1, <2>2
<1>2. \A j \in 1..n : q[j] \in Nat /\ q[j] # 0 /\ q[j] = list[j].qty
  <2> TAKE j \in 1..n
  <2>1. list[j] \in RestingIn(Nat, Accts)
    BY <1>1
  <2> QED BY <1>1, <2>1, RestingFields
<1>3. d <= f /\ f <= d + 1 /\ d + k = n
  <2>1. Kept(list, st, n)
    BY <1>1 DEF Shape
  <2> QED BY <1>1, <2>1 DEF Kept
<1>4. /\ \A j \in 1..d : st.fills[j].qty = list[j].qty
      /\ \A j \in 1..f : /\ st.fills[j].qty \in Nat /\ st.fills[j].qty # 0
                         /\ Crosses(inc, list[j].price) /\ list[j].acct # inc.acct
  BY <1>1 DEF Shape, Used
<1>5. f = d + 1 => /\ l = 0 /\ k >= 1
                   /\ st.fills[f].qty < list[f].qty
  BY <1>1 DEF Shape, Partial
<1>6. d <= n /\ f <= n
  BY ONLY <1>3, <1>5, n \in Nat, f \in Nat, d \in Nat, k \in Nat
<1>7. PICK m \in Nat : m = c /\ m <= n
  BY <1>1
<1>8. f <= m
  <2>1. SUFFICES ASSUME m < f PROVE FALSE
    OBVIOUS
  <2>2. m + 1 \in 1..f /\ m < n
    BY ONLY <2>1, <1>6, m \in Nat, n \in Nat, f \in Nat
  <2>3. Crosses(inc, list[m + 1].price) /\ list[m + 1].acct # inc.acct
    BY <1>4, <2>2
  <2> QED BY <1>1, <1>7, <2>2, <2>3 DEF Reaches
<1>9. l > 0 => f = d /\ (m > d => st.end = "self")
  <2> SUFFICES ASSUME l > 0 PROVE f = d /\ (m > d => st.end = "self")
    OBVIOUS
  <2>1. f = d
    BY ONLY l > 0, <1>3, <1>5, f \in Nat, d \in Nat, l \in Nat
  <2>2. SUFFICES ASSUME m > d, st.end # "self" PROVE FALSE
    BY <2>1
  <2>3. d + 1 \in 1..m /\ k # 0 /\ l # 0
    BY ONLY l > 0, <2>2, <1>3, <1>7, m \in Nat, d \in Nat, k \in Nat, n \in Nat
  <2>4. Crosses(inc, list[d + 1].price)
    BY <1>7, <2>3 DEF Reaches
  <2>5. st.end \in {"run", "done"} /\ LoopEnded(list, inc, st) /\ st.left # 0
    BY <1>1, <2>2, <2>3 DEF LoopsIn, Shape
  <2>6. CASE st.end = "run"
    <3>1. st.keep = <<>>
      BY <2>5, <2>6 DEF LoopEnded
    <3>2. Len(st.keep) = 0
      BY <3>1
    <3> QED BY <1>1, <2>3, <3>2
  <2>7. CASE st.end = "done"
    BY <1>1, <2>4, <2>5, <2>7 DEF LoopEnded
  <2> QED BY <2>5, <2>6, <2>7
<1>10. m > f => l = 0
  <2> SUFFICES ASSUME m > f, l # 0 PROVE FALSE
    OBVIOUS
  <2>1. l > 0
    BY ONLY l # 0, l \in Nat
  <2>2. f = d /\ st.end = "self"
    BY <1>9, <2>1
  <2>3. list[d + 1].acct = inc.acct
    BY <1>1, <2>2 DEF Shape, LoopEnded
  <2>4. d + 1 \in 1..m
    BY ONLY m > f, <2>2, m \in Nat, d \in Nat
  <2> QED BY <1>7, <2>3, <2>4 DEF Reaches
<1>11. PICK g : e = l + SumOver(g, 1..f) /\ \A i \in 1..f : g[i] = st.fills[i].qty
  <2>1. PICK s, w : s = st.fills /\ w = QtyOf(Nat) /\ s \in Seq(FillsIn(Nat))
    BY DEF LoopsIn
  <2>2. DOMAIN s = 1..f /\ \A i \in 1..f : s[i] \in FillsIn(Nat)
    BY <1>1, <2>1
  <2>3. PICK g : g = [i \in DOMAIN s |-> w[s[i]]]
    OBVIOUS
  <2>4. SumAlong(s, w) = SumOver(g, 1..f)
    BY <2>2, <2>3 DEF SumAlong
  <2>5. \A i \in 1..f : g[i] = st.fills[i].qty
    <3> TAKE i \in 1..f
    <3>1. w[s[i]] = s[i].qty
      BY <2>1, <2>2 DEF QtyOf
    <3> QED BY <2>1, <2>2, <2>3, <3>1
  <2>6. e = l + SumOver(g, 1..f)
    BY <1>1, <2>1, <2>4
  <2> QED BY <2>5, <2>6
<1>12. Shared(m, f, d, q, g, e)
  <2>1. \A i \in 1..n : q[i] \in Nat /\ q[i] # 0
    BY <1>2
  <2>2. \A i \in 1..f : g[i] \in Nat /\ g[i] # 0
    BY <1>4, <1>11
  <2>3. \A i \in 1..d : g[i] = q[i]
    <3> TAKE i \in 1..d
    <3>1. i \in 1..f /\ i \in 1..n
      BY ONLY <1>3, <1>6, i \in 1..d, d \in Nat, f \in Nat, n \in Nat
    <3> QED BY <1>2, <1>4, <1>11, <3>1
  <2>4. f = d + 1 => g[f] < q[f]
    <3> SUFFICES ASSUME f = d + 1 PROVE g[f] < q[f]
      OBVIOUS
    <3>1. f \in 1..f /\ f \in 1..n
      BY ONLY f = d + 1, <1>6, d \in Nat, f \in Nat, n \in Nat
    <3>2. g[f] = st.fills[f].qty /\ q[f] = list[f].qty
      BY <1>2, <1>11, <3>1
    <3> QED BY <1>5, <3>2
  <2>5. f = d + 1 => l = 0
    BY <1>5
  <2>6. e = l + SumOver(g, 1..f)
    BY <1>11
  <2>7. m <= n /\ d <= f /\ f <= d + 1
    BY <1>3, <1>7
  <2>8. InLine(n, m, f, d, q, g, l, e)
    BY <1>8, <1>10, <2>1, <2>2, <2>3, <2>4, <2>5, <2>6, <2>7 DEF InLine
  <2> QED BY <2>8, SharesInLine
<1>13. \A j \in 1..c : LET share == ShareOf(inc.qty, SumOver(q, 1..(j - 1)), q[j]) IN
          /\ j <= Len(st.fills) => share = st.fills[j].qty
          /\ j > Len(st.fills) => share = 0
          /\ share = q[j] <=> j <= Len(st.closed)
  <2> TAKE j \in 1..c
  <2>1. j \in 1..m
    BY <1>7
  <2>2. j <= f => j \in 1..f
    BY <2>1
  <2> QED BY <1>1, <1>11, <1>12, <2>1, <2>2 DEF Shared
<1>14. st.left > 0 /\ st.end # "self" => Len(st.closed) = c
  <2> SUFFICES ASSUME l > 0, st.end # "self" PROVE d = m
    BY <1>1, <1>7
  <2>1. f = d /\ ~ (m > d)
    BY <1>9
  <2> QED BY ONLY <2>1, <1>8, m \in Nat, d \in Nat, f \in Nat
<1> QED BY <1>1, <1>3, <1>7, <1>8, <1>13, <1>14 DEF Fair
\* An answer, from where the loop ended.
Answers(inc, st, out) ==
    /\ out.fills = st.fills
    /\ \/ /\ st.left > 0 /\ st.end # "self" /\ inc.type # "MARKET"
          /\ out.resting = st.left /\ out.canceled = 0 /\ out.closed = st.closed
       \/ /\ st.left > 0 /\ (st.end = "self" \/ inc.type = "MARKET")
          /\ out.resting = 0 /\ out.canceled = st.left
          /\ out.closed = Append(st.closed, [id |-> inc.id, filled |-> inc.qty - st.left,
                                             status |-> "CANCELED"])
       \/ /\ st.left = 0 /\ out.resting = 0 /\ out.canceled = 0
          /\ out.closed = Append(st.closed, [id |-> inc.id, filled |-> inc.qty,
                                             status |-> "FILLED"])

LEMMA OutcomeIs ==
    ASSUME NEW b, NEW inc, NEW st, st = MatchLoop(b, inc), st.left \in Nat
    PROVE  Answers(inc, st, Outcome(b, inc))
<1>1. PICK taker : taker = [id |-> inc.id, acct |-> inc.acct, side |-> inc.side,
                            price |-> inc.price, qty |-> st.left, total |-> inc.qty]
  OBVIOUS
<1>2. /\ ClosedFilled(taker) = [id |-> inc.id, filled |-> inc.qty, status |-> "FILLED"]
      /\ ClosedCanceled(inc.id, inc.qty - st.left)
            = [id |-> inc.id, filled |-> inc.qty - st.left, status |-> "CANCELED"]
  BY <1>1 DEF ClosedFilled, ClosedCanceled
<1>3. PICK last : last = IF st.left = 0 THEN ClosedFilled(taker)
                         ELSE ClosedCanceled(inc.id, inc.qty - st.left)
  OBVIOUS
<1>4. Outcome(b, inc) =
        [fills    |-> st.fills,
         closed   |-> IF st.left > 0 /\ ~(st.left > 0 /\ (st.end = "self" \/ inc.type = "MARKET"))
                      THEN st.closed ELSE Append(st.closed, last),
         resting  |-> IF st.left > 0 /\ ~(st.left > 0 /\ (st.end = "self" \/ inc.type = "MARKET"))
                      THEN st.left ELSE 0,
         canceled |-> IF st.left > 0 /\ (st.end = "self" \/ inc.type = "MARKET")
                      THEN st.left ELSE 0]
  BY <1>1, <1>3 DEF Outcome, ApplyOrder
<1>5. CASE st.left > 0 /\ st.end # "self" /\ inc.type # "MARKET"
  BY <1>4, <1>5 DEF Answers
<1>6. CASE st.left > 0 /\ (st.end = "self" \/ inc.type = "MARKET")
  <2>1. st.left # 0
    BY <1>6
  <2>2. last = [id |-> inc.id, filled |-> inc.qty - st.left, status |-> "CANCELED"]
    BY <1>2, <1>3, <2>1
  <2> QED BY <1>4, <1>6, <2>2 DEF Answers
<1>7. CASE st.left = 0
  <2>1. ~ (st.left > 0)
    BY <1>7
  <2>2. last = [id |-> inc.id, filled |-> inc.qty, status |-> "FILLED"]
    BY <1>2, <1>3, <1>7
  <2> QED BY <1>4, <1>7, <2>1, <2>2 DEF Answers
<1>8. st.left = 0 \/ st.left > 0
  OBVIOUS
<1> QED BY <1>5, <1>6, <1>7, <1>8

\* Each maker the order may reach, in the order of the list: its fill, if it has
\* one, is its share, and it is closed when its share is all it has.
Served(inc, list, st, c) ==
    /\ Len(st.fills) \in 0..c /\ Len(st.closed) \in 0..Len(st.fills)
    /\ \A j \in 1..c : j \in 1..Len(list)
    /\ Reachable(inc) = {list[j] : j \in 1..c}
    /\ \A i, j \in 1..c : list[i].price = list[j].price /\ list[i].id = list[j].id => i = j
    /\ \A j \in 1..c : /\ Share(inc, list[j]) > 0 <=> j <= Len(st.fills)
                       /\ Share(inc, list[j]) = list[j].qty <=> j <= Len(st.closed)
    /\ \A j \in 1..Len(st.fills) :
          st.fills[j] = [price |-> list[j].price, qty |-> Share(inc, list[j]),
                         maker |-> list[j].id, taker |-> inc.id]
    /\ \A j \in 1..Len(st.closed) : st.closed[j] = ClosedFilled(list[j])
    /\ st.left > 0 /\ st.end # "self" => Len(st.closed) = c

TimedBook(b) == b \in Books /\ GoodBook(b) /\ TimeOrdered(b.bids) /\ TimeOrdered(b.asks)

LEMMA MatchServes ==
    ASSUME TimedBook(before), NEW inc \in IncomingIn(Nat, Accts),
           NEW st, st = MatchLoop(before, inc), NEW list, list = before[Opposite(inc.side)]
    PROVE  /\ st \in LoopsIn(Nat, Accts, LastPrices) /\ list \in Seq(RestingIn(Nat, Accts))
           /\ st.left + SumAlong(st.fills, QtyOf(Nat)) = inc.qty
           /\ \E c \in Nat : Served(inc, list, st, c)
<1>1. PICK L : L = LastPrices /\ Nat \subseteq L /\ before \in BooksIn(Nat, Accts, L)
  BY DEF TimedBook, Books, LastPrices
<1>2. /\ list \in Seq(RestingIn(Nat, Accts)) /\ st \in LoopsIn(Nat, Accts, L)
      /\ Shape(list, before.last, inc, st, Len(list))
  BY <1>1, MatchShape
<1>3. st.left + SumAlong(st.fills, QtyOf(Nat)) = inc.qty
  BY <1>1, MatchSum
<1>4. PICK other : other = IF inc.side = "BUY" THEN "SELL" ELSE "BUY"
  OBVIOUS
<1>5. OneSide(list, other) /\ PriceOrdered(list, other) /\ TimeOrdered(list)
  BY <1>4 DEF TimedBook, GoodBook, Opposite, IncomingIn, Sides
<1>6. PICK c \in 0..Len(list) : Reaches(inc, list, c) /\ Reachable(inc) = {list[j] : j \in 1..c}
  BY <1>2, <1>4, <1>5, ReachIs
<1>7. PICK n \in Nat, m \in Nat : n = Len(list) /\ m = c /\ m <= n
  BY <1>2
<1>8. PICK q : \A j \in 1..n : q[j] = list[j].qty /\ q[j] \in Nat /\ q[j] # 0
  <2>1. PICK q : q = [j \in 1..n |-> list[j].qty]
    OBVIOUS
  <2>2. ASSUME NEW j \in 1..n PROVE q[j] = list[j].qty /\ q[j] \in Nat /\ q[j] # 0
    <3>1. list[j] \in RestingIn(Nat, Accts)
      BY <1>2, <1>7
    <3> QED BY <2>1, <3>1, RestingFields
  <2> QED BY <2>2
<1>9. Fair(inc, st, c, q)
  <2>1. \A j \in 1..Len(list) : q[j] = list[j].qty
    BY <1>7, <1>8
  <2> QED BY <1>1, <1>2, <1>3, <1>6, <2>1, LoopIsFair
<1>10. PICK f \in Nat, d \in Nat : f = Len(st.fills) /\ d = Len(st.closed) /\ f <= m /\ d <= f
  <2>1. st.fills \in Seq(FillsIn(Nat)) /\ st.closed \in Seq(ClosesIn(Nat))
    BY <1>2 DEF LoopsIn
  <2>2. Len(st.fills) \in Nat /\ Len(st.closed) \in Nat
    BY <2>1
  <2> QED BY <1>7, <1>9, <2>2 DEF Fair
<1>11. \A j \in 1..m : j \in 1..n
  BY <1>7
<1>12. ASSUME NEW j \in 1..m
       PROVE  Share(inc, list[j]) = ShareOf(inc.qty, SumOver(q, 1..(j - 1)), q[j])
  <2>1. j \in 1..c /\ \A i \in 1..Len(list) : q[i] = list[i].qty
    BY <1>7, <1>8
  <2>2. SumQty({o \in Reachable(inc) : Ahead(o, list[j])}) = SumOver(q, 1..(j - 1))
    <3>1. HaveQtys(list, q) /\ ReachedTo(inc, list, c)
      BY <1>6, <2>1 DEF HaveQtys, ReachedTo
    <3>2. AheadHave(inc, list, c, q)
      BY <1>2, <1>5, <3>1, AheadSum
    <3> QED BY <2>1, <3>2 DEF AheadHave
  <2>3. list[j] \in RestingIn(Nat, Accts) /\ q[j] = list[j].qty
    BY <1>2, <1>7, <1>8, <1>11
  <2>4. SumOver(q, 1..(j - 1)) \in Nat
    <3>1. IsFiniteSet(1..(j - 1))
      BY FS_Interval
    <3>2. \A i \in 1..(j - 1) : q[i] \in Nat
      BY <1>7, <1>8
    <3> QED BY ONLY <3>1, <3>2, SumNat
  <2>5. PICK p \in Nat, r \in RestingIn(Nat, Accts) : p = SumOver(q, 1..(j - 1)) /\ r = list[j]
    BY <2>3, <2>4
  <2>6. Share(inc, r) = ShareOf(inc.qty, p, r.qty)
    BY <2>2, <2>5, ShareIs
  <2> QED BY <2>3, <2>5, <2>6
<1>13. /\ \A j \in 1..d : st.closed[j] = ClosedFilled(list[j])
       /\ \A j \in 1..f : /\ st.fills[j].price = list[j].price /\ st.fills[j].maker = list[j].id
                          /\ st.fills[j].taker = inc.id /\ st.fills[j].qty \in Nat \ {0}
  BY <1>2, <1>10 DEF Shape, Used
<1>14. ASSUME NEW j \in 1..m
       PROVE  /\ j <= f => Share(inc, list[j]) = st.fills[j].qty
              /\ j > f => Share(inc, list[j]) = 0
              /\ Share(inc, list[j]) = list[j].qty <=> j <= d
  <2>1. j \in 1..c /\ q[j] = list[j].qty
    BY <1>7, <1>8, <1>11
  <2> QED BY <1>9, <1>10, <1>12, <2>1 DEF Fair
<1>15. ASSUME NEW j \in 1..m
       PROVE  Share(inc, list[j]) > 0 <=> j <= f
  <2>1. CASE j <= f
    <3>1. j \in 1..f
      BY <2>1
    <3>2. st.fills[j].qty \in Nat \ {0}
      BY <1>13, <3>1
    <3>3. PICK u \in Nat : u = st.fills[j].qty /\ u # 0
      BY <3>2
    <3>4. Share(inc, list[j]) = u
      BY <1>14, <2>1, <3>3
    <3> QED BY <2>1, <3>3, <3>4
  <2>2. CASE j > f
    <3>1. ~ (j <= f)
      BY <2>2
    <3>2. Share(inc, list[j]) = 0
      BY <1>14, <2>2
    <3> QED BY <3>1, <3>2
  <2>3. j <= f \/ j > f
    OBVIOUS
  <2> QED BY <2>1, <2>2, <2>3
<1>16. ASSUME NEW j \in 1..f
       PROVE  st.fills[j] = [price |-> list[j].price, qty |-> Share(inc, list[j]),
                             maker |-> list[j].id, taker |-> inc.id]
  <2>1. PICK s : s = st.fills /\ s \in Seq(FillsIn(Nat)) /\ f = Len(s)
    BY <1>2, <1>10 DEF LoopsIn
  <2>2. s[j] \in FillsIn(Nat)
    BY <2>1
  <2>3. s[j] = [price |-> s[j].price, qty |-> s[j].qty, maker |-> s[j].maker, taker |-> s[j].taker]
    BY <2>2 DEF FillsIn
  <2>4. j \in 1..m /\ j <= f
    BY <1>10
  <2> QED BY <1>13, <1>14, <2>1, <2>3, <2>4
<1>17. ASSUME NEW i \in 1..m, NEW j \in 1..m, list[i].price = list[j].price, list[i].id = list[j].id
       PROVE  i = j
  <2>1. i \in 1..Len(list) /\ j \in 1..Len(list)
    BY <1>7, <1>11
  <2> QED BY <1>2, <1>5, <1>17, <2>1, AheadBy
<1>18. st.left > 0 /\ st.end # "self" => d = m
  BY <1>7, <1>9, <1>10 DEF Fair
<1>19. Served(inc, list, st, m)
  <2>1. f \in 0..m /\ d \in 0..f
    BY <1>10
  <2> QED BY <1>6, <1>7, <1>10, <1>11, <1>13, <1>14, <1>15, <1>16, <1>17, <1>18, <2>1 DEF Served
<1> QED BY <1>1, <1>2, <1>3, <1>19
\* The orders of a list are orders that were placed.
OrderOf(r, rows) ==
    /\ r.id \in 1..Len(rows) /\ rows[r.id].qty = r.total
    /\ rows[r.id].side = r.side /\ rows[r.id].price = r.price
KnownTo(list, rows) == \A k \in 1..Len(list) : OrderOf(list[k], rows)

MatchInv ==
    result # Idle =>
        /\ placed # <<>> /\ Last(placed).id = Len(placed)
        /\ TimedBook(before) /\ KnownTo(before.bids, placed) /\ KnownTo(before.asks, placed)
        /\ result = Outcome(before, Last(placed))

\* The parts of MatchIsPriceTime, of the order inc and the answer out.
Owed(inc) ==
    {[price |-> m.price, qty |-> Share(inc, m), maker |-> m.id, taker |-> inc.id] :
        m \in {x \in Reachable(inc) : Share(inc, x) > 0}}
UsedUp(inc) == {m.id : m \in {x \in Reachable(inc) : Share(inc, x) = x.qty}}

LEMMA AppendedSet ==
    ASSUME NEW T, NEW s \in Seq(T), NEW x, NEW t, t = Append(s, x)
    PROVE  ToSet(t) = ToSet(s) \cup {x}
<1>1. PICK d, R : d \in Nat /\ d = Len(s) /\ R = T \cup {x}
  <2>1. Len(s) \in Nat
    OBVIOUS
  <2>2. PICK n, R : n = Len(s) /\ R = T \cup {x}
    OBVIOUS
  <2> QED BY <2>1, <2>2
<1>2. s \in [1..d -> R]
  BY <1>1
<1>3. s \in Seq(R) /\ x \in R
  BY <1>1, <1>2
<1>4. t \in Seq(R) /\ Len(t) = d + 1
  BY <1>1, <1>3
<1>5. DOMAIN t = 1..(d + 1) /\ DOMAIN s = 1..d
  BY <1>1, <1>4
<1>6. t[d + 1] = x /\ \A k \in 1..d : t[k] = s[k]
  BY <1>1, AppendIs
<1>7. 1..(d + 1) = (1..d) \cup {d + 1}
  BY <1>1
<1>8. ToSet(t) = {t[k] : k \in (1..d) \cup {d + 1}} /\ ToSet(s) = {s[k] : k \in 1..d}
  BY <1>5, <1>7 DEF ToSet
<1> QED BY <1>6, <1>8

LEMMA FillsAreOwed ==
    ASSUME NEW inc, NEW list, NEW st \in LoopsIn(Nat, Accts, LastPrices),
           NEW c \in Nat, Served(inc, list, st, c)
    PROVE  /\ ToSet(st.fills) = Owed(inc)
           /\ Cardinality(Owed(inc)) = Len(st.fills)
           /\ SumQty(ToSet(st.fills)) = SumAlong(st.fills, QtyOf(Nat))
<1>1. PICK s \in Seq(FillsIn(Nat)), f \in Nat :
          s = st.fills /\ f = Len(s) /\ f <= c /\ DOMAIN s = 1..f
  <2>1. st.fills \in Seq(FillsIn(Nat))
    BY DEF LoopsIn
  <2>2. Len(st.fills) \in Nat /\ DOMAIN st.fills = 1..Len(st.fills)
    BY <2>1
  <2> QED BY <2>1, <2>2 DEF Served
<1>2. \A j \in 1..f : j \in 1..c
  BY <1>1
<1>3. /\ Reachable(inc) = {list[j] : j \in 1..c}
      /\ \A j \in 1..c : Share(inc, list[j]) > 0 <=> j <= f
      /\ \A j \in 1..f : s[j] = [price |-> list[j].price, qty |-> Share(inc, list[j]),
                                 maker |-> list[j].id, taker |-> inc.id]
      /\ \A i, j \in 1..c : list[i].price = list[j].price /\ list[i].id = list[j].id => i = j
  BY <1>1 DEF Served
<1>4. PICK S : S = ToSet(s) /\ S = {s[j] : j \in 1..f}
  BY <1>1 DEF ToSet
<1>5. S = Owed(inc)
  <2>1. ASSUME NEW x \in S PROVE x \in Owed(inc)
    <3>1. PICK j \in 1..f : x = s[j]
      BY <1>4
    <3>2. j \in 1..c /\ j <= f /\ list[j] \in Reachable(inc) /\ Share(inc, list[j]) > 0
      BY <1>2, <1>3
    <3>3. x = [price |-> list[j].price, qty |-> Share(inc, list[j]),
               maker |-> list[j].id, taker |-> inc.id]
      BY <1>3, <3>1
    <3> QED BY <3>2, <3>3 DEF Owed
  <2>2. ASSUME NEW x \in Owed(inc) PROVE x \in S
    <3>1. PICK m \in Reachable(inc) :
              /\ Share(inc, m) > 0
              /\ x = [price |-> m.price, qty |-> Share(inc, m), maker |-> m.id, taker |-> inc.id]
      BY DEF Owed
    <3>2. PICK j \in 1..c : m = list[j]
      BY <1>3
    <3>3. j \in 1..f
      BY <1>3, <3>1, <3>2
    <3> QED BY <1>3, <1>4, <3>1, <3>2, <3>3
  <2> QED BY <2>1, <2>2
<1>6. PICK g : /\ g = [i \in DOMAIN s |-> QtyOf(Nat)[s[i]]]
               /\ \A j \in 1..f : s[j].qty = g[j] /\ g[j] \in Int
  <2>1. PICK g : g = [i \in DOMAIN s |-> QtyOf(Nat)[s[i]]]
    OBVIOUS
  <2>2. ASSUME NEW j \in 1..f PROVE s[j].qty = g[j] /\ g[j] \in Int
    <3>1. s[j] \in FillsIn(Nat)
      BY <1>1
    <3>2. QtyOf(Nat)[s[j]] = s[j].qty /\ s[j].qty \in Nat
      BY <3>1 DEF QtyOf, FillsIn
    <3> QED BY <1>1, <2>1, <3>2
  <2> QED BY <2>1, <2>2
<1>7. \A i, j \in 1..f : s[i] = s[j] => i = j
  <2> SUFFICES ASSUME NEW i \in 1..f, NEW j \in 1..f, s[i] = s[j] PROVE i = j
    OBVIOUS
  <2>1. ASSUME NEW k \in 1..f PROVE s[k].price = list[k].price /\ s[k].maker = list[k].id
    <3>1. PICK u : s[k] = [price |-> list[k].price, qty |-> u, maker |-> list[k].id, taker |-> inc.id]
      BY <1>3
    <3> QED BY <3>1
  <2>2. list[i].price = list[j].price /\ list[i].id = list[j].id
    BY <2>1
  <2> QED BY <1>2, <1>3, <2>1, <2>2
<1>8. Cardinality(S) = f /\ SumQty(S) = SumOver(g, 1..f)
  <2>1. S = {s[j] : j \in 1..f}
    BY <1>4
  <2>2. \A j \in 1..f : s[j].qty = g[j] /\ g[j] \in Int
    BY <1>6
  <2>3. Lists(s, f, g, S)
    BY <2>1, <2>2, <1>7 DEF Lists
  <2> QED BY <2>3, ImageSum
<1>9. SumOver(g, 1..f) = SumAlong(s, QtyOf(Nat))
  BY <1>1, <1>6 DEF SumAlong
<1> QED BY <1>1, <1>4, <1>5, <1>8, <1>9

LEMMA ClosesAreUsedUp ==
    ASSUME NEW inc, NEW list, NEW st \in LoopsIn(Nat, Accts, LastPrices),
           NEW c \in Nat, Served(inc, list, st, c)
    PROVE  {x.id : x \in ToSet(st.closed)} = UsedUp(inc)
<1>1. PICK s \in Seq(ClosesIn(Nat)), d \in Nat :
          s = st.closed /\ d = Len(s) /\ d <= c /\ DOMAIN s = 1..d
  <2>1. st.closed \in Seq(ClosesIn(Nat)) /\ st.fills \in Seq(FillsIn(Nat))
    BY DEF LoopsIn
  <2>2. /\ Len(st.closed) \in Nat /\ DOMAIN st.closed = 1..Len(st.closed)
        /\ Len(st.fills) \in Nat
    BY <2>1
  <2>3. Len(st.fills) \in 0..c /\ Len(st.closed) \in 0..Len(st.fills)
    BY DEF Served
  <2> QED BY <2>1, <2>2, <2>3
<1>2. \A j \in 1..d : j \in 1..c
  BY <1>1
<1>3. /\ Reachable(inc) = {list[j] : j \in 1..c}
      /\ \A j \in 1..c : Share(inc, list[j]) = list[j].qty <=> j <= d
      /\ \A j \in 1..d : s[j] = ClosedFilled(list[j])
  BY <1>1 DEF Served
<1>4. \A j \in 1..d : s[j].id = list[j].id
  <2> TAKE j \in 1..d
  <2>1. s[j] = [id |-> list[j].id, filled |-> list[j].total, status |-> "FILLED"]
    BY <1>3 DEF ClosedFilled
  <2> QED BY <2>1
<1>5. ToSet(s) = {s[j] : j \in 1..d}
  BY <1>1 DEF ToSet
<1>6. ASSUME NEW i \in {x.id : x \in ToSet(s)} PROVE i \in UsedUp(inc)
  <2>1. PICK j \in 1..d : i = s[j].id
    BY <1>5
  <2>2. j \in 1..c /\ list[j] \in Reachable(inc) /\ Share(inc, list[j]) = list[j].qty
    BY <1>2, <1>3
  <2> QED BY <1>4, <2>1, <2>2 DEF UsedUp
<1>7. ASSUME NEW i \in UsedUp(inc) PROVE i \in {x.id : x \in ToSet(s)}
  <2>1. PICK m \in Reachable(inc) : Share(inc, m) = m.qty /\ i = m.id
    BY DEF UsedUp
  <2>2. PICK j \in 1..c : m = list[j]
    BY <1>3
  <2>3. j \in 1..d
    BY <1>3, <2>1, <2>2
  <2> QED BY <1>4, <1>5, <2>1, <2>2, <2>3
<1> QED BY <1>1, <1>6, <1>7
LEMMA MatchIsFair == BookInv /\ MatchInv => MatchIsPriceTime
<1> SUFFICES ASSUME BookInv, MatchInv, result # Idle PROVE MatchIsPriceTime
  BY DEF MatchIsPriceTime
<1>1. PICK n \in Nat, inc \in IncomingIn(Nat, Accts) :
          inc = Last(placed) /\ n = Len(placed) /\ n # 0 /\ inc = placed[n] /\ inc.id = n
  <2>1. placed \in Seq(IncomingIn(Nat, Accts)) /\ placed # <<>> /\ Last(placed).id = Len(placed)
    BY DEF BookInv, MatchInv
  <2>2. Len(placed) \in Nat /\ Len(placed) # 0 /\ Last(placed) = placed[Len(placed)]
        /\ Last(placed) \in IncomingIn(Nat, Accts)
    BY <2>1 DEF Last
  <2> QED BY <2>1, <2>2
<1>2. TimedBook(before) /\ KnownTo(before.bids, placed) /\ KnownTo(before.asks, placed)
      /\ result = Outcome(before, inc)
  BY <1>1 DEF MatchInv
<1>3. PICK st, list : st = MatchLoop(before, inc) /\ list = before[Opposite(inc.side)]
  OBVIOUS
<1>4. PICK c \in Nat : Served(inc, list, st, c)
  BY <1>1, <1>2, <1>3, MatchServes
<1>5. /\ st \in LoopsIn(Nat, Accts, LastPrices) /\ list \in Seq(RestingIn(Nat, Accts))
      /\ st.left + SumAlong(st.fills, QtyOf(Nat)) = inc.qty
  BY <1>1, <1>2, <1>3, MatchServes
<1>6. PICK l \in Nat, e \in Nat : l = st.left /\ e = inc.qty
  BY <1>1, <1>5 DEF LoopsIn, IncomingIn
<1>7. Answers(inc, st, result)
  BY <1>2, <1>3, <1>5, <1>6, OutcomeIs
<1>8. result.fills = st.fills
  BY <1>7 DEF Answers
<1>9. /\ ToSet(result.fills) = Owed(inc) /\ Len(result.fills) = Cardinality(Owed(inc))
      /\ SumQty(ToSet(result.fills)) = SumAlong(st.fills, QtyOf(Nat))
  BY <1>4, <1>5, <1>8, FillsAreOwed
<1>10. PICK taken \in Int : taken = SumQty(ToSet(result.fills)) /\ l + taken = e
  <2>1. SumAlong(st.fills, QtyOf(Nat)) \in Int
    <3>1. st.fills \in Seq(FillsIn(Nat)) /\ QtyOf(Nat) \in [FillsIn(Nat) -> Int]
      BY <1>5 DEF LoopsIn, QtyOf, FillsIn
    <3> QED BY <3>1, AlongType
  <2> QED BY <1>5, <1>6, <1>9, <2>1
<1>11. result.resting + result.canceled + taken = e
  <2>1. result.resting \in Nat /\ result.canceled \in Nat /\ result.resting + result.canceled = l
    BY <1>6, <1>7 DEF Answers
  <2>2. PICK r \in Nat, k \in Nat : r = result.resting /\ k = result.canceled /\ r + k = l
    BY <2>1
  <2>3. r + k + taken = e
    BY <1>10, <2>2
  <2> QED BY <2>2, <2>3
<1>12. result.resting > 0 =>
          inc.type = "LIMIT" /\ \A m \in Reachable(inc) : Share(inc, m) = m.qty
  <2> SUFFICES ASSUME result.resting > 0
               PROVE  inc.type = "LIMIT" /\ \A m \in Reachable(inc) : Share(inc, m) = m.qty
    OBVIOUS
  <2>1. st.left > 0 /\ st.end # "self" /\ inc.type # "MARKET"
    BY <1>7 DEF Answers
  <2>2. inc.type = "LIMIT"
    BY <1>1, <2>1 DEF IncomingIn
  <2>3. /\ Len(st.closed) = c /\ Reachable(inc) = {list[j] : j \in 1..c}
        /\ \A j \in 1..c : Share(inc, list[j]) = list[j].qty <=> j <= Len(st.closed)
    BY <1>4, <2>1 DEF Served
  <2>4. ASSUME NEW m \in Reachable(inc) PROVE Share(inc, m) = m.qty
    <3>1. PICK j \in 1..c : m = list[j]
      BY <2>3
    <3>2. j <= c
      OBVIOUS
    <3> QED BY <2>3, <3>1, <3>2
  <2> QED BY <2>2, <2>4
<1>13. PICK last : /\ result.resting # 0 => result.closed = st.closed
                   /\ result.resting = 0 => result.closed = Append(st.closed, last)
                   /\ last.id = inc.id
                   /\ last.status = "FILLED" <=> last.filled = inc.qty
  <2>1. CASE st.left = 0
    <3>1. PICK last : last = [id |-> inc.id, filled |-> inc.qty, status |-> "FILLED"]
      OBVIOUS
    <3>2. result.resting = 0 /\ result.closed = Append(st.closed, last)
      BY <1>7, <2>1, <3>1 DEF Answers
    <3> QED BY <3>1, <3>2
  <2>2. CASE st.left # 0
    <3>1. PICK last : last = [id |-> inc.id, filled |-> inc.qty - st.left, status |-> "CANCELED"]
      OBVIOUS
    <3>2. last.id = inc.id /\ last.status # "FILLED" /\ last.filled # inc.qty
      <4>1. e - l # e
        BY <1>6, <2>2
      <4> QED BY <1>6, <3>1, <4>1
    <3>3. /\ result.resting # 0 => result.closed = st.closed
          /\ result.resting = 0 => result.closed = Append(st.closed, last)
      BY <1>6, <1>7, <2>2, <3>1 DEF Answers
    <3> QED BY <3>2, <3>3
  <2> QED BY <2>1, <2>2
<1>14. PICK s \in Seq(ClosesIn(Nat)), d \in Nat : s = st.closed /\ d = Len(s) /\ DOMAIN s = 1..d
  <2>1. st.closed \in Seq(ClosesIn(Nat))
    BY <1>5 DEF LoopsIn
  <2>2. Len(st.closed) \in Nat /\ DOMAIN st.closed = 1..Len(st.closed)
    BY <2>1
  <2> QED BY <2>1, <2>2
<1>15. ToSet(result.closed) = IF result.resting = 0 THEN ToSet(s) \cup {last} ELSE ToSet(s)
  <2>1. CASE result.resting # 0
    BY <1>13, <1>14, <2>1
  <2>2. CASE result.resting = 0
    <3>1. PICK t : t = Append(s, last) /\ t = result.closed
      BY <1>13, <1>14, <2>2
    <3>2. ToSet(t) = ToSet(s) \cup {last}
      BY <3>1, AppendedSet
    <3> QED BY <2>2, <3>1, <3>2
  <2> QED BY <2>1, <2>2
<1>16. {x.id : x \in ToSet(s)} = UsedUp(inc)
  BY <1>4, <1>5, <1>14, ClosesAreUsedUp
<1>17. {x.id : x \in ToSet(result.closed)}
          = UsedUp(inc) \cup (IF result.resting = 0 THEN {inc.id} ELSE {})
  <2>1. CASE result.resting # 0
    BY <1>15, <1>16, <2>1
  <2>2. CASE result.resting = 0
    <3>1. ToSet(result.closed) = ToSet(s) \cup {last}
      BY <1>15, <2>2
    <3>2. {x.id : x \in ToSet(s) \cup {last}} = {x.id : x \in ToSet(s)} \cup {last.id}
      OBVIOUS
    <3> QED BY <1>13, <1>16, <2>2, <3>1, <3>2
  <2> QED BY <2>1, <2>2
<1>18. ASSUME NEW x \in ToSet(s)
       PROVE  x.status = "FILLED" /\ x.filled = placed[x.id].qty
  <2>1. PICK j \in 1..d : x = s[j]
    BY <1>14 DEF ToSet
  <2>2. s[j] = ClosedFilled(list[j])
    BY <1>4, <1>14 DEF Served
  <2>3. x.id = list[j].id /\ x.filled = list[j].total /\ x.status = "FILLED"
    BY <2>1, <2>2 DEF ClosedFilled
  <2>4. j \in 1..Len(list)
    <3>1. j \in 1..c /\ \A i \in 1..c : i \in 1..Len(list)
      <4>1. PICK f \in Nat : f = Len(st.fills) /\ f <= c /\ d <= f
        BY <1>4, <1>14 DEF Served
      <4> QED BY <1>4, <4>1 DEF Served
    <3> QED BY <3>1
  <2>5. KnownTo(list, placed)
    BY <1>1, <1>2, <1>3 DEF Opposite
  <2>6. placed[list[j].id].qty = list[j].total
    BY <2>4, <2>5 DEF KnownTo, OrderOf
  <2> QED BY <2>3, <2>6
<1>19. ASSUME NEW x \in ToSet(result.closed)
       PROVE  x.status = "FILLED" <=> x.filled = placed[x.id].qty
  <2>1. x \in ToSet(s) \/ x = last
    BY <1>15
  <2>2. CASE x = last
    BY <1>1, <1>13, <2>2
  <2> QED BY <1>18, <2>1, <2>2
<1> QED BY <1>1, <1>6, <1>9, <1>10, <1>11, <1>12, <1>17, <1>19, ZenonT(60) DEF MatchIsPriceTime, Owed, UsedUp
LEMMA KnownFrom ==
    ASSUME NEW s, NEW t, PartOf(s, t), NEW rows, KnownTo(t, rows)
    PROVE  KnownTo(s, rows)
<1> SUFFICES ASSUME NEW k \in 1..Len(s) PROVE OrderOf(s[k], rows)
  BY DEF KnownTo
<1>1. PICK j \in 1..Len(t) : SameOrder(s[k], t[j])
  BY DEF PartOf
<1>2. OrderOf(t[j], rows)
  BY DEF KnownTo
<1> QED BY <1>1, <1>2 DEF SameOrder, OrderOf

LEMMA KnownStill ==
    ASSUME NEW T, NEW rows \in Seq(T), NEW x, NEW more, more = Append(rows, x),
           NEW list, KnownTo(list, rows)
    PROVE  KnownTo(list, more)
<1>1. PICK n \in Nat : n = Len(rows)
  OBVIOUS
<1>2. Len(more) = n + 1 /\ \A k \in 1..n : more[k] = rows[k]
  BY <1>1, AppendIs
<1> SUFFICES ASSUME NEW k \in 1..Len(list) PROVE OrderOf(list[k], more)
  BY DEF KnownTo
<1>3. OrderOf(list[k], rows)
  BY DEF KnownTo
<1>4. PICK i \in 1..n : i = list[k].id
  BY <1>1, <1>3 DEF OrderOf
<1>5. i \in 1..(n + 1) /\ more[i] = rows[i]
  BY <1>1, <1>2, <1>4
<1> QED BY <1>2, <1>3, <1>4, <1>5 DEF OrderOf

KnownInv == KnownTo(book.bids, placed) /\ KnownTo(book.asks, placed)

LEMMA KnownPlaced == BookInv /\ KnownInv /\ Place => KnownInv'
<1> SUFFICES ASSUME BookInv, KnownInv, Place PROVE KnownInv'
  OBVIOUS
<1>1. PICK inc \in IncomingIn(Nat, Accts) :
          /\ inc.id = Len(placed) + 1
          /\ book' = ApplyOrder(book, inc).book /\ placed' = Append(placed, inc)
  BY PlacedIs
<1>2. PICK b, st, more : b = book' /\ st = MatchLoop(book, inc) /\ more = placed'
  OBVIOUS
<1>3. PICK L : L = LastPrices /\ Nat \subseteq L /\ book \in BooksIn(Nat, Accts, L)
  BY DEF BookInv, Books, LastPrices
<1>4. Applied(book, inc, st, b)
  BY <1>1, <1>2, <1>3, AppliedIs
<1>5. PICK side : side = inc.side /\ side \in Sides
  BY DEF IncomingIn
<1>6. PICK list, same, grown :
          /\ list = book[Opposite(side)] /\ same = book[ListOf(side)] /\ grown = b[ListOf(side)]
  OBVIOUS
<1>7. KnownTo(list, more) /\ KnownTo(same, more) /\ same \in Seq(RestingIn(Nat, Accts))
  <2>1. placed \in Seq(IncomingIn(Nat, Accts)) /\ more = Append(placed, inc)
    BY <1>1, <1>2 DEF BookInv
  <2>2. KnownTo(list, placed) /\ KnownTo(same, placed) /\ same \in Seq(RestingIn(Nat, Accts))
    BY <1>3, <1>5, <1>6 DEF KnownInv, BooksIn, ListOf, Opposite, Sides
  <2> QED BY <2>1, <2>2, KnownStill
<1>8. /\ list \in Seq(RestingIn(Nat, Accts)) /\ st \in LoopsIn(Nat, Accts, L)
      /\ Shape(list, book.last, inc, st, Len(list))
  BY <1>2, <1>3, <1>5, <1>6, MatchShape
<1>9. b[Opposite(side)] = st.keep /\ KnownTo(st.keep, more)
  <2>1. PartOf(st.keep, list)
    BY <1>3, <1>8, KeptIsPart
  <2> QED BY <1>4, <1>5, <1>7, <2>1, KnownFrom DEF Applied
<1>10. KnownTo(grown, more)
  <2>1. CASE grown = same
    BY <1>7, <2>1
  <2>2. CASE grown # same
    <3>1. PICK o : o = [id |-> inc.id, acct |-> inc.acct, side |-> inc.side,
                        price |-> inc.price, qty |-> st.left, total |-> inc.qty]
      OBVIOUS
    <3>2. Inserted(same, o, grown) /\ st.left > 0
      BY <1>4, <1>5, <1>6, <2>2, <3>1 DEF Applied
    <3>3. o \in RestingIn(Nat, Accts)
      <4>1. st.left \in Nat /\ st.left # 0
        BY <1>8, <3>2 DEF LoopsIn
      <4> QED BY <3>1, <4>1 DEF RestingIn, IncomingIn
    <3>4. OrderOf(o, more)
      <4>1. placed \in Seq(IncomingIn(Nat, Accts))
        BY DEF BookInv
      <4>2. PICK n \in Nat : n = Len(placed)
        BY <4>1
      <4>3. more[n + 1] = inc /\ Len(more) = n + 1
        BY <1>1, <1>2, <4>1, <4>2, AppendIs
      <4>4. /\ o.id = n + 1 /\ n + 1 \in 1..(n + 1)
            /\ o.total = inc.qty /\ o.side = inc.side /\ o.price = inc.price
        BY <1>1, <3>1, <4>2
      <4> QED BY <4>3, <4>4 DEF OrderOf
    <3>5. ASSUME NEW k \in 1..Len(grown)
          PROVE  OrderOf(grown[k], more)
      <4>1. grown[k] = o \/ \E j \in 1..Len(same) : grown[k] = same[j]
        BY <1>7, <3>2, <3>3, InsertedElements
      <4> QED BY <1>7, <3>4, <4>1 DEF KnownTo
    <3> QED BY <3>5 DEF KnownTo
  <2> QED BY <2>1, <2>2
<1>11. KnownTo(b.bids, more) /\ KnownTo(b.asks, more)
  BY <1>5, <1>6, <1>9, <1>10 DEF ListOf, Opposite, Sides
<1> QED BY <1>2, <1>11 DEF KnownInv

LEMMA KnownCanceled == BookInv /\ KnownInv /\ Cancel => KnownInv'
<1> SUFFICES ASSUME BookInv, KnownInv, Cancel PROVE KnownInv'
  OBVIOUS
<1>1. PICK ids, b : b = book' /\ b = WithoutOrders(book, ids) /\ placed' = placed
  BY DEF Cancel, CancelOrder
<1>2. PartOf(b.bids, book.bids) /\ PartOf(b.asks, book.asks)
  BY <1>1, WithoutGood DEF BookInv, Books
<1>3. KnownTo(b.bids, placed) /\ KnownTo(b.asks, placed)
  BY <1>2, KnownFrom DEF KnownInv
<1> QED BY <1>1, <1>3 DEF KnownInv

LEMMA MatchInvPlaced == BookInv /\ KnownInv /\ Place => MatchInv'
<1> SUFFICES ASSUME BookInv, KnownInv, Place PROVE MatchInv'
  OBVIOUS
<1>1. PICK inc \in IncomingIn(Nat, Accts) :
          /\ inc.id = Len(placed) + 1 /\ placed' = Append(placed, inc)
          /\ before' = book /\ result' = Outcome(book, inc)
  BY PlacedIs
<1>2. PICK more : more = placed' /\ more = Append(placed, inc)
  BY <1>1
<1>3. placed \in Seq(IncomingIn(Nat, Accts))
  BY DEF BookInv
<1>4. more # <<>> /\ Last(more) = inc /\ inc.id = Len(more)
  <2>1. more # <<>> /\ Len(more) = Len(placed) + 1 /\ more[Len(placed) + 1] = inc
    BY <1>2, <1>3, AppendIs
  <2> QED BY <1>1, <2>1 DEF Last
<1>5. TimedBook(book)
  BY DEF BookInv, TimedBook
<1>6. KnownTo(book.bids, more) /\ KnownTo(book.asks, more)
  BY <1>2, <1>3, KnownStill DEF KnownInv
<1>7. PICK b : b = book /\ TimedBook(b) /\ KnownTo(b.bids, more) /\ KnownTo(b.asks, more)
               /\ before' = b /\ result' = Outcome(b, inc)
  BY <1>1, <1>5, <1>6
<1> QED BY <1>2, <1>4, <1>7 DEF MatchInv

LEMMA MatchInvAlways == Spec => [](KnownInv /\ MatchInv)
<1>1. Init => KnownInv /\ MatchInv
  <2> SUFFICES ASSUME Init PROVE KnownInv /\ MatchInv
    OBVIOUS
  <2>1. book.bids = <<>> /\ book.asks = <<>> /\ result = Idle /\ 1..Len(<<>>) = {}
    BY DEF Init, EmptyBook
  <2> QED BY <2>1 DEF KnownInv, MatchInv, KnownTo
<1>2. BookInv /\ KnownInv /\ MatchInv /\ [Next]_vars => (KnownInv /\ MatchInv)'
  <2> SUFFICES ASSUME BookInv, KnownInv, MatchInv, [Next]_vars PROVE KnownInv' /\ MatchInv'
    OBVIOUS
  <2>1. CASE Place
    BY <2>1, KnownPlaced, MatchInvPlaced
  <2>2. CASE Cancel
    <3>1. result' = Idle
      BY <2>2 DEF Cancel
    <3>2. MatchInv'
      BY <3>1 DEF MatchInv, Idle
    <3> QED BY <2>2, <3>2, KnownCanceled
  <2>3. CASE UNCHANGED vars
    BY <2>3 DEF vars, KnownInv, MatchInv
  <2> QED BY <2>1, <2>2, <2>3 DEF Next
<1> QED BY <1>1, <1>2, BookInvAlways, PTL DEF Spec

\* Every order is matched by price-time priority: its fills are the shares that
\* the makers it may reach have of it, at their prices, and nothing of it is
\* lost between what is filled, what rests and what is canceled (applyOrder).
THEOREM MatchesKeepPriorities == Spec => []MatchIsPriceTime
  BY MatchIsFair, BookInvAlways, MatchInvAlways, PTL

----------------------------------------------------------------------------
(***************************************************************************)
(* A restart: the replay of the open rows puts each where it was.          *)
(***************************************************************************)
SameElements(s, t) ==
    /\ \A i \in 1..Len(s) : \E j \in 1..Len(t) : s[i] = t[j]
    /\ \A j \in 1..Len(t) : \E i \in 1..Len(s) : s[i] = t[j]

LEMMA PrefixSame ==
    ASSUME NEW side,
           NEW s \in Seq(RestingIn(Nat, Accts)), OneSide(s, side), TimeOrdered(s),
           NEW t \in Seq(RestingIn(Nat, Accts)), OneSide(t, side), TimeOrdered(t),
           SameElements(s, t), NEW m \in Nat, m + 1 <= Len(s),
           \A k \in 1..m : k <= Len(t) /\ s[k] = t[k]
    PROVE  m + 1 <= Len(t) /\ s[m + 1] = t[m + 1]
<1>1. PICK a \in Nat, b \in Nat : a = Len(s) /\ b = Len(t)
  OBVIOUS
<1>2. m + 1 \in 1..a /\ \A k \in 1..m : k \in 1..a /\ k \in 1..b
  BY <1>1
<1>3. PICK j \in 1..b : s[m + 1] = t[j]
  BY <1>1, <1>2 DEF SameElements
<1>4. ~ (j \in 1..m)
  <2> SUFFICES ASSUME j \in 1..m PROVE FALSE
    OBVIOUS
  <2>1. s[j] = s[m + 1] /\ j \in 1..a
    BY <1>2, <1>3
  <2>2. j = m + 1
    BY <1>1, <1>2, <2>1, AheadBy
  <2> QED BY <2>2
<1>5. j >= m + 1 /\ m + 1 \in 1..b
  BY <1>1, <1>4
<1>6. PICK i \in 1..a : s[i] = t[m + 1]
  BY <1>1, <1>5 DEF SameElements
<1>7. ~ (i \in 1..m)
  <2> SUFFICES ASSUME i \in 1..m PROVE FALSE
    OBVIOUS
  <2>1. t[i] = t[m + 1] /\ i \in 1..b
    BY <1>2, <1>6
  <2>2. i = m + 1
    BY <1>1, <1>5, <2>1, AheadBy
  <2> QED BY <2>2
<1>8. i >= m + 1
  BY <1>1, <1>7
<1>9. CASE i = m + 1
  BY <1>1, <1>5, <1>6, <1>9
<1>10. CASE i > m + 1
  <2>1. PICK x, y : x = s[m + 1] /\ y = t[m + 1]
    OBVIOUS
  <2>2. Ahead(x, y)
    BY <1>1, <1>2, <1>6, <1>10, <2>1, AheadBy
  <2>3. j = m + 1 => x = y
    BY <1>3, <2>1
  <2>4. j # m + 1 => Ahead(y, x)
    <3>1. j # m + 1 => m + 1 < j
      BY <1>5
    <3> QED BY <1>1, <1>3, <1>5, <2>1, <3>1, AheadBy
  <2>5. /\ x.side = y.side /\ x.side \in Sides
        /\ x.price \in Nat /\ y.price \in Nat /\ x.id \in Nat /\ y.id \in Nat
    <3>1. x \in RestingIn(Nat, Accts) /\ y \in RestingIn(Nat, Accts)
      BY <1>1, <1>2, <1>5, <2>1
    <3>2. x.side = side /\ y.side = side
      BY <1>1, <1>2, <1>5, <2>1 DEF OneSide
    <3> QED BY <3>1, <3>2, RestingFields
  <2>6. ~ (Ahead(x, y) /\ Ahead(y, x)) /\ (x = y => ~Ahead(x, y))
    BY <2>5 DEF Ahead, Better, Sides
  <2> QED BY <2>2, <2>3, <2>4, <2>6
<1>11. i = m + 1 \/ i > m + 1
  BY <1>8
<1> QED BY <1>9, <1>10, <1>11

\* Priority leaves one order of the same elements.
LEMMA SameList ==
    ASSUME NEW side,
           NEW s \in Seq(RestingIn(Nat, Accts)), OneSide(s, side), TimeOrdered(s),
           NEW t \in Seq(RestingIn(Nat, Accts)), OneSide(t, side), TimeOrdered(t),
           SameElements(s, t)
    PROVE  s = t
<1>1. PICK a \in Nat, b \in Nat : a = Len(s) /\ b = Len(t)
  OBVIOUS
<1> DEFINE G == {m \in Nat : m <= a => \A k \in 1..m : k <= b /\ s[k] = t[k]}
<1>2. 0 \in G
  OBVIOUS
<1>3. ASSUME NEW m \in Nat, m \in G PROVE m + 1 \in G
  <2> SUFFICES ASSUME m + 1 <= a, NEW k \in 1..(m + 1) PROVE k <= b /\ s[k] = t[k]
    OBVIOUS
  <2>1. \A i \in 1..m : i <= Len(t) /\ s[i] = t[i]
    BY <1>1, <1>3
  <2>2. m + 1 <= Len(t) /\ s[m + 1] = t[m + 1]
    BY <1>1, <2>1, PrefixSame
  <2>3. k \in 1..m \/ k = m + 1
    OBVIOUS
  <2> QED BY <1>1, <2>1, <2>2, <2>3
<1>4. a \in G
  <2> HIDE DEF G
  <2> QED BY <1>2, <1>3, NatInduct
<1>5. \A k \in 1..a : k <= b /\ s[k] = t[k]
  BY <1>4
<1>6. a <= b
  <2>1. CASE a = 0
    BY <2>1
  <2>2. CASE a # 0
    <3>1. a \in 1..a
      BY <2>2
    <3> QED BY <1>5, <3>1
  <2> QED BY <2>1, <2>2
<1>7. b <= a
  <2> SUFFICES ASSUME a < b PROVE FALSE
    OBVIOUS
  <2>1. a + 1 \in 1..b
    OBVIOUS
  <2>2. PICK i \in 1..a : s[i] = t[a + 1]
    BY <1>1, <2>1 DEF SameElements
  <2>3. t[i] = t[a + 1] /\ i \in 1..b
    BY <1>5, <2>2
  <2>4. i = a + 1
    BY <1>1, <2>1, <2>3, AheadBy
  <2> QED BY <2>4
<1>8. a = b
  BY <1>6, <1>7
<1>9. DOMAIN s = 1..Len(s) /\ DOMAIN t = 1..Len(t)
  OBVIOUS
<1> QED BY <1>1, <1>5, <1>8, <1>9

\* What one row adds.
LEMMA RestoreRowTimed ==
    ASSUME NEW L, NEW b \in BooksIn(Nat, Accts, L), GoodBook(b),
           TimeOrdered(b.bids), TimeOrdered(b.asks),
           NEW row \in RestingIn(Nat, Accts), ~CrossesRestoredBook(b, row.side, row.price),
           \A r : InBook(b, r) => r.id < row.id,
           NEW w, w = RestoreRow(b, row)
    PROVE  /\ TimeOrdered(w.bids) /\ TimeOrdered(w.asks)
           /\ \A r : InBook(b, r) \/ r = row => InBook(w, r)
<1>1. row.qty # 0 /\ row.side \in Sides
  BY RestingFields
<1>2. w = InsertResting(b, row)
  BY <1>1 DEF RestoreRow
<1>3. PICK side, other : /\ side = row.side /\ side \in Sides
                         /\ other = IF side = "BUY" THEN "SELL" ELSE "BUY"
  BY <1>1
<1>4. PICK same, grown, list : /\ same = b[ListOf(side)] /\ grown = w[ListOf(side)]
                               /\ list = b[Opposite(side)]
  OBVIOUS
<1>5. /\ w[Opposite(side)] = list /\ same \in Seq(RestingIn(Nat, Accts))
      /\ Inserted(same, row, grown)
  BY <1>2, <1>3, <1>4, InsertRestingIs
<1>6. PICK p \in 1..(Len(same) + 1) : InsertedAt(same, row, p, grown)
  BY <1>5 DEF Inserted
<1>7. OneSide(same, side) /\ TimeOrdered(same) /\ TimeOrdered(list)
  BY <1>3, <1>4 DEF GoodBook, ListOf, Opposite, Sides
<1>8. \A i \in 1..Len(same) : same[i].id < row.id
  BY <1>3, <1>4 DEF InBook, ListOf, Sides
<1>9. TimeOrdered(grown)
  BY <1>3, <1>5, <1>6, <1>7, <1>8, InsertTimed
<1>10. (\E k \in 1..Len(grown) : grown[k] = row)
       /\ \A i \in 1..Len(same) : \E k \in 1..Len(grown) : grown[k] = same[i]
  <2>1. PICK n \in Nat : n = Len(same)
    BY <1>5
  <2>2. /\ Len(grown) = n + 1 /\ grown[p] = row /\ p \in 1..(n + 1)
        /\ \A k \in 1..(p - 1) : grown[k] = same[k]
        /\ \A k \in p..n : grown[k + 1] = same[k]
    BY <1>6, <2>1 DEF InsertedAt
  <2>3. ASSUME NEW i \in 1..n PROVE \E k \in 1..(n + 1) : grown[k] = same[i]
    <3>1. CASE i < p
      <4>1. i \in 1..(p - 1) /\ i \in 1..(n + 1)
        BY <2>2, <3>1
      <4> QED BY <2>2, <4>1
    <3>2. CASE i >= p
      <4>1. i \in p..n /\ i + 1 \in 1..(n + 1)
        BY <2>2, <3>2
      <4> QED BY <2>2, <4>1
    <3> QED BY <2>2, <3>1, <3>2
  <2> QED BY <2>1, <2>2, <2>3
<1>11. ASSUME NEW r, InBook(b, r) \/ r = row PROVE InBook(w, r)
  <2>1. \/ \E k \in 1..Len(grown) : grown[k] = r
        \/ \E k \in 1..Len(list) : list[k] = r
    <3>1. CASE r = row
      BY <1>10, <3>1
    <3>2. CASE InBook(b, r)
      <4>1. (\E k \in 1..Len(same) : same[k] = r) \/ (\E k \in 1..Len(list) : list[k] = r)
        BY <1>3, <1>4, <3>2 DEF InBook, ListOf, Opposite, Sides
      <4> QED BY <1>10, <4>1
    <3> QED BY <1>11, <3>1, <3>2
  <2> QED BY <1>3, <1>4, <1>5, <2>1 DEF InBook, ListOf, Opposite, Sides
<1>12. TimeOrdered(w.bids) /\ TimeOrdered(w.asks)
  BY <1>3, <1>4, <1>5, <1>7, <1>9 DEF ListOf, Opposite, Sides
<1> QED BY <1>11, <1>12
LEMMA SideOf ==
    ASSUME NEW L, NEW b \in BooksIn(Nat, Accts, L), GoodBook(b), NEW r
    PROVE  /\ InBook(b, r) => r \in RestingIn(Nat, Accts) /\ r.side \in Sides
           /\ InBook(b, r) /\ r.side = "BUY" <=> \E i \in 1..Len(b.bids) : b.bids[i] = r
           /\ InBook(b, r) /\ r.side = "SELL" <=> \E i \in 1..Len(b.asks) : b.asks[i] = r
<1>1. b.bids \in Seq(RestingIn(Nat, Accts)) /\ b.asks \in Seq(RestingIn(Nat, Accts))
  BY DEF BooksIn
<1>2. \A i \in 1..Len(b.bids) : b.bids[i] \in RestingIn(Nat, Accts) /\ b.bids[i].side = "BUY"
  BY <1>1 DEF GoodBook, OneSide
<1>3. \A i \in 1..Len(b.asks) : b.asks[i] \in RestingIn(Nat, Accts) /\ b.asks[i].side = "SELL"
  BY <1>1 DEF GoodBook, OneSide
<1>4. "BUY" # "SELL" /\ "BUY" \in Sides /\ "SELL" \in Sides
  BY DEF Sides
<1> QED BY <1>2, <1>3, <1>4 DEF InBook

LEMMA NoneCrosses ==
    ASSUME NEW L, NEW b \in BooksIn(Nat, Accts, L), GoodBook(b),
           NEW v \in BooksIn(Nat, Accts, L), GoodBook(v), \A r : InBook(v, r) => InBook(b, r),
           NEW row, InBook(b, row)
    PROVE  ~CrossesRestoredBook(v, row.side, row.price)
<1> SUFFICES ASSUME CrossesRestoredBook(v, row.side, row.price) PROVE FALSE
  OBVIOUS
<1>1. row \in RestingIn(Nat, Accts) /\ row.side \in Sides
  BY SideOf
<1>2. /\ DOMAIN v.bids = 1..Len(v.bids) /\ DOMAIN v.asks = 1..Len(v.asks)
  <2>1. v.bids \in Seq(RestingIn(Nat, Accts)) /\ v.asks \in Seq(RestingIn(Nat, Accts))
    BY DEF BooksIn
  <2> QED BY <2>1
<1>3. CASE row.side = "BUY"
  <2>1. PICK a : row.price >= a.price /\ \E i \in 1..Len(v.asks) : v.asks[i] = a
    BY <1>2, <1>3 DEF CrossesRestoredBook, ToSet
  <2>2. InBook(v, a) /\ a.side = "SELL"
    BY <2>1, SideOf
  <2>3. InBook(b, a)
    BY <2>2
  <2>4. PICK x \in 1..Len(b.bids) : b.bids[x] = row
    BY <1>3, SideOf
  <2>5. PICK y \in 1..Len(b.asks) : b.asks[y] = a
    BY <2>2, <2>3, SideOf
  <2>6. row.price < a.price
    BY <2>4, <2>5 DEF GoodBook, NotCrossed
  <2>7. a.price \in Nat /\ row.price \in Nat
    BY <1>1, <2>3, SideOf, RestingFields
  <2> QED BY <2>1, <2>6, <2>7
<1>4. CASE row.side = "SELL"
  <2>1. PICK a : row.price <= a.price /\ \E i \in 1..Len(v.bids) : v.bids[i] = a
    BY <1>2, <1>4 DEF CrossesRestoredBook, ToSet
  <2>2. InBook(v, a) /\ a.side = "BUY"
    BY <2>1, SideOf
  <2>3. InBook(b, a)
    BY <2>2
  <2>4. PICK x \in 1..Len(b.asks) : b.asks[x] = row
    BY <1>4, SideOf
  <2>5. PICK y \in 1..Len(b.bids) : b.bids[y] = a
    BY <2>2, <2>3, SideOf
  <2>6. a.price < row.price
    BY <2>4, <2>5 DEF GoodBook, NotCrossed
  <2>7. a.price \in Nat /\ row.price \in Nat
    BY <1>1, <2>3, SideOf, RestingFields
  <2> QED BY <2>1, <2>6, <2>7
<1> QED BY <1>1, <1>3, <1>4 DEF Sides

Timed(b) == TimeOrdered(b.bids) /\ TimeOrdered(b.asks)

LEMMA SameBook ==
    ASSUME NEW L, NEW b \in BooksIn(Nat, Accts, L), GoodBook(b), Timed(b),
           NEW v \in BooksIn(Nat, Accts, L), GoodBook(v), Timed(v),
           v.last = b.last, \A r : InBook(v, r) <=> InBook(b, r)
    PROVE  v = b
<1>1. /\ b.bids \in Seq(RestingIn(Nat, Accts)) /\ b.asks \in Seq(RestingIn(Nat, Accts))
      /\ v.bids \in Seq(RestingIn(Nat, Accts)) /\ v.asks \in Seq(RestingIn(Nat, Accts))
  BY DEF BooksIn
<1>2. ASSUME NEW r
      PROVE  (\E i \in 1..Len(v.bids) : v.bids[i] = r) <=> (\E i \in 1..Len(b.bids) : b.bids[i] = r)
  <2>1. InBook(v, r) /\ r.side = "BUY" <=> \E i \in 1..Len(v.bids) : v.bids[i] = r
    BY SideOf
  <2>2. InBook(b, r) /\ r.side = "BUY" <=> \E i \in 1..Len(b.bids) : b.bids[i] = r
    BY SideOf
  <2> QED BY <2>1, <2>2
<1>3. ASSUME NEW r
      PROVE  (\E i \in 1..Len(v.asks) : v.asks[i] = r) <=> (\E i \in 1..Len(b.asks) : b.asks[i] = r)
  <2>1. InBook(v, r) /\ r.side = "SELL" <=> \E i \in 1..Len(v.asks) : v.asks[i] = r
    BY SideOf
  <2>2. InBook(b, r) /\ r.side = "SELL" <=> \E i \in 1..Len(b.asks) : b.asks[i] = r
    BY SideOf
  <2> QED BY <2>1, <2>2
<1>4. SameElements(v.bids, b.bids) /\ SameElements(v.asks, b.asks)
  BY <1>2, <1>3 DEF SameElements
<1>5. /\ OneSide(b.bids, "BUY") /\ OneSide(v.bids, "BUY")
      /\ OneSide(b.asks, "SELL") /\ OneSide(v.asks, "SELL")
      /\ TimeOrdered(b.bids) /\ TimeOrdered(v.bids)
      /\ TimeOrdered(b.asks) /\ TimeOrdered(v.asks)
  BY DEF GoodBook, Timed
<1>6. v.bids = b.bids
  BY <1>1, <1>4, <1>5, SameList
<1>7. v.asks = b.asks
  BY <1>1, <1>4, <1>5, SameList
<1>8. /\ v = [bids |-> v.bids, asks |-> v.asks, last |-> v.last]
      /\ b = [bids |-> b.bids, asks |-> b.asks, last |-> b.last]
  BY DEF BooksIn
<1> QED BY <1>6, <1>7, <1>8

\* Rows by id, each of them an order of the book, and every order of it.
Replays(rows, b) ==
    /\ rows \in Seq(RestingIn(Nat, Accts))
    /\ \A i, j \in 1..Len(rows) : i < j => rows[i].id < rows[j].id
    /\ \A i \in 1..Len(rows) : InBook(b, rows[i])
    /\ \A r : InBook(b, r) => \E i \in 1..Len(rows) : rows[i] = r
Holds(v, rows, i) == \A r : InBook(v, r) <=> \E k \in 1..i : rows[k] = r

LEMMA ReplayRebuilds ==
    ASSUME NEW L, NEW b \in BooksIn(Nat, Accts, L), GoodBook(b), Timed(b),
           NEW rows, Replays(rows, b)
    PROVE  RestoreBook(b.last, rows) = b
<1>1. PICK V : V = GoodBooksIn(Nat, Accts, L)
  OBVIOUS
<1>2. PICK n \in Nat : n = Len(rows) /\ DOMAIN rows = 1..n
                       /\ \A i \in 1..n : rows[i] \in RestingIn(Nat, Accts)
  BY DEF Replays
<1>3. rows \in Seq(RowsIn(Nat, Accts))
  <2>1. RestingIn(Nat, Accts) \subseteq RowsIn(Nat, Accts)
    BY DEF RestingIn, RowsIn
  <2>2. rows \in [1..n -> RowsIn(Nat, Accts)]
    BY <1>2, <2>1 DEF Replays
  <2> QED BY <1>2, <2>2
<1>4. PICK last : last = b.last /\ last \in L
  BY DEF BooksIn
<1>5. PICK f \in [0..n -> V] :
              /\ f[0] = EmptyBook(last) /\ f[n] = RestoreBook(last, rows)
              /\ \A i \in 0..(n - 1) : f[i + 1] = RestoreRow(f[i], rows[i + 1])
  BY <1>1, <1>2, <1>3, <1>4, RestoreIterates
<1> DEFINE G == {i \in Nat : i <= n => f[i].last = last /\ Timed(f[i]) /\ Holds(f[i], rows, i)}
<1>6. 0 \in G
  <2>1. 1..Len(<<>>) = {} /\ 1..0 = {}
    OBVIOUS
  <2>2. EmptyBook(last).bids = <<>> /\ EmptyBook(last).asks = <<>> /\ EmptyBook(last).last = last
    BY DEF EmptyBook
  <2> QED BY <1>5, <2>1, <2>2 DEF Timed, TimeOrdered, Holds, InBook
<1>7. ASSUME NEW i \in Nat, i \in G PROVE i + 1 \in G
  <2> SUFFICES ASSUME i + 1 <= n
               PROVE  f[i + 1].last = last /\ Timed(f[i + 1]) /\ Holds(f[i + 1], rows, i + 1)
    OBVIOUS
  <2>1. i \in 0..(n - 1) /\ i \in 0..n /\ i + 1 \in 1..n /\ i <= n /\ \A k \in 1..i : k \in 1..n /\ k < i + 1
    BY <1>2
  <2>2. PICK v, w, row : v = f[i] /\ w = f[i + 1] /\ row = rows[i + 1]
    OBVIOUS
  <2>3. v \in V /\ w = RestoreRow(v, row) /\ row \in RestingIn(Nat, Accts)
        /\ v.last = last /\ Timed(v) /\ Holds(v, rows, i)
    BY <1>2, <1>5, <1>7, <2>1, <2>2
  <2>4. v \in BooksIn(Nat, Accts, L) /\ GoodBook(v)
    BY <1>1, <2>3 DEF GoodBooksIn
  <2>5. \A r : InBook(v, r) => InBook(b, r) /\ r.id < row.id
    BY <1>2, <2>1, <2>2, <2>3 DEF Holds, Replays
  <2>6. InBook(b, row)
    BY <1>2, <2>1, <2>2 DEF Replays
  <2>7. ~CrossesRestoredBook(v, row.side, row.price)
    BY <2>4, <2>5, <2>6, NoneCrosses
  <2>8. /\ TimeOrdered(w.bids) /\ TimeOrdered(w.asks)
        /\ \A r : InBook(v, r) \/ r = row => InBook(w, r)
    BY <2>3, <2>4, <2>5, <2>7, RestoreRowTimed DEF Timed
  <2>9. w.last = v.last /\ \A r : InBook(w, r) => InBook(v, r) \/ r = row
    <3>1. row \in RowsIn(Nat, Accts)
      BY <2>3 DEF RestingIn, RowsIn
    <3> QED BY <2>3, <2>4, <3>1, RestoreRowGood
  <2>10. Holds(w, rows, i + 1)
    <3>1. 1..(i + 1) = (1..i) \cup {i + 1}
      OBVIOUS
    <3>2. ASSUME NEW r
          PROVE  InBook(w, r) <=> \E k \in 1..(i + 1) : rows[k] = r
      <4>1. InBook(w, r) <=> InBook(v, r) \/ r = row
        BY <2>8, <2>9
      <4>2. InBook(v, r) <=> \E k \in 1..i : rows[k] = r
        BY <2>3 DEF Holds
      <4> QED BY <2>2, <3>1, <4>1, <4>2
    <3> QED BY <3>2 DEF Holds
  <2> QED BY <2>2, <2>3, <2>8, <2>9, <2>10 DEF Timed
<1>8. n \in G
  <2> HIDE DEF G
  <2> QED BY <1>6, <1>7, NatInduct
<1>9. PICK v : v = f[n] /\ v = RestoreBook(last, rows)
  BY <1>5
<1>10. v.last = last /\ Timed(v) /\ Holds(v, rows, n)
  <2>1. n <= n
    OBVIOUS
  <2>2. f[n].last = last /\ Timed(f[n]) /\ Holds(f[n], rows, n)
    BY <1>8, <2>1
  <2> QED BY <1>9, <2>2
<1>11. v \in BooksIn(Nat, Accts, L) /\ GoodBook(v)
  <2>1. v \in V
    BY <1>2, <1>5, <1>9
  <2> QED BY <1>1, <2>1 DEF GoodBooksIn
<1>12. \A r : InBook(v, r) <=> InBook(b, r)
  BY <1>2, <1>10 DEF Holds, Replays
<1> QED BY <1>4, <1>9, <1>10, <1>11, <1>12, SameBook
\* Ids tell the orders of the book apart.
LEMMA OneOrderPerId ==
    ASSUME BookInv, KnownInv, NEW r, NEW s, InBook(book, r), InBook(book, s), r.id = s.id
    PROVE  r = s
<1>1. PICK L : L = LastPrices /\ book \in BooksIn(Nat, Accts, L) /\ GoodBook(book)
  BY DEF BookInv, Books
<1>2. /\ book.bids \in Seq(RestingIn(Nat, Accts)) /\ book.asks \in Seq(RestingIn(Nat, Accts))
  BY <1>1 DEF BooksIn
<1>3. \A x : InBook(book, x) => OrderOf(x, placed)
  BY DEF InBook, KnownInv, KnownTo
<1>4. OrderOf(r, placed) /\ OrderOf(s, placed)
  BY <1>3
<1>5. r.side = s.side /\ r.price = s.price
  BY <1>4 DEF OrderOf
<1>6. r.side \in Sides
  BY <1>1, SideOf
<1>7. CASE r.side = "BUY"
  <2>1. PICK i \in 1..Len(book.bids) : book.bids[i] = r
    BY <1>1, <1>7, SideOf
  <2>2. PICK j \in 1..Len(book.bids) : book.bids[j] = s
    <3>1. InBook(book, s) /\ s.side = "BUY"
      BY <1>5, <1>7
    <3> QED BY <1>1, <3>1, SideOf
  <2>3. OneSide(book.bids, "BUY") /\ TimeOrdered(book.bids)
    BY DEF BookInv, GoodBook
  <2>4. i = j
    BY <1>2, <1>5, <2>1, <2>2, <2>3, AheadBy
  <2> QED BY <2>1, <2>2, <2>4
<1>8. CASE r.side = "SELL"
  <2>1. PICK i \in 1..Len(book.asks) : book.asks[i] = r
    BY <1>1, <1>8, SideOf
  <2>2. PICK j \in 1..Len(book.asks) : book.asks[j] = s
    <3>1. InBook(book, s) /\ s.side = "SELL"
      BY <1>5, <1>8
    <3> QED BY <1>1, <3>1, SideOf
  <2>3. OneSide(book.asks, "SELL") /\ TimeOrdered(book.asks)
    BY DEF BookInv, GoodBook
  <2>4. i = j
    BY <1>2, <1>5, <2>1, <2>2, <2>3, AheadBy
  <2> QED BY <2>1, <2>2, <2>4
<1> QED BY <1>6, <1>7, <1>8 DEF Sides

\* n different numbers out of n are all of them.
LEMMA RunsThrough ==
    ASSUME NEW S \in SUBSET Nat, IsFiniteSet(S), NEW n \in Nat, n = Cardinality(S),
           NEW k \in [1..n -> S], \A i, j \in 1..n : i < j => k[i] < k[j]
    PROVE  \A x \in S : \E i \in 1..n : k[i] = x
<1>1. k \in Injection(1..n, S)
  <2>1. ASSUME NEW i \in 1..n, NEW j \in 1..n, k[i] = k[j] PROVE i = j
    <3>1. k[i] \in Nat /\ k[j] \in Nat
      OBVIOUS
    <3>2. ~ (i < j) /\ ~ (j < i)
      BY <2>1, <3>1
    <3> QED BY <3>2
  <2> QED BY <2>1 DEF Injection, IsInjective
<1>2. IsFiniteSet(1..n) /\ Cardinality(1..n) = n
  <2>1. 1 \in Int /\ n \in Int
    OBVIOUS
  <2>2. IsFiniteSet(1..n) /\ Cardinality(1..n) = IF 1 > n THEN 0 ELSE n - 1 + 1
    BY <2>1, FS_Interval
  <2> QED BY <2>2
<1>3. PICK I : I = 1..n
  OBVIOUS
<1>4. k \in Injection(I, S) /\ Cardinality(I) = Cardinality(S)
  BY <1>1, <1>2, <1>3
<1>5. k \in Surjection(I, S)
  BY <1>4, FS_Injection
<1> QED BY <1>3, <1>5 DEF Surjection

\* A restart that reads the open rows in the order they were placed rebuilds the
\* book as it was, order by order and place by place: the replay of bootstrap.
THEOREM RestartsRebuildTheBook == Spec => []RestartRebuildsBook
<1>1. BookInv /\ KnownInv => RestartRebuildsBook
  <2> SUFFICES ASSUME BookInv, KnownInv PROVE RestartRebuildsBook
    OBVIOUS
  <2> DEFINE open == {i \in DOMAIN placed : BookContainsOrder(book, i)}
             row(i) == CHOOSE r \in BookOrders(book) : r.id = i
  <2>1. PICK L : L = LastPrices /\ book \in BooksIn(Nat, Accts, L) /\ GoodBook(book) /\ Timed(book)
    BY DEF BookInv, Books, Timed
  <2>2. \A r : InBook(book, r) <=> r \in BookOrders(book)
    BY <2>1, InBookIs
  <2>3. \A i \in open : InBook(book, row(i)) /\ row(i).id = i
    BY <2>2 DEF BookContainsOrder
  <2>4. \A r : InBook(book, r) => r.id \in open
    <3>1. placed \in Seq(IncomingIn(Nat, Accts))
      BY DEF BookInv
    <3>2. DOMAIN placed = 1..Len(placed)
      BY <3>1
    <3>3. \A r : InBook(book, r) => r.id \in 1..Len(placed)
      BY DEF InBook, KnownInv, KnownTo, OrderOf
    <3> QED BY <2>2, <3>2, <3>3 DEF BookContainsOrder
  <2>5. open \in SUBSET Nat /\ IsFiniteSet(open)
    <3>1. placed \in Seq(IncomingIn(Nat, Accts))
      BY DEF BookInv
    <3>2. PICK D : D = DOMAIN placed /\ D \in SUBSET Nat /\ IsFiniteSet(D)
      BY <3>1, SeqDomain
    <3>3. open \in SUBSET D
      BY <3>2
    <3>4. IsFiniteSet(open)
      BY <3>2, <3>3, FS_Subset
    <3> QED BY <3>2, <3>3, <3>4
  <2>6. PICK n \in Nat : n = Cardinality(open)
    BY <2>5, FS_CardinalityType
  <2>7. ASSUME NEW k \in [1..n -> open], \A i, j \in 1..n : i < j => k[i] < k[j]
        PROVE  RestoreBook(book.last, [i \in 1..n |-> row(k[i])]) = book
    <3>1. \A x \in open : \E i \in 1..n : k[i] = x
      <4> HIDE DEF open
      <4> QED BY <2>5, <2>6, <2>7, RunsThrough
    <3> DEFINE rows == [i \in 1..n |-> row(k[i])]
    <3>2. ASSUME NEW i \in 1..n
          PROVE  rows[i].id = k[i] /\ InBook(book, rows[i]) /\ rows[i] \in RestingIn(Nat, Accts)
      <4>1. k[i] \in open /\ rows[i] = row(k[i])
        OBVIOUS
      <4>2. InBook(book, rows[i]) /\ rows[i].id = k[i]
        BY <2>3, <4>1
      <4> QED BY <2>1, <4>2, SideOf
    <3>3. rows \in Seq(RestingIn(Nat, Accts)) /\ Len(rows) = n
      <4>1. rows \in [1..n -> RestingIn(Nat, Accts)]
        BY <3>2
      <4> HIDE DEF rows
      <4> QED BY <4>1
    <3>4. ASSUME NEW r, InBook(book, r) PROVE \E i \in 1..n : rows[i] = r
      <4>1. PICK i \in 1..n : k[i] = r.id
        BY <2>4, <3>1, <3>4
      <4>2. rows[i].id = r.id /\ InBook(book, rows[i])
        BY <3>2, <4>1
      <4>3. rows[i] = r
        BY <3>4, <4>2, OneOrderPerId
      <4> QED BY <4>3
    <3>5. Replays(rows, book)
      <4> HIDE DEF rows, row, open
      <4> QED BY <2>7, <3>2, <3>3, <3>4 DEF Replays
    <3> HIDE DEF rows
    <3>6. RestoreBook(book.last, rows) = book
      BY <2>1, <3>5, ReplayRebuilds
    <3> QED BY <3>6 DEF rows
  <2>8. \A k \in [1..n -> open] :
            (\A i, j \in DOMAIN k : i < j => k[i] < k[j])
            => RestoreBook(book.last, [i \in DOMAIN k |-> row(k[i])]) = book
    <3> TAKE k \in [1..n -> open]
    <3>1. DOMAIN k = 1..n
      OBVIOUS
    <3> HIDE DEF row, open
    <3> QED BY <2>7, <3>1
  <2> QED BY <2>6, <2>8 DEF RestartRebuildsBook
<1> QED BY <1>1, BookInvAlways, MatchInvAlways, PTL

----------------------------------------------------------------------------
(***************************************************************************)
(* The snapshot: the levels of a list, order by order.                     *)
(***************************************************************************)
LevelRows == [price : Nat, qty : Nat]

ShowOrder(depth, out, o) ==
    IF out # <<>> /\ Last(out).price = o.price
    THEN [out EXCEPT ![Len(out)].qty = @ + o.qty]
    ELSE IF Len(out) = depth THEN out
    ELSE Append(out, [price |-> o.price, qty |-> o.qty])

\* One more order: in the last level, in a level of its own, or past the depth.
Shown(depth, out, o, m, t) ==
    /\ m = Len(out)
    /\ \/ /\ m # 0 /\ out[m].price = o.price
          /\ Len(t) = m /\ \A k \in 1..(m - 1) : t[k] = out[k]
          /\ t[m] = [price |-> o.price, qty |-> out[m].qty + o.qty]
       \/ /\ m # 0 => out[m].price # o.price
          /\ m = depth /\ t = out
       \/ /\ m # 0 => out[m].price # o.price
          /\ m # depth
          /\ Len(t) = m + 1 /\ \A k \in 1..m : t[k] = out[k]
          /\ t[m + 1] = [price |-> o.price, qty |-> o.qty]

LEMMA ShownIs ==
    ASSUME NEW depth, NEW out \in Seq(LevelRows), NEW o \in RestingIn(Nat, Accts)
    PROVE  /\ ShowOrder(depth, out, o) \in Seq(LevelRows)
           /\ \E m \in Nat : Shown(depth, out, o, m, ShowOrder(depth, out, o))
<1>0. PICK t : t = ShowOrder(depth, out, o)
  OBVIOUS
<1>1. PICK m \in Nat : m = Len(out) /\ (out = <<>> <=> m = 0) /\ Last(out) = out[m]
  BY DEF Last
<1>2. PICK p \in Nat, z \in Nat : p = o.price /\ z = o.qty
  BY RestingFields
<1>3. PICK r \in LevelRows : r = [price |-> o.price, qty |-> o.qty]
  BY <1>2 DEF LevelRows
<1>4. CASE m # 0 /\ out[m].price = o.price
  <2>1. t = [out EXCEPT ![m].qty = @ + o.qty]
    BY <1>0, <1>1, <1>2, <1>4 DEF ShowOrder
  <2>2. m \in 1..m /\ out[m] \in LevelRows
    BY <1>1, <1>4
  <2>3. PICK q \in Nat : q = out[m].qty /\ out[m] = [price |-> o.price, qty |-> q]
    BY <1>4, <2>2 DEF LevelRows
  <2>4. PICK u \in LevelRows : u = [price |-> o.price, qty |-> q + o.qty]
    <3>1. q + z \in Nat
      OBVIOUS
    <3> QED BY <1>2, <3>1 DEF LevelRows
  <2>5. t = [out EXCEPT ![m] = u]
    <3>1. [out[m] EXCEPT !.qty = @ + o.qty] = u
      BY <2>3, <2>4
    <3> QED BY <2>1, <3>1
  <2>6. t \in Seq(LevelRows) /\ Len(t) = m /\ t[m] = u /\ \A k \in 1..(m - 1) : t[k] = out[k]
    BY <1>1, <2>2, <2>4, <2>5
  <2> QED BY <1>0, <1>1, <1>4, <2>3, <2>4, <2>6 DEF Shown
<1>5. CASE ~(m # 0 /\ out[m].price = o.price) /\ m = depth
  BY <1>0, <1>1, <1>2, <1>5 DEF ShowOrder, Shown
<1>6. CASE ~(m # 0 /\ out[m].price = o.price) /\ m # depth
  <2>1. t = Append(out, r)
    BY <1>0, <1>1, <1>2, <1>3, <1>6 DEF ShowOrder
  <2>2. t \in Seq(LevelRows) /\ Len(t) = m + 1 /\ t[m + 1] = r /\ \A k \in 1..m : t[k] = out[k]
    BY <1>1, <1>3, <2>1
  <2> QED BY <1>0, <1>1, <1>3, <1>6, <2>2 DEF Shown
<1> QED BY <1>4, <1>5, <1>6

LevelsStep(depth, list, g, T) ==
    IF T = {} THEN <<>> ELSE ShowOrder(depth, g[T \ {Max(T)}], list[Max(T)])

\* f carries what is shown from order to order, to the levels of the list.
ShownAlong(f, n, list, depth) ==
    /\ f[0] = <<>> /\ f[n] = Levels(list, depth)
    /\ \A i \in 0..(n - 1) : f[i + 1] = ShowOrder(depth, f[i], list[i + 1])

LEMMA LevelsIterate ==
    ASSUME NEW list \in Seq(RestingIn(Nat, Accts)), NEW depth,
           NEW n \in Nat, n = Len(list), NEW V, V = Seq(LevelRows)
    PROVE  \E f \in [0..n -> V] : ShownAlong(f, n, list, depth)
<1> DEFINE start == <<>>
           step == [i \in 1..n |-> [v \in V |-> ShowOrder(depth, v, list[i])]]
           Iter(g) == g = [T \in SUBSET DOMAIN list |-> LevelsStep(depth, list, g, T)]
<1>1. n \in Nat /\ DOMAIN list = 1..n /\ \A i \in 1..n : list[i] \in RestingIn(Nat, Accts)
  OBVIOUS
<1>2. start \in V
  OBVIOUS
<1>3. \A i \in 1..n : \A v \in V : ShowOrder(depth, v, list[i]) \in V
  <2> TAKE i \in 1..n
  <2> TAKE v \in V
  <2>1. PICK row : row = list[i] /\ row \in RestingIn(Nat, Accts)
    BY <1>1
  <2> QED BY <2>1, ShownIs
<1>4. PICK g \in [SUBSET (1..n) -> V] : FoldsFrom(n, start, step, g)
  <2>1. \A i \in 1..n : \A v \in V : step[i][v] \in V
    BY <1>3
  <2> HIDE DEF step, start
  <2> QED BY <1>1, <1>2, <2>1, FoldIterates
<1>5. Iter(g)
  <2>1. \A T \in SUBSET (1..n) : T # {} => Max(T) \in 1..n /\ T \ {Max(T)} \in SUBSET (1..n)
    BY <1>1, GreatestExists
  <2>2. \A T \in SUBSET (1..n) : g[T] = LevelsStep(depth, list, g, T)
    <3> TAKE T \in SUBSET (1..n)
    <3>1. CASE T = {}
      BY <3>1, <1>4 DEF FoldsFrom, LevelsStep
    <3>2. CASE T # {}
      <4>1. PICK m \in 1..n : m = Max(T) /\ T \ {m} \in SUBSET (1..n)
        BY <2>1, <3>2
      <4>2. g[T] = step[m][g[T \ {m}]] /\ g[T \ {m}] \in V
        BY <1>4, <3>2, <4>1 DEF FoldsFrom
      <4>3. step[m][g[T \ {m}]] = ShowOrder(depth, g[T \ {m}], list[m])
        BY <4>2
      <4> QED BY <3>2, <4>1, <4>2, <4>3 DEF LevelsStep
    <3> QED BY <3>1, <3>2
  <2> HIDE DEF step, start
  <2> QED BY <1>1, <2>2
<1> DEFINE c == CHOOSE h : Iter(h)
<1>6. Iter(c)
  <2> HIDE DEF Iter
  <2> QED BY <1>5
<1>7. Levels(list, depth) = c[DOMAIN list]
  BY DEF Levels, FoldLeft, MapThenFoldSet, LevelsStep, ShowOrder
<1> DEFINE f == [i \in 0..n |-> c[1..i]]
<1>8. f[0] = <<>>
  <2>1. 1..0 = {} /\ 1..0 \in SUBSET (1..n) /\ 0 \in 0..n
    BY <1>1
  <2> QED BY <1>1, <1>6, <2>1 DEF LevelsStep
<1>9. \A i \in 0..(n - 1) : f[i + 1] = ShowOrder(depth, f[i], list[i + 1])
  <2> TAKE i \in 0..(n - 1)
  <2>1. PICK T : T = 1..(i + 1)
    OBVIOUS
  <2>2. T \in SUBSET (1..n) /\ T # {} /\ i \in Nat /\ i \in 0..n /\ i + 1 \in 0..n
    <3>1. i \in Nat /\ i \in 0..n /\ i + 1 \in 0..n
      BY <1>1
    <3>2. T \in SUBSET (1..n) /\ i + 1 \in T
      BY <1>1, <2>1
    <3> QED BY <3>1, <3>2
  <2>3. Max(T) = i + 1 /\ T \ {i + 1} = 1..i
    BY <2>1, <2>2, GreatestOfInterval
  <2>4. c[T] = LevelsStep(depth, list, c, T)
    <3> HIDE DEF c
    <3> QED BY <1>1, <1>6, <2>2
  <2>5. c[T] = ShowOrder(depth, c[1..i], list[i + 1])
    BY <2>2, <2>3, <2>4 DEF LevelsStep
  <2> HIDE DEF c
  <2> QED BY <2>1, <2>2, <2>5
<1>10. f[n] = Levels(list, depth)
  <2>1. n \in 0..n
    BY <1>1
  <2> HIDE DEF c
  <2> QED BY <1>1, <1>7, <2>1
<1>11. \A i \in 0..n : f[i] \in V
  <2> DEFINE G == {i \in Nat : i <= n => f[i] \in V}
  <2>1. 0 \in G
    BY <1>2, <1>8
  <2>2. ASSUME NEW i \in Nat, i \in G PROVE i + 1 \in G
    <3> SUFFICES ASSUME i + 1 <= n PROVE f[i + 1] \in V
      OBVIOUS
    <3>1. i \in 0..(n - 1) /\ i + 1 \in 1..n /\ i <= n
      BY <1>1
    <3>2. f[i + 1] = ShowOrder(depth, f[i], list[i + 1]) /\ f[i] \in V
      BY <3>1, <1>9, <2>2
    <3> HIDE DEF f
    <3> QED BY <3>1, <3>2, <1>3
  <2>3. Nat \subseteq G
    <3> HIDE DEF G
    <3> QED BY <2>1, <2>2, NatInduct
  <2> HIDE DEF f
  <2> QED BY <2>3, <1>1
<1> HIDE DEF c
<1>12. f \in [0..n -> V]
  BY <1>11
<1> HIDE DEF f
<1> QED BY <1>8, <1>9, <1>10, <1>12 DEF ShownAlong

\* What rests at a price, by place in the list.
RestsAt(list, p) == [j \in 1..Len(list) |-> IF list[j].price = p THEN list[j].qty ELSE 0]

LEMMA RestsMore ==
    ASSUME NEW list \in Seq(RestingIn(Nat, Accts)), NEW p, NEW i \in Nat, i + 1 <= Len(list)
    PROVE  SumOver(RestsAt(list, p), 1..(i + 1)) =
              SumOver(RestsAt(list, p), 1..i) + IF list[i + 1].price = p THEN list[i + 1].qty ELSE 0
<1>1. PICK w : w = RestsAt(list, p)
  OBVIOUS
<1>2. PICK n \in Nat : n = Len(list)
  OBVIOUS
<1>3. \A j \in 1..n : w[j] = (IF list[j].price = p THEN list[j].qty ELSE 0) /\ w[j] \in Int
  <2> TAKE j \in 1..n
  <2>1. list[j] \in RestingIn(Nat, Accts)
    BY <1>2
  <2>2. list[j].qty \in Nat
    BY <2>1, RestingFields
  <2> QED BY <1>1, <1>2, <2>2 DEF RestsAt
<1>4. \A j \in 1..(i + 1) : w[j] \in Int
  BY <1>2, <1>3
<1>5. SumOver(w, 1..(i + 1)) = SumOver(w, 1..i) + w[i + 1]
  BY ONLY i \in Nat, <1>4, SumAppend
<1>6. i + 1 \in 1..n
  BY <1>2
<1> QED BY <1>1, <1>3, <1>5, <1>6

LEMMA NoneRests ==
    ASSUME NEW list \in Seq(RestingIn(Nat, Accts)), NEW p, NEW i \in Nat, i <= Len(list),
           \A j \in 1..i : list[j].price # p
    PROVE  SumOver(RestsAt(list, p), 1..i) = 0
<1>1. PICK w : w = RestsAt(list, p)
  OBVIOUS
<1>2. \A j \in 1..i : w[j] = 0
  BY <1>1 DEF RestsAt
<1>3. IsFiniteSet(1..i)
  BY FS_Interval
<1>4. SumOver(w, 1..i) = 0
  BY ONLY <1>2, <1>3, SumOfZeros
<1> QED BY <1>1, <1>4

LEMMA RestsType ==
    ASSUME NEW list \in Seq(RestingIn(Nat, Accts)), NEW p, NEW i \in Nat, i <= Len(list)
    PROVE  SumOver(RestsAt(list, p), 1..i) \in Nat
<1>1. PICK w : w = RestsAt(list, p)
  OBVIOUS
<1>2. \A j \in 1..i : w[j] \in Nat
  <2> TAKE j \in 1..i
  <2>1. list[j] \in RestingIn(Nat, Accts) /\ j \in 1..Len(list)
    OBVIOUS
  <2>2. list[j].qty \in Nat
    BY <2>1, RestingFields
  <2> QED BY <1>1, <2>1, <2>2 DEF RestsAt
<1>3. IsFiniteSet(1..i)
  BY FS_Interval
<1>4. SumOver(w, 1..i) \in Nat
  BY ONLY <1>2, <1>3, SumNat
<1> QED BY <1>1, <1>4

\* After i orders: the levels are the best prices so far, with all that rests there.
ShownSoFar(list, side, depth, i, out) ==
    /\ Len(out) <= depth
    /\ \A a, b \in 1..Len(out) : a < b => Better(side, out[a].price, out[b].price)
    /\ \A a \in 1..Len(out) : \E j \in 1..i : out[a].price = list[j].price
    /\ \A a \in 1..Len(out) : out[a].qty = SumOver(RestsAt(list, out[a].price), 1..i)
    /\ \A j \in 1..i : \/ \E a \in 1..Len(out) : out[a].price = list[j].price
                       \/ /\ Len(out) = depth
                          /\ \A a \in 1..Len(out) : Better(side, out[a].price, list[j].price)

LEMMA ShownOn ==
    ASSUME NEW list \in Seq(RestingIn(Nat, Accts)), NEW side \in Sides, PriceOrdered(list, side),
           NEW depth \in Nat, depth # 0, NEW i \in Nat, i + 1 <= Len(list),
           NEW out \in Seq(LevelRows), ShownSoFar(list, side, depth, i, out),
           NEW t, t = ShowOrder(depth, out, list[i + 1])
    PROVE  ShownSoFar(list, side, depth, i + 1, t)
<1>1. PICK n \in Nat : n = Len(list) /\ i + 1 \in 1..n /\ i <= n
  OBVIOUS
<1>2. PICK o \in RestingIn(Nat, Accts) : o = list[i + 1]
  BY <1>1
<1>3. PICK p \in Nat, z \in Nat : p = o.price /\ z = o.qty
  BY RestingFields
<1>4. PICK m \in Nat : Shown(depth, out, o, m, t) /\ m = Len(out)
  <2>1. PICK m \in Nat : Shown(depth, out, o, m, t)
    BY <1>2, ShownIs
  <2> QED BY <2>1 DEF Shown
<1>5. t \in Seq(LevelRows)
  BY <1>2, ShownIs
<1>6. /\ m <= depth
      /\ \A a, b \in 1..m : a < b => Better(side, out[a].price, out[b].price)
      /\ \A a \in 1..m : \E j \in 1..i : out[a].price = list[j].price
      /\ \A a \in 1..m : out[a].qty = SumOver(RestsAt(list, out[a].price), 1..i)
      /\ \A j \in 1..i : \/ \E a \in 1..m : out[a].price = list[j].price
                         \/ /\ m = depth
                            /\ \A a \in 1..m : Better(side, out[a].price, list[j].price)
  BY <1>4 DEF ShownSoFar
<1>7. \A a \in 1..m : out[a].price \in Nat /\ out[a].qty \in Nat
  <2> TAKE a \in 1..m
  <2>1. out[a] \in LevelRows
    BY <1>4
  <2> QED BY <2>1 DEF LevelRows
<1>8. \A a \in 1..m : ~Better(side, p, out[a].price)
  <2> TAKE a \in 1..m
  <2>1. PICK j \in 1..i : out[a].price = list[j].price
    BY <1>6
  <2>2. j \in 1..n /\ j < i + 1
    BY <1>1
  <2> QED BY <1>1, <1>2, <1>3, <2>1, <2>2 DEF PriceOrdered
<1>9. (m # 0 => out[m].price # p) => \A a \in 1..m : Better(side, out[a].price, p)
  <2> SUFFICES ASSUME m # 0 => out[m].price # p, NEW a \in 1..m
               PROVE  Better(side, out[a].price, p)
    OBVIOUS
  <2>1. m \in 1..m /\ out[m].price # p
    OBVIOUS
  <2>2. PICK x \in Nat, y \in Nat : x = out[a].price /\ y = out[m].price
    BY <1>7, <2>1
  <2>3. Better(side, y, p)
    <3>1. ~Better(side, p, y) /\ y # p
      BY <1>8, <2>1, <2>2
    <3> QED BY <3>1, BetterIs
  <2>4. a = m \/ Better(side, x, y)
    <3>1. a = m \/ a < m
      OBVIOUS
    <3> QED BY <1>6, <2>1, <2>2, <3>1
  <2>5. Better(side, x, y) /\ Better(side, y, p) => Better(side, x, p)
    BY DEF Better, Sides
  <2> QED BY <2>2, <2>3, <2>4, <2>5
<1>10. \A a \in 1..m : Better(side, out[a].price, p) => out[a].price # p
  BY <1>7 DEF Better, Sides
<1>11. ASSUME NEW x
       PROVE  /\ x = p => SumOver(RestsAt(list, x), 1..(i + 1)) = SumOver(RestsAt(list, x), 1..i) + z
              /\ x # p => SumOver(RestsAt(list, x), 1..(i + 1)) = SumOver(RestsAt(list, x), 1..i)
  <2>1. SumOver(RestsAt(list, x), 1..i) \in Nat
    BY <1>1, RestsType
  <2>2. SumOver(RestsAt(list, x), 1..(i + 1)) =
            SumOver(RestsAt(list, x), 1..i) + IF p = x THEN z ELSE 0
    BY <1>2, <1>3, RestsMore
  <2> QED BY <2>1, <2>2
<1>12. 1..(i + 1) = (1..i) \cup {i + 1} /\ list[i + 1].price = p
  BY <1>2, <1>3
<1>13. CASE m # 0 /\ out[m].price = p /\ Len(t) = m /\ (\A k \in 1..(m - 1) : t[k] = out[k])
            /\ t[m] = [price |-> p, qty |-> out[m].qty + z]
  <2>1. m \in 1..m /\ \A a \in 1..m : a = m \/ a \in 1..(m - 1)
    BY <1>13
  <2>2. \A a \in 1..m : t[a].price = out[a].price
    BY <1>13, <2>1
  <2>3. ASSUME NEW a \in 1..m PROVE t[a].qty = SumOver(RestsAt(list, t[a].price), 1..(i + 1))
    <3>1. CASE a = m
      <4>1. t[a].qty = out[a].qty + z /\ t[a].price = p /\ out[a].price = p
        BY <1>13, <3>1
      <4> QED BY <1>6, <1>11, <4>1
    <3>2. CASE a # m
      <4>1. t[a] = out[a] /\ a < m
        BY <1>13, <2>1, <3>2, SMTT(60)
      <4>2. Better(side, out[a].price, p)
        BY <1>6, <1>13, <2>1, <4>1
      <4>3. out[a].price # p
        BY <1>10, <4>2
      <4> QED BY <1>6, <1>11, <4>1, <4>3
    <3> QED BY <3>1, <3>2
  <2>4. ASSUME NEW a \in 1..m PROVE \E j \in 1..(i + 1) : t[a].price = list[j].price
    BY <1>6, <1>12, <2>2
  <2>5. ASSUME NEW j \in 1..(i + 1)
        PROVE  \/ \E a \in 1..m : t[a].price = list[j].price
               \/ m = depth /\ \A a \in 1..m : Better(side, t[a].price, list[j].price)
    <3>1. CASE j = i + 1
      BY <1>12, <1>13, <2>1, <2>2, <3>1
    <3>2. CASE j \in 1..i
      BY <1>6, <2>2, <3>2
    <3> QED BY <1>12, <3>1, <3>2
  <2> QED BY <1>6, <1>13, <2>2, <2>3, <2>4, <2>5 DEF ShownSoFar
<1>14. CASE (m # 0 => out[m].price # p) /\ m = depth /\ t = out
  <2>1. \A a \in 1..m : Better(side, out[a].price, p) /\ out[a].price # p
    BY <1>9, <1>10, <1>14
  <2>2. \A a \in 1..m : t[a].qty = SumOver(RestsAt(list, t[a].price), 1..(i + 1))
    BY <1>6, <1>11, <1>14, <2>1
  <2>3. ASSUME NEW a \in 1..m PROVE \E j \in 1..(i + 1) : t[a].price = list[j].price
    BY <1>6, <1>12, <1>14
  <2>4. ASSUME NEW j \in 1..(i + 1)
        PROVE  \/ \E a \in 1..m : t[a].price = list[j].price
               \/ m = depth /\ \A a \in 1..m : Better(side, t[a].price, list[j].price)
    <3>1. CASE j = i + 1
      BY <1>12, <1>14, <2>1, <3>1
    <3>2. CASE j \in 1..i
      BY <1>6, <1>14, <3>2
    <3> QED BY <1>12, <3>1, <3>2
  <2>5. /\ Len(t) = m /\ m <= depth
        /\ \A a, b \in 1..m : a < b => Better(side, t[a].price, t[b].price)
    BY <1>4, <1>6, <1>14
  <2> QED BY <2>2, <2>3, <2>4, <2>5 DEF ShownSoFar
<1>15. CASE (m # 0 => out[m].price # p) /\ m # depth /\ Len(t) = m + 1
            /\ (\A k \in 1..m : t[k] = out[k]) /\ t[m + 1] = [price |-> p, qty |-> z]
  <2>1. \A a \in 1..m : Better(side, out[a].price, p) /\ out[a].price # p
    BY <1>9, <1>10, <1>15
  <2>2. 1..(m + 1) = (1..m) \cup {m + 1} /\ m + 1 <= depth
    <3>1. m <= depth /\ m # depth
      BY <1>6, <1>15
    <3> QED BY ONLY <3>1, m \in Nat, depth \in Nat
  <2>3. \A j \in 1..i : list[j].price # p
    BY <1>6, <1>15, <2>1, ZenonT(60)
  <2>4. SumOver(RestsAt(list, p), 1..i) = 0
    BY <1>1, <2>3, NoneRests
  <2>5. ASSUME NEW a \in 1..(m + 1) PROVE t[a].qty = SumOver(RestsAt(list, t[a].price), 1..(i + 1))
    <3>1. CASE a = m + 1
      <4>1. t[a].qty = z /\ t[a].price = p
        BY <1>15, <3>1
      <4>2. SumOver(RestsAt(list, p), 1..(i + 1)) = 0 + z
        BY <1>11, <2>4
      <4> QED BY <4>1, <4>2
    <3>2. CASE a \in 1..m
      <4>1. t[a] = out[a] /\ out[a].price # p
        BY <1>15, <2>1, <3>2
      <4> QED BY <1>6, <1>11, <3>2, <4>1
    <3> QED BY <2>2, <3>1, <3>2
  <2>6. ASSUME NEW a \in 1..(m + 1), NEW b \in 1..(m + 1), a < b
        PROVE  Better(side, t[a].price, t[b].price)
    <3>1. a \in 1..m /\ t[a].price = out[a].price
      BY <1>15, <2>6
    <3>2. CASE b = m + 1
      BY <1>15, <2>1, <3>1, <3>2
    <3>3. CASE b \in 1..m
      BY <1>6, <1>15, <2>6, <3>1, <3>3
    <3> QED BY <2>2, <3>2, <3>3
  <2>7. ASSUME NEW a \in 1..(m + 1) PROVE \E j \in 1..(i + 1) : t[a].price = list[j].price
    <3>1. CASE a = m + 1
      BY <1>12, <1>15, <3>1
    <3>2. CASE a \in 1..m
      <4>1. PICK j \in 1..i : out[a].price = list[j].price
        BY <1>6, <3>2
      <4> QED BY <1>12, <1>15, <3>2, <4>1
    <3> QED BY <2>2, <3>1, <3>2
  <2>8. ASSUME NEW j \in 1..(i + 1) PROVE \E a \in 1..(m + 1) : t[a].price = list[j].price
    <3>1. CASE j = i + 1
      BY <1>12, <1>15, <2>2, <3>1
    <3>2. CASE j \in 1..i
      <4>1. PICK a \in 1..m : out[a].price = list[j].price
        BY <1>6, <1>15, <3>2
      <4> QED BY <1>15, <2>2, <4>1
    <3> QED BY <1>12, <3>1, <3>2
  <2> QED BY <1>15, <2>2, <2>5, <2>6, <2>7, <2>8 DEF ShownSoFar
<1> QED BY <1>3, <1>4, <1>13, <1>14, <1>15 DEF Shown

LEMMA LevelsShown ==
    ASSUME NEW list \in Seq(RestingIn(Nat, Accts)), NEW side \in Sides, PriceOrdered(list, side),
           NEW depth \in Nat, depth # 0
    PROVE  /\ Levels(list, depth) \in Seq(LevelRows)
           /\ ShownSoFar(list, side, depth, Len(list), Levels(list, depth))
<1>0. PICK V : V = Seq(LevelRows)
  OBVIOUS
<1>1. PICK n \in Nat : n = Len(list)
  OBVIOUS
<1>2. PICK f \in [0..n -> V] : ShownAlong(f, n, list, depth)
  BY ONLY list \in Seq(RestingIn(Nat, Accts)), n \in Nat, <1>0, <1>1, LevelsIterate
<1> DEFINE G == {i \in Nat : i <= n => ShownSoFar(list, side, depth, i, f[i])}
<1>3. 0 \in G
  <2>1. Len(<<>>) = 0 /\ 1..0 = {}
    OBVIOUS
  <2>2. ShownSoFar(list, side, depth, 0, <<>>)
    BY <2>1 DEF ShownSoFar
  <2> QED BY <1>2, <2>2 DEF ShownAlong
<1>4. ASSUME NEW i \in Nat, i \in G PROVE i + 1 \in G
  <2> SUFFICES ASSUME i + 1 <= n PROVE ShownSoFar(list, side, depth, i + 1, f[i + 1])
    OBVIOUS
  <2>1. i \in 0..(n - 1) /\ i \in 0..n /\ i <= n
    OBVIOUS
  <2>2. PICK out, t : out = f[i] /\ t = f[i + 1]
    OBVIOUS
  <2>3. out \in Seq(LevelRows) /\ ShownSoFar(list, side, depth, i, out)
        /\ t = ShowOrder(depth, out, list[i + 1])
    BY <1>0, <1>1, <1>2, <1>4, <2>1, <2>2 DEF ShownAlong
  <2>4. i + 1 <= Len(list)
    BY <1>1
  <2>5. ShownSoFar(list, side, depth, i + 1, t)
    BY <2>3, <2>4, ShownOn
  <2> QED BY <2>2, <2>5
<1>5. n \in G
  <2> HIDE DEF G
  <2> QED BY <1>3, <1>4, NatInduct
<1>6. n <= n /\ n \in 0..n
  OBVIOUS
<1>7. ShownSoFar(list, side, depth, n, f[n])
  BY <1>5, <1>6
<1>8. f[n] \in V
  BY <1>6
<1> QED BY <1>0, <1>1, <1>2, <1>7, <1>8 DEF ShownAlong

\* What rests at a price, as a set of orders.
LEMMA RestsIs ==
    ASSUME NEW list \in Seq(RestingIn(Nat, Accts)), NEW side, OneSide(list, side),
           TimeOrdered(list), NEW p
    PROVE  SumQty({r \in ToSet(list) : r.price = p}) = SumOver(RestsAt(list, p), 1..Len(list))
<1>1. PICK n \in Nat : n = Len(list) /\ DOMAIN list = 1..n
  OBVIOUS
<1>2. PICK S, T : S = ToSet(list) /\ T = {r \in S : r.price = p}
  OBVIOUS
<1>3. S = {list[j] : j \in 1..n}
  BY <1>1, <1>2 DEF ToSet
<1>4. \A r \in S : r.qty \in Nat
  <2> TAKE r \in S
  <2>1. r \in RestingIn(Nat, Accts)
    BY <1>1, <1>3
  <2> QED BY <2>1, RestingFields
<1>5. PICK f, h, w : /\ f = [r \in T |-> r.qty] /\ w = RestsAt(list, p)
                     /\ h = [r \in S |-> IF r \in T THEN f[r] ELSE 0]
  OBVIOUS
<1>6. Pictures(list, n, h, w, S)
  <2>1. \A j \in 1..n : h[list[j]] = w[j] /\ w[j] \in Int
    <3> TAKE j \in 1..n
    <3>1. list[j] \in S /\ list[j].qty \in Nat
      BY <1>3, <1>4
    <3>2. w[j] = IF list[j].price = p THEN list[j].qty ELSE 0
      BY <1>1, <1>5 DEF RestsAt
    <3>3. h[list[j]] = IF list[j].price = p THEN list[j].qty ELSE 0
      BY <1>2, <1>5, <3>1
    <3> QED BY <3>1, <3>2, <3>3
  <2>2. \A i, j \in 1..n : list[i] = list[j] => i = j
    <3> TAKE i, j \in 1..n
    <3>1. i \in 1..Len(list) /\ j \in 1..Len(list)
      BY <1>1
    <3> QED BY <3>1, AheadBy
  <2> QED BY <1>3, <2>1, <2>2 DEF Pictures
<1>7. IsFiniteSet(S) /\ SumOver(h, S) = SumOver(w, 1..n)
  BY <1>6, ImageTotal
<1>8. Total(f) = SumOver(h, S)
  <2>1. T \in SUBSET S /\ DOMAIN f = T /\ (\A x \in T : f[x] \in Int)
    BY <1>2, <1>4, <1>5
  <2>2. \A x \in S : h[x] = IF x \in T THEN f[x] ELSE 0
    BY <1>5
  <2> QED BY ONLY <1>7, <2>1, <2>2, TotalOfPart
<1>9. SumQty(T) = Total(f)
  BY <1>5 DEF SumQty
<1> QED BY <1>1, <1>2, <1>5, <1>7, <1>8, <1>9

ShowsBest(list, side, depth) ==
    LET L      == Levels(list, depth)
        prices == {r.price : r \in ToSet(list)}
    IN  /\ Len(L) = Min({depth, Cardinality(prices)})
        /\ \A k \in DOMAIN L :
              /\ L[k].qty = SumQty({r \in ToSet(list) : r.price = L[k].price})
              /\ L[k].price \in prices
        /\ \A p \in prices \ {L[k].price : k \in DOMAIN L} :
              \A k \in DOMAIN L : Better(side, L[k].price, p)

\* What a client sees of a side is its best prices, at most as many as the
\* snapshot has room for, with everything that rests at each (levels).
THEOREM SnapshotsShowTheBest == Spec => []SnapshotShowsBestLevels
<1>1. BookInv => SnapshotShowsBestLevels
  <2> SUFFICES ASSUME BookInv, NEW where \in {"bids", "asks"}
               PROVE  LET L      == Levels(book[where], Depth)
                          prices == {r.price : r \in ToSet(book[where])}
                      IN  /\ Len(L) = Min({Depth, Cardinality(prices)})
                          /\ \A k \in DOMAIN L :
                                /\ L[k].qty = SumQty({r \in ToSet(book[where]) : r.price = L[k].price})
                                /\ L[k].price \in prices
                          /\ \A p \in prices \ {L[k].price : k \in DOMAIN L} :
                                \A k \in DOMAIN L :
                                    Better(IF where = "bids" THEN "BUY" ELSE "SELL", L[k].price, p)
    BY DEF SnapshotShowsBestLevels
  <2>1. PICK list, side : /\ list = book[where] /\ side = IF where = "bids" THEN "BUY" ELSE "SELL"
    OBVIOUS
  <2>2. /\ list \in Seq(RestingIn(Nat, Accts)) /\ side \in Sides
        /\ OneSide(list, side) /\ PriceOrdered(list, side) /\ TimeOrdered(list)
    BY <2>1 DEF BookInv, Books, BooksIn, GoodBook, Sides
  <2>3. PICK depth \in Nat : depth = Depth /\ depth # 0
    BY MCBounds
  <2>4. PICK L \in Seq(LevelRows) :
            L = Levels(list, depth) /\ ShownSoFar(list, side, depth, Len(list), L)
    BY <2>2, <2>3, LevelsShown
  <2>5. PICK n \in Nat, m \in Nat : /\ n = Len(list) /\ m = Len(L)
                                    /\ DOMAIN list = 1..n /\ DOMAIN L = 1..m
    <3>1. /\ Len(list) \in Nat /\ Len(L) \in Nat
          /\ DOMAIN list = 1..Len(list) /\ DOMAIN L = 1..Len(L)
      BY <2>2
    <3> QED BY <3>1
  <2>6. /\ m <= depth
        /\ \A a, b \in 1..m : a < b => Better(side, L[a].price, L[b].price)
        /\ \A a \in 1..m : \E j \in 1..n : L[a].price = list[j].price
        /\ \A a \in 1..m : L[a].qty = SumOver(RestsAt(list, L[a].price), 1..n)
        /\ \A j \in 1..n : \/ \E a \in 1..m : L[a].price = list[j].price
                           \/ /\ m = depth
                              /\ \A a \in 1..m : Better(side, L[a].price, list[j].price)
    BY <2>4, <2>5 DEF ShownSoFar
  <2>7. PICK prices, S : /\ prices = {r.price : r \in ToSet(list)}
                         /\ S = {L[a].price : a \in 1..m}
    OBVIOUS
  <2>8. prices = {list[j].price : j \in 1..n}
    BY <2>5, <2>7 DEF ToSet
  <2>9. S \in SUBSET prices /\ \A a \in 1..m : L[a].price \in S /\ L[a].price \in prices
    BY <2>6, <2>7, <2>8
  <2>10. IsFiniteSet(prices)
    <3>1. PICK g : g = [j \in 1..n |-> list[j].price]
      OBVIOUS
    <3>2. g \in Surjection(1..n, prices)
      BY <2>8, <3>1 DEF Surjection
    <3>3. IsFiniteSet(1..n)
      BY FS_Interval
    <3> QED BY <3>2, <3>3, FS_Surjection
  <2>11. IsFiniteSet(S) /\ Cardinality(S) = m
    <3>1. PICK g : g = [a \in 1..m |-> 0]
      OBVIOUS
    <3>2. PICK s : s = [a \in 1..m |-> L[a].price]
      OBVIOUS
    <3>3. \A a \in 1..m : L[a].price \in Nat
      <4> TAKE a \in 1..m
      <4>1. L[a] \in LevelRows
        BY <2>5
      <4> QED BY <4>1 DEF LevelRows
    <3>4. ASSUME NEW a \in 1..m, NEW b \in 1..m, s[a] = s[b] PROVE a = b
      <4>1. PICK x \in Nat : x = L[a].price /\ x = L[b].price
        BY <3>2, <3>3, <3>4
      <4>2. ~Better(side, x, x)
        BY <2>2 DEF Better, Sides
      <4>3. ~ (a < b) /\ ~ (b < a)
        BY <2>6, <4>1, <4>2
      <4> QED BY <4>3
    <3>5. PICK F : F = [x \in S |-> 0]
      OBVIOUS
    <3>6. S = {s[a] : a \in 1..m} /\ \A a \in 1..m : F[s[a]] = g[a] /\ g[a] \in Int
      BY <2>7, <3>1, <3>2, <3>5
    <3>7. Pictures(s, m, F, g, S)
      BY <3>4, <3>6 DEF Pictures
    <3> QED BY <3>7, ImageTotal
  <2>12. PICK c \in Nat : c = Cardinality(prices) /\ m <= c /\ (m = c => S = prices)
    <3>1. Cardinality(prices) \in Nat
      BY <2>10, FS_CardinalityType
    <3>2. Cardinality(S) <= Cardinality(prices)
      BY <2>9, <2>10, FS_Subset
    <3>3. Cardinality(prices) = Cardinality(S) => prices = S
      BY <2>9, <2>10, FS_Subset
    <3> QED BY <2>11, <3>1, <3>2, <3>3
  <2>13. m # depth => m = c
    <3> SUFFICES ASSUME m # depth PROVE m = c
      OBVIOUS
    <3>1. \A j \in 1..n : list[j].price \in S
      BY <2>6, <2>7
    <3>2. S = prices
      BY <2>8, <2>9, <3>1
    <3> QED BY <2>11, <2>12, <3>2
  <2>14. m = Min({depth, c})
    <3>1. Min({depth, c}) = IF depth <= c THEN depth ELSE c
      BY LesserOfTwo
    <3> QED BY <2>6, <2>12, <2>13, <3>1
  <2>15. \A k \in 1..m : L[k].qty = SumQty({r \in ToSet(list) : r.price = L[k].price})
    BY <2>2, <2>5, <2>6, RestsIs
  <2>16. ASSUME NEW p \in prices \ S, NEW k \in 1..m PROVE Better(side, L[k].price, p)
    <3>1. PICK j \in 1..n : p = list[j].price
      BY <2>8
    <3>2. ~ \E a \in 1..m : L[a].price = list[j].price
      BY <2>7, <3>1
    <3> QED BY <2>6, <3>1, <3>2
  <2>17. ShowsBest(list, side, depth)
    <3>1. DOMAIN L = 1..m /\ Len(L) = m /\ L = Levels(list, depth)
      BY <2>4, <2>5
    <3>2. S = {L[k].price : k \in DOMAIN L}
      BY <2>7, <3>1
    <3>3. \A k \in 1..m : L[k].price \in prices
      BY <2>9
    <3>4. \A p \in prices \ S : \A k \in 1..m : Better(side, L[k].price, p)
      BY <2>16
    <3>5. prices = {r.price : r \in ToSet(list)}
      BY <2>7
    <3> QED BY <2>12, <2>14, <2>15, <3>1, <3>2, <3>3, <3>4, <3>5, ZenonT(60) DEF ShowsBest
  <2> QED BY <2>1, <2>3, <2>17, ZenonT(60) DEF ShowsBest
<1> QED BY <1>1, BookInvAlways, PTL
=============================================================================
