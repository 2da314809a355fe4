------------------------- MODULE MarketMakerProofs -------------------------
(***************************************************************************)
(* Proofs that no two orders of the market maker can trade with each       *)
(* other, and that it leaves no side without an order, for any number of   *)
(* rungs, center moves, executions, lost requests and crashes.             *)
(*                                                                         *)
(* From its start to its end a process knows every order of the maker that *)
(* is live, at its price: it has posted it, inherited it or waits for its  *)
(* cancel.  What crosses nothing it knows crosses nothing in the market.   *)
(* A process that starts knows nothing, and posts nothing either.          *)
(***************************************************************************)
EXTENDS MarketMaker, FiniteSetTheorems, WellFoundedInduction, TLAPS

IsRow(x) == /\ x = [state |-> x.state, side |-> x.side, price |-> x.price]
            /\ x.state \in {"OPEN", "PARTIAL"}

IsQuote(q) == q = [id |-> q.id, side |-> q.side, low |-> q.low, price |-> q.price]

RowsTI == row = [i \in Ids |-> row[i]] /\ \A i \in Live : IsRow(row[i])

QuotesTI == /\ active = [r \in Rungs |-> active[r]]
            /\ \A q \in Known : IsQuote(q)
            /\ todo \subseteq Rungs

\* A live row is an order that the process knows.
CoveredBy(q, i) == q.id = i /\ q.side = row[i].side /\ q.price = row[i].price

AllKnown == step # "start" => \A i \in Live : \E q \in Known : CoveredBy(q, i)

MakerInv == RowsTI /\ QuotesTI /\ AllKnown /\ NoSelfCross

LEMMA InitMakerInv == MakerInit => MakerInv
  <1> SUFFICES ASSUME MakerInit
               PROVE  MakerInv
    OBVIOUS
  <1>1. row = [i \in Ids |-> Gone] /\ active = [r \in Rungs |-> NoQuote] /\ step = "start"
        /\ retiring = {} /\ preserved = {} /\ retirable = {} /\ todo = {}
    BY DEF MakerInit
  <1>2. Live = {}
    BY <1>1 DEF Live
  <1>3. Known = {}
    BY <1>1 DEF Known, Quotes
  <1>4. QED
    BY <1>1, <1>2, <1>3 DEF MakerInv, RowsTI, QuotesTI, AllKnown, NoSelfCross

\* Rows that only end, or of which something is executed.
Shrinking == /\ row' = [i \in Ids |-> row'[i]]
             /\ \A i \in Ids : row'[i] # Gone =>
                   /\ row[i] # Gone /\ IsRow(row'[i])
                   /\ row'[i].side = row[i].side /\ row'[i].price = row[i].price

LEMMA SameRowsShrink ==
    ASSUME RowsTI, row' = row
    PROVE  Shrinking
  BY DEF RowsTI, Shrinking, Live

LEMMA ShrinkFacts ==
    ASSUME MakerInv, Shrinking
    PROVE  /\ RowsTI' /\ NoSelfCross' /\ Live' \subseteq Live
           /\ \A i \in Live' : row'[i].side = row[i].side /\ row'[i].price = row[i].price
  <1>1. /\ Live' \subseteq Live
        /\ \A i \in Live' : IsRow(row'[i]) /\ row'[i].side = row[i].side /\ row'[i].price = row[i].price
    BY DEF Shrinking, Live
  <1>2. NoSelfCross'
    BY <1>1 DEF MakerInv, NoSelfCross, Cross
  <1>3. RowsTI'
    BY <1>1 DEF Shrinking, RowsTI
  <1>4. QED
    BY <1>1, <1>2, <1>3

\* The process knows what it knew, or more.
LEMMA KeepKnown ==
    ASSUME MakerInv, Shrinking, QuotesTI', step # "start",
           \A q \in Known : q.id \in Live' => \E k \in Known' : k.id = q.id /\ k.side = q.side
                                                              /\ k.price = q.price
    PROVE  MakerInv'
  <1>1. /\ RowsTI' /\ NoSelfCross' /\ Live' \subseteq Live
        /\ \A i \in Live' : row'[i].side = row[i].side /\ row'[i].price = row[i].price
    BY ShrinkFacts
  <1>2. ASSUME NEW i \in Live'
        PROVE  \E k \in Known' : CoveredBy(k, i)'
    <2>1. PICK q \in Known : CoveredBy(q, i)
      BY <1>1 DEF MakerInv, AllKnown
    <2>2. PICK k \in Known' : k.id = i /\ k.side = q.side /\ k.price = q.price
      BY <2>1 DEF CoveredBy
    <2>3. QED
      BY <1>1, <2>1, <2>2 DEF CoveredBy
  <1>3. AllKnown'
    BY <1>2 DEF AllKnown
  <1>4. QED
    BY <1>1, <1>3 DEF MakerInv

LEMMA SameKnown ==
    ASSUME MakerInv, Shrinking, UNCHANGED owned, todo' \subseteq Rungs,
           step' # "start" => step # "start"
    PROVE  MakerInv'
  <1>1. Known' = Known /\ QuotesTI'
    BY DEF owned, Known, Quotes, MakerInv, QuotesTI
  <1>2. CASE step # "start"
    BY <1>1, <1>2, KeepKnown
  <1>3. CASE step' = "start"
    BY <1>1, <1>3, ShrinkFacts DEF MakerInv, AllKnown
  <1>4. QED
    BY <1>2, <1>3

LEMMA ForgetInv ==
    ASSUME MakerInv, NEW c, Forget(c)
    PROVE  MakerInv'
  <1>1. row' = row /\ step' = "start" /\ todo' = {} /\ active' = NoLadder
        /\ retiring' = {} /\ preserved' = {} /\ retirable' = {}
    BY DEF Forget, bookVars
  <1>2. Shrinking
    BY <1>1, SameRowsShrink DEF MakerInv
  <1>3. Known' = {}
    BY <1>1 DEF Known, Quotes, NoLadder
  <1>4. QuotesTI'
    BY <1>1, <1>3 DEF QuotesTI, NoLadder
  <1>5. QED
    BY <1>1, <1>2, <1>4, ShrinkFacts DEF MakerInv, AllKnown

\* ----- starting: every live row is in the ladder that is adopted, or left
IsLadder(ladder) ==
    \A r \in Rungs : ladder[r] = NoQuote \/ \E i : ladder[r] = QuoteOf(i, FALSE)

LEMMA BeginInv ==
    ASSUME MakerInv, NEW c, NEW ladder, IsLadder(ladder), Begin(c, ladder)
    PROVE  MakerInv'
  <1>1. /\ row' = row
        /\ active' = [r \in Rungs |-> IF ladder[r] = NoQuote THEN active[r] ELSE ladder[r]]
        /\ retirable' = retirable \cup Left(ladder, "OPEN")
        /\ preserved' = preserved \cup Left(ladder, "PARTIAL")
        /\ retiring' = retiring
        /\ todo' = Insufficient(active', c, Rungs)
    BY DEF Begin, bookVars
  <1>2. Shrinking
    BY <1>1, SameRowsShrink DEF MakerInv
  <1>3. RowsTI' /\ NoSelfCross' /\ Live' = Live
    BY <1>1, <1>2, ShrinkFacts DEF Live
  <1>4. \A i : IsQuote(QuoteOf(i, FALSE))
    BY DEF IsQuote, QuoteOf
  <1>5. \A q \in Left(ladder, "OPEN") \cup Left(ladder, "PARTIAL") : IsQuote(q)
    BY <1>4 DEF Left
  <1>6. ASSUME NEW r \in Rungs, active'[r] # NoQuote
        PROVE  IsQuote(active'[r])
    <2>1. CASE ladder[r] = NoQuote
      BY <1>1, <1>6, <2>1 DEF MakerInv, QuotesTI, Known, Quotes
    <2>2. CASE ladder[r] # NoQuote
      BY <1>1, <1>4, <2>2 DEF IsLadder
    <2>3. QED
      BY <2>1, <2>2
  <1>7. QuotesTI'
    <2>1. \A q \in Known' : IsQuote(q)
      BY <1>1, <1>5, <1>6 DEF Known, Quotes, MakerInv, QuotesTI
    <2>2. todo' \subseteq Rungs
      BY <1>1 DEF Insufficient
    <2>3. QED
      BY <1>1, <2>1, <2>2 DEF QuotesTI
  <1>8. ASSUME NEW i \in Live
        PROVE  \E q \in Known' : CoveredBy(q, i)
    <2>1. CoveredBy(QuoteOf(i, FALSE), i)
      BY DEF CoveredBy, QuoteOf
    <2>2. CASE \E r \in Rungs : ladder[r].id = i
      <3>1. PICK r \in Rungs : ladder[r].id = i
        BY <2>2
      <3>2. i # 0 /\ NoQuote.id = 0
        BY <1>8, MakerAssumption DEF Live, NoQuote
      <3>3. ladder[r] # NoQuote
        BY <3>1, <3>2
      <3>4. PICK j : ladder[r] = QuoteOf(j, FALSE)
        BY <3>3 DEF IsLadder
      <3>5. j = i
        BY <3>1, <3>4 DEF QuoteOf
      <3>6. active'[r] = QuoteOf(i, FALSE) /\ active'[r] # NoQuote
        BY <1>1, <3>3, <3>4, <3>5
      <3>7. active'[r] \in Known'
        BY <3>6 DEF Known, Quotes
      <3>8. QED
        BY <2>1, <3>6, <3>7
    <2>3. CASE \A r \in Rungs : ladder[r].id # i
      <3>1. row[i].state \in {"OPEN", "PARTIAL"}
        BY DEF MakerInv, RowsTI, IsRow
      <3>2. QuoteOf(i, FALSE) \in Left(ladder, "OPEN") \cup Left(ladder, "PARTIAL")
        BY <2>3, <3>1 DEF Left
      <3>3. QED
        BY <1>1, <2>1, <3>2 DEF Known
    <2>4. QED
      BY <2>2, <2>3
  <1>9. AllKnown'
    BY <1>1, <1>3, <1>8 DEF AllKnown, CoveredBy
  <1>10. QED
    BY <1>3, <1>7, <1>9 DEF MakerInv

LEMMA StartInv ==
    ASSUME MakerInv, (step = "start" /\ \E c \in Candidates : Adopt(c)) \/ StartAround
    PROVE  MakerInv'
  <1>1. IsLadder(NoLadder) /\ \A c : IsLadder(Adopted(c))
    BY DEF IsLadder, NoLadder, Adopted
  <1>2. \E c, ladder : IsLadder(ladder) /\ Begin(c, ladder)
    BY <1>1 DEF Adopt, StartAround
  <1>3. QED
    BY <1>2, BeginInv

\* ----- looking
LEMMA SeenFacts ==
    ASSUME NEW q, IsQuote(q)
    PROVE  IsQuote(Seen(q)) /\ Seen(q).id = q.id /\ Seen(q).side = q.side /\ Seen(q).price = q.price
  <1>1. PICK low : Seen(q) = [q EXCEPT !.low = low]
    BY DEF Seen
  <1>2. Seen(q) = [id |-> q.id, side |-> q.side, low |-> low, price |-> q.price]
    BY <1>1 DEF IsQuote
  <1>3. QED
    BY <1>2 DEF IsQuote

LEMMA LookInv ==
    ASSUME MakerInv, NEW due, Look(due)
    PROVE  MakerInv'
  <1>1. /\ row' = row /\ step = "look" /\ todo' = todo
        /\ active' = [r \in Rungs |-> IF active[r].id \in Live THEN Seen(active[r]) ELSE NoQuote]
        /\ retiring' = StillLive(retiring) /\ preserved' = StillLive(preserved)
        /\ retirable' = StillLive(retirable)
    BY DEF Look, bookVars
  <1>2. Shrinking /\ Live' = Live
    BY <1>1, SameRowsShrink DEF MakerInv, Live
  <1>3. \A i \in Live : i # 0
    BY MakerAssumption DEF Live
  <1>4. \A q \in Known : IsQuote(q)
    BY DEF MakerInv, QuotesTI
  <1>5. ASSUME NEW r \in Rungs, active'[r] # NoQuote
        PROVE  active[r] \in Known /\ active'[r] = Seen(active[r])
    <2>1. active[r].id \in Live /\ active'[r] = Seen(active[r])
      BY <1>1, <1>5
    <2>2. active[r] # NoQuote
      BY <1>3, <2>1 DEF NoQuote
    <2>3. QED
      BY <2>1, <2>2 DEF Known, Quotes
  <1>6. \A q \in Known' : \E k \in Known : q = Seen(k)
    <2>1. \A q \in StillLive(retiring) \cup StillLive(preserved) \cup StillLive(retirable) :
              \E k \in Known : q = Seen(k)
      BY DEF StillLive, Known
    <2>2. QED
      BY <1>1, <1>5, <2>1 DEF Known, Quotes
  <1>7. QuotesTI'
    <2>1. \A q \in Known' : IsQuote(q)
      BY <1>4, <1>6, SeenFacts
    <2>2. QED
      BY <1>1, <2>1 DEF MakerInv, QuotesTI
  <1>8. ASSUME NEW q \in Known, q.id \in Live
        PROVE  Seen(q) \in Known'
    <2>1. CASE q \in retiring \cup preserved \cup retirable
      BY <1>1, <1>8, <2>1 DEF StillLive, Known
    <2>2. CASE q \in Quotes(Rungs)
      <3>1. PICK r \in Rungs : q = active[r]
        BY <2>2 DEF Quotes
      <3>2. active'[r] = Seen(q)
        BY <1>1, <1>8, <3>1
      <3>3. Seen(q) # NoQuote
        BY <1>3, <1>4, <1>8, SeenFacts DEF NoQuote
      <3>4. QED
        BY <3>2, <3>3 DEF Known, Quotes
    <2>3. QED
      BY <2>1, <2>2 DEF Known
  <1>9. \A q \in Known : q.id \in Live' => \E k \in Known' : k.id = q.id /\ k.side = q.side
                                                           /\ k.price = q.price
    BY <1>2, <1>4, <1>8, SeenFacts
  <1>10. step # "start"
    BY <1>1
  <1>11. QED
    BY <1>2, <1>7, <1>9, <1>10, KeepKnown

\* ----- sliding: a quote keeps its rung, changes it or is retired later
LEMMA ArrangeInv ==
    ASSUME MakerInv, NEW c, Arrange(c)
    PROVE  MakerInv'
  <1>1. /\ row' = row /\ step = "decide"
        /\ active' = Remapped(c) /\ retiring' = retiring /\ preserved' = preserved
        /\ retirable' = retirable \cup {q \in Quotes(Rungs) : \A r \in Rungs : active'[r] # q}
        /\ todo' = Insufficient(active', c, Rungs)
    BY DEF Arrange, Deciding, bookVars
  <1>2. Shrinking
    BY <1>1, SameRowsShrink DEF MakerInv
  <1>3. ASSUME NEW r \in Rungs, active'[r] # NoQuote
        PROVE  active'[r] \in Quotes(Rungs)
    <2>1. At(c, r) # {} /\ active'[r] \in At(c, r)
      BY <1>1, <1>3 DEF Remapped
    <2>2. QED
      BY <2>1 DEF At, Quotes, RungsOf
  <1>4. Known' \subseteq Known
    BY <1>1, <1>3 DEF Known, Quotes
  <1>5. Known \subseteq Known'
    BY <1>1 DEF Known, Quotes
  <1>6. QuotesTI'
    BY <1>1, <1>4 DEF MakerInv, QuotesTI, Remapped, Insufficient
  <1>7. step # "start"
    BY <1>1
  <1>8. \A q \in Known : q.id \in Live' => \E k \in Known' : k.id = q.id /\ k.side = q.side
                                                           /\ k.price = q.price
    BY <1>5
  <1>9. QED
    BY <1>2, <1>6, <1>7, <1>8, KeepKnown

\* ----- posting: what crosses nothing that is known crosses no row
LEMMA PostInv ==
    ASSUME MakerInv, NEW r \in todo, Post(r)
    PROVE  MakerInv'
  <1>1. r \in Rungs /\ step \in {"staged", "refresh"} /\ todo' = todo \ {r} /\ step' = step
        /\ preserved' = preserved /\ retirable' = retirable
    BY DEF Post, Visits, MakerInv, QuotesTI
  <1>2. CASE ~CanAddWithoutSelfTrade(Desired(r), Tracked)
    <2>1. row' = row /\ UNCHANGED owned
      BY <1>2 DEF Post, owned
    <2>2. todo' \subseteq Rungs
      BY <1>1 DEF MakerInv, QuotesTI
    <2>3. QED
      BY <1>1, <2>1, <2>2, SameKnown, SameRowsShrink DEF MakerInv
  <1>3. CASE CanAddWithoutSelfTrade(Desired(r), Tracked)
    <2>1. PICK new, d, x :
              /\ new = NewId /\ d = Desired(r)
              /\ x = [state |-> "OPEN", side |-> d.side, price |-> d.price]
      OBVIOUS
    <2>2. d.id = new /\ d.side \in Sides /\ IsQuote(d)
      BY <1>1, <2>1 DEF Desired, IsQuote, Rungs, SideOf
    <2>3. /\ row' = [row EXCEPT ![new] = x] /\ active' = [active EXCEPT ![r] = d]
          /\ retiring' = retiring \cup ({active[r]} \ {NoQuote})
      BY <1>3, <2>1 DEF Post, Accept
    <2>4. \A q \in Known : ~Cross(d, q)
      BY <1>3, <2>1 DEF CanAddWithoutSelfTrade, Tracked
    <2>5. \A i \in Ids : row'[i] = IF i = new THEN x ELSE row[i]
      BY <2>3 DEF MakerInv, RowsTI
    <2>6. RowsTI'
      <3>1. IsRow(x)
        BY <2>1 DEF IsRow
      <3>2. row' = [i \in Ids |-> row'[i]]
        BY <2>3 DEF MakerInv, RowsTI
      <3>3. \A i \in Live' : IsRow(row'[i])
        BY <2>5, <3>1 DEF MakerInv, RowsTI, Live
      <3>4. QED
        BY <3>2, <3>3 DEF RowsTI
    <2>7. \A p \in Rungs : active'[p] = IF p = r THEN d ELSE active[p]
      BY <1>1, <2>3 DEF MakerInv, QuotesTI
    <2>8. QuotesTI'
      <3>1. active' = [p \in Rungs |-> active'[p]]
        BY <2>3 DEF MakerInv, QuotesTI
      <3>2. \A q \in Known' : q = d \/ q \in Known
        BY <1>1, <2>3, <2>7 DEF Known, Quotes
      <3>3. QED
        BY <1>1, <2>2, <3>1, <3>2 DEF MakerInv, QuotesTI
    <2>9. \A q \in Known : q \in Known'
      BY <1>1, <2>3, <2>7 DEF Known, Quotes
    <2>10. ASSUME NEW i \in Live', i # new
           PROVE  /\ i \in Live /\ row'[i] = row[i]
                  /\ \E q \in Known : CoveredBy(q, i)
      BY <1>1, <2>5, <2>10 DEF MakerInv, AllKnown, Live
    <2>11. AllKnown'
      <3>1. ASSUME NEW i \in Live'
            PROVE  \E q \in Known' : CoveredBy(q, i)'
        <4>1. CASE i = new
          <5>1. i # 0 /\ row'[i] = x
            BY <2>5, <4>1, MakerAssumption DEF Live
          <5>2. d # NoQuote
            BY <2>2, <4>1, <5>1 DEF NoQuote
          <5>3. d \in Known'
            BY <1>1, <2>7, <5>2 DEF Known, Quotes
          <5>4. CoveredBy(d, i)'
            BY <2>1, <2>2, <4>1, <5>1 DEF CoveredBy
          <5>5. QED
            BY <5>3, <5>4
        <4>2. CASE i # new
          BY <2>9, <2>10, <4>2 DEF CoveredBy
        <4>3. QED
          BY <4>1, <4>2
      <3>2. QED
        BY <3>1 DEF AllKnown
    <2>12. ASSUME NEW i \in Live', i # new
           PROVE  ~Cross(x, row'[i]) /\ ~Cross(row'[i], x)
      <3>1. PICK q \in Known : CoveredBy(q, i)
        BY <2>10, <2>12
      <3>2. ~Cross(d, q)
        BY <2>4
      <3>3. QED
        BY <2>1, <2>10, <2>12, <3>1, <3>2 DEF Cross, CoveredBy
    <2>13. NoSelfCross'
      <3>1. ASSUME NEW i \in Live', NEW j \in Live'
            PROVE  ~Cross(row'[i], row'[j])
        <4>1. CASE i # new /\ j # new
          BY <2>10, <4>1 DEF MakerInv, NoSelfCross
        <4>2. CASE i = new /\ j = new
          BY <2>5, <4>2 DEF Cross, Live
        <4>3. CASE i = new /\ j # new
          BY <2>5, <2>12, <4>3 DEF Live
        <4>4. CASE i # new /\ j = new
          BY <2>5, <2>12, <4>4 DEF Live
        <4>5. QED
          BY <4>1, <4>2, <4>3, <4>4
      <3>2. QED
        BY <3>1 DEF NoSelfCross
    <2>14. QED
      BY <2>6, <2>8, <2>11, <2>13 DEF MakerInv
  <1>4. QED
    BY <1>2, <1>3

LEMMA RetireInv ==
    ASSUME MakerInv, NEW q \in retirable, Retire(q)
    PROVE  MakerInv'
  <1>1. /\ row' = row /\ step = "retire" /\ active' = active /\ preserved' = preserved
        /\ todo' = todo
        /\ retiring' = retiring \cup {q} /\ retirable' = retirable \ {q}
    BY DEF Retire
  <1>2. Known' = Known
    BY <1>1 DEF Known, Quotes
  <1>3. Shrinking /\ QuotesTI' /\ step # "start"
    BY <1>1, <1>2, SameRowsShrink DEF MakerInv, QuotesTI
  <1>4. QED
    BY <1>2, <1>3, KeepKnown

\* ----- the exchange
LEMMA ExchangeInv ==
    ASSUME MakerInv, Exchange
    PROVE  MakerInv'
  <1>1. ASSUME NEW i, End(i)
        PROVE  Shrinking
    <2>1. row' = [row EXCEPT ![i] = Gone]
      BY <1>1 DEF End
    <2>2. \A j \in Ids : row'[j] = row[j] \/ row'[j] = Gone
      BY <2>1 DEF MakerInv, RowsTI
    <2>3. QED
      BY <2>1, <2>2 DEF MakerInv, RowsTI, Shrinking, Live
  <1>2. ASSUME NEW i \in Live, row' = [row EXCEPT ![i].state = "PARTIAL"]
        PROVE  Shrinking
    <2>1. PICK x : x = [state |-> "PARTIAL", side |-> row[i].side, price |-> row[i].price]
      OBVIOUS
    <2>2. IsRow(row[i])
      BY DEF MakerInv, RowsTI
    <2>3. [row[i] EXCEPT !.state = "PARTIAL"] = x
      BY <2>1, <2>2 DEF IsRow
    <2>4. \A j \in Ids : row'[j] = IF j = i THEN x ELSE row[j]
      BY <1>2, <2>3 DEF MakerInv, RowsTI
    <2>5. IsRow(x)
      BY <2>1 DEF IsRow
    <2>6. QED
      BY <1>2, <2>1, <2>4, <2>5 DEF MakerInv, RowsTI, Shrinking, Live
  <1>3. UNCHANGED owned /\ todo' = todo /\ step' = step
    BY DEF Exchange, Fill, Close, memory
  <1>4. Shrinking
    BY <1>1, <1>2 DEF Exchange, Fill, Close
  <1>5. QED
    BY <1>3, <1>4, SameKnown DEF MakerInv, QuotesTI

LEMMA MakerInvStep ==
    ASSUME MakerInv, [MakerNext]_makerVars
    PROVE  MakerInv'
  <1>1. ASSUME row' = row, UNCHANGED owned, todo' \subseteq Rungs,
               step' # "start" => step # "start"
        PROVE  MakerInv'
    BY <1>1, SameKnown, SameRowsShrink DEF MakerInv
  <1>2. todo \subseteq Rungs
    BY DEF MakerInv, QuotesTI
  <1>3. CASE LookLater \/ BeginRelocation \/ AwaitRetirement \/ FinishRelocation
    BY <1>1, <1>2, <1>3 DEF LookLater, BeginRelocation, AwaitRetirement, FinishRelocation, Deciding,
                            memory, bookVars
  <1>4. ASSUME NEW side, PostSide(side)
        PROVE  MakerInv'
    <2>1. todo' \subseteq Rungs
      BY <1>4 DEF PostSide, Absent, Insufficient, RungsOf
    <2>2. QED
      BY <1>1, <1>4, <2>1 DEF PostSide, Deciding, memory, bookVars
  <1>5. ASSUME NEW r, PostFails(r)
        PROVE  MakerInv'
    BY <1>1, <1>2, <1>5 DEF PostFails, Visits, memory, bookVars
  <1>6. ASSUME NEW i, Delete(i)
        PROVE  MakerInv'
    BY <1>1, <1>2, <1>6 DEF Delete, memory
  <1>7. CASE EndPass
    BY <1>1, <1>2, <1>7 DEF EndPass, bookVars
  <1>8. CASE Refresh \/ Slides
    BY <1>8, ArrangeInv DEF Refresh, Slides, Slide
  <1>9. CASE Loop
    BY <1>3, <1>4, <1>5, <1>6, <1>7, <1>8, <1>9, StartInv, LookInv, PostInv, RetireInv DEF Loop
  <1>10. CASE Stall \/ Crash
    BY <1>10, ForgetInv DEF Stall, Crash
  <1>11. ASSUME NEW c, Move(c)
         PROVE  MakerInv'
    BY <1>1, <1>2, <1>11 DEF Move, memory, bookVars
  <1>12. CASE UNCHANGED makerVars
    BY <1>1, <1>2, <1>12 DEF makerVars, memory, bookVars
  <1>13. QED
    BY <1>9, <1>10, <1>11, <1>12, ExchangeInv DEF MakerNext

\* No order of the maker can trade with another one of it, while ladders slide,
\* relocate and are inherited, and cancels are lost or late.
THEOREM MakerNeverCrossesItself == MakerSpec => []NoSelfCross
  <1>1. MakerInv => NoSelfCross
    BY DEF MakerInv
  <1>2. QED
    BY <1>1, InitMakerInv, MakerInvStep, PTL DEF MakerSpec

----------------------------------------------------------------------------
(***************************************************************************)
(* Post before cancel.  As long as nobody trades with the maker and no     *)
(* start is hasty, the orders that are to go are those in retiring; the    *)
(* ladder and what is retirable stand, and keep every side of retiring.    *)
(***************************************************************************)
Calm == fills = 0 /\ ~hasty

Keepers == Quotes(Rungs) \cup retirable

NothingKnown == /\ active = NoLadder /\ retiring = {} /\ preserved = {} /\ retirable = {}
                /\ asked = {} /\ drop = {}

RowsWhole == \A i \in Live : row[i].state = "OPEN" /\ row[i].side \in Sides

\* A keeper is an order, of which no other quote is.
KeepersStand ==
    \A q \in Keepers : /\ q.id \in Live /\ q = QuoteOf(q.id, FALSE)
                       /\ \A p \in retiring : p.id # q.id

RungsApart ==
    \A r \in Rungs : active[r] # NoQuote =>
        /\ active[r].side = SideOf(r) /\ active[r] \notin retirable
        /\ \A p \in Rungs : active[p] = active[r] => p = r

\* What is canceled is retiring.
OnlyRetiringGo ==
    /\ asked \subseteq Live
    /\ \A i \in asked \cup drop : \E q \in retiring : q.id = i
    /\ \A q \in retiring : q.id \in Live => q.side = row[q.id].side

SidesKept == \A q \in retiring : \E k \in Keepers : k.side = q.side

CentersTI == /\ {want, target, center} \subseteq Int
             /\ staged # NotStaged => staged.center \in Int
             /\ step = "staged" => staged # NotStaged
             /\ IsFiniteSet(Live) /\ \A i \in Live : row[i].price \in Int

CalmInv == /\ CentersTI
           /\ step = "start" => NothingKnown
           /\ step = "retire" => \A r \in Rungs : active[r] # NoQuote
           /\ preserved = {}
           /\ RowsWhole /\ KeepersStand /\ RungsApart /\ OnlyRetiringGo /\ SidesKept

SidesInv == fills \in Nat /\ (Calm => CalmInv)

LEMMA InitSidesInv == MakerInit => SidesInv
  <1> SUFFICES ASSUME MakerInit
               PROVE  SidesInv
    OBVIOUS
  <1>1. /\ row = [i \in Ids |-> Gone] /\ active = NoLadder /\ step = "start" /\ fills = 0
        /\ retiring = {} /\ preserved = {} /\ retirable = {} /\ drop = {} /\ asked = {}
    BY DEF MakerInit, NoLadder
  <1>2. Live = {}
    BY <1>1 DEF Live
  <1>3. Keepers = {} /\ \A r \in Rungs : active[r] = NoQuote
    BY <1>1 DEF Keepers, Quotes, NoLadder
  <1>4. CentersTI
    <2>1. {want, target, center} \subseteq Int /\ staged = NotStaged
      BY MakerAssumption DEF MakerInit
    <2>2. QED
      BY <1>1, <1>2, <2>1, FS_EmptySet DEF CentersTI
  <1>5. QED
    BY <1>1, <1>2, <1>3, <1>4 DEF SidesInv, CalmInv, NothingKnown, RowsWhole, KeepersStand, RungsApart,
                            OnlyRetiringGo, SidesKept

LEMMA QuoteOfFacts ==
    ASSUME NEW i
    PROVE  /\ QuoteOf(i, FALSE).id = i /\ QuoteOf(i, FALSE).side = row[i].side
           /\ QuoteOf(i, FALSE).low = FALSE
  BY DEF QuoteOf

LEMMA SameQuoteOf ==
    ASSUME NEW i, row'[i] = row[i]
    PROVE  QuoteOf(i, FALSE)' = QuoteOf(i, FALSE)
  BY DEF QuoteOf

\* The keepers of a state are the orders of its quotes.
LEMMA KeeperFacts ==
    ASSUME CalmInv, NEW q \in Keepers
    PROVE  /\ q.id \in Live /\ q.side = row[q.id].side /\ q.low = FALSE
           /\ \A k \in Keepers : k.id = q.id => k = q
  <1>1. \A k \in Keepers : k.id \in Live /\ k = QuoteOf(k.id, FALSE)
    BY DEF CalmInv, KeepersStand
  <1>2. PICK i : i = q.id
    OBVIOUS
  <1>3. q = QuoteOf(i, FALSE) /\ i \in Live
    BY <1>1, <1>2
  <1>4. q.side = row[i].side /\ q.low = FALSE
    BY <1>3, QuoteOfFacts
  <1>5. \A k \in Keepers : k.id = i => k = q
    BY <1>1, <1>3
  <1>6. QED
    BY <1>2, <1>3, <1>4, <1>5

LEMMA IdsAreNoZero ==
    ASSUME NEW i \in Live
    PROVE  i \in Ids /\ i # 0 /\ i # NoQuote.id
  BY MakerAssumption DEF Live, NoQuote

\* Requests and decisions that change neither rows nor what is known of them.
LEMMA SameSides ==
    ASSUME CalmInv, row' = row, UNCHANGED owned,
           asked' \subseteq Live, asked' \subseteq asked \cup drop,
           drop' \subseteq asked \cup drop,
           step' = "start" => step = "start",
           step' = "retire" => \A r \in Rungs : active[r] # NoQuote,
           CentersTI'
    PROVE  CalmInv'
  <1>1. /\ active' = active /\ retiring' = retiring /\ preserved' = preserved
        /\ retirable' = retirable
    BY DEF owned
  <1>2. Live' = Live /\ Keepers' = Keepers
    BY <1>1 DEF Live, Keepers, Quotes
  <1>3. KeepersStand'
    <2>1. \A q \in Keepers : QuoteOf(q.id, FALSE)' = QuoteOf(q.id, FALSE)
      BY SameQuoteOf
    <2>2. QED
      BY <1>1, <1>2, <2>1 DEF CalmInv, KeepersStand
  <1>4. RowsWhole' /\ RungsApart' /\ OnlyRetiringGo' /\ SidesKept'
    BY <1>1, <1>2 DEF CalmInv, RowsWhole, RungsApart, OnlyRetiringGo, SidesKept
  <1>5. NothingKnown => NothingKnown'
    BY <1>1 DEF NothingKnown
  <1>6. QED
    BY <1>1, <1>3, <1>4, <1>5 DEF CalmInv

LEMMA ForgetSides ==
    ASSUME CalmInv, NEW c, Forget(c), ~hasty', CentersTI'
    PROVE  CalmInv'
  <1>1. /\ row' = row /\ asked' = asked /\ step' = "start" /\ active' = NoLadder /\ retiring' = {}
        /\ preserved' = {} /\ retirable' = {} /\ drop' = {}
    BY DEF Forget, bookVars
  <1>2. asked = {}
    BY DEF Forget
  <1>3. Live' = Live
    BY <1>1 DEF Live
  <1>4. Keepers' = {} /\ \A r \in Rungs : active'[r] = NoQuote
    BY <1>1 DEF Keepers, Quotes, NoLadder
  <1>5. QED
    BY <1>1, <1>2, <1>3, <1>4 DEF CalmInv, NothingKnown, RowsWhole, KeepersStand, RungsApart,
                                  OnlyRetiringGo, SidesKept

\* ----- centers and prices are integers
LEMMA FiniteExtremes ==
    ASSUME NEW S \in SUBSET Int, IsFiniteSet(S), S # {}
    PROVE  Max(S) \in Int /\ Min(S) \in Int
  <1> DEFINE Bounded(T) == (\E x \in T : \A y \in T : x >= y) /\ (\E x \in T : \A y \in T : x <= y)
             Out == {T \in SUBSET S : T # {} /\ ~Bounded(T)}
  <1>1. Out = {}
    <2>1. SUFFICES ASSUME Out # {} PROVE FALSE
      OBVIOUS
    <2>2. Out \subseteq FiniteSubsetsOf(S)
      BY FS_FiniteSubsetsOfFinite
    <2>3. PICK T \in Out : \A W \in Out : ~ (<<W, T>> \in StrictSubsetOrdering(S))
      <3> HIDE DEF Out
      <3>1. QED
        BY <2>1, <2>2, FS_StrictSubsetOrderingWellFounded, WFMin, Zenon
    <2>4. PICK x \in T : TRUE
      OBVIOUS
    <2>5. T \ {x} \notin Out
      BY <2>3 DEF StrictSubsetOrdering
    <2>6. CASE T \ {x} = {}
      <3>1. x >= x /\ x <= x /\ \A y \in T : y = x
        BY <2>6
      <3>2. QED
        BY <3>1
    <2>7. CASE Bounded(T \ {x})
      <3>1. PICK y \in T \ {x} : \A z \in T \ {x} : y >= z
        BY <2>7
      <3>2. PICK w \in T \ {x} : \A z \in T \ {x} : w <= z
        BY <2>7
      <3>3. x \in Int /\ y \in Int /\ w \in Int /\ T \subseteq Int
        OBVIOUS
      <3>4. \E k \in T : \A z \in T : k >= z
        <4>1. CASE y >= x
          BY <3>1, <4>1
        <4>2. CASE ~(y >= x)
          <5>1. \A z \in T : x >= z
            BY <3>1, <3>3, <4>2
          <5>2. QED
            BY <5>1
        <4>3. QED
          BY <4>1, <4>2
      <3>5. \E k \in T : \A z \in T : k <= z
        <4>1. CASE w <= x
          BY <3>2, <4>1
        <4>2. CASE ~(w <= x)
          <5>1. \A z \in T : x <= z
            BY <3>2, <3>3, <4>2
          <5>2. QED
            BY <5>1
        <4>3. QED
          BY <4>1, <4>2
      <3>6. QED
        BY <3>4, <3>5
    <2>8. QED
      BY <2>5, <2>6, <2>7
  <1>2. Bounded(S)
    BY <1>1
  <1>3. Max(S) \in S
    BY <1>2 DEF Max
  <1>4. Min(S) \in S
    BY <1>2 DEF Min
  <1>5. QED
    BY <1>3, <1>4

LEMMA NearInt ==
    ASSUME NEW c \in Int, NEW k \in Int
    PROVE  Near(c, k) \in Int
  BY DEF Near

LEMMA PricesFinite ==
    ASSUME NEW quotes, IsFiniteSet(quotes), \A q \in quotes : q.price \in Int, NEW side
    PROVE  IsFiniteSet(PricesOf(side, quotes)) /\ PricesOf(side, quotes) \subseteq Int
  <1> DEFINE G == {p \in quotes : p.side = side}
             f == [q \in G |-> q.price]
  <1>1. IsFiniteSet(G)
    BY FS_Subset
  <1>2. PICK T : T = PricesOf(side, quotes)
    OBVIOUS
  <1>3. f \in Surjection(G, T)
    BY <1>2 DEF PricesOf, Surjection
  <1>4. IsFiniteSet(T)
    <2> HIDE DEF f, G
    <2>1. QED
      BY <1>1, <1>3, FS_Surjection
  <1>5. QED
    BY <1>2, <1>4 DEF PricesOf

LEMMA GuardedInt ==
    ASSUME NEW c \in Int, NEW guards, IsFiniteSet(guards), \A q \in guards : q.price \in Int,
           Fitting(c, guards) # {}
    PROVE  GuardedCenter(c, guards) \in Int
  <1>1. PICK bids, asks : bids = PricesOf("BUY", guards) /\ asks = PricesOf("SELL", guards)
    OBVIOUS
  <1>2. /\ IsFiniteSet(bids) /\ IsFiniteSet(asks)
        /\ bids \subseteq Int /\ asks \subseteq Int
    BY <1>1, PricesFinite
  <1>3. PICK low : low = Max(bids \cup {c})
    OBVIOUS
  <1>4. low \in Int
    <2>1. PICK S : S = bids \cup {c}
      OBVIOUS
    <2>2. IsFiniteSet(S) /\ S \in SUBSET Int /\ S # {}
      BY <1>2, <2>1, FS_AddElement
    <2>3. QED
      BY <1>3, <2>1, <2>2, FiniteExtremes
  <1>5. PICK d : d = Clamped(c, guards)
    OBVIOUS
  <1>6. d \in Int
    <2>1. PICK S : S = asks \cup {low}
      OBVIOUS
    <2>2. IsFiniteSet(S) /\ S \in SUBSET Int /\ S # {}
      BY <1>2, <1>4, <2>1, FS_AddElement
    <2>3. d = Min(S)
      BY <1>1, <1>3, <1>5, <2>1 DEF Clamped
    <2>4. QED
      BY <2>2, <2>3, FiniteExtremes
  <1>7. PICK K : K = Fitting(c, guards)
    OBVIOUS
  <1>8. PICK n \in Nat : n = Cardinality(guards)
    BY FS_CardinalityType
  <1>9. PICK last \in Int : last = 2 * (n * Levels + 1)
    BY MakerAssumption
  <1>10. K \in SUBSET (0..last)
    BY <1>7, <1>8, <1>9 DEF Fitting
  <1>11. IsFiniteSet(K) /\ K \in SUBSET Int
    <2>1. PICK S : S = 0..last
      OBVIOUS
    <2>2. IsFiniteSet(S) /\ S \subseteq Int
      BY <1>9, <2>1, FS_Interval
    <2>3. QED
      BY <1>10, <2>1, <2>2, FS_Subset
  <1>12. PICK k \in Int : k = Min(K)
    BY <1>7, <1>11, FiniteExtremes
  <1>13. QED
    BY <1>5, <1>6, <1>7, <1>12, NearInt DEF GuardedCenter

LEMMA RungsDiffer ==
    ASSUME NEW c \in Int, NEW r \in Rungs, NEW p \in Rungs, SideOf(p) = SideOf(r),
           PriceAt(c, p) = PriceAt(c, r)
    PROVE  p = r
  <1>1. r = <<SideOf(r), LevelOf(r)>> /\ p = <<SideOf(p), LevelOf(p)>>
        /\ LevelOf(r) \in Int /\ LevelOf(p) \in Int
    BY DEF Rungs, SideOf, LevelOf
  <1>2. LevelOf(p) = LevelOf(r)
    BY <1>1 DEF PriceAt
  <1>3. QED
    BY <1>1, <1>2

LEMMA PriceInt ==
    ASSUME NEW c \in Int, NEW r \in Rungs
    PROVE  PriceAt(c, r) \in Int
  BY DEF PriceAt, Rungs, LevelOf

\* A start knows nothing before, and every order after it.
LEMMA BeginSides ==
    ASSUME MakerInv, CalmInv, step = "start", NEW c, NEW ladder, Begin(c, ladder), CentersTI',
           \A r \in Rungs : ladder[r] # NoQuote =>
               \E i \in Live : ladder[r] = QuoteOf(i, FALSE) /\ row[i].side = SideOf(r),
           \A r, p \in Rungs : ladder[r] # NoQuote /\ ladder[p] = ladder[r] => p = r
    PROVE  CalmInv'
  <1>1. /\ row' = row /\ asked' = asked /\ retiring' = retiring /\ drop' = drop /\ step' = "refresh"
        /\ active' = [r \in Rungs |-> IF ladder[r] = NoQuote THEN active[r] ELSE ladder[r]]
        /\ retirable' = retirable \cup Left(ladder, "OPEN")
        /\ preserved' = preserved \cup Left(ladder, "PARTIAL")
    BY DEF Begin, bookVars
  <1>2. NothingKnown
    BY DEF CalmInv
  <1>3. asked' = {} /\ drop' = {} /\ retiring' = {} /\ retirable' = Left(ladder, "OPEN")
    BY <1>1, <1>2 DEF NothingKnown
  <1>4. \A r \in Rungs : active'[r] = ladder[r]
    BY <1>1, <1>2 DEF NothingKnown, NoLadder
  <1>5. Left(ladder, "PARTIAL") = {}
    BY DEF Left, CalmInv, RowsWhole
  <1>6. preserved' = {}
    BY <1>1, <1>2, <1>5 DEF NothingKnown
  <1>7. ASSUME NEW q \in retirable'
        PROVE  /\ \E i \in Live : q = QuoteOf(i, FALSE)
               /\ \A r \in Rungs : ladder[r].id # q.id
    <2>1. PICK i \in Live : q = QuoteOf(i, FALSE) /\ \A r \in Rungs : ladder[r].id # i
      BY <1>3 DEF Left
    <2>2. q.id = i
      BY <2>1, QuoteOfFacts
    <2>3. QED
      BY <2>1, <2>2
  <1>8. ASSUME NEW q \in Keepers'
        PROVE  \E i \in Live : q = QuoteOf(i, FALSE)
    <2>1. CASE q \in retirable'
      BY <1>7, <2>1
    <2>2. CASE q \notin retirable'
      <3>1. PICK r \in Rungs : q = active'[r] /\ q # NoQuote
        BY <2>2 DEF Keepers, Quotes
      <3>2. QED
        BY <1>4, <3>1
    <2>3. QED
      BY <2>1, <2>2
  <1>9. Live' = Live
    BY <1>1 DEF Live
  <1>10. KeepersStand'
    <2>1. ASSUME NEW q \in Keepers'
          PROVE  q.id \in Live' /\ q = QuoteOf(q.id, FALSE)'
      <3>1. PICK i \in Live : q = QuoteOf(i, FALSE)
        BY <1>8, <2>1
      <3>2. q.id = i
        BY <3>1, QuoteOfFacts
      <3>3. QuoteOf(i, FALSE)' = QuoteOf(i, FALSE)
        BY <1>1, SameQuoteOf
      <3>4. QED
        BY <1>9, <3>1, <3>2, <3>3
    <2>2. QED
      BY <1>3, <2>1 DEF KeepersStand
  <1>11. RungsApart'
    <2>1. ASSUME NEW r \in Rungs, active'[r] # NoQuote
          PROVE  active'[r].side = SideOf(r)
      <3>1. PICK i \in Live : ladder[r] = QuoteOf(i, FALSE) /\ row[i].side = SideOf(r)
        BY <1>4, <2>1
      <3>2. QuoteOf(i, FALSE).side = row[i].side
        BY QuoteOfFacts
      <3>3. QED
        BY <1>4, <3>1, <3>2
    <2>2. \A r \in Rungs : active'[r] \notin retirable'
      BY <1>4, <1>7
    <2>3. QED
      BY <1>4, <2>1, <2>2 DEF RungsApart
  <1>12. RowsWhole'
    BY <1>1, <1>9 DEF CalmInv, RowsWhole
  <1>13. QED
    BY <1>1, <1>3, <1>6, <1>10, <1>11, <1>12 DEF CalmInv, OnlyRetiringGo, SidesKept

LEMMA AdoptSides ==
    ASSUME MakerInv, CalmInv, step = "start", NEW c \in Int, Adopt(c), CentersTI'
    PROVE  CalmInv'
  <1>1. PICK ladder : ladder = Adopted(c)
    OBVIOUS
  <1>2. Begin(c, ladder)
    BY <1>1 DEF Adopt
  <1>3. ASSUME NEW r \in Rungs, ladder[r] # NoQuote
        PROVE  \E i \in RowsFor(c, r) : ladder[r] = QuoteOf(i, FALSE)
    <2>1. RowsFor(c, r) # {} /\ ladder[r] = QuoteOf(OneRowFor(c, r), FALSE)
      BY <1>1, <1>3 DEF Adopted
    <2>2. OneRowFor(c, r) \in RowsFor(c, r)
      BY <2>1 DEF OneRowFor
    <2>3. QED
      BY <2>1, <2>2
  <1>4. ASSUME NEW r \in Rungs, NEW i \in RowsFor(c, r)
        PROVE  i \in Live /\ row[i].side = SideOf(r) /\ row[i].price = PriceAt(c, r)
    BY <1>4 DEF RowsFor
  <1>5. \A r \in Rungs : ladder[r] # NoQuote =>
            \E i \in Live : ladder[r] = QuoteOf(i, FALSE) /\ row[i].side = SideOf(r)
    BY <1>3, <1>4
  <1>6. ASSUME NEW r \in Rungs, NEW p \in Rungs, ladder[r] # NoQuote, ladder[p] = ladder[r]
        PROVE  p = r
    <2>1. PICK i \in RowsFor(c, r) : ladder[r] = QuoteOf(i, FALSE)
      BY <1>3, <1>6
    <2>2. PICK j \in RowsFor(c, p) : ladder[p] = QuoteOf(j, FALSE)
      BY <1>3, <1>6
    <2>3. i = j
      <3>1. QuoteOf(i, FALSE).id = i /\ QuoteOf(j, FALSE).id = j
        BY QuoteOfFacts
      <3>2. QED
        BY <1>6, <2>1, <2>2, <3>1
    <2>4. SideOf(p) = SideOf(r) /\ PriceAt(c, p) = PriceAt(c, r)
      BY <1>4, <2>3
    <2>5. QED
      BY <2>4, RungsDiffer DEF Adopt
  <1>7. QED
    BY <1>2, <1>5, <1>6, BeginSides

LEMMA StartAroundSides ==
    ASSUME MakerInv, CalmInv, StartAround, CentersTI'
    PROVE  CalmInv'
  <1>1. PICK ladder : ladder = NoLadder
    OBVIOUS
  <1>2. step = "start" /\ \E c : Begin(c, ladder)
    BY <1>1 DEF StartAround
  <1>3. \A r \in Rungs : ladder[r] = NoQuote
    BY <1>1 DEF NoLadder
  <1>4. QED
    BY <1>2, <1>3, BeginSides

\* A look finds every keeper as it was.
LEMMA LookSides ==
    ASSUME MakerInv, CalmInv, NEW due, due \in {{}, Due}, Look(due), CentersTI'
    PROVE  CalmInv'
  <1>1. /\ row' = row /\ asked' = asked /\ step' = "decide" /\ drop' = due
        /\ active' = [r \in Rungs |-> IF active[r].id \in Live THEN Seen(active[r]) ELSE NoQuote]
        /\ retiring' = StillLive(retiring) /\ preserved' = StillLive(preserved)
        /\ retirable' = StillLive(retirable)
    BY DEF Look, bookVars
  <1>2. Live' = Live
    BY <1>1 DEF Live
  <1>3. ASSUME NEW q \in Known, q.id \in Live, q.low = FALSE
        PROVE  Seen(q) = q
    <2>1. row[q.id].state # "PARTIAL"
      BY <1>3 DEF CalmInv, RowsWhole
    <2>2. Seen(q) = [q EXCEPT !.low = FALSE]
      BY <2>1 DEF Seen
    <2>3. IsQuote(q)
      BY DEF MakerInv, QuotesTI
    <2>4. QED
      BY <1>3, <2>2, <2>3 DEF IsQuote
  <1>4. ASSUME NEW q \in Keepers
        PROVE  q.id \in Live /\ Seen(q) = q
    <2>1. q \in Known
      BY DEF Keepers, Known
    <2>2. QED
      BY <1>3, <2>1, KeeperFacts
  <1>5. \A r \in Rungs : active'[r] = active[r]
    <2>1. SUFFICES ASSUME NEW r \in Rungs
                   PROVE  active'[r] = active[r]
      OBVIOUS
    <2>2. CASE active[r] = NoQuote
      BY <1>1, <2>2, IdsAreNoZero
    <2>3. CASE active[r] # NoQuote
      BY <1>1, <1>4, <2>3 DEF Keepers, Quotes
    <2>4. QED
      BY <2>2, <2>3
  <1>6. retirable' = retirable
    <2>1. \A q \in retirable : q.id \in Live /\ Seen(q) = q
      BY <1>4 DEF Keepers
    <2>2. QED
      BY <1>1, <2>1 DEF StillLive
  <1>7. Keepers' = Keepers
    BY <1>5, <1>6 DEF Keepers, Quotes
  <1>8. preserved' = {}
    BY <1>1 DEF StillLive, CalmInv
  <1>9. ASSUME NEW q \in retiring'
        PROVE  \E p \in retiring : p.id = q.id /\ p.side = q.side
    <2>1. PICK p \in retiring : q = Seen(p)
      BY <1>1 DEF StillLive
    <2>2. IsQuote(p)
      BY DEF MakerInv, QuotesTI, Known
    <2>3. QED
      BY <2>1, <2>2, SeenFacts
  <1>10. ASSUME NEW i \in asked' \cup drop'
         PROVE  \E q \in retiring' : q.id = i
    <2>1. i \in Live /\ \E p \in retiring : p.id = i
      BY <1>1 DEF CalmInv, OnlyRetiringGo, Due
    <2>2. PICK p \in retiring : p.id = i
      BY <2>1
    <2>3. IsQuote(p) /\ Seen(p) \in retiring'
      BY <1>1, <2>1, <2>2 DEF MakerInv, QuotesTI, Known, StillLive
    <2>4. QED
      BY <2>2, <2>3, SeenFacts
  <1>11. KeepersStand'
    <2>1. \A q \in Keepers : QuoteOf(q.id, FALSE)' = QuoteOf(q.id, FALSE)
      BY <1>1, SameQuoteOf
    <2>2. \A q \in Keepers : q.id \in Live /\ q = QuoteOf(q.id, FALSE)
      BY DEF CalmInv, KeepersStand
    <2>3. ASSUME NEW q \in Keepers, NEW p \in retiring'
          PROVE  p.id # q.id
      <3>1. PICK k \in retiring : k.id = p.id
        BY <1>9, <2>3
      <3>2. k.id # q.id
        BY DEF CalmInv, KeepersStand
      <3>3. QED
        BY <3>1, <3>2
    <2>4. QED
      BY <1>2, <1>7, <2>1, <2>2, <2>3 DEF KeepersStand
  <1>12. RungsApart'
    BY <1>5, <1>6 DEF CalmInv, RungsApart
  <1>13. OnlyRetiringGo'
    BY <1>1, <1>2, <1>9, <1>10 DEF CalmInv, OnlyRetiringGo
  <1>14. SidesKept'
    BY <1>7, <1>9 DEF CalmInv, SidesKept
  <1>15. RowsWhole'
    BY <1>1, <1>2 DEF CalmInv, RowsWhole
  <1>16. QED
    BY <1>1, <1>8, <1>11, <1>12, <1>13, <1>14, <1>15 DEF CalmInv

\* A slide forgets no keeper, and gives none to two rungs.
LEMMA ArrangeSides ==
    ASSUME MakerInv, CalmInv, NEW c \in Int, Arrange(c), CentersTI'
    PROVE  CalmInv'
  <1>1. /\ row' = row /\ asked' = asked /\ drop' = drop /\ step' = "refresh"
        /\ active' = Remapped(c) /\ retiring' = retiring /\ preserved' = preserved
        /\ retirable' = retirable \cup {q \in Quotes(Rungs) : \A r \in Rungs : active'[r] # q}
    BY DEF Arrange, bookVars
  <1>2. Live' = Live
    BY <1>1 DEF Live
  <1>3. ASSUME NEW r \in Rungs, active'[r] # NoQuote
        PROVE  /\ active'[r] \in Quotes(Rungs) /\ active'[r].price = PriceAt(c, r)
               /\ \E p \in Rungs : /\ SideOf(p) = SideOf(r) /\ active[p] = active'[r]
                                   /\ active[p] # NoQuote
    <2>1. active'[r] \in At(c, r)
      BY <1>1, <1>3 DEF Remapped
    <2>2. QED
      BY <2>1 DEF At, Quotes, RungsOf
  <1>4. Keepers' = Keepers
    <2>1. \A q \in Quotes(Rungs) : q # NoQuote
      BY DEF Quotes
    <2>2. Quotes(Rungs)' = {active'[r] : r \in Rungs} \ {NoQuote}
      BY DEF Quotes
    <2>3. Quotes(Rungs)' \subseteq Quotes(Rungs)
      BY <1>3, <2>2
    <2>4. \A q \in Quotes(Rungs) : q \in Quotes(Rungs)' \/ q \in retirable'
      BY <1>1, <2>1, <2>2
    <2>5. retirable \subseteq retirable' /\ retirable' \subseteq retirable \cup Quotes(Rungs)
      BY <1>1
    <2>6. QED
      BY <2>3, <2>4, <2>5 DEF Keepers
  <1>5. KeepersStand'
    <2>1. \A q \in Keepers : QuoteOf(q.id, FALSE)' = QuoteOf(q.id, FALSE)
      BY <1>1, SameQuoteOf
    <2>2. QED
      BY <1>1, <1>2, <1>4, <2>1 DEF CalmInv, KeepersStand
  <1>6. ASSUME NEW r \in Rungs, active'[r] # NoQuote
        PROVE  active'[r].side = SideOf(r) /\ active'[r] \notin retirable'
    <2>1. PICK p \in Rungs : SideOf(p) = SideOf(r) /\ active[p] = active'[r] /\ active[p] # NoQuote
      BY <1>3, <1>6
    <2>2. active[p].side = SideOf(p) /\ active[p] \notin retirable
      BY <2>1 DEF CalmInv, RungsApart
    <2>3. QED
      BY <1>1, <2>1, <2>2
  <1>7. RungsApart'
    <2>1. ASSUME NEW r \in Rungs, NEW p \in Rungs, active'[r] # NoQuote, active'[p] = active'[r]
          PROVE  p = r
      <3>1. SideOf(p) = SideOf(r) /\ PriceAt(c, p) = PriceAt(c, r)
        BY <1>3, <1>6, <2>1
      <3>2. QED
        BY <3>1, RungsDiffer
    <2>2. QED
      BY <1>6, <2>1 DEF RungsApart
  <1>8. OnlyRetiringGo' /\ SidesKept' /\ RowsWhole'
    BY <1>1, <1>2, <1>4 DEF CalmInv, OnlyRetiringGo, SidesKept, RowsWhole
  <1>9. QED
    BY <1>1, <1>5, <1>7, <1>8 DEF CalmInv

\* The order that replaces a quote is accepted before the quote is retired.
LEMMA PostSides ==
    ASSUME MakerInv, CalmInv, NEW r \in todo, Post(r), CentersTI'
    PROVE  CalmInv'
  <1>1. /\ r \in Rungs /\ step \in {"staged", "refresh"} /\ step' = step
        /\ preserved' = preserved /\ retirable' = retirable
    BY DEF Post, Visits, MakerInv, QuotesTI
  <1>2. CASE ~CanAddWithoutSelfTrade(Desired(r), Tracked)
    <2>1. row' = row /\ UNCHANGED owned /\ asked' = asked /\ drop' = drop
      BY <1>1, <1>2 DEF Post, owned
    <2>2. asked \subseteq Live
      BY DEF CalmInv, OnlyRetiringGo
    <2>3. QED
      BY <1>1, <2>1, <2>2, SameSides
  <1>3. CASE CanAddWithoutSelfTrade(Desired(r), Tracked)
    <2>1. PICK new, d, x, old :
              /\ new = NewId /\ d = Desired(r) /\ old = active[r]
              /\ x = [state |-> "OPEN", side |-> d.side, price |-> d.price]
      OBVIOUS
    <2>2. /\ d.id = new /\ d.side = SideOf(r) /\ d.side \in Sides
          /\ d = [id |-> new, side |-> d.side, low |-> FALSE, price |-> d.price]
      BY <1>1, <2>1 DEF Desired, Rungs, SideOf
    <2>3. /\ row' = [row EXCEPT ![new] = x] /\ active' = [active EXCEPT ![r] = d]
          /\ retiring' = retiring \cup ({old} \ {NoQuote})
          /\ drop' = drop \cup {q.id : q \in {old} \ {NoQuote}}
          /\ asked' = IF CanAddWithoutSelfTrade(d, Rows) THEN asked ELSE asked \cup {new}
          /\ \E i \in Ids : Unused(i)
      BY <1>3, <2>1 DEF Post, Accept
    <2>4. new \in Ids /\ new \notin Live /\ \A q \in Known : q.id # new
      BY <2>1, <2>3 DEF NewId, Unused
    <2>5. asked' = asked
      <3>1. \A q \in Known : ~Cross(d, q)
        BY <1>3, <2>1 DEF CanAddWithoutSelfTrade, Tracked
      <3>2. \A i \in Live : ~Cross(d, row[i])
        BY <1>1, <3>1 DEF MakerInv, AllKnown, CoveredBy, Cross
      <3>3. CanAddWithoutSelfTrade(d, Rows)
        BY <3>2 DEF CanAddWithoutSelfTrade, Rows
      <3>4. QED
        BY <2>3, <3>3
    <2>6. \A i \in Ids : row'[i] = IF i = new THEN x ELSE row[i]
      BY <2>3 DEF MakerInv, RowsTI
    <2>7. \A p \in Rungs : active'[p] = IF p = r THEN d ELSE active[p]
      BY <1>1, <2>3 DEF MakerInv, QuotesTI
    <2>8. Live' = Live \cup {new} /\ \A i \in Live : row'[i] = row[i]
      <3>1. x # Gone
        BY <2>1 DEF Gone
      <3>2. QED
        BY <2>4, <2>6, <3>1 DEF Live
    <2>9. d # NoQuote
      BY <2>2, <2>4, MakerAssumption DEF NoQuote
    <2>10. old # NoQuote => old \in Keepers /\ old.side = d.side
      BY <1>1, <2>1, <2>2 DEF Keepers, Quotes, CalmInv, RungsApart
    <2>11. ASSUME NEW q \in Keepers'
           PROVE  q = d \/ (q \in Keepers /\ q # old)
      <3>1. CASE q \in retirable
        <4>1. q # old
          BY <1>1, <2>1, <2>9, <3>1, IdsAreNoZero, KeeperFacts DEF Keepers, CalmInv, RungsApart
        <4>2. QED
          BY <3>1, <4>1 DEF Keepers
      <3>2. CASE q \notin retirable
        <4>1. PICK p \in Rungs : q = active'[p] /\ q # NoQuote
          BY <1>1, <3>2 DEF Keepers, Quotes
        <4>2. CASE p = r
          BY <2>7, <4>1, <4>2
        <4>3. CASE p # r
          <5>1. q = active[p] /\ q # active[r]
            BY <1>1, <2>7, <4>1, <4>3 DEF CalmInv, RungsApart
          <5>2. QED
            BY <2>1, <4>1, <5>1 DEF Keepers, Quotes
        <4>4. QED
          BY <4>2, <4>3
      <3>3. QED
        BY <3>1, <3>2
    <2>12. d \in Keepers' /\ \A q \in Keepers : q # old => q \in Keepers'
      <3>1. d \in Keepers'
        BY <1>1, <2>7, <2>9 DEF Keepers, Quotes
      <3>2. ASSUME NEW q \in Keepers, q # old
            PROVE  q \in Keepers'
        <4>1. CASE q \in retirable
          BY <1>1, <4>1 DEF Keepers
        <4>2. CASE q \notin retirable
          <5>1. PICK p \in Rungs : q = active[p] /\ q # NoQuote
            BY <4>2 DEF Keepers, Quotes
          <5>2. p # r /\ q = active'[p]
            BY <2>1, <2>7, <3>2, <5>1
          <5>3. QED
            BY <5>1, <5>2 DEF Keepers, Quotes
        <4>3. QED
          BY <4>1, <4>2
      <3>3. QED
        BY <3>1, <3>2
    <2>13. ASSUME NEW p \in retiring'
           PROVE  p \in retiring \/ (p = old /\ old \in Keepers)
      BY <2>3, <2>10
    <2>14. \A q \in Keepers \cup retiring : q.id # new
      BY <2>4 DEF Known, Keepers
    <2>15. KeepersStand'
      <3>1. ASSUME NEW q \in Keepers'
            PROVE  q.id \in Live' /\ q = QuoteOf(q.id, FALSE)'
        <4>1. CASE q = d
          <5>1. row'[new] = x
            BY <2>4, <2>6
          <5>2. QuoteOf(new, FALSE)' = d
            BY <2>1, <2>2, <5>1 DEF QuoteOf
          <5>3. QED
            BY <2>2, <2>8, <4>1, <5>2
        <4>2. CASE q \in Keepers
          <5>1. PICK i \in Live : i = q.id /\ q = QuoteOf(i, FALSE)
            BY <4>2 DEF CalmInv, KeepersStand
          <5>2. QuoteOf(i, FALSE)' = QuoteOf(i, FALSE)
            BY <2>8, SameQuoteOf
          <5>3. QED
            BY <2>8, <5>1, <5>2
        <4>3. QED
          BY <2>11, <4>1, <4>2
      <3>2. ASSUME NEW q \in Keepers', NEW p \in retiring'
            PROVE  p.id # q.id
        <4>1. CASE q = d
          BY <2>2, <2>13, <2>14, <4>1
        <4>2. CASE q \in Keepers /\ q # old /\ p \in retiring
          BY <4>2 DEF CalmInv, KeepersStand
        <4>3. CASE q \in Keepers /\ q # old /\ p = old /\ old \in Keepers
          BY <4>3, KeeperFacts
        <4>4. QED
          BY <2>11, <2>13, <4>1, <4>2, <4>3
      <3>3. QED
        BY <3>1, <3>2 DEF KeepersStand
    <2>16. RungsApart'
      <3>1. ASSUME NEW p \in Rungs, active[p] = d
            PROVE  FALSE
        <4>1. active[p] \in Keepers
          BY <2>9, <3>1 DEF Keepers, Quotes
        <4>2. QED
          BY <2>2, <2>14, <3>1, <4>1
      <3>2. d \notin retirable
        BY <2>2, <2>14 DEF Keepers
      <3>3. ASSUME NEW p \in Rungs, active'[p] # NoQuote
            PROVE  active'[p].side = SideOf(p) /\ active'[p] \notin retirable'
        <4>1. CASE p = r
          BY <1>1, <2>2, <2>7, <3>2, <4>1
        <4>2. CASE p # r
          BY <1>1, <2>7, <3>3, <4>2 DEF CalmInv, RungsApart
        <4>3. QED
          BY <4>1, <4>2
      <3>4. ASSUME NEW p \in Rungs, NEW k \in Rungs, active'[p] # NoQuote, active'[k] = active'[p]
            PROVE  k = p
        <4>1. CASE p = r \/ k = r
          BY <2>7, <3>1, <3>4, <4>1
        <4>2. CASE p # r /\ k # r
          BY <2>7, <3>4, <4>2 DEF CalmInv, RungsApart
        <4>3. QED
          BY <4>1, <4>2
      <3>5. QED
        BY <3>3, <3>4 DEF RungsApart
    <2>17. OnlyRetiringGo'
      <3>1. asked' \subseteq Live'
        BY <2>5, <2>8 DEF CalmInv, OnlyRetiringGo
      <3>2. \A i \in asked' \cup drop' : \E q \in retiring' : q.id = i
        BY <2>3, <2>5 DEF CalmInv, OnlyRetiringGo
      <3>3. ASSUME NEW p \in retiring', p.id \in Live'
            PROVE  p.side = row'[p.id].side
        <4>1. PICK i : i = p.id
          OBVIOUS
        <4>2. i \in Live /\ row'[i] = row[i]
          BY <2>8, <2>13, <2>14, <3>3, <4>1
        <4>3. CASE p \in retiring
          BY <4>1, <4>2, <4>3 DEF CalmInv, OnlyRetiringGo
        <4>4. CASE p \in Keepers
          BY <4>1, <4>2, <4>4, KeeperFacts
        <4>5. QED
          BY <2>13, <4>3, <4>4
      <3>4. QED
        BY <3>1, <3>2, <3>3 DEF OnlyRetiringGo
    <2>18. SidesKept'
      <3>1. ASSUME NEW p \in retiring'
            PROVE  \E k \in Keepers' : k.side = p.side
        <4>1. CASE p \in retiring
          <5>1. PICK k \in Keepers : k.side = p.side
            BY <4>1 DEF CalmInv, SidesKept
          <5>2. CASE k = old
            <6>1. k # NoQuote
              <7>1. k.id \in Live
                BY KeeperFacts
              <7>2. QED
                BY <7>1, IdsAreNoZero
            <6>2. QED
              BY <2>10, <2>12, <5>1, <5>2, <6>1
          <5>3. CASE k # old
            BY <2>12, <5>1, <5>3
          <5>4. QED
            BY <5>2, <5>3
        <4>2. CASE p \notin retiring
          BY <2>3, <2>10, <2>12, <4>2
        <4>3. QED
          BY <4>1, <4>2
      <3>2. QED
        BY <3>1 DEF SidesKept
    <2>19. RowsWhole'
      <3>1. \A i \in Live' : row'[i] = x \/ (i \in Live /\ row'[i] = row[i])
        BY <2>4, <2>6, <2>8
      <3>2. QED
        BY <2>1, <2>2, <3>1 DEF CalmInv, RowsWhole
    <2>20. QED
      BY <1>1, <2>15, <2>16, <2>17, <2>18, <2>19 DEF CalmInv
  <1>4. QED
    BY <1>2, <1>3

\* What is retirable goes while the whole ladder stands.
LEMMA RetireSides ==
    ASSUME MakerInv, CalmInv, NEW q \in retirable, Retire(q), ~hasty', CentersTI'
    PROVE  CalmInv'
  <1>1. /\ row' = row /\ step = "retire" /\ active' = active /\ preserved' = preserved
        /\ drop' = drop
        /\ retiring' = retiring \cup {q} /\ retirable' = retirable \ {q}
        /\ asked' = asked \/ AcceptCancel(q.id)
        /\ step' # "start"
    BY DEF Retire
  <1>2. asked' = asked \/ (q.id \in Live /\ asked' = asked \cup {q.id})
    BY <1>1 DEF AcceptCancel
  <1>3. Live' = Live
    BY <1>1 DEF Live
  <1>4. q \in Keepers /\ \A r \in Rungs : active[r] # q
    <2>1. q \in Keepers
      BY DEF Keepers
    <2>2. q # NoQuote
      BY <2>1, KeeperFacts, IdsAreNoZero
    <2>3. QED
      BY <2>1, <2>2 DEF CalmInv, RungsApart
  <1>5. Keepers' = Keepers \ {q}
    BY <1>1, <1>4 DEF Keepers, Quotes
  <1>6. KeepersStand'
    <2>1. \A k \in Keepers : QuoteOf(k.id, FALSE)' = QuoteOf(k.id, FALSE)
      BY <1>1, SameQuoteOf
    <2>2. \A k \in Keepers : k.id \in Live /\ k = QuoteOf(k.id, FALSE)
      BY DEF CalmInv, KeepersStand
    <2>3. ASSUME NEW k \in Keepers', NEW p \in retiring'
          PROVE  p.id # k.id
      <3>1. k \in Keepers /\ k # q
        BY <1>5, <2>3
      <3>2. CASE p = q
        BY <1>4, <3>1, <3>2, KeeperFacts
      <3>3. CASE p \in retiring
        BY <3>1, <3>3 DEF CalmInv, KeepersStand
      <3>4. QED
        BY <1>1, <3>2, <3>3
    <2>4. QED
      BY <1>3, <1>5, <2>1, <2>2, <2>3 DEF KeepersStand
  <1>7. RungsApart'
    BY <1>1 DEF CalmInv, RungsApart
  <1>8. OnlyRetiringGo'
    <2>1. q.id \in Live /\ q.side = row[q.id].side
      BY <1>4, KeeperFacts
    <2>2. QED
      BY <1>1, <1>2, <1>3, <2>1 DEF CalmInv, OnlyRetiringGo
  <1>9. SidesKept'
    <2>1. ASSUME NEW p \in retiring'
          PROVE  p.side \in Sides
      <3>1. ASSUME NEW k \in Keepers
            PROVE  k.side \in Sides
        BY KeeperFacts DEF CalmInv, RowsWhole
      <3>2. QED
        BY <1>1, <1>4, <3>1 DEF CalmInv, SidesKept
    <2>2. ASSUME NEW side \in Sides
          PROVE  \E k \in Keepers' : k.side = side
      <3>1. PICK r : r = <<side, 1>>
        OBVIOUS
      <3>2. r \in Rungs /\ SideOf(r) = side
        BY <3>1, MakerAssumption DEF Rungs, SideOf
      <3>3. active[r] # NoQuote /\ active[r].side = side
        BY <1>1, <3>2 DEF CalmInv, RungsApart
      <3>4. active[r] \in Keepers'
        BY <1>4, <1>5, <3>2, <3>3 DEF Keepers, Quotes
      <3>5. QED
        BY <3>3, <3>4
    <2>3. QED
      BY <2>1, <2>2 DEF SidesKept
  <1>10. RowsWhole'
    BY <1>1, <1>3 DEF CalmInv, RowsWhole
  <1>11. QED
    BY <1>1, <1>6, <1>7, <1>8, <1>9, <1>10 DEF CalmInv

\* A cancel that takes effect ends no keeper.
LEMMA CloseSides ==
    ASSUME MakerInv, CalmInv, NEW i \in asked, Close(i), CentersTI'
    PROVE  CalmInv'
  <1>1. /\ row' = [row EXCEPT ![i] = Gone] /\ asked' = asked \ {i} /\ drop' = drop /\ step' = step
        /\ active' = active /\ retiring' = retiring /\ preserved' = preserved
        /\ retirable' = retirable
    BY DEF Close, End, memory, owned
  <1>2. i \in Live /\ \E q \in retiring : q.id = i
    BY DEF CalmInv, OnlyRetiringGo
  <1>3. \A j \in Ids : row'[j] = IF j = i THEN Gone ELSE row[j]
    BY <1>1 DEF MakerInv, RowsTI
  <1>4. Live' = Live \ {i} /\ \A j \in Live' : row'[j] = row[j]
    BY <1>3 DEF Live
  <1>5. Keepers' = Keepers
    BY <1>1 DEF Keepers, Quotes
  <1>6. \A q \in Keepers : q.id # i
    BY <1>2 DEF CalmInv, KeepersStand
  <1>7. KeepersStand'
    <2>1. ASSUME NEW q \in Keepers
          PROVE  q.id \in Live' /\ q = QuoteOf(q.id, FALSE)'
      <3>1. PICK j \in Live : j = q.id /\ q = QuoteOf(j, FALSE)
        BY DEF CalmInv, KeepersStand
      <3>2. j \in Live' /\ row'[j] = row[j]
        BY <1>4, <1>6, <3>1
      <3>3. QuoteOf(j, FALSE)' = QuoteOf(j, FALSE)
        BY <3>2, SameQuoteOf
      <3>4. QED
        BY <3>1, <3>2, <3>3
    <2>2. \A q \in Keepers : \A p \in retiring : p.id # q.id
      BY DEF CalmInv, KeepersStand
    <2>3. QED
      BY <1>1, <1>5, <2>1, <2>2 DEF KeepersStand
  <1>8. RungsApart' /\ SidesKept'
    BY <1>1, <1>5 DEF CalmInv, RungsApart, SidesKept
  <1>9. OnlyRetiringGo'
    BY <1>1, <1>4 DEF CalmInv, OnlyRetiringGo
  <1>10. RowsWhole'
    BY <1>4 DEF CalmInv, RowsWhole
  <1>11. step' # "start"
    BY <1>1, <1>2 DEF CalmInv, NothingKnown
  <1>12. QED
    BY <1>1, <1>7, <1>8, <1>9, <1>10, <1>11 DEF CalmInv

\* ----- what a calm state was before, and that centers stay integers
LEMMA CalmBefore ==
    ASSUME fills \in Nat, [MakerNext]_makerVars
    PROVE  /\ fills' \in Nat
           /\ Calm' => Calm /\ fills' = fills
           /\ fills' = fills \/ fills' = fills + 1
  <1> DEFINE Goal == /\ fills' \in Nat /\ (Calm' => Calm /\ fills' = fills)
                     /\ fills' = fills \/ fills' = fills + 1
  <1>1. ASSUME fills' = fills, ~hasty' => ~hasty
        PROVE  Goal
    BY <1>1 DEF Calm
  <1>2. ASSUME NEW i, Fill(i)
        PROVE  Goal
    BY <1>2 DEF Fill, Calm
  <1>3. CASE UNCHANGED bounds
    BY <1>1, <1>3 DEF bounds
  <1>4. CASE (step = "start" /\ \E c \in Candidates : Adopt(c)) \/ StartAround
    BY <1>3, <1>4 DEF Adopt, StartAround, Begin
  <1>5. ASSUME NEW due, Look(due)
        PROVE  UNCHANGED bounds
    BY <1>5 DEF Look
  <1>6. CASE LookLater \/ BeginRelocation \/ AwaitRetirement \/ FinishRelocation \/ EndPass
    BY <1>3, <1>6 DEF LookLater, BeginRelocation, AwaitRetirement, FinishRelocation, EndPass
  <1>7. CASE Refresh \/ Slides
    BY <1>3, <1>7 DEF Refresh, Slides, Slide, Arrange
  <1>8. ASSUME NEW side, PostSide(side)
        PROVE  UNCHANGED bounds
    BY <1>8 DEF PostSide
  <1>9. ASSUME NEW r, Post(r)
        PROVE  UNCHANGED bounds
    BY <1>9 DEF Post
  <1>10. ASSUME NEW r, PostFails(r)
         PROVE  fills' = fills /\ hasty' = hasty
    BY <1>10 DEF PostFails
  <1>11. ASSUME NEW i, Delete(i)
         PROVE  fills' = fills /\ hasty' = hasty
    BY <1>11 DEF Delete
  <1>12. ASSUME NEW q, Retire(q)
         PROVE  fills' = fills /\ (~hasty' => ~hasty)
    BY <1>12 DEF Retire
  <1>13. CASE Loop
    BY <1>1, <1>3, <1>4, <1>5, <1>6, <1>7, <1>8, <1>9, <1>10, <1>11, <1>12, <1>13 DEF Loop
  <1>14. CASE Exchange
    BY <1>2, <1>3, <1>14 DEF Exchange, Close
  <1>15. CASE Stall \/ Crash
    BY <1>1, <1>15 DEF Stall, Crash, Forget
  <1>16. ASSUME NEW c, Move(c)
         PROVE  fills' = fills /\ hasty' = hasty
    BY <1>16 DEF Move
  <1>17. CASE UNCHANGED makerVars
    BY <1>3, <1>17 DEF makerVars
  <1>18. QED
    BY <1>1, <1>13, <1>14, <1>15, <1>16, <1>17 DEF MakerNext

LEMMA SameCenters ==
    ASSUME CentersTI, row' = row, UNCHANGED <<want, target, center, staged>>,
           step' = "staged" => step = "staged" \/ staged # NotStaged
    PROVE  CentersTI'
  <1>1. Live' = Live
    BY DEF Live
  <1>2. QED
    BY <1>1 DEF CentersTI

LEMMA NewCenter ==
    ASSUME CentersTI, row' = row, want' = want, target' \in Int, center' \in Int,
           staged' = staged \/ staged' = NotStaged, step' # "staged"
    PROVE  CentersTI'
  <1>1. Live' = Live
    BY DEF Live
  <1>2. QED
    BY <1>1 DEF CentersTI

LEMMA TargetInt ==
    ASSUME CentersTI
    PROVE  Target({}) \in Int
  <1>1. PICK guards : guards = {}
    OBVIOUS
  <1>2. IsFiniteSet(guards) /\ \A q \in guards : q.price \in Int
    BY <1>1, FS_EmptySet
  <1>3. want \in Int /\ center \in Int
    BY DEF CentersTI
  <1>4. Target(guards) \in Int
    BY <1>2, <1>3, GuardedInt DEF Target
  <1>5. QED
    BY <1>1, <1>4

LEMMA CandidatesInt ==
    ASSUME CentersTI
    PROVE  Candidates \subseteq Int
  BY DEF Candidates, CentersTI

LEMMA StartCenters ==
    ASSUME CalmInv, (step = "start" /\ \E c \in Candidates : Adopt(c)) \/ StartAround
    PROVE  CentersTI'
  <1>1. CentersTI
    BY DEF CalmInv
  <1>2. IsFiniteSet(Rows) /\ \A q \in Rows : q.price \in Int
    <2>1. PICK f : f = [i \in Live |-> row[i]]
      OBVIOUS
    <2>2. PICK R : R = Rows
      OBVIOUS
    <2>3. f \in Surjection(Live, R)
      BY <2>1, <2>2 DEF Rows, Surjection
    <2>4. IsFiniteSet(Live)
      BY <1>1 DEF CentersTI
    <2>5. IsFiniteSet(R)
      BY <2>3, <2>4, FS_Surjection
    <2>6. QED
      BY <1>1, <2>2, <2>5 DEF Rows, CentersTI
  <1>3. CASE StartAround
    <2>1. PICK guards : guards = Rows
      OBVIOUS
    <2>2. PICK c : c = GuardedCenter(center, guards)
      OBVIOUS
    <2>3. c \in Int
      BY <1>1, <1>2, <1>3, <2>1, <2>2, GuardedInt DEF CentersTI, StartAround
    <2>4. Begin(c, NoLadder)
      BY <1>3, <2>1, <2>2 DEF StartAround
    <2>5. QED
      BY <1>1, <2>3, <2>4, NewCenter DEF Begin, bookVars
  <1>4. ASSUME NEW c \in Candidates, Adopt(c)
        PROVE  CentersTI'
    BY <1>1, <1>4, CandidatesInt, NewCenter DEF Adopt, Begin, bookVars
  <1>5. QED
    BY <1>3, <1>4

LEMMA PostCenters ==
    ASSUME MakerInv, CalmInv, NEW r \in todo, Post(r)
    PROVE  CentersTI'
  <1>1. CentersTI /\ r \in Rungs
    BY DEF CalmInv, MakerInv, QuotesTI
  <1>2. UNCHANGED <<want, target, center, staged, step>> /\ step \in {"staged", "refresh"}
    BY DEF Post, Visits
  <1>3. CASE row' = row
    BY <1>1, <1>2, <1>3, SameCenters
  <1>4. CASE row' # row
    <2>1. PICK new, d, x :
              /\ new = NewId /\ d = Desired(r)
              /\ x = [state |-> "OPEN", side |-> d.side, price |-> d.price]
      OBVIOUS
    <2>2. row' = [row EXCEPT ![new] = x]
      BY <1>4, <2>1 DEF Post, Accept
    <2>3. d.price \in Int
      BY <1>1, <1>2, <2>1, PriceInt DEF Desired, CentersTI
    <2>4. \A i \in Ids : row'[i] = IF i = new THEN x ELSE row[i]
      BY <2>2 DEF MakerInv, RowsTI
    <2>5. Live' \subseteq Live \cup {new}
      BY <2>4 DEF Live
    <2>6. IsFiniteSet(Live')
      <3>1. IsFiniteSet(Live \cup {new})
        BY <1>1, FS_AddElement DEF CentersTI
      <3>2. QED
        BY <2>5, <3>1, FS_Subset
    <2>7. \A i \in Live' : row'[i].price \in Int
      BY <1>1, <2>1, <2>3, <2>4 DEF CentersTI, Live
    <2>8. QED
      BY <1>1, <1>2, <2>6, <2>7 DEF CentersTI
  <1>5. QED
    BY <1>3, <1>4

LEMMA CloseCenters ==
    ASSUME MakerInv, CalmInv, NEW i, Close(i)
    PROVE  CentersTI'
  <1>1. CentersTI
    BY DEF CalmInv
  <1>2. UNCHANGED <<want, target, center, staged, step>> /\ row' = [row EXCEPT ![i] = Gone]
    BY DEF Close, End, memory
  <1>3. \A j \in Ids : row'[j] = row[j] \/ row'[j] = Gone
    BY <1>2 DEF MakerInv, RowsTI
  <1>4. Live' \subseteq Live /\ \A j \in Live' : row'[j] = row[j]
    BY <1>3 DEF Live
  <1>5. IsFiniteSet(Live')
    BY <1>1, <1>4, FS_Subset DEF CentersTI
  <1>6. QED
    BY <1>1, <1>2, <1>4, <1>5 DEF CentersTI

LEMMA ForgetCenters ==
    ASSUME CalmInv, NEW c \in Int, Forget(c)
    PROVE  CentersTI'
  BY NewCenter DEF CalmInv, Forget, bookVars

LEMMA ArrangeCenters ==
    ASSUME CalmInv, NEW c \in Int, Arrange(c)
    PROVE  CentersTI'
  BY NewCenter DEF CalmInv, CentersTI, Arrange, bookVars

\* ----- every step of a calm state into a calm state
LEMMA CalmInvStep ==
    ASSUME MakerInv, CalmInv, [MakerNext]_makerVars, Calm', fills' = fills
    PROVE  CalmInv'
  <1>1. /\ CentersTI /\ {want, target, center} \subseteq Int /\ asked \subseteq Live
        /\ preserved = {} /\ ~hasty'
    BY DEF CalmInv, CentersTI, OnlyRetiringGo, Calm
  <1>2. CASE (step = "start" /\ \E c \in Candidates : Adopt(c)) \/ StartAround
    BY <1>1, <1>2, StartCenters, CandidatesInt, AdoptSides, StartAroundSides
  <1>3. ASSUME NEW due, due \in {{}, Due}, Look(due)
        PROVE  CalmInv'
    <2>1. /\ row' = row /\ want' = want /\ center' = center /\ staged' = staged
          /\ step' = "decide" /\ target' = Target(preserved') /\ preserved' = StillLive(preserved)
      BY <1>3 DEF Look, bookVars
    <2>2. target' = Target({})
      BY <1>1, <2>1 DEF StillLive
    <2>3. CentersTI'
      BY <1>1, <2>1, <2>2, TargetInt, NewCenter
    <2>4. QED
      BY <1>3, <2>3, LookSides
  <1>4. CASE LookLater
    <2>1. CentersTI'
      BY <1>1, <1>4, TargetInt, NewCenter DEF LookLater, bookVars
    <2>2. QED
      BY <1>1, <1>4, <2>1, SameSides DEF LookLater, bookVars
  <1>5. CASE BeginRelocation
    <2>1. /\ row' = row /\ want' = want /\ target' = target /\ center' = center /\ step' = step
          /\ step = "decide" /\ staged'.center \in Int
      BY <1>1, <1>5 DEF BeginRelocation, Deciding, bookVars
    <2>2. Live' = Live
      BY <2>1 DEF Live
    <2>3. CentersTI'
      BY <1>1, <2>1, <2>2 DEF CentersTI
    <2>4. QED
      BY <1>1, <1>5, <2>1, <2>3, SameSides DEF BeginRelocation, bookVars
  <1>6. ASSUME NEW side, PostSide(side)
        PROVE  CalmInv'
    <2>1. CentersTI'
      BY <1>1, <1>6, SameCenters DEF PostSide, memory, bookVars
    <2>2. QED
      BY <1>1, <1>6, <2>1, SameSides DEF PostSide, memory, bookVars
  <1>7. CASE AwaitRetirement
    <2>1. CentersTI'
      BY <1>1, <1>7, SameCenters DEF AwaitRetirement, memory, bookVars
    <2>2. QED
      BY <1>1, <1>7, <2>1, SameSides DEF AwaitRetirement, memory, bookVars
  <1>8. CASE FinishRelocation
    <2>1. CentersTI'
      BY <1>1, <1>8, NewCenter DEF FinishRelocation, CentersTI, bookVars
    <2>2. QED
      BY <1>1, <1>8, <2>1, SameSides DEF FinishRelocation, bookVars
  <1>9. CASE Refresh \/ Slides
    <2>1. PICK c \in Int : Arrange(c)
      BY <1>1, <1>9 DEF Refresh, Slides, Slide
    <2>2. QED
      BY <2>1, ArrangeCenters, ArrangeSides
  <1>10. ASSUME NEW r \in todo, Post(r)
         PROVE  CalmInv'
    BY <1>10, PostCenters, PostSides
  <1>11. ASSUME NEW r \in todo, PostFails(r)
         PROVE  CalmInv'
    <2>1. CentersTI'
      BY <1>1, <1>11, SameCenters DEF PostFails, memory, bookVars
    <2>2. step' = step
      BY <1>11 DEF PostFails
    <2>3. QED
      BY <1>1, <1>11, <2>1, <2>2, SameSides DEF PostFails, memory, bookVars, CalmInv
  <1>12. ASSUME NEW i \in drop, Delete(i)
         PROVE  CalmInv'
    <2>1. CentersTI'
      BY <1>1, <1>12, SameCenters DEF Delete, memory
    <2>2. step' = step /\ row' = row /\ UNCHANGED owned /\ drop' = drop \ {i}
          /\ (asked' = asked \/ AcceptCancel(i))
      BY <1>12 DEF Delete, memory
    <2>3. asked' = asked \/ (asked' = asked \cup {i} /\ i \in Live)
      BY <2>2 DEF AcceptCancel
    <2>4. step = "retire" => \A r \in Rungs : active[r] # NoQuote
      BY DEF CalmInv
    <2>5. QED
      BY <1>1, <2>1, <2>2, <2>3, <2>4, SameSides
  <1>13. CASE EndPass
    <2>1. CentersTI'
      BY <1>1, <1>13, SameCenters DEF EndPass, bookVars
    <2>2. step' = "retire" => \A r \in Rungs : active[r] # NoQuote
      BY <1>13 DEF EndPass, LadderComplete, Insufficient, Sufficient
    <2>3. step' # "start" /\ row' = row /\ UNCHANGED owned /\ asked' = asked /\ drop' = drop
      BY <1>13 DEF EndPass, bookVars
    <2>4. QED
      BY <1>1, <2>1, <2>2, <2>3, SameSides
  <1>14. ASSUME NEW q \in retirable, Retire(q)
         PROVE  CalmInv'
    <2>1. CentersTI'
      BY <1>1, <1>14, SameCenters DEF Retire
    <2>2. QED
      BY <1>1, <1>14, <2>1, RetireSides
  <1>15. CASE Loop
    BY <1>2, <1>3, <1>4, <1>5, <1>6, <1>7, <1>8, <1>9, <1>10, <1>11, <1>12, <1>13, <1>14, <1>15
       DEF Loop
  <1>16. CASE Exchange
    <2>1. ASSUME NEW i, Fill(i)
          PROVE  FALSE
      BY <2>1 DEF Fill, Calm
    <2>2. ASSUME NEW i \in asked, Close(i)
          PROVE  CalmInv'
      BY <2>2, CloseCenters, CloseSides
    <2>3. QED
      BY <1>16, <2>1, <2>2 DEF Exchange
  <1>17. CASE Stall \/ Crash
    <2>1. PICK c \in Int : Forget(c)
      BY <1>1, <1>17 DEF Stall, Crash
    <2>2. QED
      BY <1>1, <2>1, ForgetCenters, ForgetSides
  <1>18. ASSUME NEW c \in Prices, Move(c)
         PROVE  CalmInv'
    <2>1. row' = row /\ asked' = asked /\ drop' = drop /\ step' = step /\ UNCHANGED owned
          /\ UNCHANGED <<target, center, staged>> /\ want' \in Int
      BY <1>18, MakerAssumption DEF Move, memory, bookVars
    <2>2. Live' = Live
      BY <2>1 DEF Live
    <2>3. CentersTI'
      BY <1>1, <2>1, <2>2 DEF CentersTI
    <2>4. step = "retire" => \A r \in Rungs : active[r] # NoQuote
      BY DEF CalmInv
    <2>5. QED
      BY <1>1, <2>1, <2>3, <2>4, SameSides
  <1>19. CASE UNCHANGED makerVars
    <2>1. CentersTI'
      BY <1>1, <1>19, SameCenters DEF makerVars, memory, bookVars
    <2>2. step = "retire" => \A r \in Rungs : active[r] # NoQuote
      BY DEF CalmInv
    <2>3. QED
      BY <1>1, <1>19, <2>1, <2>2, SameSides DEF makerVars, memory, bookVars
  <1>20. QED
    BY <1>15, <1>16, <1>17, <1>18, <1>19 DEF MakerNext

LEMMA SidesInvStep ==
    ASSUME MakerInv, SidesInv, [MakerNext]_makerVars
    PROVE  SidesInv'
  BY CalmBefore, CalmInvStep DEF SidesInv

\* A side has an order: a keeper, which is there after the step as well, or one
\* that is retiring, for which there is a keeper.
LEMMA CalmSides ==
    ASSUME MakerInv, CalmInv, NEW i \in Live
    PROVE  \/ step = "start"
           \/ \E k \in Keepers : k.side = row[i].side
  <1>1. SUFFICES ASSUME step # "start"
                 PROVE  \E k \in Keepers : k.side = row[i].side
    OBVIOUS
  <1>2. PICK q \in Known : CoveredBy(q, i)
    BY <1>1 DEF MakerInv, AllKnown
  <1>3. CASE q \in Keepers
    BY <1>2, <1>3 DEF CoveredBy
  <1>4. CASE q \in retiring
    BY <1>2, <1>4 DEF CoveredBy, CalmInv, SidesKept
  <1>5. QED
    BY <1>3, <1>4 DEF Known, Keepers, CalmInv

LEMMA SidesStay ==
    ASSUME MakerInv, SidesInv, [MakerNext]_makerVars, fills' = 0, ~hasty,
           NEW side, NEW i \in Live, row[i].side = side
    PROVE  \E j \in Ids : row'[j] # Gone /\ row'[j].side = side
  <1>1. fills = 0
    <2>1. fills \in Nat /\ (fills' = fills \/ fills' = fills + 1)
      BY CalmBefore DEF SidesInv
    <2>2. QED
      BY <2>1
  <1>2. CalmInv
    BY <1>1 DEF SidesInv, Calm
  <1>3. ASSUME row' = row
        PROVE  \E j \in Ids : row'[j] # Gone /\ row'[j].side = side
    BY <1>3 DEF Live
  <1>4. ASSUME NEW r \in todo, Post(r)
        PROVE  \E j \in Ids : row'[j] # Gone /\ row'[j].side = side
    <2>1. CASE row' = row
      BY <1>3, <2>1
    <2>2. CASE row' # row
      <3>1. PICK new, x : new = NewId /\ row' = [row EXCEPT ![new] = x] /\ \E j \in Ids : Unused(j)
        BY <1>4, <2>2 DEF Post, Accept
      <3>2. new \notin Live
        BY <3>1 DEF NewId, Unused
      <3>3. i \in Ids /\ row'[i] = row[i] /\ row[i] # Gone
        BY <3>1, <3>2 DEF Live, MakerInv, RowsTI
      <3>4. QED
        BY <3>3
    <2>3. QED
      BY <2>1, <2>2
  <1>5. ASSUME NEW c \in asked, Close(c)
        PROVE  \E j \in Ids : row'[j] # Gone /\ row'[j].side = side
    <2>1. step # "start" /\ \E q \in retiring : q.id = c
      BY <1>2 DEF CalmInv, NothingKnown, OnlyRetiringGo
    <2>2. PICK k \in Keepers : k.side = side
      BY <1>2, <2>1, CalmSides
    <2>3. PICK j : j = k.id
      OBVIOUS
    <2>4. j \in Live /\ row[j].side = side /\ j # c
      BY <1>2, <2>1, <2>2, <2>3, KeeperFacts DEF CalmInv, KeepersStand
    <2>5. row' = [row EXCEPT ![c] = Gone]
      BY <1>5 DEF Close, End
    <2>6. j \in Ids /\ row'[j] = row[j] /\ row[j] # Gone
      BY <2>4, <2>5 DEF Live, MakerInv, RowsTI
    <2>7. QED
      BY <2>4, <2>6
  <1>6. ASSUME NEW c, Fill(c)
        PROVE  FALSE
    BY <1>1, <1>6 DEF Fill
  <1>7. CASE Loop
    <2>1. row' = row \/ \E r \in todo : Post(r)
      BY <1>7 DEF Loop, Adopt, StartAround, Begin, Look, LookLater, BeginRelocation, AwaitRetirement,
                  FinishRelocation, Refresh, Slides, Slide, Arrange, PostSide, PostFails, Delete,
                  EndPass, Retire, bookVars
    <2>2. QED
      BY <1>3, <1>4, <2>1
  <1>8. CASE Exchange
    BY <1>5, <1>6, <1>8 DEF Exchange
  <1>9. CASE Stall \/ Crash \/ (\E c \in Prices : Move(c)) \/ UNCHANGED makerVars
    BY <1>3, <1>9 DEF Stall, Crash, Forget, Move, makerVars, bookVars
  <1>10. QED
    BY <1>7, <1>8, <1>9 DEF MakerNext

\* As long as nobody trades with them, a side of the maker that has orders keeps
\* some, through slides, relocations, restarts and failures.
THEOREM SidesAlwaysQuoted == MakerSpec => SidesStayQuoted
  <1>1. MakerInv /\ SidesInv /\ [MakerNext]_makerVars => MakerInv' /\ SidesInv'
    BY MakerInvStep, SidesInvStep
  <1>2. MakerInv /\ SidesInv /\ [MakerNext]_makerVars =>
            [fills' = 0 /\ ~hasty =>
                \A side \in Sides :
                   (\E i \in Live : row[i].side = side)
                   => (\E i \in Ids : row'[i] # Gone /\ row'[i].side = side)]_makerVars
    BY SidesStay
  <1>3. QED
    BY <1>1, <1>2, InitMakerInv, InitSidesInv, PTL DEF MakerSpec, SidesStayQuoted
=============================================================================
