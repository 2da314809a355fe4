------------------------- MODULE DerivativesProofs -------------------------
(***************************************************************************)
(* Proofs about one-day futures and options, for any accounts, prices,     *)
(* rates and leverages and any interleaving of trading, risk ticks and     *)
(* settlement runs.                                                        *)
(*                                                                         *)
(* Margin: a row of positions is only written by ApplyFill, which computes *)
(* the margin from what it writes, and by SetLeverage, when there is       *)
(* nothing to hold a margin for.  The settlement: a run does one symbol,   *)
(* with positions of that symbol only, and only before its record of the   *)
(* day.                                                                    *)
(*                                                                         *)
(* Types and holds: DerivInd ties what an order holds and what is left of  *)
(* it to the events that wait for it, so that a trade always finds what it *)
(* fills and releases.  Money, closes and liquidations are further         *)
(* invariants on top of it.                                                *)
(***************************************************************************)
EXTENDS Derivatives, Lemmas

----------------------------------------------------------------------------
\* A row of positions, whatever its values are.
IsRow(r) == r = [qty |-> r.qty, entry |-> r.entry, margin |-> r.margin, leverage |-> r.leverage]

Exact(k, r) == IsRow(r) /\ r.margin = PositionMargin(k[2], r.qty, r.entry, r.leverage)

PosInv == pos = [k \in Keys |-> pos[k]] /\ \A k \in Keys : Exact(k, pos[k])

\* A fill writes the margin that goes with what it leaves of the position.
LEMMA ApplyFillExact ==
    ASSUME NEW k, NEW p, IsRow(p), NEW side, NEW price, NEW n
    PROVE  Exact(k, ApplyFill(k[2], p, side, price, n).pos)
  <1> DEFINE fill == ApplyFill(k[2], p, side, price, n)
  <1>1. PICK qty, entry :
            fill.pos = [p EXCEPT !.qty = qty, !.entry = entry,
                                 !.margin = PositionMargin(k[2], qty, entry, p.leverage)]
    BY DEF ApplyFill
  <1> HIDE DEF fill
  <1>2. fill.pos = [qty |-> qty, entry |-> entry,
                    margin |-> PositionMargin(k[2], qty, entry, p.leverage),
                    leverage |-> p.leverage]
    BY <1>1 DEF IsRow
  <1>3. Exact(k, fill.pos)
    BY <1>2 DEF IsRow, Exact
  <1>4. QED
    BY <1>3 DEF fill

\* Positions with two sides are positions of the future.
LEMMA SidedKeysAreFutures ==
    ASSUME NEW k \in Keys, k[3] # "NET"
    PROVE  k[2] = Future
  BY DEF Keys, SidesOf

LEMMA ApplyLegExact ==
    ASSUME NEW k \in Keys, NEW p, Exact(k, p), NEW side, NEW price, NEW n
    PROVE  Exact(k, ApplyLeg(k, p, side, price, n).pos)
  <1>1. IsRow(p)
    BY DEF Exact
  <1>2. CASE k[3] = "NET"
    BY <1>1, <1>2, ApplyFillExact DEF ApplyLeg
  <1>3. CASE k[3] # "NET"
    <2> DEFINE closing == HedgeQty(k, p, side, n)
               fill == ApplyFill(Future, p, side, price, closing)
    <2>1. Exact(k, fill.pos)
      BY <1>1, <1>3, ApplyFillExact, SidedKeysAreFutures
    <2>2. [fill EXCEPT !.overflow = n - closing].pos = fill.pos
      BY DEF ApplyFill
    <2>3. ApplyLeg(k, p, side, price, n).pos = IF closing = 0 THEN p ELSE fill.pos
      BY <1>3, <2>2 DEF ApplyLeg, ApplyHedgeFill
    <2>4. QED
      BY <2>1, <2>3
  <1>4. QED
    BY <1>2, <1>3

LEMMA SettleTradeExact ==
    ASSUME PosInv, SettleTrade
    PROVE  PosInv'
  <1> DEFINE e  == Head(events)
             kb == orders[e.buy].key
             ks == orders[e.sell].key
             bought == ApplyLeg(kb, pos[kb], "BUY", e.price, e.qty)
             sold   == ApplyLeg(ks, IF ks = kb THEN bought.pos ELSE pos[ks], "SELL", e.price, e.qty)
  <1>1. pos' = [pos EXCEPT ![kb] = bought.pos, ![ks] = sold.pos]
    BY DEF SettleTrade
  <1>2. kb \in Keys => Exact(kb, bought.pos)
    BY ApplyLegExact DEF PosInv
  <1>3. ks \in Keys => Exact(ks, sold.pos)
    <2>1. CASE ks = kb
      BY <1>2, <2>1, ApplyLegExact
    <2>2. CASE ks # kb
      BY <2>2, ApplyLegExact DEF PosInv
    <2>3. QED
      BY <2>1, <2>2
  <1> HIDE DEF kb, ks, bought, sold
  <1>4. pos' = [k \in Keys |-> IF k = ks THEN sold.pos ELSE IF k = kb THEN bought.pos ELSE pos[k]]
    BY <1>1 DEF PosInv
  <1>5. QED
    BY <1>2, <1>3, <1>4 DEF PosInv

LEMMA SetLeverageExact ==
    ASSUME PosInv, NEW a, NEW leverage, SetLeverage(a, leverage)
    PROVE  PosInv' /\ \A k \in Keys : pos'[k].qty = pos[k].qty
  <1>1. pos' = [k \in Keys |-> IF k[1] = a /\ k[2] = Future
                               THEN [pos[k] EXCEPT !.leverage = leverage] ELSE pos[k]]
    BY DEF SetLeverage
  <1>2. ASSUME NEW k \in Keys, k[1] = a, k[2] = Future
        PROVE  /\ Exact(k, [pos[k] EXCEPT !.leverage = leverage])
               /\ [pos[k] EXCEPT !.leverage = leverage].qty = pos[k].qty
    <2>1. pos[k].qty = 0 /\ Exact(k, pos[k])
      BY <1>2 DEF SetLeverage, LeverageMayChange, Flat, KeysOf, PosInv
    <2>2. [pos[k] EXCEPT !.leverage = leverage]
            = [qty |-> pos[k].qty, entry |-> pos[k].entry, margin |-> pos[k].margin,
               leverage |-> leverage]
      BY <2>1 DEF Exact, IsRow
    <2>3. QED
      BY <1>2, <2>1, <2>2 DEF Exact, IsRow, PositionMargin
  <1>3. QED
    BY <1>1, <1>2 DEF PosInv

LEMMA SettlePositionExact ==
    ASSUME PosInv, NEW k, SettlePosition(k)
    PROVE  PosInv' /\ \A l \in Keys : l # k => pos'[l] = pos[l]
  <1> DEFINE p == pos[k]
             side == IF p.qty > 0 THEN "SELL" ELSE "BUY"
             fill == ApplyFill(k[2], p, side, run.prices[k[2]], Abs(p.qty))
  <1>1. pos' = pos \/ pos' = [pos EXCEPT ![k] = fill.pos]
    BY DEF SettlePosition, money
  <1>2. k \in Keys => Exact(k, fill.pos)
    <2>1. k \in Keys => IsRow(p)
      BY DEF PosInv, Exact
    <2> HIDE DEF p, side
    <2>2. QED
      BY <2>1, ApplyFillExact
  <1> HIDE DEF fill
  <1>3. QED
    BY <1>1, <1>2 DEF PosInv

\* What trading leaves alone.
LEMMA TradingFrame ==
    ASSUME Trading
    PROVE  /\ run' = run /\ done' = done
           /\ pos' = pos \/ SettleTrade
  <1>1. ASSUME NEW k, NEW side, NEW n, NEW x, Place(k, side, n, x)
        PROVE  run' = run /\ done' = done /\ pos' = pos
    BY <1>1 DEF Place, daily
  <1>2. ASSUME NEW b, NEW s, NEW n, NEW x, Match(b, s, n, x)
        PROVE  run' = run /\ done' = done /\ pos' = pos
    BY <1>2 DEF Match, daily, money
  <1>3. ASSUME NEW i, EngineCloses(i)
        PROVE  run' = run /\ done' = done /\ pos' = pos
    BY <1>3 DEF EngineCloses, daily, money
  <1>4. SettleTrade => run' = run /\ done' = done
    BY DEF SettleTrade, daily
  <1>5. SettleClose => run' = run /\ done' = done /\ pos' = pos
    BY DEF SettleClose, daily
  <1>6. QED
    BY <1>1, <1>2, <1>3, <1>4, <1>5 DEF Trading

\* Only trades, the settlement of positions and a change of leverage write
\* positions.
\* Risk ticks leave money, events and the daily settlement alone.
LEMMA RiskFrame ==
    ASSUME Risk PROVE UNCHANGED <<money, events, daily, overflow>>
  BY DEF Risk, RiskReads, RiskChecks, RiskDecides, RiskLiquidates, RiskFails, CallFallsDue, MarkMoves

LEMMA RiskQuietOrders ==
    ASSUME Risk, ~\E t \in Ticks : RiskLiquidates(t) PROVE orders' = orders /\ blind' = blind
  BY DEF Risk, RiskReads, RiskChecks, RiskDecides, RiskFails, CallFallsDue, MarkMoves

LEMMA PosInvStep ==
    ASSUME PosInv, [DerivNext]_derivVars
    PROVE  PosInv'
  <1>1. ASSUME Trading PROVE PosInv'
    <2>1. CASE SettleTrade
      BY <2>1, SettleTradeExact
    <2>2. CASE pos' = pos
      BY <2>2 DEF PosInv
    <2>3. QED
      BY <1>1, <2>1, <2>2, TradingFrame
  <1>2. ASSUME Leveraging PROVE PosInv'
    BY <1>2, SetLeverageExact DEF Leveraging
  <1>3. ASSUME Risk PROVE PosInv'
    <2>1. pos' = pos
      BY <1>3, RiskFrame DEF money
    <2>2. QED
      BY <2>1 DEF PosInv
  <1>4. ASSUME Daily PROVE PosInv'
    <2>1. ASSUME NEW k, SettlePosition(k) PROVE PosInv'
      BY <2>1, SettlePositionExact
    <2>2. CASE pos' = pos
      BY <2>2 DEF PosInv
    <2>3. QED
      BY <1>4, <2>1, <2>2 DEF Daily, BeginMaintenance, EndMaintenance, StartSettlement,
                              FinishSymbol, SettlementStops, money
  <1>5. ASSUME UNCHANGED derivVars PROVE PosInv'
    BY <1>5 DEF PosInv, derivVars, money
  <1>6. QED
    BY <1>1, <1>2, <1>3, <1>4, <1>5 DEF DerivNext

LEMMA InitPosInv == DerivInit => PosInv
  <1> SUFFICES ASSUME DerivInit
               PROVE  PosInv
    OBVIOUS
  <1>1. pos = [k \in Keys |-> [qty |-> 0, entry |-> 0, margin |-> 0, leverage |-> 0]]
    BY DEF DerivInit
  <1>2. QED
    BY <1>1 DEF PosInv, Exact, IsRow, PositionMargin

\* Whatever a position has been through (partial closes, turned over, its
\* leverage changed in between, settled, liquidated), its margin is the one its
\* entry value and its leverage demand.
THEOREM MarginAlwaysExact == DerivSpec => []MarginIsExact
  <1>1. PosInv => MarginIsExact
    BY DEF PosInv, Exact, MarginIsExact
  <1>2. QED
    BY InitPosInv, PosInvStep, <1>1, PTL DEF DerivSpec

----------------------------------------------------------------------------
\* A settlement run, and the positions it has to do.
IsRun(r) == r = [symbol |-> r.symbol, prices |-> r.prices, todo |-> r.todo, closed |-> r.closed]

RunInv ==
    /\ IsRun(run)
    /\ \A k \in run.todo : k[2] = run.symbol
    /\ run # NoRun => run.symbol \in Symbols \ DOMAIN done

LEMMA InitRunInv == DerivInit => RunInv
  BY DEF DerivInit, RunInv, IsRun, NoRun

\* A run starts with a symbol that has no record, or goes on to one.
LEMMA SettlingRunInv ==
    ASSUME NEW s, NEW prices, NEW closed, run' = Settling(s, prices, closed),
           s \in Symbols \ DOMAIN done'
    PROVE  RunInv'
  BY DEF RunInv, IsRun, Settling, OpenKeys

LEMMA NoRunInv == ASSUME run' = NoRun PROVE RunInv'
  BY DEF RunInv, IsRun, NoRun

LEMMA StartRunInv ==
    ASSUME RunInv, NEW future, NEW intrinsic, StartSettlement(future, intrinsic)
    PROVE  RunInv'
  <1> DEFINE s == IF Future \in Pending THEN Future ELSE Option
             prices == [t \in Symbols |-> IF t = Future THEN future ELSE intrinsic]
  <1>1. /\ run' = Settling(s, prices, FALSE)
        /\ done' = done /\ Pending # {}
    BY DEF StartSettlement
  <1>2. s \in Symbols \ DOMAIN done'
    BY <1>1 DEF Pending, Symbols
  <1> HIDE DEF s, prices
  <1>3. QED
    BY <1>1, <1>2, SettlingRunInv

LEMMA SettlePositionRunInv ==
    ASSUME RunInv, NEW k, SettlePosition(k)
    PROVE  RunInv'
  <1>1. /\ k \in run.todo /\ done' = done
        /\ \E c : run' = [run EXCEPT !.todo = @ \ {k}, !.closed = c]
    BY DEF SettlePosition
  <1>2. PICK c : run' = [symbol |-> run.symbol, prices |-> run.prices,
                         todo |-> run.todo \ {k}, closed |-> c]
    BY <1>1 DEF RunInv, IsRun
  <1>3. run # NoRun
    BY <1>1 DEF NoRun
  <1>4. QED
    BY <1>1, <1>2, <1>3 DEF RunInv, IsRun

LEMMA FinishSymbolRunInv ==
    ASSUME RunInv, FinishSymbol
    PROVE  RunInv'
  <1>1. DOMAIN done' = DOMAIN done \cup {run.symbol}
    BY DEF FinishSymbol
  <1>2. CASE run.symbol = Future /\ Option \in Pending
    <2>1. Option \in Symbols \ DOMAIN done'
      BY <1>1, <1>2 DEF Pending, Future, Option
    <2>2. run' = Settling(Option, run.prices, run.closed)
      BY <1>2 DEF FinishSymbol
    <2>3. QED
      BY <2>1, <2>2, SettlingRunInv
  <1>3. CASE ~(run.symbol = Future /\ Option \in Pending)
    BY <1>3, NoRunInv DEF FinishSymbol
  <1>4. QED
    BY <1>2, <1>3

LEMMA RunInvStep ==
    ASSUME RunInv, [DerivNext]_derivVars
    PROVE  RunInv'
  <1>1. CASE run' = run /\ done' = done
    BY <1>1 DEF RunInv
  <1>2. CASE Trading
    BY <1>1, <1>2, TradingFrame
  <1>3. CASE Leveraging
    BY <1>1, <1>3 DEF Leveraging, SetLeverage, daily
  <1>4. CASE Risk
    BY <1>1, <1>4, RiskFrame DEF daily
  <1>5. CASE Daily
    <2>1. CASE BeginMaintenance \/ EndMaintenance
      BY <1>1, <2>1 DEF BeginMaintenance, EndMaintenance
    <2>2. CASE \E x \in Marks, v \in Premiums \cup {0} : StartSettlement(x, v)
      BY <2>2, StartRunInv
    <2>3. CASE \E k \in run.todo : SettlePosition(k)
      BY <2>3, SettlePositionRunInv
    <2>4. CASE FinishSymbol
      BY <2>4, FinishSymbolRunInv
    <2>5. CASE SettlementStops
      BY <2>5, NoRunInv DEF SettlementStops
    <2>6. QED
      BY <1>5, <2>1, <2>2, <2>3, <2>4, <2>5 DEF Daily
  <1>6. CASE UNCHANGED derivVars
    BY <1>1, <1>6 DEF derivVars, daily
  <1>7. QED
    BY <1>2, <1>3, <1>4, <1>5, <1>6 DEF DerivNext

\* Who changes the quantity of a position of a symbol with a record of the day.
LEMMA OnlyTradesChangeNewPositions ==
    ASSUME PosInv, RunInv, [DerivNext]_derivVars,
           NEW k \in Keys, k[2] \in DOMAIN done, pos'[k].qty # pos[k].qty
    PROVE  events # <<>> /\ events' = Tail(events)
  <1>1. CASE Trading
    BY <1>1, TradingFrame DEF SettleTrade
  <1>2. CASE Leveraging
    <2>1. PICK a \in Accounts, leverage \in Leverages : SetLeverage(a, leverage)
      BY <1>2 DEF Leveraging
    <2>2. QED
      BY <2>1, SetLeverageExact
  <1>3. CASE Risk
    BY <1>3, RiskFrame DEF money
  <1>4. CASE Daily
    <2>1. ASSUME NEW l \in run.todo, SettlePosition(l)
          PROVE  FALSE
      <3>1. k # l
        <4>1. run # NoRun
          BY <2>1 DEF NoRun
        <4>2. QED
          BY <2>1, <4>1 DEF RunInv
      <3>2. QED
        BY <2>1, <3>1, SettlePositionExact
    <2>2. ~(pos' = pos)
      OBVIOUS
    <2>3. QED
      BY <1>4, <2>1, <2>2 DEF Daily, BeginMaintenance, EndMaintenance, StartSettlement,
                              FinishSymbol, SettlementStops, money
  <1>5. CASE UNCHANGED derivVars
    BY <1>5 DEF derivVars, money
  <1>6. QED
    BY <1>1, <1>2, <1>3, <1>4, <1>5 DEF DerivNext

\* Once a symbol has its record of the day only trades change its positions,
\* whatever run comes later to catch up, wherever the earlier ones stopped.
THEOREM NewPositionsAlwaysSurvive == DerivSpec => NewPositionsSurvive
  <1>1. ASSUME PosInv, RunInv, [DerivNext]_derivVars
        PROVE  [\A k \in Keys : (k[2] \in DOMAIN done /\ pos'[k].qty # pos[k].qty) =>
                   events # <<>> /\ events' = Tail(events)]_derivVars
    BY <1>1, OnlyTradesChangeNewPositions
  <1>2. QED
    BY InitPosInv, PosInvStep, InitRunInv, RunInvStep, <1>1, PTL
       DEF DerivSpec, NewPositionsSurvive

----------------------------------------------------------------------------
(***************************************************************************)
(* Keys, rows and what a fill does to a row                                *)
(***************************************************************************)
\* The types of a row of positions.
Row == [qty : Int, entry : Nat, margin : Nat, leverage : Leverages]

LEMMA PairFinite == ASSUME NEW a, NEW b PROVE IsFiniteSet({a, b})
<1>1. IsFiniteSet({a} \cup {b})
  BY FS_Singleton, FS_Union
<1>2. {a, b} = {a} \cup {b}
  OBVIOUS
<1> QED BY <1>1, <1>2

LEMMA TripleFinite == ASSUME NEW a, NEW b, NEW c PROVE IsFiniteSet({a, b, c})
<1>1. IsFiniteSet({a, b} \cup {c})
  BY PairFinite, FS_Singleton, FS_Union
<1>2. {a, b, c} = {a, b} \cup {c}
  OBVIOUS
<1> QED BY <1>1, <1>2

LEMMA KeyFacts ==
    /\ \A k \in Keys : /\ k[1] \in Accounts /\ k[2] \in Symbols /\ k[3] \in SidesOf(k[1], k[2])
                       /\ k[3] \in {"LONG", "SHORT", "NET"}
                       /\ k = <<k[1], k[2], k[3]>>
                       /\ k[3] # "NET" => k[2] = Future
    /\ IsFiniteSet(Keys)
<1>1. \A k \in Keys : /\ k[1] \in Accounts /\ k[2] \in Symbols /\ k[3] \in SidesOf(k[1], k[2])
                      /\ k[3] \in {"LONG", "SHORT", "NET"}
                      /\ k = <<k[1], k[2], k[3]>>
  BY DEF Keys
<1>2. \A k \in Keys : k[3] # "NET" => k[2] = Future
  BY <1>1 DEF SidesOf
<1> DEFINE P == Symbols \X {"LONG", "SHORT", "NET"}
           Q == Accounts \X P
           f == [k \in Keys |-> <<k[1], <<k[2], k[3]>>>>]
<1>3. IsFiniteSet(P) 
  BY PairFinite, TripleFinite, FS_Product DEF Symbols
<1>4. IsFiniteSet(Q)
  <2> HIDE DEF P
  <2> QED BY <1>3, FS_Product, DerivativesAssumption
<1>5. f \in Injection(Keys, Q)
  <2>1. f \in [Keys -> Q]
    BY <1>1
  <2>2. ASSUME NEW k \in Keys, NEW l \in Keys, f[k] = f[l] PROVE k = l
    <3>1. k[1] = l[1] /\ k[2] = l[2] /\ k[3] = l[3]
      BY <2>2
    <3> QED BY <1>1, <3>1
  <2> HIDE DEF f, Q
  <2> QED BY <2>1, <2>2 DEF Injection, IsInjective
<1>6. IsFiniteSet(Keys)
  <2> HIDE DEF f, Q
  <2> QED BY <1>4, <1>5, FS_Injection
<1> QED BY <1>1, <1>2, <1>6

LEMMA DivNat == ASSUME NEW x \in Nat, NEW d \in Nat \ {0} PROVE x \div d \in Nat
  OBVIOUS

LEMMA MulNat == ASSUME NEW x \in Nat, NEW y \in Nat PROVE x * y \in Nat
  OBVIOUS

LEMMA MulInt == ASSUME NEW x \in Int, NEW y \in Int PROVE x * y \in Int
  OBVIOUS

LEMMA CeilDivNat == ASSUME NEW x \in Nat, NEW d \in Nat \ {0} PROVE CeilDiv(x, d) \in Nat
  BY DivNat DEF CeilDiv

LEMMA DivPart ==
    ASSUME NEW e \in Nat, NEW c \in Nat \ {0}, NEW a \in Nat, a <= c
    PROVE  /\ (e * a) \div c \in Nat /\ (e * a) \div c <= e
           /\ a = c => (e * a) \div c = e
<1> DEFINE x == e * a
           q == x \div c
<1>1. x \in Nat /\ x <= e * c
  <2>1. e * c - e * a = e * (c - a)
    OBVIOUS
  <2>2. e * (c - a) \in Nat
    BY MulNat
  <2> QED BY <2>1, <2>2, MulNat
<1>2. e * c \in Nat
  BY MulNat
<1> HIDE DEF x
<1>3. q \in Nat /\ q * c <= x /\ x < q * c + c
  BY <1>1
<1> HIDE DEF q
<1>4. q <= e
  <2>1. SUFFICES ASSUME q >= e + 1 PROVE FALSE
    BY <1>3
  <2>2. q * c >= (e + 1) * c
    <3>1. (q - (e + 1)) * c \in Nat
      BY <2>1, <1>3, MulNat
    <3>2. (q - (e + 1)) * c = q * c - (e + 1) * c
      BY <1>3
    <3> QED BY <3>1, <3>2, <1>3
  <2>3. (e + 1) * c = e * c + c
    OBVIOUS
  <2> QED BY <1>1, <1>2, <1>3, <2>2, <2>3
<1>5. ASSUME a = c PROVE q = e
  <2>1. x = e * c
    BY <1>5 DEF x
  <2>2. SUFFICES ASSUME q + 1 <= e PROVE FALSE
    BY <1>3, <1>4
  <2>3. (q + 1) * c <= e * c
    <3>1. (e - (q + 1)) * c \in Nat
      BY <2>2, <1>3, MulNat
    <3>2. (e - (q + 1)) * c = e * c - (q + 1) * c
      BY <1>3
    <3> QED BY <3>1, <3>2, <1>3
  <2>4. (q + 1) * c = q * c + c
    BY <1>3
  <2> QED BY <1>2, <1>3, <2>1, <2>3, <2>4
<1> QED BY <1>3, <1>4, <1>5 DEF q, x

LEMMA ConstantTypes ==
    /\ FutureUnit \in Nat \ {0} /\ OptionUnit \in Nat \ {0} /\ BpsBase \in Nat \ {0}
    /\ InitialBps \in Nat \ {0} /\ MaintenanceBps \in Nat /\ WriterBps \in Nat /\ Strike \in Nat
    /\ MaxQty \in Nat /\ Leverages \subseteq Nat /\ Marks \subseteq Nat \ {0}
    /\ Premiums \subseteq Nat \ {0} /\ Price0 \in Marks /\ Future # Option
    /\ IsFiniteSet(Accounts) /\ Balances \in [Accounts -> Nat] /\ 0 \in Leverages
  BY DerivativesAssumption DEF Future, Option

LEMMA UnitNat == ASSUME NEW s PROVE Unit(s) \in Nat \ {0}
  BY ConstantTypes DEF Unit

LEMMA CeilBpsNat ==
    ASSUME NEW x \in Nat, NEW bps \in Nat PROVE CeilBps(x, bps) \in Nat
  BY ConstantTypes, MulNat, CeilDivNat DEF CeilBps

LEMMA InitialBpsNat == ASSUME NEW l \in Leverages PROVE FutureInitialBps(l) \in Nat
  BY ConstantTypes, CeilDivNat DEF FutureInitialBps

LEMMA PerContractNat ==
    ASSUME NEW l \in Leverages, NEW x \in Nat PROVE FutureMarginPerContract(x, l) \in Nat
  BY InitialBpsNat, CeilBpsNat, MulNat, ConstantTypes DEF FutureMarginPerContract

LEMMA WriterMarginNat == OptionWriterMargin \in Nat
  BY CeilBpsNat, MulNat, ConstantTypes DEF OptionWriterMargin

LEMMA AbsNat == ASSUME NEW n \in Int PROVE Abs(n) \in Nat /\ (n # 0 => Abs(n) # 0)
  BY DEF Abs

LEMMA MarginNat ==
    ASSUME NEW s, NEW qty \in Int, NEW entry \in Nat, NEW l \in Leverages
    PROVE  PositionMargin(s, qty, entry, l) \in Nat
<1>1. FuturePositionMargin(entry, l) \in Nat
  BY InitialBpsNat, CeilBpsNat, MulNat, ConstantTypes DEF FuturePositionMargin
<1>2. OptionWriterMargin * Abs(qty) \in Nat
  BY WriterMarginNat, AbsNat, MulNat
<1> QED BY <1>1, <1>2 DEF PositionMargin

\* The entry value of a long position, minus that of a short one.
SignedEntry(p) == IF p.qty > 0 THEN p.entry ELSE -p.entry

\* A position of nothing has no entry value.
GoodRow(p) == p \in Row /\ (p.qty = 0 => p.entry = 0)

\* What applyFutureFill makes of a position.
LegIs(s, p, side, price, n, fill) ==
    /\ GoodRow(fill.pos)
    /\ fill.pos.qty = p.qty + Signed(side, n)
    /\ fill.realized \in Int
    /\ fill.realized = Unit(s) * (SignedEntry(fill.pos) - SignedEntry(p) - Signed(side, n) * price)
    /\ fill.overflow = 0

LEMMA ApplyFillFacts ==
    ASSUME NEW s, NEW p, GoodRow(p), NEW side \in {"BUY", "SELL"},
           NEW price \in Nat, NEW n \in Nat \ {0},
           NEW fill, fill = ApplyFill(s, p, side, price, n)
    PROVE  LegIs(s, p, side, price, n, fill)
<1> DEFINE opens  == p.qty = 0 \/ (p.qty > 0) = (side = "BUY")
           closed == IF opens THEN 0 ELSE Smaller(n, Abs(p.qty))
           basis  == IF closed = 0 THEN 0 ELSE (p.entry * closed) \div Abs(p.qty)
           rest   == n - closed
           qty    == p.qty + Signed(side, n)
           entry  == IF closed = 0 THEN p.entry + price * n
                     ELSE IF rest > 0 THEN price * rest
                     ELSE IF qty = 0 THEN 0 ELSE RestOfEntry(p.entry, basis)
           sign == IF p.qty > 0 THEN 1 ELSE -1
<1>1. /\ fill.pos = [p EXCEPT !.qty = qty, !.entry = entry,
                              !.margin = PositionMargin(s, qty, entry, p.leverage)]
      /\ fill.realized = sign * (price * closed - basis) * Unit(s)
      /\ fill.overflow = 0
  BY DEF ApplyFill
<1>2. /\ p.qty \in Int /\ p.entry \in Nat /\ p.leverage \in Leverages /\ p \in Row
      /\ p.qty = 0 => p.entry = 0
  BY DEF GoodRow, Row
<1>3. closed \in Nat /\ closed <= n /\ closed <= Abs(p.qty) /\ (closed = 0 <=> opens)
  BY <1>2 DEF Smaller, Abs
<1>4. /\ basis \in Nat /\ basis <= p.entry /\ (closed = 0 => basis = 0)
      /\ closed # 0 /\ closed = Abs(p.qty) => basis = p.entry
  <2>1. CASE closed = 0
    BY <2>1, <1>2
  <2>2. CASE closed # 0
    <3>1. Abs(p.qty) \in Nat \ {0} /\ closed \in Nat /\ closed <= Abs(p.qty) /\ p.entry \in Nat
      BY <1>2, <1>3, <2>2 DEF Abs
    <3> HIDE DEF closed
    <3> QED BY <2>2, <3>1, DivPart
  <2> QED BY <2>1, <2>2
<1>5. qty \in Int
  BY <1>2 DEF Signed
<1>6. price * n \in Nat /\ price * rest \in Nat
  BY <1>3, MulNat
<1>7. entry \in Nat /\ (qty = 0 => entry = 0)
  <2>1. closed = 0 => qty # 0
    BY <1>2, <1>3 DEF Signed
  <2>2. closed # 0 /\ rest > 0 => qty # 0
    BY <1>2, <1>3 DEF Signed, Smaller, Abs
  <2> HIDE DEF closed, basis, qty, rest
  <2> QED BY <1>2, <1>4, <1>6, <2>1, <2>2 DEF RestOfEntry
<1>8. /\ fill.pos.qty = qty /\ fill.pos.entry = entry
      /\ fill.pos \in Row
  <2> HIDE DEF closed, basis, qty, rest, entry, sign
  <2>1. PositionMargin(s, qty, entry, p.leverage) \in Nat
    BY <1>2, <1>5, <1>7, MarginNat
  <2> QED BY <1>1, <1>2, <1>5, <1>7, <2>1 DEF Row
<1>9. sign * (price * closed - basis)
        = SignedEntry(fill.pos) - SignedEntry(p) - Signed(side, n) * price
  <2>1. CASE closed = 0
    <3>1. basis = 0 /\ entry = p.entry + price * n /\ price * closed = 0 /\ opens
      BY <1>3, <1>4, <2>1
    <3> QED BY <1>2, <1>8, <3>1 DEF SignedEntry, Signed
  <2>2. CASE closed # 0 /\ rest > 0
    <3>1. closed = Abs(p.qty) /\ basis = p.entry /\ entry = price * rest /\ ~opens
      BY <1>2, <1>3, <1>4, <2>2 DEF Smaller
    <3>2. price * n = price * closed + price * rest
      BY <1>3
    <3>3. (qty > 0) = (p.qty < 0) /\ qty # 0 /\ p.qty # 0 /\ (p.qty > 0 <=> side = "SELL")
      BY <1>2, <1>3, <2>2, <3>1 DEF Signed, Smaller, Abs
    <3>4. Signed(side, n) * price = IF side = "BUY" THEN price * n ELSE -(price * n)
      BY DEF Signed
    <3>5. price * closed \in Int
      BY <1>3
    <3> HIDE DEF closed, basis, qty, rest, entry
    <3> QED BY <1>2, <1>4, <1>5, <1>6, <1>8, <3>1, <3>2, <3>3, <3>4, <3>5 DEF SignedEntry
  <2>3. CASE closed # 0 /\ ~(rest > 0)
    <3>1. closed = n /\ ~opens /\ p.qty # 0 /\ (p.qty > 0 <=> side = "SELL")
      BY <1>2, <1>3, <2>3
    <3>2. entry = p.entry - basis
      <4>1. CASE qty = 0
        <5>1. closed = Abs(p.qty)
          BY <1>2, <3>1, <4>1 DEF Signed, Abs
        <5> QED BY <1>2, <1>4, <2>3, <4>1, <5>1
      <4>2. CASE qty # 0
        BY <2>3, <4>2 DEF RestOfEntry
      <4> QED BY <4>1, <4>2
    <3>3. qty = 0 \/ ((qty > 0) = (p.qty > 0))
      BY <1>2, <1>3, <3>1 DEF Signed, Smaller, Abs
    <3>4. Signed(side, n) * price = IF side = "BUY" THEN price * n ELSE -(price * n)
      BY DEF Signed
    <3>5. price * closed = price * n
      BY <3>1
    <3>6. SignedEntry(fill.pos) = IF qty > 0 THEN entry ELSE -entry
      BY <1>8 DEF SignedEntry
    <3>7. PICK x \in Int : x = price * n
      BY <1>6
    <3> HIDE DEF closed, basis, qty, rest, entry
    <3>8. sign * (x - basis) = SignedEntry(fill.pos) - SignedEntry(p) - Signed(side, n) * price
      <4>1. CASE p.qty > 0
        BY <1>2, <1>4, <1>5, <1>7, <3>1, <3>2, <3>3, <3>4, <3>6, <3>7, <4>1 DEF SignedEntry
      <4>2. CASE ~(p.qty > 0)
        <5>1. SignedEntry(fill.pos) = -entry
          BY <1>5, <1>7, <3>3, <3>6, <4>2
        <5>2. SignedEntry(p) = -p.entry /\ sign = -1
          BY <4>2 DEF SignedEntry
        <5>3. Signed(side, n) * price = x
          BY <3>1, <3>4, <3>7, <4>2
        <5>4. p.entry \in Int /\ basis \in Int /\ entry = p.entry - basis
          BY <1>2, <1>4, <3>2
        <5> HIDE DEF sign
        <5> QED BY <3>7, <5>1, <5>2, <5>3, <5>4
      <4> QED BY <4>1, <4>2
    <3> QED BY <3>5, <3>7, <3>8
  <2> QED BY <2>1, <2>2, <2>3
<1>10. fill.realized = Unit(s) * (SignedEntry(fill.pos) - SignedEntry(p) - Signed(side, n) * price)
       /\ fill.realized \in Int
  <2>1. Unit(s) \in Int /\ sign \in Int /\ price * closed - basis \in Int
    BY UnitNat, <1>3, <1>4, MulNat
  <2> DEFINE X == sign * (price * closed - basis)
  <2>2. X \in Int /\ fill.realized = X * Unit(s)
    BY <1>1, <2>1, MulInt
  <2>3. X = SignedEntry(fill.pos) - SignedEntry(p) - Signed(side, n) * price
    BY <1>9
  <2> HIDE DEF X
  <2>4. fill.realized = Unit(s) * X /\ fill.realized \in Int
    BY <2>1, <2>2, MulInt
  <2> QED BY <2>3, <2>4
<1> HIDE DEF qty
<1>11. GoodRow(fill.pos)
  BY <1>7, <1>8 DEF GoodRow, qty
<1> QED BY <1>1, <1>8, <1>10, <1>11 DEF qty, LegIs

----------------------------------------------------------------------------
\* The types of a row of orders.
OrderRow == [key : Keys, side : {"BUY", "SELL"}, qty : Nat \ {0}, filled : Nat,
             left : Nat, per : Nat, limit : Nat, forced : BOOLEAN,
             status : {"OPEN", "PARTIAL", "FILLED", "CANCELED"}]

IsLive(o) == o.status \in {"OPEN", "PARTIAL"}

\* What an order still holds of an account's cash, and all orders together.
OwedBy(o, a) == IF o.key[1] = a /\ IsLive(o) THEN o.per * (o.qty - o.filled) ELSE 0
Owing(a) == [o \in OrderRow |-> OwedBy(o, a)]
HeldFor(os, a) == SumAlong(os, Owing(a))

\* What an event is still going to take from an order; a close counts as one.
Demand(e, i) ==
    IF i \notin {e.buy, e.sell} THEN 0 ELSE IF e.kind = "trade" THEN e.qty ELSE 1
PendingIn(es, i) == SumOver([j \in DOMAIN es |-> Demand(es[j], i)], DOMAIN es)

\* Events name orders that are in the table.
EventRow(os) == [kind : {"trade", "closed"}, buy : DOMAIN os, sell : DOMAIN os,
                 qty : Nat, price : Nat]

\* What the engine says of a trade is true of the two orders.
GoodTrade(os, e) ==
    /\ e.qty > 0
    /\ os[e.buy].side = "BUY" /\ os[e.sell].side = "SELL"
    /\ os[e.buy].key[2] = os[e.sell].key[2]
    /\ e.price <= os[e.buy].limit

\* A close is the last that is said of an order.
Mentions(e, i) == i \in {e.buy, e.sell}

EventsInv(os, es) ==
    /\ es \in Seq(EventRow(os))
    /\ \A j \in DOMAIN es : es[j].kind = "trade" => GoodTrade(os, es[j])
    /\ \A j \in DOMAIN es : es[j].kind = "closed" =>
          /\ es[j].buy = es[j].sell
          /\ os[es[j].buy].left = 0
          /\ \A l \in DOMAIN es : l > j => ~Mentions(es[l], es[j].buy)

\* What waits for an order and what the engine still has of it is within what
\* is not filled yet; nothing waits for an order that has ended.
QueueOf(o, pending) ==
    IF IsLive(o) THEN pending + o.left <= o.qty - o.filled
    ELSE pending = 0 /\ o.left = 0

GoodOrder(o) ==
    /\ o.filled <= o.qty
    /\ o.key[2] = Option /\ o.side = "BUY" => o.per = o.limit * OptionUnit

CashRow == [balance : Nat, hold : Nat, debt : Nat]

\* What an account has held is what its live orders hold, and is there.
CashPart ==
    /\ cash \in [Accounts -> CashRow]
    /\ \A a \in Accounts : /\ cash[a].hold = HeldFor(orders, a)
                            /\ cash[a].hold <= cash[a].balance

\* A long position is never below zero, a short one never above.
SidedRow(k, p) ==
    /\ GoodRow(p)
    /\ k[3] = "LONG" => p.qty >= 0
    /\ k[3] = "SHORT" => p.qty <= 0

FutureKeysOf(a) == {k \in KeysOf(a) : k[2] = Future}

\* ----- events
LEMMA SeqFinite == ASSUME NEW T, NEW s \in Seq(T) PROVE IsFiniteSet(DOMAIN s) /\ DOMAIN s = 1..Len(s) /\ Len(s) \in Nat
<1>1. DOMAIN s = 1..Len(s) /\ Len(s) \in Nat
  OBVIOUS
<1> QED BY <1>1, FS_Interval

LEMMA DemandNat ==
    ASSUME NEW os, NEW e \in EventRow(os), NEW i
    PROVE  Demand(e, i) \in Nat /\ (~Mentions(e, i) => Demand(e, i) = 0)
  BY DEF Demand, EventRow, Mentions

LEMMA PendingNat ==
    ASSUME NEW os, NEW es \in Seq(EventRow(os)), NEW i
    PROVE  PendingIn(es, i) \in Nat
<1> DEFINE f == [j \in DOMAIN es |-> Demand(es[j], i)]
<1>1. \A j \in DOMAIN es : f[j] \in Nat
  BY DemandNat
<1>2. IsFiniteSet(DOMAIN es)
  BY SeqFinite
<1> HIDE DEF f
<1>3. SumOver(f, DOMAIN es) \in Nat
  BY <1>1, <1>2, SumNat
<1> QED BY <1>3 DEF PendingIn, f

LEMMA PendingZero ==
    ASSUME NEW os, NEW es \in Seq(EventRow(os)), NEW i, \A j \in DOMAIN es : ~Mentions(es[j], i)
    PROVE  PendingIn(es, i) = 0
<1> DEFINE f == [j \in DOMAIN es |-> Demand(es[j], i)]
<1>1. \A j \in DOMAIN es : f[j] = 0
  BY DemandNat
<1>2. IsFiniteSet(DOMAIN es)
  BY SeqFinite
<1> HIDE DEF f
<1>3. SumOver(f, DOMAIN es) = 0
  BY <1>1, <1>2, SumOfZeros
<1> QED BY <1>3 DEF PendingIn, f

LEMMA PendingAppend ==
    ASSUME NEW os, NEW es \in Seq(EventRow(os)), NEW e \in EventRow(os), NEW i
    PROVE  PendingIn(Append(es, e), i) = PendingIn(es, i) + Demand(e, i)
<1> DEFINE fs == Append(es, e)
           n == Len(es)
           f == [j \in DOMAIN fs |-> Demand(fs[j], i)]
           g == [j \in DOMAIN es |-> Demand(es[j], i)]
<1>1. /\ n \in Nat /\ DOMAIN es = 1..n /\ DOMAIN fs = 1..(n + 1)
      /\ fs[n + 1] = e /\ \A j \in 1..n : fs[j] = es[j]
  OBVIOUS
<1>2. \A j \in 1..n : g[j] \in Int
  BY <1>1, DemandNat
<1>3. \A j \in 1..(n + 1) : f[j] \in Int
  <2> TAKE j \in 1..(n + 1)
  <2>1. fs[j] \in EventRow(os)
    OBVIOUS
  <2>2. f[j] = Demand(fs[j], i)
    BY <1>1
  <2> HIDE DEF f, fs
  <2> QED BY <2>1, <2>2, DemandNat
<1>4. \A j \in 1..n : f[j] = g[j]
  BY <1>1
<1>5. f[n + 1] = Demand(e, i)
  BY <1>1
<1>6. PendingIn(fs, i) = SumOver(f, 1..(n + 1)) /\ PendingIn(es, i) = SumOver(g, 1..n)
  BY <1>1 DEF PendingIn
<1> HIDE DEF f, g, fs, n
<1>7. SumOver(f, 1..(n + 1)) = SumOver(f, 1..n) + f[n + 1]
  BY <1>1, <1>3, SumAppend
<1>8. SumOver(f, 1..n) = SumOver(g, 1..n)
  <2>0. 1 \in Int /\ n \in Int
    BY <1>1
  <2>1. PICK S : S = 1..n /\ IsFiniteSet(S)
    BY <2>0, FS_Interval
  <2>2. SumOver(f, S) = SumOver(g, S)
    BY <1>2, <1>4, <2>1, SumSame
  <2> QED BY <2>1, <2>2
<1> QED BY <1>5, <1>6, <1>7, <1>8 DEF fs

LEMMA PendingTail ==
    ASSUME NEW os, NEW es \in Seq(EventRow(os)), es # <<>>, NEW i
    PROVE  PendingIn(es, i) = Demand(Head(es), i) + PendingIn(Tail(es), i)
<1> DEFINE ts == Tail(es)
           f == [j \in DOMAIN es |-> Demand(es[j], i)]
           g == [j \in DOMAIN ts |-> Demand(ts[j], i)]
<1>1. PICK n \in Nat : n + 1 = Len(es)
  <2>1. Len(es) \in Nat /\ Len(es) # 0
    OBVIOUS
  <2>2. Len(es) - 1 \in Nat /\ (Len(es) - 1) + 1 = Len(es)
    BY <2>1
  <2> QED BY <2>2
<1>2. /\ DOMAIN es = 1..(n + 1) /\ DOMAIN ts = 1..n /\ es[1] = Head(es)
      /\ \A j \in 1..n : ts[j] = es[j + 1]
  BY <1>1
<1>3. \A j \in 1..(n + 1) : f[j] \in Int
  <2> TAKE j \in 1..(n + 1)
  <2>1. es[j] \in EventRow(os)
    BY <1>2
  <2>2. f[j] = Demand(es[j], i)
    BY <1>2
  <2> HIDE DEF f
  <2> QED BY <2>1, <2>2, DemandNat
<1>4. \A j \in 1..n : g[j] = f[j + 1]
  <2> TAKE j \in 1..n
  <2>1. j + 1 \in 1..(n + 1)
    OBVIOUS
  <2> QED BY <1>2, <2>1
<1>5. f[1] = Demand(Head(es), i)
  BY <1>2
<1>6. PendingIn(es, i) = SumOver(f, 1..(n + 1)) /\ PendingIn(ts, i) = SumOver(g, 1..n)
  BY <1>2 DEF PendingIn
<1> HIDE DEF f, g, ts
<1>7. SumOver(f, 1..(n + 1)) = f[1] + SumOver(g, 1..n)
  BY <1>3, <1>4, SumShift
<1> QED BY <1>5, <1>6, <1>7 DEF ts

----------------------------------------------------------------------------
(***************************************************************************)
(* The orders: what they hold, and what the events still take from them    *)
(***************************************************************************)
OrderList(os) == os \in Seq(OrderRow) /\ \A i \in DOMAIN os : GoodOrder(os[i])

LEMMA OwedInt ==
    ASSUME NEW a PROVE Owing(a) \in [OrderRow -> Int]
<1>1. ASSUME NEW o \in OrderRow PROVE OwedBy(o, a) \in Int
  <2>1. o.per \in Int /\ o.qty - o.filled \in Int
    BY DEF OrderRow
  <2>2. o.per * (o.qty - o.filled) \in Int
    BY <2>1, MulInt
  <2> QED BY <2>2 DEF OwedBy
<1> QED BY <1>1 DEF Owing

LEMMA OwedNat ==
    ASSUME NEW o \in OrderRow, GoodOrder(o), NEW a
    PROVE  OwedBy(o, a) \in Nat
<1>1. o.per \in Nat /\ o.qty - o.filled \in Nat
  BY DEF OrderRow, GoodOrder
<1>2. o.per * (o.qty - o.filled) \in Nat
  BY <1>1, MulNat
<1> QED BY <1>2 DEF OwedBy

LEMMA ListRows ==
    ASSUME NEW os, OrderList(os)
    PROVE  /\ os \in Seq(OrderRow) /\ IsFiniteSet(DOMAIN os)
           /\ \A i \in DOMAIN os : /\ os[i] \in OrderRow /\ GoodOrder(os[i])
                                   /\ \A a : Owing(a)[os[i]] = OwedBy(os[i], a)
  BY SeqDomain DEF OrderList, Owing

LEMMA HeldNat ==
    ASSUME NEW os, OrderList(os), NEW a
    PROVE  HeldFor(os, a) \in Nat
<1>1. \A i \in DOMAIN os : Owing(a)[os[i]] \in Nat
  BY ListRows, OwedNat
<1> QED BY <1>1, ListRows, OwedInt, AlongMember DEF HeldFor

\* Orders that owe the same.
LEMMA HeldSame ==
    ASSUME NEW os, OrderList(os), NEW ns, OrderList(ns), DOMAIN ns = DOMAIN os, NEW a,
           \A i \in DOMAIN os : OwedBy(ns[i], a) = OwedBy(os[i], a)
    PROVE  HeldFor(ns, a) = HeldFor(os, a)
<1>1. \A i \in DOMAIN os : Owing(a)[ns[i]] = Owing(a)[os[i]]
  BY ListRows
<1> QED BY <1>1, AlongSame DEF HeldFor

LEMMA HeldChange ==
    ASSUME NEW os, OrderList(os), NEW ns, OrderList(ns), DOMAIN ns = DOMAIN os, NEW a,
           NEW i \in DOMAIN os, \A j \in DOMAIN os \ {i} : ns[j] = os[j]
    PROVE  HeldFor(ns, a) = HeldFor(os, a) - OwedBy(os[i], a) + OwedBy(ns[i], a)
<1>1. SumAlong(ns, Owing(a)) = SumAlong(os, Owing(a)) - Owing(a)[os[i]] + Owing(a)[ns[i]]
  BY ListRows, OwedInt, AlongChange, SMTT(60)
<1> QED BY <1>1, ListRows DEF HeldFor

LEMMA HeldChangeTwo ==
    ASSUME NEW os, OrderList(os), NEW ns, OrderList(ns), DOMAIN ns = DOMAIN os, NEW a,
           NEW i \in DOMAIN os, NEW l \in DOMAIN os, i # l,
           \A j \in DOMAIN os \ {i, l} : ns[j] = os[j]
    PROVE  HeldFor(ns, a) = HeldFor(os, a) - OwedBy(os[i], a) - OwedBy(os[l], a)
                                           + OwedBy(ns[i], a) + OwedBy(ns[l], a)
<1>1. SumAlong(ns, Owing(a)) = SumAlong(os, Owing(a)) - Owing(a)[os[i]] - Owing(a)[os[l]]
                                 + Owing(a)[ns[i]] + Owing(a)[ns[l]]
  BY ListRows, OwedInt, AlongChangeTwo, SMTT(60)
<1> QED BY <1>1, ListRows DEF HeldFor

\* More orders; those that were there are as they were.
Extends(ns, os) == DOMAIN os \subseteq DOMAIN ns /\ \A i \in DOMAIN os : ns[i] = os[i]

LEMMA HeldFree ==
    ASSUME NEW os, OrderList(os), NEW ns, OrderList(ns), Extends(ns, os), NEW a,
           \A i \in DOMAIN ns \ DOMAIN os : OwedBy(ns[i], a) = 0
    PROVE  HeldFor(ns, a) = HeldFor(os, a)
<1>1. \A i \in DOMAIN ns \ DOMAIN os : Owing(a)[ns[i]] = 0
  BY ListRows
<1>2. DOMAIN os \subseteq DOMAIN ns /\ \A i \in DOMAIN os : ns[i] = os[i]
  BY DEF Extends
<1>3. os \in Seq(OrderRow) /\ ns \in Seq(OrderRow)
  BY ListRows
<1> QED BY <1>1, <1>2, <1>3, OwedInt, AlongFree DEF HeldFor

LEMMA HeldAppend ==
    ASSUME NEW os, OrderList(os), NEW o \in OrderRow, GoodOrder(o), NEW a
    PROVE  HeldFor(Append(os, o), a) = HeldFor(os, a) + OwedBy(o, a)
<1>1. SumAlong(Append(os, o), Owing(a)) = SumAlong(os, Owing(a)) + Owing(a)[o]
  BY ListRows, OwedInt, AlongAppend
<1>2. Owing(a)[o] = OwedBy(o, a)
  BY DEF Owing
<1> QED BY <1>1, <1>2 DEF HeldFor

LEMMA ListAppend ==
    ASSUME NEW os, OrderList(os), NEW o \in OrderRow, GoodOrder(o)
    PROVE  /\ OrderList(Append(os, o)) /\ Extends(Append(os, o), os)
           /\ \A i \in DOMAIN Append(os, o) \ DOMAIN os : Append(os, o)[i] = o
<1>1. os \in Seq(OrderRow) /\ \A i \in DOMAIN os : GoodOrder(os[i])
  BY DEF OrderList
<1>2. PICK n \in Nat : n = Len(os)
  BY <1>1
<1>3. /\ DOMAIN os = 1..n /\ DOMAIN Append(os, o) = 1..(n + 1)
      /\ Append(os, o)[n + 1] = o /\ \A j \in 1..n : Append(os, o)[j] = os[j]
      /\ Append(os, o) \in Seq(OrderRow)
  BY <1>1, <1>2
<1> QED BY <1>1, <1>3 DEF OrderList, Extends

LEMMA HeldIsTotal ==
    ASSUME OrderList(orders), NEW a
    PROVE  HeldFor(orders, a) =
             Total([i \in {i \in DOMAIN orders : orders[i].key[1] = a /\ Live(i)}
                      |-> orders[i].per * Unfilled(i)])
<1> DEFINE S == DOMAIN orders
           T == {i \in DOMAIN orders : orders[i].key[1] = a /\ Live(i)}
           f == [i \in T |-> orders[i].per * Unfilled(i)]
           h == [i \in S |-> Owing(a)[orders[i]]]
<1>1. IsFiniteSet(S) /\ T \in SUBSET S /\ DOMAIN f = T
  BY ListRows
<1>2. \A i \in S : h[i] = OwedBy(orders[i], a)
  BY ListRows
<1>3. \A i \in S : h[i] = IF i \in T THEN f[i] ELSE 0
  BY <1>2 DEF OwedBy, IsLive, Live, Unfilled
<1>4. \A i \in S : h[i] \in Int
  BY <1>2, ListRows, OwedNat
<1>5. \A i \in T : f[i] \in Int
  <2> TAKE i \in T
  <2>1. h[i] = f[i] /\ i \in S
    BY <1>3
  <2> QED BY <1>4, <2>1
<1>6. HeldFor(orders, a) = SumOver(h, S)
  BY DEF HeldFor, SumAlong
<1> HIDE DEF S, T, f, h
<1>7. Total(f) = SumOver(h, S)
  BY <1>1, <1>3, <1>5, TotalOfPart
<1> QED BY <1>6, <1>7 DEF f, T

----------------------------------------------------------------------------
\* ----- orders and events
\* The invariant about orders and the events that wait.
OrdersOK(os, es) ==
    /\ OrderList(os)
    /\ EventsInv(os, es)
    /\ \A i \in DOMAIN os : QueueOf(os[i], PendingIn(es, i))

Fresh(o) == o.status = "OPEN" /\ o.filled = 0 /\ o.left = o.qty

LEMMA OrdersGrow ==
    ASSUME NEW os, NEW es, OrdersOK(os, es), NEW ns, OrderList(ns), Extends(ns, os),
           \A i \in DOMAIN ns \ DOMAIN os : Fresh(ns[i])
    PROVE  OrdersOK(ns, es)
<1>1. es \in Seq(EventRow(os)) /\ DOMAIN os \subseteq DOMAIN ns
  BY DEF OrdersOK, EventsInv, Extends
<1>2. es \in Seq(EventRow(ns))
  <2>1. EventRow(os) \subseteq EventRow(ns)
    BY <1>1 DEF EventRow
  <2> QED BY <1>1, <2>1
<1>3. ASSUME NEW j \in DOMAIN es
      PROVE  /\ ns[es[j].buy] = os[es[j].buy] /\ ns[es[j].sell] = os[es[j].sell]
             /\ es[j].buy \in DOMAIN os /\ es[j].sell \in DOMAIN os
  <2>1. es[j] \in EventRow(os)
    BY <1>1
  <2>2. es[j].buy \in DOMAIN os /\ es[j].sell \in DOMAIN os
    BY <2>1 DEF EventRow
  <2> QED BY <2>2 DEF Extends
<1>4. EventsInv(ns, es)
  <2>1. \A j \in DOMAIN es : es[j].kind = "trade" => GoodTrade(ns, es[j])
    BY <1>3 DEF OrdersOK, EventsInv, GoodTrade
  <2> QED BY <1>2, <1>3, <2>1 DEF OrdersOK, EventsInv
<1>5. ASSUME NEW i \in DOMAIN ns PROVE QueueOf(ns[i], PendingIn(es, i))
  <2>1. CASE i \in DOMAIN os
    BY <2>1 DEF Extends, OrdersOK
  <2>2. CASE i \notin DOMAIN os
    <3>1. \A j \in DOMAIN es : ~Mentions(es[j], i)
      BY <1>3, <2>2 DEF Mentions
    <3>2. PendingIn(es, i) = 0
      BY <1>1, <3>1, PendingZero
    <3>3. Fresh(ns[i]) /\ ns[i] \in OrderRow
      BY <2>2 DEF OrderList
    <3> QED BY <3>2, <3>3 DEF QueueOf, Fresh, IsLive, OrderRow
  <2> QED BY <2>1, <2>2
<1> QED BY <1>4, <1>5 DEF OrdersOK

\* The engine takes from what it has of some orders, and says so.
LEMMA OrdersTaken ==
    ASSUME NEW os, NEW es, OrdersOK(os, es), NEW ns \in Seq(OrderRow), DOMAIN ns = DOMAIN os,
           \A i \in DOMAIN os : ns[i] = [os[i] EXCEPT !.left = ns[i].left] /\ ns[i].left \in Nat,
           NEW e \in EventRow(os), e.kind = "trade" => GoodTrade(os, e),
           e.kind = "closed" => e.buy = e.sell /\ ns[e.buy].left = 0,
           os[e.buy].left > 0, os[e.sell].left > 0,
           \A i \in DOMAIN os : ns[i].left + Demand(e, i) <= os[i].left
    PROVE  OrdersOK(ns, Append(es, e))
<1> DEFINE fs == Append(es, e)
<1>0. os \in Seq(OrderRow) /\ es \in Seq(EventRow(os))
  BY DEF OrdersOK, OrderList, EventsInv
<1>1. ASSUME NEW i \in DOMAIN os
      PROVE  /\ ns[i] \in OrderRow /\ GoodOrder(ns[i])
             /\ IsLive(ns[i]) = IsLive(os[i])
             /\ ns[i].key = os[i].key /\ ns[i].side = os[i].side /\ ns[i].limit = os[i].limit
             /\ ns[i].qty = os[i].qty /\ ns[i].filled = os[i].filled
             /\ os[i] \in OrderRow
  <2>1. os[i] \in OrderRow /\ GoodOrder(os[i])
    BY DEF OrdersOK, OrderList
  <2>2. PICK l \in Nat : ns[i] = [os[i] EXCEPT !.left = l]
    OBVIOUS
  <2> QED BY <2>1, <2>2 DEF OrderRow, GoodOrder, IsLive
<1>2. OrderList(ns)
  BY <1>1 DEF OrderList
<1>3. EventRow(ns) = EventRow(os) /\ e \in EventRow(os)
  BY DEF EventRow
<1>4. /\ Len(es) \in Nat /\ DOMAIN es = 1..Len(es) /\ DOMAIN fs = 1..(Len(es) + 1)
      /\ fs[Len(es) + 1] = e /\ \A j \in DOMAIN es : fs[j] = es[j]
      /\ fs \in Seq(EventRow(ns))
  BY <1>0, <1>3
<1>5. ASSUME NEW j \in DOMAIN es
      PROVE  es[j] \in EventRow(os) /\ es[j].buy \in DOMAIN os /\ es[j].sell \in DOMAIN os
  <2>1. es[j] \in EventRow(os)
    BY <1>0
  <2> QED BY <2>1 DEF EventRow
<1>6. e.buy \in DOMAIN os /\ e.sell \in DOMAIN os
  BY DEF EventRow
<1>7. EventsInv(ns, fs)
  <2>1. ASSUME NEW j \in DOMAIN fs, fs[j].kind = "trade" PROVE GoodTrade(ns, fs[j])
    <3>1. CASE j \in DOMAIN es
      <4>1. GoodTrade(os, es[j])
        BY <1>4, <2>1, <3>1 DEF OrdersOK, EventsInv
      <4> QED BY <1>1, <1>4, <1>5, <3>1, <4>1 DEF GoodTrade
    <3>2. CASE j \notin DOMAIN es
      <4>1. fs[j] = e
        BY <1>4, <3>2
      <4> QED BY <1>1, <1>6, <2>1, <4>1 DEF GoodTrade
    <3> QED BY <3>1, <3>2
  <2>2. ASSUME NEW j \in DOMAIN fs, fs[j].kind = "closed"
        PROVE  /\ fs[j].buy = fs[j].sell
               /\ ns[fs[j].buy].left = 0
               /\ \A l \in DOMAIN fs : l > j => ~Mentions(fs[l], fs[j].buy)
    <3>1. CASE j \in DOMAIN es
      <4>1. /\ es[j].buy = es[j].sell /\ os[es[j].buy].left = 0 /\ fs[j] = es[j]
            /\ \A l \in DOMAIN es : l > j => ~Mentions(es[l], es[j].buy)
        BY <1>4, <2>2, <3>1 DEF OrdersOK, EventsInv
      <4>2. es[j].buy \in DOMAIN os /\ Demand(e, es[j].buy) \in Nat
        BY <1>5, <3>1, DemandNat
      <4>3. ns[es[j].buy].left \in Nat /\ ns[es[j].buy].left + Demand(e, es[j].buy) <= 0
        BY <4>1, <4>2
      <4>4. ns[es[j].buy].left = 0
        BY <4>2, <4>3
      <4>5. ~Mentions(e, es[j].buy)
        BY <4>1 DEF Mentions
      <4> QED BY <1>4, <4>1, <4>4, <4>5
    <3>2. CASE j \notin DOMAIN es
      <4>1. fs[j] = e /\ j = Len(es) + 1
        BY <1>4, <3>2
      <4>2. \A l \in DOMAIN fs : ~(l > j)
        BY <1>4, <4>1
      <4> QED BY <2>2, <4>1, <4>2
    <3> QED BY <3>1, <3>2
  <2> QED BY <1>4, <2>1, <2>2 DEF EventsInv
<1>8. ASSUME NEW i \in DOMAIN ns PROVE QueueOf(ns[i], PendingIn(fs, i))
  <2>1. PendingIn(fs, i) = PendingIn(es, i) + Demand(e, i) /\ PendingIn(es, i) \in Nat
        /\ Demand(e, i) \in Nat
    BY <1>0, PendingAppend, PendingNat, DemandNat
  <2>2. QueueOf(os[i], PendingIn(es, i))
    BY DEF OrdersOK
  <2>3. os[i].left \in Nat /\ ns[i].left \in Nat /\ os[i].qty \in Nat /\ os[i].filled \in Nat
    BY <1>1 DEF OrderRow
  <2> QED BY <1>1, <2>1, <2>2, <2>3, SMTT(60) DEF QueueOf
<1> QED BY <1>2, <1>7, <1>8 DEF OrdersOK

LEMMA TailEvents ==
    ASSUME NEW os, NEW es, OrdersOK(os, es), es # <<>>, NEW ns, OrderList(ns),
           DOMAIN ns = DOMAIN os,
           \A i \in DOMAIN os : /\ ns[i].key = os[i].key /\ ns[i].side = os[i].side
                                /\ ns[i].limit = os[i].limit /\ ns[i].left = os[i].left,
           \A i \in DOMAIN os : QueueOf(ns[i], PendingIn(Tail(es), i))
    PROVE  OrdersOK(ns, Tail(es))
<1>0. es \in Seq(EventRow(os)) /\ EventRow(ns) = EventRow(os)
  BY DEF OrdersOK, EventsInv, EventRow
<1>1. /\ Len(es) \in Nat /\ DOMAIN es = 1..Len(es) /\ Tail(es) \in Seq(EventRow(ns))
      /\ \A j \in DOMAIN Tail(es) : j + 1 \in DOMAIN es /\ Tail(es)[j] = es[j + 1] /\ j \in Nat
  BY <1>0
<1>2. ASSUME NEW j \in DOMAIN es PROVE es[j].buy \in DOMAIN os /\ es[j].sell \in DOMAIN os
  <2>1. es[j] \in EventRow(os)
    BY <1>0
  <2> QED BY <2>1 DEF EventRow
<1>3. ASSUME NEW j \in DOMAIN Tail(es), Tail(es)[j].kind = "trade" PROVE GoodTrade(ns, Tail(es)[j])
  <2>1. GoodTrade(os, es[j + 1]) /\ Tail(es)[j] = es[j + 1] /\ j + 1 \in DOMAIN es
    BY <1>1, <1>3 DEF OrdersOK, EventsInv
  <2>2. es[j + 1].buy \in DOMAIN os /\ es[j + 1].sell \in DOMAIN os
    BY <1>2, <2>1
  <2> QED BY <2>1, <2>2 DEF GoodTrade
<1>4. ASSUME NEW j \in DOMAIN Tail(es), Tail(es)[j].kind = "closed"
      PROVE  /\ Tail(es)[j].buy = Tail(es)[j].sell
             /\ ns[Tail(es)[j].buy].left = 0
             /\ \A l \in DOMAIN Tail(es) : l > j => ~Mentions(Tail(es)[l], Tail(es)[j].buy)
  <2>1. j + 1 \in DOMAIN es /\ Tail(es)[j] = es[j + 1]
    BY <1>1
  <2>2. /\ es[j + 1].buy = es[j + 1].sell /\ os[es[j + 1].buy].left = 0
        /\ \A l \in DOMAIN es : l > j + 1 => ~Mentions(es[l], es[j + 1].buy)
    BY <1>4, <2>1 DEF OrdersOK, EventsInv
  <2>3. ASSUME NEW l \in DOMAIN Tail(es), l > j PROVE ~Mentions(Tail(es)[l], es[j + 1].buy)
    <3>1. l + 1 \in DOMAIN es /\ Tail(es)[l] = es[l + 1] /\ l + 1 > j + 1
      BY <1>1, <2>3
    <3> QED BY <2>2, <3>1
  <2>4. es[j + 1].buy \in DOMAIN os
    BY <1>2, <2>1
  <2> QED BY <2>1, <2>2, <2>3, <2>4
<1>5. EventsInv(ns, Tail(es))
  BY <1>1, <1>3, <1>4 DEF EventsInv
<1> QED BY <1>5 DEF OrdersOK

LEMMA HeadFacts ==
    ASSUME NEW os, NEW es, OrdersOK(os, es), es # <<>>
    PROVE  /\ Head(es) \in EventRow(os)
           /\ Head(es).kind = "trade" => GoodTrade(os, Head(es))
           /\ Head(es).kind = "closed" => /\ Head(es).buy = Head(es).sell
                                          /\ os[Head(es).buy].left = 0
                                          /\ PendingIn(Tail(es), Head(es).buy) = 0
           /\ \A i \in DOMAIN os : /\ PendingIn(Tail(es), i) \in Nat
                                   /\ Demand(Head(es), i) \in Nat
                                   /\ PendingIn(es, i) = Demand(Head(es), i) + PendingIn(Tail(es), i)
           /\ \A i \in {Head(es).buy, Head(es).sell} : /\ i \in DOMAIN os /\ os[i] \in OrderRow
                                                       /\ GoodOrder(os[i])
                                                       /\ IsLive(os[i])
                                                       /\ Demand(Head(es), i) + PendingIn(Tail(es), i) + os[i].left
                                                            <= os[i].qty - os[i].filled
<1>1. es \in Seq(EventRow(os)) /\ Tail(es) \in Seq(EventRow(os)) /\ 1 \in DOMAIN es /\ es[1] = Head(es)
  BY DEF OrdersOK, EventsInv
<1>2. Head(es) \in EventRow(os)
  BY <1>1
<1>3. Head(es).kind = "trade" => GoodTrade(os, Head(es))
  BY <1>1 DEF OrdersOK, EventsInv
<1>4. ASSUME Head(es).kind = "closed"
      PROVE  /\ Head(es).buy = Head(es).sell
             /\ os[Head(es).buy].left = 0
             /\ PendingIn(Tail(es), Head(es).buy) = 0
  <2>1. /\ Head(es).buy = Head(es).sell /\ os[Head(es).buy].left = 0
        /\ \A l \in DOMAIN es : l > 1 => ~Mentions(es[l], Head(es).buy)
    BY <1>1, <1>4 DEF OrdersOK, EventsInv
  <2>2. \A l \in DOMAIN Tail(es) : l + 1 \in DOMAIN es /\ Tail(es)[l] = es[l + 1] /\ l + 1 > 1
    BY <1>1
  <2>3. \A l \in DOMAIN Tail(es) : ~Mentions(Tail(es)[l], Head(es).buy)
    BY <2>1, <2>2
  <2> QED BY <1>1, <2>1, <2>3, PendingZero
<1>5. ASSUME NEW i \in DOMAIN os
      PROVE  /\ PendingIn(Tail(es), i) \in Nat
             /\ Demand(Head(es), i) \in Nat
             /\ PendingIn(es, i) = Demand(Head(es), i) + PendingIn(Tail(es), i)
  BY <1>1, <1>2, PendingNat, DemandNat, PendingTail
<1>6. ASSUME NEW i \in {Head(es).buy, Head(es).sell}
      PROVE  /\ i \in DOMAIN os /\ os[i] \in OrderRow /\ GoodOrder(os[i]) /\ IsLive(os[i])
             /\ Demand(Head(es), i) + PendingIn(Tail(es), i) + os[i].left <= os[i].qty - os[i].filled
  <2>1. i \in DOMAIN os
    BY <1>2 DEF EventRow
  <2>2. Demand(Head(es), i) > 0
    BY <1>2, <1>3 DEF Demand, EventRow, GoodTrade
  <2>3. QueueOf(os[i], PendingIn(es, i)) /\ os[i] \in OrderRow /\ GoodOrder(os[i])
    BY <2>1 DEF OrdersOK, OrderList
  <2>4. PendingIn(es, i) # 0
    BY <1>5, <2>1, <2>2
  <2> QED BY <1>5, <2>1, <2>3, <2>4 DEF QueueOf
<1> QED BY <1>2, <1>3, <1>4, <1>5, <1>6

LEMMA FilledRow ==
    ASSUME NEW o \in OrderRow, GoodOrder(o), IsLive(o), NEW n \in Nat \ {0}, NEW rest \in Nat,
           n + rest + o.left <= o.qty - o.filled
    PROVE  /\ Filled(o, n) \in OrderRow /\ GoodOrder(Filled(o, n))
           /\ QueueOf(Filled(o, n), rest)
           /\ Filled(o, n).key = o.key /\ Filled(o, n).side = o.side
           /\ Filled(o, n).limit = o.limit /\ Filled(o, n).left = o.left
           /\ Filled(o, n).per = o.per /\ Filled(o, n).forced = o.forced
           /\ \A a : OwedBy(Filled(o, n), a) = OwedBy(o, a) - (IF o.key[1] = a THEN o.per * n ELSE 0)
           /\ Filled(o, n).qty = o.qty /\ Filled(o, n).filled = o.filled + n
           /\ IsLive(Filled(o, n)) <=> o.filled + n < o.qty
<1> DEFINE g == Filled(o, n)
<1>1. /\ o.qty \in Nat /\ o.filled \in Nat /\ o.left \in Nat /\ o.per \in Nat
  BY DEF OrderRow
<1>2. /\ g.key = o.key /\ g.side = o.side /\ g.limit = o.limit /\ g.left = o.left
      /\ g.per = o.per /\ g.qty = o.qty /\ g.filled = o.filled + n /\ g.forced = o.forced
      /\ g.status = IF o.filled + n >= o.qty THEN "FILLED" ELSE "PARTIAL"
      /\ g \in OrderRow
  <2>1. PICK x \in Nat, st \in {"FILLED", "PARTIAL"} :
          x = o.filled + n /\ st = IF o.filled + n >= o.qty THEN "FILLED" ELSE "PARTIAL"
    BY <1>1
  <2>2. g = [o EXCEPT !.filled = x, !.status = st]
    BY <2>1 DEF Filled
  <2> HIDE DEF g
  <2> QED BY <2>1, <2>2 DEF OrderRow
<1>3. GoodOrder(g)
  BY <1>1, <1>2 DEF GoodOrder
<1>4. QueueOf(g, rest)
  BY <1>1, <1>2 DEF QueueOf, IsLive
<1>5. ASSUME NEW a PROVE OwedBy(g, a) = OwedBy(o, a) - (IF o.key[1] = a THEN o.per * n ELSE 0)
  <2>1. o.per * (o.qty - o.filled) = o.per * (g.qty - g.filled) + o.per * n
    BY <1>1, <1>2
  <2>2. ~IsLive(g) => g.qty - g.filled = 0
    BY <1>1, <1>2 DEF IsLive
  <2>3. o.per * (g.qty - g.filled) \in Int /\ o.per * n \in Int /\ (g.qty - g.filled = 0 => o.per * (g.qty - g.filled) = 0)
    BY <1>1, <1>2
  <2> HIDE DEF g
  <2> QED BY <1>2, <2>1, <2>2, <2>3 DEF OwedBy
<1>6. IsLive(g) <=> o.filled + n < o.qty
  BY <1>1, <1>2 DEF IsLive
<1> QED BY <1>2, <1>3, <1>4, <1>5, <1>6

----------------------------------------------------------------------------
(***************************************************************************)
(* Legs of a trade, and sums over positions and accounts                   *)
(***************************************************************************)
LEMMA AddCashFacts ==
    ASSUME NEW c \in CashRow, c.hold <= c.balance, NEW amount \in Int
    PROVE  LET r == AddCash(c, amount) IN
           /\ r \in CashRow /\ r.hold = c.hold /\ r.hold <= r.balance
           /\ r.balance - r.debt = c.balance - c.debt + amount
<1> DEFINE r == AddCash(c, amount)
<1>1. c.balance \in Nat /\ c.hold \in Nat /\ c.debt \in Nat
  BY DEF CashRow
<1>2. CASE amount >= 0
  <2>1. PICK repay \in Nat : /\ repay = Smaller(amount, c.debt)
                             /\ repay <= amount /\ repay <= c.debt
    BY <1>1, <1>2 DEF Smaller
  <2>2. PICK x \in Nat, y \in Nat : x = c.balance + amount - repay /\ y = c.debt - repay
    BY <1>1, <1>2, <2>1
  <2>3. r = [c EXCEPT !.balance = x, !.debt = y]
    BY <1>2, <2>1, <2>2 DEF AddCash
  <2> HIDE DEF r
  <2>4. r \in CashRow /\ r.hold = c.hold /\ r.balance = x /\ r.debt = y
    BY <2>3 DEF CashRow
  <2> QED BY <1>1, <1>2, <2>1, <2>2, <2>4 DEF r
<1>3. CASE ~(amount >= 0)
  <2>1. PICK paid \in Nat : /\ paid = Smaller(-amount, Larger(0, c.balance - c.hold))
                            /\ paid <= -amount /\ paid <= c.balance - c.hold
    BY <1>1, <1>3 DEF Smaller, Larger
  <2>2. PICK x \in Nat, y \in Nat : x = c.balance - paid /\ y = c.debt - amount - paid
    BY <1>1, <1>3, <2>1
  <2>3. r = [c EXCEPT !.balance = x, !.debt = y]
    BY <1>3, <2>1, <2>2 DEF AddCash
  <2> HIDE DEF r
  <2>4. r \in CashRow /\ r.hold = c.hold /\ r.balance = x /\ r.debt = y
    BY <2>3 DEF CashRow
  <2> QED BY <1>1, <1>3, <2>1, <2>2, <2>4 DEF r
<1> QED BY <1>2, <1>3

\* What a leg of a trade does to a row of an account.
FillEffect(k, p, side, price, n, leg) ==
    /\ SidedRow(k, leg.pos)
    /\ leg.realized \in Int /\ leg.overflow \in Nat
    /\ leg.overflow = 0 =>
          /\ leg.pos.qty = p.qty + Signed(side, n)
          /\ leg.realized =
                Unit(k[2]) * (SignedEntry(leg.pos) - SignedEntry(p) - Signed(side, n) * price)
    /\ k[3] = "NET" => leg.overflow = 0
    /\ k[3] # "NET" =>
          /\ IsOpening(side, k[3]) \/ n <= Abs(p.qty) => leg.overflow = 0
          /\ Abs(leg.pos.qty) = IF IsOpening(side, k[3]) THEN Abs(p.qty) + n
                                ELSE IF n <= Abs(p.qty) THEN Abs(p.qty) - n ELSE 0

LEMMA LegFacts ==
    ASSUME NEW k \in Keys, NEW p, SidedRow(k, p), NEW side \in {"BUY", "SELL"},
           NEW price \in Nat, NEW n \in Nat \ {0}
    PROVE  FillEffect(k, p, side, price, n, ApplyLeg(k, p, side, price, n))
<1>1. GoodRow(p) /\ p.qty \in Int
  BY DEF SidedRow, GoodRow, Row
<1>2. CASE k[3] = "NET"
  <2>1. PICK s, leg : s = k[2] /\ leg = ApplyFill(s, p, side, price, n)
    OBVIOUS
  <2>2. /\ GoodRow(leg.pos) /\ leg.pos.qty = p.qty + Signed(side, n) /\ leg.realized \in Int
        /\ leg.realized = Unit(s) * (SignedEntry(leg.pos) - SignedEntry(p) - Signed(side, n) * price)
        /\ leg.overflow = 0
    <3>1. LegIs(s, p, side, price, n, leg)
      BY <1>1, <2>1, ApplyFillFacts
    <3> QED BY <3>1 DEF LegIs
  <2>3. ApplyLeg(k, p, side, price, n) = leg
    BY <1>2, <2>1 DEF ApplyLeg
  <2> QED BY <1>2, <2>1, <2>2, <2>3 DEF FillEffect, SidedRow
<1>3. CASE k[3] # "NET"
  <2>1. k[2] = Future /\ k[3] \in {"LONG", "SHORT"}
    BY <1>3, KeyFacts
  <2>2. PICK m \in Nat : /\ m = HedgeQty(k, p, side, n) /\ m <= n
                         /\ IsOpening(side, k[3]) => m = n
                         /\ ~IsOpening(side, k[3]) => m = IF n <= Abs(p.qty) THEN n ELSE Abs(p.qty)
    BY <1>1, AbsNat DEF HedgeQty, Smaller
  <2>3. CASE m = 0
    <3>1. PICK leg : leg = ApplyHedgeFill(k, p, side, price, n)
      OBVIOUS
    <3>2. leg.pos = p /\ leg.realized = 0 /\ leg.overflow = n
      BY <2>2, <2>3, <3>1 DEF ApplyHedgeFill
    <3>3. ~IsOpening(side, k[3]) /\ Abs(p.qty) = 0
      BY <2>2, <2>3
    <3>4. ApplyLeg(k, p, side, price, n) = leg
      BY <1>3, <3>1 DEF ApplyLeg
    <3> QED BY <1>3, <3>2, <3>3, <3>4 DEF FillEffect
  <2>4. CASE m # 0
    <3>1. PICK s, fill : s = Future /\ fill = ApplyFill(s, p, side, price, m)
      OBVIOUS
    <3>2. /\ GoodRow(fill.pos) /\ fill.pos.qty = p.qty + Signed(side, m) /\ fill.realized \in Int
          /\ fill.realized = Unit(s) * (SignedEntry(fill.pos) - SignedEntry(p) - Signed(side, m) * price)
          /\ fill.overflow = 0
      <4>1. LegIs(s, p, side, price, m, fill)
        BY <1>1, <2>2, <2>4, <3>1, ApplyFillFacts
      <4> QED BY <4>1 DEF LegIs
    <3>3. PICK leg : leg = ApplyHedgeFill(k, p, side, price, n)
      OBVIOUS
    <3>4. leg = [fill EXCEPT !.overflow = n - m]
      BY <2>2, <2>4, <3>1, <3>3 DEF ApplyHedgeFill
    <3>5. leg.pos = fill.pos /\ leg.realized = fill.realized /\ leg.overflow = n - m
      BY <3>1, <3>4 DEF ApplyFill
    <3>6. ApplyLeg(k, p, side, price, n) = leg
      BY <1>3, <3>3 DEF ApplyLeg
    <3>7. SidedRow(k, leg.pos)
      <4>1. p.qty \in Int /\ (k[3] = "LONG" => p.qty >= 0) /\ (k[3] = "SHORT" => p.qty <= 0)
        BY <1>1 DEF SidedRow
      <4>2. PICK q \in Int : q = leg.pos.qty /\ q = p.qty + Signed(side, m)
        BY <4>1, <3>2, <3>5 DEF Signed
      <4>3. (k[3] = "LONG" => q >= 0) /\ (k[3] = "SHORT" => q <= 0)
        BY <2>1, <2>2, <4>1, <4>2 DEF IsOpening, Signed, Abs
      <4> QED BY <3>2, <3>5, <4>2, <4>3 DEF SidedRow
    <3>8. leg.overflow \in Nat /\ (leg.overflow = 0 => m = n)
      BY <2>2, <3>5
    <3>9. /\ IsOpening(side, k[3]) \/ n <= Abs(p.qty) => leg.overflow = 0
          /\ Abs(leg.pos.qty) = IF IsOpening(side, k[3]) THEN Abs(p.qty) + n
                                ELSE IF n <= Abs(p.qty) THEN Abs(p.qty) - n ELSE 0
      <4>1. p.qty \in Int /\ (k[3] = "LONG" => p.qty >= 0) /\ (k[3] = "SHORT" => p.qty <= 0)
        BY <1>1 DEF SidedRow
      <4>2. PICK q \in Int : q = leg.pos.qty /\ q = p.qty + Signed(side, m)
        BY <4>1, <3>2, <3>5 DEF Signed
      <4>3. Abs(q) = IF IsOpening(side, k[3]) THEN Abs(p.qty) + n
                     ELSE IF n <= Abs(p.qty) THEN Abs(p.qty) - n ELSE 0
        BY <2>1, <2>2, <4>1, <4>2 DEF IsOpening, Signed, Abs
      <4>4. IsOpening(side, k[3]) \/ n <= Abs(p.qty) => leg.overflow = 0
        BY <2>2, <3>5
      <4> QED BY <4>2, <4>3, <4>4
    <3>10. leg.overflow = 0 =>
             /\ leg.pos.qty = p.qty + Signed(side, n)
             /\ leg.realized =
                  Unit(k[2]) * (SignedEntry(leg.pos) - SignedEntry(p) - Signed(side, n) * price)
      BY <2>1, <3>1, <3>2, <3>5, <3>8
    <3> QED BY <1>3, <3>2, <3>5, <3>6, <3>7, <3>8, <3>9, <3>10 DEF FillEffect
  <2> QED BY <2>3, <2>4
<1> QED BY <1>2, <1>3

----------------------------------------------------------------------------
\* ----- sums over positions
\* What all positions in a symbol come to.
NetQtyOf(ps, s) == SumOver([k \in Keys |-> IF k[2] = s THEN ps[k].qty ELSE 0], Keys)
NetEntryOf(ps) == SumOver([k \in Keys |-> IF k[2] = Future THEN SignedEntry(ps[k]) ELSE 0], Keys)

Positions(ps) == ps \in [Keys -> Row] /\ \A k \in Keys : SidedRow(k, ps[k])

LEMMA RowNumbers ==
    ASSUME NEW p \in Row PROVE p.qty \in Int /\ p.entry \in Nat /\ SignedEntry(p) \in Int
  BY DEF Row, SignedEntry

LEMMA NetTypes ==
    ASSUME NEW ps \in [Keys -> Row], NEW s
    PROVE  NetQtyOf(ps, s) \in Int /\ NetEntryOf(ps) \in Int
<1> DEFINE f == [k \in Keys |-> IF k[2] = s THEN ps[k].qty ELSE 0]
           g == [k \in Keys |-> IF k[2] = Future THEN SignedEntry(ps[k]) ELSE 0]
<1>1. \A k \in Keys : f[k] \in Int /\ g[k] \in Int
  BY RowNumbers
<1> HIDE DEF f, g
<1>2. SumOver(f, Keys) \in Int /\ SumOver(g, Keys) \in Int
  BY <1>1, KeyFacts, SumType
<1> QED BY <1>2 DEF NetQtyOf, NetEntryOf, f, g

\* What a change of one position does to the sums.
NetMoved(ps, qs, k) ==
    /\ \A s : NetQtyOf(qs, s) = NetQtyOf(ps, s) + (IF k[2] = s THEN qs[k].qty - ps[k].qty ELSE 0)
    /\ NetEntryOf(qs) = NetEntryOf(ps)
           + (IF k[2] = Future THEN SignedEntry(qs[k]) - SignedEntry(ps[k]) ELSE 0)

LEMMA NetMoves ==
    ASSUME NEW ps \in [Keys -> Row], NEW qs \in [Keys -> Row], NEW k \in Keys,
           \A l \in Keys \ {k} : qs[l] = ps[l]
    PROVE  NetMoved(ps, qs, k)
<1>0. PICK p \in Row : p = qs[k]
  OBVIOUS
<1>1. ASSUME NEW s
      PROVE  NetQtyOf(qs, s) = NetQtyOf(ps, s) + (IF k[2] = s THEN p.qty - ps[k].qty ELSE 0)
  <2> DEFINE f == [l \in Keys |-> IF l[2] = s THEN ps[l].qty ELSE 0]
             g == [l \in Keys |-> IF l[2] = s THEN qs[l].qty ELSE 0]
  <2>1. \A l \in Keys : f[l] \in Int /\ g[l] \in Int
    BY <1>0, RowNumbers
  <2>2. \A l \in Keys \ {k} : g[l] = f[l]
    BY <1>0
  <2>3. f[k] = (IF k[2] = s THEN ps[k].qty ELSE 0) /\ g[k] = (IF k[2] = s THEN p.qty ELSE 0)
    BY <1>0
  <2>4. NetQtyOf(ps, s) = SumOver(f, Keys) /\ NetQtyOf(qs, s) = SumOver(g, Keys)
    BY DEF NetQtyOf
  <2> HIDE DEF f, g
  <2>5. SumOver(g, Keys) = SumOver(f, Keys) - f[k] + g[k]
    BY <2>1, <2>2, KeyFacts, SumChange
  <2>6. SumOver(f, Keys) \in Int
    BY <2>1, KeyFacts, SumType
  <2>7. p.qty \in Int /\ ps[k].qty \in Int
    BY RowNumbers
  <2> QED BY <2>3, <2>4, <2>5, <2>6, <2>7
<1>2. NetEntryOf(qs) = NetEntryOf(ps)
                  + (IF k[2] = Future THEN SignedEntry(p) - SignedEntry(ps[k]) ELSE 0)
  <2> DEFINE f == [l \in Keys |-> IF l[2] = Future THEN SignedEntry(ps[l]) ELSE 0]
             g == [l \in Keys |-> IF l[2] = Future THEN SignedEntry(qs[l]) ELSE 0]
  <2>1. \A l \in Keys : f[l] \in Int /\ g[l] \in Int
    BY <1>0, RowNumbers
  <2>2. \A l \in Keys \ {k} : g[l] = f[l]
    BY <1>0
  <2>3. /\ f[k] = IF k[2] = Future THEN SignedEntry(ps[k]) ELSE 0
        /\ g[k] = IF k[2] = Future THEN SignedEntry(p) ELSE 0
    BY <1>0
  <2>4. NetEntryOf(ps) = SumOver(f, Keys) /\ NetEntryOf(qs) = SumOver(g, Keys)
    BY DEF NetEntryOf
  <2> HIDE DEF f, g
  <2>5. SumOver(g, Keys) = SumOver(f, Keys) - f[k] + g[k]
    BY <2>1, <2>2, KeyFacts, SumChange
  <2>6. SumOver(f, Keys) \in Int
    BY <2>1, KeyFacts, SumType
  <2>7. SignedEntry(p) \in Int /\ SignedEntry(ps[k]) \in Int
    BY RowNumbers
  <2> QED BY <2>3, <2>4, <2>5, <2>6, <2>7
<1> QED BY <1>0, <1>1, <1>2 DEF NetMoved

LEMMA NetSame ==
    ASSUME NEW ps \in [Keys -> Row], NEW qs \in [Keys -> Row],
           \A k \in Keys : qs[k].qty = ps[k].qty /\ qs[k].entry = ps[k].entry
    PROVE  (\A s : NetQtyOf(qs, s) = NetQtyOf(ps, s)) /\ NetEntryOf(qs) = NetEntryOf(ps)
<1>1. ASSUME NEW s PROVE NetQtyOf(qs, s) = NetQtyOf(ps, s)
  <2>1. [k \in Keys |-> IF k[2] = s THEN qs[k].qty ELSE 0]
          = [k \in Keys |-> IF k[2] = s THEN ps[k].qty ELSE 0]
    OBVIOUS
  <2> QED BY <2>1 DEF NetQtyOf
<1>2. NetEntryOf(qs) = NetEntryOf(ps)
  <2>1. [k \in Keys |-> IF k[2] = Future THEN SignedEntry(qs[k]) ELSE 0]
          = [k \in Keys |-> IF k[2] = Future THEN SignedEntry(ps[k]) ELSE 0]
    BY DEF SignedEntry
  <2> QED BY <2>1 DEF NetEntryOf
<1> QED BY <1>1, <1>2

LEMMA NetIsTotal ==
    ASSUME pos \in [Keys -> Row]
    PROVE  (\A s : NetQty(s) = NetQtyOf(pos, s)) /\ NetEntry = NetEntryOf(pos)
<1>1. ASSUME NEW s PROVE NetQty(s) = NetQtyOf(pos, s)
  <2> DEFINE T == {k \in Keys : k[2] = s}
             f == [k \in T |-> pos[k].qty]
             h == [k \in Keys |-> IF k[2] = s THEN pos[k].qty ELSE 0]
  <2>1. T \in SUBSET Keys /\ DOMAIN f = T /\ (\A k \in T : f[k] \in Int)
        /\ \A k \in Keys : h[k] = IF k \in T THEN f[k] ELSE 0
    BY RowNumbers
  <2>2. NetQty(s) = Total(f) /\ NetQtyOf(pos, s) = SumOver(h, Keys)
    BY DEF NetQty, NetQtyOf
  <2> HIDE DEF T, f, h
  <2> QED BY <2>1, <2>2, KeyFacts, TotalOfPart
<1>2. NetEntry = NetEntryOf(pos)
  <2> DEFINE T == {k \in Keys : k[2] = Future}
             f == [k \in T |-> IF pos[k].qty > 0 THEN pos[k].entry ELSE -pos[k].entry]
             h == [k \in Keys |-> IF k[2] = Future THEN SignedEntry(pos[k]) ELSE 0]
  <2>1. T \in SUBSET Keys /\ DOMAIN f = T /\ (\A k \in T : f[k] \in Int)
        /\ \A k \in Keys : h[k] = IF k \in T THEN f[k] ELSE 0
    BY RowNumbers DEF SignedEntry
  <2>2. NetEntry = Total(f) /\ NetEntryOf(pos) = SumOver(h, Keys)
    BY DEF NetEntry, NetEntryOf
  <2> HIDE DEF T, f, h
  <2> QED BY <2>1, <2>2, KeyFacts, TotalOfPart
<1> QED BY <1>1, <1>2

\* ----- sums over accounts
WorthOf(cs) == SumOver([a \in Accounts |-> cs[a].balance - cs[a].debt - Balances[a]], Accounts)

LEMMA WorthType ==
    ASSUME NEW cs \in [Accounts -> CashRow] PROVE WorthOf(cs) \in Int
<1> DEFINE f == [a \in Accounts |-> cs[a].balance - cs[a].debt - Balances[a]]
<1>1. \A a \in Accounts : f[a] \in Int
  <2> TAKE a \in Accounts
  <2>1. cs[a].balance \in Int /\ cs[a].debt \in Int /\ Balances[a] \in Int
    BY ConstantTypes DEF CashRow
  <2> QED BY <2>1
<1> HIDE DEF f
<1> QED BY <1>1, ConstantTypes, SumType DEF WorthOf, f

\* The money of the accounts changes by d.
Gained(cs, ds, d) ==
    \A a \in Accounts : /\ d[a] \in Int
                        /\ ds[a].balance - ds[a].debt = cs[a].balance - cs[a].debt + d[a]
WorthMoved(cs, ds, d, x, y) ==
    WorthOf(ds) = WorthOf(cs) + (IF x = y THEN d[x] ELSE d[x] + d[y])

LEMMA WorthMoves ==
    ASSUME NEW cs \in [Accounts -> CashRow], NEW ds \in [Accounts -> CashRow],
           NEW d, Gained(cs, ds, d), NEW x \in Accounts, NEW y \in Accounts,
           \A a \in Accounts \ {x, y} : d[a] = 0
    PROVE  WorthMoved(cs, ds, d, x, y)
<1> DEFINE f == [a \in Accounts |-> cs[a].balance - cs[a].debt - Balances[a]]
           g == [a \in Accounts |-> ds[a].balance - ds[a].debt - Balances[a]]
<1>1. \A a \in Accounts : f[a] \in Int /\ g[a] \in Int /\ d[a] \in Int /\ g[a] = f[a] + d[a]
  <2> TAKE a \in Accounts
  <2>1. /\ cs[a].balance \in Int /\ cs[a].debt \in Int /\ Balances[a] \in Int
        /\ ds[a].balance \in Int /\ ds[a].debt \in Int
    BY ConstantTypes DEF CashRow
  <2>2. /\ d[a] \in Int
        /\ ds[a].balance - ds[a].debt = cs[a].balance - cs[a].debt + d[a]
    BY DEF Gained
  <2> QED BY <2>1, <2>2
<1>2. WorthOf(cs) = SumOver(f, Accounts) /\ WorthOf(ds) = SumOver(g, Accounts)
  BY DEF WorthOf
<1> HIDE DEF f, g
<1>3. SumOver(f, Accounts) \in Int
  BY <1>1, ConstantTypes, SumType
<1>4. CASE x = y
  <2>1. \A a \in Accounts \ {x} : g[a] = f[a]
    BY <1>1, <1>4
  <2>2. SumOver(g, Accounts) = SumOver(f, Accounts) - f[x] + g[x]
    BY <1>1, <2>1, ConstantTypes, SumChange
  <2> QED BY <1>1, <1>2, <1>3, <1>4, <2>2 DEF WorthMoved
<1>5. CASE x # y
  <2>1. \A a \in Accounts \ {x, y} : g[a] = f[a]
    BY <1>1
  <2>2. SumOver(g, Accounts) = SumOver(f, Accounts) - f[x] - f[y] + g[x] + g[y]
    BY <1>1, <1>5, <2>1, ConstantTypes, SumChangeTwo
  <2> QED BY <1>1, <1>2, <1>3, <1>5, <2>2 DEF WorthMoved
<1> QED BY <1>4, <1>5

----------------------------------------------------------------------------
(***************************************************************************)
(* The inductive invariant; orders that are placed or matched              *)
(***************************************************************************)
\* A run of the daily settlement.
RunRow == [symbol : Symbols, prices : [Symbols -> Nat], todo : SUBSET Keys, closed : BOOLEAN]

DayTypes ==
    /\ phase \in {"trading", "maintenance", "after"}
    /\ DOMAIN done \subseteq Symbols /\ claimed \subseteq Keys
    /\ run = NoRun \/ run \in RunRow
    /\ overflow \in Nat
    /\ usedPrices \in [Symbols -> SUBSET Nat]
    /\ \A s \in Symbols : IsFiniteSet(usedPrices[s])

CallRow == [account : Accounts, state : {"open", "due", "closed"}]

\* What a tick has read, and how much of it is to be liquidated.
PosRows(a) == [FutureKeysOf(a) -> Row]
QtyRows(a) == UNION {[S -> Nat \ {0}] : S \in SUBSET FutureKeysOf(a)}

TickRow(a) ==
    [stage : {"idle", "read", "checked", "liquidate"}, pos : {<<>>} \cup PosRows(a),
     call : Nat, due : BOOLEAN, mark : Nat, cash : Int, qtys : {<<>>} \cup QtyRows(a),
     missed : BOOLEAN]

GoodTick(a, r) ==
    /\ r \in TickRow(a)
    /\ r.stage # "idle" => r.pos \in PosRows(a)
    /\ r.stage = "liquidate" =>
          r.qtys \in QtyRows(a) /\ \A k \in DOMAIN r.qtys : r.qtys[k] <= Abs(r.pos[k].qty)

TickOK ==
    /\ tick = [t \in Ticks |-> tick[t]]
    /\ \A t \in Ticks : GoodTick(t[2], tick[t])

RiskTypes ==
    /\ mark \in Marks
    /\ calls \in Seq(CallRow)
    /\ blind \subseteq Accounts
    /\ TickOK

\* The inductive invariant that the other invariants rest on.
DerivInd ==
    /\ OrdersOK(orders, events)
    /\ CashPart
    /\ Positions(pos)
    /\ RiskTypes
    /\ DayTypes

LEMMA SeqExcept ==
    ASSUME NEW T, NEW s \in Seq(T), NEW i \in DOMAIN s, NEW x \in T,
           NEW t, t = [s EXCEPT ![i] = x]
    PROVE  t \in Seq(T) /\ DOMAIN t = DOMAIN s /\ t[i] = x /\ \A j \in DOMAIN s \ {i} : t[j] = s[j]
<1>1. DOMAIN t = DOMAIN s /\ t[i] = x /\ \A j \in DOMAIN s \ {i} : t[j] = s[j]
  OBVIOUS
<1>2. PICK n \in Nat : DOMAIN s = 1..n
  OBVIOUS
<1>3. t \in [1..n -> T]
  <2>1. s \in [1..n -> T]
    BY <1>2
  <2> QED BY <1>2, <2>1
<1> QED BY <1>1, <1>3

LEMMA PricesNat == \A s : Prices(s) \subseteq Nat
  BY ConstantTypes DEF Prices

LEMMA EncumberedNat ==
    ASSUME Positions(pos), cash \in [Accounts -> CashRow], NEW a \in Accounts
    PROVE  Encumbered(a) \in Nat
<1> DEFINE f == [k \in KeysOf(a) |-> pos[k].margin]
<1>1. \A k \in KeysOf(a) : f[k] \in Nat
  BY DEF Positions, KeysOf, Row
<1>2. IsFiniteSet(KeysOf(a)) /\ DOMAIN f = KeysOf(a)
  <2>1. KeysOf(a) \subseteq Keys
    BY DEF KeysOf
  <2> QED BY <2>1, KeyFacts, FS_Subset
<1>3. Encumbered(a) = Total(f) + cash[a].debt
  BY DEF Encumbered
<1> HIDE DEF f
<1>4. Total(f) \in Nat
  BY <1>1, <1>2, SumNat DEF Total
<1>5. cash[a].debt \in Nat
  BY DEF CashRow
<1> QED BY <1>3, <1>4, <1>5

LEMMA HoldPerUnitInt ==
    ASSUME Positions(pos), NEW k \in Keys, NEW side, NEW n, NEW x \in Nat
    PROVE  /\ HoldPerUnit(k, side, n, x) \in Int
           /\ k[2] = Option /\ side = "BUY" => HoldPerUnit(k, side, n, x) = x * OptionUnit
<1>1. pos[k].leverage \in Leverages
  BY DEF Positions, Row
<1>2. PICK m \in Nat : m = FutureMarginPerContract(x, pos[k].leverage)
  BY <1>1, PerContractNat
<1>3. PICK w \in Nat : w = OptionWriterMargin
  BY WriterMarginNat
<1>4. PICK v \in Nat : v = x * OptionUnit
  BY ConstantTypes, MulNat
<1> QED BY <1>2, <1>3, <1>4, ConstantTypes DEF HoldPerUnit

\* An order that is new.
FreshOrder(o, k, side, n, per, forced) ==
    /\ o \in OrderRow /\ GoodOrder(o) /\ Fresh(o)
    /\ o.key = k /\ o.side = side /\ o.forced = forced /\ o.qty = n /\ IsLive(o)
    /\ \A a : OwedBy(o, a) = IF k[1] = a THEN per * n ELSE 0

LEMMA NewOrderFacts ==
    ASSUME NEW k \in Keys, NEW side \in {"BUY", "SELL"}, NEW n \in Nat \ {0}, NEW per \in Nat,
           NEW limit \in Nat, NEW forced \in BOOLEAN,
           k[2] = Option /\ side = "BUY" => per = limit * OptionUnit,
           NEW o, o = NewOrder(k, side, n, per, limit, forced)
    PROVE  FreshOrder(o, k, side, n, per, forced)
<1>1. o.key = k /\ o.side = side /\ o.qty = n /\ o.filled = 0 /\ o.left = n /\ o.per = per
      /\ o.limit = limit /\ o.status = "OPEN" /\ o.forced = forced
  BY DEF NewOrder
<1>2. o \in OrderRow
  BY DEF NewOrder, OrderRow
<1>3. o.qty - o.filled = n
  BY <1>1
<1> QED BY <1>1, <1>2, <1>3 DEF FreshOrder, GoodOrder, Fresh, OwedBy, IsLive

LEMMA RestSame ==
    ASSUME DerivInd, UNCHANGED <<pos, risk, daily, overflow>>
    PROVE  Positions(pos)' /\ RiskTypes' /\ DayTypes'
<1>1. UNCHANGED <<pos, mark, calls, tick, blind, phase, run, done, claimed, usedPrices, overflow>>
  BY DEF risk, daily
<1> QED BY <1>1 DEF DerivInd, Positions, RiskTypes, TickOK, DayTypes

LEMMA PlaceStep ==
    ASSUME DerivInd, NEW k \in Keys, NEW side \in {"BUY", "SELL"}, NEW n \in 1..MaxQty,
           NEW x \in Prices(k[2]), Place(k, side, n, x)
    PROVE  DerivInd'
<1>0. x \in Nat /\ n \in Nat \ {0} /\ k[1] \in Accounts /\ Positions(pos)
      /\ cash \in [Accounts -> CashRow] /\ OrderList(orders)
  BY PricesNat, ConstantTypes, KeyFacts DEF DerivInd, CashPart, OrdersOK
<1>1. PICK per \in Nat : per = HoldPerUnit(k, side, n, x)
  BY <1>0, HoldPerUnitInt DEF Place
<1>2. PICK o : o = NewOrder(k, side, n, per, x, FALSE)
  OBVIOUS
<1>3. /\ o \in OrderRow /\ GoodOrder(o) /\ Fresh(o)
      /\ \A a : OwedBy(o, a) = IF k[1] = a THEN per * n ELSE 0
  <2>1. k[2] = Option /\ side = "BUY" => per = x * OptionUnit
    BY <1>0, <1>1, HoldPerUnitInt
  <2>2. FreshOrder(o, k, side, n, per, FALSE)
    BY <1>0, <1>2, <2>1, NewOrderFacts
  <2> QED BY <2>2 DEF FreshOrder
<1>4. orders' = Append(orders, o) /\ UNCHANGED <<pos, events, risk, daily, overflow>>
  BY <1>1, <1>2 DEF Place
<1>5. OrdersOK(orders', events')
  <2>1. OrderList(orders') /\ Extends(orders', orders) /\ \A i \in DOMAIN orders' \ DOMAIN orders : Fresh(orders'[i])
    BY <1>0, <1>3, <1>4, ListAppend
  <2> QED BY <1>4, <2>1, OrdersGrow DEF DerivInd
<1>6. CashPart'
  <2>1. \A a \in Accounts : HeldFor(orders', a) = cash[a].hold + OwedBy(o, a)
    BY <1>0, <1>3, <1>4, HeldAppend DEF DerivInd, CashPart
  <2>2. PICK m \in Nat : m = per * n
    BY <1>0, MulNat
  <2>3. m # 0 => Available(k[1]) >= m
    <3>1. m # 0 => per > 0
      BY <1>0, <2>2
    <3> QED BY <1>1, <2>2, <3>1 DEF Place
  <2>4. \A a \in Accounts : /\ cash[a].hold \in Nat /\ cash[a].balance \in Nat /\ cash[a].debt \in Nat
                            /\ cash[a].hold <= cash[a].balance
    BY <1>0 DEF DerivInd, CashPart, CashRow
  <2>5. cash[k[1]].hold + m <= cash[k[1]].balance
    <3>1. PICK enc \in Nat : enc = Encumbered(k[1])
      BY <1>0, EncumberedNat
    <3> QED BY <1>0, <2>3, <2>4, <3>1 DEF Available
  <2>6. cash' = [cash EXCEPT ![k[1]].hold = cash[k[1]].hold + m]
    BY <1>1, <2>2 DEF Place
  <2>7. cash' \in [Accounts -> CashRow]
    <3>1. PICK h \in Nat : h = cash[k[1]].hold + m
      BY <1>0, <2>4
    <3>2. [cash[k[1]] EXCEPT !.hold = h] \in CashRow
      BY <1>0 DEF CashRow
    <3> QED BY <1>0, <2>6, <3>1, <3>2
  <2>8. ASSUME NEW a \in Accounts
        PROVE  cash'[a].hold = HeldFor(orders', a) /\ cash'[a].hold <= cash'[a].balance
    <3>1. cash[a] \in CashRow
      BY <1>0
    <3>2. cash'[a].hold = cash[a].hold + (IF a = k[1] THEN m ELSE 0) /\ cash'[a].balance = cash[a].balance
      BY <1>0, <2>4, <2>6, <3>1 DEF CashRow
    <3>3. HeldFor(orders', a) = cash[a].hold + (IF a = k[1] THEN m ELSE 0)
      BY <1>3, <2>1, <2>2
    <3> QED BY <2>4, <2>5, <3>2, <3>3
  <2> QED BY <2>7, <2>8 DEF CashPart
<1>7. Positions(pos)' /\ RiskTypes' /\ DayTypes'
  BY <1>4, RestSame
<1> QED BY <1>5, <1>6, <1>7 DEF DerivInd

LEMMA CashSame ==
    ASSUME DerivInd, cash' = cash, OrderList(orders'), DOMAIN orders' = DOMAIN orders,
           \A i \in DOMAIN orders : \A a : OwedBy(orders'[i], a) = OwedBy(orders[i], a)
    PROVE  CashPart'
<1>1. OrderList(orders) /\ CashPart
  BY DEF DerivInd, OrdersOK
<1>2. \A a \in Accounts : HeldFor(orders', a) = HeldFor(orders, a)
  BY <1>1, HeldSame
<1> QED BY <1>1, <1>2 DEF CashPart

LEMMA LeftRow ==
    ASSUME NEW o \in OrderRow, NEW l \in Nat, NEW u, u = [o EXCEPT !.left = l]
    PROVE  /\ u \in OrderRow /\ u.left = l /\ u = [o EXCEPT !.left = u.left]
           /\ \A a : OwedBy(u, a) = OwedBy(o, a)
           /\ u.key = o.key /\ u.side = o.side /\ u.qty = o.qty /\ u.filled = o.filled
           /\ u.status = o.status /\ u.forced = o.forced
<1>1. /\ u \in OrderRow /\ u.left = l /\ u = [o EXCEPT !.left = u.left]
      /\ u.key = o.key /\ u.side = o.side /\ u.qty = o.qty /\ u.filled = o.filled
      /\ u.status = o.status /\ u.forced = o.forced /\ u.per = o.per
  BY DEF OrderRow
<1> QED BY <1>1 DEF OwedBy, IsLive

\* What Match and EngineCloses have in common.
Took(ns) ==
    /\ ns \in Seq(OrderRow) /\ DOMAIN ns = DOMAIN orders
    /\ \A i \in DOMAIN orders : /\ ns[i] = [orders[i] EXCEPT !.left = ns[i].left]
                                /\ ns[i].left \in Nat
                                /\ \A a : OwedBy(ns[i], a) = OwedBy(orders[i], a)
                                /\ ns[i].key = orders[i].key /\ ns[i].side = orders[i].side
                                /\ ns[i].qty = orders[i].qty /\ ns[i].filled = orders[i].filled
                                /\ ns[i].status = orders[i].status
                                /\ ns[i].forced = orders[i].forced

LEMMA MatchTakes ==
    ASSUME DerivInd, NEW b \in DOMAIN orders, NEW s \in DOMAIN orders, NEW n \in 1..MaxQty,
           NEW x \in Prices(orders[b].key[2]), Match(b, s, n, x)
    PROVE  Took(orders') /\ OrdersOK(orders', events')
<1>0. x \in Nat /\ n \in Nat \ {0} /\ OrderList(orders) /\ orders \in Seq(OrderRow) /\ b # s
  BY PricesNat, ConstantTypes DEF DerivInd, OrdersOK, OrderList, Match
<1>1. /\ orders[b] \in OrderRow /\ orders[s] \in OrderRow
      /\ orders[b].left \in Nat /\ orders[s].left \in Nat
      /\ n <= orders[b].left /\ n <= orders[s].left
      /\ \A i \in DOMAIN orders : orders[i] \in OrderRow /\ orders[i].left \in Nat
  <2>1. \A i \in DOMAIN orders : orders[i] \in OrderRow
    BY <1>0
  <2> QED BY <2>1 DEF Match, OrderRow
<1>2. PICK lb \in Nat, ls \in Nat : lb = orders[b].left - n /\ ls = orders[s].left - n
  <2>1. PICK u \in Nat, v \in Nat : u = orders[b].left /\ v = orders[s].left
    BY <1>1
  <2>2. n <= u /\ n <= v
    BY <1>1, <2>1
  <2>3. u - n \in Nat /\ v - n \in Nat
    BY <1>0, <2>2
  <2> QED BY <2>1, <2>3
<1>3. PICK ob, so : ob = [orders[b] EXCEPT !.left = lb] /\ so = [orders[s] EXCEPT !.left = ls]
  OBVIOUS
<1>4. ob \in OrderRow /\ so \in OrderRow /\ ob.left = lb /\ so.left = ls
  BY <1>1, <1>3, LeftRow
<1>5. PICK ms : ms = [orders EXCEPT ![b] = ob]
  OBVIOUS
<1>6. orders' = [ms EXCEPT ![s] = so]
  <2>1. orders' = [orders EXCEPT ![b] = ob, ![s] = so]
    BY <1>0, <1>2, <1>3 DEF Match
  <2> QED BY <1>5, <2>1
<1>7. /\ ms \in Seq(OrderRow) /\ DOMAIN ms = DOMAIN orders
      /\ ms[b] = ob /\ \A j \in DOMAIN orders \ {b} : ms[j] = orders[j]
  BY <1>0, <1>4, <1>5, SeqExcept
<1>8. /\ orders' \in Seq(OrderRow) /\ DOMAIN orders' = DOMAIN orders
      /\ orders'[b] = ob /\ orders'[s] = so
      /\ \A j \in DOMAIN orders \ {b, s} : orders'[j] = orders[j]
  <2>1. s \in DOMAIN ms
    BY <1>7
  <2>2. /\ orders' \in Seq(OrderRow) /\ DOMAIN orders' = DOMAIN ms
        /\ orders'[s] = so /\ \A j \in DOMAIN ms \ {s} : orders'[j] = ms[j]
    BY <1>4, <1>6, <1>7, <2>1, SeqExcept
  <2> QED BY <1>0, <1>7, <2>2
<1>9. Took(orders')
  <2>1. ASSUME NEW i \in DOMAIN orders
        PROVE  \E l \in Nat : orders'[i] = [orders[i] EXCEPT !.left = l]
    <3>1. CASE i = b
      BY <1>3, <1>8, <3>1
    <3>2. CASE i = s
      BY <1>3, <1>8, <3>2
    <3>3. CASE i # b /\ i # s
      <4>1. orders'[i] = [orders[i] EXCEPT !.left = orders[i].left]
        BY <1>1, <1>8, <3>3 DEF OrderRow
      <4> QED BY <1>1, <4>1
    <3> QED BY <3>1, <3>2, <3>3
  <2>2. ASSUME NEW i \in DOMAIN orders
        PROVE  /\ orders'[i] = [orders[i] EXCEPT !.left = orders'[i].left]
               /\ orders'[i].left \in Nat
               /\ \A a : OwedBy(orders'[i], a) = OwedBy(orders[i], a)
               /\ orders'[i].key = orders[i].key /\ orders'[i].side = orders[i].side
               /\ orders'[i].qty = orders[i].qty /\ orders'[i].filled = orders[i].filled
               /\ orders'[i].status = orders[i].status
               /\ orders'[i].forced = orders[i].forced
    <3>1. PICK l \in Nat : orders'[i] = [orders[i] EXCEPT !.left = l]
      BY <2>1
    <3>2. PICK u : u = orders'[i]
      OBVIOUS
    <3>3. /\ u.left = l /\ u = [orders[i] EXCEPT !.left = u.left]
          /\ \A a : OwedBy(u, a) = OwedBy(orders[i], a)
          /\ u.key = orders[i].key /\ u.side = orders[i].side /\ u.qty = orders[i].qty
          /\ u.filled = orders[i].filled
          /\ u.status = orders[i].status /\ u.forced = orders[i].forced
      BY <1>1, <3>1, <3>2, LeftRow
    <3> QED BY <3>2, <3>3
  <2> QED BY <1>8, <2>2 DEF Took
<1>10. PICK e : e = [kind |-> "trade", buy |-> b, sell |-> s, qty |-> n, price |-> x]
  OBVIOUS
<1>11. e \in EventRow(orders) /\ e.kind = "trade" /\ e.buy = b /\ e.sell = s /\ e.qty = n
       /\ GoodTrade(orders, e)
  BY <1>0, <1>10 DEF EventRow, GoodTrade, Match
<1>12. \A i \in DOMAIN orders : orders'[i].left + Demand(e, i) <= orders[i].left
  <2> TAKE i \in DOMAIN orders
  <2>1. CASE i = b
    BY <1>0, <1>1, <1>2, <1>4, <1>8, <1>11, <2>1 DEF Demand
  <2>2. CASE i = s
    BY <1>0, <1>1, <1>2, <1>4, <1>8, <1>11, <2>2 DEF Demand
  <2>3. CASE i # b /\ i # s
    BY <1>1, <1>8, <1>11, <2>3 DEF Demand
  <2> QED BY <2>1, <2>2, <2>3
<1>13. OrdersOK(orders', Append(events, e))
  <2>1. OrdersOK(orders, events) /\ orders[e.buy].left > 0 /\ orders[e.sell].left > 0
    BY <1>0, <1>1, <1>11 DEF DerivInd
  <2>2. /\ orders' \in Seq(OrderRow) /\ DOMAIN orders' = DOMAIN orders
        /\ \A i \in DOMAIN orders : orders'[i] = [orders[i] EXCEPT !.left = orders'[i].left]
                                    /\ orders'[i].left \in Nat
    BY <1>9 DEF Took
  <2> QED BY <1>11, <1>12, <2>1, <2>2, OrdersTaken
<1> QED BY <1>9, <1>10, <1>13 DEF Match

----------------------------------------------------------------------------
(***************************************************************************)
(* A trade that is settled: its orders                                     *)
(***************************************************************************)
LEMMA EngineCloseTakes ==
    ASSUME DerivInd, NEW b \in DOMAIN orders, EngineCloses(b)
    PROVE  Took(orders') /\ OrdersOK(orders', events')
<1>0. OrderList(orders) /\ orders \in Seq(OrderRow)
  BY DEF DerivInd, OrdersOK, OrderList
<1>1. \A i \in DOMAIN orders : orders[i] \in OrderRow /\ orders[i].left \in Nat
  <2>1. \A i \in DOMAIN orders : orders[i] \in OrderRow
    BY <1>0
  <2> QED BY <2>1 DEF OrderRow
<1>2. orders[b].left > 0
  BY DEF EngineCloses
<1>3z. PICK z \in Nat : z = 0
  OBVIOUS
<1>3. PICK ob : ob = [orders[b] EXCEPT !.left = z]
  OBVIOUS
<1>4. ob \in OrderRow /\ ob.left = z
  BY <1>1, <1>3, LeftRow
<1>5. orders' = [orders EXCEPT ![b] = ob]
  BY <1>3, <1>3z DEF EngineCloses
<1>8. /\ orders' \in Seq(OrderRow) /\ DOMAIN orders' = DOMAIN orders
      /\ orders'[b] = ob /\ \A j \in DOMAIN orders \ {b} : orders'[j] = orders[j]
  BY <1>0, <1>4, <1>5, SeqExcept
<1>9. Took(orders')
  <2>1. ASSUME NEW i \in DOMAIN orders
        PROVE  \E l \in Nat : orders'[i] = [orders[i] EXCEPT !.left = l]
    <3>1. CASE i = b
      BY <1>3, <1>8, <3>1
    <3>3. CASE i # b
      <4>1. orders'[i] = [orders[i] EXCEPT !.left = orders[i].left]
        BY <1>1, <1>8, <3>3 DEF OrderRow
      <4> QED BY <1>1, <4>1
    <3> QED BY <3>1, <3>3
  <2>2. ASSUME NEW i \in DOMAIN orders
        PROVE  /\ orders'[i] = [orders[i] EXCEPT !.left = orders'[i].left]
               /\ orders'[i].left \in Nat
               /\ \A a : OwedBy(orders'[i], a) = OwedBy(orders[i], a)
               /\ orders'[i].key = orders[i].key /\ orders'[i].side = orders[i].side
               /\ orders'[i].qty = orders[i].qty /\ orders'[i].filled = orders[i].filled
               /\ orders'[i].status = orders[i].status
               /\ orders'[i].forced = orders[i].forced
    <3>1. PICK l \in Nat : orders'[i] = [orders[i] EXCEPT !.left = l]
      BY <2>1
    <3>2. PICK u : u = orders'[i]
      OBVIOUS
    <3>3. /\ u.left = l /\ u = [orders[i] EXCEPT !.left = u.left]
          /\ \A a : OwedBy(u, a) = OwedBy(orders[i], a)
          /\ u.key = orders[i].key /\ u.side = orders[i].side /\ u.qty = orders[i].qty
          /\ u.filled = orders[i].filled
          /\ u.status = orders[i].status /\ u.forced = orders[i].forced
      BY <1>1, <3>1, <3>2, LeftRow
    <3> QED BY <3>2, <3>3
  <2> QED BY <1>8, <2>2 DEF Took
<1>10. PICK e : e = [kind |-> "closed", buy |-> b, sell |-> b, qty |-> 0, price |-> 0]
  OBVIOUS
<1>11. e \in EventRow(orders) /\ e.kind = "closed" /\ e.buy = b /\ e.sell = b
  BY <1>10 DEF EventRow
<1>12. \A i \in DOMAIN orders : orders'[i].left + Demand(e, i) <= orders[i].left
  <2> TAKE i \in DOMAIN orders
  <2>1. CASE i = b
    <3>1. orders'[i].left = 0 /\ orders[i].left \in Nat /\ orders[i].left > 0
      BY <1>1, <1>2, <1>3z, <1>4, <1>8, <2>1
    <3>2. Demand(e, i) = 1
      BY <1>11, <2>1 DEF Demand
    <3> QED BY <3>1, <3>2
  <2>3. CASE i # b
    BY <1>1, <1>8, <1>11, <2>3 DEF Demand
  <2> QED BY <2>1, <2>3
<1>13. OrdersOK(orders', Append(events, e))
  <2>1. OrdersOK(orders, events) /\ orders[e.buy].left > 0 /\ orders[e.sell].left > 0
        /\ orders'[e.buy].left = 0
    BY <1>2, <1>3z, <1>4, <1>8, <1>11 DEF DerivInd
  <2>2. /\ orders' \in Seq(OrderRow) /\ DOMAIN orders' = DOMAIN orders
        /\ \A i \in DOMAIN orders : orders'[i] = [orders[i] EXCEPT !.left = orders'[i].left]
                                    /\ orders'[i].left \in Nat
    BY <1>9 DEF Took
  <2> QED BY <1>11, <1>12, <2>1, <2>2, OrdersTaken
<1> QED BY <1>9, <1>10, <1>13 DEF EngineCloses

LEMMA TakeStep ==
    ASSUME DerivInd, Took(orders'), OrdersOK(orders', events'),
           UNCHANGED <<money, risk, daily, overflow>>
    PROVE  DerivInd'
<1>1. CashPart'
  <2>1. OrderList(orders') /\ cash' = cash
    BY DEF OrdersOK, money
  <2> QED BY <2>1, CashSame DEF Took
<1>2. Positions(pos)' /\ RiskTypes' /\ DayTypes'
  BY RestSame DEF money
<1> QED BY <1>1, <1>2 DEF DerivInd

----------------------------------------------------------------------------
\* What the settlement of a trade of n at x between the orders b and s does.
PaidFor(b, s, n, x, bought, sold, a) ==
    IF orders[b].key[2] = Future
    THEN (IF orders[b].key[1] = a THEN bought.realized ELSE 0)
           + (IF orders[s].key[1] = a THEN sold.realized ELSE 0)
    ELSE ((IF orders[s].key[1] = a THEN 1 ELSE 0) - (IF orders[b].key[1] = a THEN 1 ELSE 0))
           * x * n * OptionUnit

\* What the engine has said of a trade, when it is settled.
Traded(b, s, n, x) ==
    /\ b \in DOMAIN orders /\ s \in DOMAIN orders /\ b # s
    /\ n \in Nat \ {0} /\ x \in Nat
    /\ orders[b].side = "BUY" /\ orders[s].side = "SELL"
    /\ orders[b].key[2] = orders[s].key[2] /\ x <= orders[b].limit
    /\ orders[b].key \in Keys /\ orders[s].key \in Keys
    /\ n <= orders[b].qty - orders[b].filled /\ n <= orders[s].qty - orders[s].filled
    /\ IsLive(orders[b]) /\ IsLive(orders[s])

\* What a trade does to its orders, its positions and the money.
OrdersFilled(b, s, n) ==
    /\ DOMAIN orders' = DOMAIN orders
    /\ orders'[b] = Filled(orders[b], n) /\ orders'[s] = Filled(orders[s], n)
    /\ \A i \in DOMAIN orders \ {b, s} : orders'[i] = orders[i]

LegsDone(b, s, n, x, bought, sold, mid) ==
    /\ FillEffect(orders[b].key, pos[orders[b].key], "BUY", x, n, bought)
    /\ mid = [pos EXCEPT ![orders[b].key] = bought.pos]
    /\ Positions(mid)
    /\ FillEffect(orders[s].key, mid[orders[s].key], "SELL", x, n, sold)
    /\ pos' = [mid EXCEPT ![orders[s].key] = sold.pos]
    /\ Positions(pos')
    /\ overflow' = overflow + bought.overflow + sold.overflow

CashMoved(d) ==
    \A a \in Accounts :
        /\ d[a] \in Int
        /\ cash'[a].balance - cash'[a].debt = cash[a].balance - cash[a].debt + d[a]

LEMMA PositionSet ==
    ASSUME NEW ps, Positions(ps), NEW k \in Keys, NEW p, SidedRow(k, p),
           NEW qs, qs = [ps EXCEPT ![k] = p]
    PROVE  Positions(qs)
  BY DEF Positions, SidedRow, GoodRow

LEMMA TradeOrders ==
    ASSUME DerivInd, SettleTrade, NEW e, e = Head(events)
    PROVE  /\ Traded(e.buy, e.sell, e.qty, e.price) /\ OrdersFilled(e.buy, e.sell, e.qty)
           /\ OrdersOK(orders', events')
           /\ \A a : HeldFor(orders', a) = HeldFor(orders, a)
                        - (IF orders[e.buy].key[1] = a THEN orders[e.buy].per * e.qty ELSE 0)
                        - (IF orders[e.sell].key[1] = a THEN orders[e.sell].per * e.qty ELSE 0)
<1>0. OrdersOK(orders, events) /\ events # <<>> /\ e.kind = "trade"
  BY DEF DerivInd, SettleTrade
<1>1. /\ e \in EventRow(orders) /\ GoodTrade(orders, e)
      /\ \A i \in DOMAIN orders : PendingIn(Tail(events), i) \in Nat
      /\ \A i \in {e.buy, e.sell} : /\ i \in DOMAIN orders /\ orders[i] \in OrderRow
                                    /\ GoodOrder(orders[i])
                                    /\ IsLive(orders[i])
                                    /\ Demand(e, i) + PendingIn(Tail(events), i) + orders[i].left
                                         <= orders[i].qty - orders[i].filled
  BY <1>0, HeadFacts
<1>2. PICK b, s, n, x : b = e.buy /\ s = e.sell /\ n = e.qty /\ x = e.price
  OBVIOUS
<1>3. /\ b \in DOMAIN orders /\ s \in DOMAIN orders /\ b # s /\ n \in Nat \ {0} /\ x \in Nat
      /\ orders[b].side = "BUY" /\ orders[s].side = "SELL"
      /\ orders[b].key[2] = orders[s].key[2] /\ x <= orders[b].limit
  BY <1>1, <1>2 DEF EventRow, GoodTrade
<1>4. /\ \A i \in {b, s} : Demand(e, i) = n
      /\ \A i \in DOMAIN orders \ {b, s} : Demand(e, i) = 0
  BY <1>0, <1>2 DEF Demand
<1>5. \A i \in {b, s} : /\ orders[i] \in OrderRow /\ GoodOrder(orders[i]) /\ IsLive(orders[i])
                        /\ n + PendingIn(Tail(events), i) + orders[i].left <= orders[i].qty - orders[i].filled
                        /\ PendingIn(Tail(events), i) \in Nat
                        /\ orders[i].key \in Keys /\ orders[i].left \in Nat
                        /\ orders[i].qty \in Nat /\ orders[i].filled \in Nat
  BY <1>1, <1>2, <1>4 DEF OrderRow
<1>6. Traded(b, s, n, x)
  BY <1>3, <1>5 DEF Traded
<1>7. PICK ob, so : ob = Filled(orders[b], n) /\ so = Filled(orders[s], n)
  OBVIOUS
<1>8. /\ ob \in OrderRow /\ GoodOrder(ob) /\ QueueOf(ob, PendingIn(Tail(events), b))
      /\ ob.key = orders[b].key /\ ob.side = orders[b].side
      /\ ob.limit = orders[b].limit /\ ob.left = orders[b].left
      /\ \A a : OwedBy(ob, a) = OwedBy(orders[b], a) - (IF orders[b].key[1] = a THEN orders[b].per * n ELSE 0)
  BY <1>3, <1>5, <1>7, FilledRow
<1>9. /\ so \in OrderRow /\ GoodOrder(so) /\ QueueOf(so, PendingIn(Tail(events), s))
      /\ so.key = orders[s].key /\ so.side = orders[s].side
      /\ so.limit = orders[s].limit /\ so.left = orders[s].left
      /\ \A a : OwedBy(so, a) = OwedBy(orders[s], a) - (IF orders[s].key[1] = a THEN orders[s].per * n ELSE 0)
  BY <1>3, <1>5, <1>7, FilledRow
<1>10. orders \in Seq(OrderRow) /\ OrderList(orders)
  BY <1>0 DEF OrdersOK, OrderList
<1>11. PICK ms : ms = [orders EXCEPT ![b] = ob]
  OBVIOUS
<1>12. orders' = [ms EXCEPT ![s] = so] /\ events' = Tail(events)
  <2>1. orders' = [orders EXCEPT ![b] = Filled(@, n), ![s] = Filled(@, n)] /\ events' = Tail(events)
    BY <1>2 DEF SettleTrade
  <2>2. orders' = [orders EXCEPT ![b] = ob, ![s] = so]
    BY <1>3, <1>7, <2>1
  <2> QED BY <1>11, <2>1, <2>2
<1>13. /\ ms \in Seq(OrderRow) /\ DOMAIN ms = DOMAIN orders
       /\ ms[b] = ob /\ \A j \in DOMAIN orders \ {b} : ms[j] = orders[j]
  BY <1>3, <1>8, <1>10, <1>11, SeqExcept
<1>14. /\ orders' \in Seq(OrderRow) /\ DOMAIN orders' = DOMAIN orders
       /\ orders'[b] = ob /\ orders'[s] = so
       /\ \A j \in DOMAIN orders \ {b, s} : orders'[j] = orders[j]
  <2>1. s \in DOMAIN ms
    BY <1>3, <1>13
  <2>2. /\ orders' \in Seq(OrderRow) /\ DOMAIN orders' = DOMAIN ms
        /\ orders'[s] = so /\ \A j \in DOMAIN ms \ {s} : orders'[j] = ms[j]
    BY <1>9, <1>12, <1>13, <2>1, SeqExcept
  <2> QED BY <1>3, <1>13, <2>2
<1>15. OrdersFilled(b, s, n)
  BY <1>7, <1>14 DEF OrdersFilled
<1>16. OrderList(orders')
  BY <1>8, <1>9, <1>10, <1>14 DEF OrderList
<1>17. OrdersOK(orders', Tail(events))
  <2>1. ASSUME NEW i \in DOMAIN orders
        PROVE  /\ orders'[i].key = orders[i].key /\ orders'[i].side = orders[i].side
               /\ orders'[i].limit = orders[i].limit /\ orders'[i].left = orders[i].left
    BY <1>8, <1>9, <1>14
  <2>2. ASSUME NEW i \in DOMAIN orders PROVE QueueOf(orders'[i], PendingIn(Tail(events), i))
    <3>1. CASE i \in {b, s}
      BY <1>8, <1>9, <1>14, <3>1
    <3>2. CASE i \notin {b, s}
      <4>1. /\ QueueOf(orders[i], PendingIn(events, i))
            /\ PendingIn(events, i) = Demand(e, i) + PendingIn(Tail(events), i)
            /\ PendingIn(Tail(events), i) \in Nat
        BY <1>0, HeadFacts DEF OrdersOK
      <4>2. PendingIn(events, i) = PendingIn(Tail(events), i)
        BY <1>4, <3>2, <4>1
      <4> QED BY <1>14, <3>2, <4>1, <4>2
    <3> QED BY <3>1, <3>2
  <2> QED BY <1>0, <1>14, <1>16, <2>1, <2>2, TailEvents
<1>18. ASSUME NEW a
       PROVE  HeldFor(orders', a) = HeldFor(orders, a)
                        - (IF orders[b].key[1] = a THEN orders[b].per * n ELSE 0)
                        - (IF orders[s].key[1] = a THEN orders[s].per * n ELSE 0)
  <2>1. HeldFor(orders', a) = HeldFor(orders, a) - OwedBy(orders[b], a) - OwedBy(orders[s], a)
                                + OwedBy(orders'[b], a) + OwedBy(orders'[s], a)
    BY <1>3, <1>10, <1>14, <1>16, HeldChangeTwo
  <2>2. HeldFor(orders, a) \in Nat /\ OwedBy(orders[b], a) \in Nat /\ OwedBy(orders[s], a) \in Nat
    BY <1>5, <1>10, HeldNat, OwedNat
  <2>3. PICK u \in Nat, v \in Nat : u = orders[b].per * n /\ v = orders[s].per * n
    BY <1>3, <1>5, MulNat DEF OrderRow
  <2>4. PICK p \in Int, q \in Int :
          /\ p = IF orders[b].key[1] = a THEN orders[b].per * n ELSE 0
          /\ q = IF orders[s].key[1] = a THEN orders[s].per * n ELSE 0
    BY <2>3
  <2>5. OwedBy(orders'[b], a) = OwedBy(orders[b], a) - p /\ OwedBy(orders'[s], a) = OwedBy(orders[s], a) - q
    BY <1>8, <1>9, <1>14, <2>4
  <2>6. HeldFor(orders', a) = HeldFor(orders, a) - p - q
    BY <2>1, <2>2, <2>5
  <2> QED BY <2>4, <2>6
<1> QED BY <1>2, <1>6, <1>12, <1>15, <1>17, <1>18

----------------------------------------------------------------------------
(***************************************************************************)
(* ... its positions and its cash                                          *)
(***************************************************************************)
ReleasedTo(b, s, n, a) ==
    (IF orders[b].key[1] = a THEN orders[b].per * n ELSE 0)
      + (IF orders[s].key[1] = a THEN orders[s].per * n ELSE 0)

Freed(b, s, n, a) == [cash[a] EXCEPT !.hold = @ - ReleasedTo(b, s, n, a)]

CashPaid(b, s, n, x, bought, sold) ==
    cash' = [a \in Accounts |->
               IF a \notin {orders[b].key[1], orders[s].key[1]} THEN cash[a]
               ELSE IF orders[b].key[2] = Future
               THEN AddCash(Freed(b, s, n, a), PaidFor(b, s, n, x, bought, sold, a))
               ELSE Pay(Freed(b, s, n, a), PaidFor(b, s, n, x, bought, sold, a))]

LEMMA TradeLegs ==
    ASSUME DerivInd, SettleTrade, NEW e, e = Head(events)
    PROVE  \E bought, sold, mid :
              /\ LegsDone(e.buy, e.sell, e.qty, e.price, bought, sold, mid)
              /\ CashPaid(e.buy, e.sell, e.qty, e.price, bought, sold)
<1>1. Traded(e.buy, e.sell, e.qty, e.price)
  BY TradeOrders
<1>2. PICK b, s, n, x : b = e.buy /\ s = e.sell /\ n = e.qty /\ x = e.price
  OBVIOUS
<1>3. /\ n \in Nat \ {0} /\ x \in Nat /\ orders[b].key \in Keys /\ orders[s].key \in Keys
  BY <1>1, <1>2 DEF Traded
<1>4. PICK kb, ks : kb = orders[b].key /\ ks = orders[s].key
  OBVIOUS
<1>5. Positions(pos)
  BY DEF DerivInd
<1>6. PICK p : p = pos[kb]
  OBVIOUS
<1>7. PICK bought : bought = ApplyLeg(kb, p, "BUY", x, n)
  OBVIOUS
<1>8. FillEffect(kb, p, "BUY", x, n, bought)
  <2>1. SidedRow(kb, p) /\ kb \in Keys
    BY <1>3, <1>4, <1>5, <1>6 DEF Positions
  <2>2. PICK side \in {"BUY", "SELL"} : side = "BUY"
    OBVIOUS
  <2>3. FillEffect(kb, p, side, x, n, ApplyLeg(kb, p, side, x, n))
    BY <1>3, <2>1, LegFacts
  <2> QED BY <1>7, <2>2, <2>3
<1>9. PICK mid : mid = [pos EXCEPT ![kb] = bought.pos]
  OBVIOUS
<1>10. Positions(mid) /\ mid[kb] = bought.pos /\ \A k \in Keys \ {kb} : mid[k] = pos[k]
  <2>1. PICK r : r = bought.pos
    OBVIOUS
  <2>2. SidedRow(kb, r)
    BY <1>8, <2>1 DEF FillEffect
  <2>3. Positions(mid)
    BY <1>3, <1>4, <1>5, <1>9, <2>1, <2>2, PositionSet
  <2> QED BY <1>3, <1>4, <1>5, <1>9, <2>3 DEF Positions
<1>11. PICK q : q = mid[ks]
  OBVIOUS
<1>12. q = IF ks = kb THEN bought.pos ELSE pos[ks]
  BY <1>3, <1>4, <1>10, <1>11
<1>13. PICK sold : sold = ApplyLeg(ks, q, "SELL", x, n)
  OBVIOUS
<1>14. FillEffect(ks, q, "SELL", x, n, sold)
  <2>1. SidedRow(ks, q) /\ ks \in Keys
    BY <1>3, <1>4, <1>10, <1>11 DEF Positions
  <2>2. PICK side \in {"BUY", "SELL"} : side = "SELL"
    OBVIOUS
  <2>3. FillEffect(ks, q, side, x, n, ApplyLeg(ks, q, side, x, n))
    BY <1>3, <2>1, LegFacts
  <2> QED BY <1>13, <2>2, <2>3
<1>15. /\ pos' = [pos EXCEPT ![kb] = bought.pos, ![ks] = sold.pos]
       /\ overflow' = overflow + bought.overflow + sold.overflow
  BY <1>2, <1>4, <1>6, <1>7, <1>12, <1>13 DEF SettleTrade
<1>16. pos' = [mid EXCEPT ![ks] = sold.pos]
  BY <1>9, <1>15
<1>17. Positions(pos')
  <2>1. PICK r : r = sold.pos
    OBVIOUS
  <2>2. SidedRow(ks, r)
    BY <1>14, <2>1 DEF FillEffect
  <2> QED BY <1>3, <1>4, <1>10, <1>16, <2>1, <2>2, PositionSet
<1>18. LegsDone(b, s, n, x, bought, sold, mid)
  BY <1>4, <1>6, <1>8, <1>9, <1>10, <1>11, <1>14, <1>15, <1>16, <1>17 DEF LegsDone
<1>19. CashPaid(b, s, n, x, bought, sold)
  BY <1>2, <1>4, <1>6, <1>7, <1>12, <1>13, ZenonT(60) DEF SettleTrade, CashPaid, PaidFor, Freed, ReleasedTo
<1> QED BY <1>2, <1>18, <1>19

LEMMA TradeCash ==
    ASSUME DerivInd, SettleTrade, NEW e, e = Head(events),
           NEW bought, NEW sold, NEW mid,
           LegsDone(e.buy, e.sell, e.qty, e.price, bought, sold, mid),
           CashPaid(e.buy, e.sell, e.qty, e.price, bought, sold)
    PROVE  /\ CashPart'
           /\ CashMoved([a \in Accounts |-> PaidFor(e.buy, e.sell, e.qty, e.price, bought, sold, a)])
<1>1. PICK b, s, n, x : b = e.buy /\ s = e.sell /\ n = e.qty /\ x = e.price
  OBVIOUS
<1>2. /\ Traded(b, s, n, x) /\ OrdersOK(orders', events')
      /\ \A a : HeldFor(orders', a) = HeldFor(orders, a)
                        - (IF orders[b].key[1] = a THEN orders[b].per * n ELSE 0)
                        - (IF orders[s].key[1] = a THEN orders[s].per * n ELSE 0)
  BY <1>1, TradeOrders
<1>3. /\ b \in DOMAIN orders /\ s \in DOMAIN orders /\ n \in Nat \ {0} /\ x \in Nat
      /\ orders[b].side = "BUY" /\ orders[b].key[2] = orders[s].key[2] /\ x <= orders[b].limit
      /\ orders[b].key \in Keys /\ orders[s].key \in Keys
  BY <1>2 DEF Traded
<1>4. OrderList(orders) /\ OrderList(orders') /\ CashPart
  BY <1>2 DEF DerivInd, OrdersOK
<1>5. /\ orders[b].per \in Nat /\ orders[s].per \in Nat /\ orders[b].limit \in Nat
      /\ orders[b].key[2] = Option => orders[b].per = orders[b].limit * OptionUnit
  <2>1. orders[b] \in OrderRow /\ orders[s] \in OrderRow /\ GoodOrder(orders[b])
    BY <1>3, <1>4 DEF OrderList
  <2> QED BY <1>3, <2>1 DEF OrderRow, GoodOrder
<1>6. PICK u \in Nat, v \in Nat : u = orders[b].per * n /\ v = orders[s].per * n
  BY <1>3, <1>5, MulNat
<1>7. PICK A, B : A = orders[b].key[1] /\ B = orders[s].key[1]
  OBVIOUS
<1>8. A \in Accounts /\ B \in Accounts /\ orders[b].key[2] \in {Future, Option}
  BY <1>3, <1>7, KeyFacts DEF Symbols
<1>9. bought.realized \in Int /\ sold.realized \in Int
  BY <1>1 DEF LegsDone, FillEffect
<1>10. PICK c \in Nat : c = x * n * OptionUnit
  BY <1>3, ConstantTypes, MulNat
<1>11. orders[b].key[2] = Option => u >= c
  <2> SUFFICES ASSUME orders[b].key[2] = Option PROVE u >= c
    OBVIOUS
  <2>1. PICK l \in Nat : l = orders[b].limit /\ x <= l /\ orders[b].per = l * OptionUnit
    BY <1>3, <1>5
  <2>2. PICK m \in Nat : m = n * OptionUnit
    BY <1>3, ConstantTypes, MulNat
  <2>3. u = l * m /\ c = x * m
    BY <1>3, <1>6, <1>10, <2>1, <2>2, ConstantTypes
  <2>4. (l - x) * m \in Nat
    BY <1>3, <2>1, <2>2, MulNat
  <2>5. (l - x) * m = l * m - x * m
    BY <1>3, <2>1, <2>2
  <2>6. l * m \in Int /\ x * m \in Int
    BY <1>3, <2>1, <2>2, MulInt
  <2> QED BY <2>3, <2>4, <2>5, <2>6
<1> DEFINE P(a) == PaidFor(b, s, n, x, bought, sold, a)
<1>12. ASSUME NEW a \in Accounts
       PROVE  /\ P(a) \in Int
              /\ orders[b].key[2] = Option =>
                    P(a) = (IF B = a THEN c ELSE 0) - (IF A = a THEN c ELSE 0)
              /\ orders[b].key[2] = Future =>
                    P(a) = (IF A = a THEN bought.realized ELSE 0) + (IF B = a THEN sold.realized ELSE 0)
              /\ a # A /\ a # B => P(a) = 0
  <2>1. orders[b].key[2] = Future =>
           P(a) = (IF A = a THEN bought.realized ELSE 0) + (IF B = a THEN sold.realized ELSE 0)
    BY <1>7 DEF PaidFor
  <2>2. orders[b].key[2] = Option =>
           P(a) = (IF B = a THEN c ELSE 0) - (IF A = a THEN c ELSE 0)
    <3> SUFFICES ASSUME orders[b].key[2] = Option
                 PROVE  P(a) = (IF B = a THEN c ELSE 0) - (IF A = a THEN c ELSE 0)
      OBVIOUS
    <3>1. PICK t \in {-1, 0, 1} : t = (IF B = a THEN 1 ELSE 0) - (IF A = a THEN 1 ELSE 0)
      OBVIOUS
    <3>2. P(a) = t * x * n * OptionUnit
      BY <1>7, <3>1, ConstantTypes DEF PaidFor
    <3>3. t * x * n * OptionUnit = t * c
      <4>1. PICK o \in Nat : o = OptionUnit
        BY ConstantTypes
      <4>2. CASE t = 0
        BY <1>3, <1>10, <4>1, <4>2
      <4>3. CASE t = 1
        BY <1>3, <1>10, <4>1, <4>3
      <4>4. CASE t = -1
        <5>1. t * x = -x
          BY <1>3, <4>4
        <5>2. PICK y \in Int : y = x * n
          BY <1>3, MulInt
        <5>3. (-x) * n = -y
          BY <1>3, <5>2
        <5>4. (-y) * o = -(y * o)
          BY <4>1
        <5> QED BY <1>10, <4>1, <4>4, <5>1, <5>2, <5>3, <5>4
      <4> QED BY <4>2, <4>3, <4>4
    <3>4. t * c = (IF B = a THEN c ELSE 0) - (IF A = a THEN c ELSE 0)
      BY <3>1
    <3> QED BY <3>2, <3>3, <3>4
  <2> HIDE DEF P
  <2> QED BY <1>8, <1>9, <2>1, <2>2
<1>13. ASSUME NEW a \in Accounts
       PROVE  /\ cash'[a] \in CashRow
              /\ cash'[a].hold = HeldFor(orders', a) /\ cash'[a].hold <= cash'[a].balance
              /\ cash'[a].balance - cash'[a].debt = cash[a].balance - cash[a].debt + P(a)
  <2>1. /\ cash[a] \in CashRow /\ cash[a].hold = HeldFor(orders, a) /\ cash[a].hold <= cash[a].balance
    BY <1>4 DEF CashPart
  <2>2. /\ cash[a].balance \in Nat /\ cash[a].hold \in Nat /\ cash[a].debt \in Nat
    BY <2>1 DEF CashRow
  <2>3. PICK r \in Nat : r = (IF A = a THEN u ELSE 0) + (IF B = a THEN v ELSE 0)
    OBVIOUS
  <2>4. ReleasedTo(b, s, n, a) = r
    BY <1>6, <1>7, <2>3 DEF ReleasedTo
  <2>5. HeldFor(orders', a) = cash[a].hold - r
    BY <1>2, <1>6, <1>7, <2>1, <2>2, <2>3
  <2>6. PICK h \in Nat : h = cash[a].hold - r
    BY <1>4, <2>5, HeldNat
  <2>7. CASE a # A /\ a # B
    <3>1. cash'[a] = cash[a]
      BY <1>1, <1>7, <2>7 DEF CashPaid
    <3>2. P(a) = 0 /\ r = 0
      BY <1>12, <2>3, <2>7
    <3> HIDE DEF P
    <3> QED BY <2>1, <2>2, <2>5, <3>1, <3>2
  <2>8. CASE ~(a # A /\ a # B)
    <3>1. PICK f : f = [cash[a] EXCEPT !.hold = h]
      OBVIOUS
    <3>2. f = Freed(b, s, n, a)
      BY <2>4, <2>6, <3>1 DEF Freed
    <3>3. /\ f \in CashRow /\ f.hold = h /\ f.hold <= f.balance
          /\ f.balance = cash[a].balance /\ f.debt = cash[a].debt
      BY <2>1, <2>2, <2>3, <2>6, <3>1 DEF CashRow
    <3>4. PICK y \in Int : y = P(a)
      BY <1>12
    <3>5. CASE orders[b].key[2] = Future
      <4>1. cash'[a] = AddCash(f, y)
        BY <1>1, <1>7, <2>8, <3>2, <3>4, <3>5 DEF CashPaid
      <4>2. PICK g : g = AddCash(f, y)
        OBVIOUS
      <4>3. /\ g \in CashRow /\ g.hold = f.hold /\ g.hold <= g.balance
            /\ g.balance - g.debt = f.balance - f.debt + y
        BY <3>3, <4>2, AddCashFacts
      <4> QED BY <2>5, <2>6, <3>3, <3>4, <4>1, <4>2, <4>3
    <3>6. CASE orders[b].key[2] # Future
      <4>1. cash'[a] = Pay(f, y)
        BY <1>1, <1>7, <2>8, <3>2, <3>4, <3>6 DEF CashPaid
      <4>2. y = (IF B = a THEN c ELSE 0) - (IF A = a THEN c ELSE 0) /\ u >= c
        BY <1>8, <1>11, <1>12, <3>4, <3>6
      <4>3. PICK w \in Nat : w = f.balance + y /\ h <= w
        BY <2>1, <2>2, <2>3, <2>6, <3>3, <4>2
      <4>4. PICK g : g = [f EXCEPT !.balance = w]
        OBVIOUS
      <4>5. cash'[a] = g
        BY <4>1, <4>3, <4>4 DEF Pay
      <4>6. g \in CashRow /\ g.hold = h /\ g.balance = w /\ g.debt = f.debt
        BY <3>3, <4>4 DEF CashRow
      <4>7. w - f.debt = cash[a].balance - cash[a].debt + y
        BY <2>2, <3>3, <4>3
      <4> QED BY <2>5, <2>6, <3>4, <4>3, <4>5, <4>6, <4>7
    <3> QED BY <3>5, <3>6
  <2> QED BY <2>7, <2>8
<1>14. CashPart'
  <2>1. DOMAIN cash' = Accounts /\ cash' = [a \in Accounts |-> cash'[a]]
    BY <1>1 DEF CashPaid
  <2>2. cash' \in [Accounts -> CashRow]
    BY <1>13, <2>1
  <2> QED BY <1>13, <2>2 DEF CashPart
<1>15. CashMoved([a \in Accounts |-> P(a)])
  <2> DEFINE d == [a \in Accounts |-> P(a)]
  <2>1. \A a \in Accounts : d[a] = P(a)
    OBVIOUS
  <2> HIDE DEF d, P
  <2>2. CashMoved(d)
    BY <1>12, <1>13, <2>1 DEF CashMoved
  <2> QED BY <2>2 DEF d
<1> QED BY <1>1, <1>14, <1>15

\* A tick that has missed a liquidation is otherwise what it was.
LEMMA MissedTick ==
    ASSUME NEW a, NEW r, GoodTick(a, r), NEW g, g = [r EXCEPT !.missed = TRUE]
    PROVE  /\ GoodTick(a, g) /\ g.missed
           /\ g.stage = r.stage /\ g.pos = r.pos /\ g.qtys = r.qtys
<1>1. r \in TickRow(a)
  BY DEF GoodTick
<1>2. /\ g \in TickRow(a) /\ g.missed
      /\ g.stage = r.stage /\ g.pos = r.pos /\ g.qtys = r.qtys
  BY <1>1 DEF TickRow
<1> QED BY <1>2 DEF GoodTick

LEMMA MissingFacts ==
    ASSUME TickOK, NEW A, NEW nt, nt = Missing(A)
    PROVE  /\ nt = [t \in Ticks |-> nt[t]]
           /\ \A t \in Ticks : /\ GoodTick(t[2], nt[t])
                               /\ nt[t] = tick[t] \/ nt[t].missed
                               /\ t[2] \in A /\ tick[t].stage # "idle" => nt[t].missed
                               /\ nt[t].stage = tick[t].stage /\ nt[t].pos = tick[t].pos
                               /\ tick[t].missed => nt[t].missed
<1>1. nt = [t \in Ticks |-> IF t[2] \in A /\ tick[t].stage # "idle"
                             THEN [tick[t] EXCEPT !.missed = TRUE] ELSE tick[t]]
  BY DEF Missing
<1>2. ASSUME NEW t \in Ticks
      PROVE  /\ GoodTick(t[2], nt[t])
             /\ nt[t] = tick[t] \/ nt[t].missed
             /\ t[2] \in A /\ tick[t].stage # "idle" => nt[t].missed
             /\ nt[t].stage = tick[t].stage /\ nt[t].pos = tick[t].pos
             /\ tick[t].missed => nt[t].missed
  <2>1. PICK a, r, g : a = t[2] /\ r = tick[t] /\ g = [r EXCEPT !.missed = TRUE]
    OBVIOUS
  <2>2. GoodTick(a, r)
    BY <2>1 DEF TickOK
  <2>3. GoodTick(a, g) /\ g.missed /\ g.stage = r.stage /\ g.pos = r.pos
    BY <2>1, <2>2, MissedTick
  <2>4. nt[t] = IF a \in A /\ r.stage # "idle" THEN g ELSE r
    BY <1>1, <2>1
  <2> QED BY <2>1, <2>2, <2>3, <2>4
<1> QED BY <1>1, <1>2

LEMMA MissingOK == ASSUME TickOK, NEW A, tick' = Missing(A) PROVE TickOK'
<1>1. PICK nt : nt = Missing(A)
  OBVIOUS
<1>2. /\ tick' = nt /\ nt = [t \in Ticks |-> nt[t]]
      /\ \A t \in Ticks : GoodTick(t[2], nt[t])
  BY <1>1, MissingFacts
<1> QED BY <1>2 DEF TickOK

LEMMA TradeStep ==
    ASSUME DerivInd, SettleTrade PROVE DerivInd'
<1>1. PICK e : e = Head(events)
  OBVIOUS
<1>2. PICK bought, sold, mid :
              /\ LegsDone(e.buy, e.sell, e.qty, e.price, bought, sold, mid)
              /\ CashPaid(e.buy, e.sell, e.qty, e.price, bought, sold)
  BY <1>1, TradeLegs
<1>3. OrdersOK(orders', events') /\ CashPart'
  BY <1>1, <1>2, TradeOrders, TradeCash
<1>4. Positions(pos') /\ overflow' \in Nat
  <2>1. Positions(pos') /\ overflow' = overflow + bought.overflow + sold.overflow
    BY <1>2 DEF LegsDone
  <2>2. bought.overflow \in Nat
    BY <1>2 DEF LegsDone, FillEffect
  <2>3. sold.overflow \in Nat
    BY <1>2 DEF LegsDone, FillEffect
  <2>4. overflow \in Nat
    BY DEF DerivInd, DayTypes
  <2> QED BY <2>1, <2>2, <2>3, <2>4
<1>5. UNCHANGED <<mark, calls, blind, phase, run, done, claimed, runs, usedPrices>>
  BY DEF SettleTrade, daily
<1>6. TickOK'
  <2>1. tick' = Missing({orders[i].key[1] : i \in {i \in {e.buy, e.sell} : orders[i].forced}})
    BY <1>1 DEF SettleTrade
  <2> QED BY <2>1, MissingOK DEF DerivInd, RiskTypes
<1>7. RiskTypes' /\ DayTypes'
  BY <1>4, <1>5, <1>6 DEF DerivInd, RiskTypes, DayTypes
<1> QED BY <1>3, <1>4, <1>7 DEF DerivInd, Positions

----------------------------------------------------------------------------
(***************************************************************************)
(* Closes, leverage, risk reads, and the daily settlement                  *)
(***************************************************************************)
LEMMA CloseOrders ==
    ASSUME DerivInd, SettleClose, NEW i, i = Head(events).buy
    PROVE  /\ OrdersOK(orders', events')
           /\ i \in DOMAIN orders /\ IsLive(orders[i]) /\ orders[i] \in OrderRow /\ GoodOrder(orders[i])
           /\ DOMAIN orders' = DOMAIN orders
           /\ orders'[i] = [orders[i] EXCEPT !.status = "CANCELED"]
           /\ \A j \in DOMAIN orders \ {i} : orders'[j] = orders[j]
           /\ \A a : HeldFor(orders', a) = HeldFor(orders, a) - OwedBy(orders[i], a)
<1>0. /\ OrdersOK(orders, events) /\ events # <<>> /\ Head(events).kind = "closed"
      /\ events' = Tail(events)
  BY DEF DerivInd, SettleClose
<1>1. /\ i \in DOMAIN orders /\ orders[i] \in OrderRow /\ GoodOrder(orders[i]) /\ IsLive(orders[i])
      /\ orders[i].left = 0 /\ PendingIn(Tail(events), i) = 0
      /\ Head(events).sell = i
  BY <1>0, HeadFacts
<1>2. PICK o : o = [orders[i] EXCEPT !.status = "CANCELED"]
  OBVIOUS
<1>3. /\ o \in OrderRow /\ ~IsLive(o) /\ o.key = orders[i].key /\ o.side = orders[i].side
      /\ o.limit = orders[i].limit /\ o.left = orders[i].left
      /\ o.filled = orders[i].filled /\ o.qty = orders[i].qty /\ o.per = orders[i].per
  BY <1>1, <1>2 DEF OrderRow, IsLive
<1>4. GoodOrder(o) /\ QueueOf(o, 0)
  BY <1>1, <1>3 DEF GoodOrder, QueueOf
<1>5. orders \in Seq(OrderRow) /\ OrderList(orders)
  BY <1>0 DEF OrdersOK, OrderList
<1>6. orders' = [orders EXCEPT ![i] = o]
  <2>1. orders' = [orders EXCEPT ![i].status = "CANCELED"]
    BY DEF SettleClose
  <2> QED BY <1>1, <1>2, <2>1
<1>7. /\ orders' \in Seq(OrderRow) /\ DOMAIN orders' = DOMAIN orders
      /\ orders'[i] = o /\ \A j \in DOMAIN orders \ {i} : orders'[j] = orders[j]
  BY <1>1, <1>3, <1>5, <1>6, SeqExcept
<1>8. OrderList(orders')
  BY <1>4, <1>5, <1>7 DEF OrderList
<1>9. OrdersOK(orders', Tail(events))
  <2>1. ASSUME NEW j \in DOMAIN orders
        PROVE  /\ orders'[j].key = orders[j].key /\ orders'[j].side = orders[j].side
               /\ orders'[j].limit = orders[j].limit /\ orders'[j].left = orders[j].left
    BY <1>3, <1>7
  <2>2. ASSUME NEW j \in DOMAIN orders PROVE QueueOf(orders'[j], PendingIn(Tail(events), j))
    <3>1. CASE j = i
      BY <1>1, <1>4, <1>7, <3>1
    <3>2. CASE j # i
      <4>1. /\ QueueOf(orders[j], PendingIn(events, j))
            /\ PendingIn(events, j) = Demand(Head(events), j) + PendingIn(Tail(events), j)
            /\ PendingIn(Tail(events), j) \in Nat
        BY <1>0, HeadFacts DEF OrdersOK
      <4>2. Demand(Head(events), j) = 0
        BY <1>1, <3>2 DEF Demand
      <4>3. PendingIn(events, j) = PendingIn(Tail(events), j)
        BY <4>1, <4>2
      <4> QED BY <1>7, <3>2, <4>1, <4>3
    <3> QED BY <3>1, <3>2
  <2> QED BY <1>0, <1>7, <1>8, <2>1, <2>2, TailEvents
<1>10. ASSUME NEW a PROVE HeldFor(orders', a) = HeldFor(orders, a) - OwedBy(orders[i], a)
  <2>1. HeldFor(orders', a) = HeldFor(orders, a) - OwedBy(orders[i], a) + OwedBy(orders'[i], a)
    BY <1>1, <1>5, <1>7, <1>8, HeldChange
  <2>2. OwedBy(orders'[i], a) = 0
    BY <1>3, <1>7 DEF OwedBy
  <2>3. HeldFor(orders, a) \in Int /\ OwedBy(orders[i], a) \in Int
    BY <1>1, <1>5, HeldNat, OwedNat
  <2> QED BY <2>1, <2>2, <2>3
<1> QED BY <1>0, <1>1, <1>2, <1>7, <1>9, <1>10

LEMMA CloseStep == ASSUME DerivInd, SettleClose PROVE DerivInd'
<1>1. PICK i : i = Head(events).buy
  OBVIOUS
<1>2. /\ OrdersOK(orders', events') /\ i \in DOMAIN orders /\ IsLive(orders[i])
      /\ orders[i] \in OrderRow /\ GoodOrder(orders[i])
      /\ \A a : HeldFor(orders', a) = HeldFor(orders, a) - OwedBy(orders[i], a)
  BY <1>1, CloseOrders
<1>3. PICK b, m : b = orders[i].key[1] /\ m = orders[i].per * (orders[i].qty - orders[i].filled)
  OBVIOUS
<1>4. b \in Accounts
  BY <1>2, <1>3, KeyFacts DEF OrderRow
<1>5. \A a : OwedBy(orders[i], a) = IF b = a THEN m ELSE 0
  BY <1>2, <1>3 DEF OwedBy
<1>6. m \in Nat
  BY <1>2, <1>5, OwedNat
<1>7. cash' = [cash EXCEPT ![b].hold = @ - m] /\ CashPart /\ OrderList(orders')
  BY <1>1, <1>2, <1>3 DEF SettleClose, DerivInd, OrdersOK
<1>8. cash[b] \in CashRow /\ cash[b].hold = HeldFor(orders, b) /\ cash[b].hold <= cash[b].balance
  BY <1>4, <1>7 DEF CashPart
<1>9. PICK h \in Nat : h = cash[b].hold - m /\ h = HeldFor(orders', b)
  <2>1. HeldFor(orders', b) = cash[b].hold - m
    BY <1>2, <1>5, <1>8
  <2> QED BY <1>7, <2>1, HeldNat
<1>10. PICK c : c = [cash[b] EXCEPT !.hold = h]
  OBVIOUS
<1>11. c \in CashRow /\ c.hold = h /\ c.balance = cash[b].balance /\ c.hold <= c.balance
  BY <1>6, <1>8, <1>9, <1>10 DEF CashRow
<1>12. cash' = [cash EXCEPT ![b] = c]
  BY <1>7, <1>9, <1>10
<1>13. CashPart'
  <2>1. cash' \in [Accounts -> CashRow]
    BY <1>7, <1>11, <1>12 DEF CashPart
  <2>2. ASSUME NEW a \in Accounts
        PROVE  cash'[a].hold = HeldFor(orders', a) /\ cash'[a].hold <= cash'[a].balance
    <3>1. CASE a = b
      BY <1>4, <1>7, <1>9, <1>11, <1>12, <3>1 DEF CashPart
    <3>2. CASE a # b
      <4>1. cash'[a] = cash[a] /\ cash[a].hold = HeldFor(orders, a) /\ cash[a].hold <= cash[a].balance
        BY <1>7, <1>12, <3>2 DEF CashPart
      <4>2. HeldFor(orders, a) \in Nat
        BY HeldNat DEF DerivInd, OrdersOK
      <4> QED BY <1>2, <1>5, <3>2, <4>1, <4>2
    <3> QED BY <3>1, <3>2
  <2> QED BY <2>1, <2>2 DEF CashPart
<1>14. Positions(pos)' /\ RiskTypes' /\ DayTypes'
  BY RestSame DEF SettleClose
<1> QED BY <1>2, <1>13, <1>14 DEF DerivInd

LEMMA LeverageStep ==
    ASSUME DerivInd, NEW a \in Accounts, NEW l \in Leverages, SetLeverage(a, l)
    PROVE  DerivInd' /\ \A k \in Keys : pos'[k].qty = pos[k].qty /\ pos'[k].entry = pos[k].entry
<1>1. UNCHANGED <<cash, orders, events, risk, daily, overflow>>
  BY DEF SetLeverage
<1>2. pos' = [k \in Keys |-> IF k[1] = a /\ k[2] = Future
                             THEN [pos[k] EXCEPT !.leverage = l] ELSE pos[k]]
  BY DEF SetLeverage
<1>3. ASSUME NEW k \in Keys
      PROVE  SidedRow(k, pos'[k]) /\ pos'[k] \in Row
             /\ pos'[k].qty = pos[k].qty /\ pos'[k].entry = pos[k].entry
  <2>1. pos[k] \in Row /\ SidedRow(k, pos[k])
    BY DEF DerivInd, Positions
  <2>2. PICK r : r = [pos[k] EXCEPT !.leverage = l]
    OBVIOUS
  <2>3. r \in Row /\ r.qty = pos[k].qty /\ r.entry = pos[k].entry
    BY <2>1, <2>2 DEF Row
  <2>4. SidedRow(k, r)
    BY <2>1, <2>3 DEF SidedRow, GoodRow
  <2> QED BY <1>2, <2>1, <2>2, <2>3, <2>4
<1>4. Positions(pos')
  BY <1>2, <1>3 DEF Positions
<1>5. UNCHANGED <<mark, calls, tick, blind, phase, run, done, claimed, runs, usedPrices>>
  BY <1>1 DEF risk, daily
<1>6. RiskTypes' /\ DayTypes' /\ CashPart' /\ OrdersOK(orders', events')
  BY <1>1, <1>5 DEF DerivInd, RiskTypes, TickOK, DayTypes, CashPart
<1> QED BY <1>3, <1>4, <1>6 DEF DerivInd, Positions

----------------------------------------------------------------------------
\* Steps of the risk engine that leave the orders alone.
LEMMA QuietRisk ==
    ASSUME DerivInd, UNCHANGED <<money, orders, events, daily, overflow>>, RiskTypes'
    PROVE  DerivInd'
<1>1. UNCHANGED <<cash, pos, phase, run, done, claimed, runs, usedPrices>>
  BY DEF money, daily
<1> QED BY <1>1 DEF DerivInd, CashPart, Positions, DayTypes

LEMMA TickSet ==
    ASSUME TickOK, NEW t \in Ticks, NEW r, GoodTick(t[2], r), tick' = [tick EXCEPT ![t] = r]
    PROVE  TickOK' /\ tick'[t] = r /\ \A u \in Ticks \ {t} : tick'[u] = tick[u]
  BY DEF TickOK

LEMMA NoTickGood == \A a : GoodTick(a, NoTick) /\ NoTick.stage = "idle"
  BY DEF GoodTick, NoTick, TickRow

\* What a tick reads first.
LEMMA ReadFacts ==
    ASSUME DerivInd, NEW t \in Ticks, RiskReads(t)
    PROVE  \E r : /\ GoodTick(t[2], r) /\ tick' = [tick EXCEPT ![t] = r]
                  /\ r.stage = "read" /\ \A k \in FutureKeysOf(t[2]) : r.pos[k] = pos[k]
<1>1. PICK held : held = [k \in {k \in KeysOf(t[2]) : k[2] = Future} |-> pos[k]]
  OBVIOUS
<1>2. held \in PosRows(t[2]) /\ \A k \in FutureKeysOf(t[2]) : held[k] = pos[k]
  <2>1. \A k \in FutureKeysOf(t[2]) : pos[k] \in Row
    BY DEF DerivInd, Positions, FutureKeysOf, KeysOf
  <2> QED BY <1>1, <2>1 DEF FutureKeysOf, PosRows
<1>3. PICK c : /\ c \in IF CallsOf(t[2]) = {} THEN {0} ELSE CallsOf(t[2])
               /\ tick' = [tick EXCEPT ![t] =
                     [NoTick EXCEPT !.stage = "read", !.pos = held, !.mark = mark, !.call = c,
                                    !.due = c # 0 /\ calls[c].state = "due"]]
  BY <1>1 DEF RiskReads
<1>4. c \in Nat
  <2>1. calls \in Seq(CallRow)
    BY DEF DerivInd, RiskTypes
  <2> QED BY <1>3, <2>1 DEF CallsOf
<1>5. PICK due \in BOOLEAN : due = (c # 0 /\ calls[c].state = "due")
  OBVIOUS
<1>6. mark \in Nat
  BY ConstantTypes DEF DerivInd, RiskTypes
<1>7. PICK r : r = [NoTick EXCEPT !.stage = "read", !.pos = held, !.mark = mark, !.call = c, !.due = due]
  OBVIOUS
<1>8. tick' = [tick EXCEPT ![t] = r]
  <2>1. PICK r0 : r0 = [NoTick EXCEPT !.stage = "read", !.pos = held, !.mark = mark, !.call = c,
                                      !.due = c # 0 /\ calls[c].state = "due"]
    OBVIOUS
  <2>2. r0 = [NoTick EXCEPT !.stage = "read", !.pos = held, !.mark = mark, !.call = c, !.due = due]
    BY <1>5, <2>1
  <2>3. r0 = r
    BY <1>7, <2>2
  <2> QED BY <1>3, <2>1, <2>3
<1>9. r \in TickRow(t[2]) /\ r.stage = "read" /\ r.pos = held
  <2>1. PICK n : n = NoTick
    OBVIOUS
  <2>2. n \in TickRow(t[2])
    BY <2>1, NoTickGood DEF GoodTick
  <2>3. r = [n EXCEPT !.stage = "read", !.pos = held, !.mark = mark, !.call = c, !.due = due]
    BY <1>7, <2>1
  <2> QED BY <1>2, <1>4, <1>6, <2>2, <2>3 DEF TickRow
<1> QED BY <1>2, <1>8, <1>9 DEF GoodTick

LEMMA ReadStep ==
    ASSUME DerivInd, NEW t \in Ticks, RiskReads(t) PROVE DerivInd'
<1>1. TickOK'
  BY ReadFacts, TickSet DEF DerivInd, RiskTypes
<1>2. UNCHANGED <<mark, calls, blind>> /\ UNCHANGED <<money, orders, events, daily, overflow>>
  BY DEF RiskReads
<1>3. RiskTypes'
  BY <1>1, <1>2 DEF DerivInd, RiskTypes
<1> QED BY <1>2, <1>3, QuietRisk

\* ... and then.
LEMMA CheckFacts ==
    ASSUME DerivInd, NEW t \in Ticks, RiskChecks(t)
    PROVE  \E r : /\ GoodTick(t[2], r) /\ tick' = [tick EXCEPT ![t] = r]
                  /\ \/ r.stage = "idle"
                     \/ /\ tick[t].stage = "read" /\ ~LiquidationPending(t[2])
                        /\ r.stage = "checked" /\ r.pos = tick[t].pos
                        /\ r.missed = tick[t].missed
<1>1. CASE LiquidationPending(t[2])
  <2>1. tick' = [tick EXCEPT ![t] = NoTick]
    BY <1>1 DEF RiskChecks
  <2> QED BY <2>1, NoTickGood
<1>2. CASE ~LiquidationPending(t[2])
  <2>1. t[2] \in Accounts
    BY DEF Ticks
  <2>2. PICK net \in Int : net = cash[t[2]].balance - cash[t[2]].debt
    BY <2>1 DEF DerivInd, CashPart, CashRow
  <2>3. PICK r, g : r = tick[t] /\ g = [r EXCEPT !.stage = "checked", !.cash = net]
    OBVIOUS
  <2>4. GoodTick(t[2], r) /\ tick = [u \in Ticks |-> tick[u]]
    BY <2>3 DEF DerivInd, RiskTypes, TickOK
  <2>5. r.stage = "read"
    BY <2>3 DEF RiskChecks
  <2>6. tick' = [tick EXCEPT ![t] = g]
    BY <1>2, <2>2, <2>3 DEF RiskChecks
  <2>7. g \in TickRow(t[2]) /\ g.stage = "checked" /\ g.pos = r.pos /\ g.missed = r.missed
    BY <2>3, <2>4 DEF GoodTick, TickRow
  <2> QED BY <1>2, <2>3, <2>4, <2>5, <2>6, <2>7 DEF GoodTick
<1> QED BY <1>1, <1>2

LEMMA CheckStep ==
    ASSUME DerivInd, NEW t \in Ticks, RiskChecks(t) PROVE DerivInd'
<1>1. TickOK'
  BY CheckFacts, TickSet DEF DerivInd, RiskTypes
<1>2. UNCHANGED <<mark, calls, blind>> /\ UNCHANGED <<money, orders, events, daily, overflow>>
  BY DEF RiskChecks
<1>3. RiskTypes'
  BY <1>1, <1>2 DEF DerivInd, RiskTypes
<1> QED BY <1>2, <1>3, QuietRisk

LEMMA FailStep ==
    ASSUME DerivInd, NEW t \in Ticks, RiskFails(t) PROVE DerivInd'
<1>1. tick' = [tick EXCEPT ![t] = NoTick]
  BY DEF RiskFails, RiskEnds
<1>2. TickOK'
  BY <1>1, NoTickGood, TickSet DEF DerivInd, RiskTypes
<1>3. UNCHANGED <<mark, calls, blind>> /\ UNCHANGED <<money, orders, events, daily, overflow>>
  BY DEF RiskFails
<1>4. RiskTypes'
  BY <1>2, <1>3 DEF DerivInd, RiskTypes
<1> QED BY <1>3, <1>4, QuietRisk

\* Calls change their state and nothing else.
LEMMA CallSet ==
    ASSUME NEW cs \in Seq(CallRow), NEW c, NEW state \in {"open", "due", "closed"},
           NEW ns, ns = [cs EXCEPT ![c].state = state]
    PROVE  ns \in Seq(CallRow)
<1>1. CASE c \notin DOMAIN cs
  <2>1. ns = cs
    BY <1>1
  <2> QED BY <2>1
<1>2. CASE c \in DOMAIN cs
  <2>1. PICK r : r = [cs[c] EXCEPT !.state = state]
    OBVIOUS
  <2>2. cs[c] \in CallRow
    BY <1>2, SeqDomain
  <2>3. r \in CallRow
    BY <2>1, <2>2 DEF CallRow
  <2>4. ns = [cs EXCEPT ![c] = r]
    BY <2>1
  <2> QED BY <1>2, <2>3, <2>4, SeqExcept
<1> QED BY <1>1, <1>2

LEMMA DueStep ==
    ASSUME DerivInd, NEW c \in DOMAIN calls, CallFallsDue(c) PROVE DerivInd'
<1>1. calls' = [calls EXCEPT ![c].state = "due"]
      /\ UNCHANGED <<money, orders, events, mark, tick, blind, daily, overflow>>
  BY DEF CallFallsDue
<1>2. calls' \in Seq(CallRow)
  BY <1>1, CallSet DEF DerivInd, RiskTypes
<1>3. RiskTypes'
  BY <1>1, <1>2 DEF DerivInd, RiskTypes, TickOK
<1> QED BY <1>1, <1>3, QuietRisk

LEMMA MarkStep ==
    ASSUME DerivInd, NEW x \in Marks, MarkMoves(x) PROVE DerivInd'
<1>1. mark' = x /\ UNCHANGED <<money, orders, events, calls, tick, blind, daily, overflow>>
  BY DEF MarkMoves
<1>2. RiskTypes'
  BY <1>1 DEF DerivInd, RiskTypes, TickOK
<1> QED BY <1>1, <1>2, QuietRisk

----------------------------------------------------------------------------
\* ----- the daily settlement
LEMMA QuietDay ==
    ASSUME DerivInd, UNCHANGED <<money, orders, events, overflow>>, DayTypes', RiskTypes'
    PROVE  DerivInd'
  BY DEF DerivInd, CashPart, Positions, money

LEMMA RiskSame ==
    ASSUME DerivInd, UNCHANGED risk PROVE RiskTypes'
  BY DEF DerivInd, RiskTypes, TickOK, risk

LEMMA MaintenanceStep ==
    ASSUME DerivInd, BeginMaintenance \/ EndMaintenance \/ SettlementStops PROVE DerivInd'
<1>1. /\ UNCHANGED <<money, orders, events, overflow>> /\ UNCHANGED risk
      /\ UNCHANGED <<done, claimed, usedPrices>>
      /\ phase' \in {"trading", "maintenance", "after"}
      /\ run' \in {run, NoRun}
  BY DEF BeginMaintenance, EndMaintenance, SettlementStops, DerivInd, DayTypes
<1>2. DayTypes'
  BY <1>1 DEF DerivInd, DayTypes
<1> QED BY <1>1, <1>2, RiskSame, QuietDay

LEMMA OpenKeysType == \A s : OpenKeys(s) \in SUBSET Keys
  BY DEF OpenKeys

LEMMA StartStep ==
    ASSUME DerivInd, NEW x \in Marks, NEW v \in Premiums \cup {0}, StartSettlement(x, v)
    PROVE  DerivInd'
<1>1. UNCHANGED <<money, orders, events, overflow>> /\ UNCHANGED risk
      /\ UNCHANGED <<phase, done, claimed, usedPrices>>
  BY DEF StartSettlement
<1>2. run' = Settling(IF Future \in Pending THEN Future ELSE Option, [s \in Symbols |-> IF s = Future THEN x ELSE v], FALSE)
  BY DEF StartSettlement
<1>3. [s \in Symbols |-> IF s = Future THEN x ELSE v] \in [Symbols -> Nat]
  <2>1. x \in Nat /\ v \in Nat /\ Future # Option
    BY ConstantTypes
  <2> QED BY <2>1
<1>4. run' \in RunRow
  BY <1>2, <1>3, OpenKeysType DEF Settling, RunRow, Symbols
<1>5. DayTypes'
  BY <1>1, <1>4 DEF DerivInd, DayTypes
<1> QED BY <1>1, <1>5, RiskSame, QuietDay

LEMMA FinishStep ==
    ASSUME DerivInd, FinishSymbol PROVE DerivInd'
<1>1. UNCHANGED <<money, orders, events, mark, tick, blind, phase, claimed, overflow, usedPrices>>
  BY DEF FinishSymbol
<1>2. run \in RunRow
  BY DEF FinishSymbol, DerivInd, DayTypes
<1>3. run' = NoRun \/ run' = Settling(Option, run.prices, run.closed)
  BY DEF FinishSymbol
<1>4. run' = NoRun \/ run' \in RunRow
  BY <1>2, <1>3, OpenKeysType DEF Settling, RunRow, Symbols
<1>5. DOMAIN done' \subseteq Symbols
  <2>1. DOMAIN done' = DOMAIN done \cup {run.symbol}
    BY DEF FinishSymbol
  <2> QED BY <1>2, <2>1 DEF RunRow, DerivInd, DayTypes
<1>6. DayTypes'
  BY <1>1, <1>4, <1>5 DEF DerivInd, DayTypes
<1>7. calls' \in Seq(CallRow)
  <2>1. calls \in Seq(CallRow)
    BY DEF DerivInd, RiskTypes
  <2>2. calls' = calls \/ calls' = [c \in DOMAIN calls |-> [calls[c] EXCEPT !.state = "closed"]]
    BY DEF FinishSymbol, AllClosed
  <2>3. ASSUME NEW c \in DOMAIN calls PROVE [calls[c] EXCEPT !.state = "closed"] \in CallRow
    <3>1. PICK r : r = calls[c]
      OBVIOUS
    <3>2. r \in CallRow
      BY <2>1, <3>1
    <3> QED BY <3>1, <3>2 DEF CallRow
  <2>4. PICK n \in Nat : DOMAIN calls = 1..n
    BY <2>1
  <2>5. PICK f : f = [c \in DOMAIN calls |-> [calls[c] EXCEPT !.state = "closed"]]
    OBVIOUS
  <2>6. f \in [1..n -> CallRow]
    BY <2>3, <2>4, <2>5
  <2>7. f \in Seq(CallRow)
    BY <2>6
  <2> QED BY <2>1, <2>2, <2>5, <2>7
<1>8. RiskTypes'
  BY <1>1, <1>7 DEF DerivInd, RiskTypes, TickOK
<1> QED BY <1>1, <1>6, <1>8, QuietDay

\* What the settlement of a position does, if it still has to be done.
Settled(k, x, row, amount) ==
    /\ k \in Keys /\ x \in Nat /\ k \in run.todo /\ x = run.prices[k[2]]
    /\ SidedRow(k, row) /\ row.qty = 0 /\ row.entry = 0
    /\ amount \in Int
    /\ k[2] = Future => amount = FutureUnit * (pos[k].qty * x - SignedEntry(pos[k]))
    /\ k[2] = Option => amount = OptionUnit * (pos[k].qty * x)
    /\ pos' = [pos EXCEPT ![k] = row]
    /\ cash' = [cash EXCEPT ![k[1]] = AddCash(@, amount)]
    /\ usedPrices' = [usedPrices EXCEPT ![k[2]] = @ \cup {x}]

LEMMA PositionFacts ==
    ASSUME DerivInd, NEW k \in run.todo, SettlePosition(k)
    PROVE  /\ run' \in RunRow /\ claimed' \subseteq Keys
           /\ UNCHANGED <<orders, events, risk, phase, done, runs, overflow>>
           /\ \/ UNCHANGED <<money, usedPrices>>
              \/ \E x, row, amount : Settled(k, x, row, amount)
<1>1. run \in RunRow
  <2>1. run # NoRun
    BY DEF NoRun
  <2> QED BY <2>1 DEF DerivInd, DayTypes
<1>2. k \in Keys /\ run.prices \in [Symbols -> Nat] /\ k[2] \in Symbols
  BY <1>1, KeyFacts DEF RunRow
<1>3. PICK x \in Nat : x = run.prices[k[2]]
  BY <1>2
<1>4. PICK p, n, u : p = pos[k] /\ n = Abs(p.qty) /\ u = -p.qty
  OBVIOUS
<1>5. PICK side \in {"BUY", "SELL"} : side = IF p.qty > 0 THEN "SELL" ELSE "BUY"
  OBVIOUS
<1>6. PICK sym, fill : sym = k[2] /\ fill = ApplyFill(sym, p, side, x, n)
  OBVIOUS
<1>7. /\ p \in Row /\ SidedRow(k, p) /\ GoodRow(p) /\ p.qty \in Int /\ p.entry \in Nat
      /\ SignedEntry(p) \in Int
  BY <1>2, <1>4, RowNumbers DEF DerivInd, Positions, SidedRow
<1>8. PICK amount : amount = IF k[2] = Future THEN fill.realized ELSE p.qty * x * OptionUnit
  OBVIOUS
<1>9. /\ run' = [run EXCEPT !.todo = @ \ {k}, !.closed = @ \/ (k \notin claimed /\ p.qty # 0)]
      /\ claimed' = claimed \cup {k}
      /\ UNCHANGED <<orders, events, risk, phase, done, runs, overflow>>
      /\ IF k \notin claimed /\ p.qty # 0
         THEN /\ pos' = [pos EXCEPT ![k] = fill.pos]
              /\ cash' = [cash EXCEPT ![k[1]] = AddCash(@, amount)]
              /\ usedPrices' = [usedPrices EXCEPT ![k[2]] = @ \cup {x}]
         ELSE UNCHANGED <<money, usedPrices>>
  BY <1>3, <1>4, <1>5, <1>6, <1>8 DEF SettlePosition
<1>10. run' \in RunRow
  <2>1. PICK c \in BOOLEAN : c = (run.closed \/ (k \notin claimed /\ p.qty # 0))
    OBVIOUS
  <2>2. run' = [run EXCEPT !.todo = run.todo \ {k}, !.closed = c]
    BY <1>9, <2>1
  <2> QED BY <1>1, <2>2 DEF RunRow
<1>11. claimed' \subseteq Keys
  BY <1>2, <1>9 DEF DerivInd, DayTypes
<1>12. CASE k \notin claimed /\ p.qty # 0
  <2>1. n \in Nat \ {0} /\ Signed(side, n) = -p.qty
    BY <1>4, <1>5, <1>7, <1>12 DEF Abs, Signed
  <2>2. LegIs(sym, p, side, x, n, fill)
    BY <1>6, <1>7, <2>1, ApplyFillFacts
  <2>3. PICK row : row = fill.pos
    OBVIOUS
  <2>4. /\ GoodRow(row) /\ row.qty = 0 /\ row.entry = 0 /\ fill.realized \in Int
        /\ fill.realized = Unit(sym) * (SignedEntry(row) - SignedEntry(p) - Signed(side, n) * x)
    BY <1>7, <2>1, <2>2, <2>3 DEF LegIs, GoodRow
  <2>5. SignedEntry(row) = 0 /\ SidedRow(k, row)
    <3>1. row.qty = 0 /\ row.entry = 0
      BY <2>4
    <3>2. SignedEntry(row) = 0
      <4>1. row.entry \in Int /\ row.entry <= 0 /\ row.entry >= 0
        BY <3>1
      <4> QED BY <4>1 DEF SignedEntry
    <3>3. SidedRow(k, row)
      BY <2>4, <3>1 DEF SidedRow
    <3> QED BY <3>2, <3>3
  <2>6. PICK y \in Int : y = p.qty * x
    BY <1>7, MulInt
  <2>7. Signed(side, n) * x = -y
    BY <1>7, <2>1, <2>6
  <2>8. k[2] = Future => amount = FutureUnit * (p.qty * x - SignedEntry(p)) /\ amount \in Int
    BY <1>6, <1>7, <1>8, <2>4, <2>5, <2>6, <2>7 DEF Unit
  <2>9. k[2] # Future => amount = OptionUnit * (p.qty * x) /\ amount \in Int
    BY <1>8, <2>6, ConstantTypes, MulInt
  <2>10. Settled(k, x, row, amount)
    BY <1>2, <1>3, <1>4, <1>9, <1>12, <2>3, <2>4, <2>5, <2>8, <2>9, ConstantTypes DEF Settled
  <2> QED BY <1>9, <1>10, <1>11, <2>10
<1>13. CASE ~(k \notin claimed /\ p.qty # 0)
  BY <1>9, <1>10, <1>11, <1>13
<1> QED BY <1>12, <1>13

LEMMA PositionStep ==
    ASSUME DerivInd, NEW k \in run.todo, SettlePosition(k) PROVE DerivInd'
<1>1. /\ run' \in RunRow /\ claimed' \subseteq Keys
      /\ UNCHANGED <<orders, events, risk, phase, done, runs, overflow>>
  BY PositionFacts
<1>2. RiskTypes' /\ OrdersOK(orders', events')
  BY <1>1, RiskSame DEF DerivInd
<1>3. CASE UNCHANGED <<money, usedPrices>>
  BY <1>1, <1>2, <1>3 DEF DerivInd, DayTypes, CashPart, Positions, money
<1>4. ASSUME NEW x, NEW row, NEW amount, Settled(k, x, row, amount) PROVE DerivInd'
  <2>1. /\ k \in Keys /\ x \in Nat /\ SidedRow(k, row) /\ amount \in Int
        /\ pos' = [pos EXCEPT ![k] = row]
        /\ cash' = [cash EXCEPT ![k[1]] = AddCash(@, amount)]
        /\ usedPrices' = [usedPrices EXCEPT ![k[2]] = @ \cup {x}]
    BY <1>4 DEF Settled
  <2>2. Positions(pos')
    BY <2>1, PositionSet DEF DerivInd
  <2>3. CashPart'
    <3>1. PICK a \in Accounts : a = k[1]
      BY <2>1, KeyFacts
    <3>2. PICK g : g = AddCash(cash[a], amount)
      OBVIOUS
    <3>3. g \in CashRow /\ g.hold = cash[a].hold /\ g.hold <= g.balance
      BY <2>1, <3>2, AddCashFacts DEF DerivInd, CashPart
    <3>4. cash' = [cash EXCEPT ![a] = g]
      BY <2>1, <3>1, <3>2
    <3> QED BY <1>1, <3>3, <3>4 DEF DerivInd, CashPart
  <2>4. DayTypes'
    <3>1. PICK s \in Symbols : s = k[2]
      BY <2>1, KeyFacts
    <3>2. PICK T : T = usedPrices[s] \cup {x}
      OBVIOUS
    <3>3. T \subseteq Nat /\ IsFiniteSet(T)
      BY <2>1, <3>2, FS_AddElement DEF DerivInd, DayTypes
    <3>4. usedPrices' = [usedPrices EXCEPT ![s] = T]
      BY <2>1, <3>1, <3>2
    <3> QED BY <1>1, <3>3, <3>4 DEF DerivInd, DayTypes
  <2> QED BY <1>2, <2>2, <2>3, <2>4 DEF DerivInd, Positions
<1> QED BY <1>3, <1>4, PositionFacts

----------------------------------------------------------------------------
(***************************************************************************)
(* The decision of a risk tick                                             *)
(***************************************************************************)
LEMMA ListOfSet ==
    ASSUME NEW S, IsFiniteSet(S), NEW ks, ks = SetToSeq(S)
    PROVE  /\ ks \in Seq(S) /\ IsFiniteSet(DOMAIN ks)
           /\ \A i, j \in DOMAIN ks : ks[i] = ks[j] => i = j
<1>1. PICK n \in Nat : n = Cardinality(S) /\ ExistsBijection(1..n, S)
  BY FS_CardinalityType
<1>2. PICK f \in [1..n -> S] : IsInjective(f)
  BY <1>1 DEF ExistsBijection, Bijection, Injection
<1>3. ks \in [1..n -> S] /\ IsInjective(ks)
  BY <1>1, <1>2, Zenon DEF SetToSeq
<1>4. ks \in Seq(S)
  BY <1>3
<1> QED BY <1>3, <1>4, SeqDomain DEF IsInjective

LEMMA ConcatFacts ==
    ASSUME NEW T, NEW s \in Seq(T), NEW t \in Seq(T), NEW u, u = s \o t
    PROVE  /\ u \in Seq(T) /\ DOMAIN s \subseteq DOMAIN u
           /\ \A i \in DOMAIN s : u[i] = s[i]
           /\ \A i \in DOMAIN u \ DOMAIN s : i - Len(s) \in DOMAIN t /\ u[i] = t[i - Len(s)]
  OBVIOUS

LEMMA DeadlineQtyNat ==
    ASSUME NEW q \in Int, q # 0, NEW r, r.initial \in Int, r.shortfall \in Int
    PROVE  DeadlineQty(q, r) \in Nat \ {0} /\ DeadlineQty(q, r) <= Abs(q)
<1>1. PICK b \in Nat \ {0} : b = Abs(q)
  BY DEF Abs
<1>2. CASE r.initial <= 0 \/ r.shortfall >= r.initial
  <2>1. DeadlineQty(q, r) = b
    BY <1>1, <1>2 DEF DeadlineQty
  <2> QED BY <1>1, <2>1
<1>3. CASE ~(r.initial <= 0 \/ r.shortfall >= r.initial)
  <2>1. PICK d \in Nat \ {0} : d = r.initial
    BY <1>3
  <2>2. PICK v \in Int : v = b * r.shortfall
    BY <1>1, MulInt
  <2>3. PICK c \in Int : c = CeilDiv(v, d)
    BY <2>1, <2>2 DEF CeilDiv
  <2>4. DeadlineQty(q, r) = Larger(1, Smaller(b, c))
    BY <1>1, <1>3, <2>1, <2>2, <2>3 DEF DeadlineQty
  <2>5. PICK m \in Int : m = Smaller(b, c)
    BY <1>1, <2>3 DEF Smaller
  <2>6. m <= b
    BY <1>1, <2>3, <2>5 DEF Smaller
  <2>7. Larger(1, m) \in Nat \ {0} /\ Larger(1, m) <= b
    BY <1>1, <2>5, <2>6 DEF Larger
  <2> QED BY <1>1, <2>4, <2>5, <2>7
<1> QED BY <1>2, <1>3

LEMMA AssessTypes ==
    ASSUME NEW a \in Accounts, NEW ps \in PosRows(a), NEW x \in Nat, NEW net \in Int,
           NEW r, r = Assess(ps, x, net)
    PROVE  /\ r.open \subseteq FutureKeysOf(a) /\ r.emergency \subseteq r.open
           /\ \A k \in r.open : ps[k].qty \in Int /\ ps[k].qty # 0
           /\ r.initial \in Int /\ r.shortfall \in Int
<1>1. ps \in [FutureKeysOf(a) -> Row]
  BY DEF PosRows
<1> DEFINE open == {k \in DOMAIN ps : ps[k].qty # 0}
           f == [k \in open |-> Unrealized(ps[k], x)]
           g == [k \in open |-> FutureMarginPerContract(x, ps[k].leverage) * Abs(ps[k].qty)]
<1>3. open \subseteq FutureKeysOf(a) /\ IsFiniteSet(open)
  <2>1. FutureKeysOf(a) \subseteq Keys
    BY DEF FutureKeysOf, KeysOf
  <2>2. open \subseteq FutureKeysOf(a)
    BY <1>1
  <2> QED BY <2>1, <2>2, KeyFacts, FS_Subset
<1>4. \A k \in open : /\ ps[k].qty \in Int /\ ps[k].qty # 0 /\ ps[k].entry \in Nat
                      /\ ps[k].leverage \in Leverages
  BY <1>1 DEF Row
<1>5. \A k \in open : f[k] \in Int
  <2> TAKE k \in open
  <2>1. PICK p : p = ps[k] /\ p.qty \in Int /\ p.entry \in Nat
    BY <1>4
  <2>2. PICK m \in Int : m = Abs(p.qty) * x
    BY <2>1, AbsNat, MulInt
  <2>3. PICK sg \in Int : sg = IF p.qty > 0 THEN 1 ELSE -1
    OBVIOUS
  <2>4. sg * (m - p.entry) \in Int
    BY <2>1, <2>2, <2>3, MulInt
  <2>5. (sg * (m - p.entry)) * FutureUnit \in Int
    BY <2>4, ConstantTypes, MulInt
  <2>6. Unrealized(p, x) = (sg * (m - p.entry)) * FutureUnit
    BY <2>2, <2>3 DEF Unrealized
  <2> QED BY <2>1, <2>5, <2>6
<1>6. \A k \in open : g[k] \in Int
  <2> TAKE k \in open
  <2>1. PICK u \in Nat, v \in Nat : u = FutureMarginPerContract(x, ps[k].leverage) /\ v = Abs(ps[k].qty)
    BY <1>4, PerContractNat, AbsNat
  <2>2. u * v \in Int
    BY MulInt
  <2> QED BY <2>1, <2>2
<1>7. PICK maintenance, emergency :
        /\ emergency \subseteq open
        /\ r = [open |-> open,
                initial |-> Total(g),
                shortfall |-> IF open = {} THEN 0
                              ELSE Larger(0, Total(g) - (net + Total(f))),
                below |-> open # {} /\ net + Total(f) < maintenance,
                emergency |-> emergency]
  <2> DEFINE mm == Total(
            [k \in open |-> CeilBps(Abs(ps[k].qty) * x * FutureUnit,
                                    FutureMaintenanceBps(ps[k].leverage))])
             em == {k \in open : /\ ps[k].margin > 0
                                 /\ -Unrealized(ps[k], x) * BpsBase >= ps[k].margin * EmergencyBps}
  <2>1. em \subseteq open
    OBVIOUS
  <2>2. r = [open |-> open,
                initial |-> Total(g),
                shortfall |-> IF open = {} THEN 0
                              ELSE Larger(0, Total(g) - (net + Total(f))),
                below |-> open # {} /\ net + Total(f) < mm,
                emergency |-> em]
    BY DEF Assess
  <2> HIDE DEF mm, em, open, f, g
  <2> QED BY <2>1, <2>2
<1> HIDE DEF f, g, open
<1>8. PICK tf \in Int, tg \in Int : tf = Total(f) /\ tg = Total(g)
  <2>1. DOMAIN f = open /\ DOMAIN g = open
    BY DEF f, g
  <2>2. Total(f) \in Int /\ Total(g) \in Int
    BY <1>3, <1>5, <1>6, <2>1, SumType DEF Total
  <2> QED BY <2>2
<1>9. PICK eq \in Int : eq = net + tf
  BY <1>8
<1>10. r.initial = tg /\ r.open = open /\ r.emergency \subseteq open
       /\ r.shortfall = IF open = {} THEN 0 ELSE Larger(0, tg - eq)
  BY <1>7, <1>8, <1>9
<1>11. r.shortfall \in Int
  BY <1>10 DEF Larger
<1> QED BY <1>1, <1>3, <1>4, <1>8, <1>10, <1>11

\* The orders of a liquidation: one for each of some positions of the account.
Liquidating(a, qtys, ns) ==
    /\ OrderList(ns) /\ Extends(ns, orders)
    /\ \A i \in DOMAIN ns \ DOMAIN orders :
          /\ Fresh(ns[i]) /\ ns[i].forced /\ ns[i].key[1] = a
          /\ ns[i].key \in DOMAIN qtys /\ ns[i].qty = qtys[ns[i].key]
          /\ \A b : OwedBy(ns[i], b) = 0
    /\ \A i, j \in DOMAIN ns \ DOMAIN orders : ns[i].key = ns[j].key => i = j

LEMMA LiquidateFacts ==
    ASSUME DerivInd, NEW a \in Accounts, NEW ps, NEW x \in Nat,
           NEW qtys, DOMAIN qtys \subseteq FutureKeysOf(a),
           \A k \in DOMAIN qtys : qtys[k] \in Nat \ {0} /\ ps[k].qty \in Int,
           NEW list, list = SetToSeq(DOMAIN qtys),
           orders' = orders \o [i \in DOMAIN list |-> ForcedOrder(list[i], ps[list[i]].qty, qtys[list[i]], x)]
    PROVE  Liquidating(a, qtys, orders')
<1>1. PICK ks : ks = SetToSeq(DOMAIN qtys)
  OBVIOUS
<1>2. FutureKeysOf(a) \subseteq Keys /\ \A k \in FutureKeysOf(a) : k[1] = a /\ k[2] = Future
  BY DEF FutureKeysOf, KeysOf
<1>3. IsFiniteSet(DOMAIN qtys)
  BY <1>2, KeyFacts, FS_Subset
<1>4. ks \in Seq(DOMAIN qtys) /\ \A i, j \in DOMAIN ks : ks[i] = ks[j] => i = j
  BY <1>1, <1>3, ListOfSet
<1> DEFINE new == [i \in DOMAIN ks |-> ForcedOrder(ks[i], ps[ks[i]].qty, qtys[ks[i]], x)]
<1>6. orders' = orders \o new
  BY <1>1
<1> DEFINE Order(k) == ForcedOrder(k, ps[k].qty, qtys[k], x)
           Right(k, o) == /\ o \in OrderRow /\ GoodOrder(o) /\ Fresh(o) /\ o.forced /\ o.key = k
                          /\ o.qty = qtys[k] /\ \A b : OwedBy(o, b) = 0
<1>7. ASSUME NEW k \in DOMAIN qtys PROVE Right(k, Order(k))
  <2>0. PICK q, o : q = ps[k].qty /\ o = Order(k)
    OBVIOUS
  <2>1. k \in Keys /\ k[2] # Option /\ qtys[k] \in Nat \ {0} /\ q \in Int
    BY <1>2, <2>0, ConstantTypes
  <2>2. PICK n \in Nat \ {0} : n = qtys[k]
    BY <2>1
  <2>3. PICK per \in Nat, forced \in BOOLEAN : per = 0 /\ forced = TRUE
    OBVIOUS
  <2>4. PICK lo \in Nat, hi \in Nat : lo = Larger(1, (x * 10) \div 11) /\ hi = CeilDiv(x * 11, 10)
    <3>1. (x * 10) \div 11 \in Nat
      BY DivNat, MulNat
    <3>2. CeilDiv(x * 11, 10) \in Nat
      BY CeilDivNat, MulNat
    <3> QED BY <3>1, <3>2 DEF Larger
  <2>5. PICK side \in {"BUY", "SELL"}, limit \in Nat : o = NewOrder(k, side, n, per, limit, forced)
    <3>1. CASE q > 0
      BY <2>0, <2>2, <2>3, <2>4, <3>1 DEF ForcedOrder
    <3>2. CASE ~(q > 0)
      BY <2>0, <2>2, <2>3, <2>4, <3>2 DEF ForcedOrder
    <3> QED BY <3>1, <3>2
  <2>6. FreshOrder(o, k, side, n, per, forced)
    BY <2>1, <2>5, NewOrderFacts
  <2>7. \A b : OwedBy(o, b) = 0
    BY <2>3, <2>6 DEF FreshOrder
  <2>8. Right(k, o)
    BY <2>2, <2>3, <2>6, <2>7 DEF FreshOrder
  <2> QED BY <2>0, <2>8
<1>8. ASSUME NEW i \in DOMAIN ks
      PROVE  /\ new[i] \in OrderRow /\ GoodOrder(new[i]) /\ Fresh(new[i]) /\ new[i].forced
             /\ new[i].key = ks[i] /\ ks[i][1] = a /\ \A b : OwedBy(new[i], b) = 0
             /\ ks[i] \in DOMAIN qtys /\ new[i].qty = qtys[ks[i]]
  <2>1. ks[i] \in DOMAIN qtys
    BY <1>4
  <2>2. PICK k \in DOMAIN qtys : k = ks[i]
    BY <2>1
  <2>3. new[i] = Order(k)
    BY <2>2
  <2> HIDE DEF Right, Order
  <2>4. Right(k, Order(k))
    BY <1>7
  <2>5. PICK o : o = Order(k) /\ Right(k, o)
    BY <2>4
  <2>6. /\ o \in OrderRow /\ GoodOrder(o) /\ Fresh(o) /\ o.forced /\ o.key = k
        /\ o.qty = qtys[k] /\ \A b : OwedBy(o, b) = 0
    BY <2>5 DEF Right
  <2> HIDE DEF new
  <2> QED BY <1>2, <2>1, <2>2, <2>3, <2>5, <2>6
<1>9. new \in Seq(OrderRow) /\ DOMAIN new = DOMAIN ks
  <2>1. PICK n \in Nat : DOMAIN ks = 1..n
    BY <1>4
  <2>2. DOMAIN new = 1..n /\ new = [i \in 1..n |-> new[i]]
    BY <2>1
  <2> HIDE DEF new
  <2>3. new \in [1..n -> OrderRow]
    BY <1>8, <2>1, <2>2
  <2> QED BY <2>1, <2>2, <2>3
<1> HIDE DEF new
<1>10. OrderList(orders) /\ orders \in Seq(OrderRow)
  BY DEF DerivInd, OrdersOK, OrderList
<1>11. /\ orders' \in Seq(OrderRow) /\ DOMAIN orders \subseteq DOMAIN orders'
       /\ \A i \in DOMAIN orders : orders'[i] = orders[i]
       /\ \A i \in DOMAIN orders' \ DOMAIN orders :
             i - Len(orders) \in DOMAIN new /\ orders'[i] = new[i - Len(orders)]
  <2>1. PICK u, n : u = orders' /\ n = new
    OBVIOUS
  <2>2. u = orders \o n /\ n \in Seq(OrderRow)
    BY <1>6, <1>9, <2>1
  <2>3. /\ u \in Seq(OrderRow) /\ DOMAIN orders \subseteq DOMAIN u
        /\ \A i \in DOMAIN orders : u[i] = orders[i]
        /\ \A i \in DOMAIN u \ DOMAIN orders :
              i - Len(orders) \in DOMAIN n /\ u[i] = n[i - Len(orders)]
    BY <1>10, <2>2, ConcatFacts
  <2> QED BY <2>1, <2>3
<1>12. OrderList(orders')
  <2>1. ASSUME NEW i \in DOMAIN orders' PROVE GoodOrder(orders'[i])
    <3>1. CASE i \in DOMAIN orders
      BY <1>10, <1>11, <3>1 DEF OrderList
    <3>2. CASE i \notin DOMAIN orders
      BY <1>8, <1>9, <1>11, <3>2
    <3> QED BY <3>1, <3>2
  <2> QED BY <1>11, <2>1 DEF OrderList
<1>13. \A i \in DOMAIN orders' \ DOMAIN orders :
          /\ Fresh(orders'[i]) /\ orders'[i].forced /\ orders'[i].key[1] = a
          /\ orders'[i].key \in DOMAIN qtys /\ orders'[i].qty = qtys[orders'[i].key]
          /\ \A b : OwedBy(orders'[i], b) = 0
  <2> TAKE i \in DOMAIN orders' \ DOMAIN orders
  <2>1. PICK u : u = i - Len(orders)
    OBVIOUS
  <2>2. u \in DOMAIN ks /\ orders'[i] = new[u]
    BY <1>9, <1>11, <2>1
  <2>3. PICK o : o = new[u]
    OBVIOUS
  <2>4. /\ Fresh(o) /\ o.forced /\ o.key = ks[u] /\ ks[u][1] = a /\ ks[u] \in DOMAIN qtys
        /\ o.qty = qtys[ks[u]] /\ \A b : OwedBy(o, b) = 0
    BY <1>8, <2>2, <2>3
  <2> QED BY <2>2, <2>3, <2>4
<1>14. ASSUME NEW i \in DOMAIN orders' \ DOMAIN orders, NEW j \in DOMAIN orders' \ DOMAIN orders,
              orders'[i].key = orders'[j].key
       PROVE  i = j
  <2>1. PICK u, v : u = i - Len(orders) /\ v = j - Len(orders)
    OBVIOUS
  <2>2. /\ u \in DOMAIN ks /\ v \in DOMAIN ks /\ orders'[i] = new[u] /\ orders'[j] = new[v]
    BY <1>9, <1>11, <2>1
  <2>3. ks[u] = ks[v]
    BY <1>8, <1>14, <2>2
  <2>4. u = v
    BY <1>4, <2>2, <2>3
  <2>5. i \in Int /\ j \in Int /\ Len(orders) \in Int
    BY <1>10, <1>11
  <2> QED BY <2>1, <2>4, <2>5
<1> QED BY <1>11, <1>12, <1>13, <1>14 DEF Liquidating, Extends

\* What a decision leaves: a tick that has ended, or one that will liquidate at most
\* what it has read.
Decided(t, r) ==
    \/ r.stage = "idle"
    \/ /\ tick[t].stage = "checked" /\ r.stage = "liquidate"
       /\ r.pos = tick[t].pos /\ r.missed = tick[t].missed

LEMMA WillFacts ==
    ASSUME TickOK, NEW t \in Ticks, tick[t].stage = "checked",
           NEW ps, ps = tick[t].pos, NEW qtys, DOMAIN qtys \subseteq FutureKeysOf(t[2]),
           qtys = [k \in DOMAIN qtys |-> qtys[k]],
           \A k \in DOMAIN qtys : qtys[k] \in Nat \ {0} /\ qtys[k] <= Abs(ps[k].qty),
           tick' = [tick EXCEPT ![t].stage = "liquidate", ![t].qtys = qtys]
    PROVE  \E r : GoodTick(t[2], r) /\ tick' = [tick EXCEPT ![t] = r] /\ Decided(t, r)
<1>1. PICK o, r : o = tick[t] /\ r = [o EXCEPT !.stage = "liquidate", !.qtys = qtys]
  OBVIOUS
<1>2. GoodTick(t[2], o) /\ tick = [u \in Ticks |-> tick[u]]
  BY <1>1 DEF TickOK
<1>3. qtys \in QtyRows(t[2])
  <2>1. PICK S : S = DOMAIN qtys
    OBVIOUS
  <2>2. qtys \in [S -> Nat \ {0}] /\ S \in SUBSET FutureKeysOf(t[2])
    BY <2>1
  <2> QED BY <2>2 DEF QtyRows
<1>4. /\ r \in TickRow(t[2]) /\ r.stage = "liquidate" /\ r.pos = o.pos /\ r.qtys = qtys
      /\ r.missed = o.missed
  BY <1>1, <1>2, <1>3 DEF GoodTick, TickRow
<1>5. o.pos \in PosRows(t[2])
  BY <1>1, <1>2 DEF GoodTick
<1>6. GoodTick(t[2], r)
  BY <1>1, <1>3, <1>4, <1>5 DEF GoodTick
<1>7. tick' = [tick EXCEPT ![t] = r]
  BY <1>1, <1>2
<1> QED BY <1>1, <1>4, <1>6, <1>7 DEF Decided

LEMMA DecideFacts ==
    ASSUME DerivInd, NEW t \in Ticks, RiskDecides(t)
    PROVE  \E r : GoodTick(t[2], r) /\ tick' = [tick EXCEPT ![t] = r] /\ Decided(t, r)
<1>1. PICK ps : ps = tick[t].pos
  OBVIOUS
<1>2. PICK r : r = Assess(ps, tick[t].mark, tick[t].cash)
  OBVIOUS
<1>3. tick[t].stage = "checked"
  BY DEF RiskDecides
<1>4. TickOK /\ t[2] \in Accounts
  BY DEF DerivInd, RiskTypes, Ticks
<1>5. ps \in PosRows(t[2]) /\ tick[t].mark \in Nat /\ tick[t].cash \in Int
  BY <1>1, <1>3, <1>4 DEF TickOK, GoodTick, TickRow
<1>6. /\ r.open \subseteq FutureKeysOf(t[2]) /\ r.emergency \subseteq r.open
      /\ \A k \in r.open : ps[k].qty \in Int /\ ps[k].qty # 0
      /\ r.initial \in Int /\ r.shortfall \in Int
  BY <1>2, <1>4, <1>5, AssessTypes
<1>7. \/ RiskEnds(t)
      \/ WillLiquidate(t, [k \in r.emergency |-> Abs(ps[k].qty)])
      \/ WillLiquidate(t, [k \in r.open |-> DeadlineQty(ps[k].qty, r)])
  BY <1>1, <1>2 DEF RiskDecides
<1>8. CASE RiskEnds(t)
  BY <1>8, NoTickGood DEF RiskEnds, Decided
<1>9. CASE WillLiquidate(t, [k \in r.emergency |-> Abs(ps[k].qty)])
  <2>1. PICK qtys : qtys = [k \in r.emergency |-> Abs(ps[k].qty)]
    OBVIOUS
  <2>2. /\ DOMAIN qtys \subseteq FutureKeysOf(t[2]) /\ qtys = [k \in DOMAIN qtys |-> qtys[k]]
        /\ \A k \in DOMAIN qtys : qtys[k] \in Nat \ {0} /\ qtys[k] <= Abs(ps[k].qty)
    BY <1>6, <2>1 DEF Abs
  <2>3. tick' = [tick EXCEPT ![t].stage = "liquidate", ![t].qtys = qtys]
    BY <1>9, <2>1 DEF WillLiquidate
  <2> QED BY <1>1, <1>3, <1>4, <2>2, <2>3, WillFacts
<1>10. CASE WillLiquidate(t, [k \in r.open |-> DeadlineQty(ps[k].qty, r)])
  <2>1. PICK qtys : qtys = [k \in r.open |-> DeadlineQty(ps[k].qty, r)]
    OBVIOUS
  <2>2. /\ DOMAIN qtys \subseteq FutureKeysOf(t[2]) /\ qtys = [k \in DOMAIN qtys |-> qtys[k]]
        /\ \A k \in DOMAIN qtys : qtys[k] \in Nat \ {0} /\ qtys[k] <= Abs(ps[k].qty)
    BY <1>6, <2>1, DeadlineQtyNat
  <2>3. tick' = [tick EXCEPT ![t].stage = "liquidate", ![t].qtys = qtys]
    BY <1>10, <2>1 DEF WillLiquidate
  <2> QED BY <1>1, <1>3, <1>4, <2>2, <2>3, WillFacts
<1> QED BY <1>7, <1>8, <1>9, <1>10

LEMMA DecideStep ==
    ASSUME DerivInd, NEW t \in Ticks, RiskDecides(t) PROVE DerivInd'
<1>1. TickOK'
  BY DecideFacts, TickSet DEF DerivInd, RiskTypes
<1>2. UNCHANGED <<mark, blind>> /\ UNCHANGED <<money, orders, events, daily, overflow>>
  BY DEF RiskDecides
<1>3. calls' \in Seq(CallRow)
  <2>1. calls \in Seq(CallRow)
    BY DEF DerivInd, RiskTypes
  <2>2. PICK c : c = tick[t].call
    OBVIOUS
  <2>3. Closed(c) \in Seq(CallRow)
    BY <2>1, CallSet DEF Closed
  <2>4. PICK new : new = [account |-> t[2], state |-> "open"]
    OBVIOUS
  <2>5. new \in CallRow
    BY <2>4 DEF CallRow, Ticks
  <2>6. calls' = Closed(c) \/ calls' = Append(calls, new) \/ calls' = calls
    BY <2>2, <2>4 DEF RiskDecides, WillLiquidate
  <2> QED BY <2>1, <2>3, <2>5, <2>6
<1>4. RiskTypes'
  BY <1>1, <1>2, <1>3 DEF DerivInd, RiskTypes
<1> QED BY <1>2, <1>4, QuietRisk

\* The orders a tick puts, which are for what it read at most, and what it leaves.
LEMMA PutFacts ==
    ASSUME DerivInd, NEW t \in Ticks, RiskLiquidates(t)
    PROVE  /\ Liquidating(t[2], tick[t].qtys, orders')
           /\ tick[t].stage = "liquidate" /\ tick[t].pos \in PosRows(t[2])
           /\ \A k \in DOMAIN tick[t].qtys : /\ k \in FutureKeysOf(t[2])
                                             /\ tick[t].qtys[k] \in Nat \ {0}
                                             /\ tick[t].qtys[k] <= Abs(tick[t].pos[k].qty)
<1>1. PICK r, a : r = tick[t] /\ a = t[2]
  OBVIOUS
<1>2. r.stage = "liquidate" /\ GoodTick(a, r) /\ a \in Accounts
  BY <1>1 DEF RiskLiquidates, DerivInd, RiskTypes, TickOK, Ticks
<1>3. PICK ps, qtys, x : ps = r.pos /\ qtys = r.qtys /\ x = r.mark
  OBVIOUS
<1>4. /\ ps \in [FutureKeysOf(a) -> Row] /\ qtys \in QtyRows(a) /\ x \in Nat
      /\ \A k \in DOMAIN qtys : qtys[k] <= Abs(ps[k].qty)
  BY <1>2, <1>3 DEF GoodTick, PosRows, TickRow
<1>5. /\ DOMAIN qtys \subseteq FutureKeysOf(a)
      /\ \A k \in DOMAIN qtys : qtys[k] \in Nat \ {0}
  BY <1>4 DEF QtyRows
<1>6. \A k \in FutureKeysOf(a) : ps[k].qty \in Int
  BY <1>4 DEF Row
<1>7. PICK list : list = SetToSeq(DOMAIN qtys)
  OBVIOUS
<1>8. orders' = orders \o [i \in DOMAIN list |-> ForcedOrder(list[i], ps[list[i]].qty, qtys[list[i]], x)]
  BY <1>1, <1>3, <1>7 DEF RiskLiquidates
<1>9. Liquidating(a, qtys, orders')
  BY <1>2, <1>4, <1>5, <1>6, <1>7, <1>8, LiquidateFacts
<1> QED BY <1>1, <1>2, <1>3, <1>4, <1>5, <1>9 DEF PosRows

LEMMA PutTicks ==
    ASSUME TickOK, NEW t \in Ticks, RiskLiquidates(t)
    PROVE  /\ TickOK' /\ tick'[t].stage = "idle"
           /\ \A u \in Ticks : /\ tick'[u].stage = "idle" \/ tick'[u] = tick[u] \/ tick'[u].missed
                               /\ u[2] = t[2] => tick'[u].stage = "idle" \/ tick'[u].missed
<1>1. PICK nt : nt = Missing({t[2]})
  OBVIOUS
<1>2. /\ nt = [u \in Ticks |-> nt[u]]
      /\ \A u \in Ticks : /\ GoodTick(u[2], nt[u]) /\ (nt[u] = tick[u] \/ nt[u].missed)
                          /\ u[2] \in {t[2]} /\ tick[u].stage # "idle" => nt[u].missed
                          /\ nt[u].stage = tick[u].stage
  <2>1. PICK A : A = {t[2]}
    OBVIOUS
  <2>2. nt = Missing(A)
    BY <1>1, <2>1
  <2>3. /\ nt = [u \in Ticks |-> nt[u]]
        /\ \A u \in Ticks : /\ GoodTick(u[2], nt[u]) /\ (nt[u] = tick[u] \/ nt[u].missed)
                            /\ u[2] \in A /\ tick[u].stage # "idle" => nt[u].missed
                            /\ nt[u].stage = tick[u].stage
    BY <2>2, MissingFacts
  <2> QED BY <2>1, <2>3
<1>3. tick' = [nt EXCEPT ![t] = NoTick]
  BY <1>1 DEF RiskLiquidates
<1>4. tick' = [u \in Ticks |-> IF u = t THEN NoTick ELSE nt[u]]
  BY <1>2, <1>3
<1>5. GoodTick(t[2], NoTick) /\ NoTick.stage = "idle"
  BY NoTickGood
<1>6. TickOK'
  BY <1>2, <1>4, <1>5 DEF TickOK
<1> QED BY <1>2, <1>4, <1>5, <1>6

LEMMA PutStep ==
    ASSUME DerivInd, NEW t \in Ticks, RiskLiquidates(t) PROVE DerivInd'
<1>1. PICK a, qtys : a = t[2] /\ qtys = tick[t].qtys
  OBVIOUS
<1>2. Liquidating(a, qtys, orders') /\ a \in Accounts
  BY <1>1, PutFacts DEF Ticks
<1>3. TickOK'
  BY PutTicks DEF DerivInd, RiskTypes
<1>4. blind' = blind \cup {a} \/ blind' = blind
  BY <1>1 DEF RiskLiquidates
<1>5. UNCHANGED <<money, events, mark, calls, daily, overflow>>
  BY DEF RiskLiquidates
<1>6. RiskTypes'
  BY <1>2, <1>3, <1>4, <1>5 DEF DerivInd, RiskTypes
<1>7. UNCHANGED <<cash, pos, phase, run, done, claimed, runs, usedPrices, overflow>>
  BY <1>5 DEF money, daily
<1>8. DayTypes' /\ Positions(pos)'
  BY <1>7 DEF DerivInd, DayTypes, Positions
<1>9. OrdersOK(orders', events')
  BY <1>2, <1>5, OrdersGrow DEF DerivInd, Liquidating
<1>10. \A b : HeldFor(orders', b) = HeldFor(orders, b)
  BY <1>2, HeldFree DEF Liquidating, DerivInd, OrdersOK
<1>11. CashPart'
  BY <1>7, <1>10 DEF DerivInd, CashPart
<1> QED BY <1>6, <1>8, <1>9, <1>11 DEF DerivInd, Positions

----------------------------------------------------------------------------
(***************************************************************************)
(* The invariant holds; types and holds                                    *)
(***************************************************************************)
LEMMA EmptyOrders ==
    ASSUME NEW os, os = <<>>, NEW es, es = <<>>
    PROVE  OrdersOK(os, es) /\ \A a : HeldFor(os, a) = 0
<1>1. os \in Seq(OrderRow) /\ DOMAIN os = {} /\ es \in Seq(EventRow(os)) /\ DOMAIN es = {}
  OBVIOUS
<1>2. OrdersOK(os, es)
  BY <1>1 DEF OrdersOK, OrderList, EventsInv
<1>3. ASSUME NEW a PROVE HeldFor(os, a) = 0
  <2>1. PICK f : f = [i \in DOMAIN os |-> Owing(a)[os[i]]]
    OBVIOUS
  <2>2. HeldFor(os, a) = SumOver(f, {})
    BY <1>1, <2>1 DEF HeldFor, SumAlong
  <2> QED BY <2>2, SumEmpty
<1> QED BY <1>2, <1>3

LEMMA InitRow ==
    ASSUME NEW r, r = [qty |-> 0, entry |-> 0, margin |-> 0, leverage |-> 0], NEW k
    PROVE  r \in Row /\ SidedRow(k, r) /\ r.qty = 0 /\ r.entry = 0
<1>1. r \in Row /\ r.qty = 0 /\ r.entry = 0
  BY ConstantTypes DEF Row
<1> QED BY <1>1 DEF SidedRow, GoodRow

\* It holds at the start, ...
LEMMA DerivIndInit == DerivInit => DerivInd
<1> SUFFICES ASSUME DerivInit PROVE DerivInd
  OBVIOUS
<1>1. OrdersOK(orders, events) /\ \A a : HeldFor(orders, a) = 0
  BY EmptyOrders DEF DerivInit
<1>2. CashPart
  <2>1. ASSUME NEW a \in Accounts
        PROVE  cash[a] \in CashRow /\ cash[a].hold = 0 /\ cash[a].balance \in Nat
    BY <2>1, ConstantTypes DEF DerivInit, CashRow
  <2>2. cash \in [Accounts -> CashRow]
    BY <2>1 DEF DerivInit
  <2> QED BY <1>1, <2>1, <2>2 DEF CashPart
<1>3. Positions(pos)
  <2>1. PICK r : r = [qty |-> 0, entry |-> 0, margin |-> 0, leverage |-> 0]
    OBVIOUS
  <2>2. pos = [k \in Keys |-> r]
    BY <2>1 DEF DerivInit
  <2>3. \A k : r \in Row /\ SidedRow(k, r)
    BY <2>1, InitRow
  <2> QED BY <2>2, <2>3 DEF Positions
<1>4. RiskTypes
  <2>1. tick = [t \in Ticks |-> NoTick] /\ mark \in Marks /\ calls = <<>> /\ blind = {}
    BY ConstantTypes DEF DerivInit
  <2>2. TickOK
    BY <2>1, NoTickGood DEF TickOK
  <2> QED BY <2>1, <2>2 DEF RiskTypes
<1>5. DayTypes
  <2>1. \A s \in Symbols : IsFiniteSet(usedPrices[s])
    BY FS_EmptySet DEF DerivInit
  <2>2. usedPrices \in [Symbols -> SUBSET Nat]
    BY DEF DerivInit
  <2>3. DOMAIN done = {}
    BY DEF DerivInit
  <2> QED BY <2>1, <2>2, <2>3 DEF DerivInit, DayTypes
<1> QED BY <1>1, <1>2, <1>3, <1>4, <1>5 DEF DerivInd

LEMMA DerivIndStutter == ASSUME DerivInd, UNCHANGED derivVars PROVE DerivInd'
<1>1. UNCHANGED <<cash, pos, orders, events, mark, calls, tick, blind, phase, run, done, claimed, runs,
                  overflow, usedPrices>>
  BY DEF derivVars, money, risk, daily
<1> QED BY <1>1 DEF DerivInd, CashPart, Positions, RiskTypes, TickOK, DayTypes

\* ... and every step keeps it.
LEMMA DerivIndStep == ASSUME DerivInd, [DerivNext]_derivVars PROVE DerivInd'
<1>1. CASE Trading
  <2>1. ASSUME NEW k \in Keys, NEW side \in {"BUY", "SELL"}, NEW n \in 1..MaxQty,
               NEW x \in Prices(k[2]), Place(k, side, n, x)
        PROVE  DerivInd'
    BY <2>1, PlaceStep
  <2>2. ASSUME NEW b \in DOMAIN orders, NEW s \in DOMAIN orders, NEW n \in 1..MaxQty,
               NEW x \in Prices(orders[b].key[2]), Match(b, s, n, x)
        PROVE  DerivInd'
    <3>1. Took(orders') /\ OrdersOK(orders', events')
      BY <2>2, MatchTakes
    <3>2. UNCHANGED <<money, risk, daily, overflow>>
      BY <2>2 DEF Match
    <3> QED BY <3>1, <3>2, TakeStep
  <2>3. ASSUME NEW i \in DOMAIN orders, EngineCloses(i) PROVE DerivInd'
    <3>1. Took(orders') /\ OrdersOK(orders', events')
      BY <2>3, EngineCloseTakes
    <3>2. UNCHANGED <<money, risk, daily, overflow>>
      BY <2>3 DEF EngineCloses
    <3> QED BY <3>1, <3>2, TakeStep
  <2> QED BY <1>1, <2>1, <2>2, <2>3, TradeStep, CloseStep DEF Trading
<1>2. CASE Leveraging
  BY <1>2, LeverageStep DEF Leveraging
<1>3. CASE Risk
  BY <1>3, ReadStep, CheckStep, DecideStep, PutStep, FailStep, DueStep, MarkStep DEF Risk
<1>4. CASE Daily
  BY <1>4, MaintenanceStep, StartStep, PositionStep, FinishStep DEF Daily
<1>5. CASE UNCHANGED derivVars
  BY <1>5, DerivIndStutter
<1> QED BY <1>1, <1>2, <1>3, <1>4, <1>5 DEF DerivNext

\* Orders, events, holds and positions fit together in every state.
THEOREM DerivIndAlways == DerivSpec => []DerivInd
<1>1. DerivInit => DerivInd
  BY DerivIndInit
<1>2. DerivInd /\ [DerivNext]_derivVars => DerivInd'
  BY DerivIndStep
<1> QED BY <1>1, <1>2, PTL DEF DerivSpec

\* Every column has its type; users' long and short positions keep their sign and
\* a closed position keeps no entry value, through partial closes, turns over zero,
\* forced orders and runs of the daily settlement.
THEOREM DerivTypesAlways == DerivSpec => []DerivTypeOK
<1>1. DerivInd => DerivTypeOK
  <2> SUFFICES ASSUME DerivInd PROVE DerivTypeOK
    OBVIOUS
  <2>1. \A k \in Keys : /\ k[3] = "LONG" => pos[k].qty >= 0
                        /\ k[3] = "SHORT" => pos[k].qty <= 0
                        /\ pos[k].qty = 0 => pos[k].entry = 0
    BY DEF DerivInd, Positions, SidedRow, GoodRow
  <2> QED BY <2>1 DEF DerivInd, DerivTypeOK, CashPart, CashRow, Positions, Row, OrdersOK, OrderList,
                      OrderRow, RiskTypes, CallRow, DayTypes
<1> QED BY <1>1, DerivIndAlways, PTL

\* What an account has held is, to the won, what its live orders have reserved,
\* and its balance covers it: trades release what they fill, closes the rest, and
\* no loss is taken from what is held.
THEOREM HoldsAlwaysBacked == DerivSpec => []HoldsAreBacked
<1>1. DerivInd => HoldsAreBacked
  <2> SUFFICES ASSUME DerivInd, NEW a \in Accounts
               PROVE  /\ cash[a].hold = Total([i \in {i \in DOMAIN orders : orders[i].key[1] = a /\ Live(i)}
                                                |-> orders[i].per * Unfilled(i)])
                      /\ cash[a].hold <= cash[a].balance
    BY DEF HoldsAreBacked
  <2>1. OrderList(orders)
    BY DEF DerivInd, OrdersOK
  <2>2. cash[a].hold = HeldFor(orders, a) /\ cash[a].hold <= cash[a].balance
    BY DEF DerivInd, CashPart
  <2> QED BY <2>1, <2>2, HeldIsTotal
<1> QED BY <1>1, DerivIndAlways, PTL

----------------------------------------------------------------------------
(***************************************************************************)
(* Money: sums, the start, steps that leave it alone, trades               *)
(***************************************************************************)
LEMMA WorthSame ==
    ASSUME NEW cs, NEW ds,
           \A a \in Accounts : ds[a].balance = cs[a].balance /\ ds[a].debt = cs[a].debt
    PROVE  WorthOf(ds) = WorthOf(cs)
<1>1. [a \in Accounts |-> ds[a].balance - ds[a].debt - Balances[a]]
        = [a \in Accounts |-> cs[a].balance - cs[a].debt - Balances[a]]
  OBVIOUS
<1> QED BY <1>1 DEF WorthOf

\* The books, with what is still open valued at the settlement prices.
Books(w, qf, ne, sf, qo, so) == w + FutureUnit * (qf * sf - ne) + OptionUnit * qo * so = 0

\* The books add up, where each symbol was settled at one price at most.
\* A symbol with no price yet is worth nothing as a whole, so that the first
\* price may be any.
MoneyInd ==
    overflow = 0 =>
        /\ \A s \in Symbols : usedPrices[s] = {} => NetQtyOf(pos, s) = 0
        /\ (\A s \in Symbols : Cardinality(usedPrices[s]) <= 1) =>
              Books(WorthOf(cash), NetQtyOf(pos, Future), NetEntryOf(pos), SettlementPrice(Future),
                    NetQtyOf(pos, Option), SettlementPrice(Option))

LEMMA PriceType ==
    ASSUME DerivInd, NEW s \in Symbols PROVE SettlementPrice(s) \in Nat
  BY DEF DerivInd, DayTypes, SettlementPrice

LEMMA AtMostOne ==
    ASSUME NEW T, IsFiniteSet(T), Cardinality(T) <= 1, NEW x \in T PROVE T = {x}
<1>1. IsFiniteSet(T \ {x}) /\ Cardinality(T \ {x}) = Cardinality(T) - 1 /\ Cardinality(T) \in Nat
  BY FS_RemoveElement, FS_CardinalityType
<1>2. Cardinality(T \ {x}) \in Nat
  BY <1>1, FS_CardinalityType
<1>3. Cardinality(T \ {x}) = 0
  BY <1>1, <1>2
<1>4. T \ {x} = {}
  BY <1>1, <1>3, FS_EmptySet
<1> QED BY <1>4

LEMMA MoneyInit == ASSUME DerivInit PROVE MoneyInd
<1>1. DerivInd
  BY DerivIndInit
<1>2. WorthOf(cash) = 0
  <2> DEFINE f == [a \in Accounts |-> cash[a].balance - cash[a].debt - Balances[a]]
  <2>1. \A a \in Accounts : f[a] = 0
    BY ConstantTypes DEF DerivInit
  <2> HIDE DEF f
  <2> QED BY <2>1, ConstantTypes, SumOfZeros DEF WorthOf, f
<1>3. \A k \in Keys : pos[k].qty = 0 /\ pos[k].entry = 0
  BY DEF DerivInit
<1>4. ASSUME NEW s PROVE NetQtyOf(pos, s) = 0
  <2> DEFINE f == [k \in Keys |-> IF k[2] = s THEN pos[k].qty ELSE 0]
  <2>1. \A k \in Keys : f[k] = 0
    BY <1>3
  <2> HIDE DEF f
  <2> QED BY <2>1, KeyFacts, SumOfZeros DEF NetQtyOf, f
<1>5. NetEntryOf(pos) = 0
  <2> DEFINE f == [k \in Keys |-> IF k[2] = Future THEN SignedEntry(pos[k]) ELSE 0]
  <2>1. \A k \in Keys : f[k] = 0
    <3> TAKE k \in Keys
    <3>1. pos[k].entry \in Int /\ pos[k].entry <= 0 /\ pos[k].entry >= 0
      BY <1>3
    <3>2. SignedEntry(pos[k]) = 0
      BY <3>1 DEF SignedEntry
    <3> QED BY <3>2
  <2> HIDE DEF f
  <2> QED BY <2>1, KeyFacts, SumOfZeros DEF NetEntryOf, f
<1>6. Books(0, 0, 0, SettlementPrice(Future), 0, SettlementPrice(Option))
  <2>1. PICK sf \in Nat, so \in Nat : sf = SettlementPrice(Future) /\ so = SettlementPrice(Option)
    BY <1>1, PriceType DEF Symbols
  <2>2. PICK fu \in Nat, ou \in Nat : fu = FutureUnit /\ ou = OptionUnit
    BY ConstantTypes
  <2> QED BY <2>1, <2>2 DEF Books
<1> QED BY <1>2, <1>4, <1>5, <1>6 DEF MoneyInd

LEMMA MoneyQuiet ==
    ASSUME MoneyInd, UNCHANGED <<overflow, usedPrices>>,
           \A a \in Accounts : cash'[a].balance = cash[a].balance /\ cash'[a].debt = cash[a].debt,
           DerivInd, Positions(pos'),
           \A k \in Keys : pos'[k].qty = pos[k].qty /\ pos'[k].entry = pos[k].entry
    PROVE  MoneyInd'
<1>1. WorthOf(cash') = WorthOf(cash)
  BY WorthSame
<1>2. (\A s : NetQtyOf(pos', s) = NetQtyOf(pos, s)) /\ NetEntryOf(pos') = NetEntryOf(pos)
  BY NetSame DEF DerivInd, Positions
<1>3. \A s : SettlementPrice(s)' = SettlementPrice(s)
  BY DEF SettlementPrice
<1> QED BY <1>1, <1>2, <1>3 DEF MoneyInd

\* A trade moves money, entry values and quantities between two accounts.
LEMMA MoneyTrade == ASSUME MoneyInd, DerivInd, DerivInd', SettleTrade PROVE MoneyInd'
<1>1. PICK e : e = Head(events)
  OBVIOUS
<1>2. PICK bought, sold, mid :
              /\ LegsDone(e.buy, e.sell, e.qty, e.price, bought, sold, mid)
              /\ CashPaid(e.buy, e.sell, e.qty, e.price, bought, sold)
  BY <1>1, TradeLegs
<1>3. PICK b, s, n, x : b = e.buy /\ s = e.sell /\ n = e.qty /\ x = e.price
  OBVIOUS
<1>4. Traded(b, s, n, x) /\ LegsDone(b, s, n, x, bought, sold, mid)
  BY <1>1, <1>2, <1>3, TradeOrders
<1>5. PICK kb, ks : kb = orders[b].key /\ ks = orders[s].key
  OBVIOUS
<1>6. /\ kb \in Keys /\ ks \in Keys /\ kb[2] = ks[2] /\ n \in Nat \ {0} /\ x \in Nat
      /\ kb[1] \in Accounts /\ ks[1] \in Accounts /\ kb[2] \in {Future, Option}
  BY <1>4, <1>5, KeyFacts DEF Traded, Symbols
<1>7. SUFFICES ASSUME overflow' = 0 PROVE MoneyInd'
  BY DEF MoneyInd
<1>8. /\ overflow = 0 /\ bought.overflow = 0 /\ sold.overflow = 0
  <2>1. overflow \in Nat /\ bought.overflow \in Nat /\ sold.overflow \in Nat
        /\ overflow' = overflow + bought.overflow + sold.overflow
    BY <1>4 DEF LegsDone, FillEffect, DerivInd, DayTypes
  <2> QED BY <1>7, <2>1
<1>9. UNCHANGED usedPrices
  BY DEF SettleTrade, daily
<1>10. \A t : SettlementPrice(t)' = SettlementPrice(t)
  BY <1>9 DEF SettlementPrice
<1>11. PICK p, q, pb, qs : p = pos[kb] /\ q = mid[ks] /\ pb = bought.pos /\ qs = sold.pos
  OBVIOUS
<1>12. /\ mid = [pos EXCEPT ![kb] = pb] /\ pos' = [mid EXCEPT ![ks] = qs]
       /\ pos \in [Keys -> Row] /\ mid \in [Keys -> Row] /\ pos' \in [Keys -> Row]
       /\ FillEffect(kb, p, "BUY", x, n, bought) /\ FillEffect(ks, q, "SELL", x, n, sold)
  BY <1>4, <1>5, <1>11 DEF LegsDone, Positions, DerivInd
<1>13. /\ pb \in Row /\ qs \in Row /\ p \in Row /\ q \in Row
  BY <1>6, <1>11, <1>12 DEF FillEffect, SidedRow, GoodRow
<1>14. /\ pb.qty = p.qty + n /\ qs.qty = q.qty - n
       /\ bought.realized = Unit(kb[2]) * (SignedEntry(pb) - SignedEntry(p) - n * x)
       /\ sold.realized = Unit(ks[2]) * (SignedEntry(qs) - SignedEntry(q) - (-n) * x)
       /\ bought.realized \in Int /\ sold.realized \in Int
  <2>1. q.qty \in Int
    BY <1>13, RowNumbers
  <2> QED BY <1>6, <1>8, <1>11, <1>12, <2>1 DEF FillEffect, Signed
<1>15. PICK ep \in Int, epb \in Int, eq \in Int, eqs \in Int :
          ep = SignedEntry(p) /\ epb = SignedEntry(pb) /\ eq = SignedEntry(q) /\ eqs = SignedEntry(qs)
  BY <1>13, RowNumbers
<1>16. NetMoved(pos, mid, kb) /\ NetMoved(mid, pos', ks) /\ mid[kb] = pb /\ pos'[ks] = qs
  <2>1. /\ \A l \in Keys \ {kb} : mid[l] = pos[l]
        /\ \A l \in Keys \ {ks} : pos'[l] = mid[l]
        /\ mid[kb] = pb /\ pos'[ks] = qs
    BY <1>6, <1>12
  <2> QED BY <2>1, <1>6, <1>12, NetMoves
<1>17. /\ \A t : NetQtyOf(pos', t) = NetQtyOf(pos, t)
       /\ NetEntryOf(pos') = NetEntryOf(pos) + (IF kb[2] = Future THEN (epb - ep) + (eqs - eq) ELSE 0)
  <2>1. /\ \A t : NetQtyOf(mid, t) = NetQtyOf(pos, t) + (IF kb[2] = t THEN pb.qty - p.qty ELSE 0)
        /\ \A t : NetQtyOf(pos', t) = NetQtyOf(mid, t) + (IF ks[2] = t THEN qs.qty - q.qty ELSE 0)
        /\ NetEntryOf(mid) = NetEntryOf(pos) + (IF kb[2] = Future THEN epb - ep ELSE 0)
        /\ NetEntryOf(pos') = NetEntryOf(mid) + (IF ks[2] = Future THEN eqs - eq ELSE 0)
    BY <1>11, <1>15, <1>16 DEF NetMoved
  <2>2. NetEntryOf(pos) \in Int /\ p.qty \in Int /\ q.qty \in Int
    BY <1>12, <1>13, NetTypes, RowNumbers
  <2>3. pb.qty - p.qty = n /\ qs.qty - q.qty = -n
    BY <1>6, <1>14, <2>2
  <2>4. ASSUME NEW t PROVE NetQtyOf(pos', t) = NetQtyOf(pos, t)
    <3>1. NetQtyOf(pos, t) \in Int
      BY <1>12, NetTypes
    <3> QED BY <1>6, <2>1, <2>3, <3>1
  <2>5. NetEntryOf(pos') = NetEntryOf(pos) + (IF kb[2] = Future THEN (epb - ep) + (eqs - eq) ELSE 0)
    BY <1>6, <1>15, <2>1, <2>2
  <2> QED BY <2>4, <2>5
<1>18. PICK D \in Int : /\ WorthOf(cash') = WorthOf(cash) + D
                        /\ kb[2] = Future => D = bought.realized + sold.realized
                        /\ kb[2] # Future => D = 0
  <2> DEFINE d == [a \in Accounts |-> PaidFor(b, s, n, x, bought, sold, a)]
  <2>1. CashMoved(d) /\ cash \in [Accounts -> CashRow] /\ cash' \in [Accounts -> CashRow]
    <3>1. CashMoved([a \in Accounts |-> PaidFor(e.buy, e.sell, e.qty, e.price, bought, sold, a)])
      BY <1>1, <1>2, TradeCash
    <3> QED BY <1>3, <3>1 DEF DerivInd, CashPart
  <2>2. PICK c \in Nat : c = x * n * OptionUnit
    BY <1>6, ConstantTypes, MulNat
  <2>3. PICK A \in Accounts, B \in Accounts : A = kb[1] /\ B = ks[1]
    BY <1>6
  <2>4. \A a \in Accounts : d[a] = IF kb[2] = Future
              THEN (IF A = a THEN bought.realized ELSE 0) + (IF B = a THEN sold.realized ELSE 0)
              ELSE ((IF B = a THEN 1 ELSE 0) - (IF A = a THEN 1 ELSE 0)) * x * n * OptionUnit
    BY <1>5, <2>3 DEF PaidFor
  <2>5. /\ 1 * x * n * OptionUnit = c /\ 0 * x * n * OptionUnit = 0
        /\ (-1) * x * n * OptionUnit = -c
    <3>1. PICK o \in Nat : o = OptionUnit
      BY ConstantTypes
    <3>2. PICK y \in Int : y = x * n
      BY <1>6, MulInt
    <3>3. (-1) * x = -x /\ (-x) * n = -y /\ (-y) * o = -(y * o)
      BY <1>6, <3>1, <3>2
    <3> QED BY <1>6, <2>2, <3>1, <3>2, <3>3
  <2>6. kb[2] # Future => /\ A # B => d[A] = -c /\ d[B] = c
                          /\ A = B => d[A] = 0
    BY <2>3, <2>4, <2>5
  <2>7. kb[2] = Future => /\ A # B => d[A] = bought.realized /\ d[B] = sold.realized
                          /\ A = B => d[A] = bought.realized + sold.realized
    BY <1>14, <2>3, <2>4
  <2>8. \A a \in Accounts \ {A, B} : d[a] = 0
    BY <2>4, <2>5
  <2> HIDE DEF d
  <2>9. WorthOf(cash') = WorthOf(cash) + (IF A = B THEN d[A] ELSE d[A] + d[B])
    <3>1. PICK cs, ds : cs = cash /\ ds = cash'
      OBVIOUS
    <3>2. Gained(cs, ds, d) /\ cs \in [Accounts -> CashRow] /\ ds \in [Accounts -> CashRow]
      BY <2>1, <3>1 DEF CashMoved, Gained
    <3>3. WorthMoved(cs, ds, d, A, B)
      BY <2>8, <3>2, WorthMoves
    <3> QED BY <3>1, <3>3 DEF WorthMoved
  <2>10. PICK D : D = IF A = B THEN d[A] ELSE d[A] + d[B]
    OBVIOUS
  <2>11. (kb[2] = Future => D = bought.realized + sold.realized) /\ (kb[2] # Future => D = 0)
    BY <1>14, <2>2, <2>6, <2>7, <2>10
  <2>12. D \in Int
    BY <1>14, <2>11
  <2> QED BY <2>9, <2>10, <2>11, <2>12
<1>19. kb[2] = Future => D = FutureUnit * ((epb - ep) + (eqs - eq))
  <2> SUFFICES ASSUME kb[2] = Future PROVE D = FutureUnit * ((epb - ep) + (eqs - eq))
    OBVIOUS
  <2>1. PICK fu \in Int : fu = FutureUnit /\ Unit(kb[2]) = fu /\ Unit(ks[2]) = fu
    BY <1>6, ConstantTypes DEF Unit
  <2>2. PICK y \in Int : y = n * x /\ (-n) * x = -y
    BY <1>6, MulInt
  <2>3. D = fu * (epb - ep - y) + fu * (eqs - eq + y)
    BY <1>14, <1>15, <1>18, <2>1, <2>2
  <2>4. fu * (epb - ep - y) + fu * (eqs - eq + y) = fu * ((epb - ep) + (eqs - eq))
    BY <2>1, <2>2
  <2> QED BY <2>1, <2>3, <2>4
<1>20. ASSUME \A t \in Symbols : Cardinality(usedPrices'[t]) <= 1
       PROVE  Books(WorthOf(cash'), NetQtyOf(pos', Future), NetEntryOf(pos'), SettlementPrice(Future)',
                    NetQtyOf(pos', Option), SettlementPrice(Option)')
  <2>1. PICK w \in Int, qf \in Int, ne \in Int, sf \in Int, qo \in Int, so \in Int :
          /\ w = WorthOf(cash) /\ qf = NetQtyOf(pos, Future) /\ ne = NetEntryOf(pos)
          /\ qo = NetQtyOf(pos, Option) /\ sf = SettlementPrice(Future) /\ so = SettlementPrice(Option)
    <3>1. cash \in [Accounts -> CashRow]
      BY DEF DerivInd, CashPart
    <3> QED BY <3>1, <1>12, WorthType, NetTypes, PriceType DEF Symbols
  <2>2. Books(w, qf, ne, sf, qo, so)
    BY <1>8, <1>9, <1>20, <2>1 DEF MoneyInd
  <2>3. PICK fu \in Int, u \in Int, v \in Int : fu = FutureUnit /\ u = qf * sf /\ v = OptionUnit * qo * so
    BY <2>1, ConstantTypes, MulInt
  <2>4. w + fu * (u - ne) + v = 0
    BY <2>2, <2>3 DEF Books
  <2>5. PICK h \in Int : h = IF kb[2] = Future THEN (epb - ep) + (eqs - eq) ELSE 0
    BY <1>15
  <2>6. WorthOf(cash') = w + fu * h /\ NetEntryOf(pos') = ne + h
    BY <1>17, <1>18, <1>19, <2>1, <2>3, <2>5
  <2>7. (w + fu * h) + fu * (u - (ne + h)) + v = 0
    BY <2>1, <2>3, <2>4, <2>5
  <2>8. Books(w + fu * h, qf, ne + h, sf, qo, so)
    BY <2>1, <2>3, <2>7 DEF Books
  <2> QED BY <1>10, <1>17, <2>1, <2>6, <2>8
<1>21. \A t \in Symbols : usedPrices'[t] = {} => NetQtyOf(pos', t) = 0
  BY <1>8, <1>9, <1>17 DEF MoneyInd
<1> QED BY <1>20, <1>21 DEF MoneyInd

----------------------------------------------------------------------------
(***************************************************************************)
(* Money: the settlement of positions                                      *)
(***************************************************************************)
LEMMA CashGained ==
    ASSUME DerivInd, NEW a \in Accounts, NEW amount \in Int,
           cash' = [cash EXCEPT ![a] = AddCash(@, amount)], cash' \in [Accounts -> CashRow]
    PROVE  WorthOf(cash') = WorthOf(cash) + amount
<1>1. PICK cs, ds : cs = cash /\ ds = cash'
  OBVIOUS
<1>2. cs \in [Accounts -> CashRow] /\ ds \in [Accounts -> CashRow]
  BY <1>1 DEF DerivInd, CashPart
<1>3. PICK d : d = [b \in Accounts |-> IF b = a THEN amount ELSE 0]
  OBVIOUS
<1>4. Gained(cs, ds, d)
  <2>1. ASSUME NEW b \in Accounts
        PROVE  /\ d[b] \in Int
               /\ ds[b].balance - ds[b].debt = cs[b].balance - cs[b].debt + d[b]
    <3>1. CASE b = a
      <4>1. PICK c : c = cash[a]
        OBVIOUS
      <4>2. c \in CashRow /\ c.hold <= c.balance
        BY <4>1 DEF DerivInd, CashPart
      <4>3. PICK r : r = AddCash(c, amount)
        OBVIOUS
      <4>4. r.balance - r.debt = c.balance - c.debt + amount
        BY <4>2, <4>3, AddCashFacts
      <4>5. cs[b] = c /\ ds[b] = r /\ d[b] = amount
        BY <1>1, <1>2, <1>3, <3>1, <4>1, <4>3
      <4> QED BY <4>4, <4>5
    <3>2. CASE b # a
      <4>1. cs[b] = ds[b] /\ d[b] = 0 /\ cs[b] \in CashRow
        BY <1>1, <1>2, <1>3, <3>2
      <4>2. cs[b].balance \in Int /\ cs[b].debt \in Int
        BY <4>1 DEF CashRow
      <4> QED BY <4>1, <4>2
    <3> QED BY <3>1, <3>2
  <2> QED BY <2>1 DEF Gained
<1>5. d[a] = amount /\ \A b \in Accounts \ {a, a} : d[b] = 0
  BY <1>3
<1>6. WorthMoved(cs, ds, d, a, a)
  BY <1>2, <1>4, <1>5, WorthMoves
<1> QED BY <1>1, <1>5, <1>6 DEF WorthMoved

\* The settlement of a position turns what it is worth into money.
LEMMA MoneyPosition ==
    ASSUME MoneyInd, DerivInd, DerivInd', NEW k \in run.todo, SettlePosition(k) PROVE MoneyInd'
<1>1. overflow' = overflow
  BY PositionFacts
<1>2. CASE UNCHANGED <<money, usedPrices>>
  <2>1. UNCHANGED <<overflow, usedPrices, cash, pos>>
    BY <1>1, <1>2 DEF money
  <2>2. Positions(pos')
    BY DEF DerivInd, Positions
  <2> QED BY <2>1, <2>2, MoneyQuiet
<1>3. ASSUME NEW x, NEW row, NEW amount, Settled(k, x, row, amount) PROVE MoneyInd'
  <2>1. SUFFICES ASSUME overflow' = 0 PROVE MoneyInd'
    BY DEF MoneyInd
  <2>2. /\ k \in Keys /\ x \in Nat /\ SidedRow(k, row) /\ row.qty = 0 /\ row.entry = 0
        /\ amount \in Int
        /\ pos' = [pos EXCEPT ![k] = row]
        /\ cash' = [cash EXCEPT ![k[1]] = AddCash(@, amount)]
        /\ usedPrices' = [usedPrices EXCEPT ![k[2]] = @ \cup {x}]
    BY <1>3 DEF Settled
  <2>3. PICK u \in Symbols, a \in Accounts : u = k[2] /\ a = k[1]
    BY <2>2, KeyFacts
  <2>4. pos \in [Keys -> Row] /\ pos' \in [Keys -> Row] /\ row \in Row
    BY <2>2 DEF DerivInd, Positions, SidedRow, GoodRow
  <2>5. PICK g \in Int, se \in Int : g = pos[k].qty /\ se = SignedEntry(pos[k])
    BY <2>2, <2>4, RowNumbers
  <2>6. SignedEntry(row) = 0
    <3>1. row.entry \in Int /\ row.entry <= 0 /\ row.entry >= 0
      BY <2>2
    <3> QED BY <3>1 DEF SignedEntry
  <2>7. NetMoved(pos, pos', k) /\ pos'[k] = row
    <3>1. pos'[k] = row /\ \A l \in Keys \ {k} : pos'[l] = pos[l]
      BY <2>2, <2>4
    <3> QED BY <2>2, <2>4, <3>1, NetMoves
  <2>8. \A t : NetQtyOf(pos', t) = NetQtyOf(pos, t) - (IF u = t THEN g ELSE 0)
    <3>1. ASSUME NEW t PROVE NetQtyOf(pos', t) = NetQtyOf(pos, t) - (IF u = t THEN g ELSE 0)
      <4>1. NetQtyOf(pos', t) = NetQtyOf(pos, t) + (IF u = t THEN 0 - g ELSE 0)
        BY <2>2, <2>3, <2>5, <2>7 DEF NetMoved
      <4>2. NetQtyOf(pos, t) \in Int
        BY <2>4, NetTypes
      <4> QED BY <4>1, <4>2
    <3> QED BY <3>1
  <2>9. NetEntryOf(pos') = NetEntryOf(pos) - (IF u = Future THEN se ELSE 0)
    <3>1. NetEntryOf(pos') = NetEntryOf(pos) + (IF u = Future THEN 0 - se ELSE 0)
      BY <2>3, <2>5, <2>6, <2>7 DEF NetMoved
    <3>2. NetEntryOf(pos) \in Int
      BY <2>4, NetTypes
    <3> QED BY <3>1, <3>2
  <2>10. WorthOf(cash') = WorthOf(cash) + amount
    <3>1. cash' \in [Accounts -> CashRow] /\ cash' = [cash EXCEPT ![a] = AddCash(@, amount)]
      BY <2>2, <2>3 DEF DerivInd, CashPart
    <3> QED BY <2>2, <3>1, CashGained
  <2>11. /\ usedPrices \in [Symbols -> SUBSET Nat] /\ usedPrices'[u] = usedPrices[u] \cup {x}
         /\ \A t \in Symbols \ {u} : usedPrices'[t] = usedPrices[t]
    BY <2>2, <2>3 DEF DerivInd, DayTypes
  <2>12. overflow = 0 /\ \A t \in Symbols : usedPrices[t] = {} => NetQtyOf(pos, t) = 0
    BY <1>1, <2>1 DEF MoneyInd
  <2>13. \A t \in Symbols : usedPrices'[t] = {} => NetQtyOf(pos', t) = 0
    <3>1. ASSUME NEW t \in Symbols, usedPrices'[t] = {} PROVE NetQtyOf(pos', t) = 0
      <4>1. t # u
        BY <2>11, <3>1
      <4>2. NetQtyOf(pos', t) = NetQtyOf(pos, t) - 0 /\ NetQtyOf(pos, t) = 0
        BY <2>8, <2>11, <2>12, <3>1, <4>1
      <4> QED BY <4>2
    <3> QED BY <3>1
  <2>14. ASSUME \A t \in Symbols : Cardinality(usedPrices'[t]) <= 1
         PROVE  Books(WorthOf(cash'), NetQtyOf(pos', Future), NetEntryOf(pos'), SettlementPrice(Future)',
                      NetQtyOf(pos', Option), SettlementPrice(Option)')
    <3>1. usedPrices'[u] = {x}
      <4>1. IsFiniteSet(usedPrices'[u]) /\ x \in usedPrices'[u] /\ Cardinality(usedPrices'[u]) <= 1
        BY <2>11, <2>14 DEF DerivInd, DayTypes
      <4> QED BY <4>1, AtMostOne
    <3>2. usedPrices[u] = {} \/ usedPrices[u] = {x}
      BY <2>11, <3>1
    <3>3. \A t \in Symbols : Cardinality(usedPrices[t]) <= 1
      <4>1. Cardinality(usedPrices[u]) <= 1
        <5>1. Cardinality({}) = 0
          BY FS_EmptySet
        <5>2. Cardinality({x}) = 1
          BY FS_Singleton
        <5> QED BY <3>2, <5>1, <5>2
      <4> QED BY <2>11, <2>14, <4>1
    <3>4. Books(WorthOf(cash), NetQtyOf(pos, Future), NetEntryOf(pos), SettlementPrice(Future),
                NetQtyOf(pos, Option), SettlementPrice(Option))
      BY <2>12, <3>3 DEF MoneyInd
    <3>5. PICK w \in Int, qf \in Int, ne \in Int, sf \in Int, qo \in Int, so \in Int :
            /\ w = WorthOf(cash) /\ qf = NetQtyOf(pos, Future) /\ ne = NetEntryOf(pos)
            /\ qo = NetQtyOf(pos, Option) /\ sf = SettlementPrice(Future) /\ so = SettlementPrice(Option)
      <4>1. cash \in [Accounts -> CashRow]
        BY DEF DerivInd, CashPart
      <4> QED BY <4>1, <2>4, WorthType, NetTypes, PriceType DEF Symbols
    <3>6. SettlementPrice(u)' = x
      BY <3>1 DEF SettlementPrice
    <3>7. \A t \in Symbols \ {u} : SettlementPrice(t)' = SettlementPrice(t)
      <4>1. ASSUME NEW t \in Symbols \ {u} PROVE SettlementPrice(t)' = SettlementPrice(t)
        <5>1. usedPrices'[t] = usedPrices[t]
          BY <2>11
        <5>2. SettlementPrice(t)'
                = IF usedPrices'[t] = {} THEN 0 ELSE CHOOSE y \in usedPrices'[t] : TRUE
          BY DEF SettlementPrice
        <5> QED BY <5>1, <5>2 DEF SettlementPrice
      <4> QED BY <4>1
    <3>8. SettlementPrice(u) = x \/ NetQtyOf(pos, u) = 0
      BY <2>12, <3>2 DEF SettlementPrice
    <3>9. PICK fu \in Int, ou \in Int : fu = FutureUnit /\ ou = OptionUnit
      BY ConstantTypes
    <3>10. w + fu * (qf * sf - ne) + ou * qo * so = 0
      BY <3>4, <3>5, <3>9 DEF Books
    <3>11. CASE u = Future
      <4>0. Option \in Symbols \ {u} /\ Future # Option
        BY <3>11, ConstantTypes DEF Symbols
      <4>1. PICK v \in Int : v = ou * qo * so
        BY <3>5, <3>9, MulInt
      <4>2. PICK y \in Int, z \in Int : y = g * x /\ z = qf * x
        BY <2>2, MulInt
      <4>3. qf * sf = z
        <5>1. CASE sf = x
          BY <4>2, <5>1
        <5>2. CASE qf = 0
          BY <2>2, <3>5, <4>2, <5>2
        <5> QED BY <3>5, <3>8, <3>11, <5>1, <5>2
      <4>4. (qf - g) * x = z - y
        BY <2>2, <4>2
      <4>5. amount = fu * (y - se)
        BY <1>3, <2>3, <2>5, <3>9, <3>11, <4>2 DEF Settled
      <4>6. w + fu * (z - ne) + v = 0
        BY <3>10, <4>1, <4>3
      <4>7. (w + fu * (y - se)) + fu * ((z - y) - (ne - se)) + v = 0
        BY <4>2, <4>6
      <4>8. Books(w + amount, qf - g, ne - se, x, qo, so)
        BY <3>9, <4>1, <4>4, <4>5, <4>7 DEF Books
      <4>9. NetQtyOf(pos', Option) = qo
        BY <2>8, <3>5, <3>11, <4>0
      <4> QED BY <2>8, <2>9, <2>10, <3>5, <3>6, <3>7, <3>11, <4>0, <4>8, <4>9
    <3>12. CASE u = Option
      <4>0. Future \in Symbols \ {u} /\ Future # Option
        BY <3>12, ConstantTypes DEF Symbols
      <4>1. PICK v \in Int : v = fu * (qf * sf - ne)
        BY <3>5, <3>9, MulInt
      <4>2. PICK y \in Int, z \in Int : y = g * x /\ z = qo * x
        BY <2>2, MulInt
      <4>3. ou * qo * so = ou * z
        <5>1. CASE so = x
          BY <3>5, <3>9, <4>2, <5>1
        <5>2. CASE qo = 0
          BY <3>5, <3>9, <2>2, <4>2, <5>2
        <5> QED BY <3>5, <3>8, <3>12, <5>1, <5>2
      <4>4. ou * (qo - g) * x = ou * (z - y)
        <5>1. PICK h \in Int : h = qo - g
          OBVIOUS
        <5>2. h * x = z - y
          BY <2>2, <4>2, <5>1
        <5> QED BY <2>2, <3>9, <5>1, <5>2
      <4>5. amount = ou * y
        BY <1>3, <2>3, <2>5, <3>9, <3>12, <4>2 DEF Settled
      <4>6. w + v + ou * z = 0
        BY <3>10, <4>1, <4>3
      <4>7. (w + ou * y) + v + ou * (z - y) = 0
        BY <4>2, <4>6
      <4>8. Books(w + amount, qf, ne, sf, qo - g, x)
        BY <3>9, <4>1, <4>4, <4>5, <4>7 DEF Books
      <4>9. NetQtyOf(pos', Future) = qf /\ NetEntryOf(pos') = ne
        BY <2>8, <2>9, <3>5, <3>12, <4>0
      <4> QED BY <2>8, <2>10, <3>5, <3>6, <3>7, <3>12, <4>0, <4>8, <4>9
    <3> QED BY <3>11, <3>12 DEF Symbols
  <2> QED BY <2>13, <2>14 DEF MoneyInd
<1> QED BY <1>2, <1>3, PositionFacts

\* Holds change, money does not.
LEMMA HoldOnly ==
    ASSUME DerivInd, NEW a, NEW h, cash' = [cash EXCEPT ![a].hold = h]
    PROVE  \A b \in Accounts : cash'[b].balance = cash[b].balance /\ cash'[b].debt = cash[b].debt
<1>1. ASSUME NEW b \in Accounts
      PROVE  cash'[b].balance = cash[b].balance /\ cash'[b].debt = cash[b].debt
  <2>1. cash \in [Accounts -> CashRow] /\ cash[b] \in CashRow
    BY DEF DerivInd, CashPart
  <2>2. cash'[b] = cash[b] \/ cash'[b] = [cash[b] EXCEPT !.hold = h]
    BY <2>1
  <2> QED BY <2>1, <2>2 DEF CashRow
<1> QED BY <1>1

LEMMA MoneyStep ==
    ASSUME MoneyInd, DerivInd, DerivInd', [DerivNext]_derivVars PROVE MoneyInd'
<1>0. Positions(pos) /\ Positions(pos')
  BY DEF DerivInd, Positions
<1>1. ASSUME UNCHANGED <<money, overflow, usedPrices>> PROVE MoneyInd'
  <2>1. UNCHANGED <<cash, pos, overflow, usedPrices>>
    BY <1>1 DEF money
  <2> QED BY <1>0, <2>1, MoneyQuiet
<1>2. ASSUME NEW a, NEW h, cash' = [cash EXCEPT ![a].hold = h],
             UNCHANGED <<pos, overflow, usedPrices>>
      PROVE  MoneyInd'
  BY <1>0, <1>2, HoldOnly, MoneyQuiet
<1>3. CASE Trading
  <2>1. ASSUME NEW k \in Keys, NEW side \in {"BUY", "SELL"}, NEW n \in 1..MaxQty,
               NEW x \in Prices(k[2]), Place(k, side, n, x)
        PROVE  MoneyInd'
    <3>1. PICK a, h : a = k[1] /\ h = cash[a].hold + HoldPerUnit(k, side, n, x) * n
      OBVIOUS
    <3>2. cash' = [cash EXCEPT ![a].hold = h] /\ UNCHANGED <<pos, overflow, usedPrices>>
      BY <2>1, <3>1 DEF Place, daily
    <3> QED BY <1>2, <3>2
  <2>2. ASSUME NEW b \in DOMAIN orders, NEW s \in DOMAIN orders, NEW n \in 1..MaxQty,
               NEW x \in Prices(orders[b].key[2]), Match(b, s, n, x)
        PROVE  MoneyInd'
    BY <1>1, <2>2 DEF Match, daily
  <2>3. ASSUME NEW i \in DOMAIN orders, EngineCloses(i) PROVE MoneyInd'
    BY <1>1, <2>3 DEF EngineCloses, daily
  <2>4. CASE SettleClose
    <3>1. PICK o : o = orders[Head(events).buy]
      OBVIOUS
    <3>2. PICK a, h : a = o.key[1] /\ h = cash[a].hold - o.per * (o.qty - o.filled)
      OBVIOUS
    <3>3. cash' = [cash EXCEPT ![a].hold = h] /\ UNCHANGED <<pos, overflow, usedPrices>>
      BY <2>4, <3>1, <3>2 DEF SettleClose, daily
    <3> QED BY <1>2, <3>3
  <2> QED BY <1>3, <2>1, <2>2, <2>3, <2>4, MoneyTrade DEF Trading
<1>4. CASE Leveraging
  <2>1. PICK a \in Accounts, l \in Leverages : SetLeverage(a, l)
    BY <1>4 DEF Leveraging
  <2>2. \A k \in Keys : pos'[k].qty = pos[k].qty /\ pos'[k].entry = pos[k].entry
    BY <2>1, LeverageStep
  <2>3. UNCHANGED <<cash, overflow, usedPrices>>
    BY <2>1 DEF SetLeverage, daily
  <2> QED BY <1>0, <2>2, <2>3, MoneyQuiet
<1>5. CASE Risk
  <2>1. UNCHANGED <<money, overflow, usedPrices>>
    BY <1>5, RiskFrame DEF daily
  <2> QED BY <1>1, <2>1
<1>6. CASE Daily
  <2>1. CASE \E k \in run.todo : SettlePosition(k)
    BY <2>1, MoneyPosition
  <2>2. CASE ~\E k \in run.todo : SettlePosition(k)
    <3>1. UNCHANGED <<money, overflow, usedPrices>>
      BY <1>6, <2>2 DEF Daily, BeginMaintenance, EndMaintenance, StartSettlement, FinishSymbol,
                        SettlementStops
    <3> QED BY <1>1, <3>1
  <2> QED BY <2>1, <2>2
<1>7. CASE UNCHANGED derivVars
  BY <1>1, <1>7 DEF derivVars, daily, money
<1> QED BY <1>3, <1>4, <1>5, <1>6, <1>7 DEF DerivNext

LEMMA MoneyIndSound == ASSUME MoneyInd, DerivInd PROVE MoneyIsConserved
<1> SUFFICES ASSUME overflow = 0, \A s \in Symbols : Cardinality(usedPrices[s]) <= 1
             PROVE  Total([a \in Accounts |-> cash[a].balance - cash[a].debt - Balances[a]])
                      + FutureUnit * (NetQty(Future) * SettlementPrice(Future) - NetEntry)
                      + OptionUnit * NetQty(Option) * SettlementPrice(Option) = 0
  BY DEF MoneyIsConserved
<1>1. pos \in [Keys -> Row]
  BY DEF DerivInd, Positions
<1>2. (\A s : NetQty(s) = NetQtyOf(pos, s)) /\ NetEntry = NetEntryOf(pos)
  BY <1>1, NetIsTotal
<1>3. Total([a \in Accounts |-> cash[a].balance - cash[a].debt - Balances[a]]) = WorthOf(cash)
  BY DEF Total, WorthOf
<1> QED BY <1>2, <1>3 DEF MoneyInd, Books

\* Trades and the daily settlement make no money and lose none: balances less debts,
\* plus what is open at the settlement price, stay what they were at the start.
THEOREM MoneyAlwaysConserved == DerivSpec => []MoneyIsConserved
<1>1. DerivInit => MoneyInd
  BY MoneyInit
<1>2. MoneyInd /\ DerivInd /\ DerivInd' /\ [DerivNext]_derivVars => MoneyInd'
  BY MoneyStep
<1>3. MoneyInd /\ DerivInd => MoneyIsConserved
  BY MoneyIndSound
<1> QED BY <1>1, <1>2, <1>3, DerivIndAlways, PTL DEF DerivSpec

----------------------------------------------------------------------------
(***************************************************************************)
(* What orders are going to close: sums                                    *)
(***************************************************************************)
\* What the live orders of a side of a position still are going to take.
ClosedBy(o, k, side) == IF o.key = k /\ o.side = side /\ IsLive(o) THEN o.qty - o.filled ELSE 0
ClosingBy(k, side) == [o \in OrderRow |-> ClosedBy(o, k, side)]
ClosesOf(os, k, side) == SumAlong(os, ClosingBy(k, side))

\* Orders of this side close this position of a user.
Closes(k, side) == k[3] # "NET" /\ ~IsOpening(side, k[3])

NobodyElseCloses == (\A i \in DOMAIN orders : ~orders[i].forced) /\ usedPrices[Future] = {}

\* What is on its way to close a position is not more than there is of it.
ClosesFit ==
    \A k \in Keys, side \in {"BUY", "SELL"} :
        Closes(k, side) => ClosesOf(orders, k, side) <= Abs(pos[k].qty)

ClosingInd == NobodyElseCloses => overflow = 0 /\ ClosesFit

LEMMA ClosedNat ==
    ASSUME NEW o \in OrderRow, GoodOrder(o), NEW k, NEW side
    PROVE  ClosedBy(o, k, side) \in Nat
<1>1. o.qty \in Nat /\ o.filled \in Nat /\ o.filled <= o.qty
  BY DEF OrderRow, GoodOrder
<1> QED BY <1>1 DEF ClosedBy

LEMMA ClosingType == ASSUME NEW k, NEW side PROVE ClosingBy(k, side) \in [OrderRow -> Int]
<1>1. ASSUME NEW o \in OrderRow PROVE ClosedBy(o, k, side) \in Int
  <2>1. o.qty \in Int /\ o.filled \in Int
    BY DEF OrderRow
  <2> QED BY <2>1 DEF ClosedBy
<1> QED BY <1>1 DEF ClosingBy

LEMMA ClosesRows ==
    ASSUME NEW os, OrderList(os), NEW k, NEW side
    PROVE  \A i \in DOMAIN os : /\ os[i] \in OrderRow
                                /\ ClosingBy(k, side)[os[i]] = ClosedBy(os[i], k, side)
                                /\ ClosedBy(os[i], k, side) \in Nat
<1>1. \A i \in DOMAIN os : os[i] \in OrderRow /\ GoodOrder(os[i])
  BY SeqDomain DEF OrderList
<1> QED BY <1>1, ClosedNat DEF ClosingBy

LEMMA ClosesNat ==
    ASSUME NEW os, OrderList(os), NEW k, NEW side
    PROVE  /\ ClosesOf(os, k, side) \in Nat
           /\ \A i \in DOMAIN os : ClosedBy(os[i], k, side) <= ClosesOf(os, k, side)
<1>1. \A i \in DOMAIN os : /\ ClosingBy(k, side)[os[i]] \in Nat
                           /\ ClosingBy(k, side)[os[i]] = ClosedBy(os[i], k, side)
  BY ClosesRows
<1>2. /\ SumAlong(os, ClosingBy(k, side)) \in Nat
      /\ \A i \in DOMAIN os : ClosingBy(k, side)[os[i]] <= SumAlong(os, ClosingBy(k, side))
  <2>1. os \in Seq(OrderRow)
    BY DEF OrderList
  <2>2. PICK w \in [OrderRow -> Int] : w = ClosingBy(k, side)
    BY ClosingType
  <2> QED BY <1>1, <2>1, <2>2, AlongMember
<1> QED BY <1>1, <1>2 DEF ClosesOf

LEMMA ClosesSame ==
    ASSUME NEW os, OrderList(os), NEW ns, OrderList(ns), DOMAIN ns = DOMAIN os, NEW k, NEW side,
           \A i \in DOMAIN os : ClosedBy(ns[i], k, side) = ClosedBy(os[i], k, side)
    PROVE  ClosesOf(ns, k, side) = ClosesOf(os, k, side)
<1>1. \A i \in DOMAIN os : ClosingBy(k, side)[ns[i]] = ClosingBy(k, side)[os[i]]
  BY ClosesRows
<1> QED BY <1>1, AlongSame DEF ClosesOf

LEMMA ClosesChange ==
    ASSUME NEW os, OrderList(os), NEW ns, OrderList(ns), DOMAIN ns = DOMAIN os,
           NEW i \in DOMAIN os, \A j \in DOMAIN os \ {i} : ns[j] = os[j], NEW k, NEW side
    PROVE  ClosesOf(ns, k, side)
             = ClosesOf(os, k, side) - ClosedBy(os[i], k, side) + ClosedBy(ns[i], k, side)
<1>1. PICK w \in [OrderRow -> Int] : w = ClosingBy(k, side)
  BY ClosingType
<1>2. os \in Seq(OrderRow) /\ ns \in Seq(OrderRow)
  BY DEF OrderList
<1>3. SumAlong(ns, w) = SumAlong(os, w) - w[os[i]] + w[ns[i]]
  BY <1>2, AlongChange
<1>4. w[os[i]] = ClosedBy(os[i], k, side) /\ w[ns[i]] = ClosedBy(ns[i], k, side)
  BY <1>1, ClosesRows
<1> QED BY <1>1, <1>3, <1>4 DEF ClosesOf

LEMMA ClosesChangeTwo ==
    ASSUME NEW os, OrderList(os), NEW ns, OrderList(ns), DOMAIN ns = DOMAIN os,
           NEW i \in DOMAIN os, NEW l \in DOMAIN os, i # l,
           \A j \in DOMAIN os \ {i, l} : ns[j] = os[j], NEW k, NEW side
    PROVE  ClosesOf(ns, k, side)
             = ClosesOf(os, k, side) - ClosedBy(os[i], k, side) - ClosedBy(os[l], k, side)
                                     + ClosedBy(ns[i], k, side) + ClosedBy(ns[l], k, side)
<1>1. PICK w \in [OrderRow -> Int] : w = ClosingBy(k, side)
  BY ClosingType
<1>2. os \in Seq(OrderRow) /\ ns \in Seq(OrderRow)
  BY DEF OrderList
<1>3. SumAlong(ns, w) = SumAlong(os, w) - w[os[i]] - w[os[l]] + w[ns[i]] + w[ns[l]]
  BY <1>2, AlongChangeTwo
<1>4. /\ w[os[i]] = ClosedBy(os[i], k, side) /\ w[ns[i]] = ClosedBy(ns[i], k, side)
      /\ w[os[l]] = ClosedBy(os[l], k, side) /\ w[ns[l]] = ClosedBy(ns[l], k, side)
  BY <1>1, ClosesRows
<1> QED BY <1>1, <1>3, <1>4 DEF ClosesOf

LEMMA ClosesAppend ==
    ASSUME NEW os, OrderList(os), NEW o \in OrderRow, NEW k, NEW side
    PROVE  ClosesOf(Append(os, o), k, side) = ClosesOf(os, k, side) + ClosedBy(o, k, side)
<1>1. PICK w \in [OrderRow -> Int] : w = ClosingBy(k, side)
  BY ClosingType
<1>2. SumAlong(Append(os, o), w) = SumAlong(os, w) + w[o]
  BY AlongAppend DEF OrderList
<1>3. w[o] = ClosedBy(o, k, side)
  BY <1>1 DEF ClosingBy
<1> QED BY <1>1, <1>2, <1>3 DEF ClosesOf

LEMMA ClosesIsTotal ==
    ASSUME OrderList(orders), NEW k, k[3] # "NET", NEW side
    PROVE  UnfilledOf(ClosingOrders(k, side)) = ClosesOf(orders, k, side)
<1> DEFINE S == DOMAIN orders
           T == ClosingOrders(k, side)
           f == [i \in T |-> Unfilled(i)]
           h == [i \in S |-> ClosingBy(k, side)[orders[i]]]
<1>1. \A i \in S : h[i] = ClosedBy(orders[i], k, side) /\ ClosedBy(orders[i], k, side) \in Nat
  BY ClosesRows
<1>2. T \in SUBSET S /\ DOMAIN f = T
  BY DEF ClosingOrders
<1>3. \A i \in S : i \in T <=> orders[i].key = k /\ orders[i].side = side /\ IsLive(orders[i])
  BY DEF ClosingOrders, Live, IsLive
<1>4. \A i \in T : f[i] = ClosedBy(orders[i], k, side)
  BY <1>2, <1>3 DEF ClosedBy, Unfilled
<1>5. \A i \in S : h[i] = IF i \in T THEN f[i] ELSE 0
  BY <1>1, <1>3, <1>4 DEF ClosedBy
<1>6. \A i \in T : f[i] \in Int
  BY <1>1, <1>2, <1>4
<1>7. IsFiniteSet(S)
  BY SeqDomain DEF OrderList
<1>8. UnfilledOf(ClosingOrders(k, side)) = Total(f) /\ ClosesOf(orders, k, side) = SumOver(h, S)
  BY DEF UnfilledOf, ClosesOf, SumAlong
<1> HIDE DEF S, T, f, h
<1> QED BY <1>2, <1>5, <1>6, <1>7, <1>8, TotalOfPart

----------------------------------------------------------------------------
(***************************************************************************)
(* ... how steps change them                                               *)
(***************************************************************************)
\* The orders go on: none is lost, forgets that it is forced, or comes to life again.
OrdersGoOn ==
    \A i \in DOMAIN orders :
        /\ i \in DOMAIN orders'
        /\ orders'[i].key = orders[i].key /\ orders'[i].side = orders[i].side
        /\ orders'[i].forced = orders[i].forced
        /\ IsLive(orders'[i]) => IsLive(orders[i])

LEMMA GoesOnSame == ASSUME orders' = orders PROVE OrdersGoOn
  BY DEF OrdersGoOn

LEMMA GoesOnPlace ==
    ASSUME DerivInd, NEW o \in OrderRow, orders' = Append(orders, o)
    PROVE  OrdersGoOn
<1>1. orders \in Seq(OrderRow)
  BY DEF DerivInd, OrdersOK, OrderList
<1>2. \A i \in DOMAIN orders : i \in DOMAIN orders' /\ orders'[i] = orders[i]
  BY <1>1
<1> QED BY <1>2 DEF OrdersGoOn

LEMMA GoesOnTook == ASSUME Took(orders') PROVE OrdersGoOn
  BY DEF Took, OrdersGoOn, IsLive

\* What a fill of n makes of an order.
FillOf(o, n, g) ==
    /\ g.key = o.key /\ g.side = o.side /\ g.forced = o.forced
    /\ \A k, side : ClosedBy(g, k, side)
                      = ClosedBy(o, k, side) - (IF o.key = k /\ o.side = side THEN n ELSE 0)

LEMMA FillsOrder ==
    ASSUME NEW o \in OrderRow, IsLive(o), NEW n \in Nat \ {0}, n <= o.qty - o.filled,
           NEW g, g = Filled(o, n)
    PROVE  FillOf(o, n, g)
<1>1. PICK q \in Nat, f \in Nat : q = o.qty /\ f = o.filled
  BY DEF OrderRow
<1>2. PICK h \in Nat, st \in {"FILLED", "PARTIAL"} :
          h = f + n /\ st = IF f + n >= q THEN "FILLED" ELSE "PARTIAL"
  BY <1>1
<1>3. g = [o EXCEPT !.filled = h, !.status = st]
  BY <1>1, <1>2 DEF Filled
<1>4. /\ g.key = o.key /\ g.side = o.side /\ g.forced = o.forced
      /\ g.qty = q /\ g.filled = h /\ g.status = st
  BY <1>1, <1>3 DEF OrderRow
<1>5. ASSUME NEW k, NEW side
      PROVE  ClosedBy(g, k, side)
                = ClosedBy(o, k, side) - (IF o.key = k /\ o.side = side THEN n ELSE 0)
  <2>1. IsLive(g) <=> h < q
    BY <1>2, <1>4 DEF IsLive
  <2>2. h <= q
    BY <1>1, <1>2
  <2>3. ClosedBy(g, k, side) = IF o.key = k /\ o.side = side THEN q - h ELSE 0
    BY <1>4, <2>1, <2>2 DEF ClosedBy
  <2>4. ClosedBy(o, k, side) = IF o.key = k /\ o.side = side THEN q - f ELSE 0
    BY <1>1 DEF ClosedBy
  <2> QED BY <1>2, <2>3, <2>4
<1> QED BY <1>4, <1>5 DEF FillOf

\* What a trade does to the orders that close.
LEMMA TradeCloses ==
    ASSUME DerivInd, DerivInd', NEW b, NEW s, NEW n, NEW x,
           Traded(b, s, n, x), OrdersFilled(b, s, n)
    PROVE  /\ OrdersGoOn /\ DOMAIN orders' = DOMAIN orders
           /\ \A k, side : /\ ClosesOf(orders', k, side) =
                                ClosesOf(orders, k, side)
                                  - (IF k = orders[b].key /\ side = "BUY" THEN n ELSE 0)
                                  - (IF k = orders[s].key /\ side = "SELL" THEN n ELSE 0)
                           /\ k = orders[b].key /\ side = "BUY" => n <= ClosesOf(orders, k, side)
                           /\ k = orders[s].key /\ side = "SELL" => n <= ClosesOf(orders, k, side)
<1>1. /\ b \in DOMAIN orders /\ s \in DOMAIN orders /\ b # s /\ n \in Nat \ {0}
      /\ orders[b].side = "BUY" /\ orders[s].side = "SELL"
      /\ n <= orders[b].qty - orders[b].filled /\ n <= orders[s].qty - orders[s].filled
      /\ IsLive(orders[b]) /\ IsLive(orders[s])
  BY DEF Traded
<1>2. /\ OrderList(orders) /\ OrderList(orders') /\ orders[b] \in OrderRow /\ orders[s] \in OrderRow
  BY <1>1, SeqDomain DEF DerivInd, OrdersOK, OrderList
<1>3. /\ DOMAIN orders' = DOMAIN orders
      /\ orders'[b] = Filled(orders[b], n) /\ orders'[s] = Filled(orders[s], n)
      /\ \A i \in DOMAIN orders \ {b, s} : orders'[i] = orders[i]
  BY DEF OrdersFilled
<1>4. FillOf(orders[b], n, orders'[b]) /\ FillOf(orders[s], n, orders'[s])
  <2>1. PICK ob, gb, os, gs : /\ ob = orders[b] /\ gb = orders'[b]
                              /\ os = orders[s] /\ gs = orders'[s]
    OBVIOUS
  <2>2. FillOf(ob, n, gb) /\ FillOf(os, n, gs)
    BY <1>1, <1>2, <1>3, <2>1, FillsOrder
  <2> QED BY <2>1, <2>2
<1>5. OrdersGoOn
  <2>1. ASSUME NEW i \in DOMAIN orders
        PROVE  /\ i \in DOMAIN orders'
               /\ orders'[i].key = orders[i].key /\ orders'[i].side = orders[i].side
               /\ orders'[i].forced = orders[i].forced
               /\ IsLive(orders'[i]) => IsLive(orders[i])
    <3>1. CASE i \in {b, s}
      BY <1>1, <1>3, <1>4, <3>1 DEF FillOf
    <3>2. CASE i \notin {b, s}
      BY <1>3, <3>2
    <3> QED BY <3>1, <3>2
  <2> QED BY <2>1 DEF OrdersGoOn
<1>6. ASSUME NEW k, NEW side
      PROVE  /\ ClosesOf(orders', k, side) =
                    ClosesOf(orders, k, side)
                      - (IF k = orders[b].key /\ side = "BUY" THEN n ELSE 0)
                      - (IF k = orders[s].key /\ side = "SELL" THEN n ELSE 0)
             /\ k = orders[b].key /\ side = "BUY" => n <= ClosesOf(orders, k, side)
             /\ k = orders[s].key /\ side = "SELL" => n <= ClosesOf(orders, k, side)
  <2>1. ClosesOf(orders', k, side)
             = ClosesOf(orders, k, side)
                  - ClosedBy(orders[b], k, side) - ClosedBy(orders[s], k, side)
                  + ClosedBy(orders'[b], k, side) + ClosedBy(orders'[s], k, side)
    BY <1>1, <1>2, <1>3, ClosesChangeTwo
  <2>2. PICK cb \in Nat, cs \in Nat, c \in Nat :
           /\ cb = ClosedBy(orders[b], k, side) /\ cs = ClosedBy(orders[s], k, side)
           /\ c = ClosesOf(orders, k, side) /\ cb <= c /\ cs <= c
    BY <1>1, <1>2, ClosesNat, ClosesRows
  <2>3. /\ ClosedBy(orders'[b], k, side)
              = cb - (IF k = orders[b].key /\ side = "BUY" THEN n ELSE 0)
        /\ ClosedBy(orders'[s], k, side)
              = cs - (IF k = orders[s].key /\ side = "SELL" THEN n ELSE 0)
    BY <1>1, <1>4, <2>2 DEF FillOf
  <2>4. /\ k = orders[b].key /\ side = "BUY" => n <= cb
        /\ k = orders[s].key /\ side = "SELL" => n <= cs
    BY <1>1, <2>2 DEF ClosedBy
  <2> QED BY <1>1, <2>1, <2>2, <2>3, <2>4
<1> QED BY <1>3, <1>5, <1>6

\* A change that takes from no position more than from the orders that close it.
LEMMA ClosingKept ==
    ASSUME ClosingInd, OrdersGoOn, usedPrices'[Future] = {} => usedPrices[Future] = {},
           NobodyElseCloses' /\ NobodyElseCloses /\ overflow = 0 /\ ClosesFit
              => overflow' = 0 /\ ClosesFit'
    PROVE  ClosingInd'
<1>1. NobodyElseCloses' => NobodyElseCloses
  BY DEF NobodyElseCloses, OrdersGoOn
<1> QED BY <1>1 DEF ClosingInd

LEMMA ClosingQuiet ==
    ASSUME DerivInd, DerivInd', ClosingInd, OrdersGoOn, UNCHANGED <<overflow, usedPrices>>,
           \A k \in Keys : pos'[k].qty = pos[k].qty,
           NobodyElseCloses' => \A k \in Keys, side \in {"BUY", "SELL"} :
                                    Closes(k, side) => ClosesOf(orders', k, side)
                                                         <= ClosesOf(orders, k, side)
    PROVE  ClosingInd'
<1>1. ASSUME NobodyElseCloses', ClosesFit PROVE ClosesFit'
  <2>1. ASSUME NEW k \in Keys, NEW side \in {"BUY", "SELL"}, Closes(k, side)
        PROVE  ClosesOf(orders', k, side) <= Abs(pos'[k].qty)
    <3>1. PICK c \in Nat, d \in Nat : c = ClosesOf(orders, k, side) /\ d = ClosesOf(orders', k, side)
      BY ClosesNat DEF DerivInd, OrdersOK
    <3>2. PICK q \in Nat : q = Abs(pos[k].qty) /\ q = Abs(pos'[k].qty)
      BY AbsNat DEF DerivInd, Positions, Row
    <3>3. d <= c /\ c <= q
      BY <1>1, <2>1, <3>1, <3>2 DEF ClosesFit
    <3> QED BY <3>1, <3>2, <3>3
  <2> QED BY <2>1 DEF ClosesFit, Closes
<1> QED BY <1>1, ClosingKept

----------------------------------------------------------------------------
(***************************************************************************)
(* ... trades                                                              *)
(***************************************************************************)
\* What a leg does to the quantity of a position that is kept apart.
Effect(k, side, q, n, r) ==
    IF IsOpening(side, k[3]) THEN r = q + n ELSE n <= q => r = q - n

LEMMA LegQty ==
    ASSUME NEW k, k[3] # "NET", NEW p, NEW side, NEW x, NEW n, NEW leg,
           FillEffect(k, p, side, x, n, leg)
    PROVE  /\ Effect(k, side, Abs(p.qty), n, Abs(leg.pos.qty))
           /\ IsOpening(side, k[3]) \/ n <= Abs(p.qty) => leg.overflow = 0
  BY DEF FillEffect, Effect

LEMMA OneOfTwoSides ==
    ASSUME NEW k PROVE IsOpening("BUY", k[3]) <=> ~IsOpening("SELL", k[3])
  BY DEF IsOpening

\* A trade closes what was reserved for it; the second leg sees the first.
LEMMA ClosingTrade ==
    ASSUME ClosingInd, DerivInd, DerivInd', SettleTrade PROVE ClosingInd'
<1>1. PICK e : e = Head(events)
  OBVIOUS
<1>2. PICK bought, sold, mid : LegsDone(e.buy, e.sell, e.qty, e.price, bought, sold, mid)
  BY <1>1, TradeLegs
<1>3. PICK b, s, n, x : b = e.buy /\ s = e.sell /\ n = e.qty /\ x = e.price
  OBVIOUS
<1>4. /\ Traded(b, s, n, x) /\ OrdersFilled(b, s, n) /\ LegsDone(b, s, n, x, bought, sold, mid)
  BY <1>1, <1>2, <1>3, TradeOrders
<1>5. PICK kb, ks : kb = orders[b].key /\ ks = orders[s].key
  OBVIOUS
<1>6. kb \in Keys /\ ks \in Keys /\ n \in Nat \ {0}
  BY <1>4, <1>5 DEF Traded
<1>7. /\ OrdersGoOn
      /\ \A k, side : /\ ClosesOf(orders', k, side) =
                            ClosesOf(orders, k, side)
                              - (IF k = kb /\ side = "BUY" THEN n ELSE 0)
                              - (IF k = ks /\ side = "SELL" THEN n ELSE 0)
                      /\ k = kb /\ side = "BUY" => n <= ClosesOf(orders, k, side)
                      /\ k = ks /\ side = "SELL" => n <= ClosesOf(orders, k, side)
  BY <1>4, <1>5, TradeCloses
<1>8. /\ FillEffect(kb, pos[kb], "BUY", x, n, bought) /\ FillEffect(ks, mid[ks], "SELL", x, n, sold)
      /\ mid = [pos EXCEPT ![kb] = bought.pos] /\ pos' = [mid EXCEPT ![ks] = sold.pos]
      /\ overflow' = overflow + bought.overflow + sold.overflow
      /\ pos \in [Keys -> Row] /\ mid \in [Keys -> Row] /\ pos' \in [Keys -> Row]
  BY <1>4, <1>5 DEF LegsDone, Positions, DerivInd
<1>9. /\ mid[kb] = bought.pos /\ pos'[ks] = sold.pos
      /\ \A k \in Keys \ {kb} : mid[k] = pos[k]
      /\ \A k \in Keys \ {ks} : pos'[k] = mid[k]
  BY <1>6, <1>8
<1>10. \A k \in Keys : /\ Abs(pos[k].qty) \in Nat /\ Abs(mid[k].qty) \in Nat
                       /\ Abs(pos'[k].qty) \in Nat
  BY <1>8, AbsNat DEF Row
<1>11. UNCHANGED usedPrices
  BY DEF SettleTrade, daily
<1>12. ASSUME ClosesFit, overflow = 0 PROVE overflow' = 0 /\ ClosesFit'
  <2>1. \A k \in Keys, side \in {"BUY", "SELL"} :
            Closes(k, side) => ClosesOf(orders, k, side) <= Abs(pos[k].qty)
    BY <1>12 DEF ClosesFit
  <2>2. \A k, side : ClosesOf(orders, k, side) \in Nat
    BY ClosesNat DEF DerivInd, OrdersOK
  <2>3. kb[3] # "NET" => /\ bought.overflow = 0
                         /\ Effect(kb, "BUY", Abs(pos[kb].qty), n, Abs(mid[kb].qty))
    <3> SUFFICES ASSUME kb[3] # "NET"
                 PROVE  /\ bought.overflow = 0
                        /\ Effect(kb, "BUY", Abs(pos[kb].qty), n, Abs(mid[kb].qty))
      OBVIOUS
    <3>1. /\ Effect(kb, "BUY", Abs(pos[kb].qty), n, Abs(mid[kb].qty))
          /\ IsOpening("BUY", kb[3]) \/ n <= Abs(pos[kb].qty) => bought.overflow = 0
      BY <1>8, <1>9, LegQty
    <3>2. ~IsOpening("BUY", kb[3]) => n <= Abs(pos[kb].qty)
      <4>1. PICK c \in Nat, q \in Nat : c = ClosesOf(orders, kb, "BUY") /\ q = Abs(pos[kb].qty)
        BY <1>6, <1>10, <2>2
      <4>2. Closes(kb, "BUY") => c <= q
        BY <1>6, <2>1, <4>1
      <4>3. n <= c
        BY <1>7, <4>1
      <4> QED BY <1>6, <4>1, <4>2, <4>3 DEF Closes
    <3> QED BY <3>1, <3>2
  <2>4. Abs(mid[ks].qty) >= Abs(pos[ks].qty) \/ IsOpening("SELL", ks[3]) \/ ks[3] = "NET"
    <3>1. CASE ks # kb
      BY <1>6, <1>9, <1>10, <3>1
    <3>2. CASE ks = kb
      BY <1>6, <1>10, <2>3, <3>2, OneOfTwoSides DEF Effect
    <3> QED BY <3>1, <3>2
  <2>5. ks[3] # "NET" => /\ sold.overflow = 0
                         /\ Effect(ks, "SELL", Abs(mid[ks].qty), n, Abs(pos'[ks].qty))
    <3> SUFFICES ASSUME ks[3] # "NET"
                 PROVE  /\ sold.overflow = 0
                        /\ Effect(ks, "SELL", Abs(mid[ks].qty), n, Abs(pos'[ks].qty))
      OBVIOUS
    <3>1. /\ Effect(ks, "SELL", Abs(mid[ks].qty), n, Abs(pos'[ks].qty))
          /\ IsOpening("SELL", ks[3]) \/ n <= Abs(mid[ks].qty) => sold.overflow = 0
      BY <1>8, <1>9, LegQty
    <3>2. ~IsOpening("SELL", ks[3]) => n <= Abs(mid[ks].qty)
      <4>1. PICK c \in Nat, q \in Nat, m \in Nat :
               c = ClosesOf(orders, ks, "SELL") /\ q = Abs(pos[ks].qty) /\ m = Abs(mid[ks].qty)
        BY <1>6, <1>10, <2>2
      <4>2. Closes(ks, "SELL") => c <= q
        BY <1>6, <2>1, <4>1
      <4>3. n <= c
        BY <1>7, <4>1
      <4> QED BY <1>6, <2>4, <4>1, <4>2, <4>3 DEF Closes
    <3> QED BY <3>1, <3>2
  <2>6. overflow' = 0
    <3>1. bought.overflow = 0 /\ sold.overflow = 0
      BY <1>8, <2>3, <2>5 DEF FillEffect
    <3> QED BY <1>8, <1>12, <3>1
  <2>7. ASSUME NEW k \in Keys, NEW side \in {"BUY", "SELL"}, Closes(k, side)
        PROVE  ClosesOf(orders', k, side) <= Abs(pos'[k].qty)
    <3>0. PICK c \in Nat, q \in Nat, m \in Nat, r \in Nat :
             /\ c = ClosesOf(orders, k, side) /\ q = Abs(pos[k].qty)
             /\ m = Abs(mid[k].qty) /\ r = Abs(pos'[k].qty)
      BY <1>10, <2>2
    <3>1. c <= q
      BY <2>1, <2>7, <3>0
    <3>2. CASE side = "BUY"
      <4>1. /\ ClosesOf(orders', k, side) = c - (IF k = kb THEN n ELSE 0)
            /\ k = kb => n <= c
        BY <1>6, <1>7, <3>0, <3>2
      <4>2. ~IsOpening("BUY", k[3]) /\ IsOpening("SELL", k[3]) /\ k[3] # "NET"
        BY <2>7, <3>2, OneOfTwoSides DEF Closes
      <4>3. m = IF k = kb THEN q - n ELSE q
        <5>1. CASE k = kb
          BY <1>6, <2>3, <3>0, <3>1, <4>1, <4>2, <5>1 DEF Effect
        <5>2. CASE k # kb
          BY <1>9, <3>0, <5>2
        <5> QED BY <5>1, <5>2
      <4>4. r >= m
        <5>1. CASE k = ks
          BY <1>6, <2>5, <3>0, <4>2, <5>1 DEF Effect
        <5>2. CASE k # ks
          BY <1>9, <3>0, <5>2
        <5> QED BY <5>1, <5>2
      <4> QED BY <1>6, <3>0, <3>1, <4>1, <4>3, <4>4
    <3>3. CASE side = "SELL"
      <4>1. /\ ClosesOf(orders', k, side) = c - (IF k = ks THEN n ELSE 0)
            /\ k = ks => n <= c
        BY <1>6, <1>7, <3>0, <3>3
      <4>2. ~IsOpening("SELL", k[3]) /\ IsOpening("BUY", k[3]) /\ k[3] # "NET"
        BY <2>7, <3>3, OneOfTwoSides DEF Closes
      <4>3. m >= q
        <5>1. CASE k = kb
          BY <1>6, <2>3, <3>0, <4>2, <5>1 DEF Effect
        <5>2. CASE k # kb
          BY <1>9, <3>0, <5>2
        <5> QED BY <5>1, <5>2
      <4>4. r = IF k = ks THEN m - n ELSE m
        <5>1. CASE k = ks
          <6>1. n <= m
            BY <1>6, <3>0, <3>1, <4>1, <4>3, <5>1
          <6> QED BY <2>5, <3>0, <4>2, <5>1, <6>1 DEF Effect
        <5>2. CASE k # ks
          BY <1>9, <3>0, <5>2
        <5> QED BY <5>1, <5>2
      <4> QED BY <1>6, <3>0, <3>1, <4>1, <4>3, <4>4
    <3> QED BY <3>2, <3>3
  <2> QED BY <2>6, <2>7 DEF ClosesFit, Closes
<1> QED BY <1>7, <1>11, <1>12, ClosingKept

----------------------------------------------------------------------------
(***************************************************************************)
(* ... the other steps, and forced orders                                  *)
(***************************************************************************)
\* An order to close is accepted only up to what is closable.
LEMMA ClosingPlace ==
    ASSUME ClosingInd, DerivInd, DerivInd', NEW k \in Keys, NEW side \in {"BUY", "SELL"},
           NEW n \in 1..MaxQty, NEW x \in Prices(k[2]), Place(k, side, n, x)
    PROVE  ClosingInd'
<1>1. x \in Nat /\ n \in Nat \ {0} /\ Positions(pos) /\ OrderList(orders)
  BY PricesNat, ConstantTypes DEF DerivInd, OrdersOK
<1>2. PICK per \in Nat : per = HoldPerUnit(k, side, n, x)
  BY <1>1, HoldPerUnitInt DEF Place
<1>3. PICK o : o = NewOrder(k, side, n, per, x, FALSE)
  OBVIOUS
<1>4. /\ o \in OrderRow /\ o.key = k /\ o.side = side /\ o.qty = n /\ o.filled = 0 /\ IsLive(o)
  BY <1>1, <1>3 DEF NewOrder, OrderRow, IsLive
<1>5. orders' = Append(orders, o) /\ UNCHANGED <<pos, overflow, usedPrices>>
  BY <1>2, <1>3 DEF Place, daily
<1>6. OrdersGoOn
  BY <1>4, <1>5, GoesOnPlace
<1>7. ASSUME ClosesFit PROVE ClosesFit'
  <2>1. ASSUME NEW l \in Keys, NEW sd \in {"BUY", "SELL"}, Closes(l, sd)
        PROVE  ClosesOf(orders', l, sd) <= Abs(pos'[l].qty)
    <3>1. PICK c \in Nat : c = ClosesOf(orders, l, sd)
      BY <1>1, ClosesNat
    <3>2. PICK q \in Nat : q = Abs(pos[l].qty) /\ q = Abs(pos'[l].qty)
      BY <1>1, <1>5, AbsNat DEF Positions, Row
    <3>3. c <= q
      BY <1>7, <2>1, <3>1, <3>2 DEF ClosesFit
    <3>4. ClosesOf(orders', l, sd) = c + ClosedBy(o, l, sd)
      BY <1>1, <1>4, <1>5, <3>1, ClosesAppend
    <3>5. CASE l = k /\ sd = side
      <4>1. ClosedBy(o, l, sd) = n
        BY <1>1, <1>4, <3>5 DEF ClosedBy
      <4>2. k[3] # "NET" /\ ~IsOpening(side, k[3])
        BY <2>1, <3>5 DEF Closes
      <4>3. k[2] = Future
        BY <4>2, KeyFacts
      <4>4. n <= Closable(k, side)
        BY <1>2, <4>2, <4>3 DEF HoldPerUnit
      <4>5. Closable(k, side) = q - c
        BY <1>1, <3>1, <3>2, <3>5, <4>2, ClosesIsTotal DEF Closable
      <4> QED BY <1>1, <3>1, <3>2, <3>4, <4>1, <4>4, <4>5
    <3>6. CASE ~(l = k /\ sd = side)
      <4>1. ClosedBy(o, l, sd) = 0
        BY <1>4, <3>6 DEF ClosedBy
      <4> QED BY <3>1, <3>2, <3>3, <3>4, <4>1
    <3> QED BY <3>5, <3>6
  <2> QED BY <2>1 DEF ClosesFit, Closes
<1> QED BY <1>5, <1>6, <1>7, ClosingKept

LEMMA ClosingTook ==
    ASSUME ClosingInd, DerivInd, DerivInd', Took(orders'), UNCHANGED <<pos, overflow, usedPrices>>
    PROVE  ClosingInd'
<1>1. OrdersGoOn
  BY GoesOnTook
<1>2. ASSUME NEW k, NEW side PROVE ClosesOf(orders', k, side) <= ClosesOf(orders, k, side)
  <2>1. OrderList(orders) /\ OrderList(orders') /\ DOMAIN orders' = DOMAIN orders
    BY DEF DerivInd, OrdersOK, Took
  <2>2. ASSUME NEW i \in DOMAIN orders
        PROVE  ClosedBy(orders'[i], k, side) = ClosedBy(orders[i], k, side)
    BY DEF Took, ClosedBy, IsLive
  <2>3. ClosesOf(orders', k, side) = ClosesOf(orders, k, side)
    BY <2>1, <2>2, ClosesSame
  <2>4. ClosesOf(orders, k, side) \in Nat
    BY <2>1, ClosesNat
  <2> QED BY <2>3, <2>4
<1> QED BY <1>1, <1>2, ClosingQuiet

LEMMA ClosingSameOrders ==
    ASSUME ClosingInd, DerivInd, DerivInd', UNCHANGED <<orders, overflow, usedPrices>>,
           \A k \in Keys : pos'[k].qty = pos[k].qty
    PROVE  ClosingInd'
<1>1. \A k, side : ClosesOf(orders', k, side) <= ClosesOf(orders, k, side)
  <2>1. \A k, side : ClosesOf(orders, k, side) \in Nat
    BY ClosesNat DEF DerivInd, OrdersOK
  <2> QED BY <2>1
<1> QED BY <1>1, GoesOnSame, ClosingQuiet

LEMMA GoesOnClose ==
    ASSUME DerivInd, SettleClose
    PROVE  OrdersGoOn /\ \A k, side : ClosesOf(orders', k, side) <= ClosesOf(orders, k, side)
<1>1. PICK i : i = Head(events).buy
  OBVIOUS
<1>2. /\ OrdersOK(orders', events') /\ i \in DOMAIN orders
      /\ orders[i] \in OrderRow /\ GoodOrder(orders[i])
      /\ DOMAIN orders' = DOMAIN orders
      /\ orders'[i] = [orders[i] EXCEPT !.status = "CANCELED"]
      /\ \A j \in DOMAIN orders \ {i} : orders'[j] = orders[j]
  BY <1>1, CloseOrders
<1>3. PICK o, g : o = orders[i] /\ g = [o EXCEPT !.status = "CANCELED"]
  OBVIOUS
<1>4. g.key = o.key /\ g.side = o.side /\ g.forced = o.forced /\ ~IsLive(g)
  BY <1>2, <1>3 DEF OrderRow, IsLive
<1>5. OrdersGoOn
  <2>1. ASSUME NEW j \in DOMAIN orders
        PROVE  /\ j \in DOMAIN orders'
               /\ orders'[j].key = orders[j].key /\ orders'[j].side = orders[j].side
               /\ orders'[j].forced = orders[j].forced
               /\ IsLive(orders'[j]) => IsLive(orders[j])
    <3>1. CASE j = i
      BY <1>2, <1>3, <1>4, <3>1
    <3>2. CASE j # i
      BY <1>2, <3>2
    <3> QED BY <3>1, <3>2
  <2> QED BY <2>1 DEF OrdersGoOn
<1>6. ASSUME NEW k, NEW side PROVE ClosesOf(orders', k, side) <= ClosesOf(orders, k, side)
  <2>1. OrderList(orders) /\ OrderList(orders')
    BY <1>2 DEF DerivInd, OrdersOK
  <2>2. ClosesOf(orders', k, side)
           = ClosesOf(orders, k, side) - ClosedBy(orders[i], k, side) + ClosedBy(orders'[i], k, side)
    BY <1>2, <2>1, ClosesChange
  <2>3. PICK c \in Nat, d \in Nat : c = ClosesOf(orders, k, side) /\ d = ClosedBy(orders[i], k, side)
    BY <1>2, <2>1, ClosesNat, ClosedNat
  <2>4. ClosedBy(orders'[i], k, side) = 0
    BY <1>2, <1>3, <1>4 DEF ClosedBy
  <2> QED BY <2>2, <2>3, <2>4
<1> QED BY <1>5, <1>6

LEMMA GoesOnPut ==
    ASSUME DerivInd, NEW t \in Ticks, RiskLiquidates(t)
    PROVE  /\ OrdersGoOn
           /\ (\A i \in DOMAIN orders' : ~orders'[i].forced) =>
                 \A k, side : ClosesOf(orders', k, side) <= ClosesOf(orders, k, side)
<1>1. PICK a, qtys : Liquidating(a, qtys, orders')
  BY PutFacts
<1>2. \A k, side : ClosesOf(orders, k, side) \in Nat
  BY ClosesNat DEF DerivInd, OrdersOK
<1>3. OrdersGoOn
  BY <1>1 DEF Liquidating, Extends, OrdersGoOn
<1>4. ASSUME \A i \in DOMAIN orders' : ~orders'[i].forced, NEW k, NEW side
      PROVE  ClosesOf(orders', k, side) <= ClosesOf(orders, k, side)
  <2>1. DOMAIN orders' = DOMAIN orders /\ \A i \in DOMAIN orders : orders'[i] = orders[i]
    BY <1>1, <1>4 DEF Liquidating, Extends
  <2>2. OrderList(orders') /\ OrderList(orders)
    BY <1>1 DEF Liquidating, DerivInd, OrdersOK
  <2>3. ClosesOf(orders', k, side) = ClosesOf(orders, k, side)
    BY <2>1, <2>2, ClosesSame
  <2> QED BY <1>2, <2>3
<1> QED BY <1>3, <1>4

LEMMA ClosingPosition ==
    ASSUME ClosingInd, DerivInd, DerivInd', NEW k \in run.todo, SettlePosition(k) PROVE ClosingInd'
<1>1. UNCHANGED <<orders, overflow>>
  BY PositionFacts
<1>2. CASE UNCHANGED <<money, usedPrices>>
  BY <1>1, <1>2, ClosingSameOrders DEF money
<1>3. ASSUME NEW x, NEW row, NEW amount, Settled(k, x, row, amount) PROVE ClosingInd'
  <2>1. /\ k \in Keys /\ pos' = [pos EXCEPT ![k] = row]
        /\ usedPrices' = [usedPrices EXCEPT ![k[2]] = @ \cup {x}]
        /\ k[2] \in Symbols
    BY <1>3, KeyFacts DEF Settled
  <2>2. usedPrices \in [Symbols -> SUBSET Nat] /\ pos \in [Keys -> Row]
    BY DEF DerivInd, DayTypes, Positions
  <2>3. CASE k[2] = Future
    <3>1. usedPrices'[Future] # {}
      BY <2>1, <2>2, <2>3
    <3> QED BY <3>1 DEF ClosingInd, NobodyElseCloses
  <2>4. CASE k[2] # Future
    <3>1. usedPrices'[Future] = usedPrices[Future]
      BY <2>1, <2>2, <2>4
    <3>2. k[3] = "NET"
      BY <2>1, <2>4, KeyFacts
    <3>3. \A l \in Keys : l[3] # "NET" => pos'[l] = pos[l]
      BY <2>1, <2>2, <3>2
    <3>4. ClosesFit => ClosesFit'
      BY <1>1, <3>3 DEF ClosesFit, Closes
    <3> QED BY <1>1, <3>1, <3>4, GoesOnSame, ClosingKept
  <2> QED BY <2>3, <2>4
<1> QED BY <1>2, <1>3, PositionFacts

LEMMA ClosingInit == ASSUME DerivInit PROVE ClosingInd
<1>1. overflow = 0 /\ orders = <<>> /\ \A k \in Keys : pos[k].qty = 0
  BY DEF DerivInit
<1>2. ASSUME NEW k, NEW side PROVE ClosesOf(orders, k, side) = 0
  <2>1. PICK f : f = [i \in DOMAIN orders |-> ClosingBy(k, side)[orders[i]]]
    OBVIOUS
  <2>2. DOMAIN orders = {}
    BY <1>1
  <2>3. ClosesOf(orders, k, side) = SumOver(f, {})
    BY <2>1, <2>2 DEF ClosesOf, SumAlong
  <2> QED BY <2>3, SumEmpty
<1>3. ClosesFit
  BY <1>1, <1>2 DEF ClosesFit, Abs
<1> QED BY <1>1, <1>3 DEF ClosingInd

LEMMA ClosingStep ==
    ASSUME ClosingInd, DerivInd, DerivInd', [DerivNext]_derivVars PROVE ClosingInd'
<1>1. ASSUME UNCHANGED <<orders, overflow, usedPrices, pos>> PROVE ClosingInd'
  BY <1>1, ClosingSameOrders
<1>2. CASE Trading
  <2>1. ASSUME NEW k \in Keys, NEW side \in {"BUY", "SELL"}, NEW n \in 1..MaxQty,
               NEW x \in Prices(k[2]), Place(k, side, n, x)
        PROVE  ClosingInd'
    BY <2>1, ClosingPlace
  <2>2. ASSUME NEW b \in DOMAIN orders, NEW s \in DOMAIN orders, NEW n \in 1..MaxQty,
               NEW x \in Prices(orders[b].key[2]), Match(b, s, n, x)
        PROVE  ClosingInd'
    <3>1. Took(orders')
      BY <2>2, MatchTakes
    <3> QED BY <2>2, <3>1, ClosingTook DEF Match, money, daily
  <2>3. ASSUME NEW i \in DOMAIN orders, EngineCloses(i) PROVE ClosingInd'
    <3>1. Took(orders')
      BY <2>3, EngineCloseTakes
    <3> QED BY <2>3, <3>1, ClosingTook DEF EngineCloses, money, daily
  <2>4. CASE SettleClose
    <3>1. UNCHANGED <<pos, overflow, usedPrices>>
      BY <2>4 DEF SettleClose, daily
    <3> QED BY <2>4, <3>1, GoesOnClose, ClosingQuiet
  <2> QED BY <1>2, <2>1, <2>2, <2>3, <2>4, ClosingTrade DEF Trading
<1>3. CASE Leveraging
  <2>1. PICK a \in Accounts, l \in Leverages : SetLeverage(a, l)
    BY <1>3 DEF Leveraging
  <2>2. \A k \in Keys : pos'[k].qty = pos[k].qty
    BY <2>1, LeverageStep
  <2>3. UNCHANGED <<orders, overflow, usedPrices>>
    BY <2>1 DEF SetLeverage, daily
  <2> QED BY <2>2, <2>3, ClosingSameOrders
<1>4. CASE Risk
  <2>0. UNCHANGED <<pos, overflow, usedPrices>>
    BY <1>4, RiskFrame DEF money, daily
  <2>1. ASSUME NEW t \in Ticks, RiskLiquidates(t) PROVE ClosingInd'
    <3>1. NobodyElseCloses' => \A i \in DOMAIN orders' : ~orders'[i].forced
      BY DEF NobodyElseCloses
    <3> QED BY <2>0, <2>1, <3>1, GoesOnPut, ClosingQuiet
  <2>2. CASE ~\E t \in Ticks : RiskLiquidates(t)
    <3>1. orders' = orders
      BY <1>4, <2>2, RiskQuietOrders
    <3> QED BY <1>1, <2>0, <3>1
  <2> QED BY <2>1, <2>2
<1>5. CASE Daily
  <2>1. CASE \E k \in run.todo : SettlePosition(k)
    BY <2>1, ClosingPosition
  <2>2. CASE ~\E k \in run.todo : SettlePosition(k)
    <3>1. UNCHANGED <<orders, overflow, usedPrices, pos>>
      BY <1>5, <2>2 DEF Daily, BeginMaintenance, EndMaintenance, StartSettlement, FinishSymbol,
                        SettlementStops, money
    <3> QED BY <1>1, <3>1
  <2> QED BY <2>1, <2>2
<1>6. CASE UNCHANGED derivVars
  BY <1>1, <1>6 DEF derivVars, daily, money
<1> QED BY <1>2, <1>3, <1>4, <1>5, <1>6 DEF DerivNext

\* As long as nobody closes for them, users never close more than they hold: the
\* closing orders that are accepted fit into the position together, whatever order
\* they are filled, cancelled and settled in.
THEOREM ClosesAlwaysHeld == DerivSpec => []ClosesAreHeld
<1>1. DerivInit => ClosingInd
  BY ClosingInit
<1>2. ClosingInd /\ DerivInd /\ DerivInd' /\ [DerivNext]_derivVars => ClosingInd'
  BY ClosingStep
<1>3. ClosingInd => ClosesAreHeld
  BY DEF ClosingInd, NobodyElseCloses, ClosesAreHeld
<1> QED BY <1>1, <1>2, <1>3, DerivIndAlways, PTL DEF DerivSpec

----------------------------------------------------------------------------
(***************************************************************************)
(* Liquidations fit into the positions.  A tick that has missed nothing    *)
(* knows enough: what it has read of a position that only liquidations     *)
(* close is still there, and once it has looked, no forced order of the    *)
(* account is live until its own are.                                      *)
(***************************************************************************)
RestOf(o) == o.qty - o.filled
ForcedOn(o, k) == o.key = k /\ o.forced /\ IsLive(o)

FitFor(k) ==
    k[1] \notin blind =>
        \A i \in DOMAIN orders : ForcedOn(orders[i], k) =>
            /\ \A j \in DOMAIN orders : ForcedOn(orders[j], k) => j = i
            /\ OnlyLiquidated(k) => RestOf(orders[i]) <= Abs(pos[k].qty)

NoneForced(a) == \A i \in DOMAIN orders : orders[i].forced /\ IsLive(orders[i]) => orders[i].key[1] # a

Sees(t, r) ==
    r.stage # "idle" /\ ~r.missed =>
        /\ r.stage # "read" => NoneForced(t[2])
        /\ \A k \in FutureKeysOf(t[2]) : OnlyLiquidated(k) => Abs(r.pos[k].qty) <= Abs(pos[k].qty)

LiqInd == (\A k \in Keys : FitFor(k)) /\ \A t \in Ticks : Sees(t, tick[t])

LEMMA LiqIndSound == ASSUME LiqInd PROVE LiquidationsFit
  BY DEF LiqInd, FitFor, ForcedOn, RestOf, LiquidationsFit, Liquidations, Live, IsLive, Unfilled

LEMMA LiqIndInit == ASSUME DerivInit PROVE LiqInd
<1>1. DOMAIN orders = {} /\ \A t \in Ticks : tick[t].stage = "idle"
  BY NoTickGood DEF DerivInit
<1> QED BY <1>1 DEF LiqInd, FitFor, Sees

LEMMA OnlyBefore ==
    ASSUME OrdersGoOn, claimed \subseteq claimed', NEW k, OnlyLiquidated(k)'
    PROVE  OnlyLiquidated(k)
  BY DEF OrdersGoOn, OnlyLiquidated, IsOpening

LEMMA PosNat == ASSUME NEW ps, Positions(ps) PROVE \A k \in Keys : Abs(ps[k].qty) \in Nat
  BY AbsNat DEF Positions, Row

LEMMA TickPos ==
    ASSUME DerivInd, NEW t \in Ticks, tick[t].stage # "idle"
    PROVE  \A k \in FutureKeysOf(t[2]) : Abs(tick[t].pos[k].qty) \in Nat
<1>1. PICK ps : ps = tick[t].pos
  OBVIOUS
<1>2. ps \in [FutureKeysOf(t[2]) -> Row]
  BY <1>1 DEF DerivInd, RiskTypes, TickOK, GoodTick, PosRows
<1>3. \A k \in FutureKeysOf(t[2]) : ps[k].qty \in Int
  BY <1>2 DEF Row
<1> QED BY <1>1, <1>3, AbsNat

LEMMA FutureKeys == \A a : \A k \in FutureKeysOf(a) : k \in Keys /\ k[1] = a
  BY DEF FutureKeysOf, KeysOf

\* Steps that fill nothing, order nothing by force and change no position that counts.
LEMMA LiqQuiet ==
    ASSUME LiqInd, OrdersGoOn, claimed \subseteq claimed', blind' = blind,
           \A i \in DOMAIN orders' \ DOMAIN orders : ~orders'[i].forced,
           \A i \in DOMAIN orders : RestOf(orders'[i]) = RestOf(orders[i]),
           \A k \in Keys : k \notin claimed' => Abs(pos'[k].qty) = Abs(pos[k].qty)
    PROVE  (\A k \in Keys : FitFor(k)') /\ \A t \in Ticks : \A r : Sees(t, r) => Sees(t, r)'
<1>1. ASSUME NEW i \in DOMAIN orders', NEW k, ForcedOn(orders'[i], k)
      PROVE  i \in DOMAIN orders /\ ForcedOn(orders[i], k) /\ RestOf(orders'[i]) = RestOf(orders[i])
  <2>1. i \in DOMAIN orders
    BY <1>1 DEF ForcedOn
  <2> QED BY <1>1, <2>1 DEF ForcedOn, OrdersGoOn
<1>2. ASSUME NEW k \in Keys, OnlyLiquidated(k)'
      PROVE  OnlyLiquidated(k) /\ Abs(pos'[k].qty) = Abs(pos[k].qty)
  <2>1. OnlyLiquidated(k)
    BY <1>2, OnlyBefore
  <2>2. k \notin claimed'
    BY <1>2 DEF OnlyLiquidated
  <2> QED BY <2>1, <2>2
<1>3. ASSUME NEW k \in Keys PROVE FitFor(k)'
  <2>1. FitFor(k)
    BY DEF LiqInd
  <2>2. ASSUME k[1] \notin blind', NEW i \in DOMAIN orders', ForcedOn(orders'[i], k)
        PROVE  /\ \A j \in DOMAIN orders' : ForcedOn(orders'[j], k) => j = i
               /\ OnlyLiquidated(k)' => RestOf(orders'[i]) <= Abs(pos'[k].qty)
    <3>1. k[1] \notin blind /\ i \in DOMAIN orders /\ ForcedOn(orders[i], k)
      BY <1>1, <2>2
    <3>2. \A j \in DOMAIN orders' : ForcedOn(orders'[j], k) => j = i
      BY <1>1, <2>1, <3>1 DEF FitFor
    <3>3. OnlyLiquidated(k) => RestOf(orders[i]) <= Abs(pos[k].qty)
      BY <2>1, <3>1 DEF FitFor
    <3>4. RestOf(orders'[i]) = RestOf(orders[i])
      BY <1>1, <2>2
    <3> QED BY <1>2, <3>2, <3>3, <3>4
  <2> QED BY <2>2 DEF FitFor
<1>4. ASSUME NEW t \in Ticks, NEW r, Sees(t, r) PROVE Sees(t, r)'
  <2>1. NoneForced(t[2]) => NoneForced(t[2])'
    <3>1. ASSUME NEW i \in DOMAIN orders', orders'[i].forced, IsLive(orders'[i])
          PROVE  /\ i \in DOMAIN orders /\ orders[i].forced /\ IsLive(orders[i])
                 /\ orders[i].key = orders'[i].key
      <4>1. i \in DOMAIN orders
        BY <3>1
      <4> QED BY <3>1, <4>1 DEF OrdersGoOn
    <3> QED BY <3>1 DEF NoneForced
  <2>2. ASSUME NEW k \in FutureKeysOf(t[2]), OnlyLiquidated(k)'
        PROVE  OnlyLiquidated(k) /\ Abs(pos'[k].qty) = Abs(pos[k].qty)
    BY <1>2, <2>2, FutureKeys
  <2> QED BY <1>4, <2>1, <2>2 DEF Sees
<1> QED BY <1>3, <1>4

LEMMA LiqSameTicks ==
    ASSUME LiqInd, OrdersGoOn, claimed \subseteq claimed', blind' = blind, tick' = tick,
           \A i \in DOMAIN orders' \ DOMAIN orders : ~orders'[i].forced,
           \A i \in DOMAIN orders : RestOf(orders'[i]) = RestOf(orders[i]),
           \A k \in Keys : k \notin claimed' => Abs(pos'[k].qty) = Abs(pos[k].qty)
    PROVE  LiqInd'
<1>1. (\A k \in Keys : FitFor(k)') /\ \A t \in Ticks : \A r : Sees(t, r) => Sees(t, r)'
  BY LiqQuiet
<1>2. \A t \in Ticks : Sees(t, tick[t])'
  <2> TAKE t \in Ticks
  <2>1. PICK r : r = tick[t] /\ r = tick'[t]
    OBVIOUS
  <2>2. Sees(t, r)'
    BY <1>1, <2>1 DEF LiqInd
  <2> QED BY <2>1, <2>2 DEF Sees
<1> QED BY <1>1, <1>2 DEF LiqInd

----------------------------------------------------------------------------
\* A trade: what it takes of its orders, and what it does to their positions.
TradeMoves(b, s, n, mid) ==
    /\ b \in DOMAIN orders /\ s \in DOMAIN orders /\ b # s /\ n \in Nat \ {0}
    /\ orders[b].side = "BUY" /\ orders[s].side = "SELL"
    /\ IsLive(orders[b]) /\ IsLive(orders[s])
    /\ \A i \in DOMAIN orders :
          /\ RestOf(orders[i]) \in Int
          /\ RestOf(orders'[i]) = RestOf(orders[i]) - (IF i \in {b, s} THEN n ELSE 0)
    /\ n <= RestOf(orders[b]) /\ n <= RestOf(orders[s])
    /\ \A k \in Keys : /\ Abs(pos[k].qty) \in Nat /\ Abs(mid[k].qty) \in Nat
                       /\ Abs(pos'[k].qty) \in Nat
    /\ \A k \in Keys :
          /\ IF k # orders[b].key THEN mid[k] = pos[k]
             ELSE k[3] # "NET" => Effect(k, "BUY", Abs(pos[k].qty), n, Abs(mid[k].qty))
          /\ IF k # orders[s].key THEN pos'[k] = mid[k]
             ELSE k[3] # "NET" => Effect(k, "SELL", Abs(mid[k].qty), n, Abs(pos'[k].qty))

LEMMA FilledRest ==
    ASSUME NEW o \in OrderRow, NEW n \in Nat, NEW g, g = Filled(o, n)
    PROVE  RestOf(g) = RestOf(o) - n /\ RestOf(o) \in Int
<1>1. PICK q \in Nat, f \in Nat : q = o.qty /\ f = o.filled
  BY DEF OrderRow
<1>2. g.qty = q /\ g.filled = f + n
  BY <1>1 DEF Filled, OrderRow
<1> QED BY <1>1, <1>2 DEF RestOf

LEMMA TradeFacts ==
    ASSUME DerivInd, DerivInd', SettleTrade, NEW e, e = Head(events)
    PROVE  OrdersGoOn /\ DOMAIN orders' = DOMAIN orders /\ \E mid : TradeMoves(e.buy, e.sell, e.qty, mid)
<1>1. PICK bought, sold, mid : LegsDone(e.buy, e.sell, e.qty, e.price, bought, sold, mid)
  BY TradeLegs
<1>2. PICK b, s, n, x : b = e.buy /\ s = e.sell /\ n = e.qty /\ x = e.price
  OBVIOUS
<1>3. /\ Traded(b, s, n, x) /\ OrdersFilled(b, s, n) /\ LegsDone(b, s, n, x, bought, sold, mid)
  BY <1>1, <1>2, TradeOrders
<1>4. OrdersGoOn /\ DOMAIN orders' = DOMAIN orders
  BY <1>3, TradeCloses
<1>5. PICK kb, ks : kb = orders[b].key /\ ks = orders[s].key
  OBVIOUS
<1>6. /\ b \in DOMAIN orders /\ s \in DOMAIN orders /\ b # s /\ n \in Nat \ {0}
      /\ kb \in Keys /\ ks \in Keys
      /\ orders[b].side = "BUY" /\ orders[s].side = "SELL"
      /\ IsLive(orders[b]) /\ IsLive(orders[s])
      /\ n <= RestOf(orders[b]) /\ n <= RestOf(orders[s])
  BY <1>3, <1>5 DEF Traded, RestOf
<1>7. \A i \in DOMAIN orders :
          /\ RestOf(orders[i]) \in Int
          /\ RestOf(orders'[i]) = RestOf(orders[i]) - (IF i \in {b, s} THEN n ELSE 0)
  <2> TAKE i \in DOMAIN orders
  <2>1. PICK o, g : o = orders[i] /\ g = orders'[i]
    OBVIOUS
  <2>2. o \in OrderRow
    BY <2>1, SeqDomain DEF DerivInd, OrdersOK, OrderList
  <2>3. PICK m \in Nat : m = n
    BY <1>6
  <2>4. PICK h : h = Filled(o, m)
    OBVIOUS
  <2>5. RestOf(h) = RestOf(o) - m /\ RestOf(o) \in Int
    BY <2>2, <2>4, FilledRest
  <2>6. CASE i \in {b, s}
    <3>1. g = h
      BY <1>3, <2>1, <2>3, <2>4, <2>6 DEF OrdersFilled
    <3> QED BY <2>1, <2>3, <2>5, <2>6, <3>1
  <2>7. CASE i \notin {b, s}
    <3>1. g = o
      BY <1>3, <2>1, <2>7 DEF OrdersFilled
    <3> QED BY <2>1, <2>5, <2>7, <3>1
  <2> QED BY <2>6, <2>7
<1>8. /\ FillEffect(kb, pos[kb], "BUY", x, n, bought) /\ FillEffect(ks, mid[ks], "SELL", x, n, sold)
      /\ mid = [pos EXCEPT ![kb] = bought.pos] /\ pos' = [mid EXCEPT ![ks] = sold.pos]
      /\ pos \in [Keys -> Row] /\ mid \in [Keys -> Row] /\ pos' \in [Keys -> Row]
      /\ Positions(pos) /\ Positions(mid) /\ Positions(pos')
  BY <1>3, <1>5 DEF LegsDone, Positions, DerivInd
<1>9. /\ mid[kb] = bought.pos /\ pos'[ks] = sold.pos
      /\ \A k \in Keys \ {kb} : mid[k] = pos[k]
      /\ \A k \in Keys \ {ks} : pos'[k] = mid[k]
  BY <1>6, <1>8
<1>10. \A k \in Keys : /\ Abs(pos[k].qty) \in Nat /\ Abs(mid[k].qty) \in Nat
                       /\ Abs(pos'[k].qty) \in Nat
  <2>1. PICK p0, p1, p2 : p0 = pos /\ p1 = mid /\ p2 = pos'
    OBVIOUS
  <2>2. \A k \in Keys : /\ Abs(p0[k].qty) \in Nat /\ Abs(p1[k].qty) \in Nat
                         /\ Abs(p2[k].qty) \in Nat
    BY <1>8, <2>1, PosNat
  <2> QED BY <2>1, <2>2
<1>11. kb[3] # "NET" => Effect(kb, "BUY", Abs(pos[kb].qty), n, Abs(mid[kb].qty))
  BY <1>8, <1>9, LegQty
<1>12. ks[3] # "NET" => Effect(ks, "SELL", Abs(mid[ks].qty), n, Abs(pos'[ks].qty))
  BY <1>8, <1>9, LegQty
<1>13. \A k \in Keys :
          /\ IF k # kb THEN mid[k] = pos[k]
             ELSE k[3] # "NET" => Effect(k, "BUY", Abs(pos[k].qty), n, Abs(mid[k].qty))
          /\ IF k # ks THEN pos'[k] = mid[k]
             ELSE k[3] # "NET" => Effect(k, "SELL", Abs(mid[k].qty), n, Abs(pos'[k].qty))
  BY <1>9, <1>11, <1>12
<1>14. TradeMoves(b, s, n, mid)
  BY <1>5, <1>6, <1>7, <1>10, <1>13 DEF TradeMoves
<1> QED BY <1>2, <1>4, <1>14

\* A trade takes from a position that only liquidations close what it fills of one.
LEMMA TradeTakes ==
    ASSUME NEW b, NEW s, NEW n, NEW mid, TradeMoves(b, s, n, mid),
           NEW k \in Keys, OnlyLiquidated(k),
           NEW i, \A j \in {b, s} : ForcedOn(orders[j], k) => j = i /\ RestOf(orders[j]) <= Abs(pos[k].qty)
    PROVE  Abs(pos[k].qty) - (IF i \in {b, s} /\ ForcedOn(orders[i], k) THEN n ELSE 0) <= Abs(pos'[k].qty)
<1>1. PICK q \in Nat, m \in Nat, r \in Nat :
         q = Abs(pos[k].qty) /\ m = Abs(mid[k].qty) /\ r = Abs(pos'[k].qty)
  BY DEF TradeMoves
<1>2. k[3] # "NET" /\ n \in Nat \ {0} /\ b # s
  BY DEF OnlyLiquidated, TradeMoves
<1>3. /\ k # orders[b].key => m = q
      /\ k = orders[b].key => IF IsOpening("BUY", k[3]) THEN m = q + n ELSE n <= q => m = q - n
      /\ k # orders[s].key => r = m
      /\ k = orders[s].key => IF IsOpening("SELL", k[3]) THEN r = m + n ELSE n <= m => r = m - n
  BY <1>1, <1>2 DEF TradeMoves, Effect
<1>4. /\ k = orders[b].key /\ ~ForcedOn(orders[b], k) => IsOpening("BUY", k[3])
      /\ k = orders[s].key /\ ~ForcedOn(orders[s], k) => IsOpening("SELL", k[3])
  BY DEF OnlyLiquidated, ForcedOn, TradeMoves
<1>5. ForcedOn(orders[b], k) => k = orders[b].key /\ b = i /\ n <= q
  <2>1. ASSUME ForcedOn(orders[b], k) PROVE k = orders[b].key /\ b = i /\ n <= q
    <3>1. k = orders[b].key /\ b = i /\ RestOf(orders[b]) <= q
      BY <1>1, <2>1 DEF ForcedOn
    <3>2. n <= RestOf(orders[b]) /\ RestOf(orders[b]) \in Int
      BY DEF TradeMoves
    <3> QED BY <1>1, <1>2, <3>1, <3>2
  <2> QED BY <2>1
<1>6. ForcedOn(orders[s], k) => k = orders[s].key /\ s = i /\ n <= q
  <2>1. ASSUME ForcedOn(orders[s], k) PROVE k = orders[s].key /\ s = i /\ n <= q
    <3>1. k = orders[s].key /\ s = i /\ RestOf(orders[s]) <= q
      BY <1>1, <2>1 DEF ForcedOn
    <3>2. n <= RestOf(orders[s]) /\ RestOf(orders[s]) \in Int
      BY DEF TradeMoves
    <3> QED BY <1>1, <1>2, <3>1, <3>2
  <2> QED BY <2>1
<1>7. CASE ForcedOn(orders[b], k)
  <2>1. b = i /\ n <= q /\ ~ForcedOn(orders[s], k)
    BY <1>2, <1>5, <1>6, <1>7
  <2>2. m >= q - n
    BY <1>1, <1>2, <1>3, <1>5, <2>1, <1>7
  <2>3. r >= m
    BY <1>1, <1>2, <1>3, <1>4, <2>1
  <2> QED BY <1>1, <1>2, <1>7, <2>1, <2>2, <2>3
<1>8. CASE ~ForcedOn(orders[b], k) /\ ForcedOn(orders[s], k)
  <2>1. s = i /\ n <= q
    BY <1>6, <1>8
  <2>2. m >= q
    BY <1>1, <1>2, <1>3, <1>4, <1>8
  <2>3. r >= m - n
    BY <1>1, <1>2, <1>3, <1>6, <1>8, <2>1, <2>2
  <2> QED BY <1>1, <1>2, <1>8, <2>1, <2>2, <2>3
<1>9. CASE ~ForcedOn(orders[b], k) /\ ~ForcedOn(orders[s], k)
  <2>1. m >= q
    BY <1>1, <1>2, <1>3, <1>4, <1>9
  <2>2. r >= m
    BY <1>1, <1>2, <1>3, <1>4, <1>9
  <2>3. ~(i \in {b, s} /\ ForcedOn(orders[i], k))
    BY <1>9
  <2> QED BY <1>1, <2>1, <2>2, <2>3
<1> QED BY <1>7, <1>8, <1>9

LEMMA LiqTrade ==
    ASSUME LiqInd, DerivInd, DerivInd', SettleTrade PROVE LiqInd'
<1>1. PICK e : e = Head(events)
  OBVIOUS
<1>2. OrdersGoOn /\ DOMAIN orders' = DOMAIN orders /\ \E mid : TradeMoves(e.buy, e.sell, e.qty, mid)
  BY <1>1, TradeFacts
<1>3. PICK b, s, n, mid : b = e.buy /\ s = e.sell /\ n = e.qty /\ TradeMoves(b, s, n, mid)
  BY <1>2
<1>4. /\ b \in DOMAIN orders /\ s \in DOMAIN orders /\ b # s /\ n \in Nat \ {0}
      /\ IsLive(orders[b]) /\ IsLive(orders[s])
      /\ \A i \in DOMAIN orders :
            /\ RestOf(orders[i]) \in Int
            /\ RestOf(orders'[i]) = RestOf(orders[i]) - (IF i \in {b, s} THEN n ELSE 0)
      /\ \A k \in Keys : Abs(pos[k].qty) \in Nat /\ Abs(pos'[k].qty) \in Nat
  BY <1>3 DEF TradeMoves
<1>5. UNCHANGED <<blind, claimed>>
  BY DEF SettleTrade, daily
<1>6. ASSUME NEW i \in DOMAIN orders', NEW k, ForcedOn(orders'[i], k)
      PROVE  i \in DOMAIN orders /\ ForcedOn(orders[i], k)
  BY <1>2, <1>6 DEF ForcedOn, OrdersGoOn
<1>7. ASSUME NEW k, OnlyLiquidated(k)' PROVE OnlyLiquidated(k)
  BY <1>2, <1>5, <1>7, OnlyBefore
<1>8. ASSUME NEW k \in Keys PROVE FitFor(k)'
  <2>1. ASSUME k[1] \notin blind', NEW i \in DOMAIN orders', ForcedOn(orders'[i], k)
        PROVE  /\ \A j \in DOMAIN orders' : ForcedOn(orders'[j], k) => j = i
               /\ OnlyLiquidated(k)' => RestOf(orders'[i]) <= Abs(pos'[k].qty)
    <3>1. k[1] \notin blind /\ i \in DOMAIN orders /\ ForcedOn(orders[i], k)
      BY <1>5, <1>6, <2>1
    <3>2. \A j \in DOMAIN orders : ForcedOn(orders[j], k) => j = i
      BY <3>1 DEF LiqInd, FitFor
    <3>3. \A j \in DOMAIN orders' : ForcedOn(orders'[j], k) => j = i
      BY <1>6, <3>2
    <3>4. ASSUME OnlyLiquidated(k)' PROVE RestOf(orders'[i]) <= Abs(pos'[k].qty)
      <4>1. OnlyLiquidated(k)
        BY <1>7, <3>4
      <4>2. RestOf(orders[i]) <= Abs(pos[k].qty)
        BY <3>1, <4>1 DEF LiqInd, FitFor
      <4>3. \A j \in {b, s} : ForcedOn(orders[j], k) => j = i /\ RestOf(orders[j]) <= Abs(pos[k].qty)
        BY <1>4, <3>2, <4>2
      <4>4. Abs(pos[k].qty) - (IF i \in {b, s} /\ ForcedOn(orders[i], k) THEN n ELSE 0)
              <= Abs(pos'[k].qty)
        BY <1>3, <4>1, <4>3, TradeTakes
      <4>5. PICK u \in Int, q \in Nat, r \in Nat, d \in Nat :
               /\ u = RestOf(orders[i]) /\ q = Abs(pos[k].qty) /\ r = Abs(pos'[k].qty)
               /\ d = IF i \in {b, s} THEN n ELSE 0
        BY <1>4, <3>1
      <4>6. RestOf(orders'[i]) = u - d /\ q - d <= r /\ u <= q
        BY <1>4, <3>1, <4>2, <4>4, <4>5
      <4> QED BY <4>5, <4>6
    <3> QED BY <3>3, <3>4
  <2> QED BY <2>1 DEF FitFor
<1>9. ASSUME NEW t \in Ticks PROVE Sees(t, tick[t])'
  <2>1. PICK r, g : r = tick[t] /\ g = tick'[t]
    OBVIOUS
  <2>2. SUFFICES ASSUME g.stage # "idle", ~g.missed PROVE Sees(t, g)'
    BY <2>1 DEF Sees
  <2>3. g = r /\ ~(orders[b].forced /\ orders[b].key[1] = t[2])
        /\ ~(orders[s].forced /\ orders[s].key[1] = t[2])
    <3>1. PICK A : A = {orders[i].key[1] : i \in {i \in {b, s} : orders[i].forced}}
      OBVIOUS
    <3>2. tick' = Missing(A)
      BY <1>1, <1>3, <3>1 DEF SettleTrade
    <3>3. /\ tick'[t] = tick[t] \/ tick'[t].missed
          /\ t[2] \in A /\ tick[t].stage # "idle" => tick'[t].missed
      <4>1. PICK nt : nt = Missing(A) /\ nt = tick'
        BY <3>2
      <4>2. /\ nt[t] = tick[t] \/ nt[t].missed
            /\ t[2] \in A /\ tick[t].stage # "idle" => nt[t].missed
        BY <4>1, MissingFacts DEF DerivInd, RiskTypes
      <4> QED BY <4>1, <4>2
    <3>4. g = r /\ t[2] \notin A
      BY <2>1, <2>2, <3>3
    <3> QED BY <3>1, <3>4
  <2>4. Sees(t, r) /\ r.stage # "idle" /\ ~r.missed
    BY <2>1, <2>2, <2>3 DEF LiqInd
  <2>5. NoneForced(t[2]) => NoneForced(t[2])'
    <3>1. ASSUME NEW i \in DOMAIN orders', orders'[i].forced, IsLive(orders'[i])
          PROVE  /\ i \in DOMAIN orders /\ orders[i].forced /\ IsLive(orders[i])
                 /\ orders[i].key = orders'[i].key
      BY <1>2, <3>1 DEF OrdersGoOn
    <3> QED BY <3>1 DEF NoneForced
  <2>6. ASSUME NEW k \in FutureKeysOf(t[2]), OnlyLiquidated(k)'
        PROVE  Abs(r.pos[k].qty) <= Abs(pos'[k].qty)
    <3>1. k \in Keys /\ k[1] = t[2]
      BY FutureKeys
    <3>2. OnlyLiquidated(k)
      BY <1>7, <2>6
    <3>3. \A j \in {b, s} : ~ForcedOn(orders[j], k)
      BY <2>3, <3>1 DEF ForcedOn
    <3>4. Abs(pos[k].qty) - (IF b \in {b, s} /\ ForcedOn(orders[b], k) THEN n ELSE 0)
             <= Abs(pos'[k].qty)
      BY <1>3, <3>1, <3>2, <3>3, TradeTakes
    <3>5. Abs(pos[k].qty) <= Abs(pos'[k].qty)
      BY <1>4, <3>1, <3>3, <3>4
    <3>6. Abs(r.pos[k].qty) <= Abs(pos[k].qty)
      BY <2>4, <3>2 DEF Sees
    <3>7. Abs(r.pos[k].qty) \in Nat
      BY <2>1, <2>4, <3>1, TickPos
    <3> QED BY <1>4, <3>1, <3>5, <3>6, <3>7
  <2> QED BY <2>3, <2>4, <2>5, <2>6 DEF Sees
<1> QED BY <1>8, <1>9 DEF LiqInd

----------------------------------------------------------------------------
\* A tick reads what is there, and looks.
LEMMA LiqTick ==
    ASSUME LiqInd, DerivInd, NEW t \in Ticks, NEW r, GoodTick(t[2], r), tick' = [tick EXCEPT ![t] = r],
           UNCHANGED <<orders, pos, claimed, blind>>, Sees(t, r)
    PROVE  LiqInd'
<1>1. OrdersGoOn
  BY GoesOnSame
<1>2. (\A k \in Keys : FitFor(k)') /\ \A u \in Ticks : \A g : Sees(u, g) => Sees(u, g)'
  BY <1>1, LiqQuiet
<1>3. tick'[t] = r /\ \A u \in Ticks \ {t} : tick'[u] = tick[u]
  BY TickSet DEF DerivInd, RiskTypes
<1>4. \A u \in Ticks : Sees(u, tick[u])'
  <2> TAKE u \in Ticks
  <2>1. PICK g : g = tick'[u]
    OBVIOUS
  <2>2. Sees(u, g)
    BY <1>3, <2>1 DEF LiqInd
  <2>3. Sees(u, g)'
    BY <1>2, <2>2
  <2> QED BY <2>1, <2>3 DEF Sees
<1> QED BY <1>2, <1>4 DEF LiqInd

LEMMA LiqRead ==
    ASSUME LiqInd, DerivInd, NEW t \in Ticks, RiskReads(t) PROVE LiqInd'
<1>1. PICK r : /\ GoodTick(t[2], r) /\ tick' = [tick EXCEPT ![t] = r]
               /\ r.stage = "read" /\ \A k \in FutureKeysOf(t[2]) : r.pos[k] = pos[k]
  BY ReadFacts
<1>2. \A k \in FutureKeysOf(t[2]) : Abs(r.pos[k].qty) <= Abs(pos[k].qty)
  <2> TAKE k \in FutureKeysOf(t[2])
  <2>1. Abs(pos[k].qty) \in Nat
    BY FutureKeys, PosNat DEF DerivInd
  <2> QED BY <1>1, <2>1
<1>3. Sees(t, r)
  BY <1>1, <1>2 DEF Sees
<1>4. UNCHANGED <<orders, pos, claimed, blind>>
  BY DEF RiskReads, money, daily
<1> QED BY <1>1, <1>3, <1>4, LiqTick

LEMMA LiqCheck ==
    ASSUME LiqInd, DerivInd, NEW t \in Ticks, RiskChecks(t) PROVE LiqInd'
<1>1. PICK r : /\ GoodTick(t[2], r) /\ tick' = [tick EXCEPT ![t] = r]
               /\ \/ r.stage = "idle"
                  \/ /\ tick[t].stage = "read" /\ ~LiquidationPending(t[2])
                     /\ r.stage = "checked" /\ r.pos = tick[t].pos
                     /\ r.missed = tick[t].missed
  BY CheckFacts
<1>2. ~LiquidationPending(t[2]) => NoneForced(t[2])
  BY DEF LiquidationPending, NoneForced, Live, IsLive
<1>3. Sees(t, tick[t])
  BY DEF LiqInd
<1>4. Sees(t, r)
  BY <1>1, <1>2, <1>3 DEF Sees
<1>5. UNCHANGED <<orders, pos, claimed, blind>>
  BY DEF RiskChecks, money, daily
<1> QED BY <1>1, <1>4, <1>5, LiqTick

LEMMA LiqDecide ==
    ASSUME LiqInd, DerivInd, NEW t \in Ticks, RiskDecides(t) PROVE LiqInd'
<1>1. PICK r : GoodTick(t[2], r) /\ tick' = [tick EXCEPT ![t] = r] /\ Decided(t, r)
  BY DecideFacts
<1>2. Sees(t, tick[t])
  BY DEF LiqInd
<1>3. Sees(t, r)
  BY <1>1, <1>2 DEF Sees, Decided
<1>4. UNCHANGED <<orders, pos, claimed, blind>>
  BY DEF RiskDecides, money, daily
<1> QED BY <1>1, <1>3, <1>4, LiqTick

LEMMA LiqFail ==
    ASSUME LiqInd, DerivInd, NEW t \in Ticks, RiskFails(t) PROVE LiqInd'
<1>1. PICK r : r = NoTick
  OBVIOUS
<1>2. GoodTick(t[2], r) /\ r.stage = "idle" /\ tick' = [tick EXCEPT ![t] = r]
  BY <1>1, NoTickGood DEF RiskFails, RiskEnds
<1>3. UNCHANGED <<orders, pos, claimed, blind>>
  BY DEF RiskFails, money, daily
<1> QED BY <1>2, <1>3, LiqTick DEF Sees

\* A tick that has missed nothing orders where nothing is ordered, and no more than
\* there is; one that has missed something leaves its mark.
LEMMA LiqPut ==
    ASSUME LiqInd, DerivInd, NEW t \in Ticks, RiskLiquidates(t) PROVE LiqInd'
<1>1. PICK a, r, qtys : a = t[2] /\ r = tick[t] /\ qtys = r.qtys
  OBVIOUS
<1>2. /\ Liquidating(a, qtys, orders') /\ r.stage = "liquidate" /\ r.pos \in PosRows(a)
      /\ \A k \in DOMAIN qtys : /\ k \in FutureKeysOf(a) /\ qtys[k] \in Nat \ {0}
                                 /\ qtys[k] <= Abs(r.pos[k].qty)
  BY <1>1, PutFacts
<1>3. /\ DOMAIN orders \subseteq DOMAIN orders' /\ \A i \in DOMAIN orders : orders'[i] = orders[i]
      /\ \A i \in DOMAIN orders' \ DOMAIN orders :
            /\ orders'[i].key[1] = a /\ orders'[i].key \in DOMAIN qtys
            /\ orders'[i].qty = qtys[orders'[i].key] /\ orders'[i].filled = 0
      /\ \A i, j \in DOMAIN orders' \ DOMAIN orders : orders'[i].key = orders'[j].key => i = j
  BY <1>2 DEF Liquidating, Extends, Fresh
<1>4. /\ UNCHANGED <<pos, claimed>>
      /\ blind' = IF r.missed THEN blind \cup {a} ELSE blind
  BY <1>1 DEF RiskLiquidates, money, daily
<1>5. OrdersGoOn
  BY GoesOnPut
<1>6. ASSUME NEW k, OnlyLiquidated(k)' PROVE OnlyLiquidated(k)
  BY <1>4, <1>5, <1>6, OnlyBefore
<1>7. ASSUME NEW k \in Keys PROVE FitFor(k)'
  <2>1. ASSUME k[1] \notin blind', NEW i \in DOMAIN orders', ForcedOn(orders'[i], k)
        PROVE  /\ \A j \in DOMAIN orders' : ForcedOn(orders'[j], k) => j = i
               /\ OnlyLiquidated(k)' => RestOf(orders'[i]) <= Abs(pos'[k].qty)
    <3>1. CASE k[1] = a
      <4>1. ~r.missed /\ Sees(t, r)
        BY <1>1, <1>4, <2>1, <3>1 DEF LiqInd
      <4>2. NoneForced(a)
        BY <1>1, <1>2, <4>1 DEF Sees
      <4>3. ASSUME NEW j \in DOMAIN orders', ForcedOn(orders'[j], k) PROVE j \notin DOMAIN orders
        BY <1>3, <3>1, <4>2, <4>3 DEF NoneForced, ForcedOn
      <4>4. \A j \in DOMAIN orders' : ForcedOn(orders'[j], k) => j = i
        BY <1>3, <2>1, <4>3 DEF ForcedOn
      <4>5. ASSUME OnlyLiquidated(k)' PROVE RestOf(orders'[i]) <= Abs(pos'[k].qty)
        <5>1. OnlyLiquidated(k)
          BY <1>6, <4>5
        <5>2. k \in DOMAIN qtys /\ orders'[i].qty = qtys[k] /\ orders'[i].filled = 0
          BY <1>3, <2>1, <4>3 DEF ForcedOn
        <5>3. PICK v \in Nat : v = qtys[k] /\ v <= Abs(r.pos[k].qty) /\ k \in FutureKeysOf(a)
          BY <1>2, <5>2
        <5>4. Abs(r.pos[k].qty) <= Abs(pos[k].qty)
          BY <1>1, <1>2, <4>1, <5>1, <5>3 DEF Sees
        <5>5. Abs(r.pos[k].qty) \in Nat /\ Abs(pos[k].qty) \in Nat
          BY <1>1, <1>2, <5>3, TickPos, PosNat DEF DerivInd
        <5>6. RestOf(orders'[i]) = v
          BY <5>2, <5>3 DEF RestOf
        <5> QED BY <1>4, <5>3, <5>4, <5>5, <5>6
      <4> QED BY <4>4, <4>5
    <3>2. CASE k[1] # a
      <4>1. \A j \in DOMAIN orders' : ForcedOn(orders'[j], k) => j \in DOMAIN orders /\ orders'[j] = orders[j]
        BY <1>3, <3>2 DEF ForcedOn
      <4>2. k[1] \notin blind
        BY <1>4, <2>1
      <4>3. i \in DOMAIN orders /\ ForcedOn(orders[i], k) /\ orders'[i] = orders[i]
        BY <2>1, <4>1
      <4>4. \A j \in DOMAIN orders' : ForcedOn(orders'[j], k) => j = i
        BY <4>1, <4>2, <4>3 DEF LiqInd, FitFor
      <4>5. OnlyLiquidated(k)' => RestOf(orders'[i]) <= Abs(pos'[k].qty)
        BY <1>4, <1>6, <4>2, <4>3 DEF LiqInd, FitFor
      <4> QED BY <4>4, <4>5
    <3> QED BY <3>1, <3>2
  <2> QED BY <2>1 DEF FitFor
<1>8. ASSUME NEW u \in Ticks PROVE Sees(u, tick[u])'
  <2>1. PICK g : g = tick'[u]
    OBVIOUS
  <2>2. /\ g.stage = "idle" \/ g = tick[u] \/ g.missed
        /\ u[2] = a => g.stage = "idle" \/ g.missed
    BY <1>1, <2>1, PutTicks DEF DerivInd, RiskTypes
  <2>3. SUFFICES ASSUME g.stage # "idle", ~g.missed PROVE Sees(u, g)'
    BY <2>1 DEF Sees
  <2>4. u[2] # a /\ Sees(u, g)
    BY <2>2, <2>3 DEF LiqInd
  <2>5. NoneForced(u[2]) => NoneForced(u[2])'
    BY <1>3, <2>4 DEF NoneForced
  <2> QED BY <1>4, <1>6, <2>4, <2>5 DEF Sees
<1> QED BY <1>7, <1>8 DEF LiqInd

LEMMA LiqStep ==
    ASSUME LiqInd, DerivInd, DerivInd', [DerivNext]_derivVars PROVE LiqInd'
<1>1. ASSUME UNCHANGED <<orders, claimed, blind, tick>>,
             \A k \in Keys : Abs(pos'[k].qty) = Abs(pos[k].qty)
      PROVE  LiqInd'
  BY <1>1, GoesOnSame, LiqSameTicks
<1>2. CASE Trading
  <2>1. ASSUME NEW k \in Keys, NEW side \in {"BUY", "SELL"}, NEW n \in 1..MaxQty,
               NEW x \in Prices(k[2]), Place(k, side, n, x)
        PROVE  LiqInd'
    <3>1. x \in Nat /\ n \in Nat \ {0} /\ Positions(pos) /\ orders \in Seq(OrderRow)
      BY PricesNat, ConstantTypes DEF DerivInd, OrdersOK, OrderList
    <3>2. PICK per \in Nat : per = HoldPerUnit(k, side, n, x)
      BY <2>1, <3>1, HoldPerUnitInt DEF Place
    <3>3. PICK o : o = NewOrder(k, side, n, per, x, FALSE)
      OBVIOUS
    <3>4. o \in OrderRow /\ ~o.forced
      BY <3>1, <3>3 DEF NewOrder, OrderRow
    <3>5. orders' = Append(orders, o) /\ UNCHANGED <<pos, claimed, blind, tick>>
      BY <2>1, <3>2, <3>3 DEF Place, daily, risk
    <3>6. /\ \A i \in DOMAIN orders' \ DOMAIN orders : ~orders'[i].forced
          /\ \A i \in DOMAIN orders : orders'[i] = orders[i]
      BY <3>1, <3>4, <3>5
    <3> QED BY <3>4, <3>5, <3>6, GoesOnPlace, LiqSameTicks
  <2>2. ASSUME Took(orders'), UNCHANGED <<pos, claimed, blind, tick>> PROVE LiqInd'
    <3>1. /\ DOMAIN orders' = DOMAIN orders
          /\ \A i \in DOMAIN orders : RestOf(orders'[i]) = RestOf(orders[i])
      BY <2>2 DEF Took, RestOf
    <3> QED BY <2>2, <3>1, GoesOnTook, LiqSameTicks
  <2>3. ASSUME NEW b \in DOMAIN orders, NEW s \in DOMAIN orders, NEW n \in 1..MaxQty,
               NEW x \in Prices(orders[b].key[2]), Match(b, s, n, x)
        PROVE  LiqInd'
    BY <2>2, <2>3, MatchTakes DEF Match, money, daily, risk
  <2>4. ASSUME NEW i \in DOMAIN orders, EngineCloses(i) PROVE LiqInd'
    BY <2>2, <2>4, EngineCloseTakes DEF EngineCloses, money, daily, risk
  <2>5. CASE SettleClose
    <3>1. PICK i : i = Head(events).buy
      OBVIOUS
    <3>2. /\ i \in DOMAIN orders /\ orders[i] \in OrderRow /\ DOMAIN orders' = DOMAIN orders
          /\ orders'[i] = [orders[i] EXCEPT !.status = "CANCELED"]
          /\ \A j \in DOMAIN orders \ {i} : orders'[j] = orders[j]
      BY <2>5, <3>1, CloseOrders
    <3>3. RestOf(orders'[i]) = RestOf(orders[i])
      <4>1. PICK o, g : o = orders[i] /\ g = [o EXCEPT !.status = "CANCELED"]
        OBVIOUS
      <4>2. g.qty = o.qty /\ g.filled = o.filled
        BY <3>2, <4>1 DEF OrderRow
      <4> QED BY <3>2, <4>1, <4>2 DEF RestOf
    <3>4. \A j \in DOMAIN orders : RestOf(orders'[j]) = RestOf(orders[j])
      BY <3>2, <3>3
    <3>5. UNCHANGED <<pos, claimed, blind, tick>>
      BY <2>5 DEF SettleClose, daily, risk
    <3> QED BY <2>5, <3>2, <3>4, <3>5, GoesOnClose, LiqSameTicks
  <2> QED BY <1>2, <2>1, <2>3, <2>4, <2>5, LiqTrade DEF Trading
<1>3. CASE Leveraging
  <2>1. PICK a \in Accounts, l \in Leverages : SetLeverage(a, l)
    BY <1>3 DEF Leveraging
  <2>2. \A k \in Keys : pos'[k].qty = pos[k].qty
    BY <2>1, LeverageStep
  <2>3. UNCHANGED <<orders, claimed, blind, tick>>
    BY <2>1 DEF SetLeverage, daily, risk
  <2> QED BY <1>1, <2>2, <2>3
<1>4. CASE Risk
  <2>1. CASE \E c \in DOMAIN calls : CallFallsDue(c)
    BY <1>1, <2>1 DEF CallFallsDue, money, daily
  <2>2. CASE \E x \in Marks : MarkMoves(x)
    BY <1>1, <2>2 DEF MarkMoves, money, daily
  <2> QED BY <1>4, <2>1, <2>2, LiqRead, LiqCheck, LiqDecide, LiqPut, LiqFail DEF Risk
<1>5. CASE Daily
  <2>1. ASSUME NEW k \in run.todo, SettlePosition(k) PROVE LiqInd'
    <3>1. /\ claimed' = claimed \cup {k} /\ UNCHANGED <<orders, risk>>
          /\ pos' = pos \/ \E p : pos' = [pos EXCEPT ![k] = p]
      BY <2>1 DEF SettlePosition, money
    <3>2. pos = [l \in Keys |-> pos[l]]
      BY DEF DerivInd, Positions
    <3>3. \A l \in Keys : l \notin claimed' => pos'[l] = pos[l]
      BY <3>1, <3>2
    <3> QED BY <3>1, <3>3, GoesOnSame, LiqSameTicks DEF risk
  <2>2. CASE ~\E k \in run.todo : SettlePosition(k)
    <3>1. UNCHANGED <<orders, claimed, blind, tick, pos>>
      BY <1>5, <2>2 DEF Daily, BeginMaintenance, EndMaintenance, StartSettlement, FinishSymbol,
                        SettlementStops, money, risk
    <3> QED BY <1>1, <3>1
  <2> QED BY <2>1, <2>2
<1>6. CASE UNCHANGED derivVars
  BY <1>1, <1>6 DEF derivVars, daily, money, risk
<1> QED BY <1>2, <1>3, <1>4, <1>5, <1>6 DEF DerivNext

\* For an account no liquidation of which was decided in ignorance of an earlier one,
\* a position never has two live liquidations, and none that is larger than what is
\* left of it: although a tick reads the positions first, looks for live liquidations
\* later and orders later still, while other ticks, the engine and settlement go on.
THEOREM LiquidationsAlwaysFit == DerivSpec => []LiquidationsFit
<1>1. DerivInit => LiqInd
  BY LiqIndInit
<1>2. LiqInd /\ DerivInd /\ DerivInd' /\ [DerivNext]_derivVars => LiqInd'
  BY LiqStep
<1>3. LiqInd => LiquidationsFit
  BY LiqIndSound
<1> QED BY <1>1, <1>2, <1>3, DerivIndAlways, PTL DEF DerivSpec

=============================================================================
