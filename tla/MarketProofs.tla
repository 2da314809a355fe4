---------------------------- MODULE MarketProofs ----------------------------
(***************************************************************************)
(* Proofs about fees and about the abstract market, for any accounts,      *)
(* orders and terms.                                                       *)
(*                                                                         *)
(* Solvent is not inductive: that a trade cannot overdraw the buyer needs  *)
(* that the escrow holds the whole reserve of the unexecuted rest, and     *)
(* that in turn needs that nothing executes beyond the order's quantity,   *)
(* nor before the order is submitted.  That fees are funded needs that a   *)
(* unit sets aside one of two amounts, with its fee or without.            *)
(***************************************************************************)
EXTENDS Market, TLAPS

----------------------------------------------------------------------------
(***************************************************************************)
(* Fees.  Rounding up, unit by unit, always sets aside enough: the fee of  *)
(* a whole execution is at most the sum of the fees of its units, at any   *)
(* price within the limit.                                                 *)
(***************************************************************************)
\* A fee is a number of won that covers the notional FeeDivisor times, ...
LEMMA FeeIsCeiling ==
    ASSUME NEW x \in Nat
    PROVE  /\ TradingFee(x) \in Nat
           /\ x <= TradingFee(x) * FeeDivisor
           /\ TradingFee(x) * FeeDivisor < x + FeeDivisor
  BY FeesAssumption, SMT DEF TradingFee

\* ... and the least one.
LEMMA FeeIsLeast ==
    ASSUME NEW x \in Nat, NEW k \in Nat, x <= k * FeeDivisor
    PROVE  TradingFee(x) <= k
  <1> DEFINE f == TradingFee(x)
  <1>1. f \in Nat /\ f * FeeDivisor < x + FeeDivisor
    BY FeeIsCeiling
  <1>2. FeeDivisor \in Nat /\ FeeDivisor > 0
    BY FeesAssumption
  <1> HIDE DEF f
  <1>3. SUFFICES ASSUME f >= k + 1
                 PROVE  FALSE
    BY <1>1 DEF f
  <1>4. f * FeeDivisor >= (k + 1) * FeeDivisor
    BY <1>1, <1>2, <1>3
  <1>5. (k + 1) * FeeDivisor = k * FeeDivisor + FeeDivisor
    BY <1>2
  <1>6. k * FeeDivisor \in Nat /\ f * FeeDivisor \in Nat
    BY <1>1, <1>2
  <1>7. QED
    BY <1>1, <1>2, <1>4, <1>5, <1>6

\* A seller can pay the fee out of the proceeds.
THEOREM FeeWithinNotional ==
    ASSUME NEW x \in Nat
    PROVE  TradingFee(x) <= x
  <1>1. x <= x * FeeDivisor
    BY FeesAssumption
  <1>2. QED
    BY <1>1, FeeIsLeast

\* Per-unit reserves cover any partial fill (orderHoldWithFee): n units that
\* each set aside the fee of the limit cover their fee at every price below it.
THEOREM UnitFeesCoverExecution ==
    ASSUME NEW limit \in Nat, NEW price \in Nat, price <= limit, NEW n \in Nat
    PROVE  TradingFee(price * n) <= TradingFee(limit) * n
  <1> DEFINE f == TradingFee(limit)
  <1>1. f \in Nat /\ limit <= f * FeeDivisor
    BY FeeIsCeiling
  <1>2. FeeDivisor \in Nat
    BY FeesAssumption
  <1> HIDE DEF f
  <1>3. /\ price * n \in Nat /\ f * n \in Nat /\ f * FeeDivisor \in Nat
        /\ price * n <= (f * FeeDivisor) * n
    <2>1. price <= f * FeeDivisor /\ f * FeeDivisor \in Nat
      BY <1>1, <1>2
    <2>2. QED
      BY <2>1, <1>1
  <1>4. (f * FeeDivisor) * n = (f * n) * FeeDivisor
    BY <1>1, <1>2
  <1>5. QED
    BY <1>3, <1>4, FeeIsLeast DEF f

----------------------------------------------------------------------------
(***************************************************************************)
(* The market                                                              *)
(***************************************************************************)
NewIsUntouched == \A o \in Orders : phase[o] = "new" => executed[o] = 0

UnitIsPriced ==
    \A o \in Orders : phase[o] # "new" /\ Side[o] = "BUY" =>
        unit[o] \in {Limit[o], HoldWithFee(Limit[o])}

MarketInv ==
    /\ TypeOK /\ Solvent /\ NoOverfill /\ EscrowCoversRemaining /\ NewIsUntouched
    /\ UnitIsPriced /\ DebtOnlyOfUnreservedFees

\* A product of naturals is a natural, and distributes over a difference.
LEMMA ProductFacts ==
    ASSUME NEW x \in Nat, NEW m \in Int, NEW n \in Int, 0 <= n, n <= m
    PROVE  /\ x * n \in Nat
           /\ x * m \in Int
           /\ x * (m - n) = x * m - x * n
  BY SMT

\* What some units set aside is a natural, and is set aside unit by unit.
LEMMA ReserveFacts ==
    ASSUME NEW o \in Orders, NEW u \in Nat, NEW m \in Nat, NEW n \in Nat, n <= m
    PROVE  /\ ReserveAt(o, u, n) \in Nat
           /\ ReserveAt(o, u, m - n) = ReserveAt(o, u, m) - ReserveAt(o, u, n)
  <1>1. u * n \in Nat /\ u * (m - n) = u * m - u * n
    BY ProductFacts
  <1>2. QED
    BY <1>1 DEF ReserveAt

\* What a unit sets aside is a natural: the price, or the price and its fee.
LEMMA UnitReserveFacts ==
    ASSUME NEW o \in Orders
    PROVE  /\ UnitReserve(o) \in Nat
           /\ Side[o] = "BUY" => UnitReserve(o) \in {Limit[o], HoldWithFee(Limit[o])}
  <1>1. Limit[o] \in Nat
    BY MarketAssumption
  <1>2. HoldWithFee(Limit[o]) \in Nat
    BY <1>1, FeeIsCeiling DEF HoldWithFee
  <1>3. QED
    BY <1>1, <1>2 DEF UnitReserve

\* A fee is a natural and at most the notional; an exempt account pays none.
LEMMA FeeFacts ==
    ASSUME NEW a \in Accounts, NEW x \in Nat, NEW c \in BOOLEAN
    PROVE  Fee(a, x, c) \in Nat /\ Fee(a, x, c) <= TradingFee(x) /\ TradingFee(x) <= x
  BY FeeIsCeiling, FeeWithinNotional DEF Fee

\* Paying a fee leaves nothing negative, and owes nothing that can be paid.
LEMMA PayFacts ==
    ASSUME NEW free \in Nat, NEW fee \in Nat
    PROVE  /\ LeftAfter(free, fee) \in Nat
           /\ OwedAfter(free, fee) \in Nat
           /\ fee <= free => OwedAfter(free, fee) = 0
  BY DEF LeftAfter, OwedAfter

\* A buy that has reserved its fees can pay them from what the units set aside
\* above the price.
LEMMA ReservedFeeIsFunded ==
    ASSUME NEW limit \in Nat, NEW p \in Nat, p <= limit, NEW n \in Nat
    PROVE  TradingFee(p * n) <= (HoldWithFee(limit) - p) * n
  <1> DEFINE f == TradingFee(limit)
  <1>1. f \in Nat /\ TradingFee(p * n) <= f * n
    BY FeeIsCeiling, UnitFeesCoverExecution
  <1>2. TradingFee(p * n) \in Nat
    <2>1. p * n \in Nat
      OBVIOUS
    <2>2. QED
      BY <2>1, FeeIsCeiling
  <1>3. HoldWithFee(limit) = limit + f
    BY DEF HoldWithFee
  <1> HIDE DEF f
  <1>4. limit - p \in Nat
    OBVIOUS
  <1>5. (limit + f - p) * n = (limit - p) * n + f * n
    BY <1>1, <1>4
  <1>6. (limit - p) * n \in Nat /\ f * n \in Nat
    BY <1>1, <1>4
  <1>7. QED
    BY <1>1, <1>2, <1>3, <1>5, <1>6

\* The initial state has nothing live, so nothing is set aside.
LEMMA InitMarketInv == Init => MarketInv
  BY MarketAssumption
  DEF Init, MarketInv, TypeOK, Solvent, NoOverfill, EscrowCoversRemaining,
      NewIsUntouched, UnitIsPriced, DebtOnlyOfUnreservedFees

LEMMA StartChargingMarketInv ==
    ASSUME MarketInv, StartCharging
    PROVE  MarketInv'
  BY DEF StartCharging, MarketInv, TypeOK, Solvent, NoOverfill,
         EscrowCoversRemaining, NewIsUntouched, UnitIsPriced,
         DebtOnlyOfUnreservedFees, Remaining, Reserve, ReserveAt

LEMMA SubmitMarketInv ==
    ASSUME MarketInv, NEW o \in Orders, Submit(o)
    PROVE  MarketInv'
  <1> DEFINE a == Owner[o]
             u == UnitReserve(o)
             r == ReserveAt(o, u, Qty[o])
  <1>1. /\ Owner \in [Orders -> Accounts] /\ a \in Accounts
        /\ Side \in [Orders -> {"BUY", "SELL"}]
        /\ Qty \in [Orders -> Nat \ {0}] /\ Qty[o] \in Nat
        /\ Limit \in [Orders -> Nat]
    BY MarketAssumption
  <1>2. u \in Nat /\ r \in Nat /\ (Side[o] = "BUY" => u \in {Limit[o], HoldWithFee(Limit[o])})
    <2>1. u \in Nat /\ (Side[o] = "BUY" => u \in {Limit[o], HoldWithFee(Limit[o])})
      BY UnitReserveFacts
    <2>2. QED
      BY <1>1, <2>1, ReserveFacts
  <1>3. /\ phase[o] = "new"
        /\ phase' = [phase EXCEPT ![o] = "live"]
        /\ escrow' = [escrow EXCEPT ![o] = r]
        /\ unit' = [unit EXCEPT ![o] = u]
        /\ executed' = executed /\ debt' = debt /\ charging' = charging
    BY DEF Submit, CanSubmit
  <1>4. /\ freeCash' \in [Accounts -> Int] /\ freeShares' \in [Accounts -> Int]
        /\ \A x \in Accounts : freeCash'[x] >= 0 /\ freeShares'[x] >= 0
    <2>1. CASE Side[o] = "BUY"
      <3>1. /\ freeCash[a] >= r
            /\ freeCash' = [freeCash EXCEPT ![a] = @ - r]
            /\ freeShares' = freeShares
        BY <2>1 DEF Submit
      <3> HIDE DEF r, u
      <3>2. QED
        BY <3>1, <1>1, <1>2 DEF MarketInv, TypeOK, Solvent
    <2>2. CASE Side[o] # "BUY"
      <3>1. /\ freeShares[a] >= r
            /\ freeShares' = [freeShares EXCEPT ![a] = @ - r]
            /\ freeCash' = freeCash
        BY <2>2 DEF Submit
      <3> HIDE DEF r, u
      <3>2. QED
        BY <3>1, <1>1, <1>2 DEF MarketInv, TypeOK, Solvent
    <2>3. QED
      BY <2>1, <2>2
  <1>8. EscrowCoversRemaining'
    <2> SUFFICES ASSUME NEW x \in Orders
                 PROVE  escrow'[x] = IF phase'[x] = "live"
                                     THEN ReserveAt(x, unit'[x], Remaining(x)') ELSE 0
      BY DEF EscrowCoversRemaining, Reserve, ReserveAt
    <2>1. Remaining(x)' = Remaining(x)
      BY <1>3 DEF Remaining
    <2>2. CASE x = o
      <3>1. Remaining(o) = Qty[o]
        BY <1>1, <1>3 DEF MarketInv, NewIsUntouched, Remaining
      <3>2. escrow'[o] = r /\ unit'[o] = u /\ phase'[o] = "live"
        BY <1>3 DEF MarketInv, TypeOK
      <3>3. QED
        BY <2>1, <2>2, <3>1, <3>2
    <2>3. CASE x # o
      BY <2>1, <2>3, <1>3 DEF MarketInv, TypeOK, EscrowCoversRemaining, Reserve
    <2>4. QED
      BY <2>2, <2>3
  <1> HIDE DEF r, u
  <1>5. TypeOK'
    BY <1>2, <1>3, <1>4 DEF MarketInv, TypeOK
  <1>6. Solvent'
    BY <1>2, <1>3, <1>4 DEF MarketInv, TypeOK, Solvent
  <1>7. NoOverfill'
    BY <1>3 DEF MarketInv, NoOverfill
  <1>9. NewIsUntouched'
    BY <1>3 DEF MarketInv, TypeOK, NewIsUntouched
  <1>10. UnitIsPriced'
    BY <1>2, <1>3 DEF MarketInv, TypeOK, UnitIsPriced
  <1>11. DebtOnlyOfUnreservedFees'
    <2> SUFFICES ASSUME NEW x \in Accounts, debt'[x] > 0
                 PROVE  \E y \in Orders : /\ Owner[y] = x /\ Side[y] = "BUY"
                                          /\ phase'[y] # "new" /\ unit'[y] = Limit[y]
      BY DEF DebtOnlyOfUnreservedFees
    <2>1. PICK y \in Orders : /\ Owner[y] = x /\ Side[y] = "BUY"
                              /\ phase[y] # "new" /\ unit[y] = Limit[y]
      BY <1>3 DEF MarketInv, DebtOnlyOfUnreservedFees
    <2>2. y # o
      BY <1>3, <2>1
    <2>3. phase'[y] = phase[y] /\ unit'[y] = unit[y]
      BY <1>3, <2>2 DEF MarketInv, TypeOK
    <2>4. QED
      BY <2>1, <2>3
  <1>12. QED
    BY <1>5, <1>6, <1>7, <1>8, <1>9, <1>10, <1>11 DEF MarketInv

LEMMA ExecuteMarketInv ==
    ASSUME MarketInv, NEW b \in Orders, NEW s \in Orders,
           NEW n \in 1..Qty[b], NEW p \in 1..Limit[b], NEW charged \in BOOLEAN,
           Execute(b, s, n, p, charged)
    PROVE  MarketInv'
  <1> DEFINE B == Owner[b]
             S == Owner[s]
             freeB == freeCash[B] + (unit[b] - p) * n
             freeS == freeCash[S] + p * n
             feeB == Fee(B, p * n, charged)
             feeS == Fee(S, p * n, charged)
  <1>1. /\ B \in Accounts /\ S \in Accounts
        /\ Qty[b] \in Nat /\ Qty[s] \in Nat /\ Limit[b] \in Nat
        /\ n \in Nat /\ p \in Nat /\ p * n \in Nat
    BY MarketAssumption
  <1>2. /\ phase[b] = "live" /\ Side[b] = "BUY"
        /\ phase[s] = "live" /\ Side[s] = "SELL"
        /\ B # S /\ b # s /\ p <= Limit[b]
        /\ n <= Remaining(b) /\ n <= Remaining(s)
        /\ freeCash' = [freeCash EXCEPT ![B] = LeftAfter(freeB, feeB),
                                        ![S] = LeftAfter(freeS, feeS)]
        /\ debt' = [debt EXCEPT ![B] = @ + OwedAfter(freeB, feeB),
                                ![S] = @ + OwedAfter(freeS, feeS)]
        /\ freeShares' = [freeShares EXCEPT ![B] = @ + n]
        /\ executed' = [executed EXCEPT ![b] = @ + n, ![s] = @ + n]
        /\ escrow' = [escrow EXCEPT ![b] = @ - unit[b] * n, ![s] = @ - n]
        /\ phase' = [phase EXCEPT ![b] = PhaseAfter(b, n), ![s] = PhaseAfter(s, n)]
        /\ charging' = charging /\ unit' = unit
    BY DEF Execute, ExecuteAnySize
  <1>3. /\ executed \in [Orders -> Nat] /\ escrow \in [Orders -> Int]
        /\ unit \in [Orders -> Nat] /\ unit[b] \in Nat /\ unit[s] \in Nat
        /\ Remaining(b) \in Nat /\ Remaining(s) \in Nat
        /\ executed[b] + n <= Qty[b] /\ executed[s] + n <= Qty[s]
    BY <1>1, <1>2 DEF MarketInv, TypeOK, NoOverfill, Remaining
  <1>4. /\ freeB \in Nat /\ freeS \in Nat /\ feeB \in Nat /\ feeS \in Nat
        /\ feeS <= freeS
    <2>1. /\ freeCash[B] \in Int /\ freeCash[S] \in Int
          /\ freeCash[B] >= 0 /\ freeCash[S] >= 0
      BY <1>1 DEF MarketInv, TypeOK, Solvent
    <2>2. feeB \in Nat /\ feeS \in Nat /\ feeS <= p * n
      <3>1. /\ feeS \in Nat /\ feeS <= TradingFee(p * n) /\ TradingFee(p * n) <= p * n
            /\ TradingFee(p * n) \in Nat
        BY <1>1, FeeFacts, FeeIsCeiling
      <3>2. feeB \in Nat
        BY <1>1, FeeFacts
      <3>3. QED
        BY <3>1, <3>2, <1>1
    <2>3. (unit[b] - p) * n \in Nat
      <3>1. unit[b] \in {Limit[b], HoldWithFee(Limit[b])}
        BY <1>2 DEF MarketInv, UnitIsPriced
      <3>2. HoldWithFee(Limit[b]) \in Nat /\ HoldWithFee(Limit[b]) >= Limit[b]
        BY <1>1, FeeIsCeiling DEF HoldWithFee
      <3>3. unit[b] - p \in Nat
        BY <1>1, <1>2, <1>3, <3>1, <3>2
      <3>4. QED
        BY <1>1, <3>3
    <2>4. QED
      BY <2>1, <2>2, <2>3, <1>1
  <1>13. /\ LeftAfter(freeB, feeB) \in Nat /\ LeftAfter(freeS, feeS) \in Nat
         /\ OwedAfter(freeB, feeB) \in Nat /\ OwedAfter(freeS, feeS) = 0
    BY <1>4, PayFacts
  <1>14. unit[b] # Limit[b] => OwedAfter(freeB, feeB) = 0
    <2> SUFFICES ASSUME unit[b] # Limit[b]
                 PROVE  feeB <= freeB
      BY <1>4, PayFacts
    <2>1. unit[b] = HoldWithFee(Limit[b])
      BY <1>2 DEF MarketInv, UnitIsPriced
    <2>2. TradingFee(p * n) <= (unit[b] - p) * n
      BY <2>1, <1>1, <1>2, ReservedFeeIsFunded
    <2>3. feeB <= TradingFee(p * n) /\ TradingFee(p * n) \in Nat
      BY <1>1, FeeFacts, FeeIsCeiling
    <2>4. freeCash[B] \in Int /\ freeCash[B] >= 0 /\ (unit[b] - p) * n \in Int
      BY <1>1, <1>3 DEF MarketInv, TypeOK, Solvent
    <2>5. QED
      BY <2>2, <2>3, <2>4, <1>4
  <1> HIDE DEF freeB, freeS, feeB, feeS
  <1>5. /\ Reserve(b, n) = unit[b] * n /\ Reserve(s, n) = n
        /\ Reserve(b, n) \in Nat
        /\ Reserve(b, Remaining(b) - n) = Reserve(b, Remaining(b)) - Reserve(b, n)
        /\ Reserve(s, Remaining(s) - n) = Reserve(s, Remaining(s)) - Reserve(s, n)
        /\ Reserve(b, Remaining(b) - n) \in Nat
        /\ Reserve(s, Remaining(s) - n) \in Nat
    <2>1. Reserve(b, n) = unit[b] * n /\ Reserve(s, n) = n
      BY <1>2 DEF Reserve, ReserveAt
    <2>2. /\ Remaining(b) - n \in Nat /\ Remaining(b) - n <= Remaining(b)
          /\ Remaining(s) - n \in Nat /\ Remaining(s) - n <= Remaining(s)
      BY <1>1, <1>2, <1>3
    <2>3. QED
      BY <2>1, <2>2, <1>1, <1>2, <1>3, ReserveFacts DEF Reserve
  <1>6. \A x \in Orders : /\ executed'[x] = IF x = b \/ x = s THEN executed[x] + n
                                           ELSE executed[x]
                          /\ escrow'[x] = IF x = b \/ x = s
                                          THEN escrow[x] - Reserve(x, n) ELSE escrow[x]
                          /\ phase'[x] = IF x = b \/ x = s THEN PhaseAfter(x, n)
                                         ELSE phase[x]
    BY <1>2, <1>3, <1>5 DEF MarketInv, TypeOK
  <1>7. EscrowCoversRemaining'
    <2> SUFFICES ASSUME NEW x \in Orders
                 PROVE  escrow'[x] = IF phase'[x] = "live"
                                     THEN ReserveAt(x, unit'[x], Remaining(x)') ELSE 0
      BY DEF EscrowCoversRemaining, Reserve, ReserveAt
    <2>1. CASE x = b \/ x = s
      <3>0. Qty[x] \in Nat /\ executed[x] \in Nat /\ unit[x] \in Nat
        BY <1>3, MarketAssumption
      <3>1. Remaining(x)' = Remaining(x) - n
        BY <2>1, <3>0, <1>1, <1>6 DEF Remaining
      <3>2. escrow'[x] = Reserve(x, Remaining(x) - n)
        BY <2>1, <1>2, <1>5, <1>6 DEF MarketInv, EscrowCoversRemaining
      <3>3. phase'[x] = IF Remaining(x) - n = 0 THEN "closed" ELSE "live"
        <4>1. phase'[x] = PhaseAfter(x, n)
          BY <2>1, <1>6
        <4>2. executed[x] + n = Qty[x] <=> Remaining(x) - n = 0
          BY <3>0, <1>1 DEF Remaining
        <4>3. QED
          BY <4>1, <4>2 DEF PhaseAfter
      <3>4. Remaining(x) - n = 0 => Reserve(x, Remaining(x) - n) = 0
        <4>1. unit[x] * 0 = 0
          BY <3>0
        <4>2. QED
          BY <4>1 DEF Reserve, ReserveAt
      <3>5. QED
        BY <3>1, <3>2, <3>3, <3>4, <1>2 DEF Reserve
    <2>2. CASE ~(x = b \/ x = s)
      BY <2>2, <1>2, <1>6, ZenonT(60) DEF MarketInv, EscrowCoversRemaining, Remaining, Reserve
    <2>3. QED
      BY <2>1, <2>2
  <1>8. TypeOK'
    <2>1. freeCash' \in [Accounts -> Int] /\ freeShares' \in [Accounts -> Int]
      BY <1>1, <1>2, <1>13 DEF MarketInv, TypeOK
    <2>2. executed' \in [Orders -> Nat] /\ debt' \in [Accounts -> Nat]
      BY <1>1, <1>2, <1>3, <1>13 DEF MarketInv, TypeOK
    <2>3. escrow' \in [Orders -> Int]
      BY <1>1, <1>2, <1>3, <1>5
    <2>4. phase' \in [Orders -> {"new", "live", "closed"}]
      BY <1>2 DEF MarketInv, TypeOK, PhaseAfter
    <2>5. QED
      BY <1>2, <2>1, <2>2, <2>3, <2>4 DEF MarketInv, TypeOK
  <1>9. Solvent'
    <2>1. \A a \in Accounts : freeCash'[a] >= 0
      BY <1>1, <1>2, <1>13 DEF MarketInv, TypeOK, Solvent
    <2>2. \A a \in Accounts : freeShares'[a] >= 0
      BY <1>1, <1>2 DEF MarketInv, TypeOK, Solvent
    <2>3. \A x \in Orders : escrow'[x] >= 0
      BY <1>2, <1>5, <1>6 DEF MarketInv, TypeOK, Solvent, EscrowCoversRemaining
    <2>4. QED
      BY <2>1, <2>2, <2>3 DEF Solvent
  <1>10. NoOverfill'
    BY <1>3, <1>6 DEF MarketInv, NoOverfill
  <1>11. NewIsUntouched'
    BY <1>6 DEF MarketInv, NewIsUntouched, PhaseAfter
  <1>15. \A x \in Orders : phase'[x] = "new" <=> phase[x] = "new"
    <2> SUFFICES ASSUME NEW x \in Orders
                 PROVE  phase'[x] = "new" <=> phase[x] = "new"
      OBVIOUS
    <2>1. CASE x = b \/ x = s
      <3>1. phase[x] = "live"
        BY <2>1, <1>2
      <3>2. phase'[x] = PhaseAfter(x, n)
        BY <2>1, <1>6
      <3>3. QED
        BY <3>1, <3>2 DEF PhaseAfter
    <2>2. CASE ~(x = b \/ x = s)
      BY <2>2, <1>6
    <2>3. QED
      BY <2>1, <2>2
  <1>16. UnitIsPriced'
    BY <1>2, <1>15 DEF MarketInv, UnitIsPriced
  <1>17. DebtOnlyOfUnreservedFees'
    <2> SUFFICES ASSUME NEW x \in Accounts, debt'[x] > 0
                 PROVE  \E y \in Orders : /\ Owner[y] = x /\ Side[y] = "BUY"
                                          /\ phase'[y] # "new" /\ unit'[y] = Limit[y]
      BY DEF DebtOnlyOfUnreservedFees
    <2>1. CASE x = B /\ unit[b] = Limit[b]
      BY <2>1, <1>2, <1>15
    <2>2. CASE ~(x = B /\ unit[b] = Limit[b])
      <3>1. debt'[x] = debt[x]
        BY <2>2, <1>1, <1>2, <1>13, <1>14 DEF MarketInv, TypeOK
      <3>2. QED
        BY <3>1, <1>2, <1>15 DEF MarketInv, DebtOnlyOfUnreservedFees
    <2>3. QED
      BY <2>1, <2>2
  <1>12. QED
    BY <1>7, <1>8, <1>9, <1>10, <1>11, <1>16, <1>17 DEF MarketInv

LEMMA CloseMarketInv ==
    ASSUME MarketInv, NEW o \in Orders, Close(o)
    PROVE  MarketInv'
  <1>1. Owner[o] \in Accounts
    BY MarketAssumption
  <1>2. /\ phase' = [phase EXCEPT ![o] = "closed"]
        /\ escrow' = [escrow EXCEPT ![o] = 0]
        /\ executed' = executed /\ debt' = debt /\ unit' = unit /\ charging' = charging
        /\ phase[o] = "live"
    BY DEF Close
  <1>3. /\ freeCash' \in [Accounts -> Int] /\ freeShares' \in [Accounts -> Int]
        /\ \A x \in Accounts : freeCash'[x] >= 0 /\ freeShares'[x] >= 0
    BY <1>1 DEF Close, MarketInv, TypeOK, Solvent
  <1>4. TypeOK'
    BY <1>2, <1>3 DEF MarketInv, TypeOK
  <1>5. Solvent'
    BY <1>2, <1>3 DEF MarketInv, TypeOK, Solvent
  <1>6. NoOverfill'
    BY <1>2 DEF MarketInv, NoOverfill
  <1>7. EscrowCoversRemaining'
    BY <1>2 DEF MarketInv, TypeOK, EscrowCoversRemaining, Remaining, Reserve, ReserveAt
  <1>8. NewIsUntouched'
    BY <1>2 DEF MarketInv, TypeOK, NewIsUntouched
  <1>9. \A x \in Orders : phase'[x] = "new" <=> phase[x] = "new"
    BY <1>2 DEF MarketInv, TypeOK
  <1>10. UnitIsPriced' /\ DebtOnlyOfUnreservedFees'
    BY <1>2, <1>9 DEF MarketInv, UnitIsPriced, DebtOnlyOfUnreservedFees
  <1>11. QED
    BY <1>4, <1>5, <1>6, <1>7, <1>8, <1>10 DEF MarketInv

LEMMA NextMarketInv == MarketInv /\ [Next]_mvars => MarketInv'
  <1> SUFFICES ASSUME MarketInv, [Next]_mvars
               PROVE  MarketInv'
    OBVIOUS
  <1>0. CASE StartCharging
    BY <1>0, StartChargingMarketInv
  <1>1. CASE \E o \in Orders : Submit(o)
    BY <1>1, SubmitMarketInv
  <1>2. CASE Trade
    BY <1>2, ExecuteMarketInv DEF Trade
  <1>3. CASE \E o \in Orders : Close(o)
    BY <1>3, CloseMarketInv
  <1>4. CASE UNCHANGED mvars
    BY <1>4 DEF mvars, MarketInv, TypeOK, Solvent, NoOverfill,
                EscrowCoversRemaining, NewIsUntouched, UnitIsPriced,
                DebtOnlyOfUnreservedFees, Remaining, Reserve, ReserveAt
  <1>5. QED
    BY <1>0, <1>1, <1>2, <1>3, <1>4 DEF Next

LEMMA MarketInvariant == Spec => []MarketInv
  BY InitMarketInv, NextMarketInv, PTL DEF Spec

----------------------------------------------------------------------------
\* The variables keep their types: place, settleTrade and closeOrder.
THEOREM MarketTypeOK == Spec => []TypeOK
  BY MarketInvariant, PTL DEF MarketInv

\* No trade, at any accepted price and size, overdraws an account's cash,
\* shares or reserve.
THEOREM MarketSolvent == Spec => []Solvent
  BY MarketInvariant, PTL DEF MarketInv

\* No order executes more than its quantity.
THEOREM MarketNoOverfill == Spec => []NoOverfill
  BY MarketInvariant, PTL DEF MarketInv

\* Reserves are exact: what a live order sets aside is what its unexecuted
\* rest could still cost, and nothing stays set aside by a finished order.
THEOREM MarketEscrowExact == Spec => []EscrowCoversRemaining
  BY MarketInvariant, PTL DEF MarketInv

\* A fee that was reserved is always paid: only the owner of a buy accepted
\* before fees were charged can come to owe one (settleTradingFees).
THEOREM MarketDebtOnlyOfUnreservedFees == Spec => []DebtOnlyOfUnreservedFees
  BY MarketInvariant, PTL DEF MarketInv

\* A closed order is final: it neither reopens nor trades again.
THEOREM MarketClosedIsFinal == Spec => ClosedIsFinal
  <1>1. MarketInv /\ [Next]_mvars =>
            [\A o \in Orders : phase[o] = "closed" =>
                phase'[o] = "closed" /\ executed'[o] = executed[o]]_mvars
    BY DEF MarketInv, TypeOK, Next, StartCharging, Trade, Submit, CanSubmit, Execute, ExecuteAnySize, Close, mvars
  <1>2. QED
    BY <1>1, MarketInvariant, PTL DEF Spec, ClosedIsFinal
=============================================================================
