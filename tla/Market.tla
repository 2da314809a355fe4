------------------------------- MODULE Market -------------------------------
(***************************************************************************)
(* What the spot exchange promises its accounts, without the pipeline that *)
(* delivers it: no outbox, no stream, no engine process, no restart.       *)
(*                                                                         *)
(* An order sets aside what it could cost when it is submitted, the fee    *)
(* included once fees are charged.  A trade between two live orders takes  *)
(* its share of what each set aside, at a price both accept, in one step.  *)
(* A close gives back what is left.  A fee that an account cannot pay is   *)
(* booked as debt.  Settlement is proved to implement this module, and     *)
(* Exchange, the pipeline, is checked to.                                  *)
(***************************************************************************)
EXTENDS Fees

CONSTANTS
    Accounts,
    Orders,
    Owner,      \* [Orders -> Accounts]
    Side,       \* [Orders -> {"BUY", "SELL"}]
    Qty,        \* [Orders -> Nat \ {0}]
    Limit,      \* [Orders -> Nat]: worst price accepted, 0 for a SELL at any price
    Exempt,     \* the accounts of bots pay no fee
    Cash0,      \* [Accounts -> Nat]: opening cash
    Shares0     \* [Accounts -> Nat]: opening shares

ASSUME MarketAssumption ==
    /\ Owner \in [Orders -> Accounts]
    /\ Side \in [Orders -> {"BUY", "SELL"}]
    /\ Qty \in [Orders -> Nat \ {0}]
    /\ Limit \in [Orders -> Nat]
    /\ Cash0 \in [Accounts -> Nat]
    /\ Shares0 \in [Accounts -> Nat]

VARIABLES
    charging,    \* trading fees have come into force
    freeCash,    \* cash an account may spend on new orders
    freeShares,  \* shares an account may offer in new orders
    debt,        \* fees an account could not pay
    phase,       \* "new", "live" or "closed", per order
    unit,        \* cash that one unit of a BUY sets aside
    executed,    \* quantity executed, per order
    escrow       \* set aside by a live order: cash of a BUY, shares of a SELL

mvars == <<charging, freeCash, freeShares, debt, phase, unit, executed, escrow>>

Remaining(o) == Qty[o] - executed[o]

\* What a unit of the order sets aside when it is submitted now.
UnitReserve(o) ==
    IF Side[o] = "SELL" THEN 0
    ELSE IF charging /\ Owner[o] \notin Exempt THEN HoldWithFee(Limit[o])
    ELSE Limit[o]

\* What n units set aside, u being the cash of one unit of a BUY.
ReserveUnits(o, u, n) == n

ReserveAt(o, u, n) == IF Side[o] = "BUY" THEN u * n ELSE n

Reserve(o, n) == ReserveAt(o, unit[o], n)

Init ==
    /\ charging \in BOOLEAN
    /\ freeCash = Cash0
    /\ freeShares = Shares0
    /\ debt = [a \in Accounts |-> 0]
    /\ phase = [o \in Orders |-> "new"]
    /\ unit = [o \in Orders |-> 0]
    /\ executed = [o \in Orders |-> 0]
    /\ escrow = [o \in Orders |-> 0]

\* The date comes from which executions are charged.
StartCharging ==
    /\ ~charging
    /\ charging' = TRUE
    /\ UNCHANGED <<freeCash, freeShares, debt, phase, unit, executed, escrow>>

CanSubmitAgain(o) == phase[o] # "live"

CanSubmit(o) == phase[o] = "new"

\* An order is accepted when its owner can set aside all it could cost.
Submit(o) ==
    LET a == Owner[o]
        r == ReserveAt(o, UnitReserve(o), Qty[o])
    IN
    /\ CanSubmit(o)
    /\ IF Side[o] = "BUY"
       THEN /\ freeCash[a] >= r
            /\ freeCash' = [freeCash EXCEPT ![a] = @ - r]
            /\ UNCHANGED freeShares
       ELSE /\ freeShares[a] >= r
            /\ freeShares' = [freeShares EXCEPT ![a] = @ - r]
            /\ UNCHANGED freeCash
    /\ phase' = [phase EXCEPT ![o] = "live"]
    /\ unit' = [unit EXCEPT ![o] = UnitReserve(o)]
    /\ escrow' = [escrow EXCEPT ![o] = r]
    /\ UNCHANGED <<charging, debt, executed>>

PhaseAfter(o, n) == IF executed[o] + n = Qty[o] THEN "closed" ELSE "live"

\* The fee of one side of a trade worth x, made since fees are charged or before.
Fee(a, x, charged) == IF charged /\ a \notin Exempt THEN TradingFee(x) ELSE 0

\* A fee is paid from free cash as far as that goes, and the rest is owed.
OwedAfter(free, fee) == IF fee > 0 /\ fee > free THEN fee - free ELSE 0

LeftAfter(free, fee) == free - fee + OwedAfter(free, fee)

\* n units of b and s trade at price p.  The buyer gets back what the units set
\* aside above p; the seller is paid; both pay their fee.
ExecuteAnySize(b, s, n, p, charged) ==
    LET B == Owner[b]
        S == Owner[s]
        freeB == freeCash[B] + (unit[b] - p) * n
        freeS == freeCash[S] + p * n
        feeB == Fee(B, p * n, charged)
        feeS == Fee(S, p * n, charged)
    IN
    /\ phase[b] = "live" /\ Side[b] = "BUY"
    /\ phase[s] = "live" /\ Side[s] = "SELL"
    /\ B # S
    /\ p <= Limit[b] /\ p >= Limit[s]
    /\ charged => charging
    /\ freeCash' = [freeCash EXCEPT ![B] = LeftAfter(freeB, feeB),
                                    ![S] = LeftAfter(freeS, feeS)]
    /\ debt' = [debt EXCEPT ![B] = @ + OwedAfter(freeB, feeB),
                            ![S] = @ + OwedAfter(freeS, feeS)]
    /\ freeShares' = [freeShares EXCEPT ![B] = @ + n]
    /\ executed' = [executed EXCEPT ![b] = @ + n, ![s] = @ + n]
    /\ escrow' = [escrow EXCEPT ![b] = @ - unit[b] * n, ![s] = @ - n]
    /\ phase' = [phase EXCEPT ![b] = PhaseAfter(b, n), ![s] = PhaseAfter(s, n)]
    /\ UNCHANGED <<charging, unit>>

Execute(b, s, n, p, charged) ==
    /\ n <= Remaining(b) /\ n <= Remaining(s)
    /\ ExecuteAnySize(b, s, n, p, charged)

\* The rest of a live order is canceled and its reserve given back.
CloseKeepingReserve(o) ==
    /\ phase[o] = "live"
    /\ phase' = [phase EXCEPT ![o] = "closed"]
    /\ UNCHANGED <<charging, freeCash, freeShares, debt, unit, executed, escrow>>

Close(o) ==
    LET a == Owner[o] IN
    /\ phase[o] = "live"
    /\ phase' = [phase EXCEPT ![o] = "closed"]
    /\ escrow' = [escrow EXCEPT ![o] = 0]
    /\ IF Side[o] = "BUY"
       THEN /\ freeCash' = [freeCash EXCEPT ![a] = @ + escrow[o]]
            /\ UNCHANGED freeShares
       ELSE /\ freeShares' = [freeShares EXCEPT ![a] = @ + escrow[o]]
            /\ UNCHANGED freeCash
    /\ UNCHANGED <<charging, debt, unit, executed>>

Trade == \E b, s \in Orders :
            \E n \in 1..Qty[b], p \in 1..Limit[b], charged \in BOOLEAN :
                Execute(b, s, n, p, charged)

Next == \/ StartCharging
        \/ \E o \in Orders : Submit(o)
        \/ Trade
        \/ \E o \in Orders : Close(o)

Spec == Init /\ [][Next]_mvars

----------------------------------------------------------------------------
(***************************************************************************)
(* Properties                                                              *)
(***************************************************************************)
TypeOK ==
    /\ charging \in BOOLEAN
    /\ freeCash \in [Accounts -> Int]
    /\ freeShares \in [Accounts -> Int]
    /\ debt \in [Accounts -> Nat]
    /\ phase \in [Orders -> {"new", "live", "closed"}]
    /\ unit \in [Orders -> Nat]
    /\ executed \in [Orders -> Nat]
    /\ escrow \in [Orders -> Int]

\* No account ever owes cash or shares: whatever trades at whatever price,
\* what is not set aside never becomes negative (hold <= balance and
\* holdQty <= qty in the database), nor does what is set aside.
Solvent ==
    /\ \A a \in Accounts : freeCash[a] >= 0 /\ freeShares[a] >= 0
    /\ \A o \in Orders : escrow[o] >= 0

\* An order never trades more than its quantity.
NoOverfill == \A o \in Orders : executed[o] <= Qty[o]

\* A live order sets aside exactly what its unexecuted rest could cost, and
\* an order that is over sets nothing aside.
EscrowCoversRemaining ==
    \A o \in Orders :
        escrow[o] = IF phase[o] = "live" THEN Reserve(o, Remaining(o)) ELSE 0

\* The reserve of a buy covers its fees however its execution is split and
\* whatever the price, and a seller pays out of the proceeds: only the owner of
\* a buy that was accepted before fees were charged can come to owe a fee.
DebtOnlyOfUnreservedFees ==
    \A a \in Accounts : debt[a] > 0 =>
        \E o \in Orders : /\ Owner[o] = a /\ Side[o] = "BUY"
                          /\ phase[o] # "new" /\ unit[o] = Limit[o]

\* A closed order neither reopens nor trades again.
ClosedIsFinal ==
    [][\A o \in Orders : phase[o] = "closed" =>
            phase'[o] = "closed" /\ executed'[o] = executed[o]]_mvars
=============================================================================
