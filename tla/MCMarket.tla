------------------------------ MODULE MCMarket ------------------------------
(***************************************************************************)
(* Three accounts trade orders of one share.  A fee is half of the         *)
(* notional, rounded up: large enough to matter at such prices.  A         *)
(* behaviour follows one scenario: orders that come at any time, or        *)
(* requests under one key, or amendments and a cancel of one order, each   *)
(* with an order of another account to trade with.                         *)
(***************************************************************************)
EXTENDS Requests, TLC

CONSTANTS a1, a2, a3,
          b1, b2, s1, s2,      \* orders that come at any time
          copy1, copy2, \* of the order asked for under key "k"
          old, new1, new2, newer1, newer2

VARIABLE scenario

Order(owner, side, qty, limit) == [owner |-> owner, side |-> side, qty |-> qty, limit |-> limit]

MCTerms ==
    b1 :> Order(a1, "BUY", 3, 2) @@ b2 :> Order(a2, "BUY", 1, 3) @@
    s1 :> Order(a2, "SELL", 2, 2) @@ s2 :> Order(a3, "SELL", 2, 0) @@
    copy1 :> Order(a1, "BUY", 1, 2) @@ copy2 :> Order(a1, "BUY", 1, 2) @@
    old :> Order(a1, "BUY", 2, 1) @@
    new1 :> Order(a1, "BUY", 1, 2) @@ new2 :> Order(a1, "BUY", 2, 2) @@
    newer1 :> Order(a1, "BUY", 1, 1) @@ newer2 :> Order(a1, "BUY", 2, 1)

MCOrders == DOMAIN MCTerms
MCAccounts == {a1, a2, a3}
MCExempt == {a3}
MCOwner == [o \in MCOrders |-> MCTerms[o].owner]
MCSide == [o \in MCOrders |-> MCTerms[o].side]
MCQty == [o \in MCOrders |-> MCTerms[o].qty]
MCLimit == [o \in MCOrders |-> MCTerms[o].limit]
MCCash == a1 :> 9 @@ a2 :> 4 @@ a3 :> 0
MCShares == a1 :> 0 @@ a2 :> 2 @@ a3 :> 2

PlaceAsk == [kind |-> "place", key |-> "k", orders |-> {copy1, copy2}]

AmendAsk(n, orders) == [kind |-> "amend", order |-> old, qty |-> n, orders |-> orders]

MCRequests == {"p1", "p2", "p3", "cancel", "amend", "amendAgain"}

MCAsk == [r \in {"p1", "p2", "p3"} |-> PlaceAsk]
      @@ "cancel" :> [kind |-> "cancel", order |-> old]
      @@ "amend" :> AmendAsk(0, {new1, new2})
      @@ "amendAgain" :> AmendAsk(1, {newer1, newer2})

\* Requests, and the other orders that come.
Scenarios == {
    [requests |-> {}, direct |-> {b1, b2, s1, s2}],
    [requests |-> {"p1", "p2", "p3"}, direct |-> {s2}],
    [requests |-> {"cancel", "amend", "amendAgain"}, direct |-> {old, s2}]}

MCInit == Init /\ RequestInit /\ scenario \in Scenarios

\* Trade, looking only where it can happen.
MCTrade ==
    \E b, s \in {o \in Orders : phase[o] = "live"} :
        \E n \in 1..Remaining(b), p \in 1..Limit[b], charged \in BOOLEAN :
            Execute(b, s, n, p, charged)

MCNext ==
    /\ UNCHANGED scenario
    /\ \/ \E r \in scenario.requests : RequestStep(r)
       \/ \E o \in Orders : FilterExpires(o)
       \/ /\ \/ StartCharging
             \/ MCTrade
             \/ \E o \in Orders : Close(o)
             \/ \E o \in scenario.direct : Submit(o)
          /\ UNCHANGED requestVars

MCSpec == MCInit /\ [][MCNext]_<<reqVars, scenario>>
=============================================================================
