----------------------------- MODULE MCExchange -----------------------------
(***************************************************************************)
(* Two accounts and three orders of one symbol.                            *)
(***************************************************************************)
EXTENDS Exchange, TLC

CONSTANTS a1, a2, b1, s1, s2, e1, e2

T(a, side, type, price, qty) ==
    [acct |-> a, side |-> side, type |-> type, price |-> price, qty |-> qty]

MCAccounts == {a1, a2}
\* one leader at a time; the second process is only told apart from the first
\* while a former leader still has a transaction in flight
OneEngine == {e1}
TwoEngines == {e1, e2}
EngineSymmetry == Permutations(TwoEngines)
MCOrders == {b1, s1, s2}
MCTerms == b1 :> T(a1, "BUY", "LIMIT", 2, 2) @@ s1 :> T(a2, "SELL", "LIMIT", 1, 1)
           @@ s2 :> T(a2, "SELL", "MARKET", NoPrice, 2)
\* two orders, one of which is filled in part
PairOrders == {b1, s2}
PairTerms == b1 :> T(a1, "BUY", "LIMIT", 2, 2) @@ s2 :> T(a2, "SELL", "MARKET", NoPrice, 1)
\* bound: a second fault only while s1 is not placed
TwoFaultsWithTwoOrders == faults' = 2 => order'[s1].status = "NONE"
MCExempt == {a2}
MCCash == a1 :> 6 @@ a2 :> 0
MCShares == a1 :> 0 @@ a2 :> 3
=============================================================================
