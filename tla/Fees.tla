-------------------------------- MODULE Fees --------------------------------
(***************************************************************************)
(* Trading fees: a small share of what changes hands, charged to both      *)
(* sides of every execution and rounded up to a whole won each time.       *)
(***************************************************************************)
EXTENDS Integers

CONSTANTS FeeDivisor     \* the fee is 1/FeeDivisor: 10 000 for one basis point

ASSUME FeesAssumption == FeeDivisor \in Nat \ {0}

TradingFee(notional) == (notional + FeeDivisor - 1) \div FeeDivisor

\* orderHoldWithFee: what one unit at a price sets aside.  An order may execute
\* unit by unit, so each unit sets aside a fee of its own.  (A faulty definition
\* that stands just before a right one is an error the properties are seen to
\* catch; no module uses it.)
HoldWithFeeRoundedDown(price) == price + price \div FeeDivisor

HoldWithFee(price) == price + TradingFee(price)
=============================================================================
