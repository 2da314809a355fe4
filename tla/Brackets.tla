----------------------------- MODULE Brackets -----------------------------
(***************************************************************************)
(* "Stop loss / take profit after the fill": the intent that is attached   *)
(* to a buy order and the sweep that turns it into conditional orders when *)
(* the buy order has ended.  bracket.service.ts, on top of                 *)
(* conditional-order.service.ts.                                           *)
(***************************************************************************)
EXTENDS ConditionalOrders

CONSTANTS
    Lower, Upper,  \* the rows a bracket registers; a group of their own
    StopBps, TakeBps,  \* distances of the two; 0: that leg is not wanted
    MaxFilled

ASSUME BracketAssumption ==
    /\ Lower \in Rows /\ Upper \in Rows /\ Lower # Upper
    /\ StopBps \in 0..BpsBase /\ TakeBps \in Nat /\ StopBps + TakeBps > 0
    /\ Legs(Terms[Lower].group) = {Lower, Upper}
    /\ ~IsTrailing(Lower) /\ ~IsTrailing(Upper)

VARIABLES
    parent,    \* the buy order: status, executed quantity and amount
    intent,    \* bracket_intents: status and armed quantity
    arming,    \* per instance: where its sweep is with the intent
    protected  \* history: what was done for the intent, in order

bracketVars == <<parent, intent, arming, protected>>
allVars == <<condVars, bracketVars>>

BracketInit ==
    /\ parent = [status |-> "NONE", filled |-> 0, amount |-> 0]
    /\ intent = [status |-> "NONE", armedQty |-> 0]
    /\ arming = [p \in Instances |-> "idle"]
    /\ protected = <<>>

\* OrderController.place: the intent is stored after the order.
AttachBracket ==
    /\ maintenance # "active"
    /\ parent.status = "NONE"
    /\ parent' = [parent EXCEPT !.status = "OPEN"]
    /\ intent' = [intent EXCEPT !.status = "PENDING"]
    /\ UNCHANGED <<condVars, arming, protected>>

\* Settlement books a fill of the buy order at the current price.
FillParent ==
    /\ parent.status = "OPEN"
    /\ parent.filled < MaxFilled
    /\ parent' = [parent EXCEPT !.filled = @ + 1, !.amount = @ + price]
    /\ held' = held + 1
    /\ UNCHANGED <<memory, future, row, jobs, writes, price, sent, maintenance, trades,
                   faults, intent, arming, protected>>

\* FILLED, CANCELED or REJECTED
EndParent ==
    /\ parent.status = "OPEN"
    /\ parent' = [parent EXCEPT !.status = "ENDED"]
    /\ UNCHANGED <<condVars, intent, arming, protected>>

\* cancel
CancelIntent ==
    /\ maintenance # "active"
    /\ intent.status = "PENDING"
    /\ intent' = [intent EXCEPT !.status = "CANCELED"]
    /\ UNCHANGED <<condVars, parent, arming, protected>>

----------------------------------------------------------------------------
\* sweep and settle: an instance has read a pending intent and an order that
\* has ended.  One sweep of an instance at a time.
SweepReads(p) ==
    /\ maintenance # "active"
    /\ arming[p] = "idle"
    /\ intent.status = "PENDING" /\ parent.status = "ENDED"
    /\ arming' = [arming EXCEPT ![p] = "claim"]
    /\ UNCHANGED <<condVars, parent, intent, protected>>

ClaimAnyIntent == TRUE

IntentClaimable == intent.status = "PENDING"

\* updateMany where status = PENDING
ClaimIntent(p) ==
    /\ arming[p] = "claim"
    /\ IF IntentClaimable
       THEN /\ intent' = [intent EXCEPT !.status = IF parent.filled = 0 THEN "CANCELED" ELSE "ARMED"]
            /\ arming' = [arming EXCEPT ![p] = IF parent.filled = 0 THEN "idle" ELSE "decide"]
       ELSE /\ arming' = [arming EXCEPT ![p] = "idle"]
            /\ intent' = intent
    /\ UNCHANGED <<condVars, parent, protected>>

Wanted == (IF StopBps > 0 THEN {Lower} ELSE {}) \cup (IF TakeBps > 0 THEN {Upper} ELSE {})

\* The distances are measured from the average price, rounded half up, and
\* outwards; the legs are never on the same price.
AveragePrice == (2 * parent.amount + parent.filled) \div (2 * parent.filled)

LowerPrice == Larger(1, (AveragePrice * (BpsBase - StopBps)) \div BpsBase)

UpperPrice ==
    Larger(IF Lower \in Wanted THEN LowerPrice + 1 ELSE 1,
           (AveragePrice * (BpsBase + TakeBps) + BpsBase - 1) \div BpsBase)

LegPrice(c) == IF c = Lower THEN LowerPrice ELSE UpperPrice

LegMet(c) == ConditionMet(Terms[c].direction, LegPrice(c), price)

\* The price has passed a leg already: sell at once.  Otherwise register.
Decide(p) ==
    /\ arming[p] = "decide"
    /\ arming' = [arming EXCEPT ![p] = IF \E c \in Wanted : LegMet(c) THEN "sell" ELSE "register"]
    /\ UNCHANGED <<condVars, parent, intent, protected>>

\* A market order for all of it; whether it was accepted only changes the note.
SellAtOnce(p) ==
    /\ arming[p] = "sell"
    /\ sent' = IF parent.filled <= held - Reserved
               THEN Append(sent, [row |-> "none", qty |-> parent.filled, left |-> parent.filled])
               ELSE sent
    /\ protected' = Append(protected, "sold")
    /\ arming' = [arming EXCEPT ![p] = "record"]
    /\ UNCHANGED <<memory, market, row, jobs, writes, faults, parent, intent>>

StaysArmed == "ARMED"

AfterRefusal == "PENDING"

\* placeOco, or place for one leg, with the checks of their own (the price may
\* have moved since Decide).  A refusal throws, and the intent is pending again.
RegisterLegs(p) ==
    /\ arming[p] = "register"
    /\ IF /\ ~\E c \in Wanted : LegMet(c)
          /\ future => parent.filled <= Closable
       THEN /\ CreateRows(p, Wanted,
                   [c \in Wanted |-> [status |-> "WAITING", trigger |-> LegPrice(c),
                                      water |-> 0, qty |-> parent.filled]])
            /\ protected' = Append(protected, "registered")
            /\ arming' = [arming EXCEPT ![p] = "record"]
            /\ intent' = intent
       ELSE /\ intent' = [intent EXCEPT !.status = AfterRefusal]
            /\ arming' = [arming EXCEPT ![p] = "idle"]
            /\ UNCHANGED <<row, waiting, protected>>
    /\ UNCHANGED <<market, reload, inbox, jobs, writes, sent, faults, parent>>

RecordArmed(p) ==
    /\ arming[p] = "record"
    /\ intent' = [intent EXCEPT !.armedQty = parent.filled]
    /\ arming' = [arming EXCEPT ![p] = "idle"]
    /\ UNCHANGED <<condVars, parent, protected>>

\* Any statement after the claim fails: pending again.
ArmingFails(p) ==
    /\ Fault("armingFails")
    /\ arming[p] \in {"decide", "register", "record"}
    /\ intent' = [intent EXCEPT !.status = "PENDING"]
    /\ arming' = [arming EXCEPT ![p] = "idle"]
    /\ UNCHANGED <<memory, market, row, jobs, writes, sent, parent, protected>>

\* The conditional orders of the instance stop with it.
CrashArming(p) ==
    /\ Crash(p)
    /\ arming' = [arming EXCEPT ![p] = "idle"]
    /\ UNCHANGED <<parent, intent, protected>>

----------------------------------------------------------------------------
Sweep(p) == \/ SweepReads(p) \/ ClaimIntent(p) \/ Decide(p)
            \/ SellAtOnce(p) \/ RegisterLegs(p) \/ RecordArmed(p)

BracketUser == AttachBracket \/ FillParent \/ EndParent \/ CancelIntent

\* The rows of the bracket are registered by its sweep alone.
BracketNext ==
    \/ /\ \/ \E p \in Instances, g \in Groups \ {Terms[Lower].group} : Register(p, g)
          \/ \E p \in Instances, c \in Rows : Cancel(p, c)
          \/ CondSystem \/ CondWorld \/ Losses
       /\ UNCHANGED bracketVars
    \/ BracketUser
    \/ \E p \in Instances : Sweep(p) \/ ArmingFails(p) \/ CrashArming(p)

BracketSpec == CondInit /\ BracketInit /\ [][BracketNext]_allVars

BracketFairness ==
    /\ CondFairness
    /\ \A p \in Apis : WF_allVars(p \in Instances /\ Sweep(p))

(***************************************************************************)
(* The position is protected once and for what the user still wants: the   *)
(* instances that sweep do not register it twice, a cancellation that has  *)
(* won is not followed by a registration, and a retry after a price moved  *)
(* between decision and registration adds nothing to an earlier attempt.   *)
(* A failed statement after the registration breaks this (see the README). *)
(***************************************************************************)
ProtectedOnce ==
    faults = 0 => /\ Len(protected) <= 1
                  /\ (protected # <<>> => intent.status = "ARMED")
                  /\ (intent.armedQty > 0 => protected # <<>>)

(***************************************************************************)
(* A buy order that has ended with something executed is protected in the  *)
(* end, unless the user cancels the intent, a statement fails or an        *)
(* instance stops, however the price moves while the legs are registered.  *)
(***************************************************************************)
FillsGetProtected ==
    (parent.status = "ENDED" /\ parent.filled > 0)
        ~> (protected # <<>> \/ intent.status = "CANCELED" \/ faults > 0)
=============================================================================
