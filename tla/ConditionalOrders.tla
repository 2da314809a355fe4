------------------------- MODULE ConditionalOrders -------------------------
(***************************************************************************)
(* Conditional orders of one account in one symbol, as kept by the API     *)
(* instances: conditional-order.service.ts.  The rows are in the database. *)
(* Every instance has an index of waiting rows in memory, hears the trades *)
(* by Pub/Sub, and works on many rows at once: between two awaits of one   *)
(* handler anything else may happen.  `jobs` holds the handlers that are   *)
(* in the middle of something, by what they do next.                       *)
(***************************************************************************)
EXTENDS Sums, Sequences, FiniteSets

CONSTANTS
    Apis,
    Rows,
    Terms,       \* [Rows -> [side, direction, trigger, qty, group, bps]]; bps = 0: no trailing
    Prices,      \* prices at which the symbol trades
    Price0,
    Held0,       \* shares, or contracts of the position that the rows close
    BpsBase,     \* 10_000
    FaultKinds,  \* subset of {"crash", "lostTick", "lostWrite", "lostResult", "positionGone"}
    MaxTrades,
    MaxFaults

RowTerms == [side : {"BUY", "SELL"}, direction : {"AT_OR_ABOVE", "AT_OR_BELOW"},
             trigger : Nat, qty : Nat \ {0}, group : STRING, bps : Nat]

ASSUME ConditionalAssumption ==
    /\ Terms \in [Rows -> RowTerms]
    /\ "none" \notin Rows
    /\ Price0 \in Prices /\ Prices \subseteq Nat \ {0}
    /\ Held0 \in Nat /\ BpsBase \in Nat \ {0}

VARIABLES
    future,      \* the symbol is a future: rows only close a position
    row,         \* conditional_orders: status, trigger price, watermark, quantity
    waiting,     \* per instance: waiting row -> its watermark (0: none)
    reload,      \* per instance: where its reloadIndex is, and the rows it read
    inbox,       \* per instance: prices of trade messages not handled yet
    jobs,        \* handlers between two awaits
    writes,      \* persistTrail updates on their way
    price,       \* last price
    held,        \* the position or holding
    sent,        \* orders the rows have placed
    maintenance, \* "before", "active" or "over"
    trades, faults

condVars == <<future, row, waiting, reload, inbox, jobs, writes, price, held, sent,
              maintenance, trades, faults>>

memory == <<waiting, reload, inbox>>
market == <<future, price, held, maintenance, trades>>

Instances == DOMAIN waiting   \* how many are deployed does not change

Legs(g) == {c \in Rows : Terms[c].group = g}
Siblings(c) == Legs(Terms[c].group) \ {c}
Groups == {Terms[c].group : c \in Rows}
IsTrailing(c) == Terms[c].bps > 0

NoRow == [status |-> "NONE", trigger |-> 0, water |-> 0, qty |-> 0]

CondInit ==
    /\ future \in BOOLEAN
    /\ row = [c \in Rows |-> NoRow]
    /\ \E instances \in SUBSET Apis \ {{}} :
           /\ waiting = [p \in instances |-> <<>>]
           /\ reload = [p \in instances |-> [stage |-> "idle", rows |-> <<>>]]
           /\ inbox = [p \in instances |-> <<>>]
    /\ jobs = {} /\ writes = {}
    /\ price = Price0 /\ held = Held0
    /\ sent = <<>>
    /\ maintenance = "before"
    /\ trades = 0 /\ faults = 0

----------------------------------------------------------------------------
(***************************************************************************)
(* Prices                                                                  *)
(***************************************************************************)
Larger(a, b) == IF a > b THEN a ELSE b
Smaller(a, b) == IF a < b THEN a ELSE b

ConditionMet(direction, trigger, x) ==
    IF direction = "AT_OR_ABOVE" THEN x >= trigger ELSE x <= trigger

\* Rounded down below a high, up above a low.
TrailingTrigger(side, water, bps) ==
    IF side = "SELL" THEN Larger(1, (water * (BpsBase - bps)) \div BpsBase)
    ELSE Larger(1, (water * (BpsBase + bps) + BpsBase - 1) \div BpsBase)

AdvancesWatermark(side, water, x) == IF side = "SELL" THEN x > water ELSE x < water

\* The trigger price that goes with a watermark (the code stores both).
TriggerAt(c, water) ==
    IF IsTrailing(c) THEN TrailingTrigger(Terms[c].side, water, Terms[c].bps)
    ELSE row[c].trigger

MetAt(c, water, x) == ConditionMet(Terms[c].direction, TriggerAt(c, water), x)

\* What is left to close: the position less the closing orders that are live.
\* For shares, those not held for another sell.
Reserved == Total([i \in DOMAIN sent |-> sent[i].left])
Closable == Larger(0, held - Reserved)

----------------------------------------------------------------------------
(***************************************************************************)
(* Registering and canceling (REST)                                        *)
(***************************************************************************)
\* assertNotAlreadyMet for every leg and assertFuturesClosing.
MayRegister(g) ==
    \A c \in Legs(g) :
        /\ IF IsTrailing(c)
           THEN ~ConditionMet(Terms[c].direction,
                              TrailingTrigger(Terms[c].side, price, Terms[c].bps), price)
           ELSE ~ConditionMet(Terms[c].direction, Terms[c].trigger, price)
        /\ future => held > 0 /\ Terms[c].qty <= Closable

\* place and placeOco up to the insert: everything is checked against what is
\* read here.
Register(p, g) ==
    /\ maintenance # "active"
    /\ \A c \in Legs(g) : row[c].status = "NONE"
    /\ ~\E j \in jobs : j.stage = "create" /\ j.row \in Legs(g)
    /\ MayRegister(g)
    /\ jobs' = jobs \cup {[api |-> p, stage |-> "create", row |-> CHOOSE c \in Legs(g) : TRUE,
                           qty |-> price]}
    /\ UNCHANGED <<memory, market, row, writes, sent, faults>>

\* One transaction inserts all legs; then they enter the index.
CreateRows(p, legs, newRow) ==
    /\ row' = [c \in Rows |-> IF c \in legs THEN newRow[c] ELSE row[c]]
    /\ waiting' = [waiting EXCEPT ![p] =
           [c \in DOMAIN @ \cup legs |-> IF c \in legs THEN newRow[c].water ELSE @[c]]]

Create(j) ==
    LET legs == Legs(Terms[j.row].group) IN
    /\ j.stage = "create"
    /\ CreateRows(j.api, legs,
           [c \in legs |-> [status |-> "WAITING", trigger |-> Terms[c].trigger,
                            water |-> IF IsTrailing(c) THEN j.qty ELSE 0,
                            qty |-> Terms[c].qty]])
    /\ jobs' = jobs \ {j}
    /\ UNCHANGED <<market, reload, inbox, writes, sent, faults>>

\* The rows of an index without some.
Without(p, cs) == [c \in DOMAIN waiting[p] \ cs |-> waiting[p][c]]

\* updateMany where status = WAITING.
CanceledIfWaiting(cs) ==
    [c \in Rows |-> IF c \in cs /\ row[c].status = "WAITING"
                    THEN [row[c] EXCEPT !.status = "CANCELED"] ELSE row[c]]

\* cancel: who has canceled a leg goes on to cancel the other.
Cancel(p, c) ==
    /\ maintenance # "active"
    /\ row[c].status = "WAITING"
    /\ row' = CanceledIfWaiting({c})
    /\ waiting' = [waiting EXCEPT ![p] = Without(p, {c})]
    /\ jobs' = IF Siblings(c) = {} THEN jobs
               ELSE jobs \cup {[api |-> p, stage |-> "cancelOther", row |-> c, qty |-> 0]}
    /\ UNCHANGED <<market, reload, inbox, writes, sent, faults>>

----------------------------------------------------------------------------
(***************************************************************************)
(* Ticks                                                                   *)
(***************************************************************************)
\* onTick: rows that trail move; rows that are met leave the index first and
\* are triggered.
OnTick(p, index, x) ==
    LET moved == {c \in DOMAIN index : IsTrailing(c)
                                       /\ AdvancesWatermark(Terms[c].side, index[c], x)}
        met   == {c \in DOMAIN index \ moved : MetAt(c, index[c], x)}
    IN  /\ waiting' = [waiting EXCEPT ![p] =
               [c \in DOMAIN index \ met |-> IF c \in moved THEN x ELSE index[c]]]
        /\ writes' = writes \cup {[api |-> p, row |-> c, water |-> x] : c \in moved}
        /\ jobs' = jobs \cup {[api |-> p, stage |-> "claim", row |-> c, qty |-> 0] : c \in met}

\* A trade anywhere in the symbol.
Trade(x) ==
    /\ maintenance # "active"
    /\ trades < MaxTrades
    /\ x # price
    /\ price' = x
    /\ inbox' = [p \in Instances |-> Append(inbox[p], x)]
    /\ trades' = trades + 1
    /\ UNCHANGED <<future, row, waiting, reload, jobs, writes, held, sent, maintenance, faults>>

\* pmessage
HearTrade(p) ==
    /\ inbox[p] # <<>>
    /\ inbox' = [inbox EXCEPT ![p] = Tail(@)]
    /\ IF maintenance = "active" THEN UNCHANGED <<waiting, writes, jobs>>
       ELSE OnTick(p, waiting[p], Head(inbox[p]))
    /\ UNCHANGED <<market, row, reload, sent, faults>>

\* persistTrail: only forward, only while the row waits.
PersistTrail(w) ==
    /\ row' = IF row[w.row].status = "WAITING"
                 /\ AdvancesWatermark(Terms[w.row].side, row[w.row].water, w.water)
              THEN [row EXCEPT ![w.row].water = w.water]
              ELSE row
    /\ writes' = writes \ {w}
    /\ UNCHANGED <<memory, market, jobs, sent, faults>>

----------------------------------------------------------------------------
(***************************************************************************)
(* Triggering                                                              *)
(***************************************************************************)
\* What follows the claim: an OCO leg first cancels the other.
Room == IF future THEN "room" ELSE "place"

NextStage(c) == Room

AfterClaim(c) == IF Siblings(c) = {} THEN Room ELSE "siblings"

ClaimAny(j) == row[j.row].status \in {"WAITING", "TRIGGERED"}

Claimable(j) == row[j.row].status = "WAITING"

\* trigger: claim the row in the database; nothing more if somebody else did.
\* (Its look at the maintenance window is in the same turn as that of onTick.)
Claim(j) ==
    /\ j.stage = "claim"
    /\ IF Claimable(j)
       THEN /\ row' = [row EXCEPT ![j.row].status = "TRIGGERED"]
            /\ jobs' = (jobs \ {j}) \cup {[j EXCEPT !.stage = AfterClaim(j.row), !.qty = row[j.row].qty]}
       ELSE /\ jobs' = jobs \ {j}
            /\ row' = row
    /\ UNCHANGED <<memory, market, writes, sent, faults>>

\* cancelOcoSiblings, after a claim or after a cancel.
CancelSiblings(j) ==
    /\ j.stage \in {"siblings", "cancelOther"}
    /\ row' = CanceledIfWaiting(Siblings(j.row))
    /\ waiting' = [waiting EXCEPT ![j.api] =
           Without(j.api, {c \in Siblings(j.row) : row[c].status = "WAITING"})]
    /\ jobs' = (jobs \ {j}) \cup
               (IF j.stage = "siblings" THEN {[j EXCEPT !.stage = Room]} ELSE {})
    /\ UNCHANGED <<market, reload, inbox, writes, sent, faults>>

\* futuresClosable: no more than the position that is left, and no order at all
\* when nothing is.
FindRoom(j) ==
    /\ j.stage = "room"
    /\ IF Closable = 0
       THEN /\ row' = [row EXCEPT ![j.row].status = "CANCELED"]
            /\ jobs' = jobs \ {j}
       ELSE /\ jobs' = (jobs \ {j}) \cup
                {[j EXCEPT !.stage = "place",
                           !.qty = Smaller(row[j.row].qty, Closable)]}
            /\ row' = row
    /\ UNCHANGED <<memory, market, writes, sent, faults>>

\* OrderService.place checks again, under the account lock.
PlaceTriggered(j) ==
    /\ j.stage = "place"
    /\ IF j.qty <= held - Reserved
       THEN /\ sent' = Append(sent, [row |-> j.row, qty |-> j.qty, left |-> j.qty])
            /\ jobs' = (jobs \ {j}) \cup {[j EXCEPT !.stage = "placed"]}
       ELSE /\ jobs' = (jobs \ {j}) \cup {[j EXCEPT !.stage = "refused"]}
            /\ sent' = sent
    /\ UNCHANGED <<memory, market, row, writes, faults>>

\* The last update: the id of the order, or FAILED.
RecordOutcome(j) ==
    /\ j.stage \in {"placed", "refused"}
    /\ row' = IF j.stage = "refused" THEN [row EXCEPT ![j.row].status = "FAILED"] ELSE row
    /\ jobs' = jobs \ {j}
    /\ UNCHANGED <<memory, market, writes, sent, faults>>

----------------------------------------------------------------------------
(***************************************************************************)
(* The index is read again every ten seconds                               *)
(***************************************************************************)
KnownRows(p) == {c \in DOMAIN waiting[p] : row[c].status = "WAITING"}

RowsToIndex(p) == {c \in Rows : row[c].status = "WAITING"}

ReloadRead(p) ==
    /\ reload[p].stage = "idle"
    /\ reload' = [reload EXCEPT ![p] =
           [stage |-> "read",
            rows |-> [c \in RowsToIndex(p) |-> row[c].water]]]
    /\ UNCHANGED <<market, row, waiting, inbox, jobs, writes, sent, faults>>

\* A watermark in memory that is ahead of the one read is kept.
ForgetWatermark(p, c) == reload[p].rows[c]

KeepWatermark(p, c) ==
    LET read == reload[p].rows[c] IN
    IF IsTrailing(c) /\ c \in DOMAIN waiting[p]
       /\ AdvancesWatermark(Terms[c].side, read, waiting[p][c])
    THEN waiting[p][c] ELSE read

\* sweepOrphanFutures, the index is replaced, and what it now holds is compared
\* with the last price (evaluateAgainstLastPrices).
ReloadInstall(p) ==
    LET orphans == IF future /\ held = 0 THEN DOMAIN reload[p].rows ELSE {}
        index   == [c \in DOMAIN reload[p].rows \ orphans |-> KeepWatermark(p, c)]
    IN  /\ reload[p].stage = "read"
        /\ row' = CanceledIfWaiting(orphans)
        /\ reload' = [reload EXCEPT ![p] = [stage |-> "idle", rows |-> <<>>]]
        /\ IF maintenance = "active"
           THEN waiting' = [waiting EXCEPT ![p] = index] /\ UNCHANGED <<writes, jobs>>
           ELSE OnTick(p, index, price)
        /\ UNCHANGED <<market, inbox, sent, faults>>

----------------------------------------------------------------------------
(***************************************************************************)
(* Everything else                                                         *)
(***************************************************************************)
HeldUnclamped(n) == held - n

\* A fill closes no more than is there.
HeldAfter(n) == Larger(0, held - n)

\* The engine ends a market order: n are executed, the rest is canceled.
EndOrder(i, n) ==
    /\ sent[i].left > 0
    /\ n <= sent[i].left
    /\ sent' = [sent EXCEPT ![i].left = 0]
    /\ held' = HeldAfter(n)
    /\ UNCHANGED <<memory, future, row, jobs, writes, price, maintenance, trades, faults>>

BeginMaintenance ==
    /\ maintenance = "before"
    /\ maintenance' = "active"
    /\ UNCHANGED <<memory, future, row, jobs, writes, price, held, sent, trades, faults>>

EndMaintenance ==
    /\ maintenance = "active"
    /\ maintenance' = "over"
    /\ UNCHANGED <<memory, future, row, jobs, writes, price, held, sent, trades, faults>>

Fault(kind) == kind \in FaultKinds /\ faults < MaxFaults /\ faults' = faults + 1

\* The instance stops and starts again; what it was doing is lost.
Crash(p) ==
    /\ Fault("crash")
    /\ waiting' = [waiting EXCEPT ![p] = <<>>]
    /\ reload' = [reload EXCEPT ![p] = [stage |-> "idle", rows |-> <<>>]]
    /\ inbox' = [inbox EXCEPT ![p] = <<>>]
    /\ jobs' = {j \in jobs : j.api # p}
    /\ writes' = {w \in writes : w.api # p}
    /\ UNCHANGED <<market, row, sent>>

\* Pub/Sub keeps nothing for a subscriber that is not connected.
LoseTick(p) ==
    /\ Fault("lostTick")
    /\ inbox[p] # <<>>
    /\ inbox' = [inbox EXCEPT ![p] = Tail(@)]
    /\ UNCHANGED <<market, row, waiting, reload, jobs, writes, sent>>

LoseWrite(w) ==
    /\ Fault("lostWrite")
    /\ writes' = writes \ {w}
    /\ UNCHANGED <<memory, market, row, jobs, sent>>

\* A statement after the claim fails; the handler gives up.
LoseResult(j) ==
    /\ Fault("lostResult")
    /\ j.stage \in {"siblings", "room", "placed", "refused"}
    /\ jobs' = jobs \ {j}
    /\ UNCHANGED <<memory, market, row, writes, sent>>

\* Daily settlement or a liquidation closes the position.
PositionGone ==
    /\ Fault("positionGone")
    /\ future /\ held > 0
    /\ held' = 0
    /\ UNCHANGED <<memory, future, row, jobs, writes, price, sent, maintenance, trades>>

----------------------------------------------------------------------------
Job(j) == \/ Create(j) \/ Claim(j) \/ CancelSiblings(j) \/ FindRoom(j)
          \/ PlaceTriggered(j) \/ RecordOutcome(j)

Api(p) == HearTrade(p) \/ ReloadRead(p) \/ ReloadInstall(p)

Losses ==
    \/ \E p \in Instances : LoseTick(p)
    \/ \E w \in writes : LoseWrite(w)
    \/ \E j \in jobs : LoseResult(j)
    \/ PositionGone

CondFaults == Losses \/ \E p \in Instances : Crash(p)

CondSystem ==
    \/ \E j \in jobs : Job(j)
    \/ \E w \in writes : PersistTrail(w)
    \/ \E p \in Instances : Api(p)

CondWorld ==
    \/ \E x \in Prices : Trade(x)
    \/ \E i \in DOMAIN sent : \E n \in {0, sent[i].left} : EndOrder(i, n)
    \/ BeginMaintenance
    \/ EndMaintenance

CondNext ==
    \/ \E p \in Instances, g \in Groups : Register(p, g)
    \/ \E p \in Instances, c \in Rows : Cancel(p, c)
    \/ CondSystem
    \/ CondWorld
    \/ CondFaults

CondSpec == CondInit /\ [][CondNext]_condVars

(***************************************************************************)
(* Each instance runs its timers and message handlers and goes on with     *)
(* what it awaits; maintenance ends.                                       *)
(***************************************************************************)
CondFairness ==
    /\ \A p \in Apis : /\ WF_condVars(p \in Instances /\ HearTrade(p))
                       /\ WF_condVars(p \in Instances /\ (ReloadRead(p) \/ ReloadInstall(p)))
    /\ WF_condVars(\E j \in jobs : Job(j))
    /\ WF_condVars(EndMaintenance)

CondLiveSpec == CondSpec /\ CondFairness

----------------------------------------------------------------------------
JobStages == {"create", "claim", "siblings", "cancelOther", "room", "place", "placed", "refused"}

CondTypeOK ==
    /\ future \in BOOLEAN
    /\ row \in [Rows -> [status : {"NONE", "WAITING", "TRIGGERED", "CANCELED", "FAILED"},
                         trigger : Nat, water : Nat, qty : Nat]]
    /\ \A p \in Instances : /\ DOMAIN waiting[p] \subseteq Rows
                       /\ inbox[p] \in Seq(Prices)
                       /\ reload[p].stage \in {"idle", "read"}
    /\ jobs \subseteq [api : Apis, stage : JobStages, row : Rows, qty : Nat]
    /\ writes \subseteq [api : Apis, row : Rows, water : Nat]
    /\ price \in Prices /\ held \in Nat
    /\ sent \in Seq([row : Rows \cup {"none"}, qty : Nat, left : Nat])
    /\ maintenance \in {"before", "active", "over"}

(***************************************************************************)
(* "Claimed in the database exactly once": a row places one order at most, *)
(* however many instances hear its price, index it again or restart; and a *)
(* row that is reported as canceled or failed has placed none.             *)
(***************************************************************************)
ClaimedRowsPlaceOnce ==
    \A c \in Rows : \A i \in DOMAIN sent : sent[i].row = c =>
        /\ row[c].status = "TRIGGERED"
        /\ \A k \in DOMAIN sent : sent[k].row = c => k = i

(***************************************************************************)
(* A trailing row follows the extreme price and never back, in the         *)
(* database and in the memory of an instance that keeps the row: late      *)
(* writes, stale reads of the index and restarts move nothing back.        *)
(***************************************************************************)
TrailOnlyAdvances ==
    [][\A c \in Rows : IsTrailing(c) =>
          /\ (row[c].status = "WAITING" /\ row[c].water # row'[c].water) =>
                AdvancesWatermark(Terms[c].side, row[c].water, row'[c].water)
          /\ \A p \in Instances :
                (c \in DOMAIN waiting[p] \cap DOMAIN waiting'[p]
                   /\ waiting[p][c] # waiting'[p][c]) =>
                AdvancesWatermark(Terms[c].side, waiting[p][c], waiting'[p][c])]_condVars

(***************************************************************************)
(* A condition that stays met does not go on waiting, whatever was lost:   *)
(* a tick, a trailing update, an instance, a row that a stale reload took  *)
(* out of the index.                                                       *)
(***************************************************************************)
MetConditionsFire ==
    []<>(\A c \in Rows : ~(row[c].status = "WAITING" /\ MetAt(c, row[c].water, price)))

(***************************************************************************)
(* When one leg of a pair ends the other does not go on waiting, as long   *)
(* as no statement and no instance fails in between: half of a pair is     *)
(* never left behind for good.                                             *)
(***************************************************************************)
Ended(c) == row[c].status \in {"TRIGGERED", "CANCELED", "FAILED"}

PairsEndTogether ==
    []<>(faults > 0 \/ \A c \in Rows : \A d \in Siblings(c) : Ended(c) => Ended(d))
=============================================================================
