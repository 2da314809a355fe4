------------------------------ MODULE TradeBus ------------------------------
(***************************************************************************)
(* The stream of trades between the matching engine and the settlement     *)
(* workers, and the trimming of what has been acknowledged on it.          *)
(*                                                                         *)
(* Entries have their position for an id.  A consumer group remembers the  *)
(* last entry it has delivered and, in the pending list (PEL), the ones    *)
(* delivered and not acknowledged.  trimAcknowledgedStream asks for both   *)
(* and trims afterwards: three Redis commands, between which everybody     *)
(* goes on.  The stream of orders has the same group and the same trimming. *)
(***************************************************************************)
EXTENDS Settlement

CONSTANTS
    Workers,     \* settlement processes, each with a timer that trims
    MaxRepeats   \* bound: entries published again

ASSUME BusAssumption == MaxRepeats \in Nat

VARIABLES
    marked,      \* rows of outbox_events with a published_at
    stream,      \* rows published, the trimmed ones included
    delivered,   \* last-delivered-id
    pel,
    trimmed,     \* entries that are not in the stream any more
    trimmer,     \* [Workers -> [step, cutoff]]
    repeats

busVars == <<marked, stream, delivered, pel, trimmed, trimmer, repeats>>
tradeBusVars == <<ledgerVars, busVars>>

Idle == [step |-> "idle", cutoff |-> 0]

BusInit ==
    /\ LedgerInit
    /\ marked = {} /\ stream = <<>>
    /\ delivered = 0 /\ pel = {} /\ trimmed = 0
    /\ trimmer = [w \in Workers |-> Idle]
    /\ repeats = 0

----------------------------------------------------------------------------
(***************************************************************************)
(* flushSettlementOutbox, one row: XADD, then published_at.  The rows go   *)
(* in the order of their ids; a row whose marking fails is published once  *)
(* more, and so is any that a second, overlapping flush has read.          *)
(***************************************************************************)
Relay(i) ==
    /\ i \notin marked /\ \A j \in DOMAIN log \ marked : i <= j
    /\ stream' = Append(stream, i)
    /\ marked' = marked \cup {i}
    /\ UNCHANGED <<ledgerVars, delivered, pel, trimmed, trimmer, repeats>>

RelayAgain(i) ==
    /\ i \in marked \/ \A j \in DOMAIN log \ marked : i <= j
    /\ repeats < MaxRepeats /\ repeats' = repeats + 1
    /\ stream' = Append(stream, i)
    /\ UNCHANGED <<ledgerVars, marked, delivered, pel, trimmed, trimmer>>

----------------------------------------------------------------------------
(***************************************************************************)
(* The settlement workers                                                  *)
(***************************************************************************)
\* XREADGROUP ... >
Deliver ==
    /\ delivered < Len(stream)
    /\ delivered' = delivered + 1
    /\ pel' = pel \cup {delivered'}
    /\ UNCHANGED <<ledgerVars, marked, stream, trimmed, trimmer, repeats>>

\* processMessages: settle, then XACK, which may not arrive.  An entry whose
\* transaction throws, or whose worker dies, stays pending for XAUTOCLAIM.
Process(p) ==
    /\ p \in pel /\ p > trimmed
    /\ Settle(stream[p])
    /\ pel' \in {pel, pel \ {p}}
    /\ UNCHANGED <<marked, stream, delivered, trimmed, trimmer, repeats>>

----------------------------------------------------------------------------
(***************************************************************************)
(* trimAcknowledgedStream                                                  *)
(***************************************************************************)
SetTrimmer(w, step, cutoff) ==
    trimmer' = [trimmer EXCEPT ![w] = [step |-> step, cutoff |-> cutoff]]

PendingIgnored == TRUE

\* The entry delivered last is the boundary when nothing is pending.
DeliveredIsBoundary == pel = {}

\* XINFO GROUPS
ReadGroup(w) ==
    /\ trimmer[w].step = "idle"
    /\ delivered > 0
    /\ IF DeliveredIsBoundary THEN SetTrimmer(w, "trim", delivered) ELSE SetTrimmer(w, "floor", 0)
    /\ UNCHANGED <<ledgerVars, marked, stream, delivered, pel, trimmed, repeats>>

\* XPENDING - + 1, the oldest pending entry.  Without one nothing is trimmed.
ReadFloor(w) ==
    /\ trimmer[w].step = "floor"
    /\ \/ pel = {} /\ SetTrimmer(w, "idle", 0)
       \/ \E p \in pel : (\A q \in pel : p <= q) /\ SetTrimmer(w, "trim", p)
    /\ UNCHANGED <<ledgerVars, marked, stream, delivered, pel, trimmed, repeats>>

\* XTRIM MINID: the entries before the boundary go.
Trim(w) ==
    /\ trimmer[w].step = "trim"
    /\ trimmed' = IF trimmed < trimmer[w].cutoff - 1 THEN trimmer[w].cutoff - 1 ELSE trimmed
    /\ SetTrimmer(w, "idle", 0)
    /\ UNCHANGED <<ledgerVars, marked, stream, delivered, pel, repeats>>

\* A command fails, or the worker ends.
Abandon(w) ==
    /\ trimmer[w].step # "idle"
    /\ SetTrimmer(w, "idle", 0)
    /\ UNCHANGED <<ledgerVars, marked, stream, delivered, pel, trimmed, repeats>>

----------------------------------------------------------------------------
BusStep ==
    \/ \E i \in DOMAIN log : Relay(i) \/ RelayAgain(i)
    \/ Deliver
    \/ \E p \in pel : Process(p)
    \/ \E w \in Workers : ReadGroup(w) \/ ReadFloor(w) \/ Trim(w) \/ Abandon(w)

\* The order service and the engine know nothing of the stream.
Elsewhere == StartCharging \/ (\E o \in Orders : PlaceOrder(o)) \/ Record

BusNext == BusStep \/ (Elsewhere /\ UNCHANGED busVars)

BusSpec == BusInit /\ [][BusNext]_tradeBusVars

----------------------------------------------------------------------------
(***************************************************************************)
(* "Can at worst leave extra history, never discard a financial event": a  *)
(* trade or a close is trimmed after it has been settled, although entries *)
(* are delivered, refused and acknowledged, and other workers trim, while  *)
(* one of them looks for the boundary.                                     *)
(***************************************************************************)
TrimmedIsSettled == \A p \in 1..trimmed : stream[p] \in processed
=============================================================================
