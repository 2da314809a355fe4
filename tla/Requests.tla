------------------------------ MODULE Requests ------------------------------
(***************************************************************************)
(* Requests to the order service that are more than one transaction:       *)
(* placing under an idempotency key, canceling with the filter for         *)
(* duplicates, and amending, which is a cancel, a wait and a new order.    *)
(* order.service.ts, on top of what the market promises for orders.        *)
(* Requests run concurrently; a retry is another request.  The keys live   *)
(* in Redis.                                                               *)
(***************************************************************************)
EXTENDS Market

CONSTANTS
    Keys,        \* idempotency keys
    Requests,
    Ask,         \* request -> what it asks for
    FaultKinds,  \* subset of {"crash", "redis", "database"}
    MaxFaults,
    NoOrder

\* Orders that differ in nothing but their id are copies: requests with one key
\* ask for the same order.  An amended order is placed as one of `orders`, which
\* differ in their quantity; `qty` = 0 keeps the quantity.
PlaceAsks == [kind : {"place"}, key : Keys, orders : SUBSET Orders]
CancelAsks == [kind : {"cancel"}, order : Orders]
AmendAsks == [kind : {"amend"}, order : Orders, qty : Nat, orders : SUBSET Orders]

Kind(r) == Ask[r].kind
Placing == {r \in Requests : Kind(r) = "place"}
Amending == {r \in Requests : Kind(r) = "amend"}
Target(r) == Ask[r].order
KeyOf(r) == Ask[r].key

ASSUME RequestAssumption ==
    /\ Ask \in [Requests -> PlaceAsks \cup CancelAsks \cup AmendAsks]
    /\ NoOrder \notin Orders
    /\ {"absent", "pending"} \cap Orders = {}
    /\ \A q, r \in Placing \cup Amending : Ask[q].orders \cap Ask[r].orders # {} =>
           q = r \/ (q \in Placing /\ r \in Placing /\ KeyOf(q) = KeyOf(r))

VARIABLES
    stage,       \* request -> what it does next
    wanted,      \* amendment -> quantity it wants, then quantity it places
    answer,      \* request -> order it has placed or found
    key,         \* idempotency key -> "absent", "pending" or an order
    deduped,     \* orders with a key that filters further cancels
    cancelRows,  \* orders with a cancel in the outbox
    broken,      \* history: keys and orders that a fault has left inconsistent
    faults

requestVars == <<stage, wanted, answer, key, deduped, cancelRows, broken, faults>>
reqVars == <<mvars, requestVars>>

RequestInit ==
    /\ stage = [r \in Requests |-> "idle"]
    /\ wanted = [r \in Requests |-> 0]
    /\ answer = [r \in Requests |-> NoOrder]
    /\ key = [k \in Keys |-> "absent"]
    /\ deduped = {} /\ cancelRows = {}
    /\ broken = {} /\ faults = 0

At(r, here) == stage[r] = here
Go(r, there) == stage' = [stage EXCEPT ![r] = there]
Fault(what) == what \in FaultKinds /\ faults < MaxFaults /\ faults' = faults + 1

----------------------------------------------------------------------------
(***************************************************************************)
(* placeIdempotent                                                         *)
(***************************************************************************)
ClaimUnanswered(k) == key[k] \in {"absent", "pending"}

\* SET ... NX
MayClaimKey(k) == key[k] = "absent"

ClaimKey(r) ==
    /\ r \in Placing /\ At(r, "idle")
    /\ IF MayClaimKey(KeyOf(r))
       THEN key' = [key EXCEPT ![KeyOf(r)] = "pending"] /\ Go(r, "place")
       ELSE Go(r, "await") /\ key' = key
    /\ UNCHANGED <<mvars, wanted, answer, deduped, cancelRows, broken, faults>>

\* waitForIdempotentOrder has found an order, or nothing any more, or has looked
\* twenty times.
AwaitOrder(r) ==
    /\ r \in Placing /\ At(r, "await")
    /\ IF key[KeyOf(r)] \in {"absent", "pending"}
       THEN Go(r, "refused") /\ answer' = answer
       ELSE Go(r, "done") /\ answer' = [answer EXCEPT ![r] = key[KeyOf(r)]]
    /\ UNCHANGED <<mvars, wanted, key, deduped, cancelRows, broken, faults>>

PlaceUnderKey(r) ==
    /\ r \in Placing /\ At(r, "place")
    /\ \E o \in Ask[r].orders :
           /\ Submit(o)
           /\ answer' = [answer EXCEPT ![r] = o]
    /\ Go(r, "record")
    /\ UNCHANGED <<wanted, key, deduped, cancelRows, broken, faults>>

\* place throws: the order is not accepted.
PlaceRefused(r) ==
    /\ r \in Placing /\ At(r, "place")
    /\ Go(r, "undo")
    /\ UNCHANGED <<mvars, wanted, answer, key, deduped, cancelRows, broken, faults>>

RecordKey(r) ==
    /\ r \in Placing /\ At(r, "record")
    /\ key' = [key EXCEPT ![KeyOf(r)] = answer[r]]
    /\ Go(r, "done")
    /\ UNCHANGED <<mvars, wanted, answer, deduped, cancelRows, broken, faults>>

UndoKey(r) ==
    /\ r \in Placing /\ At(r, "undo")
    /\ key' = [key EXCEPT ![KeyOf(r)] = "absent"]
    /\ Go(r, "refused")
    /\ UNCHANGED <<mvars, wanted, answer, deduped, cancelRows, broken, faults>>

\* The order is placed, but its transaction, or the SET after it, reports an error.
PlacedButThrows(r) ==
    /\ r \in Placing /\ At(r, "record")
    /\ Fault("redis") \/ Fault("database")
    /\ broken' = broken \cup {KeyOf(r)}
    /\ answer' = [answer EXCEPT ![r] = NoOrder]
    /\ Go(r, "undo")
    /\ UNCHANGED <<mvars, wanted, key, deduped, cancelRows>>

\* del(key).catch(() => {})
UndoFails(r) ==
    /\ r \in Placing /\ At(r, "undo")
    /\ Fault("redis")
    /\ Go(r, "refused")
    /\ UNCHANGED <<mvars, wanted, answer, key, deduped, cancelRows, broken>>

----------------------------------------------------------------------------
(***************************************************************************)
(* cancel, and the first half of amend                                     *)
(***************************************************************************)
AskCancel(r) ==
    /\ Kind(r) = "cancel" /\ At(r, "idle")
    /\ Go(r, "cancel")
    /\ UNCHANGED <<mvars, wanted, answer, key, deduped, cancelRows, broken, faults>>

\* What is left of the order now is what the amendment keeps.
AskAmend(r) ==
    /\ r \in Amending /\ At(r, "idle")
    /\ phase[Target(r)] = "live"
    /\ wanted' = [wanted EXCEPT ![r] = IF Ask[r].qty = 0 THEN Remaining(Target(r)) ELSE Ask[r].qty]
    /\ Go(r, "cancel")
    /\ UNCHANGED <<mvars, answer, key, deduped, cancelRows, broken, faults>>

\* A cancel is accepted once it is written, or when it is a duplicate.
Accepted(r) == IF r \in Amending THEN "closing" ELSE "done"

FilterCancel(r) ==
    LET o == Target(r) IN
    /\ At(r, "cancel")
    /\ IF phase[o] # "live" THEN Go(r, "refused") /\ deduped' = deduped
       ELSE IF o \in deduped THEN Go(r, Accepted(r)) /\ deduped' = deduped
       ELSE deduped' = deduped \cup {o} /\ Go(r, "write")
    /\ UNCHANGED <<mvars, wanted, answer, key, cancelRows, broken, faults>>

\* Redis does not answer: the cancel is written all the same.
FilterFails(r) ==
    /\ At(r, "cancel")
    /\ phase[Target(r)] = "live"
    /\ Fault("redis")
    /\ Go(r, "write")
    /\ UNCHANGED <<mvars, wanted, answer, key, deduped, cancelRows, broken>>

WriteCancel(r) ==
    /\ At(r, "write")
    /\ cancelRows' = cancelRows \cup {Target(r)}
    /\ Go(r, Accepted(r))
    /\ UNCHANGED <<mvars, wanted, answer, key, deduped, broken, faults>>

KeepFilter(o) == deduped

WithoutFilter(o) == deduped \ {o}

\* The row may be there although its transaction reports an error.
WriteFails(r) ==
    /\ At(r, "write")
    /\ Fault("database")
    /\ cancelRows' \in {cancelRows, cancelRows \cup {Target(r)}}
    /\ deduped' = WithoutFilter(Target(r))
    /\ Go(r, "refused")
    /\ UNCHANGED <<mvars, wanted, answer, key, broken>>

\* After thirty seconds cancels of the order are accepted again.
FilterExpires(o) ==
    /\ o \in deduped
    /\ deduped' = deduped \ {o}
    /\ UNCHANGED <<mvars, stage, wanted, answer, key, cancelRows, broken, faults>>

----------------------------------------------------------------------------
(***************************************************************************)
(* amend, from there on                                                    *)
(***************************************************************************)
WantedQty(r) == wanted[r]

NextQty(r) == IF wanted[r] <= Remaining(Target(r)) THEN wanted[r] ELSE Remaining(Target(r))

\* waitUntilClosed: nothing is placed when the order has been filled meanwhile.
SeeClosed(r) ==
    /\ r \in Amending /\ At(r, "closing")
    /\ phase[Target(r)] = "closed"
    /\ wanted' = [wanted EXCEPT ![r] = NextQty(r)]
    /\ Go(r, IF Remaining(Target(r)) <= 0 THEN "refused" ELSE "place")
    /\ UNCHANGED <<mvars, answer, key, deduped, cancelRows, broken, faults>>

\* Four seconds are over.
GiveUp(r) ==
    /\ r \in Amending /\ At(r, "closing")
    /\ Go(r, "refused")
    /\ UNCHANGED <<mvars, wanted, answer, key, deduped, cancelRows, broken, faults>>

PlaceAmended(r) ==
    /\ r \in Amending /\ At(r, "place")
    /\ \E o \in Ask[r].orders :
           /\ Qty[o] = wanted[r]
           /\ Submit(o)
           /\ answer' = [answer EXCEPT ![r] = o]
    /\ Go(r, "done")
    /\ UNCHANGED <<wanted, key, deduped, cancelRows, broken, faults>>

AmendRefused(r) ==
    /\ r \in Amending /\ At(r, "place")
    /\ Go(r, "refused")
    /\ UNCHANGED <<mvars, wanted, answer, key, deduped, cancelRows, broken, faults>>

----------------------------------------------------------------------------
\* A request goes down with the process that serves it.
Crash(r) ==
    /\ stage[r] \notin {"idle", "done", "refused", "lost"}
    /\ Fault("crash")
    /\ broken' = IF At(r, "write") THEN broken \cup {Target(r)} ELSE broken
    /\ Go(r, "lost")
    /\ UNCHANGED <<mvars, wanted, answer, key, deduped, cancelRows>>

RequestStep(r) ==
    \/ ClaimKey(r) \/ AwaitOrder(r) \/ PlaceUnderKey(r) \/ PlaceRefused(r)
    \/ RecordKey(r) \/ UndoKey(r) \/ PlacedButThrows(r) \/ UndoFails(r)
    \/ AskCancel(r) \/ AskAmend(r) \/ FilterCancel(r) \/ FilterFails(r)
    \/ WriteCancel(r) \/ WriteFails(r)
    \/ SeeClosed(r) \/ GiveUp(r) \/ PlaceAmended(r) \/ AmendRefused(r)
    \/ Crash(r)

\* Orders that come by other requests.
Direct == Orders \ UNION {Ask[r].orders : r \in Placing \cup Amending}

Around(o) == StartCharging \/ Trade \/ Close(o) \/ (o \in Direct /\ Submit(o))

RequestNext ==
    \/ \E r \in Requests : RequestStep(r)
    \/ \E o \in Orders : FilterExpires(o)
    \/ \E o \in Orders : Around(o) /\ UNCHANGED requestVars

RequestSpec == Init /\ RequestInit /\ [][RequestNext]_reqVars

----------------------------------------------------------------------------
(***************************************************************************)
(* "A retry makes no second order": requests with one key, at once or one  *)
(* after the other, refused, interrupted by a crash or given up, place one *)
(* order together, and whoever is answered with an order gets that one.    *)
(* The exception is a request that reports an error of Redis or of the     *)
(* database although its order is in (see the README).                     *)
(***************************************************************************)
Copies(k) == UNION {Ask[r].orders : r \in {q \in Placing : KeyOf(q) = k}}

PlacedUnder(k) == {o \in Copies(k) : phase[o] # "new"}

KeyPlacesOnce ==
    \A k \in Keys \ broken :
        /\ \A o, p \in PlacedUnder(k) : o = p
        /\ \A r \in Placing : KeyOf(r) = k /\ answer[r] # NoOrder => answer[r] \in PlacedUnder(k)

(***************************************************************************)
(* "To prevent a double hold and a double fill": what an amendment places  *)
(* and what the amended order has executed are never more than the order   *)
(* was for, however long the cancel takes and whatever trades meanwhile.   *)
(***************************************************************************)
AmendedWithinOrder ==
    \A r \in Amending : answer[r] # NoOrder =>
        /\ phase[Target(r)] = "closed"
        /\ Qty[answer[r]] + executed[Target(r)] <= Qty[Target(r)]

(***************************************************************************)
(* "Dropping the duplicates loses no cancel": while cancels of an order    *)
(* are filtered, one of them is written or about to be, also after some    *)
(* have failed.  A crash between the filter and the row is the exception.  *)
(***************************************************************************)
FilteredCancelsAreWritten ==
    \A o \in deduped \ broken :
        o \in cancelRows \/ \E r \in Requests : At(r, "write") /\ Target(r) = o
=============================================================================
