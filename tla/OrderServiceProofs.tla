------------------------- MODULE OrderServiceProofs -------------------------
(***************************************************************************)
(* Proofs about the order service: its requests, and the locks under which *)
(* it changes accounts.                                                    *)
(*                                                                         *)
(* Requests, for any requests, keys and orders, and for as many failures   *)
(* as one likes: every step of a request is a step of the market or none,  *)
(* so what is proved of the market holds here, above all that a closed     *)
(* order is final: an amendment computes what it may place from an order   *)
(* that does not change any more.  For the keys the invariant follows the  *)
(* one request that has claimed the key: until it has placed an order      *)
(* nobody has, and what it has placed is what it records.                  *)
(*                                                                         *)
(* Locks: withAccountLock implements AtomicAccounts in its three           *)
(* strategies, for any clients, accounts, functions and number of retries, *)
(* as long as no holder of a Redis lock stalls beyond its time to live.    *)
(* The invariant says what each strategy knows of the rows it has read:    *)
(* pessimistic and distributed, that they are still what was read, because *)
(* the row or the Redis lock is held; optimistic, that a row with the      *)
(* version that was read is the row that was read, and that rows written   *)
(* keep that version until the end.  Holdings are covered by the account   *)
(* they belong to: who changes one has locked the account or raises its    *)
(* version.                                                                *)
(***************************************************************************)
EXTENDS Requests, MarketProofs, AccountLock

----------------------------------------------------------------------------
Stages == {"idle", "place", "await", "record", "undo", "cancel", "write", "closing",
           "done", "refused", "lost"}

RequestTypes ==
    /\ stage \in [Requests -> Stages]
    /\ wanted \in [Requests -> Int]
    /\ answer \in [Requests -> Orders \cup {NoOrder}]
    /\ key \in [Keys -> Orders \cup {NoOrder, "absent", "pending"}]
    /\ \A r \in Placing : stage[r] \notin {"cancel", "write"}

\* What requests ask for.
LEMMA AskFacts ==
    /\ \A r \in Placing : /\ r \in Requests /\ KeyOf(r) \in Keys
                          /\ Ask[r].orders \subseteq Orders
                          /\ r \notin Amending /\ Kind(r) # "cancel"
    /\ \A r \in Amending : /\ r \in Requests /\ Target(r) \in Orders
                           /\ Ask[r].orders \subseteq Orders /\ Ask[r].qty \in Nat
  BY RequestAssumption DEF PlaceAsks, CancelAsks, AmendAsks, Placing, Amending, Kind, KeyOf, Target

\* Every step of a request is a step of the market, or does not touch it.
LEMMA StepRefinesMarket == [RequestNext]_reqVars => [Next]_mvars
  <1> SUFFICES ASSUME [RequestNext]_reqVars
               PROVE  [Next]_mvars
    OBVIOUS
  <1>1. CASE UNCHANGED reqVars
    BY <1>1 DEF reqVars
  <1>2. ASSUME NEW r \in Requests, RequestStep(r)
        PROVE  [Next]_mvars
    <2>1. CASE PlaceUnderKey(r)
      BY <2>1, AskFacts DEF PlaceUnderKey, Next
    <2>2. CASE PlaceAmended(r)
      BY <2>2, AskFacts DEF PlaceAmended, Next
    <2>3. CASE ~PlaceUnderKey(r) /\ ~PlaceAmended(r)
      BY <1>2, <2>3 DEF RequestStep, ClaimKey, AwaitOrder, PlaceRefused, RecordKey, UndoKey,
          PlacedButThrows, UndoFails, AskCancel, AskAmend, FilterCancel, FilterFails, WriteCancel,
          WriteFails, SeeClosed, GiveUp, AmendRefused, Crash
    <2>4. QED
      BY <2>1, <2>2, <2>3
  <1>3. ASSUME NEW o \in Orders, FilterExpires(o)
        PROVE  [Next]_mvars
    BY <1>3 DEF FilterExpires
  <1>4. ASSUME NEW o \in Orders, Around(o)
        PROVE  [Next]_mvars
    BY <1>4 DEF Around, Next
  <1>5. QED
    BY <1>1, <1>2, <1>3, <1>4 DEF RequestNext

\* Requests use the market, they do not extend it.
THEOREM RequestsRefineMarket == RequestSpec => Spec
  BY StepRefinesMarket, PTL DEF RequestSpec, Spec

\* What a step of the market can do to an order.
LEMMA OrdersAge ==
    ASSUME TypeOK, [Next]_mvars, NEW o \in Orders
    PROVE  /\ phase[o] # "new" => phase'[o] # "new"
           /\ phase[o] = "closed" => phase'[o] = "closed" /\ executed'[o] = executed[o]
  BY DEF TypeOK, Next, StartCharging, Trade, Submit, CanSubmit, Execute, ExecuteAnySize, Close,
         PhaseAfter, mvars

LEMMA TypesStep ==
    ASSUME TypeOK, RequestTypes, [RequestNext]_reqVars
    PROVE  RequestTypes'
  <1>1. CASE UNCHANGED reqVars
    BY <1>1 DEF reqVars, requestVars, RequestTypes
  <1>2. ASSUME NEW r \in Requests, RequestStep(r)
        PROVE  RequestTypes'
    <2>1. CASE PlaceUnderKey(r) \/ PlaceAmended(r) \/ RecordKey(r)
      BY <2>1, AskFacts DEF PlaceUnderKey, PlaceAmended, RecordKey, RequestTypes, Stages, Go, At
    <2>2. CASE ClaimKey(r) \/ AwaitOrder(r) \/ PlaceRefused(r) \/ UndoKey(r)
               \/ PlacedButThrows(r) \/ UndoFails(r)
      BY <2>2, AskFacts DEF ClaimKey, AwaitOrder, PlaceRefused, UndoKey, PlacedButThrows,
                            UndoFails, RequestTypes, Stages, Go
    <2>3. CASE AskCancel(r) \/ FilterCancel(r) \/ FilterFails(r) \/ WriteCancel(r)
               \/ WriteFails(r) \/ GiveUp(r) \/ AmendRefused(r) \/ Crash(r)
      BY <2>3, AskFacts DEF AskCancel, FilterCancel, FilterFails, WriteCancel, WriteFails,
          GiveUp, AmendRefused, Crash, Accepted, RequestTypes, Stages, Go, At
    <2>4. CASE AskAmend(r) \/ SeeClosed(r)
      <3>1. r \in Amending /\ Remaining(Target(r)) \in Int
        BY <2>4, AskFacts, MarketAssumption DEF AskAmend, SeeClosed, Remaining, TypeOK
      <3>2. QED
        BY <2>4, <3>1, AskFacts DEF AskAmend, SeeClosed, NextQty, RequestTypes, Stages, Go
    <2>5. QED
      BY <1>2, <2>1, <2>2, <2>3, <2>4 DEF RequestStep
  <1>3. CASE \E o \in Orders : FilterExpires(o) \/ (Around(o) /\ UNCHANGED requestVars)
    BY <1>3 DEF FilterExpires, requestVars, RequestTypes
  <1>4. QED
    BY <1>1, <1>2, <1>3 DEF RequestNext

LEMMA InitTypes == RequestInit => RequestTypes
  BY AskFacts DEF RequestInit, RequestTypes, Stages

LEMMA TypesHold == RequestSpec => []RequestTypes
  <1>1. TypeOK /\ RequestTypes /\ [RequestNext]_reqVars => RequestTypes'
    BY TypesStep
  <1>2. RequestSpec => []TypeOK
    BY RequestsRefineMarket, MarketTypeOK, PTL
  <1>3. QED
    BY <1>1, <1>2, InitTypes, PTL DEF RequestSpec

----------------------------------------------------------------------------
(***************************************************************************)
(* Keys                                                                    *)
(***************************************************************************)
\* Requests that have claimed their key and are not through with it.
Claiming(r, k) == r \in Placing /\ KeyOf(r) = k /\ stage[r] \in {"place", "record", "undo"}

KeyInvOf(k) ==
    /\ \A r \in Requests : Claiming(r, k) => key[k] = "pending"
    /\ \A q, r \in Requests : Claiming(q, k) /\ Claiming(r, k) => q = r
    /\ \A r \in Requests : Claiming(r, k) /\ stage[r] # "record" => PlacedUnder(k) = {}
    /\ \A r \in Requests : Claiming(r, k) /\ stage[r] = "record" => answer[r] # NoOrder
    /\ key[k] = "absent" => PlacedUnder(k) = {}
    /\ key[k] \notin {"absent", "pending"} => key[k] \in PlacedUnder(k)
    /\ \A r \in Placing : KeyOf(r) = k /\ answer[r] # NoOrder => answer[r] \in PlacedUnder(k)
    /\ \A o, p \in PlacedUnder(k) : o = p

KeyInv == \A k \in Keys \ broken : KeyInvOf(k)

LEMMA CopiesAreOrders == \A k : Copies(k) \subseteq Orders
  BY AskFacts DEF Copies

\* Orders placed under a key stay placed, and no others join them while none of
\* its copies is submitted.
LEMMA PlacedStays ==
    ASSUME TypeOK, [Next]_mvars, NEW k
    PROVE  PlacedUnder(k) \subseteq PlacedUnder(k)'
  BY OrdersAge, CopiesAreOrders DEF PlacedUnder

LEMMA PlacedSame ==
    ASSUME TypeOK, [Next]_mvars, NEW k,
           \A o \in Orders : o \in Copies(k) /\ phase[o] = "new" => phase'[o] = "new"
    PROVE  PlacedUnder(k)' = PlacedUnder(k)
  BY OrdersAge, CopiesAreOrders DEF PlacedUnder

\* A submission places one order.
LEMMA SubmitPlaces ==
    ASSUME TypeOK, NEW o \in Orders, Submit(o), NEW k
    PROVE  /\ o \in Copies(k) => PlacedUnder(k)' = PlacedUnder(k) \cup {o}
           /\ o \notin Copies(k) => PlacedUnder(k)' = PlacedUnder(k)
  <1>1. \A p \in Orders : phase'[p] = IF p = o THEN "live" ELSE phase[p]
    BY DEF Submit, TypeOK
  <1>2. QED
    BY <1>1, CopiesAreOrders DEF PlacedUnder

\* Trades, closes, orders of others and the passing of time.
LEMMA AroundPlaces ==
    ASSUME TypeOK, NEW o \in Orders, Around(o), NEW k
    PROVE  PlacedUnder(k)' = PlacedUnder(k)
  <1>1. CASE o \in Direct /\ Submit(o)
    <2>1. o \notin Copies(k)
      BY <1>1 DEF Direct, Copies
    <2>2. QED
      BY <1>1, <2>1, SubmitPlaces
  <1>2. CASE StartCharging \/ Trade \/ Close(o)
    <2>1. \A p \in Orders : phase[p] = "new" => phase'[p] = "new"
      BY <1>2 DEF StartCharging, Trade, Execute, ExecuteAnySize, Close, PhaseAfter, TypeOK
    <2>2. [Next]_mvars
      BY <1>2 DEF Next
    <2>3. QED
      BY <2>1, <2>2, PlacedSame
  <1>3. QED
    BY <1>1, <1>2 DEF Around

\* A step that changes neither a key nor its requests nor their orders.
LEMMA KeyQuiet ==
    ASSUME NEW k, KeyInvOf(k), key'[k] = key[k], PlacedUnder(k)' = PlacedUnder(k),
           \A r \in Placing : KeyOf(r) = k =>
               /\ answer'[r] = answer[r]
               /\ stage'[r] = stage[r] \/ stage'[r] \notin {"place", "record", "undo"}
    PROVE  KeyInvOf(k)'
  <1>1. \A r \in Requests : Claiming(r, k)' =>
            Claiming(r, k) /\ stage'[r] = stage[r] /\ answer'[r] = answer[r]
    BY DEF Claiming
  <1>2. QED
    BY <1>1 DEF KeyInvOf

\* A request changes its own stage, and its own key at most.
LEMMA OtherKeys ==
    ASSUME TypeOK, RequestTypes, KeyInv, NEW r \in Placing, RequestStep(r),
           NEW k \in Keys \ broken', k # KeyOf(r)
    PROVE  KeyInvOf(k)'
  <1>1. r \in Requests /\ r \notin Amending /\ Kind(r) # "cancel" /\ [Next]_mvars
    BY AskFacts, StepRefinesMarket DEF RequestNext
  <1>2. stage[r] \notin {"cancel", "write"}
    BY DEF RequestTypes
  <1>3. /\ key'[k] = key[k] /\ k \notin broken
        /\ \A q \in Placing : KeyOf(q) = k => answer'[q] = answer[q] /\ stage'[q] = stage[q]
    BY <1>1, <1>2, AskFacts DEF RequestStep, ClaimKey, AwaitOrder, PlaceUnderKey, PlaceRefused,
        RecordKey, UndoKey, PlacedButThrows, UndoFails, AskCancel, AskAmend, FilterCancel,
        FilterFails, WriteCancel, WriteFails, SeeClosed, GiveUp, PlaceAmended, AmendRefused, Crash,
        RequestTypes, Go, At
  <1>4. PlacedUnder(k)' = PlacedUnder(k)
    <2>1. CASE PlaceUnderKey(r)
      <3>1. PICK o \in Ask[r].orders : Submit(o)
        BY <2>1 DEF PlaceUnderKey
      <3>2. o \in Orders /\ o \notin Copies(k)
        BY <3>1, AskFacts, RequestAssumption DEF Copies
      <3>3. QED
        BY <3>1, <3>2, SubmitPlaces
    <2>2. CASE ~PlaceUnderKey(r)
      <3>1. phase' = phase
        BY <1>1, <1>2, <2>2 DEF RequestStep, ClaimKey, AwaitOrder, PlaceRefused, RecordKey,
            UndoKey, PlacedButThrows, UndoFails, AskCancel, AskAmend, FilterCancel, FilterFails,
            WriteCancel, WriteFails, SeeClosed, GiveUp, PlaceAmended, AmendRefused, Crash, mvars
      <3>2. QED
        BY <1>1, <3>1, PlacedSame
    <2>3. QED
      BY <2>1, <2>2
  <1>5. QED
    BY <1>3, <1>4, KeyQuiet DEF KeyInv

\* The request's own key.
LEMMA OwnKey ==
    ASSUME TypeOK, RequestTypes, KeyInv, NEW r \in Placing, RequestStep(r), NEW k \in Keys,
           k = KeyOf(r), k \notin broken'
    PROVE  KeyInvOf(k)'
  <1>1. r \in Requests /\ r \notin Amending /\ Kind(r) # "cancel" /\ [Next]_mvars
    BY AskFacts, StepRefinesMarket DEF RequestNext
  <1>2. stage[r] \notin {"cancel", "write"}
    BY DEF RequestTypes
  <1> DEFINE Kept(q) == answer'[q] = answer[q] /\ stage'[q] = stage[q]
  <1>3. CASE PlaceUnderKey(r)
    <2>1. PICK o \in Ask[r].orders : Submit(o) /\ answer' = [answer EXCEPT ![r] = o]
      BY <1>3 DEF PlaceUnderKey
    <2>2. /\ KeyInvOf(k) /\ key' = key /\ Claiming(r, k) /\ PlacedUnder(k) = {}
      BY <1>1, <1>3 DEF PlaceUnderKey, At, Claiming, KeyInv, KeyInvOf
    <2>3. o \in Orders /\ o \in Copies(k) /\ o # NoOrder
      BY <2>1, AskFacts, RequestAssumption DEF Copies
    <2>4. PlacedUnder(k)' = {o}
      BY <2>1, <2>2, <2>3, SubmitPlaces
    <2>5. stage'[r] = "record" /\ answer'[r] = o /\ \A q \in Requests \ {r} : Kept(q)
      BY <1>1, <1>3, <2>1 DEF PlaceUnderKey, RequestTypes, Go
    <2>6. \A q \in Requests : Claiming(q, k)' => q = r
      BY <2>2, <2>5, <1>1 DEF Claiming, KeyInvOf
    <2>7. \A q \in Placing : KeyOf(q) = k /\ answer'[q] # NoOrder => q = r
      BY <2>2, <2>5, AskFacts DEF KeyInvOf
    <2>8. QED
      BY <2>2, <2>3, <2>4, <2>5, <2>6, <2>7, <1>1 DEF KeyInvOf, Claiming
  <1>4. CASE ~PlaceUnderKey(r)
    <2>1. /\ k \notin broken /\ KeyInvOf(k) /\ PlacedUnder(k)' = PlacedUnder(k)
      <3>1. phase' = phase /\ broken \subseteq broken'
        BY <1>1, <1>2, <1>4 DEF RequestStep, ClaimKey, AwaitOrder, PlaceRefused, RecordKey,
            UndoKey, PlacedButThrows, UndoFails, AskCancel, AskAmend, FilterCancel, FilterFails,
            WriteCancel, WriteFails, SeeClosed, GiveUp, PlaceAmended, AmendRefused, Crash, mvars
      <3>2. QED
        BY <1>1, <3>1, PlacedSame DEF KeyInv
    <2>2. \A q \in Requests \ {r} : Kept(q)
      BY <1>1, <1>2, <1>4 DEF RequestStep, ClaimKey, AwaitOrder, PlaceRefused,
          RecordKey, UndoKey, PlacedButThrows, UndoFails, AskCancel, AskAmend, FilterCancel,
          FilterFails, WriteCancel, WriteFails, SeeClosed, GiveUp, PlaceAmended, AmendRefused,
          Crash, RequestTypes, Go, At
    <2>3. CASE ClaimKey(r)
      <3>1. CASE key[k] = "absent"
        <4>1. key'[k] = "pending" /\ stage'[r] = "place" /\ answer'[r] = answer[r]
          BY <1>1, <2>3, <3>1 DEF ClaimKey, MayClaimKey, RequestTypes, Go
        <4>2. PlacedUnder(k) = {} /\ \A q \in Requests : ~Claiming(q, k)
          BY <2>1, <3>1 DEF KeyInvOf
        <4>3. \A q \in Requests : Claiming(q, k)' => q = r
          BY <2>2, <4>2 DEF Claiming
        <4>4. QED
          BY <2>1, <2>2, <4>1, <4>2, <4>3, <1>1, AskFacts DEF KeyInvOf
      <3>2. CASE key[k] # "absent"
        <4>1. key' = key /\ stage'[r] = "await" /\ answer'[r] = answer[r]
          BY <1>1, <2>3, <3>2 DEF ClaimKey, MayClaimKey, RequestTypes, Go
        <4>2. QED
          BY <2>1, <2>2, <4>1, AskFacts, KeyQuiet
      <3>3. QED
        BY <3>1, <3>2
    <2>4. CASE AwaitOrder(r)
      <3>1. /\ key' = key /\ stage'[r] \in {"refused", "done"}
            /\ answer'[r] = answer[r] \/ (key[k] \notin {"absent", "pending"} /\ answer'[r] = key[k])
        BY <1>1, <2>4 DEF AwaitOrder, RequestTypes, Go
      <3>2. \A q \in Requests : Claiming(q, k)' => q # r /\ Claiming(q, k) /\ Kept(q)
        BY <2>2, <3>1 DEF Claiming
      <3>3. QED
        BY <2>1, <2>2, <3>1, <3>2, AskFacts DEF KeyInvOf
    <2>5. CASE RecordKey(r)
      <3>1. /\ key'[k] = answer[r] /\ stage'[r] = "done" /\ answer'[r] = answer[r]
            /\ Claiming(r, k) /\ stage[r] = "record"
        BY <1>1, <2>5 DEF RecordKey, RequestTypes, Go, At, Claiming
      <3>2. answer[r] \in PlacedUnder(k) /\ answer[r] \in Orders
        BY <1>1, <2>1, <3>1 DEF KeyInvOf, RequestTypes
      <3>3. answer[r] \notin {"absent", "pending"}
        BY <3>2, RequestAssumption
      <3>4. \A q \in Requests : ~Claiming(q, k)'
        BY <1>1, <2>1, <2>2, <3>1 DEF KeyInvOf, Claiming
      <3>5. QED
        BY <2>1, <2>2, <3>1, <3>2, <3>3, <3>4, AskFacts DEF KeyInvOf
    <2>6. CASE UndoKey(r)
      <3>1. /\ key'[k] = "absent" /\ stage'[r] = "refused" /\ answer'[r] = answer[r]
            /\ Claiming(r, k) /\ stage[r] = "undo"
        BY <1>1, <2>6 DEF UndoKey, RequestTypes, Go, At, Claiming
      <3>2. PlacedUnder(k) = {}
        BY <1>1, <2>1, <3>1 DEF KeyInvOf
      <3>3. \A q \in Requests : ~Claiming(q, k)'
        BY <1>1, <2>1, <2>2, <3>1 DEF KeyInvOf, Claiming
      <3>4. QED
        BY <2>1, <2>2, <3>1, <3>2, <3>3, AskFacts DEF KeyInvOf
    <2>7. CASE PlaceRefused(r)
      <3>1. /\ key' = key /\ stage'[r] = "undo" /\ answer'[r] = answer[r]
            /\ Claiming(r, k) /\ stage[r] = "place"
        BY <1>1, <2>7 DEF PlaceRefused, RequestTypes, Go, At, Claiming
      <3>2. \A q \in Requests : Claiming(q, k)' => q = r
        BY <1>1, <2>1, <2>2, <3>1 DEF KeyInvOf, Claiming
      <3>3. QED
        BY <1>1, <2>1, <2>2, <3>1, <3>2, AskFacts DEF KeyInvOf
    <2>8. CASE UndoFails(r) \/ Crash(r)
      <3>1. key' = key /\ stage'[r] \in {"refused", "lost"} /\ answer'[r] = answer[r]
        BY <1>1, <2>8 DEF UndoFails, Crash, RequestTypes, Go
      <3>2. QED
        BY <2>1, <2>2, <3>1, AskFacts, KeyQuiet
    <2>9. ~PlacedButThrows(r)
      BY DEF PlacedButThrows
    <2>10. QED
      BY <1>1, <1>2, <1>4, <2>3, <2>4, <2>5, <2>6, <2>7, <2>8, <2>9
         DEF RequestStep, AskCancel, AskAmend, FilterCancel, FilterFails, WriteCancel, WriteFails,
             SeeClosed, GiveUp, PlaceAmended, AmendRefused, At
  <1>5. QED
    BY <1>3, <1>4

\* Cancels and amendments leave keys and their orders alone.
LEMMA OtherRequests ==
    ASSUME TypeOK, RequestTypes, KeyInv, NEW r \in Requests \ Placing, RequestStep(r)
    PROVE  KeyInv'
  <1> SUFFICES ASSUME NEW k \in Keys \ broken'
               PROVE  KeyInvOf(k)'
    BY DEF KeyInv
  <1>1. /\ key' = key /\ k \notin broken
        /\ \A q \in Requests \ {r} : answer'[q] = answer[q] /\ stage'[q] = stage[q]
    BY DEF RequestStep, ClaimKey, AwaitOrder, PlaceUnderKey, PlaceRefused,
        RecordKey, UndoKey, PlacedButThrows, UndoFails, AskCancel, AskAmend, FilterCancel,
        FilterFails, WriteCancel, WriteFails, SeeClosed, GiveUp, PlaceAmended, AmendRefused,
        Crash, RequestTypes, Go
  <1>2. PlacedUnder(k)' = PlacedUnder(k)
    <2>1. CASE PlaceAmended(r)
      <3>1. PICK o \in Ask[r].orders : Submit(o) /\ r \in Amending
        BY <2>1 DEF PlaceAmended
      <3>2. o \in Orders /\ o \notin Copies(k)
        BY <3>1, AskFacts, RequestAssumption DEF Copies
      <3>3. QED
        BY <3>1, <3>2, SubmitPlaces
    <2>2. CASE ~PlaceAmended(r)
      <3>1. phase' = phase
        BY <2>2 DEF RequestStep, ClaimKey, AwaitOrder, PlaceUnderKey, PlaceRefused, RecordKey,
            UndoKey, PlacedButThrows, UndoFails, AskCancel, AskAmend, FilterCancel, FilterFails,
            WriteCancel, WriteFails, SeeClosed, GiveUp, AmendRefused, Crash, mvars
      <3>2. [Next]_mvars
        BY StepRefinesMarket DEF RequestNext
      <3>3. QED
        BY <3>1, <3>2, PlacedSame
    <2>3. QED
      BY <2>1, <2>2
  <1>3. \A q \in Placing : q \in Requests \ {r}
    BY AskFacts
  <1>4. QED
    BY <1>1, <1>2, <1>3, KeyQuiet DEF KeyInv

LEMMA NextKeyInv ==
    ASSUME TypeOK, RequestTypes, KeyInv, [RequestNext]_reqVars
    PROVE  KeyInv'
  <1>1. CASE UNCHANGED reqVars
    BY <1>1 DEF reqVars, mvars, requestVars, KeyInv, KeyInvOf, Claiming, PlacedUnder
  <1>2. ASSUME NEW r \in Requests, RequestStep(r)
        PROVE  KeyInv'
    <2>1. CASE r \in Placing
      BY <1>2, <2>1, OwnKey, OtherKeys DEF KeyInv
    <2>2. CASE r \notin Placing
      BY <1>2, <2>2, OtherRequests
    <2>3. QED
      BY <2>1, <2>2
  <1>3. ASSUME NEW o \in Orders, FilterExpires(o)
        PROVE  KeyInv'
    BY <1>3 DEF FilterExpires, mvars, KeyInv, KeyInvOf, Claiming, PlacedUnder
  <1>4. ASSUME NEW o \in Orders, Around(o), UNCHANGED requestVars
        PROVE  KeyInv'
    <2>1. \A k : PlacedUnder(k)' = PlacedUnder(k)
      BY <1>4, AroundPlaces
    <2>2. QED
      BY <1>4, <2>1 DEF requestVars, KeyInv, KeyInvOf, Claiming
  <1>5. QED
    BY <1>1, <1>2, <1>3, <1>4 DEF RequestNext

LEMMA InitKeyInv == Init /\ RequestInit => KeyInv
  <1> SUFFICES ASSUME Init, RequestInit
               PROVE  KeyInv
    OBVIOUS
  <1>1. \A k : PlacedUnder(k) = {}
    BY CopiesAreOrders DEF Init, PlacedUnder
  <1>2. QED
    BY <1>1, AskFacts DEF RequestInit, KeyInv, KeyInvOf, Claiming

\* "A retry makes no second order" (placeIdempotent), for any number of requests
\* under one key and any crashes, unless an error is reported for an order that
\* is in.
THEOREM KeysAlwaysPlaceOnce == RequestSpec => []KeyPlacesOnce
  <1>1. KeyInv => KeyPlacesOnce
    BY DEF KeyInv, KeyInvOf, KeyPlacesOnce
  <1>2. TypeOK /\ RequestTypes /\ KeyInv /\ [RequestNext]_reqVars => KeyInv'
    BY NextKeyInv
  <1>3. RequestSpec => []TypeOK
    BY RequestsRefineMarket, MarketTypeOK, PTL
  <1>4. QED
    BY <1>1, <1>2, <1>3, TypesHold, InitKeyInv, PTL DEF RequestSpec

----------------------------------------------------------------------------
(***************************************************************************)
(* Amendments                                                              *)
(***************************************************************************)
\* Once it has seen the order closed, an amendment has room for what it wants.
AmendInv ==
    \A r \in Amending :
        /\ stage[r] \in {"idle", "cancel", "write", "closing", "place"} => answer[r] = NoOrder
        /\ stage[r] = "place" => /\ phase[Target(r)] = "closed"
                                /\ wanted[r] + executed[Target(r)] <= Qty[Target(r)]
        /\ stage[r] \notin {"await", "record", "undo"}

LEMMA NextAmends ==
    ASSUME TypeOK, RequestTypes, AmendInv, AmendedWithinOrder, [RequestNext]_reqVars
    PROVE  AmendInv' /\ AmendedWithinOrder'
  <1> SUFFICES ASSUME NEW r \in Amending
               PROVE  /\ stage'[r] \in {"idle", "cancel", "write", "closing", "place"} =>
                            answer'[r] = NoOrder
                      /\ stage'[r] = "place" =>
                            /\ phase'[Target(r)] = "closed"
                            /\ wanted'[r] + executed'[Target(r)] <= Qty[Target(r)]
                      /\ stage'[r] \notin {"await", "record", "undo"}
                      /\ answer'[r] # NoOrder =>
                            /\ phase'[Target(r)] = "closed"
                            /\ Qty[answer'[r]] + executed'[Target(r)] <= Qty[Target(r)]
    BY DEF AmendInv, AmendedWithinOrder, Target
  <1> DEFINE o == Target(r)
  <1>1. /\ r \in Requests /\ r \notin Placing /\ Kind(r) # "cancel"
        /\ o \in Orders /\ Ask[r].orders \subseteq Orders
    BY AskFacts DEF Amending, Kind
  <1>2. phase[o] = "closed" => phase'[o] = "closed" /\ executed'[o] = executed[o]
    BY <1>1, StepRefinesMarket, OrdersAge
  <1>3. CASE stage'[r] = stage[r] /\ answer'[r] = answer[r] /\ wanted'[r] = wanted[r]
    BY <1>2, <1>3 DEF AmendInv, AmendedWithinOrder
  <1>4. ASSUME RequestStep(r)
        PROVE  \/ /\ stage'[r] \in {"cancel", "write", "closing", "refused", "lost"}
                  /\ answer'[r] = answer[r]
                  /\ stage'[r] \in {"cancel", "write", "closing"} =>
                        stage[r] \in {"idle", "cancel", "write", "closing"}
               \/ SeeClosed(r)
               \/ PlaceAmended(r)
    BY <1>1, <1>4 DEF RequestStep, ClaimKey, AwaitOrder, PlaceUnderKey, PlaceRefused, RecordKey,
        UndoKey, PlacedButThrows, UndoFails, AskCancel, AskAmend, FilterCancel, FilterFails,
        WriteCancel, WriteFails, GiveUp, AmendRefused, Crash, Accepted, RequestTypes, Go, At
  <1>5. CASE SeeClosed(r)
    <2>1. /\ stage'[r] \in {"place", "refused"} /\ answer'[r] = answer[r] /\ answer[r] = NoOrder
          /\ phase[o] = "closed" /\ phase' = phase /\ wanted'[r] = NextQty(r)
      BY <1>1, <1>5 DEF SeeClosed, RequestTypes, AmendInv, Go, At, mvars
    <2>2. NextQty(r) + executed[o] <= Qty[o]
      BY <1>1, MarketAssumption DEF NextQty, Remaining, TypeOK, RequestTypes
    <2>3. QED
      BY <1>2, <2>1, <2>2
  <1>6. CASE PlaceAmended(r)
    <2>1. PICK p \in Ask[r].orders : Qty[p] = wanted[r] /\ answer' = [answer EXCEPT ![r] = p]
      BY <1>6 DEF PlaceAmended
    <2>2. stage'[r] = "done" /\ answer'[r] = p /\ stage[r] = "place"
      BY <1>1, <1>6, <2>1 DEF PlaceAmended, RequestTypes, Go, At
    <2>3. QED
      BY <1>2, <2>1, <2>2 DEF AmendInv
  <1>7. CASE RequestStep(r)
    <2>1. CASE /\ stage'[r] \in {"cancel", "write", "closing", "refused", "lost"}
               /\ answer'[r] = answer[r]
               /\ stage'[r] \in {"cancel", "write", "closing"} =>
                     stage[r] \in {"idle", "cancel", "write", "closing"}
      BY <1>2, <2>1 DEF AmendInv, AmendedWithinOrder
    <2>2. QED
      BY <1>4, <1>5, <1>6, <1>7, <2>1
  <1>8. ASSUME NEW q \in Requests, q # r, RequestStep(q)
        PROVE  stage'[r] = stage[r] /\ answer'[r] = answer[r] /\ wanted'[r] = wanted[r]
    BY <1>1, <1>8 DEF RequestStep, ClaimKey, AwaitOrder, PlaceUnderKey, PlaceRefused, RecordKey,
        UndoKey, PlacedButThrows, UndoFails, AskCancel, AskAmend, FilterCancel, FilterFails,
        WriteCancel, WriteFails, SeeClosed, GiveUp, PlaceAmended, AmendRefused, Crash,
        RequestTypes, Go
  <1>9. CASE \/ UNCHANGED reqVars
             \/ \E p \in Orders : FilterExpires(p) \/ (Around(p) /\ UNCHANGED requestVars)
    BY <1>3, <1>9 DEF reqVars, requestVars, FilterExpires
  <1>10. QED
    BY <1>3, <1>7, <1>8, <1>9 DEF RequestNext

\* "To prevent a double hold and a double fill" (amend): no amendment places more
\* than its order has left for good.
THEOREM AmendsAlwaysWithinOrder == RequestSpec => []AmendedWithinOrder
  <1>1. RequestInit => AmendInv /\ AmendedWithinOrder
    BY AskFacts DEF RequestInit, AmendInv, AmendedWithinOrder
  <1>2. /\ TypeOK /\ RequestTypes /\ AmendInv /\ AmendedWithinOrder /\ [RequestNext]_reqVars
        => AmendInv' /\ AmendedWithinOrder'
    BY NextAmends
  <1>3. RequestSpec => []TypeOK
    BY RequestsRefineMarket, MarketTypeOK, PTL
  <1>4. QED
    BY <1>1, <1>2, <1>3, TypesHold, PTL DEF RequestSpec

----------------------------------------------------------------------------
(***************************************************************************)
(* Cancels                                                                 *)
(***************************************************************************)
LEMMA NextFiltered ==
    ASSUME RequestTypes, FilteredCancelsAreWritten, [RequestNext]_reqVars
    PROVE  FilteredCancelsAreWritten'
  <1> SUFFICES ASSUME NEW o \in deduped' \ broken'
               PROVE  o \in cancelRows' \/ \E q \in Requests : stage'[q] = "write" /\ Target(q) = o
    BY DEF FilteredCancelsAreWritten, At, Target
  <1> DEFINE Writing(q) == q \in Requests /\ stage[q] = "write" /\ Target(q) = o
  <1>1. CASE UNCHANGED <<stage, cancelRows, broken>> /\ deduped' \subseteq deduped
    BY <1>1 DEF FilteredCancelsAreWritten, At
  <1>2. ASSUME NEW r \in Requests, RequestStep(r), deduped' = deduped
        PROVE  o \in cancelRows' \/ \E q \in Requests : stage'[q] = "write" /\ Target(q) = o
    <2>1. /\ broken \subseteq broken' /\ cancelRows \subseteq cancelRows'
          /\ \A q \in Requests \ {r} : stage'[q] = stage[q]
      BY <1>2 DEF RequestStep, ClaimKey, AwaitOrder, PlaceUnderKey, PlaceRefused, RecordKey,
          UndoKey, PlacedButThrows, UndoFails, AskCancel, AskAmend, FilterCancel, FilterFails,
          WriteCancel, WriteFails, SeeClosed, GiveUp, PlaceAmended, AmendRefused, Crash,
          RequestTypes, Go
    <2>2. o \in cancelRows \/ \E q \in Requests : Writing(q)
      BY <1>2, <2>1 DEF FilteredCancelsAreWritten, At
    <2>3. CASE Writing(r)
      BY <1>2, <2>3 DEF RequestStep, ClaimKey, AwaitOrder, PlaceUnderKey, PlaceRefused, RecordKey,
          UndoKey, PlacedButThrows, UndoFails, AskCancel, AskAmend, FilterCancel, FilterFails,
          WriteCancel, WriteFails, WithoutFilter, SeeClosed, GiveUp, PlaceAmended, AmendRefused,
          Crash, At
    <2>4. QED
      BY <2>1, <2>2, <2>3
  <1>3. ASSUME NEW r \in Requests, RequestStep(r), deduped' # deduped
        PROVE  o \in cancelRows' \/ \E q \in Requests : stage'[q] = "write" /\ Target(q) = o
    <2>1. FilterCancel(r) \/ WriteFails(r)
      BY <1>3 DEF RequestStep, ClaimKey, AwaitOrder, PlaceUnderKey, PlaceRefused, RecordKey,
          UndoKey, PlacedButThrows, UndoFails, AskCancel, AskAmend, FilterFails, WriteCancel,
          SeeClosed, GiveUp, PlaceAmended, AmendRefused, Crash
    <2>2. /\ \A q \in Requests \ {r} : stage'[q] = stage[q]
          /\ cancelRows \subseteq cancelRows' /\ broken' = broken
      BY <2>1 DEF FilterCancel, WriteFails, RequestTypes, Go
    <2>3. CASE WriteFails(r)
      <3>1. o \in deduped /\ o # Target(r)
        BY <2>3 DEF WriteFails, WithoutFilter
      <3>2. QED
        BY <2>2, <3>1 DEF FilteredCancelsAreWritten, At
    <2>4. CASE FilterCancel(r)
      <3>1. stage'[r] = "write" /\ deduped' = deduped \cup {Target(r)} /\ stage[r] # "write"
        BY <1>3, <2>4 DEF FilterCancel, RequestTypes, Go, At
      <3>2. QED
        BY <2>2, <3>1 DEF FilteredCancelsAreWritten, At
    <2>5. QED
      BY <2>1, <2>3, <2>4
  <1>4. QED
    BY <1>1, <1>2, <1>3 DEF RequestNext, reqVars, requestVars, FilterExpires

\* "Dropping the duplicates loses no cancel" (cancel): filtered cancels are
\* covered by one that is written or being written, unless a process goes down
\* in between.
THEOREM FilteredAlwaysWritten == RequestSpec => []FilteredCancelsAreWritten
  <1>1. RequestInit => FilteredCancelsAreWritten
    BY DEF RequestInit, FilteredCancelsAreWritten
  <1>2. RequestTypes /\ FilteredCancelsAreWritten /\ [RequestNext]_reqVars
            => FilteredCancelsAreWritten'
    BY NextFiltered
  <1>3. QED
    BY <1>1, <1>2, TypesHold, PTL DEF RequestSpec

----------------------------------------------------------------------------
(***************************************************************************)
(* The account lock                                                        *)
(***************************************************************************)
\* Redis locks live as long as they are needed.
NobodyStalls == "distributed" \in Strategies => Stallers = {}

----------------------------------------------------------------------------
Active == {"acquire", "fence", "read", "fn"}
Working == {"read", "fn"}

Bars == [a \in AccountIds |-> [balance |-> row[a].balance, holding |-> holding[a]]]

\* The tables.
TablesInv ==
    /\ strategy \in Strategies
    /\ DOMAIN row = AccountIds /\ DOMAIN holding = AccountIds
    /\ DOMAIN rowLock = AccountIds /\ DOMAIN redisLock = AccountIds
    /\ \A a \in AccountIds : row[a].balance \in Int /\ row[a].version \in Nat /\ holding[a] \in Int
    /\ \A f \in {pc, acquired, snap, seen, written, stored, effect} : DOMAIN f = Clients

\* Where a client is, and what it has by then.
StageInv(c) ==
    /\ pc[c] \in Active => effect[c] = "pending"
    /\ pc[c] \in Active => acquired[c] \subseteq Ids(c)
    /\ pc[c] = "acquire" => acquired[c] # Ids(c)
    /\ pc[c] \in {"acquire", "fence"} => strategy = "distributed" /\ DOMAIN snap[c] = {}
    /\ pc[c] \in Working /\ strategy = "distributed" => acquired[c] = Ids(c)
    /\ pc[c] \in Working => DOMAIN snap[c] \subseteq Ids(c)
    /\ pc[c] = "read" => DOMAIN snap[c] # Ids(c)
    /\ pc[c] \in Active \ {"fn"} => /\ DOMAIN seen[c] = {}
                                  /\ DOMAIN written[c] = {} /\ DOMAIN stored[c] = {}
    /\ pc[c] = "fn" => /\ DOMAIN snap[c] = Ids(c) /\ DOMAIN seen[c] \subseteq HoldingIds(c)
                       /\ DOMAIN stored[c] \subseteq DOMAIN seen[c]
                       /\ DOMAIN written[c] \subseteq Ids(c)

RedisInv(c) ==
    pc[c] \in Active /\ strategy = "distributed" => \A a \in acquired[c] : redisLock[a] = c

\* What was read of an account is what there is.
Current(c, a) == /\ snap[c][a].balance = row[a].balance
                 /\ a \in DOMAIN seen[c] => seen[c][a] = holding[a]

ReadInv(c) ==
    pc[c] \in Working => \A a \in DOMAIN snap[c] :
        /\ snap[c][a].balance \in Int /\ snap[c][a].version \in Nat
        /\ snap[c][a].version <= row[a].version
        /\ a \in DOMAIN seen[c] => seen[c][a] \in Int
        /\ strategy = "pessimistic" => rowLock[a] = c
        /\ strategy # "optimistic" => Current(c, a)
        /\ snap[c][a].version = row[a].version => Current(c, a)

WriteInv(c) ==
    pc[c] \in Working =>
        /\ \A a \in DOMAIN written[c] :
               /\ rowLock[a] = c
               /\ written[c][a].balance = snap[c][a].balance + Jobs[c].balance[a]
               /\ written[c][a].version = row[a].version + 1
               /\ strategy = "optimistic" => snap[c][a].version = row[a].version
        /\ \A a \in DOMAIN stored[c] : stored[c][a] = seen[c][a] + Jobs[c].holding[a]

ClientInv(c) == StageInv(c) /\ RedisInv(c) /\ ReadInv(c) /\ WriteInv(c)

AtomicInv == TablesInv /\ \A c \in Clients : ClientInv(c)

----------------------------------------------------------------------------
\* What a client does.
LEMMA JobFacts ==
    ASSUME NEW c \in Clients
    PROVE  /\ Ids(c) \subseteq AccountIds /\ Ids(c) # {}
           /\ BalanceIds(c) \subseteq Ids(c) /\ HoldingIds(c) \subseteq Ids(c)
           /\ \A a \in Ids(c) : Jobs[c].balance[a] \in Int /\ Jobs[c].holding[a] \in Int
           /\ c # NoOne
  BY AccountLockAssumption DEF Ids, BalanceIds, HoldingIds

LEMMA SetFacts ==
    ASSUME NEW f, NEW a, NEW v
    PROVE  /\ DOMAIN Set(f, a, v) = DOMAIN f \cup {a}
           /\ Set(f, a, v)[a] = v
           /\ \A x \in DOMAIN f \ {a} : Set(f, a, v)[x] = f[x]
  BY DEF Set

LEMMA NextIsOne ==
    ASSUME NEW S \in SUBSET AccountIds, S # {}
    PROVE  NextOf(S) \in S
  BY AccountLockAssumption DEF NextOf

LEMMA InitAtomicInv == LockInit => AtomicInv
  <1> SUFFICES ASSUME LockInit
               PROVE  AtomicInv
    OBVIOUS
  <1>1. TablesInv
    <2>1. Start.balance \in Int /\ Start.holding \in Int
      BY AccountLockAssumption
    <2>2. QED
      BY <2>1 DEF LockInit, TablesInv
  <1>2. ASSUME NEW c \in Clients
        PROVE  ClientInv(c)
    <2>1. /\ pc[c] = IF strategy = "distributed" THEN "acquire" ELSE "read"
          /\ acquired[c] = {} /\ effect[c] = "pending"
          /\ snap[c] = None /\ seen[c] = None /\ written[c] = None /\ stored[c] = None
      BY DEF LockInit
    <2>2. DOMAIN None = {}
      BY DEF None
    <2>3. StageInv(c)
      BY <2>1, <2>2, JobFacts DEF StageInv, Active, Working
    <2>4. RedisInv(c) /\ ReadInv(c) /\ WriteInv(c)
      BY <2>1, <2>2 DEF RedisInv, ReadInv, WriteInv
    <2>5. QED
      BY <2>3, <2>4 DEF ClientInv
  <1>3. QED
    BY <1>1, <1>2 DEF AtomicInv

----------------------------------------------------------------------------
\* What a client has of its own.
SameClient(c) ==
    /\ pc'[c] = pc[c] /\ effect'[c] = effect[c] /\ acquired'[c] = acquired[c]
    /\ snap'[c] = snap[c] /\ seen'[c] = seen[c]
    /\ written'[c] = written[c] /\ stored'[c] = stored[c]

\* A client keeps its locks.
KeepsLocks(c) ==
    \A a \in AccountIds : /\ rowLock[a] = c => rowLock'[a] = c
                          /\ redisLock[a] = c /\ pc[c] \in Active => redisLock'[a] = c

\* What others do without a commit.
LEMMA OtherClient ==
    ASSUME NEW c \in Clients, ClientInv(c), SameClient(c), KeepsLocks(c),
           strategy' = strategy, row' = row, holding' = holding
    PROVE  ClientInv(c)'
  <1>1. pc[c] \in Working => DOMAIN snap[c] \subseteq AccountIds /\ DOMAIN written[c] \subseteq AccountIds
    BY JobFacts DEF ClientInv, StageInv, Active, Working
  <1>2. pc[c] \in Active => acquired[c] \subseteq AccountIds
    BY JobFacts DEF ClientInv, StageInv
  <1>3. StageInv(c)'
    BY DEF ClientInv, StageInv, SameClient, Ids, HoldingIds
  <1>4. RedisInv(c)'
    BY <1>2 DEF ClientInv, RedisInv, SameClient, KeepsLocks
  <1>5. ReadInv(c)'
    BY <1>1 DEF ClientInv, ReadInv, SameClient, KeepsLocks, Current
  <1>6. WriteInv(c)'
    BY <1>1 DEF ClientInv, WriteInv, SameClient, KeepsLocks
  <1>7. QED
    BY <1>3, <1>4, <1>5, <1>6 DEF ClientInv

LEMMA OneClientStep ==
    ASSUME AtomicInv, NEW c \in Clients, TablesInv', ClientInv(c)',
           strategy' = strategy, row' = row, holding' = holding,
           \A d \in Clients \ {c} : SameClient(d) /\ KeepsLocks(d)
    PROVE  AtomicInv'
  BY OtherClient DEF AtomicInv

----------------------------------------------------------------------------
(***************************************************************************)
(* Redis                                                                   *)
(***************************************************************************)
LEMMA AcquireStep ==
    ASSUME AtomicInv, NEW c \in Clients, Acquire(c)
    PROVE  AtomicInv'
  <1> DEFINE a == NextOf(Ids(c) \ acquired[c])
  <1>1. /\ pc[c] = "acquire" /\ redisLock[a] = NoOne
        /\ redisLock' = [redisLock EXCEPT ![a] = c]
        /\ acquired' = [acquired EXCEPT ![c] = @ \cup {a}]
        /\ pc' = [pc EXCEPT ![c] = "fence"]
        /\ strategy' = strategy /\ row' = row /\ holding' = holding /\ rowLock' = rowLock
        /\ snap' = snap /\ seen' = seen /\ written' = written /\ stored' = stored
        /\ effect' = effect
    BY DEF Acquire, database, tx
  <1>2. ClientInv(c) /\ TablesInv
    BY DEF AtomicInv
  <1>3. a \in Ids(c) /\ a \in AccountIds
    <2>1. Ids(c) \ acquired[c] # {} /\ Ids(c) \ acquired[c] \subseteq AccountIds
      BY <1>1, <1>2, JobFacts DEF ClientInv, StageInv, Active
    <2>2. QED
      BY <2>1, NextIsOne, JobFacts
  <1> HIDE DEF a
  <1>4. TablesInv'
    BY <1>1, <1>2 DEF TablesInv
  <1>5. ASSUME NEW d \in Clients \ {c}
        PROVE  SameClient(d) /\ KeepsLocks(d)
    BY <1>1, <1>2, JobFacts DEF SameClient, KeepsLocks, TablesInv
  <1>6. pc'[c] = "fence" /\ acquired'[c] = acquired[c] \cup {a}
    BY <1>1, <1>2 DEF TablesInv
  <1>7. StageInv(c)'
    BY <1>1, <1>2, <1>3, <1>6 DEF ClientInv, StageInv, Active, Working, Ids
  <1>8. RedisInv(c)'
    <2>1. \A b \in acquired[c] : redisLock[b] = c /\ b \in AccountIds
      BY <1>1, <1>2, JobFacts DEF ClientInv, RedisInv, StageInv, Active
    <2>2. QED
      BY <1>1, <1>2, <1>3, <1>6, <2>1 DEF RedisInv, TablesInv
  <1>9. ReadInv(c)' /\ WriteInv(c)'
    BY <1>6 DEF ReadInv, WriteInv, Working
  <1>10. QED
    BY <1>1, <1>4, <1>5, <1>7, <1>8, <1>9, OneClientStep DEF ClientInv

LEMMA TakeFenceStep ==
    ASSUME AtomicInv, NEW c \in Clients, TakeFence(c)
    PROVE  AtomicInv'
  <1> DEFINE next == IF acquired[c] = Ids(c) THEN "read" ELSE "acquire"
  <1>1. /\ pc[c] = "fence" /\ pc' = [pc EXCEPT ![c] = next]
        /\ strategy' = strategy /\ row' = row /\ holding' = holding
        /\ rowLock' = rowLock /\ redisLock' = redisLock /\ acquired' = acquired
        /\ snap' = snap /\ seen' = seen /\ written' = written /\ stored' = stored
        /\ effect' = effect
    BY DEF TakeFence, database, tx
  <1>2. ClientInv(c) /\ TablesInv
    BY DEF AtomicInv
  <1>3. TablesInv'
    BY <1>1, <1>2 DEF TablesInv
  <1>4. ASSUME NEW d \in Clients \ {c}
        PROVE  SameClient(d) /\ KeepsLocks(d)
    BY <1>1, <1>2 DEF SameClient, KeepsLocks, TablesInv
  <1>5. pc'[c] = next
    BY <1>1, <1>2 DEF TablesInv
  <1>6. StageInv(c)'
    BY <1>1, <1>2, <1>5, JobFacts DEF ClientInv, StageInv, Active, Working, Ids, HoldingIds
  <1>7. RedisInv(c)'
    BY <1>1, <1>2 DEF ClientInv, RedisInv, Active
  <1>8. ReadInv(c)' /\ WriteInv(c)'
    BY <1>1, <1>2 DEF ClientInv, StageInv, Active, ReadInv, WriteInv
  <1>9. QED
    BY <1>1, <1>3, <1>4, <1>6, <1>7, <1>8, OneClientStep DEF ClientInv

LEMMA ExpireStep ==
    ASSUME AtomicInv, NobodyStalls, NEW a \in AccountIds, Expire(a)
    PROVE  AtomicInv'
  <1>1. /\ redisLock' = [redisLock EXCEPT ![a] = NoOne]
        /\ pc[redisLock[a]] = "over" \/ redisLock[a] \in Stallers
        /\ strategy' = strategy /\ row' = row /\ holding' = holding /\ rowLock' = rowLock
        /\ pc' = pc /\ effect' = effect /\ acquired' = acquired
        /\ snap' = snap /\ seen' = seen /\ written' = written /\ stored' = stored
    BY DEF Expire, database, tx
  <1>2. TablesInv /\ TablesInv'
    BY <1>1 DEF AtomicInv, TablesInv
  <1>3. ASSUME NEW c \in Clients
        PROVE  ClientInv(c)'
    <2>1. ClientInv(c) /\ SameClient(c)
      BY <1>1 DEF AtomicInv, SameClient
    <2>2. CASE strategy = "distributed"
      <3>1. pc[c] \in Active => redisLock[a] # c
        BY <1>1, <1>2, <2>2 DEF NobodyStalls, TablesInv, Active
      <3>2. KeepsLocks(c)
        BY <1>1, <1>2, <3>1 DEF KeepsLocks, TablesInv
      <3>3. QED
        BY <1>1, <2>1, <3>2, OtherClient
    <2>3. CASE strategy # "distributed"
      <3>1. RedisInv(c)'
        BY <1>1, <2>3 DEF RedisInv
      <3>2. StageInv(c)' /\ ReadInv(c)' /\ WriteInv(c)'
        BY <1>1, <2>1 DEF ClientInv, StageInv, ReadInv, WriteInv, Current, Ids, HoldingIds
      <3>3. QED
        BY <3>1, <3>2 DEF ClientInv
    <2>4. QED
      BY <2>2, <2>3
  <1>4. QED
    BY <1>2, <1>3 DEF AtomicInv

LEMMA ReleaseStep ==
    ASSUME AtomicInv, NEW c \in Clients, Release(c) \/ ReleaseFails(c)
    PROVE  AtomicInv'
  <1>1. /\ pc[c] = "release"
        /\ \E new \in {"over", "release"} : pc' = [pc EXCEPT ![c] = new]
        /\ redisLock' = redisLock
             \/ \E a : redisLock' = [redisLock EXCEPT ![a] = IF @ = c THEN NoOne ELSE @]
        /\ acquired' = acquired \/ \E a : acquired' = [acquired EXCEPT ![c] = @ \ {a}]
        /\ strategy' = strategy /\ row' = row /\ holding' = holding /\ rowLock' = rowLock
        /\ snap' = snap /\ seen' = seen /\ written' = written /\ stored' = stored
        /\ effect' = effect
    <2>1. CASE Release(c)
      <3>1. PICK a \in acquired[c] :
                /\ pc[c] = "release"
                /\ redisLock' = [redisLock EXCEPT ![a] = IF @ = c THEN NoOne ELSE @]
                /\ acquired' = [acquired EXCEPT ![c] = @ \ {a}]
                /\ pc' = [pc EXCEPT ![c] = IF acquired[c] = {a} THEN "over" ELSE @]
                /\ UNCHANGED <<strategy, database, fenceCount, tries, fences, tx, effect>>
        BY <2>1 DEF Release
      <3>2. \E new \in {"over", "release"} : pc' = [pc EXCEPT ![c] = new]
        BY <3>1
      <3>3. QED
        BY <3>1, <3>2 DEF database, tx
    <2>2. CASE ReleaseFails(c)
      BY <2>2 DEF ReleaseFails, database, redis, tx
    <2>3. QED
      BY <2>1, <2>2
  <1>2. TablesInv
    BY DEF AtomicInv
  <1>3. TablesInv'
    BY <1>1, <1>2 DEF TablesInv
  <1>4. ASSUME NEW d \in Clients \ {c}
        PROVE  SameClient(d) /\ KeepsLocks(d)
    BY <1>1, <1>2 DEF SameClient, KeepsLocks, TablesInv
  <1>5. pc'[c] \in {"over", "release"}
    BY <1>1, <1>2 DEF TablesInv
  <1>6. ClientInv(c)'
    BY <1>5 DEF ClientInv, StageInv, RedisInv, ReadInv, WriteInv, Active, Working
  <1>7. QED
    BY <1>1, <1>3, <1>4, <1>6, OneClientStep

----------------------------------------------------------------------------
(***************************************************************************)
(* The transaction                                                         *)
(***************************************************************************)
LEMMA ReadStep ==
    ASSUME AtomicInv, NEW c \in Clients, Read(c)
    PROVE  AtomicInv'
  <1> DEFINE a == NextOf(Ids(c) \ DOMAIN snap[c])
             next == IF Ids(c) \ DOMAIN snap[c] = {a} THEN "fn" ELSE "read"
             new == Set(snap[c], a, row[a])
  <1>1. /\ pc[c] = "read"
        /\ IF strategy = "pessimistic"
           THEN rowLock[a] = NoOne /\ rowLock' = [rowLock EXCEPT ![a] = c]
           ELSE rowLock' = rowLock
        /\ snap' = [snap EXCEPT ![c] = new]
        /\ pc' = [pc EXCEPT ![c] = next]
        /\ strategy' = strategy /\ row' = row /\ holding' = holding /\ redisLock' = redisLock
        /\ acquired' = acquired /\ seen' = seen /\ written' = written /\ stored' = stored
        /\ effect' = effect
    BY DEF Read, redis
  <1>2. ClientInv(c) /\ TablesInv
    BY DEF AtomicInv
  <1>3. /\ DOMAIN snap[c] \subseteq Ids(c) /\ DOMAIN snap[c] # Ids(c)
        /\ DOMAIN seen[c] = {} /\ DOMAIN written[c] = {} /\ DOMAIN stored[c] = {}
    BY <1>1, <1>2 DEF ClientInv, StageInv, Active, Working
  <1>4. a \in Ids(c) /\ a \in AccountIds /\ a \notin DOMAIN snap[c]
    <2>1. Ids(c) \ DOMAIN snap[c] # {} /\ Ids(c) \ DOMAIN snap[c] \subseteq AccountIds
      BY <1>3, JobFacts
    <2>2. QED
      BY <2>1, NextIsOne, JobFacts
  <1>5. /\ DOMAIN new = DOMAIN snap[c] \cup {a} /\ new[a] = row[a]
        /\ \A x \in DOMAIN snap[c] : new[x] = snap[c][x]
    BY <1>4 DEF Set
  <1>6. /\ next \in {"read", "fn"}
        /\ next = "fn" => DOMAIN new = Ids(c)
        /\ next = "read" => DOMAIN new # Ids(c)
    BY <1>3, <1>4, <1>5
  <1> HIDE DEF a, next, new
  <1>7. TablesInv'
    BY <1>1, <1>2 DEF TablesInv
  <1>8. ASSUME NEW d \in Clients \ {c}
        PROVE  SameClient(d) /\ KeepsLocks(d)
    BY <1>1, <1>2, <1>4, JobFacts DEF SameClient, KeepsLocks, TablesInv
  <1>9. pc'[c] = next /\ snap'[c] = new
    BY <1>1, <1>2 DEF TablesInv
  <1>10. StageInv(c)'
    BY <1>1, <1>2, <1>3, <1>4, <1>5, <1>6, <1>9 DEF ClientInv, StageInv, Active, Working, Ids,
       HoldingIds
  <1>11. RedisInv(c)'
    BY <1>1, <1>2 DEF ClientInv, RedisInv, Active
  <1>12. ReadInv(c)'
    <2>1. strategy = "pessimistic" => \A x \in DOMAIN new : rowLock'[x] = c
      <3>1. strategy = "pessimistic" => \A x \in DOMAIN snap[c] : rowLock[x] = c
        <4>1. ReadInv(c) /\ pc[c] \in Working
          BY <1>1, <1>2 DEF ClientInv, Working
        <4>2. QED
          BY <4>1 DEF ReadInv
      <3>2. \A x \in DOMAIN new : x \in AccountIds
        BY <1>3, <1>4, <1>5, JobFacts
      <3>3. QED
        BY <1>1, <1>2, <1>4, <1>5, <3>1, <3>2 DEF TablesInv
    <2>2. ASSUME NEW x \in DOMAIN new
          PROVE  /\ new[x].balance \in Int /\ new[x].version \in Nat
                 /\ new[x].version <= row[x].version
                 /\ strategy # "optimistic" => new[x].balance = row[x].balance
                 /\ new[x].version = row[x].version => new[x].balance = row[x].balance
      <3>1. CASE x = a
        BY <1>2, <1>4, <1>5, <3>1 DEF TablesInv
      <3>2. CASE x # a
        BY <1>1, <1>2, <1>5, <3>2 DEF ClientInv, ReadInv, Working, Current
      <3>3. QED
        BY <3>1, <3>2
    <2>3. QED
      BY <1>1, <1>3, <1>9, <2>1, <2>2 DEF ReadInv, Current
  <1>13. WriteInv(c)'
    BY <1>1, <1>3 DEF WriteInv
  <1>14. QED
    BY <1>1, <1>7, <1>8, <1>10, <1>11, <1>12, <1>13, OneClientStep DEF ClientInv

LEMMA ReadHoldingStep ==
    ASSUME AtomicInv, NEW c \in Clients, NEW a \in Ids(c), ReadHolding(c, a)
    PROVE  AtomicInv'
  <1> DEFINE new == Set(seen[c], a, holding[a])
  <1>1. /\ pc[c] = "fn" /\ a \in HoldingIds(c) \ DOMAIN seen[c]
        /\ seen' = [seen EXCEPT ![c] = new]
        /\ strategy' = strategy /\ row' = row /\ holding' = holding
        /\ rowLock' = rowLock /\ redisLock' = redisLock /\ pc' = pc
        /\ acquired' = acquired /\ snap' = snap /\ written' = written /\ stored' = stored
        /\ effect' = effect
    BY DEF ReadHolding, database, redis
  <1>2. ClientInv(c) /\ TablesInv
    BY DEF AtomicInv
  <1>3. /\ DOMAIN new = DOMAIN seen[c] \cup {a} /\ new[a] = holding[a]
        /\ \A x \in DOMAIN seen[c] : new[x] = seen[c][x]
    BY <1>1 DEF Set
  <1> HIDE DEF new
  <1>4. TablesInv'
    BY <1>1, <1>2 DEF TablesInv
  <1>5. ASSUME NEW d \in Clients \ {c}
        PROVE  SameClient(d) /\ KeepsLocks(d)
    BY <1>1, <1>2 DEF SameClient, KeepsLocks, TablesInv
  <1>6. seen'[c] = new
    BY <1>1, <1>2 DEF TablesInv
  <1>7. StageInv(c)'
    BY <1>1, <1>2, <1>3, <1>6 DEF ClientInv, StageInv, Active, Working, Ids, HoldingIds
  <1>8. RedisInv(c)'
    BY <1>1, <1>2 DEF ClientInv, RedisInv
  <1>9. ReadInv(c)'
    <2>1. a \in AccountIds /\ holding[a] \in Int
      BY <1>2, JobFacts DEF TablesInv
    <2>2. QED
      BY <1>1, <1>2, <1>3, <1>6, <2>1 DEF ClientInv, ReadInv, Current
  <1>10. WriteInv(c)'
    <2>1. DOMAIN stored[c] \subseteq DOMAIN seen[c]
      BY <1>1, <1>2 DEF ClientInv, StageInv
    <2>2. QED
      BY <1>1, <1>2, <1>3, <1>6, <2>1 DEF ClientInv, WriteInv
  <1>11. QED
    BY <1>1, <1>4, <1>5, <1>7, <1>8, <1>9, <1>10, OneClientStep DEF ClientInv

LEMMA WriteHoldingStep ==
    ASSUME AtomicInv, NEW c \in Clients, NEW a \in Ids(c), WriteHolding(c, a)
    PROVE  AtomicInv'
  <1> DEFINE value == seen[c][a] + Jobs[c].holding[a]
             new == Set(stored[c], a, value)
  <1>1. /\ pc[c] = "fn" /\ a \in DOMAIN seen[c] \ DOMAIN stored[c]
        /\ stored' = [stored EXCEPT ![c] = new]
        /\ strategy' = strategy /\ row' = row /\ holding' = holding
        /\ rowLock' = rowLock /\ redisLock' = redisLock /\ pc' = pc
        /\ acquired' = acquired /\ snap' = snap /\ seen' = seen /\ written' = written
        /\ effect' = effect
    BY DEF WriteHolding, redis
  <1>2. ClientInv(c) /\ TablesInv
    BY DEF AtomicInv
  <1>3. /\ DOMAIN new = DOMAIN stored[c] \cup {a} /\ new[a] = value
        /\ \A x \in DOMAIN stored[c] : new[x] = stored[c][x]
    BY <1>1 DEF Set
  <1> HIDE DEF new
  <1>4. TablesInv'
    BY <1>1, <1>2 DEF TablesInv
  <1>5. ASSUME NEW d \in Clients \ {c}
        PROVE  SameClient(d) /\ KeepsLocks(d)
    BY <1>1, <1>2 DEF SameClient, KeepsLocks, TablesInv
  <1>6. stored'[c] = new
    BY <1>1, <1>2 DEF TablesInv
  <1>7. StageInv(c)'
    BY <1>1, <1>2, <1>3, <1>6 DEF ClientInv, StageInv, Active, Working, Ids, HoldingIds
  <1>8. RedisInv(c)' /\ ReadInv(c)'
    BY <1>1, <1>2 DEF ClientInv, RedisInv, ReadInv, Current
  <1>9. WriteInv(c)'
    BY <1>1, <1>2, <1>3, <1>6 DEF ClientInv, WriteInv
  <1>10. QED
    BY <1>1, <1>4, <1>5, <1>7, <1>8, <1>9, OneClientStep DEF ClientInv

LEMMA UpdateAccountStep ==
    ASSUME AtomicInv, NEW c \in Clients, NEW a \in Ids(c), UpdateAccount(c, a)
    PROVE  AtomicInv'
  <1> DEFINE value == Updated(c, a, snap[c][a].balance + Jobs[c].balance[a])
             new == Set(written[c], a, value)
  <1>1. /\ pc[c] = "fn" /\ a \notin DOMAIN written[c] /\ rowLock[a] \in {NoOne, c}
        /\ strategy = "optimistic" => row[a].version = snap[c][a].version
        /\ written' = [written EXCEPT ![c] = new]
        /\ rowLock' = [rowLock EXCEPT ![a] = c]
        /\ strategy' = strategy /\ row' = row /\ holding' = holding
        /\ redisLock' = redisLock /\ pc' = pc
        /\ acquired' = acquired /\ snap' = snap /\ seen' = seen /\ stored' = stored
        /\ effect' = effect
    BY DEF UpdateAccount, Updates, Free, GuardHolds, redis
  <1>2. ClientInv(c) /\ TablesInv
    BY DEF AtomicInv
  <1>3. /\ DOMAIN new = DOMAIN written[c] \cup {a} /\ new[a] = value
        /\ \A x \in DOMAIN written[c] : new[x] = written[c][x]
    BY <1>1 DEF Set
  <1>4. /\ value.balance = snap[c][a].balance + Jobs[c].balance[a]
        /\ value.version = row[a].version + 1
    BY DEF Updated
  <1> HIDE DEF new, value
  <1>5. TablesInv'
    BY <1>1, <1>2 DEF TablesInv
  <1>6. a \in AccountIds /\ DOMAIN snap[c] = Ids(c) /\ Ids(c) \subseteq AccountIds
    BY <1>1, <1>2, JobFacts DEF ClientInv, StageInv
  <1>7. ASSUME NEW d \in Clients \ {c}
        PROVE  SameClient(d) /\ KeepsLocks(d)
    BY <1>1, <1>2, <1>6, JobFacts DEF SameClient, KeepsLocks, TablesInv
  <1>8. \A x \in AccountIds : rowLock'[x] = IF x = a THEN c ELSE rowLock[x]
    BY <1>1, <1>2, <1>6 DEF TablesInv
  <1>9. written'[c] = new
    BY <1>1, <1>2 DEF TablesInv
  <1>10. StageInv(c)'
    BY <1>1, <1>2, <1>3, <1>9 DEF ClientInv, StageInv, Active, Working, Ids, HoldingIds
  <1>11. RedisInv(c)'
    BY <1>1, <1>2 DEF ClientInv, RedisInv
  <1>12. ReadInv(c)'
    BY <1>1, <1>2, <1>6, <1>8 DEF ClientInv, ReadInv, Current
  <1>13. WriteInv(c)'
    <2>1. /\ DOMAIN written[c] \subseteq Ids(c) /\ WriteInv(c)
      BY <1>1, <1>2 DEF ClientInv, StageInv
    <2>2. QED
      BY <1>1, <1>3, <1>4, <1>6, <1>8, <1>9, <2>1 DEF WriteInv
  <1>14. QED
    BY <1>1, <1>5, <1>7, <1>10, <1>11, <1>12, <1>13, OneClientStep DEF ClientInv

\* A transaction that is rolled back, at its end or before another try.
LEMMA RollbackStep ==
    ASSUME AtomicInv, NEW c \in Clients, Rollback(c),
           NEW next, pc' = [pc EXCEPT ![c] = next],
           \/ next \in {"over", "release"} /\ effect' = [effect EXCEPT ![c] = "failed"]
           \/ /\ next = "read" /\ pc[c] = "fn" /\ strategy = "optimistic"
              /\ effect' = effect
    PROVE  AtomicInv'
  <1>1. /\ rowLock' = Unlocked(rowLock, c)
        /\ snap' = [snap EXCEPT ![c] = None] /\ seen' = [seen EXCEPT ![c] = None]
        /\ written' = [written EXCEPT ![c] = None] /\ stored' = [stored EXCEPT ![c] = None]
        /\ strategy' = strategy /\ row' = row /\ holding' = holding
        /\ redisLock' = redisLock /\ acquired' = acquired
    BY DEF Rollback, redis
  <1>2. ClientInv(c) /\ TablesInv
    BY DEF AtomicInv
  <1>3. TablesInv'
    BY <1>1, <1>2 DEF TablesInv, Unlocked
  <1>4. ASSUME NEW d \in Clients \ {c}
        PROVE  SameClient(d) /\ KeepsLocks(d)
    BY <1>1, <1>2 DEF SameClient, KeepsLocks, TablesInv, Unlocked
  <1>5. /\ pc'[c] = next /\ snap'[c] = None /\ seen'[c] = None
        /\ written'[c] = None /\ stored'[c] = None /\ DOMAIN None = {}
    BY <1>1, <1>2 DEF TablesInv, None
  <1>6. StageInv(c)'
    <2>1. CASE next \in {"over", "release"}
      BY <1>5, <2>1 DEF StageInv, Active, Working
    <2>2. CASE next = "read" /\ pc[c] = "fn" /\ strategy = "optimistic" /\ effect' = effect
      BY <1>1, <1>2, <1>5, <2>2, JobFacts DEF ClientInv, StageInv, Active, Working, Ids, HoldingIds
    <2>3. QED
      BY <2>1, <2>2
  <1>7. RedisInv(c)'
    BY <1>1, <1>5 DEF RedisInv, Active
  <1>8. ReadInv(c)' /\ WriteInv(c)'
    BY <1>5 DEF ReadInv, WriteInv
  <1>9. QED
    BY <1>1, <1>3, <1>4, <1>6, <1>7, <1>8, OneClientStep DEF ClientInv

LEMMA FailureStep ==
    ASSUME AtomicInv, NEW c \in Clients, Throws(c) \/ \E a \in Ids(c) : Conflict(c, a)
    PROVE  AtomicInv'
  <1>1. Leaving(c) \in {"over", "release"}
    BY DEF Leaving
  <1>2. Throws(c) => Rollback(c) /\ GivesUp(c)
    BY DEF Throws
  <1>3. ASSUME NEW a \in Ids(c), Conflict(c, a)
        PROVE  /\ Rollback(c) /\ pc[c] = "fn"
               /\ \/ GivesUp(c)
                  \/ /\ pc' = [pc EXCEPT ![c] = "read"] /\ strategy = "optimistic"
                     /\ effect' = effect
    BY <1>3 DEF Conflict, Updates
  <1>4. CASE Rollback(c) /\ GivesUp(c)
    BY <1>1, <1>4, RollbackStep DEF GivesUp
  <1>5. QED
    BY <1>2, <1>3, <1>4, RollbackStep

\* What a client that may commit has read is what there is, in every strategy.
LEMMA CommitsOnCurrent ==
    ASSUME AtomicInv, NEW c \in Clients, Commit(c)
    PROVE  \A a \in Ids(c) : Current(c, a) /\ snap[c][a].balance \in Int
  <1>1. /\ pc[c] = "fn" /\ pc[c] \in Working /\ strategy \in Strategies
        /\ DOMAIN written[c] = BalanceIds(c) \cup TouchIds(c)
    BY DEF Commit, Working, AtomicInv, TablesInv
  <1>2. /\ DOMAIN snap[c] = Ids(c) /\ ReadInv(c) /\ WriteInv(c)
    BY <1>1 DEF AtomicInv, ClientInv, StageInv
  <1>3. ASSUME NEW a \in Ids(c), strategy = "optimistic"
        PROVE  Current(c, a)
    <2>1. a \in DOMAIN written[c]
      BY <1>1, <1>3 DEF TouchIds
    <2>2. snap[c][a].version = row[a].version
      BY <1>1, <1>2, <1>3, <2>1 DEF WriteInv
    <2>3. QED
      BY <1>1, <1>2, <1>3, <2>2 DEF ReadInv
  <1>4. QED
    BY <1>1, <1>2, <1>3 DEF ReadInv

\* What a commit does to the accounts is what the function does to them.
LEMMA CommitEffect ==
    ASSUME AtomicInv, NEW c \in Clients, Commit(c)
    PROVE  /\ \A a \in Ids(c) : /\ row[a].balance + Jobs[c].balance[a] >= 0
                                /\ row'[a].balance = row[a].balance + Jobs[c].balance[a]
                                /\ holding'[a] = holding[a] + Jobs[c].holding[a]
           /\ \A a \in AccountIds \ Ids(c) : row'[a] = row[a] /\ holding'[a] = holding[a]
  <1>1. /\ pc[c] = "fn" /\ pc[c] \in Working /\ Enough(c)
        /\ DOMAIN stored[c] = HoldingIds(c)
        /\ DOMAIN written[c] = BalanceIds(c) \cup TouchIds(c)
        /\ row' = [a \in AccountIds |-> IF a \in DOMAIN written[c] THEN written[c][a] ELSE row[a]]
        /\ holding' = [a \in AccountIds |-> IF a \in DOMAIN stored[c] THEN stored[c][a] ELSE holding[a]]
    BY DEF Commit, Working
  <1>2. /\ WriteInv(c) /\ DOMAIN stored[c] \subseteq DOMAIN seen[c]
        /\ DOMAIN written[c] \subseteq Ids(c)
    BY <1>1 DEF AtomicInv, ClientInv, StageInv
  <1>3. ASSUME NEW a \in Ids(c)
        PROVE  /\ a \in AccountIds /\ Current(c, a)
               /\ row[a].balance \in Int /\ holding[a] \in Int
    BY CommitsOnCurrent, JobFacts DEF AtomicInv, TablesInv
  <1>4. ASSUME NEW a \in Ids(c)
        PROVE  row'[a].balance = row[a].balance + Jobs[c].balance[a]
    <2>1. CASE a \in DOMAIN written[c]
      BY <1>1, <1>2, <1>3, <2>1 DEF WriteInv, Current
    <2>2. CASE a \notin DOMAIN written[c]
      <3>1. Jobs[c].balance[a] = 0
        BY <1>1, <2>2 DEF BalanceIds
      <3>2. QED
        BY <1>1, <1>3, <2>2, <3>1
    <2>3. QED
      BY <2>1, <2>2
  <1>5. ASSUME NEW a \in Ids(c)
        PROVE  holding'[a] = holding[a] + Jobs[c].holding[a]
    <2>1. CASE a \in DOMAIN stored[c]
      BY <1>1, <1>2, <1>3, <2>1 DEF WriteInv, Current
    <2>2. CASE a \notin DOMAIN stored[c]
      <3>1. Jobs[c].holding[a] = 0
        BY <1>1, <2>2 DEF HoldingIds
      <3>2. QED
        BY <1>1, <1>3, <2>2, <3>1
    <2>3. QED
      BY <2>1, <2>2
  <1>6. \A a \in Ids(c) : row[a].balance + Jobs[c].balance[a] >= 0
    BY <1>1, <1>3 DEF Enough, Current
  <1>7. \A a \in AccountIds \ Ids(c) : row'[a] = row[a] /\ holding'[a] = holding[a]
    BY <1>1, <1>2, JobFacts
  <1>8. QED
    BY <1>4, <1>5, <1>6, <1>7

\* Another client finds what it has read unchanged, or with a new version.
LEMMA CommitStep ==
    ASSUME AtomicInv, NEW c \in Clients, Commit(c)
    PROVE  AtomicInv'
  <1>1. /\ pc[c] = "fn" /\ pc[c] \in Working
        /\ DOMAIN written[c] = BalanceIds(c) \cup TouchIds(c)
        /\ row' = [a \in AccountIds |-> IF a \in DOMAIN written[c] THEN written[c][a] ELSE row[a]]
        /\ holding' = [a \in AccountIds |-> IF a \in DOMAIN stored[c] THEN stored[c][a] ELSE holding[a]]
        /\ rowLock' = Unlocked(rowLock, c)
        /\ pc' = [pc EXCEPT ![c] = Leaving(c)] /\ effect' = [effect EXCEPT ![c] = "done"]
        /\ strategy' = strategy /\ redisLock' = redisLock /\ acquired' = acquired
        /\ snap' = snap /\ seen' = seen /\ written' = written /\ stored' = stored
    BY DEF Commit, Working, redis, tx
  <1>2. ClientInv(c) /\ TablesInv
    BY DEF AtomicInv
  <1>3. /\ DOMAIN snap[c] = Ids(c) /\ DOMAIN written[c] \subseteq Ids(c)
        /\ ReadInv(c) /\ WriteInv(c)
    BY <1>1, <1>2 DEF ClientInv, StageInv
  <1>4. TablesInv'
    <2>1. \A a \in AccountIds : row'[a].balance \in Int /\ holding'[a] \in Int
      BY <1>2, CommitEffect, JobFacts DEF TablesInv
    <2>2. \A a \in AccountIds : row'[a].version \in Nat
      BY <1>1, <1>2, <1>3 DEF TablesInv, WriteInv
    <2>3. QED
      BY <1>1, <1>2, <2>1, <2>2 DEF TablesInv, Unlocked
  <1>5. pc'[c] \in {"over", "release"}
    BY <1>1, <1>2 DEF TablesInv, Leaving
  <1>6. ClientInv(c)'
    BY <1>5 DEF ClientInv, StageInv, RedisInv, ReadInv, WriteInv, Active, Working
  <1>7. ASSUME NEW d \in Clients, d # c
        PROVE  ClientInv(d)'
    <2>1. /\ ClientInv(d) /\ SameClient(d)
          /\ \A a \in AccountIds : rowLock[a] = d => rowLock'[a] = d
      BY <1>1, <1>2, <1>7 DEF AtomicInv, SameClient, TablesInv, Unlocked
    <2>2. StageInv(d)' /\ RedisInv(d)'
      BY <1>1, <2>1 DEF ClientInv, StageInv, RedisInv, SameClient, Ids, HoldingIds
    <2>3. ASSUME NEW a \in DOMAIN written[c]
          PROVE  rowLock[a] = c /\ row'[a].version = row[a].version + 1
      BY <1>1, <1>3, JobFacts DEF WriteInv
    <2>4. \A a \in AccountIds : a \notin DOMAIN written[c] => row'[a] = row[a]
      BY <1>1
    <2>5. pc[d] \in Working => DOMAIN snap[d] \subseteq AccountIds /\ DOMAIN written[d] \subseteq AccountIds
      BY <2>1, JobFacts DEF ClientInv, StageInv, Active, Working
    <2>6. ASSUME pc[d] \in Working, strategy # "optimistic", NEW a \in DOMAIN snap[d]
          PROVE  a \notin Ids(c)
      <3>1. CASE strategy = "pessimistic"
        BY <1>1, <1>3, <1>7, <2>1, <2>6, <3>1 DEF ClientInv, ReadInv
      <3>2. CASE strategy = "distributed"
        <4>1. a \in Ids(d) /\ acquired[d] = Ids(d) /\ pc[d] \in Active
          BY <2>1, <2>6, <3>2 DEF ClientInv, StageInv, Active, Working
        <4>2. redisLock[a] = d
          BY <2>1, <3>2, <4>1 DEF ClientInv, RedisInv
        <4>3. a \in Ids(c) => redisLock[a] = c
          BY <1>1, <1>2, <3>2 DEF ClientInv, StageInv, RedisInv, Active, Working
        <4>4. QED
          BY <1>7, <4>2, <4>3
      <3>3. QED
        BY <1>2, <2>6, <3>1, <3>2, AccountLockAssumption DEF TablesInv
    <2>7. ASSUME strategy = "optimistic", NEW a \in AccountIds, a \notin DOMAIN written[c]
          PROVE  holding'[a] = holding[a]
      <3>1. a \notin Ids(c)
        BY <1>1, <2>7 DEF TouchIds
      <3>2. QED
        BY <2>7, <3>1, CommitEffect
    <2>8. ReadInv(d)'
      <3>1. SUFFICES ASSUME pc[d] \in Working, NEW a \in DOMAIN snap[d]
                     PROVE  /\ snap[d][a].balance \in Int /\ snap[d][a].version \in Nat
                            /\ snap[d][a].version <= row'[a].version
                            /\ a \in DOMAIN seen[d] => seen[d][a] \in Int
                            /\ strategy = "pessimistic" => rowLock'[a] = d
                            /\ strategy # "optimistic" => Current(d, a)'
                            /\ snap[d][a].version = row'[a].version => Current(d, a)'
        BY <1>1, <2>1 DEF ReadInv, SameClient
      <3>2. /\ a \in AccountIds
            /\ snap[d][a].balance \in Int /\ snap[d][a].version \in Nat
            /\ snap[d][a].version <= row[a].version
            /\ a \in DOMAIN seen[d] => seen[d][a] \in Int
            /\ strategy = "pessimistic" => rowLock[a] = d
            /\ strategy # "optimistic" => Current(d, a)
            /\ snap[d][a].version = row[a].version => Current(d, a)
        BY <2>1, <2>5, <3>1 DEF ClientInv, ReadInv
      <3>3. row[a].version \in Nat
        BY <1>2, <3>2 DEF TablesInv
      <3>4. CASE row'[a] = row[a] /\ holding'[a] = holding[a]
        BY <2>1, <3>2, <3>4 DEF Current, SameClient
      <3>5. CASE strategy # "optimistic"
        BY <2>6, <3>1, <3>2, <3>4, <3>5, CommitEffect
      <3>6. CASE strategy = "optimistic" /\ a \in DOMAIN written[c]
        <4>1. row'[a].version = row[a].version + 1
          BY <2>3, <3>6
        <4>2. QED
          BY <3>2, <3>3, <3>6, <4>1
      <3>7. CASE strategy = "optimistic" /\ a \notin DOMAIN written[c]
        BY <2>4, <2>7, <3>2, <3>4, <3>7
      <3>8. QED
        BY <3>5, <3>6, <3>7
    <2>9. WriteInv(d)'
      <3>1. ASSUME pc[d] \in Working, NEW a \in DOMAIN written[d]
            PROVE  row'[a] = row[a] /\ rowLock'[a] = d
        BY <1>7, <2>1, <2>3, <2>4, <2>5, <3>1 DEF ClientInv, WriteInv
      <3>2. QED
        BY <1>1, <2>1, <3>1, ZenonT(60) DEF ClientInv, WriteInv, SameClient
    <2>10. QED
      BY <2>2, <2>8, <2>9 DEF ClientInv
  <1>8. QED
    BY <1>4, <1>6, <1>7 DEF AtomicInv

LEMMA AtomicInvStep ==
    ASSUME AtomicInv, NobodyStalls, [LockNext]_lockVars
    PROVE  AtomicInv'
  <1>1. ASSUME NEW c \in Clients,
               \/ Acquire(c) \/ TakeFence(c) \/ Release(c) \/ ReleaseFails(c)
               \/ Read(c) \/ Commit(c) \/ Throws(c)
        PROVE  AtomicInv'
    BY <1>1, AcquireStep, TakeFenceStep, ReleaseStep, ReadStep, CommitStep, FailureStep
  <1>2. ASSUME NEW c \in Clients, NEW a \in Ids(c),
               \/ ReadHolding(c, a) \/ WriteHolding(c, a)
               \/ UpdateAccount(c, a) \/ Conflict(c, a)
        PROVE  AtomicInv'
    BY <1>2, ReadHoldingStep, WriteHoldingStep, UpdateAccountStep, FailureStep
  <1>3. ASSUME NEW a \in AccountIds, Expire(a)
        PROVE  AtomicInv'
    BY <1>3, ExpireStep
  <1>4. CASE UNCHANGED lockVars
    <2>1. TablesInv'
      BY <1>4 DEF AtomicInv, TablesInv, lockVars, database, redis, tx
    <2>2. ASSUME NEW c \in Clients PROVE ClientInv(c)'
      <3>1. /\ ClientInv(c) /\ SameClient(c) /\ KeepsLocks(c)
            /\ strategy' = strategy /\ row' = row /\ holding' = holding
        BY <1>4 DEF AtomicInv, SameClient, KeepsLocks, lockVars, database, redis, tx
      <3>2. QED
        BY <3>1, OtherClient
    <2>3. QED
      BY <2>1, <2>2 DEF AtomicInv
  <1>5. QED
    BY <1>1, <1>2, <1>3, <1>4 DEF LockNext

----------------------------------------------------------------------------
(***************************************************************************)
(* The refinement                                                          *)
(***************************************************************************)
LEMMA InitAtomic == LockInit => Atomic!AtomicInit
  <1> SUFFICES ASSUME LockInit
               PROVE  Atomic!AtomicInit
    OBVIOUS
  <1>1. Start = [balance |-> Start.balance, holding |-> Start.holding]
    BY AccountLockAssumption
  <1>2. Bars = [a \in AccountIds |-> Start]
    BY <1>1 DEF LockInit, Bars
  <1>3. QED
    BY <1>2 DEF LockInit, Atomic!AtomicInit, Bars

LEMMA CommitApplies ==
    ASSUME AtomicInv, NEW c \in Clients, Commit(c)
    PROVE  Atomic!Apply(c)
  <1>1. effect[c] = "pending" /\ effect' = [effect EXCEPT ![c] = "done"]
    BY DEF AtomicInv, ClientInv, StageInv, Active, Commit
  <1>2. /\ \A a \in Ids(c) : Bars[a].balance + Jobs[c].balance[a] >= 0
        /\ Bars' = [a \in AccountIds |->
               IF a \in Ids(c)
               THEN [balance |-> Bars[a].balance + Jobs[c].balance[a],
                     holding |-> Bars[a].holding + Jobs[c].holding[a]]
               ELSE Bars[a]]
    BY CommitEffect, JobFacts DEF Bars
  <1>3. QED
    BY <1>1, <1>2 DEF Atomic!Apply, Bars, Ids

LEMMA FailureFails ==
    ASSUME AtomicInv, NEW c \in Clients, GivesUp(c), pc[c] \in Active, row' = row, holding' = holding
    PROVE  Atomic!Fail(c)
  <1>1. effect[c] = "pending" /\ effect' = [effect EXCEPT ![c] = "failed"]
    BY DEF AtomicInv, ClientInv, StageInv, GivesUp
  <1>2. QED
    BY <1>1 DEF Atomic!Fail

LEMMA AtomicStep ==
    ASSUME AtomicInv, [LockNext]_lockVars
    PROVE  [Atomic!AtomicNext]_<<Bars, effect>>
  <1>1. CASE row' = row /\ holding' = holding /\ effect' = effect
    BY <1>1 DEF Bars
  <1>2. ASSUME NEW c \in Clients, Acquire(c) \/ TakeFence(c) \/ Release(c) \/ ReleaseFails(c) \/ Read(c)
        PROVE  row' = row /\ holding' = holding /\ effect' = effect
    BY <1>2 DEF Acquire, TakeFence, Release, ReleaseFails, Read, database
  <1>3. ASSUME NEW c \in Clients, NEW a \in Ids(c),
               ReadHolding(c, a) \/ WriteHolding(c, a) \/ UpdateAccount(c, a)
        PROVE  row' = row /\ holding' = holding /\ effect' = effect
    BY <1>3 DEF ReadHolding, WriteHolding, UpdateAccount, database
  <1>4. ASSUME NEW c \in Clients, Commit(c)
        PROVE  Atomic!AtomicNext
    BY <1>4, CommitApplies DEF Atomic!AtomicNext
  <1>5. ASSUME NEW c \in Clients, Throws(c)
        PROVE  Atomic!AtomicNext
    BY <1>5, FailureFails DEF Throws, Rollback, Active, Atomic!AtomicNext
  <1>6. ASSUME NEW c \in Clients, NEW a \in Ids(c), Conflict(c, a)
        PROVE  Atomic!AtomicNext \/ (row' = row /\ holding' = holding /\ effect' = effect)
    <2>1. row' = row /\ holding' = holding /\ pc[c] \in Active /\ (GivesUp(c) \/ effect' = effect)
      BY <1>6 DEF Conflict, Rollback, Updates, Active
    <2>2. QED
      BY <2>1, FailureFails DEF Atomic!AtomicNext
  <1>7. ASSUME NEW a \in AccountIds, Expire(a)
        PROVE  row' = row /\ holding' = holding /\ effect' = effect
    BY <1>7 DEF Expire, database
  <1>8. CASE UNCHANGED lockVars
    BY <1>1, <1>8 DEF lockVars, database
  <1>9. QED
    BY <1>1, <1>2, <1>3, <1>4, <1>5, <1>6, <1>7, <1>8 DEF LockNext

\* In every strategy withAccountLock is atomic: the steps of the invocations, in
\* any order, with their conflicts, retries, failures and locks that expire, do
\* to the accounts what the invocations do one after the other.
THEOREM AccountLockIsAtomic ==
    ASSUME NobodyStalls
    PROVE  LockSpec => IsAtomic
  <1>1. AtomicInv /\ [LockNext]_lockVars => AtomicInv'
    BY AtomicInvStep
  <1>2. AtomicInv /\ [LockNext]_lockVars => [Atomic!AtomicNext]_<<Bars, effect>>
    BY AtomicStep
  <1>3. QED
    BY InitAtomicInv, InitAtomic, <1>1, <1>2, PTL DEF LockSpec, IsAtomic, Atomic!AtomicSpec, Bars
=============================================================================
