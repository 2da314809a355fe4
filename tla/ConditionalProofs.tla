------------------------- MODULE ConditionalProofs -------------------------
(***************************************************************************)
(* Proofs about conditional orders and brackets, for any rows, pairs,      *)
(* prices and numbers of instances, with every loss and crash of the       *)
(* models, as often as one likes.                                          *)
(*                                                                         *)
(* A row places one order at most: the invariant follows the claim.  A     *)
(* handler that has won the row works alone on it, the row is TRIGGERED as *)
(* long as it does, and until it has placed the order nobody has.          *)
(* Indexes, ticks, reloads and trailing updates never matter: whatever     *)
(* they contain, they only lead to claims.                                 *)
(*                                                                         *)
(* A trail never goes back: an index holds created rows only, every reload *)
(* keeps the further of two watermarks, and a registration inserts rows    *)
(* that are new.                                                           *)
(*                                                                         *)
(* A bracket protects once: while nothing fails one instance at most is    *)
(* between its claim and its record, and the intent is ARMED as long.      *)
(***************************************************************************)
EXTENDS Brackets, Lemmas

----------------------------------------------------------------------------
IsRow(r) == r = [status |-> r.status, trigger |-> r.trigger, water |-> r.water, qty |-> r.qty]

IsJob(j) == /\ j = [api |-> j.api, stage |-> j.stage, row |-> j.row, qty |-> j.qty]
            /\ j.row \in Rows

IsOrder(o) == o = [row |-> o.row, qty |-> o.qty, left |-> o.left]

\* Handlers that go on after they have won the row, and those that have not
\* placed its order.
Working(j) == j.stage \in {"siblings", "room", "place", "placed", "refused"}
BeforeOrder(j) == j.stage \in {"siblings", "room", "place", "refused"}

RowsAreSound == row = [c \in Rows |-> row[c]] /\ \A c \in Rows : IsRow(row[c])
JobsAreSound == \A j \in jobs : IsJob(j)
SentIsSound == /\ \E S : sent \in Seq(S)
               /\ \A i \in DOMAIN sent : IsOrder(sent[i])

WorkersHaveTriggered == \A j \in jobs : Working(j) => row[j.row].status = "TRIGGERED"

OneWorker == \A j, k \in jobs : Working(j) /\ Working(k) /\ j.row = k.row => j = k

NotPlacedBefore ==
    \A j \in jobs : BeforeOrder(j) => \A i \in DOMAIN sent : sent[i].row # j.row

\* A registration inserts rows that are new, and no other inserts them.
CreatesAreNew ==
    \A j \in jobs : j.stage = "create" =>
        /\ \A c \in Legs(Terms[j.row].group) : row[c].status = "NONE"
        /\ \A k \in jobs : k.stage = "create" /\ k.row \in Legs(Terms[j.row].group) => k = j

ClaimInv ==
    /\ RowsAreSound /\ JobsAreSound /\ SentIsSound
    /\ WorkersHaveTriggered /\ OneWorker /\ NotPlacedBefore /\ CreatesAreNew
    /\ ClaimedRowsPlaceOnce

LEMMA InitClaimInv == CondInit => ClaimInv
  <1> SUFFICES ASSUME CondInit
               PROVE  ClaimInv
    OBVIOUS
  <1>1. jobs = {} /\ sent = <<>> /\ row = [c \in Rows |-> NoRow]
    BY DEF CondInit
  <1>2. RowsAreSound
    BY <1>1 DEF RowsAreSound, IsRow, NoRow
  <1>3. SentIsSound
    BY <1>1 DEF SentIsSound
  <1>4. QED
    BY <1>1, <1>2, <1>3 DEF ClaimInv, JobsAreSound, WorkersHaveTriggered, OneWorker,
                            NotPlacedBefore, CreatesAreNew, ClaimedRowsPlaceOnce

----------------------------------------------------------------------------
\* Steps that only cancel rows that wait, end handlers, or start handlers that
\* have won nothing.
QuietRows == \A c \in Rows : \/ row'[c].status = row[c].status
                             \/ row[c].status = "WAITING" /\ row'[c].status = "CANCELED"

QuietJobs == \A j \in jobs' : j \in jobs \/ (IsJob(j) /\ j.stage \in {"claim", "cancelOther"})

LEMMA QuietStep ==
    ASSUME ClaimInv, RowsAreSound', QuietRows, QuietJobs, sent' = sent
    PROVE  ClaimInv'
  <1>1. JobsAreSound'
    BY DEF ClaimInv, JobsAreSound, QuietJobs
  <1>2. \A j \in jobs' : (Working(j) \/ j.stage = "create") => j \in jobs
    BY DEF QuietJobs, Working
  <1>3. \A j \in jobs : j.row \in Rows
    BY DEF ClaimInv, JobsAreSound, IsJob
  <1>4. WorkersHaveTriggered'
    BY <1>2, <1>3 DEF ClaimInv, WorkersHaveTriggered, QuietRows
  <1>5. OneWorker'
    BY <1>2 DEF ClaimInv, OneWorker
  <1>6. NotPlacedBefore'
    BY <1>2 DEF ClaimInv, NotPlacedBefore, Working, BeforeOrder
  <1>7. CreatesAreNew'
    BY <1>2 DEF ClaimInv, CreatesAreNew, QuietRows, Legs
  <1>8. ClaimedRowsPlaceOnce' /\ SentIsSound'
    BY DEF ClaimInv, ClaimedRowsPlaceOnce, SentIsSound, QuietRows
  <1>9. QED
    BY <1>1, <1>4, <1>5, <1>6, <1>7, <1>8 DEF ClaimInv

\* Where the rows do not change at all.
LEMMA QuietJobsStep ==
    ASSUME ClaimInv, row' = row, QuietJobs, sent' = sent
    PROVE  ClaimInv'
  <1>1. RowsAreSound' /\ QuietRows
    BY DEF ClaimInv, RowsAreSound, QuietRows
  <1>2. QED
    BY <1>1, QuietStep

LEMMA CanceledRows ==
    ASSUME ClaimInv, NEW cs, row' = CanceledIfWaiting(cs)
    PROVE  RowsAreSound' /\ QuietRows
  <1>1. ASSUME NEW c \in Rows
        PROVE  /\ IsRow(row'[c])
               /\ \/ row'[c].status = row[c].status
                  \/ row[c].status = "WAITING" /\ row'[c].status = "CANCELED"
    <2>1. IsRow(row[c])
      BY DEF ClaimInv, RowsAreSound
    <2>2. \/ row'[c] = row[c]
          \/ row[c].status = "WAITING" /\ row'[c] = [row[c] EXCEPT !.status = "CANCELED"]
      BY DEF CanceledIfWaiting
    <2>3. [row[c] EXCEPT !.status = "CANCELED"]
            = [status |-> "CANCELED", trigger |-> row[c].trigger, water |-> row[c].water,
               qty |-> row[c].qty]
      BY <2>1 DEF IsRow
    <2>4. QED
      BY <2>1, <2>2, <2>3 DEF IsRow
  <1>2. row' = [c \in Rows |-> row'[c]]
    BY DEF CanceledIfWaiting
  <1>3. QED
    BY <1>1, <1>2 DEF RowsAreSound, QuietRows

\* Ticks start claims, and nothing else.
LEMMA OnTickJobs ==
    ASSUME ClaimInv, NEW p, NEW index, NEW x, OnTick(p, index, x), DOMAIN index \subseteq Rows
    PROVE  QuietJobs
  <1>1. PICK met \in SUBSET DOMAIN index :
            jobs' = jobs \cup {[api |-> p, stage |-> "claim", row |-> c, qty |-> 0] : c \in met}
    BY DEF OnTick
  <1>2. QED
    BY <1>1 DEF QuietJobs, IsJob

----------------------------------------------------------------------------
\* The indexes, and what was read for them, contain rows.
IndexInv == /\ DOMAIN reload = Instances
            /\ \A p \in Instances : /\ DOMAIN waiting[p] \subseteq Rows
                                    /\ DOMAIN reload[p].rows \subseteq Rows

LEMMA InitIndexInv == CondInit => IndexInv
  <1> SUFFICES ASSUME CondInit
               PROVE  IndexInv
    OBVIOUS
  <1>1. PICK instances \in SUBSET Apis :
            /\ waiting = [p \in instances |-> <<>>]
            /\ reload = [p \in instances |-> [stage |-> "idle", rows |-> <<>>]]
    BY DEF CondInit
  <1>2. QED
    BY <1>1 DEF IndexInv, Instances

\* An instance that gets a new index of rows.
LEMMA NewIndex ==
    ASSUME IndexInv, NEW p, NEW index, waiting' = [waiting EXCEPT ![p] = index],
           p \in Instances => DOMAIN index \subseteq Rows, reload' = reload
    PROVE  IndexInv'
  BY DEF IndexInv, Instances

LEMMA OnTickIndex ==
    ASSUME NEW p, NEW index, NEW x, OnTick(p, index, x)
    PROVE  \E new : /\ waiting' = [waiting EXCEPT ![p] = new]
                    /\ DOMAIN new \subseteq DOMAIN index
  <1> DEFINE moved == {c \in DOMAIN index : IsTrailing(c)
                                            /\ AdvancesWatermark(Terms[c].side, index[c], x)}
             met   == {c \in DOMAIN index \ moved : MetAt(c, index[c], x)}
             new   == [c \in DOMAIN index \ met |-> IF c \in moved THEN x ELSE index[c]]
  <1>1. waiting' = [waiting EXCEPT ![p] = new]
    BY DEF OnTick
  <1>2. DOMAIN new \subseteq DOMAIN index
    OBVIOUS
  <1> HIDE DEF new
  <1>3. QED
    BY <1>1, <1>2

LEMMA JobIndexInv ==
    ASSUME IndexInv, ClaimInv, NEW j \in jobs, Job(j)
    PROVE  IndexInv'
  <1>1. CASE waiting' = waiting /\ reload' = reload
    BY <1>1 DEF IndexInv, Instances
  <1>2. CASE Create(j)
    <2> DEFINE legs == Legs(Terms[j.row].group)
               newRow == [c \in legs |-> [status |-> "WAITING", trigger |-> Terms[c].trigger,
                                         water |-> IF IsTrailing(c) THEN j.qty ELSE 0,
                                         qty |-> Terms[c].qty]]
               index == [c \in DOMAIN waiting[j.api] \cup legs |->
                            IF c \in legs THEN newRow[c].water ELSE waiting[j.api][c]]
    <2>1. waiting' = [waiting EXCEPT ![j.api] = index] /\ reload' = reload
      BY <1>2 DEF Create, CreateRows
    <2>2. j.api \in Instances => DOMAIN index \subseteq Rows
      BY DEF IndexInv, Legs
    <2> HIDE DEF index
    <2>3. QED
      BY <2>1, <2>2, NewIndex
  <1>3. CASE CancelSiblings(j)
    <2> DEFINE cs == {c \in Siblings(j.row) : row[c].status = "WAITING"}
    <2>1. waiting' = [waiting EXCEPT ![j.api] = Without(j.api, cs)] /\ reload' = reload
      BY <1>3 DEF CancelSiblings
    <2>2. j.api \in Instances => DOMAIN Without(j.api, cs) \subseteq Rows
      BY DEF IndexInv, Without
    <2> HIDE DEF cs
    <2>3. QED
      BY <2>1, <2>2, NewIndex
  <1>4. QED
    BY <1>1, <1>2, <1>3 DEF Job, Claim, FindRoom, PlaceTriggered, RecordOutcome, memory

LEMMA ApiIndexInv ==
    ASSUME IndexInv, NEW p \in Instances, Api(p)
    PROVE  IndexInv'
  <1>1. CASE HearTrade(p)
    <2>1. CASE waiting' = waiting /\ reload' = reload
      BY <2>1 DEF IndexInv, Instances
    <2>2. CASE OnTick(p, waiting[p], Head(inbox[p])) /\ reload' = reload
      BY <2>2, OnTickIndex, NewIndex DEF IndexInv
    <2>3. QED
      BY <1>1, <2>1, <2>2 DEF HearTrade
  <1>2. CASE ReloadRead(p)
    BY <1>2 DEF ReloadRead, IndexInv, Instances, RowsToIndex
  <1>3. CASE ReloadInstall(p)
    <2> DEFINE orphans == IF future /\ held = 0 THEN DOMAIN reload[p].rows ELSE {}
               index == [c \in DOMAIN reload[p].rows \ orphans |-> KeepWatermark(p, c)]
    <2>1. /\ reload' = [reload EXCEPT ![p] = [stage |-> "idle", rows |-> <<>>]]
          /\ \/ waiting' = [waiting EXCEPT ![p] = index]
             \/ OnTick(p, index, price)
      BY <1>3 DEF ReloadInstall
    <2>2. DOMAIN index \subseteq Rows
      BY DEF IndexInv
    <2> HIDE DEF index
    <2>3. \E new : waiting' = [waiting EXCEPT ![p] = new] /\ DOMAIN new \subseteq Rows
      BY <2>1, <2>2, OnTickIndex
    <2>4. QED
      BY <2>1, <2>3 DEF IndexInv, Instances
  <1>4. QED
    BY <1>1, <1>2, <1>3 DEF Api

LEMMA IndexInvStep ==
    ASSUME IndexInv, ClaimInv, [CondNext]_condVars
    PROVE  IndexInv'
  <1>1. CASE waiting' = waiting /\ reload' = reload
    BY <1>1 DEF IndexInv, Instances
  <1>2. ASSUME NEW p \in Instances, NEW g \in Groups, Register(p, g)
        PROVE  IndexInv'
    BY <1>1, <1>2 DEF Register, memory
  <1>3. ASSUME NEW p \in Instances, NEW c \in Rows, Cancel(p, c)
        PROVE  IndexInv'
    <2>1. waiting' = [waiting EXCEPT ![p] = Without(p, {c})] /\ reload' = reload
      BY <1>3 DEF Cancel
    <2>2. DOMAIN Without(p, {c}) \subseteq Rows
      BY DEF IndexInv, Without
    <2>3. QED
      BY <2>1, <2>2, NewIndex
  <1>4. CASE CondSystem
    <2>1. ASSUME NEW w \in writes, PersistTrail(w) PROVE IndexInv'
      BY <1>1, <2>1 DEF PersistTrail, memory
    <2>2. QED
      BY <1>4, <2>1, JobIndexInv, ApiIndexInv DEF CondSystem
  <1>5. CASE CondWorld
    <2>1. ASSUME NEW x, Trade(x) PROVE IndexInv'
      BY <1>1, <2>1 DEF Trade
    <2>2. ASSUME NEW i, NEW n, EndOrder(i, n) PROVE IndexInv'
      BY <1>1, <2>2 DEF EndOrder, memory
    <2>3. BeginMaintenance \/ EndMaintenance => IndexInv'
      BY <1>1 DEF BeginMaintenance, EndMaintenance, memory
    <2>4. QED
      BY <1>5, <2>1, <2>2, <2>3 DEF CondWorld
  <1>6. CASE CondFaults
    <2>1. ASSUME NEW p \in Instances, Crash(p) PROVE IndexInv'
      BY <2>1 DEF Crash, IndexInv, Instances
    <2>2. ASSUME NEW p, LoseTick(p) PROVE IndexInv'
      BY <1>1, <2>2 DEF LoseTick
    <2>3. ASSUME NEW w, LoseWrite(w) PROVE IndexInv'
      BY <1>1, <2>3 DEF LoseWrite, memory
    <2>4. ASSUME NEW j, LoseResult(j) PROVE IndexInv'
      BY <1>1, <2>4 DEF LoseResult, memory
    <2>5. PositionGone => IndexInv'
      BY <1>1 DEF PositionGone, memory
    <2>6. QED
      BY <1>6, <2>1, <2>2, <2>3, <2>4, <2>5 DEF CondFaults, Losses
  <1>7. CASE UNCHANGED condVars
    BY <1>1, <1>7 DEF condVars
  <1>8. QED
    BY <1>2, <1>3, <1>4, <1>5, <1>6, <1>7 DEF CondNext

----------------------------------------------------------------------------
\* The steps of a handler.
LEMMA CreateClaimInv ==
    ASSUME ClaimInv, NEW j \in jobs, Create(j)
    PROVE  ClaimInv'
  <1> DEFINE legs == Legs(Terms[j.row].group)
             fresh == [c \in legs |-> [status |-> "WAITING", trigger |-> Terms[c].trigger,
                                      water |-> IF IsTrailing(c) THEN j.qty ELSE 0,
                                      qty |-> Terms[c].qty]]
  <1>1. /\ j.stage = "create" /\ jobs' = jobs \ {j} /\ sent' = sent
        /\ row' = [c \in Rows |-> IF c \in legs THEN fresh[c] ELSE row[c]]
    BY DEF Create, CreateRows
  <1>2. /\ \A c \in legs : row[c].status = "NONE" /\ IsRow(fresh[c])
        /\ \A k \in jobs : k.stage = "create" /\ k.row \in legs => k = j
    BY <1>1 DEF ClaimInv, CreatesAreNew, IsRow
  <1>3. \A k \in jobs : k.row \in Rows
    BY DEF ClaimInv, JobsAreSound, IsJob
  <1> HIDE DEF legs, fresh
  <1>4. RowsAreSound' /\ JobsAreSound' /\ SentIsSound'
    BY <1>1, <1>2 DEF ClaimInv, RowsAreSound, JobsAreSound, SentIsSound
  <1>5. WorkersHaveTriggered' /\ OneWorker' /\ NotPlacedBefore' /\ ClaimedRowsPlaceOnce'
    BY <1>1, <1>2, <1>3 DEF ClaimInv, WorkersHaveTriggered, OneWorker, NotPlacedBefore,
                            ClaimedRowsPlaceOnce
  <1>6. ASSUME NEW k \in jobs', k.stage = "create"
        PROVE  /\ \A c \in Legs(Terms[k.row].group) : row'[c].status = "NONE"
               /\ \A l \in jobs' : l.stage = "create" /\ l.row \in Legs(Terms[k.row].group) => l = k
    <2>1. ASSUME NEW c \in Legs(Terms[k.row].group) PROVE c \notin legs
      <3>1. SUFFICES ASSUME c \in legs PROVE FALSE
        OBVIOUS
      <3>2. Terms[k.row].group = Terms[j.row].group /\ k.row \in legs
        BY <1>3, <1>6, <1>1, <3>1 DEF Legs, legs
      <3>3. QED
        BY <1>1, <1>2, <1>6, <3>2
    <2>2. QED
      BY <1>1, <1>6, <2>1 DEF ClaimInv, CreatesAreNew, Legs
  <1>7. QED
    BY <1>4, <1>5, <1>6 DEF ClaimInv, CreatesAreNew

\* A handler goes on to the next stage.
Moved(j, stage) == [j EXCEPT !.stage = stage]
MovedWith(j, stage, qty) == [j EXCEPT !.stage = stage, !.qty = qty]

LEMMA NextStageJob ==
    ASSUME ClaimInv, NEW j \in jobs, NEW stage, NEW qty
    PROVE  /\ j.row \in Rows
           /\ IsJob(Moved(j, stage)) /\ IsJob(MovedWith(j, stage, qty))
           /\ Moved(j, stage).row = j.row /\ MovedWith(j, stage, qty).row = j.row
           /\ Moved(j, stage).stage = stage /\ MovedWith(j, stage, qty).stage = stage
  <1>1. IsJob(j)
    BY DEF ClaimInv, JobsAreSound
  <1>2. Moved(j, stage) = [api |-> j.api, stage |-> stage, row |-> j.row, qty |-> j.qty]
    BY <1>1 DEF Moved, IsJob
  <1>3. MovedWith(j, stage, qty) = [api |-> j.api, stage |-> stage, row |-> j.row, qty |-> qty]
    <2>1. /\ DOMAIN j = {"api", "stage", "row", "qty"}
          /\ j = [x \in {"api", "stage", "row", "qty"} |-> j[x]]
      BY <1>1 DEF IsJob
    <2>2. MovedWith(j, stage, qty)
            = [x \in {"api", "stage", "row", "qty"} |->
                  IF x = "qty" THEN qty ELSE IF x = "stage" THEN stage ELSE j[x]]
      BY <2>1 DEF MovedWith
    <2>3. QED
      BY <2>2
  <1>4. QED
    BY <1>1, <1>2, <1>3 DEF IsJob

\* A row takes another status.
LEMMA NewStatus ==
    ASSUME ClaimInv, NEW c \in Rows, NEW status, row' = [row EXCEPT ![c].status = status]
    PROVE  /\ RowsAreSound'
           /\ row'[c].status = status
           /\ \A d \in Rows \ {c} : row'[d] = row[d]
  <1>1. row = [d \in Rows |-> row[d]] /\ \A d \in Rows : IsRow(row[d])
    BY DEF ClaimInv, RowsAreSound
  <1>2. row'[c] = [row[c] EXCEPT !.status = status] /\ \A d \in Rows \ {c} : row'[d] = row[d]
    BY <1>1
  <1>3. row'[c] = [status |-> status, trigger |-> row[c].trigger, water |-> row[c].water,
                   qty |-> row[c].qty]
    BY <1>1, <1>2 DEF IsRow
  <1>4. row' = [d \in Rows |-> row'[d]]
    BY <1>1
  <1>5. QED
    BY <1>1, <1>2, <1>3, <1>4 DEF RowsAreSound, IsRow

LEMMA ClaimClaimInv ==
    ASSUME ClaimInv, NEW j \in jobs, Claim(j)
    PROVE  ClaimInv'
  <1>1. CASE ~Claimable(j)
    <2>1. jobs' = jobs \ {j} /\ row' = row /\ sent' = sent
      BY <1>1 DEF Claim
    <2>2. QED
      BY <2>1, QuietJobsStep DEF QuietJobs
  <1>2. CASE Claimable(j)
    <2> DEFINE k == MovedWith(j, AfterClaim(j.row), row[j.row].qty)
    <2>1. /\ row[j.row].status = "WAITING" /\ sent' = sent
          /\ row' = [row EXCEPT ![j.row].status = "TRIGGERED"]
          /\ jobs' = (jobs \ {j}) \cup {k}
      BY <1>2 DEF Claim, Claimable, MovedWith
    <2>2. AfterClaim(j.row) \in {"siblings", "room", "place"}
      BY DEF AfterClaim, Room
    <2>3. j.row \in Rows /\ IsJob(k) /\ k.row = j.row /\ k.stage = AfterClaim(j.row)
      BY NextStageJob
    <2> HIDE DEF k
    <2>4. /\ RowsAreSound'
          /\ row'[j.row].status = "TRIGGERED"
          /\ \A d \in Rows \ {j.row} : row'[d] = row[d]
      BY <2>1, <2>3, NewStatus
    <2>5. /\ \A l \in jobs : Working(l) => l.row # j.row
          /\ \A i \in DOMAIN sent : sent[i].row # j.row
          /\ \A l \in jobs : l.row \in Rows
      BY <2>1, <2>3 DEF ClaimInv, WorkersHaveTriggered, ClaimedRowsPlaceOnce, JobsAreSound, IsJob
    <2>6. JobsAreSound' /\ SentIsSound'
      BY <2>1, <2>3 DEF ClaimInv, JobsAreSound, SentIsSound
    <2>7. WorkersHaveTriggered' /\ OneWorker'
      BY <2>1, <2>3, <2>4, <2>5 DEF ClaimInv, WorkersHaveTriggered, OneWorker
    <2>8. NotPlacedBefore'
      BY <2>1, <2>3, <2>5 DEF ClaimInv, NotPlacedBefore
    <2>9. CreatesAreNew'
      BY <2>1, <2>2, <2>3, <2>4 DEF ClaimInv, CreatesAreNew, Legs
    <2>10. ClaimedRowsPlaceOnce'
      BY <2>1, <2>4, <2>5 DEF ClaimInv, ClaimedRowsPlaceOnce
    <2>11. QED
      BY <2>4, <2>6, <2>7, <2>8, <2>9, <2>10 DEF ClaimInv
  <1>3. QED
    BY <1>1, <1>2

\* A handler that keeps its row goes on to another stage before the order.
LEMMA StageClaimInv ==
    ASSUME ClaimInv, NEW j \in jobs, BeforeOrder(j), RowsAreSound', QuietRows, sent' = sent,
           NEW k, IsJob(k), k.row = j.row, BeforeOrder(k), jobs' = (jobs \ {j}) \cup {k}
    PROVE  ClaimInv'
  <1>1. \A l \in jobs : l.row \in Rows
    BY DEF ClaimInv, JobsAreSound, IsJob
  <1>2. Working(j) /\ Working(k) /\ k.stage # "create"
    BY DEF Working, BeforeOrder
  <1>3. JobsAreSound' /\ SentIsSound'
    BY DEF ClaimInv, JobsAreSound, SentIsSound
  <1>4. WorkersHaveTriggered'
    BY <1>1, <1>2 DEF ClaimInv, WorkersHaveTriggered, QuietRows
  <1>5. OneWorker'
    BY <1>2 DEF ClaimInv, OneWorker
  <1>6. NotPlacedBefore'
    BY DEF ClaimInv, NotPlacedBefore
  <1>7. CreatesAreNew'
    BY <1>2 DEF ClaimInv, CreatesAreNew, QuietRows, Legs
  <1>8. ClaimedRowsPlaceOnce'
    BY DEF ClaimInv, ClaimedRowsPlaceOnce, QuietRows
  <1>9. QED
    BY <1>3, <1>4, <1>5, <1>6, <1>7, <1>8 DEF ClaimInv

\* The row ends without an order, and its handler with it.
LEMMA GivenUpClaimInv ==
    ASSUME ClaimInv, NEW j \in jobs, BeforeOrder(j), NEW status \in {"CANCELED", "FAILED"},
           row' = [row EXCEPT ![j.row].status = status], jobs' = jobs \ {j}, sent' = sent
    PROVE  ClaimInv'
  <1>1. j.row \in Rows /\ \A l \in jobs : l.row \in Rows
    BY DEF ClaimInv, JobsAreSound, IsJob
  <1>2. /\ RowsAreSound'
        /\ \A d \in Rows \ {j.row} : row'[d] = row[d]
        /\ row'[j.row].status = status
    BY <1>1, NewStatus
  <1>3. /\ Working(j) /\ row[j.row].status = "TRIGGERED"
        /\ \A l \in jobs' : Working(l) => l.row # j.row
        /\ \A i \in DOMAIN sent : sent[i].row # j.row
    BY DEF ClaimInv, Working, BeforeOrder, WorkersHaveTriggered, OneWorker, NotPlacedBefore
  <1>4. JobsAreSound' /\ SentIsSound' /\ OneWorker' /\ NotPlacedBefore'
    BY DEF ClaimInv, JobsAreSound, SentIsSound, OneWorker, NotPlacedBefore
  <1>5. WorkersHaveTriggered'
    BY <1>1, <1>2, <1>3 DEF ClaimInv, WorkersHaveTriggered
  <1>6. CreatesAreNew'
    <2>1. \A c \in Rows : row[c].status = "NONE" => row'[c].status = "NONE"
      BY <1>2, <1>3
    <2>2. QED
      BY <2>1 DEF ClaimInv, CreatesAreNew, Legs
  <1>7. ClaimedRowsPlaceOnce'
    BY <1>2, <1>3 DEF ClaimInv, ClaimedRowsPlaceOnce
  <1>8. QED
    BY <1>2, <1>4, <1>5, <1>6, <1>7 DEF ClaimInv

LEMMA CancelSiblingsClaimInv ==
    ASSUME ClaimInv, NEW j \in jobs, CancelSiblings(j)
    PROVE  ClaimInv'
  <1>1. /\ row' = CanceledIfWaiting(Siblings(j.row)) /\ sent' = sent
        /\ RowsAreSound' /\ QuietRows
    BY CanceledRows DEF CancelSiblings
  <1>2. CASE j.stage = "siblings"
    <2>1. jobs' = (jobs \ {j}) \cup {Moved(j, Room)}
      BY <1>2 DEF CancelSiblings, Moved
    <2>2. BeforeOrder(j) /\ BeforeOrder(Moved(j, Room))
      BY <1>2, NextStageJob DEF BeforeOrder, Room
    <2>3. QED
      BY <1>1, <2>1, <2>2, NextStageJob, StageClaimInv
  <1>3. CASE j.stage # "siblings"
    <2>1. QuietJobs
      BY <1>3 DEF CancelSiblings, QuietJobs
    <2>2. QED
      BY <1>1, <2>1, QuietStep
  <1>4. QED
    BY <1>2, <1>3

LEMMA FindRoomClaimInv ==
    ASSUME ClaimInv, NEW j \in jobs, FindRoom(j)
    PROVE  ClaimInv'
  <1>1. j.stage = "room" /\ BeforeOrder(j) /\ sent' = sent
    BY DEF FindRoom, BeforeOrder
  <1>2. CASE Closable = 0
    BY <1>1, <1>2, GivenUpClaimInv DEF FindRoom
  <1>3. CASE Closable # 0
    <2> DEFINE k == MovedWith(j, "place", Smaller(row[j.row].qty, Closable))
    <2>1. jobs' = (jobs \ {j}) \cup {k} /\ row' = row
      BY <1>3 DEF FindRoom, MovedWith
    <2>2. IsJob(k) /\ k.row = j.row /\ BeforeOrder(k)
      BY NextStageJob DEF BeforeOrder
    <2>3. RowsAreSound' /\ QuietRows
      BY <2>1 DEF ClaimInv, RowsAreSound, QuietRows
    <2> HIDE DEF k
    <2>4. QED
      BY <1>1, <2>1, <2>2, <2>3, StageClaimInv
  <1>4. QED
    BY <1>2, <1>3

\* One more order at the end of those that were sent.
LEMMA SentOneMore ==
    ASSUME SentIsSound, NEW c, NEW qty,
           sent' = Append(sent, [row |-> c, qty |-> qty, left |-> qty])
    PROVE  /\ SentIsSound'
           /\ DOMAIN sent' = DOMAIN sent \cup {Len(sent) + 1}
           /\ Len(sent) + 1 \notin DOMAIN sent
           /\ sent'[Len(sent) + 1].row = c
           /\ \A i \in DOMAIN sent : sent'[i] = sent[i]
  <1> DEFINE o == [row |-> c, qty |-> qty, left |-> qty]
  <1>1. PICK S : sent \in Seq(S)
    BY DEF SentIsSound
  <1>2. o.row = c /\ IsOrder(o)
    BY DEF IsOrder
  <1> HIDE DEF o
  <1>3. /\ sent \in Seq(S \cup {o})
        /\ sent' = Append(sent, o)
    BY <1>1 DEF o
  <1>4. /\ sent' \in Seq(S \cup {o})
        /\ Len(sent) \in Nat /\ DOMAIN sent = 1..Len(sent) /\ DOMAIN sent' = 1..(Len(sent) + 1)
        /\ sent'[Len(sent) + 1] = o
        /\ \A i \in DOMAIN sent : sent'[i] = sent[i]
    BY <1>3
  <1>5. QED
    BY <1>2, <1>4 DEF SentIsSound

LEMMA PlaceTriggeredClaimInv ==
    ASSUME ClaimInv, NEW j \in jobs, PlaceTriggered(j)
    PROVE  ClaimInv'
  <1>1. j.stage = "place" /\ row' = row /\ BeforeOrder(j) /\ RowsAreSound' /\ QuietRows
    BY DEF PlaceTriggered, BeforeOrder, ClaimInv, RowsAreSound, QuietRows
  <1>2. CASE j.qty <= held - Reserved
    <2> DEFINE k == Moved(j, "placed")
               new == Len(sent) + 1
    <2>1. /\ jobs' = (jobs \ {j}) \cup {k}
          /\ sent' = Append(sent, [row |-> j.row, qty |-> j.qty, left |-> j.qty])
      BY <1>2 DEF PlaceTriggered, Moved
    <2>2. /\ j.row \in Rows /\ IsJob(k) /\ k.row = j.row /\ k.stage = "placed"
      BY NextStageJob
    <2> HIDE DEF k
    <2>3. /\ SentIsSound'
          /\ DOMAIN sent' = DOMAIN sent \cup {new} /\ new \notin DOMAIN sent
          /\ sent'[new].row = j.row
          /\ \A i \in DOMAIN sent : sent'[i] = sent[i]
      BY <2>1, SentOneMore DEF ClaimInv
    <2> HIDE DEF new
    <2>4. /\ Working(j) /\ row[j.row].status = "TRIGGERED"
          /\ \A l \in jobs : Working(l) /\ l.row = j.row => l = j
          /\ \A i \in DOMAIN sent : sent[i].row # j.row
      BY <1>1 DEF ClaimInv, Working, BeforeOrder, WorkersHaveTriggered, OneWorker, NotPlacedBefore
    <2>5. JobsAreSound' /\ WorkersHaveTriggered'
      BY <1>1, <2>1, <2>2, <2>4 DEF ClaimInv, JobsAreSound, WorkersHaveTriggered
    <2>6. OneWorker'
      BY <2>1, <2>2, <2>4 DEF ClaimInv, OneWorker
    <2>7. NotPlacedBefore'
      <3>1. ASSUME NEW l \in jobs', BeforeOrder(l)
            PROVE  l \in jobs /\ l.row # j.row
        BY <2>1, <2>2, <2>4, <3>1 DEF BeforeOrder, Working
      <3>2. QED
        BY <2>3, <3>1 DEF ClaimInv, NotPlacedBefore
    <2>8. CreatesAreNew'
      BY <1>1, <2>1, <2>2 DEF ClaimInv, CreatesAreNew
    <2>9. ClaimedRowsPlaceOnce'
      BY <1>1, <2>3, <2>4 DEF ClaimInv, ClaimedRowsPlaceOnce
    <2>10. QED
      BY <1>1, <2>3, <2>5, <2>6, <2>7, <2>8, <2>9 DEF ClaimInv
  <1>3. CASE ~(j.qty <= held - Reserved)
    <2> DEFINE k == Moved(j, "refused")
    <2>1. jobs' = (jobs \ {j}) \cup {k} /\ sent' = sent
      BY <1>3 DEF PlaceTriggered, Moved
    <2>2. IsJob(k) /\ k.row = j.row /\ BeforeOrder(k)
      BY NextStageJob DEF BeforeOrder
    <2> HIDE DEF k
    <2>3. QED
      BY <1>1, <2>1, <2>2, StageClaimInv
  <1>4. QED
    BY <1>2, <1>3

LEMMA RecordOutcomeClaimInv ==
    ASSUME ClaimInv, NEW j \in jobs, RecordOutcome(j)
    PROVE  ClaimInv'
  <1>1. CASE j.stage = "refused"
    BY <1>1, GivenUpClaimInv DEF RecordOutcome, BeforeOrder
  <1>2. CASE j.stage # "refused"
    BY <1>2, QuietJobsStep DEF RecordOutcome, QuietJobs
  <1>3. QED
    BY <1>1, <1>2

LEMMA JobClaimInv ==
    ASSUME ClaimInv, NEW j \in jobs, Job(j)
    PROVE  ClaimInv'
  BY CreateClaimInv, ClaimClaimInv, CancelSiblingsClaimInv, FindRoomClaimInv,
     PlaceTriggeredClaimInv, RecordOutcomeClaimInv DEF Job

----------------------------------------------------------------------------
\* The other steps.
LEMMA RegisterClaimInv ==
    ASSUME ClaimInv, NEW p, NEW g \in Groups, Register(p, g)
    PROVE  ClaimInv'
  <1> DEFINE first == CHOOSE c \in Legs(g) : TRUE
             k == [api |-> p, stage |-> "create", row |-> first, qty |-> price]
  <1>1. /\ \A c \in Legs(g) : row[c].status = "NONE"
        /\ \A j \in jobs : j.stage = "create" => j.row \notin Legs(g)
        /\ jobs' = jobs \cup {k} /\ row' = row /\ sent' = sent
    BY DEF Register
  <1>2. first \in Legs(g)
    BY DEF Groups, Legs
  <1>3. /\ k.stage = "create" /\ k.row = first /\ IsJob(k)
        /\ first \in Rows /\ Terms[first].group = g
    BY <1>2 DEF Legs, IsJob
  <1> HIDE DEF first, k
  <1>4. Legs(Terms[k.row].group) = Legs(g)
    BY <1>3
  <1>5. RowsAreSound' /\ JobsAreSound' /\ SentIsSound' /\ ClaimedRowsPlaceOnce'
    BY <1>1, <1>3 DEF ClaimInv, RowsAreSound, JobsAreSound, SentIsSound, ClaimedRowsPlaceOnce
  <1>6. WorkersHaveTriggered' /\ OneWorker' /\ NotPlacedBefore'
    BY <1>1, <1>3 DEF ClaimInv, WorkersHaveTriggered, OneWorker, NotPlacedBefore, Working,
                      BeforeOrder
  <1>7. ASSUME NEW j \in jobs, j.stage = "create"
        PROVE  k.row \notin Legs(Terms[j.row].group)
    <2>1. j.row \in Rows /\ j.row \notin Legs(g)
      BY <1>1, <1>7 DEF ClaimInv, JobsAreSound, IsJob
    <2>2. QED
      BY <1>3, <2>1 DEF Legs
  <1>8. CreatesAreNew'
    BY <1>1, <1>2, <1>3, <1>4, <1>7 DEF ClaimInv, CreatesAreNew
  <1>9. QED
    BY <1>5, <1>6, <1>8 DEF ClaimInv

LEMMA CancelClaimInv ==
    ASSUME ClaimInv, NEW p, NEW c \in Rows, Cancel(p, c)
    PROVE  ClaimInv'
  <1>1. row' = CanceledIfWaiting({c}) /\ sent' = sent
    BY DEF Cancel
  <1>2. QuietJobs
    BY DEF Cancel, QuietJobs, IsJob
  <1>3. QED
    BY <1>1, <1>2, CanceledRows, QuietStep

LEMMA PersistTrailClaimInv ==
    ASSUME ClaimInv, NEW w, PersistTrail(w)
    PROVE  ClaimInv'
  <1>1. jobs' = jobs /\ sent' = sent
        /\ (row' = row \/ row' = [row EXCEPT ![w.row].water = w.water])
    BY DEF PersistTrail
  <1>2. ASSUME row' = [row EXCEPT ![w.row].water = w.water]
        PROVE  RowsAreSound' /\ QuietRows
    <2>1. row = [c \in Rows |-> row[c]] /\ \A c \in Rows : IsRow(row[c])
      BY DEF ClaimInv, RowsAreSound
    <2>2. ASSUME NEW c \in Rows
          PROVE  IsRow(row'[c]) /\ row'[c].status = row[c].status
      <3>1. row'[c] = row[c] \/ row'[c] = [row[c] EXCEPT !.water = w.water]
        BY <1>2, <2>1
      <3>2. [row[c] EXCEPT !.water = w.water]
              = [status |-> row[c].status, trigger |-> row[c].trigger, water |-> w.water,
                 qty |-> row[c].qty]
        BY <2>1 DEF IsRow
      <3>3. QED
        BY <2>1, <3>1, <3>2 DEF IsRow
    <2>3. row' = [c \in Rows |-> row'[c]]
      BY <1>2, <2>1
    <2>4. QED
      BY <2>2, <2>3 DEF RowsAreSound, QuietRows
  <1>3. QuietJobs
    BY <1>1 DEF QuietJobs
  <1>4. QED
    BY <1>1, <1>2, <1>3, QuietStep, QuietJobsStep

LEMMA ApiClaimInv ==
    ASSUME ClaimInv, IndexInv, NEW p \in Instances, Api(p)
    PROVE  ClaimInv'
  <1>1. CASE HearTrade(p)
    <2>1. row' = row /\ sent' = sent
      BY <1>1 DEF HearTrade
    <2>2. CASE jobs' = jobs
      BY <2>1, <2>2, QuietJobsStep DEF QuietJobs
    <2>3. CASE OnTick(p, waiting[p], Head(inbox[p]))
      <3>1. QuietJobs
        BY <2>3, OnTickJobs DEF IndexInv
      <3>2. QED
        BY <2>1, <3>1, QuietJobsStep
    <2>4. QED
      BY <1>1, <2>2, <2>3 DEF HearTrade
  <1>2. CASE ReloadRead(p)
    BY <1>2, QuietJobsStep DEF ReloadRead, QuietJobs
  <1>3. CASE ReloadInstall(p)
    <2> DEFINE orphans == IF future /\ held = 0 THEN DOMAIN reload[p].rows ELSE {}
               index == [c \in DOMAIN reload[p].rows \ orphans |-> KeepWatermark(p, c)]
    <2>1. /\ row' = CanceledIfWaiting(orphans) /\ sent' = sent
          /\ jobs' = jobs \/ OnTick(p, index, price)
      BY <1>3 DEF ReloadInstall
    <2>2. DOMAIN index \subseteq Rows
      BY DEF IndexInv
    <2> HIDE DEF index, orphans
    <2>3. QuietJobs
      BY <2>1, <2>2, OnTickJobs DEF QuietJobs
    <2>4. QED
      BY <2>1, <2>3, CanceledRows, QuietStep
  <1>4. QED
    BY <1>1, <1>2, <1>3 DEF Api

\* The end of an order leaves who has placed it.
LEMMA EndOrderClaimInv ==
    ASSUME ClaimInv, NEW i \in DOMAIN sent, NEW n, EndOrder(i, n)
    PROVE  ClaimInv'
  <1>1. /\ sent' = [sent EXCEPT ![i].left = 0] /\ row' = row /\ jobs' = jobs
    BY DEF EndOrder
  <1>2. PICK S : sent \in Seq(S)
    BY DEF ClaimInv, SentIsSound
  <1>3. \A k \in DOMAIN sent : IsOrder(sent[k])
    BY DEF ClaimInv, SentIsSound
  <1> DEFINE o == [sent[i] EXCEPT !.left = 0]
  <1>4. o = [row |-> sent[i].row, qty |-> sent[i].qty, left |-> 0]
    BY <1>3 DEF IsOrder
  <1>5. IsOrder(o) /\ o.row = sent[i].row
    BY <1>4 DEF IsOrder
  <1>6. sent \in Seq(S \cup {o}) /\ sent' = [sent EXCEPT ![i] = o]
    BY <1>1, <1>2
  <1> HIDE DEF o
  <1>7. sent' \in Seq(S \cup {o}) /\ DOMAIN sent' = DOMAIN sent
    BY <1>6
  <1>8. \A k \in DOMAIN sent : sent'[k] = IF k = i THEN o ELSE sent[k]
    BY <1>6
  <1>9. SentIsSound' /\ \A k \in DOMAIN sent : sent'[k].row = sent[k].row
    BY <1>3, <1>5, <1>7, <1>8 DEF SentIsSound
  <1>10. RowsAreSound' /\ JobsAreSound' /\ WorkersHaveTriggered' /\ OneWorker' /\ CreatesAreNew'
    BY <1>1 DEF ClaimInv, RowsAreSound, JobsAreSound, WorkersHaveTriggered, OneWorker,
                CreatesAreNew
  <1>11. NotPlacedBefore' /\ ClaimedRowsPlaceOnce'
    BY <1>1, <1>7, <1>9 DEF ClaimInv, NotPlacedBefore, ClaimedRowsPlaceOnce
  <1>12. QED
    BY <1>9, <1>10, <1>11 DEF ClaimInv

LEMMA FaultsClaimInv ==
    ASSUME ClaimInv, CondFaults
    PROVE  ClaimInv'
  <1>1. ASSUME NEW p, Crash(p) PROVE ClaimInv'
    BY <1>1, QuietJobsStep DEF Crash, QuietJobs
  <1>2. ASSUME NEW p, LoseTick(p) PROVE ClaimInv'
    BY <1>2, QuietJobsStep DEF LoseTick, QuietJobs
  <1>3. ASSUME NEW w, LoseWrite(w) PROVE ClaimInv'
    BY <1>3, QuietJobsStep DEF LoseWrite, QuietJobs
  <1>4. ASSUME NEW j, LoseResult(j) PROVE ClaimInv'
    BY <1>4, QuietJobsStep DEF LoseResult, QuietJobs
  <1>5. PositionGone => ClaimInv'
    BY QuietJobsStep DEF PositionGone, QuietJobs
  <1>6. QED
    BY <1>1, <1>2, <1>3, <1>4, <1>5 DEF CondFaults, Losses

LEMMA ClaimInvStep ==
    ASSUME ClaimInv, IndexInv, [CondNext]_condVars
    PROVE  ClaimInv'
  <1>1. CASE \E p \in Instances, g \in Groups : Register(p, g)
    BY <1>1, RegisterClaimInv
  <1>2. CASE \E p \in Instances, c \in Rows : Cancel(p, c)
    BY <1>2, CancelClaimInv
  <1>3. CASE CondSystem
    BY <1>3, JobClaimInv, PersistTrailClaimInv, ApiClaimInv DEF CondSystem
  <1>4. CASE CondWorld
    <2>1. ASSUME NEW x, Trade(x) PROVE ClaimInv'
      BY <2>1, QuietJobsStep DEF Trade, QuietJobs
    <2>2. ASSUME NEW i \in DOMAIN sent, NEW n, EndOrder(i, n) PROVE ClaimInv'
      BY <2>2, EndOrderClaimInv
    <2>3. BeginMaintenance \/ EndMaintenance => ClaimInv'
      BY QuietJobsStep DEF BeginMaintenance, EndMaintenance, QuietJobs
    <2>4. QED
      BY <1>4, <2>1, <2>2, <2>3 DEF CondWorld
  <1>5. CASE CondFaults
    BY <1>5, FaultsClaimInv
  <1>6. CASE UNCHANGED condVars
    BY <1>6, QuietJobsStep DEF condVars, QuietJobs
  <1>7. QED
    BY <1>1, <1>2, <1>3, <1>4, <1>5, <1>6 DEF CondNext

\* A conditional order places one order at most, and none once it is reported
\* as canceled or failed, for any number of instances that hear its price, index
\* it again, crash, and lose ticks and statements.
THEOREM RowsAlwaysPlaceOnce == CondSpec => []ClaimedRowsPlaceOnce
  <1>1. ClaimInv => ClaimedRowsPlaceOnce
    BY DEF ClaimInv
  <1>2. QED
    BY InitClaimInv, InitIndexInv, ClaimInvStep, IndexInvStep, <1>1, PTL DEF CondSpec

----------------------------------------------------------------------------
(***************************************************************************)
(* Types.  What an index holds, or has read, are rows that were created,   *)
(* with watermarks.                                                        *)
(***************************************************************************)
Statuses == {"NONE", "WAITING", "TRIGGERED", "CANCELED", "FAILED"}
RowRecs == [status : Statuses, trigger : Nat, water : Nat, qty : Nat]
JobRecs == [api : Apis, stage : JobStages, row : Rows, qty : Nat]
WriteRecs == [api : Apis, row : Rows, water : Nat]
SentRecs == [row : Rows \cup {"none"}, qty : Nat, left : Nat]

Created == {c \in Rows : row[c].status # "NONE"}
IsIndex(f, C) == DOMAIN f \subseteq C /\ \A c \in DOMAIN f : f[c] \in Nat

RowTI == row \in [Rows -> RowRecs]

MemTI ==
    /\ Instances \subseteq Apis
    /\ waiting = [p \in Instances |-> waiting[p]]
    /\ reload = [p \in Instances |-> reload[p]]
    /\ inbox \in [Instances -> Seq(Prices)]
    /\ \A p \in Instances : /\ reload[p].stage \in {"idle", "read"}
                            /\ IsIndex(waiting[p], Created) /\ IsIndex(reload[p].rows, Created)

JobTI == jobs \subseteq JobRecs /\ writes \subseteq WriteRecs

MarketTI ==
    /\ future \in BOOLEAN /\ price \in Prices /\ held \in Nat
    /\ maintenance \in {"before", "active", "over"}

SentTI == sent \in Seq(SentRecs)

CondTI == RowTI /\ MemTI /\ JobTI /\ MarketTI /\ SentTI

LEMMA CondTIImplies == CondTI => CondTypeOK
  BY DEF CondTI, RowTI, MemTI, JobTI, MarketTI, SentTI, CondTypeOK, RowRecs, JobRecs, WriteRecs,
         SentRecs, Statuses, IsIndex, Created

LEMMA InitCondTI == CondInit => CondTI
  <1> SUFFICES ASSUME CondInit PROVE CondTI
    OBVIOUS
  <1>1. RowTI
    BY DEF CondInit, RowTI, RowRecs, Statuses, NoRow
  <1>2. PICK instances \in SUBSET Apis :
            /\ waiting = [p \in instances |-> <<>>]
            /\ reload = [p \in instances |-> [stage |-> "idle", rows |-> <<>>]]
            /\ inbox = [p \in instances |-> <<>>]
    BY DEF CondInit
  <1>3. MemTI
    <2>1. IsIndex(<<>>, Created) /\ <<>> \in Seq(Prices)
      BY DEF IsIndex
    <2>2. Instances = instances
      BY <1>2 DEF Instances
    <2>3. \A p \in instances : waiting[p] = <<>> /\ inbox[p] = <<>>
                               /\ reload[p] = [stage |-> "idle", rows |-> <<>>]
      BY <1>2
    <2>4. QED
      BY <1>2, <2>1, <2>2, <2>3 DEF MemTI
  <1>4. JobTI /\ MarketTI /\ SentTI
    BY ConditionalAssumption DEF CondInit, JobTI, MarketTI, SentTI
  <1>5. QED
    BY <1>1, <1>3, <1>4 DEF CondTI

\* ----- the indexes
LEMMA MemKept ==
    ASSUME MemTI, Created \subseteq Created', UNCHANGED memory
    PROVE  MemTI'
  <1>1. waiting' = waiting /\ reload' = reload /\ inbox' = inbox /\ Instances' = Instances
    BY DEF memory, Instances
  <1>2. ASSUME NEW p \in Instances
        PROVE  IsIndex(waiting[p], Created') /\ IsIndex(reload[p].rows, Created')
    BY DEF MemTI, IsIndex
  <1>3. QED
    BY <1>1, <1>2 DEF MemTI

\* An instance has another index, has read one, or has other prices to hear.
LEMMA MemChanged ==
    ASSUME MemTI, Created \subseteq Created', NEW p \in Instances,
           NEW f, IsIndex(f, Created'), NEW g, IsIndex(g.rows, Created'),
           g.stage \in {"idle", "read"}, NEW h \in Seq(Prices),
           waiting' = [waiting EXCEPT ![p] = f], reload' = [reload EXCEPT ![p] = g],
           inbox' = [inbox EXCEPT ![p] = h]
    PROVE  MemTI'
  <1>1. /\ Instances' = Instances
        /\ waiting' = [q \in Instances |-> IF q = p THEN f ELSE waiting[q]]
        /\ reload' = [q \in Instances |-> IF q = p THEN g ELSE reload[q]]
        /\ inbox' \in [Instances -> Seq(Prices)]
    BY DEF MemTI, Instances
  <1>2. ASSUME NEW q \in Instances
        PROVE  /\ reload'[q].stage \in {"idle", "read"}
               /\ IsIndex(waiting'[q], Created') /\ IsIndex(reload'[q].rows, Created')
    <2>1. CASE q = p
      BY <1>1, <2>1
    <2>2. CASE q # p
      <3>1. IsIndex(waiting[q], Created') /\ IsIndex(reload[q].rows, Created')
        BY DEF MemTI, IsIndex
      <3>2. QED
        BY <1>1, <2>2, <3>1 DEF MemTI
    <2>3. QED
      BY <2>1, <2>2
  <1>3. QED
    BY <1>1, <1>2 DEF MemTI

\* The same, of the index alone.
LEMMA IndexChanged ==
    ASSUME MemTI, Created \subseteq Created', NEW p, NEW f, IsIndex(f, Created'),
           waiting' = [waiting EXCEPT ![p] = f], reload' = reload, inbox' = inbox
    PROVE  MemTI'
  <1>1. CASE p \in Instances
    <2>1. PICK g, h : g = reload[p] /\ h = inbox[p]
      OBVIOUS
    <2>2. /\ IsIndex(g.rows, Created') /\ g.stage \in {"idle", "read"} /\ h \in Seq(Prices)
          /\ reload' = [reload EXCEPT ![p] = g] /\ inbox' = [inbox EXCEPT ![p] = h]
      BY <1>1, <2>1 DEF MemTI, IsIndex
    <2>3. QED
      BY <1>1, <2>2, MemChanged
  <1>2. CASE p \notin Instances
    <2>1. waiting' = waiting
      BY <1>2 DEF MemTI
    <2>2. QED
      BY <2>1, MemKept DEF memory
  <1>3. QED
    BY <1>1, <1>2

\* ----- the rows
LEMMA StatusTI ==
    ASSUME RowTI, NEW c \in Rows, NEW status \in Statuses \ {"NONE"},
           row' = [row EXCEPT ![c].status = status]
    PROVE  RowTI' /\ Created \subseteq Created'
  BY DEF RowTI, RowRecs, Created, Statuses

LEMMA CanceledTI ==
    ASSUME RowTI, NEW cs, row' = CanceledIfWaiting(cs)
    PROVE  RowTI' /\ Created \subseteq Created'
  BY DEF RowTI, RowRecs, Created, Statuses, CanceledIfWaiting

LEMMA CreatedTI ==
    ASSUME RowTI, MemTI, NEW p, NEW legs \in SUBSET Rows, NEW newRow \in [legs -> RowRecs],
           \A c \in legs : newRow[c].status = "WAITING",
           CreateRows(p, legs, newRow), reload' = reload, inbox' = inbox
    PROVE  RowTI' /\ MemTI'
  <1>1. row' = [c \in Rows |-> IF c \in legs THEN newRow[c] ELSE row[c]]
    BY DEF CreateRows
  <1>2. RowTI' /\ Created \subseteq Created' /\ legs \subseteq Created'
    BY <1>1 DEF RowTI, Created
  <1>3. PICK f : /\ f = [c \in DOMAIN waiting[p] \cup legs |->
                            IF c \in legs THEN newRow[c].water ELSE waiting[p][c]]
                 /\ waiting' = [waiting EXCEPT ![p] = f]
    BY DEF CreateRows
  <1>4. CASE p \in Instances
    <2>1. IsIndex(waiting[p], Created)
      BY <1>4 DEF MemTI
    <2>2. \A c \in legs : newRow[c].water \in Nat
      BY DEF RowRecs
    <2>3. IsIndex(f, Created')
      BY <1>2, <1>3, <2>1, <2>2 DEF IsIndex
    <2>4. QED
      BY <1>2, <1>3, <2>3, IndexChanged
  <1>5. CASE p \notin Instances
    <2>1. waiting' = waiting
      BY <1>3, <1>5 DEF MemTI
    <2>2. QED
      BY <1>2, <2>1, MemKept DEF memory
  <1>6. QED
    BY <1>4, <1>5

\* ----- ticks
LEMMA OnTickTI ==
    ASSUME MemTI, JobTI, Created \subseteq Created', NEW p \in Instances,
           NEW index, IsIndex(index, Created'), NEW x \in Prices, OnTick(p, index, x)
    PROVE  /\ JobTI'
           /\ \E f : IsIndex(f, Created') /\ waiting' = [waiting EXCEPT ![p] = f]
  <1>1. PICK moved, met :
            /\ moved \subseteq DOMAIN index /\ met \subseteq DOMAIN index
            /\ waiting' = [waiting EXCEPT ![p] =
                   [c \in DOMAIN index \ met |-> IF c \in moved THEN x ELSE index[c]]]
            /\ writes' = writes \cup {[api |-> p, row |-> c, water |-> x] : c \in moved}
            /\ jobs' = jobs \cup {[api |-> p, stage |-> "claim", row |-> c, qty |-> 0] : c \in met}
    <2> DEFINE moved == {c \in DOMAIN index : IsTrailing(c)
                                              /\ AdvancesWatermark(Terms[c].side, index[c], x)}
               met   == {c \in DOMAIN index \ moved : MetAt(c, index[c], x)}
    <2>1. /\ moved \subseteq DOMAIN index /\ met \subseteq DOMAIN index
          /\ waiting' = [waiting EXCEPT ![p] =
                 [c \in DOMAIN index \ met |-> IF c \in moved THEN x ELSE index[c]]]
          /\ writes' = writes \cup {[api |-> p, row |-> c, water |-> x] : c \in moved}
          /\ jobs' = jobs \cup {[api |-> p, stage |-> "claim", row |-> c, qty |-> 0] : c \in met}
      BY DEF OnTick
    <2> HIDE DEF moved, met
    <2>2. QED
      BY <2>1
  <1>2. DOMAIN index \subseteq Rows /\ p \in Apis /\ x \in Nat
    BY ConditionalAssumption DEF IsIndex, MemTI, Created
  <1>3. JobTI'
    BY <1>1, <1>2 DEF JobTI, JobRecs, WriteRecs, JobStages
  <1>4. PICK f : /\ f = [c \in DOMAIN index \ met |-> IF c \in moved THEN x ELSE index[c]]
                 /\ waiting' = [waiting EXCEPT ![p] = f]
    BY <1>1
  <1>5. IsIndex(f, Created')
    BY <1>2, <1>4 DEF IsIndex
  <1>6. QED
    BY <1>3, <1>4, <1>5

\* ----- what is left to close
LEMMA ReservedIsNat ==
    ASSUME SentTI, held \in Nat
    PROVE  Reserved \in Nat /\ Closable \in Nat
  <1>1. PICK n \in Nat : DOMAIN sent = 1..n /\ \A i \in 1..n : sent[i] \in SentRecs
    BY DEF SentTI
  <1> DEFINE f == [i \in DOMAIN sent |-> sent[i].left]
  <1>2. DOMAIN f = 1..n /\ \A i \in 1..n : f[i] \in Nat
    BY <1>1 DEF SentRecs
  <1>3. IsFiniteSet(1..n)
    <2>1. 1 \in Int /\ n \in Int
      OBVIOUS
    <2>2. QED
      BY <2>1, FS_Interval
  <1>4. SumOver(f, 1..n) \in Nat
    <2> HIDE DEF f
    <2>1. QED
      BY <1>2, <1>3, SumNat
  <1>5. Reserved \in Nat
    BY <1>2, <1>4 DEF Reserved, Total
  <1>6. QED
    BY <1>5 DEF Closable, Larger

\* ----- the steps of a handler
LEMMA JobRecTI ==
    ASSUME JobTI, NEW j \in jobs, NEW stage \in JobStages, NEW qty \in Nat
    PROVE  /\ j.row \in Rows /\ j.api \in Apis /\ j.qty \in Nat
           /\ [j EXCEPT !.stage = stage] \in JobRecs
           /\ [j EXCEPT !.stage = stage, !.qty = qty] \in JobRecs
  BY DEF JobTI, JobRecs

LEMMA CreateTI ==
    ASSUME CondTI, NEW j \in jobs, Create(j)
    PROVE  CondTI'
  <1>1. PICK legs : legs = Legs(Terms[j.row].group) /\ legs \subseteq Rows
    BY DEF Legs
  <1>2. PICK newRow : /\ newRow = [c \in legs |-> [status |-> "WAITING", trigger |-> Terms[c].trigger,
                                       water |-> IF IsTrailing(c) THEN j.qty ELSE 0,
                                       qty |-> Terms[c].qty]]
                      /\ CreateRows(j.api, legs, newRow)
    BY <1>1 DEF Create
  <1>3. j.qty \in Nat
    BY DEF CondTI, JobTI, JobRecs
  <1>4. newRow \in [legs -> RowRecs] /\ \A c \in legs : newRow[c].status = "WAITING"
    <2>1. \A c \in legs : Terms[c].trigger \in Nat /\ Terms[c].qty \in Nat
      BY <1>1, ConditionalAssumption DEF RowTerms
    <2>2. QED
      BY <1>2, <1>3, <2>1 DEF RowRecs, Statuses
  <1>5. reload' = reload /\ inbox' = inbox /\ jobs' = jobs \ {j} /\ writes' = writes
        /\ sent' = sent /\ UNCHANGED market
    BY DEF Create
  <1>6. RowTI' /\ MemTI'
    BY <1>1, <1>2, <1>4, <1>5, CreatedTI DEF CondTI
  <1>7. QED
    BY <1>5, <1>6 DEF CondTI, JobTI, MarketTI, SentTI, market

LEMMA ClaimTI ==
    ASSUME CondTI, NEW j \in jobs, Claim(j)
    PROVE  CondTI'
  <1>1. UNCHANGED memory /\ UNCHANGED market /\ writes' = writes /\ sent' = sent
    BY DEF Claim
  <1>2. CASE Claimable(j)
    <2>1. j.row \in Rows /\ row[j.row].qty \in Nat /\ row' = [row EXCEPT ![j.row].status = "TRIGGERED"]
      BY <1>2 DEF Claim, CondTI, JobTI, JobRecs, RowTI, RowRecs
    <2>2. RowTI' /\ Created \subseteq Created'
      <3>1. RowTI /\ "TRIGGERED" \in Statuses \ {"NONE"}
        BY DEF CondTI, Statuses
      <3>2. QED
        BY <2>1, <3>1, StatusTI
    <2>3. PICK stage, k : /\ stage = AfterClaim(j.row)
                          /\ k = [j EXCEPT !.stage = stage, !.qty = row[j.row].qty]
                          /\ jobs' = (jobs \ {j}) \cup {k}
      BY <1>2 DEF Claim
    <2>4. stage \in JobStages
      BY <2>3 DEF AfterClaim, Room, JobStages
    <2>5. k \in JobRecs
      BY <2>1, <2>3, <2>4, JobRecTI DEF CondTI
    <2>6. JobTI'
      BY <1>1, <2>3, <2>5 DEF CondTI, JobTI
    <2>7. QED
      BY <1>1, <2>2, <2>6, MemKept DEF CondTI, MarketTI, SentTI, market
  <1>3. CASE ~Claimable(j)
    <2>1. row' = row /\ jobs' = jobs \ {j}
      BY <1>3 DEF Claim
    <2>2. RowTI' /\ Created \subseteq Created' /\ JobTI'
      BY <1>1, <2>1 DEF CondTI, RowTI, JobTI, Created
    <2>3. QED
      BY <1>1, <2>2, MemKept DEF CondTI, MarketTI, SentTI, market
  <1>4. QED
    BY <1>2, <1>3

LEMMA CancelSiblingsTI ==
    ASSUME CondTI, NEW j \in jobs, CancelSiblings(j)
    PROVE  CondTI'
  <1>1. UNCHANGED market /\ reload' = reload /\ inbox' = inbox /\ writes' = writes /\ sent' = sent
    BY DEF CancelSiblings
  <1>2. RowTI' /\ Created \subseteq Created'
    BY CanceledTI DEF CancelSiblings, CondTI
  <1>3. JobTI'
    <2>1. [j EXCEPT !.stage = Room] \in JobRecs
      <3>1. Room \in JobStages
        BY DEF Room, JobStages
      <3>2. QED
        BY <3>1, JobRecTI DEF CondTI
    <2>2. QED
      BY <1>1, <2>1 DEF CancelSiblings, CondTI, JobTI
  <1>4. MemTI'
    <2>1. PICK cs, f : /\ f = Without(j.api, cs) /\ waiting' = [waiting EXCEPT ![j.api] = f]
      BY DEF CancelSiblings
    <2>2. CASE j.api \in Instances
      <3>1. IsIndex(f, Created')
        BY <1>2, <2>1, <2>2 DEF Without, CondTI, MemTI, IsIndex
      <3>2. QED
        BY <1>1, <1>2, <2>1, <3>1, IndexChanged DEF CondTI
    <2>3. CASE j.api \notin Instances
      <3>1. waiting' = waiting
        BY <2>1, <2>3 DEF CondTI, MemTI
      <3>2. QED
        BY <1>1, <1>2, <3>1, MemKept DEF CondTI, memory
    <2>4. QED
      BY <2>2, <2>3
  <1>5. QED
    BY <1>1, <1>2, <1>3, <1>4 DEF CondTI, MarketTI, SentTI, market

LEMMA FindRoomTI ==
    ASSUME CondTI, NEW j \in jobs, FindRoom(j)
    PROVE  CondTI'
  <1>1. UNCHANGED memory /\ UNCHANGED market /\ writes' = writes /\ sent' = sent
    BY DEF FindRoom
  <1>2. CASE Closable = 0
    <2>1. j.row \in Rows /\ row' = [row EXCEPT ![j.row].status = "CANCELED"] /\ jobs' = jobs \ {j}
      BY <1>2 DEF FindRoom, CondTI, JobTI, JobRecs
    <2>2. RowTI' /\ Created \subseteq Created'
      <3>1. RowTI /\ "CANCELED" \in Statuses \ {"NONE"}
        BY DEF CondTI, Statuses
      <3>2. QED
        BY <2>1, <3>1, StatusTI
    <2>3. QED
      BY <1>1, <2>1, <2>2, MemKept DEF CondTI, JobTI, MarketTI, SentTI, market
  <1>3. CASE Closable # 0
    <2>1. PICK qty, k : /\ qty = Smaller(row[j.row].qty, Closable)
                        /\ k = [j EXCEPT !.stage = "place", !.qty = qty]
                        /\ jobs' = (jobs \ {j}) \cup {k} /\ row' = row
      BY <1>3 DEF FindRoom
    <2>2. j.row \in Rows /\ row[j.row].qty \in Nat
      BY DEF CondTI, JobTI, JobRecs, RowTI, RowRecs
    <2>3. qty \in Nat
      BY <2>1, <2>2, ReservedIsNat DEF CondTI, MarketTI, Smaller
    <2>4. k \in JobRecs
      BY <2>1, <2>3, JobRecTI DEF CondTI, JobStages
    <2>5. RowTI' /\ Created \subseteq Created' /\ JobTI'
      BY <1>1, <2>1, <2>4 DEF CondTI, RowTI, JobTI, Created
    <2>6. QED
      BY <1>1, <2>5, MemKept DEF CondTI, MarketTI, SentTI, market
  <1>4. QED
    BY <1>2, <1>3

LEMMA SentMore ==
    ASSUME SentTI, NEW c \in Rows \cup {"none"}, NEW qty \in Nat,
           sent' = Append(sent, [row |-> c, qty |-> qty, left |-> qty])
    PROVE  SentTI'
  <1>1. PICK o : o = [row |-> c, qty |-> qty, left |-> qty] /\ o \in SentRecs
    BY DEF SentRecs
  <1>2. sent' = Append(sent, o)
    BY <1>1
  <1>3. QED
    BY <1>1, <1>2 DEF SentTI

LEMMA PlaceTriggeredTI ==
    ASSUME CondTI, NEW j \in jobs, PlaceTriggered(j)
    PROVE  CondTI'
  <1>1. UNCHANGED memory /\ UNCHANGED market /\ writes' = writes /\ row' = row
    BY DEF PlaceTriggered
  <1>2. /\ j.row \in Rows /\ j.qty \in Nat
        /\ [j EXCEPT !.stage = "placed"] \in JobRecs /\ [j EXCEPT !.stage = "refused"] \in JobRecs
    BY JobRecTI DEF CondTI, JobStages
  <1>3. JobTI'
    BY <1>1, <1>2 DEF PlaceTriggered, CondTI, JobTI
  <1>4. SentTI'
    <2>1. CASE j.qty <= held - Reserved
      BY <1>2, <2>1, SentMore DEF PlaceTriggered, CondTI
    <2>2. CASE ~(j.qty <= held - Reserved)
      BY <2>2 DEF PlaceTriggered, CondTI, SentTI
    <2>3. QED
      BY <2>1, <2>2
  <1>5. RowTI' /\ Created \subseteq Created'
    BY <1>1 DEF CondTI, RowTI, Created
  <1>6. QED
    BY <1>1, <1>3, <1>4, <1>5, MemKept DEF CondTI, MarketTI, market

LEMMA RecordOutcomeTI ==
    ASSUME CondTI, NEW j \in jobs, RecordOutcome(j)
    PROVE  CondTI'
  <1>1. UNCHANGED memory /\ UNCHANGED market /\ writes' = writes /\ sent' = sent /\ jobs' = jobs \ {j}
    BY DEF RecordOutcome
  <1>2. j.row \in Rows
    BY DEF CondTI, JobTI, JobRecs
  <1>3. RowTI' /\ Created \subseteq Created'
    <2>1. CASE j.stage = "refused"
      <3>1. RowTI /\ "FAILED" \in Statuses \ {"NONE"}
        BY DEF CondTI, Statuses
      <3>2. row' = [row EXCEPT ![j.row].status = "FAILED"]
        BY <2>1 DEF RecordOutcome
      <3>3. QED
        BY <1>2, <3>1, <3>2, StatusTI
    <2>2. CASE j.stage # "refused"
      BY <2>2 DEF RecordOutcome, CondTI, RowTI, Created
    <2>3. QED
      BY <2>1, <2>2
  <1>4. QED
    BY <1>1, <1>3, MemKept DEF CondTI, JobTI, MarketTI, SentTI, market

\* ----- registering and canceling
LEMMA RegisterTI ==
    ASSUME CondTI, NEW p \in Instances, NEW g \in Groups, Register(p, g)
    PROVE  CondTI'
  <1>1. UNCHANGED memory /\ UNCHANGED market /\ writes' = writes /\ sent' = sent /\ row' = row
    BY DEF Register
  <1>2. PICK first, k : /\ first = CHOOSE c \in Legs(g) : TRUE
                        /\ k = [api |-> p, stage |-> "create", row |-> first, qty |-> price]
                        /\ jobs' = jobs \cup {k}
    BY DEF Register
  <1>3. first \in Rows
    <2>1. \E c : c \in Legs(g)
      BY DEF Groups, Legs
    <2>2. QED
      BY <1>2, <2>1 DEF Legs
  <1>4. p \in Apis /\ price \in Nat
    BY ConditionalAssumption DEF CondTI, MemTI, MarketTI
  <1>5. k \in JobRecs
    BY <1>2, <1>3, <1>4 DEF JobRecs, JobStages
  <1>6. JobTI'
    BY <1>1, <1>2, <1>5 DEF CondTI, JobTI
  <1>7. RowTI' /\ Created \subseteq Created'
    BY <1>1 DEF CondTI, RowTI, Created
  <1>8. QED
    BY <1>1, <1>6, <1>7, MemKept DEF CondTI, MarketTI, SentTI, market

LEMMA CancelTI ==
    ASSUME CondTI, NEW p \in Instances, NEW c \in Rows, Cancel(p, c)
    PROVE  CondTI'
  <1>1. UNCHANGED market /\ reload' = reload /\ inbox' = inbox /\ writes' = writes /\ sent' = sent
    BY DEF Cancel
  <1>2. RowTI' /\ Created \subseteq Created'
    <2>1. row' = CanceledIfWaiting({c}) /\ RowTI
      BY DEF Cancel, CondTI
    <2>2. QED
      BY <2>1, CanceledTI
  <1>3. JobTI'
    <2>1. PICK k : k = [api |-> p, stage |-> "cancelOther", row |-> c, qty |-> 0]
      OBVIOUS
    <2>2. p \in Apis
      BY DEF CondTI, MemTI
    <2>3. k \in JobRecs
      BY <2>1, <2>2 DEF JobRecs, JobStages
    <2>4. QED
      BY <1>1, <2>1, <2>3 DEF Cancel, CondTI, JobTI
  <1>4. PICK f : f = Without(p, {c}) /\ waiting' = [waiting EXCEPT ![p] = f]
    BY DEF Cancel
  <1>5. IsIndex(f, Created')
    BY <1>2, <1>4 DEF Without, CondTI, MemTI, IsIndex
  <1>6. MemTI'
    BY <1>1, <1>2, <1>4, <1>5, IndexChanged DEF CondTI
  <1>7. QED
    BY <1>1, <1>2, <1>3, <1>6 DEF CondTI, MarketTI, SentTI, market

LEMMA PersistTrailTI ==
    ASSUME CondTI, NEW w \in writes, PersistTrail(w)
    PROVE  CondTI'
  <1>1. /\ UNCHANGED memory /\ UNCHANGED market /\ jobs' = jobs /\ sent' = sent
        /\ writes' = writes \ {w}
        /\ row' = row \/ row' = [row EXCEPT ![w.row].water = w.water]
    BY DEF PersistTrail
  <1>2. w.row \in Rows /\ w.water \in Nat
    BY DEF CondTI, JobTI, WriteRecs
  <1>3. RowTI' /\ Created \subseteq Created'
    BY <1>1, <1>2 DEF CondTI, RowTI, RowRecs, Created
  <1>4. JobTI'
    BY <1>1 DEF CondTI, JobTI
  <1>5. QED
    BY <1>1, <1>3, <1>4, MemKept DEF CondTI, MarketTI, SentTI, market

\* ----- the messages and timers of an instance
LEMMA HearTradeTI ==
    ASSUME CondTI, NEW p \in Instances, HearTrade(p)
    PROVE  CondTI'
  <1>1. UNCHANGED market /\ row' = row /\ reload' = reload /\ sent' = sent
    BY DEF HearTrade
  <1>2. RowTI' /\ Created \subseteq Created'
    BY <1>1 DEF CondTI, RowTI, Created
  <1>3. PICK x, h, index : x = Head(inbox[p]) /\ h = Tail(inbox[p]) /\ index = waiting[p]
    OBVIOUS
  <1>4. x \in Prices /\ h \in Seq(Prices)
    <2>1. inbox[p] \in Seq(Prices) /\ inbox[p] # <<>>
      BY DEF HearTrade, CondTI, MemTI
    <2>2. QED
      BY <1>3, <2>1
  <1>5. IsIndex(index, Created') /\ IsIndex(reload[p].rows, Created')
        /\ reload[p].stage \in {"idle", "read"}
    BY <1>2, <1>3 DEF CondTI, MemTI, IsIndex
  <1>6. /\ JobTI'
        /\ \E f : IsIndex(f, Created') /\ waiting' = [waiting EXCEPT ![p] = f]
    <2>1. CASE maintenance = "active"
      <3>1. waiting' = waiting /\ writes' = writes /\ jobs' = jobs
        BY <2>1 DEF HearTrade
      <3>2. waiting' = [waiting EXCEPT ![p] = index]
        BY <1>3, <3>1 DEF CondTI, MemTI
      <3>3. QED
        BY <1>5, <3>1, <3>2 DEF CondTI, JobTI
    <2>2. CASE maintenance # "active"
      <3>1. OnTick(p, index, x)
        BY <1>3, <2>2 DEF HearTrade
      <3>2. QED
        BY <1>2, <1>4, <1>5, <3>1, OnTickTI DEF CondTI
    <2>3. QED
      BY <2>1, <2>2
  <1>7. PICK f : IsIndex(f, Created') /\ waiting' = [waiting EXCEPT ![p] = f]
    BY <1>6
  <1>8. PICK g : g = reload[p]
    OBVIOUS
  <1>9. reload' = [reload EXCEPT ![p] = g] /\ inbox' = [inbox EXCEPT ![p] = h]
    BY <1>1, <1>3, <1>8 DEF HearTrade, CondTI, MemTI
  <1>10. MemTI'
    BY <1>2, <1>4, <1>5, <1>7, <1>8, <1>9, MemChanged DEF CondTI
  <1>11. QED
    BY <1>1, <1>2, <1>6, <1>10 DEF CondTI, MarketTI, SentTI, market

LEMMA ReloadReadTI ==
    ASSUME CondTI, NEW p \in Instances, ReloadRead(p)
    PROVE  CondTI'
  <1>1. /\ UNCHANGED market /\ row' = row /\ waiting' = waiting /\ inbox' = inbox /\ jobs' = jobs
        /\ writes' = writes /\ sent' = sent
    BY DEF ReloadRead
  <1>2. RowTI' /\ Created' = Created
    BY <1>1 DEF CondTI, RowTI, Created
  <1>3. PICK read, g : /\ read = [c \in RowsToIndex(p) |-> row[c].water]
                       /\ g = [stage |-> "read", rows |-> read]
                       /\ reload' = [reload EXCEPT ![p] = g]
    BY DEF ReloadRead
  <1>4. IsIndex(g.rows, Created') /\ g.stage \in {"idle", "read"}
    BY <1>2, <1>3 DEF RowsToIndex, IsIndex, Created, CondTI, RowTI, RowRecs
  <1>5. PICK f, h : f = waiting[p] /\ h = inbox[p]
    OBVIOUS
  <1>6. /\ IsIndex(f, Created') /\ h \in Seq(Prices)
        /\ waiting' = [waiting EXCEPT ![p] = f] /\ inbox' = [inbox EXCEPT ![p] = h]
    BY <1>1, <1>2, <1>5 DEF CondTI, MemTI, IsIndex
  <1>7. MemTI'
    BY <1>2, <1>3, <1>4, <1>6, MemChanged DEF CondTI
  <1>8. QED
    BY <1>1, <1>2, <1>7 DEF CondTI, JobTI, MarketTI, SentTI, market

LEMMA ReloadInstallTI ==
    ASSUME CondTI, NEW p \in Instances, ReloadInstall(p)
    PROVE  CondTI'
  <1> DEFINE orphs == IF future /\ held = 0 THEN DOMAIN reload[p].rows ELSE {}
             ix == [c \in DOMAIN reload[p].rows \ orphs |-> KeepWatermark(p, c)]
  <1>1. /\ UNCHANGED market /\ inbox' = inbox /\ sent' = sent
        /\ row' = CanceledIfWaiting(orphs)
        /\ reload' = [reload EXCEPT ![p] = [stage |-> "idle", rows |-> <<>>]]
        /\ IF maintenance = "active"
           THEN waiting' = [waiting EXCEPT ![p] = ix] /\ UNCHANGED <<writes, jobs>>
           ELSE OnTick(p, ix, price)
    BY DEF ReloadInstall
  <1>2. RowTI' /\ Created \subseteq Created'
    BY <1>1, CanceledTI DEF CondTI
  <1>3. PICK index : index = ix
    OBVIOUS
  <1>4. IsIndex(index, Created')
    <2>1. IsIndex(reload[p].rows, Created') /\ IsIndex(waiting[p], Created')
      BY <1>2 DEF CondTI, MemTI, IsIndex
    <2>2. ASSUME NEW c \in DOMAIN reload[p].rows
          PROVE  KeepWatermark(p, c) \in Nat
      BY <2>1 DEF KeepWatermark, IsIndex
    <2>3. QED
      BY <1>3, <2>1, <2>2 DEF IsIndex
  <1>5. /\ JobTI'
        /\ \E f : IsIndex(f, Created') /\ waiting' = [waiting EXCEPT ![p] = f]
    <2> HIDE DEF ix, orphs
    <2>1. CASE maintenance = "active"
      BY <1>1, <1>3, <1>4, <2>1 DEF CondTI, JobTI
    <2>2. CASE maintenance # "active"
      <3>1. OnTick(p, index, price) /\ price \in Prices
        BY <1>1, <1>3, <2>2 DEF CondTI, MarketTI
      <3>2. QED
        BY <1>2, <1>4, <3>1, OnTickTI DEF CondTI
    <2>3. QED
      BY <2>1, <2>2
  <1>6. PICK f : IsIndex(f, Created') /\ waiting' = [waiting EXCEPT ![p] = f]
    BY <1>5
  <1>7. PICK g, h : g = [stage |-> "idle", rows |-> <<>>] /\ h = inbox[p]
    OBVIOUS
  <1>8. /\ reload' = [reload EXCEPT ![p] = g] /\ inbox' = [inbox EXCEPT ![p] = h]
        /\ h \in Seq(Prices)
    BY <1>1, <1>7 DEF CondTI, MemTI
  <1>9. IsIndex(g.rows, Created') /\ g.stage \in {"idle", "read"}
    BY <1>7 DEF IsIndex
  <1>10. MemTI'
    BY <1>2, <1>6, <1>8, <1>9, MemChanged DEF CondTI
  <1>11. QED
    BY <1>1, <1>2, <1>5, <1>10 DEF CondTI, MarketTI, SentTI, market

\* ----- everything else
LEMMA WorldTI ==
    ASSUME CondTI, CondWorld
    PROVE  CondTI'
  <1>1. ASSUME NEW x \in Prices, Trade(x)
        PROVE  CondTI'
    <2>1. /\ row' = row /\ waiting' = waiting /\ reload' = reload /\ jobs' = jobs
          /\ writes' = writes /\ sent' = sent /\ price' = x
          /\ UNCHANGED <<future, held, maintenance>>
          /\ inbox' = [p \in Instances |-> Append(inbox[p], x)]
      BY <1>1 DEF Trade
    <2>2. \A p \in Instances : Append(inbox[p], x) \in Seq(Prices)
      BY DEF CondTI, MemTI
    <2>3. inbox' \in [Instances -> Seq(Prices)] /\ Instances' = Instances
      BY <2>1, <2>2 DEF Instances
    <2>4. MemTI'
      BY <2>1, <2>3 DEF CondTI, MemTI, IsIndex, Created
    <2>5. QED
      BY <2>1, <2>4 DEF CondTI, RowTI, JobTI, MarketTI, SentTI
  <1>2. ASSUME NEW i \in DOMAIN sent, NEW n \in {0, sent[i].left}, EndOrder(i, n)
        PROVE  CondTI'
    <2>1. /\ UNCHANGED memory /\ row' = row /\ jobs' = jobs /\ writes' = writes
          /\ UNCHANGED <<future, price, maintenance>>
          /\ sent' = [sent EXCEPT ![i].left = 0] /\ held' = HeldAfter(n)
      BY <1>2 DEF EndOrder
    <2>2. sent[i] \in SentRecs
      BY DEF CondTI, SentTI
    <2>3. PICK o : o = [sent[i] EXCEPT !.left = 0]
      OBVIOUS
    <2>4. o \in SentRecs
      BY <2>2, <2>3 DEF SentRecs
    <2>5. sent' = [sent EXCEPT ![i] = o]
      BY <2>1, <2>3
    <2>6. SentTI'
      BY <2>4, <2>5 DEF CondTI, SentTI
    <2>7. held' \in Nat
      <3>1. n \in Nat /\ held \in Nat
        BY <2>2 DEF SentRecs, CondTI, MarketTI
      <3>2. QED
        BY <2>1, <3>1 DEF HeldAfter, Larger
    <2>8. RowTI' /\ Created \subseteq Created'
      BY <2>1 DEF CondTI, RowTI, Created
    <2>9. QED
      BY <2>1, <2>6, <2>7, <2>8, MemKept DEF CondTI, JobTI, MarketTI
  <1>3. ASSUME BeginMaintenance \/ EndMaintenance
        PROVE  CondTI'
    <2>1. /\ UNCHANGED memory /\ row' = row /\ jobs' = jobs /\ writes' = writes /\ sent' = sent
          /\ UNCHANGED <<future, price, held>> /\ maintenance' \in {"before", "active", "over"}
      BY <1>3 DEF BeginMaintenance, EndMaintenance
    <2>2. RowTI' /\ Created \subseteq Created'
      BY <2>1 DEF CondTI, RowTI, Created
    <2>3. QED
      BY <2>1, <2>2, MemKept DEF CondTI, JobTI, MarketTI, SentTI
  <1>4. QED
    BY <1>1, <1>2, <1>3 DEF CondWorld

\* The prices an instance will not hear.
LEMMA LossTI ==
    ASSUME CondTI, Losses
    PROVE  CondTI'
  <1>1. ASSUME NEW p \in Instances, LoseTick(p)
        PROVE  CondTI'
    <2>1. /\ UNCHANGED market /\ row' = row /\ waiting' = waiting /\ reload' = reload
          /\ jobs' = jobs /\ writes' = writes /\ sent' = sent
          /\ inbox[p] # <<>> /\ inbox' = [inbox EXCEPT ![p] = Tail(@)]
      BY <1>1 DEF LoseTick
    <2>2. inbox[p] \in Seq(Prices)
      BY DEF CondTI, MemTI
    <2>3. Tail(inbox[p]) \in Seq(Prices)
      BY <2>1, <2>2
    <2>4. inbox' \in [Instances -> Seq(Prices)]
      BY <2>1, <2>3 DEF CondTI, MemTI
    <2>5. MemTI'
      BY <2>1, <2>4 DEF CondTI, MemTI, IsIndex, Created, Instances
    <2>6. QED
      BY <2>1, <2>5 DEF CondTI, RowTI, JobTI, MarketTI, SentTI, market
  <1>2. ASSUME /\ UNCHANGED memory /\ row' = row /\ sent' = sent
               /\ jobs' \subseteq jobs /\ writes' \subseteq writes
               /\ UNCHANGED <<future, price, maintenance>> /\ held' \in Nat
        PROVE  CondTI'
    <2>1. RowTI' /\ Created \subseteq Created'
      BY <1>2 DEF CondTI, RowTI, Created
    <2>2. QED
      BY <1>2, <2>1, MemKept DEF CondTI, JobTI, MarketTI, SentTI
  <1>3. held \in Nat
    BY DEF CondTI, MarketTI
  <1>4. ASSUME NEW w \in writes, LoseWrite(w)
        PROVE  CondTI'
    BY <1>2, <1>3, <1>4 DEF LoseWrite, market
  <1>5. ASSUME NEW j \in jobs, LoseResult(j)
        PROVE  CondTI'
    BY <1>2, <1>3, <1>5 DEF LoseResult, market
  <1>6. ASSUME PositionGone
        PROVE  CondTI'
    BY <1>2, <1>6 DEF PositionGone
  <1>7. QED
    BY <1>1, <1>4, <1>5, <1>6 DEF Losses

LEMMA CrashTI ==
    ASSUME CondTI, NEW p \in Instances, Crash(p)
    PROVE  CondTI'
  <1>1. /\ UNCHANGED market /\ row' = row /\ sent' = sent
        /\ jobs' \subseteq jobs /\ writes' \subseteq writes
    BY DEF Crash
  <1>2. PICK f, g, h : f = <<>> /\ g = [stage |-> "idle", rows |-> <<>>] /\ h = <<>>
    OBVIOUS
  <1>3. /\ waiting' = [waiting EXCEPT ![p] = f] /\ reload' = [reload EXCEPT ![p] = g]
        /\ inbox' = [inbox EXCEPT ![p] = h]
    BY <1>2 DEF Crash
  <1>4. RowTI' /\ Created \subseteq Created'
    BY <1>1 DEF CondTI, RowTI, Created
  <1>5. /\ IsIndex(f, Created') /\ IsIndex(g.rows, Created') /\ g.stage \in {"idle", "read"}
        /\ h \in Seq(Prices)
    BY <1>2 DEF IsIndex
  <1>6. MemTI'
    BY <1>3, <1>4, <1>5, MemChanged DEF CondTI
  <1>7. QED
    BY <1>1, <1>4, <1>6 DEF CondTI, JobTI, MarketTI, SentTI, market

LEMMA SystemTI ==
    ASSUME CondTI, CondSystem
    PROVE  CondTI'
  <1>1. ASSUME NEW j \in jobs, Job(j)
        PROVE  CondTI'
    BY <1>1, CreateTI, ClaimTI, CancelSiblingsTI, FindRoomTI, PlaceTriggeredTI, RecordOutcomeTI
       DEF Job
  <1>2. ASSUME NEW p \in Instances, Api(p)
        PROVE  CondTI'
    BY <1>2, HearTradeTI, ReloadReadTI, ReloadInstallTI DEF Api
  <1>3. QED
    BY <1>1, <1>2, PersistTrailTI DEF CondSystem

LEMMA UnchangedTI ==
    ASSUME CondTI, UNCHANGED condVars
    PROVE  CondTI'
  BY DEF CondTI, RowTI, MemTI, JobTI, MarketTI, SentTI, condVars, Instances, Created, IsIndex

LEMMA CondTIStep ==
    ASSUME CondTI, [CondNext]_condVars
    PROVE  CondTI'
  <1>1. CASE CondFaults
    BY <1>1, LossTI, CrashTI DEF CondFaults
  <1>2. QED
    BY <1>1, RegisterTI, CancelTI, SystemTI, WorldTI, UnchangedTI DEF CondNext

\* Rows, indexes, handlers, late writes and orders keep their shape, and an index
\* never holds a row that was not created.
THEOREM ConditionalTypes == CondSpec => []CondTypeOK
  BY InitCondTI, CondTIStep, CondTIImplies, PTL DEF CondSpec

----------------------------------------------------------------------------
(***************************************************************************)
(* Trailing.  Watermarks are numbers, so that of two different ones one is *)
(* ahead; an index holds created rows only, so that a registration never   *)
(* meets a row that an index knows.                                        *)
(***************************************************************************)
\* The watermark b is a, or ahead of it.
NotBehind(c, a, b) == a = b \/ AdvancesWatermark(Terms[c].side, a, b)

\* From one index of an instance to the next.
IndexForward(f, g) ==
    \A c \in Rows : IsTrailing(c) /\ c \in DOMAIN f /\ c \in DOMAIN g => NotBehind(c, f[c], g[c])

MemForward == \A p \in Instances : IndexForward(waiting[p], waiting'[p])

RowsForward ==
    \A c \in Rows : IsTrailing(c) /\ row[c].status = "WAITING" =>
        NotBehind(c, row[c].water, row'[c].water)

LEMMA NotBehindOrder ==
    ASSUME NEW c, NEW a \in Nat, NEW b \in Nat
    PROVE  /\ NotBehind(c, a, b) \/ AdvancesWatermark(Terms[c].side, b, a)
           /\ \A d \in Nat : NotBehind(c, a, b) /\ NotBehind(c, b, d) => NotBehind(c, a, d)
  BY DEF NotBehind, AdvancesWatermark

LEMMA SameMemForward ==
    ASSUME waiting' = waiting
    PROVE  MemForward
  BY DEF MemForward, IndexForward, NotBehind

\* One instance has another index.
LEMMA OneIndexForward ==
    ASSUME MemTI, NEW p, NEW f, waiting' = [waiting EXCEPT ![p] = f],
           p \in Instances => IndexForward(waiting[p], f)
    PROVE  MemForward
  <1>1. ASSUME NEW q \in Instances
        PROVE  IndexForward(waiting[q], waiting'[q])
    <2>1. CASE q = p
      <3>1. waiting'[q] = f
        BY <2>1 DEF MemTI, Instances
      <3>2. QED
        BY <2>1, <3>1
    <2>2. CASE q # p
      <3>1. waiting'[q] = waiting[q]
        BY <2>2 DEF MemTI, Instances
      <3>2. QED
        BY <3>1 DEF IndexForward, NotBehind
    <2>3. QED
      BY <2>1, <2>2
  <1>2. QED
    BY <1>1 DEF MemForward

\* A tick moves what trails forward, from an index that is not behind.
LEMMA OnTickForward ==
    ASSUME MemTI, NEW C, NEW p \in Instances, NEW index, IsIndex(index, C), NEW x \in Prices,
           OnTick(p, index, x), IndexForward(waiting[p], index)
    PROVE  MemForward
  <1> DEFINE mv == {c \in DOMAIN index : IsTrailing(c)
                                         /\ AdvancesWatermark(Terms[c].side, index[c], x)}
             mt == {c \in DOMAIN index \ mv : MetAt(c, index[c], x)}
  <1>1. PICK f : /\ f = [c \in DOMAIN index \ mt |-> IF c \in mv THEN x ELSE index[c]]
                 /\ waiting' = [waiting EXCEPT ![p] = f]
    BY DEF OnTick
  <1>2. ASSUME NEW c \in Rows, IsTrailing(c), c \in DOMAIN waiting[p], c \in DOMAIN f
        PROVE  NotBehind(c, waiting[p][c], f[c])
    <2>1. /\ c \in DOMAIN index
          /\ f[c] = index[c] \/ (AdvancesWatermark(Terms[c].side, index[c], x) /\ f[c] = x)
      BY <1>1, <1>2
    <2>2. NotBehind(c, waiting[p][c], index[c]) /\ NotBehind(c, index[c], f[c])
      BY <1>2, <2>1 DEF IndexForward, NotBehind
    <2>3. waiting[p][c] \in Nat /\ index[c] \in Nat /\ x \in Nat
      BY <1>2, <2>1, ConditionalAssumption DEF MemTI, IsIndex
    <2>4. f[c] \in Nat
      BY <2>1, <2>3
    <2>5. PICK a, b, d : a = waiting[p][c] /\ b = index[c] /\ d = f[c]
      OBVIOUS
    <2>6. QED
      BY <2>2, <2>3, <2>4, <2>5, NotBehindOrder
  <1>3. IndexForward(waiting[p], f)
    BY <1>2 DEF IndexForward
  <1>4. QED
    BY <1>1, <1>3, OneIndexForward

\* What a reload takes from the database is not behind what it replaces.
LEMMA KeepForward ==
    ASSUME MemTI, NEW p \in Instances, NEW c \in DOMAIN reload[p].rows, IsTrailing(c),
           c \in DOMAIN waiting[p]
    PROVE  NotBehind(c, waiting[p][c], KeepWatermark(p, c))
  <1>1. PICK a, b : /\ a = waiting[p][c] /\ b = reload[p].rows[c] /\ a \in Nat /\ b \in Nat
    BY DEF MemTI, IsIndex
  <1>2. KeepWatermark(p, c) = IF AdvancesWatermark(Terms[c].side, b, a) THEN a ELSE b
    BY <1>1 DEF KeepWatermark
  <1>3. NotBehind(c, a, b) \/ AdvancesWatermark(Terms[c].side, b, a)
    BY <1>1, NotBehindOrder
  <1>4. NotBehind(c, a, a)
    BY DEF NotBehind
  <1>5. QED
    BY <1>1, <1>2, <1>3, <1>4

LEMMA ApiForward ==
    ASSUME CondTI, NEW p \in Instances, Api(p)
    PROVE  MemForward
  <1>1. PICK C : C = Created
    OBVIOUS
  <1>2. MemTI /\ IsIndex(waiting[p], C) /\ IsIndex(reload[p].rows, C)
    BY <1>1 DEF CondTI, MemTI
  <1>3. IndexForward(waiting[p], waiting[p])
    BY DEF IndexForward, NotBehind
  <1>4. CASE HearTrade(p)
    <2>1. CASE maintenance = "active"
      BY <1>4, <2>1, SameMemForward DEF HearTrade
    <2>2. CASE maintenance # "active"
      <3>1. PICK x, index : x = Head(inbox[p]) /\ index = waiting[p]
        OBVIOUS
      <3>2. OnTick(p, index, x)
        BY <1>4, <2>2, <3>1 DEF HearTrade
      <3>3. x \in Prices
        BY <1>4, <3>1 DEF HearTrade, CondTI, MemTI
      <3>4. QED
        BY <1>2, <1>3, <3>1, <3>2, <3>3, OnTickForward
    <2>3. QED
      BY <2>1, <2>2
  <1>5. CASE ReloadRead(p)
    BY <1>5, SameMemForward DEF ReloadRead
  <1>6. CASE ReloadInstall(p)
    <2> DEFINE orphs == IF future /\ held = 0 THEN DOMAIN reload[p].rows ELSE {}
    <2>1. PICK index : /\ index = [c \in DOMAIN reload[p].rows \ orphs |-> KeepWatermark(p, c)]
                       /\ IF maintenance = "active"
                          THEN waiting' = [waiting EXCEPT ![p] = index]
                          ELSE OnTick(p, index, price)
      BY <1>6 DEF ReloadInstall
    <2>2. IndexForward(waiting[p], index)
      BY <1>2, <2>1, KeepForward DEF IndexForward
    <2>3. IsIndex(index, C)
      BY <1>2, <2>1 DEF IsIndex, KeepWatermark
    <2>4. price \in Prices
      BY DEF CondTI, MarketTI
    <2>5. CASE maintenance = "active"
      BY <1>2, <2>1, <2>2, <2>5, OneIndexForward
    <2>6. CASE maintenance # "active"
      BY <1>2, <2>1, <2>2, <2>3, <2>4, <2>6, OnTickForward
    <2>7. QED
      BY <2>5, <2>6
  <1>7. QED
    BY <1>4, <1>5, <1>6 DEF Api

\* An index from which rows are taken, and one to which new rows come.
LEMMA WithoutForward ==
    ASSUME MemTI, NEW p, NEW cs, waiting' = [waiting EXCEPT ![p] = Without(p, cs)]
    PROVE  MemForward
  <1>1. PICK f : f = Without(p, cs)
    OBVIOUS
  <1>2. IndexForward(waiting[p], f)
    BY <1>1 DEF IndexForward, Without, NotBehind
  <1>3. QED
    BY <1>1, <1>2, OneIndexForward

LEMMA CreateForward ==
    ASSUME CondTI, ClaimInv, NEW j \in jobs, Create(j)
    PROVE  MemForward /\ RowsForward
  <1>1. PICK legs, newRow :
            /\ legs = Legs(Terms[j.row].group)
            /\ CreateRows(j.api, legs, newRow)
    BY DEF Create
  <1>2. \A c \in legs : row[c].status = "NONE"
    BY <1>1 DEF Create, ClaimInv, CreatesAreNew
  <1>3. PICK p : p = j.api
    OBVIOUS
  <1>4. PICK f : /\ f = [c \in DOMAIN waiting[p] \cup legs |->
                            IF c \in legs THEN newRow[c].water ELSE waiting[p][c]]
                 /\ waiting' = [waiting EXCEPT ![p] = f]
    BY <1>1, <1>3 DEF CreateRows
  <1>5. ASSUME p \in Instances
        PROVE  IndexForward(waiting[p], f)
    <2>1. \A c \in DOMAIN waiting[p] : row[c].status # "NONE"
      BY <1>5 DEF CondTI, MemTI, IsIndex, Created
    <2>2. QED
      BY <1>2, <1>4, <2>1 DEF IndexForward, NotBehind
  <1>6. MemForward
    BY <1>4, <1>5, OneIndexForward DEF CondTI
  <1>7. RowsForward
    BY <1>1, <1>2 DEF CreateRows, RowsForward, NotBehind
  <1>8. QED
    BY <1>6, <1>7

LEMMA JobForward ==
    ASSUME CondTI, ClaimInv, NEW j \in jobs, Job(j)
    PROVE  MemForward /\ RowsForward
  <1>1. j.row \in Rows /\ MemTI
    BY DEF CondTI, JobTI, JobRecs
  <1>2. CASE Create(j)
    BY <1>2, CreateForward
  <1>3. CASE CancelSiblings(j)
    <2>1. PICK cs : waiting' = [waiting EXCEPT ![j.api] = Without(j.api, cs)]
      BY <1>3 DEF CancelSiblings
    <2>2. MemForward
      BY <1>1, <2>1, WithoutForward
    <2>3. RowsForward
      BY <1>3 DEF CancelSiblings, CanceledIfWaiting, RowsForward, NotBehind, CondTI, RowTI, RowRecs
    <2>4. QED
      BY <2>2, <2>3
  <1>4. CASE Claim(j) \/ FindRoom(j) \/ PlaceTriggered(j) \/ RecordOutcome(j)
    <2>1. waiting' = waiting
      BY <1>4 DEF Claim, FindRoom, PlaceTriggered, RecordOutcome, memory
    <2>2. row' = row \/ \E status : row' = [row EXCEPT ![j.row].status = status]
      BY <1>4 DEF Claim, FindRoom, PlaceTriggered, RecordOutcome
    <2>3. RowsForward
      BY <1>1, <2>2, ZenonT(60) DEF RowsForward, NotBehind, CondTI, RowTI, RowRecs
    <2>4. QED
      BY <2>1, <2>3, SameMemForward
  <1>5. QED
    BY <1>2, <1>3, <1>4 DEF Job

LEMMA PersistForward ==
    ASSUME CondTI, NEW w \in writes, PersistTrail(w)
    PROVE  MemForward /\ RowsForward
  <1>1. waiting' = waiting
    BY DEF PersistTrail, memory
  <1>2. w.row \in Rows
    BY DEF CondTI, JobTI, WriteRecs
  <1>3. RowsForward
    BY <1>2 DEF PersistTrail, RowsForward, NotBehind, CondTI, RowTI, RowRecs
  <1>4. QED
    BY <1>1, <1>3, SameMemForward

LEMMA SameRowsForward ==
    ASSUME row' = row
    PROVE  RowsForward
  BY DEF RowsForward, NotBehind

LEMMA CrashForward ==
    ASSUME MemTI, NEW p, Crash(p)
    PROVE  MemForward /\ RowsForward
  <1>1. PICK f : f = <<>> /\ waiting' = [waiting EXCEPT ![p] = f] /\ row' = row
    BY DEF Crash
  <1>2. IndexForward(waiting[p], f)
    BY <1>1 DEF IndexForward
  <1>3. QED
    BY <1>1, <1>2, OneIndexForward, SameRowsForward

LEMMA ForwardStep ==
    ASSUME CondTI, ClaimInv, [CondNext]_condVars
    PROVE  MemForward /\ RowsForward
  <1>1. MemTI
    BY DEF CondTI
  <1>2. ASSUME NEW p \in Instances, NEW c \in Rows, Cancel(p, c)
        PROVE  MemForward /\ RowsForward
    <2>1. MemForward
      BY <1>1, <1>2, WithoutForward DEF Cancel
    <2>2. RowsForward
      BY <1>2 DEF Cancel, CanceledIfWaiting, RowsForward, NotBehind, CondTI, RowTI, RowRecs
    <2>3. QED
      BY <2>1, <2>2
  <1>3. ASSUME NEW p \in Instances, Api(p)
        PROVE  RowsForward
    <2>1. row' = row \/ \E cs : row' = CanceledIfWaiting(cs)
      BY <1>3 DEF Api, HearTrade, ReloadRead, ReloadInstall
    <2>2. QED
      BY <2>1 DEF CanceledIfWaiting, RowsForward, NotBehind, CondTI, RowTI, RowRecs
  <1>4. CASE CondSystem
    BY <1>3, <1>4, JobForward, PersistForward, ApiForward DEF CondSystem
  <1>5. CASE CondFaults
    <2>1. CASE Losses
      <3>1. waiting' = waiting /\ row' = row
        BY <2>1 DEF Losses, LoseTick, LoseWrite, LoseResult, PositionGone, memory
      <3>2. QED
        BY <3>1, SameMemForward, SameRowsForward
    <2>2. QED
      BY <1>1, <1>5, <2>1, CrashForward DEF CondFaults
  <1>6. CASE \/ \E p \in Instances, g \in Groups : Register(p, g)
             \/ CondWorld
             \/ UNCHANGED condVars
    <2>1. waiting' = waiting /\ row' = row
      BY <1>6 DEF Register, CondWorld, Trade, EndOrder, BeginMaintenance, EndMaintenance, memory,
                  condVars
    <2>2. QED
      BY <2>1, SameMemForward, SameRowsForward
  <1>7. QED
    BY <1>2, <1>4, <1>5, <1>6 DEF CondNext

\* A trailing row follows the extreme price and never back, in the database and in
\* the memory of every instance that keeps it, whatever writes come late or are
\* lost, whatever an instance reads again, and whichever instances crash.
THEOREM TrailsNeverGoBack == CondSpec => TrailOnlyAdvances
  <1> DEFINE Step == \A c \in Rows : IsTrailing(c) =>
          /\ (row[c].status = "WAITING" /\ row[c].water # row'[c].water) =>
                AdvancesWatermark(Terms[c].side, row[c].water, row'[c].water)
          /\ \A p \in Instances :
                (c \in DOMAIN waiting[p] \cap DOMAIN waiting'[p]
                   /\ waiting[p][c] # waiting'[p][c]) =>
                AdvancesWatermark(Terms[c].side, waiting[p][c], waiting'[p][c])
  <1>1. ASSUME CondTI, ClaimInv, [CondNext]_condVars
        PROVE  [Step]_condVars
    <2>1. MemForward /\ RowsForward
      BY <1>1, ForwardStep
    <2>2. Step
      BY <2>1 DEF MemForward, RowsForward, IndexForward, NotBehind
    <2>3. QED
      BY <2>2
  <1>2. QED
    BY <1>1, InitCondTI, CondTIStep, InitClaimInv, InitIndexInv, ClaimInvStep, IndexInvStep, PTL
       DEF CondSpec, TrailOnlyAdvances

----------------------------------------------------------------------------
(***************************************************************************)
(* Brackets.  The conditional orders see of them: shares that are bought,  *)
(* an order, and rows that are registered with prices that are numbers     *)
(* because the sweep goes on only with something executed.                 *)
(***************************************************************************)
ArmingStages == {"idle", "claim", "decide", "sell", "register", "record"}

Busy(p) == arming[p] \in {"decide", "sell", "register", "record"}

BracketTI ==
    /\ parent \in [status : {"NONE", "OPEN", "ENDED"}, filled : Nat, amount : Nat]
    /\ intent \in [status : {"NONE", "PENDING", "ARMED", "CANCELED"}, armedQty : Nat]
    /\ arming \in [Instances -> ArmingStages]
    /\ protected \in Seq({"sold", "registered"})
    /\ faults \in Nat

\* The sweep works for an order that has ended with something executed.
SweepInv ==
    /\ parent.status = "NONE" => intent.status = "NONE"
    /\ \A p \in Instances : /\ arming[p] # "idle" => parent.status = "ENDED"
                            /\ Busy(p) => parent.filled > 0

\* As long as nothing fails one instance at most is at it, the intent is its own,
\* and it has protected the position when it is about to record that.
OnceInv ==
    /\ \A p, q \in Instances : Busy(p) /\ Busy(q) => p = q
    /\ \A p \in Instances : Busy(p) => /\ intent.status = "ARMED"
                                       /\ arming[p] = "record" <=> protected # <<>>
    /\ Len(protected) <= 1
    /\ protected # <<>> => intent.status = "ARMED"
    /\ intent.armedQty > 0 => protected # <<>>

BracketInv == BracketTI /\ SweepInv /\ (faults = 0 => OnceInv)

LEMMA InitBracketInv == CondInit /\ BracketInit => BracketInv
  <1> SUFFICES ASSUME CondInit, BracketInit
               PROVE  BracketInv
    OBVIOUS
  <1>1. /\ parent = [status |-> "NONE", filled |-> 0, amount |-> 0]
        /\ intent = [status |-> "NONE", armedQty |-> 0]
        /\ arming = [p \in Instances |-> "idle"] /\ protected = <<>> /\ faults = 0
    BY DEF BracketInit, CondInit
  <1>2. BracketTI
    BY <1>1 DEF BracketTI, ArmingStages
  <1>3. SweepInv /\ OnceInv
    BY <1>1 DEF SweepInv, OnceInv, Busy
  <1>4. QED
    BY <1>2, <1>3 DEF BracketInv

\* What conditional orders do leaves the instances, and the fault that was.
Later == Instances' = Instances /\ (faults' = faults \/ faults' = faults + 1)

LEMMA CondLater ==
    ASSUME \/ \E p \in Instances, g \in Groups : Register(p, g)
           \/ \E p \in Instances, c \in Rows : Cancel(p, c)
           \/ CondSystem \/ CondWorld \/ Losses \/ \E p \in Instances : Crash(p)
    PROVE  Later
  <1>1. ASSUME NEW p, NEW g, Register(p, g) PROVE Later
    BY <1>1 DEF Register, Later, Instances, memory
  <1>2. ASSUME NEW p, NEW c, Cancel(p, c) PROVE Later
    BY <1>2 DEF Cancel, Later, Instances
  <1>3. CASE CondSystem
    <2>1. ASSUME NEW j, Job(j) PROVE Later
      BY <2>1 DEF Job, Create, CreateRows, Claim, CancelSiblings, FindRoom, PlaceTriggered,
                  RecordOutcome, Later, Instances, memory
    <2>2. ASSUME NEW w, PersistTrail(w) PROVE Later
      BY <2>2 DEF PersistTrail, Later, Instances, memory
    <2>3. ASSUME NEW p, Api(p) PROVE Later
      <3>1. waiting' = waiting \/ \E f : waiting' = [waiting EXCEPT ![p] = f]
        BY <2>3, OnTickIndex DEF Api, HearTrade, ReloadRead, ReloadInstall
      <3>2. faults' = faults
        BY <2>3 DEF Api, HearTrade, ReloadRead, ReloadInstall
      <3>3. QED
        BY <3>1, <3>2 DEF Later, Instances
    <2>4. QED
      BY <1>3, <2>1, <2>2, <2>3 DEF CondSystem
  <1>4. CASE CondWorld
    BY <1>4 DEF CondWorld, Trade, EndOrder, BeginMaintenance, EndMaintenance, Later, Instances,
                memory
  <1>5. CASE Losses
    BY <1>5 DEF Losses, LoseTick, LoseWrite, LoseResult, PositionGone, Fault, Later, Instances,
                memory
  <1>6. ASSUME NEW p, Crash(p) PROVE Later
    BY <1>6 DEF Crash, Fault, Later, Instances
  <1>7. QED
    BY <1>1, <1>2, <1>3, <1>4, <1>5, <1>6

LEMMA QuietBracketInv ==
    ASSUME BracketInv, Later, UNCHANGED bracketVars
    PROVE  BracketInv'
  <1>1. /\ Instances' = Instances /\ parent' = parent /\ intent' = intent /\ arming' = arming
        /\ protected' = protected /\ faults' \in Nat /\ (faults' = 0 => faults = 0)
    BY DEF BracketInv, BracketTI, Later, bracketVars
  <1>2. BracketTI'
    BY <1>1 DEF BracketInv, BracketTI
  <1>3. SweepInv'
    BY <1>1 DEF BracketInv, SweepInv, Busy
  <1>4. faults' = 0 => OnceInv'
    BY <1>1 DEF BracketInv, OnceInv, Busy
  <1>5. QED
    BY <1>2, <1>3, <1>4 DEF BracketInv

\* A step of the sweep of one instance: what it does to the intent and to the
\* history, as far as the invariant depends on it.
LEMMA SweepStepInv ==
    ASSUME BracketInv, NEW p \in Instances, NEW stage \in ArmingStages,
           arming' = [arming EXCEPT ![p] = stage], Instances' = Instances, parent' = parent,
           intent' \in [status : {"NONE", "PENDING", "ARMED", "CANCELED"}, armedQty : Nat],
           protected' \in Seq({"sold", "registered"}), faults' \in Nat,
           parent.status = "ENDED",
           stage \in {"decide", "sell", "register", "record"} => parent.filled > 0,
           faults' = 0 => OnceInv'
    PROVE  BracketInv'
  <1>1. \A q \in Instances : arming'[q] = IF q = p THEN stage ELSE arming[q]
    BY DEF BracketInv, BracketTI
  <1>2. BracketTI'
    BY DEF BracketInv, BracketTI
  <1>3. SweepInv'
    BY <1>1 DEF BracketInv, SweepInv, Busy
  <1>4. QED
    BY <1>2, <1>3 DEF BracketInv

LEMMA UserBracketInv ==
    ASSUME BracketInv, price \in Nat, BracketUser
    PROVE  BracketInv'
  <1>1. /\ Instances' = Instances /\ arming' = arming /\ protected' = protected /\ faults' = faults
    BY DEF BracketUser, AttachBracket, FillParent, EndParent, CancelIntent, Instances, condVars,
           memory
  <1>2. CASE AttachBracket
    <2>1. /\ parent.status = "NONE" /\ parent' = [parent EXCEPT !.status = "OPEN"]
          /\ intent' = [intent EXCEPT !.status = "PENDING"]
      BY <1>2 DEF AttachBracket
    <2>2. BracketTI'
      BY <1>1, <2>1 DEF BracketInv, BracketTI
    <2>3. \A p \in Instances : arming[p] = "idle"
      BY <2>1 DEF BracketInv, SweepInv
    <2>4. SweepInv'
      BY <1>1, <2>1, <2>3 DEF BracketInv, BracketTI, SweepInv, Busy
    <2>5. ASSUME faults = 0 PROVE OnceInv'
      <3>1. intent.status = "NONE" /\ OnceInv
        BY <2>1, <2>5 DEF BracketInv, SweepInv
      <3>2. protected = <<>> /\ intent'.armedQty = intent.armedQty
        BY <2>1, <3>1 DEF OnceInv, BracketInv, BracketTI
      <3>3. QED
        BY <1>1, <2>3, <3>1, <3>2 DEF OnceInv, Busy
    <2>6. QED
      BY <1>1, <2>2, <2>4, <2>5 DEF BracketInv
  <1>3. CASE FillParent \/ EndParent
    <2>1. /\ parent.status = "OPEN" /\ intent' = intent
          /\ \/ parent' = [parent EXCEPT !.filled = @ + 1, !.amount = @ + price]
             \/ parent' = [parent EXCEPT !.status = "ENDED"]
      BY <1>3 DEF FillParent, EndParent
    <2>2. \A p \in Instances : arming[p] = "idle"
      BY <2>1 DEF BracketInv, SweepInv
    <2>3. BracketTI'
      <3>1. parent \in [status : {"NONE", "OPEN", "ENDED"}, filled : Nat, amount : Nat]
        BY DEF BracketInv, BracketTI
      <3>2. PICK n \in Nat, a \in Nat : n = parent.filled + 1 /\ a = parent.amount + price
        BY <3>1
      <3>3. \/ parent' = [parent EXCEPT !.filled = n, !.amount = a]
            \/ parent' = [parent EXCEPT !.status = "ENDED"]
        BY <2>1, <3>2
      <3>4. parent' \in [status : {"NONE", "OPEN", "ENDED"}, filled : Nat, amount : Nat]
        BY <3>1, <3>3
      <3>5. QED
        BY <1>1, <2>1, <3>4 DEF BracketInv, BracketTI
    <2>4. SweepInv' /\ (faults' = 0 => OnceInv')
      BY <1>1, <2>1, <2>2 DEF BracketInv, BracketTI, SweepInv, OnceInv, Busy
    <2>5. QED
      BY <2>3, <2>4 DEF BracketInv
  <1>4. CASE CancelIntent
    <2>1. /\ intent.status = "PENDING" /\ intent' = [intent EXCEPT !.status = "CANCELED"]
          /\ parent' = parent
      BY <1>4 DEF CancelIntent
    <2>2. BracketTI'
      BY <1>1, <2>1 DEF BracketInv, BracketTI
    <2>3. SweepInv'
      BY <1>1, <2>1 DEF BracketInv, SweepInv, Busy
    <2>4. ASSUME faults = 0 PROVE OnceInv'
      <3>1. OnceInv /\ intent'.armedQty = intent.armedQty
        BY <2>1, <2>4 DEF BracketInv, BracketTI
      <3>2. QED
        BY <1>1, <2>1, <3>1 DEF OnceInv, Busy
    <2>5. QED
      BY <1>1, <2>2, <2>3, <2>4 DEF BracketInv
  <1>5. QED
    BY <1>2, <1>3, <1>4 DEF BracketUser

LEMMA SweepBracketInv ==
    ASSUME BracketInv, NEW p \in Instances, Sweep(p)
    PROVE  BracketInv'
  <1>1. BracketTI /\ SweepInv
    BY DEF BracketInv
  <1>2. arming[p] \in ArmingStages /\ \A q \in Instances : arming[q] \in ArmingStages
    BY <1>1 DEF BracketTI
  <1>3. \A q \in Instances : \A stage : arming' = [arming EXCEPT ![p] = stage] =>
            arming'[q] = IF q = p THEN stage ELSE arming[q]
    BY <1>1 DEF BracketTI
  <1>4. faults' = faults /\ Instances' = Instances /\ parent' = parent
    BY DEF Sweep, SweepReads, ClaimIntent, Decide, SellAtOnce, RegisterLegs, RecordArmed,
           CreateRows, condVars, memory, Instances
  <1>5. CASE SweepReads(p)
    <2>1. /\ arming' = [arming EXCEPT ![p] = "claim"] /\ intent' = intent /\ protected' = protected
          /\ parent.status = "ENDED" /\ arming[p] = "idle"
      BY <1>5 DEF SweepReads
    <2>2. ASSUME faults = 0 PROVE OnceInv'
      BY <1>3, <1>4, <2>1, <2>2 DEF BracketInv, OnceInv, Busy
    <2>3. QED
      BY <1>1, <1>4, <2>1, <2>2, SweepStepInv DEF BracketTI, ArmingStages
  <1>6. CASE ClaimIntent(p) /\ IntentClaimable
    <2>1. PICK status, stage :
            /\ status \in {"CANCELED", "ARMED"} /\ stage \in {"idle", "decide"}
            /\ intent' = [intent EXCEPT !.status = status]
            /\ arming' = [arming EXCEPT ![p] = stage] /\ protected' = protected
            /\ arming[p] = "claim" /\ intent.status = "PENDING"
            /\ stage = "decide" => parent.filled # 0 /\ status = "ARMED"
      BY <1>6 DEF ClaimIntent, IntentClaimable
    <2>2. parent.status = "ENDED"
      BY <1>1, <2>1 DEF SweepInv
    <2>3. /\ intent' \in [status : {"NONE", "PENDING", "ARMED", "CANCELED"}, armedQty : Nat]
          /\ intent'.armedQty = intent.armedQty /\ intent'.status = status
      BY <1>1, <2>1 DEF BracketTI
    <2>4. ASSUME faults = 0 PROVE OnceInv'
      <3>1. OnceInv /\ \A q \in Instances : ~Busy(q)
        BY <2>1, <2>4 DEF BracketInv, OnceInv
      <3>2. protected = <<>>
        BY <2>1, <3>1 DEF OnceInv
      <3>3. \A q \in Instances : Busy(q)' => q = p /\ stage = "decide"
        BY <1>3, <1>4, <2>1, <3>1 DEF Busy
      <3>4. QED
        BY <1>3, <1>4, <2>1, <2>3, <3>1, <3>2, <3>3 DEF OnceInv
    <2>5. stage \in ArmingStages /\ (stage = "decide" => parent.filled > 0)
      BY <1>1, <2>1 DEF BracketTI, ArmingStages
    <2>6. QED
      BY <1>1, <1>4, <2>1, <2>2, <2>3, <2>4, <2>5, SweepStepInv DEF BracketTI
  <1>7. CASE ClaimIntent(p) /\ ~IntentClaimable
    <2>1. /\ arming' = [arming EXCEPT ![p] = "idle"] /\ intent' = intent /\ protected' = protected
          /\ arming[p] = "claim"
      BY <1>7 DEF ClaimIntent
    <2>2. parent.status = "ENDED"
      BY <1>1, <2>1 DEF SweepInv
    <2>3. ASSUME faults = 0 PROVE OnceInv'
      BY <1>3, <1>4, <2>1, <2>3 DEF BracketInv, OnceInv, Busy
    <2>4. QED
      BY <1>1, <1>4, <2>1, <2>2, <2>3, SweepStepInv DEF BracketTI, ArmingStages
  <1>8. CASE Decide(p)
    <2>1. PICK stage : /\ stage \in {"sell", "register"} /\ arming' = [arming EXCEPT ![p] = stage]
                       /\ intent' = intent /\ protected' = protected /\ arming[p] = "decide"
      BY <1>8 DEF Decide
    <2>2. parent.status = "ENDED" /\ parent.filled > 0 /\ stage \in ArmingStages
      BY <1>1, <2>1 DEF SweepInv, Busy, ArmingStages
    <2>3. ASSUME faults = 0 PROVE OnceInv'
      BY <1>3, <1>4, <2>1, <2>3 DEF BracketInv, OnceInv, Busy
    <2>4. QED
      BY <1>1, <1>4, <2>1, <2>2, <2>3, SweepStepInv DEF BracketTI
  <1>9. CASE \/ SellAtOnce(p)
             \/ RegisterLegs(p) /\ protected' # protected
    <2>1. PICK what : /\ what \in {"sold", "registered"} /\ protected' = Append(protected, what)
                      /\ arming' = [arming EXCEPT ![p] = "record"] /\ intent' = intent
                      /\ arming[p] \in {"sell", "register"}
      BY <1>9 DEF SellAtOnce, RegisterLegs
    <2>2. parent.status = "ENDED" /\ parent.filled > 0
      BY <1>1, <2>1 DEF SweepInv, Busy
    <2>3. protected \in Seq({"sold", "registered"})
      BY <1>1 DEF BracketTI
    <2>4. /\ protected' \in Seq({"sold", "registered"}) /\ protected' # <<>>
          /\ Len(protected') = Len(protected) + 1
      BY <2>1, <2>3
    <2>5. ASSUME faults = 0 PROVE OnceInv'
      <3>1. OnceInv /\ Busy(p)
        BY <2>1, <2>5 DEF BracketInv, Busy
      <3>2. protected = <<>> /\ intent.status = "ARMED" /\ \A q \in Instances : Busy(q) => q = p
        BY <2>1, <3>1 DEF OnceInv
      <3>3. Len(protected') <= 1
        BY <2>4, <3>2
      <3>4. \A q \in Instances : Busy(q)' => q = p /\ arming'[q] = "record"
        BY <1>3, <1>4, <2>1, <3>2 DEF Busy
      <3>5. QED
        BY <1>4, <2>1, <2>4, <3>2, <3>3, <3>4 DEF OnceInv
    <2>6. QED
      BY <1>1, <1>4, <2>1, <2>2, <2>4, <2>5, SweepStepInv DEF BracketTI, ArmingStages
  <1>10. CASE RegisterLegs(p) /\ protected' = protected
    <2>1. protected \in Seq({"sold", "registered"}) /\ protected' # Append(protected, "registered")
      BY <1>1, <1>10 DEF BracketTI
    <2>2. /\ intent' = [intent EXCEPT !.status = "PENDING"] /\ arming[p] = "register"
          /\ arming' = [arming EXCEPT ![p] = "idle"]
      BY <1>10, <2>1 DEF RegisterLegs, AfterRefusal
    <2>3. parent.status = "ENDED"
      BY <1>1, <2>2 DEF SweepInv
    <2>4. /\ intent' \in [status : {"NONE", "PENDING", "ARMED", "CANCELED"}, armedQty : Nat]
          /\ intent'.armedQty = intent.armedQty
      BY <1>1, <2>2 DEF BracketTI
    <2>5. ASSUME faults = 0 PROVE OnceInv'
      <3>1. OnceInv /\ Busy(p)
        BY <2>2, <2>5 DEF BracketInv, Busy
      <3>2. protected = <<>> /\ \A q \in Instances : Busy(q) => q = p
        BY <2>2, <3>1 DEF OnceInv
      <3>3. ASSUME NEW q \in Instances
            PROVE  ~Busy(q)'
        <4>1. arming'[q] = IF q = p THEN "idle" ELSE arming[q]
          BY <1>3, <2>2
        <4>2. QED
          BY <3>2, <4>1 DEF Busy
      <3>4. QED
        BY <1>4, <1>10, <2>4, <3>1, <3>2, <3>3 DEF OnceInv
    <2>6. QED
      BY <1>1, <1>4, <1>10, <2>1, <2>2, <2>3, <2>4, <2>5, SweepStepInv DEF BracketTI, ArmingStages
  <1>11. CASE RecordArmed(p)
    <2>1. /\ intent' = [intent EXCEPT !.armedQty = parent.filled] /\ arming[p] = "record"
          /\ arming' = [arming EXCEPT ![p] = "idle"] /\ protected' = protected
      BY <1>11 DEF RecordArmed
    <2>2. parent.status = "ENDED" /\ parent.filled \in Nat
      BY <1>1, <2>1 DEF SweepInv, BracketTI
    <2>3. /\ intent' \in [status : {"NONE", "PENDING", "ARMED", "CANCELED"}, armedQty : Nat]
          /\ intent'.status = intent.status
      BY <1>1, <2>1, <2>2 DEF BracketTI
    <2>4. ASSUME faults = 0 PROVE OnceInv'
      <3>1. OnceInv /\ Busy(p)
        BY <2>1, <2>4 DEF BracketInv, Busy
      <3>2. protected # <<>> /\ \A q \in Instances : Busy(q) => q = p
        BY <2>1, <3>1 DEF OnceInv
      <3>3. ASSUME NEW q \in Instances
            PROVE  ~Busy(q)'
        <4>1. arming'[q] = IF q = p THEN "idle" ELSE arming[q]
          BY <1>3, <2>1
        <4>2. QED
          BY <3>2, <4>1 DEF Busy
      <3>4. QED
        BY <1>4, <2>1, <2>3, <3>1, <3>2, <3>3 DEF OnceInv
    <2>5. QED
      BY <1>1, <1>4, <2>1, <2>2, <2>3, <2>4, SweepStepInv DEF BracketTI, ArmingStages
  <1>12. QED
    BY <1>5, <1>6, <1>7, <1>8, <1>9, <1>10, <1>11 DEF Sweep

\* A statement of the sweep that fails, and an instance that stops.
LEMMA FailBracketInv ==
    ASSUME BracketInv, NEW p \in Instances, ArmingFails(p) \/ CrashArming(p)
    PROVE  BracketInv'
  <1>1. faults' = faults + 1 /\ faults \in Nat /\ Instances' = Instances
    BY DEF ArmingFails, CrashArming, Crash, Fault, memory, Instances, BracketInv, BracketTI
  <1>2. /\ arming' = [arming EXCEPT ![p] = "idle"] /\ parent' = parent /\ protected' = protected
        /\ intent' = intent \/ (intent' = [intent EXCEPT !.status = "PENDING"] /\ arming[p] # "idle")
    BY DEF ArmingFails, CrashArming
  <1>3. BracketTI'
    BY <1>1, <1>2 DEF BracketInv, BracketTI, ArmingStages
  <1>4. SweepInv'
    BY <1>1, <1>2 DEF BracketInv, BracketTI, SweepInv, Busy
  <1>5. faults' # 0
    BY <1>1
  <1>6. QED
    BY <1>3, <1>4, <1>5 DEF BracketInv

LEMMA BracketInvStep ==
    ASSUME BracketInv, CondTI, [BracketNext]_allVars
    PROVE  BracketInv'
  <1>1. price \in Nat
    BY ConditionalAssumption DEF CondTI, MarketTI
  <1>2. ASSUME \/ \E p \in Instances, g \in Groups \ {Terms[Lower].group} : Register(p, g)
               \/ \E p \in Instances, c \in Rows : Cancel(p, c)
               \/ CondSystem \/ CondWorld \/ Losses,
               UNCHANGED bracketVars
        PROVE  BracketInv'
    BY <1>2, CondLater, QuietBracketInv
  <1>3. CASE UNCHANGED allVars
    <2>1. Later /\ UNCHANGED bracketVars
      BY <1>3 DEF allVars, condVars, Later, Instances
    <2>2. QED
      BY <2>1, QuietBracketInv
  <1>4. ASSUME NEW p \in Instances, Sweep(p) \/ ArmingFails(p) \/ CrashArming(p)
        PROVE  BracketInv'
    BY <1>4, SweepBracketInv, FailBracketInv
  <1>5. QED
    BY <1>1, <1>2, <1>3, <1>4, UserBracketInv DEF BracketNext

\* ----- what the sweep does to the rows
LEMMA NatQuotient == ASSUME NEW x \in Nat, NEW d \in Nat \ {0} PROVE x \div d \in Nat
  OBVIOUS

LEMMA NatProduct == ASSUME NEW x \in Nat, NEW y \in Nat PROVE x * y \in Nat
  OBVIOUS

LEMMA LegPriceIsNat ==
    ASSUME BracketTI, parent.filled > 0, NEW c
    PROVE  LegPrice(c) \in Nat
  <1>1. PICK a, n \in Nat : a = parent.amount /\ n = parent.filled /\ a \in Nat /\ n > 0
    BY DEF BracketTI
  <1>2. PICK avg \in Nat : avg = AveragePrice
    <2>1. PICK x \in Nat, d \in Nat \ {0} : x = 2 * a + n /\ d = 2 * n
      BY <1>1
    <2>2. x \div d \in Nat
      BY NatQuotient
    <2>3. QED
      BY <1>1, <2>1, <2>2 DEF AveragePrice
  <1>3. BpsBase \in Nat \ {0} /\ StopBps \in Nat /\ StopBps <= BpsBase /\ TakeBps \in Nat
    BY ConditionalAssumption, BracketAssumption
  <1>4. LowerPrice \in Nat
    <2>1. PICK k \in Nat : k = BpsBase - StopBps
      BY <1>3
    <2>2. avg * k \in Nat
      BY NatProduct
    <2>3. (avg * k) \div BpsBase \in Nat
      BY <1>3, <2>2, NatQuotient
    <2>4. QED
      BY <1>2, <2>1, <2>3 DEF LowerPrice, Larger
  <1>5. UpperPrice \in Nat
    <2>1. PICK k \in Nat : k = BpsBase + TakeBps
      BY <1>3
    <2>2. avg * k \in Nat
      BY NatProduct
    <2>3. PICK x \in Nat : x = avg * k + BpsBase - 1
      BY <1>3, <2>2
    <2>4. PICK q \in Nat : q = x \div BpsBase
      BY <1>3, NatQuotient
    <2>5. UpperPrice = Larger(IF Lower \in Wanted THEN LowerPrice + 1 ELSE 1, q)
      BY <1>2, <2>1, <2>3, <2>4 DEF UpperPrice
    <2>6. QED
      BY <1>4, <2>5 DEF Larger
  <1>6. QED
    BY <1>4, <1>5 DEF LegPrice

LEMMA SweepTI ==
    ASSUME BracketInv, CondTI, NEW p \in Instances, Sweep(p)
    PROVE  CondTI'
  <1>1. BracketTI /\ SweepInv
    BY DEF BracketInv
  <1>2. CASE SweepReads(p) \/ ClaimIntent(p) \/ Decide(p) \/ RecordArmed(p)
    BY <1>2, UnchangedTI DEF SweepReads, ClaimIntent, Decide, RecordArmed
  <1>3. CASE SellAtOnce(p)
    <2>1. /\ UNCHANGED memory /\ UNCHANGED market /\ row' = row /\ jobs' = jobs /\ writes' = writes
          /\ \/ sent' = sent
             \/ sent' = Append(sent, [row |-> "none", qty |-> parent.filled, left |-> parent.filled])
      BY <1>3 DEF SellAtOnce
    <2>2. parent.filled \in Nat /\ SentTI
      BY <1>1 DEF BracketTI, CondTI
    <2>3. SentTI'
      <3>1. CASE sent' = sent
        BY <2>2, <3>1 DEF SentTI
      <3>2. CASE sent' # sent
        BY <2>1, <2>2, <3>2, SentMore
      <3>3. QED
        BY <3>1, <3>2
    <2>4. RowTI' /\ Created \subseteq Created'
      BY <2>1 DEF CondTI, RowTI, Created
    <2>5. QED
      BY <2>1, <2>3, <2>4, MemKept DEF CondTI, JobTI, MarketTI, market
  <1>4. CASE RegisterLegs(p)
    <2>1. /\ UNCHANGED market /\ reload' = reload /\ inbox' = inbox /\ jobs' = jobs
          /\ writes' = writes /\ sent' = sent /\ arming[p] = "register"
          /\ \/ row' = row /\ waiting' = waiting
             \/ CreateRows(p, Wanted,
                   [c \in Wanted |-> [status |-> "WAITING", trigger |-> LegPrice(c),
                                      water |-> 0, qty |-> parent.filled]])
      BY <1>4 DEF RegisterLegs
    <2>2. RowTI /\ MemTI
      BY DEF CondTI
    <2>3. RowTI' /\ MemTI'
      <3>1. CASE row' = row /\ waiting' = waiting
        <4>1. RowTI' /\ Created \subseteq Created'
          BY <2>2, <3>1 DEF RowTI, Created
        <4>2. QED
          BY <2>1, <2>2, <3>1, <4>1, MemKept DEF memory
      <3>2. CASE ~(row' = row /\ waiting' = waiting)
        <4>1. PICK legs : legs = Wanted /\ legs \in SUBSET Rows
          BY BracketAssumption DEF Wanted
        <4>2. PICK newRow :
                  /\ newRow = [c \in legs |-> [status |-> "WAITING", trigger |-> LegPrice(c),
                                               water |-> 0, qty |-> parent.filled]]
                  /\ CreateRows(p, legs, newRow)
          BY <2>1, <3>2, <4>1
        <4>3. parent.filled > 0 /\ parent.filled \in Nat
          BY <1>1, <2>1 DEF SweepInv, Busy, BracketTI
        <4>4. \A c \in legs : LegPrice(c) \in Nat
          BY <1>1, <4>3, LegPriceIsNat
        <4>5. newRow \in [legs -> RowRecs] /\ \A c \in legs : newRow[c].status = "WAITING"
          BY <4>2, <4>3, <4>4 DEF RowRecs, Statuses
        <4>6. QED
          BY <2>1, <2>2, <4>1, <4>2, <4>5, CreatedTI
      <3>3. QED
        BY <3>1, <3>2
    <2>4. QED
      BY <2>1, <2>3 DEF CondTI, JobTI, MarketTI, SentTI, market
  <1>5. QED
    BY <1>2, <1>3, <1>4 DEF Sweep

LEMMA BracketCondTI ==
    ASSUME BracketInv, CondTI, [BracketNext]_allVars
    PROVE  CondTI'
  <1>1. CASE AttachBracket \/ EndParent \/ CancelIntent \/ UNCHANGED allVars
    BY <1>1, UnchangedTI DEF AttachBracket, EndParent, CancelIntent, allVars
  <1>2. CASE FillParent
    <2>1. /\ UNCHANGED memory /\ row' = row /\ jobs' = jobs /\ writes' = writes /\ sent' = sent
          /\ UNCHANGED <<future, price, maintenance>> /\ held' = held + 1
      BY <1>2 DEF FillParent
    <2>2. RowTI' /\ Created \subseteq Created'
      BY <2>1 DEF CondTI, RowTI, Created
    <2>3. held' \in Nat
      BY <2>1 DEF CondTI, MarketTI
    <2>4. QED
      BY <2>1, <2>2, <2>3, MemKept DEF CondTI, JobTI, MarketTI, SentTI
  <1>3. ASSUME NEW p \in Instances, ArmingFails(p)
        PROVE  CondTI'
    <2>1. /\ UNCHANGED memory /\ row' = row /\ jobs' = jobs /\ writes' = writes /\ sent' = sent
          /\ UNCHANGED market
      BY <1>3 DEF ArmingFails
    <2>2. RowTI' /\ Created \subseteq Created'
      BY <2>1 DEF CondTI, RowTI, Created
    <2>3. QED
      BY <2>1, <2>2, MemKept DEF CondTI, JobTI, MarketTI, SentTI, market
  <1>4. QED
    BY <1>1, <1>2, <1>3, RegisterTI, CancelTI, SystemTI, WorldTI, LossTI, CrashTI, SweepTI
       DEF BracketNext, BracketUser, CrashArming

\* The same of the indexes, rows and orders when a bracket is registered with them.
THEOREM BracketKeepsTypes == BracketSpec => []CondTypeOK
  <1>1. CondInit /\ BracketInit => CondTI /\ BracketInv
    BY InitCondTI, InitBracketInv
  <1>2. QED
    BY <1>1, BracketInvStep, BracketCondTI, CondTIImplies, PTL DEF BracketSpec

\* A position is protected once at most, by an intent that stays armed, whatever
\* the instances that sweep, the user and the price do in between, as long as no
\* statement fails and no instance stops.
THEOREM BracketsProtectOnce == BracketSpec => []ProtectedOnce
  <1>1. CondInit /\ BracketInit => CondTI /\ BracketInv
    BY InitCondTI, InitBracketInv
  <1>2. BracketInv => ProtectedOnce
    BY DEF BracketInv, OnceInv, ProtectedOnce
  <1>3. QED
    BY <1>1, <1>2, BracketInvStep, BracketCondTI, PTL DEF BracketSpec
=============================================================================
