---------------------------- MODULE MarketMaker ----------------------------
(***************************************************************************)
(* runMarketMaker for the reserve account of one symbol: a ladder of LIMIT *)
(* orders on both sides of a center that follows the market, kept through  *)
(* a REST interface whose orders are filled and whose cancels take effect  *)
(* some time later.  One process at a time, which is restarted.            *)
(*                                                                         *)
(* Prices are in ticks.  Of a quantity the maker only asks whether it is   *)
(* still enough for its rung: OPEN rows are, PARTIAL rows are not.         *)
(***************************************************************************)
EXTENDS Integers, FiniteSetsExt

CONSTANTS
    Ids,            \* order ids, used again once nobody refers to them
    Levels,         \* rungs per side (LIQUIDITY_DISTANCE_TICKS)
    MinAdoptable,   \* MIN_ADOPTABLE_LEVELS_PER_SIDE
    FastTicks,      \* FAST_REPRICE_MIN_TICKS
    Prices,         \* bound: centers the market asks for
    MaxMoves,       \* bound: changes of that center
    MaxTroubles     \* bound: executions of the maker's orders, requests that
                    \* fail and crashes, together

ASSUME MakerAssumption ==
    /\ Ids \subseteq Nat \ {0} /\ Prices \subseteq Int
    /\ {Levels, MinAdoptable, FastTicks} \subseteq Nat \ {0}
    /\ {MaxMoves, MaxTroubles} \subseteq Nat

VARIABLES
    row,        \* orders: [state, side, price] or Gone
    asked,      \* rows with a cancel that has been accepted
    want,       \* the center asked for
    step,       \* where runMarketMaker is
    initialized,
    target,     \* the center this pass works towards
    center, staged, active, retiring, preserved, retirable,
    todo,       \* rungs this pass has still to look at
    drop,       \* ids whose DELETE comes next
    clocked,    \* retiring rows seen live before (lastAttemptAt)
    missing,    \* sides without a live row at the last look (emptySince)
    hasty,      \* a start was made before the cancels of what came before it were done
    moves, fills, faults

bookVars == <<row, asked>>
owned == <<active, retiring, preserved, retirable>>
seen == <<clocked, missing>>
memory == <<initialized, target, center, staged, owned, seen>>
bounds == <<moves, fills, faults, hasty>>
makerVars == <<bookVars, want, step, memory, todo, drop, bounds>>

Sides == {"BUY", "SELL"}
Other(side) == IF side = "BUY" THEN "SELL" ELSE "BUY"
Rungs == Sides \X (1..Levels)
SideOf(r) == r[1]
LevelOf(r) == r[2]

Gone == [state |-> "GONE"]
NoQuote == [id |-> 0]
NotStaged == [firstSide |-> "NONE"]

Live == {i \in Ids : row[i] # Gone}
Rows == {row[i] : i \in Live}

----------------------------------------------------------------------------
(***************************************************************************)
(* Ladders                                                                 *)
(***************************************************************************)
\* buildLiquidityLadder
PriceAt(c, r) == IF SideOf(r) = "BUY" THEN c - LevelOf(r) ELSE c + LevelOf(r)
Plan(c) == {[side |-> SideOf(r), price |-> PriceAt(c, r)] : r \in Rungs}

Cross(q, p) == \/ q.side = "BUY" /\ p.side = "SELL" /\ q.price >= p.price
               \/ q.side = "SELL" /\ p.side = "BUY" /\ q.price <= p.price

CanAddWithoutSelfTrade(q, quotes) == \A p \in quotes : ~Cross(q, p)

Coexist(plan, quotes) == \A q \in plan : CanAddWithoutSelfTrade(q, quotes)

Quotes(rungs) == {active[r] : r \in rungs} \ {NoQuote}

Known == Quotes(Rungs) \cup retiring \cup preserved \cup retirable

ActiveOnly == Quotes(Rungs)

\* trackedQuotes: every order that is not known to have ended.
Tracked == Known

\* guardedQuoteCenter: the center nearest to c whose ladder crosses no guard,
\* the higher of two.  It lies itself between the guards of both sides.
PricesOf(side, quotes) == {q.price : q \in {p \in quotes : p.side = side}}

Clamped(c, guards) ==
    Min(PricesOf("SELL", guards) \cup {Max(PricesOf("BUY", guards) \cup {c})})

\* c, c + 1, c - 1, c + 2, ...
Near(c, k) == IF k % 2 = 0 THEN c - k \div 2 ELSE c + (k + 1) \div 2

Fits(c, guards) == Clamped(c, guards) = c /\ Coexist(Plan(c), guards)

Fitting(c, guards) ==
    {k \in 0..2 * (Cardinality(guards) * Levels + 1) : Fits(Near(Clamped(c, guards), k), guards)}

GuardedCenter(c, guards) == Near(Clamped(c, guards), Min(Fitting(c, guards)))

Distance(c, d) == IF c < d THEN d - c ELSE c - d

\* isQuoteSufficient
Sufficient(quote, c, r) == quote # NoQuote /\ quote.price = PriceAt(c, r) /\ ~quote.low

Insufficient(quotes, c, rungs) == {r \in rungs : ~Sufficient(quotes[r], c, r)}

RungsOf(side) == {r \in Rungs : SideOf(r) = side}

----------------------------------------------------------------------------
(***************************************************************************)
(* The exchange                                                            *)
(***************************************************************************)
MakerInit ==
    /\ row = [i \in Ids |-> Gone] /\ asked = {}
    /\ want \in Prices
    /\ step = "start" /\ initialized = FALSE
    /\ center = want /\ target = want /\ staged = NotStaged
    /\ active = [r \in Rungs |-> NoQuote]
    /\ retiring = {} /\ preserved = {} /\ retirable = {}
    /\ todo = {} /\ drop = {} /\ clocked = {} /\ missing = {}
    /\ moves = 0 /\ fills = 0 /\ faults = 0 /\ hasty = FALSE

Move(c) ==
    /\ c # want /\ moves < MaxMoves
    /\ want' = c /\ moves' = moves + 1
    /\ UNCHANGED <<bookVars, step, memory, todo, drop, fills, faults, hasty>>

End(i) == /\ row' = [row EXCEPT ![i] = Gone]
          /\ asked' = asked \ {i}

\* Others trade with an order, in part or all of it.
Fill(i) ==
    /\ i \in Live /\ fills + faults < MaxTroubles
    /\ fills' = fills + 1
    /\ \/ End(i)
       \/ /\ row[i].state = "OPEN"
          /\ row' = [row EXCEPT ![i].state = "PARTIAL"]
          /\ UNCHANGED asked
    /\ UNCHANGED <<want, step, memory, todo, drop, moves, faults, hasty>>

\* A cancel takes effect.
Close(i) ==
    /\ i \in asked
    /\ End(i)
    /\ UNCHANGED <<want, step, memory, todo, drop, bounds>>

\* An order is accepted under an id that is not in use (Ids bounds them).  The
\* engine gives up an order that meets one of its owner's.
Unused(i) == i \notin Live /\ \A q \in Known : q.id # i
NewId == CHOOSE i \in Ids : Unused(i)

Accept(q) ==
    /\ \E i \in Ids : Unused(i)
    /\ row' = [row EXCEPT ![NewId] = [state |-> "OPEN", side |-> q.side, price |-> q.price]]
    /\ asked' = IF CanAddWithoutSelfTrade(q, Rows) THEN asked ELSE asked \cup {NewId}

\* DELETE of a row, of which nothing is left if it is not live.
AcceptCancel(i) == asked' = IF i \in Live THEN asked \cup {i} ELSE asked

\* A request fails before it reaches the exchange or after.
Fault == fills + faults < MaxTroubles /\ faults' = faults + 1
NoFault == UNCHANGED faults

----------------------------------------------------------------------------
(***************************************************************************)
(* Starting: the ladder a previous process left is adopted, or kept as a   *)
(* boundary until there is a new one.                                      *)
(***************************************************************************)
QuoteOf(i, low) == [id |-> i, side |-> row[i].side, price |-> row[i].price, low |-> low]

RowsFor(c, r) ==
    {i \in Live : row[i] = [state |-> "OPEN", side |-> SideOf(r), price |-> PriceAt(c, r)]}

\* adoptExistingLadder: an untouched row per rung of a ladder around c.  Of
\* several, quantities decide.
OneRowFor(c, r) == CHOOSE i \in RowsFor(c, r) : TRUE

Adopted(c) ==
    [r \in Rungs |-> IF RowsFor(c, r) = {} THEN NoQuote ELSE QuoteOf(OneRowFor(c, r), FALSE)]

\* What is not in a ladder is retired later, or kept when it has been traded.
Left(ladder, state) ==
    {QuoteOf(i, FALSE) : i \in {j \in Live : /\ row[j].state = state
                                            /\ \A r \in Rungs : ladder[r].id # j}}

Adoptable(c) ==
    LET left == Left(Adopted(c), "OPEN") \cup Left(Adopted(c), "PARTIAL")
    IN  /\ \A side \in Sides :
              Cardinality({r \in RungsOf(side) : RowsFor(c, r) # {}}) >= MinAdoptable
        /\ Coexist(left, Plan(c) \cup left)

Candidates ==
    {center} \cup {IF row[i].side = "BUY" THEN row[i].price + d ELSE row[i].price - d :
                    i \in Live, d \in 1..Levels}

NoLadder == [r \in Rungs |-> NoQuote]

BeginAfresh(c, ladder) ==
    /\ center' = c /\ target' = c /\ active' = NoLadder
    /\ retirable' = {} /\ preserved' = Left(NoLadder, "PARTIAL")
    /\ todo' = Rungs /\ drop' = Live
    /\ step' = "refresh"
    /\ UNCHANGED <<bookVars, want, initialized, staged, retiring, seen, bounds>>

\* The first ladder is posted as far as it is missing.
Begin(c, ladder) ==
    /\ center' = c /\ target' = c
    /\ active' = [r \in Rungs |-> IF ladder[r] = NoQuote THEN active[r] ELSE ladder[r]]
    /\ retirable' = retirable \cup Left(ladder, "OPEN")
    /\ preserved' = preserved \cup Left(ladder, "PARTIAL")
    /\ todo' = Insufficient(active', c, Rungs)
    /\ step' = "refresh"
    /\ UNCHANGED <<bookVars, want, initialized, staged, retiring, drop, seen, bounds>>

\* The center asked for comes first.
Adopt(c) ==
    /\ c \in Candidates /\ Adoptable(c) /\ (Adoptable(center) => c = center)
    /\ Begin(c, Adopted(c))

\* initializeWithPreservedReserveGuards, or nothing to inherit at all.  Rows
\* that cross each other leave no center: the maker starts again until they end.
StartAround ==
    /\ step = "start"
    /\ ~\E d \in Candidates : Adoptable(d)
    /\ Fitting(center, Rows) # {}
    /\ Begin(GuardedCenter(center, Rows), NoLadder)

----------------------------------------------------------------------------
(***************************************************************************)
(* A pass of the loop: look, decide, post what is missing, retire          *)
(***************************************************************************)
Seen(q) == [q EXCEPT !.low = row[q.id].state = "PARTIAL"]
StillLive(quotes) == {Seen(q) : q \in {p \in quotes : p.id \in Live}}

SidesWithout == {side \in Sides : \A q \in Rows : q.side # side}

Target(guards) == IF Fitting(want, guards) = {} THEN center ELSE GuardedCenter(want, guards)

NeverDue == {}

\* retryStaleRetiringCancels: the rows seen live, retiring, at an earlier look.
Due == clocked \cap {q.id : q \in retiring} \cap Live

\* reconcileQuotes: only what is seen to have ended is forgotten.  A cancel is
\* sent again when RETIRING_CANCEL_RETRY_MS have passed.
Look(due) ==
    /\ step = "look"
    /\ active' = [r \in Rungs |-> IF active[r].id \in Live THEN Seen(active[r]) ELSE NoQuote]
    /\ retiring' = StillLive(retiring)
    /\ preserved' = StillLive(preserved)
    /\ retirable' = StillLive(retirable)
    /\ clocked' = {q.id : q \in retiring'}
    /\ missing' = SidesWithout
    /\ target' = Target(preserved')
    /\ drop' = due
    /\ step' = "decide"
    /\ UNCHANGED <<bookVars, want, initialized, center, staged, todo, bounds>>

\* The last look is less than QUOTE_RECONCILE_MS ago, or the request failed.
LookLater ==
    /\ step = "look" /\ step' = "decide"
    /\ target' = Target(preserved)
    /\ UNCHANGED <<bookVars, want, initialized, center, staged, owned, seen, todo, drop, bounds>>

Forget(c) ==
    /\ step' = "start" /\ initialized' = FALSE
    /\ center' = c /\ target' = c /\ staged' = NotStaged
    /\ active' = NoLadder /\ retiring' = {} /\ preserved' = {} /\ retirable' = {}
    /\ todo' = {} /\ drop' = {} /\ clocked' = {} /\ missing' = {}
    /\ hasty' = (hasty \/ asked # {})
    /\ UNCHANGED <<bookVars, want, moves, fills>>

\* OneSidedQuoteWatchdog: a side without any row at one look after another.
Stall == step = "look" /\ missing \cap SidesWithout # {} /\ Forget(want) /\ NoFault

Crash == step # "start" /\ Forget(want) /\ Fault

Deciding == step = "decide" /\ drop = {}

\* beginStagedQuoteMigration
MustRelocate ==
    /\ staged = NotStaged /\ retiring = {} /\ retirable = {}
    /\ Distance(center, target) >= FastTicks

BeginRelocation ==
    /\ Deciding /\ MustRelocate
    /\ staged' = [firstSide |-> IF center < target THEN "SELL" ELSE "BUY", center |-> target]
    /\ UNCHANGED <<bookVars, want, initialized, step, target, center, owned, seen, todo, drop, bounds>>

\* advanceStagedQuoteMigration: the second side waits until no row of the first
\* one is left where it was.
Absent(side) == Insufficient(active, staged.center, RungsOf(side))

FirstSideStands ==
    /\ Absent(staged.firstSide) = {}
    /\ \A q \in retiring : q.side # staged.firstSide

PostSide(side) ==
    /\ Deciding /\ staged # NotStaged
    /\ Absent(side) # {} /\ (side # staged.firstSide => FirstSideStands)
    /\ todo' = Absent(side) /\ step' = "staged"
    /\ UNCHANGED <<bookVars, want, memory, drop, bounds>>

AwaitRetirement ==
    /\ Deciding /\ staged # NotStaged
    /\ Absent(staged.firstSide) = {} /\ ~FirstSideStands
    /\ step' = "look"
    /\ UNCHANGED <<bookVars, want, memory, todo, drop, bounds>>

FinishRelocation ==
    /\ Deciding /\ staged # NotStaged
    /\ FirstSideStands /\ Absent(Other(staged.firstSide)) = {}
    /\ center' = staged.center /\ staged' = NotStaged /\ step' = "look"
    /\ UNCHANGED <<bookVars, want, initialized, target, owned, seen, todo, drop, bounds>>

\* remapActiveQuotesForPlan: rows keep their price and change their rung.
At(c, r) == {q \in Quotes(RungsOf(SideOf(r))) : q.price = PriceAt(c, r)}
Remapped(c) == [r \in Rungs |-> IF At(c, r) = {} THEN NoQuote ELSE CHOOSE q \in At(c, r) : TRUE]

Arrange(c) ==
    /\ Deciding /\ staged = NotStaged /\ ~MustRelocate
    /\ center' = c
    /\ active' = Remapped(c)
    /\ retirable' = retirable \cup {q \in Quotes(Rungs) : \A r \in Rungs : active'[r] # q}
    /\ todo' = Insufficient(active', c, Rungs)
    /\ step' = "refresh"
    /\ UNCHANGED <<bookVars, want, initialized, target, staged, retiring, preserved, seen, drop, bounds>>

Refresh == Arrange(center)

\* moveGuardedQuoteCenter, canPlanCoexist: a tick at a time, while both ladders
\* fit beside each other, and not sooner than ORDINARY_RECENTER_MIN_INTERVAL_MS.
Slide(c) ==
    /\ Distance(c, target) < Distance(center, target) /\ Fits(c, preserved)
    /\ retirable = {} /\ Insufficient(active, center, Rungs) = {} /\ Coexist(Plan(c), Tracked)
    /\ Arrange(c)

Slides == step = "decide" /\ \E c \in {center - 1, center + 1} : Slide(c)

----------------------------------------------------------------------------
(***************************************************************************)
(* Requests                                                                *)
(***************************************************************************)
\* replaceQuote, rung by rung from the best one; the rungs of a relocating side
\* go all at once.
Visits(r) ==
    /\ r \in todo
    /\ \/ step = "staged"
       \/ step = "refresh" /\ drop = {} /\ \A p \in todo : LevelOf(r) <= LevelOf(p)
    /\ todo' = todo \ {r}

Desired(r) ==
    [id |-> NewId, side |-> SideOf(r), low |-> FALSE,
     price |-> PriceAt(IF step = "staged" THEN staged.center ELSE center, r)]

\* A rung that would trade with an order of the maker's own is left out.  The
\* row it replaces is retired after it.
Post(r) ==
    LET old == {active[r]} \ {NoQuote} IN
    /\ Visits(r)
    /\ IF CanAddWithoutSelfTrade(Desired(r), Tracked)
       THEN /\ Accept(Desired(r))
            /\ active' = [active EXCEPT ![r] = Desired(r)]
            /\ retiring' = retiring \cup old
            /\ drop' = drop \cup {q.id : q \in old}
       ELSE UNCHANGED <<row, asked, active, retiring, drop>>
    /\ UNCHANGED <<want, initialized, step, target, center, staged, preserved, retirable, seen, bounds>>

\* Refused, or failed on its way.
PostFails(r) ==
    /\ Visits(r) /\ CanAddWithoutSelfTrade(Desired(r), Tracked)
    /\ Fault
    /\ UNCHANGED <<bookVars, want, step, memory, drop, moves, fills, hasty>>

Delete(i) ==
    /\ i \in drop /\ drop' = drop \ {i}
    /\ \/ AcceptCancel(i) /\ NoFault
       \/ UNCHANGED asked /\ Fault
    /\ UNCHANGED <<row, want, step, memory, todo, moves, fills, hasty>>

\* matchesPlan: what is retirable goes when the whole ladder stands.
LadderComplete == Insufficient(active, center, Rungs) = {}

EndPass ==
    /\ todo = {} /\ drop = {} /\ step \in {"staged", "refresh"}
    /\ IF step = "refresh" /\ retirable # {} /\ LadderComplete
       THEN step' = "retire" /\ UNCHANGED initialized
       ELSE step' = "look" /\ initialized' = TRUE
    /\ UNCHANGED <<bookVars, want, target, center, staged, owned, seen, todo, drop, bounds>>

\* retireRetirableQuotes: a request that fails ends the pass, and a start is
\* made again, which may adopt what is retiring.
Retire(q) ==
    /\ step = "retire"
    /\ retiring' = retiring \cup {q} /\ retirable' = retirable \ {q}
    /\ \/ /\ AcceptCancel(q.id) /\ NoFault
          /\ initialized' = (initialized \/ retirable' = {})
          /\ step' = IF retirable' = {} THEN "look" ELSE step
       \/ /\ AcceptCancel(q.id) \/ UNCHANGED asked
          /\ Fault /\ UNCHANGED initialized
          /\ step' = IF initialized THEN "look" ELSE "start"
    /\ hasty' = (hasty \/ step' = "start")
    /\ UNCHANGED <<row, want, target, center, staged, active, preserved, seen, todo, drop,
                   moves, fills>>

----------------------------------------------------------------------------
Loop ==
    \/ step = "start" /\ \E c \in Candidates : Adopt(c)
    \/ StartAround
    \/ Look({}) \/ Look(Due) \/ LookLater
    \/ BeginRelocation \/ AwaitRetirement \/ FinishRelocation \/ Refresh \/ Slides
    \/ \E side \in Sides : PostSide(side)
    \/ \E r \in todo : Post(r) \/ PostFails(r)
    \/ \E i \in drop : Delete(i)
    \/ EndPass
    \/ \E q \in retirable : Retire(q)

Exchange ==
    \/ \E i \in Live : Fill(i)
    \/ \E i \in asked : Close(i)

MakerNext == Loop \/ Exchange \/ Stall \/ Crash \/ \E c \in Prices : Move(c)

\* The loop goes on, the intervals between two slides and between two cancels
\* of a row pass, and a cancel that was accepted takes effect.
MakerFairness ==
    /\ WF_makerVars(Loop)
    /\ SF_makerVars(Look(Due)) /\ SF_makerVars(Slides)
    /\ WF_makerVars(\E i \in asked : Close(i))

MakerSpec == MakerInit /\ [][MakerNext]_makerVars /\ MakerFairness

----------------------------------------------------------------------------
(***************************************************************************)
(* No order of the maker can trade with another one of it: ladders slide,  *)
(* relocate and are inherited while cancels are lost or late ("strict      *)
(* comparison with both active and cancellation-pending opposite-side      *)
(* quotes").                                                               *)
(***************************************************************************)
NoSelfCross == \A i, j \in Live : ~Cross(row[i], row[j])

(***************************************************************************)
(* Post before cancel: as long as nobody trades with them, a side that has *)
(* orders keeps some, through slides, relocations, restarts and failures.  *)
(* (A start before the cancels of what came before it are done may adopt   *)
(* rows that are about to go.)                                             *)
(***************************************************************************)
SidesStayQuoted ==
    [][fills' = 0 /\ ~hasty =>
          \A side \in Sides :
             (\E i \in Live : row[i].side = side)
             => (\E i \in Ids : row'[i] # Gone /\ row'[i].side = side)]_makerVars

(***************************************************************************)
(* Once the market rests, the whole ladder stands around the center asked  *)
(* for and nothing else of the maker is left but traded rows of another    *)
(* process, although a cancel was lost or a process ended on the way       *)
(* ("2026-09-24: KABU had no bids for two hours").                         *)
(***************************************************************************)
LadderStands ==
    /\ staged = NotStaged /\ center = target
    /\ preserved = {} => center = want
    /\ \A r \in Rungs : /\ Sufficient(active[r], center, r)
                        /\ active[r].id \in Live /\ row[active[r].id].state = "OPEN"
    /\ Live = {q.id : q \in Quotes(Rungs) \cup preserved}

LadderReturns == <>[]LadderStands
=============================================================================
