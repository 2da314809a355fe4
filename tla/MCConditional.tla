--------------------------- MODULE MCConditional ---------------------------
(***************************************************************************)
(* Conditional orders and brackets.  A behaviour follows one scenario:     *)
(* which group of rows is used, by how many instances, at which prices.    *)
(***************************************************************************)
EXTENDS Brackets, TLC

VARIABLE scenario

Leg(direction, trigger, qty, group, bps) ==
    [side |-> "SELL", direction |-> direction, trigger |-> trigger, qty |-> qty,
     group |-> group, bps |-> bps]

MCTerms == "lower"    :> Leg("AT_OR_BELOW", 1, 2, "oco", 0)
        @@ "upper"    :> Leg("AT_OR_ABOVE", 3, 2, "oco", 0)
        @@ "trailing" :> Leg("AT_OR_BELOW", 0, 1, "trailing", 1)
        @@ "stop"     :> Leg("AT_OR_BELOW", 0, 1, "bracket", 0)
        @@ "take"     :> Leg("AT_OR_ABOVE", 0, 1, "bracket", 0)

MCRows == DOMAIN MCTerms

One == {CHOOSE p \in Apis : TRUE}

Scenario(group, isFuture, instances, prices, n, faulty) ==
    [group |-> group, future |-> isFuture, instances |-> instances, prices |-> prices,
     trades |-> n, faulty |-> faulty]

Scenarios == {
    Scenario("oco",      FALSE, One,  {1, 3},    2, FALSE),
    Scenario("oco",      TRUE,  One,  {1, 3},    1, TRUE),
    Scenario("trailing", FALSE, One,  {2, 3, 4}, 2, TRUE),
    Scenario("trailing", FALSE, Apis, {1, 3},    1, FALSE),
    Scenario("trailing", TRUE,  One,  {1, 4},    2, FALSE),
    Scenario("bracket",  FALSE, Apis, {1},       0, FALSE),
    Scenario("bracket",  FALSE, One,  {1, 3},    1, FALSE),
    Scenario("bracket",  FALSE, One,  {1},       0, TRUE)}

MCInit ==
    /\ CondInit /\ BracketInit
    /\ scenario \in Scenarios
    /\ future = scenario.future
    /\ Instances = scenario.instances

CondStep ==
    \/ \E p \in One : Register(p, scenario.group)
    \/ \E p \in Instances : \E c \in Legs(scenario.group) \ {Lower, Upper} : Cancel(p, c)
    \/ CondSystem
    \/ \E x \in scenario.prices : trades < scenario.trades /\ Trade(x)
    \/ \E i \in DOMAIN sent : \E n \in {0, sent[i].left} : EndOrder(i, n)

MCNext ==
    /\ UNCHANGED scenario
    /\ \/ /\ \/ CondStep
             \/ (scenario.future /\ BeginMaintenance)
             \/ EndMaintenance
             \/ (scenario.faulty /\ Losses)
          /\ UNCHANGED bracketVars
       \/ scenario.faulty /\ \E p \in Instances : CrashArming(p)
       \/ /\ scenario.group = "bracket"
          /\ \/ BracketUser
             \/ \E p \in Instances : Sweep(p)
             \/ \E p \in Instances : scenario.faulty /\ ArmingFails(p)

mcVars == <<allVars, scenario>>

MCSpec == MCInit /\ [][MCNext]_mcVars /\ BracketFairness
=============================================================================
