--------------------------- MODULE MCMarketMaker ---------------------------
(***************************************************************************)
(* The market moves once: by two ticks, which the ladder slides, or by     *)
(* three, for which it relocates.  One thing goes wrong, at any point.     *)
(***************************************************************************)
EXTENDS MarketMaker

MCIds == 1..14

\* Bounds: the first center, and the cancels on their way at once.
MCInit == MakerInit /\ want = 4
MCNext == MakerNext /\ Cardinality(asked') <= 2

MCSpec == MCInit /\ [][MCNext]_makerVars /\ MakerFairness
=============================================================================
