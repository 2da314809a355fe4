--------------------------- MODULE MCAccountLock ---------------------------
(***************************************************************************)
(* Two settlements that need the same two accounts, and an order that      *)
(* changes only a holding of one of them.                                  *)
(***************************************************************************)
EXTENDS AccountLock, TLC

CONSTANTS c1, c2, c3

MCStart == [balance |-> 1, holding |-> 1]

MCJobs ==
    c1 :> [ids |-> {1, 2}, balance |-> 1 :> -1 @@ 2 :> 1, holding |-> 1 :> 1 @@ 2 :> 0] @@
    c2 :> [ids |-> {1, 2}, balance |-> 1 :> 1 @@ 2 :> -1, holding |-> 1 :> 0 @@ 2 :> 1] @@
    c3 :> [ids |-> {1}, balance |-> 1 :> 0, holding |-> 1 :> -1]
=============================================================================
