--------------------------- MODULE MCOrderManager ---------------------------
(***************************************************************************)
(* A small instance of OrderManager for TLC: two orders, each of its own   *)
(* security, so that a cancel-all may take one or both.                    *)
(***************************************************************************)
EXTENDS OrderManager, TLC

CONSTANTS o1, o2, etf1, etf2

MCSecurityOf == (o1 :> etf1) @@ (o2 :> etf2)

LevelSymmetry == Permutations(Levels)

=============================================================================
