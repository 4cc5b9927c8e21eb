-------------------------- MODULE MCPositionManager --------------------------
(***************************************************************************)
(* A small instance of PositionManager for TLC.                            *)
(***************************************************************************)
EXTENDS PositionManager, TLC

(* A Long and a Short with a stop one unit of risk away, each with and one *)
(* of them without a target, and one as the strategy's on_fill adds it.    *)
MCOpenings ==
  {[direction |-> "Long", entry |-> 2, stop |-> 1, target |-> {}, risk |-> 1],
   [direction |-> "Short", entry |-> 4, stop |-> 5, target |-> {1}, risk |-> 1],
   [direction |-> "Long", entry |-> 2, stop |-> 2, target |-> {}, risk |-> 0]}

SecuritySymmetry == Permutations(Securities)

=============================================================================
