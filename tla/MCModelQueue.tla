---------------------------- MODULE MCModelQueue -----------------------------
(* Small instances of ModelQueue.  One input steers at the first step,      *)
(* another stimulates the right path at the last.                           *)
EXTENDS ModelQueue, TLC

CONSTANTS steer, gust, left, right,
  Steered   \* the paths of steer

MCChunkTimeout == [c \in Chunks |-> 1]
MCModelOf == [g \in Grants |-> CHOOSE m \in Models : TRUE]
MCPathsOf == [i \in Inputs |-> IF i = steer THEN Steered ELSE {right}]
MCTargetOf == [i \in Inputs |-> IF i = steer THEN 1 ELSE MaxStep]
MCLaneOf == [i \in Inputs |-> IF i = steer THEN "flight" ELSE "stimulus"]
Symmetry == Permutations(Nonces)
=============================================================================
