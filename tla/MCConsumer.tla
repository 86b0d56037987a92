----------------------------- MODULE MCConsumer -----------------------------
(***************************************************************************)
(* Preparation and ModelConsumer side by side for TLC.  The two share the  *)
(* core of the code but none of their variables here: Preparation is about *)
(* the time before the run, ModelConsumer about the run.  `stage` says     *)
(* which of them a behaviour is about, so their states add instead of      *)
(* multiplying.                                                            *)
(***************************************************************************)
EXTENDS Preparation, ModelConsumer

VARIABLE stage

MCInit == /\ PreparationInit /\ ConsumerInit
          /\ stage \in {"before the run", "during the run"}
          /\ stage = "before the run" => installed = Groups /\ machine = Fresh
          /\ installed \in {Groups, {Motor}}
          /\ installed # Groups => machine.life = "RUNNING"
MCNext ==
  /\ UNCHANGED stage
  /\ \/ stage = "before the run" /\ PreparationNext /\ UNCHANGED consumerVars
     \/ stage = "during the run" /\ ConsumerNext /\ UNCHANGED preparationVars
MCSpec == MCInit /\ [][MCNext]_<<stage, preparationVars, consumerVars>>

Symmetric == Permutations(PrepareIds) \cup Permutations(Sessions)
=============================================================================
