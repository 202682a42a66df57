---------------------------- MODULE MCExperiment ----------------------------
EXTENDS Experiment, TLC

(* Nothing tells the members other than the gateway apart.                 *)
Replicas == Permutations(Nodes \ {Gateway})
=============================================================================
