---------------------------- MODULE MCForkReplay ----------------------------
(* An instance of ForkReplay for TLC: two forks of one run that writes a   *)
(* vertex and adds an edge; their continuations write the vertex again.    *)
EXTENDS ForkReplay

CONSTANTS run, f1, f2, missing, x, none

MCForks == {f1, f2}
MCParentRun ==
  << [vertex |-> x, data |-> "old"], [vertex |-> none, data |-> "edge"] >>
MCContinuation == << [vertex |-> x, data |-> "forked"] >>
=============================================================================
