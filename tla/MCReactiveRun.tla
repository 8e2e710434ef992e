--------------------------- MODULE MCReactiveRun ----------------------------
(* An instance of ReactiveRun for TLC: one model, candidates that pass    *)
(* and fail.                                                               *)
EXTENDS ReactiveRun

CONSTANTS m1, good, bad, none
=============================================================================
