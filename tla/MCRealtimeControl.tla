-------------------------- MODULE MCRealtimeControl --------------------------
(* A small instance of RealtimeControl for TLC: two of the three axes, which *)
(* nothing but their names tells apart, and watchdogs of three ticks.        *)
EXTENDS RealtimeControl, TLC

CONSTANTS x, y

TwoAxes == {x, y}
AxesSymmetry == Permutations(TwoAxes)
==============================================================================
