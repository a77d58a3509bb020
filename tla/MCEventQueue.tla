------------------------------ MODULE MCEventQueue ------------------------------
(* TLC instances of EventQueue: a short ring, so that the indices wrap and a    *)
(* search meets elements of earlier laps.                                       *)
EXTENDS EventQueue

CONSTANTS e1, e2, e3, e4

MCEvent4 == {e1, e2, e3, e4}
=================================================================================
