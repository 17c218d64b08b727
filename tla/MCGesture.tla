----------------------------- MODULE MCGesture -----------------------------
(* Gesture for TLC.  The words are the fixed sequences of COUNT_COLOR, where *)
(* the confirm and the change-sequence patterns coincide, one sequence of    *)
(* the user's own, and the two rehearsal sequences.                          *)
EXTENDS Gesture
CONSTANTS red4, red, orange2, yellow3, own, blue2, cyan2, hostOnly
MCWords == {red4, red, orange2, yellow3, own, blue2, cyan2}
MCHostSeqs == {own, hostOnly}
=============================================================================
