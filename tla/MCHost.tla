------------------------------- MODULE MCHost -------------------------------
EXTENDS Host, TLC

CONSTANTS u1, u2, self, signed, foreign, OurCA

MCUnits == {u1, u2}
MCLeaves == {self, signed, foreign}
MCAnchor == (self :> None) @@ (signed :> OurCA) @@ (foreign :> Empty)
MCSymmetry == Permutations(MCUnits)
MCCN == (self :> "a") @@ (signed :> "b") @@ (foreign :> None)
=============================================================================
