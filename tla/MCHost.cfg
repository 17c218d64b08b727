CONSTANTS
  u1 = u1
  u2 = u2
  self = self
  signed = signed
  foreign = foreign
  OurCA = OurCA
  None = None
  Empty = Empty
  Units <- MCUnits
  Leaves <- MCLeaves
  SelfSigned = self
  Anchor <- MCAnchor
  CN <- MCCN
  AllowList = {OurCA}
  Migrates = TRUE
  MaxRuns = 3
  MaxFaults = 1
SPECIFICATION HSpec
INVARIANT HostTypeOK
PROPERTIES TrustHolds ClientKeyKept 
SYMMETRY MCSymmetry
CHECK_DEADLOCK FALSE
