SPECIFICATION Spec
CONSTANTS
  Updaters = {u1, u2, u3}
  Versions = {v1, v2}
  Old = old
  None = none
  Hole = hole
  Blocks = 3
  MinBlocks = 1
  OneAtATime = TRUE
SYMMETRY MCSymmetry
INVARIANTS
  TypeOK
  NoTempLeft
PROPERTIES
  ReplacesAtomically
  AppliedOwnRelease
