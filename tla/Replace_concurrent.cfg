SPECIFICATION Spec
CONSTANTS
  Updaters = {u1, u2}
  Versions = {v1, v2}
  Old = old
  None = none
  Hole = hole
  Blocks = 3
  MinBlocks = 1
  OneAtATime = FALSE
SYMMETRY MCSymmetry
INVARIANT WholeAtRest
