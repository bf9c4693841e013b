SPECIFICATION Spec
CONSTANTS
  Right <- TwoBlocks
  Served <- Contents
  Sha256s <- Spelled
INVARIANTS
  VerdictIsRight
