SPECIFICATION Spec
CONSTANTS
  bin = bin
  lib1 = lib1
  lib2 = lib2
  src1 = src1
  src2 = src2
  Unread = unread
  Rule = {bin, lib1, lib2}
  Keys <- SmallKeys
  Dependencies <- SmallDeps
  MaxRestarts = 1
INVARIANTS
  NoGaps
  HonestCount
  ReachesHundred
