SPECIFICATION Spec
CONSTANTS
  b1 = b1
  b2 = b2
  own1 = own1
  own2 = own2
  common = common
  debug = debug
  release = release
  Empty = empty
  Torn = torn
  Binary = {b1, b2}
  Library = {own1, own2, common}
  BuildType = {debug, release}
  Uses <- SharedUses
  BuildTypes <- TwoTypes
  Workers = 2
INVARIANTS
  PrivateFilesMatch
