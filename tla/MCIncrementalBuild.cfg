SPECIFICATION Spec
CONSTANTS
  lib = lib
  app = app
  tool = tool
  f = f
  g = g
  h = h
  k = k
  odd = odd
  IllTyped = ill
  None = none
  MaxEdits = 2
  MaxFailures = 1
  Few = 1
  Extension <- Extensions
  Includes <- SomeIncludes
  Torn <- CutNames
  Setup <- Projects
  Project <- Names
  First <- BaseOnly
  Changes <- SomeChanges
INVARIANTS
  TypeOK
  ConfigCurrent
  MakeIsExact
  SettledIsQuiet
PROPERTIES
  
  EveryMakeEnds
