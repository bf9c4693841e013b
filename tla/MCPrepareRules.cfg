SPECIFICATION Spec
CONSTANTS
  a = a
  b = b
  c = c
  Rule = {a, b, c}
  Workers = 2
  DepGraphs <- AllGraphs
  CCSets <- SomeCC
  BadSets <- BadB
INVARIANTS
  TypeOK
  EarlyIsFound
  OneSeesTheOther
PROPERTIES
  PrepareEnds
