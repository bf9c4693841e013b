SPECIFICATION LinkSpec
CONSTANTS
  a = a
  b = b
  c = c
  d = d
  Rule = {a, b, c, d}
  MaxArgs = 3
  MaxDeps = 2
  DepGraphs <- SmallGraphs
  ArgLists <- FewArgs
INVARIANTS
  LinkTypeOK
  ComponentsAreCycles
  DepsPointBack
  ExactWhenIndependent
  DependentsFirst
  UsersFirst
  LineComplete
  RootComplete
PROPERTIES
  LinkEnds
