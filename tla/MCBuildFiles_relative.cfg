SPECIFICATION Spec
CONSTANTS
  PackageWord = {"a", "b", "BUILD"}
  RuleWord = {"x", "y", "..."}
  VersionText = {"1.0"}
  Garbage = garbage
  Package <- Packages
  IdString <- AllIds
  MaxRules = 2
  MaxDeps = 1
  FileSets <- RelativeFiles
  CommandLines <- OneArgument
INVARIANTS
  RelativeFromPwd
