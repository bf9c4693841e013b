SPECIFICATION Spec
CONSTANTS
  Blank = blank
  Hole = hole
  Edition = {1, 2}
  Rule <- Rules3
  Files <- TwoFiles
  Content <- Contents
INVARIANTS
  DoneIsRight
PROPERTIES
  RightIsUntouched
