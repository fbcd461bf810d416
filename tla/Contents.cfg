CONSTANTS
  s1 = s1
  s2 = s2
  Sessions = {s1, s2}
  Paths <- Wide
  x1 = x1
  x2 = x2
  Contents = {x1, x2}
  Links = {}
  Ignored <- OneIgnored
  MaxLayers = 3
  y1 = y1
  y2 = y2
  Words = {y1, y2}
  MaxLines = 3
SPECIFICATION ContentsSpec
SYMMETRY Symmetry
INVARIANTS
  StackReadersAgree
  MergeCorrect
PROPERTIES
  StackSquashKeepsView
  PublishKeepsWork
CHECK_DEADLOCK FALSE
