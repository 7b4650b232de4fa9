SPECIFICATION Spec
CONSTANTS
  Node = {x, y}
  NoNode = NoNode
  Width = 4
  Durations = {0, 2}
  Periods = {0, 1}
  Late = 1
  AvoidForever = FALSE
INVARIANT ParkedOnlyWhenEmpty
