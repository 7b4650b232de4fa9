SPECIFICATION Spec
CONSTANTS
  Node = {x, y, z}
  NoNode = NoNode
  Width = 4
  Durations = {0, 1, 2}
  Periods = {0, 2}
  Late = 1
  AvoidForever = TRUE
SYMMETRY Perms
INVARIANTS TypeOK DueOrder ParkedOnlyWhenEmpty BoundedLateness
PROPERTIES NeverEarly NodesKept
