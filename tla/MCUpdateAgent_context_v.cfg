SPECIFICATION AgentSpec
CONSTANTS
  o1 = o1
  o2 = o2
  p1 = p1
  p2 = p2
  w1 = w1
  w2 = w2
  None = None
  Operation = {o1, o2}
  Plan = {p1, p2}
  World = {w1, w2}
  MaxFaults = 0
  MaxCrashes = 0
SYMMETRY MCSymmetry
PROPERTIES
  PlanMatchesContext
