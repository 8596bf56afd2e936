SPECIFICATION Spec
CONSTANTS
  m1 = m1
  g1 = g1
  g2 = g2
  Groups <- MCGroups
  Grace = 3
  MaxPeriod = 2
  Panels = {p1, p2}
  Users = {u1}
  Count = 2
  MinPanels = 1
  Missing = 2
  StreakAge = 1
  MaxCycle = 2
  DryRun = FALSE
  Conditions <- MCConditions
  Trigger = 2
  NoDataTrigger = 2
  LossWindow = 1
  RebootMin = 1
  ShutdownMin = 2
  MaxEdges = 2
  Pulsers = {w1, w2}
INVARIANTS ShutdownIsJustified ToldOncePerIncident
PROPERTY DangerEndsInShutdown
