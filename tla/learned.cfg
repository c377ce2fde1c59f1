SPECIFICATION Spec
CONSTANTS
  Driver = {d1, d2}
  Goal = 2
  MaxSteps = 2
  MaxFailures = 2
  Starts = {0, 1}
  Worker = {w1, w2, w3}
  Field = {title, price}
  Required = {title}
  Threshold = 2
  MaxLLMCalls = 2
  Layouts = 2
  MaxFaults = 1
INVARIANTS BudgetBounded EvictionOnTime
PROPERTIES SelectorsStay
SYMMETRY Actors
