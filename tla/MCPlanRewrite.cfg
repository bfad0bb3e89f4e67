SPECIFICATION Spec
CONSTANTS
  Plans <- AllPlans
  Capacities = {0, 1, 3}
INVARIANTS SelectedInserted FallbackComplete DistinctPairsExact
