SPECIFICATION Spec
CONSTANTS
  Plans <- AllPlans
  Capacities = {1}
INVARIANT FiltersOnKeys
