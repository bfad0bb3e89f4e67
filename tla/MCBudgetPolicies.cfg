SPECIFICATION BothSpec
CONSTANTS
  N = 3
  WeightChoices = {500, 2048, 3500}
  ValueChoices = {0, 2, 3}
  BudgetChoices = {0, 900, 3072, 5000}
INVARIANTS Feasible RivalNeverWins OvershootBounded
INVARIANTS MatchesReference GreedyWithinBudget LosesToBetter ExactBeatsGreedy
