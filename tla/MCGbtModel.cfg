SPECIFICATION FairSpec
CONSTANTS
  Ensembles <- MCEnsembles
  Vectors <- MCVectors
  InitScore = 4
  LearningRate = 3
INVARIANTS IndexInTree ScoreIsClassifiers
PROPERTY Returns
