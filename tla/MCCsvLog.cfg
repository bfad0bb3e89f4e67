SPECIFICATION Spec
CONSTANTS
  w1 = w1  w2 = w2
  Logs = {"metrics", "predictions"}
  Writers = {w1, w2}
  Candidates = 2
  FmtPieces = 2
  MaxRuns = 2
  MaxFailures = 1
SYMMETRY Symmetry
INVARIANTS HeaderFirst HeadersOfOneRun DoneMeansWritten
