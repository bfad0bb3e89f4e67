SPECIFICATION FairSpec
CONSTANTS
  t1 = t1  t2 = t2  p1 = p1  p2 = p2  m1 = m1  m2 = m2
  Threads = {t1, t2}
  Paths <- MCPaths
  Models <- MCModels
  MaxChanges = 2
INVARIANTS AnswersAgree
PROPERTIES LoadedOnce CallReturns
