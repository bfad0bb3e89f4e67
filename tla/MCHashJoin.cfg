CONSTANTS
  Parts = {0, 1}
  Keys = {1, 2}
  Null = Null
  Hash <- MCHash
  Route <- MCRoute
  JoinChoices <- MCJoinChoices
  LeftChoices <- MCLeft
  ProbeChoices <- MCProbe
  RejectChoices <- MCRejects
  MayFail = TRUE
SPECIFICATION FairSpec
INVARIANT ResultExact
INVARIANT FilterAdmitsMatches
INVARIANT UnmatchedIsFinal
PROPERTY Termination
