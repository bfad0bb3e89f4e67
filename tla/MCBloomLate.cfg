SPECIFICATION FairSpec
CONSTANTS
  p1 = p1  p2 = p2
  k1 = k1  k2 = k2  s1 = s1  s2 = s2
  Parts = {p1, p2}
  Builds = {p1}
  Keys = {k1, k2}
  Null = Null
  Strings = {s1, s2}
  KeyString <- Distinct
  NullEqualsNull = FALSE
  Plans <- LatePlan
  MayFail = FALSE
  MayDrop = FALSE
  LeftChoices <- OneLeft
  RightChoices <- OneRight
PROPERTY Termination
CHECK_DEADLOCK FALSE
