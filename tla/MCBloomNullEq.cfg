SPECIFICATION Spec
CONSTANTS
  p1 = p1  p2 = p2
  k1 = k1  k2 = k2  s1 = s1  s2 = s2
  Parts = {p1}
  Builds = {p1}
  Keys = {k1, k2}
  Null = Null
  Strings = {s1, s2}
  KeyString <- Distinct
  NullEqualsNull = TRUE
  Plans <- OwnPlan
  MayFail = FALSE
  MayDrop = FALSE
  LeftChoices <- SomeLeft
  RightChoices <- AllRight
INVARIANT NoLostRows
