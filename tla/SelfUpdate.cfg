SPECIFICATION Spec
CONSTANTS
  Proc = {p1, p2}
  NoProc = NoProc
  MaxVersion = 2
PROPERTIES NeverMissing CopySurvives FailureRestores LatestNeverDowngrades
