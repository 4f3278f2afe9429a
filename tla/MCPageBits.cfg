SPECIFICATION Spec
CONSTANTS
  W = 5
  Words = 3
INVARIANTS
  SummaryExact
  MergeExact
  FindFirstFit
