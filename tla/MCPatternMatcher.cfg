SPECIFICATION Spec
CONSTANTS
  Patterns <- MCPatterns
  Strings <- MCStrings
  MaxMsgLen = 10
INVARIANT TypeOK
INVARIANT FindsFirst
INVARIANT MatchesInBounds
INVARIANT AgreesWithCheck
CHECK_DEADLOCK FALSE
