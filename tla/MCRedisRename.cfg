SPECIFICATION Spec
CONSTANTS
  MaxTries = 4
  MaxWrites = 2
INVARIANT TypeOK
INVARIANT SuccessMeansRenamed
INVARIANT ValueSurvives
INVARIANT ExistingNameKept
\* The call has returned.
CHECK_DEADLOCK FALSE
