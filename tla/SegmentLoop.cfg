SPECIFICATION Spec
CONSTANTS
  Totals = {0, 1, 2, 3, 4, 5, 7, 8, 12, 13}
  Parameters = {0, 1, 2, 3, 4, 5, 8, 20}
INVARIANTS
  TypeOK
  PrefixTiled
  ResultTiled
  ResultIsClosedForm
PROPERTY
  Terminates
CHECK_DEADLOCK FALSE
