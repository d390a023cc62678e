SPECIFICATION Spec
CONSTANTS
  Urls = 2
  Modes = {"console", "json", "silent"}
INVARIANTS
  TypeOK
  OneVerdict
  ErrorIsRecorded
PROPERTIES
  RowIsFinal
  Ends
CHECK_DEADLOCK FALSE
