SPECIFICATION Spec
CONSTANT
  MaxVersion = 3
INVARIANTS
  OneVersion
  ProbesAgree
CHECK_DEADLOCK FALSE
