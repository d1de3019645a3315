SPECIFICATION Spec
CONSTANTS
  MaxChanges = 2
  Builds = 2
PROPERTY
  BindingsKept
CHECK_DEADLOCK FALSE
