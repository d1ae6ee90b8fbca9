CONSTANTS
  Kid = {kid1, kid2}
SPECIFICATION Spec
INVARIANT ReturnsWhenProcessExits
CHECK_DEADLOCK FALSE
