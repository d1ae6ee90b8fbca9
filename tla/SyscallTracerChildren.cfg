CONSTANTS
  Kid = {kid1, kid2}
SPECIFICATION Spec
PROPERTY ChildrenAreServed
CHECK_DEADLOCK FALSE
