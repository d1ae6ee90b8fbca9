CONSTANTS
  Kid = {kid1, kid2}
SPECIFICATION Spec
INVARIANTS TracerInv OpensAreRewritten StatusIsTrue DetachFrees
PROPERTIES  StopsAreServed ImplementsChild
CHECK_DEADLOCK FALSE
