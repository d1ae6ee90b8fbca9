CONSTANTS
  game = game
  guardian = guardian
  pid1 = pid1
  pid2 = pid2
  NoPid = NoPid
  Nobody = Nobody
  Stranger = Stranger
  VP <- MCVP
  Pid <- MCPid
  MaxVpid = 1002
SYMMETRY Symmetry
SPECIFICATION Spec
INVARIANTS GuestInv SignalsReachOwn ExitedIsTrue OnlyAttachedStarts NamespaceInv
PROPERTIES ImplementsChildren
