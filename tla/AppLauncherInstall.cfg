CONSTANTS
  game = game
  game_pro = game_pro
  NoPkg = NoPkg
  Pkg <- MCPkg
  NameIn <- MCNameIn
  FirstUserId = 10
  MaxUserId = 12
  MaxUsers = 3
SPECIFICATION Spec
INVARIANT StartsOnlyInstalled
