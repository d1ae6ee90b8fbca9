---------------------------- MODULE MCAppLauncher ----------------------------
(* A small instance of AppLauncher: two packages, one's name inside the     *)
(* other's (com.game and com.game.pro).                                     *)
EXTENDS AppLauncher

CONSTANTS game, game_pro

MCPkg == {game, game_pro}
MCNameIn == {<<game, game>>, <<game_pro, game_pro>>, <<game, game_pro>>}
=============================================================================
