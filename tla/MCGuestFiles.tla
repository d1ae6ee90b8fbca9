---------------------------- MODULE MCGuestFiles -----------------------------
(* A small instance of GuestFiles: two packages, one's name the beginning of *)
(* the other's, and the two orders of the rules that overlap.                *)
EXTENDS GuestFiles

MCPiece   == STRING \ {"nul"}
MCHost    == <<"com.neutron", ".virtualspace">>
MCRoot    == AppData \o MCHost \o Sub("files") \o Sub("vfs")
MCPackage == {<<"com.game">>, <<"com.game", ".plus">>}
MCOrder   == {<<1, 2, 3, 4, 5, 6>>, <<6, 5, 4, 3, 2, 1>>}

MCNames(p) ==
  {AppData \o p \o Sub("save"), UserData \o p \o Sub("save"), AppData \o p \o Sub("cache"),
   Storage("data") \o p \o Sub("save"), Storage("obb") \o p \o Sub("save"),
   NativeLibs(p) \o <<"libgame.so">>, UserData10 \o p \o Sub("save"),
   Sub("proc") \o Sub("self") \o Sub("maps")}
  \cup {dir \o q \o Sub("save") : dir \in {AppData, UserData}, q \in MCPackage}
  \cup {MCRoot \o Sub("data") \o Sub("save")}
=============================================================================
