---------------------------- MODULE MCNeutronApp -----------------------------
(* A small instance of NeutronApp: a game as an APK and, newer, as an XAPK    *)
(* whose base APK is not called base.apk; and the XAPK of an add-on, with an  *)
(* entry ../game/base.apk and one that has an absolute name.                  *)
EXTENDS NeutronApp

CONSTANTS game, addon, game_apk, game_xapk, addon_xapk, download, storage

MCPkg    == {game, addon}
MCSource == {game_apk, game_xapk, addon_xapk}
MCPkgOf  == [s \in MCSource |-> IF s = addon_xapk THEN addon ELSE game]
MCBundle == {game_xapk, addon_xapk}

MCBaseOf == [h \in Home |-> [p \in MCPkg |-> <<h, p, "base.apk">>]]
MCDirOf  == [h \in Home |-> [p \in MCPkg |-> <<h, p>>]]
MCDir    == Home \X MCPkg
Anywhere == <<"any", game, "split.apk">>
MCFile   == (Home \X MCPkg \X {"base.apk", "game.apk"}) \cup {Anywhere}

\* Entries with an absolute name, and ../game/base.apk.
MCLands  == [h \in Home |-> [s \in MCSource |->
              IF s = game_apk THEN << MCBaseOf[h][game] >>
              ELSE IF s = game_xapk THEN << Anywhere >>
              ELSE << Anywhere, MCBaseOf[h][game] >>]]
\* Entries that stay in their directories.
MCNamed  == [h \in Home |-> [s \in MCSource |->
              IF s = game_apk THEN << MCBaseOf[h][game] >>
              ELSE << <<h, MCPkgOf[s], "game.apk">> >>]]

MCFolder == {download, storage}
MCParent == [d \in MCFolder |-> storage]
MCFiles  == [d \in MCFolder |-> IF d = download THEN MCSource ELSE {}]
=============================================================================
