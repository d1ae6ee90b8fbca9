CONSTANTS
  game = game
  addon = addon
  game_apk = game_apk
  game_xapk = game_xapk
  addon_xapk = addon_xapk
  NoPkg = NoPkg
  NoSource = NoSource
  NoSpace = NoSpace
  Pkg <- MCPkg
  Source <- MCSource
  PkgOf <- MCPkgOf
  Bundle <- MCBundle
  File <- MCFile
  Dir <- MCDir
  Lands <- MCNamed
  BaseOf <- MCBaseOf
  DirOf <- MCDirOf
  SpaceId = {10}
  MaxId = 3
  download = download
  storage = storage
  Download = download
  Storage = storage
  Folder <- MCFolder
  ParentOf <- MCParent
  Installable <- MCFiles
SPECIFICATION Spec
INVARIANT LaunchesWhatWasImported
