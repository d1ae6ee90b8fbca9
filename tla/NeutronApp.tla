----------------------------- MODULE NeutronApp ------------------------------
(***************************************************************************)
(* neutron-app/src/lib.rs: android_main and NeutronSpaceApp, composed with *)
(* ApkInstaller (neutron-apk/src/installer.rs), with NeutronConfig's load  *)
(* (neutron-core/src/config.rs), and with what AppLauncher promises        *)
(* (SpaceRegistry, which AppLauncher implements). The views are FileBrowser's. *)
(*                                                                         *)
(* One UI thread does everything, an import included, but every write to   *)
(* the disk can fail or be cut short by the death of the process, so each  *)
(* is an action. The disk outlives the process; the list of apps does not. *)
(***************************************************************************)
EXTENDS Integers, Sequences, FiniteSets, Retain, FileBrowser

CONSTANTS Pkg, NoPkg,
          Source,      \* the files whose name the installer takes for an APK or a bundle
          NoSource,
          PkgOf,       \* source -> the package in its manifest
          Bundle,      \* the sources that are XAPKs
          File, Dir,   \* files on disk that are APKs; directories of libraries
          Lands,       \* home -> source -> the files that its APKs are written to
          BaseOf,      \* home -> package -> the base.apk in the directory of the package
          DirOf,       \* home -> package -> the lib in that directory
          SpaceId, NoSpace,
          MaxId        \* bound: successful imports in one lifetime

\* Where apps are kept: under the directory Android gives to the app, or under the
\* one that NeutronConfig::default() names.
Home      == {"own", "default"}

\* What a file holds: an APK of a source, whole or not, or nothing.
NoFile    == <<NoSource, "absent">>
Whole(s)  == <<s, "whole">>
Torn(s)   == <<s, "torn">>
Content   == {NoFile} \cup {Whole(s) : s \in Source} \cup {Torn(s) : s \in Source}

\* Names are joined as they are: two packages may share a directory, and an APK of a bundle
\* may land anywhere, also on a file of another package. Nothing is assumed of it. What
\* has no APK in it cannot be imported.
ASSUME SourceAssumption ==
  /\ NoPkg \notin Pkg /\ NoSource \notin Source /\ NoSpace \notin SpaceId
  /\ PkgOf \in [Source -> Pkg] /\ Bundle \subseteq Source /\ MaxId \in Nat
  /\ BaseOf \in [Home -> [Pkg -> File]] /\ DirOf \in [Home -> [Pkg -> Dir]]
  /\ \A h \in Home, s \in Source : Lands[h][s] \in Seq(File) \ {<<>>}
  /\ \A h \in Home, s \in Source \ Bundle : Lands[h][s] = <<BaseOf[h][PkgOf[s]]>>

VARIABLES
  \* disk
  files,          \* what is in each file
  libs,           \* directory -> the source whose libraries were last extracted
                  \* without an error, or NoSource
  vfs,            \* the <<home, package>> whose overlay directories are made
  config,         \* neutron_config.json
  \* NeutronSpaceApp and its installer
  installed_apps, \* entries; from is not in the code: the source it came from
  next_id,
  home,           \* NeutronConfig's apps_dir and vfs_dir
  pc, source, left,  \* the import in progress, and its APKs still to write
  \* AppLauncher, by what it promises
  space, issued,
  \* observer: the ids of the entries whose files, or libraries, a later import has begun
  \* to write to
  spoiled

disk == <<files, libs, vfs>>
app  == <<installed_apps, next_id, home>>
job  == <<pc, source, left>>
registry == <<space, issued>>
vars == <<disk, config, app, job, registry, spoiled, browser>>

Registry == INSTANCE SpaceRegistry

Entry == [id : 1 .. MaxId, pkg : Pkg, from : Source, is_running : BOOLEAN]
Listed(p) == \E i \in DOMAIN installed_apps : installed_apps[i].pkg = p

\* The ids of the entries that an APK of theirs was written to f for, or that have their
\* libraries in d. Of the libraries of a bundle nothing is said.
UsersOf(f) == {installed_apps[i].id : i \in {j \in DOMAIN installed_apps :
                 \E k \in DOMAIN Lands[home][installed_apps[j].from] :
                   Lands[home][installed_apps[j].from][k] = f}}
UsersOfDir(d) == {installed_apps[i].id : i \in {j \in DOMAIN installed_apps :
                    /\ installed_apps[j].from \notin Bundle
                    /\ DirOf[home][installed_apps[j].pkg] = d}}

TypeOK ==
  /\ files \in [File -> Content]
  /\ libs \in [Dir -> Source \cup {NoSource}]
  /\ vfs \subseteq Home \X Pkg
  /\ config \in {"missing", "saved", "torn"}
  /\ installed_apps \in Seq(Entry)
  /\ next_id \in 1 .. MaxId + 1
  /\ home \in Home
  /\ pc \in {"off", "save", "idle", "parse", "write", "writing", "libs", "vfs", "record"}
  /\ source \in Source \cup {NoSource} /\ left \in Seq(File)
  /\ space \in [Pkg -> SpaceId \cup {NoSpace}] /\ issued \subseteq SpaceId
  /\ spoiled \subseteq 1 .. MaxId

Init ==
  /\ files = [f \in File |-> NoFile]
  /\ libs = [d \in Dir |-> NoSource] /\ vfs = {}
  /\ config = "missing"
  /\ installed_apps = <<>> /\ next_id = 1 /\ home = "own"
  /\ pc = "off" /\ source = NoSource /\ left = <<>>
  /\ Registry!Init
  /\ spoiled = {} /\ BrowserInit

-----------------------------------------------------------------------------
(* android_main                                                            *)

\* load_or_default: a file that can be read but not parsed gives the hard-coded
\* defaults, and is left as it is.
LoadConfig ==
  /\ pc = "off" /\ config # "missing"
  /\ home' = IF config = "saved" THEN "own" ELSE "default"
  /\ pc' = "idle"
  /\ UNCHANGED <<disk, config, installed_apps, next_id, source, left, registry, spoiled, browser>>

\* No file: the defaults for the directory Android gave. The new file is written in
\* place: it is there, and not yet whole, when the write begins. It may not begin.
LoadDefault ==
  /\ pc = "off" /\ config = "missing"
  /\ home' = "own"
  /\ \/ pc' = "save" /\ config' = "torn"
     \/ pc' = "idle" /\ UNCHANGED config
  /\ UNCHANGED <<disk, installed_apps, next_id, source, left, registry, spoiled, browser>>

\* The result of the write is not looked at.
SaveConfig ==
  /\ pc = "save"
  /\ config' \in {"saved", "torn"}
  /\ pc' = "idle"
  /\ UNCHANGED <<disk, app, source, left, registry, spoiled, browser>>

\* The process dies at any moment. The disk stays; a new process begins with an
\* empty list, a new installer and a new launcher.
Crash ==
  /\ pc # "off"
  /\ installed_apps' = <<>> /\ next_id' = 1 /\ UNCHANGED home
  /\ pc' = "off" /\ source' = NoSource /\ left' = <<>>
  /\ Registry!Restart
  /\ spoiled' = {}
  /\ view' = "main" /\ current_dir' = Storage /\ shown' = {}
  /\ UNCHANGED <<disk, config>>

-----------------------------------------------------------------------------
(* install_file, with install_apk and install_xapk                         *)

EndImport == pc' = "idle" /\ source' = NoSource /\ left' = <<>>

Import(s) ==
  /\ pc = "idle" /\ view = "browser" /\ s \in shown /\ next_id <= MaxId
  /\ pc' = "parse" /\ source' = s /\ left' = Lands[home][s]
  /\ UNCHANGED <<disk, config, app, registry, spoiled, browser>>

\* validate, parse, and the app's directory.
Parsed ==
  /\ pc = "parse"
  /\ pc' = "write"
  /\ UNCHANGED <<disk, config, app, source, left, registry, spoiled, browser>>

\* fs::copy, or the next APK of the bundle: what was in the file is gone first, whoever's
\* it was.
WriteBegin ==
  /\ pc = "write" /\ left # <<>>
  /\ files' = [files EXCEPT ![Head(left)] = Torn(source)]
  /\ spoiled' = spoiled \cup UsersOf(Head(left))
  /\ pc' = "writing"
  /\ UNCHANGED <<libs, vfs, config, app, source, left, registry, browser>>

WriteEnd ==
  /\ pc = "writing"
  /\ files' = [files EXCEPT ![Head(left)] = Whole(source)]
  /\ left' = Tail(left)
  /\ pc' = IF Len(left) > 1 THEN "write" ELSE "libs"
  /\ UNCHANGED <<libs, vfs, config, app, source, registry, spoiled, browser>>

\* Libraries go by their last name only, and so stay in the directory. An error while those
\* of a bundle are extracted is ignored.
LibDir == DirOf[home][PkgOf[source]]
LibsExtracted ==
  /\ pc = "libs"
  /\ \/ libs' = [libs EXCEPT ![LibDir] = source]
     \/ source \in Bundle /\ libs' = [libs EXCEPT ![LibDir] = NoSource]
  /\ spoiled' = spoiled \cup UsersOfDir(LibDir)
  /\ pc' = "vfs"
  /\ UNCHANGED <<files, vfs, config, app, source, left, registry, browser>>

\* Mutant of VfsInitialized: the error of VfsOverlay::initialize is ignored.
VfsErrorIgnored ==
  /\ pc = "vfs"
  /\ vfs' \in {vfs, vfs \cup {<<home, PkgOf[source]>>}}
  /\ pc' = "record"
  /\ UNCHANGED <<files, libs, config, app, source, left, registry, spoiled, browser>>

\* VfsOverlay::initialize.
VfsInitialized ==
  /\ pc = "vfs"
  /\ vfs' = vfs \cup {<<home, PkgOf[source]>>}
  /\ pc' = "record"
  /\ UNCHANGED <<files, libs, config, app, source, left, registry, spoiled, browser>>

\* Mutant of Installed: the id is not moved past.
IdReused ==
  /\ pc = "record"
  /\ installed_apps' = Append(installed_apps,
       [id |-> next_id, pkg |-> PkgOf[source], from |-> source, is_running |-> FALSE])
  /\ EndImport /\ ToMain
  /\ UNCHANGED <<disk, config, next_id, home, registry, spoiled>>

\* The VirtualApp record, and its entry in the list: a package that is already
\* listed gets a second entry.
Installed ==
  /\ pc = "record"
  /\ installed_apps' = Append(installed_apps,
       [id |-> next_id, pkg |-> PkgOf[source], from |-> source, is_running |-> FALSE])
  /\ next_id' = next_id + 1
  /\ EndImport /\ ToMain
  /\ UNCHANGED <<disk, config, home, registry, spoiled>>

\* A `?` returns early: the file is invalid or gone, the disk is full, a directory
\* cannot be made. What was written stays. An APK has no step that can fail between
\* the overlay and the record; of a bundle the size is still to be read, and its
\* libraries fail the import only when their directory cannot be made.
ImportFailed ==
  /\ \/ pc \in {"parse", "write", "writing", "libs", "vfs"}
     \/ pc = "record" /\ source \in Bundle
  /\ \/ UNCHANGED <<libs, spoiled>>
     \/ /\ pc = "libs" /\ source \notin Bundle
        /\ libs' = [libs EXCEPT ![LibDir] = NoSource]
        /\ spoiled' = spoiled \cup UsersOfDir(LibDir)
  /\ EndImport
  /\ UNCHANGED <<files, vfs, config, app, registry, browser>>

-----------------------------------------------------------------------------
(* The Launch and Uninstall buttons of the list                            *)

\* The first entry of a package is the one that Launch finds.
First(i, p) ==
  installed_apps[i].pkg = p /\ \A j \in 1 .. i - 1 : installed_apps[j].pkg # p

\* The path that Launch passes on: never the one the installer reported.
LaunchedApk(p) == files[BaseOf[home][p]]

\* launch succeeds only if its space and the file are there.
LaunchOk(p) ==
  /\ pc = "idle" /\ view = "main" /\ Listed(p) /\ LaunchedApk(p) # NoFile
  /\ \/ space[p] # NoSpace /\ UNCHANGED registry
     \/ Registry!Assign(p)
  /\ \E i \in DOMAIN installed_apps :
       First(i, p) /\ installed_apps' = [installed_apps EXCEPT ![i].is_running = TRUE]
  /\ UNCHANGED <<disk, config, next_id, home, job, spoiled, browser>>

\* launch fails, before or after it gave the package a space.
LaunchFailed(p) ==
  /\ pc = "idle" /\ view = "main" /\ Listed(p)
  /\ UNCHANGED registry \/ Registry!Assign(p)
  /\ UNCHANGED <<disk, config, app, job, spoiled, browser>>

\* Uninstall takes all entries of the package off the list, and does nothing else.
Uninstall(p) ==
  /\ pc = "idle" /\ view = "main" /\ Listed(p)
  /\ installed_apps' \in
       Retained(installed_apps, {i \in DOMAIN installed_apps : installed_apps[i].pkg # p})
  /\ UNCHANGED <<disk, config, next_id, home, job, registry, spoiled, browser>>

Look == pc = "idle" /\ Browse /\ UNCHANGED <<disk, config, app, job, registry, spoiled>>

Next ==
  \/ LoadConfig \/ LoadDefault \/ SaveConfig \/ Crash
  \/ \E s \in Source : Import(s)
  \/ Parsed \/ WriteBegin \/ WriteEnd \/ LibsExtracted \/ VfsInitialized \/ Installed
  \/ ImportFailed \/ Look
  \/ \E p \in Pkg : LaunchOk(p) \/ LaunchFailed(p) \/ Uninstall(p)

Spec == Init /\ [][Next]_vars
-----------------------------------------------------------------------------
(* Properties                                                              *)

\* An entry is only ever made of an import that went all the way (installer.rs:58-181):
\* every APK of it is on disk as imported, its overlay is made and, if it was an APK, its
\* libraries are the ones extracted, until a later import begins to write to one of these
\* very files. That may be an import of another package (xapk.rs:138-145); but no failure,
\* restart, launch or uninstall takes a listed app apart.
ListedIsWhole ==
  \A i \in DOMAIN installed_apps :
    LET e == installed_apps[i] IN
    e.id \notin spoiled =>
      /\ \A k \in DOMAIN Lands[home][e.from] : files[Lands[home][e.from][k]] = Whole(e.from)
      /\ <<home, e.pkg>> \in vfs
      /\ e.from \notin Bundle => libs[DirOf[home][e.pkg]] = e.from

\* Whatever fails, and though nothing ever takes files away, the directories that a
\* listed app lives in are the ones the running process uses (config.rs:50-69,
\* lib.rs:336): no file of it is missing, at worst one is torn or another package's.
ListedIsPresent ==
  \A i \in DOMAIN installed_apps :
    LET e == installed_apps[i] IN
    \A k \in DOMAIN Lands[home][e.from] : files[Lands[home][e.from][k]] # NoFile

\* The list's ids are different, in the order of the imports (installer.rs:106, 178).
IdsAscend ==
  /\ \A i, j \in DOMAIN installed_apps :
       i < j => installed_apps[i].id < installed_apps[j].id
  /\ \A i \in DOMAIN installed_apps : installed_apps[i].id < next_id
  /\ \A n \in spoiled : n < next_id

\* An entry marked as running has a space (lib.rs:357-363).
RunningHasSpace ==
  \A i \in DOMAIN installed_apps :
    installed_apps[i].is_running => space[installed_apps[i].pkg] # NoSpace

\* Of several entries of a package only the oldest is ever marked as running, the one that
\* Launch finds again (lib.rs:170-178, 323-363).
RunningIsFirst ==
  \A i \in DOMAIN installed_apps :
    installed_apps[i].is_running => First(i, installed_apps[i].pkg)

\* How far an import has come, by its next step: what it has written is whole or still to
\* be written again, and what it is writing to is on record.
Importing == {"parse", "write", "writing", "libs", "vfs", "record"}
Written == \A k \in DOMAIN Lands[home][source] :
  \/ files[Lands[home][source][k]] = Whole(source)
  \/ \E i \in DOMAIN left : left[i] = Lands[home][source][k]
ImportOnItsWay ==
  /\ pc \in {"off", "save"} => installed_apps = <<>>
  /\ pc \in Importing => source \in Source /\ next_id <= MaxId /\ Written
  /\ pc \in {"parse", "writing"} => left # <<>>
  /\ pc \in {"libs", "vfs", "record"} => left = <<>>
  /\ pc = "writing" => UsersOf(Head(left)) \subseteq spoiled
  /\ pc \in {"vfs", "record"} /\ source \notin Bundle => libs[LibDir] = source
  /\ pc = "record" => <<home, PkgOf[source]>> \in vfs

\* The inductive invariant, together with ListedIsWhole (lib.rs:60-191, 323-380).
AppInv == /\ TypeOK /\ BrowserShowsFolder /\ ImportOnItsWay
          /\ ListedIsPresent /\ IdsAscend /\ RunningHasSpace /\ RunningIsFirst

-----------------------------------------------------------------------------
\* The entry that stands for what was imported last.
Latest(i) == \A j \in i + 1 .. Len(installed_apps) :
               installed_apps[j].pkg # installed_apps[i].pkg

\* lib.rs:335, "Build correct APK path using apps_dir from config": what Launch hands to
\* the launcher is an APK of the app that was imported last.
LaunchesWhatWasImported ==
  \A i \in DOMAIN installed_apps :
    LET e == installed_apps[i] IN
    Latest(i) /\ e.id \notin spoiled => LaunchedApk(e.pkg) = Whole(e.from)
=============================================================================
