-------------------------- MODULE NeutronAppProofs ---------------------------
(* Theorems about NeutronApp, for any packages, files and number of imports: *)
(* what the list shows is on disk, whatever fails and whenever the process   *)
(* dies. The invariant follows an import through its writes.                 *)
EXTENDS NeutronApp, RetainProofs, TLAPS

Inv == AppInv /\ ListedIsWhole
ListInv == ListedIsPresent /\ IdsAscend /\ RunningHasSpace /\ RunningIsFirst /\ ListedIsWhole

-----------------------------------------------------------------------------
(* Files and names                                                         *)

LEMMA OneFileWritten ==
  ASSUME NEW F, NEW C, NEW fs \in [F -> C], NEW f \in F, NEW c \in C
  PROVE  LET gs == [fs EXCEPT ![f] = c] IN
         /\ gs \in [F -> C]
         /\ gs[f] = c
         /\ \A g \in F : g # f => gs[g] = fs[g]
  OBVIOUS

LEMMA WholeIsThere == \A s \in Source : /\ Whole(s) \in Content /\ Whole(s) # NoFile
                                        /\ Torn(s) \in Content /\ Torn(s) # NoFile
  BY DEF Whole, Torn, NoFile, Content

LEMMA NamesOfApks ==
  \A h \in Home, s \in Source : /\ Lands[h][s] \in Seq(File) /\ Lands[h][s] # <<>>
                               /\ \A k \in DOMAIN Lands[h][s] : Lands[h][s][k] \in File
PROOF
<1> TAKE h \in Home, s \in Source
<1>1. Lands[h][s] \in Seq(File) /\ Lands[h][s] # <<>>
  BY SourceAssumption
<1> QED BY <1>1

LEMMA NamesOfImport ==
  /\ \A s \in Source : PkgOf[s] \in Pkg
  /\ \A h \in Home, p \in Pkg : DirOf[h][p] \in Dir
  BY SourceAssumption

-----------------------------------------------------------------------------
LEMMA InitInv == Init => Inv
PROOF
<1> SUFFICES ASSUME Init PROVE Inv
  OBVIOUS
<1> USE SourceAssumption, FolderAssumption DEF Init
<1>1. TypeOK
  <2>1. installed_apps \in Seq(Entry) /\ left \in Seq(File)
    OBVIOUS
  <2>2. files \in [File -> Content]
    BY DEF Content
  <2>3. space \in [Pkg -> SpaceId \cup {NoSpace}] /\ issued \subseteq SpaceId
    BY DEF Registry!Init, Registry!NoSpaces
  <2>4. home \in Home /\ next_id \in 1 .. MaxId + 1
    BY DEF Home
  <2> QED BY <2>1, <2>2, <2>3, <2>4 DEF TypeOK
<1>2. BrowserShowsFolder
  BY DEF BrowserInit, BrowserShowsFolder
<1>3. ImportOnItsWay
  BY DEF ImportOnItsWay, Importing
<1>4. ListInv
  BY DEF ListInv, ListedIsPresent, IdsAscend, RunningHasSpace, RunningIsFirst, ListedIsWhole
<1> QED BY <1>1, <1>2, <1>3, <1>4 DEF Inv, AppInv, ListInv

-----------------------------------------------------------------------------
(* Steps that change neither the list nor what a listed app depends on     *)

ListParts == <<installed_apps, next_id, home, files, libs, vfs, spoiled, space>>

LEMMA ListKept == ASSUME Inv, UNCHANGED ListParts PROVE ListInv'
  BY DEF Inv, AppInv, ListParts, ListInv, ListedIsPresent, IdsAscend, RunningHasSpace,
         RunningIsFirst, First, ListedIsWhole, Entry

LEMMA NothingListed ==
  ASSUME installed_apps' = <<>>, \A n \in spoiled' : n < next_id'
  PROVE  ListInv'
  BY DEF ListInv, ListedIsPresent, IdsAscend, RunningHasSpace, RunningIsFirst, ListedIsWhole

LEMMA BrowserKept == ASSUME Inv, UNCHANGED browser PROVE BrowserShowsFolder'
  BY DEF Inv, AppInv, browser, BrowserShowsFolder, SubFolders

LEMMA LoadKeepsInv == ASSUME Inv, LoadConfig \/ LoadDefault \/ SaveConfig PROVE Inv'
PROOF
<1> USE SourceAssumption
<1>1. installed_apps = <<>> /\ installed_apps' = <<>>
  BY DEF Inv, AppInv, ImportOnItsWay, LoadConfig, LoadDefault, SaveConfig, app
<1>2. ListInv'
  BY <1>1, NothingListed DEF LoadConfig, LoadDefault, SaveConfig, app, Inv, AppInv, IdsAscend
<1>3. BrowserShowsFolder'
  BY BrowserKept DEF LoadConfig, LoadDefault, SaveConfig
<1>4. TypeOK'
  BY DEF Inv, AppInv, TypeOK, LoadConfig, LoadDefault, SaveConfig, app, disk, registry, Home
<1>5. ImportOnItsWay'
  BY <1>1 DEF LoadConfig, LoadDefault, SaveConfig, ImportOnItsWay, Importing
<1> QED BY <1>2, <1>3, <1>4, <1>5 DEF Inv, AppInv, ListInv

LEMMA CrashKeepsInv == ASSUME Inv, Crash PROVE Inv'
PROOF
<1> USE SourceAssumption, FolderAssumption DEF Crash
<1>1. ListInv'
  BY NothingListed
<1>2. BrowserShowsFolder'
  BY DEF BrowserShowsFolder
<1>3. space' \in [Pkg -> SpaceId \cup {NoSpace}] /\ issued' \subseteq SpaceId
  BY DEF Registry!Restart, Registry!NoSpaces
<1>4. installed_apps' \in Seq(Entry) /\ left' \in Seq(File) /\ next_id' \in 1 .. MaxId + 1
  OBVIOUS
<1>5. TypeOK'
  BY <1>3, <1>4 DEF Inv, AppInv, TypeOK, disk
<1>6. ImportOnItsWay'
  BY DEF ImportOnItsWay, Importing
<1> QED BY <1>1, <1>2, <1>5, <1>6 DEF Inv, AppInv, ListInv

LEMMA ListedEntries ==
  ASSUME TypeOK, NEW i \in DOMAIN installed_apps
  PROVE  /\ installed_apps[i] \in Entry /\ installed_apps[i].id \in 1 .. MaxId
         /\ installed_apps[i].pkg \in Pkg /\ installed_apps[i].from \in Source
PROOF
<1>1. installed_apps[i] \in Entry
  BY DEF TypeOK
<1> QED BY <1>1 DEF Entry

-----------------------------------------------------------------------------
(* An import                                                               *)

LEMMA ImportKeepsInv == ASSUME Inv, NEW s \in Source, Import(s) PROVE Inv'
PROOF
<1> USE DEF Import
<1>1. ListInv'
  BY ListKept DEF ListParts, app, disk, registry
<1>2. BrowserShowsFolder'
  BY BrowserKept
<1>3. Lands[home][s] \in Seq(File) /\ Lands[home][s] # <<>>
  BY NamesOfApks DEF Inv, AppInv, TypeOK
<1>4. TypeOK'
  BY <1>3 DEF Inv, AppInv, TypeOK, disk, app, registry
<1>5. ImportOnItsWay'
  BY <1>3 DEF Inv, AppInv, TypeOK, ImportOnItsWay, Importing, Written, app
<1> QED BY <1>1, <1>2, <1>4, <1>5 DEF Inv, AppInv, ListInv

LEMMA ParsedKeepsInv == ASSUME Inv, Parsed PROVE Inv'
PROOF
<1> USE DEF Parsed
<1>1. ListInv'
  BY ListKept DEF ListParts, app, disk, registry
<1>2. BrowserShowsFolder'
  BY BrowserKept
<1>3. TypeOK'
  BY DEF Inv, AppInv, TypeOK, disk, app, registry
<1>4. ImportOnItsWay'
  BY DEF Inv, AppInv, ImportOnItsWay, Importing, Written, app, disk
<1> QED BY <1>1, <1>2, <1>3, <1>4 DEF Inv, AppInv, ListInv

\* What is written over is nothing to the entries that do not use it, and those that do
\* are on record from then on. No file is taken away.
LEMMA SpoiledMayChange ==
  ASSUME Inv, UNCHANGED <<installed_apps, next_id, home, vfs, space>>,
         NEW Users, spoiled' = spoiled \cup Users,
         \A n \in Users : \E i \in DOMAIN installed_apps : n = installed_apps[i].id,
         \A i \in DOMAIN installed_apps : installed_apps[i].id \notin spoiled' =>
           /\ \A k \in DOMAIN Lands[home][installed_apps[i].from] :
                files'[Lands[home][installed_apps[i].from][k]]
                  = files[Lands[home][installed_apps[i].from][k]]
           /\ installed_apps[i].from \notin Bundle =>
                libs'[DirOf[home][installed_apps[i].pkg]] = libs[DirOf[home][installed_apps[i].pkg]],
         \A f \in File : files[f] # NoFile => files'[f] # NoFile
  PROVE  ListInv' /\ spoiled' \subseteq 1 .. MaxId
PROOF
<1>1. \A i \in DOMAIN installed_apps :
        \A k \in DOMAIN Lands[home][installed_apps[i].from] :
          Lands[home][installed_apps[i].from][k] \in File
  BY ListedEntries, NamesOfApks DEF Inv, AppInv, TypeOK
<1>2. ListedIsPresent'
  BY <1>1 DEF Inv, AppInv, ListedIsPresent
<1>3. IdsAscend'
  BY DEF Inv, AppInv, IdsAscend
<1>4. RunningHasSpace' /\ RunningIsFirst'
  BY DEF Inv, AppInv, RunningHasSpace, RunningIsFirst, First
<1>5. ListedIsWhole'
  <2> SUFFICES ASSUME NEW i \in DOMAIN installed_apps, installed_apps[i].id \notin spoiled'
               PROVE  /\ \A k \in DOMAIN Lands[home][installed_apps[i].from] :
                           files'[Lands[home][installed_apps[i].from][k]]
                             = Whole(installed_apps[i].from)
                      /\ <<home, installed_apps[i].pkg>> \in vfs
                      /\ installed_apps[i].from \notin Bundle =>
                           libs'[DirOf[home][installed_apps[i].pkg]] = installed_apps[i].from
    BY DEF ListedIsWhole
  <2>1. installed_apps[i].id \notin spoiled
    OBVIOUS
  <2> QED BY <2>1 DEF Inv, ListedIsWhole
<1>6. spoiled' \subseteq 1 .. MaxId
  <2>1. \A i \in DOMAIN installed_apps : installed_apps[i].id \in 1 .. MaxId
    BY ListedEntries DEF Inv, AppInv
  <2>2. spoiled \subseteq 1 .. MaxId
    BY DEF Inv, AppInv, TypeOK
  <2> QED BY <2>1, <2>2
<1> QED BY <1>2, <1>3, <1>4, <1>5, <1>6 DEF ListInv

LEMMA WriteBeginKeepsInv == ASSUME Inv, WriteBegin PROVE Inv'
PROOF
<1> DEFINE f == Head(left)
<1>1. source \in Source /\ Torn(source) \in Content /\ Torn(source) # NoFile
  BY WholeIsThere DEF WriteBegin, Inv, AppInv, ImportOnItsWay, Importing
<1>2. left \in Seq(File) /\ left # <<>> /\ f \in File /\ 1 \in DOMAIN left /\ left[1] = f
  BY DEF WriteBegin, Inv, AppInv, TypeOK
<1>3. /\ files' \in [File -> Content]
      /\ files'[f] = Torn(source)
      /\ \A g \in File : g # f => files'[g] = files[g]
  BY <1>1, <1>2, OneFileWritten DEF WriteBegin, Inv, AppInv, TypeOK
<1>4. ListInv' /\ spoiled' \subseteq 1 .. MaxId
  <2>1. \A n \in UsersOf(f) : \E i \in DOMAIN installed_apps : n = installed_apps[i].id
    BY DEF UsersOf
  <2>2. ASSUME NEW i \in DOMAIN installed_apps, installed_apps[i].id \notin spoiled',
               NEW k \in DOMAIN Lands[home][installed_apps[i].from]
        PROVE  files'[Lands[home][installed_apps[i].from][k]]
                 = files[Lands[home][installed_apps[i].from][k]]
    <3>1. Lands[home][installed_apps[i].from][k] \in File
      BY ListedEntries, NamesOfApks DEF Inv, AppInv, TypeOK
    <3>2. Lands[home][installed_apps[i].from][k] # f
      BY <2>2 DEF WriteBegin, UsersOf
    <3> QED BY <1>3, <3>1, <3>2
  <2>3. \A g \in File : files[g] # NoFile => files'[g] # NoFile
    BY <1>1, <1>3
  <2> QED BY <2>1, <2>2, <2>3, SpoiledMayChange DEF WriteBegin, app, registry
<1>5. BrowserShowsFolder'
  BY BrowserKept DEF WriteBegin
<1>6. TypeOK'
  BY <1>3, <1>4 DEF WriteBegin, Inv, AppInv, TypeOK, app, registry
<1>7. Written'
  <2> SUFFICES ASSUME NEW k \in DOMAIN Lands[home][source]
               PROVE  \/ files'[Lands[home][source][k]] = Whole(source)
                      \/ \E i \in DOMAIN left : left[i] = Lands[home][source][k]
    BY DEF WriteBegin, Written, app
  <2>1. Lands[home][source][k] \in File
    BY <1>1, NamesOfApks DEF Inv, AppInv, TypeOK
  <2>2. \/ files[Lands[home][source][k]] = Whole(source)
        \/ \E i \in DOMAIN left : left[i] = Lands[home][source][k]
    BY DEF WriteBegin, Inv, AppInv, ImportOnItsWay, Importing, Written
  <2> QED BY <1>2, <1>3, <2>1, <2>2
<1>8. (UsersOf(f) \subseteq spoiled)'
  BY DEF WriteBegin, UsersOf, app
<1>9. ImportOnItsWay'
  BY <1>1, <1>2, <1>7, <1>8 DEF WriteBegin, Inv, AppInv, ImportOnItsWay, Importing, app
<1> QED BY <1>4, <1>5, <1>6, <1>9 DEF Inv, AppInv, ListInv

LEMMA WriteEndKeepsInv == ASSUME Inv, WriteEnd PROVE Inv'
PROOF
<1> DEFINE f == Head(left)
<1>1. /\ source \in Source /\ Whole(source) \in Content /\ Whole(source) # NoFile
      /\ UsersOf(f) \subseteq spoiled
  BY WholeIsThere DEF WriteEnd, Inv, AppInv, ImportOnItsWay, Importing
<1>2. /\ left \in Seq(File) /\ left # <<>> /\ f \in File
      /\ left' \in Seq(File) /\ (Len(left) > 1 \/ left' = <<>>)
      /\ \A i \in DOMAIN left : left[i] = f \/ \E j \in DOMAIN left' : left'[j] = left[i]
  <2>1. left \in Seq(File) /\ left # <<>> /\ left' = Tail(left)
    BY DEF WriteEnd, Inv, AppInv, TypeOK, ImportOnItsWay
  <2>2. /\ f = left[1] /\ Len(left') = Len(left) - 1 /\ Len(left) \in Nat /\ Len(left) > 0
        /\ \A j \in 1 .. Len(left) - 1 : left'[j] = left[j + 1]
    BY <2>1
  <2>3. ASSUME NEW i \in DOMAIN left, i # 1 PROVE \E j \in DOMAIN left' : left'[j] = left[i]
    <3>1. i - 1 \in 1 .. Len(left) - 1 /\ i - 1 \in DOMAIN left' /\ (i - 1) + 1 = i
      BY <2>1, <2>2, <2>3
    <3> QED BY <2>2, <3>1
  <2>4. left' \in Seq(File) /\ f \in File
    BY <2>1, <2>2
  <2>5. Len(left) > 1 \/ left' = <<>>
    BY <2>1, <2>2, <2>4
  <2> QED BY <2>1, <2>2, <2>3, <2>4, <2>5
<1>3. /\ files' \in [File -> Content]
      /\ files'[f] = Whole(source)
      /\ \A g \in File : g # f => files'[g] = files[g]
  BY <1>1, <1>2, OneFileWritten DEF WriteEnd, Inv, AppInv, TypeOK
<1>4. ListInv'
  <2>1. ASSUME NEW i \in DOMAIN installed_apps, installed_apps[i].id \notin spoiled',
               NEW k \in DOMAIN Lands[home][installed_apps[i].from]
        PROVE  files'[Lands[home][installed_apps[i].from][k]]
                 = files[Lands[home][installed_apps[i].from][k]]
    <3>1. Lands[home][installed_apps[i].from][k] \in File
      BY ListedEntries, NamesOfApks DEF Inv, AppInv, TypeOK
    <3>2. Lands[home][installed_apps[i].from][k] # f
      BY <1>1, <2>1 DEF WriteEnd, UsersOf
    <3> QED BY <1>3, <3>1, <3>2
  <2>2. \A g \in File : files[g] # NoFile => files'[g] # NoFile
    BY <1>1, <1>3
  <2>3. /\ UNCHANGED <<installed_apps, next_id, home, libs, vfs, space>>
        /\ spoiled' = spoiled \cup {}
    BY DEF WriteEnd, app, registry
  <2> DEFINE None == {}
  <2>4. spoiled' = spoiled \cup None /\ \A n \in None : FALSE
    BY <2>3
  <2> HIDE DEF None
  <2> QED BY <2>1, <2>2, <2>3, <2>4, SpoiledMayChange
<1>5. BrowserShowsFolder'
  BY BrowserKept DEF WriteEnd
<1>6. TypeOK'
  BY <1>2, <1>3 DEF WriteEnd, Inv, AppInv, TypeOK, app, registry
<1>7. Written'
  <2> SUFFICES ASSUME NEW k \in DOMAIN Lands[home][source]
               PROVE  \/ files'[Lands[home][source][k]] = Whole(source)
                      \/ \E i \in DOMAIN left' : left'[i] = Lands[home][source][k]
    BY DEF WriteEnd, Written, app
  <2>1. Lands[home][source][k] \in File
    BY <1>1, NamesOfApks DEF Inv, AppInv, TypeOK
  <2>2. \/ files[Lands[home][source][k]] = Whole(source)
        \/ \E i \in DOMAIN left : left[i] = Lands[home][source][k]
    BY DEF WriteEnd, Inv, AppInv, ImportOnItsWay, Importing, Written
  <2> QED BY <1>2, <1>3, <2>1, <2>2
<1>8. ImportOnItsWay'
  BY <1>1, <1>2, <1>7 DEF WriteEnd, Inv, AppInv, ImportOnItsWay, Importing, app
<1> QED BY <1>4, <1>5, <1>6, <1>8 DEF Inv, AppInv, ListInv

\* The libraries in a directory are those of an import, or of none, and the entries that
\* had theirs there are on record.
LEMMA LibsMayChange ==
  ASSUME Inv, UNCHANGED <<installed_apps, next_id, home, files, vfs, space>>,
         source \in Source, NEW s \in Source \cup {NoSource},
         libs' = [libs EXCEPT ![LibDir] = s],
         spoiled' = spoiled \cup UsersOfDir(LibDir)
  PROVE  /\ ListInv' /\ spoiled' \subseteq 1 .. MaxId
         /\ libs' \in [Dir -> Source \cup {NoSource}] /\ libs'[LibDir] = s
PROOF
<1>1. LibDir \in Dir
  BY NamesOfImport DEF LibDir, Inv, AppInv, TypeOK
<1>2. /\ libs' \in [Dir -> Source \cup {NoSource}]
      /\ libs'[LibDir] = s
      /\ \A d \in Dir : d # LibDir => libs'[d] = libs[d]
  BY <1>1, OneFileWritten DEF Inv, AppInv, TypeOK
<1>3. \A n \in UsersOfDir(LibDir) : \E i \in DOMAIN installed_apps : n = installed_apps[i].id
  BY DEF UsersOfDir
<1>4. ASSUME NEW i \in DOMAIN installed_apps, installed_apps[i].id \notin spoiled',
             installed_apps[i].from \notin Bundle
      PROVE  libs'[DirOf[home][installed_apps[i].pkg]] = libs[DirOf[home][installed_apps[i].pkg]]
  <2>1. DirOf[home][installed_apps[i].pkg] \in Dir
    BY ListedEntries, NamesOfImport DEF Inv, AppInv, TypeOK
  <2>2. DirOf[home][installed_apps[i].pkg] # LibDir
    BY <1>4 DEF UsersOfDir
  <2> QED BY <1>2, <2>1, <2>2
<1>5. ListInv' /\ spoiled' \subseteq 1 .. MaxId
  BY <1>3, <1>4, SpoiledMayChange
<1> QED BY <1>2, <1>5

LEMMA LibsExtractedKeepsInv == ASSUME Inv, LibsExtracted PROVE Inv'
PROOF
<1>1. source \in Source /\ LibDir' = LibDir
  BY DEF LibsExtracted, Inv, AppInv, ImportOnItsWay, Importing, LibDir, app
<1>2. /\ ListInv' /\ spoiled' \subseteq 1 .. MaxId
      /\ libs' \in [Dir -> Source \cup {NoSource}]
      /\ source \notin Bundle => libs'[LibDir] = source
  <2>1. CASE libs' = [libs EXCEPT ![LibDir] = source]
    BY <1>1, <2>1, LibsMayChange DEF LibsExtracted, app, registry
  <2>2. CASE source \in Bundle /\ libs' = [libs EXCEPT ![LibDir] = NoSource]
    BY <1>1, <2>2, LibsMayChange DEF LibsExtracted, app, registry
  <2> QED BY <2>1, <2>2 DEF LibsExtracted
<1>3. BrowserShowsFolder'
  BY BrowserKept DEF LibsExtracted
<1>4. TypeOK'
  BY <1>2 DEF LibsExtracted, Inv, AppInv, TypeOK, app, registry
<1>5. ImportOnItsWay'
  BY <1>1, <1>2 DEF LibsExtracted, Inv, AppInv, ImportOnItsWay, Importing, Written, app
<1> QED BY <1>2, <1>3, <1>4, <1>5 DEF Inv, AppInv, ListInv

LEMMA VfsInitializedKeepsInv == ASSUME Inv, VfsInitialized PROVE Inv'
PROOF
<1>1. source \in Source /\ PkgOf[source] \in Pkg /\ LibDir' = LibDir
  BY NamesOfImport DEF VfsInitialized, Inv, AppInv, ImportOnItsWay, Importing, LibDir, app
<1>2. ListInv'
  BY DEF VfsInitialized, Inv, AppInv, ListInv, ListedIsPresent, IdsAscend, RunningHasSpace,
         RunningIsFirst, First, ListedIsWhole, app, registry
<1>3. BrowserShowsFolder'
  BY BrowserKept DEF VfsInitialized
<1>4. TypeOK'
  BY <1>1 DEF VfsInitialized, Inv, AppInv, TypeOK, app, registry
<1>5. ImportOnItsWay'
  BY <1>1 DEF VfsInitialized, Inv, AppInv, ImportOnItsWay, Importing, Written, app
<1> QED BY <1>2, <1>3, <1>4, <1>5 DEF Inv, AppInv, ListInv

LEMMA ImportFailedKeepsInv == ASSUME Inv, ImportFailed PROVE Inv'
PROOF
<1>1. source \in Source
  BY DEF ImportFailed, Inv, AppInv, ImportOnItsWay, Importing
<1>2. /\ ListInv' /\ spoiled' \subseteq 1 .. MaxId
      /\ libs' \in [Dir -> Source \cup {NoSource}]
  <2>1. CASE UNCHANGED <<libs, spoiled>>
    BY <2>1, ListKept DEF ImportFailed, ListParts, app, registry, Inv, AppInv, TypeOK
  <2>2. CASE libs' = [libs EXCEPT ![LibDir] = NoSource] /\ spoiled' = spoiled \cup UsersOfDir(LibDir)
    BY <1>1, <2>2, LibsMayChange DEF ImportFailed, app, registry
  <2> QED BY <2>1, <2>2 DEF ImportFailed
<1>3. BrowserShowsFolder'
  BY BrowserKept DEF ImportFailed
<1>4. TypeOK'
  BY <1>2 DEF ImportFailed, EndImport, Inv, AppInv, TypeOK, app, registry
<1>5. ImportOnItsWay'
  BY DEF ImportFailed, EndImport, ImportOnItsWay, Importing
<1> QED BY <1>2, <1>3, <1>4, <1>5 DEF Inv, AppInv, ListInv

LEMMA InstalledKeepsInv == ASSUME Inv, Installed PROVE Inv'
PROOF
<1> DEFINE p == PkgOf[source]
           e == [id |-> next_id, pkg |-> p, from |-> source, is_running |-> FALSE]
           n == Len(installed_apps)
<1>1. /\ source \in Source /\ p \in Pkg /\ next_id \in 1 .. MaxId /\ MaxId \in Nat
      /\ left = <<>> /\ Written /\ <<home, p>> \in vfs
      /\ source \notin Bundle => libs[DirOf[home][p]] = source
  BY NamesOfImport, SourceAssumption
  DEF Installed, Inv, AppInv, TypeOK, ImportOnItsWay, Importing, LibDir
<1>2. e \in Entry /\ e.id = next_id /\ e.pkg = p /\ e.from = source /\ e.is_running = FALSE
  BY <1>1 DEF Entry
<1>3. /\ n \in Nat /\ DOMAIN installed_apps = 1 .. n /\ DOMAIN installed_apps' = 1 .. n + 1
      /\ Len(installed_apps') = n + 1 /\ installed_apps' \in Seq(Entry)
      /\ installed_apps'[n + 1] = e
      /\ \A i \in 1 .. n : installed_apps'[i] = installed_apps[i]
  <2> HIDE DEF e
  <2>1. installed_apps \in Seq(Entry) /\ installed_apps' = Append(installed_apps, e)
    BY DEF Installed, Inv, AppInv, TypeOK, e
  <2> QED BY <1>2, <2>1
<1>4. \A i \in 1 .. n + 1 : i \in 1 .. n \/ i = n + 1
  BY <1>3
<1> HIDE DEF e
<1>5. \A k \in DOMAIN Lands[home][source] : files[Lands[home][source][k]] = Whole(source)
  BY <1>1 DEF Written
<1>6. UNCHANGED <<home, files, libs, vfs, spoiled>>
  BY DEF Installed, disk
<1>7. ListedIsPresent'
  <2>1. Whole(source) # NoFile
    BY <1>1, WholeIsThere
  <2> SUFFICES ASSUME NEW i \in 1 .. n + 1, NEW k \in DOMAIN Lands[home][installed_apps'[i].from]
               PROVE  files[Lands[home][installed_apps'[i].from][k]] # NoFile
    BY <1>3, <1>6 DEF ListedIsPresent
  <2>2. CASE i = n + 1
    BY <1>2, <1>3, <1>5, <2>1, <2>2
  <2>3. CASE i \in 1 .. n
    BY <1>3, <2>3 DEF Inv, AppInv, ListedIsPresent
  <2> QED BY <1>4, <2>2, <2>3
<1>8. ListedIsWhole'
  <2> SUFFICES ASSUME NEW i \in 1 .. n + 1, installed_apps'[i].id \notin spoiled
               PROVE  /\ \A k \in DOMAIN Lands[home][installed_apps'[i].from] :
                           files[Lands[home][installed_apps'[i].from][k]]
                             = Whole(installed_apps'[i].from)
                      /\ <<home, installed_apps'[i].pkg>> \in vfs
                      /\ installed_apps'[i].from \notin Bundle =>
                           libs[DirOf[home][installed_apps'[i].pkg]] = installed_apps'[i].from
    BY <1>3, <1>6 DEF ListedIsWhole
  <2>1. CASE i = n + 1
    BY <1>1, <1>2, <1>3, <1>5, <2>1
  <2>2. CASE i \in 1 .. n
    BY <1>3, <2>2 DEF Inv, ListedIsWhole
  <2> QED BY <1>4, <2>1, <2>2
<1>9. IdsAscend'
  <2>1. next_id' = next_id + 1 /\ \A i \in 1 .. n : installed_apps[i].id \in Nat
    <3>1. \A i \in 1 .. n : installed_apps[i] \in Entry
      BY <1>3 DEF Inv, AppInv, TypeOK
    <3> QED BY <1>1, <3>1 DEF Installed, Entry
  <2>2. \A i \in 1 .. n : installed_apps[i].id < next_id
    BY <1>3 DEF Inv, AppInv, IdsAscend
  <2>3. ASSUME NEW i \in 1 .. n + 1, NEW j \in 1 .. n + 1, i < j
        PROVE  installed_apps'[i].id < installed_apps'[j].id
    <3>1. i \in 1 .. n
      BY <1>3, <2>3
    <3>2. CASE j = n + 1
      BY <1>2, <1>3, <2>2, <3>1, <3>2
    <3>3. CASE j \in 1 .. n
      BY <1>3, <2>3, <3>1, <3>3 DEF Inv, AppInv, IdsAscend
    <3> QED BY <1>4, <3>2, <3>3
  <2>4. ASSUME NEW i \in 1 .. n + 1 PROVE installed_apps'[i].id < next_id'
    <3>1. CASE i = n + 1
      BY <1>1, <1>2, <1>3, <2>1, <3>1
    <3>2. CASE i \in 1 .. n
      BY <1>1, <1>3, <2>1, <2>2, <3>2
    <3> QED BY <1>4, <3>1, <3>2
  <2>5. ASSUME NEW m \in spoiled' PROVE m < next_id'
    <3>1. m \in 1 .. MaxId /\ m < next_id
      BY <1>6, <2>5 DEF Inv, AppInv, TypeOK, IdsAscend
    <3> QED BY <1>1, <2>1, <3>1
  <2> QED BY <1>3, <2>3, <2>4, <2>5 DEF IdsAscend
<1>10. RunningHasSpace'
  BY <1>2, <1>3, <1>4 DEF Installed, registry, Inv, AppInv, RunningHasSpace
<1>11. RunningIsFirst'
  <2> SUFFICES ASSUME NEW i \in 1 .. n, installed_apps[i].is_running, NEW j \in 1 .. i - 1
               PROVE  installed_apps'[j].pkg # installed_apps'[i].pkg
    BY <1>2, <1>3, <1>4 DEF RunningIsFirst, First
  <2>1. j \in 1 .. n
    BY <1>3
  <2>2. installed_apps[j].pkg # installed_apps[i].pkg
    BY <1>3 DEF Inv, AppInv, RunningIsFirst, First
  <2> QED BY <1>3, <2>1, <2>2
<1>12. BrowserShowsFolder'
  BY DEF Installed, ToMain, Inv, AppInv, BrowserShowsFolder, SubFolders
<1>13. TypeOK'
  BY <1>1, <1>3 DEF Installed, EndImport, disk, registry, Inv, AppInv, TypeOK
<1>14. ImportOnItsWay'
  BY DEF Installed, EndImport, ImportOnItsWay, Importing
<1> QED BY <1>7, <1>8, <1>9, <1>10, <1>11, <1>12, <1>13, <1>14 DEF Inv, AppInv

-----------------------------------------------------------------------------
(* The list                                                                *)

LEMMA AssignKeepsType ==
  ASSUME Inv, NEW p \in Pkg, Registry!Assign(p)
  PROVE  /\ space' \in [Pkg -> SpaceId \cup {NoSpace}] /\ issued' \subseteq SpaceId
         /\ space'[p] # NoSpace /\ \A q \in Pkg : q # p => space'[q] = space[q]
  BY SourceAssumption DEF Registry!Assign, Inv, AppInv, TypeOK

LEMMA LaunchFailedKeepsInv == ASSUME Inv, NEW p \in Pkg, LaunchFailed(p) PROVE Inv'
PROOF
<1>1. /\ space' \in [Pkg -> SpaceId \cup {NoSpace}] /\ issued' \subseteq SpaceId
      /\ \A q \in Pkg : space[q] # NoSpace => space'[q] # NoSpace
  BY AssignKeepsType DEF LaunchFailed, registry, Inv, AppInv, TypeOK
<1>2. \A i \in DOMAIN installed_apps : installed_apps[i].pkg \in Pkg
  BY ListedEntries DEF Inv, AppInv
<1>3. RunningHasSpace'
  BY <1>1, <1>2 DEF LaunchFailed, app, Inv, AppInv, RunningHasSpace
<1>4. ListedIsPresent' /\ IdsAscend' /\ RunningIsFirst' /\ ListedIsWhole'
  BY DEF LaunchFailed, disk, app, Inv, AppInv, ListedIsPresent, IdsAscend, RunningIsFirst,
         First, ListedIsWhole
<1>5. BrowserShowsFolder'
  BY BrowserKept DEF LaunchFailed
<1>6. TypeOK'
  BY <1>1 DEF LaunchFailed, disk, app, job, Inv, AppInv, TypeOK
<1>7. ImportOnItsWay'
  BY DEF LaunchFailed, job, ImportOnItsWay, Importing
<1> QED BY <1>3, <1>4, <1>5, <1>6, <1>7 DEF Inv, AppInv

\* A list of some of the old entries, in the old order: the oldest entry of a package is
\* still its oldest if it is there.
LEMMA PackagesTaken ==
  ASSUME Inv, UNCHANGED <<disk, home, next_id, spoiled>>,
         NEW n \in Nat, Len(installed_apps') = n, DOMAIN installed_apps' = 1 .. n,
         NEW f \in [1 .. n -> DOMAIN installed_apps],
         \A i, j \in 1 .. n : i < j => f[i] < f[j],
         \A k \in 1 .. n : /\ installed_apps'[k].id = installed_apps[f[k]].id
                           /\ installed_apps'[k].pkg = installed_apps[f[k]].pkg
                           /\ installed_apps'[k].from = installed_apps[f[k]].from
                           /\ installed_apps'[k].is_running =>
                                First(f[k], installed_apps[f[k]].pkg)
  PROVE  ListedIsPresent' /\ IdsAscend' /\ RunningIsFirst' /\ ListedIsWhole'
PROOF
<1>1. \A k \in 1 .. n : f[k] \in DOMAIN installed_apps /\ f[k] \in Nat /\ k \in Nat
  BY DEF Inv, AppInv, TypeOK
<1>2. UNCHANGED <<files, libs, vfs>>
  BY DEF disk
<1>3. ListedIsPresent'
  <2> SUFFICES ASSUME NEW k \in 1 .. n, NEW a \in DOMAIN Lands[home][installed_apps'[k].from]
               PROVE  files[Lands[home][installed_apps'[k].from][a]] # NoFile
    BY <1>2 DEF ListedIsPresent
  <2>1. f[k] \in DOMAIN installed_apps /\ a \in DOMAIN Lands[home][installed_apps[f[k]].from]
    BY <1>1
  <2>2. files[Lands[home][installed_apps[f[k]].from][a]] # NoFile
    BY <2>1 DEF Inv, AppInv, ListedIsPresent
  <2> QED BY <2>2
<1>4. IdsAscend'
  <2>1. ASSUME NEW i \in 1 .. n, NEW j \in 1 .. n, i < j
        PROVE  installed_apps'[i].id < installed_apps'[j].id
    <3>1. f[i] \in DOMAIN installed_apps /\ f[j] \in DOMAIN installed_apps /\ f[i] < f[j]
      BY <1>1, <2>1
    <3>2. installed_apps[f[i]].id < installed_apps[f[j]].id
      BY <3>1 DEF Inv, AppInv, IdsAscend
    <3> QED BY <3>2
  <2>2. ASSUME NEW i \in 1 .. n PROVE installed_apps'[i].id < next_id'
    <3>1. installed_apps[f[i]].id < next_id
      BY <1>1 DEF Inv, AppInv, IdsAscend
    <3> QED BY <3>1
  <2>3. \A m \in spoiled' : m < next_id'
    BY DEF Inv, AppInv, IdsAscend
  <2> QED BY <2>1, <2>2, <2>3 DEF IdsAscend
<1>5. RunningIsFirst'
  <2> SUFFICES ASSUME NEW k \in 1 .. n, installed_apps'[k].is_running, NEW j \in 1 .. k - 1
               PROVE  installed_apps'[j].pkg # installed_apps'[k].pkg
    BY DEF RunningIsFirst, First
  <2>1. j \in 1 .. n /\ j < k
    OBVIOUS
  <2>2. f[j] < f[k] /\ f[j] \in 1 .. f[k] - 1
    BY <1>1, <2>1 DEF Inv, AppInv, TypeOK
  <2>3. installed_apps[f[j]].pkg # installed_apps[f[k]].pkg
    BY <2>2 DEF First
  <2> QED BY <2>1, <2>3
<1>6. ListedIsWhole'
  <2> SUFFICES ASSUME NEW k \in 1 .. n, installed_apps'[k].id \notin spoiled
               PROVE  /\ \A a \in DOMAIN Lands[home][installed_apps'[k].from] :
                           files[Lands[home][installed_apps'[k].from][a]]
                             = Whole(installed_apps'[k].from)
                      /\ <<home, installed_apps'[k].pkg>> \in vfs
                      /\ installed_apps'[k].from \notin Bundle =>
                           libs[DirOf[home][installed_apps'[k].pkg]] = installed_apps'[k].from
    BY <1>2 DEF ListedIsWhole
  <2>1. f[k] \in DOMAIN installed_apps /\ installed_apps[f[k]].id \notin spoiled
    BY <1>1
  <2>2. /\ \A a \in DOMAIN Lands[home][installed_apps[f[k]].from] :
             files[Lands[home][installed_apps[f[k]].from][a]] = Whole(installed_apps[f[k]].from)
        /\ <<home, installed_apps[f[k]].pkg>> \in vfs
        /\ installed_apps[f[k]].from \notin Bundle =>
             libs[DirOf[home][installed_apps[f[k]].pkg]] = installed_apps[f[k]].from
    BY <2>1 DEF Inv, ListedIsWhole
  <2> QED BY <2>2
<1> QED BY <1>3, <1>4, <1>5, <1>6

LEMMA LaunchOkKeepsInv == ASSUME Inv, NEW p \in Pkg, LaunchOk(p) PROVE Inv'
PROOF
<1> DEFINE n == Len(installed_apps)  f == [i \in 1 .. n |-> i]
<1>1. /\ space' \in [Pkg -> SpaceId \cup {NoSpace}] /\ issued' \subseteq SpaceId
      /\ space'[p] # NoSpace /\ \A q \in Pkg : space[q] # NoSpace => space'[q] # NoSpace
  BY AssignKeepsType DEF LaunchOk, registry, Inv, AppInv, TypeOK
<1>2. PICK m \in DOMAIN installed_apps :
        /\ installed_apps[m].pkg = p /\ First(m, p)
        /\ installed_apps' = [installed_apps EXCEPT ![m].is_running = TRUE]
  BY DEF LaunchOk, First
<1>3. \A i \in DOMAIN installed_apps :
        installed_apps[i] \in Entry /\ installed_apps[i].pkg \in Pkg
  BY ListedEntries DEF Inv, AppInv
<1>4. /\ installed_apps \in Seq(Entry) /\ n \in Nat /\ DOMAIN installed_apps = 1 .. n
      /\ DOMAIN installed_apps' = 1 .. n
      /\ installed_apps'[m] = [installed_apps[m] EXCEPT !.is_running = TRUE]
      /\ \A i \in DOMAIN installed_apps : i # m => installed_apps'[i] = installed_apps[i]
  BY <1>2 DEF Inv, AppInv, TypeOK
<1>5. \A i \in DOMAIN installed_apps :
        /\ installed_apps'[i] \in Entry /\ installed_apps'[i].id = installed_apps[i].id
        /\ installed_apps'[i].pkg = installed_apps[i].pkg
        /\ installed_apps'[i].from = installed_apps[i].from
  BY <1>3, <1>4 DEF Entry
<1>6. installed_apps' \in Seq(Entry) /\ Len(installed_apps') = n
  <2>1. installed_apps' = [i \in 1 .. n |-> installed_apps'[i]]
    BY <1>2, <1>4
  <2>2. \A i \in 1 .. n : installed_apps'[i] \in Entry
    BY <1>4, <1>5
  <2> HIDE DEF n
  <2>3. ASSUME NEW E, NEW t, t = [i \in 1 .. n |-> t[i]], \A i \in 1 .. n : t[i] \in E
        PROVE  t \in Seq(E) /\ Len(t) = n
    BY <1>4, <2>3
  <2> QED BY <2>1, <2>2, <2>3
<1>7. RunningHasSpace'
  BY <1>1, <1>2, <1>3, <1>4, <1>5 DEF Inv, AppInv, RunningHasSpace
<1>8. ListedIsPresent' /\ IdsAscend' /\ RunningIsFirst' /\ ListedIsWhole'
  <2> HIDE DEF n
  <2>1. f \in [1 .. n -> DOMAIN installed_apps] /\ \A i \in 1 .. n : f[i] = i
    BY <1>4
  <2>2. \A i \in 1 .. n : /\ installed_apps'[i].id = installed_apps[f[i]].id
                          /\ installed_apps'[i].pkg = installed_apps[f[i]].pkg
                          /\ installed_apps'[i].from = installed_apps[f[i]].from
                          /\ installed_apps'[i].is_running => First(f[i], installed_apps[f[i]].pkg)
    BY <1>2, <1>4, <1>5, <2>1 DEF Inv, AppInv, RunningIsFirst
  <2> HIDE DEF f
  <2> QED BY <1>4, <1>6, <2>1, <2>2, PackagesTaken DEF LaunchOk
<1>9. BrowserShowsFolder'
  BY BrowserKept DEF LaunchOk
<1>10. TypeOK'
  BY <1>1, <1>6 DEF LaunchOk, disk, job, Inv, AppInv, TypeOK
<1>11. ImportOnItsWay'
  BY DEF LaunchOk, job, ImportOnItsWay, Importing
<1> QED BY <1>7, <1>8, <1>9, <1>10, <1>11 DEF Inv, AppInv, ListInv

LEMMA UninstallKeepsInv == ASSUME Inv, NEW p \in Pkg, Uninstall(p) PROVE Inv'
PROOF
<1> DEFINE Kept == {i \in DOMAIN installed_apps : installed_apps[i].pkg # p}
           n == Len(installed_apps')
<1>1. installed_apps \in Seq(Entry) /\ installed_apps' \in Retained(installed_apps, Kept)
  BY DEF Uninstall, Inv, AppInv, TypeOK
<1>2. \A i \in Kept : i \in DOMAIN installed_apps /\ installed_apps[i].pkg # p
  OBVIOUS
<1>3. \A i \in DOMAIN installed_apps : installed_apps[i].pkg # p => i \in Kept
  OBVIOUS
<1> HIDE DEF Kept
<1>4. installed_apps' \in Seq(Entry) /\ \E f : Picked(installed_apps, Kept, installed_apps', f)
  BY <1>1, RetainedProperty
<1>5. n \in Nat /\ DOMAIN installed_apps' = 1 .. n
  BY <1>4
<1> HIDE DEF n
<1>6. PICK f \in [1 .. n -> DOMAIN installed_apps] :
        /\ \A i, j \in 1 .. n : i < j => f[i] < f[j]
        /\ \A k \in 1 .. n : f[k] \in Kept /\ installed_apps'[k] = installed_apps[f[k]]
        /\ \A i \in Kept : \E k \in 1 .. n : f[k] = i
  BY <1>4, <1>5 DEF Picked
<1>7. ListedIsPresent' /\ IdsAscend' /\ RunningIsFirst' /\ ListedIsWhole'
  <2>1. \A k \in 1 .. n :
          installed_apps'[k].is_running => First(f[k], installed_apps[f[k]].pkg)
    BY <1>6 DEF Inv, AppInv, RunningIsFirst
  <2> QED BY <1>5, <1>6, <2>1, PackagesTaken DEF Uninstall, n
<1>8. RunningHasSpace'
  BY <1>5, <1>6 DEF Uninstall, registry, Inv, AppInv, RunningHasSpace
<1>9. BrowserShowsFolder'
  BY BrowserKept DEF Uninstall
<1>10. TypeOK'
  BY <1>4 DEF Uninstall, disk, job, registry, Inv, AppInv, TypeOK
<1>11. ImportOnItsWay'
  BY DEF Uninstall, job, ImportOnItsWay, Importing
<1> QED BY <1>7, <1>8, <1>9, <1>10, <1>11 DEF Inv, AppInv

-----------------------------------------------------------------------------
(* The file browser                                                        *)

LEMMA LookKeepsInv == ASSUME Inv, Look PROVE Inv'
PROOF
<1>1. ListInv'
  BY ListKept DEF Look, ListParts, app, disk, registry
<1>2. BrowserShowsFolder'
  <2>1. ASSUME NEW d \in Folder, ScanDirectory(d), view' \in {"main", "browser"}
        PROVE  BrowserShowsFolder'
    BY <2>1 DEF ScanDirectory, BrowserShowsFolder, SubFolders
  <2>2. CASE OpenBrowser
    BY <2>1, <2>2, FolderAssumption DEF OpenBrowser
  <2>3. CASE GoUp
    BY <2>1, <2>3, FolderAssumption DEF GoUp, Inv, AppInv, BrowserShowsFolder
  <2>4. CASE Cancel
    BY <2>4 DEF Cancel, Inv, AppInv, BrowserShowsFolder, SubFolders
  <2>5. ASSUME NEW d \in Folder, EnterDir(d) PROVE BrowserShowsFolder'
    BY <2>1, <2>5 DEF EnterDir, Inv, AppInv, BrowserShowsFolder
  <2> QED BY <2>2, <2>3, <2>4, <2>5 DEF Look, Browse
<1>3. TypeOK'
  BY DEF Look, disk, app, job, registry, Inv, AppInv, TypeOK
<1>4. ImportOnItsWay'
  BY DEF Look, job, ImportOnItsWay, Importing
<1> QED BY <1>1, <1>2, <1>3, <1>4 DEF Inv, AppInv, ListInv

LEMMA StutterKeepsInv == ASSUME Inv, UNCHANGED vars PROVE Inv'
PROOF
<1>1. ListInv'
  BY ListKept DEF vars, ListParts, app, disk, registry
<1>2. BrowserShowsFolder'
  BY BrowserKept DEF vars
<1>3. TypeOK'
  BY DEF vars, disk, app, job, registry, Inv, AppInv, TypeOK
<1>4. ImportOnItsWay'
  BY DEF vars, disk, app, job, Inv, AppInv, ImportOnItsWay, Importing, Written, UsersOf, LibDir
<1> QED BY <1>1, <1>2, <1>3, <1>4 DEF Inv, AppInv, ListInv

LEMMA NextInv == Inv /\ [Next]_vars => Inv'
PROOF
<1> SUFFICES ASSUME Inv, [Next]_vars PROVE Inv'
  OBVIOUS
<1>1. CASE LoadConfig \/ LoadDefault \/ SaveConfig
  BY <1>1, LoadKeepsInv
<1>2. CASE Crash \/ Parsed \/ WriteBegin \/ WriteEnd
  BY <1>2, CrashKeepsInv, ParsedKeepsInv, WriteBeginKeepsInv, WriteEndKeepsInv
<1>3. CASE LibsExtracted \/ VfsInitialized \/ Installed \/ ImportFailed \/ Look
  BY <1>3, LibsExtractedKeepsInv, VfsInitializedKeepsInv, InstalledKeepsInv,
     ImportFailedKeepsInv, LookKeepsInv
<1>4. ASSUME NEW s \in Source, Import(s) PROVE Inv'
  BY <1>4, ImportKeepsInv
<1>5. ASSUME NEW p \in Pkg, LaunchOk(p) \/ LaunchFailed(p) \/ Uninstall(p) PROVE Inv'
  BY <1>5, LaunchOkKeepsInv, LaunchFailedKeepsInv, UninstallKeepsInv
<1>6. CASE UNCHANGED vars
  BY <1>6, StutterKeepsInv
<1> QED BY <1>1, <1>2, <1>3, <1>4, <1>5, <1>6 DEF Next

LEMMA AlwaysInv == Spec => []Inv
  BY InitInv, NextInv, PTL DEF Spec

\* However imports fail and whenever the process dies (lib.rs:60-191, 323-380): no file of
\* what is listed is missing, ids ascend, a running app has a space, only the oldest entry of
\* a package is marked as running, and an import has written what its next step relies on.
THEOREM AppCorrect == Spec => []AppInv
PROOF
<1>1. Inv => AppInv
  BY DEF Inv
<1> QED BY <1>1, AlwaysInv, PTL

\* Every entry is on disk as it was imported, until a later import begins to write to one
\* of its very files, whichever package that import is of (installer.rs:58-181,
\* xapk.rs:122-154). Nothing is assumed of where the APKs of a bundle land.
THEOREM ListedIsWholeHolds == Spec => []ListedIsWhole
PROOF
<1>1. Inv => ListedIsWhole
  BY DEF Inv
<1> QED BY <1>1, AlwaysInv, PTL
=============================================================================
