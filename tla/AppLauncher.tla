----------------------------- MODULE AppLauncher -----------------------------
(***************************************************************************)
(* neutron-engine/src/launcher.rs: AppLauncher, one virtual space per      *)
(* package, each meant to be an Android secondary user.                    *)
(*                                                                         *)
(* The launcher is called from the UI thread only, one call at a time; a   *)
(* call is a sequence of `pm` and `am` commands, one action per command,   *)
(* so that Android moves, and the process can die, between two of them.    *)
(* Android (the users and what is installed in them) outlives the process; *)
(* the launcher's own tables do not.                                       *)
(***************************************************************************)
EXTENDS Integers, Sequences, FiniteSets

CONSTANTS Pkg,          \* package names
          NoPkg,        \* "no call in progress"
          FirstUserId,  \* the first id the launcher assumes (10 in the code)
          MaxUserId,    \* bound: no launch begins once the ids reach it
          MaxUsers,     \* the users the device supports, the system user included
          NameIn        \* <<p, q>> \in NameIn: the name p occurs inside q

SystemUser == 0
NoSpace == 0            \* user 0 is the system user, never a space

ASSUME NoPkgAssumption == NoPkg \notin Pkg
ASSUME UserIdAssumption == FirstUserId \in Nat \ {0} /\ MaxUserId \in Nat
ASSUME NameInAssumption == /\ NameIn \subseteq Pkg \X Pkg
                           /\ \A p \in Pkg : <<p, p>> \in NameIn

VARIABLES
  \* AppLauncher
  app_to_space,    \* package -> user id, NoSpace when the map has no entry
  virtual_spaces,  \* the user ids of the Vec<VirtualSpace>, in push order
  next_user_id,
  \* the call in progress
  pc, arg, uid, todo,
  \* Android
  users, installed, pm_list_all,
  \* observers of this lifetime of the process
  running,         \* <<p, u>>: started as u by a launch, and not ended since
  survived,        \* the running apps that stop or stop_all failed to end
  created,         \* the ids Android gave to the create-user commands
  placed           \* <<p, u>>: `pm install --user u` of p succeeded

launcher == <<app_to_space, virtual_spaces, next_user_id>>
call     == <<pc, arg, uid, todo>>
android  == <<users, installed, pm_list_all>>
observed == <<running, survived, created, placed>>
vars     == <<launcher, call, android, observed>>

UserId   == FirstUserId .. MaxUserId
Placing  == Pkg \X UserId
SpaceIds == {virtual_spaces[i] : i \in 1 .. Len(virtual_spaces)}
Mapped   == {p \in Pkg : app_to_space[p] # NoSpace}

TypeOK ==
  /\ app_to_space \in [Pkg -> UserId \cup {NoSpace}]
  /\ virtual_spaces \in Seq(UserId)
  /\ next_user_id \in Nat /\ next_user_id >= FirstUserId
  /\ pc \in {"idle", "create", "create_plain", "check", "install", "force_stop",
             "start", "stop_all"}
  /\ arg \in Pkg \cup {NoPkg} /\ uid \in UserId \cup {NoSpace} /\ todo \subseteq Pkg
  /\ users \subseteq UserId \cup {SystemUser}
  /\ installed \subseteq Pkg \X (UserId \cup {SystemUser})
  /\ pm_list_all \in BOOLEAN
  /\ running \subseteq Placing /\ survived \subseteq Placing
  /\ created \in Seq(UserId)
  /\ placed \subseteq Placing

-----------------------------------------------------------------------------
(* Init: AppLauncher::new on a device that may already have a secondary    *)
(* user, and whose owner may have installed any of the packages.           *)

Unmapped == [p \in Pkg |-> NoSpace]

Init ==
  /\ app_to_space = Unmapped /\ virtual_spaces = <<>> /\ next_user_id = FirstUserId
  /\ pc = "idle" /\ arg = NoPkg /\ uid = NoSpace /\ todo = {}
  /\ users \in {{SystemUser}, {SystemUser} \cup (UserId \cap {FirstUserId})}
  /\ \E host \in SUBSET Pkg : installed = host \X {SystemUser}
  /\ pm_list_all \in BOOLEAN
  /\ running = {} /\ survived = {} /\ created = <<>> /\ placed = {}

-----------------------------------------------------------------------------
(* Android, as the launcher uses it.                                       *)

\* `pm create-user` takes the lowest free id of a secondary user; it fails at
\* the device's limit.
FreeIds == UserId \ users
GrantUser ==
  /\ Cardinality(users) < MaxUsers
  /\ \E id \in FreeIds :
       /\ \A other \in FreeIds : id <= other
       /\ users' = users \cup {id}
       /\ created' = Append(created, id)

\* `pm list packages p` prints every package, of the users it looks at (the
\* system user or all of them, as the Android version has it), whose name
\* contains p; the code then looks for p anywhere in that output.
Listed(p) ==
  \E qu \in installed : /\ <<p, qu[1]>> \in NameIn
                        /\ qu[2] = SystemUser \/ pm_list_all

\* `am force-stop` exits with 0 or not, and its effect is never looked at.
ForceStop(pu) == \E r \in {running, running \ {pu}} : running' = r

Goto(l) == pc' = l /\ UNCHANGED <<arg, uid, todo>>
Return  == pc' = "idle" /\ arg' = NoPkg /\ uid' = NoSpace /\ UNCHANGED todo

-----------------------------------------------------------------------------
(* launch                                                                  *)

\* get_or_create_space, the package is already mapped.
LaunchKnown(p) ==
  /\ pc = "idle" /\ app_to_space[p] # NoSpace
  /\ pc' = "check" /\ arg' = p /\ uid' = app_to_space[p]
  /\ UNCHANGED <<launcher, todo, android, observed>>

\* Mutants of LaunchNew: the id is not moved past; the mapping is written before the
\* command has run.
IdNotAdvanced(p) ==
  /\ pc = "idle" /\ app_to_space[p] = NoSpace
  /\ next_user_id <= MaxUserId
  /\ pc' = "create" /\ arg' = p /\ uid' = next_user_id
  /\ UNCHANGED <<launcher, todo, android, observed>>
MappedBeforeCreated(p) ==
  /\ pc = "idle" /\ app_to_space[p] = NoSpace
  /\ next_user_id <= MaxUserId
  /\ pc' = "create" /\ arg' = p /\ uid' = next_user_id
  /\ app_to_space' = [app_to_space EXCEPT ![p] = next_user_id]
  /\ next_user_id' = next_user_id + 1
  /\ UNCHANGED <<virtual_spaces, todo, android, observed>>

\* get_or_create_space, a new space: the id is taken before the command runs.
LaunchNew(p) ==
  /\ pc = "idle" /\ app_to_space[p] = NoSpace
  /\ next_user_id <= MaxUserId
  /\ pc' = "create" /\ arg' = p /\ uid' = next_user_id
  /\ next_user_id' = next_user_id + 1
  /\ UNCHANGED <<app_to_space, virtual_spaces, todo, android, observed>>

\* Mutant of RecordSpace: the second attempt writes the map only.
RetryNotRecorded ==
  /\ virtual_spaces' = IF pc = "create" THEN Append(virtual_spaces, uid) ELSE virtual_spaces
  /\ app_to_space' = [app_to_space EXCEPT ![arg] = uid]
  /\ UNCHANGED next_user_id

\* The bookkeeping that follows a create-user command that exited with 0.
RecordSpace ==
  /\ virtual_spaces' = Append(virtual_spaces, uid)
  /\ app_to_space' = [app_to_space EXCEPT ![arg] = uid]
  /\ UNCHANGED next_user_id

UserCreated ==
  /\ pc \in {"create", "create_plain"}
  /\ GrantUser
  /\ RecordSpace
  /\ Goto("check")
  /\ UNCHANGED <<installed, pm_list_all, running, survived, placed>>

\* The command with flags exits with an error: try again without flags.
FlagsRefused ==
  /\ pc = "create"
  /\ Goto("create_plain")
  /\ UNCHANGED <<launcher, android, observed>>

\* `pm` could not be spawned, or the second attempt failed too: the id is burned.
CreateFailed ==
  /\ pc \in {"create", "create_plain"}
  /\ Return
  /\ UNCHANGED <<launcher, android, observed>>

\* install_into_user: the APK file is not there.
ApkMissing ==
  /\ pc = "check"
  /\ Return
  /\ UNCHANGED <<launcher, android, observed>>

CheckListed ==
  /\ pc = "check" /\ Listed(arg)
  /\ Goto("force_stop")
  /\ UNCHANGED <<launcher, android, observed>>

\* Not listed, or `pm list` itself failed.
CheckNotListed ==
  /\ pc = "check"
  /\ Goto("install")
  /\ UNCHANGED <<launcher, android, observed>>

InstallOk ==
  /\ pc = "install" /\ uid \in users
  /\ installed' = installed \cup {<<arg, uid>>}
  /\ placed' = placed \cup {<<arg, uid>>}
  /\ Goto("force_stop")
  /\ UNCHANGED <<launcher, users, pm_list_all, running, survived, created>>

InstallFailed ==
  /\ pc = "install"
  /\ Return
  /\ UNCHANGED <<launcher, android, observed>>

\* launch_app.
ForceStopFirst ==
  /\ pc = "force_stop"
  /\ ForceStop(<<arg, uid>>)
  /\ Goto("start")
  /\ UNCHANGED <<launcher, android, survived, created, placed>>

\* `am start -S -W` exits with 0: an app that is there has been restarted. `am`
\* also exits with 0 after printing an error, so the app may not run.
StartOk ==
  /\ pc = "start"
  /\ \/ <<arg, uid>> \in installed /\ running' = running \cup {<<arg, uid>>}
     \/ running' = running \ {<<arg, uid>>}
  /\ Return
  /\ UNCHANGED <<launcher, android, survived, created, placed>>

StartFailed ==
  /\ pc = "start"
  /\ Return
  /\ UNCHANGED <<launcher, android, observed>>

-----------------------------------------------------------------------------
(* stop and stop_all                                                       *)

\* The mapping goes whether or not the force-stop took effect. (When `am` cannot
\* be spawned, stop returns before it changes anything.)
Stop(p) ==
  /\ pc = "idle"
  /\ LET pu == <<p, app_to_space[p]>> IN
       /\ ForceStop(pu)
       /\ survived' = (survived \cup {pu}) \cap running'
  /\ app_to_space' = [app_to_space EXCEPT ![p] = NoSpace]
  /\ UNCHANGED <<virtual_spaces, next_user_id, call, android, created, placed>>

StopAllBegin ==
  /\ pc = "idle"
  /\ pc' = "stop_all" /\ todo' = Mapped
  /\ UNCHANGED <<launcher, arg, uid, android, observed>>

\* One turn of the loop over the map's keys, in the map's arbitrary order.
StopAllOne(p) ==
  /\ pc = "stop_all" /\ p \in todo
  /\ LET pu == <<p, app_to_space[p]>> IN
       /\ ForceStop(pu)
       /\ survived' = (survived \cup {pu}) \cap running'
  /\ todo' = todo \ {p}
  /\ UNCHANGED <<launcher, pc, arg, uid, android, created, placed>>

\* Mutant of StopAllEnd: the loop is left early, at an error, and the map cleared.
StopAllLeftEarly ==
  /\ pc = "stop_all"
  /\ app_to_space' = Unmapped
  /\ pc' = "idle" /\ arg' = NoPkg /\ uid' = NoSpace /\ todo' = {}
  /\ UNCHANGED <<virtual_spaces, next_user_id, android, observed>>

StopAllEnd ==
  /\ pc = "stop_all" /\ todo = {}
  /\ app_to_space' = Unmapped
  /\ Return
  /\ UNCHANGED <<virtual_spaces, next_user_id, android, observed>>

-----------------------------------------------------------------------------
(* The environment.                                                        *)

\* The Neutron process dies, whatever it was doing, and is started again:
\* android_main builds a new launcher; Android keeps everything.
CrashRestart ==
  /\ app_to_space' = Unmapped /\ virtual_spaces' = <<>> /\ next_user_id' = FirstUserId
  /\ pc' = "idle" /\ arg' = NoPkg /\ uid' = NoSpace /\ todo' = {}
  /\ running' = {} /\ survived' = {} /\ created' = <<>> /\ placed' = {}
  /\ UNCHANGED android

\* A virtualised app ends by itself.
GuestExits(pu) ==
  /\ running' = running \ {pu} /\ survived' = survived \ {pu}
  /\ UNCHANGED <<launcher, call, android, created, placed>>

\* A secondary user disappears (the owner removes it, or Android deletes an
\* ephemeral user that was stopped) with all it holds.
UserRemoved(u) ==
  /\ users' = users \ {u}
  /\ installed' = {pu \in installed : pu[2] # u}
  /\ running' = {pu \in running : pu[2] # u}
  /\ survived' = {pu \in survived : pu[2] # u}
  /\ UNCHANGED <<launcher, call, pm_list_all, created, placed>>

Launch == \/ \E p \in Pkg : LaunchKnown(p) \/ LaunchNew(p)
          \/ UserCreated \/ FlagsRefused \/ CreateFailed
          \/ ApkMissing \/ CheckListed \/ CheckNotListed
          \/ InstallOk \/ InstallFailed
          \/ ForceStopFirst \/ StartOk \/ StartFailed

Stopping == \/ \E p \in Pkg : Stop(p) \/ StopAllOne(p)
            \/ StopAllBegin \/ StopAllEnd

Environment == \/ CrashRestart
               \/ \E pu \in running : GuestExits(pu)
               \/ \E u \in users \ {SystemUser} : UserRemoved(u)

Next == Launch \/ Stopping \/ Environment

Spec == Init /\ [][Next]_vars
-----------------------------------------------------------------------------
(* What the launcher guarantees.                                           *)

\* No recorded id is at or above the next one to hand out: get_or_create_space
\* moves next_user_id past an id before the id is used for anything.
IdsBelowNext == \A id \in SpaceIds : id < next_user_id

\* The id of a space being created is not yet anybody's.
PendingFresh ==
  pc \in {"create", "create_plain"} =>
    /\ arg \in Pkg /\ app_to_space[arg] = NoSpace
    /\ uid \in UserId \ SpaceIds /\ uid < next_user_id

\* Past get_or_create_space, the call works on the space its package owns.
InFlightOwned ==
  pc \in {"check", "install", "force_stop", "start"} =>
    arg \in Pkg /\ uid # NoSpace /\ app_to_space[arg] = uid

\* A mapped id is a recorded space, and no two packages share one.
MappedRecorded == \A p \in Mapped : app_to_space[p] \in SpaceIds
SpacesDistinct == \A p, q \in Mapped : p # q => app_to_space[p] # app_to_space[q]

\* What was installed into a space belongs to whoever owns the space.
PlacedByOwner ==
  \A pu \in placed : /\ pu[2] \in SpaceIds
                     /\ \A q \in Mapped : app_to_space[q] = pu[2] => q = pu[1]

\* One lifetime of the launcher never installs two packages into one user, even
\* when a package is stopped and its space orphaned (launcher.rs:79-130, 239-272).
OneAppPerUser == \A pu, qv \in placed : pu[2] = qv[2] => pu[1] = qv[1]

\* stop_all has already stopped the mapped packages that are no longer to do.
StopAllProgress ==
  /\ pc # "stop_all" => todo = {}
  /\ todo \subseteq Mapped
  /\ pc = "stop_all" =>
       \A p \in Mapped \ todo : <<p, app_to_space[p]>> \notin running \ survived

\* A running app that no stop was tried on is one the launcher still knows of, in
\* the space it runs in: nothing running is forgotten (launcher.rs:127, 239-272).
RunningTracked ==
  \A pu \in running \ survived : pu[1] \in Mapped /\ app_to_space[pu[1]] = pu[2]

\* The inductive invariant of the launcher (launcher.rs:62-130, 239-272).
LauncherInv ==
  /\ TypeOK
  /\ IdsBelowNext /\ PendingFresh /\ InFlightOwned
  /\ MappedRecorded /\ SpacesDistinct
  /\ PlacedByOwner
  /\ StopAllProgress /\ RunningTracked

\* Every user that Android created for this lifetime's launches is on record in
\* virtual_spaces, on the retry path too (launcher.rs:101-127).
UsersAccounted == Len(created) = Len(virtual_spaces)

\* The launcher implements the registry: at most one space per package, never the
\* same space twice, and no failed command moves a package (launcher.rs:40, "Map of
\* package_name -> virtual_space user_id").
Registry == INSTANCE SpaceRegistry
              WITH SpaceId <- UserId, space <- app_to_space, issued <- SpaceIds
ImplementsRegistry == Registry!Spec

-----------------------------------------------------------------------------
(* What the documentation says and the code does not do.                   *)

\* launcher.rs:14, "Android user ID for this virtual space": the id the launcher
\* recorded for a space is the id of the user that was created for it.
SpaceBackedByItsUser ==
  \A i \in 1 .. Len(virtual_spaces) : virtual_spaces[i] = created[i]

\* launcher.rs:60, "Install the APK into that user's space": by the time `am start`
\* runs, the package is installed for the user it is started as.
StartsOnlyInstalled == pc = "start" => <<arg, uid>> \in installed
=============================================================================
