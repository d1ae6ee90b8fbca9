-------------------------- MODULE AppLauncherProofs --------------------------
(* Theorems about AppLauncher, for every set of packages, every bound on    *)
(* the ids and every device.                                                *)
EXTENDS AppLauncher, TLAPS

\* Recording a space adds its id to the recorded ones, and nothing else.
LEMMA RecordAdds ==
  ASSUME virtual_spaces \in Seq(UserId), uid \in UserId,
         virtual_spaces' = Append(virtual_spaces, uid)
  PROVE  /\ virtual_spaces' \in Seq(UserId)
         /\ SpaceIds' = SpaceIds \cup {uid}
PROOF
<1>1. virtual_spaces' \in Seq(UserId) /\ Len(virtual_spaces') = Len(virtual_spaces) + 1
  OBVIOUS
<1>2. /\ virtual_spaces'[Len(virtual_spaces) + 1] = uid
      /\ \A i \in 1 .. Len(virtual_spaces) : virtual_spaces'[i] = virtual_spaces[i]
  OBVIOUS
<1>3. Len(virtual_spaces) \in Nat
  OBVIOUS
<1>4. ASSUME NEW id \in SpaceIds' PROVE id \in SpaceIds \cup {uid}
  <2>1. PICK i \in 1 .. Len(virtual_spaces') : virtual_spaces'[i] = id
    BY <1>4 DEF SpaceIds
  <2>2. CASE i = Len(virtual_spaces) + 1
    BY <2>1, <2>2, <1>2
  <2>3. CASE i \in 1 .. Len(virtual_spaces)
    BY <2>1, <2>3, <1>2 DEF SpaceIds
  <2> QED BY <2>1, <2>2, <2>3, <1>1, <1>3
<1>5. SpaceIds \subseteq SpaceIds'
  BY <1>1, <1>2, <1>3 DEF SpaceIds
<1>6. uid \in SpaceIds'
  BY <1>1, <1>2, <1>3 DEF SpaceIds
<1> QED BY <1>1, <1>4, <1>5, <1>6

LEMMA NoSpaceIsNoUserId == NoSpace \notin UserId
  BY UserIdAssumption DEF NoSpace, UserId

\* A launcher that was just built has no space.
LEMMA EmptyHasNoSpace == virtual_spaces = <<>> => SpaceIds = {}
  BY DEF SpaceIds

-----------------------------------------------------------------------------
(* LauncherInv is inductive. Its parts need each other: RunningTracked, the *)
(* promise that no running app is forgotten, is kept by StopAllEnd because  *)
(* of StopAllProgress and by StartOk because of InFlightOwned, which is     *)
(* kept by UserCreated because of PendingFresh, which is kept by LaunchNew  *)
(* because of IdsBelowNext.                                                 *)

LEMMA InitInv == Init => LauncherInv
  BY UserIdAssumption, NoPkgAssumption, EmptyHasNoSpace
  DEF Init, LauncherInv, TypeOK, UserId, Placing, Mapped, Unmapped, NoSpace, SystemUser,
      IdsBelowNext, PendingFresh, InFlightOwned, MappedRecorded, SpacesDistinct,
      PlacedByOwner, StopAllProgress, RunningTracked

LEMMA NextInv == LauncherInv /\ [Next]_vars => LauncherInv'
PROOF
<1> SUFFICES ASSUME LauncherInv, [Next]_vars PROVE LauncherInv'
  OBVIOUS
<1> USE UserIdAssumption, NoPkgAssumption, NoSpaceIsNoUserId
<1> USE DEF LauncherInv, TypeOK, IdsBelowNext, PendingFresh, InFlightOwned, MappedRecorded,
        SpacesDistinct, PlacedByOwner, StopAllProgress, RunningTracked,
        launcher, call, android, observed, Goto, Return, Mapped, Placing
<1>1. ASSUME NEW p \in Pkg, LaunchKnown(p) PROVE LauncherInv'
  BY <1>1 DEF LaunchKnown, SpaceIds
<1>2. ASSUME NEW p \in Pkg, LaunchNew(p) PROVE LauncherInv'
  <2>1. next_user_id \in UserId /\ next_user_id' = next_user_id + 1
    BY <1>2 DEF LaunchNew, UserId
  <2>2. SpaceIds' = SpaceIds /\ SpaceIds \subseteq Nat
    BY <1>2 DEF LaunchNew, SpaceIds, UserId
  <2>3. next_user_id \notin SpaceIds
    BY <2>2
  <2>4. \A id \in SpaceIds : id < next_user_id + 1
    BY <2>2
  <2> QED BY <1>2, <2>1, <2>2, <2>3, <2>4 DEF LaunchNew, UserId
<1>3. CASE UserCreated
  <2>1. SpaceIds' = SpaceIds \cup {uid}
    BY <1>3, RecordAdds DEF UserCreated, RecordSpace
  <2>2. /\ virtual_spaces' \in Seq(UserId)
        /\ created' \in Seq(UserId)
        /\ users' \subseteq UserId \cup {SystemUser}
    BY <1>3 DEF UserCreated, RecordSpace, GrantUser, FreeIds
  <2> QED BY <1>3, <2>1, <2>2 DEF UserCreated, RecordSpace
<1>4. CASE FlagsRefused
  BY <1>4 DEF FlagsRefused, SpaceIds
<1>5. CASE CreateFailed
  BY <1>5 DEF CreateFailed, SpaceIds
<1>6. CASE ApkMissing
  BY <1>6 DEF ApkMissing, SpaceIds
<1>7. CASE CheckListed
  BY <1>7 DEF CheckListed, SpaceIds
<1>8. CASE CheckNotListed
  BY <1>8 DEF CheckNotListed, SpaceIds
<1>9. CASE InstallOk
  BY <1>9 DEF InstallOk, SpaceIds
<1>10. CASE InstallFailed
  BY <1>10 DEF InstallFailed, SpaceIds
<1>11. CASE ForceStopFirst
  BY <1>11 DEF ForceStopFirst, ForceStop, SpaceIds
<1>12. CASE StartOk
  BY <1>12 DEF StartOk, SpaceIds
<1>13. CASE StartFailed
  BY <1>13 DEF StartFailed, SpaceIds
<1>14. ASSUME NEW p \in Pkg, Stop(p) PROVE LauncherInv'
  BY <1>14 DEF Stop, ForceStop, SpaceIds
<1>15. CASE StopAllBegin
  BY <1>15 DEF StopAllBegin, SpaceIds
<1>16. ASSUME NEW p \in Pkg, StopAllOne(p) PROVE LauncherInv'
  BY <1>16 DEF StopAllOne, ForceStop, SpaceIds
<1>17. CASE StopAllEnd
  BY <1>17 DEF StopAllEnd, Unmapped, SpaceIds
<1>18. CASE CrashRestart
  BY <1>18 DEF CrashRestart, Unmapped, SpaceIds
<1>19. ASSUME NEW pu \in running, GuestExits(pu) PROVE LauncherInv'
  BY <1>19 DEF GuestExits, SpaceIds
<1>20. ASSUME NEW u \in users, UserRemoved(u) PROVE LauncherInv'
  BY <1>20 DEF UserRemoved, SpaceIds
<1>21. CASE UNCHANGED vars
  BY <1>21 DEF vars, SpaceIds
<1> QED
  BY <1>1, <1>2, <1>3, <1>4, <1>5, <1>6, <1>7, <1>8, <1>9, <1>10, <1>11, <1>12, <1>13, <1>14, <1>15, <1>16, <1>17, <1>18, <1>19, <1>20, <1>21
  DEF Next, Launch, Stopping, Environment

\* The launcher's tables are well typed and consistent, and every running app is
\* tracked, in every reachable state: spaces are fresh when made, owned by one
\* package, and no stop or failure forgets an app that runs.
THEOREM LauncherCorrect == Spec => []LauncherInv
PROOF
<1>1. Init => LauncherInv
  BY InitInv
<1>2. LauncherInv /\ [Next]_vars => LauncherInv'
  BY NextInv
<1> QED BY <1>1, <1>2, PTL DEF Spec

\* Nothing that is mapped or started is ever lost track of (launcher.rs:127, 239-272).
THEOREM RunningIsTracked == Spec => []RunningTracked
  BY LauncherCorrect, PTL DEF LauncherInv

\* In one lifetime no two packages are ever installed into the same user.
THEOREM OneAppPerUserHolds == Spec => []OneAppPerUser
PROOF
<1>1. ASSUME LauncherInv, OneAppPerUser, [Next]_vars PROVE OneAppPerUser'
  <2>1. CASE InstallOk
    <3>1. \A pu \in placed : pu[2] = uid => pu[1] = arg
      BY <1>1, <2>1 DEF InstallOk, LauncherInv, InFlightOwned, PlacedByOwner, Mapped, TypeOK
    <3> QED BY <1>1, <2>1, <3>1 DEF InstallOk, OneAppPerUser
  <2>2. CASE ~ InstallOk
    <3>1. placed' = placed \/ placed' = {}
      BY <1>1, <2>2
      DEF Next, Launch, Stopping, Environment, vars, observed, LaunchKnown, LaunchNew,
          UserCreated, FlagsRefused, CreateFailed, ApkMissing, CheckListed, CheckNotListed,
          InstallFailed, ForceStopFirst, StartOk, StartFailed, Stop, StopAllBegin,
          StopAllOne, StopAllEnd, CrashRestart, GuestExits, UserRemoved
    <3> QED BY <1>1, <3>1 DEF OneAppPerUser
  <2> QED BY <2>1, <2>2
<1>2. Init => OneAppPerUser
  BY DEF Init, OneAppPerUser
<1> QED BY <1>1, <1>2, LauncherCorrect, PTL DEF Spec

\* No Android user made by this lifetime is missing from virtual_spaces.
THEOREM UsersAccountedHolds == Spec => []UsersAccounted
PROOF
<1>1. Init => UsersAccounted
  BY DEF Init, UsersAccounted
<1>2. ASSUME LauncherInv, UsersAccounted, [Next]_vars PROVE UsersAccounted'
  <2>1. CASE UserCreated
    BY <1>2, <2>1
    DEF UserCreated, GrantUser, FreeIds, RecordSpace, UsersAccounted, LauncherInv, TypeOK
  <2>2. CASE ~ UserCreated
    <3>1. \/ created' = created /\ virtual_spaces' = virtual_spaces
          \/ created' = <<>> /\ virtual_spaces' = <<>>
      BY <1>2, <2>2
      DEF Next, Launch, Stopping, Environment, vars, observed, launcher, LaunchKnown, LaunchNew,
          FlagsRefused, CreateFailed, ApkMissing, CheckListed, CheckNotListed, InstallOk,
          InstallFailed, ForceStopFirst, StartOk, StartFailed, Stop, StopAllBegin,
          StopAllOne, StopAllEnd, CrashRestart, GuestExits, UserRemoved
    <3> QED BY <1>2, <3>1 DEF UsersAccounted
  <2> QED BY <2>1, <2>2
<1> QED BY <1>1, <1>2, LauncherCorrect, PTL DEF Spec

-----------------------------------------------------------------------------
(* The refinement. A step is Assign when a user was created, Release for    *)
(* stop, ReleaseAll for the end of stop_all, Restart for a restart, and     *)
(* invisible to the registry otherwise.                                     *)

LEMMA InitRefines == Init => Registry!Init
  BY EmptyHasNoSpace DEF Init, Registry!Init, Registry!NoSpaces, Unmapped

LEMMA CreatedIsAssign == LauncherInv /\ UserCreated => \E p \in Pkg : Registry!Assign(p)
PROOF
<1> SUFFICES ASSUME LauncherInv, UserCreated PROVE Registry!Assign(arg) /\ arg \in Pkg
  OBVIOUS
<1>1. /\ arg \in Pkg /\ app_to_space[arg] = NoSpace
      /\ uid \in UserId \ SpaceIds
  BY DEF LauncherInv, PendingFresh, UserCreated
<1>2. SpaceIds' = SpaceIds \cup {uid}
  BY <1>1, RecordAdds DEF LauncherInv, TypeOK, UserCreated, RecordSpace
<1>3. app_to_space' = [app_to_space EXCEPT ![arg] = uid]
  BY DEF UserCreated, RecordSpace
<1> QED BY <1>1, <1>2, <1>3 DEF Registry!Assign

LEMMA StepRefines == LauncherInv /\ [Next]_vars => [Registry!Next]_(Registry!vars)
PROOF
<1> SUFFICES ASSUME LauncherInv, [Next]_vars PROVE [Registry!Next]_(Registry!vars)
  OBVIOUS
<1> USE DEF Registry!Next, Registry!vars
<1>1. CASE UserCreated
  BY <1>1, CreatedIsAssign
<1>2. ASSUME NEW p \in Pkg, Stop(p) PROVE [Registry!Next]_(Registry!vars)
  BY <1>2 DEF Stop, Registry!Release, SpaceIds
<1>3. CASE StopAllEnd
  BY <1>3 DEF StopAllEnd, Unmapped, Registry!ReleaseAll, Registry!NoSpaces, SpaceIds
<1>4. CASE CrashRestart
  <2>1. SpaceIds' = {}
    BY <1>4 DEF CrashRestart, SpaceIds
  <2> QED BY <1>4, <2>1 DEF CrashRestart, Unmapped, Registry!Restart, Registry!NoSpaces
<1>5. CASE UNCHANGED <<app_to_space, virtual_spaces>>
  BY <1>5 DEF SpaceIds
<1> QED
  BY <1>1, <1>2, <1>3, <1>4, <1>5
  DEF Next, Launch, Stopping, Environment, vars, launcher, LaunchKnown, LaunchNew,
      FlagsRefused, CreateFailed, ApkMissing, CheckListed, CheckNotListed, InstallOk,
      InstallFailed, ForceStopFirst, StartOk, StartFailed, StopAllBegin, StopAllOne,
      GuestExits, UserRemoved

\* The launcher implements the registry of spaces: whatever Android refuses or
\* loses, a package has at most one space, and no space is handed out twice in one
\* lifetime.
THEOREM LauncherImplementsRegistry == Spec => ImplementsRegistry
PROOF
<1>1. Init => Registry!Init
  BY InitRefines
<1>2. LauncherInv /\ [Next]_vars => [Registry!Next]_(Registry!vars)
  BY StepRefines
<1> QED BY <1>1, <1>2, LauncherCorrect, PTL DEF Spec, ImplementsRegistry, Registry!Spec
=============================================================================
