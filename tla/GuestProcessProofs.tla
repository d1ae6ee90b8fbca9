------------------------- MODULE GuestProcessProofs --------------------------
(* Theorems about GuestProcess: what the host believes of its children is    *)
(* right however they run, stop and die, and whichever pids are reused.      *)
EXTENDS GuestProcess, RetainProofs, TLAPS

LEMMA InitGuestInv == Init => GuestInv
  BY OwnerAssumption
  DEF Init, GuestInv, TypeOK, PidsTidy, LoopHasTracee, SignalsReachOwn, ReapedIsGone,
      ExitedIsTrue, OnlyAttachedStarts, HeldForForker, Stage

LEMMA NextGuestInv == GuestInv /\ [Next]_vars => GuestInv'
PROOF
<1> SUFFICES ASSUME GuestInv, [Next]_vars PROVE GuestInv'
  OBVIOUS
<1> USE OwnerAssumption, VpidAssumption
    DEF GuestInv, TypeOK, PidsTidy, LoopHasTracee, SignalsReachOwn, ReapedIsGone,
        ExitedIsTrue, OnlyAttachedStarts, HeldForForker, Stage, Alive, Runs, Reached, Signalled,
        virtual, kernel, observed
<1>1. ASSUME NEW v \in VP, Spawn(v) PROVE GuestInv'
  BY <1>1 DEF Spawn
<1>2. ASSUME NEW v \in VP, Kill(v) PROVE GuestInv'
  BY <1>2 DEF Kill
<1>3. ASSUME NEW v \in VP, Suspend(v) PROVE GuestInv'
  BY <1>3 DEF Suspend
<1>4. ASSUME NEW v \in VP, Resume(v) PROVE GuestInv'
  BY <1>4 DEF Resume
<1>5. ASSUME NEW v \in VP, Attach(v) PROVE GuestInv'
  BY <1>5 DEF Attach
<1>6. ASSUME NEW p \in Pid, AskForTrace(p) PROVE GuestInv'
  BY <1>6 DEF AskForTrace
<1>7. ASSUME NEW p \in Pid, Execve(p) PROVE GuestInv'
  BY <1>7 DEF Execve
<1>8. ASSUME NEW p \in Pid, Dies(p) PROVE GuestInv'
  BY <1>8 DEF Dies
<1>9. ASSUME NEW p \in Pid, LoopReturns(p) PROVE GuestInv'
  BY <1>9 DEF LoopReturns
<1>10. ASSUME NEW p \in Pid, ThreadEnds(p) PROVE GuestInv'
  BY <1>10 DEF ThreadEnds
<1>11. ASSUME NEW p \in Pid, Reap(p) PROVE GuestInv'
  BY <1>11 DEF Reap
<1>12. ASSUME NEW p \in Pid, StrangerComes(p) PROVE GuestInv'
  BY <1>12 DEF StrangerComes
<1>13. ASSUME NEW p \in Pid, StrangerGoes(p) PROVE GuestInv'
  BY <1>13 DEF StrangerGoes
<1>14. ASSUME NEW v \in VP, Register(v) \/ Unregister(v) PROVE GuestInv'
  BY <1>14 DEF Register, Unregister
<1>15. CASE UNCHANGED vars
  BY <1>15 DEF vars
<1> QED
  BY <1>1, <1>2, <1>3, <1>4, <1>5, <1>6, <1>7, <1>8, <1>9, <1>10, <1>11, <1>12, <1>13,
     <1>14, <1>15 DEF Next

-----------------------------------------------------------------------------
(* The namespace: RetainedProperty says what the list keeps.               *)

LEMMA InitNamespaceInv == Init => NamespaceInv
PROOF
<1> SUFFICES ASSUME NamespaceInit PROVE NamespaceInv
  BY DEF Init
<1> USE VpidAssumption DEF NamespaceInit, FirstVpid, NoVpid
<1>1. visible_pids \in Seq(Pid) /\ DOMAIN visible_pids = {}
  OBVIOUS
<1>2. NamespaceTypeOK
  BY <1>1 DEF NamespaceTypeOK
<1>3. VisibleIsMapped
  BY <1>1 DEF VisibleIsMapped
<1>4. VpidsDistinct /\ VpidsBelowNext
  BY DEF VpidsDistinct, VpidsBelowNext
<1> QED BY <1>2, <1>3, <1>4 DEF NamespaceInv

LEMMA RegisterKeepsInv ==
  ASSUME NamespaceInv, NEW p \in Pid, RegisterProcess(p)
  PROVE  NamespaceInv'
PROOF
<1> USE VpidAssumption
    DEF NamespaceInv, NamespaceTypeOK, RegisterProcess, FirstVpid, NoVpid
<1>1. NamespaceTypeOK'
  OBVIOUS
<1>2. VisibleIsMapped'
  <2>1. /\ DOMAIN visible_pids' = 1 .. Len(visible_pids) + 1
        /\ visible_pids'[Len(visible_pids) + 1] = p
        /\ \A i \in DOMAIN visible_pids : visible_pids'[i] = visible_pids[i]
        /\ DOMAIN visible_pids = 1 .. Len(visible_pids)
    OBVIOUS
  <2>2. pid_map'[p] # NoVpid /\ \A q \in Pid : q # p => pid_map'[q] = pid_map[q]
    OBVIOUS
  <2>3. ASSUME NEW q \in Pid
        PROVE  (pid_map'[q] # NoVpid) <=> (\E i \in DOMAIN visible_pids' : visible_pids'[i] = q)
    <3>1. CASE q = p
      <4>1. Len(visible_pids) + 1 \in DOMAIN visible_pids'
        BY <2>1
      <4> QED BY <2>1, <2>2, <3>1, <4>1
    <3>2. CASE q # p
      <4>1. (pid_map[q] # NoVpid) <=> (\E i \in DOMAIN visible_pids : visible_pids[i] = q)
        BY DEF VisibleIsMapped
      <4>2. \A i \in DOMAIN visible_pids' :
              i \in DOMAIN visible_pids \/ i = Len(visible_pids) + 1
        BY <2>1
      <4>3. DOMAIN visible_pids \subseteq DOMAIN visible_pids'
        BY <2>1
      <4> QED BY <2>1, <2>2, <3>2, <4>1, <4>2, <4>3
    <3> QED BY <3>1, <3>2
  <2> QED BY <2>3 DEF VisibleIsMapped
<1>3. VpidsDistinct' /\ VpidsBelowNext'
  BY DEF VpidsDistinct, VpidsBelowNext
<1> QED BY <1>1, <1>2, <1>3

LEMMA UnregisterKeepsInv ==
  ASSUME NamespaceInv, NEW p \in Pid, UnregisterProcess(p)
  PROVE  NamespaceInv'
PROOF
<1> DEFINE Kept == {i \in DOMAIN visible_pids : visible_pids[i] # p}
<1> USE VpidAssumption
    DEF NamespaceInv, NamespaceTypeOK, FirstVpid, NoVpid
<1>1. /\ pid_map' = [pid_map EXCEPT ![p] = NoVpid] /\ next_vpid' = next_vpid
      /\ visible_pids' \in Retained(visible_pids, Kept)
  BY DEF UnregisterProcess
<1>2. visible_pids' \in Seq(Pid)
  BY <1>1, RetainedProperty
<1>3. PICK f \in [DOMAIN visible_pids' -> DOMAIN visible_pids] :
        /\ \A k \in DOMAIN visible_pids' :
             f[k] \in Kept /\ visible_pids'[k] = visible_pids[f[k]]
        /\ \A i \in Kept : \E k \in DOMAIN visible_pids' : f[k] = i
  <2> HIDE DEF Kept
  <2>1. \E f : Picked(visible_pids, Kept, visible_pids', f)
    BY <1>1, RetainedProperty
  <2> QED BY <2>1 DEF Picked
<1>4. ASSUME NEW q \in Pid
      PROVE  (\E k \in DOMAIN visible_pids' : visible_pids'[k] = q)
               <=> (q # p /\ \E i \in DOMAIN visible_pids : visible_pids[i] = q)
  <2>1. ASSUME NEW k \in DOMAIN visible_pids', visible_pids'[k] = q
        PROVE  q # p /\ \E i \in DOMAIN visible_pids : visible_pids[i] = q
    BY <1>3, <2>1
  <2>2. ASSUME q # p, NEW i \in DOMAIN visible_pids, visible_pids[i] = q
        PROVE  \E k \in DOMAIN visible_pids' : visible_pids'[k] = q
    BY <1>3, <2>2
  <2> QED BY <2>1, <2>2
<1>5. /\ pid_map' \in [Pid -> {NoVpid} \cup FirstVpid .. MaxVpid]
      /\ pid_map'[p] = NoVpid /\ \A q \in Pid : q # p => pid_map'[q] = pid_map[q]
  BY <1>1
<1>6. VisibleIsMapped'
  <2>1. ASSUME NEW q \in Pid
        PROVE  (pid_map'[q] # NoVpid) <=> (\E k \in DOMAIN visible_pids' : visible_pids'[k] = q)
    <3>1. (pid_map[q] # NoVpid) <=> (\E i \in DOMAIN visible_pids : visible_pids[i] = q)
      BY DEF VisibleIsMapped
    <3> QED BY <1>4, <1>5, <3>1
  <2> QED BY <2>1 DEF VisibleIsMapped
<1>7. VpidsDistinct' /\ VpidsBelowNext'
  BY <1>1, <1>5 DEF VpidsDistinct, VpidsBelowNext
<1> QED BY <1>1, <1>2, <1>5, <1>6, <1>7

LEMMA NextNamespaceInv == GuestInv /\ NamespaceInv /\ [Next]_vars => NamespaceInv'
PROOF
<1> SUFFICES ASSUME GuestInv, NamespaceInv, [Next]_vars PROVE NamespaceInv'
  OBVIOUS
<1>1. CASE UNCHANGED namespace
  BY <1>1 DEF namespace, NamespaceInv, NamespaceTypeOK, VisibleIsMapped, VpidsDistinct,
              VpidsBelowNext
<1>2. ASSUME NEW v \in VP, Register(v) \/ Unregister(v) PROVE NamespaceInv'
  <2>1. real_pid[v] \in Pid
    BY <1>2 DEF Register, Unregister, GuestInv, TypeOK
  <2> QED BY <1>2, <2>1, RegisterKeepsInv, UnregisterKeepsInv DEF Register, Unregister
<1>3. (\E v \in VP : Register(v) \/ Unregister(v)) \/ UNCHANGED namespace
  BY DEF Next, Spawn, Kill, Suspend, Resume, Attach, AskForTrace, Execve, Dies, LoopReturns,
         ThreadEnds, Reap, StrangerComes, StrangerGoes, vars
<1> QED BY <1>1, <1>2, <1>3

-----------------------------------------------------------------------------
\* The processes and what their objects say of them fit together (process.rs:64-133).
THEOREM GuestCorrect == Spec => []GuestInv
PROOF
<1>1. Init => GuestInv BY InitGuestInv
<1>2. GuestInv /\ [Next]_vars => GuestInv' BY NextGuestInv
<1> QED BY <1>1, <1>2, PTL DEF Spec

\* The map of a namespace and its list of visible pids agree, and no two processes have one
\* virtual pid, whichever pids are registered how often (namespace.rs:49-62).
THEOREM NamespaceCorrect == Spec => []NamespaceInv
PROOF
<1>1. Init => NamespaceInv BY InitNamespaceInv
<1>2. GuestInv /\ NamespaceInv /\ [Next]_vars => NamespaceInv' BY NextNamespaceInv
<1> QED BY <1>1, <1>2, GuestCorrect, PTL DEF Spec

\* A signal goes to the child a VirtualProcess forked, unless a tracer waited for that child
\* (process.rs:97-131).
THEOREM SignalsReachOwnHolds == Spec => []SignalsReachOwn
PROOF
<1>1. GuestInv => SignalsReachOwn BY DEF GuestInv
<1> QED BY <1>1, GuestCorrect, PTL

\* If an object says Exited, the child in its pid is dead or SIGKILL is under way to it, and
\* nothing that happens to it in between lets it live on (process.rs:96-108).
THEOREM ExitedIsTrueHolds == Spec => []ExitedIsTrue
PROOF
<1>1. GuestInv => ExitedIsTrue BY DEF GuestInv
<1> QED BY <1>1, GuestCorrect, PTL

\* No guest starts that was not attached to before it asked to be traced
\* (process.rs:264-273).
THEOREM OnlyAttachedStartsHolds == Spec => []OnlyAttachedStarts
PROOF
<1>1. GuestInv => OnlyAttachedStarts BY DEF GuestInv
<1> QED BY <1>1, GuestCorrect, PTL

-----------------------------------------------------------------------------
(* What becomes of the children, as TracedChild has it                     *)

LEMMA InitChildren == Init => \A p \in Pid : Child(p)!Init
  BY OwnerAssumption DEF Init, Child!Init

\* A step concerns one pid at most; the children on the others do not notice it.
LEMMA StepOfChild ==
  ASSUME GuestInv, Next, NEW p \in Pid
  PROVE  Child(p)!Next \/ UNCHANGED Child(p)!vars
PROOF
<1> USE OwnerAssumption, VpidAssumption
    DEF GuestInv, TypeOK, PidsTidy, LoopHasTracee, Stage, Alive, Runs, Reached, virtual, kernel,
        observed, Child!vars, Child!Next
<1>1. ASSUME NEW v \in VP, Spawn(v) PROVE Child(p)!Begins \/ UNCHANGED Child(p)!vars
  BY <1>1 DEF Spawn, Child!Begins
<1>2. ASSUME NEW v \in VP, Kill(v) \/ Suspend(v) \/ Resume(v) PROVE UNCHANGED Child(p)!vars
  BY <1>2 DEF Kill, Suspend, Resume
<1>3. ASSUME NEW v \in VP, Register(v) \/ Unregister(v) PROVE UNCHANGED Child(p)!vars
  BY <1>3 DEF Register, Unregister
<1>4. ASSUME NEW v \in VP, Attach(v) PROVE Child(p)!Attach \/ UNCHANGED Child(p)!vars
  BY <1>4 DEF Attach, Child!Attach
<1>5. ASSUME NEW q \in Pid, AskForTrace(q) \/ StrangerComes(q) \/ StrangerGoes(q)
      PROVE  UNCHANGED Child(p)!vars
  BY <1>5 DEF AskForTrace, StrangerComes, StrangerGoes
<1>6. ASSUME NEW q \in Pid, Execve(q) \/ Dies(q) PROVE Child(p)!Dies \/ UNCHANGED Child(p)!vars
  BY <1>6 DEF Execve, Dies, Child!Dies
<1>7. ASSUME NEW q \in Pid, LoopReturns(q) PROVE Child(p)!Returns \/ UNCHANGED Child(p)!vars
  BY <1>7 DEF LoopReturns, Child!Returns
<1>8. ASSUME NEW q \in Pid, ThreadEnds(q) PROVE Child(p)!LetGo \/ UNCHANGED Child(p)!vars
  BY <1>8 DEF ThreadEnds, Child!LetGo
<1>9. ASSUME NEW q \in Pid, Reap(q) PROVE Child(p)!Reap \/ UNCHANGED Child(p)!vars
  BY <1>9 DEF Reap, Child!Reap
<1> QED BY <1>1, <1>2, <1>3, <1>4, <1>5, <1>6, <1>7, <1>8, <1>9 DEF Next

\* However pids are reused, what becomes of each child is what TracedChild allows.
THEOREM GuestImplementsChildren == Spec => ImplementsChildren
PROOF
<1>1. Init => \A p \in Pid : Child(p)!Init BY InitChildren
<1>2. GuestInv /\ [Next]_vars => [\A p \in Pid : Child(p)!Next \/ UNCHANGED Child(p)!vars]_vars
  BY StepOfChild
<1> QED BY <1>1, <1>2, GuestCorrect, PTL DEF Spec, ImplementsChildren
=============================================================================
