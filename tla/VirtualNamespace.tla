-------------------------- MODULE VirtualNamespace ---------------------------
(***************************************************************************)
(* neutron-engine/src/namespace.rs: the pids a virtual space knows of, kept *)
(* twice: a map to virtual pids, and a list of what is visible.             *)
(***************************************************************************)
EXTENDS Integers, Sequences, Retain

CONSTANTS Pid,      \* the pids of the real system
          NoPid,    \* 0, which no process has
          MaxVpid   \* bound: the last virtual pid

ASSUME VpidAssumption == MaxVpid \in Nat /\ MaxVpid >= 1000 /\ NoPid \notin Pid

VARIABLES pid_map,      \* real pid -> virtual pid, or NoVpid
          visible_pids,
          next_vpid

namespace == <<pid_map, visible_pids, next_vpid>>

FirstVpid == 1000
NoVpid    == 0

NamespaceInit ==
  /\ pid_map = [p \in Pid |-> NoVpid] /\ visible_pids = <<>> /\ next_vpid = FirstVpid

RegisterProcess(p) ==
  /\ next_vpid <= MaxVpid
  /\ pid_map' = [pid_map EXCEPT ![p] = next_vpid]
  /\ visible_pids' = Append(visible_pids, p)
  /\ next_vpid' = next_vpid + 1

\* Mutant of UnregisterProcess: only the first entry is taken off the list.
FirstUnregistered(p) ==
  /\ pid_map' = [pid_map EXCEPT ![p] = NoVpid]
  /\ \E i \in DOMAIN visible_pids :
       /\ visible_pids[i] = p /\ \A j \in 1 .. i - 1 : visible_pids[j] # p
       /\ visible_pids' \in Retained(visible_pids, DOMAIN visible_pids \ {i})
  /\ UNCHANGED next_vpid

UnregisterProcess(p) ==
  /\ pid_map' = [pid_map EXCEPT ![p] = NoVpid]
  /\ visible_pids' \in Retained(visible_pids, {i \in DOMAIN visible_pids : visible_pids[i] # p})
  /\ UNCHANGED next_vpid

-----------------------------------------------------------------------------
NamespaceTypeOK ==
  /\ pid_map \in [Pid -> {NoVpid} \cup FirstVpid .. MaxVpid]
  /\ visible_pids \in Seq(Pid)
  /\ next_vpid \in FirstVpid .. MaxVpid + 1

\* What is visible is what has a virtual pid.
VisibleIsMapped ==
  \A p \in Pid : (pid_map[p] # NoVpid) = (\E i \in DOMAIN visible_pids : visible_pids[i] = p)

\* A virtual pid stands for one process.
VpidsDistinct ==
  \A p, q \in Pid : pid_map[p] = pid_map[q] /\ pid_map[p] # NoVpid => p = q
VpidsBelowNext == \A p \in Pid : pid_map[p] < next_vpid

\* The map and the list agree however often a process is registered, and also if it is
\* registered again before it is unregistered (namespace.rs:49-62).
NamespaceInv == NamespaceTypeOK /\ VisibleIsMapped /\ VpidsDistinct /\ VpidsBelowNext
=============================================================================
