---------------------------- MODULE GuestProcess -----------------------------
(***************************************************************************)
(* neutron-engine/src/process.rs: VirtualProcess, with the child it forks,  *)
(* the kernel's pids, stops and zombies, and the thread that runs           *)
(* SyscallTracer (tracer.rs) on the child. The pids it gets may be          *)
(* registered in a VirtualNamespace.                                        *)
(*                                                                         *)
(* The host owns a VirtualProcess while it calls it, so each call is one    *)
(* action; between two calls children run, stop and die, tracers attach and *)
(* return, and a pid nobody waits for any more goes to another process.     *)
(* SyscallTracer models the loop call by call; here it runs or has ended.   *)
(***************************************************************************)
EXTENDS VirtualNamespace

CONSTANTS VP,        \* the VirtualProcess objects
          Nobody, Stranger

ASSUME OwnerAssumption == Nobody \notin VP /\ Stranger \notin VP /\ Nobody # Stranger

VARIABLES
  \* VirtualProcess
  real_pid, state,
  \* the kernel
  proc,      \* how far the process with a pid has come
  owner,     \* the VirtualProcess that forked it, or a Stranger
  tracer,    \* which thread of the host traces it: the one that forked it, or the
             \* one that attached
  halted,    \* the pids stopped by SIGSTOP with nobody tracing them
  doomed,    \* the pids with a SIGKILL that has not taken effect yet
  \* the tracers' threads
  loops,     \* the pids some trace_loop runs for
  \* observers
  reaped,    \* the VirtualProcesses whose child a tracer has waited for
  attached   \* the pids whose process was attached to before it asked to be traced

virtual  == <<real_pid, state>>
kernel   == <<proc, owner, tracer, halted, doomed, loops>>
observed == <<reaped, attached>>
vars     == <<virtual, kernel, observed, namespace>>

\* launch_android_app: before PTRACE_TRACEME, between it and execve, after execve.
Stage == {"env", "asked", "am"}

TypeOK ==
  /\ real_pid \in [VP -> Pid \cup {NoPid}]
  /\ state \in [VP -> {"idle", "running", "suspended", "exited"}]
  /\ proc \in [Pid -> Stage \cup {"free", "zombie"}]
  /\ owner \in [Pid -> VP \cup {Nobody, Stranger}]
  /\ tracer \in [Pid -> {"none", "forker", "thread"}]
  /\ halted \subseteq Pid /\ doomed \subseteq Pid /\ loops \subseteq Pid
  /\ reaped \subseteq VP /\ attached \subseteq Pid

Init ==
  /\ real_pid = [v \in VP |-> NoPid] /\ state = [v \in VP |-> "idle"]
  /\ proc = [p \in Pid |-> "free"] /\ owner = [p \in Pid |-> Nobody]
  /\ tracer = [p \in Pid |-> "none"] /\ halted = {} /\ doomed = {} /\ loops = {}
  /\ reaped = {} /\ attached = {}
  /\ NamespaceInit

Alive(p) == proc[p] \in Stage

\* A traced process runs only while a loop resumes it from its stops. The thread that
\* forked it runs no loop: nothing resumes what stops for it.
Runs(p) == Alive(p) /\ p \notin halted /\ (tracer[p] = "none" \/ p \in loops)

\* kill(2) from the host reaches its own children, whatever object the pid is kept in;
\* on a stranger or a free pid it fails, which is not looked at.
Reached(v) == {p \in Pid : real_pid[v] = p /\ Alive(p) /\ owner[p] \in VP}

-----------------------------------------------------------------------------
(* VirtualProcess                                                          *)

\* Nothing keeps spawn from being called again: the pid of the first child is lost.
\* If the overlay cannot be initialised, or fork fails, nothing changes.
Spawn(v) ==
  /\ \E p \in Pid :
       /\ proc[p] = "free"
       /\ proc' = [proc EXCEPT ![p] = "env"] /\ owner' = [owner EXCEPT ![p] = v]
       /\ real_pid' = [real_pid EXCEPT ![v] = p]
       /\ attached' = attached \ {p}
  /\ state' = [state EXCEPT ![v] = "running"]
  /\ reaped' = reaped \ {v}
  /\ UNCHANGED <<tracer, halted, doomed, loops, namespace>>

\* Mutants of Kill: it waits for the child too; it signals a running process only.
KillReaps(v) ==
  /\ real_pid[v] # NoPid
  /\ proc' = [p \in Pid |-> IF p \in Reached(v) THEN "free" ELSE proc[p]]
  /\ owner' = [p \in Pid |-> IF p \in Reached(v) THEN Nobody ELSE owner[p]]
  /\ tracer' = [p \in Pid |-> IF p \in Reached(v) THEN "none" ELSE tracer[p]]
  /\ loops' = loops \ Reached(v) /\ halted' = halted \ Reached(v) /\ doomed' = doomed \ Reached(v)
  /\ state' = [state EXCEPT ![v] = "exited"]
  /\ UNCHANGED <<real_pid, observed, namespace>>
KillsRunningOnly(v) ==
  /\ real_pid[v] # NoPid
  /\ doomed' = doomed \cup {p \in Reached(v) : state[v] = "running"}
  /\ state' = [state EXCEPT ![v] = "exited"]
  /\ UNCHANGED <<real_pid, proc, owner, tracer, halted, loops, observed, namespace>>

\* SIGKILL is queued, and the state is Exited at once: the child dies later (Dies), and
\* may finish the call it is in before. The pid is kept, and nobody waits for it.
Kill(v) ==
  /\ real_pid[v] # NoPid
  /\ doomed' = doomed \cup Reached(v)
  /\ state' = [state EXCEPT ![v] = "exited"]
  /\ UNCHANGED <<real_pid, proc, owner, tracer, halted, loops, observed, namespace>>

\* A process that SIGKILL is under way to takes no other signal.
Signalled(v) == Reached(v) \ doomed

\* SIGSTOP. One that is traced stops for its tracer, and the loop resumes it.
Suspend(v) ==
  /\ real_pid[v] # NoPid
  /\ halted' = halted \cup {p \in Signalled(v) : tracer[p] = "none"}
  /\ state' = [state EXCEPT ![v] = "suspended"]
  /\ UNCHANGED <<real_pid, proc, owner, tracer, doomed, loops, observed, namespace>>

\* SIGCONT, which does not end a stop for a tracer. It is Running, if dead too.
Resume(v) ==
  /\ real_pid[v] # NoPid
  /\ halted' = halted \ Signalled(v)
  /\ state' = [state EXCEPT ![v] = "running"]
  /\ UNCHANGED <<real_pid, proc, owner, tracer, doomed, loops, observed, namespace>>

-----------------------------------------------------------------------------
(* The child: launch_android_app                                           *)

\* Mutant of AskForTrace: the child stops, and does not ask to be traced.
StopWithoutAsking(p) ==
  /\ Runs(p) /\ proc[p] = "env" /\ owner[p] \in VP
  /\ proc' = [proc EXCEPT ![p] = "asked"]
  /\ halted' = IF tracer[p] = "none" THEN halted \cup {p} ELSE halted
  /\ UNCHANGED <<virtual, owner, tracer, doomed, loops, observed, namespace>>

\* PTRACE_TRACEME and raise(SIGSTOP). TRACEME fails, which is not looked at, if a tracer
\* came first. Otherwise the child is traced by the thread that forked it, and stops.
AskForTrace(p) ==
  /\ Runs(p) /\ proc[p] = "env" /\ owner[p] \in VP
  /\ proc' = [proc EXCEPT ![p] = "asked"]
  /\ tracer' = [tracer EXCEPT ![p] = IF tracer[p] = "none" THEN "forker" ELSE tracer[p]]
  /\ UNCHANGED <<virtual, owner, halted, doomed, loops, observed, namespace>>

\* execve of am; if it fails the child exits.
Execve(p) ==
  /\ Runs(p) /\ proc[p] = "asked" /\ owner[p] \in VP
  /\ \/ proc' = [proc EXCEPT ![p] = "am"] /\ UNCHANGED doomed
     \/ proc' = [proc EXCEPT ![p] = "zombie"] /\ doomed' = doomed \ {p}
  /\ UNCHANGED <<virtual, owner, tracer, halted, loops, observed, namespace>>

\* A child ends by itself, or a SIGKILL takes effect: that of Kill, or Android's, to get
\* memory back.
Dies(p) ==
  /\ Alive(p) /\ owner[p] \in VP
  /\ proc' = [proc EXCEPT ![p] = "zombie"] /\ doomed' = doomed \ {p}
  /\ UNCHANGED <<virtual, owner, tracer, halted, loops, observed, namespace>>

-----------------------------------------------------------------------------
(* SyscallTracer on the child of v, in a thread of its own                 *)

\* Mutant of Attach: its result is not looked at, and the loop runs anyway.
AttachUnchecked(v) ==
  /\ real_pid[v] # NoPid
  /\ loops' = loops \cup {real_pid[v]}
  /\ UNCHANGED <<virtual, proc, owner, tracer, halted, doomed, observed, namespace>>

\* attach and the start of trace_loop. PTRACE_ATTACH fails, and the caller returns, if
\* the process is traced, dead, a stranger's or gone. A stopped one becomes traced.
Attach(v) ==
  /\ \E p \in Reached(v) :
       /\ tracer[p] = "none"
       /\ tracer' = [tracer EXCEPT ![p] = "thread"]
       /\ loops' = loops \cup {p} /\ halted' = halted \ {p}
       /\ attached' = attached \cup {p}
  /\ UNCHANGED <<virtual, proc, owner, doomed, reaped, namespace>>

\* trace_loop returns though the process lives, or leaves a zombie behind
\* (SyscallTracer!ResumeFailed, RegsFailed, WaitInterrupted).
LoopReturns(p) ==
  /\ p \in loops
  /\ loops' = loops \ {p}
  /\ UNCHANGED <<virtual, proc, owner, tracer, halted, doomed, observed, namespace>>

\* The process stays traced until it is detached from or the thread ends; then the kernel
\* lets it go, into the stop for a signal that was under way or out of it.
ThreadEnds(p) ==
  /\ tracer[p] = "thread" /\ p \notin loops
  /\ tracer' = [tracer EXCEPT ![p] = "none"]
  /\ halted' \in {halted, halted \cup {p}}
  /\ UNCHANGED <<virtual, proc, owner, doomed, loops, observed, namespace>>

\* The waitpid of the loop, or of attach: the zombie is gone, and its pid free.
Reap(p) ==
  /\ p \in loops /\ proc[p] = "zombie"
  /\ proc' = [proc EXCEPT ![p] = "free"] /\ owner' = [owner EXCEPT ![p] = Nobody]
  /\ tracer' = [tracer EXCEPT ![p] = "none"]
  /\ loops' = loops \ {p} /\ halted' = halted \ {p}
  /\ reaped' = reaped \cup {v \in VP : real_pid[v] = p}
  /\ UNCHANGED <<virtual, doomed, attached, namespace>>

-----------------------------------------------------------------------------
(* The rest of the system, and the namespace                               *)

StrangerComes(p) ==
  /\ proc[p] = "free"
  /\ proc' = [proc EXCEPT ![p] = "am"] /\ owner' = [owner EXCEPT ![p] = Stranger]
  /\ UNCHANGED <<virtual, tracer, halted, doomed, loops, observed, namespace>>

StrangerGoes(p) ==
  /\ owner[p] = Stranger
  /\ proc' = [proc EXCEPT ![p] = "free"] /\ owner' = [owner EXCEPT ![p] = Nobody]
  /\ UNCHANGED <<virtual, tracer, halted, doomed, loops, observed, namespace>>

\* The host registers the pid that spawn returned, once, twice or too late.
Register(v) ==
  /\ real_pid[v] # NoPid /\ RegisterProcess(real_pid[v])
  /\ UNCHANGED <<virtual, kernel, observed>>

Unregister(v) ==
  /\ real_pid[v] # NoPid /\ UnregisterProcess(real_pid[v])
  /\ UNCHANGED <<virtual, kernel, observed>>

Next ==
  \/ \E v \in VP : \/ Spawn(v) \/ Kill(v) \/ Suspend(v) \/ Resume(v) \/ Attach(v)
                   \/ Register(v) \/ Unregister(v)
  \/ \E p \in Pid : \/ AskForTrace(p) \/ Execve(p) \/ Dies(p)
                    \/ LoopReturns(p) \/ ThreadEnds(p) \/ Reap(p)
                    \/ StrangerComes(p) \/ StrangerGoes(p)

Spec == Init /\ [][Next]_vars
-----------------------------------------------------------------------------
(* Properties                                                              *)

\* A free pid belongs to nobody and has no tracer, and SIGKILL is under way to children of
\* the host only; a loop runs on what was attached to.
PidsTidy ==
  \A p \in Pid :
    /\ (proc[p] = "free") = (owner[p] = Nobody)
    /\ tracer[p] # "none" => owner[p] \in VP
    /\ owner[p] = Stranger => proc[p] = "am"
    /\ p \in doomed => Alive(p) /\ owner[p] \in VP
LoopHasTracee == /\ \A p \in loops : tracer[p] = "thread"
                 /\ \A p \in Pid : tracer[p] = "thread" => p \in attached

\* Until a tracer has waited for its child, what a VirtualProcess signals is its own child
\* (process.rs:97-131): nobody else waits, so the zombie keeps the pid from reuse, however
\* long ago the child died and whatever was spawned since.
SignalsReachOwn ==
  \A v \in VP : real_pid[v] # NoPid /\ v \notin reaped => owner[real_pid[v]] = v

\* And a child that was waited for is not mistaken for a later one.
ReapedIsGone == \A v \in reaped : real_pid[v] # NoPid /\ owner[real_pid[v]] # v

\* What an object that says Exited promises: the child in its pid is dead, or SIGKILL is under
\* way to it and nothing that happens to it from there on, a stop, a tracer, an execve or
\* another object's call, lets it live on (process.rs:96-108). It does not promise that
\* the child is dead already: kill does not wait.
ExitedIsTrue ==
  \A v \in VP : state[v] = "exited" =>
    /\ real_pid[v] # NoPid
    /\ owner[real_pid[v]] = v => proc[real_pid[v]] = "zombie" \/ real_pid[v] \in doomed

\* A guest gets to its execve only if a tracer attached to it before it asked to be traced
\* (process.rs:264-273): asking first leaves it stopped for a thread that resumes nothing,
\* and neither resume nor a later attach starts it.
OnlyAttachedStarts ==
  \A p \in Pid : proc[p] = "am" /\ owner[p] \in VP => p \in attached
HeldForForker ==
  \A p \in Pid : proc[p] = "asked" => tracer[p] = "forker" \/ p \in attached

\* The inductive invariant of the processes (process.rs:64-133).
GuestInv ==
  TypeOK /\ PidsTidy /\ LoopHasTracee /\ SignalsReachOwn /\ ReapedIsGone /\ ExitedIsTrue
  /\ OnlyAttachedStarts /\ HeldForForker

\* What becomes of each child is what TracedChild allows, as SyscallTracer implements it:
\* none is waited for but by a loop that attached to it, and no loop runs on another
\* process that has the pid by now (process.rs:64-133, tracer.rs:55-187).
Child(p) ==
  INSTANCE TracedChild
  WITH child <- IF owner[p] \notin VP THEN "gone" ELSE IF Alive(p) THEN "alive" ELSE "dead",
       held  <- tracer[p] = "thread",
       loop  <- p \in loops
ImplementsChildren ==
  /\ \A p \in Pid : Child(p)!Init
  /\ [][\A p \in Pid : Child(p)!Next \/ UNCHANGED Child(p)!vars]_vars
=============================================================================
