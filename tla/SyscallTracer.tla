---------------------------- MODULE SyscallTracer ----------------------------
(***************************************************************************)
(* neutron-engine/src/tracer.rs: SyscallTracer, with the part of Linux'    *)
(* ptrace it depends on. One traced process (the tracee) and one tracer    *)
(* thread that attaches, runs trace_loop, and detaches.                    *)
(*                                                                         *)
(* Every ptrace or waitpid call is an action of its own, because the       *)
(* tracee runs, stops and dies between two of them. A system call is       *)
(* abstracted to its kind: whether it takes a path that the redirector     *)
(* rewrites, creates a child, runs another program, or ends the process.   *)
(***************************************************************************)
CONSTANT Kid   \* bound: the children the tracee can have at one time

VARIABLES
  \* SyscallTracer and its thread
  pc,          \* the next ptrace or waitpid call of the thread
  active, in_syscall,
  result,      \* what trace_loop returned
  \* the tracee, as the kernel sees it
  traced,      \* it has a tracer
  options,     \* PTRACE_SETOPTIONS found it in a stop: system call stops can be told
               \* from signals, children are attached and announced
  stepping,    \* it has been resumed with PTRACE_SYSCALL
  run,         \* running, in a ptrace stop, dead but not waited for, or gone
  why,         \* what the last stop was for
  reported,    \* waitpid has reported the stop
  inside,      \* between the entry and the exit of a system call
  sys,         \* the kind of the last system call
  path,        \* its path: untouched, rewritten by the tracer, or not to be read by it
  event_due,   \* the call has still to announce a child or a new program
  kids,        \* the child processes the kernel attached to the tracer and stopped
  threads,     \* the threads of the tracee it did the same to
  vfork_wait,  \* the tracee sleeps until its vfork child runs
  death,       \* how it died
  \* observers
  delivered,   \* the tracer has passed a signal on to the tracee
  skips,       \* how many system call stops it resumed the tracee out of
               \* without having seen them: "none", an "odd" or an "even" number
  interrupted  \* a waitpid has returned without a status

tracer   == <<pc, active, in_syscall, result>>
trace    == <<traced, options, stepping>>
syscall  == <<inside, sys, path, event_due, vfork_wait, kids, threads>>
stop     == <<run, why, reported>>
observed == <<delivered, skips, interrupted>>
vars     == <<tracer, trace, stop, syscall, death, observed>>

\* The kinds of system calls. open_virtual stands for openat and readlinkat with
\* a path the redirector rewrites, plain for every call whose path, if any, is left
\* alone: fstatat is one, its filter says Redirect but no handler rewrites it. clone
\* starts a thread, exit ends the whole process.
Calls == {"open_virtual", "plain", "fork", "vfork", "clone", "exec", "exit"}

ThreadTypeOK ==
  /\ pc \in {"new", "attaching", "attached", "looping", "waiting", "regs", "rewrite",
             "deliver", "returned", "detached"}
  /\ active \in BOOLEAN /\ in_syscall \in BOOLEAN
  /\ result \in {"none", "exited", "signaled", "gone", "error"}
StopTypeOK ==
  /\ traced \in BOOLEAN /\ options \in BOOLEAN /\ stepping \in BOOLEAN
  /\ run \in {"running", "stopped", "zombie", "gone"}
  /\ why \in {"syscall", "event", "signal"} /\ reported \in BOOLEAN
  /\ death \in {"none", "exited", "killed"}
  /\ delivered \in BOOLEAN /\ skips \in {"none", "odd", "even"} /\ interrupted \in BOOLEAN
SyscallTypeOK ==
  /\ inside \in BOOLEAN /\ sys \in Calls /\ path \in {"virtual", "host", "unread"}
  /\ event_due \in BOOLEAN /\ vfork_wait \in BOOLEAN /\ kids \subseteq Kid /\ threads \subseteq Kid
TypeOK == ThreadTypeOK /\ StopTypeOK /\ SyscallTypeOK

Init ==
  /\ pc = "new" /\ active = FALSE /\ in_syscall = FALSE /\ result = "none"
  /\ traced = FALSE /\ options = FALSE /\ stepping = FALSE
  /\ run = "running" /\ why = "signal" /\ reported = FALSE
  /\ inside = FALSE /\ sys = "plain" /\ path = "virtual"
  /\ event_due = FALSE /\ vfork_wait = FALSE /\ kids = {} /\ threads = {}
  /\ death = "none"
  /\ delivered = FALSE /\ skips = "none" /\ interrupted = FALSE

-----------------------------------------------------------------------------
(* The tracee and the kernel. A tracee that is traced and was resumed with  *)
(* PTRACE_SYSCALL stops at the entry and at the exit of each system call.   *)

Alive == run \in {"running", "stopped"}
Looping == pc \in {"looping", "waiting", "regs", "rewrite", "deliver"}

Stop(reason) == run' = "stopped" /\ why' = reason /\ reported' = FALSE

\* The stop for PTRACE_ATTACH itself is a signal stop.
Resumed == run = "running" /\ traced /\ stepping

EnterSyscall(c) ==
  /\ Resumed /\ ~ inside
  /\ Stop("syscall")
  /\ inside' = TRUE /\ sys' = c /\ path' = "virtual"
  /\ event_due' = (c \in {"fork", "vfork", "exec"})
  /\ UNCHANGED <<tracer, trace, vfork_wait, kids, threads, death, observed>>

\* PTRACE_O_TRACEFORK and friends: the kernel attaches the child process, or the new
\* thread, to the tracer, leaves it in a stop, and stops the parent.
SpawnEvent ==
  /\ Resumed /\ options /\ inside /\ event_due /\ sys \in {"fork", "vfork", "clone"}
  /\ Stop("event")
  /\ \E k \in Kid \ (kids \cup threads) :
       IF sys = "clone" THEN threads' = threads \cup {k} /\ UNCHANGED kids
                        ELSE kids' = kids \cup {k} /\ UNCHANGED threads
  /\ event_due' = FALSE /\ vfork_wait' = (sys = "vfork")
  /\ UNCHANGED <<tracer, trace, inside, sys, path, death, observed>>

\* execve ends the other threads first, and waits until those that are traced have been
\* waited for.
ExecEvent ==
  /\ Resumed /\ options /\ inside /\ event_due /\ sys = "exec" /\ threads = {}
  /\ Stop("event")
  /\ event_due' = FALSE
  /\ UNCHANGED <<tracer, trace, inside, sys, path, vfork_wait, kids, threads, death, observed>>

\* The exit stop. A call that failed, or that options do not cover, announces nothing.
LeaveSyscall ==
  /\ Resumed /\ inside /\ ~ vfork_wait /\ sys # "exit"
  /\ Stop("syscall")
  /\ inside' = FALSE /\ event_due' = FALSE
  /\ UNCHANGED <<tracer, trace, sys, path, vfork_wait, kids, threads, death, observed>>

\* Signals are delivered on the way back to user mode. A SIGTRAP, which an execve without
\* options brings too, is reported just as an event is.
SignalArrives ==
  /\ run = "running" /\ traced /\ ~ inside
  /\ \E reason \in {"signal", "event"} : Stop(reason)
  /\ UNCHANGED <<tracer, trace, syscall, death, observed>>

Exits ==
  /\ run = "running" /\ inside /\ sys = "exit"
  /\ run' = "zombie" /\ death' = "exited"
  /\ UNCHANGED <<tracer, trace, why, reported, syscall, observed>>

\* SIGKILL ends even a stopped process.
Killed ==
  /\ Alive
  /\ run' = "zombie" /\ death' = "killed"
  /\ UNCHANGED <<tracer, trace, why, reported, syscall, observed>>

\* A stopped child can only be killed: nobody ever resumes it. A thread dies with the
\* process, and then stays a zombie until its tracer waits for it, which it never does.
KidKilled ==
  /\ \E k \in kids : kids' = kids \ {k}
  /\ \/ vfork_wait' = FALSE
     \/ kids' # {} /\ UNCHANGED vfork_wait
  /\ UNCHANGED <<tracer, trace, stop, inside, sys, path, event_due, threads, death, observed>>

Tracee == \/ \E c \in Calls : EnterSyscall(c)
          \/ SpawnEvent \/ ExecEvent \/ LeaveSyscall
          \/ SignalArrives \/ Exits \/ Killed \/ KidKilled

-----------------------------------------------------------------------------
(* attach and detach                                                        *)

Attach ==
  /\ pc = "new" /\ Alive
  /\ traced' = TRUE /\ pc' = "attaching"
  /\ UNCHANGED <<active, in_syscall, result, options, stepping, stop, syscall, death, observed>>

\* Mutant of AttachFailed: the result of PTRACE_ATTACH is not looked at.
AttachUnlooked ==
  /\ pc = "new"
  /\ pc' = "attaching"
  /\ UNCHANGED <<active, in_syscall, result, trace, stop, syscall, death, observed>>

\* The process is gone, or someone else traces it.
AttachFailed ==
  /\ pc = "new"
  /\ pc' = "returned" /\ result' = "error"
  /\ UNCHANGED <<active, in_syscall, trace, stop, syscall, death, observed>>

\* The waitpid of attach, and PTRACE_SETOPTIONS, which works on a stopped tracee only.
AttachWait ==
  /\ pc = "attaching"
  /\ \/ run = "stopped" /\ reported' = TRUE /\ UNCHANGED run
     \/ run = "zombie" /\ run' = "gone" /\ UNCHANGED reported
  /\ pc' = "attached" /\ active' = TRUE /\ options' = (run = "stopped")
  /\ UNCHANGED <<in_syscall, result, traced, stepping, why, syscall, death, observed>>

\* That waitpid is interrupted by a signal to the tracer's thread. Neither its result nor
\* that of PTRACE_SETOPTIONS is looked at.
AttachInterrupted ==
  /\ pc = "attaching"
  /\ pc' = "attached" /\ active' = TRUE /\ options' = (run = "stopped")
  /\ interrupted' = TRUE
  /\ UNCHANGED <<in_syscall, result, traced, stepping, stop, syscall, death, delivered, skips>>

TraceLoop ==
  /\ pc = "attached"
  /\ pc' = "looping"
  /\ UNCHANGED <<active, in_syscall, result, trace, stop, syscall, death, observed>>

\* Mutant of Detach: the flag is cleared, and the tracee kept.
DetachForgotten ==
  /\ pc \in {"attached", "returned"}
  /\ pc' = "detached" /\ active' = FALSE
  /\ UNCHANGED <<run, trace, in_syscall, result, why, reported, syscall, death, observed>>

\* PTRACE_DETACH works on a stopped tracee only; its result is not looked at.
Detach ==
  /\ pc \in {"attached", "returned"}
  /\ pc' = "detached" /\ active' = FALSE
  /\ \/ active /\ run = "stopped" /\ run' = "running" /\ traced' = FALSE
     \/ ~ (active /\ run = "stopped") /\ UNCHANGED <<run, traced>>
  /\ UNCHANGED <<in_syscall, result, options, stepping, why, reported, syscall, death, observed>>

-----------------------------------------------------------------------------
(* trace_loop                                                               *)

Return(r) == pc' = "returned" /\ result' = r

\* The PTRACE_SYSCALL at the top of the loop. It needs a stopped tracee, but not
\* one whose stop was reported: a stop nobody waited for is resumed out of too.
Resume ==
  /\ pc = "looping" /\ run = "stopped"
  /\ run' = "running" /\ pc' = "waiting" /\ stepping' = TRUE
  /\ skips' = IF why = "syscall" /\ (~ reported \/ ~ options)
              THEN (IF skips = "odd" THEN "even" ELSE "odd")
              ELSE skips
  /\ UNCHANGED <<active, in_syscall, result, traced, options, why, reported, syscall, death,
                 delivered, interrupted>>


\* ESRCH, "process gone": it is dead, or it is alive and not in a stop.
ResumeFailed ==
  /\ pc = "looping" /\ run # "stopped"
  /\ Return("gone")
  /\ UNCHANGED <<active, in_syscall, trace, stop, syscall, death, observed>>

\* Mutants of WaitStopped: an event stop is taken for a system call; a signal stop is
\* passed over without resuming the tracee.
EventTakenForSyscall ==
  /\ pc = "waiting" /\ run = "stopped"
  /\ reported' = TRUE
  /\ pc' = IF why = "signal" THEN "deliver" ELSE IF options THEN "regs" ELSE "looping"
  /\ UNCHANGED <<active, in_syscall, result, trace, run, why, syscall, death, observed>>
SignalPassedOver ==
  /\ pc = "waiting" /\ run = "stopped"
  /\ reported' = TRUE
  /\ pc' = [syscall |-> IF options THEN "regs" ELSE "looping", event |-> "looping",
            signal |-> "waiting"][why]
  /\ UNCHANGED <<active, in_syscall, result, trace, run, why, syscall, death, observed>>

\* waitpid reports the stop. Without PTRACE_O_TRACESYSGOOD the stop for a system call
\* is a SIGTRAP, and taken for an event.
WaitStopped ==
  /\ pc = "waiting" /\ run = "stopped"
  /\ reported' = TRUE
  /\ pc' = [syscall |-> IF options THEN "regs" ELSE "looping", event |-> "looping",
            signal |-> "deliver"][why]
  /\ UNCHANGED <<active, in_syscall, result, trace, run, why, syscall, death, observed>>

\* Mutant of WaitDead: WIFEXITED and WIFSIGNALED confused.
StatusSwapped ==
  /\ pc = "waiting" /\ run = "zombie" /\ threads = {}
  /\ run' = "gone"
  /\ Return(IF death = "exited" THEN "signaled" ELSE "exited")
  /\ UNCHANGED <<active, in_syscall, trace, why, reported, syscall, death, observed>>

\* waitpid reports the death of the process once no other thread of it is left: a thread
\* that its tracer does not wait for holds the report back for ever.
WaitDead ==
  /\ pc = "waiting" /\ run = "zombie" /\ threads = {}
  /\ run' = "gone"
  /\ Return(IF death = "exited" THEN "exited" ELSE "signaled")
  /\ UNCHANGED <<active, in_syscall, trace, why, reported, syscall, death, observed>>

\* waitpid fails, interrupted by a signal to the tracer's thread, whatever the tracee does.
WaitInterrupted ==
  /\ pc = "waiting"
  /\ Return("gone") /\ interrupted' = TRUE
  /\ UNCHANGED <<active, in_syscall, trace, stop, syscall, death, delivered, skips>>

\* Mutant of HandleStop: the flag is turned before it is tested, not after.
FlagTurnedFirst ==
  /\ pc = "regs" /\ run = "stopped"
  /\ in_syscall' = ~ in_syscall
  /\ pc' = IF in_syscall' THEN "looping" ELSE "rewrite"
  /\ UNCHANGED <<active, result, trace, stop, syscall, death, observed>>

\* handle_syscall_stop reads the registers and takes the stop for an entry or an
\* exit by its own flag. With the default filters an exit changes nothing.
HandleStop ==
  /\ pc = "regs" /\ run = "stopped"
  /\ in_syscall' = ~ in_syscall
  /\ pc' = IF in_syscall THEN "looping" ELSE "rewrite"
  /\ UNCHANGED <<active, result, trace, stop, syscall, death, observed>>

RegsFailed ==
  /\ pc = "regs" /\ run # "stopped"
  /\ Return("error")
  /\ UNCHANGED <<active, in_syscall, trace, stop, syscall, death, observed>>

\* intercept_syscall_entry: only openat and readlinkat are rewritten. A path that cannot
\* be read is passed over: that of a dead tracee, one that is not UTF-8, or that ends
\* where the memory of the tracee does.
Intercept ==
  /\ pc = "rewrite"
  /\ pc' = "looping"
  /\ path' \in IF run = "stopped" /\ sys = "open_virtual" THEN {"host", "unread"} ELSE {path}
  /\ UNCHANGED <<active, in_syscall, result, trace, stop, inside, sys, event_due,
                 vfork_wait, kids, threads, death, observed>>

\* A signal is passed on with a PTRACE_SYSCALL of its own, result ignored, and
\* then the loop begins again with another.
DeliverSignal ==
  /\ pc = "deliver"
  /\ run' = IF run = "stopped" THEN "running" ELSE run
  /\ pc' = "looping" /\ delivered' = TRUE
  /\ UNCHANGED <<active, in_syscall, result, trace, why, reported, syscall, death, skips,
                 interrupted>>

Loop == \/ Resume \/ ResumeFailed \/ WaitStopped \/ WaitDead
        \/ HandleStop \/ RegsFailed \/ Intercept \/ DeliverSignal

Next == \/ Attach \/ AttachFailed \/ AttachWait \/ AttachInterrupted \/ TraceLoop \/ Detach
        \/ Loop \/ WaitInterrupted
        \/ Tracee

\* The tracer's thread runs whenever it is not blocked in waitpid. Nothing is
\* assumed of the tracee, which may compute, or sleep in the kernel, for ever, nor of
\* signals to the tracer's thread: they need not come.
Spec == Init /\ [][Next]_vars /\ WF_vars(Loop)
-----------------------------------------------------------------------------
(* Properties                                                               *)

\* A system call stop the tracer has not taken notice of yet.
Unhandled ==
  /\ run = "stopped" /\ why = "syscall"
  /\ ~ reported \/ ~ options \/ pc \notin {"looping", "rewrite"}

\* in_syscall is right about where the tracee is, except after an odd number of
\* system call stops that the loop resumed out of unseen (tracer.rs:173-184 then
\* 124-131): from then on every entry is taken for an exit and every exit for an
\* entry.
PhaseKnown ==
  Looping /\ Alive =>
    LET seen == IF Unhandled THEN ~ inside ELSE inside
    IN  in_syscall = (IF skips = "odd" THEN ~ seen ELSE seen)

\* As long as no stop was resumed out of unseen, no openat or readlinkat runs on a
\* path that should have been rewritten and could be read (tracer.rs:197-224, 248-272).
OpensAreRewritten ==
  skips = "none" /\ run = "running" /\ inside /\ sys = "open_virtual" /\ Looping =>
    path # "virtual"

\* Where the thread is in its loop, and what it may have overlooked.
BeforeLoop ==
  /\ pc = "new" => ~ traced /\ run # "stopped"
  /\ pc \in {"new", "attaching", "attached"} => ~ stepping /\ result = "none"
  /\ pc \in {"new", "attaching"} => ~ interrupted
  /\ ~ stepping =>
    /\ ~ in_syscall /\ ~ inside /\ skips = "none" /\ ~ delivered /\ why # "syscall"
    /\ pc \notin {"waiting", "regs", "rewrite", "deliver"}
StopInHand ==
  /\ pc \in {"regs", "rewrite", "deliver"} /\ Alive => run = "stopped" /\ reported
  /\ pc = "attached" /\ Alive /\ ~ interrupted => run = "stopped" /\ reported
  /\ pc = "looping" /\ Alive /\ ~ delivered /\ (stepping \/ ~ interrupted) =>
       run = "stopped" /\ reported
  /\ pc \in {"waiting", "attaching"} /\ run = "stopped" => ~ reported
  /\ pc \in {"regs", "rewrite"} => why = "syscall" /\ options
  /\ pc = "rewrite" => in_syscall
  /\ pc = "deliver" => why = "signal"
EndedOnce == pc \in {"returned", "detached"} \/ result = "none"
\* What a call is rewritten by: the thread is about to, or the stop is still unseen.
RewriteDue ==
  skips = "none" /\ Alive /\ inside /\ sys = "open_virtual" /\ Looping =>
    ~ event_due /\ (path # "virtual" \/ Unhandled \/ pc = "rewrite")
KidsApart == kids \cap threads = {}

\* With its options in force, only after passing a signal on can the loop miss a stop. It
\* ends on a live tracee only after that, or because a waitpid was interrupted
\* (tracer.rs:74-93, 133-153, 173-184).
FaithfulUntilSignal ==
  ~ delivered => /\ options => skips = "none"
                 /\ result = "gone" /\ Alive => interrupted

\* A status the loop returns from waitpid is how the process ended (tracer.rs:155-162).
StatusIsTrue ==
  /\ result = "exited" => run = "gone" /\ death = "exited"
  /\ result = "signaled" => run = "gone" /\ death = "killed"

\* A process that outlives its tracing and is left traced, for nobody to resume, was taken
\* for gone by a loop that had passed a signal on to it or whose waitpid was interrupted,
\* or the wait of its attach was. No error and no status leaves a live process behind
\* (tracer.rs:74-77, 101-114, 133-153, 173-184).
DetachFrees ==
  pc \in {"returned", "detached"} /\ Alive /\ traced =>
    \/ interrupted /\ result \in {"none", "gone"}
    \/ delivered /\ result = "gone"

\* The inductive invariant of the loop (tracer.rs:55-239).
TracerInv == /\ TypeOK
             /\ BeforeLoop /\ StopInHand /\ EndedOnce /\ KidsApart
             /\ PhaseKnown /\ RewriteDue /\ FaithfulUntilSignal

\* Call by call, the thread does with the tracee what TracedChild says of a child of the
\* host, and no more: GuestProcess, which has no calls, may rely on it (tracer.rs:55-187).
Child == INSTANCE TracedChild
         WITH child <- IF Alive THEN "alive" ELSE IF run = "zombie" THEN "dead" ELSE "gone",
              held  <- traced /\ run # "gone",
              loop  <- (pc \in {"attaching", "attached"} \/ Looping) /\ run # "gone"
ImplementsChild == Child!Spec


\* A stop does not last: the loop resumes the tracee, or returns (tracer.rs:122-186).
StopsAreServed == Looping /\ run = "stopped" ~> run # "stopped" \/ ~ Looping

\* tracer.rs:116, "Run the main tracing loop. Returns when the process exits.": when the
\* loop returns that the process is gone, and no waitpid has failed, the process has ended.
ReturnsWhenProcessExits == result = "gone" /\ ~ interrupted => ~ Alive

\* tracer.rs:79, "Set ptrace options for comprehensive tracing": a child process or a
\* thread that the kernel attached and stopped for the tracer does not stay stopped.
ChildrenAreServed ==
  Looping /\ kids \cup threads # {} ~> kids \cup threads = {} \/ ~ Looping
=============================================================================
