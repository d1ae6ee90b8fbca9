------------------------- MODULE SyscallTracerProofs -------------------------
(* Theorems about SyscallTracer. TracerInv is what the loop knows at each of *)
(* its calls; the safety properties follow from it.                          *)
EXTENDS SyscallTracer, TLAPS

LEMMA InitTracerInv == Init => TracerInv
  BY DEF Init, TracerInv, TypeOK, ThreadTypeOK, StopTypeOK, SyscallTypeOK, BeforeLoop, StopInHand, EndedOnce, PhaseKnown, RewriteDue,
      KidsApart, FaithfulUntilSignal, Looping, Alive, Calls

LEMMA NextTracerInv == TracerInv /\ [Next]_vars => TracerInv'
PROOF
<1> SUFFICES ASSUME TracerInv, [Next]_vars PROVE TracerInv'
  OBVIOUS
<1> USE DEF TracerInv, TypeOK, ThreadTypeOK, StopTypeOK, SyscallTypeOK, BeforeLoop, StopInHand, EndedOnce, PhaseKnown, RewriteDue,
        KidsApart, FaithfulUntilSignal, Looping, Alive, Calls, Unhandled, Stop, Resumed, Return,
        tracer, trace, syscall, stop, observed
<1>1. ASSUME NEW c \in Calls, EnterSyscall(c) PROVE TracerInv'
  <2>1. TypeOK'
    <3>1. ThreadTypeOK'
      BY <1>1 DEF EnterSyscall
    <3>2. StopTypeOK'
      BY <1>1 DEF EnterSyscall
    <3>3. SyscallTypeOK'
      BY <1>1 DEF EnterSyscall
    <3> QED BY <3>1, <3>2, <3>3
  <2>2. BeforeLoop'
    BY <1>1 DEF EnterSyscall
  <2>3. StopInHand'
    BY <1>1 DEF EnterSyscall
  <2>4. EndedOnce'
    BY <1>1 DEF EnterSyscall
  <2>5. PhaseKnown'
    BY <1>1 DEF EnterSyscall
  <2>6. RewriteDue'
    BY <1>1 DEF EnterSyscall
  <2>7. FaithfulUntilSignal'
    BY <1>1 DEF EnterSyscall
  <2>8. KidsApart'
    BY <1>1 DEF EnterSyscall
  <2> QED BY <2>1, <2>2, <2>3, <2>4, <2>5, <2>6, <2>7, <2>8
<1>2. CASE SpawnEvent
  <2>1. TypeOK'
    <3>1. ThreadTypeOK'
      BY <1>2 DEF SpawnEvent
    <3>2. StopTypeOK'
      BY <1>2 DEF SpawnEvent
    <3>3. SyscallTypeOK'
      BY <1>2 DEF SpawnEvent
    <3> QED BY <3>1, <3>2, <3>3
  <2>2. BeforeLoop'
    BY <1>2 DEF SpawnEvent
  <2>3. StopInHand'
    BY <1>2 DEF SpawnEvent
  <2>4. EndedOnce'
    BY <1>2 DEF SpawnEvent
  <2>5. PhaseKnown'
    BY <1>2 DEF SpawnEvent
  <2>6. RewriteDue'
    BY <1>2 DEF SpawnEvent
  <2>7. FaithfulUntilSignal'
    BY <1>2 DEF SpawnEvent
  <2>8. KidsApart'
    BY <1>2 DEF SpawnEvent
  <2> QED BY <2>1, <2>2, <2>3, <2>4, <2>5, <2>6, <2>7, <2>8
<1>3. CASE ExecEvent
  <2>1. TypeOK'
    <3>1. ThreadTypeOK'
      BY <1>3 DEF ExecEvent
    <3>2. StopTypeOK'
      BY <1>3 DEF ExecEvent
    <3>3. SyscallTypeOK'
      BY <1>3 DEF ExecEvent
    <3> QED BY <3>1, <3>2, <3>3
  <2>2. BeforeLoop'
    BY <1>3 DEF ExecEvent
  <2>3. StopInHand'
    BY <1>3 DEF ExecEvent
  <2>4. EndedOnce'
    BY <1>3 DEF ExecEvent
  <2>5. PhaseKnown'
    BY <1>3 DEF ExecEvent
  <2>6. RewriteDue'
    BY <1>3 DEF ExecEvent
  <2>7. FaithfulUntilSignal'
    BY <1>3 DEF ExecEvent
  <2>8. KidsApart'
    BY <1>3 DEF ExecEvent
  <2> QED BY <2>1, <2>2, <2>3, <2>4, <2>5, <2>6, <2>7, <2>8
<1>4. CASE LeaveSyscall
  <2>1. TypeOK'
    <3>1. ThreadTypeOK'
      BY <1>4 DEF LeaveSyscall
    <3>2. StopTypeOK'
      BY <1>4 DEF LeaveSyscall
    <3>3. SyscallTypeOK'
      BY <1>4 DEF LeaveSyscall
    <3> QED BY <3>1, <3>2, <3>3
  <2>2. BeforeLoop'
    BY <1>4 DEF LeaveSyscall
  <2>3. StopInHand'
    BY <1>4 DEF LeaveSyscall
  <2>4. EndedOnce'
    BY <1>4 DEF LeaveSyscall
  <2>5. PhaseKnown'
    BY <1>4 DEF LeaveSyscall
  <2>6. RewriteDue'
    BY <1>4 DEF LeaveSyscall
  <2>7. FaithfulUntilSignal'
    BY <1>4 DEF LeaveSyscall
  <2>8. KidsApart'
    BY <1>4 DEF LeaveSyscall
  <2> QED BY <2>1, <2>2, <2>3, <2>4, <2>5, <2>6, <2>7, <2>8
<1>5. CASE SignalArrives
  <2>1. TypeOK'
    <3>1. ThreadTypeOK'
      BY <1>5 DEF SignalArrives
    <3>2. StopTypeOK'
      BY <1>5 DEF SignalArrives
    <3>3. SyscallTypeOK'
      BY <1>5 DEF SignalArrives
    <3> QED BY <3>1, <3>2, <3>3
  <2>2. BeforeLoop'
    BY <1>5 DEF SignalArrives
  <2>3. StopInHand'
    BY <1>5 DEF SignalArrives
  <2>4. EndedOnce'
    BY <1>5 DEF SignalArrives
  <2>5. PhaseKnown'
    BY <1>5 DEF SignalArrives
  <2>6. RewriteDue'
    BY <1>5 DEF SignalArrives
  <2>7. FaithfulUntilSignal'
    BY <1>5 DEF SignalArrives
  <2>8. KidsApart'
    BY <1>5 DEF SignalArrives
  <2> QED BY <2>1, <2>2, <2>3, <2>4, <2>5, <2>6, <2>7, <2>8
<1>6. CASE Exits
  BY <1>6 DEF Exits
<1>7. CASE Killed
  BY <1>7 DEF Killed
<1>8. CASE KidKilled
  <2>1. TypeOK'
    <3>1. ThreadTypeOK'
      BY <1>8 DEF KidKilled
    <3>2. StopTypeOK'
      BY <1>8 DEF KidKilled
    <3>3. SyscallTypeOK'
      BY <1>8 DEF KidKilled
    <3> QED BY <3>1, <3>2, <3>3
  <2>2. BeforeLoop'
    BY <1>8 DEF KidKilled
  <2>3. StopInHand'
    BY <1>8 DEF KidKilled
  <2>4. EndedOnce'
    BY <1>8 DEF KidKilled
  <2>5. PhaseKnown'
    BY <1>8 DEF KidKilled
  <2>6. RewriteDue'
    BY <1>8 DEF KidKilled
  <2>7. FaithfulUntilSignal'
    BY <1>8 DEF KidKilled
  <2>8. KidsApart'
    BY <1>8 DEF KidKilled
  <2> QED BY <2>1, <2>2, <2>3, <2>4, <2>5, <2>6, <2>7, <2>8
<1>9. CASE Attach
  <2>1. TypeOK'
    <3>1. ThreadTypeOK'
      BY <1>9 DEF Attach
    <3>2. StopTypeOK'
      BY <1>9 DEF Attach
    <3>3. SyscallTypeOK'
      BY <1>9 DEF Attach
    <3> QED BY <3>1, <3>2, <3>3
  <2>2. BeforeLoop'
    BY <1>9 DEF Attach
  <2>3. StopInHand'
    BY <1>9 DEF Attach
  <2>4. EndedOnce'
    BY <1>9 DEF Attach
  <2>5. PhaseKnown'
    BY <1>9 DEF Attach
  <2>6. RewriteDue'
    BY <1>9 DEF Attach
  <2>7. FaithfulUntilSignal'
    BY <1>9 DEF Attach
  <2>8. KidsApart'
    BY <1>9 DEF Attach
  <2> QED BY <2>1, <2>2, <2>3, <2>4, <2>5, <2>6, <2>7, <2>8
<1>10. CASE AttachFailed
  BY <1>10 DEF AttachFailed
<1>11. CASE AttachWait
  <2>1. TypeOK'
    <3>1. ThreadTypeOK'
      BY <1>11 DEF AttachWait
    <3>2. StopTypeOK'
      BY <1>11 DEF AttachWait
    <3>3. SyscallTypeOK'
      BY <1>11 DEF AttachWait
    <3> QED BY <3>1, <3>2, <3>3
  <2>2. BeforeLoop'
    BY <1>11 DEF AttachWait
  <2>3. StopInHand'
    BY <1>11 DEF AttachWait
  <2>4. EndedOnce'
    BY <1>11 DEF AttachWait
  <2>5. PhaseKnown'
    BY <1>11 DEF AttachWait
  <2>6. RewriteDue'
    BY <1>11 DEF AttachWait
  <2>7. FaithfulUntilSignal'
    BY <1>11 DEF AttachWait
  <2>8. KidsApart'
    BY <1>11 DEF AttachWait
  <2> QED BY <2>1, <2>2, <2>3, <2>4, <2>5, <2>6, <2>7, <2>8
<1>12. CASE TraceLoop
  BY <1>12 DEF TraceLoop
<1>13. CASE Detach
  <2>1. TypeOK'
    <3>1. ThreadTypeOK'
      BY <1>13 DEF Detach
    <3>2. StopTypeOK'
      BY <1>13 DEF Detach
    <3>3. SyscallTypeOK'
      BY <1>13 DEF Detach
    <3> QED BY <3>1, <3>2, <3>3
  <2>2. BeforeLoop'
    BY <1>13 DEF Detach
  <2>3. StopInHand'
    BY <1>13 DEF Detach
  <2>4. EndedOnce'
    BY <1>13 DEF Detach
  <2>5. PhaseKnown'
    BY <1>13 DEF Detach
  <2>6. RewriteDue'
    BY <1>13 DEF Detach
  <2>7. FaithfulUntilSignal'
    BY <1>13 DEF Detach
  <2>8. KidsApart'
    BY <1>13 DEF Detach
  <2> QED BY <2>1, <2>2, <2>3, <2>4, <2>5, <2>6, <2>7, <2>8
<1>14. CASE Resume
  BY <1>14 DEF Resume
<1>15. CASE ResumeFailed
  BY <1>15 DEF ResumeFailed
<1>16. CASE WaitStopped
  BY <1>16 DEF WaitStopped
<1>17. CASE WaitDead
  BY <1>17 DEF WaitDead
<1>18. CASE HandleStop
  BY <1>18 DEF HandleStop
<1>19. CASE RegsFailed
  BY <1>19 DEF RegsFailed
<1>20. CASE Intercept
  <2>1. TypeOK'
    <3>1. ThreadTypeOK'
      BY <1>20 DEF Intercept
    <3>2. StopTypeOK'
      BY <1>20 DEF Intercept
    <3>3. SyscallTypeOK'
      BY <1>20 DEF Intercept
    <3> QED BY <3>1, <3>2, <3>3
  <2>2. BeforeLoop'
    BY <1>20 DEF Intercept
  <2>3. StopInHand'
    BY <1>20 DEF Intercept
  <2>4. EndedOnce'
    BY <1>20 DEF Intercept
  <2>5. PhaseKnown'
    BY <1>20 DEF Intercept
  <2>6. RewriteDue'
    BY <1>20 DEF Intercept
  <2>7. FaithfulUntilSignal'
    BY <1>20 DEF Intercept
  <2>8. KidsApart'
    BY <1>20 DEF Intercept
  <2> QED BY <2>1, <2>2, <2>3, <2>4, <2>5, <2>6, <2>7, <2>8
<1>21. CASE DeliverSignal
  BY <1>21 DEF DeliverSignal
<1>22. CASE AttachInterrupted
  <2>1. TypeOK'
    <3>1. ThreadTypeOK'
      BY <1>22 DEF AttachInterrupted
    <3>2. StopTypeOK'
      BY <1>22 DEF AttachInterrupted
    <3>3. SyscallTypeOK'
      BY <1>22 DEF AttachInterrupted
    <3> QED BY <3>1, <3>2, <3>3
  <2>2. BeforeLoop'
    BY <1>22 DEF AttachInterrupted
  <2>3. StopInHand'
    BY <1>22 DEF AttachInterrupted
  <2>4. EndedOnce'
    BY <1>22 DEF AttachInterrupted
  <2>5. PhaseKnown'
    BY <1>22 DEF AttachInterrupted
  <2>6. RewriteDue'
    BY <1>22 DEF AttachInterrupted
  <2>7. FaithfulUntilSignal'
    BY <1>22 DEF AttachInterrupted
  <2>8. KidsApart'
    BY <1>22 DEF AttachInterrupted
  <2> QED BY <2>1, <2>2, <2>3, <2>4, <2>5, <2>6, <2>7, <2>8
<1>23. CASE WaitInterrupted
  <2>1. TypeOK'
    <3>1. ThreadTypeOK'
      BY <1>23 DEF WaitInterrupted
    <3>2. StopTypeOK'
      BY <1>23 DEF WaitInterrupted
    <3>3. SyscallTypeOK'
      BY <1>23 DEF WaitInterrupted
    <3> QED BY <3>1, <3>2, <3>3
  <2>2. BeforeLoop'
    BY <1>23 DEF WaitInterrupted
  <2>3. StopInHand'
    BY <1>23 DEF WaitInterrupted
  <2>4. EndedOnce'
    BY <1>23 DEF WaitInterrupted
  <2>5. PhaseKnown'
    BY <1>23 DEF WaitInterrupted
  <2>6. RewriteDue'
    BY <1>23 DEF WaitInterrupted
  <2>7. FaithfulUntilSignal'
    BY <1>23 DEF WaitInterrupted
  <2>8. KidsApart'
    BY <1>23 DEF WaitInterrupted
  <2> QED BY <2>1, <2>2, <2>3, <2>4, <2>5, <2>6, <2>7, <2>8
<1>24. CASE UNCHANGED vars
  BY <1>24 DEF vars
<1> QED
  BY <1>1, <1>2, <1>3, <1>4, <1>5, <1>6, <1>7, <1>8, <1>9, <1>10, <1>11, <1>12, <1>13, <1>14, <1>15, <1>16, <1>17, <1>18, <1>19, <1>20, <1>21, <1>22,
     <1>23, <1>24 DEF Next, Tracee, Loop

\* Whatever the tracee does, in_syscall is wrong exactly when the loop resumed it out
\* of an odd number of system call stops it had not seen; with its options in force it sees
\* every stop until it passes a first signal on; and it ends on a live tracee only after
\* that, or because a waitpid was interrupted (tracer.rs:55-239).
THEOREM TracerCorrect == Spec => []TracerInv
PROOF
<1>1. Init => TracerInv
  BY InitTracerInv
<1>2. TracerInv /\ [Next]_vars => TracerInv'
  BY NextTracerInv
<1> QED BY <1>1, <1>2, PTL DEF Spec

\* No openat or readlinkat runs on a path that should have been rewritten, unless a
\* system call stop was missed before.
THEOREM OpensAreRewrittenHolds == Spec => []OpensAreRewritten
PROOF
<1>1. TracerInv => OpensAreRewritten
  BY DEF TracerInv, RewriteDue, StopInHand, OpensAreRewritten, Alive, Unhandled
<1> QED BY <1>1, TracerCorrect, PTL

\* A status that trace_loop returns from waitpid is how the process ended, for good.
THEOREM StatusIsTrueHolds == Spec => []StatusIsTrue
PROOF
<1> DEFINE DeathKnown == ~ Alive => death # "none"
<1> DEFINE Inv == StatusIsTrue /\ DeathKnown
<1>1. Init => Inv
  BY DEF Init, StatusIsTrue, Alive
<1>2. ASSUME TracerInv, Inv, [Next]_vars PROVE Inv'
  <2> USE <1>2 DEF StatusIsTrue, Alive, TracerInv, EndedOnce, TypeOK, StopTypeOK
  <2>1. CASE WaitDead
    BY <2>1 DEF WaitDead, Return
  <2>2. CASE Exits
    BY <2>2 DEF Exits, tracer
  <2>3. CASE Killed
    BY <2>3 DEF Killed, tracer
  <2>4. CASE AttachWait
    BY <2>4 DEF AttachWait
  <2>5. CASE Detach
    BY <2>5 DEF Detach
  <2>6. CASE DeliverSignal
    BY <2>6 DEF DeliverSignal
  <2>7. CASE AttachFailed \/ ResumeFailed \/ RegsFailed \/ WaitInterrupted
    BY <2>7 DEF AttachFailed, ResumeFailed, RegsFailed, WaitInterrupted, Return, stop
  <2>8. CASE UNCHANGED <<result, death>> /\ ((Alive /\ Alive') \/ run' = run)
    BY <2>8
  <2> QED
    <3>1. ASSUME NEW c \in Calls, EnterSyscall(c)
          PROVE UNCHANGED <<result, death>> /\ ((Alive /\ Alive') \/ run' = run)
      BY <3>1 DEF EnterSyscall, Stop, Resumed, tracer
    <3>2. CASE SpawnEvent \/ ExecEvent \/ LeaveSyscall \/ SignalArrives
      BY <3>2, <2>8 DEF SpawnEvent, ExecEvent, LeaveSyscall, SignalArrives, Stop,
                        Resumed, tracer
    <3>3. CASE KidKilled \/ Attach \/ AttachInterrupted \/ TraceLoop \/ HandleStop \/ Intercept
      BY <3>3, <2>8 DEF KidKilled, Attach, AttachInterrupted, TraceLoop, HandleStop, Intercept,
                        tracer, stop
    <3>4. CASE Resume \/ WaitStopped \/ UNCHANGED vars
      BY <3>4, <2>8 DEF Resume, WaitStopped, vars, tracer, stop
    <3> QED
      BY <2>1, <2>2, <2>3, <2>4, <2>5, <2>6, <2>7, <2>8, <3>1, <3>2, <3>3, <3>4
      DEF Next, Tracee, Loop
<1> QED BY <1>1, <1>2, TracerCorrect, PTL DEF Spec

\* A process that is left traced was taken for gone by a loop that had passed a signal on or
\* whose waitpid was interrupted, or the wait of its attach was: nothing else the thread
\* returns leaves a live process to nobody.
THEOREM DetachFreesHolds == Spec => []DetachFrees
PROOF
<1> DEFINE Inv == DetachFrees /\ (pc = "attached" => active)
<1>1. Init => Inv
  BY DEF Init, DetachFrees
<1>2. ASSUME TracerInv, Inv, [Next]_vars PROVE Inv'
  <2> USE <1>2 DEF DetachFrees, Alive
  <2>1. CASE Detach
    BY <2>1 DEF Detach, syscall, observed, TracerInv, StopInHand, BeforeLoop
  <2>2. CASE AttachFailed
    BY <2>2 DEF AttachFailed, trace, stop, observed, TracerInv, BeforeLoop
  <2>3. CASE WaitDead
    BY <2>3 DEF WaitDead, Return
  <2>4. CASE RegsFailed
    BY <2>4 DEF RegsFailed, Return, trace, stop, observed, TracerInv, StopInHand
  <2>5. CASE ResumeFailed \/ WaitInterrupted
    BY <2>5 DEF ResumeFailed, WaitInterrupted, Return, trace, stop, observed, TracerInv, StopInHand
  <2>6. CASE DeliverSignal
    BY <2>6 DEF DeliverSignal
  <2>7. CASE Attach \/ AttachWait \/ AttachInterrupted \/ TraceLoop \/ Resume \/ HandleStop \/ Intercept
    BY <2>7 DEF Attach, AttachWait, AttachInterrupted, TraceLoop, Resume, HandleStop, Intercept
  <2>8. CASE WaitStopped
    BY <2>8 DEF WaitStopped, TracerInv, TypeOK, StopTypeOK
  <2>9. ASSUME NEW c \in Calls, EnterSyscall(c) PROVE Inv'
    BY <2>9 DEF EnterSyscall, Stop, Resumed, tracer, trace, observed
  <2>10. CASE SpawnEvent \/ ExecEvent \/ LeaveSyscall \/ SignalArrives
    BY <2>10 DEF SpawnEvent, ExecEvent, LeaveSyscall, SignalArrives, Stop, Resumed, tracer,
                 trace, observed
  <2>11. CASE Exits \/ Killed
    BY <2>11 DEF Exits, Killed, tracer, trace, observed
  <2>12. CASE KidKilled \/ UNCHANGED vars
    BY <2>12 DEF KidKilled, vars, tracer, trace, stop, observed
  <2> QED
    BY <2>1, <2>2, <2>3, <2>4, <2>5, <2>6, <2>7, <2>8, <2>9, <2>10, <2>11, <2>12
    DEF Next, Tracee, Loop
<1> QED BY <1>1, <1>2, TracerCorrect, PTL DEF Spec

-----------------------------------------------------------------------------
(* What becomes of the tracee, as TracedChild has it                       *)

LEMMA InitChild == Init => Child!Init
  BY DEF Init, Child!Init, Alive, Looping

\* What the tracee does by itself changes nothing but whether it is alive.
LEMMA TraceeRefines == TracerInv /\ Tracee => [Child!Next]_(Child!vars)
PROOF
<1> SUFFICES ASSUME TracerInv, Tracee PROVE [Child!Next]_(Child!vars)
  OBVIOUS
<1> USE DEF Child!vars, Alive, Looping, tracer, trace, stop
<1>1. CASE Exits \/ Killed
  <2>1. Alive /\ run' = "zombie" /\ UNCHANGED <<traced, pc>>
    BY <1>1 DEF Exits, Killed
  <2> QED BY <2>1 DEF Child!Next, Child!Dies
<1>2. CASE ~ (Exits \/ Killed)
  <2>1. UNCHANGED <<traced, pc>> /\ (run' = run \/ (run = "running" /\ run' = "stopped"))
    BY <1>2 DEF Tracee, EnterSyscall, SpawnEvent, ExecEvent, LeaveSyscall, SignalArrives, KidKilled,
                Stop, Resumed
  <2> QED BY <2>1
<1> QED BY <1>1, <1>2

\* Each call of the thread is a step of TracedChild, or goes unnoticed by it.
LEMMA CallRefines ==
  TracerInv /\ (Attach \/ AttachFailed \/ AttachWait \/ AttachInterrupted \/ TraceLoop \/ Detach
                \/ Loop \/ WaitInterrupted)
    => [Child!Next]_(Child!vars)
PROOF
<1> SUFFICES ASSUME TracerInv,
                    \/ Attach \/ AttachFailed \/ AttachWait \/ AttachInterrupted \/ TraceLoop
                    \/ Detach \/ Loop \/ WaitInterrupted
             PROVE  [Child!Next]_(Child!vars)
  OBVIOUS
<1> USE DEF Child!vars, Child!Next, Alive, Looping, trace, stop, TracerInv, TypeOK, ThreadTypeOK, StopTypeOK
<1>1. CASE Attach
  BY <1>1 DEF Attach, Child!Attach, BeforeLoop
<1>2. CASE AttachFailed \/ AttachInterrupted \/ TraceLoop
  BY <1>2 DEF AttachFailed, AttachInterrupted, TraceLoop
<1>3. CASE AttachWait
  BY <1>3 DEF AttachWait, Child!Reap
<1>4. CASE Detach
  BY <1>4 DEF Detach, Child!LetGo, Child!Returns
<1>5. CASE WaitDead
  BY <1>5 DEF WaitDead, Return, Child!Reap
<1>6. CASE ResumeFailed \/ RegsFailed \/ WaitInterrupted
  BY <1>6 DEF ResumeFailed, RegsFailed, WaitInterrupted, Return, Child!Returns
<1>7. CASE Resume \/ WaitStopped \/ HandleStop \/ Intercept \/ DeliverSignal
  <2>1. /\ UNCHANGED traced /\ Looping /\ Looping'
        /\ run' = run \/ (run = "stopped" /\ run' = "running")
    BY <1>7 DEF Resume, WaitStopped, HandleStop, Intercept, DeliverSignal
  <2> QED BY <2>1
<1> QED BY <1>1, <1>2, <1>3, <1>4, <1>5, <1>6, <1>7 DEF Loop

\* Only the loop waits for the child, it runs only on what was attached to, and a child is
\* held until it is let go: call by call, the thread does what TracedChild allows.
THEOREM TracerImplementsChild == Spec => ImplementsChild
PROOF
<1>1. Init => Child!Init BY InitChild
<1>2. TracerInv /\ [Next]_vars => [Child!Next]_(Child!vars)
  <2>1. UNCHANGED vars => UNCHANGED Child!vars
    BY DEF vars, tracer, trace, stop, Child!vars, Alive, Looping
  <2> QED BY <2>1, TraceeRefines, CallRefines DEF Next
<1> QED BY <1>1, <1>2, TracerCorrect, PTL DEF Spec, ImplementsChild, Child!Spec
=============================================================================
