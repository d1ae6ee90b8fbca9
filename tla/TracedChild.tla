----------------------------- MODULE TracedChild -----------------------------
(***************************************************************************)
(* What becomes of a child of the host that a SyscallTracer may be run on,  *)
(* without the calls that lead there: it lives, dies and is waited for; a   *)
(* tracer holds it or does not; a trace_loop runs or has returned. Only a   *)
(* loop waits for the child, a loop runs only on what an attach took, and   *)
(* the child is held until it is let go, however early the loop returned.   *)
(***************************************************************************)
VARIABLES child,  \* "alive", "dead" and not waited for, or "gone"
          held,   \* a thread that attached traces it
          loop    \* that thread is in attach or trace_loop

vars == <<child, held, loop>>

Init == child \in {"alive", "gone"} /\ held = FALSE /\ loop = FALSE

Begins == child = "gone" /\ child' = "alive" /\ UNCHANGED <<held, loop>>

Attach ==
  /\ child = "alive" /\ held = FALSE
  /\ held' = TRUE /\ loop' = TRUE /\ UNCHANGED child

\* Whether the child is alive or dead.
Returns == loop = TRUE /\ loop' = FALSE /\ UNCHANGED <<child, held>>

\* detach, or the end of the thread.
LetGo == held = TRUE /\ held' = FALSE /\ loop' = FALSE /\ UNCHANGED child

Dies == child = "alive" /\ child' = "dead" /\ UNCHANGED <<held, loop>>

Reap ==
  /\ loop = TRUE /\ child = "dead"
  /\ child' = "gone" /\ held' = FALSE /\ loop' = FALSE

Next == Begins \/ Attach \/ Returns \/ LetGo \/ Dies \/ Reap

Spec == Init /\ [][Next]_vars
=============================================================================
