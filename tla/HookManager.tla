----------------------------- MODULE HookManager -----------------------------
(***************************************************************************)
(* neutron-engine/src/hook.rs: HookManager, inline hooks written into the  *)
(* code of a stopped process with PTRACE_POKEDATA.                         *)
(*                                                                         *)
(* The code is a row of 4-byte cells. What is in a cell is abstracted to   *)
(* where it comes from: the program itself, or the trampoline to some      *)
(* handler. A POKEDATA writes one machine word, and any of them can fail,  *)
(* which ends the operation half way. A PEEKDATA that fails does not: the  *)
(* -1 it returns is taken for what was read.                               *)
(***************************************************************************)
EXTENDS Integers, Sequences, FiniteSets

CONSTANTS Handler,       \* hook handlers
          CodeSize,      \* the cells of the code are 0 .. CodeSize - 1
          Size,          \* cells of a trampoline: 4 on arm64, 3 on arm32
          CellsPerWord,  \* cells in a machine word of the build: 2 or 1
          MaxHooks,      \* bound: hooks installed at one time
          MaxMisread     \* bound: cells that reads which failed are taken for

ASSUME CodeAssumption ==
  CodeSize \in Nat /\ MaxHooks \in Nat /\ Size \in {3, 4} /\ CellsPerWord \in {1, 2}

VARIABLES mem,       \* the code of the process
          hooks,     \* HookManager::hooks, in the order of installation
          restoring, \* remove_all_hooks: the hook to restore next; 0 when idle
          mishaps,   \* observer: "nested", a hook was once installed over another
                     \* one; "torn", an installation failed after it had written
          misread    \* observer: the cells a failed PEEKDATA was once taken for

vars == <<mem, hooks, restoring, mishaps, misread>>

Cells    == 0 .. CodeSize - 1
Pristine == [c \in Cells |-> <<"code", c>>]

\* ldr, br, and two cells of address (arm64); ldr, address, and a nop (arm32).
Trampoline(h) == [i \in 1 .. Size |-> <<"hook", h>>]

Under(target) == target .. target + Size - 1

MinusOne == <<"error", 0>>

Words == (Size + CellsPerWord - 1) \div CellsPerWord
Word(target, k) == {c \in Under(target) : (c - target) \div CellsPerWord = k}

\* read_memory, when the words in bad could not be read.
Misreads(target) == {UNION W : W \in SUBSET {Word(target, k) : k \in 0 .. Words - 1}}
Read(target, bad) ==
  [i \in 1 .. Size |-> IF target + i - 1 \in bad THEN MinusOne ELSE mem[target + i - 1]]

\* write_memory after its first n words. A last, partial word is merged with what is
\* read behind the target: what is there, or if that could not be read, -1.
Behind(target) == (target + Size .. target + Words * CellsPerWord - 1) \cap Cells
Written(target, data, n, lost) ==
  [c \in Cells |-> IF c \in Under(target) /\ c < target + n * CellsPerWord
                   THEN data[c - target + 1]
                   ELSE IF c \in lost THEN MinusOne ELSE mem[c]]
Write(target, data, lost) ==
  /\ lost \in {{}, Behind(target)}
  /\ mem' = Written(target, data, Words, lost)
Interrupted == 0 .. Words - 1

-----------------------------------------------------------------------------
Init == mem = Pristine /\ hooks = <<>> /\ restoring = 0 /\ mishaps = {} /\ misread = {}

\* Mutant of Install: the bytes are saved after the trampoline is in place.
SavedTooLate(target, h) ==
  /\ restoring = 0 /\ Len(hooks) < MaxHooks
  /\ target + Size <= CodeSize
  /\ Write(target, Trampoline(h), {})
  /\ hooks' = Append(hooks, [target |-> target, original |-> Trampoline(h)])
  /\ mishaps' = IF \A i \in DOMAIN hooks : Under(target) \cap Under(hooks[i].target) = {}
                THEN mishaps ELSE mishaps \cup {"nested"}
  /\ UNCHANGED <<restoring, misread>>

\* install_hook_arm64 and install_hook_arm32.
Install(target, h) ==
  /\ restoring = 0 /\ Len(hooks) < MaxHooks
  /\ target + Size <= CodeSize
  /\ \E bad \in Misreads(target), lost \in SUBSET Behind(target) :
       /\ Write(target, Trampoline(h), lost)
       /\ hooks' = Append(hooks, [target |-> target, original |-> Read(target, bad)])
       /\ misread' = misread \cup bad \cup lost /\ Cardinality(misread') <= MaxMisread
  /\ mishaps' = IF \A i \in DOMAIN hooks : Under(target) \cap Under(hooks[i].target) = {}
                THEN mishaps ELSE mishaps \cup {"nested"}
  /\ UNCHANGED restoring

\* A word cannot be written: an early return, before the hook is recorded.
InstallFailed(target, h) ==
  /\ restoring = 0 /\ Len(hooks) < MaxHooks
  /\ target + Size <= CodeSize
  /\ \E n \in Interrupted : /\ mem' = Written(target, Trampoline(h), n, {})
                            /\ mishaps' = IF n = 0 THEN mishaps ELSE mishaps \cup {"torn"}
  /\ UNCHANGED <<hooks, restoring, misread>>

\* The bytes of a hook are written back.
Rewrite(i) ==
  \E lost \in SUBSET Behind(hooks[i].target) :
    /\ Write(hooks[i].target, hooks[i].original, lost)
    /\ misread' = misread \cup lost /\ Cardinality(misread') <= MaxMisread

\* remove_hook takes the first record with this target.
First(i) == \A j \in 1 .. i - 1 : hooks[j].target # hooks[i].target

Remove(i) ==
  /\ restoring = 0 /\ First(i)
  /\ Rewrite(i)
  /\ hooks' = [j \in 1 .. Len(hooks) - 1 |-> hooks[IF j < i THEN j ELSE j + 1]]
  /\ UNCHANGED <<restoring, mishaps>>

RemoveFailed(i) ==
  /\ restoring = 0 /\ First(i)
  /\ \E n \in Interrupted : mem' = Written(hooks[i].target, hooks[i].original, n, {})
  /\ UNCHANGED <<hooks, restoring, mishaps, misread>>

\* remove_all_hooks restores in the order of installation, and forgets the hooks
\* only after the last one.
RemoveAll ==
  /\ restoring = 0
  /\ restoring' = 1
  /\ UNCHANGED <<mem, hooks, mishaps, misread>>

Restore ==
  /\ restoring \in DOMAIN hooks
  /\ Rewrite(restoring)
  /\ restoring' = restoring + 1
  /\ UNCHANGED <<hooks, mishaps>>

\* Mutant of RestoreFailed: the hooks are drained, so an error loses the ones left.
DrainedAtError ==
  /\ restoring \in DOMAIN hooks
  /\ \E n \in Interrupted :
       mem' = Written(hooks[restoring].target, hooks[restoring].original, n, {})
  /\ hooks' = <<>> /\ restoring' = 0
  /\ UNCHANGED <<mishaps, misread>>

RestoreFailed ==
  /\ restoring \in DOMAIN hooks
  /\ \E n \in Interrupted :
       mem' = Written(hooks[restoring].target, hooks[restoring].original, n, {})
  /\ restoring' = 0
  /\ UNCHANGED <<hooks, mishaps, misread>>

RemovedAll ==
  /\ restoring = Len(hooks) + 1
  /\ hooks' = <<>> /\ restoring' = 0
  /\ UNCHANGED <<mem, mishaps, misread>>

Next ==
  \/ \E target \in Cells, h \in Handler : Install(target, h) \/ InstallFailed(target, h)
  \/ \E i \in DOMAIN hooks : Remove(i) \/ RemoveFailed(i)
  \/ RemoveAll \/ Restore \/ RestoreFailed \/ RemovedAll

Spec == Init /\ [][Next]_vars
-----------------------------------------------------------------------------
Contents == {<<"code", c>> : c \in Cells} \cup {<<"hook", h>> : h \in Handler} \cup {MinusOne}

TypeOK ==
  /\ mem \in [Cells -> Contents]
  /\ hooks \in Seq([target : Cells, original : [1 .. Size -> Contents]])
  /\ \A i \in DOMAIN hooks : hooks[i].target + Size <= CodeSize
  /\ restoring \in 0 .. Len(hooks) + 1
  /\ mishaps \subseteq {"nested", "torn"} /\ misread \subseteq Cells

\* Hooks that were not installed over one another stay apart.
HooksApart ==
  "nested" \notin mishaps =>
    \A i, j \in DOMAIN hooks :
      i # j => Under(hooks[i].target) \cap Under(hooks[j].target) = {}

\* The bytes a hook saved are the program's own (hook.rs:59), and so restoring them is
\* right, if no installation ever overlapped another or failed half way; but for the
\* cells that could not be read.
OriginalsArePristine ==
  mishaps = {} =>
    \A i \in DOMAIN hooks : \A c \in Under(hooks[i].target) \ misread :
      hooks[i].original[c - hooks[i].target + 1] = Pristine[c]

\* Every changed cell is under a recorded hook, even after removals that failed half
\* way (hook.rs:101-120, 180-230): what was changed can still be put back.
ChangesAreRecorded ==
  mishaps = {} =>
    \A c \in Cells \ misread :
      mem[c] = Pristine[c] \/ \E i \in DOMAIN hooks : c \in Under(hooks[i].target)

\* While remove_all_hooks is under way the hooks it has passed are undone.
PassedAreRestored ==
  mishaps = {} =>
    \A i \in 1 .. restoring - 1 : \A c \in Under(hooks[i].target) \ misread : mem[c] = Pristine[c]

\* The inductive invariant of the manager (hook.rs:57-120).
HookInv == /\ TypeOK
           /\ HooksApart /\ OriginalsArePristine
           /\ ChangesAreRecorded /\ PassedAreRestored

\* Hooks that were kept apart leave no trace: in whatever order they are removed, one by
\* one or all at once, and however often a removal fails and is tried again, the code
\* ends up as it was; and a read that failed, which nobody notices, harms no cell but the
\* ones of its word (hook.rs:101-120, 154-230).
UnhookedIsPristine ==
  hooks = <<>> /\ mishaps = {} => \A c \in Cells \ misread : mem[c] = Pristine[c]
=============================================================================
