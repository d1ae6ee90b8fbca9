-------------------------- MODULE HookManagerProofs --------------------------
(* Theorems about HookManager, for any code size, either trampoline, either *)
(* word size and any number of hooks.                                       *)
EXTENDS HookManager, TLAPS

\* All the words of a trampoline cover all of it.
LEMMA WordsCover ==
  /\ Words \in Nat /\ Size <= Words * CellsPerWord
  BY CodeAssumption DEF Words

\* A write that was not interrupted puts the data under the target, and leaves every
\* other cell alone but for the ones that were merged with a failed read.
LEMMA FullWrite ==
  ASSUME NEW target \in Cells, NEW data, NEW lost, NEW c \in Cells, c \notin lost
  PROVE  Written(target, data, Words, lost)[c] =
           IF c \in Under(target) THEN data[c - target + 1] ELSE mem[c]
  BY WordsCover, CodeAssumption DEF Written, Under, Cells

\* An interrupted one leaves in each cell what was there or what was to be there.
LEMMA PartialWrite ==
  ASSUME NEW target, NEW data, NEW n, NEW lost, NEW c \in Cells, c \notin lost
  PROVE  \/ Written(target, data, n, lost)[c] = mem[c]
         \/ c \in Under(target) /\ Written(target, data, n, lost)[c] = data[c - target + 1]
  BY DEF Written

LEMMA WriteType ==
  ASSUME NEW target \in Cells, NEW data \in [1 .. Size -> Contents], NEW n, NEW lost,
         mem \in [Cells -> Contents]
  PROVE  Written(target, data, n, lost) \in [Cells -> Contents]
PROOF
<1>1. \A c \in Cells : c \in Under(target) => data[c - target + 1] \in Contents
  BY CodeAssumption DEF Under, Cells
<1>2. MinusOne \in Contents
  BY DEF Contents
<1> QED BY <1>1, <1>2 DEF Written

-----------------------------------------------------------------------------
LEMMA InitHookInv == Init => HookInv
  BY CodeAssumption
  DEF Init, HookInv, TypeOK, HooksApart, OriginalsArePristine, ChangesAreRecorded,
      PassedAreRestored, Pristine, Contents

\* What a record holds.
LEMMA HookType ==
  ASSUME HookInv, NEW i \in DOMAIN hooks
  PROVE  /\ hooks[i].target \in Cells /\ hooks[i].target + Size <= CodeSize
         /\ hooks[i].original \in [1 .. Size -> Contents]
PROOF
<1>1. hooks \in Seq([target : Cells, original : [1 .. Size -> Contents]])
  BY DEF HookInv, TypeOK
<1> DEFINE Hook == [target : Cells, original : [1 .. Size -> Contents]]
<1>2. hooks[i] \in Hook
  <2> HIDE DEF Hook
  <2>1. hooks \in Seq(Hook)
    BY <1>1 DEF Hook
  <2> QED BY <2>1
<1> QED BY <1>2 DEF HookInv, TypeOK

\* Where the code is written back over a hook's range, wholly or in part, every cell is
\* closer to the program's own: nothing outside changes, nothing else appears.
LEMMA RestoringIsSafe ==
  ASSUME HookInv, mishaps = {}, NEW i \in DOMAIN hooks, NEW n, NEW lost,
         NEW c \in Cells \ (misread \cup lost),
         mem' = Written(hooks[i].target, hooks[i].original, n, lost)
  PROVE  mem'[c] = mem[c] \/ (c \in Under(hooks[i].target) /\ mem'[c] = Pristine[c])
PROOF
<1>1. \A d \in Under(hooks[i].target) \ misread :
        hooks[i].original[d - hooks[i].target + 1] = Pristine[d]
  BY DEF HookInv, OriginalsArePristine
<1> QED BY <1>1, PartialWrite

LEMMA FullRestore ==
  ASSUME HookInv, mishaps = {}, NEW i \in DOMAIN hooks, NEW lost,
         NEW c \in Under(hooks[i].target) \ (misread \cup lost),
         mem' = Written(hooks[i].target, hooks[i].original, Words, lost)
  PROVE  c \in Cells /\ mem'[c] = Pristine[c]
PROOF
<1>1. hooks[i].target \in Cells /\ hooks[i].target + Size <= CodeSize
  BY HookType
<1>2. c \in Cells
  BY <1>1, CodeAssumption DEF Under, Cells
<1>3. hooks[i].original[c - hooks[i].target + 1] = Pristine[c]
  BY DEF HookInv, OriginalsArePristine
<1> QED BY <1>1, <1>2, <1>3, FullWrite

\* A restore of any extent keeps the code well typed.
LEMMA RestoreType ==
  ASSUME HookInv, NEW i \in DOMAIN hooks, NEW n, NEW lost,
         mem' = Written(hooks[i].target, hooks[i].original, n, lost)
  PROVE  mem' \in [Cells -> Contents]
PROOF
<1>1. hooks[i].target \in Cells /\ hooks[i].original \in [1 .. Size -> Contents]
  BY HookType
<1> QED BY <1>1, WriteType DEF HookInv, TypeOK

-----------------------------------------------------------------------------
(* The steps.                                                               *)

LEMMA InstallInv ==
  ASSUME HookInv, NEW target \in Cells, NEW h \in Handler, Install(target, h)
  PROVE  HookInv'
PROOF
<1>0. PICK bad \in Misreads(target), lost \in SUBSET Behind(target) :
        /\ Write(target, Trampoline(h), lost)
        /\ hooks' = Append(hooks, [target |-> target, original |-> Read(target, bad)])
        /\ misread' = misread \cup bad \cup lost
  BY DEF Install
<1> DEFINE new == [target |-> target, original |-> Read(target, bad)]
<1>1. /\ hooks' = Append(hooks, new)
      /\ mem' = Written(target, Trampoline(h), Words, lost)
      /\ target + Size <= CodeSize /\ restoring = 0 /\ restoring' = 0
  BY <1>0 DEF Install, Write
<1>2. \A c \in Under(target) :
        c \in Cells /\ (c \notin bad => new.original[c - target + 1] = mem[c])
  BY <1>1, CodeAssumption DEF Under, Cells, Read
<1>3. new \in [target : Cells, original : [1 .. Size -> Contents]]
  <2>1. \A k \in 1 .. Size : target + k - 1 \in Cells
    BY <1>1, CodeAssumption DEF Cells
  <2>2. Read(target, bad) \in [1 .. Size -> Contents]
    BY <2>1 DEF Read, Contents, HookInv, TypeOK
  <2> QED BY <2>2
<1>4. /\ hooks' \in Seq([target : Cells, original : [1 .. Size -> Contents]])
      /\ Len(hooks') = Len(hooks) + 1 /\ Len(hooks) \in Nat
      /\ \A j \in DOMAIN hooks : hooks'[j] = hooks[j]
      /\ hooks'[Len(hooks) + 1] = new
      /\ DOMAIN hooks = 1 .. Len(hooks) /\ DOMAIN hooks' = 1 .. Len(hooks) + 1
  BY <1>1, <1>3 DEF HookInv, TypeOK
<1>5. TypeOK'
  <2>1. Trampoline(h) \in [1 .. Size -> Contents]
    BY DEF Trampoline, Contents
  <2>2. mem' \in [Cells -> Contents]
    BY <1>1, <2>1, WriteType DEF HookInv, TypeOK
  <2>3. \A j \in DOMAIN hooks' : hooks'[j].target + Size <= CodeSize
    BY <1>1, <1>4 DEF HookInv, TypeOK
  <2>4. mishaps' \subseteq {"nested", "torn"}
    BY DEF Install, HookInv, TypeOK
  <2>5. misread' \subseteq Cells
    <3>1. lost \subseteq Cells /\ bad \subseteq Under(target) /\ Under(target) \subseteq Cells
      BY <1>2 DEF Behind, Misreads, Word
    <3> QED BY <1>0, <3>1 DEF HookInv, TypeOK
  <2> QED BY <1>1, <1>4, <2>2, <2>3, <2>4, <2>5 DEF TypeOK
<1>6. HooksApart'
  <2> SUFFICES ASSUME "nested" \notin mishaps', NEW j \in DOMAIN hooks', NEW k \in DOMAIN hooks',
                      j # k
               PROVE  Under(hooks'[j].target) \cap Under(hooks'[k].target) = {}
    BY DEF HooksApart
  <2>1. /\ "nested" \notin mishaps
        /\ \A l \in DOMAIN hooks : Under(target) \cap Under(hooks[l].target) = {}
    BY DEF Install
  <2>2. CASE j \in DOMAIN hooks /\ k \in DOMAIN hooks
    BY <2>1, <2>2, <1>4 DEF HookInv, HooksApart
  <2>3. CASE j \in DOMAIN hooks /\ k = Len(hooks) + 1
    BY <2>1, <2>3, <1>4
  <2>4. CASE j = Len(hooks) + 1 /\ k \in DOMAIN hooks
    BY <2>1, <2>4, <1>4
  <2> QED BY <2>2, <2>3, <2>4, <1>4
<1>7. ASSUME mishaps' = {}
      PROVE  /\ mishaps = {}
             /\ \A j \in DOMAIN hooks : Under(target) \cap Under(hooks[j].target) = {}
  BY <1>7 DEF Install
<1>8. OriginalsArePristine'
  <2> SUFFICES ASSUME mishaps' = {} , NEW j \in DOMAIN hooks',
                      NEW c \in Under(hooks'[j].target) \ misread'
               PROVE  hooks'[j].original[c - hooks'[j].target + 1] = Pristine[c]
    BY DEF OriginalsArePristine
  <2>1. CASE j \in DOMAIN hooks
    BY <2>1, <1>0, <1>4, <1>7 DEF HookInv, OriginalsArePristine
  <2>2. CASE j = Len(hooks) + 1
    <3>1. c \in Under(target) /\ hooks'[j].target = target /\ hooks'[j].original = new.original
      BY <2>2, <1>4
    <3>2. mem[c] = Pristine[c]
      BY <3>1, <1>0, <1>2, <1>7 DEF HookInv, ChangesAreRecorded
    <3> QED BY <3>1, <3>2, <1>0, <1>2
  <2> QED BY <2>1, <2>2, <1>4
<1>9. ChangesAreRecorded'
  <2> SUFFICES ASSUME mishaps' = {}, NEW c \in Cells \ misread'
               PROVE  mem'[c] = Pristine[c] \/ \E j \in DOMAIN hooks' : c \in Under(hooks'[j].target)
    BY DEF ChangesAreRecorded
  <2>1. CASE c \in Under(target)
    BY <2>1, <1>4
  <2>2. CASE c \notin Under(target)
    <3>1. mem'[c] = mem[c]
      BY <2>2, <1>0, <1>1, FullWrite
    <3> QED BY <3>1, <1>0, <1>4, <1>7 DEF HookInv, ChangesAreRecorded
  <2> QED BY <2>1, <2>2
<1>10. PassedAreRestored'
  BY <1>1 DEF PassedAreRestored
<1> QED BY <1>5, <1>6, <1>8, <1>9, <1>10 DEF HookInv

LEMMA InstallFailedInv ==
  ASSUME HookInv, NEW target \in Cells, NEW h \in Handler, InstallFailed(target, h)
  PROVE  HookInv'
PROOF
<1>1. PICK n \in Interrupted : /\ mem' = Written(target, Trampoline(h), n, {})
                              /\ mishaps' = IF n = 0 THEN mishaps ELSE mishaps \cup {"torn"}
  BY DEF InstallFailed
<1>2. hooks' = hooks /\ restoring' = restoring /\ restoring = 0 /\ misread' = misread
  BY DEF InstallFailed
<1>3. mem' \in [Cells -> Contents]
  <2>1. Trampoline(h) \in [1 .. Size -> Contents]
    BY DEF Trampoline, Contents
  <2> QED BY <1>1, <2>1, WriteType DEF HookInv, TypeOK
<1>4. TypeOK'
  BY <1>1, <1>2, <1>3 DEF HookInv, TypeOK
<1>5. ASSUME mishaps' = {} PROVE mem' = mem /\ mishaps = {}
  <2>1. n = 0 /\ mishaps = {}
    BY <1>1, <1>5
  <2>2. \A c \in Cells : mem'[c] = mem[c]
    BY <1>1, <2>1, CodeAssumption DEF Written, Under, Cells
  <2> QED BY <2>1, <2>2, <1>3 DEF HookInv, TypeOK
<1>6. HooksApart'
  BY <1>1, <1>2 DEF HookInv, HooksApart
<1>7. OriginalsArePristine' /\ ChangesAreRecorded' /\ PassedAreRestored'
  BY <1>2, <1>5 DEF HookInv, OriginalsArePristine, ChangesAreRecorded, PassedAreRestored
<1> QED BY <1>4, <1>6, <1>7 DEF HookInv

LEMMA RemoveInv ==
  ASSUME HookInv, NEW i \in DOMAIN hooks, Remove(i)
  PROVE  HookInv'
PROOF
<1>0. PICK lost \in SUBSET Behind(hooks[i].target) :
        /\ Write(hooks[i].target, hooks[i].original, lost)
        /\ misread' = misread \cup lost
  BY DEF Remove, Rewrite
<1> DEFINE old(j) == IF j < i THEN j ELSE j + 1
<1> DEFINE Hook == [target : Cells, original : [1 .. Size -> Contents]]
<1>1. /\ mem' = Written(hooks[i].target, hooks[i].original, Words, lost)
      /\ hooks' = [j \in 1 .. Len(hooks) - 1 |-> hooks[old(j)]]
      /\ restoring = 0 /\ restoring' = 0 /\ mishaps' = mishaps
  BY <1>0 DEF Remove, Write
<1>2. /\ hooks \in Seq(Hook)
      /\ Len(hooks) \in Nat \ {0} /\ DOMAIN hooks = 1 .. Len(hooks) /\ i \in 1 .. Len(hooks)
  BY DEF HookInv, TypeOK
<1>3. /\ \A j \in 1 .. Len(hooks) - 1 : old(j) \in DOMAIN hooks /\ old(j) # i
      /\ \A j, k \in 1 .. Len(hooks) - 1 : j # k => old(j) # old(k)
      /\ \A l \in DOMAIN hooks : l # i => \E j \in 1 .. Len(hooks) - 1 : l = old(j)
  <2>1. ASSUME NEW l \in DOMAIN hooks, l # i
        PROVE  \E j \in 1 .. Len(hooks) - 1 : l = old(j)
    <3>1. CASE l < i
      <4>1. l \in 1 .. Len(hooks) - 1 /\ l = old(l)
        BY <1>2, <3>1
      <4> QED BY <4>1
    <3>2. CASE l > i
      <4>1. l - 1 \in 1 .. Len(hooks) - 1 /\ l = old(l - 1)
        BY <1>2, <3>2
      <4> QED BY <4>1
    <3> QED BY <3>1, <3>2, <2>1, <1>2
  <2> QED BY <2>1, <1>2
<1> HIDE DEF old
<1>4. /\ DOMAIN hooks' = 1 .. Len(hooks) - 1
      /\ \A j \in DOMAIN hooks' : hooks'[j] = hooks[old(j)] /\ old(j) \in DOMAIN hooks
  BY <1>1, <1>3
<1>5. hooks' \in Seq(Hook) /\ Len(hooks') = Len(hooks) - 1
  <2>1. \A j \in 1 .. Len(hooks) - 1 : hooks[old(j)] \in Hook
    <3> HIDE DEF Hook
    <3> QED BY <1>2, <1>3
  <2> HIDE DEF Hook
  <2>2. hooks' \in [1 .. Len(hooks) - 1 -> Hook] /\ Len(hooks) - 1 \in Nat
    BY <1>1, <1>2, <2>1
  <2> QED BY <2>2
<1>6. TypeOK'
  <2>1. mem' \in [Cells -> Contents]
    BY <1>1, RestoreType
  <2>2. \A j \in DOMAIN hooks' : hooks'[j].target + Size <= CodeSize
    BY <1>4 DEF HookInv, TypeOK
  <2>3. misread' \subseteq Cells
    BY <1>0 DEF Behind, HookInv, TypeOK
  <2> QED BY <1>1, <1>2, <1>5, <2>1, <2>2, <2>3 DEF HookInv, TypeOK
<1>7. HooksApart'
  <2> SUFFICES ASSUME "nested" \notin mishaps, NEW j \in DOMAIN hooks', NEW k \in DOMAIN hooks',
                      j # k
               PROVE  Under(hooks'[j].target) \cap Under(hooks'[k].target) = {}
    BY <1>1 DEF HooksApart
  <2>1. old(j) \in DOMAIN hooks /\ old(k) \in DOMAIN hooks /\ old(j) # old(k)
    BY <1>3, <1>4
  <2>2. hooks'[j] = hooks[old(j)] /\ hooks'[k] = hooks[old(k)]
    BY <1>4
  <2> QED BY <2>1, <2>2 DEF HookInv, HooksApart
<1>8. OriginalsArePristine'
  BY <1>0, <1>1, <1>4 DEF HookInv, OriginalsArePristine
<1>9. ChangesAreRecorded'
  <2> SUFFICES ASSUME mishaps = {}, NEW c \in Cells \ misread'
               PROVE  mem'[c] = Pristine[c] \/ \E j \in DOMAIN hooks' : c \in Under(hooks'[j].target)
    BY <1>1 DEF ChangesAreRecorded
  <2>1. CASE c \in Under(hooks[i].target)
    BY <2>1, <1>0, <1>1, FullRestore
  <2>2. CASE c \notin Under(hooks[i].target)
    <3>1. mem'[c] = mem[c] /\ c \notin misread
      BY <2>2, <1>0, <1>1, RestoringIsSafe
    <3>2. ASSUME NEW l \in DOMAIN hooks, c \in Under(hooks[l].target)
          PROVE  \E j \in DOMAIN hooks' : c \in Under(hooks'[j].target)
      BY <2>2, <3>2, <1>3, <1>4
    <3> QED BY <3>1, <3>2 DEF HookInv, ChangesAreRecorded
  <2> QED BY <2>1, <2>2
<1>10. PassedAreRestored'
  BY <1>1 DEF PassedAreRestored
<1> QED BY <1>6, <1>7, <1>8, <1>9, <1>10 DEF HookInv

\* A restore that ends half way, alone or in the course of remove_all_hooks.
LEMMA HalfRestoreInv ==
  ASSUME HookInv, NEW i \in DOMAIN hooks, NEW n,
         mem' = Written(hooks[i].target, hooks[i].original, n, {}),
         hooks' = hooks, mishaps' = mishaps, misread' = misread, restoring' = 0
  PROVE  HookInv'
PROOF
<1>1. TypeOK'
  <2>1. mem' \in [Cells -> Contents]
    BY RestoreType
  <2>2. 0 \in 0 .. Len(hooks) + 1
    BY DEF HookInv, TypeOK
  <2> QED BY <2>1, <2>2 DEF HookInv, TypeOK
<1>2. HooksApart' /\ OriginalsArePristine'
  BY DEF HookInv, HooksApart, OriginalsArePristine
<1>3. ChangesAreRecorded'
  BY RestoringIsSafe DEF HookInv, ChangesAreRecorded
<1>4. PassedAreRestored'
  BY DEF PassedAreRestored
<1> QED BY <1>1, <1>2, <1>3, <1>4 DEF HookInv

LEMMA RestoreInv ==
  ASSUME HookInv, Restore
  PROVE  HookInv'
PROOF
<1>0. PICK lost \in SUBSET Behind(hooks[restoring].target) :
        /\ Write(hooks[restoring].target, hooks[restoring].original, lost)
        /\ misread' = misread \cup lost
  BY DEF Restore, Rewrite
<1>1. /\ restoring \in DOMAIN hooks
      /\ mem' = Written(hooks[restoring].target, hooks[restoring].original, Words, lost)
      /\ restoring' = restoring + 1 /\ hooks' = hooks /\ mishaps' = mishaps
  BY <1>0 DEF Restore, Write
<1>2. /\ DOMAIN hooks = 1 .. Len(hooks) /\ Len(hooks) \in Nat
  BY DEF HookInv, TypeOK
<1>3. TypeOK'
  <2>1. mem' \in [Cells -> Contents]
    BY <1>1, RestoreType
  <2>2. restoring' \in 0 .. Len(hooks) + 1
    BY <1>1, <1>2
  <2>3. misread' \subseteq Cells
    BY <1>0 DEF Behind, HookInv, TypeOK
  <2> QED BY <1>1, <2>1, <2>2, <2>3 DEF HookInv, TypeOK
<1>4. HooksApart' /\ OriginalsArePristine'
  BY <1>0, <1>1 DEF HookInv, HooksApart, OriginalsArePristine
<1>5. ChangesAreRecorded'
  BY <1>0, <1>1, RestoringIsSafe DEF HookInv, ChangesAreRecorded
<1>6. PassedAreRestored'
  <2> SUFFICES ASSUME mishaps = {}, NEW i \in 1 .. restoring,
                      NEW c \in Under(hooks[i].target) \ misread'
               PROVE  mem'[c] = Pristine[c]
    BY <1>1, <1>2 DEF PassedAreRestored
  <2>1. CASE i = restoring
    BY <2>1, <1>0, <1>1, FullRestore
  <2>2. CASE i # restoring
    <3>1. i \in DOMAIN hooks /\ i \in 1 .. restoring - 1
      BY <2>2, <1>1, <1>2
    <3>2. c \in Cells
      BY <3>1, HookType, CodeAssumption DEF Under, Cells
    <3>3. mem[c] = Pristine[c]
      BY <3>1, <1>0 DEF HookInv, PassedAreRestored
    <3> QED BY <3>2, <3>3, <1>0, <1>1, RestoringIsSafe
  <2> QED BY <2>1, <2>2
<1> QED BY <1>3, <1>4, <1>5, <1>6 DEF HookInv

LEMMA RemovedAllInv ==
  ASSUME HookInv, RemovedAll
  PROVE  HookInv'
PROOF
<1>1. /\ restoring = Len(hooks) + 1 /\ restoring' = 0 /\ hooks' = <<>>
      /\ mem' = mem /\ mishaps' = mishaps /\ misread' = misread
  BY DEF RemovedAll
<1>2. DOMAIN hooks = 1 .. Len(hooks) /\ Len(hooks) \in Nat
  BY DEF HookInv, TypeOK
<1>3. ASSUME mishaps = {}, NEW c \in Cells \ misread PROVE mem[c] = Pristine[c]
  <2>1. \A i \in DOMAIN hooks : c \in Under(hooks[i].target) => mem[c] = Pristine[c]
    BY <1>1, <1>2, <1>3 DEF HookInv, PassedAreRestored
  <2> QED BY <1>3, <2>1 DEF HookInv, ChangesAreRecorded
<1> QED
  BY <1>1, <1>3
  DEF HookInv, TypeOK, HooksApart, OriginalsArePristine, ChangesAreRecorded, PassedAreRestored

LEMMA NextHookInv == HookInv /\ [Next]_vars => HookInv'
PROOF
<1> SUFFICES ASSUME HookInv, [Next]_vars PROVE HookInv'
  OBVIOUS
<1>1. ASSUME NEW target \in Cells, NEW h \in Handler,
             Install(target, h) \/ InstallFailed(target, h)
      PROVE  HookInv'
  BY <1>1, InstallInv, InstallFailedInv
<1>2. ASSUME NEW i \in DOMAIN hooks, Remove(i) PROVE HookInv'
  BY <1>2, RemoveInv
<1>3. ASSUME NEW i \in DOMAIN hooks, RemoveFailed(i) PROVE HookInv'
  BY <1>3, HalfRestoreInv DEF RemoveFailed
<1>4. CASE RemoveAll
  <2>1. TypeOK'
    BY <1>4 DEF RemoveAll, HookInv, TypeOK
  <2>2. HooksApart' /\ OriginalsArePristine' /\ ChangesAreRecorded'
    BY <1>4 DEF RemoveAll, HookInv, HooksApart, OriginalsArePristine, ChangesAreRecorded
  <2>3. PassedAreRestored'
    BY <1>4 DEF RemoveAll, PassedAreRestored
  <2> QED BY <2>1, <2>2, <2>3 DEF HookInv
<1>5. CASE Restore
  BY <1>5, RestoreInv
<1>6. CASE RestoreFailed
  BY <1>6, HalfRestoreInv DEF RestoreFailed
<1>7. CASE RemovedAll
  BY <1>7, RemovedAllInv
<1>8. CASE UNCHANGED vars
  <2>1. TypeOK'
    BY <1>8 DEF vars, HookInv, TypeOK
  <2>2. HooksApart' /\ OriginalsArePristine' /\ ChangesAreRecorded'
    BY <1>8 DEF vars, HookInv, HooksApart, OriginalsArePristine, ChangesAreRecorded
  <2>3. PassedAreRestored'
    BY <1>8 DEF vars, HookInv, PassedAreRestored
  <2> QED BY <2>1, <2>2, <2>3 DEF HookInv
<1> QED BY <1>1, <1>2, <1>3, <1>4, <1>5, <1>6, <1>7, <1>8 DEF Next

\* As long as hooks are kept apart and none is installed half way, every hook holds the
\* program's own bytes and every changed cell is under a recorded hook, whatever
\* removals fail; cells that could not be read excepted.
THEOREM HooksCorrect == Spec => []HookInv
PROOF
<1>1. Init => HookInv
  BY InitHookInv
<1>2. HookInv /\ [Next]_vars => HookInv'
  BY NextHookInv
<1> QED BY <1>1, <1>2, PTL DEF Spec

\* Then, once no hook is left, the code is what it was, but for the words that a failed
\* read was taken for.
THEOREM UnhookedIsPristineHolds == Spec => []UnhookedIsPristine
PROOF
<1>1. HookInv => UnhookedIsPristine
  BY DEF HookInv, ChangesAreRecorded, UnhookedIsPristine
<1> QED BY <1>1, HooksCorrect, PTL
=============================================================================
