--------------------------- MODULE MCGuestProcess ----------------------------
(* A small instance of GuestProcess: a game and its guardian, on pids that   *)
(* are reused. Retained is compared with the standard library's SelectSeq.   *)
EXTENDS GuestProcess, TLC

CONSTANTS game, guardian, pid1, pid2

MCVP  == {game, guardian}
MCPid == {pid1, pid2}
Symmetry == Permutations(MCVP) \cup Permutations(MCPid)

ShortSeqs == UNION {[1 .. n -> {"x", "y", "z"}] : n \in 0 .. 3}
ASSUME RetainedIsSelectSeq ==
  \A s \in ShortSeqs : \A keep \in SUBSET {"x", "y", "z"} :
    Retained(s, {i \in DOMAIN s : s[i] \in keep}) = {SelectSeq(s, LAMBDA e : e \in keep)}
=============================================================================
