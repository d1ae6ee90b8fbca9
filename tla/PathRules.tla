------------------------------ MODULE PathRules ------------------------------
(***************************************************************************)
(* neutron-vfs: where PathRedirector (redirect.rs) sends a path and where   *)
(* VfsOverlay (overlay.rs) resolves it, and how tracer.rs reads a path from *)
(* the memory of a guest and writes another over it.                        *)
(*                                                                         *)
(* A path is a sequence of pieces that are never split: names, and every    *)
(* "/" by itself. A prefix of the string is then a prefix of the sequence,  *)
(* at a component's end or not: <<"com.game">> is one of <<"com.game",      *)
(* ".plus">>. In memory a piece is one cell.                                *)
(***************************************************************************)
EXTENDS Integers, SequencesExt

CONSTANTS Piece,  \* what paths consist of
          Root,   \* the directory of all virtual file systems
          Host,   \* the package name of Neutron Space
          Word    \* the cells PTRACE_PEEKDATA and POKEDATA transfer

\* The pieces of the paths that the code names; "nul" is the cell that ends a string.
ASSUME PieceAssumption ==
  /\ {"/", "data", "user", "0", "10", "storage", "emulated", "Android", "obb", "app", "~~nonce~~",
      "-nonce", "lib", "cache", "external", "external_data", "proc", "self", "maps", "sbin",
      "su"} \subseteq Piece
  /\ "nul" \notin Piece

Path        == Seq(Piece)
PackageName == Seq(Piece \ {"/"})

Sub(name) == <<"/", name>>
AppData   == <<"/", "data", "/", "data", "/">>
Users     == <<"/", "data", "/", "user", "/">>
UserData  == <<"/", "data", "/", "user", "/", "0", "/">>
UserData10 == <<"/", "data", "/", "user", "/", "10", "/">>
Storage(kind) == <<"/", "storage", "/", "emulated", "/", "0", "/", "Android", "/", kind, "/">>
AppLibs   == <<"/", "data", "/", "app", "/", "~~nonce~~", "/">>
NativeLibs(pkg) == AppLibs \o pkg \o <<"-nonce", "/", "lib", "/">>

\* The root lies in the host's own directory, by either of its names (config.rs:36, 58).
ASSUME RootAssumption ==
  /\ Word \in Nat \ {0} /\ Root \in Path /\ Host \in PackageName
  /\ \E dir \in {AppData, UserData} : IsPrefix(dir \o Host \o <<"/">>, Root)

Rule(from, to) == [from |-> from, to |-> to]

\* The rules, by number, in the order a HashMap happens to give them: the first that
\* matches counts.
FirstRule(rules, order, path) ==
  LET hit(k) == order[k] \in DOMAIN rules /\ IsPrefix(rules[order[k]].from, path)
  IN  {rules[order[k]] : k \in {k \in DOMAIN order : hit(k) /\ \A j \in 1 .. k - 1 : ~ hit(j)}}
Moved(rule, path) == rule.to \o SubSeq(path, Len(rule.from) + 1, Len(path))

-----------------------------------------------------------------------------
(* PathRedirector                                                          *)

RedirectsWith(pkg, obb) ==
  << Rule(AppData \o pkg, Root \o Sub("data")),
     Rule(UserData \o pkg, Root \o Sub("data")),
     Rule(Storage("data") \o pkg, Root \o Sub("external_data")),
     Rule(Storage("obb") \o pkg, Root \o Sub(obb)),
     Rule(NativeLibs(pkg), Root \o Sub("lib") \o <<"/">>),
     Rule(AppData \o pkg \o Sub("cache"), Root \o Sub("cache")) >>

\* Mutants of DefaultRedirects: game data and external data in one directory; data in a
\* directory that the rule moves again.
ObbAmongExternal(pkg) == RedirectsWith(pkg, "external_data")
WithinAppData(pkg) == [RedirectsWith(pkg, "obb") EXCEPT ![1].to = AppData \o pkg \o Sub("cache")]

DefaultRedirects(pkg) == RedirectsWith(pkg, "obb")

\* Nobody adds rules, exact ones or others. A path no rule matches is left as it is.
Redirect(pkg, order, path) ==
  LET rule == FirstRule(DefaultRedirects(pkg), order, path)
  IN  IF rule = {} THEN path ELSE Moved(CHOOSE r \in rule : TRUE, path)

-----------------------------------------------------------------------------
(* VfsOverlay                                                              *)

\* Mutant of Base: as the redirector has it.
SharedBase(pkg) == Root
Base(pkg) == Root \o <<"/">> \o pkg

OverlayRules(pkg) ==
  << Rule(AppData \o pkg, Base(pkg) \o Sub("data")),
     Rule(UserData \o pkg, Base(pkg) \o Sub("data")),
     Rule(Storage("data") \o pkg, Base(pkg) \o Sub("external")) >>

\* The five paths of su stand for one.
BlockedPaths ==
  {AppData \o Host, <<"/", "proc", "/", "self", "/", "maps">>, <<"/", "sbin", "/", "su">>}

\* redirect_data_path: what stands between the first and the second occurrence of the
\* package's name, or else the last component alone.
RedirectDataPath(pkg, path) ==
  LET found == {i \in DOMAIN path : IsPrefix(pkg, SubSeq(path, i, Len(path)))}
      after == Min(found) + Len(pkg)
      upto  == Min({i \in found : i >= after} \cup {Len(path) + 1})
      slash == Max({i \in DOMAIN path : path[i] = "/"})
  IN  IF found # {} THEN Base(pkg) \o Sub("data") \o SubSeq(path, after, upto - 1)
                    ELSE Base(pkg) \o Sub("data") \o SubSeq(path, slash, Len(path))

ResolvePath(pkg, order, path) ==
  LET rule == FirstRule(OverlayRules(pkg), order, path)
      Under(dir) == IsPrefix(dir, path)
      As(how, to) == [how |-> how, path |-> to]
  IN  IF \E b \in BlockedPaths : Under(b) THEN As("blocked", <<>>)
      ELSE IF rule # {} THEN As("redirected", Moved(CHOOSE r \in rule : TRUE, path))
      ELSE IF Under(AppData) \/ Under(Users) THEN As("redirected", RedirectDataPath(pkg, path))
      ELSE As(IF Under(Sub("proc") \o <<"/">>) THEN "spoofed" ELSE "passed", path)

-----------------------------------------------------------------------------
(* SyscallTracer's strings, in a memory of cells                           *)

\* The read stops at the first zero byte.
ReadString(mem, addr) ==
  LET end == Min({i \in DOMAIN mem : i >= addr /\ mem[i] = "nul"})
  IN  [k \in 1 .. end - addr |-> mem[addr + k - 1]]

Filled(mem, addr, s, words) ==
  [i \in DOMAIN mem |->
     IF i \in addr .. addr + Len(s) - 1 THEN s[i - addr + 1]
     ELSE IF i \in addr + Len(s) .. addr + words * Word - 1 THEN "nul" ELSE mem[i]]

\* Mutants of WriteString: no word for the terminator of a string that fills its last
\* word; such a word whatever the length.
TerminatorForgotten(mem, addr, s) == Filled(mem, addr, s, (Len(s) + Word - 1) \div Word)
TerminatorAlways(mem, addr, s) == Filled(mem, addr, s, (Len(s) + Word - 1) \div Word + 1)

\* Whole words: the last one is padded with zeros, or a word of zeros follows it.
WriteString(mem, addr, s) == Filled(mem, addr, s, Len(s) \div Word + 1)
=============================================================================
