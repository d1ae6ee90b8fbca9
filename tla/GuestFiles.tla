----------------------------- MODULE GuestFiles ------------------------------
(***************************************************************************)
(* The files a guest gets when it opens a name. SyscallTracer reads the     *)
(* name from the guest's memory, PathRedirector moves it, and the new path  *)
(* is written over the name, where it stays. A guest keeps two names in     *)
(* its memory, one behind the other, and opens them as often as it likes;   *)
(* a guest ends, and others begin, each with a PathRedirector of its own.   *)
(***************************************************************************)
EXTENDS PathRules

CONSTANTS Package,       \* the packages that run
          Order,         \* the orders a HashMap gives the six rules in
          Names(_),      \* the names a package may open
          MaxOpened      \* bound: the files that are remembered

\* A guest's name does not begin the host's, or what was rewritten would be rewritten
\* again; nor the host's a guest's, or the overlay would block all of the guest's files.
ASSUME PackageAssumption ==
  Package \subseteq PackageName /\ \A p \in Package : ~ IsPrefix(p, Host) /\ ~ IsPrefix(Host, p)
ASSUME NamesAssumption == \A p \in Package : Names(p) \subseteq Path \ {<<>>}
ASSUME OrderAssumption == \A o \in Order : o \in [1 .. 6 -> 1 .. 6] /\ {o[k] : k \in 1 .. 6} = 1 .. 6

\* The most that a rewritten name, with what pads it, is longer than the name: a name in
\* AppData loses that and its package, and gains the directory for data.
Room(p) == Max({1, Word + Len(Root \o Sub("data")) - Len(AppData \o p)})

VARIABLES
  pkg, order,   \* the guest that runs, and its redirector
  names,        \* what it put into the two buffers
  addr, mem,    \* where they lie, and its memory
  mangled,      \* the buffers that hold what was written for the other one
  opened        \* all guests': which name of which package reached which file

vars == <<pkg, order, names, addr, mem, mangled, opened>>

Buffer == {1, 2}

Init ==
  /\ pkg \in Package /\ order \in Order
  /\ names = [b \in Buffer |-> <<>>] /\ addr = [b \in Buffer |-> b]
  /\ mem = [i \in 1 .. 3 |-> "nul"]
  /\ mangled = {} /\ opened = {}

\* A guest starts, and puts two names into its memory: back to back, or with Room between.
Start(p, o, n1, n2, gap) ==
  /\ names[1] = <<>> /\ n1 # n2
  /\ pkg' = p /\ order' = o /\ names' = <<n1, n2>>
  /\ addr' = <<1, Len(n1) + gap + 1>>
  /\ mem' = Filled(Filled([i \in 1 .. Len(n1) + gap + Len(n2) + Room(p) |-> "nul"], 1, n1, 0),
                   Len(n1) + gap + 1, n2, 0)
  /\ mangled' = {}
  /\ UNCHANGED opened

\* It ends, while there is room to remember a file of the next one.
End ==
  /\ names[1] # <<>> /\ Cardinality(opened) < MaxOpened
  /\ names' = [b \in Buffer |-> <<>>] /\ addr' = [b \in Buffer |-> b]
  /\ mem' = [i \in 1 .. 3 |-> "nul"] /\ mangled' = {}
  /\ UNCHANGED <<pkg, order, opened>>

\* openat or readlinkat of the name in a buffer: SyscallTracer!Intercept, once per call.
Open(b) ==
  LET path == ReadString(mem, addr[b])
      real == Redirect(pkg, order, path)
      got  == [pkg |-> pkg, name |-> names[b], real |-> real]
  IN  /\ names[b] # <<>>
      /\ mem' = IF real = path THEN mem ELSE WriteString(mem, addr[b], real)
      /\ mangled' = mangled \cup
           {c \in Buffer \ {b} : ReadString(mem', addr[c]) # ReadString(mem, addr[c])}
      /\ opened' = IF b \in mangled THEN opened ELSE opened \cup {got}
      /\ Cardinality(opened') <= MaxOpened
      /\ UNCHANGED <<pkg, order, names, addr>>

Next ==
  \/ \E p \in Package, o \in Order : \E n1, n2 \in Names(p) : \E gap \in {1, Room(p)} :
       Start(p, o, n1, n2, gap)
  \/ End
  \/ \E b \in Buffer : Open(b)

Spec == Init /\ [][Next]_vars
-----------------------------------------------------------------------------
(* Properties                                                              *)

\* Android has two names for an app's data directory.
Meaning(name) ==
  IF IsPrefix(UserData, name) THEN AppData \o SubSeq(name, Len(UserData) + 1, Len(name))
                              ELSE name
Cached(p, name) == IsPrefix(AppData \o p \o Sub("cache"), Meaning(name))
\* A guest may find out where its files are, and name them so.
Outside(name) == ~ IsPrefix(Meaning(Root), Meaning(name))

\* Opened under either name, again from the buffer the first open rewrote, or by a later
\* run of the app whose hash map has another order, a name is the same file; except in the
\* cache, for which two rules match (redirect.rs:45-50, 107-136, tracer.rs:250-262).
OneFilePerName ==
  \A r, s \in opened :
    r.pkg = s.pkg /\ Meaning(r.name) = Meaning(s.name) /\ ~ Cached(r.pkg, r.name) =>
      Meaning(r.real) = Meaning(s.real)

\* Two different names of an app, its own or another's, are two files (redirect.rs:102-136).
NamesApart ==
  \A r, s \in opened :
    r.pkg = s.pkg /\ Outside(r.name) /\ Outside(s.name) /\ Meaning(r.real) = Meaning(s.real) =>
      Meaning(r.name) = Meaning(s.name)

\* A rewritten name is longer than the name, and is written in whole words: a guest that
\* leaves Room behind its names loses none of them (tracer.rs:388-425).
RoomLeft == addr[2] - addr[1] - Len(names[1]) >= Room(pkg)
NamesSurvive == RoomLeft => mangled = {}

\* The overlay resolves the own files of two packages apart, those of other users among
\* them, and a file the same by either name and in every order of its rules
\* (overlay.rs:65-89, 125-144).
Own(p, name) ==
  \E dir \in {AppData, UserData, UserData10, Storage("data")} :
    IsPrefix(dir \o p \o <<"/">>, name)
OverlayIsPrivate ==
  \A r, s \in opened : Own(r.pkg, r.name) /\ Own(s.pkg, s.name) =>
    \A o, q \in Order :
      LET a == ResolvePath(r.pkg, o, r.name)
          b == ResolvePath(s.pkg, q, s.name)
      IN  /\ a.how = "redirected"
          /\ r.pkg # s.pkg => a # b
          /\ r.pkg = s.pkg /\ Meaning(r.name) = Meaning(s.name) => a = b

TypeOK ==
  /\ pkg \in Package /\ order \in Order
  /\ names \in {[b \in Buffer |-> <<>>]} \cup [Buffer -> Names(pkg)]
  /\ addr \in [Buffer -> Nat] /\ addr[1] = 1 /\ addr[2] >= Len(names[1]) + 2
  /\ DOMAIN mem \subseteq Nat
  /\ names[1] # <<>> => 1 .. addr[2] + Len(names[2]) + Room(pkg) - 1 \subseteq DOMAIN mem
  /\ mangled \subseteq Buffer
  /\ opened \subseteq [pkg : Package, name : Path, real : Path]
  /\ \A r \in opened : r.name \in Names(r.pkg)

\* A buffer holds its name, or what its name is rewritten to, unless it was mangled.
Contents(b) == {names[b], Redirect(pkg, order, names[b])}
BuffersHold ==
  names[1] # <<>> => \A b \in Buffer \ mangled : ReadString(mem, addr[b]) \in Contents(b)

\* With room between them, each has its own cells, and the zero that ends it.
Holds(a, s) == (\A i \in 1 .. Len(s) : mem[a + i - 1] = s[i]) /\ mem[a + Len(s)] = "nul"
BuffersApart ==
  names[1] # <<>> /\ RoomLeft => \A b \in Buffer : \E s \in Contents(b) : Holds(addr[b], s)

OpensAreRedirects ==
  \A r \in opened : \E o \in Order : r.real = Redirect(r.pkg, o, r.name)

\* A name that was not overwritten is redirected once and for all: what is opened is what
\* the rules make of the name itself, however often and through whichever buffer
\* (redirect.rs:38-53, tracer.rs:248-271, 388-425).
FilesInv == TypeOK /\ BuffersHold /\ BuffersApart /\ NamesSurvive /\ OpensAreRedirects

\* neutron-vfs/src/lib.rs:5, "Writes are redirected to app-private virtual storage": a
\* file that an open was redirected to belongs to one package.
StorageIsPrivate ==
  \A r, s \in opened : r.real = s.real /\ r.real # r.name => r.pkg = s.pkg
=============================================================================
