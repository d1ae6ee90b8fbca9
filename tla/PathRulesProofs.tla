--------------------------- MODULE PathRulesProofs ---------------------------
(* Lemmas about PathRules: prefixes of paths, which rule a path is moved by, *)
(* and what a string that was written is read as.                            *)
EXTENDS PathRules, SequenceTheorems, WellFoundedInduction, TLAPS

-----------------------------------------------------------------------------
(* Prefixes                                                                *)

\* A path is its pieces.
LEMMA PathIs == \A s \in Path : /\ Len(s) \in Nat /\ DOMAIN s = 1 .. Len(s)
                                /\ \A i \in 1 .. Len(s) : s[i] \in Piece /\ s[i] # "nul"
  BY PieceAssumption DEF Path

LEMMA PrefixIs ==
  ASSUME NEW s \in Path, NEW t \in Path
  PROVE  IsPrefix(s, t) <=> Len(s) <= Len(t) /\ \A i \in 1 .. Len(s) : s[i] = t[i]
  BY DEF IsPrefix, Path

LEMMA ConcatIs ==
  ASSUME NEW s \in Path, NEW t \in Path
  PROVE  /\ s \o t \in Path /\ Len(s \o t) = Len(s) + Len(t)
         /\ \A i \in 1 .. Len(s) : (s \o t)[i] = s[i]
         /\ \A i \in 1 .. Len(t) : (s \o t)[Len(s) + i] = t[i]
  BY ConcatProperties DEF Path

LEMMA RestIs ==
  ASSUME NEW s \in Path, NEW n \in Nat
  PROVE  /\ SubSeq(s, n + 1, Len(s)) \in Path
         /\ Len(SubSeq(s, n + 1, Len(s))) = IF n <= Len(s) THEN Len(s) - n ELSE 0
         /\ \A i \in 1 .. Len(s) - n : SubSeq(s, n + 1, Len(s))[i] = s[n + i]
  BY SubSeqProperties DEF Path

LEMMA PathsEqual ==
  ASSUME NEW s \in Path, NEW t \in Path, Len(s) = Len(t), \A i \in 1 .. Len(s) : s[i] = t[i]
  PROVE  s = t
  BY SeqEqual DEF Path

\* What begins with s is s and the rest.
LEMMA PrefixAndRest ==
  ASSUME NEW s \in Path, NEW t \in Path, IsPrefix(s, t)
  PROVE  t = s \o SubSeq(t, Len(s) + 1, Len(t))
PROOF
<1> DEFINE r == SubSeq(t, Len(s) + 1, Len(t))
<1>1. Len(s) \in Nat /\ Len(t) \in Nat /\ Len(s) <= Len(t) /\ \A i \in 1 .. Len(s) : s[i] = t[i]
  BY PrefixIs, PathIs
<1>2. r \in Path /\ Len(r) = Len(t) - Len(s) /\ \A i \in 1 .. Len(t) - Len(s) : r[i] = t[Len(s) + i]
  BY <1>1, RestIs
<1>3. s \o r \in Path /\ Len(s \o r) = Len(t)
      /\ (\A i \in 1 .. Len(s) : (s \o r)[i] = s[i]) /\ \A i \in 1 .. Len(r) : (s \o r)[Len(s) + i] = r[i]
  BY <1>1, <1>2, ConcatIs
<1>4. ASSUME NEW i \in 1 .. Len(t) PROVE (s \o r)[i] = t[i]
  <2>1. CASE i <= Len(s) BY <2>1, <1>1, <1>3
  <2>2. CASE i > Len(s)
    <3>1. i - Len(s) \in 1 .. Len(r) /\ i = Len(s) + (i - Len(s))
      BY <2>2, <1>1, <1>2
    <3> QED BY <3>1, <1>2, <1>3
  <2> QED BY <2>1, <2>2, <1>1
<1> HIDE DEF r
<1> QED BY <1>3, <1>4, PathsEqual DEF r

LEMMA PrefixOfConcat ==
  ASSUME NEW s \in Path, NEW t \in Path
  PROVE  IsPrefix(s, s \o t)
PROOF
<1>1. Len(s) \in Nat /\ Len(t) \in Nat BY PathIs
<1>2. s \o t \in Path /\ Len(s) <= Len(s \o t) /\ \A i \in 1 .. Len(s) : s[i] = (s \o t)[i]
  BY <1>1, ConcatIs
<1> QED BY <1>2, PrefixIs

LEMMA PrefixAlike ==
  ASSUME NEW s \in Path, NEW t \in Path, NEW u \in Path
  PROVE  IsPrefix(s \o t, s \o u) <=> IsPrefix(t, u)
PROOF
<1> DEFINE x == s \o t  y == s \o u
<1>1. Len(s) \in Nat /\ Len(t) \in Nat /\ Len(u) \in Nat BY PathIs
<1>2. /\ x \in Path /\ Len(x) = Len(s) + Len(t)
      /\ \A i \in 1 .. Len(s) : x[i] = s[i]
      /\ \A i \in 1 .. Len(t) : x[Len(s) + i] = t[i]
  BY ConcatIs
<1>3. /\ y \in Path /\ Len(y) = Len(s) + Len(u)
      /\ \A i \in 1 .. Len(s) : y[i] = s[i]
      /\ \A i \in 1 .. Len(u) : y[Len(s) + i] = u[i]
  BY ConcatIs
<1> HIDE DEF x, y
<1>4. ASSUME IsPrefix(t, u) PROVE IsPrefix(x, y)
  <2>1. Len(t) <= Len(u) /\ \A i \in 1 .. Len(t) : t[i] = u[i]
    BY <1>4, PrefixIs
  <2>2. ASSUME NEW i \in 1 .. Len(s) + Len(t) PROVE x[i] = y[i]
    <3>1. CASE i <= Len(s) BY <3>1, <1>1, <1>2, <1>3
    <3>2. CASE i > Len(s)
      <4>1. i - Len(s) \in 1 .. Len(t) /\ i - Len(s) \in 1 .. Len(u) /\ i = Len(s) + (i - Len(s))
        BY <3>2, <1>1, <2>1
      <4> QED BY <4>1, <1>2, <1>3, <2>1
    <3> QED BY <3>1, <3>2, <1>1
  <2>3. Len(x) <= Len(y) /\ \A i \in 1 .. Len(x) : x[i] = y[i]
    BY <2>1, <2>2, <1>1, <1>2, <1>3
  <2> QED BY <2>3, <1>2, <1>3, PrefixIs
<1>5. ASSUME IsPrefix(x, y) PROVE IsPrefix(t, u)
  <2>1. Len(x) <= Len(y) /\ \A i \in 1 .. Len(x) : x[i] = y[i]
    BY <1>2, <1>3, <1>5, PrefixIs
  <2>2. ASSUME NEW i \in 1 .. Len(t) PROVE t[i] = u[i]
    <3>1. Len(s) + i \in 1 .. Len(x) /\ i \in 1 .. Len(u)
      BY <1>1, <1>2, <1>3, <2>1
    <3> QED BY <3>1, <2>1, <1>2, <1>3
  <2> QED BY <2>1, <2>2, <1>1, <1>2, <1>3, PrefixIs
<1> QED BY <1>4, <1>5 DEF x, y

\* And nothing else begins with s.
LEMMA ConcatCancels ==
  ASSUME NEW s \in Path, NEW t \in Path, NEW u \in Path, s \o t = s \o u
  PROVE  t = u
  BY ConcatSimplifications DEF Path

LEMMA Associative ==
  ASSUME NEW s \in Path, NEW t \in Path, NEW u \in Path
  PROVE  (s \o t) \o u = s \o (t \o u)
  BY ConcatAssociative DEF Path

\* Prefixes of one path agree where both have a piece.
LEMMA PrefixesAgree ==
  ASSUME NEW s \in Path, NEW t \in Path, NEW n \in Path, IsPrefix(s, n), IsPrefix(t, n),
         NEW i \in 1 .. Len(s), i <= Len(t)
  PROVE  s[i] = t[i]
PROOF
<1>1. Len(s) \in Nat /\ Len(t) \in Nat BY PathIs
<1> QED BY <1>1, PrefixIs

-----------------------------------------------------------------------------
(* The directories, and the rules                                          *)

LEMMA Directories ==
  /\ AppData \in Path /\ Len(AppData) = 5 /\ AppData[2] = "data" /\ AppData[4] = "data"
  /\ Users \in Path /\ Len(Users) = 5 /\ Users[2] = "data" /\ Users[4] = "user"
  /\ UserData \in Path /\ Len(UserData) = 7 /\ UserData[2] = "data" /\ UserData[4] = "user"
  /\ AppLibs \in Path /\ Len(AppLibs) = 7 /\ AppLibs[2] = "data" /\ AppLibs[4] = "app"
  BY PieceAssumption DEF AppData, Users, UserData, AppLibs, Path

LEMMA Storages ==
  \A kind \in Piece :
    /\ Storage(kind) \in Path /\ Len(Storage(kind)) = 11
    /\ Storage(kind)[2] = "storage" /\ Storage(kind)[10] = kind
  BY PieceAssumption DEF Storage, Path

LEMMA Subs ==
  \A name \in Piece :
    Sub(name) \in Path /\ Len(Sub(name)) = 2 /\ Sub(name)[1] = "/" /\ Sub(name)[2] = name
  BY PieceAssumption DEF Sub, Path

LEMMA Slash == <<"/">> \in Path /\ Len(<<"/">>) = 1 /\ <<"/">>[1] = "/"
  BY PieceAssumption DEF Path

LEMMA PackageNameIsPath ==
  \A p \in PackageName : p \in Path /\ \A i \in 1 .. Len(p) : p[i] # "/"
  BY DEF PackageName, Path

\* The directory a rule's package is looked for in, and where it sends what it finds.
Dir == <<AppData, UserData, Storage("data"), Storage("obb"), AppLibs, AppData>>
Behind == <<<<>>, <<>>, <<>>, <<>>, <<"-nonce", "/", "lib", "/">>, Sub("cache")>>
Target == <<Sub("data"), Sub("data"), Sub("external_data"), Sub("obb"), Sub("lib") \o <<"/">>, Sub("cache")>>

\* What the k-th rule looks for, and what it puts there.
From(p, k) == Dir[k] \o p \o Behind[k]
To(k) == Root \o Target[k]

LEMMA RulesAre ==
  ASSUME NEW p \in Path, NEW k \in 1 .. 6
  PROVE  /\ DOMAIN DefaultRedirects(p) = 1 .. 6
         /\ Dir[k] \in Path /\ Behind[k] \in Path /\ Target[k] \in Path
         /\ DefaultRedirects(p)[k].from = From(p, k) /\ DefaultRedirects(p)[k].to = To(k)
PROOF
<1>1. Dir[k] \in Path
  BY Directories, Storages, PieceAssumption DEF Dir
<1>2. Behind[k] \in Path
  <2>1. <<>> \in Path /\ <<"-nonce", "/", "lib", "/">> \in Path /\ Sub("cache") \in Path
    BY PieceAssumption, Subs DEF Path
  <2> QED BY <2>1 DEF Behind
<1>3. Target[k] \in Path
  <2> DEFINE lib == Sub("lib") \o <<"/">>
  <2>1. Sub("lib") \in Path /\ <<"/">> \in Path
    BY PieceAssumption, Subs, Slash
  <2>2. lib \in Path
    BY <2>1, ConcatIs
  <2>3. /\ Sub("data") \in Path /\ Sub("external_data") \in Path /\ Sub("obb") \in Path
        /\ Sub("cache") \in Path
    BY PieceAssumption, Subs
  <2>4. Target = <<Sub("data"), Sub("data"), Sub("external_data"), Sub("obb"), lib, Sub("cache")>>
    BY DEF Target
  <2> HIDE DEF lib
  <2> QED BY <2>2, <2>3, <2>4
<1>4. DOMAIN DefaultRedirects(p) = 1 .. 6
  BY DEF DefaultRedirects, RedirectsWith
<1>5. \A d \in Path : d \o p \o <<>> = d \o p
  BY ConcatIs, ConcatEmptySeq DEF Path
<1>6. DefaultRedirects(p)[k] = Rule(Dir[k] \o p \o Behind[k], Root \o Target[k])
  <2> DEFINE R == DefaultRedirects(p)
  <2>1. CASE k = 1
    <3>1. R[1] = Rule(AppData \o p, Root \o Sub("data")) BY DEF DefaultRedirects, RedirectsWith
    <3>2. Dir[1] = AppData /\ Behind[1] = <<>> /\ Target[1] = Sub("data") BY DEF Dir, Behind, Target
    <3> QED BY <2>1, <3>1, <3>2, <1>5, Directories
  <2>2. CASE k = 2
    <3>1. R[2] = Rule(UserData \o p, Root \o Sub("data")) BY DEF DefaultRedirects, RedirectsWith
    <3>2. Dir[2] = UserData /\ Behind[2] = <<>> /\ Target[2] = Sub("data") BY DEF Dir, Behind, Target
    <3> QED BY <2>2, <3>1, <3>2, <1>5, Directories
  <2>3. CASE k = 3
    <3>1. R[3] = Rule(Storage("data") \o p, Root \o Sub("external_data")) BY DEF DefaultRedirects, RedirectsWith
    <3>2. Dir[3] = Storage("data") /\ Behind[3] = <<>> /\ Target[3] = Sub("external_data")
      BY DEF Dir, Behind, Target
    <3> QED BY <2>3, <3>1, <3>2, <1>5, Storages, PieceAssumption
  <2>4. CASE k = 4
    <3>1. R[4] = Rule(Storage("obb") \o p, Root \o Sub("obb")) BY DEF DefaultRedirects, RedirectsWith
    <3>2. Dir[4] = Storage("obb") /\ Behind[4] = <<>> /\ Target[4] = Sub("obb") BY DEF Dir, Behind, Target
    <3> QED BY <2>4, <3>1, <3>2, <1>5, Storages, PieceAssumption
  <2>5. CASE k = 5
    <3>1. R[5] = Rule(NativeLibs(p), Root \o Sub("lib") \o <<"/">>) BY DEF DefaultRedirects, RedirectsWith
    <3>2. /\ Dir[5] = AppLibs /\ Behind[5] = <<"-nonce", "/", "lib", "/">>
          /\ Target[5] = Sub("lib") \o <<"/">>
      BY DEF Dir, Behind, Target
    <3>3. Root \o Sub("lib") \o <<"/">> = Root \o (Sub("lib") \o <<"/">>)
      <4>1. Root \in Path /\ Sub("lib") \in Path /\ <<"/">> \in Path
        BY PieceAssumption, Subs, Slash, RootAssumption
      <4>2. \A a, b, c \in Path : (a \o b) \o c = a \o (b \o c)
        BY Associative
      <4> QED BY <4>1, <4>2, Zenon
    <3> QED BY <2>5, <3>1, <3>2, <3>3 DEF NativeLibs
  <2>6. CASE k = 6
    <3>1. R[6] = Rule(AppData \o p \o Sub("cache"), Root \o Sub("cache")) BY DEF DefaultRedirects, RedirectsWith
    <3>2. Dir[6] = AppData /\ Behind[6] = Sub("cache") /\ Target[6] = Sub("cache") BY DEF Dir, Behind, Target
    <3> QED BY <2>6, <3>1, <3>2
  <2> QED BY <2>1, <2>2, <2>3, <2>4, <2>5, <2>6
<1>7. DefaultRedirects(p)[k].from = From(p, k) /\ DefaultRedirects(p)[k].to = To(k)
  <2> DEFINE from == Dir[k] \o p \o Behind[k]
             to == Root \o Target[k]
  <2>1. Rule(from, to).from = from /\ Rule(from, to).to = to
    BY DEF Rule
  <2> QED BY <1>6, <2>1 DEF From, To
<1> QED BY <1>1, <1>2, <1>3, <1>4, <1>7

\* Any order of the rules, and of the overlay's three among six numbers.
AnyOrder == {o \in [1 .. 6 -> 1 .. 6] : {o[k] : k \in 1 .. 6} = 1 .. 6}

LEMMA FirstRuleIs ==
  ASSUME NEW rules, DOMAIN rules \subseteq 1 .. 6, NEW path, NEW order \in AnyOrder
  PROVE  \/ /\ FirstRule(rules, order, path) = {}
            /\ \A k \in DOMAIN rules : ~ IsPrefix(rules[k].from, path)
         \/ \E k \in DOMAIN rules : /\ IsPrefix(rules[k].from, path)
                                    /\ FirstRule(rules, order, path) = {rules[k]}
PROOF
<1> DEFINE hit(k) == order[k] \in DOMAIN rules /\ IsPrefix(rules[order[k]].from, path)
           F == {k \in 1 .. 6 : hit(k) /\ \A j \in 1 .. k - 1 : ~ hit(j)}
<1>0. order \in [1 .. 6 -> 1 .. 6] /\ {order[k] : k \in 1 .. 6} = 1 .. 6
  BY DEF AnyOrder
<1>1. FirstRule(rules, order, path) = {rules[order[k]] : k \in F}
  BY <1>0 DEF FirstRule
<1>2. \A k \in F, l \in F : k = l
  OBVIOUS
<1>3. CASE F = {}
  <2>1. \A k \in 1 .. 6 : ~ hit(k)
    <3> HIDE DEF hit
    <3>1. ~ hit(1) BY <1>3
    <3>2. ~ hit(2) BY <1>3, <3>1
    <3>3. ~ hit(3) BY <1>3, <3>1, <3>2
    <3>4. ~ hit(4) BY <1>3, <3>1, <3>2, <3>3
    <3>5. ~ hit(5) BY <1>3, <3>1, <3>2, <3>3, <3>4
    <3>6. ~ hit(6) BY <1>3, <3>1, <3>2, <3>3, <3>4, <3>5
    <3> QED BY <3>1, <3>2, <3>3, <3>4, <3>5, <3>6
  <2> QED BY <1>0, <1>1, <1>3, <2>1
<1>4. CASE F # {}
  <2> PICK k \in F : TRUE BY <1>4
  <2>1. F = {k} BY <1>2
  <2>2. FirstRule(rules, order, path) = {rules[order[k]]}
    <3> HIDE DEF F
    <3> QED BY <1>1, <2>1
  <2> QED BY <1>0, <2>2
<1> QED BY <1>3, <1>4

LEMMA FromIs ==
  ASSUME NEW p \in Path, NEW k \in 1 .. 6
  PROVE  /\ From(p, k) \in Path /\ Dir[k] \o p \in Path
         /\ Len(From(p, k)) = Len(Dir[k]) + Len(p) + Len(Behind[k])
         /\ From(p, k) = Dir[k] \o (p \o Behind[k])
         /\ IsPrefix(Dir[k] \o p, From(p, k)) /\ IsPrefix(Dir[k], From(p, k))
PROOF
<1>1. Dir[k] \in Path /\ Behind[k] \in Path BY RulesAre
<1> DEFINE d == Dir[k]  b == Behind[k]
<1> HIDE DEF d, b
<1>2. d \in Path /\ b \in Path BY <1>1 DEF d, b
<1>3. /\ d \o p \in Path /\ Len(d \o p) = Len(d) + Len(p)
      /\ (d \o p) \o b \in Path /\ Len((d \o p) \o b) = Len(d) + Len(p) + Len(b)
      /\ p \o b \in Path
  BY <1>2, ConcatIs
<1>4. (d \o p) \o b = d \o (p \o b)
  BY <1>2, Associative
<1>5. IsPrefix(d \o p, (d \o p) \o b) /\ IsPrefix(d, d \o (p \o b))
  BY <1>2, <1>3, PrefixOfConcat
<1> QED BY <1>3, <1>4, <1>5 DEF From, d, b

\* A name is left as it is, or what one rule looks for is replaced in it.
LEMMA RedirectIs ==
  ASSUME NEW p \in Path, NEW o \in AnyOrder, NEW n \in Path
  PROVE  \/ Redirect(p, o, n) = n /\ \A k \in 1 .. 6 : ~ IsPrefix(From(p, k), n)
         \/ \E k \in 1 .. 6, x \in Path :
              n = From(p, k) \o x /\ Redirect(p, o, n) = To(k) \o x
PROOF
<1> DEFINE R == DefaultRedirects(p)
<1>1. /\ DOMAIN R = 1 .. 6
      /\ \A k \in 1 .. 6 : R[k].from = From(p, k) /\ R[k].to = To(k)
  BY RulesAre
<1>2. \/ FirstRule(R, o, n) = {} /\ \A k \in 1 .. 6 : ~ IsPrefix(R[k].from, n)
      \/ \E k \in 1 .. 6 : IsPrefix(R[k].from, n) /\ FirstRule(R, o, n) = {R[k]}
  BY <1>1, FirstRuleIs
<1>3. Redirect(p, o, n) = IF FirstRule(R, o, n) = {} THEN n
                          ELSE Moved(CHOOSE r \in FirstRule(R, o, n) : TRUE, n)
  BY DEF Redirect
<1> HIDE DEF R
<1>4. CASE FirstRule(R, o, n) = {} /\ \A k \in 1 .. 6 : ~ IsPrefix(R[k].from, n)
  BY <1>1, <1>3, <1>4
<1>5. ASSUME NEW k \in 1 .. 6, IsPrefix(R[k].from, n), FirstRule(R, o, n) = {R[k]}
      PROVE  \E x \in Path : n = From(p, k) \o x /\ Redirect(p, o, n) = To(k) \o x
  <2> DEFINE x == SubSeq(n, Len(From(p, k)) + 1, Len(n))
  <2>1. From(p, k) \in Path /\ Len(From(p, k)) \in Nat
    BY FromIs, PathIs
  <2>2. n = From(p, k) \o x
    BY <1>1, <1>5, <2>1, PrefixAndRest
  <2>3. x \in Path
    BY <2>1, RestIs
  <2>4. (CHOOSE r \in {R[k]} : TRUE) = R[k]
    OBVIOUS
  <2>5. Redirect(p, o, n) = Moved(R[k], n)
    BY <1>3, <1>5, <2>4
  <2>6. Moved(R[k], n) = To(k) \o x
    BY <1>1 DEF Moved
  <2> QED BY <2>2, <2>3, <2>5, <2>6
<1> QED BY <1>2, <1>4, <1>5

LEMMA PrefixOfPrefix ==
  ASSUME NEW s \in Path, NEW t \in Path, NEW u \in Path, IsPrefix(s, t), IsPrefix(t, u)
  PROVE  IsPrefix(s, u)
PROOF
<1>1. Len(s) \in Nat /\ Len(t) \in Nat /\ Len(u) \in Nat BY PathIs
<1>2. Len(s) <= Len(t) /\ \A i \in 1 .. Len(s) : s[i] = t[i] BY PrefixIs
<1>3. Len(t) <= Len(u) /\ \A i \in 1 .. Len(t) : t[i] = u[i] BY PrefixIs
<1>4. Len(s) <= Len(u) /\ \A i \in 1 .. Len(s) : s[i] = u[i]
  BY <1>1, <1>2, <1>3
<1> QED BY <1>4, PrefixIs

\* The rules' directories differ in their second, fourth or tenth piece.
LEMMA DirIs ==
  ASSUME NEW k \in 1 .. 6
  PROVE  /\ Dir[k] \in Path /\ Len(Dir[k]) \in Nat /\ Len(Dir[k]) >= 4
         /\ k \in {1, 6} => Dir[k] = AppData /\ Dir[k][2] = "data" /\ Dir[k][4] = "data"
         /\ k = 2 => Dir[k] = UserData /\ Dir[k][2] = "data" /\ Dir[k][4] = "user"
         /\ k = 3 => Len(Dir[k]) = 11 /\ Dir[k][2] = "storage" /\ Dir[k][10] = "data"
         /\ k = 4 => Len(Dir[k]) = 11 /\ Dir[k][2] = "storage" /\ Dir[k][10] = "obb"
         /\ k = 5 => Len(Dir[k]) = 7 /\ Dir[k][2] = "data" /\ Dir[k][4] = "app"
PROOF
<1>1. /\ Dir[1] = AppData /\ Dir[2] = UserData /\ Dir[3] = Storage("data")
      /\ Dir[4] = Storage("obb") /\ Dir[5] = AppLibs /\ Dir[6] = AppData
  BY DEF Dir
<1>2. "data" \in Piece /\ "obb" \in Piece
  BY PieceAssumption
<1>3. CASE k \in {1, 6}
  <2>1. Dir[k] = AppData BY <1>1, <1>3
  <2> QED BY <1>3, <2>1, Directories
<1>4. CASE k = 2 BY <1>1, <1>4, Directories
<1>5. CASE k = 3
  <2>1. /\ Storage("data") \in Path /\ Len(Storage("data")) = 11
        /\ Storage("data")[2] = "storage" /\ Storage("data")[10] = "data"
    BY <1>2, Storages
  <2> QED BY <1>1, <1>5, <2>1
<1>6. CASE k = 4
  <2>1. /\ Storage("obb") \in Path /\ Len(Storage("obb")) = 11
        /\ Storage("obb")[2] = "storage" /\ Storage("obb")[10] = "obb"
    BY <1>2, Storages
  <2> QED BY <1>1, <1>6, <2>1
<1>7. CASE k = 5 BY <1>1, <1>7, Directories
<1> QED BY <1>3, <1>4, <1>5, <1>6, <1>7

LEMMA OneDirectory ==
  ASSUME NEW n \in Path, NEW j \in 1 .. 6, NEW k \in 1 .. 6,
         IsPrefix(Dir[j], n), IsPrefix(Dir[k], n)
  PROVE  j = k \/ (j \in {1, 6} /\ k \in {1, 6})
PROOF
<1> DEFINE a == Dir[j]  b == Dir[k]
<1>1. /\ a \in Path /\ b \in Path /\ Len(a) \in Nat /\ Len(a) >= 4 /\ Len(b) \in Nat /\ Len(b) >= 4
      /\ IsPrefix(a, n) /\ IsPrefix(b, n)
  BY DirIs
<1> HIDE DEF a, b
<1>2. a[2] = b[2] /\ a[4] = b[4] /\ (Len(a) = 11 /\ Len(b) = 11 => a[10] = b[10])
  <2>1. 2 \in 1 .. Len(a) /\ 4 \in 1 .. Len(a) /\ 2 <= Len(b) /\ 4 <= Len(b)
    BY <1>1
  <2>2. Len(a) = 11 /\ Len(b) = 11 => 10 \in 1 .. Len(a) /\ 10 <= Len(b)
    OBVIOUS
  <2> QED BY <1>1, <2>1, <2>2, PrefixesAgree
<1>3. /\ k = 1 \/ k = 2 \/ k = 3 \/ k = 4 \/ k = 5 \/ k = 6
      /\ j = 1 \/ j = 2 \/ j = 3 \/ j = 4 \/ j = 5 \/ j = 6
  OBVIOUS
<1> QED BY <1>2, <1>3, DirIs DEF a, b

\* Two rules for one name are those for the data and for the cache.
LEMMA OneRule ==
  ASSUME NEW p \in Path, NEW n \in Path, NEW j \in 1 .. 6, NEW k \in 1 .. 6,
         IsPrefix(From(p, j), n), IsPrefix(From(p, k), n)
  PROVE  j = k \/ (j \in {1, 6} /\ k \in {1, 6})
PROOF
<1>1. IsPrefix(Dir[j], n) /\ IsPrefix(Dir[k], n)
  BY FromIs, DirIs, PrefixOfPrefix
<1> QED BY <1>1, OneDirectory

-----------------------------------------------------------------------------
(* The root                                                                *)

\* What is below a directory.
Slashed(x) == <<"/">> \o x

LEMMA SlashedIs ==
  ASSUME NEW x \in Path
  PROVE  Slashed(x) \in Path /\ Len(Slashed(x)) = 1 + Len(x) /\ Slashed(x)[1] = "/"
PROOF
<1> DEFINE s == <<"/">>  u == s \o x
<1>1. s \in Path /\ Len(s) = 1 /\ s[1] = "/" BY Slash
<1> HIDE DEF s
<1>2. u \in Path /\ Len(u) = Len(s) + Len(x) /\ \A i \in 1 .. Len(s) : u[i] = s[i]
  BY <1>1, ConcatIs
<1>3. Slashed(x) = u BY DEF Slashed, s
<1> HIDE DEF u
<1> QED BY <1>1, <1>2, <1>3

LEMMA SlashedCommutes ==
  ASSUME NEW x \in Path, NEW y \in Path
  PROVE  Slashed(x) \o y = Slashed(x \o y)
PROOF
<1>1. <<"/">> \in Path BY Slash
<1> QED BY <1>1, Associative, Zenon DEF Slashed

LEMMA Below ==
  ASSUME NEW d \in Path, NEW p \in Path, NEW n \in Path, IsPrefix(d \o p \o <<"/">>, n)
  PROVE  \E w \in Path : n = d \o (p \o Slashed(w))
PROOF
<1> DEFINE s == <<"/">>  a == d \o p  b == a \o s
<1>1. s \in Path BY Slash
<1>2. IsPrefix(b, n) OBVIOUS
<1> HIDE DEF s
<1>3. a \in Path BY ConcatIs
<1> HIDE DEF a
<1>4. b \in Path BY <1>1, <1>3, ConcatIs
<1> HIDE DEF b
<1> DEFINE w == SubSeq(n, Len(b) + 1, Len(n))
<1>5. w \in Path /\ n = b \o w
  BY <1>2, <1>4, PathIs, PrefixAndRest, RestIs
<1> HIDE DEF w
<1>6. s \o w \in Path BY <1>1, <1>5, ConcatIs
<1>7. (a \o s) \o w = a \o (s \o w)
  BY <1>1, <1>3, <1>5, Associative
<1>8. n = a \o (s \o w)
  BY <1>5, <1>7 DEF b
<1>9. (d \o p) \o (s \o w) = d \o (p \o (s \o w))
  BY <1>6, Associative
<1>10. n = d \o (p \o Slashed(w))
  BY <1>8, <1>9, Zenon DEF Slashed, s, a
<1> QED BY <1>5, <1>10

\* Names of components end at a "/".
LEMMA SlashEnds ==
  ASSUME NEW p \in PackageName, NEW q \in PackageName, NEW x \in Path,
         IsPrefix(p, q \o Slashed(x))
  PROVE  IsPrefix(p, q)
PROOF
<1> DEFINE r == Slashed(x)  t == q \o r
<1>1. /\ p \in Path /\ q \in Path /\ Len(p) \in Nat /\ Len(q) \in Nat
      /\ \A i \in 1 .. Len(p) : p[i] # "/"
  BY PackageNameIsPath, PathIs
<1>2. r \in Path /\ Len(r) \in Nat /\ Len(r) >= 1 /\ r[1] = "/"
  BY SlashedIs, PathIs
<1>3. /\ t \in Path /\ Len(t) = Len(q) + Len(r) /\ \A i \in 1 .. Len(q) : t[i] = q[i]
      /\ \A i \in 1 .. Len(r) : t[Len(q) + i] = r[i]
  BY <1>1, <1>2, ConcatIs
<1> HIDE DEF r
<1>4. t[Len(q) + 1] = "/"
  BY <1>2, <1>3
<1>5. IsPrefix(p, t)
  BY DEF r
<1> HIDE DEF t
<1>6. Len(p) <= Len(t) /\ \A i \in 1 .. Len(p) : p[i] = t[i]
  BY <1>1, <1>3, <1>5, PrefixIs
<1>7. Len(p) <= Len(q)
  <2>1. SUFFICES ASSUME Len(p) > Len(q) PROVE FALSE BY <1>1
  <2>2. Len(q) + 1 \in 1 .. Len(p) BY <1>1, <2>1
  <2> QED BY <1>1, <1>4, <1>6, <2>2
<1>8. \A i \in 1 .. Len(p) : p[i] = q[i]
  BY <1>1, <1>3, <1>6, <1>7
<1> QED BY <1>1, <1>7, <1>8, PrefixIs

\* The packages a guest may have beside the host.
Guest == {p \in PackageName : ~ IsPrefix(p, Host) /\ ~ IsPrefix(Host, p)}

LEMMA RootIs ==
  \E dir \in {AppData, UserData}, w \in Path : Root = dir \o (Host \o Slashed(w))
PROOF
<1>1. PICK dir \in {AppData, UserData} : IsPrefix(dir \o Host \o <<"/">>, Root)
  BY RootAssumption
<1>2. dir \in Path /\ Host \in Path /\ Root \in Path
  BY Directories, PackageNameIsPath, RootAssumption
<1> QED BY <1>1, <1>2, Below

\* What lies in the root is not redirected.
LEMMA RootUntouched ==
  ASSUME NEW p \in Guest, NEW x \in Path, NEW k \in 1 .. 6
  PROVE  ~ IsPrefix(From(p, k), Root \o x)
PROOF
<1>1. /\ p \in PackageName /\ p \in Path /\ ~ IsPrefix(p, Host)
      /\ Host \in PackageName /\ Host \in Path /\ Root \in Path
  BY PackageNameIsPath, RootAssumption DEF Guest
<1>2. PICK dir \in {AppData, UserData}, w \in Path : Root = dir \o (Host \o Slashed(w))
  BY RootIs
<1>3. PICK j \in {1, 2} : Dir[j] = dir
  BY DirIs
<1>4. dir \in Path BY Directories
<1> DEFINE v == Slashed(w)  y == w \o x  u == Slashed(y)
<1>5. v \in Path /\ y \in Path /\ u \in Path /\ v \o x = u
  <2>1. v \in Path BY SlashedIs
  <2>2. y \in Path BY ConcatIs, Zenon
  <2>3. u \in Path BY <2>2, SlashedIs
  <2> QED BY <2>1, <2>2, <2>3, SlashedCommutes, Zenon
<1> HIDE DEF v, u
<1> DEFINE g == Host \o v  h == Host \o u  n == Root \o x
<1>6. g \in Path /\ h \in Path /\ n \in Path
  BY <1>1, <1>5, ConcatIs
<1>7. g \o x = h
  <2>1. Host \in Path /\ v \in Path BY <1>1, <1>5
  <2>2. (Host \o v) \o x = Host \o (v \o x) BY <2>1, Associative
  <2> QED BY <1>5, <2>2, Zenon
<1>8. Root = dir \o g
  BY <1>2 DEF v
<1>9. n = dir \o h
  <2> HIDE DEF g, h
  <2>1. (dir \o g) \o x = dir \o (g \o x) BY <1>4, <1>6, Associative
  <2> QED BY <1>7, <1>8, <2>1, Zenon
<1> HIDE DEF g, h, n
<1>10. SUFFICES ASSUME IsPrefix(From(p, k), n) PROVE FALSE
  BY DEF n
<1>11. IsPrefix(Dir[k], n) /\ IsPrefix(Dir[k] \o p, n) /\ IsPrefix(dir, n)
  <2>1. /\ From(p, k) \in Path /\ Dir[k] \in Path /\ Dir[k] \o p \in Path
        /\ IsPrefix(Dir[k] \o p, From(p, k)) /\ IsPrefix(Dir[k], From(p, k))
    BY <1>1, FromIs, DirIs, Zenon
  <2>2. IsPrefix(dir, n)
    BY <1>4, <1>6, <1>9, PrefixOfConcat, Zenon
  <2> QED BY <1>6, <1>10, <2>1, <2>2, PrefixOfPrefix, Zenon
<1>12. Dir[k] = dir
  <2>1. j = k \/ (j \in {1, 6} /\ k \in {1, 6})
    BY <1>3, <1>6, <1>11, OneDirectory
  <2> QED BY <1>3, <2>1, DirIs
<1>13. IsPrefix(dir \o p, dir \o h)
  BY <1>9, <1>11, <1>12
<1>14. IsPrefix(p, h)
  BY <1>1, <1>4, <1>6, <1>13, PrefixAlike
<1>15. IsPrefix(p, Host \o Slashed(y))
  BY <1>14, Zenon DEF h, u
<1> QED BY <1>1, <1>5, <1>15, SlashEnds

LEMMA ToIs ==
  ASSUME NEW k \in 1 .. 6
  PROVE  /\ To(k) \in Path /\ Target[k] \in Path /\ Root \in Path
         /\ Len(To(k)) = Len(Root) + Len(Target[k])
         /\ \A x \in Path : To(k) \o x = Root \o (Target[k] \o x) /\ Target[k] \o x \in Path
PROOF
<1>1. <<>> \in Path BY DEF Path
<1>2. Root \in Path /\ Target[k] \in Path BY <1>1, RulesAre, RootAssumption
<1> DEFINE t == Target[k]
<1> HIDE DEF t
<1>3. t \in Path BY <1>2 DEF t
<1>4. Root \o t \in Path /\ Len(Root \o t) = Len(Root) + Len(t) BY <1>2, <1>3, ConcatIs
<1>5. \A x \in Path : (Root \o t) \o x = Root \o (t \o x)
  BY <1>2, <1>3, Associative
<1>6. \A x \in Path : t \o x \in Path
  BY <1>3, ConcatIs
<1> QED BY <1>2, <1>4, <1>5, <1>6, Zenon DEF To, t

\* Redirected twice is redirected once: the name that was written over the first may be
\* read and redirected again.
LEMMA RedirectTwice ==
  ASSUME NEW p \in Guest, NEW o \in AnyOrder, NEW n \in Path
  PROVE  Redirect(p, o, n) \in Path /\ Redirect(p, o, Redirect(p, o, n)) = Redirect(p, o, n)
PROOF
<1> DEFINE r == Redirect(p, o, n)
<1>1. p \in Path BY PackageNameIsPath DEF Guest
<1>2. r = n \/ \E k \in 1 .. 6, x \in Path : r = To(k) \o x
  BY <1>1, RedirectIs
<1> HIDE DEF r
<1>3. CASE r = n BY <1>3 DEF r
<1>4. ASSUME NEW k \in 1 .. 6, NEW x \in Path, r = To(k) \o x
      PROVE  r \in Path /\ Redirect(p, o, r) = r
  <2>1. PICK y \in Path : r = Root \o y
    BY <1>4, ToIs
  <2>2. r \in Path
    BY <2>1, ConcatIs, RootAssumption
  <2>3. \A j \in 1 .. 6 : ~ IsPrefix(From(p, j), r)
    BY <2>1, RootUntouched
  <2>4. \A j \in 1 .. 6, z \in Path : r # From(p, j) \o z
    <3> SUFFICES ASSUME NEW j \in 1 .. 6, NEW z \in Path, r = From(p, j) \o z PROVE FALSE
      OBVIOUS
    <3>1. From(p, j) \in Path BY <1>1, FromIs
    <3>2. IsPrefix(From(p, j), From(p, j) \o z) BY <3>1, PrefixOfConcat
    <3> QED BY <2>3, <3>2
  <2>5. Redirect(p, o, r) = r \/ \E j \in 1 .. 6, z \in Path : r = From(p, j) \o z
    <3>1. \/ Redirect(p, o, r) = r /\ \A j \in 1 .. 6 : ~ IsPrefix(From(p, j), r)
          \/ \E j \in 1 .. 6, z \in Path : r = From(p, j) \o z /\ Redirect(p, o, r) = To(j) \o z
      BY <1>1, <2>2, RedirectIs, Zenon
    <3> QED BY <3>1, Zenon
  <2> QED BY <2>2, <2>4, <2>5, Zenon
<1> QED BY <1>2, <1>3, <1>4 DEF r

\* What is longer is so by little.
LEMMA NotMuchLonger ==
  ASSUME NEW p \in Path, NEW o \in AnyOrder, NEW n \in Path
  PROVE  Redirect(p, o, n) = n \/ Len(Redirect(p, o, n)) + 3 + Len(p) <= Len(n) + Len(Root)
PROOF
<1> DEFINE r == Redirect(p, o, n)
<1>1. \/ r = n
      \/ \E k \in 1 .. 6, x \in Path : n = From(p, k) \o x /\ r = To(k) \o x
  BY RedirectIs, Zenon
<1> HIDE DEF r
<1>2. ASSUME NEW k \in 1 .. 6, NEW x \in Path, n = From(p, k) \o x, r = To(k) \o x
      PROVE  Len(r) + 3 + Len(p) <= Len(n) + Len(Root)
  <2>1. Len(Target[k]) + 3 <= Len(Dir[k])
    <3>1. k = 1 \/ k = 2 \/ k = 3 \/ k = 4 \/ k = 5 \/ k = 6 OBVIOUS
    <3>2. /\ Len(Sub("data")) = 2 /\ Len(Sub("external_data")) = 2 /\ Len(Sub("obb")) = 2
          /\ Len(Sub("cache")) = 2 /\ Len(Sub("lib") \o <<"/">>) = 3
      BY DEF Sub
    <3>3. k # 5 => Len(Target[k]) = 2
      BY <3>1, <3>2 DEF Target
    <3>4. Target[5] = Sub("lib") \o <<"/">>
      BY DEF Target
    <3>5. k = 2 => Len(Dir[k]) = 7
      BY Directories DEF Dir
    <3>6. k \in {1, 6} => Len(Dir[k]) = 5
      BY DirIs, Directories
    <3>7. k = 5 => Len(Target[k]) = 3
      BY <3>2, <3>4
    <3>8. k \in {3, 4} => Len(Dir[k]) = 11
      BY DirIs
    <3>9. k = 5 => Len(Dir[k]) = 7
      BY DirIs
    <3> DEFINE t == Len(Target[k])  d == Len(Dir[k])
    <3>10. /\ k # 5 => t = 2
           /\ k = 5 => t = 3 /\ d = 7
           /\ k = 2 => d = 7
           /\ k \in {1, 6} => d = 5
           /\ k \in {3, 4} => d = 11
      BY <3>3, <3>5, <3>6, <3>7, <3>8, <3>9
    <3> HIDE DEF t, d
    <3>11. t + 3 <= d BY <3>1, <3>10
    <3> QED BY <3>11 DEF t, d
  <2>2. /\ From(p, k) \in Path /\ To(k) \in Path /\ Root \in Path
        /\ Len(From(p, k)) = Len(Dir[k]) + Len(p) + Len(Behind[k])
        /\ Len(To(k)) = Len(Root) + Len(Target[k])
    BY FromIs, ToIs
  <2>3. Len(n) = Len(From(p, k)) + Len(x) /\ Len(r) = Len(To(k)) + Len(x)
    BY <1>2, <2>2, ConcatIs
  <2>4. /\ Dir[k] \in Path /\ Behind[k] \in Path /\ Target[k] \in Path
    BY RulesAre
  <2>5. /\ Len(p) \in Nat /\ Len(Root) \in Nat /\ Len(x) \in Nat
        /\ Len(Dir[k]) \in Nat /\ Len(Behind[k]) \in Nat /\ Len(Target[k]) \in Nat
    BY <2>2, <2>4, PathIs
  <2>6. /\ Len(n) = Len(Dir[k]) + Len(p) + Len(Behind[k]) + Len(x)
        /\ Len(r) = Len(Root) + Len(Target[k]) + Len(x)
    BY <2>2, <2>3
  <2> DEFINE lr == Len(Root)  lt == Len(Target[k])  ld == Len(Dir[k])  lb == Len(Behind[k])
             lx == Len(x)  lp == Len(p)
  <2>7. /\ lr \in Nat /\ lt \in Nat /\ ld \in Nat /\ lb \in Nat /\ lx \in Nat /\ lp \in Nat
        /\ lt + 3 <= ld /\ Len(n) = ld + lp + lb + lx /\ Len(r) = lr + lt + lx
    BY <2>1, <2>5, <2>6
  <2> HIDE DEF lt, ld, lb, lx
  <2> QED BY <2>7
<1> QED BY <1>1, <1>2 DEF r

-----------------------------------------------------------------------------
(* Strings in memory                                                       *)

\* What stands before the first zero is read.
LEMMA ReadIs ==
  ASSUME NEW mem, DOMAIN mem \subseteq Nat, NEW a \in Nat, NEW s \in Path,
         a .. a + Len(s) \subseteq DOMAIN mem,
         \A i \in 1 .. Len(s) : mem[a + i - 1] = s[i], mem[a + Len(s)] = "nul"
  PROVE  ReadString(mem, a) = s
PROOF
<1> DEFINE S == {i \in DOMAIN mem : i >= a /\ mem[i] = "nul"}
           e == a + Len(s)
<1>1. Len(s) \in Nat /\ DOMAIN s = 1 .. Len(s) /\ \A i \in 1 .. Len(s) : s[i] # "nul"
  BY PathIs
<1>2. e \in S /\ S \subseteq Nat
  BY <1>1
<1>3. \A i \in S : e <= i
  <2> SUFFICES ASSUME NEW i \in S, i < e PROVE FALSE
    BY <1>1
  <2>1. i - a + 1 \in 1 .. Len(s) /\ a + (i - a + 1) - 1 = i
    BY <1>1, <1>2
  <2> QED BY <1>1, <2>1
<1>4. Min(S) = e
  <2> HIDE DEF S, e
  <2>1. \A x \in S : (\A y \in S : x =< y) => x = e
    BY <1>2, <1>3
  <2> QED BY <1>2, <1>3, <2>1 DEF Min
<1>5. ReadString(mem, a) = [k \in 1 .. e - a |-> mem[a + k - 1]]
  BY <1>4 DEF ReadString
<1>6. [k \in 1 .. e - a |-> mem[a + k - 1]] = [k \in 1 .. Len(s) |-> s[k]]
  BY <1>1
<1>7. [k \in 1 .. Len(s) |-> s[k]] = s
  BY <1>1 DEF Path
<1> QED BY <1>5, <1>6, <1>7

\* A string of whole words has its zero, and leaves alone what is a word behind it.
LEMMA WrittenIs ==
  ASSUME NEW mem, DOMAIN mem \subseteq Nat, NEW a \in Nat, NEW s \in Path,
         a .. a + Len(s) \subseteq DOMAIN mem
  PROVE  LET new == WriteString(mem, a, s)
         IN  /\ DOMAIN new = DOMAIN mem
             /\ (\A i \in 1 .. Len(s) : new[a + i - 1] = s[i]) /\ new[a + Len(s)] = "nul"
             /\ \A i \in DOMAIN mem : i < a \/ i >= a + Len(s) + Word => new[i] = mem[i]
PROOF
<1> DEFINE words == Len(s) \div Word + 1
           new == WriteString(mem, a, s)
           w == words * Word
<1>1. Len(s) \in Nat BY PathIs
<1>2. w \in Nat /\ Len(s) < w /\ w <= Len(s) + Word
  <2>1. Word \in Nat /\ Word > 0 BY RootAssumption
  <2>2. PICK l \in Nat : l = Len(s) BY <1>1
  <2>3. (l \div Word) \in Nat
    BY <2>1
  <2>4. (l \div Word + 1) * Word > l
    BY <2>1
  <2>5. (l \div Word + 1) * Word <= l + Word
    BY <2>1
  <2>6. (l \div Word + 1) * Word \in Nat
    BY <2>1, <2>3
  <2> QED BY <2>2, <2>4, <2>5, <2>6
<1>3. new = [i \in DOMAIN mem |->
               IF i \in a .. a + Len(s) - 1 THEN s[i - a + 1]
               ELSE IF i \in a + Len(s) .. a + w - 1 THEN "nul" ELSE mem[i]]
  BY DEF WriteString, Filled
<1> HIDE DEF new, w, words
<1>4. DOMAIN new = DOMAIN mem
  BY <1>3
<1>5. ASSUME NEW i \in 1 .. Len(s) PROVE new[a + i - 1] = s[i]
  <2>1. a + i - 1 \in DOMAIN mem /\ a + i - 1 \in a .. a + Len(s) - 1 /\ (a + i - 1) - a + 1 = i
    BY <1>1
  <2> QED BY <1>3, <2>1
<1>6. new[a + Len(s)] = "nul"
  <2>1. /\ a + Len(s) \in DOMAIN mem /\ a + Len(s) \notin a .. a + Len(s) - 1
        /\ a + Len(s) \in a + Len(s) .. a + w - 1
    BY <1>1, <1>2
  <2> QED BY <1>3, <2>1
<1>7. ASSUME NEW i \in DOMAIN mem, i < a \/ i >= a + Len(s) + Word PROVE new[i] = mem[i]
  <2>1. Word \in Nat /\ i \in Nat BY RootAssumption
  <2>2. i \notin a .. a + Len(s) - 1 /\ i \notin a + Len(s) .. a + w - 1
    BY <1>1, <1>2, <1>7, <2>1
  <2> QED BY <1>3, <2>2
<1> QED BY <1>4, <1>5, <1>6, <1>7 DEF new

-----------------------------------------------------------------------------
(* The overlay                                                             *)

LEMMA PrefixBoth ==
  ASSUME NEW s \in Path, NEW t \in Path, IsPrefix(s, t), IsPrefix(t, s)
  PROVE  s = t
PROOF
<1>1. Len(s) \in Nat /\ Len(t) \in Nat BY PathIs
<1>2. Len(s) <= Len(t) /\ \A i \in 1 .. Len(s) : s[i] = t[i] BY PrefixIs
<1>3. Len(t) <= Len(s) BY PrefixIs
<1> QED BY <1>1, <1>2, <1>3, PathsEqual

LEMMA BaseIs ==
  ASSUME NEW p \in Path
  PROVE  Base(p) \in Path /\ \A x \in Path : Base(p) \o x = Root \o Slashed(p \o x)
PROOF
<1> DEFINE s == <<"/">>  a == Root \o s  b == a \o p
<1>1. Root \in Path /\ s \in Path BY Slash, RootAssumption
<1> HIDE DEF s
<1>2. a \in Path BY <1>1, ConcatIs
<1> HIDE DEF a
<1>3. b \in Path BY <1>2, ConcatIs
<1>4. Base(p) = b BY Zenon DEF Base, a, s
<1>5. ASSUME NEW x \in Path PROVE b \o x = Root \o Slashed(p \o x)
  <2>1. p \o x \in Path BY ConcatIs
  <2>2. (a \o p) \o x = a \o (p \o x) BY <1>2, Associative
  <2>3. (Root \o s) \o (p \o x) = Root \o (s \o (p \o x)) BY <1>1, <2>1, Associative
  <2> QED BY <2>2, <2>3, Zenon DEF a, s, Slashed
<1> HIDE DEF b
<1> QED BY <1>3, <1>4, <1>5

\* Two packages' directories are apart.
LEMMA BasesApart ==
  ASSUME NEW p \in PackageName, NEW q \in PackageName, NEW x \in Path, NEW y \in Path,
         Base(p) \o Slashed(x) = Base(q) \o Slashed(y)
  PROVE  p = q
PROOF
<1>1. /\ p \in Path /\ q \in Path /\ Root \in Path
      /\ Slashed(x) \in Path /\ Slashed(y) \in Path
  BY PackageNameIsPath, SlashedIs, RootAssumption
<1> DEFINE u == p \o Slashed(x)  v == q \o Slashed(y)
<1>2. u \in Path /\ v \in Path BY <1>1, ConcatIs
<1>3. Root \o Slashed(u) = Root \o Slashed(v)
  BY <1>1, BaseIs, Zenon
<1>4. IsPrefix(p, u) /\ IsPrefix(q, v)
  BY <1>1, PrefixOfConcat
<1> HIDE DEF u, v
<1>5. Slashed(u) = Slashed(v)
  BY <1>1, <1>2, <1>3, SlashedIs, ConcatCancels
<1>6. u = v
  <2> DEFINE s == <<"/">>
  <2>1. s \in Path BY Slash
  <2>2. s \o u = s \o v BY <1>5, Zenon DEF Slashed
  <2> HIDE DEF s
  <2> QED BY <1>2, <2>1, <2>2, ConcatCancels
<1>7. IsPrefix(p, q \o Slashed(y)) /\ IsPrefix(q, p \o Slashed(x))
  BY <1>4, <1>6, Zenon DEF u, v
<1>8. IsPrefix(p, q) /\ IsPrefix(q, p)
  BY <1>7, SlashEnds
<1> QED BY <1>1, <1>8, PrefixBoth

LEMMA RestOfConcat ==
  ASSUME NEW s \in Path, NEW t \in Path
  PROVE  SubSeq(s \o t, Len(s) + 1, Len(s \o t)) = t
PROOF
<1> DEFINE n == s \o t  r == SubSeq(n, Len(s) + 1, Len(n))
<1>1. n \in Path /\ IsPrefix(s, n) BY ConcatIs, PrefixOfConcat
<1>2. n = s \o t OBVIOUS
<1> HIDE DEF n
<1>3. r \in Path BY <1>1, PathIs, RestIs
<1>4. n = s \o r BY <1>1, PrefixAndRest
<1> HIDE DEF r
<1>5. r = t BY <1>2, <1>3, <1>4, ConcatCancels
<1> QED BY <1>5, Zenon DEF r, n

LEMMA UserData10Is ==
  /\ UserData10 \in Path /\ Len(UserData10) = 7 /\ IsPrefix(Users, UserData10)
  /\ UserData10[2] = "data" /\ UserData10[4] = "user" /\ UserData10[6] = "10"
PROOF
<1>1. UserData10 \in Path
  BY PieceAssumption DEF UserData10, Path
<1>2. Len(Users) <= Len(UserData10) /\ \A i \in 1 .. Len(Users) : Users[i] = UserData10[i]
  BY DEF Users, UserData10
<1>3. IsPrefix(Users, UserData10)
  BY <1>1, <1>2, Directories, PrefixIs
<1> QED BY <1>1, <1>3 DEF UserData10

\* What a guest owns is not blocked.
LEMMA OwnNotBlocked ==
  ASSUME NEW p \in Guest, NEW y \in Path,
         NEW dir \in {AppData, UserData, UserData10, Storage("data")}, NEW b \in BlockedPaths
  PROVE  ~ IsPrefix(b, dir \o (p \o Slashed(y)))
PROOF
<1> DEFINE h == p \o Slashed(y)  n == dir \o h
<1>1. /\ p \in PackageName /\ p \in Path /\ ~ IsPrefix(Host, p)
      /\ Host \in PackageName /\ Host \in Path
  BY PackageNameIsPath, RootAssumption DEF Guest
<1>2. /\ dir \in Path /\ Len(dir) >= 4 /\ dir[2] \in {"data", "storage"}
      /\ dir[2] = "data" /\ dir[4] = "data" => dir = AppData
  <2>1. Storage("data") \in Path /\ Len(Storage("data")) = 11 /\ Storage("data")[2] = "storage"
    BY Storages, PieceAssumption
  <2>2. CASE dir = AppData BY <2>2, Directories
  <2>3. CASE dir = UserData
    <3>1. UserData \in Path /\ Len(UserData) = 7 /\ UserData[2] = "data" /\ UserData[4] = "user"
      BY Directories
    <3> QED BY <2>3, <3>1
  <2>4. CASE dir = UserData10 BY <2>4, UserData10Is
  <2>5. CASE dir = Storage("data")
    <3>1. dir \in Path /\ Len(dir) = 11 /\ dir[2] = "storage"
      BY <2>1, <2>5
    <3>2. dir[2] # "data"
      BY <3>1
    <3> QED BY <3>1, <3>2
  <2> QED BY <2>2, <2>3, <2>4, <2>5
<1>3. Slashed(y) \in Path
  BY SlashedIs
<1>4. h \in Path
  <2> DEFINE z == Slashed(y)
  <2> HIDE DEF z
  <2>1. z \in Path BY <1>3 DEF z
  <2>2. p \o z \in Path BY <1>1, <2>1, ConcatIs
  <2> QED BY <2>2 DEF z
<1> HIDE DEF h
<1>5. n \in Path /\ IsPrefix(dir, n)
  BY <1>2, <1>4, ConcatIs, PrefixOfConcat
<1> HIDE DEF n
<1> SUFFICES ASSUME IsPrefix(b, n) PROVE FALSE
  BY DEF n, h
<1>6. \/ b = AppData \o Host
      \/ b \in Path /\ Len(b) >= 2 /\ b[2] \in {"proc", "sbin"}
  <2> DEFINE maps == <<"/", "proc", "/", "self", "/", "maps">>  su == <<"/", "sbin", "/", "su">>
  <2>1. maps \in Path /\ su \in Path
    BY PieceAssumption DEF Path
  <2>2. Len(maps) >= 2 /\ maps[2] = "proc" /\ Len(su) >= 2 /\ su[2] = "sbin"
    OBVIOUS
  <2>3. b \in {AppData \o Host, maps, su}
    BY DEF BlockedPaths
  <2> HIDE DEF maps, su
  <2> QED BY <2>1, <2>2, <2>3
<1>7. CASE b = AppData \o Host
  <2>1. AppData \in Path /\ Len(AppData) = 5 /\ AppData[2] = "data" /\ AppData[4] = "data"
    BY Directories
  <2>2. b \in Path /\ IsPrefix(AppData, b)
    BY <1>1, <1>7, <2>1, ConcatIs, PrefixOfConcat
  <2>3. IsPrefix(AppData, n)
    BY <1>5, <2>1, <2>2, PrefixOfPrefix
  <2>4. Len(dir) \in Nat BY <1>2, PathIs
  <2>5. 2 \in 1 .. Len(dir) /\ 4 \in 1 .. Len(dir) /\ 2 <= Len(AppData) /\ 4 <= Len(AppData)
    BY <1>2, <2>1, <2>4
  <2>6. dir[2] = AppData[2] /\ dir[4] = AppData[4]
    BY <1>2, <1>5, <2>1, <2>3, <2>5, PrefixesAgree
  <2>7. dir = AppData
    BY <1>2, <2>1, <2>6
  <2>8. IsPrefix(AppData \o Host, AppData \o h)
    BY <1>7, <2>7 DEF n
  <2>9. IsPrefix(Host, h)
    BY <1>1, <1>4, <2>1, <2>8, PrefixAlike
  <2>10. IsPrefix(Host, p \o Slashed(y))
    BY <2>9, Zenon DEF h
  <2> QED BY <1>1, <2>10, SlashEnds
<1>8. CASE b \in Path /\ Len(b) >= 2 /\ b[2] \in {"proc", "sbin"}
  <2>1. Len(b) \in Nat /\ Len(dir) \in Nat BY <1>2, <1>8, PathIs
  <2>2. 2 \in 1 .. Len(b) /\ 2 <= Len(dir) BY <1>2, <1>8, <2>1
  <2>3. b[2] = dir[2]
    BY <1>2, <1>5, <1>8, <2>2, PrefixesAgree
  <2> QED BY <1>2, <1>8, <2>3
<1> QED BY <1>6, <1>7, <1>8

\* Where the overlay sends what its three rules match.
OverlayTarget == <<Sub("data"), Sub("data"), Sub("external")>>

LEMMA OverlayRulesAre ==
  ASSUME NEW p \in Path
  PROVE  /\ DOMAIN OverlayRules(p) = 1 .. 3
         /\ \A k \in 1 .. 3 : /\ OverlayRules(p)[k].from = Dir[k] \o p
                              /\ OverlayRules(p)[k].to = Base(p) \o OverlayTarget[k]
PROOF
<1> DEFINE R == OverlayRules(p)  F == <<AppData \o p, UserData \o p, Storage("data") \o p>>
           T == <<Base(p) \o Sub("data"), Base(p) \o Sub("data"), Base(p) \o Sub("external")>>
<1>1. R = <<Rule(F[1], T[1]), Rule(F[2], T[2]), Rule(F[3], T[3])>>
  BY DEF OverlayRules
<1>2. F[1] = Dir[1] \o p /\ F[2] = Dir[2] \o p /\ F[3] = Dir[3] \o p
  BY DEF Dir
<1>3. ASSUME NEW k \in 1 .. 3 PROVE T[k] = Base(p) \o OverlayTarget[k]
  <2> DEFINE data == Base(p) \o Sub("data")  external == Base(p) \o Sub("external")
  <2>1. OverlayTarget[1] = Sub("data") /\ OverlayTarget[2] = Sub("data") /\ OverlayTarget[3] = Sub("external")
    BY DEF OverlayTarget
  <2>2. T = <<data, data, external>> OBVIOUS
  <2> HIDE DEF T, data, external
  <2>3. T[1] = data /\ T[2] = data /\ T[3] = external BY <2>2
  <2>4. k = 1 \/ k = 2 \/ k = 3 OBVIOUS
  <2> QED BY <2>1, <2>3, <2>4, Zenon DEF data, external
<1> HIDE DEF R, F, T
<1>4. \A k \in 1 .. 3 : R[k].from = F[k] /\ R[k].to = T[k]
  BY <1>1 DEF Rule
<1>5. DOMAIN R = 1 .. 3 BY <1>1
<1>6. ASSUME NEW k \in 1 .. 3 PROVE F[k] = Dir[k] \o p
  <2>1. k = 1 \/ k = 2 \/ k = 3 OBVIOUS
  <2> QED BY <1>2, <2>1, Zenon
<1>7. \A k \in 1 .. 3 : R[k].from = Dir[k] \o p /\ R[k].to = Base(p) \o OverlayTarget[k]
  <2> SUFFICES ASSUME NEW k \in 1 .. 3
               PROVE  R[k].from = Dir[k] \o p /\ R[k].to = Base(p) \o OverlayTarget[k]
    OBVIOUS
  <2>1. F[k] = Dir[k] \o p BY <1>6
  <2>2. T[k] = Base(p) \o OverlayTarget[k] BY <1>3
  <2>3. R[k].from = F[k] /\ R[k].to = T[k] BY <1>4
  <2> QED BY <2>1, <2>2, <2>3, Zenon
<1> QED BY <1>5, <1>7, Zenon DEF R

\* A file in one of the rules' directories has its place in the package's own.
LEMMA ResolveByRule ==
  ASSUME NEW p \in Guest, NEW o \in AnyOrder, NEW j \in 1 .. 3, NEW y \in Path
  PROVE  ResolvePath(p, o, Dir[j] \o (p \o Slashed(y)))
           = [how |-> "redirected", path |-> Base(p) \o OverlayTarget[j] \o Slashed(y)]
PROOF
<1> DEFINE z == Slashed(y)  n == Dir[j] \o (p \o z)  R == OverlayRules(p)
<1>1. p \in Path BY PackageNameIsPath DEF Guest
<1>2. Dir[j] \in Path /\ z \in Path
  <2>1. Dir[j] \in Path BY DirIs
  <2>2. z \in Path BY SlashedIs
  <2> QED BY <2>1, <2>2
<1>3. Dir[j] \in {AppData, UserData, UserData10, Storage("data")}
  BY DEF Dir
<1>4. ~ \E b \in BlockedPaths : IsPrefix(b, n)
  BY <1>3, OwnNotBlocked
<1> HIDE DEF z
<1>5. Dir[j] \o p \in Path /\ p \o z \in Path BY <1>1, <1>2, ConcatIs
<1>6. n = (Dir[j] \o p) \o z BY <1>1, <1>2, Associative
<1>7. n \in Path /\ IsPrefix(Dir[j], n) /\ IsPrefix(Dir[j] \o p, n)
  <2>1. n \in Path /\ IsPrefix(Dir[j], n) BY <1>2, <1>5, ConcatIs, PrefixOfConcat
  <2>2. IsPrefix(Dir[j] \o p, (Dir[j] \o p) \o z) BY <1>2, <1>5, PrefixOfConcat
  <2> QED BY <1>6, <2>1, <2>2, Zenon
<1>8. SubSeq(n, Len(Dir[j] \o p) + 1, Len(n)) = z
  <2> DEFINE d == Dir[j] \o p
  <2>1. d \in Path /\ n = d \o z BY <1>5, <1>6
  <2> HIDE DEF d, n
  <2>2. SubSeq(d \o z, Len(d) + 1, Len(d \o z)) = z BY <1>2, <2>1, RestOfConcat
  <2> QED BY <2>1, <2>2 DEF d
<1> HIDE DEF n
<1>9. FirstRule(R, o, n) = {R[j]}
  <2>1. DOMAIN R \subseteq 1 .. 6 BY <1>1, OverlayRulesAre
  <2>2. \/ FirstRule(R, o, n) = {} /\ \A k \in DOMAIN R : ~ IsPrefix(R[k].from, n)
        \/ \E k \in DOMAIN R : IsPrefix(R[k].from, n) /\ FirstRule(R, o, n) = {R[k]}
    BY <2>1, FirstRuleIs
  <2>3. IsPrefix(R[j].from, n) BY <1>1, <1>7, OverlayRulesAre
  <2>4. ASSUME NEW k \in DOMAIN R, IsPrefix(R[k].from, n) PROVE k = j
    <3>1. k \in 1 .. 3 /\ IsPrefix(Dir[k] \o p, n) BY <1>1, <2>4, OverlayRulesAre
    <3>2. Dir[k] \in Path BY <3>1, DirIs
    <3>3. Dir[k] \o p \in Path /\ IsPrefix(Dir[k], Dir[k] \o p)
      BY <1>1, <3>2, ConcatIs, PrefixOfConcat
    <3>4. IsPrefix(Dir[k], n)
      BY <1>7, <3>1, <3>2, <3>3, PrefixOfPrefix
    <3>5. j = k \/ (j \in {1, 6} /\ k \in {1, 6})
      BY <1>7, <3>1, <3>4, OneDirectory
    <3> QED BY <3>1, <3>5
  <2>5. DOMAIN R = 1 .. 3 BY <1>1, OverlayRulesAre
  <2> QED BY <2>2, <2>3, <2>4, <2>5
<1>10. Moved(R[j], n) = Base(p) \o OverlayTarget[j] \o z
  BY <1>1, <1>8, OverlayRulesAre, Zenon DEF Moved
<1>11. (CHOOSE r \in {R[j]} : TRUE) = R[j] OBVIOUS
<1>12. ResolvePath(p, o, n) = [how |-> "redirected", path |-> Moved(R[j], n)]
  <2>1. \A r : r = {R[j]} => r # {} OBVIOUS
  <2> QED BY <1>4, <1>9, <1>11 DEF ResolvePath, n
<1> QED BY <1>10, <1>12, Zenon DEF n, z

LEMMA MinIs ==
  ASSUME NEW S, S \subseteq Nat, S # {}
  PROVE  Min(S) \in S
PROOF
<1> DEFINE R == OpToRel(<, Nat)
<1>1. IsWellFoundedOn(R, Nat) BY NatLessThanWellFounded, Zenon
<1>3. \A x, y \in Nat : x < y => <<x, y>> \in R BY DEF OpToRel
<1> HIDE DEF R
<1>2. PICK x \in S : \A y \in S : <<y, x>> \notin R
  BY <1>1, WFMin
<1>4. ASSUME NEW y \in S PROVE x =< y
  <2>1. x \in Nat /\ y \in Nat OBVIOUS
  <2>2. <<y, x>> \notin R BY <1>2
  <2>3. ~ (y < x) BY <1>3, <2>1, <2>2, Zenon
  <2> QED BY <2>1, <2>3
<1> QED BY <1>4 DEF Min

\* A file of user 10 has its place there as well, whatever its name contains.
LEMMA ResolveOther ==
  ASSUME NEW p \in Guest, NEW o \in AnyOrder, NEW y \in Path
  PROVE  LET n == UserData10 \o (p \o Slashed(y))
         IN  /\ ResolvePath(p, o, n) = [how |-> "redirected", path |-> RedirectDataPath(p, n)]
             /\ \E w \in Path : RedirectDataPath(p, n) = Base(p) \o Sub("data") \o w
PROOF
<1> DEFINE z == Slashed(y)  h == p \o z  n == UserData10 \o h  R == OverlayRules(p)
<1>1. p \in Path BY PackageNameIsPath DEF Guest
<1>2. z \in Path /\ Len(z) >= 1 BY SlashedIs, PathIs
<1>3. ~ \E b \in BlockedPaths : IsPrefix(b, n)
  BY OwnNotBlocked
<1> HIDE DEF z
<1>4. h \in Path /\ Len(h) = Len(p) + Len(z) /\ IsPrefix(p, h)
  BY <1>1, <1>2, ConcatIs, PrefixOfConcat
<1> HIDE DEF h
<1>5. /\ n \in Path /\ IsPrefix(UserData10, n) /\ Len(n) = 7 + Len(h)
      /\ SubSeq(n, 8, Len(n)) = h
  <2> DEFINE d == UserData10
  <2>1. d \in Path /\ Len(d) = 7 BY UserData10Is
  <2> HIDE DEF d
  <2>2. /\ d \o h \in Path /\ IsPrefix(d, d \o h) /\ Len(d \o h) = Len(d) + Len(h)
        /\ SubSeq(d \o h, Len(d) + 1, Len(d \o h)) = h
    BY <1>4, <2>1, ConcatIs, PrefixOfConcat, RestOfConcat
  <2>3. n = d \o h BY DEF d
  <2> HIDE DEF n
  <2> QED BY <2>1, <2>2, <2>3 DEF d
<1> HIDE DEF n
<1>6. FirstRule(R, o, n) = {}
  <2>1. DOMAIN R = 1 .. 3 /\ \A k \in 1 .. 3 : R[k].from = Dir[k] \o p
    BY <1>1, OverlayRulesAre
  <2>2. \/ FirstRule(R, o, n) = {} /\ \A k \in DOMAIN R : ~ IsPrefix(R[k].from, n)
        \/ \E k \in DOMAIN R : IsPrefix(R[k].from, n) /\ FirstRule(R, o, n) = {R[k]}
    <3>1. DOMAIN R \subseteq 1 .. 6 BY <2>1
    <3> HIDE DEF R
    <3> QED BY <3>1, FirstRuleIs
  <2>3. ASSUME NEW k \in 1 .. 3, IsPrefix(Dir[k] \o p, n) PROVE FALSE
    <3>1. Dir[k] \in Path /\ Len(Dir[k]) \in Nat /\ Len(Dir[k]) >= 4
      BY DirIs
    <3>2. Dir[k] \o p \in Path /\ IsPrefix(Dir[k], Dir[k] \o p)
      BY <1>1, <3>1, ConcatIs, PrefixOfConcat
    <3>3. IsPrefix(Dir[k], n)
      BY <1>5, <2>3, <3>1, <3>2, PrefixOfPrefix
    <3>4. \A i \in 1 .. Len(Dir[k]) : i <= 7 => Dir[k][i] = UserData10[i]
      BY <1>5, <3>1, <3>3, UserData10Is, PrefixesAgree
    <3>5. Dir[k][2] = "data" /\ Dir[k][4] = "user"
      BY <3>1, <3>4, UserData10Is
    <3>6. k = 2
      <4>1. k = 1 \/ k = 2 \/ k = 3 OBVIOUS
      <4> QED BY <3>5, <4>1, DirIs
    <3>7. Dir[k] = UserData BY <3>6, DirIs
    <3>8. UserData[6] = "0" /\ Len(UserData) = 7 BY DEF UserData
    <3>9. UserData10[6] = "10" BY UserData10Is
    <3>10. UserData[6] = UserData10[6] BY <3>4, <3>7, <3>8
    <3> QED BY <3>8, <3>9, <3>10
  <2> QED BY <2>1, <2>2, <2>3
<1>7. IsPrefix(Users, n)
  BY <1>5, Directories, UserData10Is, PrefixOfPrefix
<1>8. ResolvePath(p, o, n) = [how |-> "redirected", path |-> RedirectDataPath(p, n)]
  <2>1. ~ \E b \in BlockedPaths : IsPrefix(b, n)
    BY <1>3 DEF n, h
  <2> QED BY <1>6, <1>7, <2>1 DEF ResolvePath
<1>9. \E w \in Path : RedirectDataPath(p, n) = Base(p) \o Sub("data") \o w
  <2> DEFINE found == {i \in DOMAIN n : IsPrefix(p, SubSeq(n, i, Len(n)))}
             after == Min(found) + Len(p)
             ends  == {i \in found : i >= after} \cup {Len(n) + 1}
             w     == SubSeq(n, after, Min(ends) - 1)
  <2>1. /\ Len(n) \in Nat /\ DOMAIN n = 1 .. Len(n) /\ Len(p) \in Nat /\ Len(z) \in Nat
        /\ \A i \in 1 .. Len(n) : n[i] \in Piece
    BY <1>1, <1>2, <1>5, PathIs
  <2>2. found \subseteq 1 .. Len(n)
    BY <2>1
  <2>3. 8 \in found
    <3>1. Len(h) >= 1 /\ Len(h) \in Nat BY <1>2, <1>4, <2>1
    <3>2. 8 \in DOMAIN n BY <1>5, <2>1, <3>1
    <3>3. IsPrefix(p, SubSeq(n, 8, Len(n))) BY <1>4, <1>5
    <3> QED BY <3>2, <3>3
  <2>4. Min(found) \in found
    <3> HIDE DEF found
    <3>1. found \subseteq Nat BY <2>1, <2>2
    <3> QED BY <2>3, <3>1, MinIs
  <2> HIDE DEF found
  <2>5. after \in Nat /\ after >= 1
    <3>1. Min(found) \in 1 .. Len(n) BY <2>2, <2>4
    <3> QED BY <2>1, <3>1
  <2> HIDE DEF after
  <2>6. ends \subseteq 1 .. Len(n) + 1 /\ ends # {}
    <3> DEFINE l == Len(n)
    <3>1. l \in Nat /\ found \subseteq 1 .. l BY <2>1, <2>2
    <3> HIDE DEF l
    <3>2. 1 .. l \subseteq 1 .. l + 1 /\ l + 1 \in 1 .. l + 1 BY <3>1
    <3>3. {i \in found : i >= after} \cup {l + 1} \subseteq 1 .. l + 1 BY <3>1, <3>2
    <3> QED BY <3>3 DEF l
  <2> HIDE DEF ends
  <2>7. Min(ends) \in Nat /\ Min(ends) <= Len(n) + 1
    <3>1. ends \subseteq Nat BY <2>6
    <3>2. Min(ends) \in ends BY <2>6, <3>1, MinIs
    <3>3. Min(ends) \in 1 .. Len(n) + 1 BY <2>6, <3>2
    <3> QED BY <2>1, <3>3
  <2>8. w \in Path
    <3> DEFINE m == Min(ends)
    <3> HIDE DEF m
    <3>1. m - 1 \in Int /\ \A i \in after .. m - 1 : n[i] \in Piece
      BY <2>1, <2>5, <2>7 DEF m
    <3>2. SubSeq(n, after, m - 1) \in Seq(Piece)
      BY <2>5, <3>1, SubSeqProperties
    <3> QED BY <3>2 DEF Path, m
  <2>9. RedirectDataPath(p, n) = Base(p) \o Sub("data") \o w
    <3>1. found # {} BY <2>3
    <3> QED BY <3>1, Zenon DEF RedirectDataPath, found, after, ends
  <2> QED BY <2>8, <2>9
<1> QED BY <1>8, <1>9 DEF n, h, z
=============================================================================
