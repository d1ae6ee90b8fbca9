--------------------------- MODULE GuestFilesProofs ---------------------------
(* The invariants of GuestFiles hold for all packages, names and orders of the *)
(* rules: a name that is rewritten in the guest's memory is not rewritten      *)
(* again, since nothing in the root is redirected.                             *)
EXTENDS GuestFiles, PathRulesProofs

-----------------------------------------------------------------------------
(* The two names of a data directory                                       *)

LEMMA MeaningOfAlias ==
  ASSUME NEW y \in Path
  PROVE  Meaning(UserData \o y) = AppData \o y /\ Meaning(AppData \o y) = AppData \o y
PROOF
<1> DEFINE a == AppData  u == UserData  m == a \o y  n == u \o y
<1>1. /\ a \in Path /\ Len(a) = 5 /\ a[4] = "data"
      /\ u \in Path /\ Len(u) = 7 /\ u[4] = "user"
  BY Directories
<1> HIDE DEF a, u
<1>2. m \in Path /\ IsPrefix(a, m) /\ n \in Path /\ IsPrefix(u, n)
  BY <1>1, ConcatIs, PrefixOfConcat
<1>3. SubSeq(n, Len(u) + 1, Len(n)) = y
  BY <1>1, RestOfConcat
<1> HIDE DEF m, n
<1>4. ~ IsPrefix(u, m)
  <2> SUFFICES ASSUME IsPrefix(u, m) PROVE FALSE OBVIOUS
  <2>1. 4 \in 1 .. Len(a) /\ 4 <= Len(u) BY <1>1
  <2>2. a[4] = u[4] BY <1>1, <1>2, <2>1, PrefixesAgree
  <2> QED BY <1>1, <2>2
<1>5. Meaning(m) = m BY <1>4 DEF Meaning, u
<1>6. Meaning(n) = a \o y BY <1>2, <1>3, Zenon DEF Meaning, u, a
<1> QED BY <1>5, <1>6, Zenon DEF m, n, a, u

LEMMA MeaningIs ==
  ASSUME NEW n \in Path
  PROVE  \/ Meaning(n) = n
         \/ \E y \in Path : n = UserData \o y /\ Meaning(n) = AppData \o y
PROOF
<1>1. CASE IsPrefix(UserData, n)
  <2> DEFINE y == SubSeq(n, Len(UserData) + 1, Len(n))
  <2>1. UserData \in Path /\ Len(UserData) = 7 BY Directories
  <2>2. n = UserData \o y BY <1>1, <2>1, PrefixAndRest
  <2>3. y \in Path BY <2>1, RestIs
  <2>4. Meaning(n) = AppData \o y BY <1>1 DEF Meaning
  <2> QED BY <2>2, <2>3, <2>4
<1>2. CASE ~ IsPrefix(UserData, n)
  BY <1>2 DEF Meaning
<1> QED BY <1>1, <1>2

\* Two names with one meaning are the same, or a file's two names.
LEMMA SameMeaning ==
  ASSUME NEW m \in Path, NEW n \in Path, Meaning(m) = Meaning(n)
  PROVE  \/ m = n
         \/ \E y \in Path : \/ m = AppData \o y /\ n = UserData \o y
                            \/ m = UserData \o y /\ n = AppData \o y
PROOF
<1>1. \/ Meaning(m) = m
      \/ \E y \in Path : m = UserData \o y /\ Meaning(m) = AppData \o y
  BY MeaningIs
<1>2. \/ Meaning(n) = n
      \/ \E y \in Path : n = UserData \o y /\ Meaning(n) = AppData \o y
  BY MeaningIs
<1>3. ASSUME NEW y \in Path, NEW z \in Path, AppData \o y = AppData \o z
      PROVE  y = z
  BY <1>3, Directories, ConcatCancels
<1> QED BY <1>1, <1>2, <1>3, Zenon

LEMMA MeaningInRoot ==
  ASSUME NEW x \in Path
  PROVE  Meaning(Root) \in Path /\ Meaning(Root \o x) = Meaning(Root) \o x
PROOF
<1>1. PICK dir \in {AppData, UserData}, w \in Path : Root = dir \o (Host \o Slashed(w))
  BY RootIs
<1> DEFINE g == Host \o Slashed(w)  h == g \o x
<1>2. g \in Path
  <2>1. Host \in Path /\ Slashed(w) \in Path BY RootAssumption, PackageNameIsPath, SlashedIs
  <2> QED BY <2>1, ConcatIs
<1> HIDE DEF g
<1>3. h \in Path BY <1>2, ConcatIs
<1>4. Root = dir \o g BY <1>1 DEF g
<1>5. AppData \in Path /\ UserData \in Path BY Directories
<1>6. (dir \o g) \o x = dir \o h /\ (AppData \o g) \o x = AppData \o h
  <2>1. \A d \in Path : (d \o g) \o x = d \o (g \o x)
    <3> TAKE d \in Path
    <3> QED BY <1>2, Associative, Zenon
  <2> QED BY <1>5, <2>1, Zenon
<1> HIDE DEF h
<1>7. AppData \o g \in Path BY <1>2, <1>5, ConcatIs
<1>8. Meaning(Root) = AppData \o g
  BY <1>2, <1>4, MeaningOfAlias, Zenon
<1>9. Root \o x = dir \o h BY <1>4, <1>6, Zenon
<1>10. Meaning(dir \o h) = AppData \o h BY <1>3, MeaningOfAlias, Zenon
<1>11. Meaning(Root \o x) = AppData \o h BY <1>9, <1>10, Zenon
<1>12. Meaning(Root) \o x = AppData \o h BY <1>6, <1>8, Zenon
<1>13. Meaning(Root) \in Path BY <1>7, <1>8, Zenon
<1> QED BY <1>11, <1>12, <1>13, Zenon

-----------------------------------------------------------------------------
(* Which rule a name is moved by                                           *)

LEMMA RuleBegins ==
  ASSUME NEW p \in Path
  PROVE  /\ From(p, 1) = AppData \o p /\ From(p, 2) = UserData \o p
         /\ From(p, 6) = AppData \o p \o Sub("cache") /\ To(1) = To(2)
PROOF
<1>1. /\ Dir[1] = AppData /\ Dir[2] = UserData /\ Dir[6] = AppData
      /\ Behind[1] = <<>> /\ Behind[2] = <<>> /\ Behind[6] = Sub("cache") /\ Target[1] = Target[2]
  BY DEF Dir, Behind, Target
<1>2. \A d \in Path : (d \o p) \o <<>> = d \o p
  <2> SUFFICES ASSUME NEW d \in Path PROVE (d \o p) \o <<>> = d \o p OBVIOUS
  <2>1. d \o p \in Path BY ConcatIs
  <2> QED BY <2>1, ConcatEmptySeq DEF Path
<1>3. AppData \in Path /\ UserData \in Path BY Directories
<1> QED BY <1>1, <1>2, <1>3, Zenon DEF From, To

LEMMA CachedIs ==
  ASSUME NEW p \in Path, NEW n \in Path, IsPrefix(From(p, 6), n)
  PROVE  Cached(p, n)
PROOF
<1> DEFINE f == From(p, 6)  y == SubSeq(n, Len(AppData) + 1, Len(n))
<1>1. f \in Path /\ IsPrefix(AppData, f) /\ f = AppData \o p \o Sub("cache")
  <2>1. Dir[6] = AppData BY DEF Dir
  <2>2. \A k \in 1 .. 6 : From(p, k) \in Path /\ IsPrefix(Dir[k], From(p, k))
    BY FromIs, Zenon
  <2>3. 6 \in 1 .. 6 OBVIOUS
  <2>4. From(p, 6) = AppData \o p \o Sub("cache") BY RuleBegins
  <2> QED BY <2>1, <2>2, <2>3, <2>4, Zenon
<1>2. AppData \in Path /\ Len(AppData) = 5 BY Directories
<1> HIDE DEF f
<1>3. IsPrefix(f, n) BY DEF f
<1>4. IsPrefix(AppData, n) BY <1>1, <1>2, <1>3, PrefixOfPrefix
<1>5. n = AppData \o y BY <1>2, <1>4, PrefixAndRest
<1>6. y \in Path BY <1>2, RestIs
<1> HIDE DEF y
<1>7. Meaning(n) = n BY <1>5, <1>6, MeaningOfAlias, Zenon
<1> QED BY <1>1, <1>3, <1>7, Zenon DEF Cached

LEMMA OneRedirect ==
  ASSUME NEW p \in Path, NEW o \in AnyOrder, NEW q \in AnyOrder, NEW n \in Path, ~ Cached(p, n)
  PROVE  Redirect(p, o, n) = Redirect(p, q, n)
PROOF
<1>1. ASSUME NEW r \in AnyOrder
      PROVE  \/ Redirect(p, r, n) = n /\ \A k \in 1 .. 6 : ~ IsPrefix(From(p, k), n)
             \/ \E k \in 1 .. 6, x \in Path :
                  n = From(p, k) \o x /\ Redirect(p, r, n) = To(k) \o x
  BY RedirectIs, Zenon
<1>2. \A k \in 1 .. 6, x \in Path : n = From(p, k) \o x => IsPrefix(From(p, k), n)
  <2> SUFFICES ASSUME NEW k \in 1 .. 6, NEW x \in Path, n = From(p, k) \o x
               PROVE  IsPrefix(From(p, k), n)
    OBVIOUS
  <2>1. From(p, k) \in Path BY FromIs
  <2>2. IsPrefix(From(p, k), From(p, k) \o x) BY <2>1, PrefixOfConcat
  <2> QED BY <2>2
<1>3. ~ IsPrefix(From(p, 6), n) BY CachedIs
<1>4. \A j, k \in 1 .. 6 : IsPrefix(From(p, j), n) /\ IsPrefix(From(p, k), n) => j = k
  <2> SUFFICES ASSUME NEW j \in 1 .. 6, NEW k \in 1 .. 6,
                      IsPrefix(From(p, j), n), IsPrefix(From(p, k), n)
               PROVE  j = k
    OBVIOUS
  <2>1. j = k \/ (j \in {1, 6} /\ k \in {1, 6}) BY OneRule
  <2> QED BY <1>3, <2>1
<1>5. ASSUME NEW k \in 1 .. 6, NEW x \in Path, NEW y \in Path,
             From(p, k) \o x = From(p, k) \o y
      PROVE  x = y
  <2>1. From(p, k) \in Path BY FromIs
  <2> QED BY <1>5, <2>1, ConcatCancels
<1>6. CASE \A k \in 1 .. 6 : ~ IsPrefix(From(p, k), n)
  BY <1>1, <1>2, <1>6, Zenon
<1>7. ASSUME NEW k \in 1 .. 6, IsPrefix(From(p, k), n)
      PROVE  Redirect(p, o, n) = Redirect(p, q, n)
  <2>1. PICK i \in 1 .. 6, x \in Path : n = From(p, i) \o x /\ Redirect(p, o, n) = To(i) \o x
    BY <1>1, <1>7, Zenon
  <2>2. PICK j \in 1 .. 6, y \in Path : n = From(p, j) \o y /\ Redirect(p, q, n) = To(j) \o y
    BY <1>1, <1>7, Zenon
  <2>3. i = j BY <1>2, <1>4, <2>1, <2>2, Zenon
  <2>4. x = y BY <1>5, <2>1, <2>2, <2>3, Zenon
  <2> QED BY <2>1, <2>2, <2>3, <2>4, Zenon
<1> QED BY <1>6, <1>7

\* The two names of a file that is not cached are redirected to one, or not at all.
LEMMA AliasRedirect ==
  ASSUME NEW p \in Path, NEW o \in AnyOrder, NEW q \in AnyOrder, NEW y \in Path,
         ~ Cached(p, AppData \o y)
  PROVE  Meaning(Redirect(p, o, AppData \o y)) = Meaning(Redirect(p, q, UserData \o y))
PROOF
<1> DEFINE m == AppData \o y  n == UserData \o y
<1>1. AppData \in Path /\ UserData \in Path BY Directories
<1>2. m \in Path /\ n \in Path /\ IsPrefix(AppData, m) /\ IsPrefix(UserData, n)
  BY <1>1, ConcatIs, PrefixOfConcat
<1>3. ~ IsPrefix(From(p, 6), m) BY <1>2, CachedIs
<1>4. Meaning(m) = Meaning(n) BY MeaningOfAlias
<1>5. \A d \in Path, x \in Path : (d \o p) \o x = d \o (p \o x) /\ p \o x \in Path
  <2> SUFFICES ASSUME NEW d \in Path, NEW x \in Path
               PROVE  (d \o p) \o x = d \o (p \o x) /\ p \o x \in Path
    OBVIOUS
  <2>1. (d \o p) \o x = d \o (p \o x) BY Associative, Zenon
  <2>2. p \o x \in Path BY ConcatIs, Zenon
  <2> QED BY <2>1, <2>2, Zenon
<1>6. \A d \in Path, x \in Path, z \in Path : d \o x = d \o z => x = z
  BY ConcatCancels
<1> HIDE DEF m, n
<1>7. \A k \in 1 .. 6, x \in Path, u \in Path : u = From(p, k) \o x => IsPrefix(From(p, k), u)
  <2> SUFFICES ASSUME NEW k \in 1 .. 6, NEW x \in Path, NEW u \in Path, u = From(p, k) \o x
               PROVE  IsPrefix(From(p, k), u)
    OBVIOUS
  <2>1. From(p, k) \in Path BY FromIs
  <2>2. IsPrefix(From(p, k), From(p, k) \o x) BY <2>1, PrefixOfConcat
  <2> QED BY <2>2
<1>8. \A k \in 1 .. 6 : (IsPrefix(From(p, k), m) => k = 1) /\ (IsPrefix(From(p, k), n) => k = 2)
  <2> SUFFICES ASSUME NEW k \in 1 .. 6
               PROVE  (IsPrefix(From(p, k), m) => k = 1) /\ (IsPrefix(From(p, k), n) => k = 2)
    OBVIOUS
  <2>1. From(p, k) \in Path /\ Dir[k] \in Path /\ IsPrefix(Dir[k], From(p, k))
    BY FromIs, DirIs
  <2>2. Dir[1] = AppData /\ Dir[2] = UserData BY DEF Dir
  <2>3. ASSUME IsPrefix(From(p, k), m) PROVE k = 1
    <3>1. IsPrefix(Dir[k], m) /\ IsPrefix(Dir[1], m) BY <1>2, <2>1, <2>2, <2>3, PrefixOfPrefix
    <3>2. k = 1 \/ (k \in {1, 6} /\ 1 \in {1, 6}) BY <1>2, <3>1, OneDirectory
    <3> QED BY <1>3, <2>3, <3>2
  <2>4. ASSUME IsPrefix(From(p, k), n) PROVE k = 2
    <3>1. IsPrefix(Dir[k], n) /\ IsPrefix(Dir[2], n) BY <1>2, <2>1, <2>2, <2>4, PrefixOfPrefix
    <3>2. k = 2 \/ (k \in {1, 6} /\ 2 \in {1, 6}) BY <1>2, <3>1, OneDirectory
    <3> QED BY <3>2
  <2> QED BY <2>3, <2>4
<1>9. \/ Redirect(p, o, m) = m /\ \A k \in 1 .. 6 : ~ IsPrefix(From(p, k), m)
      \/ \E x \in Path : m = From(p, 1) \o x /\ Redirect(p, o, m) = To(1) \o x
  <2>1. \/ Redirect(p, o, m) = m /\ \A k \in 1 .. 6 : ~ IsPrefix(From(p, k), m)
        \/ \E k \in 1 .. 6, x \in Path : m = From(p, k) \o x /\ Redirect(p, o, m) = To(k) \o x
    BY <1>2, RedirectIs, Zenon
  <2>2. \A k \in 1 .. 6, x \in Path : m = From(p, k) \o x => k = 1
    BY <1>2, <1>7, <1>8, Zenon
  <2> QED BY <2>1, <2>2, Zenon
<1>10. \/ Redirect(p, q, n) = n /\ \A k \in 1 .. 6 : ~ IsPrefix(From(p, k), n)
       \/ \E x \in Path : n = From(p, 2) \o x /\ Redirect(p, q, n) = To(2) \o x
  <2>1. \/ Redirect(p, q, n) = n /\ \A k \in 1 .. 6 : ~ IsPrefix(From(p, k), n)
        \/ \E k \in 1 .. 6, x \in Path : n = From(p, k) \o x /\ Redirect(p, q, n) = To(k) \o x
    BY <1>2, RedirectIs, Zenon
  <2>2. \A k \in 1 .. 6, x \in Path : n = From(p, k) \o x => k = 2
    BY <1>2, <1>7, <1>8, Zenon
  <2> QED BY <2>1, <2>2, Zenon
<1>11. \A x \in Path : m = From(p, 1) \o x <=> n = From(p, 2) \o x
  <2> SUFFICES ASSUME NEW x \in Path PROVE m = From(p, 1) \o x <=> n = From(p, 2) \o x
    OBVIOUS
  <2> DEFINE z == p \o x
  <2>1. z \in Path BY <1>1, <1>5
  <2>2. (AppData \o p) \o x = AppData \o z /\ (UserData \o p) \o x = UserData \o z
    BY <1>1, <1>5
  <2> HIDE DEF z
  <2>3. From(p, 1) \o x = AppData \o z /\ From(p, 2) \o x = UserData \o z
    BY <2>2, RuleBegins, Zenon
  <2>4. AppData \o y = AppData \o z => y = z
    BY <1>1, <1>6, <2>1, Zenon
  <2>5. UserData \o y = UserData \o z => y = z
    BY <1>1, <1>6, <2>1, Zenon
  <2>6. m = AppData \o z <=> y = z
    BY <2>4, Zenon DEF m
  <2>7. n = UserData \o z <=> y = z
    BY <2>5, Zenon DEF n
  <2> QED BY <2>3, <2>6, <2>7, Zenon
<1>12. \A x, z \in Path : From(p, 1) \o x = From(p, 1) \o z => x = z
  <2>1. \A k \in 1 .. 6 : From(p, k) \in Path BY FromIs
  <2>2. 1 \in 1 .. 6 OBVIOUS
  <2> QED BY <1>6, <2>1, <2>2, Zenon
<1>13. CASE \A x \in Path : m # From(p, 1) \o x
  BY <1>4, <1>9, <1>10, <1>11, <1>13, Zenon DEF m, n
<1>14. ASSUME NEW x \in Path, m = From(p, 1) \o x
       PROVE  Redirect(p, o, m) = Redirect(p, q, n)
  <2>1. IsPrefix(From(p, 1), m) /\ IsPrefix(From(p, 2), n)
    <3>1. n = From(p, 2) \o x BY <1>11, <1>14, Zenon
    <3>2. 1 \in 1 .. 6 /\ 2 \in 1 .. 6 OBVIOUS
    <3> QED BY <1>2, <1>7, <1>14, <3>1, <3>2, Zenon
  <2>2. PICK u \in Path : m = From(p, 1) \o u /\ Redirect(p, o, m) = To(1) \o u
    <3>1. 1 \in 1 .. 6 OBVIOUS
    <3> QED BY <1>9, <2>1, <3>1, Zenon
  <2>3. PICK v \in Path : n = From(p, 2) \o v /\ Redirect(p, q, n) = To(2) \o v
    <3>1. 2 \in 1 .. 6 OBVIOUS
    <3> QED BY <1>10, <2>1, <3>1, Zenon
  <2>4. m = From(p, 1) \o v BY <1>11, <2>3
  <2>5. u = v BY <1>12, <2>2, <2>4, Zenon
  <2> QED BY <2>2, <2>3, <2>5, RuleBegins, Zenon
<1> QED BY <1>13, <1>14, Zenon DEF m, n

LEMMA TargetIs ==
  ASSUME NEW k \in 1 .. 6
  PROVE  /\ Target[k] \in Path /\ Len(Target[k]) \in Nat /\ Len(Target[k]) >= 2
         /\ Target[k][2] = <<"data", "data", "external_data", "obb", "lib", "cache">>[k]
PROOF
<1> DEFINE lib == Sub("lib") \o <<"/">>
<1>1. k = 1 \/ k = 2 \/ k = 3 \/ k = 4 \/ k = 5 \/ k = 6 OBVIOUS
<1>2. /\ Target[1] = Sub("data") /\ Target[2] = Sub("data") /\ Target[3] = Sub("external_data")
      /\ Target[4] = Sub("obb") /\ Target[5] = lib /\ Target[6] = Sub("cache")
  BY DEF Target
<1>3. \A name \in Piece : Sub(name) \in Path /\ Len(Sub(name)) = 2 /\ Sub(name)[2] = name
  BY Subs
<1>4. {"data", "external_data", "obb", "lib", "cache"} \subseteq Piece
  BY PieceAssumption
<1>5. lib \in Path /\ Len(lib) = 3 /\ lib[2] = "lib"
  <2> DEFINE s == Sub("lib")  t == <<"/">>  u == s \o t
  <2>1. s \in Path /\ Len(s) = 2 /\ s[2] = "lib" /\ t \in Path /\ Len(t) = 1
    BY <1>3, <1>4, Slash
  <2> HIDE DEF s, t
  <2>2. u \in Path /\ Len(u) = Len(s) + Len(t) /\ \A i \in 1 .. Len(s) : u[i] = s[i]
    BY <2>1, ConcatIs
  <2>3. lib = u BY DEF s, t
  <2> HIDE DEF u, lib
  <2> QED BY <2>1, <2>2, <2>3
<1> HIDE DEF lib
<1>6. CASE k \in {1, 2}
  <2>1. Target[k] = Sub("data") BY <1>2, <1>6
  <2> QED BY <1>3, <1>4, <1>6, <2>1
<1>7. CASE k = 3 BY <1>2, <1>3, <1>4, <1>7
<1>8. CASE k = 4 BY <1>2, <1>3, <1>4, <1>8
<1>9. CASE k = 5 BY <1>2, <1>5, <1>9
<1>10. CASE k = 6 BY <1>2, <1>3, <1>4, <1>10
<1> QED BY <1>1, <1>6, <1>7, <1>8, <1>9, <1>10

LEMMA TargetsApart ==
  ASSUME NEW j \in 1 .. 6, NEW k \in 1 .. 6, NEW x \in Path, NEW y \in Path,
         Target[j] \o x = Target[k] \o y
  PROVE  x = y /\ (j = k \/ (j \in {1, 2} /\ k \in {1, 2}))
PROOF
<1> DEFINE s == Target[j]  t == Target[k]  n == s \o x
<1>1. /\ s \in Path /\ Len(s) \in Nat /\ Len(s) >= 2
      /\ t \in Path /\ Len(t) \in Nat /\ Len(t) >= 2
  BY TargetIs
<1>2. n = t \o y OBVIOUS
<1> HIDE DEF s, t
<1>3. n \in Path /\ IsPrefix(s, n) BY <1>1, ConcatIs, PrefixOfConcat
<1> HIDE DEF n
<1>4. IsPrefix(t, n) BY <1>1, <1>2, PrefixOfConcat
<1>5. s[2] = t[2]
  <2>1. 2 \in 1 .. Len(s) /\ 2 <= Len(t) BY <1>1
  <2> QED BY <1>1, <1>3, <1>4, <2>1, PrefixesAgree
<1>6. j = k \/ (j \in {1, 2} /\ k \in {1, 2})
  <2>1. <<"data", "data", "external_data", "obb", "lib", "cache">>[j]
          = <<"data", "data", "external_data", "obb", "lib", "cache">>[k]
    BY <1>5, TargetIs DEF s, t
  <2>2. /\ j = 1 \/ j = 2 \/ j = 3 \/ j = 4 \/ j = 5 \/ j = 6
        /\ k = 1 \/ k = 2 \/ k = 3 \/ k = 4 \/ k = 5 \/ k = 6
    OBVIOUS
  <2> QED BY <2>1, <2>2
<1>7. s = t
  <2>1. Target[1] = Target[2] BY DEF Target
  <2> QED BY <1>6, <2>1 DEF s, t
<1>8. s \o x = s \o y BY <1>2, <1>7 DEF n
<1>9. x = y BY <1>1, <1>8, ConcatCancels
<1> QED BY <1>6, <1>9

\* What two names outside the root are redirected to is apart if the names are.
LEMMA RedirectsApart ==
  ASSUME NEW p \in Path, NEW o \in AnyOrder, NEW q \in AnyOrder, NEW m \in Path, NEW n \in Path,
         Outside(m), Outside(n), Meaning(Redirect(p, o, m)) = Meaning(Redirect(p, q, n))
  PROVE  Meaning(m) = Meaning(n)
PROOF
<1> DEFINE M == Meaning(Root)
<1>1. M \in Path /\ \A x \in Path : Meaning(Root \o x) = M \o x
  BY MeaningInRoot, ConcatIs DEF Path
<1>2. \A k \in 1 .. 6, x \in Path :
        To(k) \o x = Root \o (Target[k] \o x) /\ Target[k] \o x \in Path
  BY ToIs
<1>3. \A k \in 1 .. 6, x \in Path : Meaning(To(k) \o x) = M \o (Target[k] \o x)
  BY <1>1, <1>2, Zenon
<1> HIDE DEF M
<1>4. \A x \in Path : IsPrefix(M, M \o x)
  BY <1>1, PrefixOfConcat
<1>5. \A k \in 1 .. 6, x \in Path : Meaning(m) # Meaning(To(k) \o x) /\ Meaning(n) # Meaning(To(k) \o x)
  <2> SUFFICES ASSUME NEW k \in 1 .. 6, NEW x \in Path
               PROVE  Meaning(m) # Meaning(To(k) \o x) /\ Meaning(n) # Meaning(To(k) \o x)
    OBVIOUS
  <2> DEFINE u == Target[k] \o x
  <2>1. u \in Path BY <1>2
  <2>2. Meaning(To(k) \o x) = M \o u BY <1>3
  <2> HIDE DEF u
  <2>3. IsPrefix(M, M \o u) BY <1>4, <2>1
  <2>4. ~ IsPrefix(M, Meaning(m)) /\ ~ IsPrefix(M, Meaning(n)) BY DEF Outside, M
  <2> QED BY <2>2, <2>3, <2>4, Zenon
<1>6. \/ Redirect(p, o, m) = m
      \/ \E k \in 1 .. 6, x \in Path : m = From(p, k) \o x /\ Redirect(p, o, m) = To(k) \o x
  <2>1. \/ Redirect(p, o, m) = m /\ \A k \in 1 .. 6 : ~ IsPrefix(From(p, k), m)
        \/ \E k \in 1 .. 6, x \in Path : m = From(p, k) \o x /\ Redirect(p, o, m) = To(k) \o x
    BY RedirectIs, Zenon
  <2> QED BY <2>1, Zenon
<1>7. \/ Redirect(p, q, n) = n
      \/ \E k \in 1 .. 6, x \in Path : n = From(p, k) \o x /\ Redirect(p, q, n) = To(k) \o x
  <2>1. \/ Redirect(p, q, n) = n /\ \A k \in 1 .. 6 : ~ IsPrefix(From(p, k), n)
        \/ \E k \in 1 .. 6, x \in Path : n = From(p, k) \o x /\ Redirect(p, q, n) = To(k) \o x
    BY RedirectIs, Zenon
  <2> QED BY <2>1, Zenon
<1>8. ASSUME NEW j \in 1 .. 6, NEW x \in Path, m = From(p, j) \o x, Redirect(p, o, m) = To(j) \o x,
             NEW k \in 1 .. 6, NEW y \in Path, n = From(p, k) \o y, Redirect(p, q, n) = To(k) \o y
      PROVE  Meaning(m) = Meaning(n)
  <2> DEFINE u == Target[j] \o x  v == Target[k] \o y
  <2>1. M \o u = M \o v
    <3>1. Meaning(To(j) \o x) = M \o (Target[j] \o x) BY <1>3
    <3>2. Meaning(To(k) \o y) = M \o (Target[k] \o y) BY <1>3
    <3>3. Meaning(To(j) \o x) = Meaning(To(k) \o y) BY <1>8, Zenon
    <3> QED BY <3>1, <3>2, <3>3, Zenon
  <2>2. u \in Path /\ v \in Path BY <1>2
  <2>3. u = v
    <3> HIDE DEF u, v
    <3> QED BY <1>1, <2>1, <2>2, ConcatCancels
  <2>4. x = y /\ (j = k \/ (j \in {1, 2} /\ k \in {1, 2}))
    BY <2>3, TargetsApart
  <2>5. CASE j = k
    BY <1>8, <2>4, <2>5, Zenon
  <2>6. CASE j \in {1, 2} /\ k \in {1, 2}
    <3> DEFINE z == p \o x
    <3>1. z \in Path BY ConcatIs
    <3>2. AppData \in Path /\ UserData \in Path BY Directories
    <3>3. (AppData \o p) \o x = AppData \o z /\ (UserData \o p) \o x = UserData \o z
      <4>1. \A d \in Path : (d \o p) \o x = d \o (p \o x) BY Associative
      <4> QED BY <3>2, <4>1, Zenon
    <3> HIDE DEF z
    <3>4. Meaning(From(p, 1) \o x) = AppData \o z /\ Meaning(From(p, 2) \o x) = AppData \o z
      BY <3>1, <3>3, RuleBegins, MeaningOfAlias, Zenon
    <3>5. \A i \in {1, 2} : Meaning(From(p, i) \o x) = AppData \o z
      BY <3>4, Zenon
    <3> QED BY <1>8, <2>4, <2>6, <3>5, Zenon
  <2> QED BY <2>4, <2>5, <2>6
<1> DEFINE r == Redirect(p, o, m)  t == Redirect(p, q, n)
<1>9. Meaning(r) = Meaning(t) OBVIOUS
<1> HIDE DEF r, t
<1>10. CASE r = m
  <2>1. \A k \in 1 .. 6, x \in Path : t # To(k) \o x BY <1>5, <1>9, <1>10, Zenon
  <2>2. t = n BY <1>7, <2>1, Zenon DEF t
  <2> QED BY <1>9, <1>10, <2>2
<1>11. CASE t = n
  <2>1. \A k \in 1 .. 6, x \in Path : r # To(k) \o x BY <1>5, <1>9, <1>11, Zenon
  <2>2. r = m BY <1>6, <2>1, Zenon DEF r
  <2> QED BY <1>9, <1>11, <2>2
<1>12. CASE r # m /\ t # n
  <2>1. PICK j \in 1 .. 6, x \in Path : m = From(p, j) \o x /\ r = To(j) \o x
    BY <1>6, <1>12, Zenon DEF r
  <2>2. PICK k \in 1 .. 6, y \in Path : n = From(p, k) \o y /\ t = To(k) \o y
    BY <1>7, <1>12, Zenon DEF t
  <2> QED BY <1>8, <2>1, <2>2, Zenon DEF r, t
<1> QED BY <1>10, <1>11, <1>12

-----------------------------------------------------------------------------
(* The constants                                                           *)

LEMMA ConstantsAre ==
  /\ \A p \in Package : p \in Guest /\ p \in PackageName /\ p \in Path
  /\ Order \subseteq AnyOrder
  /\ \A p \in Package : \A n \in Names(p) : n \in Path /\ n # <<>> /\ Len(n) \in Nat /\ Len(n) >= 1
PROOF
<1>1. \A p \in Package : p \in Guest /\ p \in PackageName /\ p \in Path
  BY PackageAssumption, PackageNameIsPath DEF Guest
<1>2. Order \subseteq AnyOrder
  BY OrderAssumption DEF AnyOrder
<1>3. \A n \in Path : n # <<>> => Len(n) \in Nat /\ Len(n) >= 1
  BY DEF Path
<1> QED BY <1>1, <1>2, <1>3, NamesAssumption

LEMMA RoomIs ==
  ASSUME NEW p \in Path
  PROVE  Room(p) \in Nat /\ Room(p) >= 1 /\ Room(p) + 3 + Len(p) >= Word + Len(Root)
PROOF
<1> DEFINE x == Word + Len(Root \o Sub("data")) - Len(AppData \o p)
<1>1. Len(Root \o Sub("data")) = Len(Root) + 2 /\ Len(AppData \o p) = 5 + Len(p)
  <2>1. Root \in Path /\ Sub("data") \in Path /\ Len(Sub("data")) = 2
        /\ AppData \in Path /\ Len(AppData) = 5
    BY RootAssumption, Subs, PieceAssumption, Directories
  <2> DEFINE s == Sub("data")  a == AppData
  <2>2. Root \in Path /\ s \in Path /\ Len(s) = 2 /\ a \in Path /\ Len(a) = 5 BY <2>1
  <2> HIDE DEF s, a
  <2>3. Len(Root \o s) = Len(Root) + Len(s) /\ Len(a \o p) = Len(a) + Len(p)
    BY <2>2, ConcatIs
  <2> QED BY <2>2, <2>3 DEF s, a
<1>2. Len(Root) \in Nat /\ Len(p) \in Nat /\ Word \in Nat
  BY RootAssumption, PathIs
<1>3. x = Word + (Len(Root) + 2) - (5 + Len(p))
  BY <1>1
<1> HIDE DEF x
<1>4. x \in Int BY <1>2, <1>3
<1>5. Max({1, x}) \in {1, x} /\ Max({1, x}) >= 1 /\ Max({1, x}) >= x
  <2>1. \E m \in {1, x} : \A y \in {1, x} : m >= y
    BY <1>4
  <2> QED BY <1>4, <2>1 DEF Max
<1>6. Room(p) = Max({1, x}) BY DEF Room, x
<1> QED BY <1>2, <1>3, <1>4, <1>5, <1>6

\* A guest's name, redirected: a path that stays, and has Room.
LEMMA Rewritten ==
  ASSUME NEW p \in Package, NEW o \in Order, NEW n \in Names(p)
  PROVE  LET r == Redirect(p, o, n)
         IN  /\ r \in Path /\ Len(r) \in Nat /\ Redirect(p, o, r) = r
             /\ r = n \/ Len(r) + Word <= Len(n) + Room(p)
PROOF
<1> DEFINE r == Redirect(p, o, n)
<1>1. p \in Guest /\ p \in Path /\ o \in AnyOrder /\ n \in Path
  BY ConstantsAre
<1>2. r \in Path /\ Redirect(p, o, r) = r
  BY <1>1, RedirectTwice, Zenon
<1>3. r = n \/ Len(r) + 3 + Len(p) <= Len(n) + Len(Root)
  BY <1>1, NotMuchLonger
<1> HIDE DEF r
<1>4. /\ Len(r) \in Nat /\ Len(n) \in Nat /\ Len(p) \in Nat /\ Len(Root) \in Nat /\ Word \in Nat
  BY <1>1, <1>2, PathIs, RootAssumption
<1>5. Room(p) \in Nat /\ Room(p) + 3 + Len(p) >= Word + Len(Root)
  BY <1>1, RoomIs
<1>6. r = n \/ Len(r) + Word <= Len(n) + Room(p)
  BY <1>3, <1>4, <1>5
<1> QED BY <1>2, <1>4, <1>6 DEF r

\* What a guest that starts has in its memory.
Second(m, gap) == Len(m) + gap + 1
LastCell(m, n, gap, room) == Len(m) + gap + Len(n) + room
Fresh(m, n, gap, room) ==
  Filled(Filled([i \in 1 .. LastCell(m, n, gap, room) |-> "nul"], 1, m, 0), Second(m, gap), n, 0)

LEMMA FreshIs ==
  ASSUME NEW m \in Path, NEW n \in Path, NEW gap \in Nat, gap >= 1, NEW room \in Nat, room >= 1
  PROVE  /\ DOMAIN Fresh(m, n, gap, room) = 1 .. LastCell(m, n, gap, room)
         /\ \A i \in 1 .. Len(m) : Fresh(m, n, gap, room)[1 + i - 1] = m[i]
         /\ Fresh(m, n, gap, room)[1 + Len(m)] = "nul"
         /\ \A i \in 1 .. Len(n) : Fresh(m, n, gap, room)[Second(m, gap) + i - 1] = n[i]
         /\ Fresh(m, n, gap, room)[Second(m, gap) + Len(n)] = "nul"
PROOF
<1> DEFINE last == Len(m) + gap + Len(n) + room
           a == Len(m) + gap + 1
           empty == [i \in 1 .. last |-> "nul"]
           one == Filled(empty, 1, m, 0)
           new == Filled(one, a, n, 0)
<1>1. Len(m) \in Nat /\ Len(n) \in Nat /\ Word \in Nat
  BY PathIs, RootAssumption
<1>2. 0 * Word = 0 BY <1>1
<1>3. one = [i \in DOMAIN empty |->
               IF i \in 1 .. 1 + Len(m) - 1 THEN m[i - 1 + 1]
               ELSE IF i \in 1 + Len(m) .. 1 + 0 - 1 THEN "nul" ELSE empty[i]]
  BY <1>2 DEF Filled
<1>4. new = [i \in DOMAIN one |->
               IF i \in a .. a + Len(n) - 1 THEN n[i - a + 1]
               ELSE IF i \in a + Len(n) .. a + 0 - 1 THEN "nul" ELSE one[i]]
  BY <1>2 DEF Filled
<1>5. DOMAIN empty = 1 .. last /\ \A i \in 1 .. last : empty[i] = "nul"
  OBVIOUS
<1>6. last \in Nat /\ a \in Nat BY <1>1
<1> HIDE DEF empty, one, new
<1>7. /\ DOMAIN one = 1 .. last
      /\ \A i \in 1 .. Len(m) : one[i] = m[i]
      /\ \A i \in 1 .. last : i > Len(m) => one[i] = "nul"
  BY <1>1, <1>3, <1>5, <1>6
<1>8. DOMAIN new = 1 .. last
  BY <1>4, <1>7
<1>9. ASSUME NEW i \in 1 .. Len(m) PROVE new[1 + i - 1] = m[i]
  <2>1. 1 + i - 1 = i /\ i \in 1 .. last /\ i \notin a .. a + Len(n) - 1 /\ i \notin a + Len(n) .. a + 0 - 1
    BY <1>1
  <2> QED BY <1>4, <1>7, <2>1
<1>10. new[1 + Len(m)] = "nul"
  <2>1. /\ 1 + Len(m) \in 1 .. last /\ 1 + Len(m) > Len(m)
        /\ 1 + Len(m) \notin a .. a + Len(n) - 1 /\ 1 + Len(m) \notin a + Len(n) .. a + 0 - 1
    BY <1>1
  <2> QED BY <1>4, <1>7, <2>1
<1>11. ASSUME NEW i \in 1 .. Len(n) PROVE new[a + i - 1] = n[i]
  <2>1. /\ a + i - 1 \in 1 .. last /\ a + i - 1 \in a .. a + Len(n) - 1
        /\ (a + i - 1) - a + 1 = i
    BY <1>1
  <2> QED BY <1>4, <1>7, <2>1
<1>12. new[a + Len(n)] = "nul"
  <2>1. /\ a + Len(n) \in 1 .. last /\ a + Len(n) > Len(m)
        /\ a + Len(n) \notin a .. a + Len(n) - 1 /\ a + Len(n) \notin a + Len(n) .. a + 0 - 1
    BY <1>1
  <2> QED BY <1>4, <1>7, <2>1
<1>13. new = Fresh(m, n, gap, room)
  BY DEF new, one, empty, Fresh, LastCell, Second
<1> QED BY <1>8, <1>9, <1>10, <1>11, <1>12, <1>13 DEF LastCell, Second

-----------------------------------------------------------------------------
(* The inductive invariant                                                 *)

\* Between two guests there is nothing in memory to hold.
LEMMA NoGuest ==
  ASSUME names = [b \in Buffer |-> <<>>], addr = [b \in Buffer |-> b],
         mem = [i \in 1 .. 3 |-> "nul"], mangled = {},
         pkg \in Package, order \in Order,
         opened \subseteq [pkg : Package, name : Path, real : Path],
         \A r \in opened : r.name \in Names(r.pkg), OpensAreRedirects
  PROVE  FilesInv
PROOF
<1>1. names[1] = <<>> /\ addr[1] = 1 /\ addr[2] = 2 /\ addr \in [Buffer -> Nat]
  BY DEF Buffer
<1>2. Len(names[1]) = 0 BY <1>1
<1>3. DOMAIN mem \subseteq Nat OBVIOUS
<1>4. TypeOK BY <1>1, <1>2, <1>3 DEF TypeOK
<1>5. BuffersHold /\ BuffersApart /\ NamesSurvive
  BY <1>1 DEF BuffersHold, BuffersApart, NamesSurvive
<1> QED BY <1>4, <1>5 DEF FilesInv

LEMMA FilesInit == Init => FilesInv
PROOF
<1> SUFFICES ASSUME Init PROVE FilesInv
  OBVIOUS
<1>1. opened = {} BY DEF Init
<1>2. OpensAreRedirects BY <1>1 DEF OpensAreRedirects
<1> QED BY <1>1, <1>2, NoGuest DEF Init

LEMMA FilesEnd == FilesInv /\ End => FilesInv'
PROOF
<1> SUFFICES ASSUME FilesInv, End PROVE FilesInv'
  OBVIOUS
<1>1. pkg' \in Package /\ order' \in Order
      /\ opened' \subseteq [pkg : Package, name : Path, real : Path]
      /\ \A r \in opened' : r.name \in Names(r.pkg)
  BY DEF FilesInv, TypeOK, End
<1>2. OpensAreRedirects'
  BY DEF FilesInv, OpensAreRedirects, End
<1>3. /\ names' = [b \in Buffer |-> <<>>] /\ addr' = [b \in Buffer |-> b]
      /\ mem' = [i \in 1 .. 3 |-> "nul"] /\ mangled' = {}
  BY DEF End
<1>4. names'[1] = <<>> /\ addr'[1] = 1 /\ addr'[2] = 2 /\ addr' \in [Buffer -> Nat]
  BY <1>3 DEF Buffer
<1>5. Len(names'[1]) = 0 BY <1>4
<1>6. DOMAIN mem' \subseteq Nat BY <1>3
<1>7. TypeOK' BY <1>1, <1>3, <1>4, <1>5, <1>6 DEF TypeOK
<1>8. BuffersHold' /\ BuffersApart' /\ NamesSurvive'
  BY <1>3, <1>4 DEF BuffersHold, BuffersApart, NamesSurvive
<1> QED BY <1>2, <1>7, <1>8 DEF FilesInv

LEMMA FilesStart ==
  ASSUME FilesInv, NEW p \in Package, NEW o \in Order, NEW n1 \in Names(p), NEW n2 \in Names(p),
         NEW gap \in {1, Room(p)}, Start(p, o, n1, n2, gap)
  PROVE  FilesInv'
PROOF
<1>1. /\ n1 \in Path /\ n1 # <<>> /\ Len(n1) \in Nat /\ Len(n1) >= 1
      /\ n2 \in Path /\ n2 # <<>> /\ Len(n2) \in Nat /\ Len(n2) >= 1 /\ p \in Path
  BY ConstantsAre
<1>2. Room(p) \in Nat /\ Room(p) >= 1 /\ gap \in Nat /\ gap >= 1
  BY <1>1, RoomIs
<1> DEFINE last == LastCell(n1, n2, gap, Room(p))
           a == Second(n1, gap)
<1>3. mem' = Fresh(n1, n2, gap, Room(p))
  BY Zenon DEF Start, Fresh, LastCell, Second
<1>4. /\ DOMAIN mem' = 1 .. last
      /\ (\A i \in 1 .. Len(n1) : mem'[1 + i - 1] = n1[i]) /\ mem'[1 + Len(n1)] = "nul"
      /\ (\A i \in 1 .. Len(n2) : mem'[a + i - 1] = n2[i]) /\ mem'[a + Len(n2)] = "nul"
  <2> DEFINE new == Fresh(n1, n2, gap, Room(p))
  <2>1. /\ DOMAIN new = 1 .. last
        /\ (\A i \in 1 .. Len(n1) : new[1 + i - 1] = n1[i]) /\ new[1 + Len(n1)] = "nul"
        /\ (\A i \in 1 .. Len(n2) : new[a + i - 1] = n2[i]) /\ new[a + Len(n2)] = "nul"
    <3> DEFINE room == Room(p)
    <3>1. n1 \in Path /\ n2 \in Path /\ gap \in Nat /\ gap >= 1 /\ room \in Nat /\ room >= 1
      BY <1>1, <1>2
    <3> HIDE DEF room
    <3>2. DOMAIN Fresh(n1, n2, gap, room) = 1 .. LastCell(n1, n2, gap, room)
      BY <3>1, FreshIs
    <3>3. /\ \A i \in 1 .. Len(n1) : Fresh(n1, n2, gap, room)[1 + i - 1] = n1[i]
          /\ Fresh(n1, n2, gap, room)[1 + Len(n1)] = "nul"
      BY <3>1, FreshIs
    <3>4. /\ \A i \in 1 .. Len(n2) : Fresh(n1, n2, gap, room)[Second(n1, gap) + i - 1] = n2[i]
          /\ Fresh(n1, n2, gap, room)[Second(n1, gap) + Len(n2)] = "nul"
      BY <3>1, FreshIs
    <3> QED BY <3>2, <3>3, <3>4 DEF room
  <2> QED BY <1>3, <2>1
<1>5. /\ pkg' = p /\ order' = o /\ names' = <<n1, n2>> /\ addr' = <<1, a>> /\ mangled' = {}
      /\ opened' = opened
  BY DEF Start, Second
<1>6. /\ names'[1] = n1 /\ names'[2] = n2 /\ addr'[1] = 1 /\ addr'[2] = a
      /\ names' \in [Buffer -> Names(p)]
  BY <1>5 DEF Buffer
<1>7. a \in Nat /\ last \in Nat /\ a >= Len(n1) + 2 /\ a + Len(n2) + Room(p) - 1 = last
  BY <1>1, <1>2 DEF LastCell, Second
<1>8. addr' \in [Buffer -> Nat]
  BY <1>5, <1>7 DEF Buffer
<1> HIDE DEF a, last
<1>9. TypeOK'
  <2>1. DOMAIN mem' \subseteq Nat /\ 1 .. a + Len(n2) + Room(p) - 1 \subseteq DOMAIN mem'
    BY <1>4, <1>7
  <2> QED BY <1>5, <1>6, <1>7, <1>8, <2>1 DEF TypeOK, FilesInv
<1>10. Holds(1, n1)' /\ Holds(a, n2)'
  BY <1>4 DEF Holds
<1>11. ReadString(mem', 1) = n1 /\ ReadString(mem', a) = n2
  <2>1. /\ DOMAIN mem' \subseteq Nat
        /\ 1 .. 1 + Len(n1) \subseteq DOMAIN mem' /\ a .. a + Len(n2) \subseteq DOMAIN mem'
    BY <1>1, <1>2, <1>4, <1>7
  <2> DEFINE new == mem'  one == 1
  <2>2. /\ DOMAIN new \subseteq Nat /\ one \in Nat /\ a \in Nat
        /\ one .. one + Len(n1) \subseteq DOMAIN new /\ a .. a + Len(n2) \subseteq DOMAIN new
        /\ (\A i \in 1 .. Len(n1) : new[one + i - 1] = n1[i]) /\ new[one + Len(n1)] = "nul"
        /\ (\A i \in 1 .. Len(n2) : new[a + i - 1] = n2[i]) /\ new[a + Len(n2)] = "nul"
    BY <1>4, <1>7, <2>1
  <2> HIDE DEF new, one
  <2>3. ReadString(new, one) = n1 BY <1>1, <2>2, ReadIs
  <2>4. ReadString(new, a) = n2
    <3>1. /\ DOMAIN new \subseteq Nat /\ a \in Nat /\ n2 \in Path /\ a .. a + Len(n2) \subseteq DOMAIN new
          /\ (\A i \in 1 .. Len(n2) : new[a + i - 1] = n2[i]) /\ new[a + Len(n2)] = "nul"
      BY <1>1, <2>2
    <3> QED BY <3>1, ReadIs
  <2> QED BY <2>3, <2>4 DEF new, one
<1>12. n1 \in Contents(1)' /\ n2 \in Contents(2)'
  BY <1>6 DEF Contents
<1>13. BuffersHold'
  BY <1>6, <1>11, <1>12 DEF BuffersHold, Buffer
<1>14. BuffersApart'
  BY <1>6, <1>10, <1>12 DEF BuffersApart, Buffer
<1>15. NamesSurvive' /\ OpensAreRedirects'
  BY <1>5 DEF FilesInv, NamesSurvive, OpensAreRedirects
<1> QED BY <1>9, <1>13, <1>14, <1>15 DEF FilesInv

\* What is read from a buffer that holds one of two strings.
LEMMA HoldsIs ==
  ASSUME NEW a \in Nat, NEW s \in Path, DOMAIN mem \subseteq Nat, a .. a + Len(s) \subseteq DOMAIN mem,
         Holds(a, s)
  PROVE  ReadString(mem, a) = s
BY ReadIs DEF Holds

LEMMA FilesOpen ==
  ASSUME FilesInv, NEW b \in Buffer, Open(b)
  PROVE  FilesInv'
PROOF
<1> DEFINE path == ReadString(mem, addr[b])
           n(c) == names[c]
           r(c) == Redirect(pkg, order, names[c])
<1>1. /\ pkg \in Package /\ order \in Order /\ names[b] # <<>>
      /\ DOMAIN mem \subseteq Nat /\ addr \in [Buffer -> Nat]
      /\ addr[1] = 1 /\ addr[2] >= Len(names[1]) + 2
  BY DEF FilesInv, TypeOK, Open
<1>2. names \in [Buffer -> Names(pkg)]
  BY <1>1 DEF FilesInv, TypeOK
<1>3. \A c \in Buffer : n(c) \in Names(pkg) /\ n(c) \in Path /\ n(c) # <<>> /\ Len(n(c)) \in Nat
  BY <1>1, <1>2, ConstantsAre
<1>4. \A c \in Buffer : /\ r(c) \in Path /\ Len(r(c)) \in Nat /\ Redirect(pkg, order, r(c)) = r(c)
                        /\ r(c) = n(c) \/ Len(r(c)) + Word <= Len(n(c)) + Room(pkg)
  BY <1>1, <1>3, Rewritten
<1>5. Room(pkg) \in Nat /\ Room(pkg) >= 1 /\ Word \in Nat /\ Word >= 1 /\ pkg \in Path
  BY <1>1, ConstantsAre, RoomIs, RootAssumption
<1>6. names[1] # <<>> BY <1>3 DEF Buffer
<1>7. 1 .. addr[2] + Len(n(2)) + Room(pkg) - 1 \subseteq DOMAIN mem
  BY <1>6 DEF FilesInv, TypeOK
<1>8. \A c \in Buffer : Contents(c) = {n(c), r(c)}
  BY DEF Contents
<1> HIDE DEF n, r
\* The cells of either string, and of what pads it.
<1>9. \A c \in Buffer, s \in Path : s \in Contents(c) =>
        /\ Len(s) <= Len(n(c)) + Room(pkg) - 1
        /\ addr[c] .. addr[c] + Len(s) \subseteq DOMAIN mem
  <2> SUFFICES ASSUME NEW c \in Buffer, NEW s \in Path, s \in Contents(c)
               PROVE  /\ Len(s) <= Len(n(c)) + Room(pkg) - 1
                      /\ addr[c] .. addr[c] + Len(s) \subseteq DOMAIN mem
    OBVIOUS
  <2>1. Len(s) \in Nat /\ Len(s) <= Len(n(c)) + Room(pkg) - 1
    BY <1>3, <1>4, <1>5, <1>8
  <2>2. n(1) = names[1] /\ n(2) = names[2] BY DEF n
  <2>3. CASE c = 1
    <3>1. addr[1] + Len(s) <= addr[2] + Len(n(2)) + Room(pkg) - 1
      BY <1>1, <1>3, <1>5, <2>1, <2>2, <2>3 DEF Buffer
    <3> QED BY <1>1, <1>3, <1>5, <1>7, <2>1, <2>3, <3>1 DEF Buffer
  <2>4. CASE c = 2
    <3>1. addr[2] + Len(s) <= addr[2] + Len(n(2)) + Room(pkg) - 1 /\ addr[2] >= 1 /\ addr[2] \in Nat
      BY <1>1, <1>3, <1>5, <2>1, <2>2, <2>4 DEF Buffer
    <3> QED BY <1>3, <1>5, <1>7, <2>1, <2>4, <3>1 DEF Buffer
  <2> QED BY <2>1, <2>3, <2>4 DEF Buffer
<1>10. b \notin mangled => path \in Contents(b)
  BY <1>6 DEF FilesInv, BuffersHold
<1> DEFINE real == Redirect(pkg, order, path)
<1>11. /\ mem' = IF real = path THEN mem ELSE WriteString(mem, addr[b], real)
       /\ mangled' = mangled \cup
            {c \in Buffer \ {b} : ReadString(mem', addr[c]) # ReadString(mem, addr[c])}
       /\ opened' = IF b \in mangled THEN opened
                    ELSE opened \cup {[pkg |-> pkg, name |-> names[b], real |-> real]}
       /\ pkg' = pkg /\ order' = order /\ names' = names /\ addr' = addr
  BY DEF Open
<1>12. b \notin mangled => real = r(b)
  <2> SUFFICES ASSUME b \notin mangled PROVE real = r(b) OBVIOUS
  <2>1. path = n(b) \/ path = r(b) BY <1>8, <1>10
  <2>2. CASE path = n(b) BY <2>2 DEF r, n
  <2>3. CASE path = r(b) BY <1>4, <2>3
  <2> QED BY <2>1, <2>2, <2>3
<1> HIDE DEF path, real
<1>13. DOMAIN mem' = DOMAIN mem
  BY <1>11 DEF WriteString, Filled
\* What the call wrote, if it wrote into a buffer that is not mangled.
<1>14. ASSUME b \notin mangled, real # path
       PROVE  /\ (\A i \in 1 .. Len(r(b)) : mem'[addr[b] + i - 1] = r(b)[i])
              /\ mem'[addr[b] + Len(r(b))] = "nul"
              /\ \A i \in DOMAIN mem : i < addr[b] \/ i >= addr[b] + Len(r(b)) + Word => mem'[i] = mem[i]
              /\ Len(r(b)) + Word <= Len(n(b)) + Room(pkg)
  <2> DEFINE s == r(b)  a == addr[b]  new == WriteString(mem, a, s)
  <2>1. s \in Path /\ a \in Nat BY <1>1, <1>4
  <2>2. a .. a + Len(s) \subseteq DOMAIN mem
    BY <1>4, <1>8, <1>9
  <2>3. mem' = new
    BY <1>11, <1>12, <1>14
  <2>4. r(b) # n(b)
    BY <1>8, <1>10, <1>12, <1>14
  <2>5. Len(r(b)) + Word <= Len(n(b)) + Room(pkg)
    BY <1>4, <2>4
  <2> HIDE DEF s, a
  <2>6. /\ (\A i \in 1 .. Len(s) : new[a + i - 1] = s[i]) /\ new[a + Len(s)] = "nul"
        /\ \A i \in DOMAIN mem : i < a \/ i >= a + Len(s) + Word => new[i] = mem[i]
    BY <1>1, <2>1, <2>2, WrittenIs
  <2> HIDE DEF new
  <2> QED BY <2>3, <2>5, <2>6 DEF s, a
<1>15. b \notin mangled => ReadString(mem', addr[b]) \in Contents(b)
  <2>1. CASE real = path BY <1>10, <1>11, <2>1 DEF path
  <2>2. ASSUME b \notin mangled, real # path PROVE ReadString(mem', addr[b]) = r(b)
    <3> DEFINE new == mem'  s == r(b)  a == addr[b]
    <3>1. /\ DOMAIN new \subseteq Nat /\ a \in Nat /\ s \in Path /\ a .. a + Len(s) \subseteq DOMAIN new
      BY <1>1, <1>4, <1>8, <1>9, <1>13
    <3>2. (\A i \in 1 .. Len(s) : new[a + i - 1] = s[i]) /\ new[a + Len(s)] = "nul"
      BY <1>14, <2>2
    <3> HIDE DEF new, s, a
    <3>3. ReadString(new, a) = s BY <3>1, <3>2, ReadIs
    <3> QED BY <3>3 DEF new, s, a
  <2> QED BY <1>8, <2>1, <2>2
<1>16. TypeOK'
  <2>1. opened' \subseteq [pkg : Package, name : Path, real : Path]
        /\ \A x \in opened' : x.name \in Names(x.pkg)
    <3>1. opened \subseteq [pkg : Package, name : Path, real : Path]
          /\ \A x \in opened : x.name \in Names(x.pkg)
      BY DEF FilesInv, TypeOK
    <3>2. CASE b \in mangled BY <1>11, <3>1, <3>2
    <3>3. CASE b \notin mangled
      <4>1. real \in Path BY <1>4, <1>12, <3>3
      <4>2. names[b] \in Names(pkg) /\ names[b] \in Path BY <1>3 DEF n
      <4>3. opened' = opened \cup {[pkg |-> pkg, name |-> names[b], real |-> real]}
        BY <1>11, <3>3
      <4> QED BY <1>1, <3>1, <4>1, <4>2, <4>3
    <3> QED BY <3>2, <3>3
  <2>2. mangled' \subseteq Buffer
    BY <1>11 DEF FilesInv, TypeOK
  <2> QED BY <1>11, <1>13, <2>1, <2>2 DEF FilesInv, TypeOK
<1>17. BuffersHold'
  <2> SUFFICES ASSUME NEW c \in Buffer \ mangled' PROVE ReadString(mem', addr[c]) \in Contents(c)
    BY <1>11 DEF BuffersHold, Contents
  <2>1. c \notin mangled BY <1>11
  <2>2. CASE c = b BY <1>15, <2>1, <2>2
  <2>3. CASE c # b
    <3>1. ReadString(mem', addr[c]) = ReadString(mem, addr[c]) BY <1>11, <2>3
    <3>2. ReadString(mem, addr[c]) \in Contents(c) BY <1>6, <2>1 DEF FilesInv, BuffersHold
    <3> QED BY <3>1, <3>2
  <2> QED BY <2>2, <2>3
\* What a buffer holds after the call.
<1> DEFINE HoldsNow(c, s) == /\ \A i \in 1 .. Len(s) : mem'[addr[c] + i - 1] = s[i]
                             /\ mem'[addr[c] + Len(s)] = "nul"
\* With Room, neither buffer's cells reach into the other's.
<1>18. ASSUME RoomLeft
       PROVE  /\ mangled = {} /\ mangled' = {}
              /\ \A c \in Buffer : \E s \in Contents(c) : HoldsNow(c, s)
  <2>1. mangled = {} BY <1>18 DEF FilesInv, NamesSurvive
  <2>2. addr[2] - addr[1] - Len(n(1)) >= Room(pkg) BY <1>18 DEF RoomLeft, n
  <2>3. \A c \in Buffer : \E s \in Contents(c) : Holds(addr[c], s)
    BY <1>6, <1>18 DEF FilesInv, BuffersApart
  <2>4. CASE real = path
    <3>1. mem' = mem BY <1>11, <2>4
    <3>2. mangled' = {} BY <1>11, <2>1, <3>1
    <3> QED BY <2>1, <2>3, <3>1, <3>2 DEF Holds
  <2>5. CASE real # path
    <3>1. HoldsNow(b, r(b))
      BY <1>14, <2>1, <2>5
    <3>2. ASSUME NEW c \in Buffer, c # b, NEW s \in Contents(c), Holds(addr[c], s)
          PROVE  HoldsNow(c, s) /\ ReadString(mem', addr[c]) = ReadString(mem, addr[c])
      <4>1. /\ s \in Path /\ Len(s) \in Nat /\ Len(s) <= Len(n(c)) + Room(pkg) - 1
            /\ addr[c] .. addr[c] + Len(s) \subseteq DOMAIN mem
        BY <1>3, <1>4, <1>8, <1>9
      <4>2. Len(r(b)) + Word <= Len(n(b)) + Room(pkg) BY <1>14, <2>1, <2>5
      <4>3. \A i \in addr[c] .. addr[c] + Len(s) : i < addr[b] \/ i >= addr[b] + Len(r(b)) + Word
        <5>1. CASE b = 1 /\ c = 2
          <6>1. addr[1] + Len(r(1)) + Word <= addr[2]
            <7>1. /\ Len(r(1)) \in Nat /\ Len(n(1)) \in Nat /\ addr[2] \in Nat
                  /\ Len(r(1)) + Word <= Len(n(1)) + Room(pkg)
              BY <1>1, <1>3, <1>4, <4>2, <5>1 DEF Buffer
            <7> QED BY <1>1, <1>5, <2>2, <7>1
          <6> DEFINE w == Len(r(1)) + Word
          <6>2. addr[1] + w <= addr[2] /\ w \in Nat /\ addr[1] \in Nat /\ addr[2] \in Nat
            BY <1>1, <1>4, <1>5, <6>1 DEF Buffer
          <6>3. addr[b] + Len(r(b)) + Word = addr[1] + w /\ addr[c] = addr[2]
            BY <1>1, <1>4, <1>5, <5>1 DEF Buffer
          <6> HIDE DEF w
          <6>4. \A i \in addr[2] .. addr[2] + Len(s) : i >= addr[1] + w BY <6>2, <4>1
          <6> QED BY <6>3, <6>4
        <5>2. CASE b = 2 /\ c = 1
          <6> DEFINE before == addr[1] + Len(s)
          <6>1. Len(s) <= Len(n(1)) + Room(pkg) - 1 /\ addr[c] = addr[1] /\ addr[b] = addr[2]
            BY <4>1, <5>2
          <6>2. /\ addr[1] \in Nat /\ addr[2] \in Nat /\ Len(s) \in Nat
                /\ Len(n(1)) \in Nat /\ Room(pkg) \in Nat
            BY <1>1, <1>3, <1>4, <1>5, <4>1 DEF Buffer
          <6>3. before < addr[2] /\ before \in Nat BY <2>2, <6>1, <6>2
          <6> HIDE DEF before
          <6>4. \A i \in addr[1] .. before : i < addr[2] BY <6>2, <6>3
          <6> QED BY <6>1, <6>4 DEF before
        <5> QED BY <3>2, <5>1, <5>2 DEF Buffer
      <4>4. \A i \in addr[c] .. addr[c] + Len(s) : mem'[i] = mem[i]
        BY <1>14, <2>1, <2>5, <4>1, <4>3
      <4>5. addr[c] \in Nat BY <1>1
      <4>6. HoldsNow(c, s)
        <5> DEFINE a == addr[c]
        <5>1. a \in Nat /\ \A i \in 1 .. Len(s) : a + i - 1 \in a .. a + Len(s)
          BY <4>1, <4>5
        <5>2. a + Len(s) \in a .. a + Len(s) BY <4>1, <4>5
        <5>3. (\A i \in 1 .. Len(s) : mem[a + i - 1] = s[i]) /\ mem[a + Len(s)] = "nul"
          BY <3>2 DEF Holds
        <5> HIDE DEF a
        <5>4. \A i \in a .. a + Len(s) : mem'[i] = mem[i] BY <4>4 DEF a
        <5> QED BY <5>1, <5>2, <5>3, <5>4 DEF a
      <4>7. ReadString(mem, addr[c]) = s
        BY <1>1, <3>2, <4>1, <4>5, HoldsIs
      <4>8. ReadString(mem', addr[c]) = s
        <5> DEFINE new == mem'  a == addr[c]
        <5>1. /\ DOMAIN new \subseteq Nat /\ a \in Nat /\ a .. a + Len(s) \subseteq DOMAIN new
              /\ (\A i \in 1 .. Len(s) : new[a + i - 1] = s[i]) /\ new[a + Len(s)] = "nul"
          BY <1>1, <1>13, <4>1, <4>5, <4>6
        <5> HIDE DEF new, a
        <5>2. ReadString(new, a) = s BY <4>1, <5>1, ReadIs
        <5> QED BY <5>2 DEF new, a
      <4> QED BY <4>6, <4>7, <4>8
    <3>3. mangled' = {}
      BY <1>11, <2>1, <2>3, <3>2
    <3>4. \A c \in Buffer : \E s \in Contents(c) : HoldsNow(c, s)
      BY <1>8, <2>3, <3>1, <3>2
    <3> QED BY <2>1, <3>3, <3>4
  <2> QED BY <2>4, <2>5
<1>19. RoomLeft' <=> RoomLeft
  BY <1>11 DEF RoomLeft
<1>20. NamesSurvive' BY <1>18, <1>19 DEF NamesSurvive
<1>21. BuffersApart'
  <2>1. \A c \in Buffer : Contents(c)' = Contents(c) BY <1>11 DEF Contents
  <2> QED BY <1>11, <1>18, <1>19, <2>1 DEF BuffersApart, Holds
<1>22. OpensAreRedirects'
  <2>1. CASE b \in mangled BY <1>11, <2>1 DEF FilesInv, OpensAreRedirects
  <2>2. CASE b \notin mangled
    <3>1. real = Redirect(pkg, order, names[b]) BY <1>12, <2>2 DEF r
    <3> QED BY <1>1, <1>11, <2>2, <3>1 DEF FilesInv, OpensAreRedirects
  <2> QED BY <2>1, <2>2
<1> QED BY <1>16, <1>17, <1>20, <1>21, <1>22 DEF FilesInv

LEMMA FilesStep == FilesInv /\ [Next]_vars => FilesInv'
PROOF
<1> SUFFICES ASSUME FilesInv, [Next]_vars PROVE FilesInv'
  OBVIOUS
<1>1. ASSUME NEW p \in Package, NEW o \in Order, NEW n1 \in Names(p), NEW n2 \in Names(p),
             NEW gap \in {1, Room(p)}, Start(p, o, n1, n2, gap)
      PROVE  FilesInv'
  BY <1>1, FilesStart
<1>2. CASE End
  BY <1>2, FilesEnd
<1>3. ASSUME NEW b \in Buffer, Open(b) PROVE FilesInv'
  BY <1>3, FilesOpen
<1>4. CASE UNCHANGED vars
  BY <1>4 DEF vars, FilesInv, TypeOK, BuffersHold, BuffersApart, NamesSurvive, OpensAreRedirects,
              RoomLeft, Contents, Holds
<1> QED BY <1>1, <1>2, <1>3, <1>4 DEF Next

\* A name that was not overwritten is redirected once and for all: the invariant is
\* inductive (redirect.rs:38-53, tracer.rs:248-271, 388-425).
THEOREM FilesCorrect == Spec => []FilesInv
PROOF
<1>1. Init => FilesInv BY FilesInit
<1>2. FilesInv /\ [Next]_vars => FilesInv' BY FilesStep
<1> QED BY <1>1, <1>2, PTL DEF Spec

\* Every variable has its type.
THEOREM FilesTypes == Spec => []TypeOK
PROOF
<1>1. FilesInv => TypeOK BY DEF FilesInv
<1> QED BY <1>1, FilesCorrect, PTL

\* Room behind a name is enough for what is written over it (tracer.rs:388-425).
THEOREM NamesDoSurvive == Spec => []NamesSurvive
PROOF
<1>1. FilesInv => NamesSurvive BY DEF FilesInv
<1> QED BY <1>1, FilesCorrect, PTL

\* What was opened.
LEMMA OpenedIs ==
  ASSUME FilesInv, NEW r \in opened
  PROVE  /\ r.pkg \in Package /\ r.pkg \in Guest /\ r.pkg \in PackageName /\ r.pkg \in Path
         /\ r.name \in Path /\ \E o \in AnyOrder : r.real = Redirect(r.pkg, o, r.name)
PROOF
<1>1. r.pkg \in Package /\ r.name \in Path
  BY DEF FilesInv, TypeOK
<1>2. \E o \in Order : r.real = Redirect(r.pkg, o, r.name)
  BY DEF FilesInv, OpensAreRedirects
<1> QED BY <1>1, <1>2, ConstantsAre

\* By either name, in either buffer, in any order of the rules: the same file, the cache
\* excepted (redirect.rs:45-50, 107-136, tracer.rs:250-262).
THEOREM NamesReachOneFile == Spec => []OneFilePerName
PROOF
<1>1. ASSUME FilesInv PROVE OneFilePerName
  <2> SUFFICES ASSUME NEW r \in opened, NEW s \in opened, r.pkg = s.pkg,
                      Meaning(r.name) = Meaning(s.name), ~ Cached(r.pkg, r.name)
               PROVE  Meaning(r.real) = Meaning(s.real)
    BY DEF OneFilePerName
  <2> DEFINE p == r.pkg  m == r.name  n == s.name
  <2>1. p \in Path /\ m \in Path /\ n \in Path
    BY <1>1, OpenedIs
  <2>2. PICK o \in AnyOrder : r.real = Redirect(p, o, m)
    BY <1>1, OpenedIs
  <2>3. PICK q \in AnyOrder : s.real = Redirect(p, q, n)
    BY <1>1, OpenedIs
  <2>4. ~ Cached(p, m) /\ ~ Cached(p, n) /\ Meaning(m) = Meaning(n)
    BY DEF Cached
  <2> HIDE DEF p, m, n
  <2>5. CASE m = n
    BY <2>1, <2>2, <2>3, <2>4, <2>5, OneRedirect
  <2>6. ASSUME NEW y \in Path, m = AppData \o y, n = UserData \o y
        PROVE  Meaning(Redirect(p, o, m)) = Meaning(Redirect(p, q, n))
    BY <2>1, <2>4, <2>6, AliasRedirect, Zenon
  <2>7. ASSUME NEW y \in Path, m = UserData \o y, n = AppData \o y
        PROVE  Meaning(Redirect(p, o, m)) = Meaning(Redirect(p, q, n))
    BY <2>1, <2>4, <2>7, AliasRedirect, Zenon
  <2>8. \/ m = n
        \/ \E y \in Path : \/ m = AppData \o y /\ n = UserData \o y
                           \/ m = UserData \o y /\ n = AppData \o y
    BY <2>1, <2>4, SameMeaning
  <2> QED BY <2>2, <2>3, <2>5, <2>6, <2>7, <2>8, Zenon
<1> QED BY <1>1, FilesCorrect, PTL

\* Two files outside the root are kept apart (redirect.rs:102-136).
THEOREM NamesStayApart == Spec => []NamesApart
PROOF
<1>1. ASSUME FilesInv PROVE NamesApart
  <2> SUFFICES ASSUME NEW r \in opened, NEW s \in opened, r.pkg = s.pkg,
                      Outside(r.name), Outside(s.name), Meaning(r.real) = Meaning(s.real)
               PROVE  Meaning(r.name) = Meaning(s.name)
    BY DEF NamesApart
  <2> DEFINE p == r.pkg  m == r.name  n == s.name
  <2>1. p \in Path /\ m \in Path /\ n \in Path
    BY <1>1, OpenedIs
  <2>2. PICK o \in AnyOrder : r.real = Redirect(p, o, m)
    BY <1>1, OpenedIs
  <2>3. PICK q \in AnyOrder : s.real = Redirect(p, q, n)
    BY <1>1, OpenedIs
  <2>4. Outside(m) /\ Outside(n) /\ Meaning(Redirect(p, o, m)) = Meaning(Redirect(p, q, n))
    BY <2>2, <2>3
  <2> HIDE DEF p, m, n
  <2>5. Meaning(m) = Meaning(n)
    BY <2>1, <2>4, RedirectsApart
  <2> QED BY <2>5 DEF m, n
<1> QED BY <1>1, FilesCorrect, PTL

-----------------------------------------------------------------------------
(* The overlay                                                             *)

LEMMA SubIsSlashed ==
  ASSUME NEW name \in Piece
  PROVE  \E u \in Path : Sub(name) = Slashed(u)
PROOF
<1> DEFINE s == <<"/">>  t == Sub(name)
<1>1. s \in Path /\ Len(s) = 1 /\ s[1] = "/" /\ t \in Path /\ Len(t) = 2 /\ t[1] = "/"
  BY Slash, Subs
<1> HIDE DEF s, t
<1>2. IsPrefix(s, t)
  <2>1. Len(s) <= Len(t) /\ \A i \in 1 .. Len(s) : s[i] = t[i] BY <1>1
  <2> QED BY <1>1, <2>1, PrefixIs
<1> DEFINE u == SubSeq(t, Len(s) + 1, Len(t))
<1>3. u \in Path /\ t = s \o u BY <1>1, <1>2, PrefixAndRest, RestIs
<1> HIDE DEF u
<1> QED BY <1>3, Zenon DEF Slashed, s, t

LEMMA OwnIs ==
  ASSUME NEW p \in Path, NEW n \in Path, Own(p, n)
  PROVE  \E dir \in {AppData, UserData, UserData10, Storage("data")}, y \in Path :
           n = dir \o (p \o Slashed(y))
PROOF
<1>1. PICK dir \in {AppData, UserData, UserData10, Storage("data")} : IsPrefix(dir \o p \o <<"/">>, n)
  BY DEF Own
<1>2. dir \in Path
  BY Directories, UserData10Is, Storages, PieceAssumption
<1>3. \E y \in Path : n = dir \o (p \o Slashed(y))
  BY <1>1, <1>2, Below
<1> QED BY <1>3

\* Where a package's own file is resolved to, in any order of the rules.
LEMMA OwnResolved ==
  ASSUME NEW p \in Guest, NEW n \in Path, Own(p, n)
  PROVE  \E w \in Path : \A o \in AnyOrder :
           ResolvePath(p, o, n) = [how |-> "redirected", path |-> Base(p) \o Slashed(w)]
PROOF
<1>1. p \in Path BY PackageNameIsPath DEF Guest
<1>2. PICK dir \in {AppData, UserData, UserData10, Storage("data")}, y \in Path :
        n = dir \o (p \o Slashed(y))
  BY <1>1, OwnIs
<1>3. \A name \in {"data", "external"}, x \in Path :
        \E w \in Path : Base(p) \o Sub(name) \o x = Base(p) \o Slashed(w)
  <2> SUFFICES ASSUME NEW name \in {"data", "external"}, NEW x \in Path
               PROVE  \E w \in Path : Base(p) \o Sub(name) \o x = Base(p) \o Slashed(w)
    OBVIOUS
  <2>1. PICK u \in Path : Sub(name) = Slashed(u) BY SubIsSlashed, PieceAssumption
  <2> DEFINE b == Base(p)  s == Slashed(u)  w == u \o x
  <2>2. b \in Path /\ s \in Path
    <3>1. b \in Path BY <1>1, BaseIs
    <3>2. s \in Path BY SlashedIs
    <3> QED BY <3>1, <3>2
  <2>3. w \in Path BY ConcatIs
  <2>4. s \o x = Slashed(w) BY SlashedCommutes
  <2> HIDE DEF b, s, w
  <2>5. (b \o s) \o x = b \o (s \o x) BY <2>2, Associative
  <2>6. Base(p) \o Sub(name) \o x = b \o Slashed(w) BY <2>1, <2>4, <2>5, Zenon DEF b, s
  <2> QED BY <2>3, <2>6, Zenon DEF b
<1>4. ASSUME NEW j \in 1 .. 3, dir = Dir[j]
      PROVE  \E w \in Path : \A o \in AnyOrder :
               ResolvePath(p, o, n) = [how |-> "redirected", path |-> Base(p) \o Slashed(w)]
  <2>1. OverlayTarget[j] \in {Sub("data"), Sub("external")} BY DEF OverlayTarget
  <2>2. Slashed(y) \in Path BY SlashedIs
  <2>3. PICK w \in Path : Base(p) \o OverlayTarget[j] \o Slashed(y) = Base(p) \o Slashed(w)
    BY <1>3, <2>1, <2>2, Zenon
  <2>4. \A o \in AnyOrder : ResolvePath(p, o, n)
          = [how |-> "redirected", path |-> Base(p) \o OverlayTarget[j] \o Slashed(y)]
    BY <1>2, <1>4, ResolveByRule, Zenon
  <2> QED BY <2>3, <2>4, Zenon
<1>5. CASE dir = UserData10
  <2>1. \A o \in AnyOrder : ResolvePath(p, o, n) = [how |-> "redirected", path |-> RedirectDataPath(p, n)]
    BY <1>2, <1>5, ResolveOther, Zenon
  <2>2. \A o \in AnyOrder : \E x \in Path : RedirectDataPath(p, n) = Base(p) \o Sub("data") \o x
    BY <1>2, <1>5, ResolveOther, Zenon
  <2>3. CASE AnyOrder = {} BY <1>1, <2>3
  <2>4. ASSUME NEW o \in AnyOrder
        PROVE  \E w \in Path : RedirectDataPath(p, n) = Base(p) \o Slashed(w)
    BY <1>3, <2>2, <2>4, Zenon
  <2> QED BY <2>1, <2>3, <2>4, Zenon
<1>6. dir = Dir[1] \/ dir = Dir[2] \/ dir = Dir[3] \/ dir = UserData10
  BY DEF Dir
<1> QED BY <1>4, <1>5, <1>6

\* By either name it is the same.
LEMMA OwnAlike ==
  ASSUME NEW p \in Guest, NEW m \in Path, NEW n \in Path, Own(p, m), Own(p, n),
         Meaning(m) = Meaning(n), NEW o \in AnyOrder, NEW q \in AnyOrder
  PROVE  ResolvePath(p, o, m) = ResolvePath(p, q, n)
PROOF
<1>1. p \in Path BY PackageNameIsPath DEF Guest
<1>2. ASSUME NEW z \in Path, Own(p, AppData \o z), NEW a \in AnyOrder, NEW c \in AnyOrder
      PROVE  ResolvePath(p, a, AppData \o z) = ResolvePath(p, c, UserData \o z)
  <2> DEFINE k == AppData \o z
  <2>1. AppData \in Path /\ Len(AppData) = 5 /\ AppData[2] = "data" /\ AppData[4] = "data"
    BY Directories
  <2>2. k \in Path /\ IsPrefix(AppData, k) BY <2>1, ConcatIs, PrefixOfConcat
  <2>3. PICK dir \in {AppData, UserData, UserData10, Storage("data")}, y \in Path :
          k = dir \o (p \o Slashed(y))
    BY <1>1, <1>2, <2>2, OwnIs
  <2> DEFINE v == p \o Slashed(y)
  <2>4. v \in Path
    <3>1. Slashed(y) \in Path BY SlashedIs
    <3> QED BY <1>1, <3>1, ConcatIs
  <2> HIDE DEF v, k
  <2>5. dir \in Path /\ Len(dir) >= 4 /\ Len(dir) \in Nat
    <3>1. CASE dir = AppData
      <4>1. AppData \in Path /\ Len(AppData) = 5 BY Directories
      <4> QED BY <3>1, <4>1
    <3>2. CASE dir = UserData
      <4>1. UserData \in Path /\ Len(UserData) = 7 BY Directories
      <4> QED BY <3>2, <4>1
    <3>3. CASE dir = UserData10
      <4>1. UserData10 \in Path /\ Len(UserData10) = 7 BY UserData10Is
      <4> QED BY <3>3, <4>1
    <3>4. CASE dir = Storage("data")
      <4>1. Storage("data") \in Path /\ Len(Storage("data")) = 11 BY Storages, PieceAssumption
      <4>2. dir \in Path /\ Len(dir) = 11 BY <3>4, <4>1, Zenon
      <4> QED BY <4>2
    <3>5. dir = AppData \/ dir = UserData \/ dir = UserData10 \/ dir = Storage("data")
      BY <2>3, Zenon
    <3> QED BY <3>1, <3>2, <3>3, <3>4, <3>5, Zenon
  <2>6. k = dir \o v BY <2>3 DEF v
  <2>7. IsPrefix(dir, k) BY <2>4, <2>5, <2>6, PrefixOfConcat
  <2>8. dir[2] = "data" /\ dir[4] = "data"
    <3>1. 2 \in 1 .. Len(dir) /\ 4 \in 1 .. Len(dir) /\ 2 <= Len(AppData) /\ 4 <= Len(AppData)
      BY <2>1, <2>5
    <3>2. dir[2] = AppData[2] /\ dir[4] = AppData[4]
      BY <2>1, <2>2, <2>5, <2>7, <3>1, PrefixesAgree
    <3> QED BY <2>1, <3>2
  <2>9. dir = AppData
    <3>1. UserData[4] = "user" /\ UserData10[4] = "user" BY Directories, UserData10Is
    <3>2. Storage("data")[2] = "storage" BY Storages, PieceAssumption
    <3> QED BY <2>8, <3>1, <3>2
  <2>10. z = v
    <3>1. AppData \o z = AppData \o v BY <2>6, <2>9 DEF k
    <3> QED BY <2>1, <2>4, <3>1, ConcatCancels
  <2>11. Dir[1] = AppData /\ Dir[2] = UserData /\ OverlayTarget[1] = OverlayTarget[2]
    BY DEF Dir, OverlayTarget
  <2>12. 1 \in 1 .. 3 /\ 2 \in 1 .. 3 OBVIOUS
  <2> DEFINE out(j) == [how |-> "redirected", path |-> Base(p) \o OverlayTarget[j] \o Slashed(y)]
  <2>13. \A j \in 1 .. 3, d \in AnyOrder : ResolvePath(p, d, Dir[j] \o (p \o Slashed(y))) = out(j)
    BY ResolveByRule, Zenon
  <2>14. out(1) = out(2) BY <2>11, Zenon
  <2> HIDE DEF out
  <2>15. \A j \in 1 .. 3, d \in AnyOrder : ResolvePath(p, d, Dir[j] \o v) = out(j)
    BY <2>13, Zenon DEF v
  <2>16. ResolvePath(p, a, Dir[1] \o v) = out(1) /\ ResolvePath(p, c, Dir[2] \o v) = out(2)
    BY <2>12, <2>15, Zenon
  <2> QED BY <2>10, <2>11, <2>14, <2>16, Zenon
<1>3. CASE m = n
  <2>1. PICK w \in Path : \A c \in AnyOrder :
          ResolvePath(p, c, m) = [how |-> "redirected", path |-> Base(p) \o Slashed(w)]
    BY OwnResolved
  <2> QED BY <1>3, <2>1, Zenon
<1>4. ASSUME NEW z \in Path, m = AppData \o z, n = UserData \o z
      PROVE  ResolvePath(p, o, m) = ResolvePath(p, q, n)
  BY <1>2, <1>4, Zenon
<1>5. ASSUME NEW z \in Path, m = UserData \o z, n = AppData \o z
      PROVE  ResolvePath(p, o, m) = ResolvePath(p, q, n)
  <2>1. ResolvePath(p, q, AppData \o z) = ResolvePath(p, o, UserData \o z) BY <1>2, <1>5, Zenon
  <2> QED BY <1>5, <2>1, Zenon
<1>6. \/ m = n
      \/ \E y \in Path : \/ m = AppData \o y /\ n = UserData \o y
                         \/ m = UserData \o y /\ n = AppData \o y
  BY SameMeaning
<1> QED BY <1>3, <1>4, <1>5, <1>6, Zenon

\* Two packages' own files, and those of other users, are resolved apart, and each to one
\* place (overlay.rs:65-89, 125-144).
THEOREM OverlayStaysPrivate == Spec => []OverlayIsPrivate
PROOF
<1>1. ASSUME FilesInv PROVE OverlayIsPrivate
  <2> SUFFICES ASSUME NEW r \in opened, NEW s \in opened, Own(r.pkg, r.name), Own(s.pkg, s.name),
                      NEW o \in Order, NEW q \in Order
               PROVE  LET a == ResolvePath(r.pkg, o, r.name)
                          b == ResolvePath(s.pkg, q, s.name)
                      IN  /\ a.how = "redirected"
                          /\ r.pkg # s.pkg => a # b
                          /\ r.pkg = s.pkg /\ Meaning(r.name) = Meaning(s.name) => a = b
    BY DEF OverlayIsPrivate
  <2> DEFINE a == ResolvePath(r.pkg, o, r.name)  b == ResolvePath(s.pkg, q, s.name)
  <2>1. /\ r.pkg \in Guest /\ r.pkg \in PackageName /\ r.name \in Path
        /\ s.pkg \in Guest /\ s.pkg \in PackageName /\ s.name \in Path
    BY <1>1, OpenedIs
  <2>2. o \in AnyOrder /\ q \in AnyOrder BY ConstantsAre
  <2>3. PICK v \in Path : a = [how |-> "redirected", path |-> Base(r.pkg) \o Slashed(v)]
    BY <2>1, <2>2, OwnResolved, Zenon
  <2>4. PICK w \in Path : b = [how |-> "redirected", path |-> Base(s.pkg) \o Slashed(w)]
    BY <2>1, <2>2, OwnResolved, Zenon
  <2>5. a.how = "redirected" BY <2>3
  <2>6. ASSUME a = b PROVE r.pkg = s.pkg
    <3> DEFINE x == Base(r.pkg) \o Slashed(v)  y == Base(s.pkg) \o Slashed(w)
    <3>1. [how |-> "redirected", path |-> x] = [how |-> "redirected", path |-> y]
      BY <2>3, <2>4, <2>6, Zenon
    <3> HIDE DEF x, y
    <3>2. x = y BY <3>1
    <3>3. Base(r.pkg) \o Slashed(v) = Base(s.pkg) \o Slashed(w) BY <3>2, Zenon DEF x, y
    <3> QED BY <2>1, <3>3, BasesApart
  <2>7. ASSUME r.pkg = s.pkg, Meaning(r.name) = Meaning(s.name) PROVE a = b
    <3> DEFINE c == r.pkg  m == r.name  n == s.name
    <3>1. c \in Guest /\ m \in Path /\ n \in Path BY <2>1
    <3>2. Own(c, m) /\ Own(c, n) /\ Meaning(m) = Meaning(n) BY <2>7, Zenon
    <3>3. a = ResolvePath(c, o, m) /\ b = ResolvePath(c, q, n) BY <2>7, Zenon
    <3> HIDE DEF a, b, c, m, n
    <3>4. ResolvePath(c, o, m) = ResolvePath(c, q, n) BY <2>2, <3>1, <3>2, OwnAlike
    <3> QED BY <3>3, <3>4, Zenon
  <2> QED BY <2>5, <2>6, <2>7
<1> QED BY <1>1, FilesCorrect, PTL
===============================================================================
