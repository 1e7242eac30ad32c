------------------------------ MODULE LinkProofs ------------------------------
(***************************************************************************)
(* Theorems about the links of EntityTree: that a relative path between    *)
(* two places of the tree is the way from one to the other, and that no    *)
(* link leads to anything else than what it was made for.  They are for    *)
(* any number of FUSE threads and any resources, playlists and searches.   *)
(***************************************************************************)
EXTENDS EntityTreeProofs

-----------------------------------------------------------------------------
(* Relative paths: how the kernel walks along the target of a link.        *)

Plain(name) == name \notin {"/", ".", ".."}

\* The names in which a target consists, with those for going up.
Walkable(S) == {"/", ".", ".."} \subseteq S

\* The first c elements, and no more, are the same.
Common(s, t, c) ==
    /\ c \in Nat /\ c <= Len(s) /\ c <= Len(t)
    /\ \A i \in 1 .. c : s[i] = t[i]
    /\ c < Len(s) /\ c < Len(t) => s[c + 1] # t[c + 1]

LEMMA CommonExists ==
    ASSUME NEW S, NEW s \in Seq(S), NEW t \in Seq(S)
    PROVE  \E c \in Nat : Common(s, t, c)
<1> DEFINE T == {k \in Nat : k >= Len(s) \/ k >= Len(t) \/ s[k + 1] # t[k + 1]}
<1>1. Len(s) \in Nat /\ Len(t) \in Nat
  OBVIOUS
<1>2. Len(s) \in T /\ Len(t) \in T
  BY <1>1
<1>3. PICK c \in T : \A k \in T : c <= k
  <2>1. T \subseteq Nat /\ T # {}
    BY <1>2
  <2> HIDE DEF T
  <2> QED BY <2>1, LeastNatural
<1>4. c \in Nat /\ c <= Len(s) /\ c <= Len(t)
  BY <1>1, <1>2, <1>3
<1>5. ASSUME NEW i \in 1 .. c PROVE s[i] = t[i]
  <2>1. i - 1 \in Nat /\ i - 1 < c
    BY <1>4
  <2>2. i - 1 \notin T
    <3> HIDE DEF T
    <3> QED BY <1>3, <1>4, <2>1
  <2>3. (i - 1) + 1 = i
    BY <1>4
  <2> QED BY <2>1, <2>2, <2>3
<1>6. c < Len(s) /\ c < Len(t) => s[c + 1] # t[c + 1]
  BY <1>1, <1>3
<1> QED BY <1>4, <1>5, <1>6 DEF Common

\* What it is to be in common.
LEMMA PrefixElements ==
    ASSUME NEW S, NEW p \in Seq(S), NEW s \in Seq(S), IsPrefix(p, s)
    PROVE  Len(p) <= Len(s) /\ \A i \in 1 .. Len(p) : p[i] = s[i]
<1>1. Len(p) \in Nat /\ Len(s) \in Nat
  OBVIOUS
<1>2. Len(p) <= Len(s) /\ SubSeq(p, 1, Len(p)) = SubSeq(s, 1, Len(p))
  BY DEF IsPrefix
<1>3. \A i \in 1 .. Len(p) : p[i] \in S /\ s[i] \in S
  BY <1>1, <1>2, ElementOfSeq
<1>4. \A i \in 1 .. Len(p) - 1 + 1 :
          SubSeq(p, 1, Len(p))[i] = p[1 + i - 1]
  BY <1>1, <1>3, SubSeqProperties
<1>5. \A i \in 1 .. Len(p) - 1 + 1 :
          SubSeq(s, 1, Len(p))[i] = s[1 + i - 1]
  BY <1>1, <1>3, SubSeqProperties
<1>6. ASSUME NEW i \in 1 .. Len(p) PROVE p[i] = s[i]
  <2>1. i \in 1 .. Len(p) - 1 + 1 /\ 1 + i - 1 = i
    BY <1>1
  <2> QED BY <1>2, <1>4, <1>5, <2>1
<1> QED BY <1>2, <1>6

LEMMA PrefixOf ==
    ASSUME NEW S, NEW p \in Seq(S), NEW s \in Seq(S), Len(p) <= Len(s),
           \A i \in 1 .. Len(p) : p[i] = s[i]
    PROVE  IsPrefix(p, s)
<1>1. Len(p) \in Nat
  OBVIOUS
<1>2. \A i \in 1 .. Len(p) : p[i] \in S /\ p[i] = s[i]
  BY ElementOfSeq
<1>3. SubSeq(p, 1, Len(p)) = SubSeq(s, 1, Len(p))
  BY <1>1, <1>2, SubSeqSame
<1> QED BY <1>3 DEF IsPrefix

LEMMA FirstPart ==
    ASSUME NEW S, NEW s \in Seq(S), NEW n \in 0 .. Len(s)
    PROVE  /\ SubSeq(s, 1, n) \in Seq(S) /\ Len(SubSeq(s, 1, n)) = n
           /\ \A i \in 1 .. n : SubSeq(s, 1, n)[i] = s[i]
<1>1. \A i \in 1 .. n : s[i] \in S
  OBVIOUS
<1>2. /\ SubSeq(s, 1, n) \in Seq(S)
      /\ Len(SubSeq(s, 1, n)) = IF 1 <= n THEN n - 1 + 1 ELSE 0
      /\ \A i \in 1 .. n - 1 + 1 : SubSeq(s, 1, n)[i] = s[1 + i - 1]
  BY <1>1, SubSeqProperties
<1>3. ASSUME NEW i \in 1 .. n PROVE SubSeq(s, 1, n)[i] = s[i]
  <2>1. i \in 1 .. n - 1 + 1 /\ 1 + i - 1 = i
    OBVIOUS
  <2> QED BY <1>2, <2>1
<1>4. Len(SubSeq(s, 1, n)) = n
  BY <1>2
<1> QED BY <1>2, <1>3, <1>4

\* The length of the longest common prefix.
LEMMA CommonLength ==
    ASSUME NEW S, NEW s \in Seq(S), NEW t \in Seq(S),
           NEW c \in Nat, Common(s, t, c)
    PROVE  Len(LongestCommonPrefix({s, t})) = c
<1> DEFINE CP == CommonPrefixes({s, t})
           p == SubSeq(s, 1, c)
<1>1. c \in 0 .. Len(s) /\ c <= Len(t) /\ \A i \in 1 .. c : s[i] = t[i]
  BY DEF Common
<1>2. p \in Seq(S) /\ Len(p) = c /\ \A i \in 1 .. c : p[i] = s[i]
  BY <1>1, FirstPart
<1>3. \A q : q \in CP <=> /\ q \in Prefixes(s) \cup Prefixes(t)
                          /\ IsPrefix(q, s) /\ IsPrefix(q, t)
  BY DEF CommonPrefixes
<1>4. p \in CP
  <2>1. p \in Prefixes(s)
    BY <1>1 DEF Prefixes
  <2> HIDE DEF p
  <2>2. IsPrefix(p, s) /\ IsPrefix(p, t)
    BY <1>1, <1>2, PrefixOf
  <2> HIDE DEF CP
  <2> QED BY <1>3, <2>1, <2>2
<1>5. ASSUME NEW q \in CP PROVE Len(q) \in Nat /\ Len(q) <= c
  <2>1. /\ q \in Prefixes(s) \cup Prefixes(t)
        /\ IsPrefix(q, s) /\ IsPrefix(q, t)
    BY <1>3
  <2>2. q \in Seq(S)
    BY <2>1, FirstPart DEF Prefixes
  <2>3. /\ Len(q) <= Len(s) /\ Len(q) <= Len(t)
        /\ \A i \in 1 .. Len(q) : q[i] = s[i] /\ q[i] = t[i]
    BY <2>1, <2>2, PrefixElements
  <2>4. Len(q) \in Nat
    BY <2>2
  <2>5. ASSUME c < Len(q) PROVE FALSE
    <3>1. c + 1 \in 1 .. Len(q) /\ c < Len(s) /\ c < Len(t)
      BY <1>1, <2>3, <2>4, <2>5
    <3> QED BY <2>3, <3>1 DEF Common
  <2> QED BY <2>4, <2>5
<1> DEFINE l == LongestCommonPrefix({s, t})
<1>6. l = CHOOSE x \in CP : \A o \in CP : Len(o) <= Len(x)
  BY DEF LongestCommonPrefix
<1> HIDE DEF CP, p
<1>7. \E x \in CP : \A o \in CP : Len(o) <= Len(x)
  BY <1>2, <1>4, <1>5
<1>8. l \in CP /\ \A o \in CP : Len(o) <= Len(l)
  BY <1>6, <1>7
<1> HIDE DEF l
<1>9. Len(l) \in Nat /\ Len(l) <= c /\ c <= Len(l)
  BY <1>2, <1>4, <1>5, <1>8
<1> QED BY <1>9 DEF l

\* f holds the directories reached along the target.
Along(f, path, target) ==
    /\ f[0] = path
    /\ \A k \in 1 .. Len(target) : f[k] = Enter(f[k - 1], target[k])

LEMMA EnterTyped ==
    ASSUME NEW S, NEW path \in Seq(S), NEW name \in S
    PROVE  Enter(path, name) \in Seq(S)
<1>1. Len(path) \in Nat /\ <<>> \in Seq(S) /\ Append(path, name) \in Seq(S)
  OBVIOUS
<1>2. ASSUME path # <<>> PROVE Front(path) \in Seq(S)
  <2>1. Len(path) - 1 \in 0 .. Len(path)
    BY <1>1, <1>2, EmptySeq
  <2> QED BY <2>1, FirstPart DEF Front
<1> HIDE DEF Front
<1> QED BY <1>1, <1>2 DEF Enter

LEMMA WalkIs ==
    ASSUME NEW S, NEW path \in Seq(S), NEW target \in Seq(S)
    PROVE  \E f : /\ Walk(path, target) = f[Len(target)]
                  /\ Along(f, path, target)
<1> DEFINE n == Len(target)
           Full(g) == g = [k \in 0 .. n |->
                              IF k = 0 THEN path ELSE Enter(g[k - 1], target[k])]
           step == [k \in 1 .. n |-> [p \in Seq(S) |-> Enter(p, target[k])]]
<1>1. n \in Nat
  OBVIOUS
<1>2. step \in Steps(n, Seq(S))
  <2>1. \A k \in 1 .. n : target[k] \in S
    BY ElementOfSeq
  <2>2. \A k \in 1 .. n : \A p \in Seq(S) : Enter(p, target[k]) \in Seq(S)
    BY <2>1, EnterTyped
  <2> HIDE DEF n
  <2> QED BY <2>2 DEF Steps
<1>3. PICK f : Iterates(f, n, Seq(S), path, step)
  <2> HIDE DEF step, n
  <2> QED BY <1>1, <1>2, Recursion
<1>4. /\ f \in [0 .. n -> Seq(S)] /\ f[0] = path
      /\ \A k \in 1 .. n : f[k] = step[k][f[k - 1]]
  BY <1>3 DEF Iterates
<1> HIDE DEF n
<1>5. ASSUME NEW k \in 1 .. n PROVE f[k] = Enter(f[k - 1], target[k])
  <2>1. k - 1 \in 0 .. n
    BY <1>1
  <2>2. f[k - 1] \in Seq(S)
    BY <1>4, <2>1
  <2> QED BY <1>4, <2>2
<1>6. Full(f)
  <2>1. f = [k \in 0 .. n |-> f[k]]
    BY <1>4
  <2>2. ASSUME NEW k \in 0 .. n
        PROVE  f[k] = IF k = 0 THEN path ELSE Enter(f[k - 1], target[k])
    <3>1. k # 0 => k \in 1 .. n
      BY <1>1
    <3> QED BY <1>4, <1>5, <3>1
  <2> HIDE DEF step
  <2> QED BY <2>1, <2>2, Zenon
<1> DEFINE g == CHOOSE h : Full(h)
<1>7. Walk(path, target) = g[n]
  BY DEF Walk, n
<1>8. Full(g)
  <2> HIDE DEF Full
  <2> QED BY <1>6
<1> HIDE DEF g, step
<1>9. g[0] = path /\ \A k \in 1 .. n : g[k] = Enter(g[k - 1], target[k])
  <2>1. \A k \in 0 .. n :
            g[k] = IF k = 0 THEN path ELSE Enter(g[k - 1], target[k])
    BY <1>8
  <2>2. 0 \in 0 .. n /\ \A k \in 1 .. n : k \in 0 .. n /\ k # 0
    BY <1>1
  <2> QED BY <2>1, <2>2
<1> QED BY <1>7, <1>9 DEF Along, n

\* One plain name leads on to the next part of a path.
LEMMA NextPart ==
    ASSUME NEW S, NEW to \in Seq(S), NEW c \in Nat, c < Len(to),
           Plain(to[c + 1])
    PROVE  Enter(SubSeq(to, 1, c), to[c + 1]) = SubSeq(to, 1, c + 1)
<1>1. c + 1 \in 1 .. Len(to) /\ 1 \in 1 .. Len(to) /\ c \in 0 .. Len(to)
  BY LenProperties
<1>2. to[c + 1] \in S
  BY <1>1, ElementOfSeq
<1>3. SubSeq(to, 1, c) \in Seq(S)
  BY <1>1, FirstPart
<1>4. SubSeq(to, 1, c + 1) = SubSeq(to, 1, c) \o <<to[c + 1]>>
  <2>1. c + 1 \in 1 .. Len(to) /\ (c + 1) - 1 = c
    BY <1>1
  <2> QED BY <1>1, <2>1, SubSeqRecursiveSecond
<1>5. Enter(SubSeq(to, 1, c), to[c + 1]) = Append(SubSeq(to, 1, c), to[c + 1])
  BY DEF Enter, Plain
<1> QED BY <1>2, <1>3, <1>4, <1>5, AppendIsConcat

\* Where the rest of the target is the rest of the path, it leads there.
LEMMA WalkOn ==
    ASSUME NEW S, NEW to \in Seq(S), NEW target \in Seq(S), NEW path, NEW f,
           Along(f, path, target), NEW j \in Nat, NEW c \in Nat,
           j <= Len(target), c <= Len(to), Len(target) - j = Len(to) - c,
           f[j] = SubSeq(to, 1, c),
           \A i \in 1 .. Len(to) - c :
               target[j + i] = to[c + i] /\ Plain(to[c + i])
    PROVE  f[Len(target)] = to
<1> DEFINE m == Len(to) - c
           T == {i \in Nat : i <= m => f[j + i] = SubSeq(to, 1, c + i)}
<1>1. Len(to) \in Nat /\ Len(target) \in Nat /\ m \in Nat /\ Len(target) = j + m
  OBVIOUS
<1>2. 0 \in T
  BY <1>1
<1>3. ASSUME NEW i \in Nat, i \in T PROVE i + 1 \in T
  <2>1. SUFFICES ASSUME i + 1 <= m
                 PROVE  f[j + (i + 1)] = SubSeq(to, 1, c + (i + 1))
    OBVIOUS
  <2>2. f[j + i] = SubSeq(to, 1, c + i)
    BY <1>1, <1>3, <2>1
  <2>3. /\ j + (i + 1) \in 1 .. Len(target) /\ (j + (i + 1)) - 1 = j + i
        /\ c + (i + 1) = (c + i) + 1 /\ c + i \in Nat /\ c + i < Len(to)
        /\ i + 1 \in 1 .. m
    BY <1>1, <2>1
  <2>4. f[j + (i + 1)] = Enter(f[j + i], target[j + (i + 1)])
    BY <2>3 DEF Along
  <2>5. target[j + (i + 1)] = to[(c + i) + 1] /\ Plain(to[(c + i) + 1])
    BY <2>3
  <2>6. Enter(SubSeq(to, 1, c + i), to[(c + i) + 1]) = SubSeq(to, 1, (c + i) + 1)
    BY <2>3, <2>5, NextPart
  <2> QED BY <2>2, <2>3, <2>4, <2>5, <2>6
<1>4. m \in T
  <2> HIDE DEF T
  <2> QED BY <1>1, <1>2, <1>3, SetInduction
<1>5. f[j + m] = SubSeq(to, 1, c + m) /\ c + m = Len(to)
  BY <1>1, <1>4
<1> QED BY <1>1, <1>5, SubSeqFull

\* As many directories up as there are "..".
LEMMA WalkUp ==
    ASSUME NEW S, NEW path \in Seq(S), NEW target \in Seq(S), NEW f,
           Along(f, path, target), NEW n \in Nat,
           n <= Len(target), n <= Len(path),
           \A k \in 1 .. n : target[k] = ".."
    PROVE  f[n] = SubSeq(path, 1, Len(path) - n)
<1> DEFINE T == {k \in Nat : k <= n => f[k] = SubSeq(path, 1, Len(path) - k)}
<1>1. Len(path) \in Nat /\ Len(target) \in Nat
  OBVIOUS
<1>2. 0 \in T
  <2>1. SubSeq(path, 1, Len(path)) = path /\ Len(path) - 0 = Len(path)
    BY <1>1, SubSeqFull
  <2> QED BY <2>1 DEF Along
<1>3. ASSUME NEW k \in Nat, k \in T PROVE k + 1 \in T
  <2>1. SUFFICES ASSUME k + 1 <= n
                 PROVE  f[k + 1] = SubSeq(path, 1, Len(path) - (k + 1))
    OBVIOUS
  <2> DEFINE m == Len(path) - k
             p == SubSeq(path, 1, m)
  <2>2. f[k] = p
    BY <1>1, <1>3, <2>1
  <2>3. m \in 0 .. Len(path) /\ m >= 1 /\ m - 1 = Len(path) - (k + 1)
    BY <1>1, <2>1
  <2>4. p \in Seq(S) /\ Len(p) = m /\ \A i \in 1 .. m : p[i] = path[i]
    BY <2>3, FirstPart
  <2>5. f[k + 1] = Enter(f[k], "..")
    <3>1. k + 1 \in 1 .. Len(target) /\ (k + 1) - 1 = k /\ k + 1 \in 1 .. n
      BY <1>1, <2>1
    <3> QED BY <3>1 DEF Along
  <2> HIDE DEF p, m
  <2>6. p # <<>>
    BY <2>3, <2>4
  <2>7. Enter(p, "..") = SubSeq(p, 1, m - 1)
    BY <2>4, <2>6 DEF Enter, Front
  <2>8. SubSeq(p, 1, m - 1) = SubSeq(path, 1, m - 1)
    <3>1. \A i \in 1 .. m - 1 : p[i] \in S /\ p[i] = path[i]
      BY <2>3, <2>4, ElementOfSeq
    <3>2. m - 1 \in Int /\ 1 \in Int
      BY <2>3
    <3> QED BY <3>1, <3>2, SubSeqSame
  <2> QED BY <2>2, <2>3, <2>5, <2>7, <2>8
<1>4. n \in T
  <2> HIDE DEF T
  <2> QED BY <1>2, <1>3, SetInduction
<1> QED BY <1>4

\* The target, element by element.
LEMMA RelativeDown ==
    ASSUME NEW S, Walkable(S), NEW from \in Seq(S), NEW to \in Seq(S),
           Common(from, to, Len(from)), from # to, from # <<>>
    PROVE  LET t == spfs_path_get_relative_path(from, to) IN
           /\ t \in Seq(S) /\ Len(t) = Len(to) - Len(from) + 1 /\ t[1] = "/"
           /\ \A i \in 1 .. Len(to) - Len(from) : t[1 + i] = to[Len(from) + i]
<1> DEFINE c == Len(from)
           down == SubSeq(to, c + 1, Len(to))
<1>1. c \in Nat /\ c > 0 /\ Len(to) \in Nat /\ c <= Len(to)
  BY EmptySeq DEF Common
<1>2. Len(LongestCommonPrefix({from, to})) = c
  BY <1>1, CommonLength
<1>3. spfs_path_get_relative_path(from, to) = <<"/">> \o down
  BY <1>1, <1>2 DEF spfs_path_get_relative_path
<1>4. /\ down \in Seq(S) /\ Len(down) = Len(to) - c
      /\ \A i \in 1 .. Len(to) - c : down[i] = to[c + i]
  <2>1. \A i \in c + 1 .. Len(to) : to[i] \in S
    BY <1>1, ElementOfSeq
  <2>2. /\ down \in Seq(S)
        /\ Len(down) = IF c + 1 <= Len(to) THEN Len(to) - (c + 1) + 1 ELSE 0
        /\ \A i \in 1 .. Len(to) - (c + 1) + 1 : down[i] = to[c + 1 + i - 1]
    BY <1>1, <2>1, SubSeqProperties
  <2>3. Len(down) = Len(to) - c
    BY <1>1, <2>2
  <2>4. ASSUME NEW i \in 1 .. Len(to) - c PROVE down[i] = to[c + i]
    <3>1. i \in 1 .. Len(to) - (c + 1) + 1 /\ c + 1 + i - 1 = c + i
      BY <1>1
    <3> QED BY <2>2, <3>1
  <2> QED BY <2>2, <2>3, <2>4
<1> HIDE DEF down, c
<1>5. <<"/">> \in Seq(S) /\ Len(<<"/">>) = 1 /\ <<"/">>[1] = "/"
  BY DEF Walkable
<1>6. /\ <<"/">> \o down \in Seq(S) /\ Len(<<"/">> \o down) = 1 + Len(down)
      /\ \A i \in 1 .. 1 + Len(down) :
            (<<"/">> \o down)[i] = IF i <= 1 THEN <<"/">>[i] ELSE down[i - 1]
  BY <1>4, <1>5, ConcatProperties
<1>7. (<<"/">> \o down)[1] = "/"
  <2>1. 1 \in 1 .. 1 + Len(down) /\ 1 <= 1
    BY <1>1, <1>4
  <2> QED BY <1>5, <1>6, <2>1
<1>8. ASSUME NEW i \in 1 .. Len(to) - c
      PROVE  (<<"/">> \o down)[1 + i] = to[c + i]
  <2>1. 1 + i \in 1 .. 1 + Len(down) /\ ~ (1 + i <= 1) /\ (1 + i) - 1 = i
    BY <1>1, <1>4
  <2> QED BY <1>4, <1>6, <2>1
<1>9. Len(<<"/">> \o down) = Len(to) - c + 1
  BY <1>1, <1>4, <1>6
<1> QED BY <1>3, <1>6, <1>7, <1>8, <1>9 DEF c

\* How far up: one more if all of the path is in common.
Ups(from, to, c) ==
    (Len(from) - c) + (IF c = Len(to) /\ c > 0 THEN 1 ELSE 0)

\* n times up, and down to to from what is in common.
UpAndDown(t, n, to, c) ==
    /\ Len(t) = n + (Len(to) - c)
    /\ \A k \in 1 .. n : t[k] = ".."
    /\ \A i \in 1 .. Len(to) - c : t[n + i] = to[c + i]

LEMMA RelativeUp ==
    ASSUME NEW S, Walkable(S), NEW from \in Seq(S), NEW to \in Seq(S),
           NEW c \in Nat, Common(from, to, c), c < Len(from)
    PROVE  /\ spfs_path_get_relative_path(from, to) \in Seq(S)
           /\ Ups(from, to, c) \in 1 .. Len(from)
           /\ UpAndDown(spfs_path_get_relative_path(from, to),
                        Ups(from, to, c), to, c)
<1> DEFINE n == Ups(from, to, c)
           up == [k \in 1 .. n |-> ".."]
           down == SubSeq(to, c + 1, Len(to))
<1>1. Len(from) \in Nat /\ Len(to) \in Nat /\ c <= Len(to)
  BY DEF Common
<1>2. Len(LongestCommonPrefix({from, to})) = c
  BY CommonLength
<1>3. from # to
  BY <1>1 DEF Common
<1>4. n \in 1 .. Len(from)
  BY <1>1 DEF Ups
<1>5. spfs_path_get_relative_path(from, to) = up \o down
  <2>1. spfs_path_get_relative_path(from, to)
            = IF from = to THEN <<".">>
              ELSE IF c = Len(from)
                   THEN (IF c > 0 THEN <<"/">> ELSE <<>>) \o down
                   ELSE up \o down
    BY <1>2, Zenon DEF spfs_path_get_relative_path, Ups
  <2>2. c # Len(from)
    BY <1>1
  <2> HIDE DEF up, down
  <2> QED BY <1>3, <2>1, <2>2, Zenon
<1>6. /\ down \in Seq(S) /\ Len(down) = Len(to) - c
      /\ \A i \in 1 .. Len(to) - c : down[i] = to[c + i]
  <2>1. \A i \in c + 1 .. Len(to) : to[i] \in S
    BY <1>1, ElementOfSeq
  <2>2. /\ down \in Seq(S)
        /\ Len(down) = IF c + 1 <= Len(to) THEN Len(to) - (c + 1) + 1 ELSE 0
        /\ \A i \in 1 .. Len(to) - (c + 1) + 1 : down[i] = to[c + 1 + i - 1]
    BY <1>1, <2>1, SubSeqProperties
  <2>3. Len(down) = Len(to) - c
    BY <1>1, <2>2
  <2>4. ASSUME NEW i \in 1 .. Len(to) - c PROVE down[i] = to[c + i]
    <3>1. i \in 1 .. Len(to) - (c + 1) + 1 /\ c + 1 + i - 1 = c + i
      BY <1>1
    <3> QED BY <2>2, <3>1
  <2> QED BY <2>2, <2>3, <2>4
<1> HIDE DEF down, n
<1>7. up \in Seq(S) /\ Len(up) = n /\ \A k \in 1 .. n : up[k] = ".."
  <2>1. up \in [1 .. n -> S]
    BY DEF Walkable
  <2> QED BY <1>4, <2>1
<1> HIDE DEF up
<1>8. /\ up \o down \in Seq(S) /\ Len(up \o down) = n + (Len(to) - c)
      /\ \A i \in 1 .. n + (Len(to) - c) :
            (up \o down)[i] = IF i <= n THEN up[i] ELSE down[i - n]
  <2>1. /\ up \o down \in Seq(S) /\ Len(up \o down) = Len(up) + Len(down)
        /\ \A i \in 1 .. Len(up) + Len(down) :
              (up \o down)[i] = IF i <= Len(up) THEN up[i] ELSE down[i - Len(up)]
    BY <1>6, <1>7, ConcatProperties
  <2> QED BY <1>6, <1>7, <2>1, Zenon
<1>9. ASSUME NEW k \in 1 .. n PROVE (up \o down)[k] = ".."
  <2>1. k \in 1 .. n + (Len(to) - c) /\ k <= n
    BY <1>1, <1>4
  <2> QED BY <1>7, <1>8, <2>1
<1>10. ASSUME NEW i \in 1 .. Len(to) - c
       PROVE  (up \o down)[n + i] = to[c + i]
  <2>1. n + i \in 1 .. n + (Len(to) - c) /\ ~ (n + i <= n) /\ (n + i) - n = i
    BY <1>1, <1>4
  <2> QED BY <1>6, <1>8, <2>1
<1>11. UpAndDown(up \o down, n, to, c)
  BY <1>8, <1>9, <1>10, Zenon DEF UpAndDown
<1>12. n = Ups(from, to, c)
  BY DEF n
<1>13. up \o down \in Seq(S)
  BY <1>8
<1>14. UpAndDown(spfs_path_get_relative_path(from, to), Ups(from, to, c), to, c)
  BY <1>5, <1>11, <1>12, Zenon
<1>15. spfs_path_get_relative_path(from, to) \in Seq(S)
  BY <1>5, <1>13, Zenon
<1>16. Ups(from, to, c) \in 1 .. Len(from)
  BY <1>4, <1>12, Zenon
<1> QED BY <1>14, <1>15, <1>16, Zenon

\* From the root, the path is the target.
LEMMA RelativeFromRoot ==
    ASSUME NEW S, NEW to \in Seq(S), to # <<>>
    PROVE  spfs_path_get_relative_path(<<>>, to) = to
<1> DEFINE down == SubSeq(to, 1, Len(to))
<1>1. Common(<<>>, to, 0)
  BY DEF Common
<1>2. Len(LongestCommonPrefix({<<>>, to})) = 0
  <2>1. <<>> \in Seq(S)
    OBVIOUS
  <2> QED BY <1>1, <2>1, CommonLength
<1>3. spfs_path_get_relative_path(<<>>, to) = <<>> \o down
  <2>1. Len(<<>>) = 0 /\ ~ (0 > 0) /\ 0 + 1 = 1 /\ <<>> # to
    OBVIOUS
  <2>2. spfs_path_get_relative_path(<<>>, to)
            = IF <<>> = to THEN <<".">>
              ELSE IF 0 = Len(<<>>)
                   THEN (IF 0 > 0 THEN <<"/">> ELSE <<>>)
                        \o SubSeq(to, 0 + 1, Len(to))
                   ELSE [k \in 1 .. Ups(<<>>, to, 0) |-> ".."]
                        \o SubSeq(to, 0 + 1, Len(to))
    BY <1>2, Zenon DEF spfs_path_get_relative_path, Ups
  <2> HIDE DEF down
  <2>3. spfs_path_get_relative_path(<<>>, to)
            = (IF 0 > 0 THEN <<"/">> ELSE <<>>) \o SubSeq(to, 0 + 1, Len(to))
    BY <2>1, <2>2, Zenon
  <2>4. (IF 0 > 0 THEN <<"/">> ELSE <<>>) = <<>>
    BY <2>1
  <2> QED BY <2>1, <2>3, <2>4, Zenon DEF down
<1>4. down = to
  BY SubSeqFull
<1> QED BY <1>3, <1>4, ConcatEmptySeq

\* One leads through the other, and neither is the root.
Through(from, to) ==
    /\ from # to /\ from # <<>> /\ to # <<>>
    /\ IsPrefix(from, to) \/ IsPrefix(to, from)

LEMMA ThroughIs ==
    ASSUME NEW S, NEW from \in Seq(S), NEW to \in Seq(S),
           NEW c \in Nat, Common(from, to, c)
    PROVE  Through(from, to) <=> /\ from # to /\ from # <<>> /\ to # <<>>
                                 /\ c = Len(from) \/ c = Len(to)
<1>1. Len(from) \in Nat /\ Len(to) \in Nat
  OBVIOUS
<1>2. IsPrefix(from, to) <=> c = Len(from)
  <2>1. c = Len(from) => IsPrefix(from, to)
    BY PrefixOf DEF Common
  <2>2. ASSUME IsPrefix(from, to) PROVE c = Len(from)
    <3>1. Len(from) <= Len(to) /\ \A i \in 1 .. Len(from) : from[i] = to[i]
      BY <2>2, PrefixElements
    <3>2. c < Len(from) => c + 1 \in 1 .. Len(from) /\ c < Len(to)
      BY <1>1, <3>1
    <3> QED BY <1>1, <3>1, <3>2 DEF Common
  <2> QED BY <2>1, <2>2
<1>3. IsPrefix(to, from) <=> c = Len(to)
  <2>1. c = Len(to) => IsPrefix(to, from)
    <3>1. c = Len(to) => \A i \in 1 .. Len(to) : to[i] = from[i]
      BY DEF Common
    <3> QED BY <3>1, PrefixOf DEF Common
  <2>2. ASSUME IsPrefix(to, from) PROVE c = Len(to)
    <3>1. Len(to) <= Len(from) /\ \A i \in 1 .. Len(to) : to[i] = from[i]
      BY <2>2, PrefixElements
    <3>2. c < Len(to) => c + 1 \in 1 .. Len(to) /\ c < Len(from)
      BY <1>1, <3>1
    <3> QED BY <1>1, <3>1, <3>2 DEF Common
  <2> QED BY <2>1, <2>2
<1> QED BY <1>2, <1>3 DEF Through

\* Where the paths part, going up to that place and down again is right.
LEMMA LeadsOver ==
    ASSUME NEW S, Walkable(S), NEW from \in Seq(S), NEW to \in Seq(S),
           NEW c \in Nat, Common(from, to, c),
           c < Len(from), c < Len(to) \/ c = 0,
           \A i \in 1 .. Len(to) : Plain(to[i])
    PROVE  Walk(from, spfs_path_get_relative_path(from, to)) = to
<1>1. PICK t \in Seq(S), n \in 1 .. Len(from) :
          /\ t = spfs_path_get_relative_path(from, to) /\ n = Ups(from, to, c)
          /\ UpAndDown(t, n, to, c)
  BY RelativeUp, Zenon
<1>2. /\ Len(t) = n + (Len(to) - c)
      /\ \A k \in 1 .. n : t[k] = ".."
      /\ \A i \in 1 .. Len(to) - c : t[n + i] = to[c + i]
  BY <1>1 DEF UpAndDown
<1>3. Len(from) \in Nat /\ Len(to) \in Nat /\ c <= Len(to) /\ Len(t) \in Nat
  BY DEF Common
<1>4. n \in Nat /\ n <= Len(t) /\ n <= Len(from) /\ n = Len(from) - c
  <2>1. n = Len(from) - c
    BY <1>1, <1>3 DEF Ups
  <2> QED BY <1>1, <1>3, <1>2, <2>1
<1>5. PICK f : Walk(from, t) = f[Len(t)] /\ Along(f, from, t)
  BY WalkIs
<1>6. f[n] = SubSeq(from, 1, c)
  <2>1. f[n] = SubSeq(from, 1, Len(from) - n)
    BY <1>4, <1>5, <1>2, WalkUp
  <2> QED BY <1>3, <1>4, <2>1
<1>7. SubSeq(from, 1, c) = SubSeq(to, 1, c)
  <2>1. \A i \in 1 .. c : from[i] \in S /\ from[i] = to[i]
    BY <1>3, ElementOfSeq DEF Common
  <2>2. 1 \in Int /\ c \in Int
    OBVIOUS
  <2> QED BY <2>1, <2>2, SubSeqSame
<1>8. f[Len(t)] = to
  <2>1. Len(t) - n = Len(to) - c
    BY <1>3, <1>4, <1>2
  <2>2. \A i \in 1 .. Len(to) - c : t[n + i] = to[c + i] /\ Plain(to[c + i])
    <3>1. \A i \in 1 .. Len(to) - c : c + i \in 1 .. Len(to)
      BY <1>3
    <3> QED BY <1>2, <3>1
  <2> QED BY <1>3, <1>4, <1>5, <1>6, <1>7, <2>1, <2>2, WalkOn
<1> QED BY <1>1, <1>5, <1>8

\* Where one path is within the other, the target leads somewhere else.
LEMMA LeadsAstray ==
    ASSUME NEW S, Walkable(S), NEW from \in Seq(S), NEW to \in Seq(S),
           NEW c \in Nat, Common(from, to, c), c > 0, from # to,
           c = Len(from) \/ c = Len(to),
           \A i \in 1 .. Len(to) : Plain(to[i])
    PROVE  Walk(from, spfs_path_get_relative_path(from, to)) # to
<1>1. Len(from) \in Nat /\ Len(to) \in Nat /\ c <= Len(to) /\ c <= Len(from)
  BY DEF Common
<1>2. CASE c = Len(from)
  <2> DEFINE rest == SubSeq(to, c + 1, Len(to))
  <2>1. from # <<>>
    BY <1>1, <1>2, EmptySeq
  <2>2. PICK t \in Seq(S) :
            /\ t = spfs_path_get_relative_path(from, to)
            /\ Len(t) = Len(to) - Len(from) + 1 /\ t[1] = "/"
            /\ \A i \in 1 .. Len(to) - Len(from) : t[1 + i] = to[Len(from) + i]
    BY <1>2, <2>1, RelativeDown
  <2>3. PICK f : Walk(from, t) = f[Len(t)] /\ Along(f, from, t)
    BY WalkIs
  <2>4. \A i \in c + 1 .. Len(to) : to[i] \in S
    BY <1>1, ElementOfSeq
  <2>5. /\ rest \in Seq(S)
        /\ Len(rest) = IF c + 1 <= Len(to) THEN Len(to) - (c + 1) + 1 ELSE 0
        /\ \A i \in 1 .. Len(to) - (c + 1) + 1 : rest[i] = to[c + 1 + i - 1]
    BY <1>1, <2>4, SubSeqProperties
  <2> HIDE DEF rest
  <2>6. Len(rest) = Len(to) - c
    BY <1>1, <2>5
  <2>7. \A i \in 1 .. Len(rest) : rest[i] = to[c + i] /\ c + i \in 1 .. Len(to)
    <3>1. ASSUME NEW i \in 1 .. Len(rest)
          PROVE  rest[i] = to[c + i] /\ c + i \in 1 .. Len(to)
      <4>1. i \in 1 .. Len(to) - (c + 1) + 1 /\ c + 1 + i - 1 = c + i
        BY <1>1, <2>6
      <4>2. c + i \in 1 .. Len(to)
        BY <1>1, <2>6
      <4> QED BY <2>5, <4>1, <4>2
    <3> QED BY <3>1
  <2>8. f[1] = <<>>
    <3>1. 1 \in 1 .. Len(t) /\ 1 - 1 = 0
      BY <1>1, <1>2, <2>2
    <3> QED BY <2>2, <2>3, <3>1 DEF Along, Enter
  <2>9. f[Len(t)] = rest
    <3>1. SubSeq(rest, 1, 0) = <<>>
      BY SubSeqEmpty
    <3>2. /\ 1 <= Len(t) /\ Len(t) - 1 = Len(rest) - 0 /\ 0 <= Len(rest)
          /\ 0 \in Nat /\ 1 \in Nat /\ f[1] = SubSeq(rest, 1, 0)
      BY <1>1, <1>2, <2>2, <2>6, <2>8, <3>1
    <3>3. \A i \in 1 .. Len(rest) - 0 :
              t[1 + i] = rest[0 + i] /\ Plain(rest[0 + i])
      <4>1. \A i \in 1 .. Len(rest) - 0 : i \in 1 .. Len(rest) /\ 0 + i = i
        OBVIOUS
      <4> QED BY <1>2, <2>2, <2>6, <2>7, <4>1
    <3> QED BY <2>3, <2>5, <3>2, <3>3, WalkOn
  <2> QED BY <1>1, <2>2, <2>3, <2>6, <2>9
<1>3. CASE c = Len(to) /\ c < Len(from)
  <2>1. PICK t \in Seq(S), n \in 1 .. Len(from) :
            /\ t = spfs_path_get_relative_path(from, to) /\ n = Ups(from, to, c)
            /\ UpAndDown(t, n, to, c)
    BY <1>3, RelativeUp, Zenon
  <2>2. /\ n = Len(from) - c + 1 /\ Len(t) = n
        /\ n \in Nat /\ n <= Len(t) /\ n <= Len(from)
        /\ \A k \in 1 .. n : t[k] = ".."
    <3>1. n = Len(from) - c + 1
      BY <1>1, <1>3, <2>1 DEF Ups
    <3>2. Len(t) = n + (Len(to) - c) /\ \A k \in 1 .. n : t[k] = ".."
      BY <2>1, Zenon DEF UpAndDown
    <3> QED BY <1>1, <1>3, <2>1, <3>1, <3>2
  <2>3. PICK f : Walk(from, t) = f[Len(t)] /\ Along(f, from, t)
    BY WalkIs
  <2>4. f[n] = SubSeq(from, 1, Len(from) - n)
    BY <2>2, <2>3, WalkUp
  <2>5. Len(SubSeq(from, 1, Len(from) - n)) = Len(from) - n
    <3>1. Len(from) - n \in 0 .. Len(from)
      BY <1>1, <2>1
    <3> QED BY <3>1, FirstPart
  <2> QED BY <1>1, <1>3, <2>1, <2>2, <2>3, <2>4, <2>5
<1> QED BY <1>1, <1>2, <1>3

\* What spfs_path_get_relative_path answers leads from one path to the other
\* if and only if neither leads through the other, or one is the root: the
\* places that links are in and lead to are never within one another.
THEOREM RelativePathsOfElements ==
    ASSUME NEW S, Walkable(S), NEW from \in Seq(S), NEW to \in Seq(S),
           \A i \in 1 .. Len(to) : Plain(to[i])
    PROVE  Walk(from, spfs_path_get_relative_path(from, to)) = to
               <=> ~ Through(from, to)
<1>1. PICK c \in Nat : Common(from, to, c)
  BY CommonExists
<1>2. Len(from) \in Nat /\ Len(to) \in Nat /\ c <= Len(to) /\ c <= Len(from)
  BY <1>1 DEF Common
<1>3. CASE from = to
  <2>1. ~ Through(from, to)
    BY <1>3 DEF Through
  <2>2. spfs_path_get_relative_path(from, to) = <<".">>
    BY <1>3 DEF spfs_path_get_relative_path
  <2>3. <<".">> \in Seq(S) /\ Len(<<".">>) = 1 /\ <<".">>[1] = "."
    BY DEF Walkable
  <2>4. PICK t \in Seq(S) : t = <<".">>
    BY <2>3
  <2>5. PICK f : Walk(from, t) = f[Len(t)] /\ Along(f, from, t)
    BY WalkIs
  <2>6. f[1] = from
    <3>1. 1 \in 1 .. Len(t) /\ 1 - 1 = 0 /\ t[1] = "."
      BY <2>3, <2>4
    <3> QED BY <2>5, <3>1 DEF Along, Enter
  <2> QED BY <1>3, <2>1, <2>2, <2>3, <2>4, <2>5, <2>6
<1>4. CASE from # to /\ from = <<>>
  <2>1. ~ Through(from, to) /\ to # <<>>
    BY <1>4 DEF Through
  <2>2. spfs_path_get_relative_path(from, to) = to
    BY <1>4, <2>1, RelativeFromRoot
  <2>3. PICK f : Walk(from, to) = f[Len(to)] /\ Along(f, from, to)
    BY WalkIs
  <2>4. f[0] = SubSeq(to, 1, 0)
    BY <1>4, <2>3, SubSeqEmpty DEF Along
  <2>5. \A i \in 1 .. Len(to) - 0 : to[0 + i] = to[0 + i] /\ Plain(to[0 + i])
    OBVIOUS
  <2>6. f[Len(to)] = to
    <3>1. 0 \in Nat /\ 0 <= Len(to) /\ Len(to) - 0 = Len(to) - 0
      BY <1>2
    <3> QED BY <2>3, <2>4, <2>5, <3>1, WalkOn
  <2> QED BY <2>1, <2>2, <2>3, <2>6
<1>5. CASE from # to /\ from # <<>> /\ (c = Len(from) \/ c = Len(to)) /\ c > 0
  <2>1. Through(from, to)
    <3>1. to # <<>>
      BY <1>2, <1>5, EmptySeq
    <3> QED BY <1>1, <1>5, <3>1, ThroughIs
  <2> QED BY <1>1, <1>5, <2>1, LeadsAstray
<1>6. CASE from # to /\ from # <<>> /\ c < Len(from) /\ (c < Len(to) \/ c = 0)
  <2>1. ~ Through(from, to)
    <3>1. c = Len(to) => to = <<>>
      BY <1>2, <1>6, EmptySeq
    <3> QED BY <1>1, <1>2, <1>6, <3>1, ThroughIs
  <2> QED BY <1>1, <1>6, <2>1, LeadsOver
<1>7. from # <<>> => Len(from) > 0
  BY EmptySeq
<1> QED BY <1>2, <1>3, <1>4, <1>5, <1>6, <1>7
-----------------------------------------------------------------------------
(* What is where in the tree, and what links are made to lead to.          *)

\* The entities of spfs_init are there for ever.
BaseOK ==
    /\ DirIs(entity[1], "", 0, "")
    /\ DirIs(entity[2], "browse", 1, "")
    /\ DirIs(entity[3], "tracks", 2, "")
    /\ DirIs(entity[4], "artists", 2, "")
    /\ DirIs(entity[5], "albums", 2, "")
    /\ DirIs(entity[6], "search", 1, "search")
    /\ DirIs(entity[7], "playlists", 1, "")
    /\ DirIs(entity[8], "meta", 7, "meta_lists")
    /\ DirIs(entity[9], "music", 7, "music_lists")

\* The directory about a resource, in the tree or not.
IsBrowseDir(x, e) == e > 9 /\ x.kind = "dir" /\ x.ops = ""

Listing == {"music_lists", "meta_lists", "music", "meta", "artists", "albums",
            "portraits", "results"}

\* Directories of links, and those whose links lead to the music.
LinkDirs == {"music", "meta", "artists", "albums", "results"}
MusicDirs == {"music", "results"}

\* Where the directory about r is, or the music in it: under /browse, or, if
\* there was one of its name already, nowhere.
Homes(r, music) ==
    IF music THEN { <<"browse", Class[r], Uri[r], "track.wav">>,
                    <<Uri[r], "track.wav">> }
             ELSE { <<"browse", Class[r], Uri[r]>>, <<Uri[r]>> }

\* The path of directory d while a link in it gets its target: one with
\* results may be added to its parent only later.
Origin(path, d) ==
    IF entity[d].ops = "results"
    THEN path \in { <<entity[d].name>>, <<"search", entity[d].name>> }
    ELSE path = spfs_entity_get_full_path(d)

LedFrom(target, r, d) ==
    \E from, to :
        /\ Origin(from, d) /\ to \in Homes(r, entity[d].ops \in MusicDirs)
        /\ target = spfs_path_get_relative_path(from, to)

\* The way to d does not change any more.
Settled(d) == entity[d].ops # "results" => Reachable(d)

\* What a link x in directory d is.
LinkShape(x, d) ==
    /\ entity[d].ops \in LinkDirs /\ Settled(d)
    /\ x.res \in Resources /\ Plain(x.name)
    /\ entity[d].ops \in {"artists", "albums"} =>
          Class[x.res] # Class[entity[d].res]
    /\ x.target = <<x.name>> \/ LedFrom(x.target, x.res, d)

\* What an entity x, e in the order of creation, may be.
BrowseShape(x, e) ==
    /\ x.ops \in {"music_lists", "meta_lists"} => e \in {8, 9}
    /\ IsBrowseDir(x, e) =>
          /\ x.res \in Resources /\ x.name = Uri[x.res]
          /\ x.parent \in {None, BrowseDir[Class[x.res]]}

OpsShape(x) ==
    /\ x.ops \in {"music", "meta"} => x.parent \in {None, 8, 9}
    /\ x.ops \in {"artists", "albums"} =>
          /\ x.parent > 9
          /\ entity[x.parent].kind = "dir" /\ entity[x.parent].ops = ""
    /\ x.ops = "results" => x.parent \in {None, SearchDir}

\* ... by the directory it is in.
EntryShape(x, e) ==
    /\ x.parent \in {1, 2, 7} => e <= 9
    /\ x.parent \in {3, 4, 5} => IsBrowseDir(x, e)
    /\ x.parent = SearchDir => x.ops = "results"
    /\ x.parent > 9 /\ entity[x.parent].ops = "" =>
          /\ x.res = entity[x.parent].res
          /\ x.name = "track.wav" => x.kind = "file"
    /\ x.parent > 9 /\ entity[x.parent].ops = "results" =>
          x.kind = "link" /\ x.name # "track.wav"

Shape(e) ==
    /\ BrowseShape(entity[e], e) /\ OpsShape(entity[e])
    /\ EntryShape(entity[e], e)
    /\ entity[e].kind = "link" =>
          \A d \in Ids : entity[e].parent = d => LinkShape(entity[e], d)

\* What the list of directory d may hold.
ItemFits(it, d) ==
    LET ops == entity[d].ops IN
    /\ it.kind = "wav_link" => ops \in MusicDirs
    /\ it.kind = "link" => ops \in {"meta", "artists", "albums"}
    /\ it.kind = "dir" => d \in {8, 9}
    /\ ops = "results" => it.kind = "wav_link" /\ Sanitize(it.name) # "track.wav"
    /\ ops \in {"artists", "albums"} => Class[it.res] # Class[entity[d].res]
    /\ it.kind \in LinkKinds => Plain(Sanitize(it.name))

EntryFits(x, it) ==
    /\ x.kind = IF it.kind \in LinkKinds THEN "link" ELSE it.kind
    /\ x.name = Sanitize(it.name) /\ x.res = it.res
    /\ x.ops = IF it.kind = "dir" THEN it.ops ELSE ""
    /\ it.kind \in LinkKinds => x.target = <<x.name>>

\* What a thread is about to put where.
ListFits(t) ==
    \A d \in Ids : dir[t] = d =>
        /\ entity[d].ops \in Listing /\ Settled(d)
        /\ \A k \in 1 .. Len(items[t]) : ItemFits(items[t][k], d)

HeldFits(t) ==
    pc[t] \in {"browse", "browse_add", "add"} /\ entry[t] # None =>
        EntryFits(entity[entry[t]], It(t))

\* The link that gets its target next is nobody's to add any more.
TargetFits(t) ==
    pc[t] = "target" =>
        \A e \in Ids : entry[t] = e =>
            /\ entity[e].kind = "link" /\ entity[e].res = It(t).res
            /\ entity[e].parent \in {None, dir[t]}
            /\ \A u \in Threads : ~ Held(u, e)

BrowseFits(t) ==
    pc[t] \in Working /\ browse[t] # None =>
        /\ IsBrowseDir(entity[browse[t]], browse[t])
        /\ entity[browse[t]].res = It(t).res

Fits(t) == ListFits(t) /\ HeldFits(t) /\ TargetFits(t) /\ BrowseFits(t)

ShapeInv ==
    /\ BaseOK /\ \A e \in Ids : Shape(e)
    /\ \A t \in Threads : Fits(t)

\* What the ways up consist in, at any time.
WaysUp ==
    /\ spfs_entity_get_full_path(Root) = <<>> /\ Reachable(Root)
    /\ \A e \in Ids : e # Root /\ entity[e].parent = None =>
          spfs_entity_get_full_path(e) = <<entity[e].name>> /\ ~ Reachable(e)
    /\ \A e, p \in Ids : e # Root /\ entity[e].parent = p =>
          /\ spfs_entity_get_full_path(e)
                = Append(spfs_entity_get_full_path(p), entity[e].name)
          /\ Reachable(e) <=> Reachable(p)

LEMMA WaysUpHold ==
    ASSUME TreeOK PROVE WaysUp
<1> DEFINE f == CHOOSE g : Connected(g)
<1>1. \A x : Reachable(x) <=> f[x]
  BY DEF Reachable, Connected
<1>2. Connected(f)
  BY ConnectedExists
<1> HIDE DEF f
<1>3. \A e \in Ids :
          f[e] = (e = Root \/ (entity[e].parent # None /\ f[entity[e].parent]))
  BY <1>2 DEF Connected
<1>4. Root \in Ids /\ None \notin Ids
  BY DEF TreeOK, Root, Ids, None
<1>5. spfs_entity_get_full_path(Root) = <<>> /\ Reachable(Root)
  BY <1>1, <1>3, <1>4, FullPathIs
<1>6. ASSUME NEW e \in Ids, e # Root, entity[e].parent = None
      PROVE  spfs_entity_get_full_path(e) = <<entity[e].name>> /\ ~ Reachable(e)
  BY <1>1, <1>3, <1>6, FullPathIs
<1>7. ASSUME NEW e \in Ids, NEW p \in Ids, e # Root, entity[e].parent = p
      PROVE  /\ spfs_entity_get_full_path(e)
                   = Append(spfs_entity_get_full_path(p), entity[e].name)
             /\ Reachable(e) <=> Reachable(p)
  BY <1>1, <1>3, <1>4, <1>7, FullPathIs
<1> QED BY <1>5, <1>6, <1>7 DEF WaysUp

LEMMA WaysUpNext ==
    TreeOK' => WaysUp'
<1>1. TreeOK => WaysUp
  BY WaysUpHold
<1> QED BY <1>1, PTL

\* Nothing in the tree ever moves.
LEMMA WaysStay ==
    ASSUME TreeOK, UniqueNames, TreeStep, NEW e \in Ids, Reachable(e)
    PROVE  /\ Reachable(e)'
           /\ spfs_entity_get_full_path(e)' = spfs_entity_get_full_path(e)
<1> DEFINE Stays(x) == /\ Reachable(x)'
                       /\ spfs_entity_get_full_path(x)' = spfs_entity_get_full_path(x)
           B == {x \in Nat : x \in Ids /\ Reachable(x) /\ ~ Stays(x)}
<1>1. TreeOK' /\ TreeKeeps /\ ParentsKept
  BY TreeAfter
<1>2. WaysUp /\ WaysUp'
  BY <1>1, WaysUpHold, WaysUpNext
<1>3. \A x \in Ids : x \in Ids'
  BY IdsGrow
<1>4. ASSUME NEW x \in Ids, Reachable(x),
             \A y \in Ids : y < x /\ Reachable(y) => Stays(y)
      PROVE  Stays(x)
  <2>1. CASE x = Root
    BY <1>2, <2>1 DEF WaysUp
  <2>2. CASE x # Root
    <3>1. PICK p \in Ids : p = entity[x].parent /\ Reachable(p)
      BY <1>4, <2>2, ReachableIs
    <3>2. p < x /\ p # None
      BY <3>1, AboveFacts, <2>2 DEF Above, None
    <3>3. Stays(p)
      BY <1>4, <3>1, <3>2
    <3>4. entity'[x].parent = p /\ entity'[x].name = entity[x].name
      BY <1>1, <3>1, <3>2 DEF ParentsKept, TreeKeeps
    <3>5. /\ spfs_entity_get_full_path(x)'
                = Append(spfs_entity_get_full_path(p)', entity'[x].name)
          /\ Reachable(x)' <=> Reachable(p)'
      BY <1>2, <1>3, <2>2, <3>1, <3>4 DEF WaysUp
    <3>6. spfs_entity_get_full_path(x)
              = Append(spfs_entity_get_full_path(p), entity[x].name)
      BY <1>2, <2>2, <3>1 DEF WaysUp
    <3> QED BY <3>3, <3>4, <3>5, <3>6
  <2> QED BY <2>1, <2>2
<1>5. ASSUME B # {} PROVE FALSE
  <2>1. PICK x \in B : \A y \in B : x <= y
    <3>1. B \subseteq Nat
      OBVIOUS
    <3> HIDE DEF B
    <3> QED BY <1>5, <3>1, LeastNatural
  <2>2. ASSUME NEW y \in Ids, y < x, Reachable(y) PROVE Stays(y)
    <3>1. y \in Nat /\ x \in Nat
      BY <2>1, AboveFacts
    <3>2. y \notin B
      <4> HIDE DEF B
      <4> QED BY <2>1, <2>2, <3>1
    <3> HIDE DEF Stays
    <3> QED BY <2>2, <3>1, <3>2
  <2> HIDE DEF Stays
  <2> QED BY <1>4, <2>1, <2>2
<1>6. e \in Nat
  BY AboveFacts
<1> HIDE DEF Stays
<1>7. Stays(e)
  BY <1>5, <1>6
<1> QED BY <1>7 DEF Stays

\* What is looked up is an entry of that name.
LEMMA ChildEntry ==
    ASSUME TreeOK, NEW d, NEW n, Child(d, n) # None
    PROVE  /\ Child(d, n) \in Ids
           /\ entity[Child(d, n)].parent = d /\ entity[Child(d, n)].name = n
<1> DEFINE found == {e \in Ids : entity[e].parent = d /\ entity[e].name = n}
<1>1. found # {}
  BY DEF Child
<1>2. Child(d, n) = CHOOSE e \in found : TRUE
  BY <1>1 DEF Child
<1>3. (CHOOSE e \in found : TRUE) \in found
  BY <1>1
<1> QED BY <1>2, <1>3

\* What is found by a path is in the tree.
LEMMA FoundIsReachable ==
    ASSUME TreeOK, NEW path, Len(path) \in Nat,
           spfs_entity_find_path(path) # None
    PROVE  /\ spfs_entity_find_path(path) \in Ids
           /\ Reachable(spfs_entity_find_path(path))
<1>1. Root \in Ids /\ None \notin Ids
  BY DEF TreeOK, Root, Ids, None
<1>2. PICK f : /\ FindPathFrom(Root, path) = f[Len(path)] /\ f[0] = Root
               /\ \A k \in 1 .. Len(path) : f[k] = NextOnPath(f[k - 1], path, k)
  BY <1>1, FindPathIs
<1> DEFINE n == Len(path)
           Good(x) == x # None => x \in Ids /\ Reachable(x)
           T == {k \in Nat : k <= n => Good(f[k])}
<1>3. WaysUp
  BY WaysUpHold
<1>4. 0 \in T
  BY <1>1, <1>2, <1>3 DEF WaysUp
<1>5. ASSUME NEW k \in Nat, k \in T PROVE k + 1 \in T
  <2>1. SUFFICES ASSUME k + 1 <= n PROVE Good(f[k + 1])
    <3> HIDE DEF Good
    <3> QED OBVIOUS
  <2>2. Good(f[k])
    <3> HIDE DEF Good
    <3> QED BY <1>5, <2>1
  <2>3. k + 1 \in 1 .. n /\ (k + 1) - 1 = k
    BY <2>1
  <2>4. f[k + 1] = NextOnPath(f[k], path, k + 1)
    BY <1>2, <2>3
  <2>5. f[k + 1] \in {None, f[k], Child(f[k], path[k + 1])}
    BY <2>4 DEF NextOnPath
  <2>6. CASE f[k] = None
    BY <2>4, <2>6 DEF NextOnPath
  <2>7. CASE f[k] # None
    <3>1. PICK p \in Ids : p = f[k] /\ Reachable(p)
      BY <2>2, <2>7
    <3>2. ASSUME f[k + 1] # None, f[k + 1] = Child(p, path[k + 1])
          PROVE  f[k + 1] \in Ids /\ Reachable(f[k + 1])
      <4>1. PICK c \in Ids : c = f[k + 1]
        BY <3>2, ChildEntry
      <4>2. entity[c].parent = p
        BY <3>2, <4>1, ChildEntry
      <4>3. c # Root
        <5>1. entity[Root].parent \in Nat /\ entity[Root].parent < 1
          BY <1>1 DEF TreeOK, EntityOK, Root
        <5> QED BY <3>1, <4>2, <5>1, AboveFacts DEF Root
      <4>4. Reachable(c)
        BY <1>3, <3>1, <4>2, <4>3 DEF WaysUp
      <4> QED BY <4>1, <4>4
    <3> QED BY <2>5, <3>1, <3>2
  <2> QED BY <2>6, <2>7
<1>6. n \in T
  <2> HIDE DEF T
  <2> QED BY <1>4, <1>5, SetInduction
<1>7. Good(f[n])
  <2> HIDE DEF Good
  <2> QED BY <1>6
<1> QED BY <1>2, <1>7 DEF spfs_entity_find_path

-----------------------------------------------------------------------------
(* What a step of another thread leaves as it is.                          *)

LEMMA SettledStays ==
    ASSUME TreeOK, UniqueNames, TreeStep, NEW d \in Ids, Settled(d)
    PROVE  Settled(d)' /\ \A path : Origin(path, d) => Origin(path, d)'
<1>1. /\ entity'[d].ops = entity[d].ops /\ entity'[d].name = entity[d].name
  BY TreeAfter DEF TreeKeeps
<1>2. CASE entity[d].ops = "results"
  BY <1>1, <1>2 DEF Settled, Origin
<1>3. CASE entity[d].ops # "results"
  <2>1. Reachable(d)
    BY <1>3 DEF Settled
  <2>2. /\ Reachable(d)'
        /\ spfs_entity_get_full_path(d)' = spfs_entity_get_full_path(d)
    BY <2>1, WaysStay
  <2> QED BY <1>1, <1>3, <2>2 DEF Settled, Origin
<1> QED BY <1>2, <1>3

LEMMA LinkStays ==
    ASSUME TreeOK, UniqueNames, TreeStep, NEW d \in Ids, NEW x, LinkShape(x, d)
    PROVE  LinkShape(x, d)'
<1>1. entity'[d].ops = entity[d].ops /\ entity'[d].res = entity[d].res
  BY TreeAfter DEF TreeKeeps
<1>2. Settled(d)' /\ \A path : Origin(path, d) => Origin(path, d)'
  BY SettledStays DEF LinkShape
<1>3. LedFrom(x.target, x.res, d) => LedFrom(x.target, x.res, d)'
  BY <1>1, <1>2, Zenon DEF LedFrom
<1> QED BY <1>1, <1>2, <1>3 DEF LinkShape

LEMMA OpsStays ==
    ASSUME TreeOK, TreeKeeps, NEW e \in Ids, NEW x, x = entity[e],
           OpsShape(x), EntryShape(x, e)
    PROVE  OpsShape(x)' /\ EntryShape(x, e)'
<1>1. x.parent \in Nat /\ x.parent < e /\ Ids = 1 .. Len(entity)
      /\ Len(entity) \in Nat
  BY AboveFacts DEF TreeOK, EntityOK
<1>2. x.parent > 9 =>
          /\ entity'[x.parent].kind = entity[x.parent].kind
          /\ entity'[x.parent].ops = entity[x.parent].ops
          /\ entity'[x.parent].res = entity[x.parent].res
  <2>1. x.parent > 9 => x.parent \in Ids
    BY <1>1
  <2> QED BY <2>1 DEF TreeKeeps
<1>3. OpsShape(x)'
  BY <1>1, <1>2 DEF OpsShape
<1>4. EntryShape(x, e)'
  BY <1>1, <1>2 DEF EntryShape
<1> QED BY <1>3, <1>4

\* What makes up the shape of an entity after the step.
LEMMA ShapeNext ==
    ASSUME NEW e, NEW x, x = entity'[e], BrowseShape(x, e),
           OpsShape(x)', EntryShape(x, e)',
           x.kind = "link" => \A d \in Ids' : x.parent = d => LinkShape(x, d)'
    PROVE  Shape(e)'
<1>1. BrowseShape(entity[e], e)'
  BY DEF BrowseShape, IsBrowseDir
<1>2. OpsShape(entity[e])'
  BY DEF OpsShape
<1>3. EntryShape(entity[e], e)'
  BY DEF EntryShape, IsBrowseDir
<1>4. ASSUME entity'[e].kind = "link", NEW d \in Ids', entity'[e].parent = d
      PROVE  LinkShape(entity[e], d)'
  <2>1. LinkShape(x, d)'
    BY <1>4
  <2> QED BY <2>1 DEF LinkShape
<1> QED BY <1>1, <1>2, <1>3, <1>4 DEF Shape

\* An entity that is left alone is what it was.
LEMMA ShapeStays ==
    ASSUME TreeOK, UniqueNames, TreeStep, NEW e \in Ids, Shape(e),
           entity'[e] = entity[e]
    PROVE  Shape(e)'
<1>1. PICK x : x = entity[e]
  OBVIOUS
<1>2. x = entity'[e]
  BY <1>1
<1>3. BrowseShape(x, e) /\ OpsShape(x) /\ EntryShape(x, e)
  BY <1>1 DEF Shape
<1>4. TreeKeeps /\ Len(entity) \in Nat
  BY TreeAfter, AboveFacts
<1>5. OpsShape(x)' /\ EntryShape(x, e)'
  BY <1>1, <1>3, <1>4, OpsStays
<1>6. ASSUME x.kind = "link", NEW d \in Ids', x.parent = d
      PROVE  LinkShape(x, d)'
  <2>1. x.parent \in Nat /\ x.parent < e /\ e <= Len(entity)
    BY <1>1, <1>4 DEF TreeOK, EntityOK, Ids
  <2>2. d \in Ids
    BY <1>4, <1>6, <2>1 DEF Ids
  <2>3. LinkShape(x, d)
    BY <1>1, <1>6, <2>2 DEF Shape
  <2> QED BY <2>2, <2>3, LinkStays
<1> QED BY <1>2, <1>3, <1>5, <1>6, ShapeNext

LEMMA BaseStays ==
    ASSUME TreeInv, TreeStep, BaseOK PROVE BaseOK'
<1>1. TreeOK /\ UniqueNames
  BY DEF TreeInv
<1>2. TreeOK' /\ TreeKeeps /\ ParentsKept
  BY <1>1, TreeAfter
<1>3. \A e \in 1 .. 9 : e \in Ids /\ e \in Ids'
  BY <1>1, <1>2, IdsGrow, AboveFacts DEF TreeOK, Ids
<1>4. \A e \in 1 .. 9 : entity[e].parent = 0 => e = 1
  <2>1. /\ entity[2].parent = 1 /\ entity[3].parent = 2 /\ entity[4].parent = 2
        /\ entity[5].parent = 2 /\ entity[6].parent = 1 /\ entity[7].parent = 1
        /\ entity[8].parent = 7 /\ entity[9].parent = 7
    BY DEF BaseOK, DirIs
  <2>2. \A e \in 1 .. 9 : \/ e = 1 \/ e = 2 \/ e = 3 \/ e = 4 \/ e = 5
                           \/ e = 6 \/ e = 7 \/ e = 8 \/ e = 9
    OBVIOUS
  <2> QED BY <2>1, <2>2
<1>5. ASSUME NEW e \in 1 .. 9, NEW name, NEW parent \in 0 .. 7, NEW ops,
             DirIs(entity[e], name, parent, ops)
      PROVE  DirIs(entity'[e], name, parent, ops)
  <2>1. /\ e \in Ids /\ e \in Ids' /\ DOMAIN entity'[e] = EntityFields
        /\ entity'[e].name = entity[e].name /\ entity'[e].ops = entity[e].ops
        /\ entity'[e].kind = entity[e].kind
    BY <1>2, <1>3 DEF TreeOK, EntityOK, TreeKeeps
  <2>2. CASE entity[e].parent # None
    BY <1>2, <1>5, <2>1, <2>2 DEF ParentsKept, DirIs
  <2>3. CASE entity[e].parent = None
    <3>1. e = 1
      BY <1>4, <2>3 DEF None
    <3>2. entity'[e].parent \in Nat /\ entity'[e].parent < e
      BY <1>2, <2>1 DEF TreeOK, EntityOK
    <3> QED BY <1>5, <2>1, <2>3, <3>1, <3>2 DEF DirIs, None
  <2> QED BY <2>2, <2>3
<1>6. DirIs(entity'[1], "", 0, "")
  <2>1. DirIs(entity[1], "", 0, "")
    BY Zenon DEF BaseOK
  <2>2. 1 \in 1 .. 9 /\ 0 \in 0 .. 7
    OBVIOUS
  <2> QED BY <1>5, <2>1, <2>2
<1>7. DirIs(entity'[2], "browse", 1, "")
  <2>1. DirIs(entity[2], "browse", 1, "")
    BY Zenon DEF BaseOK
  <2>2. 2 \in 1 .. 9 /\ 1 \in 0 .. 7
    OBVIOUS
  <2> QED BY <1>5, <2>1, <2>2
<1>8. DirIs(entity'[3], "tracks", 2, "")
  <2>1. DirIs(entity[3], "tracks", 2, "")
    BY Zenon DEF BaseOK
  <2>2. 3 \in 1 .. 9 /\ 2 \in 0 .. 7
    OBVIOUS
  <2> QED BY <1>5, <2>1, <2>2
<1>9. DirIs(entity'[4], "artists", 2, "")
  <2>1. DirIs(entity[4], "artists", 2, "")
    BY Zenon DEF BaseOK
  <2>2. 4 \in 1 .. 9 /\ 2 \in 0 .. 7
    OBVIOUS
  <2> QED BY <1>5, <2>1, <2>2
<1>10. DirIs(entity'[5], "albums", 2, "")
  <2>1. DirIs(entity[5], "albums", 2, "")
    BY Zenon DEF BaseOK
  <2>2. 5 \in 1 .. 9 /\ 2 \in 0 .. 7
    OBVIOUS
  <2> QED BY <1>5, <2>1, <2>2
<1>11. DirIs(entity'[6], "search", 1, "search")
  <2>1. DirIs(entity[6], "search", 1, "search")
    BY Zenon DEF BaseOK
  <2>2. 6 \in 1 .. 9 /\ 1 \in 0 .. 7
    OBVIOUS
  <2> QED BY <1>5, <2>1, <2>2
<1>12. DirIs(entity'[7], "playlists", 1, "")
  <2>1. DirIs(entity[7], "playlists", 1, "")
    BY Zenon DEF BaseOK
  <2>2. 7 \in 1 .. 9 /\ 1 \in 0 .. 7
    OBVIOUS
  <2> QED BY <1>5, <2>1, <2>2
<1>13. DirIs(entity'[8], "meta", 7, "meta_lists")
  <2>1. DirIs(entity[8], "meta", 7, "meta_lists")
    BY Zenon DEF BaseOK
  <2>2. 8 \in 1 .. 9 /\ 7 \in 0 .. 7
    OBVIOUS
  <2> QED BY <1>5, <2>1, <2>2
<1>14. DirIs(entity'[9], "music", 7, "music_lists")
  <2>1. DirIs(entity[9], "music", 7, "music_lists")
    BY Zenon DEF BaseOK
  <2>2. 9 \in 1 .. 9 /\ 7 \in 0 .. 7
    OBVIOUS
  <2> QED BY <1>5, <2>1, <2>2
<1> QED
  BY <1>6, <1>7, <1>8, <1>9, <1>10, <1>11, <1>12, <1>13, <1>14 DEF BaseOK

\* Only the target of the link a thread is to set changes.
TargetsKept(t) ==
    \A e \in Ids : \/ entity'[e].target = entity[e].target
                   \/ pc[t] = "target" /\ e = entry[t]

LEMMA ListStays ==
    ASSUME TreeInv, TreeStep, NEW u \in Threads, ListFits(u),
           dir'[u] = dir[u], items'[u] = items[u]
    PROVE  ListFits(u)'
<1> SUFFICES ASSUME NEW d \in Ids', dir'[u] = d
             PROVE  /\ entity'[d].ops \in Listing /\ Settled(d)'
                    /\ \A k \in 1 .. Len(items'[u]) : ItemFits(items[u][k], d)'
  BY DEF ListFits
<1>1. TreeOK /\ UniqueNames /\ dir[u] \in 0 .. Len(entity) /\ Len(entity) \in Nat
  BY AtThread DEF ThreadOK
<1>2. d \in Ids /\ dir[u] = d
  BY <1>1 DEF Ids
<1>3. /\ entity[d].ops \in Listing /\ Settled(d)
      /\ \A k \in 1 .. Len(items[u]) : ItemFits(items[u][k], d)
  BY <1>2 DEF ListFits
<1>4. entity'[d].ops = entity[d].ops /\ entity'[d].res = entity[d].res
  BY <1>1, <1>2, TreeAfter DEF TreeKeeps
<1>5. Settled(d)'
  BY <1>1, <1>2, <1>3, SettledStays
<1>6. ASSUME NEW k \in 1 .. Len(items'[u]) PROVE ItemFits(items[u][k], d)'
  <2>1. ItemFits(items[u][k], d)
    BY <1>3
  <2> QED BY <1>4, <2>1 DEF ItemFits
<1> QED BY <1>3, <1>4, <1>5, <1>6

LEMMA BrowseStays ==
    ASSUME TreeInv, TreeStep, NEW u \in Threads, BrowseFits(u),
           pc[u] \in Working, browse'[u] = browse[u], It(u)' = It(u)
    PROVE  BrowseFits(u)'
<1> SUFFICES ASSUME browse[u] # None
             PROVE  /\ IsBrowseDir(entity'[browse[u]], browse[u])
                    /\ entity'[browse[u]].res = It(u).res
  BY DEF BrowseFits, IsBrowseDir
<1>1. TreeKeeps /\ browse[u] \in Ids
  BY AtThread, TreeAfter DEF ThreadOK, Ids, None
<1> QED BY <1>1 DEF BrowseFits, TreeKeeps, IsBrowseDir

LEMMA HeldStays ==
    ASSUME TreeInv, TreeStep, NEW u \in Threads, HeldFits(u),
           pc[u] \in {"browse", "browse_add", "add"},
           entry'[u] = entry[u], It(u)' = It(u),
           \A e \in Ids : e = entry[u] => entity'[e].target = entity[e].target
    PROVE  HeldFits(u)'
<1> SUFFICES ASSUME entry[u] # None
             PROVE  EntryFits(entity'[entry[u]], It(u))
  BY DEF HeldFits, EntryFits
<1>1. PICK e \in Ids : e = entry[u]
  BY AtThread DEF ThreadOK, Ids, None
<1>2. EntryFits(entity[e], It(u))
  BY <1>1 DEF HeldFits
<1>3. /\ entity'[e].name = entity[e].name /\ entity'[e].ops = entity[e].ops
      /\ entity'[e].res = entity[e].res /\ entity'[e].kind = entity[e].kind
      /\ entity'[e].target = entity[e].target
  BY <1>1, AtThread, TreeAfter DEF TreeKeeps
<1> QED BY <1>1, <1>2, <1>3 DEF EntryFits

LEMMA OthersFit ==
    ASSUME TreeInv, ShapeInv, NEW t \in Threads, ThreadStep(t), TargetsKept(t),
           NEW u \in Threads, u # t
    PROVE  Fits(u)'
<1>1. /\ TreeOK /\ UniqueNames /\ TreeStep /\ Fits(u)
      /\ Len(entity) \in Nat /\ ThreadOK(u) /\ LocalsOK
  BY AtThread DEF ShapeInv, ThreadStep
<1>2. TreeKeeps /\ \A e \in Ids : e \in Ids'
  BY <1>1, TreeAfter, IdsGrow
<1>3. /\ pc'[u] = pc[u] /\ dir'[u] = dir[u] /\ items'[u] = items[u]
      /\ at'[u] = at[u] /\ entry'[u] = entry[u] /\ browse'[u] = browse[u]
  BY DEF ThreadStep, OthersKept
<1>4. It(u)' = It(u)
  BY <1>3 DEF It
<1>5. /\ dir[u] \in 0 .. Len(entity) /\ entry[u] \in 0 .. Len(entity)
      /\ browse[u] \in 0 .. Len(entity)
  BY <1>1 DEF ThreadOK
<1>6. ListFits(u)'
  BY <1>1, <1>3, ListStays DEF Fits
<1>7. HeldFits(u)'
  <2>1. ASSUME pc[u] \in {"browse", "browse_add", "add"}, NEW e \in Ids,
               e = entry[u]
        PROVE  entity'[e].target = entity[e].target
    <3>1. Held(u, e)
      BY <2>1 DEF Held
    <3> QED BY <3>1 DEF ShapeInv, Fits, TargetFits, TargetsKept
  <2> QED BY <1>1, <1>3, <1>4, <2>1, HeldStays DEF Fits, HeldFits
<1>8. TargetFits(u)'
  <2> SUFFICES ASSUME pc[u] = "target", NEW e \in Ids', entry[u] = e
               PROVE  /\ entity'[e].kind = "link" /\ entity'[e].res = It(u).res
                      /\ entity'[e].parent \in {None, dir[u]}
                      /\ \A v \in Threads : ~ Held(v, e)'
    BY <1>3, <1>4 DEF TargetFits
  <2>1. e \in Ids
    BY <1>1, <1>5 DEF Ids
  <2>2. /\ entity[e].kind = "link" /\ entity[e].res = It(u).res
        /\ entity[e].parent \in {None, dir[u]}
        /\ \A v \in Threads : ~ Held(v, e)
    BY <1>1, <2>1 DEF Fits, TargetFits
  <2>3. entity'[e].kind = entity[e].kind /\ entity'[e].res = entity[e].res
    BY <1>2, <2>1 DEF TreeKeeps
  <2>4. entity'[e].parent = entity[e].parent
    BY <2>1, <2>2 DEF ThreadStep
  <2>5. ASSUME NEW v \in Threads PROVE ~ Held(v, e)'
    <3>1. CASE v = t
      BY <2>1, <2>2, <3>1 DEF ThreadStep
    <3>2. CASE v # t
      BY <2>2, <3>2 DEF ThreadStep, OthersKept, Held
    <3> QED BY <3>1, <3>2
  <2> QED BY <2>2, <2>3, <2>4, <2>5
<1>9. BrowseFits(u)'
  BY <1>1, <1>3, <1>4, BrowseStays DEF Fits, BrowseFits
<1> QED BY <1>6, <1>7, <1>8, <1>9 DEF Fits

\* It is enough to look at what the step changes or creates, and at the thread
\* whose step it is.
LEMMA ShapeKept ==
    ASSUME TreeInv, ShapeInv, NEW t \in Threads, ThreadStep(t), TargetsKept(t),
           \A e \in Ids' : (e \in Ids /\ entity'[e] = entity[e]) \/ Shape(e)',
           Fits(t)'
    PROVE  ShapeInv'
<1>1. TreeOK /\ UniqueNames /\ TreeStep
  BY DEF TreeInv, ThreadStep
<1>2. \A e \in Ids : Shape(e)
  BY DEF ShapeInv
<1>3. ASSUME NEW e \in Ids' PROVE Shape(e)'
  <2>1. CASE e \in Ids /\ entity'[e] = entity[e]
    BY <1>1, <1>2, <2>1, ShapeStays
  <2> QED BY <2>1
<1>4. BaseOK'
  BY <1>1, BaseStays DEF ShapeInv
<1>5. \A u \in Threads : Fits(u)'
  BY OthersFit
<1> QED BY <1>3, <1>4, <1>5 DEF ShapeInv

-----------------------------------------------------------------------------
(* What is in the lists.                                                   *)

\* No title is "." or "..": spfs_sanitize_name lets them pass.
NoDots == \A r \in Resources : Sanitize(Title[r]) \notin {".", ".."}

ItemIs(it, name, kind, res) == it.name = name /\ it.kind = kind /\ it.res = res

LEMMA ItemFields ==
    ASSUME NEW it, NEW name, NEW kind, NEW ops, NEW res,
           it = Item(name, kind, ops, res)
    PROVE  ItemIs(it, name, kind, res)
BY DEF Item, ItemIs

LEMMA ListElements ==
    ASSUME NEW list, ListOK(list) PROVE DOMAIN list = 1 .. Len(list)
BY SequenceBasics DEF ListOK

LEMMA LinkItem ==
    ASSUME NEW s \in Seq(Resources), NEW k \in 1 .. Len(LinkItems(s))
    PROVE  /\ k \in DOMAIN s /\ s[k] \in Resources
           /\ ItemIs(LinkItems(s)[k], Title[s[k]], "link", s[k])
<1>1. DOMAIN LinkItems(s) = 1 .. Len(LinkItems(s))
  BY LinkItemsOK, ListElements
<1>2. DOMAIN LinkItems(s) = DOMAIN s
  BY DEF LinkItems
<1>3. k \in DOMAIN s /\ s[k] \in Resources
  BY <1>1, <1>2
<1>4. LinkItems(s)[k] = Item(Title[s[k]], "link", "", s[k])
  BY <1>3 DEF LinkItems
<1>5. ItemIs(LinkItems(s)[k], Title[s[k]], "link", s[k])
  BY <1>4, ItemFields, Zenon
<1> QED BY <1>3, <1>5, Zenon

LEMMA ResultItem ==
    ASSUME NEW q \in Queries, NEW k \in 1 .. Len(ResultItems(q))
    PROVE  \E r \in Resources :
               ItemIs(ResultItems(q)[k], ResultName(r), "wav_link", r)
<1>1. DOMAIN ResultItems(q) = 1 .. Len(ResultItems(q))
  BY ResultsOK, ListElements
<1>2. DOMAIN ResultItems(q) = DOMAIN Results[q]
  BY DEF ResultItems
<1>3. k \in DOMAIN Results[q] /\ Results[q][k] \in Resources
  BY <1>1, <1>2, ListAssumption
<1>4. ResultItems(q)[k]
          = Item(ResultName(Results[q][k]), "wav_link", "", Results[q][k])
  BY <1>3 DEF ResultItems
<1>5. ItemIs(ResultItems(q)[k], ResultName(Results[q][k]), "wav_link",
             Results[q][k])
  BY <1>4, ItemFields, Zenon
<1> QED BY <1>3, <1>5, Zenon

LEMMA MusicItem ==
    ASSUME NEW s \in Seq(Resources), NEW k \in 1 .. Len(MusicItems(s))
    PROVE  \/ /\ k \in DOMAIN s
              /\ ItemIs(MusicItems(s)[k], NumberedName(k - 1, Title[s[k]]),
                        "wav_link", s[k])
           \/ MusicItems(s)[k].kind = "file"
<1> DEFINE g == [i \in DOMAIN s |->
                   Item(NumberedName(i - 1, Title[s[i]]), "wav_link", "", s[i])]
           x == Item("playlist.xspf", "file", "", NoResource)
           S == {g[i] : i \in DOMAIN s}
<1>1. DOMAIN s = 1 .. Len(s) /\ Len(s) \in Nat
  OBVIOUS
<1>2. Sequence(g) /\ Len(g) = Len(s)
  <2>1. g \in [1 .. Len(s) -> S]
    BY <1>1
  <2> HIDE DEF g, S
  <2> QED BY <1>1, <2>1, SequenceOf
<1>3. MusicItems(s) = Append(g, x)
  BY DEF MusicItems
<1>4. \A i \in DOMAIN s :
          g[i] = Item(NumberedName(i - 1, Title[s[i]]), "wav_link", "", s[i])
  OBVIOUS
<1>5. x.kind = "file"
  BY DEF Item
<1> HIDE DEF g, x
<1>6. /\ Len(Append(g, x)) = Len(g) + 1
      /\ \A i \in 1 .. Len(g) : Append(g, x)[i] = g[i]
      /\ Append(g, x)[Len(g) + 1] = x
  BY <1>2, SequenceAppend
<1>7. k \in DOMAIN s \/ k = Len(g) + 1
  BY <1>1, <1>2, <1>3, <1>6
<1>8. CASE k \in DOMAIN s
  <2>1. MusicItems(s)[k] = g[k]
    BY <1>1, <1>2, <1>3, <1>6, <1>8
  <2>2. MusicItems(s)[k]
            = Item(NumberedName(k - 1, Title[s[k]]), "wav_link", "", s[k])
    BY <1>4, <1>8, <2>1
  <2>3. ItemIs(MusicItems(s)[k], NumberedName(k - 1, Title[s[k]]), "wav_link",
               s[k])
    BY <2>2, ItemFields, Zenon
  <2> QED BY <1>8, <2>3, Zenon
<1>9. CASE k = Len(g) + 1
  BY <1>3, <1>5, <1>6, <1>9
<1> QED BY <1>7, <1>8, <1>9

AllFit(list, d) == \A k \in 1 .. Len(list) : ItemFits(list[k], d)

LEMMA LinksFit ==
    ASSUME NoDots, NEW d, NEW s \in Seq(Resources),
           entity[d].ops \in {"meta", "artists", "albums"},
           entity[d].ops # "meta" =>
               \A k \in DOMAIN s : Class[s[k]] # Class[entity[d].res]
    PROVE  AllFit(LinkItems(s), d)
<1> SUFFICES ASSUME NEW k \in 1 .. Len(LinkItems(s))
             PROVE  ItemFits(LinkItems(s)[k], d)
  BY DEF AllFit
<1>1. /\ k \in DOMAIN s /\ s[k] \in Resources
      /\ ItemIs(LinkItems(s)[k], Title[s[k]], "link", s[k])
  BY LinkItem
<1>2. Plain(Sanitize(Title[s[k]]))
  BY <1>1, NameAssumption DEF NoDots, Plain
<1>3. PICK it : it = LinkItems(s)[k]
  OBVIOUS
<1>4. it.name = Title[s[k]] /\ it.kind = "link" /\ it.res = s[k]
  BY <1>1, <1>3 DEF ItemIs
<1>5. ItemFits(it, d)
  BY <1>1, <1>2, <1>4 DEF ItemFits
<1> QED BY <1>3, <1>5

LEMMA MusicFits ==
    ASSUME NEW d, NEW p \in DOMAIN Contents, NEW s \in Contents[p],
           entity[d].ops = "music"
    PROVE  AllFit(MusicItems(s), d)
<1>1. s \in Seq(Resources)
  BY ListAssumption
<1> SUFFICES ASSUME NEW k \in 1 .. Len(MusicItems(s))
             PROVE  ItemFits(MusicItems(s)[k], d)
  BY DEF AllFit
<1>2. PICK it : it = MusicItems(s)[k]
  OBVIOUS
<1>3. CASE /\ k \in DOMAIN s
           /\ ItemIs(it, NumberedName(k - 1, Title[s[k]]), "wav_link", s[k])
  <2>1. Plain(Sanitize(NumberedName(k - 1, Title[s[k]])))
    BY <1>3, NameAssumption DEF Plain
  <2>2. ItemFits(it, d)
    BY <1>3, <2>1 DEF ItemFits, ItemIs, MusicDirs
  <2> QED BY <1>2, <2>2
<1>4. CASE it.kind = "file"
  <2>1. ItemFits(it, d)
    BY <1>4 DEF ItemFits, LinkKinds
  <2> QED BY <1>2, <2>1
<1> QED BY <1>1, <1>2, <1>3, <1>4, MusicItem

LEMMA ResultsFit ==
    ASSUME NEW d, NEW q \in Queries, entity[d].ops = "results"
    PROVE  AllFit(ResultItems(q), d)
<1> SUFFICES ASSUME NEW k \in 1 .. Len(ResultItems(q))
             PROVE  ItemFits(ResultItems(q)[k], d)
  BY DEF AllFit
<1>1. PICK it : it = ResultItems(q)[k]
  OBVIOUS
<1>2. PICK r \in Resources : ItemIs(it, ResultName(r), "wav_link", r)
  BY <1>1, ResultItem
<1>3. Sanitize(ResultName(r)) # "track.wav" /\ Plain(Sanitize(ResultName(r)))
  BY NameAssumption DEF Plain
<1>4. ItemFits(it, d)
  BY <1>2, <1>3 DEF ItemFits, ItemIs, MusicDirs
<1> QED BY <1>1, <1>4

LEMMA ListingFits ==
    ASSUME TreeOK, NoDots, NEW d \in Ids, Shape(d),
           NEW list \in Listings(d), list # <<>>
    PROVE  entity[d].ops \in Listing \ {"results"} /\ AllFit(list, d)
<1> DEFINE r == entity[d].res
           ops == entity[d].ops
<1>1. /\ ops \in {"music", "meta"} => r \in DOMAIN Contents
      /\ ops \in {"artists", "albums", "portraits"} => r \in Resources
  BY DEF TreeOK, EntityOK
<1>2. ops \in {"music_lists", "meta_lists", "music", "meta", "artists",
               "albums", "portraits"}
  BY DEF Listings
<1>3. ops \in Listing \ {"results"}
  BY <1>2 DEF Listing
<1>4. CASE ops = "music_lists" \/ ops = "meta_lists"
  <2>1. d \in {8, 9}
    BY <1>4 DEF Shape, BrowseShape
  <2>2. PICK o \in {"music", "meta"} : list = PlaylistItems(o)
    BY <1>4 DEF Listings
  <2>3. ASSUME NEW k \in 1 .. Len(list) PROVE list[k].kind = "dir"
    <3>1. DOMAIN PlaylistItems(o) = 1 .. Len(PlaylistItems(o))
      BY PlaylistItemsOK, ListElements
    <3>2. list[k] = Item(Playlists[k], "dir", o, Playlists[k])
      BY <2>2, <3>1 DEF PlaylistItems
    <3> QED BY <3>2 DEF Item
  <2> QED BY <1>3, <1>4, <2>1, <2>3 DEF AllFit, ItemFits, LinkKinds
<1>5. CASE ops = "music"
  <2>1. PICK c \in Contents[r] : list = MusicItems(c)
    BY <1>5 DEF Listings
  <2> QED BY <1>1, <1>3, <1>5, <2>1, MusicFits
<1>6. CASE ops = "meta"
  <2>1. PICK c \in Contents[r] : list = LinkItems(c)
    BY <1>6 DEF Listings
  <2>2. c \in Seq(Resources)
    BY <1>1, <1>6, ListAssumption
  <2> QED BY <1>3, <1>6, <2>1, <2>2, LinksFit
<1>7. CASE ops \in {"artists", "albums"}
  <2>1. list = LinkItems(Parts[r])
    BY <1>7 DEF Listings, IfLoaded
  <2>2. Parts[r] \in Seq(Resources)
    BY <1>1, <1>7, ListAssumption
  <2>3. \A k \in DOMAIN Parts[r] : Class[Parts[r][k]] # Class[r]
    BY <1>1, <1>7, NameAssumption
  <2> QED BY <1>3, <1>7, <2>1, <2>2, <2>3, LinksFit
<1>8. CASE ops = "portraits"
  <2>1. list = PortraitItems(r)
    BY <1>8 DEF Listings, IfLoaded
  <2>2. ASSUME NEW k \in 1 .. Len(list) PROVE list[k].kind = "file"
    <3>1. DOMAIN PortraitItems(r) = 1 .. Len(PortraitItems(r))
      BY <1>1, <1>8, PortraitItemsOK, ListElements
    <3>2. list[k] = Item(Portraits[r][k], "file", "", r)
      BY <2>1, <3>1 DEF PortraitItems
    <3>3. ItemIs(list[k], Portraits[r][k], "file", r)
      BY <3>2, ItemFields, Zenon
    <3> QED BY <3>3, Zenon DEF ItemIs
  <2> QED BY <1>3, <1>8, <2>2 DEF AllFit, ItemFits, LinkKinds
<1> QED BY <1>2, <1>4, <1>5, <1>6, <1>7, <1>8

-----------------------------------------------------------------------------
(* The steps, one by one.                                                  *)

LEMMA SameTreeShape ==
    ASSUME TreeInv, ShapeInv, NEW t \in Threads, ThreadStep(t),
           entity' = entity, Fits(t)'
    PROVE  ShapeInv'
<1>1. TargetsKept(t)
  BY DEF TargetsKept
<1>2. \A e \in Ids' : e \in Ids /\ entity'[e] = entity[e]
  BY DEF Ids
<1> QED BY <1>1, <1>2, ShapeKept

\* A thread that goes on to an item has nothing in its hands.
LEMMA EmptyHandsFit ==
    ASSUME TreeInv, NEW t \in Threads, ListFits(t)',
           entry'[t] = None, browse'[t] = None
    PROVE  Fits(t)'
<1>1. HeldFits(t)'
  BY DEF HeldFits, None
<1>2. TargetFits(t)'
  <2>1. None \notin Ids'
    BY DEF None, Ids
  <2> QED BY <2>1 DEF TargetFits
<1>3. BrowseFits(t)'
  BY DEF BrowseFits, None
<1> QED BY <1>1, <1>2, <1>3 DEF Fits

LEMMA NextItemFits ==
    ASSUME TreeInv, ShapeInv, NEW t \in Threads, TreeStep, NextItem(t)
    PROVE  Fits(t)'
<1>1. DOMAIN entry = Threads /\ DOMAIN browse = Threads
  BY AtThread DEF LocalsOK
<1>2. /\ dir' = dir /\ items' = items
      /\ entry'[t] = None /\ browse'[t] = None
  BY <1>1 DEF NextItem, Proceed
<1>3. ListFits(t)'
  BY <1>2, ListStays DEF ShapeInv, Fits
<1> QED BY <1>2, <1>3, EmptyHandsFit

LEMMA FillFits ==
    ASSUME TreeInv, NEW t \in Threads, NEW d \in Ids, NEW list,
           Fill(t, d, list), entity' = entity,
           entity[d].ops \in Listing, Settled(d), AllFit(list, d)
    PROVE  Fits(t)'
<1>1. LocalsOK /\ TreeOK /\ UniqueNames
  BY AtThread
<1>2. /\ dir'[t] = d /\ items'[t] = list
      /\ entry'[t] = None /\ browse'[t] = None
  BY <1>1 DEF Fill, Proceed, LocalsOK
<1>3. TreeStep
  BY DEF TreeStep
<1>4. Settled(d)'
  BY <1>1, <1>3, SettledStays
<1>5. \A k \in 1 .. Len(list) : ItemFits(list[k], d)'
  BY DEF AllFit, ItemFits
<1>6. ListFits(t)'
  <2> SUFFICES ASSUME NEW c \in Ids', dir'[t] = c
               PROVE  /\ entity'[c].ops \in Listing /\ Settled(c)'
                      /\ \A k \in 1 .. Len(items'[t]) :
                            ItemFits(items[t][k], c)'
    BY DEF ListFits
  <2>1. ASSUME NEW k \in 1 .. Len(items'[t]) PROVE ItemFits(items[t][k], c)'
    <3>1. ItemFits(list[k], d)'
      BY <1>2, <1>5
    <3> QED BY <1>2, <3>1 DEF ItemFits
  <2> QED BY <1>2, <1>4, <2>1
<1> QED BY <1>2, <1>6, EmptyHandsFit

LEMMA BrowsePlace ==
    ASSUME NEW r \in Resources
    PROVE  BrowseDir[Class[r]] \in {3, 4, 5}
<1>1. Class[r] \in {"tracks", "artists", "albums"}
  BY TreeAssumption
<1> QED BY <1>1 DEF BrowseDir

\* What is found under the link string of a resource is about it.
LEMMA BrowseEntry ==
    ASSUME TreeOK, ShapeInv, NEW r \in Resources, NEW d \in {3, 4, 5},
           Child(d, Uri[r]) # None
    PROVE  \E e \in Ids : /\ e = Child(d, Uri[r]) /\ IsBrowseDir(entity[e], e)
                          /\ entity[e].res = r
<1>1. PICK e \in Ids : /\ e = Child(d, Uri[r]) /\ entity[e].parent = d
                       /\ entity[e].name = Uri[r]
  BY ChildEntry
<1>2. Shape(e)
  BY DEF ShapeInv
<1>3. IsBrowseDir(entity[e], e)
  BY <1>1, <1>2 DEF Shape, EntryShape
<1>4. entity[e].res \in Resources /\ Uri[entity[e].res] = Uri[r]
  BY <1>1, <1>2, <1>3 DEF Shape, BrowseShape
<1>5. entity[e].res = r
  BY <1>4, TreeAssumption
<1> QED BY <1>1, <1>3, <1>5

LEMMA KnownShape ==
    ASSUME TreeInv, ShapeInv, NEW t \in Threads,
           browse_dir_known(t) \/ browse_dir_fails(t)
    PROVE  ShapeInv'
<1>1. ThreadStep(t)
  BY KnownStep
<1>2. /\ pc[t] = "browse" /\ entity' = entity /\ Goto(t, AfterBrowse(t))
      /\ dir' = dir /\ items' = items /\ at' = at /\ entry' = entry
      /\ browse'[t] \in {None, BrowseLookup(t)}
  BY AtThread DEF browse_dir_known, browse_dir_fails, LocalsOK
<1>3. pc'[t] \in {"test", "add"} /\ It(t)' = It(t)
  BY <1>2, AfterBrowseFacts, Going DEF It
<1>4. ThreadOK(t) /\ TreeOK /\ UniqueNames /\ Fits(t) /\ TreeStep
  BY <1>1, AtThread DEF ShapeInv, ThreadStep
<1>5. ListFits(t)'
  BY <1>2, <1>4, ListStays DEF Fits
<1>6. HeldFits(t)'
  BY <1>2, <1>3, <1>4 DEF Fits, HeldFits, EntryFits, None
<1>7. TargetFits(t)'
  BY <1>3 DEF TargetFits
<1>8. BrowseFits(t)'
  <2>1. CASE browse'[t] = None
    BY <2>1 DEF BrowseFits, None
  <2>2. CASE browse'[t] # None
    <3>1. It(t).res \in Resources
      BY <1>2, <1>4, ItemAt DEF ThreadOK, ItemOK, Working
    <3>2. PICK r \in Resources : r = It(t).res
      BY <3>1
    <3>3. BrowseLookup(t) = Child(BrowseDir[Class[r]], Uri[r])
      BY <3>2, TreeAssumption DEF BrowseLookup, spfs_entity_dir_get_child
    <3>4. PICK d \in {3, 4, 5} : d = BrowseDir[Class[r]]
      BY BrowsePlace
    <3>5. PICK e \in Ids : /\ e = browse'[t] /\ IsBrowseDir(entity[e], e)
                           /\ entity[e].res = r
      BY <1>2, <1>4, <2>2, <3>3, <3>4, BrowseEntry
    <3> QED BY <1>2, <1>3, <3>2, <3>5 DEF BrowseFits, IsBrowseDir
  <2> QED BY <2>1, <2>2
<1>9. Fits(t)'
  BY <1>5, <1>6, <1>7, <1>8 DEF Fits
<1> QED BY <1>1, <1>2, <1>9, SameTreeShape

LEMMA KnownEntryShape ==
    ASSUME TreeInv, ShapeInv, NEW t \in Threads, entry_known(t)
    PROVE  ShapeInv'
<1>1. ThreadStep(t) /\ NextItem(t) /\ entity' = entity
  BY KnownEntryStep DEF entry_known
<1>2. TreeStep
  BY <1>1 DEF TreeStep
<1> QED BY <1>1, <1>2, NextItemFits, SameTreeShape

LEMMA ReplyShape ==
    ASSUME TreeInv, ShapeInv, NEW t \in Threads, reply(t)
    PROVE  ShapeInv'
<1>1. ThreadStep(t) /\ entity' = entity
  BY ReplyStep DEF reply
<1>2. dir'[t] = None /\ Goto(t, "idle")
  BY AtThread DEF reply, LocalsOK
<1>3. pc'[t] = "idle"
  BY <1>2, Going
<1>4. ListFits(t)'
  <2>1. None \notin Ids'
    BY DEF None, Ids
  <2> QED BY <1>2, <2>1 DEF ListFits
<1>5. HeldFits(t)' /\ TargetFits(t)' /\ BrowseFits(t)'
  BY <1>3 DEF HeldFits, TargetFits, BrowseFits, Working
<1>6. Fits(t)'
  BY <1>4, <1>5 DEF Fits
<1> QED BY <1>1, <1>6, SameTreeShape

LEMMA ReaddirShape ==
    ASSUME TreeInv, ShapeInv, NoDots,
           NEW w \in Workers, NEW d \in Ids, spfs_readdir(w, d)
    PROVE  ShapeInv'
<1>1. w \in Threads
  BY DEF Threads
<1>2. ThreadStep(w) /\ entity' = entity
  BY ReaddirStep DEF spfs_readdir
<1>3. PICK list \in Listings(d) : list # <<>> /\ Fill(w, d, list)
  BY DEF spfs_readdir
<1>4. TreeOK /\ Shape(d) /\ None \notin Ids
  BY <1>1, AtThread DEF ShapeInv, None, Ids
<1>5. entity[d].ops \in Listing \ {"results"} /\ AllFit(list, d)
  BY <1>3, <1>4, ListingFits
<1>6. Settled(d)
  <2>1. PICK path : path = spfs_entity_get_full_path(d)
    OBVIOUS
  <2>2. Len(path) \in Nat
    BY <1>4, <2>1, PathTyped
  <2>3. spfs_entity_find_path(path) = d
    BY <2>1 DEF spfs_readdir
  <2>4. Reachable(spfs_entity_find_path(path))
    BY <1>4, <2>2, <2>3, FoundIsReachable
  <2> QED BY <2>3, <2>4 DEF Settled
<1>7. Fits(w)'
  BY <1>1, <1>2, <1>3, <1>5, <1>6, FillFits
<1> QED BY <1>1, <1>2, <1>7, SameTreeShape

LEMMA CallbackShape ==
    ASSUME TreeInv, ShapeInv, NEW d \in issued, track_search_complete_cb(d)
    PROVE  ShapeInv'
<1>1. "session" \in Threads
  BY DEF Threads
<1>2. ThreadStep("session") /\ entity' = entity
  BY CallbackStep DEF track_search_complete_cb
<1>3. d \in Ids /\ entity[d].ops = "results" /\ entity[d].res \in Queries
  BY DEF TreeInv, IssuedOK, TreeOK, EntityOK
<1>4. AllFit(ResultItems(entity[d].res), d)
  BY <1>3, ResultsFit
<1>5. entity[d].ops \in Listing /\ Settled(d)
  BY <1>3 DEF Listing, Settled
<1>6. Fill("session", d, ResultItems(entity[d].res))
  BY DEF track_search_complete_cb
<1>7. Fits("session")'
  BY <1>1, <1>2, <1>3, <1>4, <1>5, <1>6, FillFits
<1> QED BY <1>1, <1>2, <1>7, SameTreeShape

LEMMA IssueSearchShape ==
    ASSUME TreeInv, ShapeInv, NEW w \in Workers, search_dir_search(w)
    PROVE  ShapeInv'
<1>1. w \in Threads
  BY DEF Threads
<1>2. ThreadStep(w) /\ entity' = entity /\ Goto(w, "mkdir_add")
      /\ dir' = dir /\ items' = items
  BY IssueSearchStep DEF search_dir_search, localVars
<1>3. pc'[w] = "mkdir_add"
  BY <1>1, <1>2, Going
<1>4. TreeStep
  BY <1>2 DEF TreeStep
<1>5. ListFits(w)'
  BY <1>1, <1>2, <1>4, ListStays DEF ShapeInv, Fits
<1>6. HeldFits(w)' /\ TargetFits(w)' /\ BrowseFits(w)'
  BY <1>3 DEF HeldFits, TargetFits, BrowseFits, Working
<1>7. Fits(w)'
  BY <1>5, <1>6 DEF Fits
<1> QED BY <1>1, <1>2, <1>7, SameTreeShape

\* New entities of the right shape do not change that of the others.
LEMMA GrowShape ==
    ASSUME TreeInv, ShapeInv, NEW t \in Threads, ThreadStep(t), Grows,
           \A e \in Ids' \ Ids : Shape(e)', Fits(t)'
    PROVE  ShapeInv'
<1>1. TargetsKept(t)
  BY DEF TargetsKept, Grows
<1>2. \A e \in Ids' : (e \in Ids /\ entity'[e] = entity[e]) \/ Shape(e)'
  BY DEF Grows
<1> QED BY <1>1, <1>2, ShapeKept

LEMMA OrphanShape ==
    ASSUME NEW x, NEW e, x.parent = None
    PROVE  EntryShape(x, e)
<1>1. x.parent = 0 /\ ~ (x.parent > 9)
  BY DEF None
<1>2. x.parent \notin {1, 2, 7} /\ x.parent \notin {3, 4, 5}
      /\ x.parent # SearchDir
  BY <1>1 DEF SearchDir
<1> QED BY <1>1, <1>2, Zenon DEF EntryShape

LEMMA NoneIsNew == None \notin Ids'
BY DEF None, Ids

Orphans == \A x, e : x.parent = None => EntryShape(x, e)

LEMMA OrphanShapeNext ==
    Orphans'
<1>1. Orphans
  BY OrphanShape DEF Orphans
<1> QED BY <1>1, PTL

\* One without a parent has no shape to speak of.
LEMMA NewShape ==
    ASSUME NEW id \in Nat, NEW x, x = entity'[id],
           x.parent = None, x.ops \in {"", "music", "meta", "results"},
           x.kind = "dir" => x.ops # ""
    PROVE  Shape(id)'
<1>1. BrowseShape(x, id)
  BY DEF BrowseShape, IsBrowseDir
<1>2. OpsShape(x)'
  BY DEF OpsShape, None
<1>3. EntryShape(x, id)'
  BY OrphanShapeNext DEF Orphans
<1>4. \A d \in Ids' : x.parent # d
  BY NoneIsNew
<1> QED BY <1>1, <1>2, <1>3, <1>4, ShapeNext

LEMMA NewEntryFits ==
    ASSUME NEW it, ItemOK(it)
    PROVE  EntryFits(NewEntry(it), it) /\ NewEntry(it).parent = None
<1> DEFINE name == Sanitize(it.name)
           x == NewEntry(it)
<1>1. CASE it.kind = "dir"
  <2>1. x = Dir(name, None, it.ops, it.res)
    BY <1>1 DEF NewEntry
  <2> HIDE DEF name, x
  <2>2. /\ x.name = name /\ x.parent = None /\ x.kind = "dir"
        /\ x.ops = it.ops /\ x.res = it.res
    BY <2>1 DEF Dir
  <2> QED BY <1>1, <2>2 DEF EntryFits, LinkKinds, name, x
<1>2. CASE it.kind = "file"
  <2>1. x = File(name, None, it.res)
    BY <1>2 DEF NewEntry
  <2> HIDE DEF name, x
  <2>2. /\ x.name = name /\ x.parent = None /\ x.kind = "file"
        /\ x.ops = "" /\ x.res = it.res
    BY <2>1 DEF File
  <2> QED BY <1>2, <2>2 DEF EntryFits, LinkKinds, name, x
<1>3. CASE it.kind \in LinkKinds
  <2>1. x = Link(name, it.res)
    BY <1>3 DEF NewEntry, LinkKinds
  <2> HIDE DEF name, x
  <2>2. /\ x.name = name /\ x.parent = None /\ x.kind = "link"
        /\ x.ops = "" /\ x.res = it.res /\ x.target = <<name>>
    BY <2>1 DEF Link
  <2> QED BY <1>3, <2>2 DEF EntryFits, LinkKinds, name, x
<1> QED BY <1>1, <1>2, <1>3 DEF ItemOK

LEMMA CreateEntryShape ==
    ASSUME TreeInv, ShapeInv, SanitizedStays, NEW t \in Threads, entry_create(t)
    PROVE  ShapeInv'
<1> DEFINE id == Len(entity) + 1
           it == It(t)
           x == NewEntry(it)
           l == IF it.kind = "wav_link" THEN "browse" ELSE "add"
<1>1. ThreadStep(t)
  BY CreateEntryStep
<1>2. /\ pc[t] = "test" /\ entity' = Append(entity, x) /\ Goto(t, l)
      /\ entry'[t] = id /\ browse' = browse
      /\ dir' = dir /\ items' = items /\ at' = at
  BY AtThread DEF entry_create, LocalsOK
<1>3. l \in {"browse", "add"}
  OBVIOUS
<1>4. pc'[t] \in {"browse", "add"} /\ It(t)' = it
  BY <1>2, <1>3, Going DEF It
<1>5. TreeOK /\ TreeStep /\ Fits(t) /\ pc[t] \in Working
  BY <1>1, <1>2, AtThread DEF ShapeInv, ThreadStep, Working
<1>6. ItemOK(it)
  BY <1>5, ItemAt
<1>7. EntryFits(x, it) /\ x.parent = None /\ NewOK(x)
  BY <1>6, NewEntryFits, NewEntryFacts
<1> HIDE DEF x, it, l
<1>8. Grows /\ Len(entity') = id /\ entity'[id] = x
  BY <1>2, <1>5, <1>7, GrowOne
<1>9. Ids' \ Ids = {id}
  BY <1>8, AtThread DEF Ids
<1>10. ASSUME NEW e \in Ids' \ Ids PROVE Shape(e)'
  <2>1. /\ x.ops \in {"", "music", "meta", "results"}
        /\ x.kind = "dir" => x.ops # ""
    BY <1>6, <1>7 DEF EntryFits, ItemOK, LinkKinds
  <2>2. e \in Nat /\ x = entity'[e]
    BY <1>8, <1>9, AtThread
  <2>3. PICK y : y = entity'[e]
    OBVIOUS
  <2> QED BY <1>7, <2>1, <2>2, <2>3, NewShape
<1>11. HeldFits(t)'
  BY <1>2, <1>4, <1>7, <1>8 DEF HeldFits, EntryFits
<1>12. ListFits(t)' /\ BrowseFits(t)'
  BY <1>2, <1>4, <1>5, ListStays, BrowseStays DEF Fits, it
<1>13. TargetFits(t)'
  BY <1>4 DEF TargetFits
<1>14. Fits(t)'
  BY <1>11, <1>12, <1>13 DEF Fits
<1> QED BY <1>1, <1>8, <1>10, <1>14, GrowShape

LEMMA CreateSearchShape ==
    ASSUME TreeInv, ShapeInv, SanitizedStays, NEW w \in Workers,
           NEW q \in Queries, search_dir_create(w, q)
    PROVE  ShapeInv'
<1> DEFINE id == Len(entity) + 1
           name == Sanitize(q)
           x == Dir(name, None, "results", q)
<1>1. w \in Threads
  BY DEF Threads
<1>2. ThreadStep(w)
  BY CreateSearchStep
<1>3. /\ entity' = Append(entity, x) /\ Goto(w, "mkdir_search")
      /\ dir' = dir /\ items' = items
  BY DEF search_dir_create
<1>4. pc'[w] = "mkdir_search"
  BY <1>1, <1>3, Going
<1> HIDE DEF name
<1>5. NewNamed(x, name) /\ x.ops = "results" /\ x.parent = None
  BY NewDirOK DEF Dir
<1> HIDE DEF x
<1>6. Grows /\ Len(entity') = id /\ entity'[id] = x
  BY <1>1, <1>3, <1>5, AtThread, GrowOne DEF NewNamed
<1>7. Ids' \ Ids = {id}
  BY <1>1, <1>6, AtThread DEF Ids
<1>8. ASSUME NEW e \in Ids' \ Ids PROVE Shape(e)'
  <2>1. e \in Nat /\ x = entity'[e]
    BY <1>1, <1>6, <1>7, AtThread
  <2>2. PICK y : y = entity'[e]
    OBVIOUS
  <2>3. y.parent = None /\ y.ops = "results"
    BY <1>5, <2>1, <2>2
  <2> QED BY <2>1, <2>2, <2>3, NewShape
<1>9. ListFits(w)'
  BY <1>1, <1>2, <1>3, ListStays DEF ShapeInv, Fits, ThreadStep
<1>10. HeldFits(w)' /\ TargetFits(w)' /\ BrowseFits(w)'
  BY <1>4 DEF HeldFits, TargetFits, BrowseFits, Working
<1>11. Fits(w)'
  BY <1>9, <1>10 DEF Fits
<1> QED BY <1>1, <1>2, <1>6, <1>8, <1>11, GrowShape

\* More of a new browse directory: which of its entries are directories.
BrowseSubdirs(new) ==
    /\ new[1].ops = ""
    /\ \A i \in 1 .. Len(new) : i # 1 /\ new[i].kind = "dir" =>
          new[i].ops # "" /\ new[i].name # "track.wav"

LEMMA NewBrowseDirEntries ==
    ASSUME NEW r \in Resources, NEW id, NEW new, new = NewBrowseDir(r, id)
    PROVE  BrowseSubdirs(new)
<1> DEFINE a == Dir(Uri[r], None, "", r)
<1>1. Class[r] \in {"tracks", "artists", "albums"}
  BY TreeAssumption
<1>2. a.ops = ""
  BY DEF Dir
<1>3. CASE Class[r] = "albums"
  <2>1. new = <<a>>
    BY <1>3 DEF NewBrowseDir
  <2> HIDE DEF a
  <2>2. Len(new) = 1 /\ new[1] = a
    BY <2>1, SequenceOne
  <2>3. \A i \in 1 .. Len(new) : i = 1
    BY <2>2
  <2> QED BY <1>2, <2>2, <2>3 DEF BrowseSubdirs
<1>4. CASE Class[r] \in {"tracks", "artists"}
  <2> DEFINE t == Class[r] = "tracks"
             b == IF t THEN File("track.wav", id, r)
                  ELSE Dir("albums", id, "albums", r)
             c == IF t THEN Dir("artists", id, "artists", r)
                  ELSE Dir("portraits", id, "portraits", r)
  <2>1. new = <<a, b, c>>
    BY <1>4 DEF NewBrowseDir
  <2>2. b.kind = "dir" => b.ops # "" /\ b.name # "track.wav"
    BY DEF Dir, File
  <2>3. c.ops # "" /\ c.name # "track.wav"
    BY DEF Dir
  <2> HIDE DEF a, b, c
  <2>4. Len(new) = 3 /\ new[1] = a /\ new[2] = b /\ new[3] = c
    BY <2>1, SequenceThree
  <2>5. \A i \in 1 .. Len(new) : i = 1 \/ i = 2 \/ i = 3
    BY <2>4
  <2>6. ASSUME NEW i \in 1 .. Len(new), i # 1, new[i].kind = "dir"
        PROVE  new[i].ops # "" /\ new[i].name # "track.wav"
    BY <2>2, <2>3, <2>4, <2>5, <2>6
  <2>7. new[1].ops = ""
    BY <1>2, <2>4
  <2> QED BY <2>6, <2>7 DEF BrowseSubdirs
<1> QED BY <1>1, <1>3, <1>4

LEMMA CreateBrowseShape ==
    ASSUME TreeInv, ShapeInv, NEW t \in Threads, browse_dir_create(t)
    PROVE  ShapeInv'
<1> DEFINE r == It(t).res
           id == Len(entity) + 1
           new == NewBrowseDir(r, id)
<1>1. ThreadStep(t)
  BY CreateBrowseStep
<1>2. /\ pc[t] = "browse" /\ entity' = entity \o new
      /\ browse'[t] = id /\ Goto(t, "browse_add")
      /\ dir' = dir /\ items' = items /\ at' = at /\ entry' = entry
  BY AtThread DEF browse_dir_create, LocalsOK
<1>3. pc'[t] = "browse_add" /\ It(t)' = It(t)
  BY <1>2, Going DEF It
<1>4. /\ TreeOK /\ ThreadOK(t) /\ Fits(t) /\ TreeStep /\ pc[t] \in Working
      /\ Len(entity) \in Nat /\ Len(entity) >= 9
  BY <1>1, <1>2, AtThread DEF ShapeInv, ThreadStep, Working
<1>5. r \in Resources
  BY <1>2, <1>4, ItemAt DEF ThreadOK, ItemOK
<1> HIDE DEF r
<1>6. BrowseEntities(new, r, id) /\ BrowseSubdirs(new)
  BY <1>5, NewBrowseDirFacts, NewBrowseDirEntries
<1> HIDE DEF new
<1>7. Grows
  BY <1>2, <1>4, <1>5, <1>6, GrowBrowse
<1>8. Sequence(new) /\ Len(new) \in {1, 3}
  BY <1>6 DEF BrowseEntities
<1>9. /\ Len(entity') = Len(entity) + Len(new)
      /\ \A i \in 1 .. Len(new) : entity'[Len(entity) + i] = new[i]
  BY <1>2, <1>4, <1>8, SequenceConcat DEF TreeOK
<1>10. /\ entity'[id] = new[1] /\ entity'[id].kind = "dir"
       /\ entity'[id].ops = "" /\ entity'[id].res = r
       /\ entity'[id].name = Uri[r] /\ entity'[id].parent = None
  <2>1. 1 \in 1 .. Len(new)
    BY <1>8
  <2> QED BY <1>6, <1>9, <2>1 DEF BrowseEntities, BrowseSubdirs
<1>11. ASSUME NEW e \in Ids' \ Ids PROVE Shape(e)'
  <2>1. PICK i \in 1 .. Len(new) : e = Len(entity) + i
    <3>1. e \in Int /\ e > Len(entity) /\ e <= Len(entity) + Len(new)
      BY <1>4, <1>8, <1>9 DEF Ids
    <3>2. e - Len(entity) \in 1 .. Len(new) /\ e = Len(entity) + (e - Len(entity))
      BY <1>4, <1>8, <3>1
    <3> QED BY <3>2
  <2>2. PICK x : x = new[i]
    OBVIOUS
  <2>3. x = entity'[e]
    BY <1>9, <2>1, <2>2
  <2>4. PICK n \in Nat : n = id /\ n > 9
    BY <1>4
  <2>5. /\ x.kind \in {"dir", "file"} /\ x.res = r
        /\ x.ops \in {"", "artists", "albums", "portraits"}
        /\ x.parent = IF i = 1 THEN None ELSE n
    BY <1>6, <2>2, <2>4 DEF BrowseEntities
  <2>6. CASE i = 1
    <3>1. x.name = Uri[r] /\ x.parent = None /\ x.ops = ""
      BY <1>9, <1>10, <2>1, <2>2, <2>6
    <3>2. BrowseShape(x, e)
      BY <1>5, <2>5, <3>1 DEF BrowseShape
    <3>3. OpsShape(x)'
      BY <3>1 DEF OpsShape
    <3>4. EntryShape(x, e)'
      BY <3>1, OrphanShapeNext DEF Orphans
    <3> QED BY <2>3, <2>5, <3>2, <3>3, <3>4, ShapeNext
  <2>7. CASE i # 1
    <3>1. /\ x.parent = n
          /\ x.kind = "dir" => x.ops # "" /\ x.name # "track.wav"
      BY <1>6, <2>2, <2>5, <2>7 DEF BrowseSubdirs
    <3>2. BrowseShape(x, e)
      BY <2>5, <3>1 DEF BrowseShape, IsBrowseDir
    <3>5. PICK y : y = entity'[n]
      OBVIOUS
    <3>6. y.kind = "dir" /\ y.ops = "" /\ y.res = r
      BY <1>10, <2>4, <3>5
    <3>3. OpsShape(x)'
      BY <2>4, <2>5, <3>1, <3>5, <3>6 DEF OpsShape
    <3>4. EntryShape(x, e)'
      <4>1. n # 1 /\ n # 2 /\ n # 3 /\ n # 4 /\ n # 5 /\ n # 6 /\ n # 7
        BY <2>4
      <4> QED BY <2>4, <2>5, <3>1, <3>5, <3>6, <4>1 DEF EntryShape, SearchDir
    <3> QED BY <2>3, <2>5, <3>2, <3>3, <3>4, ShapeNext
  <2> QED BY <2>6, <2>7
<1>12. HeldFits(t)'
  <2>1. \A e \in Ids : entity'[e].target = entity[e].target
    BY <1>7 DEF Grows
  <2> QED BY <1>2, <1>3, <1>4, <2>1, HeldStays DEF Fits
<1>13. ListFits(t)'
  BY <1>2, <1>4, ListStays DEF Fits
<1>14. TargetFits(t)'
  BY <1>3 DEF TargetFits
<1>15. BrowseFits(t)'
  <2>1. PICK n \in Nat : n = id /\ n > 9
    BY <1>4
  <2>2. PICK y : y = entity'[n]
    OBVIOUS
  <2>3. y.kind = "dir" /\ y.ops = "" /\ y.res = It(t).res
    BY <1>10, <2>1, <2>2 DEF r
  <2>4. browse'[t] = n
    BY <1>2, <2>1
  <2> QED BY <1>3, <2>1, <2>2, <2>3, <2>4 DEF BrowseFits, IsBrowseDir
<1>16. Fits(t)'
  BY <1>12, <1>13, <1>14, <1>15 DEF Fits
<1> QED BY <1>1, <1>7, <1>11, <1>16, GrowShape

\* An entity that joins a directory changes in its parent only.
LEMMA JoinTarget ==
    ASSUME TreeOK, NEW p, NEW c, Joins(p, c)
    PROVE  \A e \in Ids : entity'[e].target = entity[e].target
<1>1. EntityOK(c) /\ c \in Ids
  BY DEF TreeOK, Joins
<1> DEFINE x == [entity[c] EXCEPT !.parent = p]
<1>2. entity' = [entity EXCEPT ![c] = x]
  BY DEF Joins
<1>3. x.target = entity[c].target
  BY <1>1 DEF EntityOK, EntityFields
<1> HIDE DEF x
<1>4. \A e \in Ids : entity'[e] = IF e = c THEN x ELSE entity[e]
  BY <1>1, <1>2, EntityExcept DEF TreeOK
<1> QED BY <1>3, <1>4

LEMMA JoinShape ==
    ASSUME TreeInv, ShapeInv, NEW t \in Threads, ThreadStep(t),
           NEW p, NEW c, Fits(t)',
           entity' = entity \/ (Joins(p, c) /\ Shape(c)')
    PROVE  ShapeInv'
<1>1. CASE entity' = entity
  BY <1>1, SameTreeShape
<1>2. CASE Joins(p, c) /\ Shape(c)'
  <2>1. TreeOK
    BY DEF TreeInv
  <2>2. TargetsKept(t)
    BY <1>2, <2>1, JoinTarget DEF TargetsKept
  <2>3. Ids' = Ids /\ \A e \in Ids : e # c => entity'[e] = entity[e]
    BY <1>2, <2>1, JoinsFacts DEF Ids
  <2> QED BY <1>2, <2>2, <2>3, ShapeKept
<1> QED BY <1>1, <1>2

\* What the entity that joins must be like in its new place.
LEMMA JoinedShape ==
    ASSUME TreeOK, UniqueNames, NEW p \in Nat, NEW c, Joins(p, c),
           NEW x, x = entity'[c], BrowseShape(x, c), OpsShape(x),
           EntryShape(x, c),
           x.kind = "link" => p \in Ids /\ LinkShape(x, p)
    PROVE  Shape(c)'
<1>1. TreeStep
  BY DEF TreeStep
<1>2. TreeKeeps /\ c \in Ids /\ Len(entity) \in Nat
  BY <1>1, TreeAfter, AboveFacts DEF Joins
<1>3. x.parent = p /\ p < c
  BY JoinsFacts DEF Joins
<1>4. p > 9 => /\ p \in Ids
               /\ entity'[p].kind = entity[p].kind
               /\ entity'[p].ops = entity[p].ops
               /\ entity'[p].res = entity[p].res
  <2>1. p > 9 => p \in Ids
    BY <1>2, <1>3 DEF Ids
  <2> QED BY <1>2, <2>1 DEF TreeKeeps
<1>5. OpsShape(x)'
  BY <1>3, <1>4 DEF OpsShape
<1>6. EntryShape(x, c)'
  BY <1>3, <1>4 DEF EntryShape
<1>7. ASSUME x.kind = "link", NEW d \in Ids', x.parent = d
      PROVE  LinkShape(x, d)'
  <2>1. d = p /\ d \in Ids /\ LinkShape(x, d)
    BY <1>3, <1>7
  <2> QED BY <1>1, <2>1, LinkStays
<1> QED BY <1>5, <1>6, <1>7, ShapeNext

LEMMA AddBrowseShape ==
    ASSUME TreeInv, ShapeInv, NEW t \in Threads, browse_dir_add(t)
    PROVE  ShapeInv'
<1>1. ThreadStep(t)
  BY AddBrowseStep
<1>2. /\ pc[t] = "browse_add" /\ Goto(t, AfterBrowse(t))
      /\ dir' = dir /\ items' = items /\ at' = at /\ entry' = entry
      /\ browse' = browse
      /\ Adds(t, BrowseDir[Class[It(t).res]], browse[t])
  BY DEF browse_dir_add, localVars, Adds, Into, Adding
<1>3. pc'[t] \in {"test", "add"} /\ It(t)' = It(t)
  BY <1>2, AfterBrowseFacts, Going DEF It
<1>4. /\ TreeOK /\ UniqueNames /\ ThreadOK(t) /\ HeldOK(t) /\ Fits(t)
      /\ TreeStep /\ pc[t] \in Working
  BY <1>1, <1>2, AtThread DEF ShapeInv, ThreadStep, Working
<1>5. PICK r \in Resources : r = It(t).res
  BY <1>2, <1>4, ItemAt DEF ThreadOK, ItemOK
<1>6. PICK p \in {3, 4, 5} : p = BrowseDir[Class[r]]
  BY BrowsePlace
<1>7. PICK c \in Ids : c = browse[t]
  BY <1>2, <1>4 DEF ThreadOK, Ids, None
<1>8. IsBrowseDir(entity[c], c) /\ entity[c].res = r
  BY <1>2, <1>4, <1>5, <1>7 DEF Fits, BrowseFits, None, Ids
<1>9. /\ entity[c].parent = None /\ 9 < c
      /\ Sanitize(entity[c].name) = entity[c].name
  BY <1>2, <1>4, <1>7 DEF HeldOK, Held
<1>10. entity' = entity \/ Joins(p, c)
  <2>1. Adds(t, p, c) /\ p \in Nat /\ p < c
    BY <1>2, <1>5, <1>6, <1>7, <1>9 DEF Ids
  <2> QED BY <1>4, <1>9, <2>1, AddChildStep
<1>11. \A e \in Ids : entity'[e].target = entity[e].target
  BY <1>4, <1>10, JoinTarget
<1>12. Joins(p, c) => Shape(c)'
  <2> SUFFICES ASSUME Joins(p, c) PROVE Shape(c)'
    OBVIOUS
  <2>1. PICK x : x = entity'[c]
    OBVIOUS
  <2>2. /\ x.parent = p /\ x.name = entity[c].name /\ x.ops = entity[c].ops
        /\ x.res = entity[c].res /\ x.kind = entity[c].kind
    BY <1>4, <2>1, JoinsFacts
  <2>3. x.ops = "" /\ x.kind = "dir" /\ x.res = r /\ IsBrowseDir(x, c)
    BY <1>8, <2>2 DEF IsBrowseDir
  <2>4. Shape(c)
    BY DEF ShapeInv
  <2>5. entity[c].name = Uri[r]
    BY <1>8, <2>4 DEF Shape, BrowseShape
  <2>6. BrowseShape(x, c)
    BY <1>6, <2>2, <2>3, <2>5 DEF BrowseShape
  <2>7. OpsShape(x)
    BY <2>3 DEF OpsShape
  <2>8. EntryShape(x, c)
    <3>1. x.parent \in {3, 4, 5}
      BY <1>6, <2>2
    <3>2. ~ (x.parent > 9) /\ x.parent \notin {1, 2, 7}
          /\ x.parent # SearchDir
      BY <3>1 DEF SearchDir
    <3> QED BY <2>3, <3>2, Zenon DEF EntryShape
  <2> QED BY <1>4, <2>1, <2>3, <2>6, <2>7, <2>8, JoinedShape
<1>13. HeldFits(t)'
  BY <1>2, <1>3, <1>4, <1>11, HeldStays DEF Fits
<1>14. ListFits(t)' /\ BrowseFits(t)'
  BY <1>2, <1>3, <1>4, ListStays, BrowseStays DEF Fits
<1>15. TargetFits(t)'
  BY <1>3 DEF TargetFits
<1>16. Fits(t)'
  BY <1>13, <1>14, <1>15 DEF Fits
<1> QED BY <1>1, <1>10, <1>12, <1>16, JoinShape

\* Directories that list nothing have other operations.
LEMMA ListsNothing ==
    ASSUME ShapeInv, NEW d, entity[d].ops \in Listing
    PROVE  d \notin {1, 2, 3, 4, 5, 6, 7}
<1>1. DirIs(entity[1], "", 0, "") /\ DirIs(entity[2], "browse", 1, "")
  BY Zenon DEF ShapeInv, BaseOK
<1>2. DirIs(entity[3], "tracks", 2, "") /\ DirIs(entity[4], "artists", 2, "")
  BY Zenon DEF ShapeInv, BaseOK
<1>3. DirIs(entity[5], "albums", 2, "") /\ DirIs(entity[6], "search", 1, "search")
  BY Zenon DEF ShapeInv, BaseOK
<1>4. DirIs(entity[7], "playlists", 1, "")
  BY Zenon DEF ShapeInv, BaseOK
<1>5. \A e \in {1, 2, 3, 4, 5, 6, 7} : entity[e].ops \in {"", "search"}
  BY <1>1, <1>2, <1>3, <1>4 DEF DirIs
<1> QED BY <1>5 DEF Listing

\* The entry for an item, in the directory that is listed.
LEMMA AddedShape ==
    ASSUME TreeInv, ShapeInv, NEW d \in Ids, NEW c \in Ids, Joins(d, c),
           NEW it, ItemOK(it), ItemFits(it, d), EntryFits(entity[c], it),
           entity[d].ops \in Listing, Settled(d)
    PROVE  Shape(c)'
<1>1. TreeOK /\ UniqueNames /\ d \in Nat
  BY AboveFacts DEF TreeInv
<1>2. PICK x : x = entity'[c]
  OBVIOUS
<1>3. /\ x.parent = d /\ x.name = entity[c].name /\ x.ops = entity[c].ops
      /\ x.res = entity[c].res /\ x.kind = entity[c].kind
      /\ x.target = entity[c].target
  BY <1>1, <1>2, JoinsFacts, JoinTarget
<1>4. EntryFits(x, it)
  BY <1>3 DEF EntryFits
<1>5. Shape(c)
  BY DEF ShapeInv
<1>6. /\ x.ops \in {"", "music", "meta"}
      /\ x.ops # "" => it.kind = "dir" /\ x.kind = "dir"
      /\ x.kind = "dir" => x.ops # ""
      /\ x.kind = "link" <=> it.kind \in LinkKinds
  BY <1>4 DEF EntryFits, ItemOK, LinkKinds
<1>7. BrowseShape(x, c)
  BY <1>6 DEF BrowseShape, IsBrowseDir
<1>8. OpsShape(x)
  BY <1>3, <1>6 DEF OpsShape, ItemFits
<1>9. EntryShape(x, c)
  <2>1. d \notin {1, 2, 7} /\ d \notin {3, 4, 5} /\ d # SearchDir
    BY ListsNothing DEF SearchDir
  <2>2. entity[d].ops # ""
    BY DEF Listing
  <2>3. entity[d].ops = "results" => x.kind = "link" /\ x.name # "track.wav"
    BY <1>4, <1>6 DEF ItemFits, EntryFits, LinkKinds
  <2> QED BY <1>3, <2>1, <2>2, <2>3 DEF EntryShape
<1>10. x.kind = "link" => LinkShape(x, d)
  <2> SUFFICES ASSUME it.kind \in LinkKinds PROVE LinkShape(x, d)
    BY <1>6
  <2>1. x.res \in Resources /\ x.res = it.res
    BY <1>4 DEF EntryFits, ItemOK
  <2>2. Plain(x.name) /\ x.target = <<x.name>>
    BY <1>4 DEF EntryFits, ItemFits
  <2>3. entity[d].ops \in LinkDirs
    BY DEF ItemFits, LinkKinds, LinkDirs, MusicDirs
  <2>4. entity[d].ops \in {"artists", "albums"} =>
            Class[x.res] # Class[entity[d].res]
    BY <2>1 DEF ItemFits
  <2> QED BY <2>1, <2>2, <2>3, <2>4 DEF LinkShape
<1> QED BY <1>1, <1>2, <1>7, <1>8, <1>9, <1>10, JoinedShape

\* The two ways of adding an entry.
LEMMA AddsEntry ==
    ASSUME TreeInv, ShapeInv, NEW t \in Threads, pc[t] = "add",
           Adds(t, dir[t], entry[t])
    PROVE  \E d, c \in Ids :
              /\ d = dir[t] /\ c = entry[t] /\ EntryFits(entity[c], It(t))
              /\ entity[c].parent = None
              /\ entity' = entity \/ (Joins(d, c) /\ Shape(c)')
<1>1. /\ TreeOK /\ UniqueNames /\ ThreadOK(t) /\ HeldOK(t) /\ Fits(t)
      /\ pc[t] \in Working
  BY AtThread DEF ShapeInv, Working
<1>2. PICK c \in Ids : c = entry[t]
  BY <1>1 DEF ThreadOK, Ids, None
<1>3. PICK d \in Ids : d = dir[t]
  BY <1>1, ItemAt
<1>4. PICK it : it = It(t)
  OBVIOUS
<1>5. ItemOK(it) /\ at[t] \in 1 .. Len(items[t])
  BY <1>1, <1>4, ItemAt
<1>6. /\ entity[c].parent = None /\ d < c
      /\ Sanitize(entity[c].name) = entity[c].name
  BY <1>1, <1>2, <1>3 DEF HeldOK, Held
<1>7. entity' = entity \/ Joins(d, c)
  <2>1. d \in Nat /\ Adds(t, d, c)
    BY <1>1, <1>2, <1>3, AboveFacts
  <2> QED BY <1>1, <1>6, <2>1, AddChildStep
<1>8. EntryFits(entity[c], it)
  <2>1. c # None
    BY DEF None, Ids
  <2> QED BY <1>1, <1>2, <1>4, <2>1 DEF Fits, HeldFits
<1>9. entity[d].ops \in Listing /\ Settled(d) /\ ItemFits(it, d)
  BY <1>1, <1>3, <1>4, <1>5 DEF Fits, ListFits, It
<1>10. Joins(d, c) => Shape(c)'
  BY <1>5, <1>8, <1>9, AddedShape
<1> QED BY <1>2, <1>3, <1>4, <1>6, <1>7, <1>8, <1>10

LEMMA AddOtherShape ==
    ASSUME TreeInv, ShapeInv, NEW t \in Threads, entry_add(t)
    PROVE  ShapeInv'
<1>1. ThreadStep(t) /\ NextItem(t) /\ pc[t] = "add"
      /\ Adds(t, dir[t], entry[t])
  BY AddOtherStep DEF entry_add, Adds, Into, Adding
<1>2. PICK d, c \in Ids : entity' = entity \/ (Joins(d, c) /\ Shape(c)')
  BY <1>1, AddsEntry
<1>3. Fits(t)'
  BY <1>1, NextItemFits DEF ThreadStep
<1> QED BY <1>1, <1>2, <1>3, JoinShape

LEMMA AddLinkShape ==
    ASSUME TreeInv, ShapeInv, NEW t \in Threads, entry_add_link(t)
    PROVE  ShapeInv'
<1>1. ThreadStep(t)
  BY AddLinkStep
<1>2. /\ pc[t] = "add" /\ It(t).kind \in LinkKinds /\ Goto(t, "target")
      /\ dir' = dir /\ items' = items /\ at' = at /\ entry' = entry
      /\ browse' = browse
      /\ Adds(t, dir[t], entry[t])
  BY DEF entry_add_link, localVars, LinkKinds, Adds, Into, Adding
<1>3. pc'[t] = "target" /\ It(t)' = It(t)
  BY <1>2, Going DEF It
<1>4. PICK d, c \in Ids :
          /\ d = dir[t] /\ c = entry[t] /\ EntryFits(entity[c], It(t))
          /\ entity[c].parent = None
          /\ entity' = entity \/ (Joins(d, c) /\ Shape(c)')
  BY <1>2, AddsEntry
<1>5. /\ TreeOK /\ UniqueNames /\ TreeStep /\ Fits(t) /\ pc[t] \in Working
  BY <1>1, <1>2, AtThread DEF ShapeInv, ThreadStep, Working
<1>6. /\ entity'[c].kind = "link" /\ entity'[c].res = It(t).res
      /\ entity'[c].parent \in {None, d}
  <2>1. entity'[c].kind = entity[c].kind /\ entity'[c].res = entity[c].res
    BY <1>5, TreeAfter DEF TreeKeeps
  <2>2. entity[c].kind = "link" /\ entity[c].res = It(t).res
    BY <1>2, <1>4 DEF EntryFits
  <2>3. entity'[c].parent \in {None, d}
    BY <1>4, <1>5, JoinsFacts
  <2> QED BY <2>1, <2>2, <2>3
<1>7. ASSUME NEW u \in Threads PROVE ~ Held(u, c)'
  <2>1. CASE u = t
    BY <1>3, <2>1 DEF Held, Making
  <2>2. CASE u # t
    <3>1. Held(t, c)
      BY <1>2, <1>4 DEF Held
    <3>2. ~ Held(u, c)
      BY <2>2, <3>1 DEF TreeInv, OneHolder
    <3> QED BY <1>1, <2>2, <3>2 DEF ThreadStep, OthersKept, Held
  <2> QED BY <2>1, <2>2
<1>8. TargetFits(t)'
  <2> SUFFICES ASSUME NEW e \in Ids', entry'[t] = e
               PROVE  /\ entity'[e].kind = "link"
                      /\ entity'[e].res = It(t)'.res
                      /\ entity'[e].parent \in {None, dir'[t]}
                      /\ \A u \in Threads : ~ Held(u, e)'
    BY DEF TargetFits
  <2>1. e = c
    BY <1>2, <1>4
  <2> QED BY <1>2, <1>3, <1>4, <1>6, <1>7, <2>1
<1>9. ListFits(t)' /\ BrowseFits(t)'
  BY <1>2, <1>3, <1>5, ListStays, BrowseStays DEF Fits
<1>10. HeldFits(t)'
  BY <1>3 DEF HeldFits
<1>11. Fits(t)'
  BY <1>8, <1>9, <1>10 DEF Fits
<1> QED BY <1>1, <1>4, <1>11, JoinShape

LEMMA AddSearchShape ==
    ASSUME TreeInv, DirsInv, ShapeInv, NEW w \in Workers, search_dir_add(w)
    PROVE  ShapeInv'
<1>1. w \in Threads
  BY DEF Threads
<1>2. ThreadStep(w)
  BY AddSearchStep
<1>3. /\ pc[w] = "mkdir_add" /\ Goto(w, "idle")
      /\ dir' = dir /\ items' = items
      /\ Adds(w, SearchDir, entry[w])
  BY DEF search_dir_add, Adds, Into, Adding
<1>4. pc'[w] = "idle"
  BY <1>1, <1>3, Going
<1>5. /\ TreeOK /\ UniqueNames /\ ThreadOK(w) /\ HeldOK(w) /\ Fits(w) /\ TreeStep
  BY <1>1, <1>2, AtThread DEF ShapeInv, ThreadStep
<1>6. PICK c \in Ids : c = entry[w]
  BY <1>3, <1>5 DEF ThreadOK, Making, Ids, None
<1>7. entity[c].ops = "results" /\ entity[c].kind = "dir"
  BY <1>1, <1>3, <1>5, <1>6 DEF ThreadOK, DirsInv, Making
<1>8. /\ entity[c].parent = None /\ 9 < c
      /\ Sanitize(entity[c].name) = entity[c].name
  BY <1>3, <1>5, <1>6 DEF HeldOK, Held, Making
<1>9. entity' = entity \/ Joins(SearchDir, c)
  <2>1. Adds(w, SearchDir, c) /\ SearchDir \in Nat
        /\ SearchDir < c
    BY <1>3, <1>6, <1>8 DEF SearchDir, Ids
  <2> QED BY <1>5, <1>8, <2>1, AddChildStep
<1>10. Joins(SearchDir, c) => Shape(c)'
  <2> SUFFICES ASSUME Joins(SearchDir, c) PROVE Shape(c)'
    OBVIOUS
  <2>1. PICK x : x = entity'[c]
    OBVIOUS
  <2>2. x.parent = SearchDir /\ x.ops = "results" /\ x.kind = "dir"
    BY <1>5, <1>7, <2>1, JoinsFacts
  <2>3. BrowseShape(x, c)
    BY <2>2 DEF BrowseShape, IsBrowseDir
  <2>4. OpsShape(x)
    BY <2>2 DEF OpsShape
  <2>5. EntryShape(x, c)
    <3>1. x.parent = 6
      BY <2>2 DEF SearchDir
    <3>2. ~ (x.parent > 9) /\ x.parent \notin {1, 2, 7}
          /\ x.parent \notin {3, 4, 5}
      BY <3>1
    <3> QED BY <2>2, <3>2, Zenon DEF EntryShape
  <2>6. SearchDir \in Nat /\ x.kind # "link"
    BY <2>2 DEF SearchDir
  <2> QED BY <1>5, <2>1, <2>3, <2>4, <2>5, <2>6, JoinedShape
<1>11. ListFits(w)'
  BY <1>1, <1>3, <1>5, ListStays DEF Fits
<1>12. HeldFits(w)' /\ TargetFits(w)' /\ BrowseFits(w)'
  BY <1>4 DEF HeldFits, TargetFits, BrowseFits, Working
<1>13. Fits(w)'
  BY <1>11, <1>12 DEF Fits
<1> QED BY <1>1, <1>2, <1>9, <1>10, <1>13, JoinShape

-----------------------------------------------------------------------------
(* Where links are made to lead to.                                        *)

LEMMA Extended ==
    ASSUME NEW a, NEW b, NEW c
    PROVE  /\ Append(<<>>, a) = <<a>>
           /\ Append(<<a>>, b) = <<a, b>>
           /\ Append(<<a, b>>, c) = <<a, b, c>>
<1> DEFINE S == {a, b, c}
<1>1. a \in S /\ b \in S /\ c \in S
  OBVIOUS
<1> HIDE DEF S
<1>2. Append(<<>>, a) = <<a>>
  <2>1. <<>> \in Seq(S) /\ Len(<<>>) = 0
    OBVIOUS
  <2>2. PICK s \in Seq(S) : s = <<>> /\ Len(s) = 0
    BY <2>1
  <2>3. Append(s, a) \in Seq(S) /\ Len(Append(s, a)) = 1 /\ Append(s, a)[1] = a
    BY <1>1, <2>2
  <2> QED BY <1>1, <2>2, <2>3, OneElement
<1>3. Append(<<a>>, b) = <<a, b>>
  BY <1>1, PairAppended
<1>4. Append(<<a, b>>, c) = <<a, b, c>>
  BY <1>1, TripleAppended
<1> QED BY <1>2, <1>3, <1>4

LEMMA ExtendedToFour ==
    ASSUME NEW a, NEW b, NEW c, NEW d
    PROVE  Append(<<a, b, c>>, d) = <<a, b, c, d>>
<1> DEFINE S == {a, b, c, d}
<1>1. a \in S /\ b \in S /\ c \in S /\ d \in S
  OBVIOUS
<1> HIDE DEF S
<1>2. /\ Len(<<a, b, c>>) = 3 /\ <<a, b, c>>[1] = a
      /\ <<a, b, c>>[2] = b /\ <<a, b, c>>[3] = c
      /\ <<a, b, c>> \in Seq(S)
  BY <1>1
<1>3. PICK s \in Seq(S) : s = <<a, b, c>>
  BY <1>2, Zenon
<1>4. /\ Append(s, d) \in Seq(S) /\ Len(Append(s, d)) = 4
      /\ Append(s, d)[1] = a /\ Append(s, d)[2] = b
      /\ Append(s, d)[3] = c /\ Append(s, d)[4] = d
  BY <1>1, <1>2, <1>3
<1>5. /\ <<a, b, c, d>> \in Seq(S) /\ Len(<<a, b, c, d>>) = 4
      /\ <<a, b, c, d>>[1] = a /\ <<a, b, c, d>>[2] = b
      /\ <<a, b, c, d>>[3] = c /\ <<a, b, c, d>>[4] = d
  BY <1>1
<1>6. PICK u \in Seq(S) : u = <<a, b, c, d>>
  BY <1>5
<1>7. PICK v \in Seq(S) : v = Append(s, d)
  BY <1>4
<1>8. \A i \in 1 .. 4 : i = 1 \/ i = 2 \/ i = 3 \/ i = 4
  OBVIOUS
<1>9. \A i \in 1 .. 4 : u[i] = v[i]
  BY <1>4, <1>5, <1>6, <1>7, <1>8
<1>10. u = v
  BY <1>4, <1>5, <1>6, <1>7, <1>9, SeqEqual
<1> QED BY <1>3, <1>6, <1>7, <1>10

\* The paths of the directories of spfs_init.
LEMMA BasePaths ==
    ASSUME TreeOK, BaseOK
    PROVE  /\ spfs_entity_get_full_path(2) = <<"browse">>
           /\ spfs_entity_get_full_path(3) = <<"browse", "tracks">>
           /\ spfs_entity_get_full_path(4) = <<"browse", "artists">>
           /\ spfs_entity_get_full_path(5) = <<"browse", "albums">>
           /\ spfs_entity_get_full_path(6) = <<"search">>
           /\ spfs_entity_get_full_path(7) = <<"playlists">>
           /\ spfs_entity_get_full_path(8) = <<"playlists", "meta">>
           /\ spfs_entity_get_full_path(9) = <<"playlists", "music">>
<1> DEFINE P(e) == spfs_entity_get_full_path(e)
<1>1. WaysUp /\ \A e \in 1 .. 9 : e \in Ids
  BY WaysUpHold, AboveFacts DEF TreeOK, Ids
<1>2. P(1) = <<>>
  BY <1>1 DEF WaysUp, Root
<1>3. ASSUME NEW e \in 2 .. 9, NEW p \in 1 .. 9, NEW name, NEW ops,
             DirIs(entity[e], name, p, ops)
      PROVE  P(e) = Append(P(p), name)
  <2>1. entity[e].parent = p /\ entity[e].name = name /\ e # Root
    BY <1>3 DEF DirIs, Root
  <2>2. e \in Ids /\ p \in Ids
    BY <1>1
  <2> QED BY <1>1, <2>1, <2>2 DEF WaysUp
<1> HIDE DEF P
<1>4. P(2) = <<"browse">>
  <2>1. DirIs(entity[2], "browse", 1, "")
    BY Zenon DEF BaseOK
  <2>3. 2 \in 2 .. 9 /\ 1 \in 1 .. 9
    OBVIOUS
  <2>2. P(2) = Append(P(1), "browse")
    BY <1>3, <2>1, <2>3
  <2> QED BY <1>2, <2>2, Extended
<1>5. P(6) = <<"search">>
  <2>1. DirIs(entity[6], "search", 1, "search")
    BY Zenon DEF BaseOK
  <2>3. 6 \in 2 .. 9 /\ 1 \in 1 .. 9
    OBVIOUS
  <2>2. P(6) = Append(P(1), "search")
    BY <1>3, <2>1, <2>3
  <2> QED BY <1>2, <2>2, Extended
<1>6. P(7) = <<"playlists">>
  <2>1. DirIs(entity[7], "playlists", 1, "")
    BY Zenon DEF BaseOK
  <2>3. 7 \in 2 .. 9 /\ 1 \in 1 .. 9
    OBVIOUS
  <2>2. P(7) = Append(P(1), "playlists")
    BY <1>3, <2>1, <2>3
  <2> QED BY <1>2, <2>2, Extended
<1>7. P(3) = <<"browse", "tracks">>
  <2>1. DirIs(entity[3], "tracks", 2, "")
    BY Zenon DEF BaseOK
  <2>3. 3 \in 2 .. 9 /\ 2 \in 1 .. 9
    OBVIOUS
  <2>2. P(3) = Append(P(2), "tracks")
    BY <1>3, <2>1, <2>3
  <2> QED BY <1>4, <2>2, Extended
<1>8. P(4) = <<"browse", "artists">>
  <2>1. DirIs(entity[4], "artists", 2, "")
    BY Zenon DEF BaseOK
  <2>3. 4 \in 2 .. 9 /\ 2 \in 1 .. 9
    OBVIOUS
  <2>2. P(4) = Append(P(2), "artists")
    BY <1>3, <2>1, <2>3
  <2> QED BY <1>4, <2>2, Extended
<1>9. P(5) = <<"browse", "albums">>
  <2>1. DirIs(entity[5], "albums", 2, "")
    BY Zenon DEF BaseOK
  <2>3. 5 \in 2 .. 9 /\ 2 \in 1 .. 9
    OBVIOUS
  <2>2. P(5) = Append(P(2), "albums")
    BY <1>3, <2>1, <2>3
  <2> QED BY <1>4, <2>2, Extended
<1>10. P(8) = <<"playlists", "meta">>
  <2>1. DirIs(entity[8], "meta", 7, "meta_lists")
    BY Zenon DEF BaseOK
  <2>3. 8 \in 2 .. 9 /\ 7 \in 1 .. 9
    OBVIOUS
  <2>2. P(8) = Append(P(7), "meta")
    BY <1>3, <2>1, <2>3
  <2> QED BY <1>6, <2>2, Extended
<1>11. P(9) = <<"playlists", "music">>
  <2>1. DirIs(entity[9], "music", 7, "music_lists")
    BY Zenon DEF BaseOK
  <2>3. 9 \in 2 .. 9 /\ 7 \in 1 .. 9
    OBVIOUS
  <2>2. P(9) = Append(P(7), "music")
    BY <1>3, <2>1, <2>3
  <2> QED BY <1>6, <2>2, Extended
<1> QED BY <1>4, <1>5, <1>6, <1>7, <1>8, <1>9, <1>10, <1>11 DEF P

LEMMA ClassPath ==
    ASSUME TreeOK, BaseOK, NEW r \in Resources
    PROVE  spfs_entity_get_full_path(BrowseDir[Class[r]]) = <<"browse", Class[r]>>
<1>1. Class[r] \in {"tracks", "artists", "albums"}
  BY TreeAssumption
<1>2. CASE Class[r] = "tracks"
  <2>1. BrowseDir[Class[r]] = 3
    BY <1>2 DEF BrowseDir
  <2> QED BY <1>2, <2>1, BasePaths, Zenon
<1>3. CASE Class[r] = "artists"
  <2>1. BrowseDir[Class[r]] = 4
    BY <1>3 DEF BrowseDir
  <2> QED BY <1>3, <2>1, BasePaths, Zenon
<1>4. CASE Class[r] = "albums"
  <2>1. BrowseDir[Class[r]] = 5
    BY <1>4 DEF BrowseDir
  <2> QED BY <1>4, <2>1, BasePaths, Zenon
<1> QED BY <1>1, <1>2, <1>3, <1>4

\* The directory about a resource is at home.
LEMMA BrowsePath ==
    ASSUME TreeOK, BaseOK, NEW b \in Ids, Shape(b), IsBrowseDir(entity[b], b),
           NEW r \in Resources, entity[b].res = r
    PROVE  spfs_entity_get_full_path(b) \in Homes(r, FALSE)
<1>1. entity[b].name = Uri[r] /\ entity[b].parent \in {None, BrowseDir[Class[r]]}
  BY DEF Shape, BrowseShape
<1>5. b # Root
  <2>1. b > 9
    BY DEF IsBrowseDir
  <2>2. ~ (1 > 9)
    OBVIOUS
  <2> QED BY <2>1, <2>2 DEF Root
<1>2. WaysUp
  BY WaysUpHold
<1>3. CASE entity[b].parent = None
  <2>1. spfs_entity_get_full_path(b) = <<Uri[r]>>
    BY <1>1, <1>2, <1>3, <1>5 DEF WaysUp
  <2> QED BY <2>1 DEF Homes
<1>4. CASE entity[b].parent = BrowseDir[Class[r]]
  <2>1. PICK p \in Ids : p = BrowseDir[Class[r]]
    BY BrowsePlace, AboveFacts DEF TreeOK
  <2>2. spfs_entity_get_full_path(b)
            = Append(spfs_entity_get_full_path(p), Uri[r])
    BY <1>1, <1>2, <1>4, <1>5, <2>1 DEF WaysUp
  <2>3. spfs_entity_get_full_path(p) = <<"browse", Class[r]>>
    BY <2>1, ClassPath
  <2>5. Append(<<"browse", Class[r]>>, Uri[r]) = <<"browse", Class[r], Uri[r]>>
    BY Extended, Zenon
  <2>4. spfs_entity_get_full_path(b) = <<"browse", Class[r], Uri[r]>>
    BY <2>2, <2>3, <2>5, Zenon
  <2> QED BY <2>4 DEF Homes
<1> QED BY <1>1, <1>3, <1>4

\* ... and the music is in it.
LEMMA MusicPath ==
    ASSUME TreeOK, BaseOK, NEW b \in Ids, NEW r \in Resources,
           spfs_entity_get_full_path(b) \in Homes(r, FALSE),
           NEW a \in Ids, entity[a].parent = b, entity[a].name = "track.wav",
           a # Root
    PROVE  spfs_entity_get_full_path(a) \in Homes(r, TRUE)
<1>1. spfs_entity_get_full_path(a)
          = Append(spfs_entity_get_full_path(b), "track.wav")
  BY WaysUpHold DEF WaysUp
<1>2. CASE spfs_entity_get_full_path(b) = <<Uri[r]>>
  BY <1>1, <1>2, Extended DEF Homes
<1>3. CASE spfs_entity_get_full_path(b) = <<"browse", Class[r], Uri[r]>>
  <2>1. Append(<<"browse", Class[r], Uri[r]>>, "track.wav")
            = <<"browse", Class[r], Uri[r], "track.wav">>
    BY ExtendedToFour, Zenon
  <2>2. spfs_entity_get_full_path(a)
            = <<"browse", Class[r], Uri[r], "track.wav">>
    BY <1>1, <1>3, <2>1, Zenon
  <2> QED BY <2>2 DEF Homes
<1> QED BY <1>2, <1>3 DEF Homes

\* A path of one element.
LEMMA FindOne ==
    ASSUME TreeOK, NEW from \in {None} \cup Ids, NEW name
    PROVE  FindPathFrom(from, <<name>>) = NextOnPath(from, <<name>>, 1)
<1>1. PICK path : path = <<name>> /\ Len(path) = 1
  BY SequenceOne
<1>5. Len(path) \in Nat
  BY <1>1
<1>2. PICK f : /\ FindPathFrom(from, path) = f[Len(path)] /\ f[0] = from
               /\ \A k \in 1 .. Len(path) : f[k] = NextOnPath(f[k - 1], path, k)
  BY <1>5, FindPathIs
<1>3. 1 \in 1 .. Len(path) /\ 1 - 1 = 0
  BY <1>1
<1>4. f[1] = NextOnPath(f[0], path, 1)
  BY <1>2, <1>3
<1> QED BY <1>1, <1>2, <1>4

\* What a link is given to lead to is at home.
LEMMA AimAtHome ==
    ASSUME TreeInv, ShapeInv, NEW t \in Threads, pc[t] = "target",
           Aim(t) # None
    PROVE  \E a \in Ids, r \in Resources, d \in Ids :
              /\ a = Aim(t) /\ r = It(t).res /\ d = dir[t]
              /\ spfs_entity_get_full_path(a)
                    \in Homes(r, entity[d].ops \in MusicDirs)
<1>1. /\ TreeOK /\ ThreadOK(t) /\ Fits(t) /\ pc[t] \in Working /\ BaseOK
  BY AtThread DEF ShapeInv, Working
<1>2. PICK it : it = It(t)
  OBVIOUS
<1>3. it.kind \in LinkKinds /\ ItemOK(it) /\ at[t] \in 1 .. Len(items[t])
  BY <1>1, <1>2, ItemAt DEF ThreadOK
<1>4. PICK d \in Ids : d = dir[t]
  BY <1>1, ItemAt
<1>5. PICK r \in Resources : r = it.res
  BY <1>3 DEF ItemOK
<1>6. ItemFits(it, d)
  BY <1>1, <1>2, <1>3, <1>4 DEF Fits, ListFits, It
<1>7. None \notin Ids /\ Root \in Ids
  BY <1>1 DEF None, Ids, TreeOK, Root
<1>8. browse[t] # None
  <2> SUFFICES ASSUME browse[t] = None PROVE Aim(t) = None
    OBVIOUS
  <2>1. FindPathFrom(browse[t], <<"track.wav">>)
            = NextOnPath(browse[t], <<"track.wav">>, 1)
    BY <1>1, FindOne
  <2>2. FindPathFrom(browse[t], <<"track.wav">>) = None
    BY <2>1 DEF NextOnPath
  <2> QED BY <2>2 DEF Aim
<1>9. PICK b \in Ids : b = browse[t]
  BY <1>1, <1>8 DEF ThreadOK, Ids, None
<1>10. IsBrowseDir(entity[b], b) /\ entity[b].res = r /\ Shape(b)
  BY <1>1, <1>2, <1>5, <1>8, <1>9 DEF Fits, BrowseFits, ShapeInv
<1>11. spfs_entity_get_full_path(b) \in Homes(r, FALSE)
  BY <1>1, <1>10, BrowsePath
<1>12. CASE it.kind = "link"
  <2>1. Aim(t) = b
    BY <1>2, <1>9, <1>12 DEF Aim
  <2>2. entity[d].ops \notin MusicDirs
    BY <1>6, <1>12 DEF ItemFits, MusicDirs
  <2>3. spfs_entity_get_full_path(b) \in Homes(r, entity[d].ops \in MusicDirs)
    BY <1>11, <2>2 DEF Homes
  <2> QED BY <1>2, <1>4, <1>5, <2>1, <2>3
<1>13. CASE it.kind = "wav_link"
  <2>1. Aim(t) = NextOnPath(b, <<"track.wav">>, 1)
    BY <1>1, <1>2, <1>9, <1>13, FindOne DEF Aim
  <2>2. entity[b].name # "track.wav" /\ entity[b].kind = "dir"
    BY <1>10, NameAssumption DEF Shape, BrowseShape, IsBrowseDir
  <2>3. <<"track.wav">>[1] = "track.wav"
    OBVIOUS
  <2>4. Aim(t) = Child(b, "track.wav")
    BY <1>7, <2>1, <2>2, <2>3 DEF NextOnPath
  <2>5. PICK a \in Ids : /\ a = Aim(t) /\ entity[a].parent = b
                         /\ entity[a].name = "track.wav"
    BY <1>1, <2>4, ChildEntry
  <2>6. a # Root
    <3>1. entity[a].parent < a /\ b \in Nat /\ b > 9
      <4>1. EntityOK(a) /\ a \in Nat /\ b \in Nat
        BY <1>1, AboveFacts DEF TreeOK
      <4> QED BY <1>10, <4>1 DEF EntityOK, IsBrowseDir
    <3> QED BY <1>1, <2>5, <3>1, AboveFacts DEF Root
  <2>7. spfs_entity_get_full_path(a) \in Homes(r, TRUE)
    BY <1>1, <1>11, <2>5, <2>6, MusicPath
  <2>8. entity[d].ops \in MusicDirs
    BY <1>6, <1>13 DEF ItemFits
  <2>9. spfs_entity_get_full_path(a) \in Homes(r, entity[d].ops \in MusicDirs)
    BY <2>7, <2>8 DEF Homes
  <2> QED BY <1>2, <1>4, <1>5, <2>5, <2>9
<1> QED BY <1>3, <1>12, <1>13 DEF LinkKinds

\* The link is given its target from where its directory is.
LEMMA FromOrigin ==
    ASSUME TreeOK, BaseOK, NEW d \in Ids, Shape(d)
    PROVE  Origin(spfs_entity_get_full_path(d), d)
<1>1. CASE entity[d].ops # "results"
  BY <1>1 DEF Origin
<1>2. CASE entity[d].ops = "results"
  <2>1. entity[d].parent \in {None, SearchDir}
    BY <1>2 DEF Shape, OpsShape
  <2>2. d # Root
    <3>1. DirIs(entity[1], "", 0, "")
      BY Zenon DEF BaseOK
    <3> QED BY <1>2, <3>1 DEF DirIs, Root
  <2>3. CASE entity[d].parent = None
    <3>1. spfs_entity_get_full_path(d) = <<entity[d].name>>
      BY <2>2, <2>3, WaysUpHold DEF WaysUp
    <3> QED BY <1>2, <3>1 DEF Origin
  <2>4. CASE entity[d].parent = SearchDir
    <3>1. PICK p \in Ids : p = SearchDir /\ p = 6
      BY AboveFacts DEF SearchDir, TreeOK
    <3>2. spfs_entity_get_full_path(d)
              = Append(spfs_entity_get_full_path(p), entity[d].name)
      BY <2>2, <2>4, <3>1, WaysUpHold DEF WaysUp
    <3>3. spfs_entity_get_full_path(p) = <<"search">>
      BY <3>1, BasePaths
    <3>4. spfs_entity_get_full_path(d) = <<"search", entity[d].name>>
      BY <3>2, <3>3, Extended
    <3> QED BY <1>2, <3>4 DEF Origin
  <2> QED BY <2>1, <2>3, <2>4
<1> QED BY <1>1, <1>2

LEMMA TargetShape ==
    ASSUME TreeInv, ShapeInv, NEW t \in Threads, spfs_entity_link_set_target(t)
    PROVE  ShapeInv'
<1>1. /\ pc[t] = "target" /\ NextItem(t) /\ entity' = Targeted(t)
      /\ ThreadStep(t)
  BY TargetStep DEF spfs_entity_link_set_target
<1>2. Fits(t)'
  BY <1>1, NextItemFits DEF ThreadStep
<1>3. CASE Aim(t) = None
  BY <1>1, <1>2, <1>3, SameTreeShape DEF Targeted
<1>4. CASE Aim(t) # None
  <2>1. PICK a \in Ids, r \in Resources, d \in Ids :
            /\ a = Aim(t) /\ r = It(t).res /\ d = dir[t]
            /\ spfs_entity_get_full_path(a)
                  \in Homes(r, entity[d].ops \in MusicDirs)
    BY <1>1, <1>4, AimAtHome
  <2>2. /\ TreeOK /\ UniqueNames /\ TreeStep /\ ThreadOK(t) /\ Fits(t) /\ BaseOK
    BY <1>1, AtThread DEF ShapeInv, ThreadStep
  <2>3. PICK c \in Ids : c = entry[t]
    BY <1>1, <2>2 DEF ThreadOK, Ids, None
  <2>4. PICK to : to = relpath(d, a)
    OBVIOUS
  <2>5. entity' = [entity EXCEPT ![c].target = to]
    BY <1>1, <1>4, <2>1, <2>3, <2>4 DEF Targeted
  <2>6. Retargets(c)
    BY <2>5 DEF Retargets
  <2>7. PICK x : x = entity'[c]
    OBVIOUS
  <2>8. x.target = to
    <3>1. EntityOK(c)
      BY <2>2 DEF TreeOK
    <3> DEFINE y == [entity[c] EXCEPT !.target = to]
    <3>2. y.target = to /\ entity' = [entity EXCEPT ![c] = y]
      BY <2>5, <3>1 DEF EntityOK, EntityFields
    <3> HIDE DEF y
    <3>4. Sequence(entity)
      BY <2>2 DEF TreeOK
    <3>5. \A e \in Ids : entity'[e] = IF e = c THEN y ELSE entity[e]
      BY <3>2, <3>4, EntityExcept
    <3>3. entity'[c] = y
      BY <3>5
    <3> QED BY <2>7, <3>2, <3>3
  <2>9. /\ Len(entity') = Len(entity)
        /\ \A e \in Ids : e # c => entity'[e] = entity[e]
        /\ x.parent = entity[c].parent /\ x.name = entity[c].name
        /\ x.ops = entity[c].ops /\ x.res = entity[c].res
        /\ x.kind = entity[c].kind
    BY <2>2, <2>6, <2>7, RetargetsFacts
  <2>10. Ids' = Ids
    BY <2>9 DEF Ids
  <2>11. /\ entity[c].kind = "link" /\ entity[c].res = r
         /\ entity[c].parent \in {None, d}
    BY <1>1, <2>1, <2>2, <2>3 DEF Fits, TargetFits
  <2>12. LedFrom(to, r, d)
    <3>1. Shape(d)
      BY DEF ShapeInv
    <3>2. Origin(spfs_entity_get_full_path(d), d)
      BY <2>2, <3>1, FromOrigin
    <3> QED BY <2>1, <2>4, <3>2 DEF LedFrom, relpath
  <2>13. Shape(c)'
    <3>1. PICK y : y = entity[c]
      OBVIOUS
    <3>2. /\ x.parent = y.parent /\ x.name = y.name /\ x.ops = y.ops
          /\ x.res = y.res /\ x.kind = y.kind
      BY <2>9, <3>1
    <3>3. /\ BrowseShape(y, c) /\ OpsShape(y) /\ EntryShape(y, c)
          /\ \A e \in Ids : y.parent = e => LinkShape(y, e)
      BY <2>11, <3>1 DEF ShapeInv, Shape
    <3>4. BrowseShape(x, c)
      BY <3>2, <3>3 DEF BrowseShape, IsBrowseDir
    <3>5. OpsShape(y)' /\ EntryShape(y, c)'
      BY <2>2, <3>1, <3>3, OpsStays, TreeAfter
    <3>6. OpsShape(x)'
      BY <3>2, <3>5 DEF OpsShape
    <3>7. EntryShape(x, c)'
      BY <3>2, <3>5 DEF EntryShape, IsBrowseDir
    <3>8. ASSUME NEW e \in Ids', x.parent = e PROVE LinkShape(x, e)'
      <4>1. e = d
        <5>1. e # None
          BY <3>8, NoneIsNew
        <5> QED BY <2>11, <3>1, <3>2, <3>8, <5>1
      <4>2. LinkShape(y, d)
        BY <3>2, <3>3, <3>8, <4>1
      <4>3. LinkShape(x, d)
        BY <2>8, <2>11, <2>12, <3>1, <3>2, <4>2 DEF LinkShape
      <4> QED BY <2>2, <4>1, <4>3, LinkStays
    <3> QED BY <2>7, <3>4, <3>6, <3>7, <3>8, ShapeNext
  <2>14. TargetsKept(t)
    BY <1>1, <2>3, <2>9 DEF TargetsKept
  <2>15. \A e \in Ids' : (e \in Ids /\ entity'[e] = entity[e]) \/ Shape(e)'
    BY <2>9, <2>10, <2>13
  <2> QED BY <1>1, <1>2, <2>14, <2>15, ShapeKept
<1> QED BY <1>3, <1>4

-----------------------------------------------------------------------------
(* The invariant about links.                                              *)

LEMMA InitialShape ==
    ASSUME Init, NEW e \in 1 .. 9
    PROVE  /\ entity[e].kind = "dir" /\ entity[e].parent \in {0, 1, 2, 7}
           /\ entity[e].ops \in InitialOps
           /\ entity[e].ops \in {"music_lists", "meta_lists"} => e \in {8, 9}
<1> DEFINE G(x, i) == /\ x.kind = "dir" /\ x.parent \in {0, 1, 2, 7}
                      /\ x.ops \in InitialOps
                      /\ x.ops \in {"music_lists", "meta_lists"} => i \in {8, 9}
<1>1. ASSUME NEW x, NEW i, NEW name, NEW parent \in {0, 1, 2, 7},
             NEW ops \in {"", "search"}, DirIs(x, name, parent, ops)
      PROVE  G(x, i)
  BY <1>1 DEF DirIs, InitialOps
<1>2. ASSUME NEW x, NEW i \in {8, 9}, NEW name,
             NEW ops \in {"meta_lists", "music_lists"}, DirIs(x, name, 7, ops)
      PROVE  G(x, i)
  BY <1>2 DEF DirIs, InitialOps
<1> HIDE DEF G
<1>3. /\ DirIs(entity[1], "", 0, "")
      /\ DirIs(entity[2], "browse", 1, "")
      /\ DirIs(entity[3], "tracks", 2, "")
      /\ DirIs(entity[4], "artists", 2, "")
      /\ DirIs(entity[5], "albums", 2, "")
      /\ DirIs(entity[6], "search", 1, "search")
      /\ DirIs(entity[7], "playlists", 1, "")
      /\ DirIs(entity[8], "meta", 7, "meta_lists")
      /\ DirIs(entity[9], "music", 7, "music_lists")
  BY InitialEntities
<1>4. G(entity[1], 1) /\ G(entity[2], 2) /\ G(entity[3], 3) /\ G(entity[4], 4)
  BY <1>1, <1>3
<1>5. G(entity[5], 5) /\ G(entity[6], 6) /\ G(entity[7], 7)
  BY <1>1, <1>3
<1>6. G(entity[8], 8) /\ G(entity[9], 9)
  BY <1>2, <1>3
<1>7. e \in {1, 2, 3, 4, 5, 6, 7, 8, 9}
  OBVIOUS
<1>8. G(entity[e], e)
  BY <1>4, <1>5, <1>6, <1>7
<1> QED BY <1>8 DEF G

LEMMA ShapeInit ==
    ASSUME Init PROVE ShapeInv
<1>1. Ids = 1 .. 9
  BY InitialEntities DEF Ids
<1>2. BaseOK
  BY InitialEntities, Zenon DEF BaseOK
<1>3. ASSUME NEW e \in Ids PROVE Shape(e)
  <2>1. PICK x : x = entity[e]
    OBVIOUS
  <2>2. /\ x.kind = "dir" /\ x.parent \in {0, 1, 2, 7}
        /\ x.ops \in InitialOps
        /\ x.ops \in {"music_lists", "meta_lists"} => e \in {8, 9}
    BY <1>1, <2>1, InitialShape
  <2>3. e <= 9 /\ ~ (e > 9)
    BY <1>1
  <2>4. ~ (x.parent > 9) /\ x.parent \notin {3, 4, 5} /\ x.parent # SearchDir
    BY <2>2 DEF SearchDir
  <2>5. BrowseShape(x, e)
    BY <2>2, <2>3 DEF BrowseShape, IsBrowseDir
  <2>6. OpsShape(x)
    BY <2>2 DEF OpsShape, InitialOps
  <2>7. EntryShape(x, e)
    BY <2>3, <2>4, Zenon DEF EntryShape
  <2> QED BY <2>1, <2>2, <2>5, <2>6, <2>7 DEF Shape
<1>4. ASSUME NEW t \in Threads PROVE Fits(t)
  <2>1. pc[t] = "idle" /\ dir[t] = None
    BY DEF Init
  <2>2. None \notin Ids
    BY DEF None, Ids
  <2>3. ListFits(t)
    BY <2>1, <2>2 DEF ListFits
  <2>4. HeldFits(t) /\ TargetFits(t) /\ BrowseFits(t)
    BY <2>1 DEF HeldFits, TargetFits, BrowseFits, Working
  <2> QED BY <2>3, <2>4 DEF Fits
<1> QED BY <1>2, <1>3, <1>4 DEF ShapeInv

LEMMA ItemStepShape ==
    ASSUME TreeInv, ShapeInv, SanitizedStays, NEW t \in Threads, ItemStep(t)
    PROVE  ShapeInv'
<1>1. CASE browse_dir_known(t) \/ browse_dir_fails(t)
  BY <1>1, KnownShape
<1>2. CASE browse_dir_create(t)
  BY <1>2, CreateBrowseShape
<1>3. CASE browse_dir_add(t)
  BY <1>3, AddBrowseShape
<1>4. CASE entry_known(t)
  BY <1>4, KnownEntryShape
<1>5. CASE entry_create(t)
  BY <1>5, CreateEntryShape
<1>6. CASE entry_add_link(t)
  BY <1>6, AddLinkShape
<1>7. CASE entry_add(t)
  BY <1>7, AddOtherShape
<1>8. CASE spfs_entity_link_set_target(t)
  BY <1>8, TargetShape
<1>9. CASE reply(t)
  BY <1>9, ReplyShape
<1> QED
  BY <1>1, <1>2, <1>3, <1>4, <1>5, <1>6, <1>7, <1>8, <1>9 DEF ItemStep

LEMMA ShapeStutters ==
    ASSUME TreeInv, ShapeInv, UNCHANGED treeVars PROVE ShapeInv'
<1>1. /\ entity' = entity /\ pc' = pc /\ dir' = dir /\ items' = items
      /\ at' = at /\ entry' = entry /\ browse' = browse
  BY DEF treeVars, localVars
<1>2. TreeOK /\ UniqueNames /\ TreeStep
  BY <1>1 DEF TreeInv, TreeStep
<1>3. Ids' = Ids
  BY <1>1 DEF Ids
<1>4. BaseOK'
  BY <1>2, BaseStays DEF ShapeInv
<1>5. ASSUME NEW e \in Ids' PROVE Shape(e)'
  <2>1. e \in Ids /\ Shape(e) /\ entity'[e] = entity[e]
    BY <1>1, <1>3 DEF ShapeInv
  <2> QED BY <1>2, <2>1, ShapeStays
<1>6. ASSUME NEW t \in Threads PROVE Fits(t)'
  <2>1. Fits(t) /\ It(t)' = It(t)
    BY <1>1 DEF ShapeInv, It
  <2>2. ListFits(t)'
    BY <1>1, <1>2, <2>1, ListStays DEF Fits
  <2>3. HeldFits(t)'
    BY <1>1, <2>1 DEF Fits, HeldFits, EntryFits
  <2>4. BrowseFits(t)'
    BY <1>1, <2>1 DEF Fits, BrowseFits, IsBrowseDir
  <2>5. TargetFits(t)'
    BY <1>1, <1>3, <2>1 DEF Fits, TargetFits, Held
  <2> QED BY <2>2, <2>3, <2>4, <2>5 DEF Fits
<1> QED BY <1>4, <1>5, <1>6 DEF ShapeInv

LEMMA ShapeAfter ==
    ASSUME TreeInv, DirsInv, ShapeInv, SanitizedStays, NoDots,
           Work \/ UNCHANGED treeVars
    PROVE  ShapeInv'
<1>1. ASSUME NEW w \in Workers, NEW d \in Ids, spfs_readdir(w, d)
      PROVE  ShapeInv'
  BY <1>1, ReaddirShape
<1>2. ASSUME NEW w \in Workers, NEW q \in Queries, search_dir_create(w, q)
      PROVE  ShapeInv'
  BY <1>2, CreateSearchShape
<1>3. ASSUME NEW w \in Workers, search_dir_search(w) PROVE ShapeInv'
  BY <1>3, IssueSearchShape
<1>4. ASSUME NEW w \in Workers, search_dir_add(w) PROVE ShapeInv'
  BY <1>4, AddSearchShape
<1>5. ASSUME NEW d \in issued, track_search_complete_cb(d) PROVE ShapeInv'
  BY <1>5, CallbackShape
<1>6. ASSUME NEW t \in Threads, ItemStep(t) PROVE ShapeInv'
  BY <1>6, ItemStepShape
<1>7. CASE UNCHANGED treeVars
  BY <1>7, ShapeStutters
<1> QED BY <1>1, <1>2, <1>3, <1>4, <1>5, <1>6, <1>7 DEF Work

LEMMA ShapeInvariant ==
    ASSUME SanitizedStays, NoDots
    PROVE  Spec => [](NothingOverwritten => TreeInv /\ DirsInv /\ ShapeInv)
<1> DEFINE T == NothingOverwritten => TreeInv /\ DirsInv
           S == NothingOverwritten => ShapeInv
<1>1. Init => S
  BY ShapeInit
<1>2. T /\ S /\ [Next]_vars => S'
  BY ShapeAfter, Moves
<1>3. T /\ S => (NothingOverwritten => TreeInv /\ DirsInv /\ ShapeInv)
  OBVIOUS
<1> QED BY <1>1, <1>2, <1>3, DirsInvariant, PTL DEF Spec

-----------------------------------------------------------------------------
(* Following a link.                                                       *)

\* What the elements of the paths in question are among.
HasNames(S, r) ==
    Walkable(S) /\ {"browse", "search", Class[r], Uri[r], "track.wav"} \subseteq S

\* A home, element by element.
InBrowse(to, r) == to[1] = "browse" /\ to[2] = Class[r] /\ to[3] = Uri[r]

HomeIs(to, r, music) ==
    IF music THEN \/ Len(to) = 4 /\ InBrowse(to, r) /\ to[4] = "track.wav"
                  \/ Len(to) = 2 /\ to[1] = Uri[r] /\ to[2] = "track.wav"
             ELSE \/ Len(to) = 3 /\ InBrowse(to, r)
                  \/ Len(to) = 1 /\ to[1] = Uri[r]

LEMMA HomeElements ==
    ASSUME NEW r \in Resources, NEW music \in BOOLEAN,
           NEW to \in Homes(r, music), NEW S, HasNames(S, r)
    PROVE  to \in Seq(S) /\ HomeIs(to, r, music)
<1> DEFINE C == Class[r]
           U == Uri[r]
<1>1. "browse" \in S /\ C \in S /\ U \in S /\ "track.wav" \in S
  BY DEF HasNames
<1>2. Homes(r, music) = IF music THEN { <<"browse", C, U, "track.wav">>,
                                        <<U, "track.wav">> }
                        ELSE { <<"browse", C, U>>, <<U>> }
  BY DEF Homes
<1>3. HomeIs(to, r, music) <=>
          IF music
          THEN \/ /\ Len(to) = 4 /\ to[1] = "browse" /\ to[2] = C /\ to[3] = U
                  /\ to[4] = "track.wav"
               \/ Len(to) = 2 /\ to[1] = U /\ to[2] = "track.wav"
          ELSE \/ Len(to) = 3 /\ to[1] = "browse" /\ to[2] = C /\ to[3] = U
               \/ Len(to) = 1 /\ to[1] = U
  BY DEF HomeIs, InBrowse
<1> HIDE DEF C, U
<1>4. CASE to = <<"browse", C, U, "track.wav">> /\ music
  <2>1. /\ <<"browse", C, U, "track.wav">> \in Seq(S)
        /\ Len(<<"browse", C, U, "track.wav">>) = 4
        /\ <<"browse", C, U, "track.wav">>[1] = "browse"
        /\ <<"browse", C, U, "track.wav">>[2] = C
        /\ <<"browse", C, U, "track.wav">>[3] = U
        /\ <<"browse", C, U, "track.wav">>[4] = "track.wav"
    BY <1>1
  <2> QED BY <1>3, <1>4, <2>1, Zenon
<1>5. CASE to = <<U, "track.wav">> /\ music
  <2>1. /\ <<U, "track.wav">> \in Seq(S) /\ Len(<<U, "track.wav">>) = 2
        /\ <<U, "track.wav">>[1] = U /\ <<U, "track.wav">>[2] = "track.wav"
    BY <1>1
  <2> QED BY <1>3, <1>5, <2>1, Zenon
<1>6. CASE to = <<"browse", C, U>> /\ ~ music
  <2>1. /\ <<"browse", C, U>> \in Seq(S) /\ Len(<<"browse", C, U>>) = 3
        /\ <<"browse", C, U>>[1] = "browse" /\ <<"browse", C, U>>[2] = C
        /\ <<"browse", C, U>>[3] = U
    BY <1>1
  <2> QED BY <1>3, <1>6, <2>1, Zenon
<1>7. CASE to = <<U>> /\ ~ music
  <2>1. <<U>> \in Seq(S) /\ Len(<<U>>) = 1 /\ <<U>>[1] = U
    BY <1>1
  <2> QED BY <1>3, <1>7, <2>1, Zenon
<1> QED BY <1>2, <1>4, <1>5, <1>6, <1>7

\* The name of the root.
NoName == ""

\* Link strings and classes have names of their own.
LEMMA OwnNames ==
    ASSUME NEW r \in Resources
    PROVE  /\ Uri[r] \notin {"browse", "search", "playlists", "tracks", "artists",
                             "albums", "track.wav", "/", ".", ".."}
           /\ Uri[r] # NoName /\ "browse" # NoName /\ "track.wav" # NoName
           /\ Class[r] # NoName
           /\ Class[r] \in {"tracks", "artists", "albums"}
           /\ Class[r] # "browse" /\ Class[r] # "track.wav"
           /\ Plain(Uri[r]) /\ Plain(Class[r])
           /\ Plain("browse") /\ Plain("search") /\ Plain("track.wav")
<1>1. Class[r] \in {"tracks", "artists", "albums"}
  BY TreeAssumption
<1>2. Uri[r] # "" /\ Uri[r] \notin {"browse", "search", "playlists", "tracks",
                                    "artists", "albums", "track.wav", "/",
                                    ".", ".."}
  BY TreeAssumption, NameAssumption
<1>3. Class[r] # NoName /\ "browse" # NoName /\ "track.wav" # NoName
  BY <1>1, Zenon DEF NoName
<1>4. Uri[r] # NoName
  BY <1>2, Zenon DEF NoName
<1>5. Uri[r] \notin {"browse", "search", "playlists", "tracks", "artists",
                    "albums", "track.wav", "/", ".", ".."}
  BY <1>2, Zenon
<1>6. Plain(Uri[r])
  BY <1>5 DEF Plain
<1>7. Plain(Class[r]) /\ Plain("browse") /\ Plain("search") /\ Plain("track.wav")
  BY <1>1 DEF Plain
<1> QED BY <1>1, <1>3, <1>4, <1>5, <1>6, <1>7

LEMMA HomePlain ==
    ASSUME NEW r \in Resources, NEW music \in BOOLEAN, NEW to,
           HomeIs(to, r, music)
    PROVE  /\ Len(to) \in 1 .. 4 /\ \A i \in 1 .. Len(to) : Plain(to[i])
           /\ to[1] \in {"browse", Uri[r]}
           /\ to[1] = "browse" => to[2] = Class[r] /\ Len(to) >= 3
           /\ music => Len(to) >= 2
<1>1. Len(to) \in 1 .. 4
  BY DEF HomeIs
<1>2. \A i \in 1 .. Len(to) : i = 1 \/ i = 2 \/ i = 3 \/ i = 4
  <2>1. PICK n \in 1 .. 4 : n = Len(to)
    BY <1>1
  <2>2. \A i \in 1 .. n : i = 1 \/ i = 2 \/ i = 3 \/ i = 4
    OBVIOUS
  <2> QED BY <2>1, <2>2
<1>3. \A i \in 1 .. Len(to) : to[i] \in {"browse", Class[r], Uri[r], "track.wav"}
  BY <1>2 DEF HomeIs, InBrowse
<1>4. \A i \in 1 .. Len(to) : Plain(to[i])
  BY <1>3, OwnNames
<1>5. Uri[r] # "browse"
  BY OwnNames
<1> QED BY <1>1, <1>4, <1>5 DEF HomeIs, InBrowse

\* A link that leads to its own name leads to itself.
LEMMA OwnNameWalk ==
    ASSUME NEW S, NEW path \in Seq(S), NEW name \in S, Plain(name)
    PROVE  Walk(path, <<name>>) = Append(path, name)
<1>1. PICK t \in Seq(S) : t = <<name>> /\ Len(t) = 1 /\ t[1] = name
  <2>1. <<name>> \in Seq(S) /\ Len(<<name>>) = 1 /\ <<name>>[1] = name
    OBVIOUS
  <2> QED BY <2>1
<1>2. PICK f : Walk(path, t) = f[Len(t)] /\ Along(f, path, t)
  BY WalkIs
<1>3. 1 \in 1 .. Len(t) /\ 1 - 1 = 0
  BY <1>1
<1>4. f[0] = path /\ f[1] = Enter(f[0], t[1])
  BY <1>2, <1>3 DEF Along
<1>5. Enter(path, name) = Append(path, name)
  BY Zenon DEF Enter, Plain
<1> QED BY <1>1, <1>2, <1>4, <1>5

\* Where a directory of links is, once it is in the tree.
PlaceIs(path, d) ==
    LET ops == entity[d].ops IN
    /\ ops \in {"music", "meta"} => Len(path) = 3 /\ path[1] = "playlists"
    /\ ops \in {"artists", "albums"} =>
          /\ Len(path) = 4 /\ path[1] = "browse"
          /\ path[2] = Class[entity[d].res]
    /\ ops = "results" =>
          Len(path) = 2 /\ path[1] = "search" /\ path[2] = entity[d].name

Extends(t, s, x) ==
    /\ Sequence(t) /\ Len(t) = Len(s) + 1 /\ t[Len(s) + 1] = x
    /\ \A i \in 1 .. Len(s) : t[i] = s[i]

LEMMA PairIs ==
    ASSUME NEW a, NEW b PROVE LET s == <<a, b>> IN
           Sequence(s) /\ Len(s) = 2 /\ s[1] = a /\ s[2] = b
<1> DEFINE S == {a, b}
<1>1. a \in S /\ b \in S
  OBVIOUS
<1> HIDE DEF S
<1>2. <<a, b>> \in Seq(S) /\ Len(<<a, b>>) = 2
      /\ <<a, b>>[1] = a /\ <<a, b>>[2] = b
  BY <1>1
<1>3. Sequence(<<a, b>>)
  BY <1>2 DEF Sequence
<1> QED BY <1>2, <1>3

LEMMA AppendIs ==
    ASSUME NEW s, Sequence(s), NEW x, NEW t, t = Append(s, x)
    PROVE  Extends(t, s, x)
BY SequenceAppend DEF Extends

LEMMA LinkDirPlace ==
    ASSUME TreeOK, ShapeInv, NEW d \in Ids, Reachable(d),
           entity[d].ops \in LinkDirs
    PROVE  PlaceIs(spfs_entity_get_full_path(d), d)
<1> DEFINE P(e) == spfs_entity_get_full_path(e)
<1>1. d # Root
  <2>1. DirIs(entity[1], "", 0, "")
    BY Zenon DEF ShapeInv, BaseOK
  <2> QED BY <2>1 DEF DirIs, Root, LinkDirs
<1>2. PICK p \in Ids : p = entity[d].parent /\ Reachable(p) /\ p # None
  BY <1>1, ReachableIs DEF None, Ids
<1>3. P(d) = Append(P(p), entity[d].name)
  BY <1>1, <1>2, WaysUpHold DEF WaysUp
<1>4. OpsShape(entity[d])
  BY DEF ShapeInv, Shape
<1>5. BaseOK
  BY DEF ShapeInv
<1> HIDE DEF P
<1>6. CASE entity[d].ops \in {"music", "meta"}
  <2>1. p = 8 \/ p = 9
    BY <1>2, <1>4, <1>6 DEF OpsShape
  <2>2. PICK x : P(p) = <<"playlists", x>>
    BY <1>5, <2>1, BasePaths DEF P
  <2>3. PICK s : s = P(p) /\ Sequence(s) /\ Len(s) = 2 /\ s[1] = "playlists"
    BY <2>2, PairIs
  <2>4. PICK t : t = P(d) /\ t = Append(s, entity[d].name)
    BY <1>3, <2>3
  <2>5. 2 \in Nat /\ 3 = 2 + 1 /\ 1 \in 1 .. 2
    OBVIOUS
  <2>6. Extends(t, s, entity[d].name)
    BY <2>3, <2>4, AppendIs, Zenon
  <2>7. Len(t) = 3 /\ t[1] = "playlists"
    BY <2>3, <2>5, <2>6 DEF Extends
  <2> QED BY <1>6, <2>4, <2>6, <2>7 DEF PlaceIs, P
<1>7. CASE entity[d].ops \in {"artists", "albums"}
  <2>1. p > 9 /\ entity[p].kind = "dir" /\ entity[p].ops = ""
    BY <1>2, <1>4, <1>7 DEF OpsShape
  <2>2. IsBrowseDir(entity[p], p) /\ BrowseShape(entity[p], p)
    BY <2>1 DEF IsBrowseDir, ShapeInv, Shape
  <2>3. PICK r \in Resources : r = entity[p].res
    BY <2>2 DEF BrowseShape
  <2>4. entity[d].res = r
    BY <1>2, <2>1, <2>3 DEF ShapeInv, Shape, EntryShape
  <2>5. p # Root
    <3>1. ~ (1 > 9)
      OBVIOUS
    <3> QED BY <2>1, <3>1 DEF Root
  <2>6. entity[p].parent \in Ids /\ entity[p].parent # None
    BY <1>2, <2>5, ReachableIs DEF None, Ids
  <2>7. PICK b \in Ids : b = entity[p].parent /\ b = BrowseDir[Class[r]]
    BY <2>2, <2>3, <2>6 DEF BrowseShape
  <2>8. P(p) = Append(P(b), entity[p].name)
    BY <2>5, <2>7, WaysUpHold DEF WaysUp, P
  <2>9. P(b) = <<"browse", Class[r]>>
    BY <1>5, <2>7, ClassPath DEF P
  <2>10. PICK s : /\ s = P(b) /\ Sequence(s) /\ Len(s) = 2
                  /\ s[1] = "browse" /\ s[2] = Class[r]
    BY <2>9, PairIs
  <2>11. PICK t : t = P(p) /\ t = Append(s, entity[p].name)
    BY <2>8, <2>10
  <2>12. /\ 2 \in Nat /\ 3 = 2 + 1 /\ 1 \in 1 .. 2 /\ 2 \in 1 .. 2
         /\ 3 \in Nat /\ 4 = 3 + 1 /\ 1 \in 1 .. 3 /\ 2 \in 1 .. 3
    OBVIOUS
  <2>13. Sequence(t) /\ Len(t) = 3 /\ t[1] = "browse" /\ t[2] = Class[r]
    <3>1. Extends(t, s, entity[p].name)
      BY <2>10, <2>11, AppendIs, Zenon
    <3> QED BY <2>10, <2>12, <3>1 DEF Extends
  <2>14. PICK u : u = P(d) /\ u = Append(t, entity[d].name)
    BY <1>3, <2>11
  <2>15. Len(u) = 4 /\ u[1] = "browse" /\ u[2] = Class[r]
    <3>1. Extends(u, t, entity[d].name)
      BY <2>13, <2>14, AppendIs, Zenon
    <3> QED BY <2>12, <2>13, <3>1 DEF Extends
  <2> QED BY <1>7, <2>4, <2>14, <2>15 DEF PlaceIs, P
<1>8. CASE entity[d].ops = "results"
  <2>1. p = 6
    BY <1>2, <1>4, <1>8 DEF OpsShape, SearchDir
  <2>2. P(p) = <<"search">>
    BY <1>5, <2>1, BasePaths DEF P
  <2>3. PICK s : s = P(p) /\ Sequence(s) /\ Len(s) = 1 /\ s[1] = "search"
    BY <2>2, SequenceOne
  <2>4. PICK t : t = P(d) /\ t = Append(s, entity[d].name)
    BY <1>3, <2>3
  <2>5. 1 \in Nat /\ 2 = 1 + 1 /\ 1 \in 1 .. 1
    OBVIOUS
  <2>6. Extends(t, s, entity[d].name)
    BY <2>3, <2>4, AppendIs, Zenon
  <2>7. Len(t) = 2 /\ t[1] = "search" /\ t[2] = entity[d].name
    BY <2>3, <2>5, <2>6 DEF Extends
  <2> QED BY <1>8, <2>4, <2>6, <2>7 DEF PlaceIs, P
<1> QED BY <1>6, <1>7, <1>8 DEF LinkDirs

\* What matters of a home here.
HomePath(to, r) ==
    /\ Len(to) \in 1 .. 4 /\ \A i \in 1 .. Len(to) : Plain(to[i])
    /\ to[1] \in {"browse", Uri[r]}
    /\ to[1] = "browse" => to[2] = Class[r] /\ Len(to) >= 3

\* Parts are in another directory under /browse than what they are parts of.
Apart(d, r) ==
    entity[d].ops \in {"artists", "albums"} => Class[r] # Class[entity[d].res]

LeavesHome(d) == entity[d].ops \in LinkDirs /\ entity[d].ops # "results"

\* Links in directories other than those of results lead home.
LEMMA WalkHome ==
    ASSUME NEW d, LeavesHome(d), NEW r \in Resources, Apart(d, r),
           NEW S, Walkable(S), NEW P \in Seq(S), PlaceIs(P, d),
           NEW to \in Seq(S), HomePath(to, r)
    PROVE  Walk(P, spfs_path_get_relative_path(P, to)) = to
<1>1. /\ Len(to) \in 1 .. 4 /\ \A i \in 1 .. Len(to) : Plain(to[i])
      /\ to[1] \in {"browse", Uri[r]}
      /\ to[1] = "browse" => to[2] = Class[r] /\ Len(to) >= 3
  BY DEF HomePath
<1>2. Uri[r] # "playlists" /\ Uri[r] # "browse"
  BY OwnNames
<1>3. CASE P[1] # to[1] /\ Len(P) >= 1
  <2>1. Common(P, to, 0)
    BY <1>1, <1>3 DEF Common
  <2>2. 0 \in Nat /\ 0 < Len(P)
    BY <1>3
  <2> QED BY <1>1, <2>1, <2>2, LeadsOver
<1>4. CASE P[1] = to[1] /\ entity[d].ops \in {"artists", "albums"}
  <2>1. Len(P) = 4 /\ P[1] = "browse" /\ P[2] = Class[entity[d].res]
    BY <1>4 DEF PlaceIs
  <2>2. to[2] = Class[r] /\ Len(to) >= 3
    BY <1>1, <1>4, <2>1
  <2>6. P[2] # to[2]
    BY <1>4, <2>1, <2>2, Zenon DEF Apart
  <2>7. \A i \in 1 .. 1 : i = 1
    OBVIOUS
  <2>8. \A i \in 1 .. 1 : P[i] = to[i]
    BY <1>4, <2>7
  <2>3. P[2] # to[2] /\ \A i \in 1 .. 1 : P[i] = to[i]
    BY <2>6, <2>8
  <2>4. Common(P, to, 1)
    BY <1>1, <2>1, <2>2, <2>3 DEF Common
  <2>5. 1 \in Nat /\ 1 < Len(P) /\ 1 < Len(to)
    BY <1>1, <2>1, <2>2
  <2> QED BY <1>1, <2>4, <2>5, LeadsOver
<1>5. CASE entity[d].ops \in {"music", "meta"}
  <2>1. Len(P) = 3 /\ P[1] = "playlists"
    BY <1>5 DEF PlaceIs
  <2>2. P[1] # to[1]
    BY <1>1, <1>2, <2>1
  <2> QED BY <1>3, <2>1, <2>2
<1>6. Len(P) >= 1
  BY DEF PlaceIs, LinkDirs, LeavesHome
<1> QED BY <1>3, <1>4, <1>5, <1>6 DEF LinkDirs, LeavesHome

\* A new first element, or none.
IsBelow(w, to, name) ==
    /\ Len(w) = Len(to) + 1 /\ w[1] = name
    /\ \A i \in 1 .. Len(to) : w[1 + i] = to[i]

IsRest(w, to) ==
    Len(w) = Len(to) - 1 /\ \A i \in 1 .. Len(to) - 1 : w[i] = to[1 + i]

LEMMA BelowExists ==
    ASSUME NEW S, NEW to \in Seq(S), NEW name \in S
    PROVE  \E w \in Seq(S) : IsBelow(w, to, name)
<1>1. PICK s \in Seq(S) : s = <<name>> /\ Len(s) = 1 /\ s[1] = name
  <2>1. <<name>> \in Seq(S) /\ Len(<<name>>) = 1 /\ <<name>>[1] = name
    OBVIOUS
  <2> QED BY <2>1
<1>2. /\ s \o to \in Seq(S) /\ Len(s \o to) = Len(s) + Len(to)
      /\ \A i \in 1 .. Len(s) + Len(to) :
            (s \o to)[i] = IF i <= Len(s) THEN s[i] ELSE to[i - Len(s)]
  BY ConcatProperties
<1>3. PICK w \in Seq(S) : w = s \o to
  BY <1>2
<1>4. Len(to) \in Nat /\ Len(w) = 1 + Len(to)
  BY <1>1, <1>2, <1>3
<1>5. \A i \in 1 .. 1 + Len(to) : w[i] = IF i <= 1 THEN s[i] ELSE to[i - 1]
  BY <1>1, <1>2, <1>3
<1>6. w[1] = name
  <2>1. 1 \in 1 .. 1 + Len(to) /\ 1 <= 1
    BY <1>4
  <2> QED BY <1>1, <1>5, <2>1
<1>7. ASSUME NEW i \in 1 .. Len(to) PROVE w[1 + i] = to[i]
  <2>1. 1 + i \in 1 .. 1 + Len(to) /\ ~ (1 + i <= 1) /\ 1 + i - 1 = i
    BY <1>4
  <2> QED BY <1>5, <2>1
<1> QED BY <1>4, <1>6, <1>7 DEF IsBelow

LEMMA RestExists ==
    ASSUME NEW S, NEW to \in Seq(S), Len(to) >= 1
    PROVE  \E w \in Seq(S) : IsRest(w, to)
<1>1. \A i \in 2 .. Len(to) : to[i] \in S
  BY ElementOfSeq
<1>2. /\ SubSeq(to, 2, Len(to)) \in Seq(S)
      /\ Len(SubSeq(to, 2, Len(to))) = IF 2 <= Len(to) THEN Len(to) - 2 + 1 ELSE 0
      /\ \A i \in 1 .. Len(to) - 2 + 1 : SubSeq(to, 2, Len(to))[i] = to[2 + i - 1]
  BY <1>1, SubSeqProperties
<1>3. PICK w \in Seq(S) : w = SubSeq(to, 2, Len(to))
  BY <1>2
<1>4. Len(w) = Len(to) - 1
  <2>1. PICK m \in Nat : m = Len(to) /\ m >= 1
    OBVIOUS
  <2>2. Len(w) = IF 2 <= m THEN m - 2 + 1 ELSE 0
    BY <1>2, <1>3, <2>1
  <2>3. (IF 2 <= m THEN m - 2 + 1 ELSE 0) = m - 1
    BY <2>1
  <2> QED BY <2>1, <2>2, <2>3
<1>5. ASSUME NEW i \in 1 .. Len(to) - 1 PROVE w[i] = to[1 + i]
  <2>1. i \in 1 .. Len(to) - 2 + 1 /\ 2 + i - 1 = 1 + i
    OBVIOUS
  <2> QED BY <1>2, <1>3, <2>1
<1> QED BY <1>4, <1>5 DEF IsRest

\* From a directory of results that was not in the tree yet, and is at P now.
FromResults(P, from) ==
    /\ Len(P) = 2 /\ P[1] = "search"
    /\ Len(from) = 1 /\ from[1] = P[2]

Astray(w, to) == IsBelow(w, to, "search") \/ IsRest(w, to)

\* A target that was made when the directory of results was not in the tree
\* yet leads one directory astray.
LEMMA WalkFromResults ==
    ASSUME NEW r \in Resources, NEW S, Walkable(S), "search" \in S,
           NEW P \in Seq(S), NEW from \in Seq(S), FromResults(P, from),
           NEW to \in Seq(S), HomeIs(to, r, TRUE)
    PROVE  Astray(Walk(P, spfs_path_get_relative_path(from, to)), to)
<1>6. /\ Len(P) = 2 /\ P[1] = "search"
      /\ Len(from) = 1 /\ from[1] = P[2]
  BY DEF FromResults
<1>1. /\ Len(to) \in 2 .. 4 /\ \A i \in 1 .. Len(to) : Plain(to[i])
  <2>1. PICK music \in BOOLEAN : music
    OBVIOUS
  <2>2. HomeIs(to, r, music)
    BY <2>1
  <2>3. /\ Len(to) \in 1 .. 4 /\ \A i \in 1 .. Len(to) : Plain(to[i])
        /\ Len(to) >= 2
    BY <2>1, <2>2, HomePlain
  <2> QED BY <2>3
<1>5. Len(to) >= 2 /\ Len(to) >= 1 /\ Len(to) \in Nat
  <2>1. PICK m \in 2 .. 4 : m = Len(to)
    BY <1>1
  <2>2. m >= 2 /\ m >= 1 /\ m \in Nat
    OBVIOUS
  <2> QED BY <2>1, <2>2
<1>2. from # <<>> /\ from # to
  <2>1. PICK m : m = Len(to)
    OBVIOUS
  <2>2. m >= 2 /\ ~ (1 >= 2) /\ 1 # 0
    BY <1>5, <2>1
  <2>3. Len(from) # 0 /\ Len(from) # Len(to)
    BY <1>6, <2>1, <2>2
  <2> QED BY <2>3, EmptySeq
<1>3. CASE from[1] # to[1]
  <2>1. Common(from, to, 0)
    BY <1>1, <1>3, <1>6 DEF Common
  <2>2. 0 \in Nat /\ 0 < Len(from)
    BY <1>6
  <2>3. PICK t \in Seq(S), n \in 1 .. Len(from) :
            /\ t = spfs_path_get_relative_path(from, to)
            /\ UpAndDown(t, n, to, 0)
    <3>1. /\ spfs_path_get_relative_path(from, to) \in Seq(S)
          /\ Ups(from, to, 0) \in 1 .. Len(from)
          /\ UpAndDown(spfs_path_get_relative_path(from, to),
                       Ups(from, to, 0), to, 0)
      BY <2>1, <2>2, RelativeUp, Zenon
    <3> QED BY <3>1, Zenon
  <2>4. n = 1 /\ Len(t) = n + Len(to)
    <3>1. n = 1 /\ Len(to) \in Nat
      BY <1>5, <1>6
    <3>2. Len(t) = n + (Len(to) - 0)
      BY <2>3, Zenon DEF UpAndDown
    <3> QED BY <3>1, <3>2
  <2>5. /\ \A k \in 1 .. n : t[k] = ".."
        /\ \A i \in 1 .. Len(to) : t[1 + i] = to[i]
    <3>1. /\ \A k \in 1 .. n : t[k] = ".."
          /\ \A i \in 1 .. Len(to) - 0 : t[n + i] = to[0 + i]
      BY <2>3 DEF UpAndDown
    <3> QED BY <1>1, <2>4, <3>1
  <2>6. PICK f : Walk(P, t) = f[Len(t)] /\ Along(f, P, t)
    BY WalkIs
  <2>7. f[1] = SubSeq(P, 1, 1)
    <3>1. n \in Nat /\ n <= Len(t) /\ n <= Len(P) /\ Len(P) - n = 1
      BY <1>5, <1>6, <2>4
    <3>2. \A k \in 1 .. n : t[k] = ".."
      BY <2>5
    <3>3. Along(f, P, t)
      BY <2>6
    <3>4. f[n] = SubSeq(P, 1, Len(P) - n)
      BY <3>1, <3>2, <3>3, WalkUp, Zenon
    <3> QED BY <2>4, <3>1, <3>4
  <2>8. PICK w \in Seq(S) : IsBelow(w, to, "search")
    BY BelowExists
  <2>9. Len(w) = Len(to) + 1 /\ w[1] = "search"
        /\ \A i \in 1 .. Len(to) : w[1 + i] = to[i]
    BY <2>8 DEF IsBelow
  <2>10. SubSeq(P, 1, 1) = SubSeq(w, 1, 1)
    <3>1. \A i \in 1 .. 1 : P[i] \in S /\ P[i] = w[i]
      <4>1. \A i \in 1 .. 1 : i = 1
        OBVIOUS
      <4> QED BY <1>6, <2>9, <4>1
    <3>2. 1 \in Int
      OBVIOUS
    <3> QED BY <3>1, <3>2, SubSeqSame
  <2>11. f[Len(t)] = w
    <3>1. /\ 1 \in Nat /\ 1 <= Len(t) /\ 1 <= Len(w)
          /\ Len(t) - 1 = Len(w) - 1 /\ Len(w) - 1 = Len(to)
      BY <1>1, <2>4, <2>9
    <3>2. \A i \in 1 .. Len(w) - 1 : t[1 + i] = w[1 + i] /\ Plain(w[1 + i])
      BY <1>1, <2>5, <2>9, <3>1
    <3>3. f[1] = SubSeq(w, 1, 1)
      BY <2>7, <2>10
    <3> QED BY <2>6, <3>1, <3>2, <3>3, WalkOn
  <2> QED BY <2>3, <2>6, <2>8, <2>11 DEF Astray
<1>4. CASE from[1] = to[1]
  <2>1. Common(from, to, Len(from))
    <3>1. \A i \in 1 .. 1 : i = 1
      OBVIOUS
    <3>2. \A i \in 1 .. 1 : from[i] = to[i]
      BY <1>4, <3>1
    <3> QED BY <1>1, <1>6, <3>2 DEF Common
  <2>2. PICK t \in Seq(S) :
            /\ t = spfs_path_get_relative_path(from, to)
            /\ Len(t) = Len(to) - 1 + 1 /\ t[1] = "/"
            /\ \A i \in 1 .. Len(to) - 1 : t[1 + i] = to[1 + i]
    <3>1. PICK t : t = spfs_path_get_relative_path(from, to)
      OBVIOUS
    <3>2. /\ t \in Seq(S) /\ Len(t) = Len(to) - Len(from) + 1 /\ t[1] = "/"
          /\ \A i \in 1 .. Len(to) - Len(from) : t[1 + i] = to[Len(from) + i]
      BY <1>2, <2>1, <3>1, RelativeDown
    <3> QED BY <1>6, <3>1, <3>2
  <2>3. PICK f : Walk(P, t) = f[Len(t)] /\ Along(f, P, t)
    BY WalkIs
  <2>4. f[1] = <<>>
    <3>1. 1 \in 1 .. Len(t) /\ 1 - 1 = 0
      BY <1>1, <2>2
    <3>2. f[1] = Enter(f[0], t[1])
      BY <2>3, <3>1 DEF Along
    <3> QED BY <2>2, <3>2 DEF Enter
  <2>5. PICK w \in Seq(S) : IsRest(w, to)
    BY <1>5, RestExists
  <2>6. Len(w) = Len(to) - 1 /\ \A i \in 1 .. Len(to) - 1 : w[i] = to[1 + i]
    BY <2>5 DEF IsRest
  <2>7. f[Len(t)] = w
    <3>1. /\ 1 \in Nat /\ 0 \in Nat /\ 1 <= Len(t) /\ 0 <= Len(w)
          /\ Len(t) - 1 = Len(w) - 0 /\ Len(w) - 0 = Len(to) - 1
      BY <1>1, <2>2, <2>6
    <3>2. \A i \in 1 .. Len(w) - 0 : t[1 + i] = w[0 + i] /\ Plain(w[0 + i])
      <4> SUFFICES ASSUME NEW i \in 1 .. Len(to) - 1
                   PROVE  t[1 + i] = w[0 + i] /\ Plain(w[0 + i])
        BY <3>1
      <4>1. 0 + i = i /\ 1 + i \in 1 .. Len(to)
        BY <1>1
      <4> QED BY <1>1, <2>2, <2>6, <4>1
    <3>3. f[1] = SubSeq(w, 1, 0)
      <4>1. SubSeq(w, 1, 0) = <<>>
        BY SubSeqEmpty
      <4> QED BY <2>4, <4>1
    <3> QED BY <2>3, <3>1, <3>2, <3>3, WalkOn
  <2> QED BY <2>2, <2>3, <2>5, <2>7 DEF Astray
<1> QED BY <1>3, <1>4

-----------------------------------------------------------------------------
(* What is there.                                                          *)

LEMMA FirstNine ==
    ASSUME NEW e \in 1 .. 9
    PROVE  \/ e = 1 \/ e = 2 \/ e = 3 \/ e = 4 \/ e = 5
           \/ e = 6 \/ e = 7 \/ e = 8 \/ e = 9
OBVIOUS

\* One element further down.
LEMMA StepDown ==
    ASSUME TreeOK, NEW path, NEW k, NEW e \in Ids, entity[e].kind = "dir",
           path[k] # entity[e].name
    PROVE  NextOnPath(e, path, k) = Child(e, path[k])
<1>1. e # None
  BY DEF None, Ids
<1> QED BY <1>1 DEF NextOnPath

LEMMA NoStep ==
    ASSUME NEW path, NEW k PROVE NextOnPath(None, path, k) = None
BY DEF NextOnPath

\* The root has the entries it got first.
LEMMA RootEntry ==
    ASSUME TreeOK, ShapeInv, NEW n, n \notin {"browse", "search", "playlists"}
    PROVE  Child(Root, n) = None
<1> SUFFICES ASSUME Child(Root, n) # None PROVE FALSE
  OBVIOUS
<1>1. PICK c \in Ids : entity[c].parent = 1 /\ entity[c].name = n
  BY ChildEntry DEF Root
<1>2. PICK x : x = entity[c]
  OBVIOUS
<1>3. EntryShape(x, c)
  BY <1>2 DEF ShapeInv, Shape
<1>4. c <= 9
  BY <1>1, <1>2, <1>3, Zenon DEF EntryShape
<1>5. c \in 1 .. 9
  BY <1>4, AboveFacts
<1>6. /\ DirIs(entity[1], "", 0, "")
      /\ DirIs(entity[2], "browse", 1, "")
      /\ DirIs(entity[3], "tracks", 2, "")
      /\ DirIs(entity[4], "artists", 2, "")
      /\ DirIs(entity[5], "albums", 2, "")
      /\ DirIs(entity[6], "search", 1, "search")
      /\ DirIs(entity[7], "playlists", 1, "")
      /\ DirIs(entity[8], "meta", 7, "meta_lists")
      /\ DirIs(entity[9], "music", 7, "music_lists")
  BY Zenon DEF ShapeInv, BaseOK
<1>7. c = 2 \/ c = 6 \/ c = 7
  <2>1. /\ entity[1].parent = 0 /\ entity[3].parent = 2
        /\ entity[4].parent = 2 /\ entity[5].parent = 2
        /\ entity[8].parent = 7 /\ entity[9].parent = 7
    BY <1>6 DEF DirIs
  <2> QED BY <1>1, <1>5, <2>1, FirstNine
<1> QED BY <1>1, <1>6, <1>7 DEF DirIs

\* ... and these are there.
LEMMA BaseFound ==
    ASSUME TreeInv, ShapeInv
    PROVE  /\ Child(1, "browse") = 2 /\ Child(1, "search") = 6
           /\ \A r \in Resources : Child(2, Class[r]) = BrowseDir[Class[r]]
<1>1. TreeOK /\ UniqueNames /\ \A e \in 1 .. 9 : e \in Ids
  BY AboveFacts DEF TreeInv, TreeOK, Ids
<1>2. /\ DirIs(entity[2], "browse", 1, "")
      /\ DirIs(entity[3], "tracks", 2, "")
      /\ DirIs(entity[4], "artists", 2, "")
      /\ DirIs(entity[5], "albums", 2, "")
      /\ DirIs(entity[6], "search", 1, "search")
  BY Zenon DEF ShapeInv, BaseOK
<1>3. ASSUME NEW e \in 1 .. 9, NEW name, NEW parent \in 1 .. 9, NEW ops,
             DirIs(entity[e], name, parent, ops)
      PROVE  Child(parent, name) = e
  <2>1. e \in Ids /\ entity[e].parent = parent /\ entity[e].name = name
    BY <1>1, <1>3 DEF DirIs
  <2>2. entity[e].parent # None
    BY <2>1 DEF None
  <2> QED BY <1>1, <2>1, <2>2, ChildIs
<1>4. /\ Child(1, "browse") = 2 /\ Child(2, "tracks") = 3
      /\ Child(2, "artists") = 4 /\ Child(2, "albums") = 5
      /\ Child(1, "search") = 6
  <2>1. /\ 1 \in 1 .. 9 /\ 2 \in 1 .. 9 /\ 3 \in 1 .. 9 /\ 4 \in 1 .. 9
        /\ 5 \in 1 .. 9 /\ 6 \in 1 .. 9
    OBVIOUS
  <2> QED BY <1>2, <1>3, <2>1
<1>5. ASSUME NEW r \in Resources PROVE Child(2, Class[r]) = BrowseDir[Class[r]]
  <2>1. Class[r] \in {"tracks", "artists", "albums"}
    BY TreeAssumption
  <2> QED BY <1>4, <2>1 DEF BrowseDir
<1> QED BY <1>4, <1>5

\* The way down a path: the entities found, one by one.
Found(f, path) ==
    /\ f[0] = Root
    /\ \A k \in 1 .. Len(path) : f[k] = NextOnPath(f[k - 1], path, k)

LEMMA FoundExists ==
    ASSUME TreeOK, NEW path, NEW n \in Nat, Len(path) = n
    PROVE  \E f : spfs_entity_find_path(path) = f[n] /\ Found(f, path)
<1>1. PICK from \in {None} \cup Ids : from = Root
  <2>1. Len(entity) \in Nat /\ Len(entity) >= 9
    BY AboveFacts DEF TreeOK
  <2>2. 1 \in 1 .. Len(entity)
    BY <2>1
  <2> QED BY <2>2 DEF Root, Ids
<1>2. Len(path) \in Nat
  OBVIOUS
<1>3. PICK f : /\ FindPathFrom(from, path) = f[Len(path)] /\ f[0] = from
               /\ \A k \in 1 .. Len(path) : f[k] = NextOnPath(f[k - 1], path, k)
  BY <1>2, FindPathIs
<1> QED BY <1>1, <1>3 DEF Found, spfs_entity_find_path

\* The directories of spfs_init have these names.
LEMMA BaseDirs ==
    ASSUME TreeOK, ShapeInv
    PROVE  /\ \A e \in 1 .. 9 : e \in Ids /\ entity[e].kind = "dir"
           /\ entity[1].name = NoName /\ entity[2].name = "browse"
           /\ entity[6].name = "search"
           /\ \A b \in {3, 4, 5} :
                 b \in 1 .. 9 /\ entity[b].name \in {"tracks", "artists", "albums"}
<1>1. /\ DirIs(entity[1], "", 0, "")
      /\ DirIs(entity[2], "browse", 1, "")
      /\ DirIs(entity[3], "tracks", 2, "")
      /\ DirIs(entity[4], "artists", 2, "")
      /\ DirIs(entity[5], "albums", 2, "")
      /\ DirIs(entity[6], "search", 1, "search")
      /\ DirIs(entity[7], "playlists", 1, "")
      /\ DirIs(entity[8], "meta", 7, "meta_lists")
      /\ DirIs(entity[9], "music", 7, "music_lists")
  BY Zenon DEF ShapeInv, BaseOK
<1>2. /\ entity[1].kind = "dir" /\ entity[2].kind = "dir"
      /\ entity[3].kind = "dir" /\ entity[4].kind = "dir"
      /\ entity[5].kind = "dir" /\ entity[6].kind = "dir"
      /\ entity[7].kind = "dir" /\ entity[8].kind = "dir"
      /\ entity[9].kind = "dir"
  BY <1>1, Zenon DEF DirIs
<1>3. ASSUME NEW e \in 1 .. 9 PROVE entity[e].kind = "dir"
  BY <1>2, FirstNine
<1>4. ASSUME NEW e \in 1 .. 9 PROVE e \in Ids
  BY AboveFacts DEF TreeOK
<1>5. /\ entity[1].name = NoName /\ entity[2].name = "browse"
      /\ entity[6].name = "search" /\ entity[3].name = "tracks"
      /\ entity[4].name = "artists" /\ entity[5].name = "albums"
  BY <1>1, Zenon DEF DirIs, NoName
<1>6. ASSUME NEW b \in {3, 4, 5}
      PROVE  b \in 1 .. 9 /\ entity[b].name \in {"tracks", "artists", "albums"}
  <2>1. CASE b = 3
    BY <1>5, <2>1
  <2>2. CASE b = 4
    BY <1>5, <2>2
  <2>3. CASE b = 5
    BY <1>5, <2>3
  <2> QED BY <2>1, <2>2, <2>3
<1> QED BY <1>3, <1>4, <1>5, <1>6

\* The first element of a path.
LEMMA FirstFound ==
    ASSUME TreeOK, ShapeInv, NEW path, NEW f, Found(f, path),
           NEW n \in Nat, Len(path) = n, n >= 1,
           NEW name, path[1] = name, name # NoName
    PROVE  f[1] = Child(1, name)
<1>1. 1 \in 1 .. Len(path) /\ 1 - 1 = 0
  <2>1. 1 \in 1 .. n /\ 1 - 1 = 0
    OBVIOUS
  <2> QED BY <2>1
<1>2. f[1] = NextOnPath(Root, path, 1)
  BY <1>1 DEF Found
<1>3. 1 \in 1 .. 9
  OBVIOUS
<1>4. Root \in Ids /\ entity[Root].kind = "dir" /\ path[1] # entity[Root].name
  BY <1>3, BaseDirs DEF Root
<1>5. NextOnPath(Root, path, 1) = Child(Root, name)
  BY <1>4, StepDown
<1> QED BY <1>2, <1>5 DEF Root

\* Once nothing is found, nothing is.
LEMMA NothingFurther ==
    ASSUME NEW path, NEW f, Found(f, path), NEW n \in Nat, Len(path) = n,
           NEW k \in 1 .. n, f[k] = None
    PROVE  f[n] = None
<1> DEFINE T == {i \in Nat : k <= i /\ i <= n => f[i] = None}
<1>1. 0 \in T
  <2>1. ~ (k <= 0)
    OBVIOUS
  <2> QED BY <2>1
<1>2. ASSUME NEW i \in Nat, i \in T PROVE i + 1 \in T
  <2> SUFFICES ASSUME k <= i + 1, i + 1 <= n PROVE f[i + 1] = None
    OBVIOUS
  <2>1. CASE k = i + 1
    BY <2>1
  <2>2. CASE k <= i
    <3>1. f[i] = None
      BY <1>2, <2>2
    <3>2. i + 1 \in 1 .. Len(path) /\ i + 1 - 1 = i
      BY <2>2
    <3>3. f[i + 1] = NextOnPath(f[i], path, i + 1)
      BY <3>2 DEF Found
    <3> QED BY <3>1, <3>3, NoStep
  <2> QED BY <2>1, <2>2
<1> HIDE DEF T
<1>3. n \in T
  BY <1>1, <1>2, SetInduction
<1> QED BY <1>3 DEF T

\* A home is where the resource is, or nothing is there.
IsHome(a, r, music) ==
    /\ a \in Ids /\ entity[a].res = r
    /\ entity[a].kind = IF music THEN "file" ELSE "dir"

LEMMA HomeFound ==
    ASSUME TreeInv, ShapeInv, NEW r \in Resources, NEW music \in BOOLEAN,
           NEW to, HomeIs(to, r, music)
    PROVE  \/ spfs_entity_find_path(to) = None
           \/ IsHome(spfs_entity_find_path(to), r, music)
<1>1. /\ Uri[r] \notin {"browse", "search", "playlists", "tracks", "artists",
                        "albums", "track.wav", "/", ".", ".."}
      /\ Uri[r] # NoName
      /\ Class[r] \in {"tracks", "artists", "albums"}
      /\ Class[r] # "browse" /\ Class[r] # "track.wav"
  BY OwnNames
<1>2. TreeOK /\ UniqueNames
  BY DEF TreeInv
<1>3. Len(to) \in 1 .. 4 /\ to[1] \in {"browse", Uri[r]}
  BY HomePlain
<1>4. PICK n \in 1 .. 4 : n = Len(to)
  BY <1>3
<1>5. n \in Nat /\ n >= 1
  OBVIOUS
<1>6. PICK f : spfs_entity_find_path(to) = f[n] /\ Found(f, to)
  BY <1>2, <1>4, <1>5, FoundExists
<1>7. to[1] # NoName
  BY <1>1, <1>3, OwnNames
<1>8. f[1] = Child(1, to[1])
  BY <1>2, <1>4, <1>5, <1>6, <1>7, FirstFound
<1>9. CASE to[1] = Uri[r]
  <2>1. f[1] = None
    BY <1>1, <1>2, <1>8, <1>9, RootEntry DEF Root
  <2>2. 1 \in 1 .. n
    OBVIOUS
  <2>3. f[n] = None
    BY <1>4, <1>5, <1>6, <2>1, <2>2, NothingFurther
  <2> QED BY <1>6, <2>3
<1>10. CASE to[1] = "browse"
  <2>1. /\ n = (IF music THEN 4 ELSE 3) /\ to[2] = Class[r] /\ to[3] = Uri[r]
        /\ music => to[4] = "track.wav"
    BY <1>1, <1>4, <1>10 DEF HomeIs, InBrowse
  <2>2. f[1] = 2
    BY <1>8, <1>10, BaseFound
  <2>3. 2 \in 1 .. 9
    OBVIOUS
  <2>4. 2 \in Ids /\ entity[2].kind = "dir" /\ entity[2].name = "browse"
    BY <1>2, <2>3, BaseDirs
  <2>5. PICK b \in {3, 4, 5} : b = BrowseDir[Class[r]]
    BY BrowsePlace
  <2>6. /\ b \in Ids /\ entity[b].kind = "dir"
        /\ entity[b].name \in {"tracks", "artists", "albums"}
    BY <1>2, BaseDirs
  <2>7. /\ 2 \in 1 .. n /\ 3 \in 1 .. n /\ 2 - 1 = 1 /\ 3 - 1 = 2 /\ 4 - 1 = 3
        /\ music => 4 \in 1 .. n
    BY <2>1
  <2>8. f[2] = b
    <3>1. f[2] = NextOnPath(2, to, 2)
      BY <1>4, <1>6, <2>2, <2>7 DEF Found
    <3>2. 2 \in Ids /\ entity[2].kind = "dir" /\ to[2] # entity[2].name
      BY <1>1, <2>1, <2>4
    <3>3. NextOnPath(2, to, 2) = Child(2, to[2])
      BY <1>2, <3>2, StepDown
    <3>4. Child(2, Class[r]) = BrowseDir[Class[r]]
      BY BaseFound
    <3> QED BY <2>1, <2>5, <3>1, <3>3, <3>4
  <2>9. f[3] = Child(b, Uri[r])
    <3>1. f[3] = NextOnPath(b, to, 3)
      BY <1>4, <1>6, <2>7, <2>8 DEF Found
    <3>2. to[3] # entity[b].name
      BY <1>1, <2>1, <2>6
    <3>3. NextOnPath(b, to, 3) = Child(b, to[3])
      BY <1>2, <2>6, <3>2, StepDown
    <3> QED BY <2>1, <3>1, <3>3
  <2>10. CASE f[3] = None
    <3>1. f[n] = None
      BY <1>4, <1>5, <1>6, <2>7, <2>10, NothingFurther
    <3> QED BY <1>6, <3>1
  <2>11. CASE f[3] # None
    <3>1. PICK e \in Ids : /\ e = f[3] /\ IsBrowseDir(entity[e], e)
                           /\ entity[e].res = r
      BY <1>2, <2>9, <2>11, BrowseEntry
    <3>2. CASE ~ music
      <4>1. spfs_entity_find_path(to) = e
        BY <1>6, <2>1, <3>1, <3>2
      <4>2. IsHome(e, r, music)
        BY <3>1, <3>2 DEF IsHome, IsBrowseDir
      <4> QED BY <4>1, <4>2
    <3>3. CASE music
      <4>1. f[4] = NextOnPath(e, to, 4)
        BY <1>4, <1>6, <2>7, <3>1, <3>3 DEF Found
      <4>2. entity[e].kind = "dir" /\ entity[e].name = Uri[r] /\ e > 9
            /\ entity[e].ops = ""
        BY <3>1 DEF ShapeInv, Shape, BrowseShape, IsBrowseDir
      <4>3. to[4] # entity[e].name
        BY <1>1, <2>1, <3>3, <4>2
      <4>4. f[4] = Child(e, "track.wav")
        BY <1>2, <2>1, <3>3, <4>1, <4>2, <4>3, StepDown
      <4>5. spfs_entity_find_path(to) = f[4]
        BY <1>6, <2>1, <3>3
      <4>6. CASE f[4] = None
        BY <4>5, <4>6
      <4>7. CASE f[4] # None
        <5>1. PICK a \in Ids : /\ a = f[4] /\ entity[a].parent = e
                               /\ entity[a].name = "track.wav"
          BY <1>2, <4>4, <4>7, ChildEntry
        <5>2. PICK x : x = entity[a]
          OBVIOUS
        <5>3. EntryShape(x, a)
          BY <5>2 DEF ShapeInv, Shape
        <5>4. x.res = r /\ x.kind = "file"
          BY <3>1, <4>2, <5>1, <5>2, <5>3 DEF EntryShape
        <5>5. IsHome(a, r, music)
          BY <3>3, <5>2, <5>4 DEF IsHome
        <5> QED BY <4>5, <5>1, <5>5
      <4> QED BY <4>6, <4>7
    <3> QED BY <3>2, <3>3
  <2> QED BY <2>10, <2>11
<1> QED BY <1>3, <1>9, <1>10

\* Nothing has the path that a target made too early leads to.
LEMMA NothingBelow ==
    ASSUME TreeInv, ShapeInv, NEW r \in Resources, NEW to, HomeIs(to, r, TRUE),
           NEW w, IsBelow(w, to, "search")
    PROVE  spfs_entity_find_path(w) = None
<1>1. /\ Uri[r] \notin {"browse", "search", "playlists", "tracks", "artists",
                        "albums", "track.wav", "/", ".", ".."}
      /\ Class[r] \in {"tracks", "artists", "albums"}
      /\ "search" # NoName
  BY OwnNames, Zenon DEF NoName
<1>2. TreeOK /\ UniqueNames
  BY DEF TreeInv
<1>3. PICK m \in {2, 4} : /\ m = Len(to)
                          /\ m = 4 => InBrowse(to, r) /\ to[4] = "track.wav"
                          /\ m = 2 => to[1] = Uri[r] /\ to[2] = "track.wav"
  BY DEF HomeIs
<1>4. PICK n \in Nat : n = Len(w) /\ n = m + 1
  BY <1>3 DEF IsBelow
<1>5. /\ 1 \in 1 .. m /\ 2 \in 1 .. m /\ 1 + 1 = 2 /\ 1 + 2 = 3
      /\ m = 4 => 3 \in 1 .. m /\ 4 \in 1 .. m /\ 1 + 3 = 4 /\ 1 + 4 = 5
  BY <1>3
<1>6. /\ w[1] = "search" /\ w[2] = to[1] /\ w[3] = to[2]
      /\ m = 4 => w[4] = to[3]
  BY <1>3, <1>5 DEF IsBelow
<1>7. /\ n >= 1 /\ 2 \in 1 .. n /\ 3 \in 1 .. n /\ n # 2 /\ (m = 2 => n = 3)
      /\ (m = 4 => 4 \in 1 .. n /\ n = 5)
      /\ 2 - 1 = 1 /\ 3 - 1 = 2 /\ 4 - 1 = 3
  BY <1>4
<1>8. PICK f : spfs_entity_find_path(w) = f[n] /\ Found(f, w)
  BY <1>2, <1>4, FoundExists
<1>9. f[1] = 6
  <2>1. f[1] = Child(1, "search")
    BY <1>1, <1>2, <1>4, <1>6, <1>7, <1>8, FirstFound
  <2> QED BY <2>1, BaseFound
<1>10. f[2] = Child(6, to[1])
  <2>1. f[2] = NextOnPath(6, w, 2)
    BY <1>4, <1>7, <1>8, <1>9 DEF Found
  <2>2. 6 \in 1 .. 9
    OBVIOUS
  <2>3. 6 \in Ids /\ entity[6].kind = "dir" /\ entity[6].name = "search"
    BY <1>2, <2>2, BaseDirs
  <2>4. to[1] # "search"
    BY <1>1, <1>3 DEF InBrowse
  <2>5. NextOnPath(6, w, 2) = Child(6, w[2])
    BY <1>2, <1>6, <2>3, <2>4, StepDown
  <2> QED BY <1>6, <2>1, <2>5
<1>11. CASE f[2] = None
  BY <1>4, <1>7, <1>8, <1>11, NothingFurther
<1>12. CASE f[2] # None
  <2>1. PICK s \in Ids : /\ s = f[2] /\ entity[s].parent = 6
                         /\ entity[s].name = to[1]
    BY <1>2, <1>10, <1>12, ChildEntry
  <2>2. PICK x : x = entity[s]
    OBVIOUS
  <2>3. x.ops = "results"
    <3>1. EntryShape(x, s)
      BY <2>2 DEF ShapeInv, Shape
    <3> QED BY <2>1, <2>2, <3>1, Zenon DEF EntryShape, SearchDir
  <2>4. s > 9
    <3> SUFFICES ASSUME s \in 1 .. 9 PROVE FALSE
      BY <1>2, AboveFacts
    <3>1. /\ DirIs(entity[1], "", 0, "")
          /\ DirIs(entity[2], "browse", 1, "")
          /\ DirIs(entity[3], "tracks", 2, "")
          /\ DirIs(entity[4], "artists", 2, "")
          /\ DirIs(entity[5], "albums", 2, "")
          /\ DirIs(entity[6], "search", 1, "search")
          /\ DirIs(entity[7], "playlists", 1, "")
          /\ DirIs(entity[8], "meta", 7, "meta_lists")
          /\ DirIs(entity[9], "music", 7, "music_lists")
      BY Zenon DEF ShapeInv, BaseOK
    <3>2. /\ entity[1].parent # 6 /\ entity[2].parent # 6
          /\ entity[3].parent # 6 /\ entity[4].parent # 6
          /\ entity[5].parent # 6 /\ entity[6].parent # 6
          /\ entity[7].parent # 6 /\ entity[8].parent # 6
          /\ entity[9].parent # 6
      <4>1. /\ entity[1].parent = 0 /\ entity[2].parent = 1
            /\ entity[3].parent = 2 /\ entity[4].parent = 2
            /\ entity[5].parent = 2 /\ entity[6].parent = 1
            /\ entity[7].parent = 1 /\ entity[8].parent = 7
            /\ entity[9].parent = 7
        BY <3>1, Zenon DEF DirIs
      <4> QED BY <4>1
    <3> QED BY <2>1, <3>2, FirstNine
  <2>5. f[3] = NextOnPath(s, w, 3)
    BY <1>4, <1>7, <1>8, <2>1 DEF Found
  <2>6. ASSUME NEW c \in Ids, entity[c].parent = s
        PROVE  entity[c].kind = "link" /\ entity[c].name # "track.wav"
    <3>1. PICK y : y = entity[c]
      OBVIOUS
    <3>2. EntryShape(y, c)
      BY <3>1 DEF ShapeInv, Shape
    <3>3. y.parent > 9 /\ entity[y.parent].ops = "results"
      BY <2>2, <2>3, <2>4, <2>6, <3>1
    <3>4. y.kind = "link" /\ y.name # "track.wav"
      BY <3>2, <3>3, Zenon DEF EntryShape
    <3> QED BY <3>1, <3>4
  <2>7. CASE m = 2
    <3>1. w[3] = "track.wav" /\ entity[s].name # "track.wav"
      BY <1>1, <1>3, <1>6, <2>1, <2>7
    <3>2. f[3] = IF entity[s].kind = "dir" THEN Child(s, "track.wav") ELSE None
      BY <2>1, <1>12, <2>5, <3>1 DEF NextOnPath
    <3>3. Child(s, "track.wav") = None
      <4> SUFFICES ASSUME Child(s, "track.wav") # None PROVE FALSE
        OBVIOUS
      <4>1. PICK c \in Ids : entity[c].parent = s /\ entity[c].name = "track.wav"
        BY <1>2, ChildEntry
      <4> QED BY <2>6, <4>1
    <3>4. f[3] = None
      BY <3>2, <3>3
    <3> QED BY <1>4, <1>7, <1>8, <3>4, NothingFurther
  <2>8. CASE m = 4
    <3>1. f[3] = None \/ f[3] = Child(s, w[3])
      <4>1. Len(w) # 3
        BY <1>4, <2>8
      <4> QED BY <1>12, <2>1, <2>5, <4>1 DEF NextOnPath
    <3>2. CASE f[3] = None
      BY <1>4, <1>7, <1>8, <3>2, NothingFurther
    <3>3. CASE f[3] # None
      <4>1. PICK c \in Ids : c = f[3] /\ entity[c].parent = s
        BY <1>2, <3>1, <3>3, ChildEntry
      <4>2. entity[c].kind = "link"
        BY <2>6, <4>1
      <4>3. f[4] = NextOnPath(c, w, 4)
        BY <1>4, <1>7, <1>8, <2>8, <4>1 DEF Found
      <4>4. Len(w) # 4
        BY <1>4, <2>8
      <4>5. f[4] = None
        BY <3>3, <4>1, <4>2, <4>3, <4>4 DEF NextOnPath
      <4> QED BY <1>4, <1>7, <1>8, <2>8, <4>5, NothingFurther
    <3> QED BY <3>2, <3>3
  <2> QED BY <2>7, <2>8
<1> QED BY <1>11, <1>12

LEMMA NothingShorter ==
    ASSUME TreeInv, ShapeInv, NEW r \in Resources, NEW to, HomeIs(to, r, TRUE),
           NEW w, IsRest(w, to)
    PROVE  spfs_entity_find_path(w) = None
<1>1. TreeOK /\ UniqueNames
  BY DEF TreeInv
<1>2. PICK m \in {2, 4} : m = Len(to) /\ to[2] \in {"track.wav", Class[r]}
  BY DEF HomeIs, InBrowse
<1>3. PICK n \in Nat : n = Len(w) /\ n = m - 1
  BY <1>2 DEF IsRest
<1>4. w[1] = to[2]
  <2>1. 1 \in 1 .. m - 1 /\ 1 + 1 = 2
    BY <1>2
  <2> QED BY <1>2, <2>1 DEF IsRest
<1>5. n >= 1 /\ 1 \in 1 .. n
  BY <1>3
<1>6. PICK f : spfs_entity_find_path(w) = f[n] /\ Found(f, w)
  BY <1>1, <1>3, FoundExists
<1>7. to[2] # NoName /\ to[2] \notin {"browse", "search", "playlists"}
  <2>1. Class[r] \in {"tracks", "artists", "albums"} /\ Class[r] # NoName
        /\ "track.wav" # NoName
    BY OwnNames
  <2> QED BY <1>2, <2>1
<1>8. f[1] = Child(1, to[2])
  BY <1>1, <1>3, <1>4, <1>5, <1>6, <1>7, FirstFound
<1>9. f[1] = None
  BY <1>1, <1>7, <1>8, RootEntry DEF Root
<1> QED BY <1>3, <1>5, <1>6, <1>9, NothingFurther

\* From the place of the directory of results itself.
LEMMA WalkFromSearch ==
    ASSUME NEW r \in Resources, NEW S, Walkable(S), NEW P \in Seq(S),
           Len(P) = 2, P[1] = "search",
           NEW music \in BOOLEAN, NEW to \in Seq(S), HomeIs(to, r, music)
    PROVE  Walk(P, spfs_path_get_relative_path(P, to)) = to
<1>1. /\ \A i \in 1 .. Len(to) : Plain(to[i])
      /\ to[1] \in {"browse", Uri[r]}
  BY HomePlain
<1>2. P[1] # to[1]
  BY <1>1, OwnNames
<1>3. Common(P, to, 0)
  BY <1>2 DEF Common
<1>4. 0 \in Nat /\ 0 < Len(P)
  OBVIOUS
<1> QED BY <1>1, <1>3, <1>4, LeadsOver

\* Where a target leads: home, or to a path that nothing has.
LEMMA LedHome ==
    ASSUME TreeInv, ShapeInv, NEW d \in Ids, Reachable(d), NEW x,
           LinkShape(x, d), NEW r \in Resources, r = x.res,
           NEW music \in BOOLEAN, music <=> entity[d].ops \in MusicDirs,
           NEW P, P = spfs_entity_get_full_path(d),
           NEW from, NEW to, Origin(from, d), to \in Homes(r, music)
    PROVE  LET w == Walk(P, spfs_path_get_relative_path(from, to)) IN
           spfs_entity_find_path(w) = None \/ HomeIs(w, r, music)
<1> DEFINE S == Names \cup {"/", ".", "..", "browse", "search", Class[r],
                            Uri[r], "track.wav"}
<1>1. HasNames(S, r) /\ Walkable(S) /\ "search" \in S /\ Names \subseteq S
  BY DEF HasNames, Walkable
<1> HIDE DEF S
<1>2. TreeOK /\ UniqueNames
  BY DEF TreeInv
<1>3. P \in Seq(S)
  BY <1>1, <1>2, PathTyped, SequenceWiden
<1>4. to \in Seq(S) /\ HomeIs(to, r, music)
  BY <1>1, HomeElements
<1>5. entity[d].ops \in LinkDirs
  BY DEF LinkShape
<1>6. PlaceIs(P, d)
  BY <1>2, <1>5, LinkDirPlace
<1>7. CASE entity[d].ops # "results"
  <2>1. from = P
    BY <1>7 DEF Origin
  <2>2. LeavesHome(d)
    BY <1>5, <1>7 DEF LeavesHome
  <2>3. Apart(d, r)
    BY DEF LinkShape, Apart
  <2>5. HomePath(to, r)
    BY <1>4, HomePlain DEF HomePath
  <2>4. Walk(P, spfs_path_get_relative_path(P, to)) = to
    BY <1>1, <1>3, <1>4, <1>6, <2>2, <2>3, <2>5, WalkHome, Zenon
  <2> QED BY <1>4, <2>1, <2>4
<1>8. CASE entity[d].ops = "results"
  <2>1. Len(P) = 2 /\ P[1] = "search" /\ P[2] = entity[d].name
    BY <1>6, <1>8 DEF PlaceIs
  <2>2. music = TRUE
    BY <1>8 DEF MusicDirs
  <2>3. CASE from = <<"search", entity[d].name>>
    <3>1. P = <<"search", entity[d].name>>
      BY <1>3, <2>1, TwoElements
    <3>2. Walk(P, spfs_path_get_relative_path(P, to)) = to
      BY <1>1, <1>3, <1>4, <2>1, WalkFromSearch
    <3> QED BY <1>4, <2>3, <3>1, <3>2
  <2>4. CASE from = <<entity[d].name>>
    <3>1. PICK g : g = <<entity[d].name>> /\ g \in Seq(S) /\ Len(g) = 1
                   /\ g[1] = P[2]
      <4>1. PICK q \in S : q = entity[d].name
        BY <1>1 DEF Names
      <4>2. <<q>> \in Seq(S) /\ Len(<<q>>) = 1 /\ <<q>>[1] = q
        BY <4>1
      <4> QED BY <2>1, <4>1, <4>2, Zenon
    <3>2. HomeIs(to, r, TRUE)
      BY <1>4, <2>2
    <3>5. FromResults(P, g)
      BY <2>1, <3>1 DEF FromResults
    <3>6. g \in Seq(S) /\ to \in Seq(S)
      BY <1>4, <3>1
    <3>7. Astray(Walk(P, spfs_path_get_relative_path(g, to)), to)
      BY <1>1, <1>3, <3>2, <3>5, <3>6, WalkFromResults, Zenon
    <3>3. PICK w : /\ w = Walk(P, spfs_path_get_relative_path(g, to))
                   /\ IsBelow(w, to, "search") \/ IsRest(w, to)
      BY <3>7 DEF Astray
    <3>4. spfs_entity_find_path(w) = None
      BY <3>2, <3>3, NothingBelow, NothingShorter
    <3> QED BY <2>4, <3>1, <3>3, <3>4
  <2> QED BY <1>8, <2>3, <2>4 DEF Origin
<1> QED BY <1>7, <1>8

LEMMA LinkFollowed ==
    ASSUME TreeInv, ShapeInv, NEW l \in Links
    PROVE  Follow(l) \in {None, Itself(l)} \/ Leads(l)
<1>1. l \in Ids /\ entity[l].kind = "link" /\ Reachable(l)
  BY DEF Links
<1>2. TreeOK /\ UniqueNames
  BY DEF TreeInv
<1>3. l # Root
  <2>1. 1 \in 1 .. 9
    OBVIOUS
  <2>2. entity[1].kind = "dir"
    BY <1>2, <2>1, BaseDirs
  <2> QED BY <1>1, <2>2 DEF Root
<1>4. PICK d \in Ids : d = entity[l].parent /\ Reachable(d)
  BY <1>1, <1>2, <1>3, ReachableIs
<1>5. PICK x : x = entity[l]
  OBVIOUS
<1>6. LinkShape(x, d)
  BY <1>1, <1>4, <1>5 DEF ShapeInv, Shape
<1>7. PICK r \in Resources : r = x.res
  BY <1>6 DEF LinkShape
<1>8. PICK P : P = spfs_entity_get_full_path(d)
  OBVIOUS
<1>9. Follow(l) = spfs_entity_find_path(Walk(P, x.target))
  BY <1>4, <1>5, <1>8 DEF Follow
<1>10. CASE x.target = <<x.name>>
  <2>1. P \in Seq(Names) /\ x.name \in Names /\ Plain(x.name)
    BY <1>1, <1>2, <1>5, <1>6, <1>8, PathTyped DEF Names, LinkShape
  <2>2. Walk(P, <<x.name>>) = Append(P, x.name)
    BY <2>1, OwnNameWalk
  <2>3. spfs_entity_get_full_path(l) = Append(P, x.name)
    BY <1>1, <1>2, <1>3, <1>4, <1>5, <1>8, WaysUpHold DEF WaysUp
  <2>4. Follow(l) = Itself(l)
    BY <1>9, <1>10, <2>2, <2>3 DEF Itself
  <2> QED BY <2>4
<1>11. CASE LedFrom(x.target, r, d)
  <2>1. PICK music \in BOOLEAN : music <=> entity[d].ops \in MusicDirs
    <3>1. TRUE \in BOOLEAN /\ FALSE \in BOOLEAN
      OBVIOUS
    <3>2. CASE entity[d].ops \in MusicDirs
      BY <3>1, <3>2, Zenon
    <3>3. CASE entity[d].ops \notin MusicDirs
      BY <3>1, <3>3, Zenon
    <3> QED BY <3>2, <3>3
  <2>2. PICK from, to : /\ Origin(from, d) /\ to \in Homes(r, music)
                        /\ x.target = spfs_path_get_relative_path(from, to)
    <3>1. Homes(r, entity[d].ops \in MusicDirs) = Homes(r, music)
      BY <2>1 DEF Homes
    <3> QED BY <1>11, <3>1, Zenon DEF LedFrom
  <2>3. PICK w : w = Walk(P, x.target)
    OBVIOUS
  <2>4. spfs_entity_find_path(w) = None \/ HomeIs(w, r, music)
    BY <1>4, <1>6, <1>7, <1>8, <2>1, <2>2, <2>3, LedHome
  <2>5. spfs_entity_find_path(w) = None \/ IsHome(spfs_entity_find_path(w), r, music)
    BY <2>4, HomeFound
  <2>6. CASE spfs_entity_find_path(w) = None
    BY <1>9, <2>3, <2>6
  <2>7. CASE IsHome(spfs_entity_find_path(w), r, music)
    <3>1. PICK a \in Ids : a = Follow(l) /\ IsHome(a, r, music)
      BY <1>9, <2>3, <2>7 DEF IsHome
    <3>2. a # None
      BY DEF None, Ids
    <3>3. entity[entity[l].parent].ops \in {"music", "results"} <=> music
      BY <1>4, <2>1 DEF MusicDirs
    <3>4. /\ entity[a].res = entity[l].res
          /\ entity[a].kind = IF entity[entity[l].parent].ops \in {"music", "results"}
                              THEN "file" ELSE "dir"
      BY <1>5, <1>7, <3>1, <3>3 DEF IsHome
    <3> QED BY <3>1, <3>2, <3>4 DEF Leads
  <2> QED BY <2>5, <2>6, <2>7
<1> QED BY <1>6, <1>7, <1>10, <1>11 DEF LinkShape

\* However many threads fill the tree, and whatever is searched for in the
\* meantime, until two insert one name a link leads to what it was made for, to itself until it is done,
\* or nowhere: spfs_path_get_relative_path, taken between two places of the
\* tree, is never the way to a third one.
THEOREM LinksNeverMislead ==
    ASSUME SanitizedStays, NoDots PROVE Spec => []NeverMisleads
<1>1. (NothingOverwritten => TreeInv /\ DirsInv /\ ShapeInv) => NeverMisleads
  BY LinkFollowed DEF NeverMisleads
<1> QED BY <1>1, ShapeInvariant, PTL

==============================================================================
