------------------------------ MODULE XspfProofs ------------------------------
(***************************************************************************)
(* What is proved of the functions on strings and of playlist documents.   *)
(***************************************************************************)
EXTENDS Xspf, SequenceLemmas

-----------------------------------------------------------------------------
(* str_replace.                                                            *)

\* key is in s at position i.
OccursAt(key, s, i) ==
    /\ i \in 1 .. Len(s) + 1 - Len(key)
    /\ SubSeq(s, i, i + Len(key) - 1) = key

\* s with the occurrence of key at position i replaced by val.
ReplacedAt(s, key, val, i) ==
    Then(SubSeq(s, 1, i - 1), Then(val, SubSeq(s, i + Len(key), Len(s))))

\* key is within the first e elements of s.
Within(key, s, e) == key \in SubSeqs(SubSeq(s, 1, e))

LEMMA PartIsSubSeq ==
    ASSUME NEW s, NEW a \in 0 .. Len(s), NEW b \in 0 .. Len(s)
    PROVE  SubSeq(s, a + 1, b) \in SubSeqs(s)
BY SMT DEF SubSeqs

LEMMA WithinIs ==
    ASSUME NEW S, NEW s \in Seq(S), NEW key \in Seq(S), key # <<>>,
           NEW e \in 0 .. Len(s)
    PROVE  Within(key, s, e) <=>
              \E i \in 1 .. e + 1 - Len(key) : OccursAt(key, s, i)
<1>1. PICK n \in Nat, k \in Nat : n = Len(s) /\ k = Len(key) /\ k >= 1
  BY EmptySeq, LenProperties
<1>2. s \in [1 .. n -> S] /\ e \in 0 .. n
  BY <1>1, LenProperties
<1>3. PICK t \in Seq(S) : /\ t = SubSeq(s, 1, e) /\ Len(t) = e
                          /\ \A h \in 1 .. e : t[h] = s[h]
  <2>1. \A h \in 1 .. e : s[h] \in S
    BY <1>2
  <2>2. 1 \in Int /\ e \in Int
    BY <1>2
  <2>3. /\ SubSeq(s, 1, e) \in Seq(S)
        /\ Len(SubSeq(s, 1, e)) = IF 1 <= e THEN e - 1 + 1 ELSE 0
        /\ \A h \in 1 .. e - 1 + 1 : SubSeq(s, 1, e)[h] = s[1 + h - 1]
    BY <2>1, <2>2, SubSeqProperties
  <2>4. \A h \in 1 .. e : SubSeq(s, 1, e)[h] = s[h]
    BY <2>2, <2>3
  <2>5. Len(SubSeq(s, 1, e)) = e
    BY <1>2, <2>3
  <2> QED BY <2>3, <2>4, <2>5
<1>4. ASSUME NEW a \in 1 .. e, NEW b \in a .. e
      PROVE  /\ SubSeq(t, a, b) = SubSeq(s, a, b)
             /\ Len(SubSeq(s, a, b)) = b - a + 1
  <2>1. \A h \in a .. b : t[h] \in S /\ t[h] = s[h]
    BY <1>2, <1>3
  <2>2. a \in Int /\ b \in Int /\ a <= b
    BY <1>2
  <2>3. \A h \in a .. b : s[h] \in S
    BY <2>1
  <2> QED BY <2>1, <2>2, <2>3, SubSeqSame, SubSeqProperties
<1>5. ASSUME Within(key, s, e)
      PROVE  \E i \in 1 .. e + 1 - Len(key) : OccursAt(key, s, i)
  <2>1. PICK a \in 0 .. e, b \in 0 .. e : key = SubSeq(t, a + 1, b)
    BY <1>3, <1>5 DEF Within, SubSeqs
  <2>2. a + 1 <= b
    <3>1. SUFFICES ASSUME b < a + 1 PROVE FALSE
      BY <1>2
    <3>2. a + 1 \in Int /\ b \in Int
      BY <1>2
    <3>3. SubSeq(t, a + 1, b) = <<>>
      BY <3>1, <3>2, SubSeqEmpty
    <3> QED BY <2>1, <3>3
  <2>3. PICK i \in 1 .. e : i = a + 1 /\ b \in i .. e
    BY <1>2, <2>2
  <2>4. key = SubSeq(s, i, b) /\ k = b - i + 1
    BY <1>1, <1>4, <2>1, <2>3
  <2>5. i + k - 1 = b /\ i \in 1 .. e + 1 - k /\ i \in 1 .. n + 1 - k
    BY <1>1, <1>2, <2>3, <2>4
  <2> QED BY <1>1, <2>4, <2>5 DEF OccursAt
<1>6. ASSUME NEW i \in 1 .. e + 1 - Len(key), OccursAt(key, s, i)
      PROVE  Within(key, s, e)
  <2>1. PICK b \in i .. e : b = i + k - 1 /\ i \in 1 .. e
    <3>1. i \in 1 .. e + 1 - k /\ k >= 1 /\ e \in Nat
      BY <1>1, <1>2, <1>6
    <3>2. i + k - 1 \in i .. e /\ i \in 1 .. e
      BY <3>1
    <3> QED BY <3>2
  <2>2. key = SubSeq(t, i, b)
    BY <1>1, <1>4, <1>6, <2>1 DEF OccursAt
  <2>3. PICK a \in 0 .. e : a + 1 = i
    BY <1>2, <2>1
  <2>4. b \in 0 .. e
    BY <1>2, <2>1
  <2>5. Len(t) = e /\ key = SubSeq(t, a + 1, b)
    BY <1>3, <2>2, <2>3
  <2>6. a \in 0 .. Len(t) /\ b \in 0 .. Len(t)
    BY <2>3, <2>4, <2>5
  <2>7. key \in SubSeqs(t)
    BY <2>5, <2>6, PartIsSubSeq
  <2> QED BY <1>3, <2>7 DEF Within
<1> QED BY <1>5, <1>6

LEMMA OccurrenceWithin ==
    ASSUME NEW S, NEW s \in Seq(S), NEW key \in Seq(S), key # <<>>,
           NEW i, OccursAt(key, s, i), NEW e \in 0 .. Len(s),
           i + Len(key) - 1 <= e
    PROVE  Within(key, s, e)
<1>1. PICK n \in Nat, k \in Nat : n = Len(s) /\ k = Len(key)
  BY LenProperties
<1>2. i \in 1 .. e + 1 - Len(key)
  <2>1. i \in 1 .. n + 1 - k /\ e \in 0 .. n /\ i + k - 1 <= e
    BY <1>1 DEF OccursAt
  <2>2. i \in 1 .. e + 1 - k
    BY <1>1, <2>1
  <2> QED BY <1>1, <2>2
<1>3. \E h \in 1 .. e + 1 - Len(key) : OccursAt(key, s, h)
  BY <1>2
<1> QED BY <1>3, WithinIs, Zenon

\* str_replace replaces the first occurrence.
LEMMA FirstReplaced ==
    ASSUME NEW S, NEW s \in Seq(S), NEW key \in Seq(S), key # <<>>,
           NEW val \in Seq(S), Occurs(key, s)
    PROVE  \E i \in 1 .. Len(s) :
              /\ OccursAt(key, s, i)
              /\ \A h \in 1 .. i - 1 : ~ OccursAt(key, s, h)
              /\ str_replace(s, key, val) = ReplacedAt(s, key, val, i)
<1>1. PICK n \in Nat, k \in Nat : n = Len(s) /\ k = Len(key) /\ k >= 1
  BY EmptySeq, LenProperties
<1> DEFINE T == {e \in 0 .. n : Within(key, s, e)}
<1>2. n \in T
  <2>1. PICK i \in 1 .. n + 1 - k : OccursAt(key, s, i)
    BY <1>1 DEF Occurs, OccursAt
  <2> QED BY <1>1, <2>1, WithinIs
<1>3. PICK e \in T : \A x \in T : e <= x
  <2>1. T \subseteq Nat
    OBVIOUS
  <2> HIDE DEF T
  <2> QED BY <1>2, <2>1, LeastNatural
<1> DEFINE First(x) == /\ key \in SubSeqs(SubSeq(s, 1, x))
                       /\ \A j \in 0 .. x - 1 : key \notin SubSeqs(SubSeq(s, 1, j))
<1>4. e \in 0 .. n /\ Within(key, s, e)
      /\ \A x \in 0 .. n : Within(key, s, x) => e <= x
  BY <1>3
<1>5. First(e)
  <2>1. ASSUME NEW j \in 0 .. e - 1 PROVE ~ Within(key, s, j)
    BY <1>4
  <2> QED BY <1>4, <2>1 DEF Within
<1>6. ASSUME NEW x \in 0 .. n, First(x) PROVE x = e
  <2>1. e <= x
    BY <1>4, <1>6 DEF Within
  <2>2. ~ (e \in 0 .. x - 1)
    BY <1>4, <1>6 DEF Within
  <2> QED BY <1>4, <2>1, <2>2
<1>7. IndexFirstSubSeq(key, s) = e - (k - 1)
  <2>1. IndexFirstSubSeq(key, s) = (CHOOSE x \in 0 .. n : First(x)) - (k - 1)
    BY <1>1 DEF IndexFirstSubSeq
  <2> HIDE DEF First
  <2>2. (CHOOSE x \in 0 .. n : First(x)) = e
    BY <1>4, <1>5, <1>6, Zenon
  <2> QED BY <2>1, <2>2
<1>8. PICK i \in 1 .. e + 1 - k : OccursAt(key, s, i)
  BY <1>1, <1>4, WithinIs
<1>9. i = e - (k - 1) /\ i \in 1 .. n
  <2>1. PICK x \in 0 .. n : x = i + k - 1 /\ x <= e
    <3>1. e \in Int /\ i \in 1 .. e + 1 - k /\ e <= n
      BY <1>1, <1>4, <1>8
    <3>2. i + k - 1 \in 0 .. n /\ i + k - 1 <= e
      BY <1>1, <3>1
    <3> QED BY <3>2
  <2>2. x \in 0 .. Len(s) /\ i + Len(key) - 1 <= x
    BY <1>1, <2>1
  <2>3. Within(key, s, x)
    BY <1>8, <2>2, OccurrenceWithin
  <2>4. e <= x
    BY <1>4, <2>3
  <2>5. i = e - (k - 1) /\ i >= 1 /\ i <= n
    BY <1>1, <1>4, <1>8, <2>1, <2>4
  <2> QED BY <1>8, <2>5
<1>10. ASSUME NEW h \in 1 .. i - 1, OccursAt(key, s, h) PROVE FALSE
  <2>1. PICK x \in 0 .. n : x = h + k - 1 /\ x < e
    <3>1. h + k - 1 \in 0 .. n /\ h + k - 1 < e
      BY <1>1, <1>4, <1>9
    <3> QED BY <3>1
  <2>2. x \in 0 .. Len(s) /\ h + Len(key) - 1 <= x
    BY <1>1, <2>1
  <2>3. Within(key, s, x)
    BY <1>10, <2>2, OccurrenceWithin
  <2> QED BY <1>4, <2>1, <2>3
<1>11. key \in SubSeqs(s)
  <2>1. Within(key, s, n) /\ SubSeq(s, 1, n) = s
    BY <1>1, <1>2, SubSeqFull
  <2> QED BY <2>1 DEF Within
<1>12. str_replace(s, key, val)
         = SubSeq(s, 1, i - 1) \o val \o SubSeq(s, i + Len(key), Len(s))
  <2>1. str_replace(s, key, val)
          = ReplaceSubSeqAt(IndexFirstSubSeq(key, s), val, key, s)
    BY <1>11 DEF str_replace, ReplaceFirstSubSeq
  <2>2. IndexFirstSubSeq(key, s) = i
    BY <1>7, <1>9
  <2> QED BY <2>1, <2>2, Zenon DEF ReplaceSubSeqAt
<1>13. /\ SubSeq(s, 1, i - 1) \in Seq(S)
       /\ SubSeq(s, i + Len(key), Len(s)) \in Seq(S)
  <2>1. s \in [1 .. n -> S]
    BY <1>1, LenProperties
  <2>2. /\ \A h \in 1 .. i - 1 : s[h] \in S
        /\ \A h \in i + k .. n : s[h] \in S
    BY <1>9, <2>1
  <2>3. 1 \in Int /\ i - 1 \in Int /\ i + k \in Int /\ n \in Int
    BY <1>9
  <2> QED BY <1>1, <2>2, <2>3, SubSeqProperties
<1>14. str_replace(s, key, val) = ReplacedAt(s, key, val, i)
  <2>1. PICK x \in Seq(S), y \in Seq(S) :
             /\ x = SubSeq(s, 1, i - 1)
             /\ y = SubSeq(s, i + Len(key), Len(s))
    BY <1>13
  <2>2. Then(Then(x, val), y) = Then(x, Then(val, y))
    BY ThenRegroups
  <2>3. str_replace(s, key, val) = Then(Then(x, val), y)
    BY <1>12, <2>1, Zenon DEF Then
  <2> QED BY <2>1, <2>2, <2>3 DEF ReplacedAt
<1> QED BY <1>1, <1>8, <1>9, <1>10, <1>14

-----------------------------------------------------------------------------
(* A text in pieces, of which one is replaced.                             *)

\* What is known of a sequence that consists of three.
Cut(t, u, p, v) ==
    /\ Len(t) = Len(u) + Len(p) + Len(v)
    /\ u = SubSeq(t, 1, Len(u))
    /\ v = SubSeq(t, Len(u) + Len(p) + 1, Len(t))
    /\ \A o \in 1 .. Len(p) : t[Len(u) + o] = p[o]
    /\ \A o \in 1 .. Len(v) : t[Len(u) + Len(p) + o] = v[o]

LEMMA ThenCut ==
    ASSUME NEW S, NEW u \in Seq(S), NEW p \in Seq(S), NEW v \in Seq(S)
    PROVE  /\ Then(u, Then(p, v)) \in Seq(S)
           /\ Cut(Then(u, Then(p, v)), u, p, v)
<1>1. PICK a \in Nat, b \in Nat, c \in Nat :
          a = Len(u) /\ b = Len(p) /\ c = Len(v)
  BY LenProperties
<1>2. PICK w \in Seq(S) :
          /\ w = Then(p, v) /\ Len(w) = b + c
          /\ \A o \in 1 .. b + c : w[o] = IF o <= b THEN p[o] ELSE v[o - b]
  <2>1. /\ Then(p, v) \in Seq(S) /\ Len(Then(p, v)) = Len(p) + Len(v)
        /\ \A o \in 1 .. Len(p) + Len(v) :
              Then(p, v)[o] = IF o <= Len(p) THEN p[o] ELSE v[o - Len(p)]
    BY ThenIs, Zenon
  <2> QED BY <1>1, <2>1, Zenon
<1>3. PICK t \in Seq(S) :
          /\ t = Then(u, w) /\ Len(t) = a + (b + c)
          /\ \A o \in 1 .. a + (b + c) : t[o] = IF o <= a THEN u[o] ELSE w[o - a]
  <2>1. /\ Then(u, w) \in Seq(S) /\ Len(Then(u, w)) = Len(u) + Len(w)
        /\ \A o \in 1 .. Len(u) + Len(w) :
              Then(u, w)[o] = IF o <= Len(u) THEN u[o] ELSE w[o - Len(u)]
    BY ThenIs, Zenon
  <2>2. PICK d \in Nat : d = b + c
    OBVIOUS
  <2>3. Len(u) = a /\ Len(w) = d
    BY <1>1, <1>2, <2>2
  <2>4. /\ Len(Then(u, w)) = a + d
        /\ \A o \in 1 .. a + d : Then(u, w)[o] = IF o <= a THEN u[o] ELSE w[o - a]
    BY <2>1, <2>3, Zenon
  <2> QED BY <2>1, <2>2, <2>4
<1>4. \A o \in 1 .. a : t[o] = u[o]
  BY <1>3
<1>5. ASSUME NEW o \in 1 .. b PROVE t[a + o] = p[o]
  <2>1. a + o \in 1 .. a + (b + c) /\ ~ (a + o <= a) /\ (a + o) - a = o
        /\ o \in 1 .. b + c /\ o <= b
    OBVIOUS
  <2> QED BY <1>2, <1>3, <2>1
<1>6. ASSUME NEW o \in 1 .. c PROVE t[a + b + o] = v[o]
  <2>1. a + b + o \in 1 .. a + (b + c) /\ ~ (a + b + o <= a)
        /\ (a + b + o) - a = b + o
        /\ b + o \in 1 .. b + c /\ ~ (b + o <= b) /\ (b + o) - b = o
    OBVIOUS
  <2> QED BY <1>2, <1>3, <2>1
<1>7. t \in [1 .. a + b + c -> S]
  BY <1>3, LenProperties
<1>8. u = SubSeq(t, 1, a)
  <2>1. \A o \in 1 .. a : t[o] \in S
    BY <1>7
  <2>2. 1 \in Int /\ a \in Int
    OBVIOUS
  <2>3. /\ SubSeq(t, 1, a) \in Seq(S)
        /\ Len(SubSeq(t, 1, a)) = IF 1 <= a THEN a - 1 + 1 ELSE 0
        /\ \A o \in 1 .. a - 1 + 1 : SubSeq(t, 1, a)[o] = t[1 + o - 1]
    BY <2>1, <2>2, SubSeqProperties
  <2>4. Len(SubSeq(t, 1, a)) = a
    BY <2>3
  <2>5. ASSUME NEW o \in 1 .. Len(u) PROVE u[o] = SubSeq(t, 1, a)[o]
    <3>1. o \in 1 .. a - 1 + 1 /\ 1 + o - 1 = o /\ o \in 1 .. a
      BY <1>1
    <3> QED BY <1>4, <2>3, <3>1
  <2> QED BY <1>1, <2>3, <2>4, <2>5, SeqEqual
<1>9. v = SubSeq(t, a + b + 1, a + b + c)
  <2> DEFINE m == a + b + 1 n == a + b + c
  <2>1. \A o \in m .. n : t[o] \in S
    BY <1>7
  <2>2. m \in Int /\ n \in Int
    OBVIOUS
  <2>3. /\ SubSeq(t, m, n) \in Seq(S)
        /\ Len(SubSeq(t, m, n)) = IF m <= n THEN n - m + 1 ELSE 0
        /\ \A o \in 1 .. n - m + 1 : SubSeq(t, m, n)[o] = t[m + o - 1]
    <3> HIDE DEF m, n
    <3> QED BY <2>1, <2>2, SubSeqProperties
  <2>4. (IF m <= n THEN n - m + 1 ELSE 0) = c
    OBVIOUS
  <2>5. ASSUME NEW o \in 1 .. Len(v) PROVE v[o] = SubSeq(t, m, n)[o]
    <3>1. o \in 1 .. n - m + 1 /\ m + o - 1 = a + b + o /\ o \in 1 .. c
      BY <1>1
    <3> HIDE DEF m, n
    <3> QED BY <1>6, <2>3, <3>1
  <2> HIDE DEF m, n
  <2>6. v = SubSeq(t, m, n)
    BY <1>1, <2>3, <2>4, <2>5, SeqEqual
  <2> QED BY <2>6 DEF m, n
<1>10. Len(t) = a + b + c
  BY <1>3
<1> QED BY <1>1, <1>2, <1>3, <1>5, <1>6, <1>8, <1>9, <1>10 DEF Cut

\* Where c occurs in the text it is a piece of its own.
OnlyAlone(ss, c) ==
    \A i \in 1 .. Len(ss) : \A o \in 1 .. Len(ss[i]) :
        ss[i][o] = c => ss[i] = <<c>>

LEMMA SubSeqOne ==
    ASSUME NEW S, NEW s \in Seq(S), NEW i \in 1 .. Len(s)
    PROVE  SubSeq(s, i, i + 1 - 1) = <<s[i]>> /\ s[i] \in S
<1>1. i + 1 - 1 = i
  OBVIOUS
<1>2. s[i] \in S /\ i \in Int /\ i <= i
  BY LenProperties
<1>3. \A h \in i .. i : s[h] \in S
  BY <1>2
<1>4. /\ SubSeq(s, i, i) \in Seq(S)
      /\ Len(SubSeq(s, i, i)) = i - i + 1
      /\ \A h \in 1 .. i - i + 1 : SubSeq(s, i, i)[h] = s[i + h - 1]
  BY <1>2, <1>3, SubSeqProperties
<1>5. Len(SubSeq(s, i, i)) = 1 /\ SubSeq(s, i, i)[1] = s[i]
  BY <1>2, <1>4
<1>6. SubSeq(s, i, i) = <<s[i]>>
  <2>1. PICK t \in Seq(S) : t = SubSeq(s, i, i) /\ Len(t) = 1 /\ t[1] = s[i]
    BY <1>4, <1>5
  <2>2. t = <<s[i]>>
    BY <1>2, <2>1, OneElement
  <2> QED BY <2>1, <2>2
<1> QED BY <1>1, <1>2, <1>6

LEMMA SingleReplaced ==
    ASSUME NEW S, NEW ss \in Seq(Seq(S)), NEW c \in S, NEW val \in Seq(S),
           OnlyAlone(ss, c), Occurs(<<c>>, FlattenSeq(ss))
    PROVE  \E i \in 1 .. Len(ss) :
              /\ ss[i] = <<c>>
              /\ str_replace(FlattenSeq(ss), <<c>>, val)
                    = FlattenSeq(ReplaceAt(ss, i, val))
<1>1. PICK t \in Seq(S), key \in Seq(S) :
          /\ t = FlattenSeq(ss) /\ key = <<c>> /\ key # <<>> /\ Len(key) = 1
          /\ Occurs(key, t)
  <2>1. FlattenSeq(ss) \in Seq(S)
    BY FlattenTyped
  <2>2. <<c>> \in Seq(S) /\ <<c>> # <<>> /\ Len(<<c>>) = 1
    OBVIOUS
  <2> QED BY <2>1, <2>2, Zenon
<1>2. PICK j \in 1 .. Len(t) :
          /\ OccursAt(key, t, j)
          /\ str_replace(t, key, val) = ReplacedAt(t, key, val, j)
  <2>1. key # <<>> /\ Occurs(key, t)
    BY <1>1, Zenon
  <2> QED BY <2>1, FirstReplaced
<1>3. PICK i \in 1 .. Len(ss), u \in Seq(S), v \in Seq(S) :
          /\ Around(ss, i, u, v) /\ t = Then(u, Then(ss[i], v))
          /\ j - Len(u) \in 1 .. Len(ss[i])
  BY <1>1, <1>2, PieceFound
<1>4. ss[i] \in Seq(S)
  BY LenProperties
<1>5. Cut(t, u, ss[i], v)
  BY <1>3, <1>4, ThenCut
<1>6. PICK a \in Nat, n \in Nat : a = Len(u) /\ n = Len(t)
  BY LenProperties
<1>7. t[j] = c
  <2>1. SubSeq(t, j, j + 1 - 1) = <<c>>
    BY <1>1, <1>2 DEF OccursAt
  <2>2. SubSeq(t, j, j + 1 - 1) = <<t[j]>>
    BY SubSeqOne
  <2> QED BY <2>1, <2>2
<1>8. ss[i] = <<c>>
  <2>0. j - a \in 1 .. Len(ss[i]) /\ a + (j - a) = j
    BY <1>3, <1>6
  <2>1. PICK o \in 1 .. Len(ss[i]) : o = j - a /\ a + o = j
    BY <2>0
  <2>2. t[Len(u) + o] = ss[i][o]
    BY <1>5, <2>1 DEF Cut
  <2> QED BY <1>6, <1>7, <2>1, <2>2 DEF OnlyAlone
<1>9. j = a + 1
  <2>1. Len(ss[i]) = 1 /\ j - a \in 1 .. Len(ss[i])
    BY <1>3, <1>6, <1>8
  <2> QED BY <1>6, <2>1
<1>10. u = SubSeq(t, 1, j - 1) /\ v = SubSeq(t, j + Len(key), Len(t))
  <2>1. a + 1 + 1 = j + 1 /\ a = j - 1
    BY <1>9
  <2>2. Len(ss[i]) = 1
    BY <1>8
  <2> QED BY <1>1, <1>5, <1>6, <2>1, <2>2 DEF Cut
<1>11. FlattenSeq(ReplaceAt(ss, i, val)) = Then(u, Then(val, v))
  <2>1. Around(ss, i, u, v)
    BY <1>3
  <2> QED BY <2>1, PieceReplaced
<1> QED BY <1>1, <1>2, <1>8, <1>10, <1>11 DEF ReplacedAt

\* What does not occur in the text is in no piece of it.
LEMMA InNoPiece ==
    ASSUME NEW S, NEW ss \in Seq(Seq(S)), NEW c \in S,
           ~ Occurs(<<c>>, FlattenSeq(ss)),
           NEW i \in 1 .. Len(ss), NEW o \in 1 .. Len(ss[i])
    PROVE  ss[i][o] # c
<1>1. PICK t \in Seq(S), n \in Nat : t = FlattenSeq(ss) /\ n = Len(t)
  <2>1. FlattenSeq(ss) \in Seq(S)
    BY FlattenTyped
  <2> QED BY <2>1, LenProperties
<1>2. PICK u \in Seq(S), v \in Seq(S) : t = Then(u, Then(ss[i], v))
  BY <1>1, PiecesAround
<1>3. ss[i] \in Seq(S)
  BY LenProperties
<1>4. Cut(t, u, ss[i], v)
  BY <1>2, <1>3, ThenCut
<1>5. PICK a \in Nat, b \in Nat, d \in Nat :
          a = Len(u) /\ b = Len(ss[i]) /\ d = Len(v)
  BY <1>3, LenProperties
<1>6. PICK j \in 1 .. n : t[j] = ss[i][o]
  <2>1. t[a + o] = ss[i][o] /\ n = a + b + d
    BY <1>1, <1>4, <1>5 DEF Cut
  <2>2. o \in 1 .. b /\ n = a + b + d
    BY <1>5, <2>1, Zenon
  <2>3. a + o \in 1 .. n
    BY <2>2
  <2> QED BY <2>1, <2>3, Zenon
<1>7. SUFFICES ASSUME t[j] = c PROVE FALSE
  BY <1>6
<1>8. SubSeq(t, j, j + 1 - 1) = <<c>>
  BY <1>1, <1>7, SubSeqOne
<1>9. Len(<<c>>) = 1 /\ j \in 1 .. n + 1 - 1
  OBVIOUS
<1> QED BY <1>1, <1>8, <1>9 DEF Occurs

\* Where a character, and where two, occur.
LEMMA CharacterAt ==
    ASSUME NEW S, NEW s \in Seq(S), NEW c \in S
    PROVE  /\ \A i : OccursAt(<<c>>, s, i) <=> i \in 1 .. Len(s) /\ s[i] = c
           /\ Occurs(<<c>>, s) <=> \E i \in 1 .. Len(s) : s[i] = c
<1>1. Len(<<c>>) = 1
  OBVIOUS
<1>2. PICK n \in Nat : n = Len(s)
  BY LenProperties
<1>3. 1 .. n + 1 - 1 = 1 .. n
  OBVIOUS
<1>4. ASSUME NEW i \in 1 .. n
      PROVE  SubSeq(s, i, i + 1 - 1) = <<c>> <=> s[i] = c
  <2>1. SubSeq(s, i, i + 1 - 1) = <<s[i]>>
    BY <1>2, SubSeqOne
  <2> QED BY <2>1
<1>5. \A i : OccursAt(<<c>>, s, i) <=> i \in 1 .. Len(s) /\ s[i] = c
  BY <1>1, <1>2, <1>3, <1>4 DEF OccursAt
<1>6. Occurs(<<c>>, s) <=> \E i \in 1 .. Len(s) : s[i] = c
  BY <1>1, <1>2, <1>3, <1>4 DEF Occurs
<1> QED BY <1>5, <1>6

LEMMA SubSeqTwo ==
    ASSUME NEW S, NEW s \in Seq(S), NEW i \in 1 .. Len(s), i + 1 <= Len(s)
    PROVE  /\ SubSeq(s, i, i + 2 - 1) = <<s[i], s[i + 1]>>
           /\ s[i] \in S /\ s[i + 1] \in S
<1>1. PICK n \in Nat, k \in Nat :
          /\ n = Len(s) /\ s \in [1 .. n -> S]
          /\ k = i + 1 /\ i \in 1 .. n /\ k \in 1 .. n
  BY LenProperties
<1>2. i + 2 - 1 = k /\ i \in Int /\ k \in Int /\ i <= k
  BY <1>1
<1>3. \A h \in i .. k : s[h] \in S
  BY <1>1
<1>4. /\ SubSeq(s, i, k) \in Seq(S)
      /\ Len(SubSeq(s, i, k)) = IF i <= k THEN k - i + 1 ELSE 0
      /\ \A h \in 1 .. k - i + 1 : SubSeq(s, i, k)[h] = s[i + h - 1]
  BY <1>2, <1>3, SubSeqProperties
<1>5. k - i + 1 = 2 /\ i + 1 - 1 = i /\ i + 2 - 1 = k
  BY <1>1
<1>6. PICK t \in Seq(S) :
          t = SubSeq(s, i, k) /\ Len(t) = 2 /\ t[1] = s[i] /\ t[2] = s[k]
  <2>1. 1 \in 1 .. k - i + 1 /\ 2 \in 1 .. k - i + 1
    BY <1>5
  <2> QED BY <1>2, <1>4, <1>5, <2>1
<1>7. t = <<s[i], s[k]>>
  BY <1>1, <1>6, TwoElements
<1> QED BY <1>1, <1>2, <1>6, <1>7

LEMMA PairAt ==
    ASSUME NEW S, NEW s \in Seq(S), NEW x \in S, NEW y \in S
    PROVE  /\ \A i : OccursAt(<<x, y>>, s, i) <=>
                       /\ i \in 1 .. Len(s) /\ i + 1 \in 1 .. Len(s)
                       /\ s[i] = x /\ s[i + 1] = y
           /\ Occurs(<<x, y>>, s) <=>
                 \E i \in 1 .. Len(s) : /\ i + 1 \in 1 .. Len(s)
                                        /\ s[i] = x /\ s[i + 1] = y
<1>1. Len(<<x, y>>) = 2
  OBVIOUS
<1>2. PICK n \in Nat : n = Len(s)
  BY LenProperties
<1>3. \A i : i \in 1 .. n + 1 - 2 <=> i \in 1 .. n /\ i + 1 \in 1 .. n
  OBVIOUS
<1>4. ASSUME NEW i \in 1 .. n, i + 1 \in 1 .. n
      PROVE  SubSeq(s, i, i + 2 - 1) = <<x, y>> <=> s[i] = x /\ s[i + 1] = y
  <2>1. SubSeq(s, i, i + 2 - 1) = <<s[i], s[i + 1]>>
    BY <1>2, <1>4, SubSeqTwo
  <2> QED BY <2>1
<1>5. \A i : OccursAt(<<x, y>>, s, i) <=>
                /\ i \in 1 .. Len(s) /\ i + 1 \in 1 .. Len(s)
                /\ s[i] = x /\ s[i + 1] = y
  BY <1>1, <1>2, <1>3, <1>4 DEF OccursAt
<1>6. Occurs(<<x, y>>, s) <=>
          \E i \in 1 .. Len(s) : /\ i + 1 \in 1 .. Len(s)
                                 /\ s[i] = x /\ s[i + 1] = y
  BY <1>1, <1>2, <1>3, <1>4 DEF Occurs
<1> QED BY <1>5, <1>6

\* str_replace of a character.
LEMMA CharacterReplaced ==
    ASSUME NEW S, NEW s \in Seq(S), NEW c \in S, NEW val \in Seq(S),
           Occurs(<<c>>, s)
    PROVE  \E i \in 1 .. Len(s) :
              /\ s[i] = c /\ \A h \in 1 .. i - 1 : s[h] # c
              /\ str_replace(s, <<c>>, val)
                    = FlattenSeq(ReplaceAt(Units(s), i, val))
<1>1. PICK key \in Seq(S) : key = <<c>> /\ key # <<>> /\ Len(key) = 1
  <2>1. <<c>> \in Seq(S) /\ <<c>> # <<>> /\ Len(<<c>>) = 1
    OBVIOUS
  <2> QED BY <2>1
<1>2. PICK i \in 1 .. Len(s) :
          /\ OccursAt(key, s, i)
          /\ \A h \in 1 .. i - 1 : ~ OccursAt(key, s, h)
          /\ str_replace(s, key, val) = ReplacedAt(s, key, val, i)
  BY <1>1, FirstReplaced
<1>3. s[i] = c /\ \A h \in 1 .. i - 1 : s[h] # c
  <2>1. ASSUME NEW h \in 1 .. i - 1, s[h] = c PROVE FALSE
    <3>1. h \in 1 .. Len(s)
      BY LenProperties
    <3> QED BY <1>1, <1>2, <2>1, <3>1, CharacterAt
  <2>2. s[i] = c
    BY <1>1, <1>2, CharacterAt
  <2> QED BY <2>1, <2>2
<1>4. PICK u \in Seq(S), v \in Seq(S) :
          /\ u = SubSeq(s, 1, i - 1) /\ v = SubSeq(s, i + 1, Len(s))
          /\ Around(Units(s), i, u, v)
  BY UnitsAround
<1>5. PICK ss \in Seq(Seq(S)) : ss = Units(s) /\ i \in 1 .. Len(ss)
  BY UnitsTyped
<1>6. FlattenSeq(ReplaceAt(Units(s), i, val)) = Then(u, Then(val, v))
  <2>1. Around(ss, i, u, v) /\ i \in 1 .. Len(ss)
    BY <1>4, <1>5
  <2>2. FlattenSeq(ReplaceAt(ss, i, val)) = Then(u, Then(val, v))
    BY <2>1, PieceReplaced
  <2> QED BY <1>5, <2>2
<1>7. ReplacedAt(s, key, val, i) = Then(u, Then(val, v))
  BY <1>1, <1>4, Zenon DEF ReplacedAt
<1> QED BY <1>1, <1>2, <1>3, <1>6, <1>7

\* str_replace of two characters of which the second one stays.
LEMMA PairReplaced ==
    ASSUME NEW S, NEW s \in Seq(S), NEW x \in S, NEW y \in S, NEW z \in S,
           Occurs(<<x, y>>, s)
    PROVE  \E i \in 1 .. Len(s) :
              /\ i + 1 \in 1 .. Len(s) /\ s[i] = x /\ s[i + 1] = y
              /\ str_replace(s, <<x, y>>, <<z, y>>) = ReplaceAt(s, i, z)
<1>1. PICK key \in Seq(S) : key = <<x, y>> /\ key # <<>> /\ Len(key) = 2
  <2>1. <<x, y>> \in Seq(S) /\ <<x, y>> # <<>> /\ Len(<<x, y>>) = 2
    OBVIOUS
  <2> QED BY <2>1
<1>2. PICK val \in Seq(S) : val = <<z, y>>
  <2>1. <<z, y>> \in Seq(S)
    OBVIOUS
  <2> QED BY <2>1
<1>3. PICK i \in 1 .. Len(s) :
          /\ OccursAt(key, s, i)
          /\ str_replace(s, key, val) = ReplacedAt(s, key, val, i)
  BY <1>1, FirstReplaced
<1>4. i + 1 \in 1 .. Len(s) /\ s[i] = x /\ s[i + 1] = y
  BY <1>1, <1>3, PairAt
<1>5. PICK k \in Nat : k = i + 1 /\ k \in i .. Len(s) /\ k + 1 = i + 2
  BY <1>4, LenProperties
<1>6. PICK u \in Seq(S), p \in Seq(S), v \in Seq(S) :
          InThree(s, i, k, u, p, v)
  BY <1>5, ThreeParts
<1>7. p = <<x, y>>
  <2>1. i + 2 - 1 = k /\ i + 1 <= Len(s)
    BY <1>5, LenProperties
  <2>2. SubSeq(s, i, i + 2 - 1) = <<s[i], s[i + 1]>>
    BY <2>1, SubSeqTwo
  <2> QED BY <1>4, <1>6, <2>1, <2>2 DEF InThree
<1>8. 1 \in 1 .. Len(p) /\ ReplaceAt(p, 1, z) = val
  <2>1. Len(p) = 2 /\ p[2] = y
    BY <1>7
  <2>2. PICK r \in Seq(S) :
            r = ReplaceAt(p, 1, z) /\ IsChanged(r, p, 1, z, 2)
    <3>1. 1 \in 1 .. Len(p) /\ 2 = Len(p) /\ 2 \in Nat
      BY <2>1
    <3> QED BY <3>1, ChangedNamed, Zenon
  <2>3. Len(r) = 2 /\ r[1] = z /\ r[2] = y
    BY <2>1, <2>2 DEF IsChanged
  <2>4. r = <<z, y>>
    BY <2>2, <2>3, TwoElements
  <2> QED BY <1>2, <2>1, <2>2, <2>4
<1>9. ReplaceAt(Then(u, Then(p, v)), Len(u) + 1, z) = Then(u, Then(val, v))
  BY <1>8, MiddleChanged
<1>10. Len(u) + 1 = i /\ s = Then(u, Then(p, v))
  BY <1>6 DEF InThree
<1>11. ReplacedAt(s, key, val, i) = Then(u, Then(val, v))
  BY <1>1, <1>5, <1>6 DEF ReplacedAt, InThree
<1> QED BY <1>1, <1>2, <1>3, <1>4, <1>9, <1>10, <1>11

-----------------------------------------------------------------------------
(* xspf_sanitize.  What becomes of each character of the argument s, k     *)
(* being the number of replacements that are left.                         *)

\* Strings, which is all this is, with those that the models name listed: the
\* provers do not know of a literal that it is a string.
Chars ==
    STRING \cup {"/", ":", "!", "&", "'", "<", "%", "amp", "apos", "lt",
                 "playlist", "trackList", "track", "location", "title"}

FirstAmpersand(s, i) == s[i] = "&" /\ \A h \in 1 .. i - 1 : s[h] # "&"

\* A character that is taken for one that was put in on the way.
Mistaken(s, i) == s[i] = "!" /\ i + 1 \in 1 .. Len(s) /\ s[i + 1] = "amp"

\* The replacement that changes a character, by what is left at that time.
Stage(s, i) ==
    IF FirstAmpersand(s, i) \/ Mistaken(s, i) THEN 3
    ELSE IF s[i] = "'" THEN 2 ELSE IF s[i] = "<" THEN 1 ELSE 0

\* What there is of a character before that, and after it.
Kept(s, i) == IF FirstAmpersand(s, i) THEN <<"!", "amp">> ELSE <<s[i]>>
Written(s, i) ==
    IF FirstAmpersand(s, i) THEN <<"&", "amp">>
    ELSE IF Mistaken(s, i) THEN <<"&">>
    ELSE IF s[i] = "'" THEN <<"&", "apos">>
    ELSE IF s[i] = "<" THEN <<"&", "lt">> ELSE <<s[i]>>

Piece(s, i, k, p) ==
    \/ k <= Stage(s, i) /\ p = Written(s, i)
    \/ k >= Stage(s, i) /\ p = Kept(s, i)

Pieces(s, k, ss) ==
    /\ ss \in Seq(Seq(Chars)) /\ Len(ss) = Len(s)
    /\ \A i \in 1 .. Len(s) : Piece(s, i, k, ss[i])

\* The text when k replacements are left.
Rewritten(s, k, t) ==
    IF k = 4 THEN t = s ELSE \E ss : Pieces(s, k, ss) /\ t = FlattenSeq(ss)

LEMMA OneOrTwo ==
    ASSUME NEW S, NEW x \in S, NEW y \in S, NEW p, p = <<x>> \/ p = <<x, y>>
    PROVE  p \in Seq(S) /\ p # <<>> /\ Len(p) \in 1 .. 2
<1>1. <<x>> \in Seq(S) /\ <<x>> # <<>> /\ Len(<<x>>) = 1
  OBVIOUS
<1>2. <<x, y>> \in Seq(S) /\ <<x, y>> # <<>> /\ Len(<<x, y>>) = 2
  OBVIOUS
<1>3. 1 \in 1 .. 2 /\ 2 \in 1 .. 2
  OBVIOUS
<1>4. CASE p = <<x>>
  BY <1>1, <1>3, <1>4
<1>5. CASE p = <<x, y>>
  BY <1>2, <1>3, <1>5
<1> QED BY <1>4, <1>5

LEMMA PieceShort ==
    ASSUME NEW s \in Seq(Chars), NEW i \in 1 .. Len(s), NEW k, NEW p,
           Piece(s, i, k, p)
    PROVE  p \in Seq(Chars) /\ p # <<>> /\ Len(p) \in 1 .. 2
<1>1. PICK c \in Chars : c = s[i]
  BY LenProperties
<1>2. \/ p = <<"!", "amp">> \/ p = <<c>> \/ p = <<"&", "amp">> \/ p = <<"&">>
      \/ p = <<"&", "apos">> \/ p = <<"&", "lt">>
  BY <1>1 DEF Piece, Written, Kept
<1>3. \E x, y \in Chars : p = <<x>> \/ p = <<x, y>>
  <2>1. /\ "!" \in Chars /\ "&" \in Chars /\ "amp" \in Chars
        /\ "apos" \in Chars /\ "lt" \in Chars
    BY DEF Chars
  <2> QED BY <1>2, <2>1, Zenon
<1> QED BY <1>3, OneOrTwo, Zenon

\* The two replacements of one character each.
Single(k, c, val) ==
    \/ k = 2 /\ c = "'" /\ val = <<"&", "apos">>
    \/ k = 1 /\ c = "<" /\ val = <<"&", "lt">>

LEMMA SinglePiece ==
    ASSUME NEW s \in Seq(Chars), NEW i \in 1 .. Len(s),
           NEW k, NEW c, NEW val, Single(k, c, val), NEW p, Piece(s, i, k, p)
    PROVE  /\ \A o \in 1 .. Len(p) : p[o] = c => p = <<c>>
           /\ p = <<c>> => Piece(s, i, k, val)
           /\ p # <<c>> => Piece(s, i, k - 1, p)
<1>1. s[i] \in Chars
  BY LenProperties
<1>2. ASSUME NEW o \in 1 .. Len(p), p[o] = c PROVE p = <<c>>
  <2>1. p \in {<<"!", "amp">>, <<s[i]>>, <<"&", "amp">>, <<"&">>}
        \/ (k = 1 /\ p = <<"&", "apos">>) \/ p = val
    BY DEF Piece, Written, Kept, Single, Stage
  <2>2. CASE p = <<s[i]>>
    BY <1>2, <2>2
  <2>3. CASE p \in {<<"!", "amp">>, <<"&", "amp">>}
             \/ (k = 1 /\ p = <<"&", "apos">>) \/ p = val
    <3>1. Len(p) = 2 /\ p[1] \in {"!", "&"} /\ p[2] \in {"amp", "apos", "lt"}
      BY <2>3 DEF Single
    <3>2. o = 1 \/ o = 2
      BY <3>1
    <3> QED BY <1>2, <3>1, <3>2 DEF Single
  <2>4. CASE p = <<"&">>
    BY <1>2, <2>4 DEF Single
  <2> QED BY <2>1, <2>2, <2>3, <2>4
<1>3. ASSUME p = <<c>> PROVE s[i] = c /\ Stage(s, i) = k /\ val = Written(s, i)
  <2>1. p = <<s[i]>> /\ s[i] = c
    BY <1>1, <1>3 DEF Piece, Written, Kept, Single
  <2> QED BY <2>1 DEF Single, Stage, Written, FirstAmpersand, Mistaken
<1>4. p = <<c>> => Piece(s, i, k, val)
  <2>1. k \in Int
    BY DEF Single
  <2> QED BY <1>3, <2>1 DEF Piece
<1>5. ASSUME p # <<c>> PROVE Piece(s, i, k - 1, p)
  <2>1. k \in {1, 2} /\ Stage(s, i) \in 0 .. 3
    BY DEF Single, Stage
  <2>2. CASE k <= Stage(s, i) /\ p = Written(s, i)
    BY <2>1, <2>2 DEF Piece
  <2>3. CASE k > Stage(s, i) /\ p = Kept(s, i)
    BY <2>1, <2>3 DEF Piece
  <2>4. CASE k = Stage(s, i) /\ p = Kept(s, i)
    <3>1. s[i] = c /\ ~ FirstAmpersand(s, i)
      BY <2>4 DEF Single, Stage
    <3> QED BY <1>5, <2>4, <3>1 DEF Kept
  <2> QED BY <2>1, <2>2, <2>3, <2>4 DEF Piece
<1> QED BY <1>2, <1>4, <1>5

LEMMA SingleStep ==
    ASSUME NEW s \in Seq(Chars), NEW k, NEW c \in Chars,
           NEW val \in Seq(Chars), Single(k, c, val),
           NEW ss, Pieces(s, k, ss)
    PROVE  /\ Occurs(<<c>>, FlattenSeq(ss)) =>
                \E tt : /\ Pieces(s, k, tt)
                        /\ str_replace(FlattenSeq(ss), <<c>>, val)
                             = FlattenSeq(tt)
           /\ ~ Occurs(<<c>>, FlattenSeq(ss)) => Pieces(s, k - 1, ss)
<1>1. ss \in Seq(Seq(Chars)) /\ Len(ss) = Len(s)
  BY DEF Pieces
<1>2. \A i \in 1 .. Len(s) :
          /\ \A o \in 1 .. Len(ss[i]) : ss[i][o] = c => ss[i] = <<c>>
          /\ ss[i] = <<c>> => Piece(s, i, k, val)
          /\ ss[i] # <<c>> => Piece(s, i, k - 1, ss[i])
  BY SinglePiece DEF Pieces
<1>3. ASSUME Occurs(<<c>>, FlattenSeq(ss))
      PROVE  \E tt : /\ Pieces(s, k, tt)
                     /\ str_replace(FlattenSeq(ss), <<c>>, val) = FlattenSeq(tt)
  <2>1. OnlyAlone(ss, c)
    BY <1>1, <1>2 DEF OnlyAlone
  <2>2. PICK i \in 1 .. Len(ss) :
            /\ ss[i] = <<c>>
            /\ str_replace(FlattenSeq(ss), <<c>>, val)
                  = FlattenSeq(ReplaceAt(ss, i, val))
    BY <1>1, <1>3, <2>1, SingleReplaced
  <2>3. PICK n \in Nat : n = Len(ss)
    BY <1>1, LenProperties
  <2>4. PICK tt \in Seq(Seq(Chars)) :
            tt = ReplaceAt(ss, i, val) /\ IsChanged(tt, ss, i, val, n)
    BY <1>1, <2>3, ChangedNamed
  <2>5. Pieces(s, k, tt)
    <3>1. Len(tt) = Len(s)
      BY <1>1, <2>3, <2>4 DEF IsChanged
    <3>2. ASSUME NEW j \in 1 .. Len(s) PROVE Piece(s, j, k, tt[j])
      <4>1. tt[j] = IF j = i THEN val ELSE ss[j]
        BY <1>1, <2>3, <2>4 DEF IsChanged
      <4>2. Piece(s, j, k, ss[j])
        BY DEF Pieces
      <4> QED BY <1>2, <2>2, <4>1, <4>2
    <3> QED BY <3>1, <3>2 DEF Pieces
  <2> QED BY <2>2, <2>4, <2>5
<1>4. ASSUME ~ Occurs(<<c>>, FlattenSeq(ss)) PROVE Pieces(s, k - 1, ss)
  <2>1. ASSUME NEW i \in 1 .. Len(s) PROVE Piece(s, i, k - 1, ss[i])
    <3>1. SUFFICES ASSUME ss[i] = <<c>> PROVE FALSE
      BY <1>2
    <3>2. i \in 1 .. Len(ss) /\ 1 \in 1 .. Len(ss[i]) /\ ss[i][1] = c
      BY <1>1, <3>1
    <3> QED BY <1>1, <1>4, <3>2, InNoPiece
  <2> QED BY <1>1, <2>1 DEF Pieces
<1> QED BY <1>3, <1>4

\* Where the two characters are that the second replacement looks for.
LEMMA PairPiece ==
    ASSUME NEW s \in Seq(Chars), NEW ss, Pieces(s, 3, ss),
           NEW i \in 1 .. Len(s), NEW o \in 1 .. Len(ss[i]), ss[i][o] = "!"
    PROVE  /\ o = 1
           /\ \/ ss[i] = <<"!", "amp">> /\ Piece(s, i, 3, <<"&", "amp">>)
              \/ ss[i] = <<"!">> /\ (Mistaken(s, i) => Piece(s, i, 3, <<"&">>))
<1>1. PICK c, p :
          c \in Chars /\ c = s[i] /\ p = ss[i] /\ Piece(s, i, 3, p)
  BY LenProperties DEF Pieces
<1>2. o \in 1 .. Len(p) /\ p[o] = "!"
  BY <1>1
<1>3. CASE p = <<"!", "amp">>
  <2>1. o = 1
    <3>1. Len(p) = 2 /\ p[2] = "amp"
      BY <1>3
    <3>2. o = 1 \/ o = 2
      BY <1>2, <3>1
    <3> QED BY <1>2, <3>1, <3>2
  <2>2. FirstAmpersand(s, i)
    <3>1. /\ <<"!", "amp">> # <<c>> /\ <<"!", "amp">> # <<"&">>
          /\ <<"!", "amp">> # <<"&", "apos">> /\ <<"!", "amp">> # <<"&", "lt">>
      OBVIOUS
    <3>2. ~ FirstAmpersand(s, i) =>
             p \in {<<c>>, <<"&">>, <<"&", "apos">>, <<"&", "lt">>}
      BY <1>1 DEF Piece, Kept, Written
    <3> QED BY <1>3, <3>1, <3>2
  <2> QED BY <1>1, <1>3, <2>1, <2>2 DEF Piece, Stage, Written
<1>4. CASE p = <<c>>
  <2>1. o = 1 /\ c = "!"
    BY <1>2, <1>4
  <2>2. Mistaken(s, i) => Piece(s, i, 3, <<"&">>)
    BY <1>1, <2>1 DEF Piece, Stage, Written, FirstAmpersand
  <2> QED BY <1>1, <1>4, <2>1, <2>2
<1>5. CASE p = <<"&">> \/ p = <<"&", "amp">>
  <2>1. Len(p) \in 1 .. 2 /\ p[1] = "&" /\ (Len(p) = 2 => p[2] = "amp")
    BY <1>5
  <2>2. o = 1 \/ (o = 2 /\ Len(p) = 2)
    BY <1>2, <2>1
  <2> QED BY <1>2, <2>1, <2>2
<1>6. \/ p = <<"!", "amp">> \/ p = <<c>> \/ p = <<"&", "amp">> \/ p = <<"&">>
  BY <1>1 DEF Piece, Written, Kept, Stage
<1> QED BY <1>3, <1>4, <1>5, <1>6

\* "amp" is not changed, and no other piece begins with it.
LEMMA AmpPiece ==
    ASSUME NEW s \in Seq(Chars), NEW i \in 1 .. Len(s), NEW k, NEW p,
           Piece(s, i, k, p)
    PROVE  p[1] = "amp" <=> s[i] = "amp"
<1>1. PICK c \in Chars : c = s[i]
  BY LenProperties
<1>2. ASSUME c = "amp" PROVE p[1] = "amp"
  BY <1>1, <1>2
     DEF Piece, Written, Kept, FirstAmpersand, Mistaken
<1>3. ASSUME p[1] = "amp" PROVE c = "amp"
  <2>1. p[1] \in {c, "!", "&"}
    BY <1>1 DEF Piece, Written, Kept
  <2> QED BY <1>3, <2>1
<1> QED BY <1>1, <1>2, <1>3

LEMMA PairStep ==
    ASSUME NEW s \in Seq(Chars), NEW ss, Pieces(s, 3, ss),
           Occurs(<<"!", "amp">>, FlattenSeq(ss))
    PROVE  \E tt : /\ Pieces(s, 3, tt)
                   /\ str_replace(FlattenSeq(ss), <<"!", "amp">>, <<"&", "amp">>)
                        = FlattenSeq(tt)
<1>1. ss \in Seq(Seq(Chars)) /\ Len(ss) = Len(s)
  BY DEF Pieces
<1>2. PICK t \in Seq(Chars) : t = FlattenSeq(ss)
  BY <1>1, FlattenTyped
<1>3. PICK n \in Nat, m \in Nat : n = Len(ss) /\ m = Len(t)
  BY <1>1, LenProperties
<1>4. PICK j \in 1 .. m :
          /\ j + 1 \in 1 .. m /\ t[j] = "!" /\ t[j + 1] = "amp"
          /\ str_replace(t, <<"!", "amp">>, <<"&", "amp">>)
                = ReplaceAt(t, j, "&")
  <2>1. "!" \in Chars /\ "&" \in Chars /\ "amp" \in Chars
    BY DEF Chars
  <2> QED BY <1>2, <1>3, <2>1, PairReplaced
<1>5. PICK i \in 1 .. n, u \in Seq(Chars), v \in Seq(Chars) :
          /\ Around(ss, i, u, v) /\ t = Then(u, Then(ss[i], v))
          /\ j - Len(u) \in 1 .. Len(ss[i])
  BY <1>1, <1>2, <1>3, <1>4, PieceFound
<1>6. PICK p \in Seq(Chars) : p = ss[i]
  BY <1>1, <1>3, LenProperties
<1>7. Cut(t, u, p, v)
  BY <1>5, <1>6, ThenCut
<1>8. PICK a \in Nat, b \in Nat, d \in Nat :
          a = Len(u) /\ b = Len(p) /\ d = Len(v)
  BY LenProperties
<1>9. PICK o \in 1 .. b : o = j - a /\ a + o = j
  <2>1. j - a \in 1 .. b /\ a + (j - a) = j
    BY <1>5, <1>6, <1>8
  <2> QED BY <2>1
<1>10. p[o] = "!"
  <2>1. t[Len(u) + o] = p[o]
    BY <1>7, <1>8 DEF Cut
  <2> QED BY <1>4, <1>8, <1>9, <2>1
<1>11. /\ i \in 1 .. Len(s) /\ o \in 1 .. Len(ss[i]) /\ o = 1
       /\ \/ p = <<"!", "amp">> /\ Piece(s, i, 3, <<"&", "amp">>)
          \/ p = <<"!">> /\ (Mistaken(s, i) => Piece(s, i, 3, <<"&">>))
  <2>1. i \in 1 .. Len(s) /\ o \in 1 .. Len(ss[i]) /\ ss[i][o] = "!"
    BY <1>1, <1>3, <1>6, <1>8, <1>10
  <2> QED BY <1>6, <2>1, PairPiece
<1>12. ASSUME p = <<"!">> PROVE Mistaken(s, i)
  <2>1. b = 1 /\ j = a + 1 /\ m = a + 1 + d /\ d >= 1
    <3>1. b = 1
      BY <1>8, <1>12
    <3>2. m = a + b + d
      BY <1>3, <1>7, <1>8 DEF Cut
    <3> QED BY <1>4, <1>9, <3>1, <3>2
  <2>2. v # <<>> /\ v[1] = "amp"
    <3>0. 1 \in 1 .. Len(v)
      BY <1>8, <2>1
    <3>1. 1 \in 1 .. Len(v) /\ t[Len(u) + Len(p) + 1] = v[1]
      BY <1>7, <3>0 DEF Cut
    <3>2. Len(u) + Len(p) + 1 = j + 1
      BY <1>8, <2>1
    <3> QED BY <1>4, <3>1, <3>2
  <2>3. \A h \in 1 .. Len(ss) : ss[h] # <<>>
    BY <1>1, PieceShort DEF Pieces
  <2>4. i + 1 \in 1 .. Len(ss) /\ v[1] = ss[i + 1][1]
    <3>1. /\ ss \in Seq(Seq(Chars)) /\ i \in 1 .. Len(ss)
          /\ Around(ss, i, u, v) /\ v # <<>>
      BY <1>1, <1>3, <1>5, <2>2
    <3> QED BY <2>3, <3>1, NextPiece
  <2>5. i + 1 \in 1 .. Len(s) /\ Piece(s, i + 1, 3, ss[i + 1])
    BY <1>1, <2>4 DEF Pieces
  <2>6. s[i + 1] = "amp"
    BY <2>2, <2>4, <2>5, AmpPiece
  <2>7. s[i] = "!"
    <3>1. PICK c \in Chars : c = s[i]
      BY <1>11, LenProperties
    <3>2. Piece(s, i, 3, <<"!">>)
      BY <1>6, <1>11, <1>12 DEF Pieces
    <3>3. <<"!">> # <<"&">> /\ Len(<<"!">>) = 1 /\ (<<"!">> = <<c>> => c = "!")
      OBVIOUS
    <3> QED BY <3>1, <3>2, <3>3 DEF Piece, Written, Kept
  <2> QED BY <2>5, <2>6, <2>7 DEF Mistaken
<1>13. PICK q \in Seq(Chars) : q = ReplaceAt(p, o, "&") /\ Piece(s, i, 3, q)
  <2>1. PICK q \in Seq(Chars) :
            q = ReplaceAt(p, o, "&") /\ IsChanged(q, p, o, "&", b)
    <3>1. "&" \in Chars /\ o \in 1 .. Len(p)
      BY <1>8 DEF Chars
    <3> QED BY <1>8, <3>1, ChangedNamed
  <2>2. CASE p = <<"!", "amp">>
    <3>1. b = 2 /\ p[2] = "amp"
      BY <1>8, <2>2
    <3>2. Len(q) = 2 /\ q[1] = "&" /\ q[2] = "amp"
      BY <1>11, <2>1, <3>1 DEF IsChanged
    <3>3. "&" \in Chars /\ "amp" \in Chars
      BY DEF Chars
    <3>4. q = <<"&", "amp">>
      BY <3>2, <3>3, TwoElements
    <3>5. <<"!", "amp">> # <<"!">>
      OBVIOUS
    <3> QED BY <1>11, <2>1, <2>2, <3>4, <3>5
  <2>3. CASE p = <<"!">>
    <3>1. b = 1
      BY <1>8, <2>3
    <3>2. Len(q) = 1 /\ q[1] = "&"
      BY <1>11, <2>1, <3>1 DEF IsChanged
    <3>3. "&" \in Chars
      BY DEF Chars
    <3>4. q = <<"&">>
      BY <3>2, <3>3, OneElement
    <3>5. <<"!", "amp">> # <<"!">>
      OBVIOUS
    <3> QED BY <1>11, <1>12, <2>1, <2>3, <3>4, <3>5
  <2> QED BY <1>11, <2>2, <2>3
<1>14. PICK tt \in Seq(Seq(Chars)) :
           tt = ReplaceAt(ss, i, q) /\ IsChanged(tt, ss, i, q, n)
  BY <1>1, <1>3, ChangedNamed
<1>15. Pieces(s, 3, tt)
  <2>1. Len(tt) = Len(s)
    BY <1>1, <1>3, <1>14 DEF IsChanged
  <2>2. ASSUME NEW h \in 1 .. Len(s) PROVE Piece(s, h, 3, tt[h])
    <3>1. tt[h] = IF h = i THEN q ELSE ss[h]
      BY <1>1, <1>3, <1>14 DEF IsChanged
    <3>2. Piece(s, h, 3, ss[h])
      BY DEF Pieces
    <3> QED BY <1>13, <3>1, <3>2
  <2> QED BY <2>1, <2>2 DEF Pieces
<1>16. FlattenSeq(tt) = ReplaceAt(t, j, "&")
  <2>1. PieceAt(Chars, ss, i, u, v)
    BY <1>1, <1>2, <1>3, <1>5 DEF PieceAt
  <2>2. ChangeIn(Chars, ss, i, u, o, "&", q, j)
    BY <1>6, <1>8, <1>9, <1>13 DEF Chars, ChangeIn
  <2>3. FlattenSeq(ReplaceAt(ss, i, q)) = ReplaceAt(FlattenSeq(ss), j, "&")
    BY <2>1, <2>2, PieceChanged, SMT
  <2> QED BY <1>2, <1>14, <2>3
<1> QED BY <1>2, <1>4, <1>15, <1>16

LEMMA PairGone ==
    ASSUME NEW s \in Seq(Chars), NEW ss, Pieces(s, 3, ss),
           ~ Occurs(<<"!", "amp">>, FlattenSeq(ss))
    PROVE  Pieces(s, 2, ss)
<1>1. ss \in Seq(Seq(Chars)) /\ Len(ss) = Len(s)
  BY DEF Pieces
<1>2. PICK t \in Seq(Chars), m \in Nat : t = FlattenSeq(ss) /\ m = Len(t)
  <2>1. FlattenSeq(ss) \in Seq(Chars)
    BY <1>1, FlattenTyped
  <2> QED BY <2>1, LenProperties
<1>3. ASSUME NEW j \in 1 .. m, j + 1 \in 1 .. m, t[j] = "!", t[j + 1] = "amp"
      PROVE  FALSE
  <2>1. "!" \in Chars /\ "amp" \in Chars
    BY DEF Chars
  <2> QED BY <1>2, <1>3, <2>1, PairAt
<1>4. ASSUME NEW i \in 1 .. Len(s) PROVE Piece(s, i, 2, ss[i])
  <2>1. Piece(s, i, 3, ss[i])
    BY DEF Pieces
  <2>2. SUFFICES ASSUME Stage(s, i) = 3, ss[i] = Kept(s, i) PROVE FALSE
    <3>1. Stage(s, i) \in {0, 1, 2, 3}
      BY DEF Stage
    <3> QED BY <2>1, <3>1 DEF Piece
  <2>3. i \in 1 .. Len(ss)
    BY <1>1
  <2>4. PICK p \in Seq(Chars) : p = ss[i]
    BY <1>1, <2>3, LenProperties
  <2>5. PICK u \in Seq(Chars), v \in Seq(Chars) :
            Around(ss, i, u, v) /\ t = Then(u, Then(p, v))
    BY <1>1, <1>2, <2>3, <2>4, PiecesAround
  <2>6. Cut(t, u, p, v)
    BY <2>5, ThenCut
  <2>7. PICK a \in Nat, b \in Nat, d \in Nat :
            a = Len(u) /\ b = Len(p) /\ d = Len(v)
    BY LenProperties
  <2>8. /\ m = a + b + d
        /\ \A o \in 1 .. b : t[a + o] = p[o]
        /\ \A o \in 1 .. d : t[a + b + o] = v[o]
    BY <1>2, <2>6, <2>7 DEF Cut
  <2>9. CASE FirstAmpersand(s, i)
    <3>1. p = <<"!", "amp">>
      BY <2>2, <2>4, <2>9 DEF Kept
    <3>2. b = 2 /\ p[1] = "!" /\ p[2] = "amp"
      BY <2>7, <3>1
    <3>3. PICK j \in Nat : j = a + 1 /\ j + 1 = a + 2
      OBVIOUS
    <3>4. j \in 1 .. m /\ j + 1 \in 1 .. m
      BY <2>8, <3>2, <3>3
    <3>5. t[a + 1] = "!" /\ t[a + 2] = "amp"
      <4>1. 1 \in 1 .. b /\ 2 \in 1 .. b
        BY <3>2
      <4> QED BY <2>8, <3>2, <4>1
    <3> QED BY <1>3, <3>3, <3>4, <3>5
  <2>10. CASE ~ FirstAmpersand(s, i)
    <3>1. Mistaken(s, i)
      BY <2>2, <2>10 DEF Stage
    <3>2. /\ s[i] = "!" /\ i + 1 \in 1 .. Len(s) /\ s[i + 1] = "amp"
          /\ p = <<"!">>
      BY <2>2, <2>4, <2>10, <3>1 DEF Mistaken, Kept
    <3>3. Piece(s, i + 1, 3, ss[i + 1])
      BY <3>2 DEF Pieces
    <3>4. ss[i + 1][1] = "amp" /\ ss[i + 1] # <<>>
      BY <3>2, <3>3, AmpPiece, PieceShort
    <3>5. v # <<>> /\ v[1] = "amp"
      <4>1. i + 1 <= Len(ss)
        BY <1>1, <3>2, LenProperties
      <4>2. /\ ss \in Seq(Seq(Chars)) /\ i \in 1 .. Len(ss)
            /\ Around(ss, i, u, v) /\ ss[i + 1] # <<>>
        BY <1>1, <2>3, <2>5, <3>4
      <4>3. v # <<>> /\ v[1] = ss[i + 1][1]
        BY <4>1, <4>2, FollowingPiece
      <4> QED BY <3>4, <4>3, Zenon
    <3>6. b = 1 /\ p[1] = "!" /\ d >= 1
      <4>1. d # 0
        BY <2>7, <3>5, EmptySeq
      <4> QED BY <2>7, <3>2, <4>1
    <3>7. PICK j \in Nat : j = a + 1 /\ j + 1 = a + b + 1
      BY <3>6
    <3>8. j \in 1 .. m /\ j + 1 \in 1 .. m
      BY <2>8, <3>6, <3>7
    <3>9. t[a + 1] = "!" /\ t[a + b + 1] = "amp"
      <4>1. 1 \in 1 .. b /\ 1 \in 1 .. d
        BY <3>6
      <4> QED BY <2>8, <3>5, <3>6, <4>1
    <3> QED BY <1>3, <3>7, <3>8, <3>9
  <2> QED BY <2>9, <2>10
<1> QED BY <1>1, <1>4 DEF Pieces

\* The first replacement makes pieces of the text.
LEMMA AmpersandStep ==
    ASSUME NEW s \in Seq(Chars)
    PROVE  /\ Occurs(<<"&">>, s) =>
                \E tt : /\ Pieces(s, 3, tt)
                        /\ str_replace(s, <<"&">>, <<"!", "amp">>)
                             = FlattenSeq(tt)
           /\ ~ Occurs(<<"&">>, s) =>
                \E tt : Pieces(s, 3, tt) /\ s = FlattenSeq(tt)
<1>1. PICK ss \in Seq(Seq(Chars)) :
          /\ ss = Units(s) /\ Len(ss) = Len(s) /\ FlattenSeq(ss) = s
          /\ \A i \in 1 .. Len(s) : ss[i] = <<s[i]>>
  <2>1. /\ Units(s) \in Seq(Seq(Chars)) /\ Len(Units(s)) = Len(s)
        /\ \A i \in 1 .. Len(s) : Units(s)[i] = <<s[i]>>
    BY UnitsTyped
  <2>2. FlattenSeq(Units(s)) = s
    BY FlattenUnits
  <2> QED BY <2>1, <2>2, Zenon
<1>2. PICK n \in Nat : n = Len(s)
  BY LenProperties
<1>3. "&" \in Chars
  BY DEF Chars
<1>4. ASSUME NEW i \in 1 .. n, ~ FirstAmpersand(s, i)
      PROVE  Piece(s, i, 3, <<s[i]>>)
  BY <1>4 DEF Piece, Kept, Stage
<1>5. ASSUME Occurs(<<"&">>, s)
      PROVE  \E tt : /\ Pieces(s, 3, tt)
                     /\ str_replace(s, <<"&">>, <<"!", "amp">>) = FlattenSeq(tt)
  <2>1. PICK val \in Seq(Chars) : val = <<"!", "amp">>
    <3>1. "!" \in Chars /\ "amp" \in Chars
      BY DEF Chars
    <3>2. <<"!", "amp">> \in Seq(Chars)
      BY <3>1
    <3> QED BY <3>2
  <2>2. PICK i \in 1 .. n :
            /\ s[i] = "&" /\ \A h \in 1 .. i - 1 : s[h] # "&"
            /\ str_replace(s, <<"&">>, val)
                  = FlattenSeq(ReplaceAt(Units(s), i, val))
    BY <1>2, <1>3, <1>5, CharacterReplaced
  <2>3. PICK tt \in Seq(Seq(Chars)) :
            tt = ReplaceAt(ss, i, val) /\ IsChanged(tt, ss, i, val, n)
    <3>1. i \in 1 .. Len(ss) /\ n = Len(ss)
      BY <1>1, <1>2
    <3> QED BY <3>1, ChangedNamed
  <2>4. FirstAmpersand(s, i)
    BY <2>2 DEF FirstAmpersand
  <2>5. ASSUME NEW j \in 1 .. n, FirstAmpersand(s, j) PROVE j = i
    <3>1. ~ (j \in 1 .. i - 1) /\ ~ (i \in 1 .. j - 1)
      BY <2>2, <2>4, <2>5 DEF FirstAmpersand
    <3> QED BY <3>1
  <2>6. ASSUME NEW j \in 1 .. n PROVE Piece(s, j, 3, tt[j])
    <3>1. tt[j] = IF j = i THEN val ELSE <<s[j]>>
      BY <1>1, <1>2, <2>3 DEF IsChanged
    <3>2. CASE j = i
      BY <2>1, <2>4, <3>1, <3>2 DEF Piece, Kept, Stage
    <3>3. CASE j # i
      BY <1>4, <2>5, <3>1, <3>3
    <3> QED BY <3>2, <3>3
  <2>7. Pieces(s, 3, tt)
    BY <1>2, <2>3, <2>6 DEF Pieces, IsChanged
  <2> QED BY <1>1, <2>1, <2>2, <2>3, <2>7
<1>6. ASSUME ~ Occurs(<<"&">>, s) PROVE Pieces(s, 3, ss)
  <2>1. \A i \in 1 .. n : ~ FirstAmpersand(s, i)
    BY <1>2, <1>3, <1>6, CharacterAt DEF FirstAmpersand
  <2> QED BY <1>1, <1>2, <1>4, <2>1 DEF Pieces
<1> QED BY <1>1, <1>5, <1>6

\* The edits of XmlEdits, by what is left when they are done, and what is left.
Edit(k) ==
    IF k = 4 THEN Once(<<"&">>, <<"!", "amp">>)
    ELSE IF k = 3 THEN All(<<"!", "amp">>, <<"&", "amp">>)
    ELSE IF k = 2 THEN All(<<"'">>, <<"&", "apos">>)
    ELSE All(<<"<">>, <<"&", "lt">>)

Left(k) ==
    IF k = 4 THEN <<Edit(4), Edit(3), Edit(2), Edit(1)>>
    ELSE IF k = 3 THEN <<Edit(3), Edit(2), Edit(1)>>
    ELSE IF k = 2 THEN <<Edit(2), Edit(1)>>
    ELSE IF k = 1 THEN <<Edit(1)>> ELSE <<>>

LEMMA HeadAndTail ==
    ASSUME NEW a, NEW b, NEW c, NEW d
    PROVE  /\ Head(<<a>>) = a /\ Tail(<<a>>) = <<>> /\ <<a>> # <<>>
           /\ Head(<<a, b>>) = a /\ Tail(<<a, b>>) = <<b>> /\ <<a, b>> # <<>>
           /\ Head(<<a, b, c>>) = a /\ Tail(<<a, b, c>>) = <<b, c>>
           /\ <<a, b, c>> # <<>>
           /\ Head(<<a, b, c, d>>) = a /\ Tail(<<a, b, c, d>>) = <<b, c, d>>
           /\ <<a, b, c, d>> # <<>>
OBVIOUS

LEMMA LeftIs ==
    /\ XmlEdits = Left(4) /\ Left(0) = <<>>
    /\ \A k \in 1 .. 4 : /\ Left(k) # <<>> /\ Head(Left(k)) = Edit(k)
                         /\ Tail(Left(k)) = Left(k - 1)
<1>1. XmlEdits = Left(4) /\ Left(0) = <<>>
  BY DEF XmlEdits, Left, Edit
<1>2. ASSUME NEW k \in 1 .. 4
      PROVE  /\ Left(k) # <<>> /\ Head(Left(k)) = Edit(k)
             /\ Tail(Left(k)) = Left(k - 1)
  <2>1. CASE k = 4
    BY <2>1, HeadAndTail DEF Left
  <2>2. CASE k = 3
    BY <2>2, HeadAndTail DEF Left
  <2>3. CASE k = 2
    BY <2>3, HeadAndTail DEF Left
  <2>4. CASE k = 1
    BY <2>4, HeadAndTail DEF Left
  <2> QED BY <2>1, <2>2, <2>3, <2>4
<1> QED BY <1>1, <1>2

\* One turn of a loop of xspf_sanitize.
LEMMA XmlStep ==
    ASSUME NEW s \in Seq(Chars), NEW k \in 1 .. 4, NEW t, Rewritten(s, k, t)
    PROVE  /\ Occurs(Edit(k).key, t) =>
                Rewritten(s, IF Edit(k).all THEN k ELSE k - 1,
                          str_replace(t, Edit(k).key, Edit(k).val))
           /\ ~ Occurs(Edit(k).key, t) => Rewritten(s, k - 1, t)
<1>1. CASE k = 4
  <2>1. /\ t = s /\ Edit(k).key = <<"&">> /\ Edit(k).val = <<"!", "amp">>
        /\ ~ Edit(k).all
    BY <1>1 DEF Rewritten, Edit, Once
  <2>2. k - 1 = 3 /\ 3 # 4
    BY <1>1
  <2> QED BY <2>1, <2>2, AmpersandStep DEF Rewritten
<1>2. CASE k = 3
  <2>1. PICK ss : Pieces(s, 3, ss) /\ t = FlattenSeq(ss)
    BY <1>2 DEF Rewritten
  <2>2. /\ Edit(k).key = <<"!", "amp">> /\ Edit(k).val = <<"&", "amp">>
        /\ Edit(k).all
    BY <1>2 DEF Edit, All
  <2>3. Occurs(<<"!", "amp">>, t) =>
           \E tt : /\ Pieces(s, 3, tt)
                   /\ str_replace(t, <<"!", "amp">>, <<"&", "amp">>)
                        = FlattenSeq(tt)
    BY <2>1, PairStep
  <2>4. ~ Occurs(<<"!", "amp">>, t) => Pieces(s, 2, ss)
    BY <2>1, PairGone
  <2>5. k - 1 = 2 /\ 3 # 4 /\ 2 # 4
    BY <1>2
  <2> QED BY <1>2, <2>1, <2>2, <2>3, <2>4, <2>5 DEF Rewritten
<1>3. CASE k \in {1, 2}
  <2>1. PICK ss : Pieces(s, k, ss) /\ t = FlattenSeq(ss)
    BY <1>3 DEF Rewritten
  <2>2. PICK c \in Chars, val \in Seq(Chars) :
            /\ Single(k, c, val) /\ Edit(k).key = <<c>> /\ Edit(k).val = val
            /\ Edit(k).all
    <3>1. "'" \in Chars /\ "<" \in Chars /\ "&" \in Chars /\ "apos" \in Chars
          /\ "lt" \in Chars
      BY DEF Chars
    <3>2. <<"&", "apos">> \in Seq(Chars) /\ <<"&", "lt">> \in Seq(Chars)
      BY <3>1
    <3>3. CASE k = 2
      <4>1. Single(k, "'", <<"&", "apos">>) /\ Edit(k).key = <<"'">>
            /\ Edit(k).val = <<"&", "apos">> /\ Edit(k).all
        BY <3>3 DEF Single, Edit, All
      <4> QED BY <3>1, <3>2, <4>1
    <3>4. CASE k = 1
      <4>1. Single(k, "<", <<"&", "lt">>) /\ Edit(k).key = <<"<">>
            /\ Edit(k).val = <<"&", "lt">> /\ Edit(k).all
        BY <3>4 DEF Single, Edit, All
      <4> QED BY <3>1, <3>2, <4>1
    <3> QED BY <1>3, <3>3, <3>4
  <2>3. /\ Occurs(<<c>>, t) =>
             \E tt : /\ Pieces(s, k, tt)
                     /\ str_replace(t, <<c>>, val) = FlattenSeq(tt)
        /\ ~ Occurs(<<c>>, t) => Pieces(s, k - 1, ss)
    <3>1. Single(k, c, val) /\ Pieces(s, k, ss)
      BY <2>1, <2>2
    <3>2. /\ Occurs(<<c>>, FlattenSeq(ss)) =>
               \E tt : /\ Pieces(s, k, tt)
                       /\ str_replace(FlattenSeq(ss), <<c>>, val)
                            = FlattenSeq(tt)
          /\ ~ Occurs(<<c>>, FlattenSeq(ss)) => Pieces(s, k - 1, ss)
      BY <3>1, SingleStep, Zenon
    <3> QED BY <2>1, <3>2
  <2>4. k - 1 # 4 /\ k # 4
    BY <1>3
  <2> QED BY <2>1, <2>2, <2>3, <2>4 DEF Rewritten
<1> QED BY <1>1, <1>2, <1>3

LEMMA RewrittenShort ==
    ASSUME NEW s \in Seq(Chars), NEW k \in 0 .. 4, NEW t, Rewritten(s, k, t)
    PROVE  t \in Seq(Chars) /\ Len(t) <= 2 * Len(s)
<1>1. CASE k = 4
  <2>1. t = s
    BY <1>1 DEF Rewritten
  <2> QED BY <2>1, LenProperties
<1>2. CASE k # 4
  <2>1. PICK ss \in Seq(Seq(Chars)) :
            /\ t = FlattenSeq(ss) /\ Len(ss) = Len(s)
            /\ \A i \in 1 .. Len(s) : Piece(s, i, k, ss[i])
    BY <1>2 DEF Rewritten, Pieces
  <2>2. \A i \in 1 .. Len(s) : Len(ss[i]) \in 1 .. 2
    BY <2>1, PieceShort
  <2>3. ASSUME NEW i \in 1 .. Len(ss) PROVE Len(ss[i]) <= 2
    <3>1. PICK n \in 1 .. 2 : n = Len(ss[i])
      BY <2>1, <2>2
    <3>2. n <= 2
      OBVIOUS
    <3> QED BY <3>1, <3>2
  <2>4. Len(FlattenSeq(ss)) <= 2 * Len(ss)
    BY <2>3, FlattenBound
  <2>5. FlattenSeq(ss) \in Seq(Chars)
    BY FlattenTyped
  <2> QED BY <2>1, <2>4, <2>5
<1> QED BY <1>1, <1>2

\* What a character should become.
EscapedPiece(c) ==
    IF c = "&" THEN <<"&", "amp">> ELSE IF c = "'" THEN <<"&", "apos">>
    ELSE IF c = "<" THEN <<"&", "lt">> ELSE <<c>>

LEMMA EscapedIs ==
    ASSUME NEW s \in Seq(Chars)
    PROVE  \E ee \in Seq(Seq(Chars)) :
              /\ Len(ee) = Len(s) /\ Escaped(s) = FlattenSeq(ee)
              /\ \A i \in 1 .. Len(s) : ee[i] = EscapedPiece(s[i])
<1>1. PICK n \in Nat : n = Len(s) /\ s \in [1 .. n -> Chars] /\ DOMAIN s = 1 .. n
  BY LenProperties
<1>2. "&" \in Chars /\ "amp" \in Chars /\ "apos" \in Chars /\ "lt" \in Chars
  BY DEF Chars
<1>3. ASSUME NEW c \in Chars PROVE EscapedPiece(c) \in Seq(Chars)
  BY <1>2 DEF EscapedPiece
<1> DEFINE ee == [i \in 1 .. n |-> EscapedPiece(s[i])]
<1>4. ee \in [1 .. n -> Seq(Chars)]
  BY <1>1, <1>3
<1>5. ee \in Seq(Seq(Chars)) /\ Len(ee) = n
  BY <1>4
<1>6. Escaped(s) = FlattenSeq(ee)
  <2>1. ASSUME NEW i \in 1 .. n
        PROVE  EscapedPiece(s[i]) =
                  CASE s[i] = "&" -> <<"&", "amp">>
                    [] s[i] = "'" -> <<"&", "apos">>
                    [] s[i] = "<" -> <<"&", "lt">>
                    [] OTHER      -> <<s[i]>>
    BY DEF EscapedPiece
  <2>2. ee = [i \in DOMAIN s |->
                  CASE s[i] = "&" -> <<"&", "amp">>
                    [] s[i] = "'" -> <<"&", "apos">>
                    [] s[i] = "<" -> <<"&", "lt">>
                    [] OTHER      -> <<s[i]>>]
    BY <1>1, <2>1
  <2> HIDE DEF ee
  <2> QED BY <2>2 DEF Escaped
<1> QED BY <1>1, <1>5, <1>6

\* What it becomes is not longer, and right but for two cases.
LEMMA WrittenIs ==
    ASSUME NEW s \in Seq(Chars), NEW i \in 1 .. Len(s),
           NEW p, p = Written(s, i), NEW q, q = EscapedPiece(s[i])
    PROVE  /\ Len(p) <= Len(q)
           /\ p = q <=> /\ ~ Mistaken(s, i)
                        /\ s[i] = "&" => FirstAmpersand(s, i)
           /\ \A o \in 1 .. Len(p) : p[o] \notin {"'", "<"}
<1>1. PICK c \in Chars : c = s[i]
  BY LenProperties
<1>2. Len(<<c>>) = 1 /\ <<c>>[1] = c /\ 1 .. 1 = {1} /\ 1 .. 2 = {1, 2}
  OBVIOUS
<1>3. CASE FirstAmpersand(s, i)
  <2>1. p = <<"&", "amp">> /\ q = <<"&", "amp">> /\ ~ Mistaken(s, i)
    BY <1>3 DEF Written, EscapedPiece, FirstAmpersand, Mistaken
  <2>2. Len(p) = 2 /\ p[1] = "&" /\ p[2] = "amp"
    BY <2>1
  <2> QED BY <1>2, <1>3, <2>1, <2>2
<1>4. CASE ~ FirstAmpersand(s, i) /\ Mistaken(s, i)
  <2>1. p = <<"&">> /\ q = <<"!">>
    BY <1>4 DEF Written, EscapedPiece, Mistaken
  <2>2. Len(p) = 1 /\ p[1] = "&" /\ Len(q) = 1 /\ q[1] = "!"
    BY <2>1
  <2> QED BY <1>2, <1>4, <2>2
<1>5. CASE ~ FirstAmpersand(s, i) /\ ~ Mistaken(s, i) /\ c = "&"
  <2>1. p = <<"&">> /\ q = <<"&", "amp">>
    BY <1>1, <1>5 DEF Written, EscapedPiece
  <2>2. Len(p) = 1 /\ p[1] = "&" /\ Len(q) = 2
    BY <2>1
  <2>3. Len(p) <= Len(q) /\ p # q
    BY <2>2
  <2>4. \A o \in 1 .. Len(p) : p[o] \notin {"'", "<"}
    BY <1>2, <2>2
  <2> QED BY <1>1, <1>5, <2>3, <2>4
<1>6. CASE ~ FirstAmpersand(s, i) /\ ~ Mistaken(s, i) /\ c \in {"'", "<"}
  <2>1. \/ p = <<"&", "apos">> /\ q = <<"&", "apos">>
        \/ p = <<"&", "lt">> /\ q = <<"&", "lt">>
    BY <1>1, <1>6 DEF Written, EscapedPiece
  <2>2. Len(p) = 2 /\ p[1] = "&" /\ p[2] \in {"apos", "lt"} /\ p = q
    BY <2>1
  <2>3. Len(p) <= Len(q) /\ p = q
    BY <2>2
  <2>4. \A o \in 1 .. Len(p) : p[o] \notin {"'", "<"}
    BY <1>2, <2>2
  <2>5. s[i] # "&"
    BY <1>1, <1>6
  <2> QED BY <1>6, <2>3, <2>4, <2>5
<1>7. CASE ~ FirstAmpersand(s, i) /\ ~ Mistaken(s, i) /\ c \notin {"&", "'", "<"}
  <2>1. p = <<c>> /\ q = <<c>>
    BY <1>1, <1>7 DEF Written, EscapedPiece
  <2> QED BY <1>1, <1>2, <1>7, <2>1
<1> QED BY <1>3, <1>4, <1>5, <1>6, <1>7

LEMMA RightTexts ==
    ASSUME NEW s \in Seq(Chars)
    PROVE  /\ OneAmpersand(s) <=>
                 \A i \in 1 .. Len(s) : s[i] = "&" => FirstAmpersand(s, i)
           /\ Occurs(<<"!", "amp">>, s) <=> \E i \in 1 .. Len(s) : Mistaken(s, i)
<1>1. PICK n \in Nat : n = Len(s) /\ DOMAIN s = 1 .. n
  BY LenProperties
<1>2. ASSUME OneAmpersand(s), NEW i \in 1 .. n, s[i] = "&"
      PROVE  FirstAmpersand(s, i)
  <2>1. ASSUME NEW h \in 1 .. i - 1, s[h] = "&" PROVE FALSE
    <3>1. h \in 1 .. n /\ h # i
      OBVIOUS
    <3> QED BY <1>1, <1>2, <2>1, <3>1 DEF OneAmpersand
  <2> QED BY <1>2, <2>1 DEF FirstAmpersand
<1>3. ASSUME \A i \in 1 .. n : s[i] = "&" => FirstAmpersand(s, i)
      PROVE  OneAmpersand(s)
  <2>1. SUFFICES ASSUME NEW i \in 1 .. n, NEW j \in 1 .. n,
                        s[i] = "&", s[j] = "&"
                 PROVE  i = j
    BY <1>1 DEF OneAmpersand
  <2>2. ~ (j \in 1 .. i - 1) /\ ~ (i \in 1 .. j - 1)
    BY <1>3, <2>1 DEF FirstAmpersand
  <2> QED BY <2>2
<1>4. Occurs(<<"!", "amp">>, s) <=> \E i \in 1 .. Len(s) : Mistaken(s, i)
  <2>1. "!" \in Chars /\ "amp" \in Chars
    BY DEF Chars
  <2> QED BY <2>1, PairAt DEF Mistaken
<1> QED BY <1>1, <1>2, <1>3, <1>4

LEMMA XmlResult ==
    ASSUME NEW s \in Seq(Chars), NEW t, Rewritten(s, 0, t)
    PROVE  /\ t = Escaped(s) <=>
                 OneAmpersand(s) /\ ~ Occurs(<<"!", "amp">>, s)
           /\ {"'", "<"} \cap ToSet(t) = {}
<1>1. PICK ss \in Seq(Seq(Chars)) :
          /\ t = FlattenSeq(ss) /\ Len(ss) = Len(s)
          /\ \A i \in 1 .. Len(s) : Piece(s, i, 0, ss[i])
  BY DEF Rewritten, Pieces
<1>2. ASSUME NEW i \in 1 .. Len(s) PROVE ss[i] = Written(s, i)
  <2>1. Piece(s, i, 0, ss[i]) /\ Stage(s, i) \in {0, 1, 2, 3}
    BY <1>1 DEF Stage
  <2>2. Stage(s, i) = 0 => Kept(s, i) = Written(s, i)
    BY DEF Stage, Kept, Written
  <2> QED BY <2>1, <2>2 DEF Piece
<1>3. PICK ee \in Seq(Seq(Chars)) :
          /\ Len(ee) = Len(s) /\ Escaped(s) = FlattenSeq(ee)
          /\ \A i \in 1 .. Len(s) : ee[i] = EscapedPiece(s[i])
  BY EscapedIs
<1>4. \A i \in 1 .. Len(s) :
          /\ Len(ss[i]) <= Len(ee[i])
          /\ ss[i] = ee[i] <=> /\ ~ Mistaken(s, i)
                               /\ s[i] = "&" => FirstAmpersand(s, i)
          /\ \A o \in 1 .. Len(ss[i]) : ss[i][o] \notin {"'", "<"}
  BY <1>2, <1>3, WrittenIs
<1>5. ss = ee <=> \A i \in 1 .. Len(s) : ss[i] = ee[i]
  BY <1>1, <1>3, SeqEqual
<1>6. t = Escaped(s) <=> ss = ee
  <2>1. ASSUME t = Escaped(s) PROVE ss = ee
    <3>1. FlattenSeq(ss) = FlattenSeq(ee) /\ Len(ss) = Len(ee)
      BY <1>1, <1>3, <2>1
    <3>2. \A i \in 1 .. Len(ss) : Len(ss[i]) <= Len(ee[i])
      BY <1>1, <1>4
    <3> QED BY <3>1, <3>2, FlattenMonotonic
  <2> QED BY <1>1, <1>3, <2>1
<1>7. t = Escaped(s) <=> OneAmpersand(s) /\ ~ Occurs(<<"!", "amp">>, s)
  BY <1>4, <1>5, <1>6, RightTexts
<1>8. ASSUME NEW c \in {"'", "<"}, c \in ToSet(t) PROVE FALSE
  <2>1. PICK j \in 1 .. Len(t) : t[j] = c
    <3>1. t \in Seq(Chars)
      BY <1>1, FlattenTyped
    <3> QED BY <1>8, <3>1, LenProperties DEF ToSet
  <2>2. PICK i \in 1 .. Len(ss), u \in Seq(Chars), v \in Seq(Chars) :
            t = Then(u, Then(ss[i], v)) /\ j - Len(u) \in 1 .. Len(ss[i])
    BY <1>1, PieceFound
  <2>3. PICK p \in Seq(Chars) : p = ss[i]
    BY LenProperties
  <2>4. Cut(t, u, p, v)
    BY <2>2, <2>3, ThenCut
  <2>5. PICK a \in Nat, o \in 1 .. Len(p) : a = Len(u) /\ a + o = j
    <3>1. PICK a \in Nat, m \in Nat : a = Len(u) /\ m = Len(t)
      BY <1>1, FlattenTyped, LenProperties
    <3>2. j - a \in 1 .. Len(p) /\ a + (j - a) = j
      BY <2>2, <2>3, <3>1
    <3> QED BY <3>1, <3>2
  <2>6. p[o] = c
    BY <2>1, <2>4, <2>5 DEF Cut
  <2>7. i \in 1 .. Len(s) /\ o \in 1 .. Len(ss[i]) /\ ss[i][o] = c
    BY <1>1, <2>3, <2>6
  <2> QED BY <1>4, <2>7
<1> QED BY <1>7, <1>8

-----------------------------------------------------------------------------
(* Reading a document: OpenElements goes on from one character to the      *)
(* next.                                                                   *)

\* The recursive function within OpenElements.
Scanned(f, doc) ==
    f = [i \in 0 .. Len(doc) |->
            IF i = 0 THEN <<>> ELSE Reading(f[i - 1], doc, i)]

\* f is what is open after each of the first n characters.
Scan(f, doc, n) ==
    f[0] = <<>> /\ \A i \in 1 .. n : f[i] = Reading(f[i - 1], doc, i)

LEMMA ReadingTyped ==
    ASSUME NEW doc \in Seq(Chars), NEW open \in Seq(Chars),
           NEW i \in 1 .. Len(doc)
    PROVE  Reading(open, doc, i) \in Seq(Chars)
<1>1. doc[i] \in Chars /\ "/" \in Chars
  BY LenProperties DEF Chars
<1>2. Append(open, doc[i]) \in Seq(Chars) /\ Append(open, "/") \in Seq(Chars)
  BY <1>1, AppendProperties
<1>3. ASSUME open # <<>> PROVE Front(open) \in Seq(Chars)
  <2>1. PICK n \in Nat : n = Len(open) /\ open \in [1 .. n -> Chars]
    BY LenProperties
  <2>2. \A j \in 1 .. n - 1 : open[j] \in Chars
    BY <2>1
  <2>3. 1 \in Int /\ n - 1 \in Int
    BY <2>1
  <2>4. SubSeq(open, 1, n - 1) \in Seq(Chars)
    BY <2>2, <2>3, SubSeqProperties
  <2> QED BY <2>1, <2>4 DEF Front
<1> QED BY <1>2, <1>3 DEF Reading

LEMMA ReadingSame ==
    ASSUME NEW doc, NEW docc, NEW n \in Nat,
           \A j \in 1 .. n : doc[j] = docc[j], NEW open, NEW i \in 1 .. n
    PROVE  Reading(open, doc, i) = Reading(open, docc, i)
<1>1. doc[i] = docc[i]
  OBVIOUS
<1>2. i > 1 => doc[i - 1] = docc[i - 1]
  OBVIOUS
<1>3. i > 2 => doc[i - 2] = docc[i - 2]
  OBVIOUS
<1> QED BY <1>1, <1>2, <1>3 DEF Reading

LEMMA ScanExists ==
    ASSUME NEW doc \in Seq(Chars)
    PROVE  \E f : Scanned(f, doc)
<1>1. PICK n \in Nat : n = Len(doc)
  BY LenProperties
<1> DEFINE step == [i \in 1 .. n |-> [o \in Seq(Chars) |-> Reading(o, doc, i)]]
<1>2. step \in Steps(n, Seq(Chars))
  <2>1. ASSUME NEW i \in 1 .. n, NEW o \in Seq(Chars)
        PROVE  Reading(o, doc, i) \in Seq(Chars)
    BY <1>1, ReadingTyped
  <2> QED BY <2>1 DEF Steps
<1>3. <<>> \in Seq(Chars)
  BY EmptySeq
<1>4. PICK f : Iterates(f, n, Seq(Chars), <<>>, step)
  <2> HIDE DEF step
  <2> QED BY <1>2, <1>3, Recursion
<1>5. /\ f \in [0 .. n -> Seq(Chars)] /\ f[0] = <<>>
      /\ \A i \in 1 .. n : f[i] = step[i][f[i - 1]]
  BY <1>4 DEF Iterates
<1>6. ASSUME NEW i \in 0 .. n
      PROVE  f[i] = IF i = 0 THEN <<>> ELSE Reading(f[i - 1], doc, i)
  <2>1. CASE i = 0
    BY <1>5, <2>1
  <2>2. CASE i # 0
    <3>1. i \in 1 .. n /\ i - 1 \in 0 .. n
      BY <2>2
    <3>2. f[i - 1] \in Seq(Chars) /\ f[i] = step[i][f[i - 1]]
      BY <1>5, <3>1
    <3> QED BY <2>2, <3>1, <3>2
  <2> QED BY <2>1, <2>2
<1> HIDE DEF step
<1>7. Scanned(f, doc)
  BY <1>1, <1>5, <1>6 DEF Scanned
<1> QED BY <1>7

LEMMA ScanIs ==
    ASSUME NEW doc \in Seq(Chars)
    PROVE  \E f : Scan(f, doc, Len(doc)) /\ OpenElements(doc) = f[Len(doc)]
<1>1. PICK n \in Nat : n = Len(doc)
  BY LenProperties
<1> DEFINE f == CHOOSE g : Scanned(g, doc)
<1>2. OpenElements(doc) = f[n]
  BY <1>1 DEF OpenElements, Scanned
<1>3. Scanned(f, doc)
  BY ScanExists
<1> HIDE DEF f
<1>4. \A i \in 0 .. n : f[i] = IF i = 0 THEN <<>> ELSE Reading(f[i - 1], doc, i)
  BY <1>1, <1>3 DEF Scanned
<1>5. f[0] = <<>>
  BY <1>4
<1>6. ASSUME NEW i \in 1 .. n PROVE f[i] = Reading(f[i - 1], doc, i)
  <2>1. i \in 0 .. n /\ i # 0
    OBVIOUS
  <2> QED BY <1>4, <2>1
<1>7. Scan(f, doc, n)
  BY <1>5, <1>6 DEF Scan
<1> QED BY <1>1, <1>2, <1>7

LEMMA ScanSame ==
    ASSUME NEW doc, NEW docc, NEW n \in Nat,
           \A j \in 1 .. n : doc[j] = docc[j],
           NEW f, Scan(f, doc, n), NEW g, Scan(g, docc, n)
    PROVE  f[n] = g[n]
<1> DEFINE T == {i \in Nat : i <= n => f[i] = g[i]}
<1>1. 0 \in T
  BY DEF Scan
<1>2. ASSUME NEW i \in Nat, i \in T PROVE i + 1 \in T
  <2>1. SUFFICES ASSUME i + 1 <= n PROVE f[i + 1] = g[i + 1]
    OBVIOUS
  <2>2. PICK k \in 1 .. n : k = i + 1 /\ k - 1 = i
    <3>1. i + 1 \in 1 .. n
      BY <2>1
    <3> QED BY <3>1
  <2>3. f[k] = Reading(f[k - 1], doc, k) /\ g[k] = Reading(g[k - 1], docc, k)
    BY DEF Scan
  <2>4. f[k - 1] = g[k - 1]
    BY <1>2, <2>1, <2>2
  <2>5. Reading(f[k - 1], doc, k) = Reading(f[k - 1], docc, k)
    BY ReadingSame
  <2> QED BY <2>2, <2>3, <2>4, <2>5
<1>3. n \in T
  <2> HIDE DEF T
  <2> QED BY <1>1, <1>2, SetInduction
<1> QED BY <1>3

LEMMA OneMore ==
    ASSUME NEW doc \in Seq(Chars), NEW x \in Chars
    PROVE  OpenElements(Append(doc, x))
              = Reading(OpenElements(doc), Append(doc, x), Len(doc) + 1)
<1>1. PICK n \in Nat : n = Len(doc)
  BY LenProperties
<1>2. PICK docc \in Seq(Chars) :
          /\ docc = Append(doc, x) /\ Len(docc) = n + 1
          /\ \A j \in 1 .. n : doc[j] = docc[j]
  <2>1. /\ Append(doc, x) \in Seq(Chars)
        /\ Len(Append(doc, x)) = Len(doc) + 1
        /\ \A j \in 1 .. Len(doc) : Append(doc, x)[j] = doc[j]
    BY AppendProperties
  <2> QED BY <1>1, <2>1
<1>3. PICK f : Scan(f, doc, n) /\ OpenElements(doc) = f[n]
  BY <1>1, ScanIs
<1>4. PICK g : Scan(g, docc, n + 1) /\ OpenElements(docc) = g[n + 1]
  BY <1>2, ScanIs
<1>5. Scan(g, docc, n) /\ g[n + 1] = Reading(g[n], docc, n + 1)
  <2>1. n + 1 \in 1 .. n + 1 /\ (n + 1) - 1 = n
    OBVIOUS
  <2>2. g[n + 1] = Reading(g[(n + 1) - 1], docc, n + 1)
    BY <1>4, <2>1 DEF Scan
  <2>3. \A i \in 1 .. n : i \in 1 .. n + 1
    OBVIOUS
  <2>4. Scan(g, docc, n)
    BY <1>4, <2>3 DEF Scan
  <2> QED BY <2>1, <2>2, <2>4
<1>6. f[n] = g[n]
  <2>1. \A j \in 1 .. n : doc[j] = docc[j]
    BY <1>2
  <2> QED BY <1>3, <1>5, <2>1, ScanSame
<1> QED BY <1>1, <1>2, <1>3, <1>4, <1>5, <1>6

LEMMA NothingOpen == OpenElements(<<>>) = <<>>
<1>1. <<>> \in Seq(Chars) /\ Len(<<>>) = 0
  BY EmptySeq
<1> QED BY <1>1, ScanIs DEF Scan

\* The document does not end within a tag.
Quiet(doc) ==
    /\ Len(doc) > 0 => doc[Len(doc)] # "<"
    /\ Len(doc) > 1 =>
          ~ (doc[Len(doc) - 1] = "<" /\ doc[Len(doc)] = "/")

\* ... and open is what is open in it.
Reads(doc, open) ==
    /\ doc \in Seq(Chars) /\ open \in Seq(Chars)
    /\ Quiet(doc) /\ OpenElements(doc) = open

\* What is known of a document with one more character.
Grown(docc, doc, x, n) ==
    /\ docc = Append(doc, x) /\ Len(doc) = n /\ Len(docc) = n + 1
    /\ docc[n + 1] = x
    /\ \A j \in 1 .. n : docc[j] = doc[j]
    /\ OpenElements(docc) = Reading(OpenElements(doc), docc, n + 1)

LEMMA GrownBy ==
    ASSUME NEW doc \in Seq(Chars), NEW x \in Chars
    PROVE  \E docc \in Seq(Chars) : \E n \in Nat : Grown(docc, doc, x, n)
<1>1. PICK n \in Nat : n = Len(doc)
  BY LenProperties
<1>2. /\ Append(doc, x) \in Seq(Chars)
      /\ Len(Append(doc, x)) = Len(doc) + 1
      /\ \A j \in 1 .. Len(doc) : Append(doc, x)[j] = doc[j]
      /\ Append(doc, x)[Len(doc) + 1] = x
  BY AppendProperties
<1>3. Grown(Append(doc, x), doc, x, n)
  BY <1>1, <1>2, OneMore DEF Grown
<1> QED BY <1>2, <1>3

LEMMA NoTagEnds ==
    ASSUME NEW doc \in Seq(Chars), NEW x \in Chars, NEW n \in Nat,
           NEW docc \in Seq(Chars), Grown(docc, doc, x, n), Quiet(doc)
    PROVE  /\ OpenElements(docc) = OpenElements(doc)
           /\ x # "<" => Quiet(docc)
<1>1. n > 0 => docc[n] = doc[n] /\ doc[n] # "<"
  BY DEF Grown, Quiet
<1>2. n > 1 => /\ docc[n - 1] = doc[n - 1]
               /\ ~ (doc[n - 1] = "<" /\ doc[n] = "/")
  BY DEF Grown, Quiet
<1>3. (n + 1 > 1 <=> n > 0) /\ (n + 1 > 2 <=> n > 1) /\ (n + 1) - 1 = n
      /\ (n + 1) - 2 = n - 1
  OBVIOUS
<1>4. OpenElements(docc) = OpenElements(doc)
  <2>1. ~ (n + 1 > 1 /\ docc[(n + 1) - 1] = "<")
    BY <1>1, <1>3
  <2>2. ~ (n + 1 > 2 /\ docc[(n + 1) - 2] = "<" /\ docc[(n + 1) - 1] = "/")
    BY <1>1, <1>2, <1>3
  <2> QED BY <2>1, <2>2 DEF Grown, Reading
<1>5. ASSUME x # "<" PROVE Quiet(docc)
  <2>1. Len(docc) = n + 1 /\ docc[n + 1] = x
    BY DEF Grown
  <2> QED BY <1>1, <1>3, <1>5, <2>1 DEF Quiet
<1> QED BY <1>4, <1>5

LEMMA StartTagRead ==
    ASSUME NEW doc, NEW open, Reads(doc, open),
           NEW name \in Chars, name # "<", name # "/"
    PROVE  Reads(Then(doc, StartTag(name)), Append(open, name))
<1>1. doc \in Seq(Chars) /\ "<" \in Chars
  BY DEF Reads, Chars
<1>2. PICK d1 \in Seq(Chars), n \in Nat : Grown(d1, doc, "<", n)
  BY <1>1, GrownBy
<1>3. OpenElements(d1) = open
  BY <1>1, <1>2, NoTagEnds DEF Reads
<1>4. PICK d2 \in Seq(Chars), m \in Nat : Grown(d2, d1, name, m)
  BY GrownBy
<1>5. m = n + 1 /\ d2[m] = "<" /\ d2[m + 1] = name /\ Len(d2) = m + 1 /\ m > 0
  BY <1>2, <1>4 DEF Grown
<1>6. OpenElements(d2) = Append(open, name)
  <2>1. (m + 1 > 1) /\ (m + 1) - 1 = m
    BY <1>5
  <2> QED BY <1>3, <1>4, <1>5, <2>1 DEF Grown, Reading
<1>7. Quiet(d2)
  <2>1. (m + 1) - 1 = m
    BY <1>5
  <2> QED BY <1>5, <2>1 DEF Quiet
<1>8. d2 = Then(doc, StartTag(name))
  <2>1. d2 = Append(Append(doc, "<"), name)
    BY <1>2, <1>4 DEF Grown
  <2>2. PICK lt \in Chars : lt = "<"
    BY <1>1
  <2>3. Then(doc, <<lt, name>>) = Append(Append(doc, lt), name)
    BY <1>1, TwoAppended
  <2> QED BY <2>1, <2>2, <2>3, Zenon DEF StartTag
<1>9. Append(open, name) \in Seq(Chars)
  BY AppendProperties DEF Reads
<1> QED BY <1>6, <1>7, <1>8, <1>9 DEF Reads

LEMMA EndTagRead ==
    ASSUME NEW doc, NEW open \in Seq(Chars), NEW name \in Chars,
           Reads(doc, Append(open, name)), name # "<"
    PROVE  Reads(Then(doc, EndTag(name)), open)
<1>1. doc \in Seq(Chars) /\ "<" \in Chars /\ "/" \in Chars
  BY DEF Reads, Chars
<1>2. PICK d1 \in Seq(Chars), n \in Nat : Grown(d1, doc, "<", n)
  BY <1>1, GrownBy
<1>3. OpenElements(d1) = Append(open, name)
  BY <1>1, <1>2, NoTagEnds DEF Reads
<1>4. PICK d2 \in Seq(Chars), m \in Nat : Grown(d2, d1, "/", m)
  BY <1>1, GrownBy
<1>5. PICK d3 \in Seq(Chars), k \in Nat : Grown(d3, d2, name, k)
  BY GrownBy
<1>6. m = n + 1 /\ d1[m] = "<" /\ (n > 0 => d1[n] = doc[n] /\ doc[n] # "<")
  BY <1>2, <1>4 DEF Grown, Reads, Quiet
<1>7. OpenElements(d2) = Append(open, name)
  <2>1. d2[m + 1] = "/"
    BY <1>4 DEF Grown
  <2>2. ~ (m + 1 > 2 /\ d2[(m + 1) - 2] = "<")
    <3>1. SUFFICES ASSUME m > 1 PROVE d2[m - 1] # "<"
      BY <1>6
    <3>2. n > 0 /\ m - 1 = n /\ n \in 1 .. m
      BY <1>6, <3>1
    <3> QED BY <1>4, <1>6, <3>2 DEF Grown
  <2> QED BY <1>3, <1>4, <2>1, <2>2 DEF Grown, Reading
<1>8. k = m + 1 /\ m > 0 /\ d3[m] = "<" /\ d3[k] = "/" /\ d3[k + 1] = name
      /\ Len(d3) = k + 1
  <2>1. k = m + 1 /\ m > 0 /\ d3[k + 1] = name /\ Len(d3) = k + 1
    BY <1>4, <1>5, <1>6 DEF Grown
  <2>2. m \in 1 .. m /\ m \in 1 .. k /\ k \in 1 .. k
    BY <2>1
  <2>3. d3[m] = d2[m] /\ d2[m] = d1[m]
    BY <1>4, <1>5, <2>2 DEF Grown
  <2>4. d3[k] = d2[k] /\ d2[k] = "/"
    BY <1>4, <1>5, <2>1, <2>2 DEF Grown
  <2> QED BY <1>6, <2>1, <2>3, <2>4
<1>9. /\ Append(open, name) # <<>> /\ Last(Append(open, name)) = name
      /\ Front(Append(open, name)) = open
  BY LastAppended
<1>10. OpenElements(d3) = open
  <2>1. (k + 1) - 1 = k /\ (k + 1) - 2 = m /\ k + 1 > 2
    BY <1>8
  <2>2. OpenElements(d3) = Reading(Append(open, name), d3, k + 1)
    BY <1>5, <1>7 DEF Grown
  <2> QED BY <1>8, <1>9, <2>1, <2>2 DEF Reading
<1>11. Quiet(d3)
  <2>1. (k + 1) - 1 = k
    BY <1>8
  <2> QED BY <1>8, <2>1 DEF Quiet
<1>12. d3 = Then(doc, EndTag(name))
  <2>1. d3 = Append(Append(Append(doc, "<"), "/"), name)
    BY <1>2, <1>4, <1>5 DEF Grown
  <2>2. PICK lt \in Chars, slash \in Chars : lt = "<" /\ slash = "/"
    BY <1>1
  <2>3. Then(doc, <<lt, slash, name>>)
           = Append(Append(Append(doc, lt), slash), name)
    BY <1>1, ThreeAppended
  <2> QED BY <2>1, <2>2, <2>3, Zenon DEF EndTag
<1> QED BY <1>10, <1>11, <1>12 DEF Reads

\* Texts that hold no "<" open and close nothing.
LEMMA ContentRead ==
    ASSUME NEW doc, NEW open, Reads(doc, open), NEW content \in Seq(Chars),
           \A i \in 1 .. Len(content) : content[i] # "<"
    PROVE  Reads(Then(doc, content), open)
<1>1. PICK n \in Nat : n = Len(content) /\ content \in [1 .. n -> Chars]
  BY LenProperties
<1>2. doc \in Seq(Chars) /\ open \in Seq(Chars)
  BY DEF Reads
<1> DEFINE Part(k) == SubSeq(content, 1, k)
           T == {k \in Nat : k <= n => Reads(Then(doc, Part(k)), open)}
<1>3. 0 \in T
  <2>1. Part(0) = <<>>
    BY SubSeqEmpty
  <2>2. Then(doc, <<>>) = doc
    BY <1>2, ConcatEmptySeq DEF Then
  <2> QED BY <2>1, <2>2
<1>4. ASSUME NEW k \in Nat, k \in T PROVE k + 1 \in T
  <2>1. SUFFICES ASSUME k + 1 <= n PROVE Reads(Then(doc, Part(k + 1)), open)
    OBVIOUS
  <2>2. PICK x \in Chars : x = content[k + 1] /\ x # "<"
    BY <1>1, <2>1
  <2>3. PICK part \in Seq(Chars) : part = Part(k)
    <3>1. \A i \in 1 .. k : content[i] \in Chars
      BY <1>1, <2>1
    <3>2. 1 \in Int /\ k \in Int
      OBVIOUS
    <3> QED BY <3>1, <3>2, SubSeqProperties
  <2>4. Part(k + 1) = Append(part, x)
    <3>1. 1 \in 1 .. Len(content) /\ k + 1 \in 1 .. Len(content)
          /\ (k + 1) - 1 = k
      BY <1>1, <2>1
    <3>2. SubSeq(content, 1, k + 1)
             = SubSeq(content, 1, (k + 1) - 1) \o <<content[k + 1]>>
      BY <3>1, SubSeqRecursiveSecond
    <3>3. Append(part, x) = part \o <<x>>
      BY AppendIsConcat
    <3> QED BY <2>2, <2>3, <3>1, <3>2, <3>3
  <2>5. PICK d \in Seq(Chars) : d = Then(doc, part) /\ Reads(d, open)
    BY <1>4, <2>1, <2>3 DEF Reads
  <2>6. Then(doc, Part(k + 1)) = Append(d, x)
    <3>1. Then(doc, Append(part, x)) = Append(Then(doc, part), x)
      BY <1>2, AppendRegroups
    <3> HIDE DEF Part
    <3> QED BY <2>4, <2>5, <3>1, Zenon
  <2>7. PICK docc \in Seq(Chars), m \in Nat : Grown(docc, d, x, m)
    BY GrownBy
  <2>8. Reads(docc, open)
    BY <2>2, <2>5, <2>7, NoTagEnds DEF Reads
  <2> QED BY <2>6, <2>7, <2>8 DEF Grown
<1>5. n \in T
  <2> HIDE DEF T
  <2> QED BY <1>3, <1>4, SetInduction
<1>6. Part(n) = content
  BY <1>1, SubSeqFull
<1>7. n \in Nat /\ n <= n
  OBVIOUS
<1>8. Reads(Then(doc, Part(n)), open)
  <2> HIDE DEF Part
  <2> QED BY <1>5, <1>7
<1> HIDE DEF Part
<1> QED BY <1>6, <1>8

LEMMA ElementRead ==
    ASSUME NEW doc, NEW open, Reads(doc, open), NEW content \in Seq(Chars),
           \A i \in 1 .. Len(content) : content[i] # "<",
           NEW name \in Chars, name # "<", name # "/"
    PROVE  Reads(Then(doc, Element(name, content)), open)
<1>1. PICK a \in Seq(Chars), z \in Seq(Chars) :
          a = StartTag(name) /\ z = EndTag(name)
  <2>1. "<" \in Chars /\ "/" \in Chars
    BY DEF Chars
  <2>2. <<"<", name>> \in Seq(Chars) /\ <<"<", "/", name>> \in Seq(Chars)
    BY <2>1
  <2> QED BY <2>2 DEF StartTag, EndTag
<1>2. doc \in Seq(Chars) /\ open \in Seq(Chars)
  BY DEF Reads
<1>3. Reads(Then(doc, a), Append(open, name))
  BY <1>1, StartTagRead
<1>4. Reads(Then(Then(doc, a), content), Append(open, name))
  BY <1>3, ContentRead
<1>5. Reads(Then(Then(Then(doc, a), content), z), open)
  BY <1>1, <1>2, <1>4, EndTagRead
<1>6. Then(Then(Then(doc, a), content), z) = Then(doc, Then(Then(a, content), z))
  <2>1. /\ Then(doc, a) \in Seq(Chars) /\ Then(a, content) \in Seq(Chars)
        /\ Then(Then(doc, a), content) = Then(doc, Then(a, content))
    BY <1>2, ThenRegroups
  <2>2. Then(Then(doc, Then(a, content)), z)
           = Then(doc, Then(Then(a, content), z))
    BY <1>2, <2>1, ThenRegroups
  <2> QED BY <2>1, <2>2
<1>7. Element(name, content) = Then(Then(a, content), z)
  BY <1>1, Zenon DEF Element, Then
<1> QED BY <1>5, <1>6, <1>7
-----------------------------------------------------------------------------
(* spfs_sanitize_name.                                                     *)

\* str_replace of a character by another one.
LEMMA OneReplaced ==
    ASSUME NEW S, NEW s \in Seq(S), NEW x \in S, NEW z \in S, Occurs(<<x>>, s)
    PROVE  \E i \in 1 .. Len(s) :
              /\ s[i] = x
              /\ str_replace(s, <<x>>, <<z>>) = ReplaceAt(s, i, z)
<1>1. PICK n \in Nat : n = Len(s)
  BY LenProperties
<1>2. PICK val \in Seq(S) : val = <<z>>
  <2>1. <<z>> \in Seq(S)
    OBVIOUS
  <2> QED BY <2>1
<1>3. PICK i \in 1 .. n :
          /\ s[i] = x
          /\ str_replace(s, <<x>>, val) = FlattenSeq(ReplaceAt(Units(s), i, val))
  BY <1>1, CharacterReplaced
<1>4. PICK ss \in Seq(Seq(S)) :
          ss = Units(s) /\ Len(ss) = n /\ \A j \in 1 .. n : ss[j] = <<s[j]>>
  BY <1>1, UnitsTyped
<1>5. PICK tt \in Seq(Seq(S)) :
          tt = ReplaceAt(ss, i, val) /\ IsChanged(tt, ss, i, val, n)
  BY <1>4, ChangedNamed
<1>6. PICK t \in Seq(S) : t = ReplaceAt(s, i, z) /\ IsChanged(t, s, i, z, n)
  BY <1>1, ChangedNamed
<1>7. tt = Units(t)
  <2>1. PICK uu \in Seq(Seq(S)) :
            uu = Units(t) /\ Len(uu) = n /\ \A j \in 1 .. n : uu[j] = <<t[j]>>
    <3>1. Len(t) = n
      BY <1>6 DEF IsChanged
    <3> QED BY <3>1, UnitsTyped
  <2>2. Len(tt) = n /\ \A j \in 1 .. n : tt[j] = IF j = i THEN val ELSE ss[j]
    BY <1>5 DEF IsChanged
  <2>3. \A j \in 1 .. n : t[j] = IF j = i THEN z ELSE s[j]
    BY <1>6 DEF IsChanged
  <2>4. \A j \in 1 .. n : tt[j] = uu[j]
    BY <1>2, <1>4, <2>1, <2>2, <2>3
  <2> QED BY <2>1, <2>2, <2>4, SeqEqual
<1>8. FlattenSeq(tt) = t
  BY <1>7, FlattenUnits
<1> QED BY <1>1, <1>2, <1>3, <1>4, <1>5, <1>6, <1>8

\* The text when some of the slashes of s are replaced.
Renamed(s, t) ==
    /\ s \in Seq(Chars) /\ t \in Seq(Chars) /\ Len(t) = Len(s)
    /\ \A i \in 1 .. Len(s) : t[i] = s[i] \/ (s[i] = "/" /\ t[i] = ":")

SlashEdit == All(<<"/">>, <<":">>)

LEMMA NameStep ==
    ASSUME NEW s, NEW t, Renamed(s, t)
    PROVE  /\ Occurs(<<"/">>, t) => Renamed(s, str_replace(t, <<"/">>, <<":">>))
           /\ ~ Occurs(<<"/">>, t) => \A i \in 1 .. Len(t) : t[i] # "/"
<1>1. "/" \in Chars /\ ":" \in Chars /\ s \in Seq(Chars) /\ t \in Seq(Chars)
  BY DEF Chars, Renamed
<1>2. PICK n \in Nat : n = Len(s) /\ n = Len(t)
  BY <1>1, LenProperties DEF Renamed
<1>3. ASSUME Occurs(<<"/">>, t)
      PROVE  Renamed(s, str_replace(t, <<"/">>, <<":">>))
  <2>1. PICK i \in 1 .. n :
            /\ t[i] = "/"
            /\ str_replace(t, <<"/">>, <<":">>) = ReplaceAt(t, i, ":")
    <3>1. PICK x \in Chars, z \in Chars : x = "/" /\ z = ":"
      BY <1>1
    <3>2. Occurs(<<x>>, t)
      BY <1>3, <3>1
    <3>3. \E i \in 1 .. Len(t) :
              /\ t[i] = x
              /\ str_replace(t, <<x>>, <<z>>) = ReplaceAt(t, i, z)
      <4>1. PICK u \in Seq(Chars) : u = t /\ Occurs(<<x>>, u)
        BY <1>1, <3>2
      <4>2. \E i \in 1 .. Len(u) :
                /\ u[i] = x
                /\ str_replace(u, <<x>>, <<z>>) = ReplaceAt(u, i, z)
        BY <4>1, OneReplaced
      <4> QED BY <4>1, <4>2
    <3> QED BY <1>2, <3>1, <3>3
  <2>2. PICK u \in Seq(Chars) :
            u = ReplaceAt(t, i, ":") /\ IsChanged(u, t, i, ":", n)
    BY <1>1, <1>2, ChangedNamed
  <2>3. Len(u) = n /\ \A j \in 1 .. n : u[j] = IF j = i THEN ":" ELSE t[j]
    BY <2>2 DEF IsChanged
  <2>4. \A j \in 1 .. n : t[j] = s[j] \/ (s[j] = "/" /\ t[j] = ":")
    BY <1>2 DEF Renamed
  <2>5. \A j \in 1 .. n : u[j] = s[j] \/ (s[j] = "/" /\ u[j] = ":")
    BY <2>1, <2>3, <2>4
  <2> QED BY <1>1, <1>2, <2>1, <2>2, <2>3, <2>5 DEF Renamed
<1>4. ASSUME ~ Occurs(<<"/">>, t) PROVE \A i \in 1 .. Len(t) : t[i] # "/"
  BY <1>1, <1>4, CharacterAt
<1> QED BY <1>3, <1>4

LEMMA NameResult ==
    ASSUME NEW s, NEW t, Renamed(s, t), \A i \in 1 .. Len(t) : t[i] # "/"
    PROVE  t = [i \in DOMAIN s |-> IF s[i] = "/" THEN ":" ELSE s[i]]
<1>1. PICK n \in Nat : /\ n = Len(s) /\ n = Len(t) /\ DOMAIN s = 1 .. n
                       /\ t \in [1 .. n -> Chars]
  BY LenProperties DEF Renamed
<1>2. ASSUME NEW i \in 1 .. n
      PROVE  t[i] = IF s[i] = "/" THEN ":" ELSE s[i]
  <2>1. t[i] # "/" /\ (t[i] = s[i] \/ (s[i] = "/" /\ t[i] = ":"))
    BY <1>1 DEF Renamed
  <2> QED BY <2>1
<1>3. t = [i \in 1 .. n |-> t[i]]
  BY <1>1
<1> QED BY <1>1, <1>2, <1>3

-----------------------------------------------------------------------------
(* read.                                                                   *)

\* got is a part of s from its beginning, and all of it if there is no more.
ReadSoFar(s, g, end) ==
    \E m \in 0 .. Len(s) : /\ g = SubSeq(s, 1, m) /\ Len(g) = m
                           /\ end => m = Len(s)

LEMMA ReadStep ==
    ASSUME NEW S, NEW s \in Seq(S), NEW g, ReadSoFar(s, g, FALSE),
           NEW size \in Nat, size > 0,
           NEW part, part = READ_SIZED_OFFSET(s, size, Len(g))
    PROVE  ReadSoFar(s, Then(g, part), part = <<>>)
<1>1. PICK n \in Nat : n = Len(s) /\ s \in [1 .. n -> S]
  BY LenProperties
<1>2. PICK m \in 0 .. n : g = SubSeq(s, 1, m) /\ Len(g) = m
  BY <1>1 DEF ReadSoFar
<1>3. ASSUME NEW k \in 0 .. n
      PROVE  SubSeq(s, 1, k) \in Seq(S) /\ Len(SubSeq(s, 1, k)) = k
  <2>1. 1 \in Int /\ k \in Int /\ \A i \in 1 .. k : s[i] \in S
    BY <1>1
  <2>2. /\ SubSeq(s, 1, k) \in Seq(S)
        /\ Len(SubSeq(s, 1, k)) = IF 1 <= k THEN k - 1 + 1 ELSE 0
    BY <2>1, SubSeqProperties
  <2> QED BY <2>2
<1>4. CASE n > m
  <2>1. PICK e \in m + 1 .. n : part = SubSeq(s, m + 1, e)
    <3>1. part = SubSeq(s, m + 1, IF m + size > n THEN n ELSE m + size)
      BY <1>1, <1>2, <1>4 DEF READ_SIZED_OFFSET
    <3>2. (IF m + size > n THEN n ELSE m + size) \in m + 1 .. n
      BY <1>4
    <3> QED BY <3>1, <3>2
  <2>2. Then(g, part) = SubSeq(s, 1, e)
    <3>1. 1 \in 1 .. Len(s) + 1 /\ m \in 1 - 1 .. Len(s) /\ e \in m .. Len(s)
      BY <1>1
    <3>2. SubSeq(s, 1, m) \o SubSeq(s, m + 1, e) = SubSeq(s, 1, e)
      BY <3>1, ConcatAdjacentSubSeq
    <3> QED BY <1>2, <2>1, <3>2, Zenon DEF Then
  <2>3. part # <<>>
    <3>1. m + 1 \in Int /\ e \in Int /\ m + 1 <= e
          /\ \A i \in m + 1 .. e : s[i] \in S
      BY <1>1
    <3>2. Len(SubSeq(s, m + 1, e)) = IF m + 1 <= e THEN e - (m + 1) + 1 ELSE 0
      BY <3>1, SubSeqProperties
    <3>3. Len(part) >= 1
      BY <2>1, <3>1, <3>2
    <3>4. Len(<<>>) = 0
      OBVIOUS
    <3> QED BY <3>3, <3>4
  <2>4. e \in 0 .. n
    OBVIOUS
  <2> QED BY <1>1, <1>3, <2>2, <2>3, <2>4 DEF ReadSoFar
<1>5. CASE ~ n > m
  <2>1. m = n /\ ~ Len(s) > Len(g)
    <3>1. m = n /\ ~ n > n
      BY <1>5
    <3> QED BY <1>1, <1>2, <3>1, Zenon
  <2>2. part = <<>>
    BY <2>1 DEF READ_SIZED_OFFSET
  <2>3. Then(g, <<>>) = g
    <3>1. g \in Seq(S)
      BY <1>2, <1>3
    <3> QED BY <3>1, ConcatEmptySeq DEF Then
  <2> QED BY <1>1, <1>2, <2>1, <2>2, <2>3 DEF ReadSoFar
<1> QED BY <1>4, <1>5

LEMMA ReadJoins ==
    ASSUME NEW S, NEW s \in Seq(S), NEW g, NEW end, ReadSoFar(s, g, end)
    PROVE  /\ IsPrefix(g, s) /\ Len(g) <= Len(s)
           /\ end => g = s
<1>1. PICK n \in Nat : n = Len(s) /\ s \in [1 .. n -> S]
  BY LenProperties
<1>2. PICK m \in 0 .. n : /\ g = SubSeq(s, 1, m) /\ Len(g) = m
                          /\ end => m = n
  BY <1>1 DEF ReadSoFar
<1>3. g \in Seq(S)
  <2>1. 1 \in Int /\ m \in Int /\ \A i \in 1 .. m : s[i] \in S
    BY <1>1
  <2> QED BY <1>2, <2>1, SubSeqProperties
<1>4. SubSeq(g, 1, m) = g
  BY <1>2, <1>3, SubSeqFull
<1>5. IsPrefix(g, s) /\ Len(g) <= Len(s)
  <2>1. Len(g) <= Len(s)
    <3>1. m <= n
      OBVIOUS
    <3> QED BY <1>1, <1>2, <3>1, Zenon
  <2>2. SubSeq(g, 1, Len(g)) = SubSeq(s, 1, Len(g))
    BY <1>2, <1>4
  <2> QED BY <2>1, <2>2 DEF IsPrefix
<1>6. end => g = s
  BY <1>1, <1>2, SubSeqFull
<1> QED BY <1>5, <1>6

-----------------------------------------------------------------------------
(* The inductive invariant.                                                *)

NoSlash(s) == \A i \in 1 .. Len(s) : s[i] # "/"

\* The two functions that work step by step, and where they are.
NameInv(s, t, left_to_do) ==
    /\ Renamed(s, t) /\ Len(s) <= MaxText
    /\ left_to_do = NameEdits \/ (left_to_do = <<>> /\ NoSlash(t))

XmlInv(s, t, left_to_do) ==
    /\ s \in Seq(Chars) /\ 2 * Len(s) <= MaxText
    /\ \E k \in 0 .. 4 : left_to_do = Left(k) /\ Rewritten(s, k, t)

TextInv ==
    /\ fn \in {"none", "name", "xml", "path"}
    /\ fn = "none" => text = <<>> /\ todo = <<>>
    /\ fn = "path" => todo = <<>>
    /\ fn = "name" => NameInv(arg, text, todo)
    /\ fn = "xml" => XmlInv(arg, text, todo)

\* The document is well-formed so far, and its reader has the beginning.
DocTypes ==
    /\ state \in XspfStates /\ warned \in BOOLEAN /\ eof \in BOOLEAN
    /\ ncalls \in 0 .. MaxCalls /\ string \in Seq(Chars)

DocInv ==
    /\ DocTypes
    /\ field \in {"none", "title"}
    /\ field = "title" => fn = "xml" /\ state \notin {"none", "freed"}
    /\ state = "none" => string = <<>> /\ ~ warned
    /\ state # "freed" => got = <<>> /\ eof = FALSE
    /\ state = "freed" => ReadSoFar(string, got, eof)
    /\ state \in DOMAIN Opened /\ ~ warned => Reads(string, Opened[state])

XspfInv == TextInv /\ DocInv

LEMMA Arguments ==
    /\ \A s \in Names : s \in Seq(Chars) /\ Len(s) <= MaxText
    /\ \A s \in Texts : s \in Seq(Chars) /\ 2 * Len(s) <= MaxText
    /\ \A s \in Titles : s \in Seq(Chars) /\ 2 * Len(s) <= MaxText
<1>1. ASSUME NEW s \in Seq(STRING) PROVE s \in Seq(Chars)
  <2>1. PICK n \in Nat : n = Len(s) /\ s \in [1 .. n -> STRING]
    BY LenProperties
  <2>2. s \in [1 .. n -> Chars]
    BY <2>1 DEF Chars
  <2> QED BY <2>2
<1> QED BY <1>1, TextAssumption, XspfAssumption

LEMMA NameCalled ==
    ASSUME NEW s \in Names
    PROVE  NameInv(s, s, NameEdits)
<1>1. s \in Seq(Chars) /\ Len(s) <= MaxText
  BY Arguments
<1>2. Renamed(s, s)
  BY <1>1 DEF Renamed
<1> QED BY <1>1, <1>2 DEF NameInv

LEMMA XmlCalled ==
    ASSUME NEW s \in Texts \cup Titles
    PROVE  XmlInv(s, s, XmlEdits)
<1>1. s \in Seq(Chars) /\ 2 * Len(s) <= MaxText
  BY Arguments
<1>2. Rewritten(s, 4, s) /\ XmlEdits = Left(4) /\ 4 \in 0 .. 4
  BY LeftIs DEF Rewritten
<1> QED BY <1>1, <1>2 DEF XmlInv

\* A turn of a loop.
Turn(t, td, tt, ttd) ==
    IF Occurs(Head(td).key, t)
    THEN /\ tt = str_replace(t, Head(td).key, Head(td).val)
         /\ ttd = IF Head(td).all THEN td ELSE Tail(td)
    ELSE tt = t /\ ttd = Tail(td)

LEMMA NameTurn ==
    ASSUME NEW s, NEW t, NEW td, NEW tt, NEW ttd,
           NameInv(s, t, td), td # <<>>, Turn(t, td, tt, ttd)
    PROVE  NameInv(s, tt, ttd)
<1>1. td = <<SlashEdit>> /\ Renamed(s, t) /\ Len(s) <= MaxText
  BY DEF NameInv, NameEdits, SlashEdit
<1>2. Head(td) = SlashEdit /\ Tail(td) = <<>>
  BY <1>1
<1>3. SlashEdit.key = <<"/">> /\ SlashEdit.val = <<":">> /\ SlashEdit.all = TRUE
  BY DEF SlashEdit, All
<1>4. CASE Occurs(<<"/">>, t)
  <2>1. tt = str_replace(t, <<"/">>, <<":">>) /\ ttd = td
    BY <1>2, <1>3, <1>4 DEF Turn
  <2>2. Renamed(s, tt)
    BY <1>1, <1>4, <2>1, NameStep
  <2> QED BY <1>1, <2>1, <2>2 DEF NameInv, NameEdits, SlashEdit
<1>5. CASE ~ Occurs(<<"/">>, t)
  <2>1. tt = t /\ ttd = <<>>
    BY <1>2, <1>3, <1>5 DEF Turn
  <2>2. NoSlash(t)
    BY <1>1, <1>5, NameStep DEF NoSlash
  <2> QED BY <1>1, <2>1, <2>2 DEF NameInv
<1> QED BY <1>4, <1>5

LEMMA XmlTurn ==
    ASSUME NEW s, NEW t, NEW td, NEW tt, NEW ttd,
           XmlInv(s, t, td), td # <<>>, Turn(t, td, tt, ttd)
    PROVE  XmlInv(s, tt, ttd)
<1>1. s \in Seq(Chars) /\ 2 * Len(s) <= MaxText
  BY DEF XmlInv
<1>2. PICK k \in 1 .. 4 : td = Left(k) /\ Rewritten(s, k, t)
  <2>1. PICK k \in 0 .. 4 : td = Left(k) /\ Rewritten(s, k, t)
    BY DEF XmlInv
  <2>2. k # 0
    BY <2>1, LeftIs
  <2>3. k \in 1 .. 4
    BY <2>2
  <2> QED BY <2>1, <2>3
<1>3. Head(td) = Edit(k) /\ Tail(td) = Left(k - 1)
  BY <1>2, LeftIs
<1>4. k \in 0 .. 4 /\ k - 1 \in 0 .. 4
  OBVIOUS
<1>5. CASE Occurs(Edit(k).key, t)
  <2>1. PICK h \in 0 .. 4 : h = IF Edit(k).all THEN k ELSE k - 1
    BY <1>4
  <2>2. Rewritten(s, h, str_replace(t, Edit(k).key, Edit(k).val))
    BY <1>1, <1>2, <1>5, <2>1, XmlStep
  <2>3. tt = str_replace(t, Edit(k).key, Edit(k).val) /\ ttd = Left(h)
    BY <1>2, <1>3, <1>5, <2>1 DEF Turn
  <2> QED BY <1>1, <2>2, <2>3 DEF XmlInv
<1>6. CASE ~ Occurs(Edit(k).key, t)
  <2>1. Rewritten(s, k - 1, t)
    BY <1>1, <1>2, <1>6, XmlStep
  <2>2. tt = t /\ ttd = Left(k - 1)
    BY <1>3, <1>6 DEF Turn
  <2> QED BY <1>1, <1>4, <2>1, <2>2 DEF XmlInv
<1> QED BY <1>5, <1>6

\* What a finished xspf_sanitize leaves.
LEMMA XmlDone ==
    ASSUME NEW s, NEW t, XmlInv(s, t, <<>>)
    PROVE  s \in Seq(Chars) /\ Rewritten(s, 0, t)
<1>1. PICK k \in 0 .. 4 : <<>> = Left(k) /\ Rewritten(s, k, t)
  BY DEF XmlInv
<1>2. k = 0
  <2>1. ~ k \in 1 .. 4
    BY <1>1, LeftIs
  <2> QED BY <2>1
<1> QED BY <1>1, <1>2 DEF XmlInv

LEMMA XmlContent ==
    ASSUME NEW s, NEW t, XmlInv(s, t, <<>>)
    PROVE  t \in Seq(Chars) /\ \A i \in 1 .. Len(t) : t[i] # "<"
<1>1. s \in Seq(Chars) /\ Rewritten(s, 0, t) /\ 0 \in 0 .. 4
  BY XmlDone
<1>2. t \in Seq(Chars)
  BY <1>1, RewrittenShort
<1>3. {"'", "<"} \cap ToSet(t) = {}
  BY <1>1, XmlResult
<1>4. DOMAIN t = 1 .. Len(t)
  BY <1>2, LenProperties
<1>5. ASSUME NEW i \in 1 .. Len(t), t[i] = "<" PROVE FALSE
  BY <1>3, <1>4, <1>5 DEF ToSet
<1> QED BY <1>2, <1>5

LEMMA TextsFit ==
    ASSUME TextInv, fn # "path" PROVE Len(text) <= MaxText
<1>1. CASE fn = "none"
  <2>1. text = <<>> /\ Len(<<>>) = 0 /\ MaxText \in Nat
    BY <1>1, TextAssumption DEF TextInv
  <2> QED BY <2>1
<1>2. CASE fn = "name"
  BY <1>2 DEF TextInv, NameInv, Renamed
<1>3. CASE fn = "xml"
  <2>1. PICK k \in 0 .. 4 : Rewritten(arg, k, text)
    BY <1>3 DEF TextInv, XmlInv
  <2>2. arg \in Seq(Chars) /\ 2 * Len(arg) <= MaxText
    BY <1>3 DEF TextInv, XmlInv
  <2>3. PICK n \in Nat, m \in Nat : n = Len(text) /\ m = Len(arg) /\ n <= 2 * m
    BY <2>1, <2>2, RewrittenShort, LenProperties
  <2>4. 2 * m <= MaxText /\ MaxText \in Nat
    BY <2>2, <2>3, TextAssumption
  <2> QED BY <2>3, <2>4
<1> QED BY <1>1, <1>2, <1>3 DEF TextInv

-----------------------------------------------------------------------------
(* The steps of the functions on strings.                                  *)

LEMMA TextCalled ==
    ASSUME some_call PROVE TextInv'
<1>1. CASE \E s \in Names : call("name", s, NameEdits)
  <2>1. PICK s \in Names : call("name", s, NameEdits)
    BY <1>1
  <2>2. fn' = "name" /\ arg' = s /\ text' = s /\ todo' = NameEdits
    BY <2>1 DEF call
  <2>3. NameInv(arg', text', todo')
    BY <2>2, NameCalled
  <2>4. NameInv(arg, text, todo)'
    BY <2>3 DEF NameInv, Renamed, NoSlash
  <2> QED BY <2>2, <2>4 DEF TextInv
<1>2. CASE \E s \in Texts : call("xml", s, XmlEdits)
  <2>1. PICK s \in Texts : call("xml", s, XmlEdits)
    BY <1>2
  <2>2. fn' = "xml" /\ arg' = s /\ text' = s /\ todo' = XmlEdits
    BY <2>1 DEF call
  <2>3. XmlInv(arg', text', todo')
    BY <2>2, XmlCalled
  <2> QED BY <2>2, <2>3 DEF TextInv
<1>3. CASE \E from, to \in PathNames : relative_path(from, to)
  <2>1. fn' = "path" /\ todo' = <<>>
    BY <1>3 DEF relative_path
  <2> QED BY <2>1 DEF TextInv
<1> QED BY <1>1, <1>2, <1>3 DEF some_call

LEMMA TextReplaced ==
    ASSUME TextInv, replace PROVE TextInv' /\ fn' = fn
<1>1. todo # <<>> /\ fn' = fn /\ arg' = arg
  BY DEF replace
<1>2. Turn(text, todo, text', todo')
  BY DEF replace, Turn
<1>3. fn \in {"name", "xml"}
  BY <1>1 DEF TextInv
<1>4. CASE fn = "name"
  <2>1. NameInv(arg, text, todo)
    BY <1>4 DEF TextInv
  <2>2. NameInv(arg, text', todo')
    BY <1>1, <1>2, <2>1, NameTurn
  <2>3. NameInv(arg', text', todo')
    BY <1>1, <2>2
  <2> QED BY <1>1, <1>4, <2>3 DEF TextInv
<1>5. CASE fn = "xml"
  <2>1. XmlInv(arg, text, todo)
    BY <1>5 DEF TextInv
  <2>2. XmlInv(arg, text', todo')
    BY <1>1, <1>2, <2>1, XmlTurn
  <2>3. XmlInv(arg', text', todo')
    BY <1>1, <2>2
  <2> QED BY <1>1, <1>5, <2>3 DEF TextInv
<1> QED BY <1>3, <1>4, <1>5

LEMMA TextReturned ==
    ASSUME return PROVE TextInv' /\ fn' = "none"
BY DEF return, TextInv

LEMMA TextSame ==
    ASSUME TextInv, UNCHANGED textVars PROVE TextInv' /\ fn' = fn
<1>1. fn' = fn /\ arg' = arg /\ text' = text /\ todo' = todo
  BY DEF textVars
<1> QED BY <1>1 DEF TextInv

-----------------------------------------------------------------------------
(* The steps of the builder and of its reader.                             *)

LEMMA DocSame ==
    ASSUME DocInv, UNCHANGED <<docVars, readVars>>, field = "title" => fn' = fn
    PROVE  DocInv'
<1>1. /\ state' = state /\ string' = string /\ warned' = warned
      /\ ncalls' = ncalls /\ field' = field /\ got' = got /\ eof' = eof
  BY DEF docVars, readVars
<1> QED BY <1>1 DEF DocInv, DocTypes

LEMMA OpenedStates ==
    /\ DOMAIN Opened =
          {"INIT", "PLAYLIST_BEGIN", "TRACKLIST_BEGIN", "TRACK_BEGIN"}
    /\ Opened["INIT"] = <<>> /\ Opened["PLAYLIST_BEGIN"] = <<"playlist">>
    /\ Opened["TRACKLIST_BEGIN"] = <<"playlist", "trackList">>
    /\ Opened["TRACK_BEGIN"] = <<"playlist", "trackList", "track">>
BY DEF Opened

\* The elements that a state stands for, one added to those of another.
Deeper(st, name, next) ==
    /\ st \in DOMAIN Opened /\ next \in DOMAIN Opened
    /\ name \in Chars /\ name # "<" /\ name # "/"
    /\ Opened[st] \in Seq(Chars)
    /\ Opened[next] = Append(Opened[st], name)

LEMMA StatesNest ==
    /\ Deeper("INIT", "playlist", "PLAYLIST_BEGIN")
    /\ Deeper("PLAYLIST_BEGIN", "trackList", "TRACKLIST_BEGIN")
    /\ Deeper("TRACKLIST_BEGIN", "track", "TRACK_BEGIN")
<1>1. PICK p \in Chars, l \in Chars, t \in Chars :
          p = "playlist" /\ l = "trackList" /\ t = "track"
  BY DEF Chars
<1>2. /\ p # "<" /\ p # "/" /\ l # "<" /\ l # "/" /\ t # "<" /\ t # "/"
  BY <1>1
<1>3. <<>> \in Seq(Chars) /\ Append(<<>>, p) = <<p>>
  OBVIOUS
<1>4. <<p>> \in Seq(Chars) /\ Append(<<p>>, l) = <<p, l>>
  BY PairAppended
<1>5. <<p, l>> \in Seq(Chars) /\ Append(<<p, l>>, t) = <<p, l, t>>
  BY TripleAppended
<1>6. Deeper("INIT", p, "PLAYLIST_BEGIN")
  <2>1. Opened["INIT"] = <<>> /\ Opened["PLAYLIST_BEGIN"] = <<p>>
    BY <1>1, OpenedStates
  <2>2. "INIT" \in DOMAIN Opened /\ "PLAYLIST_BEGIN" \in DOMAIN Opened
    BY OpenedStates
  <2> QED BY <1>2, <1>3, <2>1, <2>2, Zenon DEF Deeper
<1>7. Deeper("PLAYLIST_BEGIN", l, "TRACKLIST_BEGIN")
  <2>1. Opened["PLAYLIST_BEGIN"] = <<p>> /\ Opened["TRACKLIST_BEGIN"] = <<p, l>>
    BY <1>1, OpenedStates
  <2>2. "TRACKLIST_BEGIN" \in DOMAIN Opened /\ "PLAYLIST_BEGIN" \in DOMAIN Opened
    BY OpenedStates
  <2> QED BY <1>2, <1>4, <2>1, <2>2, Zenon DEF Deeper
<1>8. Deeper("TRACKLIST_BEGIN", t, "TRACK_BEGIN")
  <2>1. /\ Opened["TRACKLIST_BEGIN"] = <<p, l>>
        /\ Opened["TRACK_BEGIN"] = <<p, l, t>>
    BY <1>1, OpenedStates
  <2>2. "TRACKLIST_BEGIN" \in DOMAIN Opened /\ "TRACK_BEGIN" \in DOMAIN Opened
    BY OpenedStates
  <2> QED BY <1>2, <1>5, <2>1, <2>2, Zenon DEF Deeper
<1> QED BY <1>1, <1>6, <1>7, <1>8

\* A call of the builder: what it writes leads from one state to another.
LEMMA CallStep ==
    ASSUME DocInv, ~ warned, state \notin {"none", "freed"}, ncalls < MaxCalls,
           NEW st \in DOMAIN Opened, NEW markup \in Seq(Chars),
           warned' = (state # st), string' = Then(string, markup),
           state' \in DOMAIN Opened, ncalls' = ncalls + 1,
           field' \in {"none", "title"},
           field' = "title" => fn' = "xml", UNCHANGED readVars,
           ~ warned' => Reads(string', Opened[state'])
    PROVE  DocInv'
<1>1. state' \in XspfStates /\ state' \notin {"none", "freed"}
  BY OpenedStates DEF XspfStates
<1>2. ncalls' \in 0 .. MaxCalls
  BY XspfAssumption DEF DocInv, DocTypes
<1>3. warned' \in BOOLEAN
  OBVIOUS
<1>4. string' \in Seq(Chars)
  BY ThenIs DEF DocInv, DocTypes
<1>5. got' = <<>> /\ eof' = FALSE
  BY DEF readVars, DocInv
<1> QED BY <1>1, <1>2, <1>3, <1>4, <1>5 DEF DocInv, DocTypes

LEMMA TagStep ==
    ASSUME XspfInv, NEW st \in DOMAIN Opened, NEW markup \in Seq(Chars),
           NEW next \in DOMAIN Opened, tag(st, markup, next),
           \A doc : Reads(doc, Opened[st]) =>
                        Reads(Then(doc, markup), Opened[next])
    PROVE  XspfInv'
<1>1. /\ state \notin {"none", "freed"} /\ ~ warned /\ ncalls < MaxCalls
      /\ warned' = (state # st) /\ state' = next
      /\ ncalls' = ncalls + 1 /\ UNCHANGED readVars
      /\ UNCHANGED textVars /\ field' = field /\ fn = "none"
  BY DEF tag, Building
<1>2. string' = Then(string, markup)
  BY Zenon DEF tag, Then
<1>3. field' = "none"
  BY <1>1 DEF XspfInv, DocInv
<1>4. ASSUME ~ warned' PROVE Reads(string', Opened[state'])
  <2>1. state = st
    BY <1>1, <1>4
  <2>2. Reads(string, Opened[st])
    BY <1>1, <2>1 DEF XspfInv, DocInv
  <2> QED BY <1>1, <1>2, <2>2
<1>5. DocInv'
  BY <1>1, <1>2, <1>3, <1>4, CallStep DEF XspfInv
<1> QED BY <1>1, <1>5, TextSame DEF XspfInv

LEMMA StartStep ==
    ASSUME XspfInv, NEW st, NEW name, NEW next, Deeper(st, name, next),
           tag(st, StartTag(name), next)
    PROVE  XspfInv'
<1>1. st \in DOMAIN Opened /\ next \in DOMAIN Opened /\ name \in Chars
  BY DEF Deeper
<1>2. ASSUME NEW doc, Reads(doc, Opened[st])
      PROVE  Reads(Then(doc, StartTag(name)), Opened[next])
  BY <1>2, StartTagRead DEF Deeper
<1>3. StartTag(name) \in Seq(Chars)
  <2>1. PICK lt \in Chars : lt = "<"
    BY DEF Chars
  <2>2. <<lt, name>> \in Seq(Chars)
    BY <1>1, TripleAppended
  <2> QED BY <2>1, <2>2 DEF StartTag
<1> QED BY <1>1, <1>2, <1>3, TagStep

LEMMA EndStep ==
    ASSUME XspfInv, NEW st, NEW name, NEW next, Deeper(next, name, st),
           tag(st, EndTag(name), next)
    PROVE  XspfInv'
<1>1. st \in DOMAIN Opened /\ next \in DOMAIN Opened /\ name \in Chars
  BY DEF Deeper
<1>2. ASSUME NEW doc, Reads(doc, Opened[st])
      PROVE  Reads(Then(doc, EndTag(name)), Opened[next])
  BY <1>2, EndTagRead DEF Deeper
<1>3. EndTag(name) \in Seq(Chars)
  <2>1. PICK lt \in Chars, slash \in Chars : lt = "<" /\ slash = "/"
    BY DEF Chars
  <2>2. <<lt, slash, name>> \in Seq(Chars)
    BY <1>1
  <2> QED BY <2>1, <2>2 DEF EndTag
<1> QED BY <1>1, <1>2, <1>3, TagStep

LEMMA ElementTyped ==
    ASSUME NEW name \in Chars, NEW content \in Seq(Chars)
    PROVE  Element(name, content) \in Seq(Chars)
<1>1. PICK lt \in Chars, slash \in Chars : lt = "<" /\ slash = "/"
  BY DEF Chars
<1>2. PICK a \in Seq(Chars), z \in Seq(Chars) :
          a = <<lt, name>> /\ z = <<lt, slash, name>>
  <2>1. <<lt, name>> \in Seq(Chars) /\ <<lt, slash, name>> \in Seq(Chars)
    OBVIOUS
  <2> QED BY <2>1
<1>3. Element(name, content) = (a \o content) \o z
  BY <1>1, <1>2, Zenon DEF Element, StartTag, EndTag
<1>4. (a \o content) \o z \in Seq(Chars)
  BY ConcatProperties
<1> QED BY <1>3, <1>4

LEMMA PlainStep ==
    ASSUME XspfInv, xspf_track_set_plain PROVE XspfInv'
<1>1. PICK name \in Chars, content \in Seq(Chars) :
          /\ name = "location" /\ content = <<"%">> /\ name # "<" /\ name # "/"
          /\ \A i \in 1 .. Len(content) : content[i] # "<"
  <2>1. "location" \in Chars /\ "%" \in Chars
    BY DEF Chars
  <2>2. /\ <<"%">> \in Seq(Chars)
        /\ \A i \in 1 .. Len(<<"%">>) : <<"%">>[i] # "<"
    BY <2>1
  <2> QED BY <2>1, <2>2
<1>2. PICK markup \in Seq(Chars) : markup = Element(name, content)
  BY ElementTyped
<1>3. /\ state \notin {"none", "freed"} /\ ~ warned /\ ncalls < MaxCalls
      /\ warned' = (state # "TRACK_BEGIN") /\ state' = state
      /\ ncalls' = ncalls + 1 /\ UNCHANGED readVars
      /\ UNCHANGED textVars /\ field' = field /\ fn = "none"
  BY DEF xspf_track_set_plain, Building
<1>4. string' = Then(string, markup)
  BY <1>1, <1>2, Zenon DEF xspf_track_set_plain, Then
<1>5. field' = "none"
  BY <1>3 DEF XspfInv, DocInv
<1>6. state \in DOMAIN Opened /\ "TRACK_BEGIN" \in DOMAIN Opened
  BY <1>3, OpenedStates DEF XspfInv, DocInv, DocTypes, XspfStates
<1>7. Reads(string, Opened[state])
  BY <1>3, <1>6 DEF XspfInv, DocInv
<1>8. Reads(Then(string, markup), Opened[state])
  BY <1>1, <1>2, <1>7, ElementRead
<1>9. DocInv'
  BY <1>3, <1>4, <1>5, <1>6, <1>8, CallStep DEF XspfInv
<1> QED BY <1>3, <1>9, TextSame DEF XspfInv

LEMMA SetTextStep ==
    ASSUME XspfInv, NEW s \in Titles, xspf_track_set_text(s) PROVE XspfInv'
<1>1. /\ state \notin {"none", "freed"} /\ ~ warned /\ ncalls < MaxCalls
      /\ warned' = (state # "TRACK_BEGIN") /\ field' = "title"
      /\ ncalls' = ncalls + 1 /\ state' = state /\ string' = string
      /\ got' = got /\ eof' = eof
  BY DEF xspf_track_set_text, Building, readVars
<1>2. fn' = "xml" /\ arg' = s /\ text' = s /\ todo' = XmlEdits
  BY DEF xspf_track_set_text, call
<1>3. XmlInv(arg', text', todo')
  BY <1>2, XmlCalled
<1>4. TextInv'
  BY <1>2, <1>3 DEF TextInv
<1>5. ncalls' \in 0 .. MaxCalls
  BY <1>1, XspfAssumption DEF XspfInv, DocInv, DocTypes
<1>6. DocTypes'
  BY <1>1, <1>5 DEF XspfInv, DocInv, DocTypes
<1>7. DocInv'
  BY <1>1, <1>2, <1>6 DEF XspfInv, DocInv
<1> QED BY <1>4, <1>7 DEF XspfInv

LEMMA AppendTextStep ==
    ASSUME XspfInv, append_text PROVE XspfInv'
<1>1. /\ fn = "xml" /\ todo = <<>> /\ field = "title" /\ field' = "none"
      /\ state' = state /\ warned' = warned /\ ncalls' = ncalls
      /\ got' = got /\ eof' = eof
  BY DEF append_text, Done, readVars, XspfInv, DocInv
<1>2. PICK name \in Chars : name = field /\ name # "<" /\ name # "/"
  BY <1>1 DEF Chars
<1>3. PICK content \in Seq(Chars) :
          content = text /\ \A i \in 1 .. Len(content) : content[i] # "<"
  <2>1. XmlInv(arg, text, <<>>)
    BY <1>1 DEF XspfInv, TextInv
  <2> QED BY <2>1, XmlContent
<1>4. PICK markup \in Seq(Chars) : markup = Element(name, content)
  BY ElementTyped
<1>5. string' = Then(string, markup)
  <2>1. Answer = content
    BY <1>1, <1>3 DEF Answer
  <2> QED BY <1>2, <1>4, <2>1, Zenon DEF append_text, Then
<1>6. string' \in Seq(Chars)
  BY <1>5, ThenIs DEF XspfInv, DocInv, DocTypes
<1>7. ASSUME ~ warned, state \in DOMAIN Opened
      PROVE  Reads(string', Opened[state])
  <2>1. Reads(string, Opened[state])
    BY <1>7 DEF XspfInv, DocInv
  <2>2. Reads(Then(string, markup), Opened[state])
    BY <1>2, <1>3, <1>4, <2>1, ElementRead
  <2> QED BY <1>5, <2>2
<1>8. state \notin {"none", "freed"}
  BY <1>1 DEF XspfInv, DocInv
<1>9. DocTypes'
  BY <1>1, <1>6 DEF XspfInv, DocInv, DocTypes
<1>10. DocInv'
  BY <1>1, <1>7, <1>8, <1>9 DEF XspfInv, DocInv
<1>11. TextInv'
  BY TextReturned DEF append_text
<1> QED BY <1>10, <1>11 DEF XspfInv

LEMMA NewStep ==
    ASSUME XspfInv, xspf_new PROVE XspfInv'
<1>1. /\ state = "none" /\ state' = "INIT" /\ UNCHANGED textVars
      /\ string' = string /\ warned' = warned /\ ncalls' = ncalls
      /\ field' = field /\ got' = got /\ eof' = eof /\ fn = "none"
  BY DEF xspf_new, readVars
<1>2. string = <<>> /\ field = "none"
  BY <1>1 DEF XspfInv, DocInv
<1>3. Reads(<<>>, <<>>)
  <2>1. <<>> \in Seq(Chars) /\ Len(<<>>) = 0
    OBVIOUS
  <2> QED BY <2>1, NothingOpen DEF Reads, Quiet
<1>4. Reads(string', Opened[state'])
  BY <1>1, <1>2, <1>3, OpenedStates
<1>5. DocTypes'
  BY <1>1 DEF XspfInv, DocInv, DocTypes, XspfStates
<1>6. DocInv'
  BY <1>1, <1>2, <1>4, <1>5 DEF XspfInv, DocInv
<1> QED BY <1>1, <1>6, TextSame DEF XspfInv

LEMMA FreeStep ==
    ASSUME XspfInv, xspf_free PROVE XspfInv'
<1>1. /\ state = "INIT" /\ state' = "freed" /\ UNCHANGED textVars
      /\ string' = string /\ warned' = warned /\ ncalls' = ncalls
      /\ field' = field /\ got' = got /\ eof' = eof /\ fn = "none"
  BY DEF xspf_free, readVars
<1>2. got = <<>> /\ eof = FALSE /\ field = "none"
  BY <1>1 DEF XspfInv, DocInv
<1>3. ReadSoFar(string, <<>>, FALSE)
  <2>1. SubSeq(string, 1, 0) = <<>>
    BY SubSeqEmpty
  <2>2. Len(<<>>) = 0 /\ 0 \in 0 .. Len(string)
    BY LenProperties DEF XspfInv, DocInv, DocTypes
  <2> QED BY <2>1, <2>2 DEF ReadSoFar
<1>4. state' \notin DOMAIN Opened
  BY <1>1, OpenedStates
<1>5. DocTypes'
  BY <1>1 DEF XspfInv, DocInv, DocTypes, XspfStates
<1>6. ReadSoFar(string', got', eof')
  BY <1>1, <1>2, <1>3
<1>7. DocInv'
  BY <1>1, <1>2, <1>4, <1>5, <1>6 DEF XspfInv, DocInv, ReadSoFar
<1> QED BY <1>1, <1>7, TextSame DEF XspfInv

LEMMA PartRead ==
    ASSUME XspfInv, NEW size \in Sizes, read(size) PROVE XspfInv'
<1>1. /\ state = "freed" /\ eof = FALSE /\ UNCHANGED textVars
      /\ state' = state /\ string' = string /\ warned' = warned
      /\ ncalls' = ncalls /\ field' = field
  BY DEF read, docVars, XspfInv, DocInv, DocTypes
<1>2. PICK part : part = READ_SIZED_OFFSET(string, size, Len(got))
  OBVIOUS
<1>3. got' = Then(got, part) /\ eof' = (part = <<>>)
  BY <1>2, Zenon DEF read, Then
<1>4. ReadSoFar(string, got, FALSE) /\ string \in Seq(Chars)
  BY <1>1 DEF XspfInv, DocInv, DocTypes
<1>5. size \in Nat /\ size > 0
  BY XspfAssumption
<1>6. ReadSoFar(string, Then(got, part), part = <<>>)
  BY <1>2, <1>4, <1>5, ReadStep
<1>7. ReadSoFar(string', got', eof')
  BY <1>1, <1>3, <1>6
<1>8. field = "none"
  BY <1>1 DEF XspfInv, DocInv
<1>9. DocTypes'
  BY <1>1, <1>3 DEF XspfInv, DocInv, DocTypes
<1>10. state' \notin DOMAIN Opened
  BY <1>1, OpenedStates
<1>11. DocInv'
  BY <1>1, <1>7, <1>8, <1>9, <1>10 DEF XspfInv, DocInv, ReadSoFar
<1> QED BY <1>1, <1>11, TextSame DEF XspfInv

-----------------------------------------------------------------------------
(* The theorems.                                                           *)

LEMMA Initially == Init => XspfInv
<1>1. SUFFICES ASSUME Init PROVE XspfInv
  OBVIOUS
<1>2. TextInv
  BY <1>1 DEF Init, TextInit, TextInv
<1>3. /\ state = "none" /\ string = <<>> /\ warned = FALSE /\ ncalls = 0
      /\ field = "none" /\ got = <<>> /\ eof = FALSE
  BY <1>1 DEF Init
<1>4. 0 \in 0 .. MaxCalls /\ <<>> \in Seq(Chars)
  BY XspfAssumption
<1>5. state \notin DOMAIN Opened
  BY <1>3, OpenedStates
<1>6. DocInv
  BY <1>3, <1>4, <1>5 DEF DocInv, DocTypes, XspfStates
<1> QED BY <1>2, <1>6 DEF XspfInv

LEMMA Preserved == XspfInv /\ [Next]_vars => XspfInv'
<1>1. SUFFICES ASSUME XspfInv, [Next]_vars PROVE XspfInv'
  OBVIOUS
<1>2. TextInv /\ DocInv
  BY <1>1 DEF XspfInv
<1>3. CASE text_call
  <2>1. field # "title"
    BY <1>2, <1>3 DEF text_call, DocInv
  <2>2. DocInv'
    BY <1>2, <1>3, <2>1, DocSame DEF text_call
  <2> QED BY <1>3, <2>2, TextCalled DEF text_call, XspfInv
<1>4. CASE text_replace
  <2>1. TextInv' /\ fn' = fn
    BY <1>2, <1>4, TextReplaced DEF text_replace
  <2>2. DocInv'
    BY <1>2, <1>4, <2>1, DocSame DEF text_replace
  <2> QED BY <2>1, <2>2 DEF XspfInv
<1>5. CASE text_return
  <2>1. TextInv'
    BY <1>5, TextReturned DEF text_return
  <2>2. DocInv'
    BY <1>2, <1>5, DocSame DEF text_return
  <2> QED BY <2>1, <2>2 DEF XspfInv
<1>6. CASE xspf_new
  BY <1>1, <1>6, NewStep
<1>7. CASE xspf_begin_playlist
  BY <1>1, <1>7, StatesNest, StartStep DEF xspf_begin_playlist
<1>8. CASE xspf_end_playlist
  BY <1>1, <1>8, StatesNest, EndStep DEF xspf_end_playlist
<1>9. CASE xspf_begin_tracklist
  BY <1>1, <1>9, StatesNest, StartStep DEF xspf_begin_tracklist
<1>10. CASE xspf_end_tracklist
  BY <1>1, <1>10, StatesNest, EndStep DEF xspf_end_tracklist
<1>11. CASE xspf_begin_track
  BY <1>1, <1>11, StatesNest, StartStep DEF xspf_begin_track
<1>12. CASE xspf_end_track
  BY <1>1, <1>12, StatesNest, EndStep DEF xspf_end_track
<1>13. CASE xspf_track_set_plain
  BY <1>1, <1>13, PlainStep
<1>14. CASE \E s \in Titles : xspf_track_set_text(s)
  BY <1>1, <1>14, SetTextStep
<1>15. CASE append_text
  BY <1>1, <1>15, AppendTextStep
<1>16. CASE xspf_free
  BY <1>1, <1>16, FreeStep
<1>17. CASE \E size \in Sizes : read(size)
  BY <1>1, <1>17, PartRead
<1>18. CASE UNCHANGED vars
  <2>1. UNCHANGED textVars /\ UNCHANGED <<docVars, readVars>>
    BY <1>18 DEF vars
  <2>2. TextInv' /\ fn' = fn
    BY <1>2, <2>1, TextSame
  <2>3. DocInv'
    BY <1>2, <2>1, <2>2, DocSame
  <2> QED BY <2>2, <2>3 DEF XspfInv
<1>19. CASE closed \/ left
  BY <1>18, <1>19 DEF closed, left
<1> QED
  BY <1>1, <1>3, <1>4, <1>5, <1>6, <1>7, <1>8, <1>9, <1>10, <1>11, <1>12,
     <1>13, <1>14, <1>15, <1>16, <1>17, <1>18, <1>19 DEF Next

LEMMA Invariant == Spec => []XspfInv
BY Initially, Preserved, PTL DEF Spec

\* The type invariant: no function is left over between calls, no text grows
\* beyond the bound, which so never stops a replacement, and a reader is never
\* given more than there is.
THEOREM TypeCorrect == Spec => []TypeOK
<1>1. XspfInv => TypeOK
  <2>1. SUFFICES ASSUME XspfInv PROVE TypeOK
    OBVIOUS
  <2>2. fn # "path" => Len(text) <= MaxText
    BY <2>1, TextsFit DEF XspfInv
  <2>3. Len(got) <= Len(string)
    <3>1. CASE state = "freed"
      <4>1. ReadSoFar(string, got, eof) /\ string \in Seq(Chars)
        BY <2>1, <3>1 DEF XspfInv, DocInv, DocTypes
      <4> QED BY <4>1, ReadJoins
    <3>2. CASE state # "freed"
      <4>1. got = <<>> /\ string \in Seq(Chars)
        BY <2>1, <3>2 DEF XspfInv, DocInv, DocTypes
      <4>2. Len(got) = 0 /\ Len(string) \in Nat
        BY <4>1, LenProperties
      <4> QED BY <4>2
    <3> QED BY <3>1, <3>2
  <2> QED BY <2>1, <2>2, <2>3 DEF XspfInv, TextInv, DocInv, DocTypes, TypeOK
<1> QED BY <1>1, Invariant, PTL

\* What spfs_sanitize_name returns is its argument with every slash replaced,
\* and stripped, whatever the argument: the loop of str_replace reaches them
\* all and touches nothing else.
THEOREM NamesAreSanitized == Spec => []NamesSanitized
<1>1. XspfInv => NamesSanitized
  <2>1. SUFFICES ASSUME XspfInv, fn = "name", todo = <<>> PROVE NamesSanitized
    BY DEF NamesSanitized, Done
  <2>2. NameInv(arg, text, todo)
    BY <2>1 DEF XspfInv, TextInv
  <2>3. Renamed(arg, text) /\ NoSlash(text)
    <3>1. NameEdits # <<>>
      BY DEF NameEdits
    <3> QED BY <2>1, <2>2, <3>1 DEF NameInv
  <2>4. text = [i \in DOMAIN arg |-> IF arg[i] = "/" THEN ":" ELSE arg[i]]
    BY <2>3, NameResult DEF NoSlash
  <2>5. Answer = strip(text)
    BY <2>1 DEF Answer
  <2> QED BY <2>4, <2>5 DEF NamesSanitized
<1> QED BY <1>1, Invariant, PTL

\* The answer of xspf_sanitize in a reachable state.
LEMMA XmlAnswer ==
    ASSUME XspfInv, Done("xml")
    PROVE  /\ Answer = Escaped(arg) <=>
                 OneAmpersand(arg) /\ ~ Occurs(<<"!", "amp">>, arg)
           /\ {"'", "<"} \cap ToSet(Answer) = {}
<1>1. fn = "xml" /\ todo = <<>>
  BY DEF Done
<1>2. XmlInv(arg, text, <<>>)
  BY <1>1 DEF XspfInv, TextInv
<1>3. arg \in Seq(Chars) /\ Rewritten(arg, 0, text)
  BY <1>2, XmlDone
<1>4. Answer = text
  BY <1>1 DEF Answer
<1>5. /\ text = Escaped(arg) <=>
             OneAmpersand(arg) /\ ~ Occurs(<<"!", "amp">>, arg)
      /\ {"'", "<"} \cap ToSet(text) = {}
  BY <1>3, XmlResult
<1> QED BY <1>4, <1>5

\* What xspf_sanitize returns is escaped if the argument has at most one & and
\* no "!amp;", and for any argument it never holds a quote or a bracket.
THEOREM TextsAreEscaped == Spec => []TextsEscaped
<1>1. XspfInv => TextsEscaped
  BY XmlAnswer DEF TextsEscaped
<1> QED BY <1>1, Invariant, PTL

\* Every other text that xspf_sanitize returns is not escaped as its comment
\* says (EveryTextEscaped): the first & only is replaced.
OtherTextsWrong ==
    Done("xml") /\ (~ OneAmpersand(arg) \/ Occurs(<<"!", "amp">>, arg))
        => Answer # Escaped(arg)

\* A text with two & or a "!amp;" is answered wrongly, whatever else it holds:
\* xspf_escape_ampersand calls str_replace once.
THEOREM OtherTextsAreWrong == Spec => []OtherTextsWrong
<1>1. XspfInv => OtherTextsWrong
  BY XmlAnswer DEF OtherTextsWrong
<1> QED BY <1>1, Invariant, PTL

\* As long as the builder has not warned, the elements open in the document are
\* the ones its state stands for, after any calls and with any texts.
THEOREM TagsAreNested == Spec => []TagsNested
<1>1. XspfInv => TagsNested
  BY DEF XspfInv, DocInv, TagsNested, Reads
<1> QED BY <1>1, Invariant, PTL

\* The reads of a finished document give it from the beginning to the end,
\* each part once, whatever their sizes.
THEOREM PartsAreJoined == Spec => []PartsJoin
<1>1. XspfInv => PartsJoin
  <2>1. SUFFICES ASSUME XspfInv, state = "freed"
                 PROVE  IsPrefix(got, string) /\ (eof => got = string)
    BY DEF PartsJoin
  <2>2. ReadSoFar(string, got, eof) /\ string \in Seq(Chars)
    BY <2>1 DEF XspfInv, DocInv, DocTypes
  <2> QED BY <2>2, ReadJoins
<1> QED BY <1>1, Invariant, PTL
=============================================================================
