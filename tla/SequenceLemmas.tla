---------------------------- MODULE SequenceLemmas ----------------------------
(***************************************************************************)
(* Induction on the naturals, stated for sets instead of predicates, so    *)
(* that it can be cited of any set that is defined where it is needed; and *)
(* what follows from it about the operators on sequences that the models   *)
(* are built from.                                                         *)
(***************************************************************************)
EXTENDS Integers, Sequences, SequencesExt, SequenceTheorems,
        WellFoundedInduction, TLAPS

-----------------------------------------------------------------------------
(* Induction.                                                              *)

\* A set of naturals that is not empty has a least element.
LEMMA LeastNatural ==
    ASSUME NEW T, T \subseteq Nat, T # {}
    PROVE  \E x \in T : \A y \in T : x <= y
<1> DEFINE R == {p \in Nat \X Nat : p[1] < p[2]}
<1>1. IsWellFoundedOn(R, Nat)
  <2>1. OpToRel(<, Nat) = R
    BY DEF OpToRel
  <2> QED BY <2>1, NatLessThanWellFounded
<1>2. PICK x \in T : \A y \in T : ~ (<<y, x>> \in R)
  <2> HIDE DEF R
  <2> QED BY <1>1, WFMin
<1>3. \A y \in T : ~ (y < x)
  BY <1>2
<1>4. \A y \in T : x <= y
  BY <1>3
<1> QED BY <1>4

\* A set that holds 0, and with each natural the next one, holds them all.
LEMMA SetInduction ==
    ASSUME NEW S, 0 \in S, \A n \in Nat : n \in S => n + 1 \in S
    PROVE  Nat \subseteq S
<1> DEFINE T == Nat \ S
<1>1. ASSUME T # {} PROVE FALSE
  <2> HIDE DEF T
  <2>1. T \subseteq Nat
    BY DEF T
  <2>2. PICK x \in T : \A y \in T : x <= y
    BY <1>1, <2>1, LeastNatural
  <2>3. x \in Nat /\ x # 0 /\ x \notin S
    BY DEF T
  <2>4. x - 1 \in Nat /\ x - 1 \notin T
    BY <2>2, <2>3
  <2>5. x - 1 \in S
    BY <2>4 DEF T
  <2> QED BY <2>3, <2>4, <2>5
<1> QED BY <1>1

\* How to go on from a value in T, n times.
Steps(n, T) == [1 .. n -> [T -> T]]

\* f holds the values on the way from base.
Iterates(f, n, T, base, step) ==
    /\ f \in [0 .. n -> T]
    /\ f[0] = base
    /\ \A i \in 1 .. n : f[i] = step[i][f[i - 1]]

LEMMA Recursion ==
    ASSUME NEW T, NEW base \in T, NEW n \in Nat, NEW step \in Steps(n, T)
    PROVE  \E f : Iterates(f, n, T, base, step)
<1> USE DEF Steps
<1> DEFINE Upto(m) == \E f \in [0 .. m -> T] :
                        /\ f[0] = base
                        /\ \A i \in 1 .. m : f[i] = step[i][f[i - 1]]
           S == {m \in Nat : m <= n => Upto(m)}
<1>1. 0 \in S
  <2> DEFINE f == [i \in 0 .. 0 |-> base]
  <2>1. f \in [0 .. 0 -> T] /\ f[0] = base
    OBVIOUS
  <2>2. \A i \in 1 .. 0 : f[i] = step[i][f[i - 1]]
    OBVIOUS
  <2> HIDE DEF f
  <2> QED BY <2>1, <2>2
<1>2. ASSUME NEW m \in Nat, m \in S PROVE m + 1 \in S
  <2>1. SUFFICES ASSUME m + 1 <= n PROVE Upto(m + 1)
    OBVIOUS
  <2>2. PICK f \in [0 .. m -> T] :
             /\ f[0] = base
             /\ \A i \in 1 .. m : f[i] = step[i][f[i - 1]]
    BY <1>2, <2>1
  <2> DEFINE x == step[m + 1][f[m]]
             g == [i \in 0 .. m + 1 |-> IF i = m + 1 THEN x ELSE f[i]]
  <2>3. x \in T
    <3>1. m + 1 \in 1 .. n /\ m \in 0 .. m
      BY <2>1
    <3> QED BY <3>1
  <2>4. g \in [0 .. m + 1 -> T]
    BY <2>3
  <2>5. g[0] = base
    BY <2>2
  <2>6. ASSUME NEW i \in 1 .. m + 1 PROVE g[i] = step[i][g[i - 1]]
    <3>1. CASE i = m + 1
      <4>1. g[i] = x /\ i - 1 = m /\ g[m] = f[m]
        BY <3>1
      <4> QED BY <3>1, <4>1
    <3>2. CASE i \in 1 .. m
      <4>1. g[i] = f[i] /\ g[i - 1] = f[i - 1]
        BY <3>2
      <4> QED BY <2>2, <3>2, <4>1
    <3>3. i = m + 1 \/ i \in 1 .. m
      OBVIOUS
    <3> QED BY <3>1, <3>2, <3>3
  <2> QED BY <2>4, <2>5, <2>6
<1>3. Nat \subseteq S
  <2> HIDE DEF S
  <2> QED BY <1>1, <1>2, SetInduction
<1>4. n \in S
  BY <1>3
<1> QED BY <1>4 DEF Iterates

\* A way up from each index, by smaller ones, to one that has none above.
WayUp(above, n) ==
    above \in [1 .. n -> Nat] /\ \A i \in 1 .. n : above[i] < i

\* f holds the values on the way back from the first ones.
Ascends(f, n, T, above, first, step) ==
    /\ f \in [1 .. n -> T]
    /\ \A i \in 1 .. n :
          f[i] = IF above[i] = 0 THEN first[i] ELSE step[i][f[above[i]]]

LEMMA Ascent ==
    ASSUME NEW T, NEW n \in Nat, NEW above, WayUp(above, n),
           NEW first \in [1 .. n -> T], NEW step \in Steps(n, T)
    PROVE  \E f : Ascends(f, n, T, above, first, step)
<1> USE DEF Steps, WayUp
<1> DEFINE Upto(m) == \E f \in [1 .. m -> T] : \A i \in 1 .. m :
               f[i] = IF above[i] = 0 THEN first[i] ELSE step[i][f[above[i]]]
           S == {m \in Nat : m <= n => Upto(m)}
<1>1. 0 \in S
  <2> DEFINE f == [i \in 1 .. 0 |-> first[i]]
  <2>1. f \in [1 .. 0 -> T] /\ \A i \in 1 .. 0 : FALSE
    OBVIOUS
  <2> HIDE DEF f
  <2> QED BY <2>1
<1>2. ASSUME NEW m \in Nat, m \in S PROVE m + 1 \in S
  <2>1. SUFFICES ASSUME m + 1 <= n PROVE Upto(m + 1)
    OBVIOUS
  <2>2. PICK f \in [1 .. m -> T] : \A i \in 1 .. m :
            f[i] = IF above[i] = 0 THEN first[i] ELSE step[i][f[above[i]]]
    <3>1. m <= n
      BY <2>1
    <3>2. Upto(m)
      <4> HIDE DEF Upto
      <4> QED BY <1>2, <3>1
    <3> QED BY <3>2
  <2> DEFINE x == IF above[m + 1] = 0 THEN first[m + 1]
                  ELSE step[m + 1][f[above[m + 1]]]
             g == [i \in 1 .. m + 1 |-> IF i = m + 1 THEN x ELSE f[i]]
  <2>3. m + 1 \in 1 .. n /\ above[m + 1] \in Nat /\ above[m + 1] < m + 1
    BY <2>1
  <2>4. x \in T
    <3>1. above[m + 1] # 0 => above[m + 1] \in 1 .. m
      BY <2>3
    <3> QED BY <2>3, <3>1
  <2>5. g \in [1 .. m + 1 -> T]
    BY <2>4
  <2>6. ASSUME NEW i \in 1 .. m + 1
        PROVE  g[i] = IF above[i] = 0 THEN first[i] ELSE step[i][g[above[i]]]
    <3>1. i \in 1 .. n /\ above[i] \in Nat /\ above[i] < i
      BY <2>1
    <3>2. above[i] # 0 => above[i] \in 1 .. m
      BY <3>1
    <3>3. above[i] # 0 => g[above[i]] = f[above[i]]
      BY <3>2
    <3>4. CASE i = m + 1
      <4>1. g[i] = x
        BY <3>4
      <4> QED BY <3>3, <3>4, <4>1
    <3>5. CASE i \in 1 .. m
      <4>1. g[i] = f[i]
        BY <3>5
      <4> QED BY <2>2, <3>3, <3>5, <4>1
    <3> QED BY <3>4, <3>5
  <2> HIDE DEF g
  <2> QED BY <2>5, <2>6
<1>3. n \in S
  <2> HIDE DEF S
  <2> QED BY <1>1, <1>2, SetInduction
<1> QED BY <1>3 DEF Ascends

-----------------------------------------------------------------------------
(* Concatenation.                                                          *)

\* Concatenation as an operator that the solver knows nothing else about.
Then(s, t) == s \o t

LEMMA ThenIs ==
    ASSUME NEW S, NEW s \in Seq(S), NEW t \in Seq(S)
    PROVE  /\ Then(s, t) \in Seq(S)
           /\ Len(Then(s, t)) = Len(s) + Len(t)
           /\ \A i \in 1 .. Len(s) + Len(t) :
                 Then(s, t)[i] = IF i <= Len(s) THEN s[i] ELSE t[i - Len(s)]
BY ConcatProperties DEF Then

LEMMA ThenRegroups ==
    ASSUME NEW S, NEW s \in Seq(S), NEW t \in Seq(S), NEW u \in Seq(S)
    PROVE  /\ Then(s, t) \in Seq(S)
           /\ Then(Then(s, t), u) = Then(s, Then(t, u))
<1>1. (s \o t) \o u = s \o (t \o u)
  BY ConcatAssociative
<1>2. Then(Then(s, t), u) = Then(s, Then(t, u))
  BY <1>1, Zenon DEF Then
<1> QED BY <1>2, ThenIs

LEMMA AppendRegroups ==
    ASSUME NEW S, NEW s \in Seq(S), NEW t \in Seq(S), NEW x \in S
    PROVE  Then(s, Append(t, x)) = Append(Then(s, t), x)
<1>1. <<x>> \in Seq(S) /\ s \o t \in Seq(S)
  BY ConcatProperties
<1>2. Append(t, x) = t \o <<x>> /\ Append(s \o t, x) = (s \o t) \o <<x>>
  BY <1>1, AppendIsConcat
<1>3. (s \o t) \o <<x>> = s \o (t \o <<x>>)
  BY <1>1, ConcatAssociative
<1> QED BY <1>2, <1>3, Zenon DEF Then

LEMMA OneElement ==
    ASSUME NEW S, NEW x \in S, NEW t \in Seq(S), Len(t) = 1, t[1] = x
    PROVE  t = <<x>>
<1>1. <<x>> \in Seq(S) /\ Len(<<x>>) = 1 /\ <<x>>[1] = x
  OBVIOUS
<1>2. \A i \in 1 .. Len(t) : t[i] = <<x>>[i]
  BY <1>1
<1> QED BY <1>1, <1>2, SeqEqual

LEMMA TwoElements ==
    ASSUME NEW S, NEW x \in S, NEW y \in S,
           NEW t \in Seq(S), Len(t) = 2, t[1] = x, t[2] = y
    PROVE  t = <<x, y>>
<1>1. /\ <<x, y>> \in Seq(S) /\ Len(<<x, y>>) = 2
      /\ <<x, y>>[1] = x /\ <<x, y>>[2] = y
  OBVIOUS
<1>2. \A i \in 1 .. Len(t) : t[i] = <<x, y>>[i]
  BY <1>1
<1> QED BY <1>1, <1>2, SeqEqual

LEMMA PairAppended ==
    ASSUME NEW S, NEW x \in S, NEW y \in S
    PROVE  <<x>> \in Seq(S) /\ Append(<<x>>, y) = <<x, y>>
<1>1. PICK t \in Seq(S) : t = <<x>> /\ Len(t) = 1 /\ t[1] = x
  <2>1. <<x>> \in Seq(S) /\ Len(<<x>>) = 1 /\ <<x>>[1] = x
    OBVIOUS
  <2> QED BY <2>1
<1>2. PICK u \in Seq(S) : u = Append(t, y) /\ Len(u) = 2 /\ u[1] = x /\ u[2] = y
  <2>1. /\ Append(t, y) \in Seq(S) /\ Len(Append(t, y)) = Len(t) + 1
        /\ \A i \in 1 .. Len(t) : Append(t, y)[i] = t[i]
        /\ Append(t, y)[Len(t) + 1] = y
    BY AppendProperties
  <2>2. 1 \in 1 .. Len(t) /\ Len(t) + 1 = 2
    BY <1>1
  <2>3. Append(t, y)[1] = x /\ Append(t, y)[2] = y
    BY <1>1, <2>1, <2>2
  <2> QED BY <2>1, <2>2, <2>3
<1>3. u = <<x, y>>
  BY <1>2, TwoElements
<1> QED BY <1>1, <1>2, <1>3, Zenon

LEMMA TripleAppended ==
    ASSUME NEW S, NEW x \in S, NEW y \in S, NEW z \in S
    PROVE  <<x, y>> \in Seq(S) /\ Append(<<x, y>>, z) = <<x, y, z>>
<1>1. PICK t \in Seq(S) : t = <<x, y>> /\ Len(t) = 2 /\ t[1] = x /\ t[2] = y
  <2>1. /\ <<x, y>> \in Seq(S) /\ Len(<<x, y>>) = 2
        /\ <<x, y>>[1] = x /\ <<x, y>>[2] = y
    OBVIOUS
  <2> QED BY <2>1
<1>2. PICK u \in Seq(S) : /\ u = Append(t, z) /\ Len(u) = 3
                          /\ u[1] = x /\ u[2] = y /\ u[3] = z
  <2>1. /\ Append(t, z) \in Seq(S) /\ Len(Append(t, z)) = Len(t) + 1
        /\ \A i \in 1 .. Len(t) : Append(t, z)[i] = t[i]
        /\ Append(t, z)[Len(t) + 1] = z
    BY AppendProperties
  <2>2. 1 \in 1 .. Len(t) /\ 2 \in 1 .. Len(t) /\ Len(t) + 1 = 3
    BY <1>1
  <2>3. Append(t, z)[1] = x /\ Append(t, z)[2] = y /\ Append(t, z)[3] = z
    BY <1>1, <2>1, <2>2
  <2> QED BY <2>1, <2>2, <2>3
<1>3. /\ <<x, y, z>> \in Seq(S) /\ Len(<<x, y, z>>) = 3
      /\ <<x, y, z>>[1] = x /\ <<x, y, z>>[2] = y /\ <<x, y, z>>[3] = z
  OBVIOUS
<1>4. \A i \in 1 .. Len(u) : u[i] = <<x, y, z>>[i]
  BY <1>2, <1>3
<1>5. u = <<x, y, z>>
  BY <1>2, <1>3, <1>4, SeqEqual
<1> QED BY <1>1, <1>2, <1>5, Zenon

LEMMA TwoAppended ==
    ASSUME NEW S, NEW s \in Seq(S), NEW x \in S, NEW y \in S
    PROVE  Then(s, <<x, y>>) = Append(Append(s, x), y)
<1>1. PICK t \in Seq(S) : t = <<x>> /\ Append(t, y) = <<x, y>>
  BY PairAppended, Zenon
<1>2. Then(s, t) = Append(s, x)
  BY <1>1, AppendIsConcat, Zenon DEF Then
<1>3. Then(s, Append(t, y)) = Append(Then(s, t), y)
  BY AppendRegroups
<1> QED BY <1>1, <1>2, <1>3, Zenon

LEMMA ThreeAppended ==
    ASSUME NEW S, NEW s \in Seq(S), NEW x \in S, NEW y \in S, NEW z \in S
    PROVE  Then(s, <<x, y, z>>) = Append(Append(Append(s, x), y), z)
<1>1. PICK t \in Seq(S) : t = <<x, y>> /\ Append(t, z) = <<x, y, z>>
  BY TripleAppended, Zenon
<1>2. Then(s, <<x, y>>) = Append(Append(s, x), y)
  BY TwoAppended
<1>3. Then(s, Append(t, z)) = Append(Then(s, t), z)
  BY AppendRegroups
<1> QED BY <1>1, <1>2, <1>3, Zenon

LEMMA SubSeqSame ==
    ASSUME NEW S, NEW s, NEW t, NEW m \in Int, NEW n \in Int,
           \A i \in m .. n : s[i] \in S /\ s[i] = t[i]
    PROVE  SubSeq(s, m, n) = SubSeq(t, m, n)
<1>1. /\ SubSeq(s, m, n) \in Seq(S)
      /\ Len(SubSeq(s, m, n)) = IF m <= n THEN n - m + 1 ELSE 0
      /\ \A i \in 1 .. n - m + 1 : SubSeq(s, m, n)[i] = s[m + i - 1]
  BY SubSeqProperties
<1>2. \A i \in m .. n : t[i] \in S
  OBVIOUS
<1>3. /\ SubSeq(t, m, n) \in Seq(S)
      /\ Len(SubSeq(t, m, n)) = IF m <= n THEN n - m + 1 ELSE 0
      /\ \A i \in 1 .. n - m + 1 : SubSeq(t, m, n)[i] = t[m + i - 1]
  BY <1>2, SubSeqProperties
<1>4. ASSUME NEW i \in 1 .. Len(SubSeq(s, m, n))
      PROVE  SubSeq(s, m, n)[i] = SubSeq(t, m, n)[i]
  <2>1. i \in 1 .. n - m + 1 /\ m + i - 1 \in m .. n
    BY <1>1
  <2> QED BY <1>1, <1>3, <2>1
<1> QED BY <1>1, <1>3, <1>4, SeqEqual

LEMMA LastAppended ==
    ASSUME NEW S, NEW s \in Seq(S), NEW x \in S
    PROVE  /\ Append(s, x) # <<>> /\ Last(Append(s, x)) = x
           /\ Front(Append(s, x)) = s
<1>1. PICK n \in Nat : n = Len(s) /\ s \in [1 .. n -> S]
  BY LenProperties
<1>2. PICK t \in Seq(S) :
          /\ t = Append(s, x) /\ Len(t) = n + 1 /\ t[n + 1] = x
          /\ \A i \in 1 .. n : t[i] = s[i]
  <2>1. /\ Append(s, x) \in Seq(S) /\ Len(Append(s, x)) = Len(s) + 1
        /\ \A i \in 1 .. Len(s) : Append(s, x)[i] = s[i]
        /\ Append(s, x)[Len(s) + 1] = x
    BY AppendProperties
  <2> QED BY <1>1, <2>1
<1>3. t # <<>> /\ Last(t) = x
  BY <1>2, EmptySeq DEF Last
<1>4. SubSeq(t, 1, n) = SubSeq(s, 1, n)
  <2>1. \A i \in 1 .. n : t[i] \in S /\ t[i] = s[i]
    BY <1>1, <1>2
  <2>2. 1 \in Int /\ n \in Int
    OBVIOUS
  <2> QED BY <2>1, <2>2, SubSeqSame
<1>5. SubSeq(s, 1, n) = s /\ (n + 1) - 1 = n
  BY <1>1, SubSeqFull
<1> QED BY <1>2, <1>3, <1>4, <1>5 DEF Front

-----------------------------------------------------------------------------
(* FlattenSeq.                                                             *)

\* f holds what the first i sequences make together.
FoldsTo(ss, f) ==
    /\ f[1] = ss[1]
    /\ \A i \in 2 .. Len(ss) : f[i] = f[i - 1] \o ss[i]

LEMMA FlattenEmpty == FlattenSeq(<<>>) = <<>>
BY DEF FlattenSeq

\* The recursive function within FlattenSeq exists.
Joined(f, n, ss) ==
    f = [i \in 1 .. n |-> IF i = 1 THEN ss[i] ELSE f[i - 1] \o ss[i]]

LEMMA JoinsExist ==
    ASSUME NEW S, NEW n \in Nat, NEW ss \in [1 .. n -> Seq(S)]
    PROVE  \E f : Joined(f, n, ss)
<1> DEFINE step == [i \in 1 .. n |->
                      [s \in Seq(S) |-> IF i = 1 THEN ss[i] ELSE s \o ss[i]]]
<1>1. step \in [1 .. n -> [Seq(S) -> Seq(S)]]
  <2>1. ASSUME NEW i \in 1 .. n, NEW s \in Seq(S)
        PROVE  (IF i = 1 THEN ss[i] ELSE s \o ss[i]) \in Seq(S)
    BY ConcatProperties
  <2> QED BY <2>1
<1>2. PICK base \in Seq(S) : TRUE
  BY EmptySeq
<1>3. PICK f : Iterates(f, n, Seq(S), base, step)
  <2>1. step \in Steps(n, Seq(S))
    BY <1>1 DEF Steps
  <2> HIDE DEF step
  <2> QED BY <2>1, Recursion
<1>4. f \in [0 .. n -> Seq(S)] /\ \A i \in 1 .. n : f[i] = step[i][f[i - 1]]
  BY <1>3 DEF Iterates
<1> DEFINE g == [i \in 1 .. n |-> f[i]]
<1>5. ASSUME NEW i \in 1 .. n
      PROVE  g[i] = IF i = 1 THEN ss[i] ELSE g[i - 1] \o ss[i]
  <2>1. i \in 0 .. n /\ i - 1 \in 0 .. n /\ f[i - 1] \in Seq(S)
    BY <1>4
  <2>2. f[i] = IF i = 1 THEN ss[i] ELSE f[i - 1] \o ss[i]
    BY <1>4, <2>1
  <2>3. i # 1 => g[i - 1] = f[i - 1]
    OBVIOUS
  <2> QED BY <2>2, <2>3
<1>6. Joined(g, n, ss)
  BY <1>5 DEF Joined
<1> HIDE DEF g
<1> QED BY <1>6

LEMMA JoinsTyped ==
    ASSUME NEW S, NEW n \in Nat, NEW ss \in [1 .. n -> Seq(S)],
           NEW f, Joined(f, n, ss)
    PROVE  \A i \in 1 .. n : f[i] \in Seq(S)
<1> DEFINE T == {k \in Nat : k + 1 \in 1 .. n => f[k + 1] \in Seq(S)}
<1>0. \A i \in 1 .. n : f[i] = IF i = 1 THEN ss[i] ELSE f[i - 1] \o ss[i]
  <2> DEFINE e(i) == IF i = 1 THEN ss[i] ELSE f[i - 1] \o ss[i]
  <2>1. f = [i \in 1 .. n |-> e(i)]
    BY DEF Joined
  <2> HIDE DEF e
  <2>2. \A i \in 1 .. n : f[i] = e(i)
    BY <2>1
  <2> QED BY <2>2 DEF e
<1>1. 0 \in T
  <2>1. 1 \in 1 .. n => f[1] = ss[1]
    BY <1>0
  <2> QED BY <2>1
<1>2. ASSUME NEW k \in Nat, k \in T PROVE k + 1 \in T
  <2>1. SUFFICES ASSUME k + 2 \in 1 .. n PROVE f[k + 2] \in Seq(S)
    OBVIOUS
  <2>2. f[k + 1] \in Seq(S)
    BY <1>2, <2>1
  <2>3. f[k + 2] = f[k + 1] \o ss[k + 2]
    <3>1. k + 2 # 1 /\ (k + 2) - 1 = k + 1
      OBVIOUS
    <3> QED BY <1>0, <2>1, <3>1
  <2>4. ss[k + 2] \in Seq(S)
    BY <2>1
  <2> QED BY <2>2, <2>3, <2>4, ConcatProperties
<1>3. Nat \subseteq T
  <2> HIDE DEF T
  <2> QED BY <1>1, <1>2, SetInduction
<1>4. ASSUME NEW i \in 1 .. n PROVE f[i] \in Seq(S)
  <2>1. i - 1 \in Nat /\ (i - 1) + 1 = i
    OBVIOUS
  <2>2. i - 1 \in T
    BY <1>3, <2>1
  <2> QED BY <2>1, <2>2
<1> QED BY <1>4

LEMMA FlattenJoins ==
    ASSUME NEW S, NEW ss \in Seq(Seq(S)), ss # <<>>
    PROVE  \E f \in [1 .. Len(ss) -> Seq(S)] :
              FoldsTo(ss, f) /\ FlattenSeq(ss) = f[Len(ss)]
<1>1. PICK n \in Nat \ {0} : n = Len(ss)
  BY EmptySeq
<1>2. ss \in [1 .. n -> Seq(S)]
  BY <1>1, LenProperties
<1> DEFINE f == CHOOSE g : Joined(g, n, ss)
<1>3. FlattenSeq(ss) = f[n]
  BY <1>1 DEF FlattenSeq, Joined
<1>4. Joined(f, n, ss)
  BY <1>2, JoinsExist
<1> HIDE DEF f
<1>5. \A i \in 1 .. n : f[i] \in Seq(S)
  BY <1>2, <1>4, JoinsTyped
<1>6. f \in [1 .. n -> Seq(S)]
  <2>1. f = [i \in 1 .. n |-> f[i]]
    BY <1>4 DEF Joined
  <2> QED BY <1>5, <2>1
<1>7. \A i \in 1 .. n : f[i] = IF i = 1 THEN ss[i] ELSE f[i - 1] \o ss[i]
  BY <1>4 DEF Joined
<1>8. FoldsTo(ss, f)
  <2>1. f[1] = ss[1]
    BY <1>7
  <2>2. ASSUME NEW i \in 2 .. n PROVE f[i] = f[i - 1] \o ss[i]
    <3>1. i \in 1 .. n /\ i # 1
      OBVIOUS
    <3> QED BY <1>7, <3>1
  <2> QED BY <1>1, <2>1, <2>2 DEF FoldsTo
<1> QED BY <1>1, <1>3, <1>6, <1>8

\* One more sequence.
LEMMA FlattenAppend ==
    ASSUME NEW S, NEW ss \in Seq(Seq(S)), NEW s \in Seq(S)
    PROVE  FlattenSeq(Append(ss, s)) = FlattenSeq(ss) \o s
<1> DEFINE tt == Append(ss, s)
<1>1. /\ tt \in Seq(Seq(S)) /\ tt # <<>>
      /\ Len(tt) = Len(ss) + 1
      /\ \A i \in 1 .. Len(ss) : tt[i] = ss[i]
      /\ tt[Len(ss) + 1] = s
  BY AppendProperties
<1> HIDE DEF tt
<1>2. PICK g \in [1 .. Len(tt) -> Seq(S)] :
           FoldsTo(tt, g) /\ FlattenSeq(tt) = g[Len(tt)]
  BY <1>1, FlattenJoins
<1>3. CASE ss = <<>>
  <2>1. FlattenSeq(ss) = <<>> /\ Len(ss) = 0
    BY <1>3, FlattenEmpty
  <2>2. FlattenSeq(tt) = s
    BY <1>1, <1>2, <2>1 DEF FoldsTo
  <2> QED BY <2>1, <2>2, ConcatEmptySeq DEF tt
<1>4. CASE ss # <<>>
  <2>1. PICK n \in Nat \ {0} : n = Len(ss)
    BY <1>4, EmptySeq
  <2>2. PICK f \in [1 .. n -> Seq(S)] :
             FoldsTo(ss, f) /\ FlattenSeq(ss) = f[n]
    BY <1>4, <2>1, FlattenJoins
  <2>3. g[1] = tt[1] /\ \A i \in 2 .. n + 1 : g[i] = g[i - 1] \o tt[i]
    BY <1>1, <1>2, <2>1 DEF FoldsTo
  <2>4. f[1] = ss[1] /\ \A i \in 2 .. n : f[i] = f[i - 1] \o ss[i]
    BY <2>1, <2>2 DEF FoldsTo
  <2> DEFINE T == {k \in Nat : k + 1 \in 1 .. n => g[k + 1] = f[k + 1]}
  <2>5. 0 \in T
    <3>1. tt[1] = ss[1]
      BY <1>1, <2>1
    <3> QED BY <2>3, <2>4, <3>1
  <2>6. ASSUME NEW k \in Nat, k \in T PROVE k + 1 \in T
    <3>1. SUFFICES ASSUME k + 2 \in 1 .. n PROVE g[k + 2] = f[k + 2]
      OBVIOUS
    <3>2. g[k + 1] = f[k + 1]
      BY <2>6, <3>1
    <3>3. k + 2 \in 2 .. n + 1 /\ k + 2 \in 2 .. n /\ (k + 2) - 1 = k + 1
      BY <3>1
    <3>4. tt[k + 2] = ss[k + 2]
      BY <1>1, <2>1, <3>1
    <3>5. g[k + 2] = g[k + 1] \o tt[k + 2]
      BY <2>3, <3>3
    <3>6. f[k + 2] = f[k + 1] \o ss[k + 2]
      BY <2>4, <3>3
    <3> QED BY <3>2, <3>4, <3>5, <3>6
  <2>7. Nat \subseteq T
    <3> HIDE DEF T
    <3> QED BY <2>5, <2>6, SetInduction
  <2>8. g[n] = f[n]
    <3>1. n - 1 \in Nat /\ (n - 1) + 1 = n /\ n \in 1 .. n
      OBVIOUS
    <3>2. n - 1 \in T
      BY <2>7, <3>1
    <3> QED BY <3>1, <3>2
  <2>9. g[n + 1] = g[n] \o tt[n + 1]
    <3>1. n + 1 \in 2 .. n + 1 /\ (n + 1) - 1 = n
      OBVIOUS
    <3> QED BY <2>3, <3>1
  <2> QED BY <1>1, <1>2, <2>1, <2>2, <2>8, <2>9 DEF tt
<1> QED BY <1>3, <1>4

LEMMA FlattenTyped ==
    ASSUME NEW S, NEW ss \in Seq(Seq(S))
    PROVE  FlattenSeq(ss) \in Seq(S)
<1>1. CASE ss = <<>>
  <2>1. FlattenSeq(ss) = <<>>
    BY <1>1, FlattenEmpty
  <2> QED BY <2>1
<1>2. CASE ss # <<>>
  <2>1. PICK n \in Nat \ {0} : n = Len(ss)
    BY <1>2, EmptySeq
  <2>2. PICK f \in [1 .. n -> Seq(S)] : FlattenSeq(ss) = f[n]
    BY <1>2, <2>1, FlattenJoins
  <2>3. n \in 1 .. n
    OBVIOUS
  <2> QED BY <2>2, <2>3
<1> QED BY <1>1, <1>2

LEMMA FlattenOne ==
    ASSUME NEW S, NEW s \in Seq(S)
    PROVE  FlattenSeq(<<s>>) = s
<1>1. <<s>> \in Seq(Seq(S)) /\ <<s>> # <<>> /\ Len(<<s>>) = 1 /\ <<s>>[1] = s
  OBVIOUS
<1> QED BY <1>1, FlattenJoins DEF FoldsTo

LEMMA FlattenThen ==
    ASSUME NEW S, NEW ss \in Seq(Seq(S)), NEW tt \in Seq(Seq(S))
    PROVE  FlattenSeq(Then(ss, tt)) = Then(FlattenSeq(ss), FlattenSeq(tt))
<1> DEFINE T == {n \in Nat : \A uu \in Seq(Seq(S)) : Len(uu) = n =>
                    FlattenSeq(Then(ss, uu))
                       = Then(FlattenSeq(ss), FlattenSeq(uu))}
<1>1. 0 \in T
  <2>1. SUFFICES ASSUME NEW uu \in Seq(Seq(S)), Len(uu) = 0
                 PROVE  FlattenSeq(Then(ss, uu))
                           = Then(FlattenSeq(ss), FlattenSeq(uu))
    OBVIOUS
  <2>2. uu = <<>>
    BY <2>1, EmptySeq
  <2>3. Then(ss, <<>>) = ss /\ Then(FlattenSeq(ss), <<>>) = FlattenSeq(ss)
    BY FlattenTyped, ConcatEmptySeq DEF Then
  <2> QED BY <2>2, <2>3, FlattenEmpty
<1>2. ASSUME NEW n \in Nat, n \in T PROVE n + 1 \in T
  <2>1. SUFFICES ASSUME NEW uu \in Seq(Seq(S)), Len(uu) = n + 1
                 PROVE  FlattenSeq(Then(ss, uu))
                           = Then(FlattenSeq(ss), FlattenSeq(uu))
    OBVIOUS
  <2>2. uu # <<>>
    BY <2>1, EmptySeq
  <2>3. PICK vv \in Seq(Seq(S)), v \in Seq(S) : uu = Append(vv, v)
    BY <2>2, SequenceEmptyOrAppend
  <2>4. Len(vv) = n
    BY <2>1, <2>3, AppendProperties, LenProperties
  <2>5. PICK x \in Seq(S), y \in Seq(S) :
             x = FlattenSeq(ss) /\ y = FlattenSeq(vv)
    BY FlattenTyped
  <2>6. FlattenSeq(Then(ss, vv)) = Then(x, y)
    BY <1>2, <2>4, <2>5
  <2>7. PICK ww \in Seq(Seq(S)) :
             ww = Then(ss, vv) /\ Then(ss, Append(vv, v)) = Append(ww, v)
    <3>1. Then(ss, vv) \in Seq(Seq(S))
      BY ThenIs, Zenon
    <3>2. Then(ss, Append(vv, v)) = Append(Then(ss, vv), v)
      BY AppendRegroups, SMT
    <3> QED BY <3>1, <3>2
  <2>8. FlattenSeq(Append(ww, v)) = Then(Then(x, y), v)
    <3>1. FlattenSeq(Append(ww, v)) = FlattenSeq(ww) \o v
      BY FlattenAppend
    <3>2. FlattenSeq(Append(ww, v)) = Then(FlattenSeq(ww), v)
      BY <3>1, Zenon DEF Then
    <3> QED BY <2>6, <2>7, <3>2, Zenon
  <2>9. FlattenSeq(uu) = Then(y, v)
    <3>1. FlattenSeq(Append(vv, v)) = FlattenSeq(vv) \o v
      BY FlattenAppend
    <3> QED BY <2>3, <2>5, <3>1, Zenon DEF Then
  <2>10. Then(Then(x, y), v) = Then(x, Then(y, v))
    BY ThenRegroups
  <2> QED BY <2>3, <2>5, <2>7, <2>8, <2>9, <2>10
<1>3. Nat \subseteq T
  <2> HIDE DEF T
  <2> QED BY <1>1, <1>2, SetInduction
<1>4. Len(tt) \in T
  BY <1>3, LenProperties
<1> QED BY <1>4

LEMMA FlattenConcat ==
    ASSUME NEW S, NEW ss \in Seq(Seq(S)), NEW tt \in Seq(Seq(S))
    PROVE  FlattenSeq(ss \o tt) = FlattenSeq(ss) \o FlattenSeq(tt)
BY FlattenThen, Zenon DEF Then

-----------------------------------------------------------------------------
(* Sequences of pieces that are flattened.                                 *)

\* u is what comes before piece i of ss, and v what comes after it.
Around(ss, i, u, v) ==
    /\ u = FlattenSeq(SubSeq(ss, 1, i - 1))
    /\ v = FlattenSeq(SubSeq(ss, i + 1, Len(ss)))

LEMMA PieceAdded ==
    ASSUME NEW S, NEW ss \in Seq(Seq(S)), NEW i \in 1 .. Len(ss)
    PROVE  /\ FlattenSeq(SubSeq(ss, 1, i - 1)) \in Seq(S)
           /\ ss[i] \in Seq(S)
           /\ FlattenSeq(SubSeq(ss, 1, i))
                = FlattenSeq(SubSeq(ss, 1, i - 1)) \o ss[i]
<1>1. PICK n \in Nat : n = Len(ss) /\ ss \in [1 .. n -> Seq(S)]
  BY LenProperties
<1>2. ss[i] \in Seq(S) /\ 1 \in 1 .. Len(ss) /\ i \in 1 .. Len(ss)
  BY <1>1
<1>3. SubSeq(ss, 1, i) = SubSeq(ss, 1, i - 1) \o <<ss[i]>>
  BY <1>2, SubSeqRecursiveSecond
<1>4. SubSeq(ss, 1, i - 1) \in Seq(Seq(S))
  <2>1. \A k \in 1 .. i - 1 : ss[k] \in Seq(S)
    BY <1>1
  <2> QED BY <2>1, SubSeqProperties
<1>5. <<ss[i]>> \in Seq(Seq(S)) /\ FlattenSeq(<<ss[i]>>) = ss[i]
  BY <1>2, FlattenOne
<1>6. FlattenSeq(SubSeq(ss, 1, i - 1) \o <<ss[i]>>)
        = FlattenSeq(SubSeq(ss, 1, i - 1)) \o FlattenSeq(<<ss[i]>>)
  BY <1>4, <1>5, FlattenConcat
<1> QED BY <1>2, <1>3, <1>4, <1>5, <1>6, FlattenTyped

LEMMA PiecesAround ==
    ASSUME NEW S, NEW ss \in Seq(Seq(S)), NEW i \in 1 .. Len(ss)
    PROVE  \E u, v \in Seq(S) :
              Around(ss, i, u, v) /\ FlattenSeq(ss) = Then(u, Then(ss[i], v))
<1>1. PICK n \in Nat : n = Len(ss) /\ ss \in [1 .. n -> Seq(S)]
  BY LenProperties
<1> DEFINE A == SubSeq(ss, 1, i) C == SubSeq(ss, i + 1, Len(ss))
           u == FlattenSeq(SubSeq(ss, 1, i - 1)) v == FlattenSeq(C)
<1>2. A \in Seq(Seq(S)) /\ C \in Seq(Seq(S))
  <2>1. \A k \in 1 .. i : ss[k] \in Seq(S)
    BY <1>1
  <2>2. \A k \in i + 1 .. Len(ss) : ss[k] \in Seq(S)
    BY <1>1
  <2>3. 1 \in Int /\ i \in Int /\ i + 1 \in Int /\ Len(ss) \in Int
    BY <1>1
  <2> QED BY <2>1, <2>2, <2>3, SubSeqProperties
<1>3. A \o C = ss
  <2>1. /\ 1 \in 1 .. Len(ss) + 1 /\ i \in 1 - 1 .. Len(ss)
        /\ Len(ss) \in i .. Len(ss)
    BY <1>1
  <2>2. SubSeq(ss, 1, i) \o SubSeq(ss, i + 1, Len(ss)) = SubSeq(ss, 1, Len(ss))
    BY <2>1, ConcatAdjacentSubSeq
  <2> QED BY <2>2, SubSeqFull
<1>4. FlattenSeq(ss) = FlattenSeq(A) \o v
  BY <1>2, <1>3, FlattenConcat
<1>5. FlattenSeq(A) = u \o ss[i] /\ u \in Seq(S) /\ ss[i] \in Seq(S)
  BY PieceAdded
<1>6. v \in Seq(S)
  BY <1>2, FlattenTyped
<1>7. FlattenSeq(ss) = Then(Then(u, ss[i]), v)
  BY <1>4, <1>5 DEF Then
<1> HIDE DEF A, C, u, v
<1>8. FlattenSeq(ss) = Then(u, Then(ss[i], v))
  <2>1. Then(Then(u, ss[i]), v) = Then(u, Then(ss[i], v))
    BY <1>5, <1>6, ThenRegroups
  <2> QED BY <1>7, <2>1
<1> QED BY <1>5, <1>6, <1>8 DEF Around, u, v, C

\* Another piece in the place of one changes nothing around it.
LEMMA PieceReplaced ==
    ASSUME NEW S, NEW ss \in Seq(Seq(S)), NEW i \in 1 .. Len(ss),
           NEW s \in Seq(S), NEW u \in Seq(S), NEW v \in Seq(S),
           Around(ss, i, u, v)
    PROVE  FlattenSeq(ReplaceAt(ss, i, s)) = Then(u, Then(s, v))
<1>1. PICK n \in Nat : n = Len(ss) /\ ss \in [1 .. n -> Seq(S)]
  BY LenProperties
<1> DEFINE tt == ReplaceAt(ss, i, s)
<1>2. tt \in Seq(Seq(S)) /\ Len(tt) = Len(ss) /\ tt[i] = s
      /\ \A j \in 1 .. Len(ss) : j # i => tt[j] = ss[j]
  BY <1>1, ExceptSeq DEF ReplaceAt
<1> HIDE DEF tt
<1>3. SubSeq(ss, 1, i - 1) = SubSeq(tt, 1, i - 1)
  <2>1. \A k \in 1 .. i - 1 : ss[k] \in Seq(S) /\ ss[k] = tt[k]
    BY <1>1, <1>2
  <2>2. 1 \in Int /\ i - 1 \in Int
    OBVIOUS
  <2> QED BY <2>1, <2>2, SubSeqSame
<1>4. SubSeq(ss, i + 1, Len(ss)) = SubSeq(tt, i + 1, Len(tt))
  <2>1. \A k \in i + 1 .. n : ss[k] \in Seq(S) /\ ss[k] = tt[k]
    BY <1>1, <1>2
  <2>2. i + 1 \in Int /\ n \in Int
    OBVIOUS
  <2>3. SubSeq(ss, i + 1, n) = SubSeq(tt, i + 1, n)
    BY <2>1, <2>2, SubSeqSame
  <2> QED BY <1>1, <1>2, <2>3
<1>5. PICK x, y \in Seq(S) :
          Around(tt, i, x, y) /\ FlattenSeq(tt) = Then(x, Then(tt[i], y))
  <2>1. tt \in Seq(Seq(S)) /\ i \in 1 .. Len(tt)
    BY <1>2
  <2> QED BY <2>1, PiecesAround, Zenon
<1>6. x = u /\ y = v
  BY <1>3, <1>4, <1>5 DEF Around
<1> QED BY <1>2, <1>5, <1>6 DEF tt

\* Every element of the whole is in one of the pieces.
LEMMA PieceFound ==
    ASSUME NEW S, NEW ss \in Seq(Seq(S)), NEW j \in 1 .. Len(FlattenSeq(ss))
    PROVE  \E i \in 1 .. Len(ss) : \E u, v \in Seq(S) :
              /\ Around(ss, i, u, v)
              /\ FlattenSeq(ss) = Then(u, Then(ss[i], v))
              /\ j - Len(u) \in 1 .. Len(ss[i])
<1>1. PICK n \in Nat : n = Len(ss)
  BY LenProperties
<1> DEFINE F(i) == FlattenSeq(SubSeq(ss, 1, i))
           T == {i \in 0 .. n : j <= Len(F(i))}
<1>2. n \in T
  <2>1. SubSeq(ss, 1, n) = ss
    BY <1>1, SubSeqFull
  <2>2. F(n) = FlattenSeq(ss)
    BY <2>1
  <2>3. FlattenSeq(ss) \in Seq(S)
    BY FlattenTyped
  <2>4. j <= Len(FlattenSeq(ss))
    BY <2>3, LenProperties
  <2> HIDE DEF F
  <2> QED BY <2>2, <2>4
<1>3. PICK i \in T : \A k \in T : i <= k
  <2>1. T \subseteq Nat
    OBVIOUS
  <2> HIDE DEF T
  <2> QED BY <1>2, <2>1, LeastNatural
<1>4. i # 0
  <2>1. SubSeq(ss, 1, 0) = <<>>
    BY SubSeqEmpty
  <2>2. Len(F(0)) = 0
    <3>1. FlattenSeq(SubSeq(ss, 1, 0)) = <<>>
      BY <2>1, FlattenEmpty, Zenon
    <3> QED BY <3>1, Zenon, EmptySeq
  <2> QED BY <1>3, <2>2
<1>5. i \in 1 .. Len(ss)
  BY <1>1, <1>3, <1>4
<1>6. PICK u, v \in Seq(S) :
          Around(ss, i, u, v) /\ FlattenSeq(ss) = Then(u, Then(ss[i], v))
  BY <1>5, PiecesAround
<1>7. u = F(i - 1) /\ ss[i] \in Seq(S) /\ F(i) = u \o ss[i]
  BY <1>5, <1>6, PieceAdded DEF Around
<1>8. Len(F(i)) = Len(u) + Len(ss[i]) /\ Len(u) \in Nat /\ Len(ss[i]) \in Nat
  <2> HIDE DEF F
  <2> QED BY <1>7, ConcatProperties, LenProperties
<1>9. j <= Len(F(i)) /\ ~ (j <= Len(F(i - 1)))
  <2>1. i - 1 \notin T /\ i - 1 \in 0 .. n
    BY <1>3, <1>5
  <2> QED BY <1>3, <2>1
<1>10. j \in Int
  <2>1. FlattenSeq(ss) \in Seq(S)
    BY FlattenTyped
  <2> QED BY <2>1, LenProperties
<1>11. j - Len(u) \in 1 .. Len(ss[i])
  <2>1. PICK a \in Nat : a = Len(u)
    BY <1>8
  <2>2. PICK b \in Nat : b = Len(ss[i])
    BY <1>8
  <2>3. j <= a + b /\ ~ (j <= a)
    BY <1>7, <1>8, <1>9, <2>1, <2>2
  <2>4. j - a \in 1 .. b
    BY <1>10, <2>3
  <2> QED BY <2>1, <2>2, <2>4
<1> QED BY <1>5, <1>6, <1>11

LEMMA Changed ==
    ASSUME NEW S, NEW s \in Seq(S), NEW i \in 1 .. Len(s), NEW z \in S
    PROVE  /\ ReplaceAt(s, i, z) \in Seq(S) /\ Len(ReplaceAt(s, i, z)) = Len(s)
           /\ \A j \in 1 .. Len(s) :
                 ReplaceAt(s, i, z)[j] = IF j = i THEN z ELSE s[j]
BY ExceptSeq DEF ReplaceAt

\* The same with names for what they are about.
IsThen(x, s, t, a, n) ==
    Len(x) = n /\ \A j \in 1 .. n : x[j] = IF j <= a THEN s[j] ELSE t[j - a]
IsChanged(x, s, i, z, n) ==
    Len(x) = n /\ \A j \in 1 .. n : x[j] = IF j = i THEN z ELSE s[j]

LEMMA ThenNamed ==
    ASSUME NEW S, NEW s \in Seq(S), NEW t \in Seq(S),
           NEW a \in Nat, NEW n \in Nat, a = Len(s), n = Len(s) + Len(t)
    PROVE  \E x \in Seq(S) : x = Then(s, t) /\ IsThen(x, s, t, a, n)
<1>1. /\ Then(s, t) \in Seq(S) /\ Len(Then(s, t)) = n
      /\ \A j \in 1 .. n : Then(s, t)[j] = IF j <= a THEN s[j] ELSE t[j - a]
  <2>1. /\ Then(s, t) \in Seq(S)
        /\ Len(Then(s, t)) = Len(s) + Len(t)
        /\ \A j \in 1 .. Len(s) + Len(t) :
              Then(s, t)[j] = IF j <= Len(s) THEN s[j] ELSE t[j - Len(s)]
    BY ThenIs, Zenon
  <2> QED BY <2>1, Zenon
<1> QED BY <1>1, Zenon DEF IsThen

LEMMA ChangedNamed ==
    ASSUME NEW S, NEW s \in Seq(S), NEW i \in 1 .. Len(s), NEW z \in S,
           NEW n \in Nat, n = Len(s)
    PROVE  \E x \in Seq(S) : x = ReplaceAt(s, i, z) /\ IsChanged(x, s, i, z, n)
<1>1. /\ ReplaceAt(s, i, z) \in Seq(S) /\ Len(ReplaceAt(s, i, z)) = Len(s)
      /\ \A j \in 1 .. Len(s) :
            ReplaceAt(s, i, z)[j] = IF j = i THEN z ELSE s[j]
  BY ExceptSeq DEF ReplaceAt
<1> QED BY <1>1, Zenon DEF IsChanged

LEMMA FirstChanged ==
    ASSUME NEW S, NEW s \in Seq(S), NEW t \in Seq(S),
           NEW i \in 1 .. Len(s), NEW z \in S
    PROVE  ReplaceAt(Then(s, t), i, z) = Then(ReplaceAt(s, i, z), t)
<1>1. PICK a \in Nat, b \in Nat, n \in Nat :
          a = Len(s) /\ b = Len(t) /\ i \in 1 .. a /\ n = a + b /\ i \in 1 .. n
  BY LenProperties
<1>2. PICK st \in Seq(S) :
          st = Then(s, t) /\ IsThen(st, s, t, a, n)
  <2>1. n = Len(s) + Len(t)
    BY <1>1
  <2> QED BY <1>1, <2>1, ThenNamed, Zenon
<1>3. PICK x \in Seq(S) :
          x = ReplaceAt(st, i, z) /\ IsChanged(x, st, i, z, n)
  <2>1. n = Len(st) /\ i \in 1 .. Len(st)
    BY <1>1, <1>2 DEF IsThen
  <2> QED BY <2>1, ChangedNamed, Zenon
<1>4. PICK r \in Seq(S) :
          r = ReplaceAt(s, i, z) /\ IsChanged(r, s, i, z, a)
  <2>1. i \in 1 .. Len(s)
    BY <1>1
  <2> QED BY <1>1, <2>1, ChangedNamed, Zenon
<1>5. PICK y \in Seq(S) :
          y = Then(r, t) /\ IsThen(y, r, t, a, n)
  <2>1. a = Len(r) /\ n = Len(r) + Len(t)
    BY <1>1, <1>4 DEF IsChanged
  <2> QED BY <2>1, ThenNamed, Zenon
<1>6. ASSUME NEW j \in 1 .. n PROVE x[j] = y[j]
  <2>1. CASE j <= a
    <3>1. j \in 1 .. a
      BY <2>1
    <3> QED BY <1>2, <1>3, <1>4, <1>5, <2>1, <3>1
        DEF IsThen, IsChanged
  <2>2. CASE ~ (j <= a)
    <3>1. j # i
      BY <1>1, <2>2
    <3> QED BY <1>2, <1>3, <1>5, <2>2, <3>1
        DEF IsThen, IsChanged
  <2> QED BY <2>1, <2>2
<1>7. x = y
  BY <1>3, <1>5, <1>6, SeqEqual DEF IsThen, IsChanged
<1> QED BY <1>2, <1>3, <1>4, <1>5, <1>7

LEMMA SecondChanged ==
    ASSUME NEW S, NEW s \in Seq(S), NEW t \in Seq(S),
           NEW i \in 1 .. Len(t), NEW z \in S
    PROVE  ReplaceAt(Then(s, t), Len(s) + i, z) = Then(s, ReplaceAt(t, i, z))
<1>1. PICK a \in Nat, b \in Nat, n \in Nat, k \in Nat :
          /\ a = Len(s) /\ b = Len(t) /\ i \in 1 .. b /\ n = a + b
          /\ k = a + i /\ k \in 1 .. n
  <2>1. PICK a \in Nat, b \in Nat : a = Len(s) /\ b = Len(t) /\ i \in 1 .. b
    BY LenProperties
  <2>2. a + b \in Nat /\ a + i \in Nat /\ a + i \in 1 .. a + b
    BY <2>1
  <2> QED BY <2>1, <2>2
<1>2. PICK st \in Seq(S) :
          st = Then(s, t) /\ IsThen(st, s, t, a, n)
  <2>1. n = Len(s) + Len(t)
    BY <1>1
  <2> QED BY <1>1, <2>1, ThenNamed, Zenon
<1>3. PICK x \in Seq(S) :
          x = ReplaceAt(st, k, z) /\ IsChanged(x, st, k, z, n)
  <2>1. n = Len(st) /\ k \in 1 .. Len(st)
    BY <1>1, <1>2 DEF IsThen
  <2> QED BY <2>1, ChangedNamed, Zenon
<1>4. PICK r \in Seq(S) :
          r = ReplaceAt(t, i, z) /\ IsChanged(r, t, i, z, b)
  <2>1. i \in 1 .. Len(t)
    BY <1>1
  <2> QED BY <1>1, <2>1, ChangedNamed, Zenon
<1>5. PICK y \in Seq(S) :
          y = Then(s, r) /\ IsThen(y, s, r, a, n)
  <2>1. a = Len(s) /\ n = Len(s) + Len(r)
    BY <1>1, <1>4 DEF IsChanged
  <2> QED BY <2>1, ThenNamed, Zenon
<1>6. ASSUME NEW j \in 1 .. n PROVE x[j] = y[j]
  <2>1. CASE j <= a
    <3>1. j # k
      BY <1>1, <2>1
    <3> QED BY <1>2, <1>3, <1>5, <2>1, <3>1
        DEF IsThen, IsChanged
  <2>2. CASE ~ (j <= a)
    <3>1. j - a \in 1 .. b /\ (j - a = i <=> j = k)
      BY <1>1, <2>2
    <3> QED BY <1>2, <1>3, <1>4, <1>5, <2>2, <3>1
        DEF IsThen, IsChanged
  <2> QED BY <2>1, <2>2
<1>7. x = y
  BY <1>3, <1>5, <1>6, SeqEqual DEF IsThen, IsChanged
<1> QED BY <1>1, <1>2, <1>3, <1>4, <1>5, <1>7

\* A change in the middle of three.
LEMMA MiddleChanged ==
    ASSUME NEW S, NEW u \in Seq(S), NEW p \in Seq(S), NEW v \in Seq(S),
           NEW o \in 1 .. Len(p), NEW z \in S
    PROVE  ReplaceAt(Then(u, Then(p, v)), Len(u) + o, z)
              = Then(u, Then(ReplaceAt(p, o, z), v))
<1>1. PICK w \in Seq(S) : w = Then(p, v) /\ Len(w) = Len(p) + Len(v)
  BY ThenIs
<1>2. o \in 1 .. Len(w)
  BY <1>1, LenProperties
<1>3. ReplaceAt(Then(u, w), Len(u) + o, z) = Then(u, ReplaceAt(w, o, z))
  BY <1>2, SecondChanged
<1>4. ReplaceAt(w, o, z) = Then(ReplaceAt(p, o, z), v)
  BY <1>1, FirstChanged
<1> QED BY <1>1, <1>3, <1>4

\* A change of an element of a piece is one of the whole.
PieceAt(S, ss, i, u, v) ==
    /\ ss \in Seq(Seq(S)) /\ i \in 1 .. Len(ss)
    /\ u \in Seq(S) /\ v \in Seq(S)
    /\ Around(ss, i, u, v) /\ FlattenSeq(ss) = Then(u, Then(ss[i], v))

\* q is that piece with z as its element o, which is element j of the whole.
ChangeIn(S, ss, i, u, o, z, q, j) ==
    /\ o \in 1 .. Len(ss[i]) /\ z \in S
    /\ q = ReplaceAt(ss[i], o, z) /\ j = Len(u) + o

LEMMA PieceChanged ==
    ASSUME NEW S, NEW ss, NEW i, NEW u, NEW v, NEW o, NEW z, NEW q, NEW j,
           PieceAt(S, ss, i, u, v), ChangeIn(S, ss, i, u, o, z, q, j)
    PROVE  FlattenSeq(ReplaceAt(ss, i, q)) = ReplaceAt(FlattenSeq(ss), j, z)
<1>0. PICK tt \in Seq(Seq(S)), x \in Seq(S), y \in Seq(S) :
          /\ tt = ss /\ x = u /\ y = v
          /\ i \in 1 .. Len(tt) /\ Around(tt, i, x, y)
          /\ FlattenSeq(tt) = Then(x, Then(tt[i], y))
          /\ o \in 1 .. Len(tt[i]) /\ z \in S
          /\ q = ReplaceAt(tt[i], o, z) /\ j = Len(x) + o
  BY DEF PieceAt, ChangeIn
<1>1. PICK p \in Seq(S) : p = tt[i] /\ o \in 1 .. Len(p)
  BY <1>0, LenProperties
<1>2. PICK r \in Seq(S) : r = q /\ r = ReplaceAt(p, o, z)
  BY <1>0, <1>1, Changed
<1>3. FlattenSeq(ReplaceAt(tt, i, r)) = Then(x, Then(r, y))
  BY <1>0, PieceReplaced
<1>4. ReplaceAt(Then(x, Then(p, y)), Len(x) + o, z) = Then(x, Then(r, y))
  <2>1. PICK w \in S : w = z
    BY <1>0
  <2>2. ReplaceAt(Then(x, Then(p, y)), Len(x) + o, w)
           = Then(x, Then(ReplaceAt(p, o, w), y))
    BY <1>1, MiddleChanged
  <2> QED BY <1>2, <2>1, <2>2
<1> QED BY <1>0, <1>1, <1>2, <1>3, <1>4

\* A sequence is what comes before a part of it, that part, and what comes
\* after it.
InThree(s, i, j, u, p, v) ==
    /\ u = SubSeq(s, 1, i - 1) /\ p = SubSeq(s, i, j)
    /\ v = SubSeq(s, j + 1, Len(s))
    /\ s = Then(u, Then(p, v))
    /\ Len(u) = i - 1

LEMMA ThreeParts ==
    ASSUME NEW S, NEW s \in Seq(S), NEW i \in 1 .. Len(s), NEW j \in i .. Len(s)
    PROVE  \E u, p, v \in Seq(S) : InThree(s, i, j, u, p, v)
<1>1. PICK n \in Nat : /\ n = Len(s) /\ s \in [1 .. n -> S]
                       /\ i \in 1 .. n /\ j \in i .. n
  BY LenProperties
<1>2. 1 \in Int /\ i \in Int /\ j \in Int /\ n \in Int
      /\ i - 1 \in Int /\ j + 1 \in Int
  BY <1>1
<1>3. /\ \A h \in 1 .. i - 1 : s[h] \in S
      /\ \A h \in i .. j : s[h] \in S
      /\ \A h \in j + 1 .. n : s[h] \in S
  BY <1>1
<1>4. PICK u \in Seq(S) : u = SubSeq(s, 1, i - 1) /\ Len(u) = i - 1
  <2>1. /\ SubSeq(s, 1, i - 1) \in Seq(S)
        /\ Len(SubSeq(s, 1, i - 1)) = IF 1 <= i - 1 THEN i - 1 - 1 + 1 ELSE 0
    BY <1>2, <1>3, SubSeqProperties
  <2>2. (IF 1 <= i - 1 THEN i - 1 - 1 + 1 ELSE 0) = i - 1
    BY <1>1
  <2> QED BY <2>1, <2>2
<1>5. PICK p \in Seq(S) : p = SubSeq(s, i, j)
  BY <1>2, <1>3, SubSeqProperties
<1>6. PICK v \in Seq(S) : v = SubSeq(s, j + 1, n)
  BY <1>2, <1>3, SubSeqProperties
<1>7. Then(u, p) = SubSeq(s, 1, j)
  <2>1. 1 \in 1 .. n + 1 /\ i - 1 \in 1 - 1 .. n /\ j \in i - 1 .. n
        /\ (i - 1) + 1 = i
    BY <1>1
  <2>2. SubSeq(s, 1, i - 1) \o SubSeq(s, (i - 1) + 1, j) = SubSeq(s, 1, j)
    BY <1>1, <2>1, ConcatAdjacentSubSeq
  <2> QED BY <1>4, <1>5, <2>1, <2>2 DEF Then
<1>8. Then(Then(u, p), v) = s
  <2>1. 1 \in 1 .. n + 1 /\ j \in 1 - 1 .. n /\ n \in j .. n
    BY <1>1
  <2>2. SubSeq(s, 1, j) \o SubSeq(s, j + 1, n) = SubSeq(s, 1, n)
    BY <1>1, <2>1, ConcatAdjacentSubSeq
  <2>3. SubSeq(s, 1, n) = s
    BY <1>1, SubSeqFull
  <2> QED BY <1>6, <1>7, <2>2, <2>3 DEF Then
<1>9. s = Then(u, Then(p, v))
  BY <1>8, ThenRegroups
<1> QED BY <1>1, <1>4, <1>5, <1>6, <1>9 DEF InThree

\* What the first k pieces make.
FirstPieces(ss, k) == FlattenSeq(SubSeq(ss, 1, k))

LEMMA NoPieces == ASSUME NEW ss PROVE FirstPieces(ss, 0) = <<>>
<1>1. SubSeq(ss, 1, 0) = <<>>
  BY SubSeqEmpty
<1> QED BY <1>1, FlattenEmpty, Zenon DEF FirstPieces

LEMMA AllPieces ==
    ASSUME NEW S, NEW ss \in Seq(S)
    PROVE  FirstPieces(ss, Len(ss)) = FlattenSeq(ss)
BY SubSeqFull DEF FirstPieces

LEMMA OnePieceMore ==
    ASSUME NEW S, NEW ss \in Seq(Seq(S)), NEW k \in Nat, k + 1 <= Len(ss)
    PROVE  /\ FirstPieces(ss, k) \in Seq(S) /\ ss[k + 1] \in Seq(S)
           /\ FirstPieces(ss, k + 1) = Then(FirstPieces(ss, k), ss[k + 1])
<1>1. PICK i \in 1 .. Len(ss) : i = k + 1 /\ i - 1 = k
  BY LenProperties
<1>2. /\ FlattenSeq(SubSeq(ss, 1, i - 1)) \in Seq(S) /\ ss[i] \in Seq(S)
      /\ FlattenSeq(SubSeq(ss, 1, i))
            = FlattenSeq(SubSeq(ss, 1, i - 1)) \o ss[i]
  BY PieceAdded
<1> QED BY <1>1, <1>2, Zenon DEF FirstPieces, Then

\* Two sequences that are cut at the same place.
LEMMA ThenSame ==
    ASSUME NEW S, NEW s \in Seq(S), NEW t \in Seq(S),
           NEW x \in Seq(S), NEW y \in Seq(S),
           Len(s) = Len(x), Then(s, t) = Then(x, y)
    PROVE  s = x /\ t = y
<1>1. PICK a \in Nat, b \in Nat, d \in Nat :
          a = Len(s) /\ b = Len(t) /\ a = Len(x) /\ d = Len(y)
  BY LenProperties
<1>2. /\ Len(Then(s, t)) = a + b
      /\ \A i \in 1 .. a + b :
            Then(s, t)[i] = IF i <= a THEN s[i] ELSE t[i - a]
  <2>1. /\ Len(Then(s, t)) = Len(s) + Len(t)
        /\ \A i \in 1 .. Len(s) + Len(t) :
              Then(s, t)[i] = IF i <= Len(s) THEN s[i] ELSE t[i - Len(s)]
    BY ThenIs, Zenon
  <2> QED BY <1>1, <2>1, Zenon
<1>3. /\ Len(Then(x, y)) = a + d
      /\ \A i \in 1 .. a + d :
            Then(x, y)[i] = IF i <= a THEN x[i] ELSE y[i - a]
  <2>1. /\ Len(Then(x, y)) = Len(x) + Len(y)
        /\ \A i \in 1 .. Len(x) + Len(y) :
              Then(x, y)[i] = IF i <= Len(x) THEN x[i] ELSE y[i - Len(x)]
    BY ThenIs, Zenon
  <2> QED BY <1>1, <2>1, Zenon
<1>4. b = d
  BY <1>2, <1>3
<1>5. \A i \in 1 .. a : s[i] = x[i]
  BY <1>2, <1>3, <1>4
<1>6. ASSUME NEW i \in 1 .. b PROVE t[i] = y[i]
  <2>1. PICK j \in 1 .. a + b : ~ (j <= a) /\ j - a = i
    <3>1. a + i \in 1 .. a + b /\ ~ (a + i <= a) /\ a + i - a = i
      OBVIOUS
    <3> QED BY <3>1
  <2>2. Then(s, t)[j] = t[i]
    BY <1>2, <2>1
  <2>3. Then(x, y)[j] = y[i]
    BY <1>3, <1>4, <2>1
  <2> QED BY <2>2, <2>3
<1> QED BY <1>1, <1>4, <1>5, <1>6, SeqEqual

\* Longer pieces make a longer whole, and the same whole only if they are
\* the same pieces.
Shorter(ss, tt, k) == Len(FirstPieces(ss, k)) <= Len(FirstPieces(tt, k))
Alike(ss, tt, k) ==
    FirstPieces(ss, k) = FirstPieces(tt, k) => \A i \in 1 .. k : ss[i] = tt[i]

LEMMA FlattenMonotonic ==
    ASSUME NEW S, NEW ss \in Seq(Seq(S)), NEW tt \in Seq(Seq(S)),
           Len(ss) = Len(tt), \A i \in 1 .. Len(ss) : Len(ss[i]) <= Len(tt[i]),
           FlattenSeq(ss) = FlattenSeq(tt)
    PROVE  ss = tt
<1>1. PICK n \in Nat : n = Len(ss) /\ n = Len(tt)
  BY LenProperties
<1> DEFINE T == {k \in Nat : k <= n => Shorter(ss, tt, k) /\ Alike(ss, tt, k)}
<1>2. 0 \in T
  <2>1. FirstPieces(ss, 0) = <<>> /\ FirstPieces(tt, 0) = <<>> /\ Len(<<>>) = 0
    BY NoPieces, EmptySeq
  <2>2. Shorter(ss, tt, 0) /\ Alike(ss, tt, 0)
    BY <2>1 DEF Shorter, Alike
  <2> QED BY <2>2
<1>3. ASSUME NEW k \in Nat, k \in T PROVE k + 1 \in T
  <2>1. SUFFICES ASSUME k + 1 <= n
                 PROVE  Shorter(ss, tt, k + 1) /\ Alike(ss, tt, k + 1)
    OBVIOUS
  <2>2. PICK f \in Seq(S), g \in Seq(S), x \in Seq(S), y \in Seq(S) :
             /\ f = FirstPieces(ss, k) /\ x = ss[k + 1]
             /\ g = FirstPieces(tt, k) /\ y = tt[k + 1]
             /\ FirstPieces(ss, k + 1) = Then(f, x)
             /\ FirstPieces(tt, k + 1) = Then(g, y)
    BY <1>1, <2>1, OnePieceMore
  <2>3. Shorter(ss, tt, k) /\ Alike(ss, tt, k)
    BY <1>3, <2>1
  <2>4. PICK a \in Nat, b \in Nat, c \in Nat, d \in Nat :
             a = Len(f) /\ b = Len(x) /\ c = Len(g) /\ d = Len(y)
    BY LenProperties
  <2>5. a <= c /\ b <= d
    <3>1. k + 1 \in 1 .. Len(ss)
      BY <1>1, <2>1
    <3> QED BY <2>2, <2>3, <2>4, <3>1 DEF Shorter
  <2>6. Len(Then(f, x)) = a + b /\ Len(Then(g, y)) = c + d
    BY <2>4, ThenIs
  <2>7. Shorter(ss, tt, k + 1)
    <3>1. a + b <= c + d
      BY <2>5
    <3> QED BY <2>2, <2>6, <3>1 DEF Shorter
  <2>8. ASSUME Then(f, x) = Then(g, y)
        PROVE  \A i \in 1 .. k + 1 : ss[i] = tt[i]
    <3>1. a = c
      <4>1. a + b = c + d
        BY <2>6, <2>8
      <4> QED BY <2>5, <4>1
    <3>2. f = g /\ x = y
      BY <2>4, <2>8, <3>1, ThenSame
    <3>3. \A i \in 1 .. k : ss[i] = tt[i]
      BY <2>2, <2>3, <3>2 DEF Alike
    <3>4. \A i \in 1 .. k + 1 : i \in 1 .. k \/ i = k + 1
      OBVIOUS
    <3> QED BY <2>2, <3>2, <3>3, <3>4
  <2> QED BY <2>2, <2>7, <2>8 DEF Alike
<1>4. n \in T
  <2> HIDE DEF T
  <2> QED BY <1>2, <1>3, SetInduction
<1>5. FirstPieces(ss, n) = FirstPieces(tt, n)
  BY <1>1, AllPieces
<1>6. \A i \in 1 .. n : ss[i] = tt[i]
  BY <1>4, <1>5 DEF Alike
<1> QED BY <1>1, <1>6, SeqEqual

LEMMA FlattenBound ==
    ASSUME NEW S, NEW ss \in Seq(Seq(S)), NEW b \in Nat,
           \A i \in 1 .. Len(ss) : Len(ss[i]) <= b
    PROVE  Len(FlattenSeq(ss)) <= b * Len(ss)
<1>1. PICK n \in Nat : n = Len(ss)
  BY LenProperties
<1> DEFINE T == {k \in Nat : k <= n => Len(FirstPieces(ss, k)) <= b * k}
<1>2. 0 \in T
  <2>1. Len(FirstPieces(ss, 0)) = 0
    BY NoPieces, EmptySeq
  <2>2. 0 <= b * 0
    OBVIOUS
  <2> QED BY <2>1, <2>2
<1>3. ASSUME NEW k \in Nat, k \in T PROVE k + 1 \in T
  <2>1. SUFFICES ASSUME k + 1 <= n PROVE Len(FirstPieces(ss, k + 1)) <= b * (k + 1)
    OBVIOUS
  <2>2. PICK f \in Seq(S), x \in Seq(S) :
             /\ f = FirstPieces(ss, k) /\ x = ss[k + 1]
             /\ FirstPieces(ss, k + 1) = Then(f, x)
    <3>1. k + 1 <= Len(ss)
      BY <1>1, <2>1
    <3>2. /\ FirstPieces(ss, k) \in Seq(S) /\ ss[k + 1] \in Seq(S)
          /\ FirstPieces(ss, k + 1) = Then(FirstPieces(ss, k), ss[k + 1])
      BY <3>1, OnePieceMore
    <3> QED BY <3>2
  <2>3. PICK c \in Nat, y \in Nat : c = Len(f) /\ y = Len(x)
    BY LenProperties
  <2>4. Len(Then(f, x)) = c + y
    BY <2>3, ThenIs
  <2>5. c <= b * k
    BY <1>3, <2>1, <2>2, <2>3
  <2>6. y <= b
    <3>1. k + 1 \in 1 .. Len(ss)
      BY <1>1, <2>1
    <3> QED BY <2>2, <2>3, <3>1
  <2>7. b * (k + 1) = b * k + b /\ b * k \in Nat
    OBVIOUS
  <2>8. c + y <= b * (k + 1)
    BY <2>5, <2>6, <2>7
  <2> QED BY <2>2, <2>4, <2>8
<1>4. n \in T
  <2> HIDE DEF T
  <2> QED BY <1>2, <1>3, SetInduction
<1>5. Len(FirstPieces(ss, n)) <= b * n
  BY <1>4
<1>6. FirstPieces(ss, n) = FlattenSeq(ss)
  BY <1>1, AllPieces
<1> QED BY <1>1, <1>5, <1>6

\* A sequence cut into its elements.
Units(s) == [i \in 1 .. Len(s) |-> <<s[i]>>]

LEMMA FlattenUnits ==
    ASSUME NEW S, NEW s \in Seq(S)
    PROVE  FlattenSeq(Units(s)) = s
<1>1. PICK n \in Nat : n = Len(s) /\ s \in [1 .. n -> S]
  BY LenProperties
<1>2. PICK ss \in Seq(Seq(S)) :
          ss = Units(s) /\ Len(ss) = n /\ \A i \in 1 .. n : ss[i] = <<s[i]>>
  <2>1. \A i \in 1 .. n : <<s[i]>> \in Seq(S)
    BY <1>1
  <2>2. Units(s) = [i \in 1 .. n |-> <<s[i]>>]
    BY <1>1 DEF Units
  <2>3. Units(s) \in Seq(Seq(S))
    BY <2>1, <2>2
  <2>4. Len(Units(s)) = n /\ \A i \in 1 .. n : Units(s)[i] = <<s[i]>>
    BY <2>2
  <2> QED BY <2>3, <2>4
<1> DEFINE T == {k \in Nat : k <= n => FirstPieces(ss, k) = SubSeq(s, 1, k)}
<1>3. 0 \in T
  <2>1. SubSeq(s, 1, 0) = <<>>
    BY SubSeqEmpty
  <2> QED BY <2>1, NoPieces
<1>4. ASSUME NEW k \in Nat, k \in T PROVE k + 1 \in T
  <2>1. SUFFICES ASSUME k + 1 <= n PROVE FirstPieces(ss, k + 1) = SubSeq(s, 1, k + 1)
    OBVIOUS
  <2>2. FirstPieces(ss, k + 1) = Then(FirstPieces(ss, k), ss[k + 1])
    BY <1>2, <2>1, OnePieceMore
  <2>3. FirstPieces(ss, k) = SubSeq(s, 1, k) /\ ss[k + 1] = <<s[k + 1]>>
    BY <1>2, <1>4, <2>1
  <2>4. SubSeq(s, 1, k + 1) = SubSeq(s, 1, k) \o <<s[k + 1]>>
    <3>1. 1 \in 1 .. Len(s) /\ k + 1 \in 1 .. Len(s) /\ k + 1 - 1 = k
      BY <1>1, <2>1
    <3> QED BY <3>1, SubSeqRecursiveSecond
  <2> QED BY <2>2, <2>3, <2>4, Zenon DEF Then
<1>5. n \in T
  <2> HIDE DEF T
  <2> QED BY <1>3, <1>4, SetInduction
<1>6. FirstPieces(ss, n) = FlattenSeq(ss) /\ SubSeq(s, 1, n) = s
  BY <1>1, <1>2, AllPieces, SubSeqFull
<1> QED BY <1>2, <1>5, <1>6

LEMMA UnitsTyped ==
    ASSUME NEW S, NEW s \in Seq(S)
    PROVE  /\ Units(s) \in Seq(Seq(S)) /\ Len(Units(s)) = Len(s)
           /\ \A i \in 1 .. Len(s) : Units(s)[i] = <<s[i]>> /\ s[i] \in S
<1>1. PICK n \in Nat : n = Len(s) /\ s \in [1 .. n -> S]
  BY LenProperties
<1>2. \A i \in 1 .. n : <<s[i]>> \in Seq(S) /\ s[i] \in S
  BY <1>1
<1>3. Units(s) = [i \in 1 .. n |-> <<s[i]>>]
  BY <1>1 DEF Units
<1>4. Units(s) \in Seq(Seq(S))
  BY <1>2, <1>3
<1>5. Len(Units(s)) = n /\ \A i \in 1 .. n : Units(s)[i] = <<s[i]>>
  BY <1>3
<1> QED BY <1>1, <1>2, <1>4, <1>5

LEMMA UnitsPart ==
    ASSUME NEW S, NEW s \in Seq(S), NEW a \in 1 .. Len(s) + 1,
           NEW b \in 0 .. Len(s)
    PROVE  /\ SubSeq(s, a, b) \in Seq(S)
           /\ SubSeq(Units(s), a, b) = Units(SubSeq(s, a, b))
<1>1. PICK n \in Nat : n = Len(s) /\ s \in [1 .. n -> S]
  BY LenProperties
<1>2. a \in Int /\ b \in Int /\ \A i \in a .. b : i \in 1 .. n
  BY <1>1
<1>3. PICK ss \in Seq(Seq(S)) :
          ss = Units(s) /\ Len(ss) = n /\ \A i \in 1 .. n : ss[i] = <<s[i]>>
  BY <1>1, UnitsTyped
<1>4. \A i \in a .. b : s[i] \in S
  BY <1>1, <1>2
<1>5. \A i \in a .. b : ss[i] \in Seq(S)
  <2>1. ss \in [1 .. n -> Seq(S)]
    BY <1>3, LenProperties
  <2> QED BY <1>2, <2>1
<1>6. PICK m \in Nat : m = IF a <= b THEN b - a + 1 ELSE 0
  <2>1. (IF a <= b THEN b - a + 1 ELSE 0) \in Nat
    BY <1>2
  <2> QED BY <2>1
<1>7. PICK t \in Seq(S) :
          /\ t = SubSeq(s, a, b) /\ Len(t) = m
          /\ \A i \in 1 .. b - a + 1 : t[i] = s[a + i - 1]
  <2>1. /\ SubSeq(s, a, b) \in Seq(S)
        /\ Len(SubSeq(s, a, b)) = IF a <= b THEN b - a + 1 ELSE 0
        /\ \A i \in 1 .. b - a + 1 : SubSeq(s, a, b)[i] = s[a + i - 1]
    BY <1>2, <1>4, SubSeqProperties
  <2> QED BY <1>6, <2>1
<1>8. PICK tt \in Seq(Seq(S)) :
          /\ tt = SubSeq(ss, a, b) /\ Len(tt) = m
          /\ \A i \in 1 .. b - a + 1 : tt[i] = ss[a + i - 1]
  <2>1. /\ SubSeq(ss, a, b) \in Seq(Seq(S))
        /\ Len(SubSeq(ss, a, b)) = IF a <= b THEN b - a + 1 ELSE 0
        /\ \A i \in 1 .. b - a + 1 : SubSeq(ss, a, b)[i] = ss[a + i - 1]
    BY <1>2, <1>5, SubSeqProperties
  <2> QED BY <1>6, <2>1
<1>9. /\ Units(t) \in Seq(Seq(S)) /\ Len(Units(t)) = m
      /\ \A i \in 1 .. m : Units(t)[i] = <<t[i]>>
  BY <1>7, UnitsTyped
<1>10. ASSUME NEW i \in 1 .. m PROVE tt[i] = Units(t)[i]
  <2>1. i \in 1 .. b - a + 1 /\ a + i - 1 \in 1 .. n
    BY <1>1, <1>2, <1>6
  <2>2. tt[i] = ss[a + i - 1] /\ t[i] = s[a + i - 1]
    BY <1>7, <1>8, <2>1
  <2>3. ss[a + i - 1] = <<s[a + i - 1]>>
    BY <1>3, <2>1
  <2> QED BY <1>9, <2>2, <2>3
<1>11. tt = Units(t)
  BY <1>8, <1>9, <1>10, SeqEqual
<1> QED BY <1>3, <1>7, <1>8, <1>11

LEMMA UnitsAround ==
    ASSUME NEW S, NEW s \in Seq(S), NEW i \in 1 .. Len(s)
    PROVE  \E u, v \in Seq(S) :
              /\ u = SubSeq(s, 1, i - 1) /\ v = SubSeq(s, i + 1, Len(s))
              /\ Around(Units(s), i, u, v)
<1>1. PICK n \in Nat : n = Len(s) /\ i \in 1 .. n
  BY LenProperties
<1>2. /\ 1 \in 1 .. n + 1 /\ i + 1 \in 1 .. n + 1
      /\ i - 1 \in 0 .. n /\ n \in 0 .. n
  BY <1>1
<1>3. PICK u \in Seq(S) :
          u = SubSeq(s, 1, i - 1) /\ SubSeq(Units(s), 1, i - 1) = Units(u)
  <2>1. PICK h \in 0 .. n : h = i - 1
    BY <1>2
  <2>2. /\ SubSeq(s, 1, h) \in Seq(S)
        /\ SubSeq(Units(s), 1, h) = Units(SubSeq(s, 1, h))
    BY <1>1, <1>2, UnitsPart
  <2> QED BY <2>1, <2>2
<1>4. PICK v \in Seq(S) :
          v = SubSeq(s, i + 1, n) /\ SubSeq(Units(s), i + 1, n) = Units(v)
  <2>1. PICK k \in 1 .. n + 1 : k = i + 1
    BY <1>2
  <2>2. /\ SubSeq(s, k, n) \in Seq(S)
        /\ SubSeq(Units(s), k, n) = Units(SubSeq(s, k, n))
    BY <1>1, <1>2, UnitsPart
  <2> QED BY <2>1, <2>2
<1>5. Len(Units(s)) = n
  BY <1>1, UnitsTyped
<1>6. FlattenSeq(Units(u)) = u /\ FlattenSeq(Units(v)) = v
  BY FlattenUnits
<1>7. Around(Units(s), i, u, v)
  BY <1>3, <1>4, <1>5, <1>6 DEF Around
<1> QED BY <1>1, <1>3, <1>4, <1>7

\* What follows a piece begins with the next one.
LEMMA FollowingPiece ==
    ASSUME NEW S, NEW ss \in Seq(Seq(S)), NEW i \in 1 .. Len(ss),
           NEW u \in Seq(S), NEW v \in Seq(S), Around(ss, i, u, v),
           i + 1 <= Len(ss), ss[i + 1] # <<>>
    PROVE  v # <<>> /\ v[1] = ss[i + 1][1]
<1>1. PICK n \in Nat : n = Len(ss) /\ ss \in [1 .. n -> Seq(S)]
  BY LenProperties
<1>2. v = FlattenSeq(SubSeq(ss, i + 1, n))
  BY <1>1 DEF Around
<1>3. i + 1 <= n
  BY <1>1
<1>4. PICK m \in Nat : m = n - i /\ m >= 1
  <2>1. i \in 1 .. n
    BY <1>1
  <2>2. n - i \in Nat /\ n - i >= 1
    BY <1>3, <2>1
  <2> QED BY <2>2
<1>5. PICK tt \in Seq(Seq(S)) :
          tt = SubSeq(ss, i + 1, n) /\ Len(tt) = m /\ tt[1] = ss[i + 1]
  <2>1. \A k \in i + 1 .. n : ss[k] \in Seq(S)
    BY <1>1
  <2>2. i + 1 \in Int /\ n \in Int /\ n - (i + 1) + 1 = m
        /\ 1 \in 1 .. m /\ (i + 1) + 1 - 1 = i + 1
    BY <1>1, <1>4
  <2>3. /\ SubSeq(ss, i + 1, n) \in Seq(Seq(S))
        /\ Len(SubSeq(ss, i + 1, n))
             = IF i + 1 <= n THEN n - (i + 1) + 1 ELSE 0
        /\ \A k \in 1 .. n - (i + 1) + 1 :
              SubSeq(ss, i + 1, n)[k] = ss[(i + 1) + k - 1]
    BY <2>1, <2>2, SubSeqProperties
  <2>4. SubSeq(ss, i + 1, n)[1] = ss[i + 1]
    BY <2>2, <2>3
  <2> QED BY <1>3, <2>2, <2>3, <2>4
<1>6. 0 + 1 <= Len(tt) /\ 1 \in 1 .. Len(tt)
  BY <1>4, <1>5
<1>7. PICK x \in Seq(S), y \in Seq(S) :
          Around(tt, 1, x, y) /\ FlattenSeq(tt) = Then(x, Then(tt[1], y))
  BY <1>6, PiecesAround
<1>8. x = <<>>
  <2>1. SubSeq(tt, 1, 1 - 1) = <<>>
    BY SubSeqEmpty
  <2> QED BY <1>7, <2>1, FlattenEmpty, Zenon DEF Around
<1>9. PICK z \in Seq(S) : z = tt[1] /\ z # <<>> /\ z = ss[i + 1]
  BY <1>1, <1>3, <1>5
<1>10. Then(z, y) \in Seq(S) /\ Then(z, y)[1] = z[1] /\ Then(z, y) # <<>>
  <2>1. PICK a \in Nat, b \in Nat : a = Len(z) /\ b = Len(y) /\ a >= 1
    BY <1>9, EmptySeq, LenProperties
  <2>2. 1 \in 1 .. a + b /\ 1 <= a
    BY <2>1
  <2>3. Then(z, y) \in Seq(S) /\ Then(z, y)[1] = z[1]
    BY <2>1, <2>2, ThenIs
  <2>4. Len(Then(z, y)) = a + b
    BY <2>1, ThenIs
  <2> QED BY <2>1, <2>3, <2>4, EmptySeq
<1>11. v = Then(z, y)
  <2>1. Then(<<>>, Then(z, y)) = Then(z, y)
    BY <1>10, ConcatEmptySeq DEF Then
  <2> QED BY <1>2, <1>5, <1>7, <1>8, <1>9, <2>1
<1> QED BY <1>9, <1>10, <1>11

LEMMA NextPiece ==
    ASSUME NEW S, NEW ss \in Seq(Seq(S)), NEW i \in 1 .. Len(ss),
           NEW u \in Seq(S), NEW v \in Seq(S), Around(ss, i, u, v),
           v # <<>>, \A k \in 1 .. Len(ss) : ss[k] # <<>>
    PROVE  i + 1 \in 1 .. Len(ss) /\ v[1] = ss[i + 1][1]
<1>1. PICK n \in Nat : n = Len(ss) /\ i \in 1 .. n
  BY LenProperties
<1>2. i + 1 <= n
  <2>1. SUFFICES ASSUME n < i + 1 PROVE FALSE
    BY <1>1
  <2>2. SubSeq(ss, i + 1, n) = <<>>
    BY <1>1, <2>1, SubSeqEmpty
  <2>3. v = <<>>
    BY <1>1, <2>2, FlattenEmpty, Zenon DEF Around
  <2> QED BY <2>3
<1>3. i + 1 \in 1 .. Len(ss) /\ i + 1 <= Len(ss)
  BY <1>1, <1>2
<1>4. ss[i + 1] # <<>>
  BY <1>3
<1> QED BY <1>3, <1>4, FollowingPiece
=============================================================================
