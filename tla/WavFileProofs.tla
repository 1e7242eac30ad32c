---------------------------- MODULE WavFileProofs ----------------------------
(***************************************************************************)
(* Theorems about WavFile, for any number of bytes per frame, any length   *)
(* of the header, any deliveries and any block size: what a client gets    *)
(* is the header and then all that was delivered, in order; and what the   *)
(* header announces is the length of the track.                            *)
(***************************************************************************)
EXTENDS WavFile, SequenceLemmas

-----------------------------------------------------------------------------
(* Frames and bytes.                                                       *)

\* Quotients and remainders.
LEMMA Frames ==
    ASSUME NEW n \in Nat, NEW f \in Nat \ {0}
    PROVE  /\ n \div f \in Nat /\ n % f \in 0 .. f - 1
           /\ n = (n \div f) * f + (n % f)
           /\ n * f \in Nat /\ (n * f) \div f = n
BY SMT

\* Numbers of frames and their bytes.
LEMMA FewerFrames ==
    ASSUME NEW m \in Int, NEW n \in Int, NEW f \in Nat \ {0}
    PROVE  /\ m <= n <=> m * f <= n * f
           /\ (m + n) * f = m * f + n * f /\ (m - n) * f = m * f - n * f
           /\ m * f \in Int
BY SMT

-----------------------------------------------------------------------------
(* What segments hold.                                                     *)

\* Audio bytes are numbered as they are delivered.
Byte == 1 .. TotalFrames * FrameBytes

\* A segment whose memory holds all the frames it claims.
Segment ==
    {seg \in [samples : Seq(Byte), nsamples : Nat \ {0}] :
        SegSize(seg) <= Len(seg.samples)}

\* What the buffer holds in one segment.
Bytes(seg) ==
    [j \in 1 .. SegSize(seg) |->
        IF j \in DOMAIN seg.samples THEN seg.samples[j] ELSE 0]

\* That is the front of its memory.
LEMMA BytesOfSegment ==
    ASSUME NEW seg \in Segment
    PROVE  /\ SegSize(seg) \in Nat \ {0}
           /\ Len(seg.samples) \in Nat /\ SegSize(seg) <= Len(seg.samples)
           /\ \A j \in 1 .. Len(seg.samples) : seg.samples[j] \in Byte
           /\ Bytes(seg) \in Seq(Byte) /\ Len(Bytes(seg)) = SegSize(seg)
           /\ \A j \in 1 .. SegSize(seg) : Bytes(seg)[j] = seg.samples[j]
<1>1. /\ seg.samples \in Seq(Byte) /\ seg.nsamples \in Nat \ {0}
      /\ SegSize(seg) <= Len(seg.samples)
  BY DEF Segment
<1>2. SegSize(seg) \in Nat \ {0}
  <2>1. SegSize(seg) = seg.nsamples * FrameBytes
    BY DEF SegSize
  <2>2. \A a, b \in Nat \ {0} : a * b \in Nat \ {0}
    BY SMT
  <2> QED BY <1>1, <2>1, <2>2, WavAssumption
<1>3. /\ Len(seg.samples) \in Nat /\ DOMAIN seg.samples = 1 .. Len(seg.samples)
      /\ \A j \in 1 .. Len(seg.samples) : seg.samples[j] \in Byte
  BY <1>1, LenProperties, ElementOfSeq
<1>4. PICK n \in Nat : n = SegSize(seg)
  BY <1>2
<1>5. \A j \in 1 .. n : j \in DOMAIN seg.samples
  BY <1>1, <1>3, <1>4
<1>6. Bytes(seg) = [j \in 1 .. n |-> seg.samples[j]]
  BY <1>4, <1>5 DEF Bytes
<1>7. [j \in 1 .. n |-> seg.samples[j]] \in Seq(Byte)
  <2>1. \A j \in 1 .. n : seg.samples[j] \in Byte
    BY <1>3, <1>5
  <2> QED BY <2>1
<1>8. Len([j \in 1 .. n |-> seg.samples[j]]) = n
  OBVIOUS
<1>9. \A j \in 1 .. n : Bytes(seg)[j] = seg.samples[j]
  BY <1>6
<1> QED BY <1>1, <1>2, <1>3, <1>4, <1>6, <1>7, <1>8, <1>9

\* The bytes of each segment of a sequence.
AllBytes(segs) == [i \in DOMAIN segs |-> Bytes(segs[i])]

\* Held joins them.
LEMMA AllBytesOf ==
    ASSUME NEW segs \in Seq(Segment)
    PROVE  /\ AllBytes(segs) \in Seq(Seq(Byte))
           /\ Len(AllBytes(segs)) = Len(segs)
           /\ \A i \in 1 .. Len(segs) : AllBytes(segs)[i] = Bytes(segs[i])
           /\ Held(segs) = FlattenSeq(AllBytes(segs))
<1>1. PICK n \in Nat : n = Len(segs)
  BY LenProperties
<1>2. DOMAIN segs = 1 .. n /\ \A i \in 1 .. n : segs[i] \in Segment
  BY <1>1, LenProperties, ElementOfSeq
<1>3. \A i \in 1 .. n : Bytes(segs[i]) \in Seq(Byte)
  BY <1>2, BytesOfSegment
<1>4. AllBytes(segs) = [i \in 1 .. n |-> Bytes(segs[i])]
  BY <1>2 DEF AllBytes
<1>5. Held(segs) = FlattenSeq(AllBytes(segs))
  BY DEF Held, AllBytes, Bytes
<1>6. /\ [i \in 1 .. n |-> Bytes(segs[i])] \in Seq(Seq(Byte))
      /\ Len([i \in 1 .. n |-> Bytes(segs[i])]) = n
      /\ \A i \in 1 .. n : [j \in 1 .. n |-> Bytes(segs[j])][i] = Bytes(segs[i])
  BY <1>3
<1> QED BY <1>1, <1>4, <1>5, <1>6

\* What Held is of no segment, of one, and of one sequence after another.
LEMMA HeldTyped ==
    ASSUME NEW segs \in Seq(Segment)
    PROVE  Held(segs) \in Seq(Byte)
BY AllBytesOf, FlattenTyped

LEMMA HeldEmpty == Held(<<>>) = <<>>
<1>1. AllBytes(<<>>) = <<>>
  BY DEF AllBytes
<1>2. <<>> \in Seq(Segment)
  BY EmptySeq
<1> QED BY <1>1, <1>2, AllBytesOf, FlattenEmpty

LEMMA HeldOne ==
    ASSUME NEW seg \in Segment
    PROVE  Held(<<seg>>) = Bytes(seg)
<1>1. <<seg>> \in Seq(Segment) /\ DOMAIN <<seg>> = {1} /\ <<seg>>[1] = seg
  OBVIOUS
<1>2. AllBytes(<<seg>>) = <<Bytes(seg)>>
  BY <1>1 DEF AllBytes
<1>3. Held(<<seg>>) = FlattenSeq(<<Bytes(seg)>>)
  BY <1>1, <1>2, AllBytesOf
<1>4. Bytes(seg) \in Seq(Byte)
  BY BytesOfSegment
<1> HIDE DEF Byte
<1> QED BY <1>3, <1>4, FlattenOne

LEMMA HeldConcat ==
    ASSUME NEW segs \in Seq(Segment), NEW more \in Seq(Segment)
    PROVE  Held(segs \o more) = Held(segs) \o Held(more)
<1>1. PICK m \in Nat : m = Len(segs)
  BY LenProperties
<1>2. PICK n \in Nat : n = Len(more)
  BY LenProperties
<1> DEFINE all == segs \o more
<1>3. /\ all \in Seq(Segment) /\ Len(all) = m + n
      /\ \A i \in 1 .. m + n : all[i] = IF i <= m THEN segs[i] ELSE more[i - m]
  BY <1>1, <1>2, ConcatProperties
<1> HIDE DEF all
<1> DEFINE a == AllBytes(segs)
           b == AllBytes(more)
           c == AllBytes(all)
<1>4. /\ a \in Seq(Seq(Byte)) /\ Len(a) = m
      /\ \A i \in 1 .. m : a[i] = Bytes(segs[i])
  BY <1>1, AllBytesOf
<1>5. /\ b \in Seq(Seq(Byte)) /\ Len(b) = n
      /\ \A i \in 1 .. n : b[i] = Bytes(more[i])
  BY <1>2, AllBytesOf
<1>6. /\ c \in Seq(Seq(Byte)) /\ Len(c) = m + n
      /\ \A i \in 1 .. m + n : c[i] = Bytes(all[i])
  BY <1>3, AllBytesOf
<1>7. /\ a \o b \in Seq(Seq(Byte)) /\ Len(a \o b) = m + n
      /\ \A i \in 1 .. m + n : (a \o b)[i] = IF i <= m THEN a[i] ELSE b[i - m]
  BY <1>4, <1>5, ConcatProperties
<1>8. c = a \o b
  <2>1. ASSUME NEW i \in 1 .. m + n PROVE c[i] = (a \o b)[i]
    <3>1. CASE i <= m
      <4>1. i \in 1 .. m /\ all[i] = segs[i]
        BY <1>3, <3>1
      <4> QED BY <1>4, <1>6, <1>7, <3>1, <4>1
    <3>2. CASE ~ (i <= m)
      <4>1. i - m \in 1 .. n /\ all[i] = more[i - m]
        BY <1>3, <3>2
      <4> QED BY <1>5, <1>6, <1>7, <3>2, <4>1
    <3> QED BY <3>1, <3>2
  <2> HIDE DEF a, b, c
  <2> QED BY <1>6, <1>7, <2>1, SeqEqual
<1> HIDE DEF a, b, c
<1>9. FlattenSeq(c) = FlattenSeq(a) \o FlattenSeq(b)
  BY <1>4, <1>5, <1>8, FlattenConcat
<1> QED BY <1>3, <1>9, AllBytesOf DEF all, a, b, c

LEMMA HeldAppend ==
    ASSUME NEW segs \in Seq(Segment), NEW seg \in Segment
    PROVE  Held(Append(segs, seg)) = Held(segs) \o Bytes(seg)
<1>1. <<seg>> \in Seq(Segment)
  OBVIOUS
<1>2. Append(segs, seg) = segs \o <<seg>>
  BY AppendIsConcat
<1> QED BY <1>1, <1>2, HeldConcat, HeldOne

\* Segments hold whole frames.
LEMMA HeldFrames ==
    ASSUME NEW segs \in Seq(Segment)
    PROVE  \E m \in Nat : Len(Held(segs)) = m * FrameBytes
<1> DEFINE T == {n \in Nat : \A s \in Seq(Segment) : Len(s) = n =>
                    \E m \in Nat : Len(Held(s)) = m * FrameBytes}
<1>1. 0 \in T
  <2>1. ASSUME NEW s \in Seq(Segment), Len(s) = 0
        PROVE  Len(Held(s)) = 0 * FrameBytes
    <3>1. s = <<>>
      BY <2>1, EmptySeq
    <3>2. Len(Held(s)) = 0
      BY <3>1, HeldEmpty, EmptySeq
    <3> QED BY <3>2, WavAssumption
  <2> QED BY <2>1
<1>2. ASSUME NEW n \in Nat, n \in T PROVE n + 1 \in T
  <2>1. SUFFICES ASSUME NEW s \in Seq(Segment), Len(s) = n + 1
                 PROVE  \E m \in Nat : Len(Held(s)) = m * FrameBytes
    OBVIOUS
  <2>2. s # <<>>
    BY <2>1, EmptySeq
  <2>3. PICK r \in Seq(Segment), seg \in Segment : s = Append(r, seg)
    BY <2>2, SequenceEmptyOrAppend
  <2>4. Len(r) = n
    BY <2>1, <2>3, AppendProperties, LenProperties
  <2>5. PICK m \in Nat : Len(Held(r)) = m * FrameBytes
    BY <1>2, <2>4
  <2>6. Len(Held(s)) = Len(Held(r)) + SegSize(seg)
    <3>1. Held(s) = Held(r) \o Bytes(seg)
      BY <2>3, HeldAppend
    <3>2. Held(r) \in Seq(Byte) /\ Bytes(seg) \in Seq(Byte)
      BY HeldTyped, BytesOfSegment
    <3>3. Len(Held(r) \o Bytes(seg)) = Len(Held(r)) + Len(Bytes(seg))
      BY <3>2, ConcatProperties
    <3> QED BY <3>1, <3>3, BytesOfSegment
  <2>7. SegSize(seg) = seg.nsamples * FrameBytes /\ seg.nsamples \in Nat
    BY DEF SegSize, Segment
  <2>8. Len(Held(s)) = (m + seg.nsamples) * FrameBytes
    BY <2>5, <2>6, <2>7, FewerFrames, WavAssumption
  <2>9. m + seg.nsamples \in Nat
    BY <2>7
  <2> QED BY <2>8, <2>9
<1>3. Nat \subseteq T
  <2> HIDE DEF T
  <2> QED BY <1>1, <1>2, SetInduction
<1>4. Len(segs) \in T
  BY <1>3, LenProperties
<1> QED BY <1>4

-----------------------------------------------------------------------------
(* The stream of audio: what the client has and then what is buffered.     *)

\* Each byte comes after the one before it.
Successive(s) ==
    \A i \in DOMAIN s : s[i] = 1 \/ \E j \in 1 .. i - 1 : s[j] = s[i] - 1

\* A stream of the first d bytes, some perhaps more than once.
Gapless(s, d) ==
    /\ s \in Seq(Int) /\ Successive(s)
    /\ ToSet(s) = 1 .. d

\* The elements of t are elements of s.
Among(t, s) == \A i \in 1 .. Len(t) : \E j \in 1 .. Len(s) : t[i] = s[j]

\* Bytes that are in the stream already may come again.
LEMMA Repeated ==
    ASSUME NEW x \in Seq(Int), NEW y \in Seq(Int), NEW again \in Seq(Int),
           NEW d \in Nat, Gapless(x \o y, d),
           Among(again, x)
    PROVE  Gapless((x \o again) \o y, d)
<1>1. PICK l \in Nat : l = Len(x)
  BY LenProperties
<1>2. PICK m \in Nat : m = Len(again)
  BY LenProperties
<1>3. PICK n \in Nat : n = Len(y)
  BY LenProperties
<1> DEFINE s == x \o y
           xa == x \o again
           t == xa \o y
<1>4. /\ s \in Seq(Int) /\ Len(s) = l + n
      /\ \A i \in 1 .. l + n : s[i] = IF i <= l THEN x[i] ELSE y[i - l]
  <2>1. s = Then(x, y)
    BY DEF Then
  <2> HIDE DEF s
  <2> QED BY <1>1, <1>3, <2>1, ThenIs
<1>5. /\ xa \in Seq(Int) /\ Len(xa) = l + m
      /\ \A i \in 1 .. l + m : xa[i] = IF i <= l THEN x[i] ELSE again[i - l]
  <2>1. xa = Then(x, again)
    BY DEF Then
  <2> HIDE DEF xa
  <2> QED BY <1>1, <1>2, <2>1, ThenIs
<1>6. /\ t \in Seq(Int) /\ Len(t) = l + m + n
      /\ \A i \in 1 .. l + m + n :
            t[i] = IF i <= l + m THEN xa[i] ELSE y[i - (l + m)]
  <2>1. /\ xa \in Seq(Int) /\ Len(xa) = l + m
        /\ y \in Seq(Int) /\ Len(y) = n
    BY <1>3, <1>5
  <2>2. t = Then(xa, y)
    BY DEF Then
  <2> HIDE DEF xa, t
  <2>3. /\ t \in Seq(Int) /\ Len(t) = Len(xa) + Len(y)
        /\ \A i \in 1 .. Len(xa) + Len(y) :
              t[i] = IF i <= Len(xa) THEN xa[i] ELSE y[i - Len(xa)]
    BY <2>1, <2>2, ThenIs
  <2>4. Len(xa) + Len(y) = l + m + n
    BY <2>1
  <2> QED BY <2>1, <2>3, <2>4
<1>7. DOMAIN s = 1 .. l + n /\ DOMAIN t = 1 .. l + m + n
  BY <1>4, <1>6, LenProperties
<1> HIDE DEF s, xa, t
<1>8. Successive(s) /\ ToSet(s) = 1 .. d
  BY DEF Gapless, s
\* The places of t are those of s and those of again.
<1>9. ASSUME NEW i \in 1 .. l PROVE i \in 1 .. l + m + n /\ t[i] = s[i]
  <2>1. /\ i \in 1 .. l + m + n /\ i \in 1 .. l + m /\ i \in 1 .. l + n
        /\ i <= l + m /\ i <= l
    OBVIOUS
  <2>2. t[i] = xa[i] /\ xa[i] = x[i] /\ s[i] = x[i]
    BY <1>4, <1>5, <1>6, <2>1
  <2> QED BY <2>1, <2>2
<1>10. ASSUME NEW i \in l + 1 .. l + n
       PROVE  i + m \in 1 .. l + m + n /\ t[i + m] = s[i]
  <2>1. i + m \in 1 .. l + m + n /\ ~ (i + m <= l + m) /\ ~ (i <= l)
    OBVIOUS
  <2>2. t[i + m] = y[(i + m) - (l + m)]
    BY <1>6, <2>1
  <2>3. (i + m) - (l + m) = i - l /\ i \in 1 .. l + n
    OBVIOUS
  <2> QED BY <1>4, <2>1, <2>2, <2>3
<1>11. ASSUME NEW i \in l + 1 .. l + m
       PROVE  \E j \in 1 .. l : t[i] = s[j]
  <2>1. t[i] = again[i - l] /\ i - l \in 1 .. m
    <3>1. /\ i \in 1 .. l + m + n /\ i \in 1 .. l + m /\ i - l \in 1 .. m
          /\ i <= l + m /\ ~ (i <= l)
      OBVIOUS
    <3>2. t[i] = xa[i] /\ xa[i] = again[i - l]
      BY <1>5, <1>6, <3>1
    <3> QED BY <3>1, <3>2
  <2>2. PICK j \in 1 .. l : again[i - l] = x[j]
    BY <1>1, <1>2, <2>1 DEF Among
  <2>3. s[j] = x[j]
    <3>1. j \in 1 .. l + n /\ j <= l
      OBVIOUS
    <3> QED BY <1>4, <3>1
  <2> QED BY <2>1, <2>2, <2>3
<1>12. Successive(t)
  <2>1. SUFFICES ASSUME NEW i \in 1 .. l + m + n, t[i] # 1
                 PROVE  \E j \in 1 .. i - 1 : t[j] = t[i] - 1
    BY <1>7 DEF Successive
  <2>2. ASSUME NEW k \in 1 .. l + n, s[k] # 1
        PROVE  \E j \in 1 .. k - 1 : s[j] = s[k] - 1
    BY <1>7, <1>8, <2>2 DEF Successive
  <2>3. CASE i \in 1 .. l
    <3>1. t[i] = s[i] /\ i \in 1 .. l + n
      BY <1>9, <2>3
    <3>2. PICK j \in 1 .. i - 1 : s[j] = s[i] - 1
      BY <2>1, <2>2, <3>1
    <3>3. j \in 1 .. l
      BY <2>3
    <3> QED BY <1>9, <3>1, <3>2, <3>3
  <2>4. CASE i \in l + 1 .. l + m
    <3>1. PICK k \in 1 .. l : t[i] = s[k]
      BY <1>11, <2>4
    <3>2. k \in 1 .. l + n
      OBVIOUS
    <3>3. PICK j \in 1 .. k - 1 : s[j] = s[k] - 1
      BY <2>1, <2>2, <3>1, <3>2
    <3>4. j \in 1 .. l /\ j \in 1 .. i - 1
      BY <2>4
    <3> QED BY <1>9, <3>1, <3>3, <3>4
  <2>5. CASE i \in l + m + 1 .. l + m + n
    <3>1. i - m \in l + 1 .. l + n /\ i - m \in 1 .. l + n /\ (i - m) + m = i
      BY <2>5
    <3>2. t[i] = s[i - m]
      BY <1>10, <3>1
    <3>3. PICK j \in 1 .. (i - m) - 1 : s[j] = s[i - m] - 1
      BY <2>1, <2>2, <3>1, <3>2
    <3>4. CASE j <= l
      <4>1. j \in 1 .. l /\ j \in 1 .. i - 1
        BY <2>5, <3>4
      <4> QED BY <1>9, <3>2, <3>3, <4>1
    <3>5. CASE j > l
      <4>1. j \in l + 1 .. l + n /\ j + m \in 1 .. i - 1
        BY <2>5, <3>5
      <4> QED BY <1>10, <3>2, <3>3, <4>1
    <3> QED BY <3>4, <3>5
  <2>6. i \in 1 .. l \/ i \in l + 1 .. l + m \/ i \in l + m + 1 .. l + m + n
    OBVIOUS
  <2> QED BY <2>3, <2>4, <2>5, <2>6
<1>13. ToSet(t) = ToSet(s)
  <2>1. ASSUME NEW i \in 1 .. l + m + n PROVE \E j \in 1 .. l + n : t[i] = s[j]
    <3>1. CASE i \in 1 .. l
      BY <1>9, <3>1
    <3>2. CASE i \in l + 1 .. l + m
      <4>1. PICK j \in 1 .. l : t[i] = s[j]
        BY <1>11, <3>2
      <4>2. j \in 1 .. l + n
        OBVIOUS
      <4> QED BY <4>1, <4>2
    <3>3. CASE i \in l + m + 1 .. l + m + n
      <4>1. /\ i - m \in l + 1 .. l + n /\ i - m \in 1 .. l + n
            /\ (i - m) + m = i
        BY <3>3
      <4> QED BY <1>10, <4>1
    <3>4. i \in 1 .. l \/ i \in l + 1 .. l + m \/ i \in l + m + 1 .. l + m + n
      OBVIOUS
    <3> QED BY <3>1, <3>2, <3>3, <3>4
  <2>2. ASSUME NEW j \in 1 .. l + n PROVE \E i \in 1 .. l + m + n : t[i] = s[j]
    <3>1. CASE j <= l
      <4>1. j \in 1 .. l
        BY <3>1
      <4> QED BY <1>9, <4>1
    <3>2. CASE j > l
      <4>1. j \in l + 1 .. l + n
        BY <3>2
      <4> QED BY <1>10, <4>1
    <3> QED BY <3>1, <3>2
  <2>3. /\ ToSet(t) = {t[i] : i \in 1 .. l + m + n}
        /\ ToSet(s) = {s[i] : i \in 1 .. l + n}
    BY <1>7 DEF ToSet
  <2>4. ToSet(t) \subseteq ToSet(s)
    BY <2>1, <2>3
  <2>5. ToSet(s) \subseteq ToSet(t)
    BY <2>2, <2>3
  <2> QED BY <2>4, <2>5
<1>14. t \in Seq(Int) /\ ToSet(t) = 1 .. d
  BY <1>6, <1>8, <1>13
<1> QED BY <1>12, <1>14 DEF Gapless, t, xa

\* The next bytes may follow.
Following(d, m) == [i \in 1 .. m |-> d + i]

Upto(d) == [i \in 1 .. d |-> i]

LEMMA Continued ==
    ASSUME NEW s \in Seq(Int), NEW d \in Nat, NEW m \in Nat, Gapless(s, d)
    PROVE  /\ Gapless(Then(s, Following(d, m)), d + m)
           /\ s = Upto(d) => Then(s, Following(d, m)) = Upto(d + m)
<1> DEFINE next == Following(d, m)
<1>1. PICK l \in Nat : l = Len(s)
  BY LenProperties
<1>2. next \in Seq(Int) /\ Len(next) = m /\ \A i \in 1 .. m : next[i] = d + i
  BY DEF Following
<1> HIDE DEF next
<1> DEFINE t == s \o next
<1>3. /\ t \in Seq(Int) /\ Len(t) = l + m
      /\ \A i \in 1 .. l + m : t[i] = IF i <= l THEN s[i] ELSE next[i - l]
  <2>1. t = Then(s, next)
    BY DEF Then
  <2> HIDE DEF t
  <2> QED BY <1>1, <1>2, <2>1, ThenIs
<1> HIDE DEF t
<1>4. DOMAIN s = 1 .. l /\ DOMAIN t = 1 .. l + m
  BY <1>1, <1>3, LenProperties
<1>5. \A i \in 1 .. l : i \in 1 .. l + m /\ t[i] = s[i]
  BY <1>3
<1>6. ASSUME NEW i \in 1 .. m PROVE l + i \in 1 .. l + m /\ t[l + i] = d + i
  <2>1. l + i \in 1 .. l + m /\ ~ (l + i <= l) /\ (l + i) - l = i
    OBVIOUS
  <2> QED BY <1>2, <1>3, <2>1
<1>7. \A v \in 1 .. d : \E i \in 1 .. l : s[i] = v
  <2>1. \A v \in 1 .. d : v \in {s[i] : i \in 1 .. l}
    BY <1>4 DEF Gapless, ToSet
  <2> QED BY <2>1
<1>8. \A i \in 1 .. l : s[i] \in 1 .. d
  BY <1>4 DEF Gapless, ToSet
<1>9. Successive(t)
  <2>1. SUFFICES ASSUME NEW i \in 1 .. l + m, t[i] # 1
                 PROVE  \E j \in 1 .. i - 1 : t[j] = t[i] - 1
    BY <1>4 DEF Successive
  <2>2. CASE i \in 1 .. l
    <3>1. \E j \in 1 .. i - 1 : s[j] = s[i] - 1
      BY <1>4, <1>5, <2>1, <2>2 DEF Gapless, Successive
    <3>2. \A j \in 1 .. i - 1 : j \in 1 .. l
      BY <2>2
    <3> QED BY <1>5, <2>2, <3>1, <3>2
  <2>3. CASE i = l + 1
    <3>1. t[i] = d + 1 /\ 1 \in 1 .. m
      BY <1>6, <2>3
    <3>2. d \in 1 .. d
      BY <2>1, <3>1
    <3>3. PICK j \in 1 .. l : s[j] = d
      BY <1>7, <3>2
    <3>4. j \in 1 .. i - 1 /\ t[j] = s[j]
      BY <1>5, <2>3
    <3>5. t[j] = t[i] - 1
      BY <3>1, <3>3, <3>4
    <3> QED BY <3>4, <3>5
  <2>4. CASE i \in l + 2 .. l + m
    <3>1. /\ i - l \in 1 .. m /\ l + (i - l) = i
          /\ (i - l) - 1 \in 1 .. m /\ l + ((i - l) - 1) = i - 1
          /\ i - 1 \in 1 .. i - 1
      BY <2>4
    <3>2. t[i] = d + (i - l) /\ t[i - 1] = d + ((i - l) - 1)
      BY <1>6, <3>1
    <3>3. t[i - 1] = t[i] - 1
      BY <3>2
    <3> QED BY <3>1, <3>3
  <2>5. i \in 1 .. l \/ i = l + 1 \/ i \in l + 2 .. l + m
    OBVIOUS
  <2> QED BY <2>2, <2>3, <2>4, <2>5
<1>10. ToSet(t) = 1 .. d + m
  <2>1. ASSUME NEW i \in 1 .. l + m PROVE t[i] \in 1 .. d + m
    <3>1. CASE i \in 1 .. l
      <4>1. t[i] = s[i] /\ s[i] \in 1 .. d
        BY <1>5, <1>8, <3>1
      <4> QED BY <4>1
    <3>2. CASE i \in l + 1 .. l + m
      <4>1. i - l \in 1 .. m /\ l + (i - l) = i
        BY <3>2
      <4>2. t[i] = d + (i - l)
        BY <1>6, <4>1
      <4> QED BY <4>1, <4>2
    <3> QED BY <3>1, <3>2
  <2>2. ASSUME NEW v \in 1 .. d + m PROVE \E i \in 1 .. l + m : t[i] = v
    <3>1. CASE v \in 1 .. d
      BY <1>5, <1>7, <3>1
    <3>2. CASE v \in d + 1 .. d + m
      <4>1. v - d \in 1 .. m /\ d + (v - d) = v
        BY <3>2
      <4> QED BY <1>6, <4>1
    <3> QED BY <3>1, <3>2
  <2> QED BY <1>4, <2>1, <2>2 DEF ToSet
<1>11. ASSUME s = [i \in 1 .. d |-> i] PROVE t = [i \in 1 .. d + m |-> i]
  <2>1. l = d
    BY <1>1, <1>11
  <2>2. ASSUME NEW i \in 1 .. d + m PROVE t[i] = i
    <3>1. CASE i \in 1 .. l
      BY <1>5, <1>11, <2>1, <3>1
    <3>2. CASE i \in l + 1 .. l + m
      <4>1. i - l \in 1 .. m /\ l + (i - l) = i
        BY <3>2
      <4>2. t[i] = d + (i - l)
        BY <1>6, <4>1
      <4> QED BY <2>1, <4>2
    <3> QED BY <2>1, <3>1, <3>2
  <2>3. DOMAIN t = 1 .. d + m /\ t = [i \in DOMAIN t |-> t[i]]
    BY <1>3, <1>4, <2>1
  <2> QED BY <2>2, <2>3
<1>12. Gapless(t, d + m)
  BY <1>3, <1>9, <1>10 DEF Gapless
<1> QED BY <1>11, <1>12 DEF t, next, Then, Upto

-----------------------------------------------------------------------------
(* What a delivery puts into the buffer and a read takes from it.          *)

\* A delivered segment holds the bytes that come next.
LEMMA Delivery ==
    ASSUME delivered \in Nat, NEW n \in Nat \ {0}, delivered + n <= TotalFrames,
           NEW seg, seg = [samples |-> Audio(n), nsamples |-> n]
    PROVE  /\ seg \in Segment /\ Bytes(seg) = Audio(n)
           /\ SegSize(seg) = n * FrameBytes
           /\ n * FrameBytes \in Nat /\ delivered * FrameBytes \in Nat
           /\ (delivered + n) * FrameBytes
                 = delivered * FrameBytes + n * FrameBytes
<1> DEFINE d == delivered * FrameBytes
           m == n * FrameBytes
<1>1. /\ d \in Nat /\ m \in Nat
      /\ (delivered + n) * FrameBytes = d + m
      /\ d + m <= TotalFrames * FrameBytes /\ TotalFrames * FrameBytes \in Nat
  <2>1. /\ delivered + n \in Nat /\ TotalFrames \in Nat
        /\ FrameBytes \in Nat \ {0}
    BY WavAssumption
  <2> QED BY <2>1, Frames, FewerFrames
<1>2. SegSize(seg) = m
  BY DEF SegSize
<1>3. Audio(n) = [i \in 1 .. m |-> d + i]
  BY DEF Audio
<1>4. \A i \in 1 .. m : d + i \in Byte
  <2> HIDE DEF d, m
  <2> QED BY <1>1 DEF Byte
<1> HIDE DEF d, m
<1>5. /\ Audio(n) \in Seq(Byte) /\ Len(Audio(n)) = m
      /\ DOMAIN Audio(n) = 1 .. m
  BY <1>1, <1>3, <1>4
<1>6. seg \in Segment
  <2>1. seg.samples = Audio(n) /\ seg.nsamples = n
    OBVIOUS
  <2>2. SegSize(seg) <= Len(seg.samples)
    BY <1>1, <1>2, <1>5, <2>1
  <2>3. seg \in [samples : Seq(Byte), nsamples : Nat \ {0}]
    BY <1>5
  <2> QED BY <2>2, <2>3 DEF Segment
<1>7. Bytes(seg) = Audio(n)
  <2>1. Bytes(seg) \in Seq(Byte) /\ Len(Bytes(seg)) = m
    BY <1>2, <1>6, BytesOfSegment
  <2>2. \A j \in 1 .. m : Bytes(seg)[j] = Audio(n)[j]
    BY <1>2, <1>6, BytesOfSegment
  <2> QED BY <1>5, <2>1, <2>2, SeqEqual
<1> QED BY <1>1, <1>2, <1>6, <1>7 DEF d, m

\* There is such a number of segments.
LEMMA FittingIs ==
    ASSUME queue \in Seq(Segment), NEW size \in Nat
    PROVE  /\ Fitting(size) \in 0 .. Len(queue)
           /\ Len(Held(SubSeq(queue, 1, Fitting(size)))) <= size
           /\ Fitting(size) < Len(queue) =>
                 Len(Held(SubSeq(queue, 1, Fitting(size) + 1))) > size
<1> DEFINE l(k) == Len(Held(SubSeq(queue, 1, k)))
<1>1. PICK n \in Nat : n = Len(queue)
  BY LenProperties
<1>2. ASSUME NEW k \in 0 .. n PROVE l(k) \in Nat
  <2>1. \A i \in 1 .. k : queue[i] \in Segment
    BY <1>1, ElementOfSeq
  <2>2. SubSeq(queue, 1, k) \in Seq(Segment)
    BY <2>1, SubSeqProperties
  <2> QED BY <2>2, HeldTyped, LenProperties
<1>3. l(0) = 0
  <2>1. SubSeq(queue, 1, 0) = <<>>
    BY SubSeqEmpty
  <2> QED BY <2>1, HeldEmpty, EmptySeq
<1> DEFINE T == {k \in Nat : k < n => l(k + 1) > size}
<1>4. PICK x \in T : \A y \in T : x <= y
  <2>1. n \in T
    OBVIOUS
  <2> HIDE DEF T
  <2>2. T \subseteq Nat
    BY DEF T
  <2> QED BY <2>1, <2>2, LeastNatural
<1>5. x \in 0 .. n /\ x \in Nat /\ (x < n => l(x + 1) > size)
  <2>1. n \in T
    OBVIOUS
  <2> QED BY <1>4, <2>1
<1>6. l(x) <= size
  <2> HIDE DEF l
  <2>1. CASE x = 0
    BY <1>3, <2>1
  <2>2. CASE x # 0
    <3>1. x - 1 \in Nat /\ ~ (x <= x - 1) /\ (x - 1) + 1 = x
      BY <1>5, <2>2
    <3>2. x - 1 \notin T
      BY <1>4, <3>1
    <3>3. ~ (l(x) > size)
      BY <3>1, <3>2
    <3> QED BY <1>2, <1>5, <3>3
  <2> QED BY <2>1, <2>2
<1> DEFINE Fits(k) == l(k) <= size /\ (k < n => l(k + 1) > size)
<1>7. \E k \in 0 .. n : Fits(k)
  BY <1>5, <1>6
<1>8. Fitting(size) = CHOOSE k \in 0 .. n : Fits(k)
  BY <1>1 DEF Fitting
<1>9. Fitting(size) \in 0 .. n /\ Fits(Fitting(size))
  <2> HIDE DEF Fits
  <2> QED BY <1>7, <1>8
<1> QED BY <1>1, <1>9

\* What stays of a segment when size bytes are taken is a segment, whose bytes
\* are those not taken yet and perhaps some that come again.
LEMMA Cut ==
    ASSUME NEW seg \in Segment, NEW size \in Nat \ {0}, size < SegSize(seg)
    PROVE  /\ Rest(seg, size) \in Segment
           /\ SubSeq(seg.samples, 1, size) \in Seq(Byte)
           /\ \E again \in Seq(Byte) :
                 /\ SubSeq(seg.samples, 1, size) \o Bytes(Rest(seg, size))
                       = Bytes(seg) \o again
                 /\ Len(again) = size % FrameBytes
                 /\ Among(again, Bytes(seg))
<1>1. PICK all \in Nat : all = Len(seg.samples)
  BY BytesOfSegment
<1>2. PICK n \in Nat : n = SegSize(seg)
  BY BytesOfSegment
<1>3. /\ n <= all /\ size < n
      /\ seg.samples \in Seq(Byte) /\ DOMAIN seg.samples = 1 .. all
      /\ \A j \in 1 .. all : seg.samples[j] \in Byte
      /\ Bytes(seg) \in Seq(Byte) /\ Len(Bytes(seg)) = n
      /\ \A j \in 1 .. n : Bytes(seg)[j] = seg.samples[j]
  <2>1. seg.samples \in Seq(Byte)
    BY DEF Segment
  <2> QED BY <1>1, <1>2, <2>1, BytesOfSegment, LenProperties
<1> DEFINE q == size \div FrameBytes
           r == size % FrameBytes
           rest == Rest(seg, size)
<1>4. q \in Nat /\ r \in Nat /\ r <= size /\ q * FrameBytes = size - r
  <2>0. size \in Nat /\ FrameBytes \in Nat \ {0}
    BY WavAssumption
  <2>1. q \in Nat /\ r \in Nat /\ size = q * FrameBytes + r
    <3>1. q \in Nat /\ r \in 0 .. FrameBytes - 1 /\ size = q * FrameBytes + r
      BY <2>0, Frames, Zenon
    <3> HIDE DEF q, r
    <3> QED BY <2>0, <3>1
  <2> HIDE DEF q, r
  <2>2. PICK p \in Nat : p = q * FrameBytes
    BY <2>0, <2>1, Frames
  <2> QED BY <2>1, <2>2
<1>5. seg.nsamples \in Nat \ {0} /\ n = seg.nsamples * FrameBytes
  BY <1>2 DEF Segment, SegSize
<1>6. rest.nsamples = seg.nsamples - q /\ rest.samples = Moved(seg, size)
  BY DEF Rest
<1> HIDE DEF q, r
<1>7. SegSize(rest) = (n - size) + r /\ q < seg.nsamples
  <2>1. FrameBytes \in Nat \ {0}
    BY WavAssumption
  <2>2. (seg.nsamples - q) * FrameBytes = n - q * FrameBytes
    BY <1>4, <1>5, <2>1, FewerFrames
  <2>3. SegSize(rest) = (n - size) + r
    <3>1. SegSize(rest) = rest.nsamples * FrameBytes
      BY DEF SegSize
    <3>2. SegSize(rest) = n - (size - r)
      BY <1>4, <1>6, <2>2, <3>1
    <3> HIDE DEF rest
    <3> QED BY <1>4, <3>2
  <2>4. ~ (seg.nsamples <= q)
    <3>1. seg.nsamples <= q <=> n <= q * FrameBytes
      BY <1>4, <1>5, <2>1, FewerFrames
    <3>2. ~ (n <= size - r)
      BY <1>3, <1>4
    <3> QED BY <1>4, <3>1, <3>2
  <2> QED BY <1>4, <1>5, <2>3, <2>4
<1> DEFINE m == (n - size) + r
<1>8. m \in Nat /\ m <= n /\ m <= all
  BY <1>3, <1>4
<1>9. Moved(seg, size) = [i \in 1 .. all |->
           IF i <= n - size THEN seg.samples[i + size] ELSE seg.samples[i]]
  BY <1>2, <1>3 DEF Moved
<1>10. /\ Moved(seg, size) \in Seq(Byte) /\ Len(Moved(seg, size)) = all
       /\ \A i \in 1 .. all : Moved(seg, size)[i] =
              IF i <= n - size THEN seg.samples[i + size] ELSE seg.samples[i]
  <2>1. ASSUME NEW i \in 1 .. all
        PROVE  (IF i <= n - size THEN seg.samples[i + size]
                ELSE seg.samples[i]) \in Byte
    <3>1. CASE i <= n - size
      <4>1. i + size \in 1 .. all
        BY <1>3, <3>1
      <4> QED BY <1>3, <3>1, <4>1
    <3>2. CASE ~ (i <= n - size)
      BY <1>3, <3>2
    <3> QED BY <3>1, <3>2
  <2> HIDE DEF Byte
  <2> QED BY <1>9, <2>1
<1>11. rest \in Segment
  <2>1. rest \in [samples : Seq(Byte), nsamples : Nat \ {0}]
    <3>1. seg.nsamples - q \in Nat \ {0}
      BY <1>4, <1>5, <1>7
    <3>2. rest = [samples |-> Moved(seg, size), nsamples |-> seg.nsamples - q]
      BY DEF Rest, q
    <3> QED BY <1>10, <3>1, <3>2
  <2>2. SegSize(rest) <= Len(rest.samples)
    BY <1>6, <1>7, <1>8, <1>10
  <2> QED BY <2>1, <2>2 DEF Segment
<1>12. /\ Bytes(rest) \in Seq(Byte) /\ Len(Bytes(rest)) = m
       /\ \A j \in 1 .. m : Bytes(rest)[j] = Moved(seg, size)[j]
  BY <1>6, <1>7, <1>11, BytesOfSegment
<1> DEFINE again == [i \in 1 .. r |-> seg.samples[(n - size) + i]]
           taken == SubSeq(seg.samples, 1, size)
<1>13. /\ again \in Seq(Byte) /\ Len(again) = r
       /\ \A i \in 1 .. r : again[i] = seg.samples[(n - size) + i]
  <2>1. \A i \in 1 .. r : seg.samples[(n - size) + i] \in Byte
    BY <1>3, <1>4, <1>8
  <2> HIDE DEF Byte
  <2> QED BY <1>4, <2>1
<1>14. /\ taken \in Seq(Byte) /\ Len(taken) = size
       /\ \A i \in 1 .. size : taken[i] = seg.samples[i]
  <2>1. \A i \in 1 .. size : seg.samples[i] \in Byte
    BY <1>3
  <2> HIDE DEF Byte
  <2>2. /\ taken \in Seq(Byte)
        /\ Len(taken) = IF 1 <= size THEN size - 1 + 1 ELSE 0
        /\ \A i \in 1 .. size - 1 + 1 : taken[i] = seg.samples[1 + i - 1]
    BY <2>1, SubSeqProperties
  <2> HIDE DEF taken
  <2> QED BY <2>2
<1> HIDE DEF rest, again, taken
<1> DEFINE a == taken \o Bytes(rest)
           b == Bytes(seg) \o again
<1>15. /\ a \in Seq(Byte) /\ Len(a) = size + m
       /\ \A i \in 1 .. size + m :
             a[i] = IF i <= size THEN taken[i] ELSE Bytes(rest)[i - size]
  <2>1. /\ taken \in Seq(Byte) /\ Len(taken) = size
        /\ Bytes(rest) \in Seq(Byte) /\ Len(Bytes(rest)) = m
    BY <1>12, <1>14
  <2>2. a = Then(taken, Bytes(rest))
    BY DEF Then
  <2> HIDE DEF m, a
  <2> QED BY <2>1, <2>2, ThenIs
<1>16. /\ b \in Seq(Byte) /\ Len(b) = n + r
       /\ \A i \in 1 .. n + r :
             b[i] = IF i <= n THEN Bytes(seg)[i] ELSE again[i - n]
  <2>1. /\ again \in Seq(Byte) /\ Len(again) = r
        /\ Bytes(seg) \in Seq(Byte) /\ Len(Bytes(seg)) = n
    BY <1>3, <1>13
  <2>2. b = Then(Bytes(seg), again)
    BY DEF Then
  <2> HIDE DEF b
  <2> QED BY <2>1, <2>2, ThenIs
<1> HIDE DEF a, b
<1>17. size + m = n + r
  BY <1>3, <1>4
<1>18. ASSUME NEW i \in 1 .. n + r PROVE a[i] = b[i]
  <2>0. a[i] = IF i <= size THEN taken[i] ELSE Bytes(rest)[i - size]
    BY <1>15, <1>17
  <2>00. b[i] = IF i <= n THEN Bytes(seg)[i] ELSE again[i - n]
    BY <1>16
  <2>1. CASE i <= size
    <3>1. i \in 1 .. size /\ i \in 1 .. n /\ i <= n
      BY <1>3, <2>1
    <3> QED BY <1>3, <1>14, <2>0, <2>00, <2>1, <3>1
  <2>2. CASE ~ (i <= size) /\ i <= n
    <3>1. /\ i - size \in 1 .. m /\ i - size \in 1 .. all
          /\ i - size <= n - size /\ (i - size) + size = i /\ i \in 1 .. n
      BY <1>3, <1>4, <2>2
    <3>2. Bytes(rest)[i - size] = Moved(seg, size)[i - size]
      BY <1>12, <3>1
    <3>3. Moved(seg, size)[i - size] = seg.samples[i]
      BY <1>10, <3>1
    <3> QED BY <1>3, <2>0, <2>00, <2>2, <3>1, <3>2, <3>3
  <2>3. CASE ~ (i <= n)
    <3>1. /\ i - size \in 1 .. m /\ i - size \in 1 .. all /\ ~ (i <= size)
          /\ ~ (i - size <= n - size) /\ i - n \in 1 .. r
          /\ (n - size) + (i - n) = i - size
      BY <1>3, <1>4, <1>8, <1>17, <2>3
    <3>2. Bytes(rest)[i - size] = Moved(seg, size)[i - size]
      BY <1>12, <3>1
    <3>3. Moved(seg, size)[i - size] = seg.samples[i - size]
      BY <1>10, <3>1
    <3>4. again[i - n] = seg.samples[i - size]
      BY <1>13, <3>1
    <3> QED BY <2>0, <2>00, <2>3, <3>1, <3>2, <3>3, <3>4
  <2> QED BY <2>1, <2>2, <2>3
<1>19. a = b
  BY <1>15, <1>16, <1>17, <1>18, SeqEqual
<1>20. ASSUME NEW i \in 1 .. r
       PROVE  \E j \in 1 .. n : again[i] = Bytes(seg)[j]
  <2>1. (n - size) + i \in 1 .. n
    BY <1>3, <1>4
  <2> QED BY <1>3, <1>13, <2>1
<1>21. \E g \in Seq(Byte) :
          /\ taken \o Bytes(rest) = Bytes(seg) \o g
          /\ Len(g) = r
          /\ Among(g, Bytes(seg))
  <2>1. Len(Bytes(seg)) = n
    BY <1>3
  <2>2. Among(again, Bytes(seg))
    BY <1>13, <1>20, <2>1 DEF Among
  <2> QED BY <1>13, <1>19, <2>2 DEF a, b
<1> QED BY <1>3, <1>11, <1>14, <1>21 DEF r, rest, taken

\* A sequence is its head and its tail.
LEMMA TailSplits ==
    ASSUME NEW S, NEW s \in Seq(S), s # <<>>
    PROVE  s = <<Head(s)>> \o Tail(s) /\ Head(s) \in S /\ Tail(s) \in Seq(S)
<1>1. /\ Head(s) \in S /\ Tail(s) \in Seq(S) /\ Len(Tail(s)) = Len(s) - 1
      /\ \A i \in 1 .. Len(Tail(s)) : Tail(s)[i] = s[i + 1]
  BY HeadTailProperties
<1>2. PICK n \in Nat \ {0} : n = Len(s)
  BY EmptySeq
<1> DEFINE h == <<Head(s)>>
           t == h \o Tail(s)
<1>3. h \in Seq(S) /\ Len(h) = 1 /\ h[1] = s[1]
  BY <1>1
<1> HIDE DEF h
<1>4. /\ t \in Seq(S) /\ Len(t) = n
      /\ \A i \in 1 .. n : t[i] = IF i <= 1 THEN h[i] ELSE Tail(s)[i - 1]
  <2>1. /\ t \in Seq(S) /\ Len(t) = Len(h) + Len(Tail(s))
        /\ \A i \in 1 .. Len(h) + Len(Tail(s)) :
              t[i] = IF i <= Len(h) THEN h[i] ELSE Tail(s)[i - Len(h)]
    BY <1>1, <1>3, ConcatProperties
  <2>2. Len(h) + Len(Tail(s)) = n
    BY <1>1, <1>2, <1>3
  <2> HIDE DEF t
  <2> QED BY <1>3, <2>1, <2>2
<1>5. ASSUME NEW i \in 1 .. n PROVE t[i] = s[i]
  <2>1. CASE i = 1
    BY <1>3, <1>4, <2>1
  <2>2. CASE i # 1
    <3>1. i - 1 \in 1 .. n - 1 /\ ~ (i <= 1) /\ (i - 1) + 1 = i
      BY <2>2
    <3>2. Tail(s)[i - 1] = s[i]
      BY <1>1, <1>2, <3>1
    <3> QED BY <1>4, <3>1, <3>2
  <2> QED BY <2>1, <2>2
<1> HIDE DEF t
<1>6. t = s
  BY <1>2, <1>4, <1>5, SeqEqual
<1> QED BY <1>1, <1>6 DEF t, h

\* What a read takes, and what it leaves.
TakesFrom(h, out, again, x, y) ==
    /\ got' = (got \o h) \o out
    /\ queue' \in Seq(Segment)
    /\ nsamples' \in Int /\ Len(Held(queue')) = nsamples' * FrameBytes
    /\ Held(queue) = x \o y
    /\ out \o Held(queue') = (x \o again) \o y
    /\ Among(again, x)
    /\ aligned' \in BOOLEAN
    /\ aligned' => aligned /\ again = <<>>

\* spotify_get_audio takes so: whole segments, or the front of the first one,
\* whose last bytes then come again.
LEMMA Taken ==
    ASSUME queue \in Seq(Segment), queue # <<>>, aligned \in BOOLEAN,
           nsamples \in Int, Len(Held(queue)) = nsamples * FrameBytes,
           NEW h, NEW size \in Nat \ {0}, get_audio(h, size)
    PROVE  \E out, again, x, y \in Seq(Byte) : TakesFrom(h, out, again, x, y)
<1>1. PICK n \in Nat \ {0} : n = Len(queue)
  BY EmptySeq
<1>2. PICK k \in 0 .. n :
           /\ k = Fitting(size)
           /\ k < n => Len(Held(SubSeq(queue, 1, k + 1))) > size
  BY <1>1, FittingIs
<1>3. /\ Held(queue) \in Seq(Byte) /\ Len(Held(queue)) \in Nat
      /\ <<>> \in Seq(Byte) /\ Len(<<>>) = 0
  BY HeldTyped, LenProperties, EmptySeq
<1>4. CASE k > 0
  <2> DEFINE taken == SubSeq(queue, 1, k)
             left == SubSeq(queue, k + 1, n)
  <2>1. /\ got' = (got \o h) \o Held(taken) /\ queue' = left
        /\ nsamples' = nsamples - (Len(Held(taken)) \div FrameBytes)
        /\ aligned' = aligned
    BY <1>1, <1>2, <1>4 DEF get_audio
  <2>2. taken \in Seq(Segment) /\ left \in Seq(Segment)
    <3>1. \A i \in 1 .. n : queue[i] \in Segment
      BY <1>1, ElementOfSeq
    <3>2. taken \in Seq(Segment)
      <4>1. \A i \in 1 .. k : queue[i] \in Segment
        BY <3>1
      <4> QED BY <4>1, SubSeqProperties
    <3>3. left \in Seq(Segment)
      <4>1. \A i \in k + 1 .. n : queue[i] \in Segment
        BY <3>1
      <4> QED BY <4>1, SubSeqProperties
    <3> QED BY <3>2, <3>3
  <2>3. queue = taken \o left
    <3>1. /\ 1 \in 1 .. n + 1 /\ k \in 1 - 1 .. n /\ n \in k .. n
      OBVIOUS
    <3>2. SubSeq(queue, 1, k) \o SubSeq(queue, k + 1, n) = SubSeq(queue, 1, n)
      BY <1>1, <3>1, ConcatAdjacentSubSeq
    <3> QED BY <1>1, <3>2, SubSeqFull
  <2> HIDE DEF taken, left
  <2>4. Held(queue) = Held(taken) \o Held(left)
    BY <2>2, <2>3, HeldConcat
  <2>5. Held(taken) \in Seq(Byte) /\ Held(left) \in Seq(Byte)
    BY <2>2, HeldTyped
  <2>6. PICK m \in Nat : Len(Held(taken)) = m * FrameBytes
    BY <2>2, HeldFrames
  <2>7. nsamples' = nsamples - m
    BY <2>1, <2>6, Frames, WavAssumption
  <2>8. Len(Held(queue)) = Len(Held(taken)) + Len(Held(left))
    BY <2>4, <2>5, ConcatProperties
  <2>9. Len(Held(left)) = (nsamples - m) * FrameBytes
    <3>1. (nsamples - m) * FrameBytes
             = nsamples * FrameBytes - m * FrameBytes
      BY FewerFrames, WavAssumption
    <3>2. Len(Held(left)) \in Nat /\ Len(Held(taken)) \in Nat
      BY <2>5, LenProperties
    <3> QED BY <1>3, <2>6, <2>8, <3>1, <3>2
  <2>10. /\ Held(queue) = Held(queue) \o <<>>
         /\ Held(taken) \o Held(left) = (Held(queue) \o <<>>) \o <<>>
    BY <1>3, <2>4, ConcatEmptySeq
  <2>11. Among(<<>>, Held(queue))
    BY <1>3 DEF Among
  <2>12. TakesFrom(h, Held(taken), <<>>, Held(queue), <<>>)
    BY <2>1, <2>2, <2>7, <2>9, <2>10, <2>11 DEF TakesFrom
  <2> QED BY <1>3, <2>5, <2>12
<1>5. CASE k = 0
  <2> DEFINE first == Head(queue)
             rest == Rest(first, size)
             out == SubSeq(first.samples, 1, size)
             y == Held(Tail(queue))
  <2>1. /\ got' = (got \o h) \o out
        /\ queue' = <<rest>> \o Tail(queue)
        /\ nsamples' = nsamples - (size \div FrameBytes)
        /\ aligned' = (aligned /\ size % FrameBytes = 0)
    BY <1>2, <1>5 DEF get_audio
  <2>2. /\ first \in Segment /\ Tail(queue) \in Seq(Segment)
        /\ queue = <<first>> \o Tail(queue)
    BY TailSplits
  <2>3. SegSize(first) > size
    <3>1. SubSeq(queue, 1, 1) = <<first>>
      <4>1. 1 \in 1 .. Len(queue)
        BY <1>1
      <4>2. /\ SubSeq(queue, 1, 1) = <<queue[1]>> \o SubSeq(queue, 1 + 1, 1)
            /\ SubSeq(queue, 1 + 1, 1) = <<>>
        BY <4>1, SubSeqRecursiveFirst, SubSeqEmpty
      <4>3. <<queue[1]>> \o <<>> = <<queue[1]>>
        OBVIOUS
      <4>4. Head(queue) = queue[1]
        BY <1>1
      <4> QED BY <4>2, <4>3, <4>4
    <3>2. Len(Held(<<first>>)) > size
      <4>1. k < n /\ k + 1 = 1
        BY <1>5
      <4>2. Len(Held(SubSeq(queue, 1, 1))) > size
        BY <1>2, <4>1
      <4> HIDE DEF first
      <4> QED BY <3>1, <4>2
    <3> HIDE DEF first
    <3> QED BY <2>2, <3>2, HeldOne, BytesOfSegment
  <2> HIDE DEF first
  <2>4. size < SegSize(first)
    BY <2>2, <2>3, BytesOfSegment
  <2>5. /\ rest \in Segment /\ out \in Seq(Byte)
        /\ \E again \in Seq(Byte) :
              /\ out \o Bytes(rest) = Bytes(first) \o again
              /\ Len(again) = size % FrameBytes
              /\ Among(again, Bytes(first))
    BY <2>2, <2>4, Cut
  <2> HIDE DEF rest, out
  <2>6. PICK again \in Seq(Byte) :
              /\ out \o Bytes(rest) = Bytes(first) \o again
              /\ Len(again) = size % FrameBytes
              /\ Among(again, Bytes(first))
    BY <2>5
  <2>7. /\ Bytes(first) \in Seq(Byte) /\ Bytes(rest) \in Seq(Byte)
        /\ y \in Seq(Byte)
    BY <2>2, <2>5, BytesOfSegment, HeldTyped
  <2>8. /\ <<first>> \in Seq(Segment) /\ <<rest>> \in Seq(Segment)
    BY <2>2, <2>5
  <2>9. Held(queue) = Bytes(first) \o y
    BY <2>2, <2>8, HeldConcat, HeldOne
  <2>10. queue' \in Seq(Segment) /\ Held(queue') = Bytes(rest) \o y
    BY <2>1, <2>2, <2>5, <2>8, HeldConcat, HeldOne, ConcatProperties
  <2> HIDE DEF y
  <2>11. out \o Held(queue') = (Bytes(first) \o again) \o y
    <3>1. out \o (Bytes(rest) \o y) = (out \o Bytes(rest)) \o y
      <4> DEFINE b == Bytes(rest)
      <4>1. out \in Seq(Byte) /\ b \in Seq(Byte) /\ y \in Seq(Byte)
        BY <2>5, <2>7
      <4> HIDE DEF b
      <4>2. Then(Then(out, b), y) = Then(out, Then(b, y))
        BY <4>1, ThenRegroups
      <4> QED BY <4>2 DEF b, Then
    <3>2. out \o Bytes(rest) = Bytes(first) \o again
      BY <2>6
    <3>3. Held(queue') = Bytes(rest) \o y
      BY <2>10
    <3> QED BY <3>1, <3>2, <3>3
  <2>12. /\ nsamples' \in Int
         /\ Len(Held(queue')) = nsamples' * FrameBytes
    <3>1. PICK q \in Nat, r \in Nat :
               /\ q = size \div FrameBytes /\ r = size % FrameBytes
               /\ size = q * FrameBytes + r
      <4>1. size \in Nat /\ FrameBytes \in Nat \ {0}
        BY WavAssumption
      <4>2. /\ size \div FrameBytes \in Nat
            /\ size % FrameBytes \in 0 .. FrameBytes - 1
            /\ size = (size \div FrameBytes) * FrameBytes + (size % FrameBytes)
        BY <4>1, Frames, Zenon
      <4> DEFINE q == size \div FrameBytes
                 r == size % FrameBytes
      <4>3. q \in Nat /\ r \in 0 .. FrameBytes - 1 /\ size = q * FrameBytes + r
        BY <4>2, Zenon
      <4>4. r \in Nat
        <5> HIDE DEF r
        <5> QED BY <4>1, <4>3
      <4>5. \A a, b : a = size \div FrameBytes /\ b = size % FrameBytes
                /\ a \in Nat /\ b \in Nat /\ size = a * FrameBytes + b =>
                \E q_1 \in Nat, r_1 \in Nat :
                    /\ q_1 = size \div FrameBytes /\ r_1 = size % FrameBytes
                    /\ size = q_1 * FrameBytes + r_1
        BY Zenon
      <4> QED BY <4>3, <4>4, <4>5, Zenon
    <3>2. (nsamples - q) * FrameBytes
             = nsamples * FrameBytes - q * FrameBytes
      BY FewerFrames, WavAssumption
    <3>3. /\ Len(out) = size
          /\ Len(out \o Bytes(rest)) = Len(out) + Len(Bytes(rest))
          /\ Len(Bytes(first) \o again) = Len(Bytes(first)) + Len(again)
          /\ Len(Bytes(rest) \o y) = Len(Bytes(rest)) + Len(y)
          /\ Len(Bytes(first) \o y) = Len(Bytes(first)) + Len(y)
      <4>1. Len(out) = size
        <5>1. /\ size \in 1 .. Len(first.samples)
              /\ \A j \in 1 .. Len(first.samples) : first.samples[j] \in Byte
          BY <2>2, <2>4, BytesOfSegment
        <5>2. \A j \in 1 .. size : first.samples[j] \in Byte
          BY <5>1
        <5> HIDE DEF Byte
        <5>3. Len(out) = IF 1 <= size THEN size - 1 + 1 ELSE 0
          BY <5>2, SubSeqProperties DEF out
        <5> QED BY <5>3
      <4>2. out \in Seq(Byte) /\ again \in Seq(Byte)
        BY <2>5
      <4> QED BY <2>7, <4>1, <4>2, ThenIs DEF Then
    <3>4. /\ Len(y) \in Nat /\ Len(Bytes(rest)) \in Nat
          /\ Len(Bytes(first)) \in Nat
      BY <2>7, LenProperties
    <3>5. Len(Bytes(rest)) = Len(Bytes(first)) + r - size
      <4>1. /\ Len(out \o Bytes(rest)) = Len(Bytes(first) \o again)
            /\ Len(again) = r
        BY <2>6, <3>1
      <4>2. size + Len(Bytes(rest)) = Len(Bytes(first)) + r
        BY <3>3, <4>1
      <4>3. r \in Nat
        BY <3>1
      <4> QED BY <3>4, <4>2, <4>3
    <3>6. Len(Held(queue')) = nsamples * FrameBytes + r - size
      BY <2>9, <2>10, <3>3, <3>4, <3>5
    <3>7. PICK a \in Int, b \in Int :
               a = nsamples * FrameBytes /\ b = q * FrameBytes
      BY FewerFrames, WavAssumption
    <3>8. Len(Held(queue')) = a - b
      <4>1. size = b + r
        BY <3>1, <3>7
      <4>2. Len(Held(queue')) = a + r - size
        BY <3>6, <3>7
      <4>3. r \in Nat
        BY <3>1
      <4> QED BY <4>1, <4>2, <4>3
    <3>9. nsamples' = nsamples - q
      BY <2>1, <3>1
    <3> QED BY <3>2, <3>7, <3>8, <3>9
  <2>13. aligned' \in BOOLEAN
    BY <2>1
  <2>14. aligned' => aligned /\ again = <<>>
    <3>1. aligned' => aligned /\ size % FrameBytes = 0
      BY <2>1, Zenon
    <3>2. size % FrameBytes = 0 => again = <<>>
      BY <2>6, EmptySeq
    <3> QED BY <3>1, <3>2, Zenon
  <2>15. TakesFrom(h, out, again, Bytes(first), y)
    BY <2>1, <2>6, <2>9, <2>10, <2>11, <2>12, <2>13, <2>14, Zenon DEF TakesFrom
  <2> QED BY <2>5, <2>7, <2>15
<1> QED BY <1>4, <1>5

-----------------------------------------------------------------------------
(* The header and what follows it.                                         *)

\* Of what a client has received: what came after the header.
AfterHeader(g) == SubSeq(g, HeaderLen + 1, Len(g))

\* And that the header is in front.
HeaderRight(g) == \A i \in 1 .. Len(g) : i <= HeaderLen => g[i] = -i

\* Up to the header there is nothing after it.
LEMMA AfterHeaderOf ==
    ASSUME NEW g \in Seq(Int)
    PROVE  /\ AfterHeader(g) \in Seq(Int)
           /\ Len(g) <= HeaderLen => AfterHeader(g) = <<>>
           /\ Len(g) >= HeaderLen => Len(AfterHeader(g)) = Len(g) - HeaderLen
           /\ \A i \in 1 .. Len(AfterHeader(g)) :
                 AfterHeader(g)[i] = g[HeaderLen + i]
<1>1. PICK m \in Nat : m = Len(g)
  BY LenProperties
<1>2. PICK n \in Nat \ {0} : n = HeaderLen
  BY WavAssumption
<1>3. \A i \in 1 .. m : g[i] \in Int
  BY <1>1, ElementOfSeq
<1>4. \A i \in n + 1 .. m : g[i] \in Int
  BY <1>2, <1>3
<1> DEFINE a == SubSeq(g, n + 1, m)
<1>5. /\ a \in Seq(Int)
      /\ Len(a) = IF n + 1 <= m THEN m - (n + 1) + 1 ELSE 0
      /\ \A i \in 1 .. m - (n + 1) + 1 : a[i] = g[(n + 1) + i - 1]
  BY <1>4, SubSeqProperties
<1>6. AfterHeader(g) = a
  BY <1>1, <1>2 DEF AfterHeader
<1> HIDE DEF a
<1>7. m <= n => a = <<>>
  <2>1. m <= n => Len(a) = 0
    BY <1>5
  <2> QED BY <1>5, <2>1, EmptySeq
<1>8. m >= n => Len(a) = m - n
  BY <1>5
<1>9. ASSUME NEW i \in 1 .. Len(a) PROVE a[i] = g[n + i]
  <2>1. i \in 1 .. m - (n + 1) + 1 /\ (n + 1) + i - 1 = n + i
    BY <1>5
  <2> QED BY <1>5, <2>1
<1> QED BY <1>1, <1>2, <1>5, <1>6, <1>7, <1>8, <1>9

\* More bytes after a whole header.
LEMMA MoreAudio ==
    ASSUME NEW g \in Seq(Int), NEW b \in Seq(Int), Len(g) >= HeaderLen
    PROVE  /\ AfterHeader(g \o b) = AfterHeader(g) \o b
           /\ HeaderRight(g) => HeaderRight(g \o b)
<1>1. PICK m \in Nat, n \in Nat, k \in Nat \ {0} :
          m = Len(g) /\ n = Len(b) /\ k = HeaderLen
  BY WavAssumption, LenProperties
<1> DEFINE gb == g \o b
           a == AfterHeader(g)
           t == a \o b
           s == AfterHeader(gb)
<1>2. /\ gb \in Seq(Int) /\ Len(gb) = m + n
      /\ \A i \in 1 .. m + n :
            gb[i] = IF i <= m THEN g[i] ELSE b[i - m]
  BY <1>1, ConcatProperties
<1>3. /\ a \in Seq(Int) /\ Len(a) = m - k
      /\ \A i \in 1 .. m - k : a[i] = g[k + i]
  BY <1>1, AfterHeaderOf
<1> HIDE DEF gb, a
<1>4. /\ s \in Seq(Int) /\ Len(s) = (m + n) - k
      /\ \A i \in 1 .. (m + n) - k : s[i] = gb[k + i]
  <2>1. Len(gb) >= k
    BY <1>1, <1>2
  <2>2. /\ s \in Seq(Int) /\ Len(s) = Len(gb) - HeaderLen
        /\ \A i \in 1 .. Len(s) : s[i] = gb[HeaderLen + i]
    BY <1>1, <1>2, <2>1, AfterHeaderOf
  <2> HIDE DEF s
  <2> QED BY <1>1, <1>2, <2>2
<1>5. /\ t \in Seq(Int) /\ Len(t) = (m - k) + n
      /\ \A i \in 1 .. (m - k) + n :
            t[i] = IF i <= m - k THEN a[i] ELSE b[i - (m - k)]
  <2>1. /\ t \in Seq(Int) /\ Len(t) = Len(a) + Len(b)
        /\ \A i \in 1 .. Len(a) + Len(b) :
              t[i] = IF i <= Len(a) THEN a[i] ELSE b[i - Len(a)]
    BY <1>3, ConcatProperties
  <2> HIDE DEF t
  <2> QED BY <1>1, <1>3, <2>1
<1> HIDE DEF s, t
<1>6. ASSUME NEW i \in 1 .. (m + n) - k PROVE s[i] = t[i]
  <2>1. k + i \in 1 .. m + n /\ i \in 1 .. (m - k) + n
    BY <1>1
  <2>2. s[i] = gb[k + i]
    BY <1>4
  <2>3. CASE i <= m - k
    <3>1. k + i <= m /\ i \in 1 .. m - k
      BY <1>1, <2>3
    <3> QED BY <1>2, <1>3, <1>5, <2>1, <2>2, <2>3, <3>1
  <2>4. CASE ~ (i <= m - k)
    <3>1. ~ (k + i <= m) /\ (k + i) - m = i - (m - k)
      BY <1>1, <2>4
    <3> QED BY <1>2, <1>5, <2>1, <2>2, <2>4, <3>1
  <2> QED BY <2>3, <2>4
<1>7. s = t
  <2>1. Len(s) = Len(t)
    BY <1>1, <1>4, <1>5
  <2> QED BY <1>4, <1>5, <1>6, <2>1, SeqEqual
<1>8. ASSUME HeaderRight(g), NEW i \in 1 .. Len(gb), i <= k
      PROVE  gb[i] = -i
  <2>1. i \in 1 .. m + n /\ i \in 1 .. m
    BY <1>1, <1>2, <1>8
  <2>2. g[i] = -i
    BY <1>1, <1>8, <2>1 DEF HeaderRight
  <2> QED BY <1>2, <2>1, <2>2
<1>9. HeaderRight(g) => HeaderRight(gb)
  BY <1>1, <1>8 DEF HeaderRight
<1> QED BY <1>7, <1>9 DEF s, t, a, gb

\* The header bytes of one read.
Leading(offset) ==
    HeaderPart(offset, IF offset + block > HeaderLen
                       THEN HeaderLen - offset ELSE block)

\* They continue the header, if it is not complete, and end with it.
LEMMA HeaderGiven ==
    ASSUME NEW g \in Seq(Int), block \in Nat \ {0}, HeaderRight(g)
    PROVE  /\ Leading(Len(g)) \in Seq(Int)
           /\ g \o Leading(Len(g)) \in Seq(Int)
           /\ Len(g \o Leading(Len(g))) = Len(g) + Len(Leading(Len(g)))
           /\ HeaderRight(g \o Leading(Len(g)))
           /\ AfterHeader(g \o Leading(Len(g))) = AfterHeader(g)
<1>1. PICK m \in Nat, k \in Nat \ {0}, b \in Nat \ {0} :
          m = Len(g) /\ k = HeaderLen /\ b = block
  BY WavAssumption, LenProperties
<1> DEFINE size == IF m + b > k THEN k - m ELSE b
           h == SubSeq(Header, m + 1, m + size)
           gh == g \o h
<1>2. Leading(Len(g)) = h
  BY <1>1 DEF Leading, HeaderPart
<1>3. \A i \in m + 1 .. m + size : i \in 1 .. k
  BY <1>1
<1>4. /\ \A i \in 1 .. k : Header[i] = -i
      /\ \A i \in 1 .. k : -i \in Int
  BY <1>1 DEF Header
<1>5. \A i \in m + 1 .. m + size : Header[i] \in Int
  BY <1>3, <1>4
<1>6. /\ size \in Int
      /\ (m < k => size >= 1 /\ m + size <= k)
      /\ (m >= k => size <= 0)
  OBVIOUS
<1> HIDE DEF size
<1>7. /\ h \in Seq(Int)
      /\ Len(h) = IF m + 1 <= m + size THEN (m + size) - (m + 1) + 1 ELSE 0
      /\ \A i \in 1 .. (m + size) - (m + 1) + 1 : h[i] = Header[(m + 1) + i - 1]
  BY <1>5, <1>6, SubSeqProperties
<1> HIDE DEF h
<1>9. /\ m < k => Len(h) = size
      /\ m >= k => h = <<>>
  <2>1. m >= k => Len(h) = 0
    BY <1>7, <1>6
  <2> QED BY <1>7, <1>6, <2>1, EmptySeq
<1>10. ASSUME m < k, NEW i \in 1 .. size PROVE h[i] = - (m + i)
  <2>1. /\ i \in 1 .. (m + size) - (m + 1) + 1 /\ (m + 1) + i - 1 = m + i
        /\ m + i \in 1 .. k
    BY <1>6, <1>10
  <2> QED BY <1>4, <1>7, <2>1
<1>11. /\ gh \in Seq(Int) /\ Len(gh) = m + Len(h)
       /\ \A i \in 1 .. m + Len(h) :
             gh[i] = IF i <= m THEN g[i] ELSE h[i - m]
  BY <1>1, <1>7, ConcatProperties
<1>12. m >= k => gh = g
  BY <1>9, ConcatEmptySeq
<1> HIDE DEF gh
<1>13. CASE m >= k
  BY <1>1, <1>2, <1>7, <1>11, <1>12, <1>13 DEF gh
<1>14. CASE m < k
  <2>1. Len(gh) = m + size /\ m + size <= k
    BY <1>6, <1>9, <1>11, <1>14
  <2>2. ASSUME NEW i \in 1 .. Len(gh) PROVE gh[i] = -i
    <3>1. CASE i <= m
      <4>1. i \in 1 .. m + Len(h) /\ i \in 1 .. m /\ i <= k
        BY <1>11, <1>14, <2>2, <3>1
      <4>2. g[i] = -i
        BY <1>1, <4>1 DEF HeaderRight
      <4> QED BY <1>11, <3>1, <4>1, <4>2
    <3>2. CASE ~ (i <= m)
      <4>1. i \in 1 .. m + Len(h) /\ i - m \in 1 .. size /\ m + (i - m) = i
        BY <1>6, <1>11, <2>1, <2>2, <3>2
      <4>2. h[i - m] = - (m + (i - m))
        BY <1>10, <1>14, <4>1
      <4> QED BY <1>11, <3>2, <4>1, <4>2
    <3> QED BY <3>1, <3>2
  <2>3. HeaderRight(gh)
    BY <2>2 DEF HeaderRight
  <2>4. AfterHeader(gh) = <<>> /\ AfterHeader(g) = <<>>
    BY <1>1, <1>11, <1>14, <2>1, AfterHeaderOf
  <2> QED BY <1>1, <1>2, <1>7, <1>11, <2>3, <2>4 DEF gh
<1> QED BY <1>1, <1>13, <1>14

-----------------------------------------------------------------------------
(* The inductive invariant: what the client has after the header, and then *)
(* what is in the buffer, is what libspotify has delivered, with           *)
(* repetitions where a segment was cut within a frame.                     *)

\* The types, and nsamples the number of frames in the buffer.
Typed ==
    /\ queue \in Seq(Segment)
    /\ nsamples \in Int /\ Len(Held(queue)) = nsamples * FrameBytes
    /\ delivered \in 0 .. TotalFrames
    /\ expoff \in Nat /\ block \in Blocks /\ duration \in Durations
    /\ got \in Seq(Int) /\ aligned \in BOOLEAN

\* The client's bytes g, then those of segs, are those of the first d
\* frames delivered; and no byte comes twice if segments were left whole.
Streams(g, segs, d, whole) ==
    /\ HeaderRight(g)
    /\ Gapless(AfterHeader(g) \o Held(segs), d * FrameBytes)
    /\ whole => AfterHeader(g) \o Held(segs) = [i \in 1 .. d * FrameBytes |-> i]

\* Until the first seek a client has nothing.
WavInv ==
    /\ Typed
    /\ Streams(got, queue, delivered, aligned)
    /\ expoff # Len(got) => got = <<>>

\* Byte or header byte.
LEMMA Wider == \A s \in Seq(Byte) : s \in Seq(Int)
<1>1. \A n \in Byte : n \in Int
  BY DEF Byte
<1> QED BY <1>1

\* At a beginning there is nothing anywhere.
LEMMA NothingYet ==
    ASSUME NEW whole PROVE Streams(<<>>, <<>>, 0, whole)
<1>1. AfterHeader(<<>>) = <<>> /\ Held(<<>>) = <<>>
  <2>1. <<>> \in Seq(Int) /\ Len(<<>>) = 0 /\ 0 <= HeaderLen
    BY EmptySeq, WavAssumption
  <2> QED BY <2>1, AfterHeaderOf, HeldEmpty
<1>2. AfterHeader(<<>>) \o Held(<<>>) = <<>>
  <2>1. <<>> \o <<>> = <<>>
    OBVIOUS
  <2> QED BY <1>1, <2>1
<1>3. 0 * FrameBytes = 0
  BY WavAssumption
<1>4. [i \in 1 .. 0 |-> i] = <<>>
  OBVIOUS
<1>5. Gapless(<<>>, 0)
  BY DEF Gapless, Successive, ToSet
<1>6. HeaderRight(<<>>)
  BY DEF HeaderRight
<1> QED BY <1>2, <1>3, <1>4, <1>5, <1>6 DEF Streams

\* The initial states, and each action.
LEMMA WavInit == ASSUME Init PROVE WavInv
<1>1. Streams(got, queue, delivered, aligned)
  BY NothingYet DEF Init
<1>2. Typed
  <2>1. Held(queue) = <<>> /\ Len(<<>>) = 0 /\ nsamples * FrameBytes = 0
    BY HeldEmpty, WavAssumption DEF Init
  <2>2. queue \in Seq(Segment) /\ got \in Seq(Int)
    BY EmptySeq DEF Init
  <2>3. /\ nsamples \in Int /\ delivered \in 0 .. TotalFrames
        /\ expoff \in Nat /\ block \in Blocks /\ duration \in Durations
        /\ aligned \in BOOLEAN
    BY WavAssumption DEF Init
  <2> QED BY <2>1, <2>2, <2>3 DEF Typed
<1> QED BY <1>1, <1>2 DEF WavInv, Init

LEMMA SeekKeeps == ASSUME WavInv, wav_read_seek PROVE WavInv'
<1>1. Typed
  BY DEF WavInv
<1>2. got' = got /\ got = <<>> /\ queue' = <<>> /\ delivered' = 0
  BY DEF WavInv, wav_read_seek
<1>3. Streams(got', queue', delivered', aligned')
  BY <1>2, NothingYet
<1>4. Typed'
  <2>1. Held(<<>>) = <<>> /\ Len(<<>>) = 0 /\ 0 * FrameBytes = 0
    BY HeldEmpty, WavAssumption
  <2>2. nsamples' = 0
    BY DEF wav_read_seek
  <2>3. Len(Held(queue')) = nsamples' * FrameBytes
    BY <1>2, <2>1, <2>2
  <2>4. queue' \in Seq(Segment) /\ got' \in Seq(Int) /\ nsamples' \in Int
    BY <1>2, <2>2, EmptySeq
  <2>5. delivered' \in 0 .. TotalFrames
    BY <1>2, WavAssumption
  <2>6. /\ expoff' = Len(got) /\ block' = block /\ duration' = duration
        /\ aligned' = aligned
    BY DEF wav_read_seek
  <2>7. /\ expoff' \in Nat /\ block' \in Blocks /\ duration' \in Durations
        /\ aligned' \in BOOLEAN
    BY <1>1, <2>6, LenProperties DEF Typed
  <2> QED BY <2>3, <2>4, <2>5, <2>7 DEF Typed
<1>5. expoff' = Len(got')
  BY <1>2 DEF wav_read_seek
<1> QED BY <1>3, <1>4, <1>5 DEF WavInv

LEMMA DeliveryKeeps ==
    ASSUME WavInv, NEW n \in Chunks, music_delivery(n)
    PROVE  WavInv'
<1>1. Typed
  BY DEF WavInv
<1> DEFINE seg == [samples |-> Audio(n), nsamples |-> n]
           m == n * FrameBytes
           d == delivered * FrameBytes
           a == AfterHeader(got)
           s == a \o Held(queue)
<1>2. /\ n \in Nat \ {0} /\ delivered \in Nat /\ delivered + n <= TotalFrames
      /\ queue' = Append(queue, seg) /\ delivered' = delivered + n
      /\ nsamples' = nsamples + n
      /\ UNCHANGED <<expoff, block, duration, got, aligned>>
  BY <1>1, WavAssumption DEF music_delivery, Typed
<1>3. /\ seg \in Segment /\ Bytes(seg) = Audio(n) /\ SegSize(seg) = m
      /\ m \in Nat /\ d \in Nat /\ delivered' * FrameBytes = d + m
  BY <1>2, Delivery
<1>4. Audio(n) = [i \in 1 .. m |-> d + i]
  BY DEF Audio
<1> HIDE DEF seg, m, d
<1>5. queue' \in Seq(Segment) /\ Held(queue') = Held(queue) \o Audio(n)
  BY <1>1, <1>2, <1>3, HeldAppend, AppendProperties DEF Typed
<1>6. Held(queue) \in Seq(Byte) /\ Audio(n) \in Seq(Byte)
  BY <1>1, <1>3, HeldTyped, BytesOfSegment DEF Typed
<1>7. /\ a \in Seq(Int) /\ Held(queue) \in Seq(Int) /\ Audio(n) \in Seq(Int)
  BY <1>1, <1>6, Wider, AfterHeaderOf DEF Typed
<1> HIDE DEF a
<1>8. a \o Held(queue') = s \o Audio(n) /\ s \in Seq(Int)
  <2> DEFINE x == Held(queue)
             y == Audio(n)
  <2>1. x \in Seq(Int) /\ y \in Seq(Int)
    BY <1>7
  <2> HIDE DEF x, y
  <2>2. a \o (x \o y) = (a \o x) \o y /\ a \o x \in Seq(Int)
    <3>1. a \in Seq(Int)
      BY <1>7
    <3>2. /\ Then(Then(a, x), y) = Then(a, Then(x, y))
          /\ Then(a, x) \in Seq(Int)
      BY <2>1, <3>1, ThenRegroups
    <3> QED BY <3>2 DEF Then
  <2>3. Held(queue') = x \o y
    BY <1>5 DEF x, y
  <2>4. s = a \o x
    BY DEF x
  <2> HIDE DEF s
  <2>5. a \o Held(queue') = s \o y /\ s \in Seq(Int)
    BY <2>2, <2>3, <2>4
  <2> QED BY <2>5 DEF y
<1>9. Gapless(s, d) /\ (aligned => s = [i \in 1 .. d |-> i])
  BY DEF WavInv, Streams, d, a
<1> HIDE DEF s
<1>10. /\ Gapless(s \o Audio(n), d + m)
       /\ s = [i \in 1 .. d |-> i] =>
             s \o Audio(n) = [i \in 1 .. d + m |-> i]
  <2>1. s \in Seq(Int) /\ d \in Nat /\ m \in Nat /\ Gapless(s, d)
    BY <1>3, <1>8, <1>9
  <2>2. /\ Gapless(Then(s, Following(d, m)), d + m)
        /\ s = Upto(d) => Then(s, Following(d, m)) = Upto(d + m)
    BY <2>1, Continued
  <2> QED BY <1>4, <2>2 DEF Then, Following, Upto
<1>11. Streams(got', queue', delivered', aligned')
  <2>1. AfterHeader(got') = a /\ HeaderRight(got')
    BY <1>2 DEF WavInv, Streams, a
  <2>2. AfterHeader(got') \o Held(queue') = s \o Audio(n)
    BY <1>8, <2>1
  <2>3. Gapless(AfterHeader(got') \o Held(queue'), delivered' * FrameBytes)
    BY <1>3, <1>10, <2>2
  <2>4. aligned' => AfterHeader(got') \o Held(queue')
                       = [i \in 1 .. delivered' * FrameBytes |-> i]
    BY <1>2, <1>3, <1>9, <1>10, <2>2
  <2> QED BY <2>1, <2>3, <2>4 DEF Streams
<1>12. Typed'
  <2>1. Len(Held(queue')) = Len(Held(queue)) + Len(Audio(n))
    BY <1>5, <1>6, ConcatProperties
  <2>2. Len(Audio(n)) = m
    BY <1>3, BytesOfSegment
  <2>3. (nsamples + n) * FrameBytes = nsamples * FrameBytes + n * FrameBytes
    BY <1>1, <1>2, FewerFrames, WavAssumption DEF Typed
  <2>4. Len(Held(queue')) = nsamples' * FrameBytes
    BY <1>1, <1>2, <2>1, <2>2, <2>3 DEF Typed, m
  <2>5. nsamples' \in Int /\ delivered' \in 0 .. TotalFrames
    BY <1>1, <1>2, WavAssumption DEF Typed
  <2> QED BY <1>1, <1>2, <1>5, <2>4, <2>5 DEF Typed
<1>13. expoff' # Len(got') => got' = <<>>
  BY <1>2 DEF WavInv
<1> QED BY <1>11, <1>12, <1>13 DEF WavInv

\* A read that takes bytes h of the header, and then bytes of the buffer.
LEMMA AudioKeeps ==
    ASSUME WavInv, queue # <<>>, NEW h \in Seq(Int), NEW size \in Nat \ {0},
           got \o h \in Seq(Int), Len(got \o h) >= HeaderLen,
           HeaderRight(got \o h), AfterHeader(got \o h) = AfterHeader(got),
           get_audio(h, size), UNCHANGED delivered
    PROVE  /\ Streams(got', queue', delivered', aligned')
           /\ queue' \in Seq(Segment) /\ got' \in Seq(Int)
           /\ nsamples' \in Int /\ Len(Held(queue')) = nsamples' * FrameBytes
           /\ aligned' \in BOOLEAN
<1>1. Typed
  BY DEF WavInv
<1>2. PICK out, again, x, y \in Seq(Byte) : TakesFrom(h, out, again, x, y)
  BY <1>1, Taken DEF Typed
<1>3. /\ out \in Seq(Int) /\ again \in Seq(Int)
      /\ x \in Seq(Int) /\ y \in Seq(Int)
  BY Wider
<1>4. PICK g \in Seq(Int) : g = got \o h
  OBVIOUS
<1>5. PICK a \in Seq(Int) : a = AfterHeader(got)
  BY <1>1, AfterHeaderOf DEF Typed
<1>6. PICK held \in Seq(Byte) : held = Held(queue')
  BY <1>2, HeldTyped DEF TakesFrom
<1>7. held \in Seq(Int)
  BY Wider
<1>8. /\ got' = g \o out /\ got' \in Seq(Int)
      /\ AfterHeader(got') = a \o out /\ HeaderRight(got')
  <2>1. got' = g \o out /\ g \o out \in Seq(Int)
    BY <1>2, <1>3, <1>4, ConcatProperties DEF TakesFrom
  <2>2. HeaderRight(g) /\ Len(g) >= HeaderLen /\ AfterHeader(g) = a
    BY <1>4, <1>5
  <2>3. AfterHeader(g \o out) = AfterHeader(g) \o out /\ HeaderRight(g \o out)
    BY <1>3, <2>2, MoreAudio
  <2> QED BY <2>1, <2>2, <2>3
<1>9. Then(out, held) = Then(Then(x, again), y)
  BY <1>2, <1>6 DEF TakesFrom, Then
<1>10. AfterHeader(got') \o Held(queue') = ((a \o x) \o again) \o y
  <2>1. /\ a \in Seq(Int) /\ out \in Seq(Int) /\ held \in Seq(Int)
        /\ x \in Seq(Int) /\ again \in Seq(Int) /\ y \in Seq(Int)
    BY <1>3, <1>7
  <2>2. PICK z : z = Then(x, again)
    OBVIOUS
  <2>3. z \in Seq(Int) /\ Then(a, z) = Then(Then(a, x), again)
    BY <2>1, <2>2, ThenRegroups
  <2>4. /\ Then(Then(a, out), held) = Then(a, Then(out, held))
        /\ Then(Then(a, z), y) = Then(a, Then(z, y))
    BY <2>1, <2>3, ThenRegroups
  <2>5. Then(Then(a, out), held) = Then(Then(Then(a, x), again), y)
    BY <1>9, <2>2, <2>3, <2>4
  <2>6. AfterHeader(got') \o Held(queue') = Then(Then(a, out), held)
    BY <1>6, <1>8 DEF Then
  <2> QED BY <2>5, <2>6 DEF Then
<1>11. AfterHeader(got) \o Held(queue) = (a \o x) \o y
  <2>1. a \in Seq(Int) /\ x \in Seq(Int) /\ y \in Seq(Int)
    BY <1>3
  <2>2. Then(Then(a, x), y) = Then(a, Then(x, y))
    BY <2>1, ThenRegroups
  <2> QED BY <1>2, <1>5, <2>2 DEF TakesFrom, Then
<1>12. PICK d \in Nat : d = delivered * FrameBytes
  <2>1. delivered \in Nat
    BY <1>1, WavAssumption DEF Typed
  <2> QED BY <2>1, Frames, WavAssumption
<1>13. /\ Gapless((a \o x) \o y, d)
       /\ aligned => (a \o x) \o y = [i \in 1 .. d |-> i]
  BY <1>11, <1>12 DEF WavInv, Streams
<1>14. PICK ax \in Seq(Int) : ax = a \o x
  BY <1>3, ConcatProperties
<1>15. Among(again, ax)
  <2>0. SUFFICES ASSUME NEW i \in 1 .. Len(again)
                 PROVE  \E j \in 1 .. Len(ax) : again[i] = ax[j]
    BY DEF Among
  <2>1. PICK j \in 1 .. Len(x) : again[i] = x[j]
    BY <1>2 DEF TakesFrom, Among
  <2>2. PICK l \in Nat, n \in Nat : l = Len(a) /\ n = Len(x)
    BY <1>3, LenProperties
  <2>3. /\ Len(ax) = l + n
        /\ \A k \in 1 .. l + n : ax[k] = IF k <= l THEN a[k] ELSE x[k - l]
    BY <1>3, <1>14, <2>2, ConcatProperties
  <2>4. l + j \in 1 .. l + n /\ ~ (l + j <= l) /\ (l + j) - l = j
    BY <2>2
  <2> QED BY <2>1, <2>3, <2>4
<1>16. Gapless((ax \o again) \o y, d)
  BY <1>3, <1>13, <1>14, <1>15, Repeated
<1>17. aligned' => (ax \o again) \o y = [i \in 1 .. d |-> i]
  <2>1. ax \o <<>> = ax
    BY ConcatEmptySeq
  <2> QED BY <1>2, <1>13, <1>14, <2>1 DEF TakesFrom
<1>18. Streams(got', queue', delivered', aligned')
  BY <1>8, <1>10, <1>12, <1>14, <1>16, <1>17 DEF Streams
<1> QED BY <1>2, <1>8, <1>18 DEF TakesFrom

LEMMA ReadKeeps == ASSUME WavInv, wav_read PROVE WavInv'
<1>1. Typed /\ Streams(got, queue, delivered, aligned)
  BY DEF WavInv
<1> DEFINE offset == Len(got)
           h == Leading(offset)
<1>2. /\ queue # <<>> /\ expoff = offset /\ offset < MaxGot
      /\ IF Len(h) < block /\ offset + Len(h) >= HeaderLen
         THEN get_audio(h, block - Len(h))
         ELSE got' = got \o h /\ UNCHANGED <<queue, nsamples, aligned>>
      /\ expoff' = Len(got')
      /\ UNCHANGED <<delivered, block, duration>>
  BY DEF wav_read, Leading
<1>3. block \in Nat \ {0}
  BY <1>1, WavAssumption DEF Typed
<1>4. /\ h \in Seq(Int) /\ got \o h \in Seq(Int)
      /\ Len(got \o h) = offset + Len(h) /\ HeaderRight(got \o h)
      /\ AfterHeader(got \o h) = AfterHeader(got)
  BY <1>1, <1>3, HeaderGiven DEF Typed, Streams
<1> HIDE DEF h
<1>5. /\ Streams(got', queue', delivered', aligned')
      /\ queue' \in Seq(Segment) /\ got' \in Seq(Int)
      /\ nsamples' \in Int /\ Len(Held(queue')) = nsamples' * FrameBytes
      /\ aligned' \in BOOLEAN
  <2>1. CASE Len(h) < block /\ offset + Len(h) >= HeaderLen
    <3>1. block - Len(h) \in Nat \ {0}
      BY <1>3, <1>4, <2>1, LenProperties
    <3>2. get_audio(h, block - Len(h)) /\ UNCHANGED delivered
      BY <1>2, <2>1
    <3>3. Len(got \o h) >= HeaderLen
      BY <1>4, <2>1
    <3> QED BY <1>2, <1>4, <3>1, <3>2, <3>3, AudioKeeps
  <2>2. CASE ~ (Len(h) < block /\ offset + Len(h) >= HeaderLen)
    <3>1. got' = got \o h /\ UNCHANGED <<queue, nsamples, aligned, delivered>>
      BY <1>2, <2>2
    <3>2. Streams(got', queue', delivered', aligned')
      BY <1>1, <1>4, <3>1 DEF Streams
    <3> QED BY <1>1, <1>4, <3>1, <3>2 DEF Typed
  <2> QED BY <2>1, <2>2
<1>6. Typed'
  <2>1. expoff' \in Nat
    BY <1>2, <1>5, LenProperties
  <2>2. delivered' = delivered /\ block' = block /\ duration' = duration
    BY <1>2
  <2> QED BY <1>1, <1>5, <2>1, <2>2 DEF Typed
<1>7. expoff' = Len(got')
  BY <1>2
<1> QED BY <1>5, <1>6, <1>7 DEF WavInv

\* The invariant holds.
LEMMA WavInvariant == Spec => []WavInv
<1>1. Init => WavInv
  BY WavInit
<1>2. ASSUME WavInv, [Next]_vars PROVE WavInv'
  <2>1. CASE \E n \in Chunks : music_delivery(n)
    BY <1>2, <2>1, DeliveryKeeps
  <2>2. CASE wav_read_seek
    BY <1>2, <2>2, SeekKeeps
  <2>3. CASE wav_read
    BY <1>2, <2>3, ReadKeeps
  <2>4. CASE stall \/ UNCHANGED vars
    BY <1>2, <2>4 DEF stall, vars, WavInv, Typed, Streams
  <2> QED BY <1>2, <2>1, <2>2, <2>3, <2>4 DEF Next
<1> QED BY <1>1, <1>2, PTL DEF Spec

-----------------------------------------------------------------------------
(* Theorems.                                                               *)

\* A track.wav keeps its buffer well formed: segments hold delivered bytes,
\* and nsamples counts the frames they claim, for any lengths of frames,
\* headers, deliveries and blocks.
THEOREM TypeCorrect == Spec => []TypeOK
<1>1. ASSUME WavInv PROVE TypeOK
  <2>1. Typed
    BY <1>1 DEF WavInv
  <2>2. ASSUME NEW i \in DOMAIN queue
        PROVE  /\ queue[i].nsamples \in Nat \ {0}
               /\ queue[i].samples \in Seq(1 .. TotalFrames * FrameBytes)
    <3>1. queue[i] \in Segment
      BY <2>1, ElementOfSeq DEF Typed
    <3> QED BY <3>1 DEF Segment, Byte
  <2> QED BY <2>1, <2>2 DEF TypeOK, Typed
<1> QED BY <1>1, WavInvariant, PTL

\* memcpy and memmove stay within the memory of a segment, into however many
\* parts it is cut.
THEOREM CutsStayWithin == Spec => []WithinSegments
<1>1. ASSUME WavInv PROVE WithinSegments
  <2>1. queue \in Seq(Segment)
    BY <1>1 DEF WavInv, Typed
  <2>2. ASSUME NEW i \in DOMAIN queue
        PROVE  SegSize(queue[i]) <= Len(queue[i].samples)
    <3>1. queue[i] \in Segment
      BY <2>1, ElementOfSeq
    <3> QED BY <3>1, BytesOfSegment
  <2> QED BY <2>2 DEF WithinSegments
<1> QED BY <1>1, WavInvariant, PTL

\* What a client has received begins like the header.
LEMMA BeginsWithHeader ==
    ASSUME got \in Seq(Int), HeaderRight(got)
    PROVE  IsPrefix(got, Header) \/ IsPrefix(Header, got)
<1>1. PICK m \in Nat, k \in Nat : m = Len(got) /\ k = HeaderLen
  BY WavAssumption, LenProperties
<1>2. /\ Header \in Seq(Int) /\ Len(Header) = k
      /\ \A i \in 1 .. k : Header[i] = -i
  BY <1>1 DEF Header
<1>3. \A i \in 1 .. m : i <= k => got[i] = -i
  BY <1>1 DEF HeaderRight
<1>4. \A i \in 1 .. m : got[i] \in Int
  BY <1>1, ElementOfSeq
<1>5. ASSUME NEW n \in Nat, n <= m, n <= k
      PROVE  SubSeq(got, 1, n) = SubSeq(Header, 1, n)
  <2> DEFINE a == SubSeq(got, 1, n)
             b == SubSeq(Header, 1, n)
  <2>1. \A i \in 1 .. n : got[i] \in Int /\ Header[i] \in Int
    BY <1>2, <1>4, <1>5
  <2>2. /\ a \in Seq(Int) /\ Len(a) = IF 1 <= n THEN n - 1 + 1 ELSE 0
        /\ \A i \in 1 .. n - 1 + 1 : a[i] = got[1 + i - 1]
    BY <2>1, SubSeqProperties
  <2>3. /\ b \in Seq(Int) /\ Len(b) = IF 1 <= n THEN n - 1 + 1 ELSE 0
        /\ \A i \in 1 .. n - 1 + 1 : b[i] = Header[1 + i - 1]
    BY <2>1, SubSeqProperties
  <2> HIDE DEF a, b
  <2>4. Len(a) = n /\ Len(b) = n
    BY <2>2, <2>3
  <2>5. ASSUME NEW i \in 1 .. n PROVE a[i] = b[i]
    <3>1. i \in 1 .. n - 1 + 1 /\ 1 + i - 1 = i
      OBVIOUS
    <3>2. a[i] = got[i] /\ b[i] = Header[i]
      BY <2>2, <2>3, <3>1
    <3>3. i \in 1 .. m /\ i \in 1 .. k /\ i <= k
      BY <1>5
    <3> QED BY <1>2, <1>3, <3>2, <3>3
  <2>6. a = b
    BY <2>2, <2>3, <2>4, <2>5, SeqEqual
  <2> QED BY <2>6 DEF a, b
<1>6. CASE m <= k
  <2>1. SubSeq(got, 1, m) = SubSeq(Header, 1, m)
    BY <1>5, <1>6
  <2> QED BY <1>1, <1>2, <1>6, <2>1 DEF IsPrefix
<1>7. CASE ~ (m <= k)
  <2>1. k <= m
    BY <1>7
  <2>2. SubSeq(got, 1, k) = SubSeq(Header, 1, k)
    BY <1>5, <2>1
  <2> QED BY <1>1, <1>2, <2>1, <2>2 DEF IsPrefix
<1> QED BY <1>6, <1>7

\* A part of a gapless stream in front of the rest.
LEMMA GaplessParts ==
    ASSUME NEW a \in Seq(Int), NEW b \in Seq(Int), NEW d \in Nat,
           Gapless(a \o b, d)
    PROVE  /\ Successive(a)
           /\ ToSet(a) \cup ToSet(b) = 1 .. d
<1>1. PICK m \in Nat, n \in Nat : m = Len(a) /\ n = Len(b)
  BY LenProperties
<1>2. PICK s \in Seq(Int) : s = a \o b
  BY ConcatProperties
<1>3. /\ Len(s) = m + n
      /\ \A i \in 1 .. m + n : s[i] = IF i <= m THEN a[i] ELSE b[i - m]
  BY <1>1, <1>2, ConcatProperties
<1>4. /\ DOMAIN s = 1 .. m + n /\ DOMAIN a = 1 .. m /\ DOMAIN b = 1 .. n
  BY <1>1, <1>3, LenProperties
<1>5. Successive(s) /\ ToSet(s) = 1 .. d
  BY <1>2 DEF Gapless
<1>6. \A i \in 1 .. m : i \in 1 .. m + n /\ s[i] = a[i]
  <2>1. \A i \in 1 .. m : i \in 1 .. m + n /\ i <= m
    BY <1>1
  <2> QED BY <1>3, <2>1
<1>7. \A i \in 1 .. n : m + i \in 1 .. m + n /\ s[m + i] = b[i]
  <2>1. \A i \in 1 .. n :
           m + i \in 1 .. m + n /\ ~ (m + i <= m) /\ (m + i) - m = i
    BY <1>1
  <2> QED BY <1>3, <2>1
<1>8. ASSUME NEW i \in DOMAIN a
      PROVE  a[i] = 1 \/ \E j \in 1 .. i - 1 : a[j] = a[i] - 1
  <2>1. i \in 1 .. m /\ i \in DOMAIN s
    BY <1>4, <1>6, <1>8
  <2>2. s[i] = 1 \/ \E j \in 1 .. i - 1 : s[j] = s[i] - 1
    BY <1>5, <2>1 DEF Successive
  <2>3. \A j \in 1 .. i - 1 : j \in 1 .. m
    BY <2>1
  <2> QED BY <1>6, <2>1, <2>2, <2>3
<1>9. ToSet(a) \cup ToSet(b) = ToSet(s)
  <2>1. ASSUME NEW v \in ToSet(s) PROVE v \in ToSet(a) \cup ToSet(b)
    <3>1. PICK i \in 1 .. m + n : v = s[i]
      BY <1>4, <2>1 DEF ToSet
    <3>2. CASE i <= m
      <4>1. i \in DOMAIN a /\ v = a[i]
        BY <1>3, <1>4, <3>1, <3>2
      <4> QED BY <4>1 DEF ToSet
    <3>3. CASE ~ (i <= m)
      <4>1. i - m \in DOMAIN b /\ v = b[i - m]
        BY <1>3, <1>4, <3>1, <3>3
      <4> QED BY <4>1 DEF ToSet
    <3> QED BY <3>2, <3>3
  <2>2. ToSet(a) \subseteq ToSet(s)
    BY <1>4, <1>6 DEF ToSet
  <2>3. ToSet(b) \subseteq ToSet(s)
    BY <1>4, <1>7 DEF ToSet
  <2> QED BY <2>1, <2>2, <2>3
<1> QED BY <1>5, <1>8, <1>9 DEF Successive

\* A client gets the header and then the delivered bytes with none left out,
\* whatever its block size and however its reads cut the segments; while they
\* are cut at frames it gets each byte once.
THEOREM ByteStreamIsComplete == Spec => []ByteStream
<1>1. ASSUME WavInv PROVE ByteStream
  <2>1. Typed /\ Streams(got, queue, delivered, aligned)
    BY <1>1 DEF WavInv
  <2>2. IsPrefix(got, Header) \/ IsPrefix(Header, got)
    BY <2>1, BeginsWithHeader DEF Typed, Streams
  <2>3. GotAudio = AfterHeader(got)
    BY DEF GotAudio, AfterHeader
  <2>4. GotAudio \in Seq(Int) /\ Held(queue) \in Seq(Int)
    BY <2>1, <2>3, AfterHeaderOf, HeldTyped, Wider DEF Typed
  <2>5. PICK d \in Nat : d = delivered * FrameBytes
    BY <2>1, Frames, WavAssumption DEF Typed
  <2>6. Gapless(GotAudio \o Held(queue), d)
    BY <2>1, <2>3, <2>5 DEF Streams
  <2>7. /\ Successive(GotAudio)
        /\ ToSet(GotAudio) \cup ToSet(Held(queue)) = 1 .. d
    BY <2>4, <2>6, GaplessParts
  <2>8. ToSet(Delivered) = 1 .. d
    BY <2>5 DEF Delivered, ToSet
  <2>9. NothingSkipped
    BY <2>7, <2>8 DEF NothingSkipped, Successive
  <2>10. aligned => GotAudio \o Held(queue) = Delivered
    BY <2>1, <2>3 DEF Streams, Delivered
  <2> QED BY <2>2, <2>9, <2>10 DEF ByteStream
<1> QED BY <1>1, WavInvariant, PTL

-----------------------------------------------------------------------------
(* The length that the header announces.                                   *)

LEMMA Powers == 2 ^ 24 = 16777216 /\ 2 ^ 25 = 33554432
BY SMT

\* Nothing wraps below 2^24 units of 128 bits.
LEMMA NoWrap ==
    ASSUME NEW n \in Nat, n < 16777216 PROVE Wrap25(n) = n
<1>1. Wrap25(n) = ((n + 16777216) % 33554432) - 16777216
  BY Powers, SMT DEF Wrap25
<1>2. (n + 16777216) % 33554432 = n + 16777216
  BY SMT
<1> QED BY <1>1, <1>2, SMT

LEMMA HeaderOfTrack ==
    ASSUME NEW d \in Nat, d >= 1000, d < 1522000
    PROVE  /\ data_size(d) <= TrackBytes(d)
           /\ TrackBytes(d) <= data_size(d) + BytesPerSecond + 7
<1> DEFINE s == d \div 1000
           r == d % 1000
           part == (r * 1764) \div 10
<1>1. s \in Nat /\ s >= 1 /\ s <= 1521 /\ r \in Nat /\ r <= 999
  BY SMT
<1>2. /\ Rate \div 4 = 11025 /\ BytesPerSecond = 176400
      /\ BytesPerSecond \div 100 = 1764
  BY SMT DEF Rate, BytesPerSecond
<1> HIDE DEF s, r
<1>3. part \in Nat /\ part <= 176224
  BY <1>1, SMT
<1>4. s * 11025 \in Nat /\ s * 11025 < 16777216
  BY <1>1, SMT
<1>5. data_size(d) = 44 + 16 * (s * 11025) - 8 - 44
  BY <1>2, <1>4, NoWrap, SMT DEF data_size, riff_size, s
<1>6. TrackBytes(d) = s * 176400 + part
  BY <1>2, SMT DEF TrackBytes, s, r
<1> HIDE DEF part
<1> QED BY <1>1, <1>2, <1>3, <1>5, <1>6, SMT

\* Whatever the duration of a track of 1 to 1521 seconds, its header announces
\* no more than its length, and at most a second and 8 bytes less.
THEOREM HeaderIsRight == Spec => []HeaderLength
<1>1. WavInv => duration \in Nat
  BY WavAssumption DEF WavInv, Typed
<1>2. duration \in Nat => HeaderLength
  BY HeaderOfTrack, SMT DEF HeaderLength
<1> QED BY <1>1, <1>2, WavInvariant, PTL
===============================================================================
