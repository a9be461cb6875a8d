------------------------------ MODULE LineProofs ------------------------------
(***************************************************************************)
(* A theorem about LineReader, for streams and reads of any length: which  *)
(* lines are handled does not depend on how the stream is cut into reads.  *)
(***************************************************************************)
EXTENDS LineReader, SequenceTheorems, TLAPS

Byte == Letter \cup Ends

\* The lines that end within the first k bytes of t.
SpansBefore(t, k) == {s \in LineSpans(t) : s[2] < k}

\* The lines of the first k bytes have been handled, the others are in buff.
HandledTo(k) ==
  /\ buff = SubSeq(arrived, k + 1, Len(arrived))
  /\ k = 0 \/ arrived[k] \in Ends
  /\ Renders(lines, arrived, SpansBefore(arrived, k))

LineInv ==
  /\ arrived \in Seq(Byte) /\ coming \in Seq(Byte)
  /\ lines \in Seq(Seq(Byte))
  /\ \E k \in 0..Len(arrived) : HandledTo(k)
  /\ ~ draining => \A i \in 1..Len(buff) : buff[i] \notin Ends

LEMMA LineInit == Init => LineInv
<1> SUFFICES ASSUME Init PROVE LineInv
  OBVIOUS
<1>1. coming \in Seq(Byte)
  BY DEF Init, Byte
<1>2. /\ arrived = <<>> /\ buff = <<>> /\ lines = <<>> /\ Len(arrived) = 0
      /\ SpansBefore(arrived, 0) = {}
  BY DEF Init, SpansBefore, LineSpans
<1>3. Renders(<<>>, arrived, {})
  <2>1. Len(<<>>) = 0 /\ [i \in 1..0 |-> 0] \in [1..0 -> {}]
    OBVIOUS
  <2> QED  BY <2>1 DEF Renders
<1>4. SubSeq(<<>>, 1, 0) = <<>> /\ 0 + 1 = 1
  BY SubSeqEmpty
<1>5. HandledTo(0)
  <2>1. buff = SubSeq(arrived, 0 + 1, Len(arrived))
    BY <1>2, <1>4, Zenon
  <2> QED  BY <1>2, <1>3, <2>1, Zenon DEF HandledTo
<1>6. 0 \in 0..Len(arrived) /\ lines \in Seq(Seq(Byte)) /\ arrived \in Seq(Byte)
  BY <1>2
<1>7. \A i \in 1..Len(buff) : buff[i] \notin Ends
  BY <1>2
<1> QED  BY <1>1, <1>5, <1>6, <1>7, Zenon DEF LineInv

\* Part of a sequence, when more is put behind it.
LEMMA MoreBehind ==
  ASSUME NEW t \in Seq(Byte), NEW d \in Seq(Byte)
  PROVE  /\ t \o d \in Seq(Byte) /\ Len(t \o d) = Len(t) + Len(d)
         /\ \A i \in 1..Len(t) : (t \o d)[i] = t[i]
         /\ \A k \in 0..Len(t) : SpansBefore(t \o d, k) = SpansBefore(t, k)
<1> DEFINE u == t \o d
<1>1. /\ u \in Seq(Byte) /\ Len(u) = Len(t) + Len(d) /\ Len(t) \in Nat /\ Len(d) \in Nat
      /\ \A i \in 1..Len(t) : u[i] = t[i]
  BY ConcatProperties
<1> HIDE DEF u
<1>2. ASSUME NEW k \in 0..Len(t), NEW a \in Nat \ {0}, NEW b \in Nat, b < k
      PROVE  <<a, b>> \in LineSpans(u) <=> <<a, b>> \in LineSpans(t)
  <2>1. /\ b < Len(t) /\ b < Len(u) /\ b + 1 \in 1..Len(t)
        /\ \A i \in a..b : i \in 1..Len(t)
        /\ a <= b /\ a # 1 => a - 1 \in 1..Len(t)
        /\ a <= b => a \in 1..Len(t) /\ a \in 1..Len(u)
        /\ b \in 1..Len(t) <=> b \in 1..Len(u)
    BY <1>1, <1>2
  <2> QED  BY <1>1, <2>1 DEF LineSpans
<1>3. ASSUME NEW k \in 0..Len(t) PROVE SpansBefore(u, k) = SpansBefore(t, k)
  <2>1. \A s \in LineSpans(u) \cup LineSpans(t) :
          s = <<s[1], s[2]>> /\ s[1] \in Nat \ {0} /\ s[2] \in Nat
    BY <1>1 DEF LineSpans
  <2>2. ASSUME NEW s \in LineSpans(u), s[2] < k PROVE s \in LineSpans(t)
    BY <1>2, <2>1, <2>2
  <2>3. ASSUME NEW s \in LineSpans(t), s[2] < k PROVE s \in LineSpans(u)
    BY <1>2, <2>1, <2>3
  <2> QED  BY <2>2, <2>3 DEF SpansBefore
<1> QED  BY <1>1, <1>3 DEF u

\* What is left of t after its first k bytes, when more is put behind t, and the lines
\* that end within it.
LEMMA RestGrows ==
  ASSUME NEW t \in Seq(Byte), NEW d \in Seq(Byte), NEW k \in 0..Len(t)
  PROVE  /\ SubSeq(t, k + 1, Len(t)) \o d = SubSeq(t \o d, k + 1, Len(t \o d))
         /\ \A a \in 1..Len(t) + 1, b \in 0..Len(t) : SubSeq(t \o d, a, b) = SubSeq(t, a, b)
<1> DEFINE u == t \o d
<1>1. /\ u \in Seq(Byte) /\ Len(u) = Len(t) + Len(d) /\ Len(t) \in Nat /\ Len(d) \in Nat
      /\ \A i \in 1..Len(u) : u[i] = IF i <= Len(t) THEN t[i] ELSE d[i - Len(t)]
  BY ConcatProperties
<1>2. /\ \A i \in 1..Len(t) : t[i] \in Byte
      /\ \A i \in 1..Len(u) : u[i] \in Byte
  BY <1>1
<1> HIDE DEF u
<1>3. ASSUME NEW a \in 1..Len(t) + 1, NEW b \in 0..Len(t)
      PROVE  SubSeq(u, a, b) = SubSeq(t, a, b)
  <2>1. /\ SubSeq(t, a, b) \in Seq(Byte)
        /\ Len(SubSeq(t, a, b)) = IF a <= b THEN b - a + 1 ELSE 0
        /\ \A i \in 1..b - a + 1 : SubSeq(t, a, b)[i] = t[a + i - 1]
    BY <1>1, <1>2, SubSeqProperties
  <2>2. /\ SubSeq(u, a, b) \in Seq(Byte)
        /\ Len(SubSeq(u, a, b)) = IF a <= b THEN b - a + 1 ELSE 0
        /\ \A i \in 1..b - a + 1 : SubSeq(u, a, b)[i] = u[a + i - 1]
    BY <1>1, <1>2, SubSeqProperties
  <2>3. \A i \in 1..Len(SubSeq(u, a, b)) : SubSeq(u, a, b)[i] = SubSeq(t, a, b)[i]
    BY <1>1, <2>1, <2>2
  <2> QED  BY <2>1, <2>2, <2>3, SeqEqual
<1>4. SubSeq(t, k + 1, Len(t)) \o d = SubSeq(u, k + 1, Len(u))
  <2> DEFINE b == SubSeq(t, k + 1, Len(t))
             v == SubSeq(u, k + 1, Len(u))
  <2>1. /\ b \in Seq(Byte) /\ Len(b) = Len(t) - k
        /\ \A i \in 1..Len(t) - k : b[i] = t[k + i]
    <3>1. /\ b \in Seq(Byte)
          /\ Len(b) = IF k + 1 <= Len(t) THEN Len(t) - (k + 1) + 1 ELSE 0
          /\ \A i \in 1..Len(t) - (k + 1) + 1 : b[i] = t[(k + 1) + i - 1]
      BY <1>1, <1>2, SubSeqProperties
    <3> QED  BY <1>1, <3>1
  <2>2. /\ v \in Seq(Byte) /\ Len(v) = Len(u) - k
        /\ \A i \in 1..Len(u) - k : v[i] = u[k + i]
    <3>1. /\ v \in Seq(Byte)
          /\ Len(v) = IF k + 1 <= Len(u) THEN Len(u) - (k + 1) + 1 ELSE 0
          /\ \A i \in 1..Len(u) - (k + 1) + 1 : v[i] = u[(k + 1) + i - 1]
      BY <1>1, <1>2, SubSeqProperties
    <3> QED  BY <1>1, <3>1
  <2> HIDE DEF b, v
  <2>3. /\ b \o d \in Seq(Byte) /\ Len(b \o d) = Len(b) + Len(d)
        /\ \A i \in 1..Len(b) + Len(d) :
             (b \o d)[i] = IF i <= Len(b) THEN b[i] ELSE d[i - Len(b)]
    BY <2>1, ConcatProperties
  <2>4. ASSUME NEW i \in 1..Len(v) PROVE (b \o d)[i] = v[i]
    <3>1. i \in 1..Len(u) - k /\ k + i \in 1..Len(u) /\ i \in 1..Len(b) + Len(d)
      BY <1>1, <2>1, <2>2
    <3>2. v[i] = IF k + i <= Len(t) THEN t[k + i] ELSE d[k + i - Len(t)]
      BY <1>1, <2>2, <3>1
    <3>3. (b \o d)[i] = IF i <= Len(b) THEN b[i] ELSE d[i - Len(b)]
      BY <2>3, <3>1
    <3>4. CASE i <= Len(b)
      <4>1. i \in 1..Len(t) - k /\ k + i <= Len(t)
        BY <1>1, <2>1, <3>1, <3>4
      <4> QED  BY <2>1, <3>2, <3>3, <3>4, <4>1
    <3>5. CASE ~ (i <= Len(b))
      <4>1. ~ (k + i <= Len(t)) /\ i - Len(b) = k + i - Len(t)
        BY <1>1, <2>1, <3>1, <3>5
      <4> QED  BY <3>2, <3>3, <3>5, <4>1
    <3> QED  BY <3>4, <3>5
  <2>5. b \o d \in Seq(Byte) /\ v \in Seq(Byte) /\ Len(v) = Len(b \o d)
    BY <1>1, <2>1, <2>2, <2>3
  <2>6. v = b \o d
    <3>1. \A i \in 1..Len(v) : v[i] = (b \o d)[i]
      BY <2>4
    <3> HIDE DEF b, v
    <3> QED  BY <2>5, <3>1, SeqEqual
  <2> QED  BY <2>6 DEF b, v
<1> QED  BY <1>3, <1>4 DEF u

\* The bytes behind the first k of t, cut at the i-th of them.
LEMMA RestCut ==
  ASSUME NEW t \in Seq(Byte), NEW k \in 0..Len(t),
         NEW b, b = SubSeq(t, k + 1, Len(t))
  PROVE  /\ b \in Seq(Byte) /\ Len(b) = Len(t) - k
         /\ \A i \in 1..Len(t) - k :
              /\ b[i] = t[k + i]
              /\ SubSeq(b, 1, i - 1) = SubSeq(t, k + 1, k + i - 1)
              /\ SubSeq(b, i + 1, Len(b)) = SubSeq(t, k + i + 1, Len(t))
<1>1. \A i \in 1..Len(t) : t[i] \in Byte
  OBVIOUS
<1>2. /\ b \in Seq(Byte) /\ Len(b) = Len(t) - k
      /\ \A i \in 1..Len(t) - k : b[i] = t[k + i]
  <2>1. /\ b \in Seq(Byte)
        /\ Len(b) = IF k + 1 <= Len(t) THEN Len(t) - (k + 1) + 1 ELSE 0
        /\ \A i \in 1..Len(t) - (k + 1) + 1 : b[i] = t[(k + 1) + i - 1]
    BY <1>1, SubSeqProperties
  <2> QED  BY <2>1
<1>3. ASSUME NEW i \in 1..Len(t) - k
      PROVE  SubSeq(b, 1, i - 1) = SubSeq(t, k + 1, k + i - 1)
  <2>1. /\ SubSeq(b, 1, i - 1) \in Seq(Byte)
        /\ Len(SubSeq(b, 1, i - 1)) = IF 1 <= i - 1 THEN i - 1 - 1 + 1 ELSE 0
        /\ \A j \in 1..i - 1 - 1 + 1 : SubSeq(b, 1, i - 1)[j] = b[1 + j - 1]
    BY <1>1, <1>2, SubSeqProperties
  <2>2. /\ SubSeq(t, k + 1, k + i - 1) \in Seq(Byte)
        /\ Len(SubSeq(t, k + 1, k + i - 1)) =
             IF k + 1 <= k + i - 1 THEN k + i - 1 - (k + 1) + 1 ELSE 0
        /\ \A j \in 1..k + i - 1 - (k + 1) + 1 :
             SubSeq(t, k + 1, k + i - 1)[j] = t[k + 1 + j - 1]
    BY <1>1, SubSeqProperties
  <2>3. \A j \in 1..Len(SubSeq(b, 1, i - 1)) :
          SubSeq(b, 1, i - 1)[j] = SubSeq(t, k + 1, k + i - 1)[j]
    BY <1>2, <2>1, <2>2
  <2> QED  BY <2>1, <2>2, <2>3, SeqEqual
<1>4. ASSUME NEW i \in 1..Len(t) - k
      PROVE  SubSeq(b, i + 1, Len(b)) = SubSeq(t, k + i + 1, Len(t))
  <2>1. /\ SubSeq(b, i + 1, Len(b)) \in Seq(Byte)
        /\ Len(SubSeq(b, i + 1, Len(b))) = IF i + 1 <= Len(b) THEN Len(b) - (i + 1) + 1 ELSE 0
        /\ \A j \in 1..Len(b) - (i + 1) + 1 : SubSeq(b, i + 1, Len(b))[j] = b[i + 1 + j - 1]
    BY <1>1, <1>2, SubSeqProperties
  <2>2. /\ SubSeq(t, k + i + 1, Len(t)) \in Seq(Byte)
        /\ Len(SubSeq(t, k + i + 1, Len(t))) =
             IF k + i + 1 <= Len(t) THEN Len(t) - (k + i + 1) + 1 ELSE 0
        /\ \A j \in 1..Len(t) - (k + i + 1) + 1 :
             SubSeq(t, k + i + 1, Len(t))[j] = t[k + i + 1 + j - 1]
    BY <1>1, SubSeqProperties
  <2>3. \A j \in 1..Len(SubSeq(b, i + 1, Len(b))) :
          SubSeq(b, i + 1, Len(b))[j] = SubSeq(t, k + i + 1, Len(t))[j]
    BY <1>2, <2>1, <2>2
  <2>4. Len(SubSeq(b, i + 1, Len(b))) = Len(SubSeq(t, k + i + 1, Len(t)))
    BY <1>2, <2>1, <2>2
  <2> QED  BY <2>1, <2>2, <2>3, <2>4, SeqEqual
<1> QED  BY <1>2, <1>3, <1>4

\* Between two ends with none between them there is one line, or no byte.
LEMMA NextSpan ==
  ASSUME NEW t \in Seq(Byte), NEW k \in 0..Len(t), k = 0 \/ t[k] \in Ends,
         NEW i \in 1..Len(t) - k, t[k + i] \in Ends,
         \A h \in 1..i - 1 : t[k + h] \notin Ends
  PROVE  /\ i = 1 => SpansBefore(t, k + i) = SpansBefore(t, k)
         /\ i > 1 => SpansBefore(t, k + i) = SpansBefore(t, k) \cup {<<k + 1, k + i - 1>>}
<1>1. \A h \in k + 1..k + i - 1 : t[h] \notin Ends
  <2> TAKE h \in k + 1..k + i - 1
  <2>1. h - k \in 1..i - 1 /\ k + (h - k) = h
    OBVIOUS
  <2> QED  BY <2>1
<1>2. ASSUME NEW s \in LineSpans(t), k <= s[2], s[2] < k + i
      PROVE  i > 1 /\ s = <<k + 1, k + i - 1>>
  <2>1. PICK a \in 1..Len(t), b \in 1..Len(t) : s = <<a, b>>
    BY DEF LineSpans
  <2>2. /\ a <= b /\ t[b + 1] \in Ends
        /\ \A h \in a..b : t[h] \notin Ends
        /\ a = 1 \/ t[a - 1] \in Ends
        /\ k <= b /\ b < k + i
    BY <1>2, <2>1 DEF LineSpans
  <2>3. b = k + i - 1
    <3>1. b + 1 \notin k + 1..k + i - 1
      BY <1>1, <2>2
    <3> QED  BY <2>2, <3>1
  <2>4. a > k
    <3>1. k # 0 => k \notin a..b
      BY <2>2
    <3> QED  BY <2>2, <3>1
  <2>5. a = k + 1
    <3>1. a - 1 \notin k + 1..k + i - 1 \/ a = 1
      BY <1>1, <2>2
    <3> QED  BY <2>2, <2>3, <2>4, <3>1
  <2> QED  BY <2>1, <2>2, <2>3, <2>5
<1>3. ASSUME i > 1 PROVE <<k + 1, k + i - 1>> \in LineSpans(t)
  BY <1>1, <1>3 DEF LineSpans
<1>4. \A s \in LineSpans(t) : s[2] \in Nat
  BY DEF LineSpans
<1>5. CASE i = 1
  BY <1>2, <1>4, <1>5 DEF SpansBefore
<1>6. CASE i > 1
  <2>1. <<k + 1, k + i - 1>> \in SpansBefore(t, k + i)
    BY <1>3, <1>6 DEF SpansBefore
  <2>2. \A s \in SpansBefore(t, k) : s \in SpansBefore(t, k + i)
    BY <1>4 DEF SpansBefore
  <2>3. \A s \in SpansBefore(t, k + i) : s \in SpansBefore(t, k) \/ s = <<k + 1, k + i - 1>>
    BY <1>2, <1>4 DEF SpansBefore
  <2> QED  BY <1>6, <2>1, <2>2, <2>3
<1> QED  BY <1>5, <1>6

\* One line more, behind all the others.
LEMMA OneMore ==
  ASSUME NEW t \in Seq(Byte), NEW ls \in Seq(Seq(Byte)), NEW spans,
         Renders(ls, t, spans), NEW a \in Nat, NEW b \in Nat, SubSeq(t, a, b) \in Seq(Byte),
         \A s \in spans : s[2] < a
  PROVE  Renders(Append(ls, SubSeq(t, a, b)), t, spans \cup {<<a, b>>})
<1> DEFINE n == Len(ls)
           more == Append(ls, SubSeq(t, a, b))
           all == spans \cup {<<a, b>>}
<1>1. n \in Nat /\ Len(more) = n + 1 /\ more[n + 1] = SubSeq(t, a, b)
      /\ \A i \in 1..n : more[i] = ls[i]
  <2>1. /\ Len(more) = n + 1 /\ n \in Nat
        /\ \A i \in 1..n : more[i] = ls[i]
        /\ more[n + 1] = SubSeq(t, a, b)
    BY AppendProperties
  <2> QED  BY <2>1
<1>2. PICK at \in [1..n -> spans] :
        /\ \A i, j \in 1..n : i < j => at[i][2] < at[j][1]
        /\ \A s \in spans : \E i \in 1..n : at[i] = s
        /\ \A i \in 1..n : ls[i] = SubSeq(t, at[i][1], at[i][2])
  BY DEF Renders
<1> DEFINE to == [i \in 1..n + 1 |-> IF i = n + 1 THEN <<a, b>> ELSE at[i]]
<1> HIDE DEF n, more, all
<1>3. \A i \in 1..n + 1 : i = n + 1 \/ i \in 1..n
  BY <1>1
<1>4. /\ to \in [1..n + 1 -> all]
      /\ to[n + 1] = <<a, b>>
      /\ \A i \in 1..n : to[i] = at[i] /\ at[i] \in spans
  BY <1>1, <1>2, <1>3 DEF all
<1> HIDE DEF to
<1>5. ASSUME NEW i \in 1..n + 1, NEW j \in 1..n + 1, i < j PROVE to[i][2] < to[j][1]
  <2>1. i \in 1..n
    BY <1>1, <1>5
  <2>2. CASE j = n + 1
    BY <1>4, <2>1, <2>2
  <2>3. CASE j \in 1..n
    BY <1>2, <1>4, <1>5, <2>1, <2>3
  <2> QED  BY <1>3, <2>2, <2>3
<1>6. \A s \in all : \E i \in 1..n + 1 : to[i] = s
  <2> TAKE s \in all
  <2>1. CASE s \in spans
    <3>1. PICK i \in 1..n : at[i] = s
      BY <1>2, <2>1
    <3> QED  BY <1>1, <1>4, <3>1
  <2>2. CASE s = <<a, b>>
    <3>1. n + 1 \in 1..n + 1
      BY <1>1
    <3> QED  BY <1>4, <2>2, <3>1
  <2> QED  BY <2>1, <2>2 DEF all
<1>7. ASSUME NEW i \in 1..n + 1 PROVE more[i] = SubSeq(t, to[i][1], to[i][2])
  <2>1. CASE i = n + 1
    BY <1>1, <1>4, <2>1
  <2>2. CASE i \in 1..n
    BY <1>1, <1>2, <1>4, <2>2
  <2> QED  BY <1>3, <2>1, <2>2
<1>8. Renders(more, t, all)
  <2>1. to \in [1..Len(more) -> all]
    BY <1>1, <1>4
  <2>2. \A i, j \in 1..Len(more) : i < j => to[i][2] < to[j][1]
    BY <1>1, <1>5
  <2>3. \A s \in all : \E i \in 1..Len(more) : to[i] = s
    BY <1>1, <1>6
  <2>4. \A i \in 1..Len(more) : more[i] = SubSeq(t, to[i][1], to[i][2])
    BY <1>1, <1>7
  <2> QED  BY <2>1, <2>2, <2>3, <2>4, Zenon DEF Renders
<1> QED  BY <1>8 DEF more, all

LEMMA HandleKeeps == \A n \in 1..Chunk : LineInv /\ Handle(n) => LineInv'
<1> SUFFICES ASSUME NEW n \in 1..Chunk, LineInv, Handle(n) PROVE LineInv'
  OBVIOUS
<1> DEFINE d == SubSeq(coming, 1, n)
<1>1. arrived \in Seq(Byte) /\ coming \in Seq(Byte) /\ lines \in Seq(Seq(Byte))
  BY DEF LineInv
<1>2. /\ n <= Len(coming) /\ arrived' = arrived \o d /\ buff' = buff \o d
      /\ coming' = SubSeq(coming, n + 1, Len(coming)) /\ draining' = TRUE /\ lines' = lines
  BY DEF Handle
<1>3. d \in Seq(Byte) /\ coming' \in Seq(Byte)
  <2>1. \A i \in 1..Len(coming) : coming[i] \in Byte
    BY <1>1
  <2>2. n \in Nat /\ n + 1 \in Nat /\ Len(coming) \in Nat /\ n + 1 \in Nat \ {0}
    BY <1>1, LineReaderAssumption
  <2>3. \A i \in 1..n : coming[i] \in Byte
    BY <1>2, <2>1, <2>2
  <2>4. \A i \in n + 1..Len(coming) : coming[i] \in Byte
    BY <2>1, <2>2
  <2>5. SubSeq(coming, 1, n) \in Seq(Byte)
    BY <2>2, <2>3, SubSeqProperties
  <2>6. SubSeq(coming, n + 1, Len(coming)) \in Seq(Byte)
    BY <2>2, <2>4, SubSeqProperties
  <2> QED  BY <1>2, <2>5, <2>6
<1> HIDE DEF d
<1>4. PICK k \in 0..Len(arrived) : HandledTo(k)
  BY DEF LineInv
<1>5. /\ arrived' \in Seq(Byte) /\ Len(arrived') = Len(arrived) + Len(d)
      /\ \A i \in 1..Len(arrived) : arrived'[i] = arrived[i]
      /\ SpansBefore(arrived', k) = SpansBefore(arrived, k)
  BY <1>1, <1>2, <1>3, MoreBehind
<1>6. buff' = SubSeq(arrived', k + 1, Len(arrived'))
  BY <1>1, <1>2, <1>3, <1>4, RestGrows DEF HandledTo
<1>7. k = 0 \/ arrived'[k] \in Ends
  BY <1>1, <1>4, <1>5 DEF HandledTo
<1>8. Renders(lines', arrived', SpansBefore(arrived', k))
  <2> DEFINE spans == SpansBefore(arrived, k)
  <2>1. \A s \in spans : s[1] \in 1..Len(arrived) + 1 /\ s[2] \in 0..Len(arrived)
    BY <1>1 DEF SpansBefore, LineSpans
  <2>2. \A a \in 1..Len(arrived) + 1, b \in 0..Len(arrived) :
          SubSeq(arrived', a, b) = SubSeq(arrived, a, b)
    BY <1>1, <1>2, <1>3, <1>4, RestGrows
  <2>3. Renders(lines, arrived, spans)
    BY <1>4 DEF HandledTo
  <2> HIDE DEF spans
  <2>4. Renders(lines, arrived', spans)
    <3>1. PICK at \in [1..Len(lines) -> spans] :
            /\ \A i, j \in 1..Len(lines) : i < j => at[i][2] < at[j][1]
            /\ \A s \in spans : \E i \in 1..Len(lines) : at[i] = s
            /\ \A i \in 1..Len(lines) : lines[i] = SubSeq(arrived, at[i][1], at[i][2])
      BY <2>3 DEF Renders
    <3>2. \A i \in 1..Len(lines) : lines[i] = SubSeq(arrived', at[i][1], at[i][2])
      BY <2>1, <2>2, <3>1
    <3> QED  BY <3>1, <3>2 DEF Renders
  <2> QED  BY <1>2, <1>5, <2>4 DEF spans
<1>9. HandledTo(k)' /\ k \in 0..Len(arrived')
  BY <1>1, <1>3, <1>5, <1>6, <1>7, <1>8 DEF HandledTo
<1> QED  BY <1>1, <1>2, <1>3, <1>5, <1>9 DEF LineInv

LEMMA ReadLineKeeps == \A i \in 1..Len(buff) : LineInv /\ ReadLine(i) => LineInv'
<1> SUFFICES ASSUME NEW i \in 1..Len(buff), LineInv, ReadLine(i) PROVE LineInv'
  OBVIOUS
<1> DEFINE line == SubSeq(buff, 1, i - 1)
           rest == SubSeq(buff, i + 1, Len(buff))
<1>1. arrived \in Seq(Byte) /\ coming \in Seq(Byte) /\ lines \in Seq(Seq(Byte))
  BY DEF LineInv
<1>2. /\ buff[i] \in Ends /\ \A h \in 1..i - 1 : buff[h] \notin Ends
      /\ buff' = rest /\ lines' = IF line = <<>> THEN lines ELSE Append(lines, line)
      /\ draining' = (line # <<>> \/ rest # <<>>)
      /\ arrived' = arrived /\ coming' = coming
  BY DEF ReadLine, FirstEnd
<1>3. PICK k \in 0..Len(arrived) : HandledTo(k)
  BY DEF LineInv
<1>4. /\ buff = SubSeq(arrived, k + 1, Len(arrived))
      /\ k = 0 \/ arrived[k] \in Ends
      /\ Renders(lines, arrived, SpansBefore(arrived, k))
  BY <1>3 DEF HandledTo
<1>5. /\ buff \in Seq(Byte) /\ Len(buff) = Len(arrived) - k
      /\ \A h \in 1..Len(arrived) - k :
           /\ buff[h] = arrived[k + h]
           /\ SubSeq(buff, 1, h - 1) = SubSeq(arrived, k + 1, k + h - 1)
           /\ SubSeq(buff, h + 1, Len(buff)) = SubSeq(arrived, k + h + 1, Len(arrived))
  BY <1>1, <1>4, RestCut
<1>6. /\ i \in 1..Len(arrived) - k /\ k + i \in 0..Len(arrived) /\ k \in Nat /\ i \in Nat
      /\ arrived[k + i] \in Ends /\ \A h \in 1..i - 1 : arrived[k + h] \notin Ends
      /\ line = SubSeq(arrived, k + 1, k + i - 1)
      /\ rest = SubSeq(arrived, k + i + 1, Len(arrived))
  <2>1. i \in 1..Len(arrived) - k /\ k \in Nat /\ i \in Nat /\ Len(arrived) \in Nat
    BY <1>1, <1>5
  <2>2. k + i \in 0..Len(arrived)
    BY <2>1
  <2>3. \A h \in 1..i - 1 : h \in 1..Len(arrived) - k
    BY <2>1
  <2> QED  BY <1>2, <1>5, <2>1, <2>2, <2>3
<1>7. /\ i = 1 => SpansBefore(arrived, k + i) = SpansBefore(arrived, k)
      /\ i > 1 => SpansBefore(arrived, k + i) =
                    SpansBefore(arrived, k) \cup {<<k + 1, k + i - 1>>}
  BY <1>1, <1>4, <1>6, NextSpan
<1>8. line \in Seq(Byte) /\ Len(line) = i - 1
  <2>1. \A h \in 1..i - 1 : buff[h] \in Byte
    BY <1>5, <1>6
  <2>2. i - 1 \in Int /\ 1 \in Int
    BY <1>6
  <2>3. /\ SubSeq(buff, 1, i - 1) \in Seq(Byte)
        /\ Len(SubSeq(buff, 1, i - 1)) = IF 1 <= i - 1 THEN i - 1 - 1 + 1 ELSE 0
    BY <2>1, <2>2, SubSeqProperties
  <2> QED  BY <1>6, <2>3
<1> HIDE DEF line, rest
<1>9. Renders(lines', arrived, SpansBefore(arrived, k + i))
  <2>1. CASE i = 1
    <3>1. line = <<>>
      BY <1>8, <2>1, EmptySeq
    <3> QED  BY <1>2, <1>4, <1>7, <2>1, <3>1
  <2>2. CASE i > 1
    <3>1. line # <<>>
      BY <1>8, <2>2, EmptySeq
    <3>2. \A s \in SpansBefore(arrived, k) : s[2] < k + 1
      BY <1>6 DEF SpansBefore, LineSpans
    <3>3. k + 1 \in Nat /\ k + i - 1 \in Nat /\ SubSeq(arrived, k + 1, k + i - 1) \in Seq(Byte)
      BY <1>6, <1>8
    <3>4. Renders(Append(lines, SubSeq(arrived, k + 1, k + i - 1)), arrived,
                  SpansBefore(arrived, k) \cup {<<k + 1, k + i - 1>>})
      BY <1>1, <1>4, <3>2, <3>3, OneMore
    <3> QED  BY <1>2, <1>6, <1>7, <2>2, <3>1, <3>4
  <2> QED  BY <1>6, <2>1, <2>2
<1>10. lines' \in Seq(Seq(Byte))
  BY <1>1, <1>2, <1>8, AppendProperties
<1>11. HandledTo(k + i)'
  <2>1. buff' = SubSeq(arrived, k + i + 1, Len(arrived))
    BY <1>2, <1>6
  <2> QED  BY <1>2, <1>6, <1>9, <2>1 DEF HandledTo
<1>12. ~ draining' => \A h \in 1..Len(buff') : buff'[h] \notin Ends
  <2>1. ~ draining' => Len(buff') = 0
    BY <1>2, EmptySeq
  <2> QED  BY <2>1
<1>13. \E j \in 0..Len(arrived') : HandledTo(j)'
  BY <1>2, <1>6, <1>11
<1> QED  BY <1>1, <1>2, <1>10, <1>12, <1>13 DEF LineInv

LEMMA NoLineKeeps == LineInv /\ NoLine => LineInv'
  BY DEF LineInv, NoLine, HandledTo

\* Once the loop is over, every line that has come is among the first k bytes.
LEMMA InvSame == LineInv => SameLines
<1> SUFFICES ASSUME LineInv, ~ draining PROVE Renders(lines, arrived, LineSpans(arrived))
  BY DEF SameLines
<1>1. arrived \in Seq(Byte)
  BY DEF LineInv
<1>2. PICK k \in 0..Len(arrived) : HandledTo(k)
  BY DEF LineInv
<1>3. /\ Len(buff) = Len(arrived) - k
      /\ \A h \in 1..Len(arrived) - k : buff[h] = arrived[k + h]
  <2>1. buff = SubSeq(arrived, k + 1, Len(arrived))
    BY <1>2 DEF HandledTo
  <2> QED  BY <1>1, <2>1, RestCut
<1>4. \A j \in k + 1..Len(arrived) : arrived[j] \notin Ends
  <2> TAKE j \in k + 1..Len(arrived)
  <2>1. j - k \in 1..Len(buff) /\ k + (j - k) = j
    BY <1>1, <1>3
  <2>2. buff[j - k] \notin Ends
    BY <2>1 DEF LineInv
  <2> QED  BY <1>3, <2>1, <2>2
<1>5. LineSpans(arrived) = SpansBefore(arrived, k)
  <2>1. ASSUME NEW s \in LineSpans(arrived) PROVE s[2] < k
    <3>1. /\ s[2] \in 1..Len(arrived) /\ s[2] < Len(arrived) /\ arrived[s[2] + 1] \in Ends
      BY DEF LineSpans
    <3> QED  BY <1>1, <1>4, <3>1
  <2> QED  BY <2>1 DEF SpansBefore
<1> QED  BY <1>2, <1>5 DEF HandledTo

\* For streams and reads of any length, and any set of bytes: the lines handled after a
\* read are those of the bytes read so far, once and in order, however POSIXclient::handle
\* was given them (client.cpp:55-79 and 252-262).
THEOREM SameLinesAlways == Spec => []SameLines
<1>1. Init => LineInv
  BY LineInit
<1>2. LineInv /\ [Next]_vars => LineInv'
  <2> SUFFICES ASSUME LineInv, [Next]_vars PROVE LineInv'
    OBVIOUS
  <2>1. CASE UNCHANGED vars
    BY <2>1 DEF LineInv, HandledTo, vars
  <2>2. CASE \E n \in 1..Chunk : Handle(n)
    BY <2>2, HandleKeeps
  <2>3. CASE \E i \in 1..Len(buff) : ReadLine(i)
    BY <2>3, ReadLineKeeps
  <2>4. CASE NoLine
    BY <2>4, NoLineKeeps
  <2> QED  BY <2>1, <2>2, <2>3, <2>4 DEF Next
<1>3. LineInv => SameLines
  BY InvSame
<1> QED  BY <1>1, <1>2, <1>3, PTL DEF Spec
===============================================================================
