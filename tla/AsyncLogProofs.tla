--------------------------- MODULE AsyncLogProofs ---------------------------
(***************************************************************************)
(* The invariants of the asynchronous log, for any threads, any limit of   *)
(* the queue and any sizes of lines: nothing is lost in silence, memory is *)
(* bounded, and flush() does not claim more than is written.  With them    *)
(* the log implements LossyLog.                                            *)
(***************************************************************************)
EXTENDS AsyncLog, NaturalsProofs, SequenceTheorems

---------------------------------------------------------------------------
(* The bytes of a sequence of lines. *)

\* A line of a sequence is one.
LEMMA LineOf ==
  ASSUME NEW q \in Seq(Line), NEW k \in 1..Len(q)
  PROVE  q[k] \in Line /\ q[k].n \in Nat /\ q[k].size \in Nat
<1>1. q[k] \in Line
  OBVIOUS
<1> QED
  BY <1>1 DEF Line

\* g are the sums of the first n sizes of the lines of q.
SumsUpTo(q, n, g) ==
  /\ g \in [0..n -> Nat]
  /\ g[0] = 0
  /\ \A k \in 1..n : g[k] = g[k - 1] + q[k].size

\* The sums exist.
LEMMA SumsExist ==
  ASSUME NEW q \in Seq(Line)
  PROVE  \E g : SumsUpTo(q, Len(q), g)
<1> DEFINE S == {n \in Nat : n <= Len(q) => \E g : SumsUpTo(q, n, g)}
<1>0. Len(q) \in Nat
  OBVIOUS
<1>1. 0 \in S
  <2>1. SumsUpTo(q, 0, [k \in 0..0 |-> 0])
    BY DEF SumsUpTo
  <2> QED
    BY <2>1
<1>2. ASSUME NEW n \in Nat, n \in S PROVE n + 1 \in S
  <2>1. SUFFICES ASSUME n + 1 <= Len(q) PROVE \E g : SumsUpTo(q, n + 1, g)
    BY <1>2
  <2>2. PICK g : SumsUpTo(q, n, g)
    BY <1>0, <1>2, <2>1
  <2>3. q[n + 1].size \in Nat
    BY <1>0, <2>1, LineOf
  <2> DEFINE h == [k \in 0..(n + 1) |-> IF k = n + 1 THEN g[n] + q[n + 1].size ELSE g[k]]
  <2>4. SumsUpTo(q, n + 1, h)
    <3>1. \A k \in 0..n : g[k] \in Nat
      BY <2>2 DEF SumsUpTo
    <3>2. h \in [0..(n + 1) -> Nat]
      BY <2>3, <3>1
    <3>3. h[0] = 0
      BY <2>2 DEF SumsUpTo
    <3>4. ASSUME NEW k \in 1..(n + 1) PROVE h[k] = h[k - 1] + q[k].size
      <4>1. k - 1 \in 0..n /\ k - 1 # n + 1 /\ k \in 0..(n + 1)
        OBVIOUS
      <4>2. CASE k = n + 1
        BY <4>1, <4>2
      <4>3. CASE k # n + 1
        BY <2>2, <4>1, <4>3 DEF SumsUpTo
      <4> QED
        BY <4>2, <4>3
    <3> HIDE DEF h
    <3> QED
      BY <3>2, <3>3, <3>4 DEF SumsUpTo
  <2> QED
    BY <2>4
<1> HIDE DEF S
<1>3. \A n \in Nat : n \in S
  BY <1>1, <1>2, NatSetInduction
<1> QED
  BY <1>3 DEF S

\* They are unique.
LEMMA SumsUnique ==
  ASSUME NEW q \in Seq(Line), NEW n \in Nat, NEW g, NEW h, SumsUpTo(q, n, g), SumsUpTo(q, n, h)
  PROVE  g = h
<1> DEFINE S == {k \in Nat : k <= n => g[k] = h[k]}
<1>1. 0 \in S
  BY DEF SumsUpTo
<1>2. ASSUME NEW k \in Nat, k \in S PROVE k + 1 \in S
  BY <1>2 DEF SumsUpTo
<1> HIDE DEF S
<1>3. \A k \in Nat : k \in S
  BY <1>1, <1>2, NatSetInduction
<1>4. \A k \in 0..n : g[k] = h[k]
  BY <1>3 DEF S
<1> QED
  BY <1>4 DEF SumsUpTo

\* BytesOf() is the last of the sums.
LEMMA BytesOfSums ==
  ASSUME NEW q \in Seq(Line), NEW g, SumsUpTo(q, Len(q), g)
  PROVE  BytesOf(q) = g[Len(q)]
<1> DEFINE Def(f) == f = [k \in 0..Len(q) |-> IF k = 0 THEN 0 ELSE f[k - 1] + q[k].size]
           sum == CHOOSE f : Def(f)
<1>0. Len(q) \in Nat
  OBVIOUS
<1>1. Def(g)
  BY <1>0 DEF SumsUpTo
<1>2. Def(sum)
  BY <1>1
<1>3. SumsUpTo(q, Len(q), sum)
  <2> DEFINE S == {k \in Nat : k <= Len(q) => sum[k] \in Nat}
  <2> HIDE DEF sum
  <2>1. \A k \in 0..Len(q) : sum[k] = IF k = 0 THEN 0 ELSE sum[k - 1] + q[k].size
    BY <1>2
  <2>2. 0 \in S
    BY <1>0, <2>1
  <2>3. ASSUME NEW k \in Nat, k \in S PROVE k + 1 \in S
    BY <1>0, <2>1, <2>3, LineOf
  <2> HIDE DEF S
  <2>4. \A k \in Nat : k \in S
    BY <2>2, <2>3, NatSetInduction
  <2>5. \A k \in 0..Len(q) : sum[k] \in Nat
    BY <1>0, <2>4 DEF S
  <2>6. sum \in [0..Len(q) -> Nat]
    BY <1>2, <2>5
  <2> QED
    BY <1>0, <2>1, <2>6 DEF SumsUpTo
<1>4. sum = g
  BY <1>0, <1>3, SumsUnique
<1>5. BytesOf(q) = sum[Len(q)]
  BY DEF BytesOf
<1> QED
  BY <1>4, <1>5
\* The bytes of lines are a number, none for no lines.
LEMMA BytesType ==
  ASSUME NEW q \in Seq(Line)
  PROVE  BytesOf(q) \in Nat
<1>1. PICK g : SumsUpTo(q, Len(q), g)
  BY SumsExist
<1>2. BytesOf(q) = g[Len(q)] /\ Len(q) \in Nat
  BY <1>1, BytesOfSums
<1> QED
  BY <1>1, <1>2 DEF SumsUpTo

\* No lines have no bytes.
LEMMA BytesOfNone == BytesOf(<<>>) = 0 /\ <<>> \in Seq(Line)
<1>1. <<>> \in Seq(Line) /\ Len(<<>>) = 0
  OBVIOUS
<1>2. PICK g : SumsUpTo(<<>>, Len(<<>>), g)
  BY <1>1, SumsExist
<1> QED
  BY <1>1, <1>2, BytesOfSums DEF SumsUpTo

\* One line has its size.
LEMMA BytesOfOne ==
  ASSUME NEW line \in Line
  PROVE  BytesOf(<<line>>) = line.size
<1>1. <<line>> \in Seq(Line) /\ Len(<<line>>) = 1 /\ <<line>>[1] = line
  OBVIOUS
<1>2. PICK g : SumsUpTo(<<line>>, 1, g)
  BY <1>1, SumsExist
<1>3. g[1] = g[0] + line.size /\ g[0] = 0 /\ line.size \in Nat
  BY <1>1, <1>2 DEF SumsUpTo, Line
<1>4. BytesOf(<<line>>) = g[1]
  BY <1>1, <1>2, BytesOfSums
<1> QED
  BY <1>3, <1>4

\* The bytes of two sequences one behind the other add up.
LEMMA BytesOfConcat ==
  ASSUME NEW q \in Seq(Line), NEW r \in Seq(Line)
  PROVE  q \o r \in Seq(Line) /\ BytesOf(q \o r) = BytesOf(q) + BytesOf(r)
<1>1. PICK g : SumsUpTo(q, Len(q), g)
  BY SumsExist
<1>2. PICK h : SumsUpTo(r, Len(r), h)
  BY SumsExist
<1> DEFINE m == Len(q)
           n == Len(r)
           f == [k \in 0..(m + n) |-> IF k <= m THEN g[k] ELSE g[m] + h[k - m]]
<1>3. /\ m \in Nat /\ n \in Nat
      /\ q \o r \in Seq(Line) /\ Len(q \o r) = m + n
      /\ \A k \in 1..(m + n) : (q \o r)[k] = IF k <= m THEN q[k] ELSE r[k - m]
  OBVIOUS
<1> HIDE DEF m, n
<1>4. /\ \A k \in 0..m : g[k] \in Nat
      /\ \A k \in 0..n : h[k] \in Nat
      /\ g[0] = 0 /\ h[0] = 0
      /\ \A k \in 1..m : g[k] = g[k - 1] + q[k].size
      /\ \A k \in 1..n : h[k] = h[k - 1] + r[k].size
  BY <1>1, <1>2 DEF SumsUpTo, m, n
<1>5. f \in [0..(m + n) -> Nat]
  BY <1>3, <1>4
<1>6. f[0] = 0
  BY <1>3, <1>4
<1>7. ASSUME NEW k \in 1..(m + n) PROVE f[k] = f[k - 1] + (q \o r)[k].size
  <2>1. k \in 0..(m + n) /\ k - 1 \in 0..(m + n)
    BY <1>3
  <2>2. CASE k <= m
    <3>1. k \in 1..m /\ k - 1 <= m
      BY <1>3, <2>2
    <3> QED
      BY <1>3, <1>4, <2>1, <2>2, <3>1
  <2>3. CASE k = m + 1
    <3>1. f[k - 1] = g[m] /\ f[k] = g[m] + h[1] /\ 1 \in 1..n /\ (q \o r)[k] = r[1]
      BY <1>3, <2>1, <2>3
    <3>2. h[1] = h[0] + r[1].size /\ h[0] = 0 /\ h[1] \in Nat
      <4>1. h[1] = h[1 - 1] + r[1].size
        BY <1>4, <3>1
      <4>2. 1 \in 0..n /\ 1 - 1 = 0
        BY <1>3, <3>1
      <4> QED
        BY <1>4, <4>1, <4>2
    <3>3. r[1].size \in Nat
      BY <3>1, LineOf DEF n
    <3> QED
      BY <3>1, <3>2, <3>3
  <2>4. CASE k > m + 1
    <3>1. k - m \in 1..n /\ (k - 1) - m = (k - m) - 1 /\ ~(k <= m) /\ ~(k - 1 <= m)
          /\ (k - m) - 1 \in 0..n
      BY <1>3, <2>4
    <3>2. /\ f[k] = g[m] + h[k - m] /\ f[k - 1] = g[m] + h[(k - m) - 1]
          /\ (q \o r)[k] = r[k - m]
      BY <1>3, <2>1, <3>1
    <3>3. h[k - m] = h[(k - m) - 1] + r[k - m].size /\ h[(k - m) - 1] \in Nat /\ g[m] \in Nat
      <4>1. h[k - m] = h[(k - m) - 1] + r[k - m].size
        BY <1>4, <3>1
      <4>2. h[(k - m) - 1] \in Nat
        BY <1>4, <3>1
      <4>3. m \in 0..m
        BY <1>3
      <4> QED
        BY <1>4, <4>1, <4>2, <4>3
    <3>4. r[k - m].size \in Nat
      BY <3>1, LineOf DEF n
    <3> HIDE DEF f
    <3> QED
      BY <3>2, <3>3, <3>4
  <2> QED
    BY <1>3, <2>2, <2>3, <2>4
<1>8. SumsUpTo(q \o r, Len(q \o r), f)
  <2> HIDE DEF f
  <2> QED
    BY <1>3, <1>5, <1>6, <1>7 DEF SumsUpTo
<1>9. f[m + n] = g[m] + h[n]
  <2>1. CASE n = 0
    BY <1>3, <1>4, <2>1
  <2>2. CASE n # 0
    BY <1>3, <1>4, <2>2
  <2> QED
    BY <2>1, <2>2
<1> HIDE DEF f
<1>10. BytesOf(q \o r) = f[m + n]
  BY <1>3, <1>8, BytesOfSums
<1>11. BytesOf(q) = g[m] /\ BytesOf(r) = h[n]
  BY <1>1, <1>2, BytesOfSums DEF m, n
<1> QED
  BY <1>3, <1>9, <1>10, <1>11
---------------------------------------------------------------------------
(* The inductive invariant. *)

\* What NothingVanishes says of the stream, with the numbers in range.
Accounted(stream, all) ==
  \A k \in DOMAIN stream :
     stream[k].n # 0 =>
        /\ stream[k].n \in 1..Len(all)
        /\ stream[k] = all[stream[k].n]
        /\ BytesOf(SubSeq(stream, 1, k)) = BytesOf(SubSeq(all, 1, stream[k].n))

\* Every byte submitted is in the stream; while no batch is being written none
\* is left of the last one, and dropped bytes are announced in front of a line
\* that is still queued.
StreamInv ==
  /\ QueueBounded
  /\ Accounted(Stream, submitted) /\ BytesOf(Stream) = BytesOf(submitted)
  /\ ~writing => batch = <<>> /\ dropped = 0
  /\ lines = <<>> => droppedBytes = 0

\* A flush() has asked for lines that were submitted, and got them if it says so.
FlushInv ==
  /\ \A t \in Everyone : asked[t] <= Len(submitted)
  /\ FlushAccountsForAll

IInv == TypeOK /\ StreamInv /\ FlushInv

---------------------------------------------------------------------------
(* The stream. *)

\* A sequence of lines is its first k lines and the others.
LEMMA SplitAt ==
  ASSUME NEW q \in Seq(Line), NEW k \in 0..Len(q)
  PROVE  /\ SubSeq(q, 1, k) \in Seq(Line) /\ SubSeq(q, k + 1, Len(q)) \in Seq(Line)
         /\ Len(SubSeq(q, 1, k)) = k /\ Len(SubSeq(q, k + 1, Len(q))) = Len(q) - k
         /\ q = SubSeq(q, 1, k) \o SubSeq(q, k + 1, Len(q))
         /\ BytesOf(q) = BytesOf(SubSeq(q, 1, k)) + BytesOf(SubSeq(q, k + 1, Len(q)))
<1>1. Len(q) \in Nat /\ \A i \in 1..Len(q) : q[i] \in Line
  OBVIOUS
<1>2. SubSeq(q, 1, k) \in Seq(Line) /\ Len(SubSeq(q, 1, k)) = k
  BY <1>1, SubSeqProperties
<1>3. SubSeq(q, k + 1, Len(q)) \in Seq(Line) /\ Len(SubSeq(q, k + 1, Len(q))) = Len(q) - k
  BY <1>1, SubSeqProperties
<1>4. q = SubSeq(q, 1, k) \o SubSeq(q, k + 1, Len(q))
  <2>1. 1 \in 1..(Len(q) + 1) /\ k \in (1 - 1)..Len(q) /\ Len(q) \in k..Len(q)
    BY <1>1
  <2>2. SubSeq(q, 1, k) \o SubSeq(q, k + 1, Len(q)) = SubSeq(q, 1, Len(q))
    BY <2>1, ConcatAdjacentSubSeq
  <2> QED
    BY <2>2, SubSeqFull
<1> QED
  BY <1>2, <1>3, <1>4, BytesOfConcat

\* The first lines of two sequences one behind the other.
LEMMA PrefixOfConcat ==
  ASSUME NEW q \in Seq(Line), NEW r \in Seq(Line), NEW k \in 0..(Len(q) + Len(r))
  PROVE  /\ k <= Len(q) => SubSeq(q \o r, 1, k) = SubSeq(q, 1, k)
         /\ k >= Len(q) => SubSeq(q \o r, 1, k) = q \o SubSeq(r, 1, k - Len(q))
<1>1. /\ Len(q) \in Nat /\ Len(r) \in Nat
      /\ q \o r \in Seq(Line) /\ Len(q \o r) = Len(q) + Len(r)
      /\ \A i \in 1..(Len(q) + Len(r)) :
            (q \o r)[i] = IF i <= Len(q) THEN q[i] ELSE r[i - Len(q)]
  OBVIOUS
<1>2. SubSeq(q \o r, 1, k) = [i \in 1..k |-> (q \o r)[i]]
  BY <1>1
<1>3. ASSUME k <= Len(q) PROVE SubSeq(q \o r, 1, k) = SubSeq(q, 1, k)
  <2>1. SubSeq(q, 1, k) = [i \in 1..k |-> q[i]]
    BY <1>1, <1>3
  <2> QED
    BY <1>1, <1>2, <1>3, <2>1
<1>4. ASSUME k >= Len(q) PROVE SubSeq(q \o r, 1, k) = q \o SubSeq(r, 1, k - Len(q))
  <2> DEFINE p == SubSeq(r, 1, k - Len(q))
  <2>1. k - Len(q) \in 0..Len(r)
    BY <1>1, <1>4
  <2>2. p \in Seq(Line) /\ Len(p) = k - Len(q) /\ \A i \in 1..(k - Len(q)) : p[i] = r[i]
    BY <2>1, SplitAt
  <2> HIDE DEF p
  <2>3. /\ q \o p \in Seq(Line) /\ Len(q \o p) = k
        /\ \A i \in 1..k : (q \o p)[i] = IF i <= Len(q) THEN q[i] ELSE p[i - Len(q)]
    BY <1>1, <1>4, <2>2
  <2>4. \A i \in 1..k : (q \o p)[i] = (q \o r)[i]
    BY <1>1, <1>4, <2>2, <2>3
  <2>5. SubSeq(q \o r, 1, k) \in Seq(Line) /\ Len(SubSeq(q \o r, 1, k)) = k
    BY <1>1, SplitAt
  <2>6. \A i \in 1..k : SubSeq(q \o r, 1, k)[i] = (q \o r)[i]
    BY <1>2
  <2> QED
    BY <2>3, <2>4, <2>5, <2>6, SeqEqual DEF p
<1> QED
  BY <1>3, <1>4

\* One sequence behind another, as an operator the provers do not look into.
Cat(q, r) == q \o r

\* Three sequences one behind the other.
LEMMA CatAssociative ==
  ASSUME NEW q \in Seq(Line), NEW r \in Seq(Line), NEW s \in Seq(Line)
  PROVE  Cat(q, r) \in Seq(Line) /\ Cat(Cat(q, r), s) = Cat(q, Cat(r, s))
  BY ConcatAssociative DEF Cat

\* The queue behind the stream may be cut somewhere else.
LEMMA Regroup ==
  ASSUME NEW p \in Seq(Line), NEW n \in Seq(Line), NEW q \in Seq(Line), NEW l \in Seq(Line),
         NEW f \in Seq(Line), NEW r \in Seq(Line), Cat(q, l) = Cat(f, r)
  PROVE  Cat(Cat(Cat(p, n), q), l) = Cat(Cat(p, Cat(n, f)), r)
<1>1. Cat(p, n) \in Seq(Line)
  BY CatAssociative
<1>2. Cat(Cat(Cat(p, n), q), l) = Cat(Cat(p, n), Cat(q, l))
  BY <1>1, CatAssociative
<1>3. Cat(Cat(p, n), Cat(f, r)) = Cat(Cat(Cat(p, n), f), r)
  BY <1>1, CatAssociative
<1>4. Cat(Cat(p, n), f) = Cat(p, Cat(n, f))
  BY CatAssociative
<1> QED
  BY <1>2, <1>3, <1>4

\* A notice has the bytes it announces and no number.
LEMMA NoticeFact ==
  ASSUME NEW count \in Nat
  PROVE  /\ Notice(count) \in Seq(Line) /\ BytesOf(Notice(count)) = count
         /\ \A k \in 1..Len(Notice(count)) : Notice(count)[k].n = 0
<1>1. CASE count = 0
  BY <1>1, BytesOfNone DEF Notice
<1>2. CASE count # 0
  <2>1. [n |-> 0, size |-> count] \in Line
    BY DEF Line
  <2> QED
    BY <1>2, <2>1, BytesOfOne DEF Notice
<1> QED
  BY <1>1, <1>2

\* A line behind a complete stream is accounted for, and keeps it complete.
LEMMA AccountedAppend ==
  ASSUME NEW s \in Seq(Line), NEW all \in Seq(Line), NEW line \in Line,
         line.n = Len(all) + 1, Accounted(s, all), BytesOf(s) = BytesOf(all)
  PROVE  /\ Accounted(s \o <<line>>, Append(all, line))
         /\ BytesOf(s \o <<line>>) = BytesOf(Append(all, line))
<1> DEFINE t == s \o <<line>>
           more == all \o <<line>>
<1>1. Append(all, line) = more
  BY AppendIsConcat
<1>2. /\ Len(s) \in Nat /\ Len(all) \in Nat /\ <<line>> \in Seq(Line) /\ Len(<<line>>) = 1
      /\ t \in Seq(Line) /\ Len(t) = Len(s) + 1 /\ DOMAIN t = 1..(Len(s) + 1)
      /\ more \in Seq(Line) /\ Len(more) = Len(all) + 1
      /\ t[Len(s) + 1] = line /\ more[Len(all) + 1] = line
      /\ \A k \in 1..Len(s) : t[k] = s[k]
      /\ \A k \in 1..Len(all) : more[k] = all[k]
  OBVIOUS
<1>3. BytesOf(t) = BytesOf(more)
  <2>1. BytesOf(t) = BytesOf(s) + BytesOf(<<line>>)
    BY <1>2, BytesOfConcat
  <2>2. BytesOf(more) = BytesOf(all) + BytesOf(<<line>>)
    BY <1>2, BytesOfConcat
  <2> HIDE DEF t, more
  <2> QED
    BY <2>1, <2>2
<1>4. SubSeq(t, 1, Len(s) + 1) = t /\ SubSeq(more, 1, Len(all) + 1) = more
  BY <1>2, SubSeqFull
<1>5. \A k \in 1..Len(s) : SubSeq(t, 1, k) = SubSeq(s, 1, k)
  BY <1>2, PrefixOfConcat
<1>6. \A k \in 1..Len(all) : SubSeq(more, 1, k) = SubSeq(all, 1, k)
  BY <1>2, PrefixOfConcat
<1> HIDE DEF t, more
<1>7. ASSUME NEW k \in 1..(Len(s) + 1), t[k].n # 0
      PROVE  /\ t[k].n \in 1..Len(more) /\ t[k] = more[t[k].n]
             /\ BytesOf(SubSeq(t, 1, k)) = BytesOf(SubSeq(more, 1, t[k].n))
  <2>1. CASE k = Len(s) + 1
    <3>1. t[k] = line /\ t[k].n = Len(all) + 1 /\ Len(all) + 1 \in 1..Len(more)
      BY <1>2, <2>1
    <3>2. SubSeq(t, 1, k) = t /\ SubSeq(more, 1, t[k].n) = more
      BY <1>4, <2>1, <3>1
    <3>3. more[t[k].n] = line
      BY <1>2, <3>1
    <3> QED
      BY <1>3, <3>1, <3>2, <3>3
  <2>2. CASE k \in 1..Len(s)
    <3>1. /\ t[k] = s[k] /\ s[k].n \in 1..Len(all) /\ s[k] = all[s[k].n]
          /\ BytesOf(SubSeq(s, 1, k)) = BytesOf(SubSeq(all, 1, s[k].n))
      BY <1>2, <1>7, <2>2 DEF Accounted
    <3>2. t[k].n \in 1..Len(more) /\ t[k] = more[t[k].n]
      BY <1>2, <3>1
    <3>3. SubSeq(t, 1, k) = SubSeq(s, 1, k) /\ SubSeq(more, 1, t[k].n) = SubSeq(all, 1, s[k].n)
      BY <1>5, <1>6, <2>2, <3>1
    <3> QED
      BY <3>1, <3>2, <3>3
  <2> QED
    BY <1>2, <2>1, <2>2
<1>8. Accounted(t, more)
  BY <1>2, <1>7 DEF Accounted
<1> QED
  BY <1>1, <1>3, <1>8 DEF t

\* Lines in the middle of a stream may be replaced by a notice of their bytes.
LEMMA AccountedReplace ==
  ASSUME NEW p \in Seq(Line), NEW f \in Seq(Line), NEW g \in Seq(Line), NEW r \in Seq(Line),
         NEW all \in Seq(Line), Accounted(Cat(Cat(p, f), r), all),
         BytesOf(f) = BytesOf(g), \A k \in 1..Len(g) : g[k].n = 0
  PROVE  /\ Accounted(Cat(Cat(p, g), r), all)
         /\ BytesOf(Cat(Cat(p, g), r)) = BytesOf(Cat(Cat(p, f), r))
<1> DEFINE s == (p \o f) \o r
           t == (p \o g) \o r
<1>1. /\ Len(p) \in Nat /\ Len(f) \in Nat /\ Len(g) \in Nat /\ Len(r) \in Nat
      /\ p \o f \in Seq(Line) /\ Len(p \o f) = Len(p) + Len(f)
      /\ p \o g \in Seq(Line) /\ Len(p \o g) = Len(p) + Len(g)
      /\ s \in Seq(Line) /\ Len(s) = Len(p) + Len(f) + Len(r) /\ DOMAIN s = 1..Len(s)
      /\ t \in Seq(Line) /\ Len(t) = Len(p) + Len(g) + Len(r) /\ DOMAIN t = 1..Len(t)
  OBVIOUS
<1>2. BytesOf(p \o g) = BytesOf(p \o f)
  BY BytesOfConcat
<1>3. BytesOf(t) = BytesOf(s)
  <2>1. BytesOf(t) = BytesOf(p \o g) + BytesOf(r)
    BY <1>1, BytesOfConcat
  <2>2. BytesOf(s) = BytesOf(p \o f) + BytesOf(r)
    BY <1>1, BytesOfConcat
  <2> HIDE DEF s, t
  <2> QED
    BY <1>2, <2>1, <2>2
<1>4. ASSUME NEW k \in 1..Len(t), t[k].n # 0
      PROVE  \E j \in 1..Len(s) :
                t[k] = s[j] /\ BytesOf(SubSeq(t, 1, k)) = BytesOf(SubSeq(s, 1, j))
  <2>1. CASE k <= Len(p)
    <3>1. k \in 1..Len(s) /\ k \in 0..Len(p) /\ k \in 1..Len(p)
      BY <1>1, <2>1
    <3>2. t[k] = p[k] /\ s[k] = p[k]
      BY <1>1, <3>1
    <3>3. SubSeq(t, 1, k) = SubSeq(p \o g, 1, k) /\ SubSeq(s, 1, k) = SubSeq(p \o f, 1, k)
      BY <1>1, <3>1, PrefixOfConcat
    <3>4. SubSeq(p \o g, 1, k) = SubSeq(p, 1, k) /\ SubSeq(p \o f, 1, k) = SubSeq(p, 1, k)
      BY <1>1, <3>1, PrefixOfConcat
    <3> HIDE DEF s, t
    <3> QED
      BY <3>1, <3>2, <3>3, <3>4
  <2>2. CASE k > Len(p) /\ k <= Len(p) + Len(g)
    <3>1. k \in 1..Len(p \o g) /\ k - Len(p) \in 1..Len(g)
      BY <1>1, <2>2
    <3>2. t[k] = (p \o g)[k]
      BY <1>1, <3>1
    <3>3. (p \o g)[k] = g[k - Len(p)]
      BY <1>1, <2>2, <3>1
    <3> QED
      BY <1>4, <3>1, <3>2, <3>3
  <2>3. CASE k > Len(p) + Len(g)
    <3> DEFINE i == k - (Len(p) + Len(g))
               j == i + (Len(p) + Len(f))
    <3>1. /\ i \in 1..Len(r) /\ j \in 1..Len(s) /\ j > Len(p) + Len(f)
          /\ j - Len(p \o f) = i /\ k - Len(p \o g) = i
      BY <1>1, <2>3
    <3>2. t[k] = r[i] /\ s[j] = r[i]
      BY <1>1, <2>3, <3>1
    <3>3. SubSeq(t, 1, k) = (p \o g) \o SubSeq(r, 1, i)
      <4>1. k \in 0..(Len(p \o g) + Len(r)) /\ k >= Len(p \o g)
        BY <1>1, <2>3
      <4>2. SubSeq(t, 1, k) = (p \o g) \o SubSeq(r, 1, k - Len(p \o g))
        BY <1>1, <4>1, PrefixOfConcat
      <4> QED
        BY <3>1, <4>2
    <3>4. SubSeq(s, 1, j) = (p \o f) \o SubSeq(r, 1, i)
      <4>1. j \in 0..(Len(p \o f) + Len(r)) /\ j >= Len(p \o f)
        BY <1>1, <3>1
      <4>2. SubSeq(s, 1, j) = (p \o f) \o SubSeq(r, 1, j - Len(p \o f))
        BY <1>1, <4>1, PrefixOfConcat
      <4> QED
        BY <3>1, <4>2
    <3>5. SubSeq(r, 1, i) \in Seq(Line)
      BY <1>1, <3>1, SplitAt
    <3>6. BytesOf(SubSeq(t, 1, k)) = BytesOf(SubSeq(s, 1, j))
      <4>1. BytesOf((p \o g) \o SubSeq(r, 1, i)) = BytesOf(p \o g) + BytesOf(SubSeq(r, 1, i))
        BY <1>1, <3>5, BytesOfConcat
      <4>2. BytesOf((p \o f) \o SubSeq(r, 1, i)) = BytesOf(p \o f) + BytesOf(SubSeq(r, 1, i))
        BY <1>1, <3>5, BytesOfConcat
      <4> HIDE DEF s, t, i, j
      <4> QED
        BY <1>2, <3>3, <3>4, <4>1, <4>2
    <3> HIDE DEF s, t, i, j
    <3> QED
      BY <3>1, <3>2, <3>6
  <2> QED
    BY <1>1, <2>1, <2>2, <2>3
<1> HIDE DEF s, t
<1>5. Accounted(t, all)
  <2>1. Accounted(s, all)
    BY DEF s, Cat
  <2>2. ASSUME NEW k \in 1..Len(t), t[k].n # 0
        PROVE  /\ t[k].n \in 1..Len(all) /\ t[k] = all[t[k].n]
               /\ BytesOf(SubSeq(t, 1, k)) = BytesOf(SubSeq(all, 1, t[k].n))
    <3>1. PICK j \in 1..Len(s) :
             t[k] = s[j] /\ BytesOf(SubSeq(t, 1, k)) = BytesOf(SubSeq(s, 1, j))
      BY <1>4, <2>2
    <3>2. /\ s[j].n \in 1..Len(all) /\ s[j] = all[s[j].n]
          /\ BytesOf(SubSeq(s, 1, j)) = BytesOf(SubSeq(all, 1, s[j].n))
      BY <1>1, <2>1, <2>2, <3>1 DEF Accounted
    <3> QED
      BY <3>1, <3>2
  <2> QED
    BY <1>1, <2>2 DEF Accounted
<1> QED
  BY <1>3, <1>5 DEF s, t, Cat

\* The loop of submit() drops fewer lines than there are, and stops where the
\* rest is within the limit or is the newest line.
LEMMA DroppedFact ==
  ASSUME NEW queue \in Seq(Line), queue # <<>>, NEW total
  PROVE  LET k == Dropped(queue, total)
         IN  /\ k \in 0..(Len(queue) - 1)
             /\ \/ k + 1 = Len(queue)
                \/ total - BytesOf(SubSeq(queue, 1, k)) <= MaxQueuedBytes
<1> DEFINE S == {k \in 0..(Len(queue) - 1) :
                   k + 1 = Len(queue) \/ total - BytesOf(SubSeq(queue, 1, k)) <= MaxQueuedBytes}
<1>1. Len(queue) \in Nat \ {0}
  OBVIOUS
<1>2. Len(queue) - 1 \in S /\ S \in SUBSET Nat
  BY <1>1
<1>3. \E x \in S : \A y \in S : x <= y
  <2> HIDE DEF S
  <2> QED
    BY <1>2, LeastNatural
<1>4. Min(S) \in S
  <2> HIDE DEF S
  <2> QED
    BY <1>3 DEF Min
<1>5. Dropped(queue, total) = Min(S)
  BY DEF Dropped
<1> HIDE DEF Dropped
<1> QED
  BY <1>4, <1>5
---------------------------------------------------------------------------
(* The steps. *)

\* A log nobody has written to.
LEMMA LogInit == Init => IInv
<1> SUFFICES ASSUME Init PROVE IInv
  OBVIOUS
<1> USE LogAssumption
<1>1. TypeOK
  <2>1. at \in [Everyone -> Places]
    BY DEF Init, Places
  <2>2. lines \in Seq(Line) /\ batch \in Seq(Line) /\ out \in Seq(Line) /\ submitted \in Seq(Line)
    BY DEF Init
  <2> QED
    BY <2>1, <2>2 DEF Init, TypeOK
<1>2. Stream = <<>> /\ submitted = <<>> /\ lines = <<>>
  BY DEF Init, Stream, Notice
<1>3. StreamInv
  <2>1. Accounted(Stream, submitted)
    BY <1>2 DEF Accounted
  <2>2. QueueBounded
    BY <1>2, BytesOfNone DEF Init, QueueBounded
  <2> QED
    BY <1>2, <2>1, <2>2 DEF Init, StreamInv
<1>4. FlushInv
  BY <1>2 DEF Init, FlushInv, FlushAccountsForAll
<1> QED
  BY <1>1, <1>3, <1>4 DEF IInv

\* Steps that leave the queue, the writer's batch and the output alone.
LEMMA StreamKept ==
  ASSUME StreamInv, UNCHANGED <<queueVars, writerVars, submitted>>
  PROVE  StreamInv'
<1>1. UNCHANGED <<lines, bytes, droppedBytes, writing, batch, dropped, out, submitted>>
  BY DEF queueVars, writerVars
<1>2. UNCHANGED Stream
  BY <1>1 DEF Stream
<1>3. UNCHANGED QueueBounded
  BY <1>1 DEF QueueBounded
<1> QED
  BY <1>1, <1>2, <1>3 DEF StreamInv

\* The parts of the stream.
LEMMA StreamType ==
  ASSUME TypeOK
  PROVE  /\ out \in Seq(Line) /\ batch \in Seq(Line) /\ lines \in Seq(Line)
         /\ Notice(dropped) \in Seq(Line) /\ Notice(droppedBytes) \in Seq(Line)
         /\ out \o Notice(dropped) \in Seq(Line)
         /\ out \o Notice(dropped) \o batch \in Seq(Line)
         /\ out \o Notice(dropped) \o batch \o Notice(droppedBytes) \in Seq(Line)
         /\ Stream \in Seq(Line)
<1>1. /\ out \in Seq(Line) /\ batch \in Seq(Line) /\ lines \in Seq(Line)
      /\ Notice(dropped) \in Seq(Line) /\ Notice(droppedBytes) \in Seq(Line)
  BY NoticeFact DEF TypeOK
<1> QED
  BY <1>1, BytesOfConcat DEF Stream

\* Steps that leave the history alone and do not take back any output.
LEMMA FlushKept ==
  ASSUME TypeOK, FlushInv, UNCHANGED <<asked, result>>,
         \/ UNCHANGED <<out, submitted>>
         \/ \E line \in Line : out' = Append(out, line) /\ UNCHANGED submitted
         \/ \E line \in Line : submitted' = Append(submitted, line) /\ UNCHANGED out
  PROVE  FlushInv'
<1>1. CASE UNCHANGED <<out, submitted>>
  BY <1>1 DEF FlushInv, FlushAccountsForAll
<1>2. CASE \E line \in Line : out' = Append(out, line) /\ UNCHANGED submitted
  <2>1. PICK line \in Line : out' = Append(out, line)
    BY <1>2
  <2>2. out \in Seq(Line) /\ <<line>> \in Seq(Line) /\ out' = out \o <<line>>
    BY <2>1, AppendIsConcat DEF TypeOK
  <2>3. BytesOf(out') = BytesOf(out) + BytesOf(<<line>>)
    BY <2>2, BytesOfConcat
  <2>4. BytesOf(out') >= BytesOf(out) /\ BytesOf(out) \in Nat /\ BytesOf(out') \in Nat
    <3>1. BytesOf(out) \in Nat /\ BytesOf(<<line>>) \in Nat
      BY <2>2, BytesType
    <3> QED
      BY <2>3, <3>1
  <2>5. \A t \in Everyone : BytesOf(SubSeq(submitted, 1, asked[t])) \in Nat
    <3> TAKE t \in Everyone
    <3>1. asked[t] \in 0..Len(submitted) /\ submitted \in Seq(Line)
      BY DEF TypeOK, FlushInv
    <3> QED
      BY <3>1, SplitAt, BytesType
  <2> QED
    BY <1>2, <2>4, <2>5 DEF FlushInv, FlushAccountsForAll
<1>3. CASE \E line \in Line : submitted' = Append(submitted, line) /\ UNCHANGED out
  <2>1. PICK line \in Line : submitted' = Append(submitted, line)
    BY <1>3
  <2>2. /\ submitted \in Seq(Line) /\ <<line>> \in Seq(Line)
        /\ submitted' = submitted \o <<line>> /\ Len(<<line>>) = 1
        /\ Len(submitted) \in Nat /\ Len(submitted') = Len(submitted) + 1
    BY <2>1, AppendIsConcat DEF TypeOK
  <2>3. ASSUME NEW t \in Everyone
        PROVE  /\ asked'[t] <= Len(submitted')
               /\ SubSeq(submitted', 1, asked'[t]) = SubSeq(submitted, 1, asked[t])
    <3>1. asked[t] \in Nat /\ asked[t] <= Len(submitted) /\ asked'[t] = asked[t]
      BY DEF TypeOK, FlushInv
    <3>2. asked[t] \in 0..(Len(submitted) + Len(<<line>>))
      BY <2>2, <3>1
    <3> QED
      BY <2>2, <3>1, <3>2, PrefixOfConcat
  <2> QED
    BY <1>3, <2>3 DEF FlushInv, FlushAccountsForAll
<1> QED
  BY <1>1, <1>2, <1>3
\* What Push() makes of the queue: the new line is behind the others, `gone' are
\* the bytes of the lines dropped from the front.
LEMMA PushFact ==
  ASSUME TypeOK, QueueBounded, NEW t \in Threads, Push(t)
  PROVE  \E line \in Line, front \in Seq(Line) :
           /\ line.n = Len(submitted) + 1
           /\ submitted' = Append(submitted, line)
           /\ lines' \in Seq(Line) /\ lines' # <<>>
           /\ lines \o <<line>> = front \o lines'
           /\ droppedBytes' = droppedBytes + BytesOf(front)
           /\ bytes' = BytesOf(lines')
           /\ bytes' <= MaxQueuedBytes \/ Len(lines') = 1
<1> DEFINE line == [n |-> Len(submitted) + 1, size |-> pending[t]]
           queue == Append(lines, line)
           total == bytes + line.size
           k == Dropped(queue, total)
           front == SubSeq(queue, 1, k)
           rest == SubSeq(queue, k + 1, Len(queue))
<1>1. line \in Line /\ line.n = Len(submitted) + 1
  BY DEF TypeOK, Line
<1>2. /\ submitted' = Append(submitted, line) /\ lines' = rest
      /\ bytes' = total - BytesOf(front)
      /\ droppedBytes' = droppedBytes + BytesOf(front)
  BY DEF Push
<1> HIDE DEF line
<1>3. /\ queue \in Seq(Line) /\ queue # <<>> /\ queue = lines \o <<line>>
      /\ Len(queue) \in Nat /\ Len(queue) > 0
  BY <1>1, AppendIsConcat DEF TypeOK
<1>4. BytesOf(queue) = total
  <2>1. lines \in Seq(Line) /\ <<line>> \in Seq(Line) /\ BytesOf(<<line>>) = line.size
    BY <1>1, BytesOfOne DEF TypeOK
  <2>2. BytesOf(lines \o <<line>>) = BytesOf(lines) + BytesOf(<<line>>)
    BY <2>1, BytesOfConcat
  <2> QED
    BY <1>3, <2>1, <2>2 DEF QueueBounded
<1> HIDE DEF queue, total
<1>5. /\ k \in 0..(Len(queue) - 1)
      /\ k + 1 = Len(queue) \/ total - BytesOf(front) <= MaxQueuedBytes
  BY <1>3, DroppedFact
<1> HIDE DEF k
<1>6. /\ front \in Seq(Line) /\ rest \in Seq(Line) /\ queue = front \o rest
      /\ Len(rest) = Len(queue) - k
      /\ BytesOf(queue) = BytesOf(front) + BytesOf(rest)
  <2>1. k \in 0..Len(queue)
    BY <1>3, <1>5
  <2> QED
    BY <1>3, <2>1, SplitAt
<1> HIDE DEF front, rest
<1>7. BytesOf(front) \in Nat /\ BytesOf(rest) \in Nat
  BY <1>6, BytesType
<1>8. bytes' = BytesOf(rest)
  BY <1>2, <1>4, <1>6, <1>7
<1>9. rest # <<>>
  BY <1>3, <1>5, <1>6
<1>10. bytes' <= MaxQueuedBytes \/ Len(rest) = 1
  BY <1>2, <1>3, <1>5, <1>6
<1> QED
  BY <1>1, <1>2, <1>3, <1>6, <1>8, <1>9, <1>10

\* Push() keeps every byte in the stream and the queue within its limit.
LEMMA PushStream ==
  ASSUME TypeOK, StreamInv, NEW t \in Threads, Push(t)
  PROVE  StreamInv' /\ lines' \in Seq(Line) /\ bytes' \in Nat /\ droppedBytes' \in Nat
<1>1. PICK line \in Line, front \in Seq(Line) :
           /\ line.n = Len(submitted) + 1
           /\ submitted' = Append(submitted, line)
           /\ lines' \in Seq(Line) /\ lines' # <<>>
           /\ lines \o <<line>> = front \o lines'
           /\ droppedBytes' = droppedBytes + BytesOf(front)
           /\ bytes' = BytesOf(lines')
           /\ bytes' <= MaxQueuedBytes \/ Len(lines') = 1
  BY PushFact DEF StreamInv
<1>2. UNCHANGED <<writing, batch, dropped, out>>
  BY DEF Push, writerVars
<1> DEFINE p == out \o Notice(dropped) \o batch
           f == Notice(droppedBytes) \o front
           g == Notice(droppedBytes')
<1>3. BytesOf(front) \in Nat /\ bytes' \in Nat /\ droppedBytes' \in Nat /\ droppedBytes \in Nat
  <2>1. BytesOf(front) \in Nat /\ BytesOf(lines') \in Nat
    BY <1>1, BytesType
  <2>2. droppedBytes \in Nat
    BY DEF TypeOK
  <2> QED
    BY <1>1, <2>1, <2>2
<1>4. /\ p \in Seq(Line) /\ f \in Seq(Line) /\ g \in Seq(Line)
      /\ BytesOf(f) = BytesOf(g)
      /\ \A k \in 1..Len(g) : g[k].n = 0
  <2>1. p \in Seq(Line) /\ Notice(droppedBytes) \in Seq(Line)
    BY StreamType
  <2>2. f \in Seq(Line) /\ BytesOf(f) = BytesOf(Notice(droppedBytes)) + BytesOf(front)
    BY <2>1, BytesOfConcat
  <2>3. BytesOf(Notice(droppedBytes)) = droppedBytes
    BY <1>3, NoticeFact
  <2>4. g \in Seq(Line) /\ BytesOf(g) = droppedBytes' /\ \A k \in 1..Len(g) : g[k].n = 0
    BY <1>3, NoticeFact
  <2> HIDE DEF p, f, g
  <2> QED
    BY <1>1, <2>1, <2>2, <2>3, <2>4
<1>5. Stream \o <<line>> = Cat(Cat(p, f), lines')
  <2>1. /\ p \in Seq(Line) /\ lines \in Seq(Line) /\ <<line>> \in Seq(Line)
        /\ Notice(droppedBytes) \in Seq(Line)
    BY StreamType
  <2> DEFINE l == <<line>>
             n == Notice(droppedBytes)
  <2>2. Cat(lines, l) = Cat(front, lines')
    BY <1>1 DEF Cat
  <2>3. /\ p \in Seq(Line) /\ lines \in Seq(Line) /\ l \in Seq(Line) /\ n \in Seq(Line)
        /\ lines' \in Seq(Line)
    BY <1>1, <2>1
  <2> HIDE DEF p, l, n
  <2>4. Cat(Cat(Cat(p, n), lines), l) = Cat(Cat(p, Cat(n, front)), lines')
    BY <2>2, <2>3, Regroup
  <2> QED
    BY <2>4 DEF Stream, Cat, p, l, n
<1>6. Stream' = Cat(Cat(p, g), lines')
  BY <1>2 DEF Stream, Cat
<1> HIDE DEF p, f, g
<1>7. /\ Accounted(Stream \o <<line>>, submitted')
      /\ BytesOf(Stream \o <<line>>) = BytesOf(submitted')
  BY <1>1, StreamType, AccountedAppend DEF StreamInv, TypeOK
<1>8. /\ Accounted(Cat(Cat(p, g), lines'), submitted')
      /\ BytesOf(Cat(Cat(p, g), lines')) = BytesOf(Cat(Cat(p, f), lines'))
  <2>1. submitted' \in Seq(Line)
    BY <1>1 DEF TypeOK
  <2>2. Accounted(Cat(Cat(p, f), lines'), submitted')
    BY <1>5, <1>7
  <2>3. lines' \in Seq(Line)
    BY <1>1
  <2> QED
    BY <1>4, <2>1, <2>2, <2>3, AccountedReplace
<1>9. QueueBounded'
  BY <1>1 DEF QueueBounded
<1>10. Accounted(Stream', submitted') /\ BytesOf(Stream') = BytesOf(submitted')
  BY <1>5, <1>6, <1>7, <1>8
<1> QED
  BY <1>1, <1>2, <1>3, <1>9, <1>10 DEF StreamInv
\* What the writer takes over becomes what it has to write.
LEMMA TakeOver ==
  ASSUME NEW o \in Seq(Line), NEW n \in Seq(Line), NEW q \in Seq(Line)
  PROVE  o \o <<>> \o <<>> \o n \o q = o \o n \o q \o <<>> \o <<>>
<1>1. o \o <<>> = o /\ o \o n \in Seq(Line)
  BY ConcatEmptySeq
<1>2. o \o n \o q \in Seq(Line)
  BY <1>1
<1>3. o \o n \o q \o <<>> = o \o n \o q
  BY <1>2, ConcatEmptySeq
<1> QED
  BY <1>1, <1>3

\* The head of a batch may stand at the end of the output.
LEMMA MoveHead ==
  ASSUME NEW o \in Seq(Line), NEW b \in Seq(Line), b # <<>>
  PROVE  Append(o, Head(b)) \o Tail(b) = o \o b
<1>1. Head(b) \in Line /\ Tail(b) \in Seq(Line) /\ Len(b) \in Nat \ {0}
  OBVIOUS
<1> DEFINE x == Append(o, Head(b)) \o Tail(b)
           y == o \o b
<1>2. x \in Seq(Line) /\ y \in Seq(Line) /\ Len(x) = Len(y) /\ Len(x) = Len(o) + Len(b)
  BY <1>1
<1>3. \A k \in 1..Len(x) : x[k] = y[k]
  BY <1>1, <1>2
<1> HIDE DEF x, y
<1>4. x = y
  BY <1>2, <1>3, SeqEqual
<1> QED
  BY <1>4 DEF x, y

\* The writer moves the stream on and changes nothing in it.
LEMMA WriterStream ==
  ASSUME TypeOK, StreamInv, WriterStep
  PROVE  /\ StreamInv'
         /\ lines' \in Seq(Line) /\ batch' \in Seq(Line) /\ out' \in Seq(Line)
         /\ bytes' \in Nat /\ droppedBytes' \in Nat /\ dropped' \in Nat /\ writing' \in BOOLEAN
         /\ UNCHANGED submitted
         /\ out' = out \/ \E line \in Line : out' = Append(out, line)
<1>1. UNCHANGED submitted
  BY DEF WriterStep, WriterStarts, WriteNotice, WriteLine, FinishBatch
<1>2. CASE TakeBatch /\ UNCHANGED out /\ batch = <<>> /\ dropped = 0
  <2>1. /\ batch' = lines /\ lines' = <<>> /\ bytes' = 0 /\ dropped' = droppedBytes
        /\ droppedBytes' = 0 /\ writing' = TRUE /\ UNCHANGED out
    BY <1>2 DEF TakeBatch
  <2>2. Stream = out \o <<>> \o <<>> \o Notice(droppedBytes) \o lines
    BY <1>2 DEF Stream, Notice
  <2>3. Stream' = out \o Notice(droppedBytes) \o lines \o <<>> \o <<>>
    BY <2>1 DEF Stream, Notice
  <2>4. Stream' = Stream
    BY <2>2, <2>3, StreamType, TakeOver
  <2>5. QueueBounded'
    BY <2>1, BytesOfNone, LogAssumption DEF QueueBounded
  <2>6. StreamInv'
    BY <1>1, <2>1, <2>4, <2>5 DEF StreamInv
  <2> QED
    BY <1>1, <2>1, <2>6 DEF TypeOK
<1>3. CASE AwaitLines /\ UNCHANGED out /\ batch = <<>> /\ dropped = 0
  <2>1. UNCHANGED <<lines, bytes, droppedBytes, batch, dropped, out>> /\ writing' = FALSE
    BY <1>3 DEF AwaitLines
  <2>2. UNCHANGED Stream /\ UNCHANGED QueueBounded
    BY <2>1 DEF Stream, QueueBounded
  <2>3. StreamInv'
    BY <1>1, <1>3, <2>1, <2>2 DEF StreamInv
  <2> QED
    BY <1>1, <2>1, <2>3 DEF TypeOK
<1>4. CASE WriteNotice
  <2> DEFINE x == [n |-> 0, size |-> dropped]
  <2>1. /\ out' = Append(out, x) /\ dropped' = 0 /\ dropped # 0
        /\ UNCHANGED <<lines, bytes, droppedBytes, writing, batch>>
    BY <1>4 DEF WriteNotice, queueVars
  <2>2. x \in Line
    BY DEF TypeOK, Line
  <2>3. out \o Notice(dropped) = Append(out, x)
    BY <2>1, <2>2, AppendIsConcat DEF TypeOK, Notice
  <2>4. out' \o Notice(dropped') = Append(out, x)
    BY <2>1, <2>2, ConcatEmptySeq DEF TypeOK, Notice
  <2>5. Stream' = Stream
    BY <2>1, <2>3, <2>4 DEF Stream
  <2>6. UNCHANGED QueueBounded
    BY <2>1 DEF QueueBounded
  <2>7. StreamInv'
    BY <1>1, <2>1, <2>5, <2>6 DEF StreamInv
  <2> QED
    BY <1>1, <2>1, <2>2, <2>7 DEF TypeOK
<1>5. CASE WriteLine
  <2>1. /\ out' = Append(out, Head(batch)) /\ batch' = Tail(batch) /\ batch # <<>>
        /\ dropped = 0 /\ UNCHANGED <<lines, bytes, droppedBytes, writing, dropped>>
    BY <1>5 DEF WriteLine, queueVars
  <2>2. batch \in Seq(Line) /\ Head(batch) \in Line /\ out \in Seq(Line)
    BY <2>1 DEF TypeOK
  <2>3. out \o Notice(dropped) = out
    BY <2>1, <2>2, ConcatEmptySeq DEF Notice
  <2>4. out' \o Notice(dropped') = out'
    BY <2>1, <2>2, ConcatEmptySeq DEF Notice
  <2>5. out' \o batch' = out \o batch
    BY <2>1, <2>2, MoveHead
  <2>6. Stream' = Stream
    BY <2>1, <2>3, <2>4, <2>5 DEF Stream
  <2>7. UNCHANGED QueueBounded
    BY <2>1 DEF QueueBounded
  <2>8. StreamInv'
    BY <1>1, <2>1, <2>6, <2>7 DEF StreamInv
  <2> QED
    BY <1>1, <2>1, <2>2, <2>8 DEF TypeOK
<1>6. CASE WriterStarts \/ FinishBatch
  BY <1>2, <1>3, <1>6 DEF WriterStarts, FinishBatch, TypeOK
<1> QED
  BY <1>4, <1>5, <1>6 DEF WriterStep
\* With nothing queued and nothing being written, all that was submitted is out.
LEMMA DrainedIsOut ==
  ASSUME TypeOK, StreamInv, Drained
  PROVE  BytesOf(out) = BytesOf(submitted)
<1>1. lines = <<>> /\ batch = <<>> /\ dropped = 0 /\ droppedBytes = 0 /\ out \in Seq(Line)
  BY DEF Drained, StreamInv, TypeOK
<1>2. Stream = out \o <<>> \o <<>> \o <<>> \o <<>>
  BY <1>1 DEF Stream, Notice
<1>3. Stream = out
  BY <1>1, <1>2, ConcatEmptySeq
<1> QED
  BY <1>3 DEF StreamInv

\* flush() returns true only then.
LEMMA CheckKeeps ==
  ASSUME TypeOK, StreamInv, FlushInv, NEW t \in Everyone,
         CheckDrained(t) \/ Return(t, "timeout"), UNCHANGED <<out, submitted, asked>>
  PROVE  FlushInv'
<1>1. ASSUME Drained PROVE BytesOf(out) >= BytesOf(SubSeq(submitted, 1, asked[t]))
  <2>1. asked[t] \in 0..Len(submitted) /\ submitted \in Seq(Line)
    BY DEF TypeOK, FlushInv
  <2> DEFINE front == SubSeq(submitted, 1, asked[t])
             rest == SubSeq(submitted, asked[t] + 1, Len(submitted))
  <2>2. /\ front \in Seq(Line) /\ rest \in Seq(Line)
        /\ BytesOf(submitted) = BytesOf(front) + BytesOf(rest)
    BY <2>1, SplitAt
  <2> HIDE DEF front, rest
  <2>3. BytesOf(front) \in Nat /\ BytesOf(rest) \in Nat
    BY <2>2, BytesType
  <2>4. BytesOf(out) >= BytesOf(front)
    BY <1>1, <2>2, <2>3, DrainedIsOut
  <2> QED
    BY <2>4 DEF front
<1>2. \A s \in Everyone \ {t} : result'[s] = result[s]
  BY DEF CheckDrained, Return, TypeOK
<1>3. result'[t] = "drained" => Drained \/ result[t] = "drained"
  BY DEF CheckDrained, Return, TypeOK
<1>4. ASSUME NEW s \in Everyone, result'[s] = "drained"
      PROVE  BytesOf(out) >= BytesOf(SubSeq(submitted, 1, asked[s]))
  BY <1>1, <1>2, <1>3, <1>4 DEF FlushInv, FlushAccountsForAll
<1> QED
  BY <1>4 DEF FlushInv, FlushAccountsForAll

\* A new call of flush() asks for what has been submitted.
LEMMA BeginKeeps ==
  ASSUME TypeOK, FlushInv, NEW t \in Everyone, BeginFlush(t), UNCHANGED <<out, submitted>>
  PROVE  FlushInv'
<1>1. /\ asked'[t] = Len(submitted) /\ result'[t] = "none" /\ Len(submitted) \in Nat
      /\ \A s \in Everyone \ {t} : asked'[s] = asked[s] /\ result'[s] = result[s]
  BY DEF BeginFlush, TypeOK
<1> QED
  BY <1>1 DEF FlushInv, FlushAccountsForAll

---------------------------------------------------------------------------
(* The types. *)

\* What the actions say of places: the writer waits for lines only in its own
\* steps, and a thread that holds the mutex stays where it is unless it crashes.
PlacesKept ==
  /\ at' \in [Everyone -> Places]
  /\ at'[Writer] \in {"woken", "waiting"} => at[Writer] \in {"woken", "waiting"}
  /\ \A t \in Threads : at[t] = "locked" /\ t \notin ending => at'[t] = "locked" \/ t \in ending'

\* A thread other than the writer goes somewhere else.
LEMMA GotoKeeps ==
  ASSUME TypeOK, NEW t \in Everyone, NEW place \in Places, Goto(t, place),
         t = Writer => place \notin {"woken", "waiting"},
         at[t] = "locked" => t \in ending'
  PROVE  PlacesKept
<1>1. at' = [at EXCEPT ![t] = place] /\ at \in [Everyone -> Places]
  BY DEF Goto, TypeOK
<1> QED
  BY <1>1, LogAssumption DEF PlacesKept, Everyone

\* The type invariant needs no more than that of a step that leaves the queue alone.
LEMMA TypeKept ==
  ASSUME TypeOK, PlacesKept, UNCHANGED <<queueVars, writerVars, submitted>>,
         UNCHANGED mutex \/ (mutex' \in Threads /\ at'[mutex'] = "locked"),
         partial' \in [Threads -> Nat], pending' \in [Threads -> Nat],
         ending' \subseteq Everyone, ending \subseteq ending',
         expired' \subseteq Everyone, notified' \subseteq Everyone,
         result' \in [Everyone -> {"none", "drained", "timeout"}],
         asked' \in [Everyone -> Nat]
  PROVE  TypeOK'
<1>1. UNCHANGED <<lines, bytes, droppedBytes, writing, batch, dropped, out, submitted>>
  BY DEF queueVars, writerVars
<1>2. mutex' \in Threads \cup {"free"}
  BY DEF TypeOK
<1>3. mutex' # "free" => at'[mutex'] = "locked" \/ mutex' \in ending'
  BY LogAssumption DEF TypeOK, PlacesKept
<1>4. at'[Writer] \in {"woken", "waiting"} => ~writing /\ batch = <<>> /\ dropped = 0
  BY DEF TypeOK, PlacesKept
<1> QED
  BY <1>1, <1>2, <1>3, <1>4 DEF TypeOK, PlacesKept
---------------------------------------------------------------------------
(* The actions. *)

\* LineBuffer::append() and the exit of a thread touch their own line only.
LEMMA BufferKeeps ==
  ASSUME IInv, NEW t \in Threads, AppendText(t) \/ Exit(t)
  PROVE  IInv'
<1>1. TypeOK /\ StreamInv /\ FlushInv /\ t \in Everyone /\ t # Writer
  BY LogAssumption DEF IInv, Everyone
<1>2. UNCHANGED <<queueVars, writerVars, submitted, mutex>> /\ UNCHANGED flushVars
  BY DEF AppendText, Exit
<1>3. partial \in [Threads -> Nat] /\ pending \in [Threads -> Nat] /\ at[t] = "running"
  BY <1>1 DEF TypeOK, AppendText, Exit
<1>4. /\ partial' \in [Threads -> Nat] /\ pending' \in [Threads -> Nat]
      /\ UNCHANGED at \/ Goto(t, "submitting") \/ Goto(t, "gone")
      /\ ending' \in {ending, ending \cup {t}}
  <2>1. CASE AppendText(t)
    <3>1. PICK ended \in Pieces \cup {0}, rest \in Pieces \cup {0} :
       \/ partial' = [partial EXCEPT ![t] = @ + rest] /\ UNCHANGED <<pending, at>>
       \/ /\ pending' = [pending EXCEPT ![t] = partial[t] + ended]
          /\ partial' = [partial EXCEPT ![t] = rest]
          /\ Goto(t, "submitting")
      BY <2>1 DEF AppendText
    <3>2. ended \in Nat /\ rest \in Nat /\ partial[t] \in Nat
      BY <1>3, LogAssumption
    <3>3. UNCHANGED ending
      BY <2>1 DEF AppendText
    <3> QED
      BY <1>3, <3>1, <3>2, <3>3
  <2>2. CASE Exit(t)
    BY <1>3, <2>2 DEF Exit
  <2> QED
    BY <2>1, <2>2
<1>5. PlacesKept
  <2>1. CASE UNCHANGED at
    BY <1>1, <2>1 DEF PlacesKept, TypeOK
  <2>2. CASE Goto(t, "submitting") \/ Goto(t, "gone")
    BY <1>1, <1>3, <2>2, GotoKeeps DEF Places
  <2> QED
    BY <1>4, <2>1, <2>2
<1>6. TypeOK'
  <2>1. /\ ending' \subseteq Everyone /\ ending \subseteq ending'
        /\ expired' \subseteq Everyone /\ notified' \subseteq Everyone
        /\ result' \in [Everyone -> {"none", "drained", "timeout"}]
        /\ asked' \in [Everyone -> Nat]
    BY <1>1, <1>2, <1>4 DEF TypeOK, flushVars
  <2> QED
    BY <1>1, <1>2, <1>4, <1>5, <2>1, TypeKept
<1>7. StreamInv'
  BY <1>1, <1>2, StreamKept
<1>8. FlushInv'
  BY <1>1, <1>2, FlushKept DEF flushVars, writerVars
<1> QED
  BY <1>6, <1>7, <1>8 DEF IInv

\* submit() takes the mutex, and wakes the writer when it has released it.
LEMMA LockNotifyKeep ==
  ASSUME IInv, NEW t \in Threads, Lock(t) \/ Notify(t)
  PROVE  IInv'
<1>1. TypeOK /\ StreamInv /\ FlushInv /\ t \in Everyone /\ t # Writer /\ Writer \in Everyone
  BY LogAssumption DEF IInv, Everyone
<1>2. UNCHANGED <<queueVars, writerVars, submitted>> /\ UNCHANGED flushVars
      /\ UNCHANGED threadVars
  BY DEF Lock, Notify
<1>3. PlacesKept
  <2>1. CASE Lock(t)
    BY <1>1, <2>1, GotoKeeps DEF Lock, Places
  <2>2. CASE Notify(t)
    <3> DEFINE now == [at EXCEPT ![t] = IF t \in ending THEN "gone" ELSE "running"]
    <3>1. at \in [Everyone -> Places] /\ at[t] = "notifying"
      BY <1>1, <2>2 DEF TypeOK, Notify
    <3>2. now \in [Everyone -> Places] /\ now[Writer] = at[Writer]
          /\ \A u \in Threads \ {t} : now[u] = at[u]
      BY <1>1, <3>1 DEF Places, Everyone
    <3>3. at' = [now EXCEPT ![Writer] = IF @ = "waiting" THEN "woken" ELSE @]
      BY <2>2 DEF Notify, WakeWriter
    <3> HIDE DEF now
    <3>4. at' \in [Everyone -> Places] /\ \A u \in Threads : at'[u] = now[u]
      BY <1>1, <3>2, <3>3, LogAssumption DEF Places, Everyone
    <3>5. at'[Writer] \in {"woken", "waiting"} => at[Writer] \in {"woken", "waiting"}
      BY <1>1, <3>2, <3>3
    <3> QED
      BY <3>1, <3>2, <3>4, <3>5 DEF PlacesKept
  <2> QED
    BY <2>1, <2>2
<1>4. TypeOK'
  <2>1. UNCHANGED mutex \/ (mutex' \in Threads /\ at'[mutex'] = "locked")
    BY <1>1 DEF Lock, Notify, Goto, TypeOK
  <2>2. /\ ending' \subseteq Everyone /\ ending \subseteq ending'
        /\ expired' \subseteq Everyone /\ notified' \subseteq Everyone
        /\ result' \in [Everyone -> {"none", "drained", "timeout"}]
        /\ asked' \in [Everyone -> Nat]
        /\ partial' \in [Threads -> Nat] /\ pending' \in [Threads -> Nat]
    BY <1>1, <1>2 DEF TypeOK, flushVars, threadVars
  <2> QED
    BY <1>1, <1>2, <1>3, <2>1, <2>2, TypeKept
<1>5. StreamInv'
  BY <1>1, <1>2, StreamKept
<1>6. FlushInv'
  BY <1>1, <1>2, FlushKept DEF flushVars, writerVars
<1> QED
  BY <1>4, <1>5, <1>6 DEF IInv

\* The critical section of submit().
LEMMA PushKeeps ==
  ASSUME IInv, NEW t \in Threads, Push(t)
  PROVE  IInv'
<1>1. TypeOK /\ StreamInv /\ FlushInv /\ t \in Everyone /\ t # Writer
  BY LogAssumption DEF IInv, Everyone
<1>2. StreamInv' /\ lines' \in Seq(Line) /\ bytes' \in Nat /\ droppedBytes' \in Nat
  BY <1>1, PushStream
<1>3. PICK line \in Line : submitted' = Append(submitted, line)
  BY <1>1, PushFact DEF StreamInv
<1>4. /\ UNCHANGED <<writing, batch, dropped, out, partial, ending>>
      /\ UNCHANGED <<expired, notified, asked, result>>
      /\ mutex' = "free" /\ Goto(t, "notifying")
      /\ pending' = [pending EXCEPT ![t] = 0]
  BY DEF Push, writerVars, flushVars
<1>5. FlushInv'
  BY <1>1, <1>3, <1>4, FlushKept
<1>6. /\ at' \in [Everyone -> Places] /\ at'[Writer] = at[Writer]
      /\ pending' \in [Threads -> Nat] /\ submitted' \in Seq(Line)
  BY <1>1, <1>3, <1>4 DEF TypeOK, Goto, Places
<1>7. TypeOK'
  BY <1>1, <1>2, <1>4, <1>6 DEF TypeOK
<1> QED
  BY <1>2, <1>5, <1>7 DEF IInv

\* The writer.
LEMMA WriterKeeps ==
  ASSUME IInv, WriterStep
  PROVE  IInv'
<1>1. TypeOK /\ StreamInv /\ FlushInv /\ Writer \in Everyone /\ Writer \notin Threads
  BY LogAssumption DEF IInv, Everyone
<1>2. /\ StreamInv'
      /\ lines' \in Seq(Line) /\ batch' \in Seq(Line) /\ out' \in Seq(Line)
      /\ bytes' \in Nat /\ droppedBytes' \in Nat /\ dropped' \in Nat /\ writing' \in BOOLEAN
      /\ UNCHANGED submitted
      /\ out' = out \/ \E line \in Line : out' = Append(out, line)
  BY <1>1, WriterStream
<1>3. UNCHANGED <<mutex, partial, pending, ending, expired, asked, result>>
  BY DEF WriterStep, WriterStarts, WriteNotice, WriteLine, FinishBatch, threadVars, flushVars
<1>4. notified' \subseteq Everyone
  BY <1>1 DEF WriterStep, WriterStarts, WriteNotice, WriteLine, FinishBatch, flushVars, TypeOK
<1>5. FlushInv'
  BY <1>1, <1>2, <1>3, FlushKept
<1>6. at' \in [Everyone -> Places] /\ \A t \in Threads : at'[t] = at[t]
  BY <1>1 DEF WriterStep, WriterStarts, WriteNotice, WriteLine, FinishBatch, TakeBatch, AwaitLines,
              Goto, TypeOK, Places, Everyone
<1>7. at'[Writer] \in {"woken", "waiting"} => ~writing' /\ batch' = <<>> /\ dropped' = 0
  BY <1>1 DEF WriterStep, WriterStarts, WriteNotice, WriteLine, FinishBatch, TakeBatch, AwaitLines,
              Goto, TypeOK
<1>8. TypeOK'
  BY <1>1, <1>2, <1>3, <1>4, <1>6, <1>7 DEF TypeOK
<1> QED
  BY <1>2, <1>5, <1>8 DEF IInv

\* flush() and the crash handler only look at the queue.
LEMMA FlushKeeps ==
  ASSUME IInv, NEW t \in Everyone,
         (t \in Flushers /\ Flush(t)) \/ Crash(t) \/ Deadline(t) \/ FlushStep(t)
  PROVE  IInv'
<1>1. TypeOK /\ StreamInv /\ FlushInv
  BY DEF IInv
<1>2. /\ UNCHANGED <<queueVars, writerVars, submitted>> /\ UNCHANGED mutex
      /\ UNCHANGED <<partial, pending>>
      /\ ending' \in {ending, ending \cup {t}}
  BY DEF Flush, Crash, Deadline, FlushStep, TryLock, WakeInFlush, threadVars
<1>3. /\ expired' \subseteq Everyone /\ notified' \subseteq Everyone
      /\ result' \in [Everyone -> {"none", "drained", "timeout"}]
      /\ asked' \in [Everyone -> Nat]
  <2>1. CASE Flush(t) \/ Crash(t)
    <3>1. Len(submitted) \in Nat
      BY <1>1 DEF TypeOK
    <3>2. BeginFlush(t)
      BY <2>1 DEF Flush, Crash
    <3>3. asked' \in [Everyone -> Nat]
      BY <1>1, <3>1, <3>2 DEF BeginFlush, TypeOK
    <3>4. result' \in [Everyone -> {"none", "drained", "timeout"}]
      BY <1>1, <3>2 DEF BeginFlush, TypeOK
    <3> QED
      BY <1>1, <3>2, <3>3, <3>4 DEF BeginFlush, TypeOK
  <2>2. CASE Deadline(t) \/ FlushStep(t)
    BY <1>1, <2>2 DEF Deadline, FlushStep, TryLock, WakeInFlush, CheckDrained, Return, TypeOK
  <2> QED
    BY <2>1, <2>2
<1>4. PlacesKept
  <2>1. CASE Flush(t) \/ Crash(t)
    <3>1. Goto(t, "trying") /\ (at[t] = "locked" => t \in ending')
      BY <2>1 DEF Flush, Crash, BeginFlush
    <3> QED
      BY <1>1, <3>1, GotoKeeps DEF Places
  <2>2. CASE Deadline(t)
    BY <1>1, <2>2 DEF Deadline, PlacesKept, TypeOK
  <2>3. CASE FlushStep(t)
    <3>1. \E place \in {"died", "running", "draining"} : Goto(t, place)
      BY <2>3 DEF FlushStep, TryLock, WakeInFlush, CheckDrained, Return
    <3>2. at[t] # "locked"
      BY <2>3 DEF FlushStep, TryLock, WakeInFlush
    <3> QED
      BY <1>1, <3>1, <3>2, GotoKeeps DEF Places
  <2> QED
    BY <2>1, <2>2, <2>3
<1>5. TypeOK'
  <2>1. /\ partial' \in [Threads -> Nat] /\ pending' \in [Threads -> Nat]
        /\ ending' \subseteq Everyone /\ ending \subseteq ending'
    BY <1>1, <1>2 DEF TypeOK
  <2> QED
    BY <1>1, <1>2, <1>3, <1>4, <2>1, TypeKept
<1>6. StreamInv'
  BY <1>1, <1>2, StreamKept
<1>7. FlushInv'
  <2>1. UNCHANGED <<out, submitted>>
    BY <1>2 DEF writerVars
  <2>2. CASE Flush(t) \/ Crash(t)
    BY <1>1, <2>1, <2>2, BeginKeeps DEF Flush, Crash
  <2>3. CASE Deadline(t)
    BY <1>1, <2>1, <2>3, FlushKept DEF Deadline
  <2>4. CASE FlushStep(t)
    BY <1>1, <2>1, <2>4, CheckKeeps DEF FlushStep, TryLock, WakeInFlush
  <2> QED
    BY <2>2, <2>3, <2>4
<1> QED
  BY <1>5, <1>6, <1>7 DEF IInv

\* Every step keeps the invariant.
LEMMA LogStep == IInv /\ [Next]_vars => IInv'
<1> SUFFICES ASSUME IInv, [Next]_vars PROVE IInv'
  OBVIOUS
<1>1. CASE UNCHANGED vars
  <2>1. /\ UNCHANGED <<queueVars, writerVars, submitted>>
        /\ UNCHANGED <<mutex, at, partial, pending, ending, expired, notified, asked, result>>
    BY <1>1 DEF vars, threadVars, flushVars
  <2>2. StreamInv'
    BY <2>1, StreamKept DEF IInv
  <2>3. FlushInv'
    BY <2>1, FlushKept DEF IInv, writerVars
  <2>4. TypeOK'
    BY <2>1 DEF IInv, TypeOK, queueVars, writerVars
  <2> QED
    BY <2>2, <2>3, <2>4 DEF IInv
<1>2. CASE \E t \in Threads : AppendText(t) \/ Exit(t) \/ SubmitStep(t)
  BY <1>2, BufferKeeps, LockNotifyKeep, PushKeeps DEF SubmitStep
<1>3. CASE WriterStep
  BY <1>3, WriterKeeps
<1>4. CASE \E t \in Everyone :
              (t \in Flushers /\ Flush(t)) \/ Crash(t) \/ Deadline(t) \/ FlushStep(t)
  BY <1>4, FlushKeeps
<1> QED
  BY <1>1, <1>2, <1>3, <1>4, LogAssumption DEF Next, Everyone

\* The inductive invariant holds in every state.
LEMMA LogInvHolds == Spec => []IInv
  BY LogInit, LogStep, PTL DEF Spec

---------------------------------------------------------------------------
(* The refinement: every step is a step of LossyLog or none. *)

LossyStep == [Lossy!Next]_(Lossy!logVars)

\* The parts of what waits to be written.
LEMMA WaitingType ==
  ASSUME TypeOK
  PROVE  /\ batch \in Seq(Line) /\ lines \in Seq(Line)
         /\ Notice(dropped) \in Seq(Line) /\ Notice(droppedBytes) \in Seq(Line)
         /\ Notice(dropped) \o batch \in Seq(Line)
         /\ Notice(dropped) \o batch \o Notice(droppedBytes) \in Seq(Line)
         /\ Waiting \in Seq(Line)
<1>1. /\ batch \in Seq(Line) /\ lines \in Seq(Line)
      /\ Notice(dropped) \in Seq(Line) /\ Notice(droppedBytes) \in Seq(Line)
  BY StreamType
<1> QED
  BY <1>1, BytesOfConcat DEF Waiting

\* Nothing waits at the start.
LEMMA LossyStart == Init => Lossy!Init
<1> SUFFICES ASSUME Init PROVE Lossy!Init
  OBVIOUS
<1>1. Waiting = <<>> \o <<>> \o <<>> \o <<>>
  BY DEF Init, Waiting, Notice
<1>2. <<>> \o <<>> = <<>>
  BY BytesOfNone, ConcatEmptySeq
<1>3. Waiting = <<>>
  BY <1>1, <1>2
<1> QED
  BY <1>3 DEF Init, Lossy!Init

\* Steps that leave the queue, the writer's batch and the output alone.
LEMMA LossyKept ==
  ASSUME UNCHANGED <<lines, droppedBytes, batch, dropped, out, submitted>>
  PROVE  LossyStep
<1>1. UNCHANGED Waiting
  BY DEF Waiting
<1> QED
  BY <1>1 DEF LossyStep, Lossy!logVars

\* The first of two sequences one behind the other has their head.
LEMMA HeadOfConcat ==
  ASSUME NEW q \in Seq(Line), NEW r \in Seq(Line), q # <<>>
  PROVE  q \o r # <<>> /\ Head(q \o r) = Head(q) /\ Tail(q \o r) = Tail(q) \o r
<1>1. /\ Head(q) = q[1] /\ Tail(q) \in Seq(Line) /\ Len(q) \in Nat \ {0} /\ Len(r) \in Nat
      /\ Len(Tail(q)) = Len(q) - 1 /\ \A k \in 1..(Len(q) - 1) : Tail(q)[k] = q[k + 1]
  OBVIOUS
<1>2. /\ q \o r \in Seq(Line) /\ Len(q \o r) = Len(q) + Len(r)
      /\ \A k \in 1..(Len(q) + Len(r)) : (q \o r)[k] = IF k <= Len(q) THEN q[k] ELSE r[k - Len(q)]
  OBVIOUS
<1>3. /\ Tail(q) \o r \in Seq(Line) /\ Len(Tail(q) \o r) = Len(q) - 1 + Len(r)
      /\ \A k \in 1..(Len(q) - 1 + Len(r)) :
           (Tail(q) \o r)[k] = IF k <= Len(q) - 1 THEN Tail(q)[k] ELSE r[k - (Len(q) - 1)]
  BY <1>1
<1>4. q \o r # <<>> /\ Head(q \o r) = Head(q)
  BY <1>1, <1>2
<1>5. /\ Tail(q \o r) \in Seq(Line) /\ Len(Tail(q \o r)) = Len(q) + Len(r) - 1
      /\ \A k \in 1..(Len(q) + Len(r) - 1) : Tail(q \o r)[k] = (q \o r)[k + 1]
  BY <1>1, <1>2, <1>4
<1>6. \A k \in 1..(Len(q) - 1 + Len(r)) : Tail(q \o r)[k] = (Tail(q) \o r)[k]
  BY <1>1, <1>2, <1>3, <1>5
<1>7. Len(Tail(q \o r)) = Len(Tail(q) \o r)
  BY <1>1, <1>3, <1>5
<1>8. Tail(q \o r) = Tail(q) \o r
  BY <1>3, <1>5, <1>6, <1>7, SeqEqual
<1> QED
  BY <1>4, <1>8

\* If the first part of what waits has an entry, it is the one to write next.
LEMMA HeadOfWaiting ==
  ASSUME NEW q \in Seq(Line), NEW r \in Seq(Line), NEW s \in Seq(Line), q # <<>>
  PROVE  /\ Cat(Cat(q, r), s) # <<>> /\ Head(Cat(Cat(q, r), s)) = Head(q)
         /\ Tail(Cat(Cat(q, r), s)) = Cat(Cat(Tail(q), r), s)
<1>1. ASSUME NEW x \in Seq(Line), NEW y \in Seq(Line), x # <<>>
      PROVE  /\ Cat(x, y) \in Seq(Line) /\ Cat(x, y) # <<>> /\ Head(Cat(x, y)) = Head(x)
             /\ Tail(Cat(x, y)) = Cat(Tail(x), y)
  BY <1>1, HeadOfConcat, BytesOfConcat DEF Cat
<1>2. PICK y \in Seq(Line) : y = Cat(q, r) /\ y # <<>> /\ Head(y) = Head(q) /\ Tail(y) = Cat(Tail(q), r)
  BY <1>1
<1>3. Cat(y, s) # <<>> /\ Head(Cat(y, s)) = Head(y) /\ Tail(Cat(y, s)) = Cat(Tail(y), s)
  BY <1>1, <1>2
<1> QED
  BY <1>2, <1>3

\* The writer writes the oldest entry, or moves the queue into its batch.
LEMMA LossyWriter ==
  ASSUME TypeOK, WriterStep
  PROVE  LossyStep
<1>1. UNCHANGED submitted
  BY DEF WriterStep, WriterStarts, WriteNotice, WriteLine, FinishBatch
<1> DEFINE n == Notice(droppedBytes)
<1>2. /\ batch \in Seq(Line) /\ lines \in Seq(Line) /\ n \in Seq(Line)
      /\ <<>> \o batch = batch
  BY WaitingType, ConcatEmptySeq
<1>3. CASE TakeBatch /\ UNCHANGED out /\ batch = <<>> /\ dropped = 0
  <2>1. batch' = lines /\ lines' = <<>> /\ dropped' = droppedBytes /\ droppedBytes' = 0
    BY <1>3 DEF TakeBatch
  <2>2. Waiting = <<>> \o <<>> \o n \o lines
    BY <1>3 DEF Waiting, Notice
  <2>3. Waiting' = n \o lines \o <<>> \o <<>>
    BY <2>1 DEF Waiting, Notice
  <2>4. <<>> \o <<>> = <<>> /\ <<>> \o n = n
    BY <1>2, BytesOfNone, ConcatEmptySeq
  <2>5. n \o lines \o <<>> = n \o lines
    <3>1. n \o lines \in Seq(Line)
      BY <1>2, BytesOfConcat
    <3> QED
      BY <3>1, ConcatEmptySeq
  <2> HIDE DEF n
  <2>6. Waiting' = Waiting
    BY <2>2, <2>3, <2>4, <2>5
  <2> QED
    BY <1>1, <1>3, <2>6 DEF LossyStep, Lossy!logVars
<1>4. CASE AwaitLines /\ UNCHANGED out
  BY <1>1, <1>4, LossyKept DEF AwaitLines
<1>5. CASE WriteNotice
  <2> DEFINE x == [n |-> 0, size |-> dropped]
  <2>1. /\ out' = Append(out, x) /\ dropped' = 0 /\ dropped # 0
        /\ UNCHANGED <<lines, droppedBytes, batch>>
    BY <1>5 DEF WriteNotice, queueVars
  <2>2. x \in Line
    BY DEF TypeOK, Line
  <2>3. Notice(dropped) = <<x>> /\ Notice(dropped') = <<>>
    BY <2>1 DEF Notice
  <2> HIDE DEF x
  <2>4. <<x>> \in Seq(Line) /\ <<x>> # <<>> /\ Head(<<x>>) = x /\ Tail(<<x>>) = <<>>
    BY <2>2
  <2>5. Waiting = <<x>> \o batch \o n \o lines /\ Waiting' = <<>> \o batch \o n \o lines
    BY <2>1, <2>3 DEF Waiting
  <2>6. <<x>> \o batch # <<>> /\ Head(<<x>> \o batch) = x /\ Tail(<<x>> \o batch) = <<>> \o batch
        /\ <<x>> \o batch \in Seq(Line)
    BY <1>2, <2>4, HeadOfConcat, BytesOfConcat
  <2> HIDE DEF n
  <2> DEFINE q == <<x>> \o batch
  <2>7. Waiting = Cat(Cat(q, n), lines) /\ Waiting' = Cat(Cat(Tail(q), n), lines)
    BY <2>5, <2>6 DEF Cat
  <2>8. q \in Seq(Line) /\ q # <<>> /\ Head(q) = x
    BY <2>6
  <2> HIDE DEF q
  <2>9. /\ Cat(Cat(q, n), lines) # <<>> /\ Head(Cat(Cat(q, n), lines)) = Head(q)
        /\ Tail(Cat(Cat(q, n), lines)) = Cat(Cat(Tail(q), n), lines)
    BY <1>2, <2>8, HeadOfWaiting
  <2>10. Waiting # <<>> /\ Head(Waiting) = x /\ Tail(Waiting) = Waiting'
    BY <2>7, <2>8, <2>9
  <2> QED
    BY <1>1, <2>1, <2>10 DEF LossyStep, Lossy!Next, Lossy!Write
<1>6. CASE WriteLine
  <2>1. /\ out' = Append(out, Head(batch)) /\ batch' = Tail(batch) /\ batch # <<>>
        /\ dropped = 0 /\ UNCHANGED <<lines, droppedBytes, dropped>>
    BY <1>6 DEF WriteLine, queueVars
  <2>2. Tail(batch) \in Seq(Line)
    BY <1>2, <2>1
  <2>3. <<>> \o Tail(batch) = Tail(batch)
    BY <2>2, ConcatEmptySeq
  <2>4. Waiting = <<>> \o batch \o n \o lines /\ Waiting' = <<>> \o Tail(batch) \o n \o lines
    BY <2>1 DEF Waiting, Notice
  <2> HIDE DEF n
  <2>5. Waiting = Cat(Cat(batch, n), lines) /\ Waiting' = Cat(Cat(Tail(batch), n), lines)
    BY <1>2, <2>3, <2>4 DEF Cat
  <2>6. Waiting # <<>> /\ Head(Waiting) = Head(batch) /\ Tail(Waiting) = Waiting'
    BY <1>2, <2>1, <2>5, HeadOfWaiting
  <2> QED
    BY <1>1, <2>1, <2>6 DEF LossyStep, Lossy!Next, Lossy!Write
<1>7. CASE WriterStarts \/ FinishBatch
  BY <1>3, <1>4, <1>7 DEF WriterStarts, FinishBatch, TypeOK
<1> QED
  BY <1>5, <1>6, <1>7 DEF WriterStep

\* The sequence q has the parts a, b and c.
Parts(q, a, b, c) ==
  /\ Len(q) = Len(a) + Len(b) + Len(c)
  /\ SubSeq(q, 1, Len(a)) = a
  /\ SubSeq(q, Len(a) + 1, Len(a) + Len(b)) = b
  /\ SubSeq(q, Len(a) + Len(b) + 1, Len(q)) = c

\* A sequence made of three can be cut into them.
LEMMA CutInThree ==
  ASSUME NEW a \in Seq(Line), NEW b \in Seq(Line), NEW c \in Seq(Line)
  PROVE  Parts(Cat(Cat(a, b), c), a, b, c)
<1>0. PICK q : q = Cat(Cat(a, b), c)
  OBVIOUS
<1> DEFINE i == Len(a)
           j == Len(a) + Len(b)
<1>1. /\ Len(a) \in Nat /\ Len(b) \in Nat /\ Len(c) \in Nat
      /\ i \in Nat /\ j \in Nat
  OBVIOUS
<1>2. /\ Cat(a, b) \in Seq(Line) /\ Len(Cat(a, b)) = j
      /\ \A k \in 1..j : Cat(a, b)[k] = IF k <= i THEN a[k] ELSE b[k - i]
  BY DEF Cat
<1>3. /\ q \in Seq(Line) /\ Len(q) = j + Len(c)
      /\ \A k \in 1..(j + Len(c)) : q[k] = IF k <= j THEN Cat(a, b)[k] ELSE c[k - j]
  BY <1>0, <1>2 DEF Cat
<1> HIDE DEF i, j
<1>4. /\ \A k \in 1..i : q[k] = a[k]
      /\ \A k \in 1..Len(b) : q[i + k] = b[k]
      /\ \A k \in 1..Len(c) : q[j + k] = c[k]
  <2>1. j = i + Len(b)
    BY DEF i, j
  <2>2. \A k \in 1..i : q[k] = a[k]
    BY <1>1, <1>2, <1>3, <2>1
  <2>3. ASSUME NEW k \in 1..Len(b) PROVE q[i + k] = b[k]
    <3>1. i + k \in 1..j /\ i + k \in 1..(j + Len(c)) /\ ~(i + k <= i) /\ (i + k) - i = k
      BY <1>1, <2>1
    <3> QED
      BY <1>2, <1>3, <3>1
  <2>4. ASSUME NEW k \in 1..Len(c) PROVE q[j + k] = c[k]
    <3>1. j + k \in 1..(j + Len(c)) /\ ~(j + k <= j) /\ (j + k) - j = k
      BY <1>1
    <3> QED
      BY <1>3, <3>1
  <2> QED
    BY <2>2, <2>3, <2>4
<1>5. /\ Len(SubSeq(q, 1, i)) = i /\ SubSeq(q, 1, i) \in Seq(Line)
      /\ \A k \in 1..i : SubSeq(q, 1, i)[k] = q[k]
  BY <1>1, <1>3, SubSeqProperties DEF i, j
<1>6. /\ Len(SubSeq(q, i + 1, j)) = Len(b) /\ SubSeq(q, i + 1, j) \in Seq(Line)
      /\ \A k \in 1..Len(b) : SubSeq(q, i + 1, j)[k] = q[i + k]
  BY <1>1, <1>3, SubSeqProperties DEF i, j
<1>7. /\ Len(SubSeq(q, j + 1, Len(q))) = Len(c) /\ SubSeq(q, j + 1, Len(q)) \in Seq(Line)
      /\ \A k \in 1..Len(c) : SubSeq(q, j + 1, Len(q))[k] = q[j + k]
  BY <1>1, <1>3, SubSeqProperties
<1>8. SubSeq(q, 1, i) = a
  <2>1. Len(a) = i
    BY DEF i
  <2> QED
    BY <1>4, <1>5, <2>1, SeqEqual
<1>9. SubSeq(q, i + 1, j) = b
  BY <1>4, <1>6, SeqEqual
<1>10. SubSeq(q, j + 1, Len(q)) = c
  BY <1>4, <1>7, SeqEqual
<1> QED
  BY <1>0, <1>1, <1>3, <1>8, <1>9, <1>10 DEF i, j, Parts

\* submit() adds the line and drops the notice and the lines it announces anew.
LEMMA LossyPush ==
  ASSUME TypeOK, StreamInv, NEW t \in Threads, Push(t)
  PROVE  LossyStep
<1>1. PICK line \in Line, front \in Seq(Line) :
           /\ submitted' = Append(submitted, line)
           /\ lines' \in Seq(Line) /\ lines' # <<>>
           /\ lines \o <<line>> = front \o lines'
           /\ droppedBytes' = droppedBytes + BytesOf(front)
  BY PushFact DEF StreamInv
<1>2. UNCHANGED <<batch, dropped, out>>
  BY DEF Push, writerVars
<1> DEFINE a == Notice(dropped) \o batch
           n == Notice(droppedBytes)
           l == <<line>>
           b == Cat(n, front)
           queue == Append(Waiting, line)
<1>3. /\ a \in Seq(Line) /\ n \in Seq(Line) /\ l \in Seq(Line) /\ lines \in Seq(Line)
      /\ lines' \in Seq(Line) /\ b \in Seq(Line)
  BY <1>1, WaitingType, CatAssociative
<1>4. queue = Cat(Cat(Cat(a, n), lines), l)
  <2>1. Waiting \in Seq(Line)
    BY WaitingType
  <2>2. queue = Waiting \o l
    BY <2>1, AppendIsConcat
  <2> QED
    BY <2>2 DEF Waiting, Cat
<1>5. Cat(lines, l) = Cat(front, lines')
  BY <1>1 DEF Cat
<1>6. Announcement(b) = Notice(droppedBytes')
  <2>1. BytesOf(b) = BytesOf(n) + BytesOf(front)
    BY <1>3, BytesOfConcat DEF Cat
  <2>2. droppedBytes \in Nat
    BY DEF TypeOK
  <2>3. BytesOf(n) = droppedBytes
    BY <2>2, NoticeFact
  <2> HIDE DEF b, n
  <2> QED
    BY <1>1, <2>1, <2>3 DEF Announcement
<1>7. Waiting' = a \o Announcement(b) \o lines'
  BY <1>2, <1>6 DEF Waiting
<1>8. /\ Len(submitted') = Len(submitted) + 1 /\ submitted'[Len(submitted')] = line
  BY <1>1 DEF TypeOK
<1>9. queue \in Seq(Line) /\ Len(queue) = Len(Waiting) + 1 /\ Len(Waiting) \in Nat
  BY WaitingType
<1> HIDE DEF a, n, l, b, queue
<1>10. queue = Cat(Cat(a, b), lines')
  BY <1>3, <1>4, <1>5, Regroup DEF b
<1>11. /\ Len(queue) = Len(a) + Len(b) + Len(lines')
       /\ SubSeq(queue, 1, Len(a)) = a
       /\ SubSeq(queue, Len(a) + 1, Len(a) + Len(b)) = b
       /\ SubSeq(queue, Len(a) + Len(b) + 1, Len(queue)) = lines'
  <2>1. Parts(Cat(Cat(a, b), lines'), a, b, lines')
    BY <1>3, CutInThree
  <2> QED
    BY <1>10, <2>1 DEF Parts
<1>12. Len(a) \in 0..Len(Waiting) /\ Len(a) + Len(b) \in Len(a)..Len(Waiting)
  <2>1. Len(a) \in Nat /\ Len(b) \in Nat /\ Len(lines') \in Nat \ {0}
    BY <1>1, <1>3
  <2> QED
    BY <1>9, <1>11, <2>1
<1>13. \E i \in 0..Len(Waiting) : \E j \in i..Len(Waiting) :
         Waiting' = SubSeq(queue, 1, i) \o Announcement(SubSeq(queue, i + 1, j))
                      \o SubSeq(queue, j + 1, Len(queue))
  BY <1>7, <1>11, <1>12
<1>14. Lossy!Submit
  BY <1>1, <1>2, <1>8, <1>13 DEF Lossy!Submit, queue
<1> QED
  BY <1>14 DEF LossyStep, Lossy!Next

\* Every step of the log is one of LossyLog or none.
LEMMA LossyNext == IInv /\ [Next]_vars => LossyStep
<1> SUFFICES ASSUME IInv, [Next]_vars PROVE LossyStep
  OBVIOUS
<1>1. CASE UNCHANGED <<queueVars, writerVars, submitted>>
  BY <1>1, LossyKept DEF queueVars, writerVars
<1>2. CASE WriterStep
  BY <1>2, LossyWriter DEF IInv
<1>3. CASE \E t \in Threads : Push(t)
  BY <1>3, LossyPush DEF IInv
<1>4. CASE UNCHANGED vars
  BY <1>1, <1>4 DEF vars
<1>5. CASE \E t \in Threads : AppendText(t) \/ Exit(t) \/ Lock(t) \/ Notify(t)
  BY <1>1, <1>5 DEF AppendText, Exit, Lock, Notify
<1>6. CASE \E t \in Flushers : Flush(t)
  BY <1>1, <1>6 DEF Flush
<1>7. CASE \E t \in Crashers : Crash(t)
  BY <1>1, <1>7 DEF Crash
<1>8. CASE \E t \in Everyone : Deadline(t) \/ FlushStep(t)
  BY <1>1, <1>8 DEF Deadline, FlushStep, TryLock, WakeInFlush
<1> QED
  BY <1>2, <1>3, <1>4, <1>5, <1>6, <1>7, <1>8 DEF Next, SubmitStep

---------------------------------------------------------------------------
(* The theorems. *)

\* The types, and what ties the writer's flag and the mutex to the places of the
\* threads, also when a thread crashes in submit() or the writer does.
THEOREM LogTypes == Spec => []TypeOK
  BY LogInvHolds, PTL DEF IInv

\* submit() bounds the memory of the log for every limit and every size of lines.
THEOREM QueueIsAlwaysBounded == Spec => []QueueBounded
<1>1. IInv => QueueBounded
  BY DEF IInv, StreamInv
<1> QED
  BY <1>1, LogInvHolds, PTL

\* However submit(), write_lines() and flush() interleave, and however often the
\* queue overflows, every line in the output stands where it was submitted and
\* every byte missing before it is announced.
THEOREM NothingEverVanishes == Spec => []NothingVanishes
<1>1. IInv => NothingVanishes
  BY DEF IInv, StreamInv, Accounted, NothingVanishes
<1> QED
  BY <1>1, LogInvHolds, PTL

\* flush() that returns true has everything submitted before it in the output.
THEOREM FlushAlwaysAccounts == Spec => []FlushAccountsForAll
<1>1. IInv => FlushAccountsForAll
  BY DEF IInv, FlushInv
<1> QED
  BY <1>1, LogInvHolds, PTL

\* async_log.cpp implements LossyLog, for any threads, limit and sizes of lines and
\* with crashes anywhere: what std::cout gets is the submitted lines in order, in
\* which only runs that submit() dropped before they were written are replaced,
\* each by a notice of its bytes, and nothing that was written is ever taken back.
THEOREM LogIsAlwaysLossyFifo == Spec => LogIsLossyFifo
<1>1. IInv /\ [Next]_vars => [Lossy!Next]_(Lossy!logVars)
  BY LossyNext DEF LossyStep
<1> QED
  BY <1>1, LossyStart, LogInvHolds, PTL DEF Spec, LogIsLossyFifo, Lossy!Spec
=============================================================================
