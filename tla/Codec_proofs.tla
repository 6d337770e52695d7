--------------------------- MODULE Codec_proofs -----------------------------
(***************************************************************************)
(* Proofs about the codecs of Codec, for bytes of any length.              *)
(*                                                                         *)
(* First what the client reads: integers, frames and the scan of a buffer  *)
(* find the same wherever the bytes lie and whatever follows.  Then what   *)
(* it writes: integers, frames, prefix integers, texts, settings and URLs  *)
(* are read back as they were meant.  Lies says that a sequence is found   *)
(* in the data from an offset on; each reader is shown to find there what  *)
(* the writer put, and where it ends.                                      *)
(*                                                                         *)
(* A recursive function is a CHOOSE: nothing is known of it until one such *)
(* function is shown to exist. That is done for the folds (Folded), for    *)
(* FlattenSeq (Joins), for Scan (ScansAs) and for the readers that go on   *)
(* from an offset they computed (Backward), and then the one the           *)
(* definition chooses is unfolded.                                         *)
(***************************************************************************)
EXTENDS Codec, SequenceTheorems, FiniteSetTheorems, WellFoundedInduction, TLAPS

-----------------------------------------------------------------------------
(* Numbers, folds and integers *)

\* A set of numbers has a least one.
LEMMA Least ==
  ASSUME NEW S \in SUBSET Nat, S # {}
  PROVE  \E n \in S : \A m \in S : n <= m
<1>1. \E n \in S : \A m \in S : ~(<<m, n>> \in OpToRel(<, Nat))
  BY NatLessThanWellFounded, WFMin
<1>2. PICK n \in S : \A m \in S : ~(<<m, n>> \in OpToRel(<, Nat))
  BY <1>1
<1>3. ASSUME NEW m \in S, m < n
      PROVE  FALSE
  <2>1. <<m, n>> \in OpToRel(<, Nat)
    BY <1>3 DEF OpToRel
  <2> QED BY <1>2, <2>1
<1> QED BY <1>3

\* The data from p on is what another sequence holds, which may end earlier.
Window(a, d, p) ==
  /\ a \in Seq(Bytes) /\ d \in Seq(Bytes) /\ p \in Nat /\ p + Len(a) <= Len(d)
  /\ \A i \in 1..Len(a) : a[i] = d[p + i]

\* A part of it is the same part of the data.
LEMMA WindowSubSeq ==
  ASSUME NEW a \in Seq(Bytes), NEW d \in Seq(Bytes), NEW p \in Nat, Window(a, d, p), NEW m \in Nat \ {0}, NEW n \in Nat, n <= Len(a)
  PROVE  SubSeq(a, m, n) = SubSeq(d, p + m, p + n)
<1> USE DEF Window
<1>1. CASE m > n
  BY <1>1, SubSeqEmpty
<1>2. CASE m <= n
  <2>1. SubSeq(a, m, n) \in Seq(Bytes) /\ SubSeq(d, p + m, p + n) \in Seq(Bytes)
    BY <1>2
  <2>2. Len(SubSeq(a, m, n)) = n - m + 1 /\ Len(SubSeq(d, p + m, p + n)) = n - m + 1
    BY <1>2
  <2>3. \A i \in 1..(n - m + 1) : SubSeq(a, m, n)[i] = SubSeq(d, p + m, p + n)[i]
    BY <1>2
  <2> QED BY <2>1, <2>2, <2>3, SeqEqual
<1> QED BY <1>1, <1>2

\* The two top bits of a first byte give the width, the others the beginning of the value.
LEMMA Widths ==
  ASSUME NEW first \in Bytes
  PROVE  2 ^ (first \div 64) \in {1, 2, 4, 8} /\ first % 64 \in 0..63 /\ first % 64 \in Nat
<1>1. first \div 64 \in {0, 1, 2, 3}
  BY DEF Bytes
<1>2. 2 ^ 0 = 1 /\ 2 ^ 1 = 2 /\ 2 ^ 2 = 4 /\ 2 ^ 3 = 8
  OBVIOUS
<1>3. first % 64 \in 0..63 /\ first % 64 \in Nat
  BY DEF Bytes
<1> QED BY <1>1, <1>2, <1>3

\* One byte more leaves a number.
LEMMA ShiftedIsNat ==
  ASSUME NEW v \in Nat, NEW b \in Bytes
  PROVE  Shifted(v, b) \in Nat
BY SMT DEF Shifted, Huge, Bytes

\* The fold over the first n bytes, as a function of the set of places left.
Folded(g, v, bytes, n) ==
  g = [s \in SUBSET (1..n) |-> IF s = {} THEN v ELSE Shifted(g[s \ {Max(s)}], bytes[Max(s)])]

\* Max, which is a CHOOSE, on the sets the fold goes through.
LEMMA MaxOfPlaces ==
  ASSUME NEW n \in Nat, NEW s \in SUBSET (1..n), s # {}
  PROVE  Max(s) \in s /\ \A i \in s : i <= Max(s)
<1> DEFINE Above == {k \in Nat : \A i \in s : i <= k}
<1>1. n \in Above
  OBVIOUS
<1>2. PICK k \in Above : \A j \in Above : k <= j
  BY <1>1, Least
<1>3. k \in s
  <2> SUFFICES ASSUME k \notin s PROVE FALSE
    OBVIOUS
  <2>0. \A i \in s : i \in 1..n
    OBVIOUS
  <2>1. PICK i \in s : TRUE
    OBVIOUS
  <2>5. i \in Nat /\ i >= 1
    BY <2>0, <2>1
  <2>2. \A j \in s : j \in Nat /\ j <= k /\ j # k
    BY <1>2
  <2>3. k - 1 \in Nat /\ \A j \in s : j <= k - 1
    BY <1>2, <2>2, <2>5
  <2>4. k - 1 \in Above
    BY <2>3
  <2> QED BY <1>2, <2>3, <2>4
<1>4. \E x \in s : \A y \in s : x >= y
  BY <1>2, <1>3
<1> QED BY <1>4 DEF Max

\* Such a function exists, by induction on the subsets of the places.
LEMMA FoldedExists ==
  ASSUME NEW v, NEW bytes, NEW N \in Nat
  PROVE  \E g : Folded(g, v, bytes, N)
<1> DEFINE Bad == {n \in Nat : ~\E g : Folded(g, v, bytes, n)}
<1> SUFFICES ASSUME Bad # {} PROVE FALSE
  OBVIOUS
<1>1. PICK n \in Bad : \A m \in Bad : n <= m
  BY Least
<1>2. CASE n = 0
  <2> DEFINE g == [s \in SUBSET (1..n) |-> v]
  <2>1. SUBSET (1..n) = {{}}
    BY <1>2
  <2>2. \A s \in SUBSET (1..n) : g[s] = IF s = {} THEN v ELSE Shifted(g[s \ {Max(s)}], bytes[Max(s)])
    BY <2>1
  <2>3. Folded(g, v, bytes, n)
    BY <2>2 DEF Folded
  <2> QED BY <2>3
<1>3. CASE n # 0
  <2>1. n - 1 \in Nat /\ n - 1 \notin Bad
    BY <1>1, <1>3
  <2>2. PICK g : Folded(g, v, bytes, n - 1)
    BY <2>1
  <2> DEFINE h == [s \in SUBSET (1..n) |-> IF n \in s THEN Shifted(g[s \ {n}], bytes[n]) ELSE g[s]]
             Step(s) == IF s = {} THEN v ELSE Shifted(h[s \ {Max(s)}], bytes[Max(s)])
  <2>3. ASSUME NEW s \in SUBSET (1..n), n \in s
        PROVE  h[s] = Step(s)
    <3>1. Max(s) \in s /\ (\A i \in s : i <= Max(s)) /\ s # {}
      BY <2>3, MaxOfPlaces
    <3>0. Max(s) \in 1..n
      BY <3>1
    <3>4. Max(s) = n
      BY <3>0, <3>1, <2>3
    <3>2. s \ {n} \in SUBSET (1..n) /\ n \notin s \ {n}
      OBVIOUS
    <3>3. h[s \ {n}] = g[s \ {n}]
      BY <3>2
    <3> QED BY <2>3, <3>1, <3>3, <3>4
  <2>4. ASSUME NEW s \in SUBSET (1..n), n \notin s
        PROVE  h[s] = Step(s)
    <3>1. s \in SUBSET (1..(n - 1))
      BY <2>4
    <3>2. g[s] = IF s = {} THEN v ELSE Shifted(g[s \ {Max(s)}], bytes[Max(s)])
      BY <2>2, <3>1 DEF Folded
    <3>3. s \ {Max(s)} \in SUBSET (1..n) /\ n \notin s \ {Max(s)}
      BY <2>4
    <3>4. h[s \ {Max(s)}] = g[s \ {Max(s)}]
      BY <3>3
    <3> QED BY <2>4, <3>2, <3>4
  <2>5. \A s \in SUBSET (1..n) : h[s] = Step(s)
    BY <2>3, <2>4
  <2>6. Folded(h, v, bytes, n)
    BY <2>5 DEF Folded
  <2> QED BY <1>1, <2>6
<1> QED BY <1>1, <1>2, <1>3

\* Two of them agree on the places where the bytes do.
LEMMA FoldedAgree ==
  ASSUME NEW v, NEW bytes, NEW other, NEW N \in Nat, NEW M \in 0..N, \A i \in 1..M : bytes[i] = other[i],
         NEW g, Folded(g, v, bytes, N), NEW h, Folded(h, v, other, M)
  PROVE  \A s \in SUBSET (1..M) : g[s] = h[s]
<1> DEFINE Bad == {n \in 0..M : \E s \in SUBSET (1..n) : g[s] # h[s]}
<1> SUFFICES ASSUME Bad # {} PROVE FALSE
  OBVIOUS
<1>0. Bad \in SUBSET Nat
  OBVIOUS
<1>1. PICK n \in Bad : \A m \in Bad : n <= m
  <2> HIDE DEF Bad
  <2> QED BY <1>0, Least
<1>2. PICK s \in SUBSET (1..n) : g[s] # h[s]
  BY <1>1
<1>3. s \in SUBSET (1..M) /\ s \in SUBSET (1..N)
  OBVIOUS
<1>4. /\ g[s] = IF s = {} THEN v ELSE Shifted(g[s \ {Max(s)}], bytes[Max(s)])
      /\ h[s] = IF s = {} THEN v ELSE Shifted(h[s \ {Max(s)}], other[Max(s)])
  BY <1>3 DEF Folded
<1>5. s # {}
  BY <1>2, <1>4
<1>6. Max(s) \in 1..M /\ Max(s) \in s /\ \A i \in s : i <= Max(s)
  BY <1>3, <1>5, MaxOfPlaces
<1>7. s \ {Max(s)} \in SUBSET (1..(Max(s) - 1))
  <2> SUFFICES ASSUME NEW i \in s, i # Max(s)
               PROVE  i \in 1..(Max(s) - 1)
    OBVIOUS
  <2>1. i \in 1..M /\ i <= Max(s)
    BY <1>3, <1>6
  <2> QED BY <1>6, <2>1
<1>8. Max(s) - 1 \in 0..M /\ Max(s) - 1 < n
  BY <1>2, <1>6
<1>9. Max(s) - 1 \notin Bad
  BY <1>1, <1>8
<1>10. g[s \ {Max(s)}] = h[s \ {Max(s)}]
  BY <1>7, <1>8, <1>9
<1> QED BY <1>2, <1>4, <1>5, <1>6, <1>10

\* The fold of the community module is the function at all the places.
LEMMA ShiftsFolds ==
  ASSUME NEW v, NEW bytes \in Seq(Bytes)
  PROVE  \E g : Folded(g, v, bytes, Len(bytes)) /\ Shifts(v, bytes) = g[1..Len(bytes)]
<1> DEFINE N == Len(bytes)
           g == CHOOSE f : Folded(f, v, bytes, N)
<1>1. DOMAIN bytes = 1..N /\ N \in Nat
  BY DEF Bytes
<1>2. Shifts(v, bytes) = g[1..N]
  BY <1>1 DEF Shifts, FoldLeft, MapThenFoldSet, Folded
<1>3. Folded(g, v, bytes, N)
  BY <1>1, FoldedExists
<1> QED BY <1>2, <1>3

\* One byte more.
LEMMA ShiftsUnfold ==
  ASSUME NEW v, NEW bytes \in Seq(Bytes)
  PROVE  Shifts(v, bytes) = IF bytes = <<>> THEN v
                            ELSE Shifted(Shifts(v, SubSeq(bytes, 1, Len(bytes) - 1)), bytes[Len(bytes)])
<1> DEFINE N == Len(bytes)
           less == SubSeq(bytes, 1, N - 1)
<1>1. PICK g : Folded(g, v, bytes, N) /\ Shifts(v, bytes) = g[1..N]
  BY ShiftsFolds
<1>2. CASE bytes = <<>>
  <2>1. 1..N = {}
    BY <1>2
  <2>2. g[1..N] = v
    BY <1>1, <2>1 DEF Folded
  <2> QED BY <1>1, <1>2, <2>2
<1>3. CASE bytes # <<>>
  <2>1. N \in Nat \ {0} /\ less \in Seq(Bytes) /\ Len(less) = N - 1 /\ \A i \in 1..(N - 1) : bytes[i] = less[i]
    <3>1. N \in Nat \ {0}
      BY <1>3, EmptySeq
    <3> QED BY <3>1, SubSeqProperties
  <2>2. PICK h : Folded(h, v, less, N - 1) /\ Shifts(v, less) = h[1..(N - 1)]
    BY <2>1, ShiftsFolds
  <2>3. g[1..(N - 1)] = h[1..(N - 1)]
    <3>1. \A s \in SUBSET (1..(N - 1)) : g[s] = h[s]
      <4> HIDE DEF N, less
      <4>1. N - 1 \in 0..N /\ N \in Nat
        BY <2>1
      <4>2. Folded(g, v, bytes, N) /\ Folded(h, v, less, N - 1) /\ \A i \in 1..(N - 1) : bytes[i] = less[i]
        BY <1>1, <2>1, <2>2
      <4> QED BY <4>1, <4>2, FoldedAgree
    <3> QED BY <3>1
  <2>4. 1..N # {} /\ Max(1..N) = N /\ (1..N) \ {N} = 1..(N - 1)
    <3> HIDE DEF N, less
    <3>0. N \in Nat \ {0}
      BY <2>1
    <3>1. 1..N # {} /\ N \in 1..N
      <4>1. N \in 1..N
        BY <3>0
      <4> QED BY <4>1
    <3>2. (1..N) \ {N} = 1..(N - 1)
      BY <2>1
    <3>3. Max(1..N) \in 1..N /\ \A i \in 1..N : i <= Max(1..N)
      BY <2>1, <3>1, MaxOfPlaces
    <3> QED BY <2>1, <3>1, <3>2, <3>3
  <2>5. g[1..N] = Shifted(g[1..(N - 1)], bytes[N])
    BY <1>1, <2>4 DEF Folded
  <2> QED BY <1>1, <1>3, <2>2, <2>3, <2>5
<1> QED BY <1>2, <1>3

\* What is read is a number.
LEMMA ShiftsIsNat ==
  ASSUME NEW v \in Nat, NEW bytes \in Seq(Bytes)
  PROVE  Shifts(v, bytes) \in Nat
<1> DEFINE Bad == {n \in Nat : \E s \in Seq(Bytes) : Len(s) = n /\ Shifts(v, s) \notin Nat}
<1> SUFFICES ASSUME Bad # {} PROVE FALSE
  OBVIOUS
<1>1. PICK n \in Bad : \A m \in Bad : n <= m
  BY Least
<1>2. PICK s \in Seq(Bytes) : Len(s) = n /\ Shifts(v, s) \notin Nat
  BY <1>1
<1>3. s # <<>>
  BY <1>2, ShiftsUnfold
<1> DEFINE less == SubSeq(s, 1, n - 1)
<1>4. less \in Seq(Bytes) /\ Len(less) = n - 1 /\ n - 1 \in Nat /\ s[n] \in Bytes
  BY <1>2, <1>3
<1>5. Shifts(v, less) \in Nat
  <2>1. n - 1 \notin Bad
    BY <1>1, <1>4
  <2> HIDE DEF less
  <2> QED BY <1>4, <2>1
<1>6. Shifts(v, s) = Shifted(Shifts(v, less), s[n])
  BY <1>2, <1>3, ShiftsUnfold
<1> QED BY <1>2, <1>4, <1>5, <1>6, ShiftedIsNat

\* An integer that can be read ends inside the data, after it begins.
LEMMA IntegerRead ==
  ASSUME NEW data \in Seq(Bytes), NEW offset \in Nat
  PROVE  LET v == wt_http3_decode_varint(data, offset) IN
         /\ v.ok \in BOOLEAN
         /\ v.ok => v.value \in Nat /\ v.end \in (offset + 1)..Len(data)
         /\ ~v.ok => v = Unreadable
<1> DEFINE v == wt_http3_decode_varint(data, offset)
           first == data[offset + 1]
           end == offset + 2 ^ (first \div 64)
<1>1. CASE offset >= Len(data)
  BY <1>1 DEF wt_http3_decode_varint, Unreadable
<1>2. CASE offset < Len(data)
  <2>1. first \in Bytes
    BY <1>2
  <2>2. 2 ^ (first \div 64) \in {1, 2, 4, 8} /\ first % 64 \in 0..63 /\ first % 64 \in Nat
    BY <2>1, Widths
  <2>3. end \in Nat /\ end > offset
    BY <2>2
  <2>4. CASE end > Len(data)
    BY <1>2, <2>4 DEF wt_http3_decode_varint, Unreadable
  <2>5. CASE end <= Len(data)
    <3>1. SubSeq(data, offset + 2, end) \in Seq(Bytes)
      BY <2>3, <2>5
    <3>2. Shifts(first % 64, SubSeq(data, offset + 2, end)) \in Nat
      BY <2>2, <3>1, ShiftsIsNat
    <3>3. v = Read(Shifts(first % 64, SubSeq(data, offset + 2, end)), end)
      BY <1>2, <2>3, <2>5 DEF wt_http3_decode_varint
    <3> QED BY <2>3, <2>5, <3>2, <3>3 DEF Read
  <2> QED BY <2>3, <2>4, <2>5
<1> QED BY <1>1, <1>2

\* ... and it is the same wherever the data lies and whatever follows.
LEMMA IntegerInWindow ==
  ASSUME NEW a, NEW d, NEW p, Window(a, d, p), NEW o \in Nat
  PROVE  LET v == wt_http3_decode_varint(a, o)
             w == wt_http3_decode_varint(d, p + o)
         IN /\ v.ok => w.ok /\ w.value = v.value /\ w.end = p + v.end
            /\ w.ok /\ w.end <= p + Len(a) => v.ok
<1> DEFINE v == wt_http3_decode_varint(a, o)
           w == wt_http3_decode_varint(d, p + o)
           first == a[o + 1]
           n == 2 ^ (first \div 64)
<1>0. a \in Seq(Bytes) /\ d \in Seq(Bytes) /\ p \in Nat /\ p + Len(a) <= Len(d) /\ p + o \in Nat
      /\ Len(a) \in Nat /\ Len(d) \in Nat
  BY DEF Window
<1>1. CASE o >= Len(a)
  <2>1. ~v.ok
    BY <1>1 DEF wt_http3_decode_varint, Unreadable
  <2>2. w.ok => w.end > p + o
    BY <1>0, IntegerRead
  <2>3. w.ok => w.end \in Nat
    BY <1>0, IntegerRead
  <2> QED BY <1>0, <1>1, <2>1, <2>2, <2>3
<1>2. CASE o < Len(a)
  <2>1. first \in Bytes /\ d[p + o + 1] = first
    <3>1. o + 1 \in 1..Len(a) /\ p + (o + 1) = p + o + 1
      BY <1>0, <1>2
    <3>2. a[o + 1] = d[p + (o + 1)]
      BY <3>1 DEF Window
    <3> QED BY <1>0, <3>1, <3>2
  <2>2. n \in {1, 2, 4, 8}
    BY <2>1, Widths
  <2>3. w = IF p + o + n > Len(d) THEN Unreadable
            ELSE Read(Shifts(first % 64, SubSeq(d, p + o + 2, p + o + n)), p + o + n)
    BY <1>0, <1>2, <2>1 DEF wt_http3_decode_varint
  <2>4. v = IF o + n > Len(a) THEN Unreadable
            ELSE Read(Shifts(first % 64, SubSeq(a, o + 2, o + n)), o + n)
    BY <1>0, <1>2 DEF wt_http3_decode_varint
  <2> HIDE DEF first, n
  <2>5. CASE o + n > Len(a)
    <3>1. ~v.ok
      BY <2>4, <2>5 DEF Unreadable
    <3>2. w.ok => w.end = p + o + n
      BY <2>3 DEF Unreadable, Read
    <3> QED BY <1>0, <2>2, <2>5, <3>1, <3>2
  <2>6. CASE o + n <= Len(a)
    <3>1. v = Read(Shifts(first % 64, SubSeq(a, o + 2, o + n)), o + n)
      BY <1>0, <2>2, <2>4, <2>6
    <3>2. w = Read(Shifts(first % 64, SubSeq(d, p + o + 2, p + o + n)), p + o + n)
      BY <1>0, <2>2, <2>3, <2>6
    <3>3. SubSeq(a, o + 2, o + n) = SubSeq(d, p + (o + 2), p + (o + n))
      <4>1. o + 2 \in Nat \ {0} /\ o + n \in Nat /\ o + n <= Len(a)
        BY <1>0, <2>2, <2>6
      <4>2. ASSUME NEW i \in Nat \ {0}, NEW j \in Nat, j <= Len(a)
            PROVE  SubSeq(a, i, j) = SubSeq(d, p + i, p + j)
        <5>1. a \in Seq(Bytes) /\ d \in Seq(Bytes) /\ p \in Nat
          BY <1>0
        <5> QED BY <4>2, <5>1, WindowSubSeq
      <4> QED BY <4>1, <4>2
    <3>4. p + (o + 2) = p + o + 2 /\ p + (o + n) = p + o + n
      BY <1>0, <2>2
    <3>5. w = Read(v.value, p + v.end) /\ v.ok
      <4>1. v.ok /\ v.value = Shifts(first % 64, SubSeq(a, o + 2, o + n)) /\ v.end = o + n
        BY <3>1 DEF Read
      <4>2. SubSeq(a, o + 2, o + n) = SubSeq(d, p + o + 2, p + o + n) /\ p + v.end = p + o + n
        BY <1>0, <2>2, <3>3, <3>4, <4>1
      <4> QED BY <3>2, <4>1, <4>2
    <3> QED BY <3>5 DEF Read
  <2> QED BY <1>0, <2>2, <2>5, <2>6
<1> QED BY <1>0, <1>1, <1>2

-----------------------------------------------------------------------------
(* Frames *)

\* A frame that can be read has a type and a payload and ends inside the data, after it
\* begins.
LEMMA FrameRead ==
  ASSUME NEW data \in Seq(Bytes), NEW offset \in Nat
  PROVE  LET f == FrameAt(data, offset) IN
         /\ f.ok \in BOOLEAN
         /\ f.ok => /\ f.value.type \in Nat /\ f.value.payload \in Seq(Bytes)
                    /\ f.end \in (offset + 1)..Len(data)
<1> DEFINE type == wt_http3_decode_varint(data, offset)
           length == wt_http3_decode_varint(data, type.end)
<1>1. CASE ~type.ok \/ ~length.ok \/ length.value > Len(data) - length.end
  BY <1>1 DEF FrameAt, Unreadable
<1>2. CASE type.ok /\ length.ok /\ ~(length.value > Len(data) - length.end)
  <2>1. type.value \in Nat /\ type.end \in (offset + 1)..Len(data)
    BY <1>2, IntegerRead
  <2>2. type.end \in Nat
    BY <2>1
  <2>3. length.value \in Nat /\ length.end \in (type.end + 1)..Len(data)
    BY <1>2, <2>2, IntegerRead
  <2>4. FrameAt(data, offset) =
          Read([type |-> type.value, payload |-> SubSeq(data, length.end + 1, length.end + length.value)],
               length.end + length.value)
    BY <1>2 DEF FrameAt
  <2> HIDE DEF type, length
  <2>5. /\ length.end + length.value \in (offset + 1)..Len(data)
        /\ SubSeq(data, length.end + 1, length.end + length.value) \in Seq(Bytes)
    <3>1. /\ length.end + length.value \in (offset + 1)..Len(data)
          /\ length.end + 1 \in Nat \ {0} /\ length.end + length.value \in Nat
          /\ length.end + length.value <= Len(data)
      <4>1. length.end \in Nat /\ length.value \in Nat /\ Len(data) \in Nat /\ offset < length.end
        BY <2>1, <2>2, <2>3
      <4>2. length.value <= Len(data) - length.end
        BY <1>2, <4>1
      <4> QED BY <4>1, <4>2
    <3>2. \A i \in Nat \ {0}, j \in Nat : j <= Len(data) => SubSeq(data, i, j) \in Seq(Bytes)
      OBVIOUS
    <3> QED BY <3>1, <3>2
  <2>6. /\ FrameAt(data, offset).ok
        /\ FrameAt(data, offset).value = [type |-> type.value, payload |-> SubSeq(data, length.end + 1, length.end + length.value)]
        /\ FrameAt(data, offset).end = length.end + length.value
    BY <2>4 DEF Read
  <2> QED BY <2>1, <2>5, <2>6
<1> QED BY <1>1, <1>2

\* A frame that lies whole in a part of the data is the same read from either.
LEMMA FrameInWindow ==
  ASSUME NEW a \in Seq(Bytes), NEW d \in Seq(Bytes), NEW p \in Nat, Window(a, d, p), NEW o \in Nat
  PROVE  LET f == FrameAt(a, o)
             g == FrameAt(d, p + o)
         IN /\ f.ok => g.ok /\ g.value = f.value /\ g.end = p + f.end
            /\ g.ok /\ g.end <= p + Len(a) => f.ok
<1> DEFINE f == FrameAt(a, o)
           g == FrameAt(d, p + o)
           type == wt_http3_decode_varint(a, o)
           length == wt_http3_decode_varint(a, type.end)
           type2 == wt_http3_decode_varint(d, p + o)
           length2 == wt_http3_decode_varint(d, type2.end)
           payload == SubSeq(a, length.end + 1, length.end + length.value)
<1>0. Len(a) \in Nat /\ Len(d) \in Nat /\ p + Len(a) <= Len(d) /\ p + o \in Nat
  BY DEF Window
<1>1. ASSUME f.ok
      PROVE  g.ok /\ g.value = f.value /\ g.end = p + f.end
  <2>1. type.ok /\ length.ok /\ ~(length.value > Len(a) - length.end)
    BY <1>1 DEF FrameAt, Unreadable
  <2>2. f = Read([type |-> type.value, payload |-> payload], length.end + length.value)
    BY <2>1 DEF FrameAt
  <2>3. type.end \in Nat /\ type.value \in Nat /\ length.value \in Nat /\ length.end \in Nat
        /\ length.end <= Len(a)
    <3>1. type.end \in Nat /\ type.value \in Nat
      BY <2>1, IntegerRead
    <3> QED BY <2>1, <3>1, IntegerRead
  <2>4. type2.ok /\ type2.value = type.value /\ type2.end = p + type.end
    BY <2>1, IntegerInWindow
  <2>5. length2.ok /\ length2.value = length.value /\ length2.end = p + length.end
    BY <2>1, <2>3, <2>4, IntegerInWindow
  <2>6. g = IF length2.value > Len(d) - length2.end THEN Unreadable
            ELSE Read([type |-> type2.value,
                       payload |-> SubSeq(d, length2.end + 1, length2.end + length2.value)],
                      length2.end + length2.value)
    BY <2>4, <2>5 DEF FrameAt
  <2> HIDE DEF f, g, type, length, type2, length2
  <2>7. ~(length2.value > Len(d) - length2.end)
    BY <1>0, <2>1, <2>3, <2>5
  <2>8. payload = SubSeq(d, p + (length.end + 1), p + (length.end + length.value))
    <3>1. length.end + 1 \in Nat \ {0} /\ length.end + length.value \in Nat /\ length.end + length.value <= Len(a)
      BY <1>0, <2>1, <2>3
    <3>2. \A i \in Nat \ {0}, j \in Nat : j <= Len(a) => SubSeq(a, i, j) = SubSeq(d, p + i, p + j)
      BY WindowSubSeq
    <3> QED BY <3>1, <3>2
  <2>9. /\ p + (length.end + 1) = length2.end + 1
        /\ p + (length.end + length.value) = length2.end + length2.value
    BY <2>3, <2>5
  <2>10. g = Read([type |-> type.value, payload |-> payload], p + (length.end + length.value))
    BY <2>4, <2>6, <2>7, <2>8, <2>9
  <2>11. f.value = [type |-> type.value, payload |-> payload] /\ f.end = length.end + length.value
    BY <2>2 DEF Read
  <2> QED BY <2>10, <2>11 DEF Read
<1>2. ASSUME g.ok, g.end <= p + Len(a)
      PROVE  f.ok
  <2>1. type2.ok /\ length2.ok /\ ~(length2.value > Len(d) - length2.end)
    BY <1>2 DEF FrameAt, Unreadable
  <2>2. g.end = length2.end + length2.value
    BY <2>1 DEF FrameAt, Read
  <2>3. /\ type2.end \in Nat /\ type2.end <= Len(d) /\ type2.end > p + o
        /\ length2.value \in Nat /\ length2.end \in Nat /\ length2.end > type2.end
    <3>1. type2.end \in (p + o + 1)..Len(d)
      BY <1>0, <2>1, IntegerRead
    <3>2. type2.end \in Nat /\ type2.end <= Len(d) /\ type2.end > p + o
      BY <1>0, <3>1
    <3>3. length2.value \in Nat /\ length2.end \in (type2.end + 1)..Len(d)
      BY <2>1, <3>2, IntegerRead
    <3> QED BY <3>2, <3>3
  <2>4. type.ok
    <3>1. type2.end <= p + Len(a)
      BY <1>0, <1>2, <2>2, <2>3
    <3> QED BY <2>1, <3>1, IntegerInWindow
  <2>5. type2.end = p + type.end /\ type.end \in Nat
    <3>1. type.end \in Nat
      BY <2>4, IntegerRead
    <3> QED BY <2>4, <3>1, IntegerInWindow
  <2>6. length.ok
    <3>1. length2.end <= p + Len(a)
      BY <1>0, <1>2, <2>2, <2>3
    <3> QED BY <2>1, <2>5, <3>1, IntegerInWindow
  <2>7. length2.end = p + length.end /\ length2.value = length.value /\ length.end \in Nat /\ length.value \in Nat
    <3>1. length.end \in Nat /\ length.value \in Nat
      BY <2>5, <2>6, IntegerRead
    <3> QED BY <2>5, <2>6, <3>1, IntegerInWindow
  <2>8. ~(length.value > Len(a) - length.end)
    BY <1>0, <1>2, <2>2, <2>7
  <2> QED BY <2>4, <2>6, <2>8 DEF FrameAt, Read
<1> QED BY <1>1, <1>2

-----------------------------------------------------------------------------
(* The scan of a buffer *)

\* What a scan is from each offset on, from n to the end.
ScansAs(f, data, n) ==
  f = [o \in n..Len(data) |->
         IF ~FrameAt(data, o).ok THEN [verdicts |-> {}, end |-> o]
         ELSE [f[FrameAt(data, o).end] EXCEPT !.verdicts = @ \union Verdicts(FrameAt(data, o).value)]]

\* What a scan from o can give.
Scanned(o, n) == [verdicts : SUBSET BOOLEAN, end : o..n]

\* A frame accepts, refuses, or says nothing.
LEMMA VerdictsAreTruths == \A frame : Verdicts(frame) \in SUBSET BOOLEAN
BY DEF Verdicts, Accepts

\* The scan is defined: each frame ends after it begins, so the recursion is on what is
\* left.
LEMMA ScanExists ==
  ASSUME NEW data \in Seq(Bytes)
  PROVE  \E f : ScansAs(f, data, 0)
<1> DEFINE N == Len(data)
           Bad == {k \in 0..N : ~\E f : ScansAs(f, data, N - k)}
<1>0. N \in Nat /\ Bad \in SUBSET Nat
  OBVIOUS
<1> SUFFICES ASSUME Bad # {} PROVE FALSE
  <2>1. N \in 0..N /\ N - N = 0
    BY <1>0
  <2> QED BY <2>1
<1>1. PICK k \in Bad : \A j \in Bad : k <= j
  <2> HIDE DEF Bad
  <2> QED BY <1>0, Least
<1>2. ASSUME NEW o \in 0..N, FrameAt(data, o).ok
      PROVE  FrameAt(data, o).end \in (o + 1)..N
  BY <1>2, FrameRead
<1>3. k \in 0..N /\ ~\E f : ScansAs(f, data, N - k)
  BY <1>1
<1>4. CASE k = 0
  <2> DEFINE f == [o \in N..N |-> [verdicts |-> {}, end |-> o]]
  <2>1. \A o \in N..N : ~FrameAt(data, o).ok
    BY <1>0, <1>2
  <2>2. ScansAs(f, data, N)
    BY <2>1 DEF ScansAs
  <2>3. N - k = N
    BY <1>0, <1>4
  <2> QED BY <1>3, <2>2, <2>3
<1>5. CASE k # 0
  <2> DEFINE n == N - k
  <2>1. k - 1 \in 0..N /\ N - (k - 1) = n + 1 /\ n \in 0..N /\ n + 1 <= N /\ k - 1 \notin Bad
    <3>1. k \in Nat /\ k >= 1 /\ k <= N
      BY <1>0, <1>3, <1>5
    <3>2. k - 1 \in 0..N /\ N - (k - 1) = n + 1 /\ n \in 0..N /\ n + 1 <= N /\ ~(k <= k - 1)
      BY <1>0, <3>1
    <3> HIDE DEF Bad, n
    <3> QED BY <1>1, <3>2
  <2>2. PICK g : ScansAs(g, data, n + 1)
    BY <2>1
  <2> DEFINE Tops(h, o) == IF ~FrameAt(data, o).ok THEN [verdicts |-> {}, end |-> o]
                           ELSE [h[FrameAt(data, o).end] EXCEPT !.verdicts = @ \union Verdicts(FrameAt(data, o).value)]
             f == [o \in n..N |-> IF o = n THEN Tops(g, o) ELSE g[o]]
  <2> HIDE DEF n, N
  <2>3. \A o \in n..N : FrameAt(data, o).ok => f[FrameAt(data, o).end] = g[FrameAt(data, o).end]
    <3> SUFFICES ASSUME NEW o \in n..N, FrameAt(data, o).ok
                 PROVE  f[FrameAt(data, o).end] = g[FrameAt(data, o).end]
      OBVIOUS
    <3>1. o \in 0..N
      BY <1>0, <2>1
    <3>2. FrameAt(data, o).end \in (o + 1)..N
      BY <1>2, <3>1
    <3>3. FrameAt(data, o).end \in n..N /\ FrameAt(data, o).end # n
      BY <1>0, <2>1, <3>2
    <3> QED BY <3>3
  <2>4. \A o \in n..N : f[o] = Tops(f, o)
    <3> SUFFICES ASSUME NEW o \in n..N
                 PROVE  f[o] = Tops(f, o)
      OBVIOUS
    <3>1. Tops(f, o) = Tops(g, o)
      <4>1. FrameAt(data, o).ok => f[FrameAt(data, o).end] = g[FrameAt(data, o).end]
        BY <2>3
      <4> HIDE DEF f
      <4> QED BY <4>1
    <3>2. CASE o = n
      <4> HIDE DEF Tops
      <4> QED BY <3>1, <3>2
    <3>3. CASE o # n
      <4>1. o \in (n + 1)..N
        BY <1>0, <2>1, <3>3
      <4>2. g[o] = Tops(g, o)
        BY <2>2, <4>1 DEF ScansAs, N
      <4> HIDE DEF Tops
      <4> QED BY <3>1, <3>3, <4>2
    <3> QED BY <3>2, <3>3
  <2>5. ScansAs(f, data, n)
    <3>1. f = [o \in n..N |-> Tops(f, o)]
      <4> HIDE DEF Tops
      <4> QED BY <2>4
    <3> QED BY <3>1 DEF ScansAs, N
  <2> QED BY <1>3, <2>5 DEF n
<1> QED BY <1>4, <1>5

\* Scan, the recursive function of Codec, is such a function.
LEMMA ScanFollows ==
  ASSUME NEW data \in Seq(Bytes)
  PROVE  \E f : ScansAs(f, data, 0) /\ Scan(data) = f[0]
<1> DEFINE f == CHOOSE g : ScansAs(g, data, 0)
<1>1. Scan(data) = f[0]
  BY DEF Scan, ScansAs
<1>2. ScansAs(f, data, 0)
  BY ScanExists
<1> QED BY <1>1, <1>2

\* A set of offsets has a last one.
LEMMA LastPlace ==
  ASSUME NEW n \in Nat, NEW s \in SUBSET (0..n), s # {}
  PROVE  \E o \in s : \A m \in s : m <= o
<1> DEFINE T == {k \in 0..n : n - k \in s}
<1>1. PICK o \in s : TRUE
  OBVIOUS
<1>0. \A m \in s : m \in 0..n
  OBVIOUS
<1>2. n - o \in T
  <2>1. n - o \in 0..n /\ n - (n - o) = o
    BY <1>0, <1>1
  <2> QED BY <1>1, <2>1
<1>3. PICK k \in T : \A j \in T : k <= j
  <2>1. T \in SUBSET Nat
    OBVIOUS
  <2> HIDE DEF T
  <2> QED BY <1>2, <2>1, Least
<1>4. ASSUME NEW m \in s
      PROVE  m <= n - k
  <2>1. n - m \in 0..n /\ n - (n - m) = m
    BY <1>0
  <2>2. n - m \in T
    BY <2>1
  <2> QED BY <1>0, <1>3, <2>1, <2>2
<1> QED BY <1>3, <1>4

\* The verdicts of one frame, put before those of the rest.
Extended(scan, verdicts) == [scan EXCEPT !.verdicts = @ \union verdicts]

\* ... and what they then are.
LEMMA ExtendedIs ==
  ASSUME NEW o, NEW n, NEW scan \in Scanned(o, n), NEW v
  PROVE  Extended(scan, v) = [verdicts |-> scan.verdicts \union v, end |-> scan.end]
BY DEF Extended, Scanned

\* What a scan says of one offset.
Reads(f, data, o) ==
  /\ ~FrameAt(data, o).ok => f[o] = [verdicts |-> {}, end |-> o]
  /\ FrameAt(data, o).ok =>
       /\ FrameAt(data, o).end \in (o + 1)..Len(data)
       /\ f[o] = Extended(f[FrameAt(data, o).end], Verdicts(FrameAt(data, o).value))

\* The scan, unfolded once.
LEMMA ScanSteps ==
  ASSUME NEW data \in Seq(Bytes), NEW f, ScansAs(f, data, 0)
  PROVE  \A o \in 0..Len(data) : Reads(f, data, o)
<1> SUFFICES ASSUME NEW o \in 0..Len(data)
             PROVE  Reads(f, data, o)
  OBVIOUS
<1>1. FrameAt(data, o).ok => FrameAt(data, o).end \in (o + 1)..Len(data)
  BY FrameRead
<1>2. f[o] = IF ~FrameAt(data, o).ok THEN [verdicts |-> {}, end |-> o]
             ELSE [f[FrameAt(data, o).end] EXCEPT !.verdicts = @ \union Verdicts(FrameAt(data, o).value)]
  BY DEF ScansAs
<1> QED BY <1>1, <1>2 DEF Reads, Extended

\* A scan ends between where it begins and the end of the data.
LEMMA ScanTyped ==
  ASSUME NEW data \in Seq(Bytes), NEW f, ScansAs(f, data, 0)
  PROVE  \A o \in 0..Len(data) : f[o] \in Scanned(o, Len(data))
<1> DEFINE Bad == {o \in 0..Len(data) : f[o] \notin Scanned(o, Len(data))}
<1>0. Len(data) \in Nat /\ Bad \in SUBSET (0..Len(data))
  OBVIOUS
<1> SUFFICES ASSUME Bad # {} PROVE FALSE
  OBVIOUS
<1>1. PICK o \in Bad : \A m \in Bad : m <= o
  <2> HIDE DEF Bad
  <2> QED BY <1>0, LastPlace
<1>2. o \in 0..Len(data) /\ f[o] \notin Scanned(o, Len(data))
  BY <1>1
<1>3. Reads(f, data, o)
  BY <1>2, ScanSteps
<1>4. CASE ~FrameAt(data, o).ok
  BY <1>0, <1>2, <1>3, <1>4 DEF Reads, Scanned
<1>5. ASSUME NEW e, e = FrameAt(data, o).end, NEW v, v = Verdicts(FrameAt(data, o).value), FrameAt(data, o).ok
      PROVE  FALSE
  <2>1. e \in (o + 1)..Len(data) /\ f[o] = Extended(f[e], v)
    BY <1>3, <1>5 DEF Reads
  <2>2. e \in 0..Len(data) /\ ~(e <= o)
    BY <1>0, <1>2, <2>1
  <2>3. f[e] \in Scanned(e, Len(data))
    BY <1>1, <2>2
  <2>4. v \in SUBSET BOOLEAN
    BY <1>5, VerdictsAreTruths
  <2>5. f[o] = [verdicts |-> f[e].verdicts \union v, end |-> f[e].end]
    BY <2>1, <2>3, ExtendedIs
  <2>6. f[e].verdicts \in SUBSET BOOLEAN /\ f[e].end \in e..Len(data)
    BY <2>3 DEF Scanned
  <2>7. f[e].end \in o..Len(data)
    BY <1>0, <1>2, <2>2, <2>6
  <2> QED BY <1>2, <2>4, <2>5, <2>6, <2>7 DEF Scanned
<1> QED BY <1>4, <1>5

-----------------------------------------------------------------------------
(* What FlattenSeq computes *)

\* What FlattenSeq unfolds to: the members up to the i-th, joined.
Joins(f, a, n) == f = [i \in 1..n |-> IF i = 1 THEN a[i] ELSE f[i - 1] \o a[i]]

\* Such a function exists, by induction on the number of members.
LEMMA JoinsExists ==
  ASSUME NEW a, NEW N \in Nat
  PROVE  \E f : Joins(f, a, N)
<1> DEFINE Bad == {n \in Nat : ~\E f : Joins(f, a, n)}
<1> SUFFICES ASSUME Bad # {} PROVE FALSE
  OBVIOUS
<1>1. PICK n \in Bad : \A m \in Bad : n <= m
  BY Least
<1>2. CASE n = 0
  <2> DEFINE f == [i \in 1..n |-> <<>>]
  <2>1. Joins(f, a, n)
    BY <1>2 DEF Joins
  <2> QED BY <1>1, <2>1
<1>3. CASE n # 0
  <2>1. n - 1 \in Nat /\ n - 1 \notin Bad
    BY <1>1, <1>3
  <2>2. PICK g : Joins(g, a, n - 1)
    BY <2>1
  <2> DEFINE f == [i \in 1..n |-> IF i = n THEN IF i = 1 THEN a[i] ELSE g[i - 1] \o a[i] ELSE g[i]]
  <2>3. ASSUME NEW i \in 1..n
        PROVE  f[i] = IF i = 1 THEN a[i] ELSE f[i - 1] \o a[i]
    <3>1. i # 1 => f[i - 1] = g[i - 1]
      <4>1. i # 1 => i - 1 \in 1..n /\ i - 1 # n
        BY <1>1
      <4> QED BY <4>1
    <3>2. CASE i = n
      BY <3>1, <3>2
    <3>3. CASE i # n
      <4>1. i \in 1..(n - 1)
        BY <1>1, <3>3
      <4>2. g[i] = IF i = 1 THEN a[i] ELSE g[i - 1] \o a[i]
        BY <2>2, <4>1 DEF Joins
      <4> QED BY <3>1, <3>3, <4>2
    <3> QED BY <3>2, <3>3
  <2>4. Joins(f, a, n)
    BY <2>3 DEF Joins
  <2> QED BY <1>1, <2>4
<1> QED BY <1>2, <1>3

\* Two sequences that begin with the same m members.
Alike(a, b, m) == \A i \in 1..m : a[i] = b[i]

\* ... are joined to the same thing as far as that.
LEMMA JoinsAgree ==
  ASSUME NEW a, NEW b, NEW m \in Nat, NEW n \in Nat, m <= n, Alike(a, b, m),
         NEW f, Joins(f, a, n), NEW g, Joins(g, b, m)
  PROVE  \A i \in 1..m : f[i] = g[i]
<1> DEFINE Bad == {i \in 1..m : f[i] # g[i]}
<1> SUFFICES ASSUME Bad # {} PROVE FALSE
  OBVIOUS
<1>1. PICK i \in Bad : \A j \in Bad : i <= j
  <2>1. Bad \in SUBSET Nat
    OBVIOUS
  <2> HIDE DEF Bad
  <2> QED BY <2>1, Least
<1>2. i \in 1..m /\ i \in 1..n /\ f[i] # g[i]
  BY <1>1
<1>3. /\ f[i] = IF i = 1 THEN a[i] ELSE f[i - 1] \o a[i]
      /\ g[i] = IF i = 1 THEN b[i] ELSE g[i - 1] \o b[i]
  BY <1>2 DEF Joins
<1>4. CASE i # 1
  <2>1. i - 1 \in 1..m /\ ~(i <= i - 1)
    BY <1>2, <1>4
  <2>2. f[i - 1] = g[i - 1]
    BY <1>1, <2>1
  <2>3. a[i] = b[i]
    BY <1>2 DEF Alike
  <2> QED BY <1>2, <1>3, <1>4, <2>2, <2>3
<1>5. a[i] = b[i]
  BY <1>2 DEF Alike
<1> QED BY <1>2, <1>3, <1>4, <1>5

\* The first i members of a, one after the other, and where they end.
First(a, i) == FlattenSeq(SubSeq(a, 1, i))

EndIn(a, i) == Len(First(a, i))

\* The first members are members.
LEMMA FirstMembers ==
  ASSUME NEW S, NEW a \in Seq(Seq(S)), NEW i \in 0..Len(a)
  PROVE  /\ SubSeq(a, 1, i) \in Seq(Seq(S)) /\ Len(SubSeq(a, 1, i)) = i
         /\ \A j \in 1..i : SubSeq(a, 1, i)[j] = a[j]
<1>1. Len(a) \in Nat /\ i \in Nat
  OBVIOUS
<1> QED BY <1>1

\* FlattenSeq of the first i members is the function at i.
LEMMA FirstFollows ==
  ASSUME NEW S, NEW a \in Seq(Seq(S)), NEW f, Joins(f, a, Len(a)), NEW i \in 1..Len(a)
  PROVE  First(a, i) = f[i]
<1> DEFINE s == SubSeq(a, 1, i)
           g == CHOOSE h : Joins(h, s, Len(s))
<1>0. Len(a) \in Nat /\ i \in Nat /\ i <= Len(a) /\ i \in 0..Len(a) /\ i \in 1..i
  OBVIOUS
<1>1. s \in Seq(Seq(S)) /\ Len(s) = i /\ \A j \in 1..i : s[j] = a[j]
  BY <1>0, FirstMembers
<1>2. Joins(g, s, Len(s))
  <2> HIDE DEF s
  <2> QED BY <1>0, <1>1, JoinsExists
<1>3. First(a, i) = g[i]
  BY <1>0, <1>1 DEF First, FlattenSeq, Joins
<1>4. \A j \in 1..i : f[j] = g[j]
  <2> HIDE DEF g, s
  <2>1. Joins(g, s, i) /\ Alike(a, s, i)
    BY <1>1, <1>2 DEF Alike
  <2> QED BY <1>0, <2>1, JoinsAgree
<1> QED BY <1>0, <1>3, <1>4

\* The members up to the i-th are those before it, and it.
LEMMA FirstUnfold ==
  ASSUME NEW S, NEW a \in Seq(Seq(S))
  PROVE  /\ First(a, 0) = <<>>
         /\ First(a, Len(a)) = FlattenSeq(a)
         /\ \A i \in 1..Len(a) : First(a, i) = First(a, i - 1) \o a[i]
<1>0. Len(a) \in Nat /\ 0 \in 0..Len(a)
  OBVIOUS
<1>1. First(a, 0) = <<>>
  <2>1. SubSeq(a, 1, 0) = <<>>
    BY <1>0
  <2> QED BY <2>1 DEF First, FlattenSeq
<1>2. First(a, Len(a)) = FlattenSeq(a)
  <2>1. SubSeq(a, 1, Len(a)) = a
    BY <1>0
  <2> QED BY <2>1 DEF First
<1>3. PICK f : Joins(f, a, Len(a))
  BY <1>0, JoinsExists
<1>4. ASSUME NEW i \in 1..Len(a)
      PROVE  First(a, i) = First(a, i - 1) \o a[i]
  <2>1. f[i] = IF i = 1 THEN a[i] ELSE f[i - 1] \o a[i]
    BY <1>3 DEF Joins
  <2>2. First(a, i) = f[i]
    BY <1>3, FirstFollows
  <2>3. CASE i = 1
    <3>1. a[i] \in Seq(S)
      OBVIOUS
    <3>2. <<>> \o a[i] = a[i]
      BY <3>1
    <3> QED BY <1>1, <2>1, <2>2, <2>3, <3>2
  <2>4. CASE i # 1
    <3>1. i - 1 \in 1..Len(a)
      BY <1>0, <2>4
    <3>2. First(a, i - 1) = f[i - 1]
      BY <1>3, <3>1, FirstFollows
    <3> QED BY <2>1, <2>2, <2>4, <3>2
  <2> QED BY <2>3, <2>4
<1> QED BY <1>1, <1>2, <1>4

\* Members that are sequences over S are joined to one.
LEMMA FirstTyped ==
  ASSUME NEW S, NEW a \in Seq(Seq(S))
  PROVE  \A i \in 0..Len(a) : First(a, i) \in Seq(S)
<1> DEFINE Bad == {i \in 0..Len(a) : First(a, i) \notin Seq(S)}
<1> SUFFICES ASSUME Bad # {} PROVE FALSE
  OBVIOUS
<1>1. PICK i \in Bad : \A j \in Bad : i <= j
  <2>1. Bad \in SUBSET Nat
    OBVIOUS
  <2> HIDE DEF Bad
  <2> QED BY <2>1, Least
<1>2. i \in 0..Len(a) /\ First(a, i) \notin Seq(S) /\ Len(a) \in Nat
  BY <1>1
<1>3. CASE i = 0
  <2>1. First(a, 0) = <<>>
    BY FirstUnfold, Zenon
  <2>2. <<>> \in Seq(S)
    OBVIOUS
  <2>3. First(a, i) = <<>>
    BY <1>3, <2>1, Zenon
  <2> QED BY <1>2, <2>2, <2>3, Zenon
<1>4. CASE i # 0
  <2>1. i \in 1..Len(a) /\ i - 1 \in 0..Len(a) /\ ~(i <= i - 1)
    BY <1>2, <1>4
  <2>2. First(a, i - 1) \in Seq(S)
    BY <1>1, <2>1
  <2>3. a[i] \in Seq(S)
    BY <2>1
  <2>4. First(a, i) = First(a, i - 1) \o a[i]
    BY <2>1, FirstUnfold
  <2> QED BY <1>2, <2>2, <2>3, <2>4
<1> QED BY <1>3, <1>4

\* Each member ends its own length after the one before it.
LEMMA EndSteps ==
  ASSUME NEW S, NEW a \in Seq(Seq(S))
  PROVE  /\ EndIn(a, 0) = 0
         /\ FlattenSeq(a) \in Seq(S) /\ EndIn(a, Len(a)) = Len(FlattenSeq(a))
         /\ \A i \in 0..Len(a) : EndIn(a, i) \in Nat
         /\ \A i \in 1..Len(a) : EndIn(a, i) = EndIn(a, i - 1) + Len(a[i])
<1>0. Len(a) \in Nat /\ Len(a) \in 0..Len(a)
  OBVIOUS
<1>1. EndIn(a, 0) = 0
  <2>1. First(a, 0) = <<>>
    BY FirstUnfold, Zenon
  <2> QED BY <2>1 DEF EndIn
<1>2. \A i \in 0..Len(a) : EndIn(a, i) \in Nat
  BY FirstTyped DEF EndIn
<1>3. FlattenSeq(a) \in Seq(S) /\ EndIn(a, Len(a)) = Len(FlattenSeq(a))
  <2>1. First(a, Len(a)) = FlattenSeq(a)
    BY FirstUnfold
  <2>2. First(a, Len(a)) \in Seq(S)
    BY <1>0, FirstTyped
  <2> QED BY <2>1, <2>2 DEF EndIn
<1>4. ASSUME NEW i \in 1..Len(a)
      PROVE  EndIn(a, i) = EndIn(a, i - 1) + Len(a[i])
  <2>1. i - 1 \in 0..Len(a) /\ a[i] \in Seq(S)
    OBVIOUS
  <2>2. First(a, i - 1) \in Seq(S)
    BY <2>1, FirstTyped
  <2>3. First(a, i) = First(a, i - 1) \o a[i]
    BY FirstUnfold
  <2> QED BY <2>1, <2>2, <2>3 DEF EndIn
<1> QED BY <1>1, <1>2, <1>3, <1>4

\* What is put after a sequence leaves it the beginning of the whole.
LEMMA Beginning ==
  ASSUME NEW s \in Seq(Bytes), NEW t \in Seq(Bytes), NEW d, Window(s \o t, d, 0)
  PROVE  Window(s, d, 0) /\ Window(t, d, Len(s))
<1>1. /\ s \o t \in Seq(Bytes) /\ Len(s \o t) = Len(s) + Len(t)
      /\ \A i \in 1..Len(s) : (s \o t)[i] = s[i]
      /\ \A i \in 1..Len(t) : (s \o t)[Len(s) + i] = t[i]
      /\ Len(s) \in Nat /\ Len(t) \in Nat
  OBVIOUS
<1>2. d \in Seq(Bytes) /\ Len(d) \in Nat /\ Len(s) + Len(t) <= Len(d)
      /\ \A i \in 1..(Len(s) + Len(t)) : (s \o t)[i] = d[0 + i]
  BY <1>1 DEF Window
<1>3. Window(s, d, 0)
  BY <1>1, <1>2 DEF Window
<1>4. \A i \in 1..Len(t) : t[i] = d[Len(s) + i]
  <2> SUFFICES ASSUME NEW i \in 1..Len(t)
               PROVE  t[i] = d[Len(s) + i]
    OBVIOUS
  <2>1. Len(s) + i \in 1..(Len(s) + Len(t)) /\ 0 + (Len(s) + i) = Len(s) + i
    BY <1>1
  <2> QED BY <1>1, <1>2, <2>1
<1> QED BY <1>1, <1>2, <1>3, <1>4 DEF Window

\* The i-th member lies in the whole where the one before it ends.
LEMMA MembersInWhole ==
  ASSUME NEW a \in Seq(Seq(Bytes))
  PROVE  /\ \A i \in 0..Len(a) : Window(First(a, i), FlattenSeq(a), 0)
         /\ \A i \in 1..Len(a) : Window(a[i], FlattenSeq(a), EndIn(a, i - 1))
<1> DEFINE A == FlattenSeq(a)
           Bad == {i \in 0..Len(a) : ~Window(First(a, i), A, 0)}
<1>0. Len(a) \in Nat /\ Bad \in SUBSET (0..Len(a)) /\ A \in Seq(Bytes)
  BY EndSteps
<1>1. ASSUME NEW i \in 1..Len(a), Window(First(a, i), A, 0)
      PROVE  Window(First(a, i - 1), A, 0) /\ Window(a[i], A, EndIn(a, i - 1))
  <2>1. i - 1 \in 0..Len(a) /\ a[i] \in Seq(Bytes)
    OBVIOUS
  <2>2. First(a, i - 1) \in Seq(Bytes)
    BY <2>1, FirstTyped
  <2>3. First(a, i) = First(a, i - 1) \o a[i]
    BY FirstUnfold
  <2> HIDE DEF A
  <2> QED BY <1>1, <2>1, <2>2, <2>3, Beginning DEF EndIn
<1>2. ASSUME Bad # {}
      PROVE  FALSE
  <2>1. PICK i \in Bad : \A m \in Bad : m <= i
    <3> HIDE DEF Bad
    <3> QED BY <1>0, <1>2, LastPlace
  <2>2. i \in 0..Len(a) /\ ~Window(First(a, i), A, 0)
    BY <2>1
  <2>3. CASE i = Len(a)
    <3>1. First(a, i) = A
      BY <2>3, FirstUnfold
    <3> HIDE DEF A
    <3>2. Window(A, A, 0)
      BY <1>0 DEF Window
    <3> QED BY <2>2, <3>1, <3>2
  <2>4. CASE i # Len(a)
    <3>1. i + 1 \in 1..Len(a) /\ i + 1 \in 0..Len(a) /\ ~(i + 1 <= i) /\ (i + 1) - 1 = i
      BY <1>0, <2>2, <2>4
    <3>2. Window(First(a, i + 1), A, 0)
      BY <2>1, <3>1
    <3>3. Window(First(a, (i + 1) - 1), A, 0)
      <4> HIDE DEF A
      <4> QED BY <1>1, <3>1, <3>2
    <3> QED BY <2>2, <3>1, <3>3
  <2> QED BY <2>3, <2>4
<1>3. \A i \in 0..Len(a) : Window(First(a, i), A, 0)
  BY <1>2
<1>4. \A i \in 1..Len(a) : i \in 0..Len(a)
  BY <1>0
<1> HIDE DEF A, Bad
<1>5. \A i \in 1..Len(a) : Window(a[i], A, EndIn(a, i - 1))
  BY <1>1, <1>3, <1>4
<1> QED BY <1>3, <1>5 DEF A

-----------------------------------------------------------------------------
(* A sequence of frames *)

\* An answer: each member a whole frame.
Frames == {a \in Seq(Seq(Bytes)) : \A i \in DOMAIN a : IsFrame(a[i])}

\* Each is where the one before it ends.
LEMMA FrameOf ==
  ASSUME NEW a \in Frames, NEW i \in 1..Len(a)
  PROVE  /\ FrameAt(FlattenSeq(a), EndIn(a, i - 1)).ok
         /\ FrameAt(FlattenSeq(a), EndIn(a, i - 1)).end = EndIn(a, i)
         /\ FrameAt(FlattenSeq(a), EndIn(a, i - 1)).value = FrameAt(a[i], 0).value
         /\ EndIn(a, i - 1) < EndIn(a, i)
<1> DEFINE A == FlattenSeq(a)
           p == EndIn(a, i - 1)
           b == a[i]
<1>0. a \in Seq(Seq(Bytes)) /\ b \in Seq(Bytes) /\ IsFrame(b) /\ Len(b) \in Nat
  BY DEF Frames
<1>1. A \in Seq(Bytes) /\ p \in Nat /\ EndIn(a, i) = p + Len(b)
  <2>1. i - 1 \in 0..Len(a)
    BY <1>0
  <2> QED BY <1>0, <2>1, EndSteps
<1>2. Window(b, A, p)
  BY <1>0, MembersInWhole
<1> HIDE DEF A, p, b
<1>3. FrameAt(b, 0).ok /\ FrameAt(b, 0).end = Len(b)
  BY <1>0 DEF IsFrame
<1>4. FrameAt(b, 0).end \in (0 + 1)..Len(b)
  BY <1>0, <1>3, FrameRead
<1>5. FrameAt(A, p + 0).ok /\ FrameAt(A, p + 0).value = FrameAt(b, 0).value /\ FrameAt(A, p + 0).end = p + FrameAt(b, 0).end
  BY <1>0, <1>1, <1>2, <1>3, FrameInWindow
<1>6. p + 0 = p /\ p < p + Len(b)
  BY <1>0, <1>1, <1>3, <1>4
<1>7. FrameAt(A, p).ok /\ FrameAt(A, p).end = EndIn(a, i) /\ FrameAt(A, p).value = FrameAt(b, 0).value /\ p < EndIn(a, i)
  BY <1>1, <1>3, <1>5, <1>6
<1> QED BY <1>7 DEF A, p, b

\* Frames end one after the other.
LEMMA EndsGrow ==
  ASSUME NEW a \in Frames, NEW i \in 0..Len(a)
  PROVE  \A j \in i..Len(a) : EndIn(a, i) <= EndIn(a, j) /\ (i # j => EndIn(a, i) < EndIn(a, j))
<1> DEFINE Grown(j) == EndIn(a, i) <= EndIn(a, j) /\ (i # j => EndIn(a, i) < EndIn(a, j))
           Bad == {j \in i..Len(a) : ~Grown(j)}
<1> SUFFICES ASSUME Bad # {} PROVE FALSE
  OBVIOUS
<1>0. a \in Seq(Seq(Bytes)) /\ Len(a) \in Nat /\ i \in Nat
  BY DEF Frames
<1>1. PICK j \in Bad : \A k \in Bad : j <= k
  <2>1. Bad \in SUBSET Nat
    BY <1>0
  <2> HIDE DEF Bad
  <2> QED BY <2>1, Least
<1>2. j \in i..Len(a) /\ ~Grown(j)
  BY <1>1
<1>3. \A k \in 0..Len(a) : EndIn(a, k) \in Nat
  BY <1>0, EndSteps
<1>4. j # i
  BY <1>0, <1>2, <1>3
<1>5. j - 1 \in i..Len(a) /\ ~(j <= j - 1) /\ j \in 1..Len(a) /\ j - 1 \in 0..Len(a) /\ j \in 0..Len(a)
  BY <1>0, <1>2, <1>4
<1>6. Grown(j - 1)
  <2> HIDE DEF Grown
  <2> QED BY <1>1, <1>5
<1>7. EndIn(a, j - 1) < EndIn(a, j)
  BY <1>5, FrameOf
<1>8. EndIn(a, i) \in Nat /\ EndIn(a, j) \in Nat /\ EndIn(a, j - 1) \in Nat
  BY <1>3, <1>5
<1> QED BY <1>2, <1>6, <1>7, <1>8

\* What the frames after the i-th say, up to the m-th.
TellsIn(a, i, m) == UNION {Verdicts(FrameAt(a[j], 0).value) : j \in (i + 1)..m}

\* The verdicts of the first of them, and of the rest.
LEMMA TellsUnfold ==
  ASSUME NEW a, NEW m \in Nat, NEW i \in Nat
  PROVE  /\ TellsIn(a, m, m) = {}
         /\ i < m => TellsIn(a, i, m) = TellsIn(a, i + 1, m) \union Verdicts(FrameAt(a[i + 1], 0).value)
<1>1. TellsIn(a, m, m) = {}
  <2>1. (m + 1)..m = {}
    OBVIOUS
  <2> QED BY <2>1 DEF TellsIn
<1>2. i < m => (i + 1)..m = ((i + 1) + 1)..m \union {i + 1}
  OBVIOUS
<1>3. ASSUME i < m
      PROVE  TellsIn(a, i, m) = TellsIn(a, i + 1, m) \union Verdicts(FrameAt(a[i + 1], 0).value)
  <2>1. (i + 1)..m = ((i + 1) + 1)..m \union {i + 1}
    BY <1>2, <1>3
  <2> QED BY <2>1 DEF TellsIn
<1> QED BY <1>1, <1>3

\* All that is there, from the end of the k-th frame on, is m frames and the beginning of one.
Reaches(a, k, m, n) ==
  /\ k \in 0..Len(a) /\ m \in k..Len(a) /\ n \in Nat
  /\ EndIn(a, m) <= n /\ n <= Len(FlattenSeq(a))
  /\ m < Len(a) => n < EndIn(a, m + 1)

\* A scan from the end of the k-th frame reads the frames that are whole, and stops where
\* the next begins.
LEMMA ScanOfFrames ==
  ASSUME NEW a \in Frames, NEW k, NEW m, NEW n, Reaches(a, k, m, n)
  PROVE  Scan(SubSeq(FlattenSeq(a), EndIn(a, k) + 1, n))
           = [verdicts |-> TellsIn(a, k, m), end |-> EndIn(a, m) - EndIn(a, k)]
<1> DEFINE A == FlattenSeq(a)
           p == EndIn(a, k)
           D == SubSeq(A, p + 1, n)
           Off(i) == EndIn(a, i) - p
           Read1(f, i) == f[Off(i)] = [verdicts |-> TellsIn(a, i, m), end |-> Off(m)]
<1>0. /\ a \in Seq(Seq(Bytes)) /\ Len(a) \in Nat /\ k \in Nat /\ m \in Nat /\ n \in Nat
      /\ k <= m /\ m <= Len(a) /\ k \in 0..Len(a) /\ m \in 0..Len(a)
  BY DEF Frames, Reaches
<1>1. /\ A \in Seq(Bytes) /\ Len(A) \in Nat /\ p \in Nat /\ EndIn(a, m) <= n /\ n <= Len(A)
      /\ EndIn(a, m) \in Nat /\ (m < Len(a) => n < EndIn(a, m + 1)) /\ EndIn(a, Len(a)) = Len(A)
  BY <1>0, EndSteps DEF Reaches
<1>2. \A i \in k..m : /\ EndIn(a, i) \in Nat /\ p <= EndIn(a, i) /\ EndIn(a, i) <= EndIn(a, m)
                      /\ i \in 0..Len(a) /\ m \in i..Len(a) /\ i \in k..Len(a)
  <2> SUFFICES ASSUME NEW i \in k..m
               PROVE  /\ EndIn(a, i) \in Nat /\ p <= EndIn(a, i) /\ EndIn(a, i) <= EndIn(a, m)
                      /\ i \in 0..Len(a) /\ m \in i..Len(a) /\ i \in k..Len(a)
    OBVIOUS
  <2>1. i \in 0..Len(a) /\ m \in i..Len(a) /\ i \in k..Len(a)
    BY <1>0
  <2>2. EndIn(a, i) \in Nat
    BY <1>0, <2>1, EndSteps
  <2>3. p <= EndIn(a, i)
    BY <1>0, <2>1, EndsGrow
  <2>4. EndIn(a, i) <= EndIn(a, m)
    BY <2>1, EndsGrow
  <2> QED BY <2>1, <2>2, <2>3, <2>4
<1>3. p <= EndIn(a, m)
  BY <1>0, <1>2
<1>4. D \in Seq(Bytes) /\ Len(D) = n - p /\ Window(D, A, p) /\ Len(D) \in Nat
  <2> HIDE DEF A, p
  <2>1. p <= n /\ n - p \in Nat
    BY <1>0, <1>1, <1>3
  <2>2. D \in Seq(Bytes) /\ Len(D) = n - p /\ \A i \in 1..(n - p) : D[i] = A[p + i]
    BY <1>0, <1>1, <2>1
  <2> QED BY <1>0, <1>1, <2>1, <2>2 DEF Window
<1>5. PICK f : ScansAs(f, D, 0) /\ Scan(D) = f[0]
  <2> HIDE DEF D
  <2> QED BY <1>4, ScanFollows
<1>6. \A o \in 0..Len(D) : Reads(f, D, o)
  <2> HIDE DEF D
  <2> QED BY <1>4, <1>5, ScanSteps
<1>7. \A o \in 0..Len(D) : f[o] \in Scanned(o, Len(D))
  <2> HIDE DEF D
  <2> QED BY <1>4, <1>5, ScanTyped
<1>8. \A o \in Nat :
        /\ FrameAt(D, o).ok => /\ FrameAt(A, p + o).ok /\ FrameAt(A, p + o).value = FrameAt(D, o).value
                               /\ FrameAt(A, p + o).end = p + FrameAt(D, o).end
        /\ FrameAt(A, p + o).ok /\ FrameAt(A, p + o).end <= p + Len(D) => FrameAt(D, o).ok
  <2> HIDE DEF D, A, p
  <2> QED BY <1>1, <1>4, FrameInWindow
<1>9. \A i \in k..m : Off(i) \in 0..Len(D) /\ Off(i) \in Nat /\ p + Off(i) = EndIn(a, i)
  <2> HIDE DEF D, p
  <2> QED BY <1>0, <1>1, <1>2, <1>4
<1>10. \A i \in 1..Len(a) : /\ FrameAt(A, EndIn(a, i - 1)).ok /\ FrameAt(A, EndIn(a, i - 1)).end = EndIn(a, i)
                            /\ FrameAt(A, EndIn(a, i - 1)).value = FrameAt(a[i], 0).value
  BY FrameOf
<1>11. Read1(f, m)
  <2>1. m \in k..m
    BY <1>0
  <2>2. Off(m) \in 0..Len(D) /\ Off(m) \in Nat /\ p + Off(m) = EndIn(a, m)
    BY <1>9, <2>1
  <2> HIDE DEF Off, D, A, p
  <2>3. ASSUME FrameAt(D, Off(m)).ok
        PROVE  FALSE
    <3>1. FrameAt(D, Off(m)).end \in (Off(m) + 1)..Len(D)
      BY <1>4, <2>2, <2>3, FrameRead
    <3>2. FrameAt(A, EndIn(a, m)).end = p + FrameAt(D, Off(m)).end
      BY <1>8, <2>2, <2>3
    <3>3. p + FrameAt(D, Off(m)).end <= n /\ EndIn(a, m) < n
      <4>1. /\ n \in Nat /\ p \in Nat /\ Off(m) \in Nat /\ Len(D) = n - p
            /\ p + Off(m) = EndIn(a, m)
        BY <1>0, <1>1, <1>4, <2>2
      <4>2. \A e \in (Off(m) + 1)..Len(D) : p + e <= n /\ p + Off(m) < n
        BY <4>1
      <4> QED BY <3>1, <4>1, <4>2
    <3>4. CASE m = Len(a)
      BY <1>0, <1>1, <3>3, <3>4
    <3>5. CASE m # Len(a)
      <4>1. m + 1 \in 1..Len(a) /\ (m + 1) - 1 = m /\ m < Len(a)
        BY <1>0, <3>5
      <4>2. FrameAt(A, EndIn(a, (m + 1) - 1)).end = EndIn(a, m + 1)
        BY <1>10, <4>1
      <4>3. FrameAt(A, EndIn(a, m)).end = EndIn(a, m + 1)
        BY <4>1, <4>2
      <4>4. EndIn(a, m + 1) \in Nat
        <5>1. m + 1 \in 0..Len(a)
          BY <1>0, <4>1
        <5> QED BY <1>0, <5>1, EndSteps
      <4> QED BY <1>0, <1>1, <3>2, <3>3, <4>1, <4>3, <4>4
    <3> QED BY <3>4, <3>5
  <2>4. f[Off(m)] = [verdicts |-> {}, end |-> Off(m)]
    BY <1>6, <2>2, <2>3 DEF Reads
  <2>5. TellsIn(a, m, m) = {}
    BY <1>0, TellsUnfold
  <2> QED BY <2>4, <2>5
<1>12. ASSUME NEW i \in k..m, i # m, Read1(f, i + 1)
       PROVE  Read1(f, i)
  <2>1. i + 1 \in k..m /\ i \in Nat /\ i < m /\ i + 1 \in 1..Len(a) /\ (i + 1) - 1 = i
    BY <1>0, <1>12
  <2>2. /\ Off(i) \in 0..Len(D) /\ Off(i) \in Nat /\ p + Off(i) = EndIn(a, i)
        /\ Off(i + 1) \in 0..Len(D) /\ Off(i + 1) \in Nat /\ p + Off(i + 1) = EndIn(a, i + 1)
    <3> HIDE DEF Off, D, A, p
    <3> QED BY <1>9, <2>1
  <2> HIDE DEF Off, D, A, p
  <2>3. /\ FrameAt(A, EndIn(a, (i + 1) - 1)).ok /\ FrameAt(A, EndIn(a, (i + 1) - 1)).end = EndIn(a, i + 1)
        /\ FrameAt(A, EndIn(a, (i + 1) - 1)).value = FrameAt(a[i + 1], 0).value
    BY <1>10, <2>1
  <2>4. /\ FrameAt(A, p + Off(i)).ok /\ FrameAt(A, p + Off(i)).end = p + Off(i + 1)
        /\ FrameAt(A, p + Off(i)).value = FrameAt(a[i + 1], 0).value
    BY <2>1, <2>2, <2>3
  <2>5. FrameAt(A, p + Off(i)).end <= p + Len(D)
    BY <1>1, <1>4, <2>2, <2>4
  <2>6. FrameAt(D, Off(i)).ok
    BY <1>8, <2>2, <2>4, <2>5
  <2>7. FrameAt(A, p + Off(i)).value = FrameAt(D, Off(i)).value /\ FrameAt(A, p + Off(i)).end = p + FrameAt(D, Off(i)).end
    BY <1>8, <2>2, <2>6
  <2>8. FrameAt(D, Off(i)).end \in (Off(i) + 1)..Len(D)
    BY <1>4, <2>2, <2>6, FrameRead
  <2>9. FrameAt(D, Off(i)).end = Off(i + 1)
    BY <1>1, <1>4, <2>2, <2>4, <2>7, <2>8
  <2>10. f[Off(i)] = Extended(f[Off(i + 1)], Verdicts(FrameAt(a[i + 1], 0).value))
    <3>1. Reads(f, D, Off(i))
      BY <1>6, <2>2
    <3> QED BY <2>4, <2>6, <2>7, <2>9, <3>1 DEF Reads
  <2>11. f[Off(i + 1)] \in Scanned(Off(i + 1), Len(D))
    BY <1>7, <2>2
  <2>12. f[Off(i)] = [verdicts |-> f[Off(i + 1)].verdicts \union Verdicts(FrameAt(a[i + 1], 0).value),
                      end |-> f[Off(i + 1)].end]
    BY <2>10, <2>11, ExtendedIs
  <2>13. f[Off(i + 1)].verdicts = TellsIn(a, i + 1, m) /\ f[Off(i + 1)].end = Off(m)
    BY <1>12
  <2>14. TellsIn(a, i, m) = TellsIn(a, i + 1, m) \union Verdicts(FrameAt(a[i + 1], 0).value)
    BY <1>0, <2>1, TellsUnfold
  <2> QED BY <2>12, <2>13, <2>14
<1>13. Read1(f, k)
  <2> DEFINE Bad == {i \in k..m : ~Read1(f, i)}
  <2> SUFFICES ASSUME Bad # {} PROVE FALSE
    <3>1. k \in k..m
      BY <1>0
    <3> HIDE DEF Read1
    <3> QED BY <3>1
  <2>1. PICK i \in Bad : \A j \in Bad : j <= i
    <3>1. Bad \in SUBSET (0..m)
      BY <1>0
    <3> HIDE DEF Bad
    <3> QED BY <1>0, <3>1, LastPlace
  <2> HIDE DEF Read1
  <2>2. i \in k..m /\ ~Read1(f, i)
    BY <2>1
  <2>3. i # m
    BY <1>11, <2>2
  <2>4. i + 1 \in k..m /\ ~(i + 1 <= i)
    BY <1>0, <2>2, <2>3
  <2>5. Read1(f, i + 1)
    BY <2>1, <2>4
  <2> QED BY <1>12, <2>2, <2>3, <2>5
<1>14. Off(k) = 0
  BY <1>1
<1> QED BY <1>5, <1>13, <1>14

\* The definitions of the properties, for an answer and the number of bytes read.
WholeIn(a, n) == {i \in DOMAIN a : EndIn(a, i) <= n}

LeftIn(a, n) == SubSeq(FlattenSeq(a), 1 + EndIn(a, Cardinality(WholeIn(a, n))), n)

\* The whole frames are the first ones, and with the beginning of the next they are all that
\* was read.
LEMMA WholeIs ==
  ASSUME NEW a \in Frames, NEW n \in 0..Len(FlattenSeq(a))
  PROVE  /\ WholeIn(a, n) = 1..Cardinality(WholeIn(a, n))
         /\ Reaches(a, Cardinality(WholeIn(a, n)), Cardinality(WholeIn(a, n)), n)
<1> DEFINE W == WholeIn(a, n)
           T == W \union {0}
<1>0. /\ a \in Seq(Seq(Bytes)) /\ Len(a) \in Nat /\ DOMAIN a = 1..Len(a)
      /\ FlattenSeq(a) \in Seq(Bytes) /\ EndIn(a, 0) = 0 /\ EndIn(a, Len(a)) = Len(FlattenSeq(a))
      /\ \A i \in 0..Len(a) : EndIn(a, i) \in Nat
  <2>1. a \in Seq(Seq(Bytes))
    BY DEF Frames
  <2> QED BY <2>1, EndSteps
<1>1. n \in Nat /\ n <= Len(FlattenSeq(a))
  BY <1>0
<1>2. T \in SUBSET (0..Len(a))
  BY <1>0 DEF WholeIn
<1>3. PICK m \in T : \A i \in T : i <= m
  <2>1. T # {}
    OBVIOUS
  <2> HIDE DEF T
  <2> QED BY <1>0, <1>2, <2>1, LastPlace
<1>4. m \in 0..Len(a) /\ EndIn(a, m) <= n
  BY <1>0, <1>1, <1>2, <1>3 DEF WholeIn
<1>5. W = 1..m
  <2>1. ASSUME NEW i \in W
        PROVE  i \in 1..m
    <3>1. i \in 1..Len(a) /\ i \in T
      BY <1>0, <2>1 DEF WholeIn
    <3> QED BY <1>3, <1>4, <3>1
  <2>2. ASSUME NEW i \in 1..m
        PROVE  i \in W
    <3>1. i \in 0..Len(a) /\ m \in i..Len(a) /\ i \in DOMAIN a
      BY <1>0, <1>4
    <3>2. EndIn(a, i) <= EndIn(a, m)
      BY <3>1, EndsGrow
    <3>3. EndIn(a, i) <= n
      BY <1>0, <1>1, <1>4, <3>1, <3>2
    <3> QED BY <3>1, <3>3 DEF WholeIn
  <2> QED BY <2>1, <2>2
<1>6. Cardinality(W) = m
  <2>1. m \in Nat
    BY <1>0, <1>4
  <2> HIDE DEF W
  <2>2. 1 \in Int /\ m \in Int
    BY <2>1
  <2>3. Cardinality(1..m) = IF 1 > m THEN 0 ELSE m - 1 + 1
    BY <2>2, FS_Interval
  <2>4. Cardinality(1..m) = m
    BY <2>1, <2>3
  <2> QED BY <1>5, <2>4
<1>7. m < Len(a) => n < EndIn(a, m + 1)
  <2> SUFFICES ASSUME m < Len(a), ~(n < EndIn(a, m + 1))
               PROVE  FALSE
    OBVIOUS
  <2>1. m + 1 \in 1..Len(a) /\ m + 1 \in 0..Len(a) /\ ~(m + 1 <= m)
    BY <1>0, <1>4
  <2>2. m + 1 \in W
    BY <1>0, <1>1, <2>1 DEF WholeIn
  <2> QED BY <1>3, <2>1, <2>2
<1>8. m \in m..Len(a)
  BY <1>0, <1>4
<1> HIDE DEF W, T
<1>9. Reaches(a, m, m, n)
  BY <1>1, <1>4, <1>7, <1>8 DEF Reaches
<1>10. W = 1..Cardinality(W) /\ Reaches(a, Cardinality(W), Cardinality(W), n)
  BY <1>5, <1>6, <1>9
<1> QED BY <1>10 DEF W

\* A part of a sequence of bytes.
LEMMA Part ==
  ASSUME NEW s \in Seq(Bytes), NEW i \in Nat, NEW j \in Nat, i <= j, j <= Len(s)
  PROVE  /\ SubSeq(s, i + 1, j) \in Seq(Bytes) /\ Len(SubSeq(s, i + 1, j)) = j - i
         /\ \A x \in 1..(j - i) : SubSeq(s, i + 1, j)[x] = s[i + x]
<1>1. CASE i = j
  <2>1. SubSeq(s, i + 1, j) = <<>>
    BY <1>1
  <2> QED BY <1>1, <2>1
<1>2. CASE i < j
  BY <1>2
<1> QED BY <1>1, <1>2

\* The rest of a buffer.
LEMMA ScanRest ==
  ASSUME NEW data \in Seq(Bytes)
  PROVE  /\ Scan(data).end \in 0..Len(data) /\ Scan(data).verdicts \in SUBSET BOOLEAN
         /\ SubSeq(data, Scan(data).end + 1, Len(data)) \in Seq(Bytes)
         /\ Len(SubSeq(data, Scan(data).end + 1, Len(data))) <= Len(data)
<1>1. PICK f : ScansAs(f, data, 0) /\ Scan(data) = f[0]
  BY ScanFollows
<1>2. Len(data) \in Nat /\ 0 \in 0..Len(data)
  OBVIOUS
<1>3. Scan(data) \in Scanned(0, Len(data))
  BY <1>1, <1>2, ScanTyped
<1>4. Scan(data).end \in 0..Len(data) /\ Scan(data).verdicts \in SUBSET BOOLEAN
  BY <1>3 DEF Scanned
<1>5. ASSUME NEW e \in 0..Len(data)
      PROVE  SubSeq(data, e + 1, Len(data)) \in Seq(Bytes) /\ Len(SubSeq(data, e + 1, Len(data))) <= Len(data)
  BY <1>2, Part
<1> QED BY <1>4, <1>5

-----------------------------------------------------------------------------
(* The widths of an integer *)

\* A flow is a quarter of the id of a stream, and that is no more than Huge.
IsFlow(v) == v \in Nat /\ v <= 536870911

\* A shift that gave a flow lost no bit: the value before and the byte can be told from it.
LEMMA Unshifted ==
  ASSUME NEW x \in Nat, NEW b \in Bytes, IsFlow(Shifted(x, b))
  PROVE  IsFlow(x) /\ x = Shifted(x, b) \div 256 /\ b = Shifted(x, b) % 256
<1>1. Shifted(x, b) = 256 * x + b
  BY SMT DEF Shifted, Huge, IsFlow
<1>2. b \in Nat /\ b < 256
  BY SMT DEF Bytes
<1>3. (256 * x + b) \div 256 = x /\ (256 * x + b) % 256 = b
  BY <1>2, SMT
<1>4. 256 * x + b <= 536870911
  BY <1>1, SMT DEF IsFlow
<1>5. IsFlow(x)
  BY <1>2, <1>4, SMT DEF IsFlow
<1> QED BY <1>1, <1>3, <1>5

\* What is read after j bytes.
Sofar(d, j) == Shifts(d[1] % 64, SubSeq(d, 2, j))

\* The value after each byte is the one before it, shifted.
LEMMA SofarIs ==
  ASSUME NEW d \in Seq(Bytes), NEW j \in 1..Len(d)
  PROVE  /\ d[1] \in Bytes /\ Sofar(d, j) \in Nat
         /\ Sofar(d, 1) = d[1] % 64
         /\ j # 1 => d[j] \in Bytes /\ Sofar(d, j) = Shifted(Sofar(d, j - 1), d[j])
<1>0. Len(d) \in Nat /\ j \in Nat /\ 1 <= j /\ j <= Len(d) /\ 1 \in 1..Len(d) /\ j - 1 \in Nat
  OBVIOUS
<1>1. d[1] \in Bytes /\ d[j] \in Bytes
  BY <1>0
<1>2. d[1] % 64 \in Nat
  BY <1>1, Widths
<1>3. /\ SubSeq(d, 1 + 1, j) \in Seq(Bytes) /\ Len(SubSeq(d, 1 + 1, j)) = j - 1
      /\ \A x \in 1..(j - 1) : SubSeq(d, 1 + 1, j)[x] = d[1 + x]
  BY <1>0, Part
<1>4. /\ SubSeq(d, 2, j) \in Seq(Bytes) /\ Len(SubSeq(d, 2, j)) = j - 1
      /\ \A x \in 1..(j - 1) : SubSeq(d, 2, j)[x] = d[1 + x]
  BY <1>3
<1>5. Sofar(d, j) \in Nat
  BY <1>2, <1>4, ShiftsIsNat DEF Sofar
<1>6. Sofar(d, 1) = d[1] % 64
  <2>1. SubSeq(d, 2, 1) = <<>> /\ <<>> \in Seq(Bytes)
    OBVIOUS
  <2> QED BY <2>1, ShiftsUnfold DEF Sofar
<1>7. ASSUME j # 1
      PROVE  Sofar(d, j) = Shifted(Sofar(d, j - 1), d[j])
  <2> DEFINE s == SubSeq(d, 2, j)
  <2>1. s \in Seq(Bytes) /\ Len(s) = j - 1 /\ s # <<>>
    BY <1>0, <1>4, <1>7
  <2>2. SubSeq(s, 1, Len(s) - 1) = SubSeq(d, 2, j - 1)
    <3>1. \A x \in 1..Len(s) : s[x] = d[1 + x]
      BY <1>4
    <3> HIDE DEF s
    <3>2. Window(s, d, 1)
      BY <1>0, <2>1, <3>1 DEF Window
    <3>3. Len(s) - 1 \in Nat /\ Len(s) - 1 <= Len(s) /\ 1 \in Nat \ {0} /\ 1 + 1 = 2 /\ 1 + (Len(s) - 1) = j - 1
      BY <1>0, <1>7, <2>1
    <3>4. SubSeq(s, 1, Len(s) - 1) = SubSeq(d, 1 + 1, 1 + (Len(s) - 1))
      BY <2>1, <3>2, <3>3, WindowSubSeq
    <3> QED BY <3>3, <3>4
  <2>3. s[Len(s)] = d[j]
    <3>1. j - 1 \in 1..(j - 1) /\ 1 + (j - 1) = j
      BY <1>0, <1>7
    <3> QED BY <1>4, <2>1, <3>1
  <2> HIDE DEF s
  <2>4. Shifts(d[1] % 64, s) = Shifted(Shifts(d[1] % 64, SubSeq(s, 1, Len(s) - 1)), s[Len(s)])
    BY <2>1, ShiftsUnfold
  <2> QED BY <2>2, <2>3, <2>4 DEF Sofar, s
<1> QED BY <1>1, <1>5, <1>6, <1>7

\* From a flow back to the byte before.
LEMMA BackOne ==
  ASSUME NEW d \in Seq(Bytes), NEW j \in 2..Len(d), IsFlow(Sofar(d, j))
  PROVE  /\ IsFlow(Sofar(d, j - 1)) /\ Sofar(d, j - 1) = Sofar(d, j) \div 256
         /\ d[j] = Sofar(d, j) % 256
<1>1. Len(d) \in Nat /\ j \in 1..Len(d) /\ j - 1 \in 1..Len(d) /\ j # 1
  OBVIOUS
<1>2. Sofar(d, j - 1) \in Nat
  BY <1>1, SofarIs
<1>3. d[j] \in Bytes /\ Sofar(d, j) = Shifted(Sofar(d, j - 1), d[j])
  BY <1>1, SofarIs
<1> QED BY <1>2, <1>3, Unshifted

\* A division by 256, several times.
LEMMA Divisions ==
  ASSUME NEW v, IsFlow(v)
  PROVE  /\ (v \div 256) \div 256 = v \div 65536
         /\ (v \div 65536) \div 256 = v \div 16777216
         /\ (v \div 16777216) \div 256 = 0
         /\ v \in Nat /\ v \div 256 \in Nat /\ v \div 65536 \in Nat /\ v \div 16777216 \in Nat
BY SMT DEF IsFlow

\* The powers the widths are made of.
LEMMA Powers ==
  ASSUME NEW e \in {0, 1, 2, 3}
  PROVE  /\ e = 0 => 2 ^ e = 1
         /\ e = 1 => 2 ^ e = 2
         /\ e = 2 => 2 ^ e = 4
         /\ e = 3 => 2 ^ e = 8
<1>1. 2 ^ 0 = 1 /\ 2 ^ 1 = 2 /\ 2 ^ 2 = 4 /\ 2 ^ 3 = 8
  OBVIOUS
<1> QED BY <1>1

\* The marks of the four widths.
LEMMA Marks == Mark(1) = 0 /\ Mark(2) = 64 /\ Mark(4) = 128 /\ Mark(8) = 192
BY DEF Mark

\* A first byte is its two top bits and the rest.
LEMMA FirstByte ==
  ASSUME NEW b \in Bytes
  PROVE  b = 64 * (b \div 64) + (b % 64) /\ b % 64 \in 0..63 /\ b \div 64 \in {0, 1, 2, 3} /\ b \in Nat
BY SMT DEF Bytes

\* The bytes of a flow, read one by one from the last.
Unread(d, v, w) ==
  /\ w = 1 => Sofar(d, 1) = v
  /\ w = 2 => Sofar(d, 1) = v \div 256
  /\ w = 4 => Sofar(d, 1) = v \div 16777216
  /\ w = 8 => Sofar(d, 1) = 0
  /\ \A i \in 2..w : d[i] = ByteOf(v, w - i)

\* What was read as a flow was written in the bytes of that flow.
LEMMA BytesRead ==
  ASSUME NEW d \in Seq(Bytes), NEW w \in {1, 2, 4, 8}, w <= Len(d), NEW v, IsFlow(v), Sofar(d, w) = v
  PROVE  Unread(d, v, w)
<1> USE DEF Unread
<1>0. Len(d) \in Nat
  OBVIOUS
<1>d. /\ (v \div 256) \div 256 = v \div 65536
      /\ (v \div 65536) \div 256 = v \div 16777216
      /\ (v \div 16777216) \div 256 = 0 /\ v \in Nat
  BY Divisions, SMT
<1>b. /\ ByteOf(v, 0) = v % 256 /\ ByteOf(v, 1) = (v \div 256) % 256
      /\ ByteOf(v, 2) = (v \div 65536) % 256 /\ ByteOf(v, 3) = (v \div 16777216) % 256
      /\ \A k \in {4, 5, 6, 7} : ByteOf(v, k) = 0
  BY <1>d, SMT DEF ByteOf
<1>1. CASE w = 1
  BY <1>1, SMT
<1>2. CASE w = 2
  <2>1. 2 \in 2..Len(d) /\ 2 - 1 = 1 /\ 2..w = {2} /\ w - 2 = 0
    BY <1>0, <1>2, SMT
  <2>2. Sofar(d, 2 - 1) = v \div 256 /\ d[2] = v % 256
    BY <1>2, <2>1, BackOne, SMT
  <2> QED BY <1>2, <1>b, <2>1, <2>2, SMT
<1>3. CASE w = 4
  <2>1. /\ 2 \in 2..Len(d) /\ 3 \in 2..Len(d) /\ 4 \in 2..Len(d) /\ 4 - 1 = 3 /\ 3 - 1 = 2 /\ 2 - 1 = 1
        /\ 2..w = {2, 3, 4} /\ w - 2 = 2 /\ w - 3 = 1 /\ w - 4 = 0
    BY <1>0, <1>3, SMT
  <2>2. IsFlow(Sofar(d, 3)) /\ Sofar(d, 3) = v \div 256 /\ d[4] = v % 256
    BY <1>3, <2>1, BackOne, SMT
  <2>3. IsFlow(Sofar(d, 2)) /\ Sofar(d, 2) = v \div 65536 /\ d[3] = (v \div 256) % 256
    <3>1. IsFlow(Sofar(d, 3 - 1)) /\ Sofar(d, 3 - 1) = Sofar(d, 3) \div 256 /\ d[3] = Sofar(d, 3) % 256
      BY <2>1, <2>2, BackOne, SMT
    <3> QED BY <1>d, <2>1, <2>2, <3>1, SMTT(30)
  <2>4. Sofar(d, 1) = v \div 16777216 /\ d[2] = (v \div 65536) % 256
    <3>1. IsFlow(Sofar(d, 2 - 1)) /\ Sofar(d, 2 - 1) = Sofar(d, 2) \div 256 /\ d[2] = Sofar(d, 2) % 256
      BY <2>1, <2>3, BackOne, SMT
    <3> QED BY <1>d, <2>1, <2>3, <3>1, SMTT(30)
  <2>5. \A i \in {2, 3, 4} : d[i] = ByteOf(v, w - i)
    BY <1>b, <2>1, <2>2, <2>3, <2>4, SMT
  <2> QED BY <1>3, <2>1, <2>4, <2>5, SMT
<1>4. CASE w = 8
  <2>1. /\ 2 \in 2..Len(d) /\ 3 \in 2..Len(d) /\ 4 \in 2..Len(d) /\ 5 \in 2..Len(d)
        /\ 6 \in 2..Len(d) /\ 7 \in 2..Len(d) /\ 8 \in 2..Len(d)
        /\ 8 - 1 = 7 /\ 7 - 1 = 6 /\ 6 - 1 = 5 /\ 5 - 1 = 4 /\ 4 - 1 = 3 /\ 3 - 1 = 2 /\ 2 - 1 = 1
        /\ 2..w = {2, 3, 4, 5, 6, 7, 8} /\ w - 2 = 6 /\ w - 3 = 5 /\ w - 4 = 4 /\ w - 5 = 3 /\ w - 6 = 2
        /\ w - 7 = 1 /\ w - 8 = 0 /\ 0 \div 256 = 0 /\ 0 % 256 = 0
    BY <1>0, <1>4, SMT
  <2>2. IsFlow(Sofar(d, 7)) /\ Sofar(d, 7) = v \div 256 /\ d[8] = v % 256
    <3>1. IsFlow(Sofar(d, 8 - 1)) /\ Sofar(d, 8 - 1) = Sofar(d, 8) \div 256 /\ d[8] = Sofar(d, 8) % 256
      BY <1>4, <2>1, BackOne, SMT
    <3>2. 8 - 1 = 7
      OBVIOUS
    <3> QED BY <1>4, <3>1, <3>2, SMT
  <2>3. IsFlow(Sofar(d, 6)) /\ Sofar(d, 6) = v \div 65536 /\ d[7] = (v \div 256) % 256
    <3>1. IsFlow(Sofar(d, 7 - 1)) /\ Sofar(d, 7 - 1) = Sofar(d, 7) \div 256 /\ d[7] = Sofar(d, 7) % 256
      BY <2>1, <2>2, BackOne, SMT
    <3>2. 7 - 1 = 6
      OBVIOUS
    <3> QED BY <1>d, <2>2, <3>1, <3>2, SMTT(30)
  <2>4. IsFlow(Sofar(d, 5)) /\ Sofar(d, 5) = v \div 16777216 /\ d[6] = (v \div 65536) % 256
    <3>1. IsFlow(Sofar(d, 6 - 1)) /\ Sofar(d, 6 - 1) = Sofar(d, 6) \div 256 /\ d[6] = Sofar(d, 6) % 256
      BY <2>1, <2>3, BackOne, SMT
    <3>2. 6 - 1 = 5
      OBVIOUS
    <3> QED BY <1>d, <2>3, <3>1, <3>2, SMT
  <2>5. IsFlow(Sofar(d, 4)) /\ Sofar(d, 4) = 0 /\ d[5] = (v \div 16777216) % 256
    <3>1. IsFlow(Sofar(d, 5 - 1)) /\ Sofar(d, 5 - 1) = Sofar(d, 5) \div 256 /\ d[5] = Sofar(d, 5) % 256
      BY <2>1, <2>4, BackOne, SMT
    <3>2. 5 - 1 = 4
      OBVIOUS
    <3> QED BY <1>d, <2>4, <3>1, <3>2, SMT
  <2>6. IsFlow(Sofar(d, 3)) /\ Sofar(d, 3) = 0 /\ d[4] = 0
    BY <2>1, <2>5, BackOne, SMT
  <2>7. IsFlow(Sofar(d, 2)) /\ Sofar(d, 2) = 0 /\ d[3] = 0
    BY <2>1, <2>6, BackOne, SMT
  <2>8. Sofar(d, 1) = 0 /\ d[2] = 0
    BY <2>1, <2>7, BackOne, SMT
  <2>9. \A i \in {2, 3, 4, 5, 6, 7, 8} : d[i] = ByteOf(v, w - i)
    BY <1>b, <2>1, <2>2, <2>3, <2>4, <2>5, <2>6, <2>7, <2>8, SMT
  <2> QED BY <1>4, <2>1, <2>8, <2>9, SMT
<1> QED BY <1>1, <1>2, <1>3, <1>4, SMT

-----------------------------------------------------------------------------
(* Integers as the client writes them *)

\* The powers that integers are cut up by.
LEMMA PowersAre ==
  /\ 256 ^ 0 = 1 /\ 256 ^ 1 = 256 /\ 256 ^ 2 = 65536 /\ 256 ^ 3 = 16777216
  /\ 128 ^ 0 = 1 /\ 128 ^ 1 = 128 /\ 128 ^ 2 = 16384 /\ 128 ^ 3 = 2097152 /\ 128 ^ 4 = 268435456
  /\ 10 ^ 0 = 1 /\ 10 ^ 1 = 10 /\ 10 ^ 2 = 100 /\ 10 ^ 3 = 1000 /\ 10 ^ 4 = 10000
  /\ 2 ^ 3 = 8 /\ 2 ^ 4 = 16 /\ 2 ^ 6 = 64 /\ 2 ^ 7 = 128
OBVIOUS

\* What is left of a value above k bytes, and the next byte.
Above(v, k) ==
  IF k = 0 THEN v ELSE IF k = 1 THEN v \div 256 ELSE IF k = 2 THEN v \div 65536
  ELSE IF k = 3 THEN v \div 16777216 ELSE 0

\* ... and its last byte.
Low(v, k) == Above(v, k) % 256

\* Every byte of a value is such a byte, and what is above it that of a smaller one.
LEMMA BytesOf ==
  ASSUME NEW v \in Nat
  PROVE  \A k \in 0..7 : ByteOf(v, k) = Low(v, k) /\ Above(v, k) \in Nat /\ Low(v, k) \in Bytes
<1>1. /\ ByteOf(v, 0) = Low(v, 0) /\ ByteOf(v, 1) = Low(v, 1) /\ ByteOf(v, 2) = Low(v, 2) /\ ByteOf(v, 3) = Low(v, 3)
  BY PowersAre, SMT DEF ByteOf, Low, Above
<1>2. \A k \in 4..7 : ByteOf(v, k) = Low(v, k)
  BY SMT DEF ByteOf, Low, Above
<1>3. \A k \in 0..7 : Above(v, k) \in Nat
  BY SMT DEF Above
<1>4. \A x \in Nat : x % 256 \in Bytes
  BY SMT DEF Bytes
<1>5. \A k \in 0..7 : Low(v, k) \in Bytes
  BY <1>3, <1>4 DEF Low
<1>6. \A k \in 0..7 : k = 0 \/ k = 1 \/ k = 2 \/ k = 3 \/ k \in 4..7
  OBVIOUS
<1> QED BY <1>1, <1>2, <1>3, <1>5, <1>6

\* The width of a value, which leaves the two top bits to the mark.
LEMMA WidthIs ==
  ASSUME NEW v \in Nat
  PROVE  LET w == Width(v) IN
         /\ w \in {1, 2, 4, 8}
         /\ Above(v, w - 1) \in 0..63 /\ Low(v, w - 1) = Above(v, w - 1)
<1> DEFINE w == Width(v)
<1>1. \/ w = 1 /\ v <= 63
      \/ w = 2 /\ v <= 16383
      \/ w = 4 /\ v <= 1073741823
      \/ w = 8
  BY SMT DEF Width
<1> HIDE DEF w
<1>2. w \in {1, 2, 4, 8}
  BY <1>1
<1>3. Above(v, w - 1) \in 0..63
  BY <1>1, SMT DEF Above
<1>4. \A x \in 0..63 : x % 256 = x
  BY SMT
<1> QED BY <1>2, <1>3, <1>4 DEF Low, w

\* The bytes of an encoded integer.
LEMMA EncodedIs ==
  ASSUME NEW v \in Nat
  PROVE  LET a == wt_http3_encode_varint(v)
             w == Width(v)
         IN /\ a \in Seq(Bytes) /\ Len(a) = w
            /\ a[1] = Above(v, w - 1) + Mark(w)
            /\ \A i \in 2..w : a[i] = Low(v, w - i)
<1> DEFINE a == wt_http3_encode_varint(v)
           w == Width(v)
<1>1. w \in {1, 2, 4, 8} /\ Above(v, w - 1) \in 0..63 /\ Low(v, w - 1) = Above(v, w - 1)
  BY WidthIs
<1>2. a = [i \in 1..w |-> ByteOf(v, w - i) + (IF i = 1 THEN Mark(w) ELSE 0)]
  BY DEF wt_http3_encode_varint, InWidth
<1>3. \A k \in 0..7 : ByteOf(v, k) = Low(v, k) /\ Low(v, k) \in Bytes
  BY BytesOf
<1> HIDE DEF a, w
<1>4. Above(v, w - 1) + Mark(w) \in Bytes
  <2>1. \A x \in 0..63, m \in {0, 64, 128, 192} : x + m \in Bytes
    BY SMT DEF Bytes
  <2>2. Mark(w) \in {0, 64, 128, 192}
    BY <1>1, Marks
  <2> QED BY <1>1, <2>1, <2>2
<1>5. a[1] = Above(v, w - 1) + Mark(w)
  <2>1. w - 1 \in 0..7 /\ 1 \in 1..w
    BY <1>1
  <2>2. a[1] = ByteOf(v, w - 1) + Mark(w)
    BY <1>2, <2>1
  <2> QED BY <1>1, <1>3, <2>1, <2>2
<1>6. ASSUME NEW i \in 2..w
      PROVE  a[i] = Low(v, w - i) /\ a[i] \in Bytes
  <2>1. i \in 1..w /\ i # 1 /\ w - i \in 0..7 /\ w \in Nat
    BY <1>1
  <2>2. ByteOf(v, w - i) = Low(v, w - i) /\ Low(v, w - i) \in Bytes
    BY <1>3, <2>1
  <2>3. ByteOf(v, w - i) + 0 = ByteOf(v, w - i)
    BY <2>2, SMT DEF Bytes
  <2>4. a[i] = ByteOf(v, w - i) + 0
    BY <1>2, <2>1
  <2> QED BY <2>2, <2>3, <2>4
<1>7. \A i \in 1..w : a[i] \in Bytes
  <2>1. \A i \in 1..w : i = 1 \/ i \in 2..w
    BY <1>1
  <2> QED BY <1>4, <1>5, <1>6, <2>1
<1>8. a \in Seq(Bytes) /\ Len(a) = w
  <2>1. a \in [1..w -> Bytes] /\ w \in Nat
    BY <1>1, <1>2, <1>7
  <2> QED BY <2>1
<1> QED BY <1>5, <1>6, <1>8 DEF a, w

\* What is bytes is numbers.
LEMMA BytesAreNumbers == Bytes \subseteq Nat /\ \A s \in Seq(Bytes) : s \in Seq(Nat)
<1>1. Bytes \subseteq Nat
  BY DEF Bytes
<1>2. ASSUME NEW s \in Seq(Bytes)
      PROVE  s \in Seq(Nat)
  <2>1. s \in [1..Len(s) -> Bytes] /\ Len(s) \in Nat
    OBVIOUS
  <2>2. s \in [1..Len(s) -> Nat]
    BY <1>1, <2>1
  <2> QED BY <2>1, <2>2
<1> QED BY <1>1, <1>2

\* What two groups hold.
Small(v) == v < 16384

\* A prefixed integer is one byte, and five groups at most.
LEMMA GroupsAre ==
  ASSUME NEW v \in Nat
  PROVE  /\ GroupsFor(v) \in 1..5 /\ Groups(v) \in Seq(Nat) /\ Len(Groups(v)) = GroupsFor(v)
         /\ Small(v) => GroupsFor(v) <= 2
<1> DEFINE n == GroupsFor(v)
<1>1. n \in 1..5
  BY SMT DEF GroupsFor
<1>2. Small(v) => n <= 2
  BY PowersAre, SMT DEF GroupsFor, Small
<1>3. ASSUME NEW i \in 1..5
      PROVE  128 ^ (i - 1) \in Nat \ {0}
  <2>1. i - 1 = 0 \/ i - 1 = 1 \/ i - 1 = 2 \/ i - 1 = 3 \/ i - 1 = 4
    OBVIOUS
  <2>2. /\ 128 ^ 0 \in Nat \ {0} /\ 128 ^ 1 \in Nat \ {0} /\ 128 ^ 2 \in Nat \ {0}
        /\ 128 ^ 3 \in Nat \ {0} /\ 128 ^ 4 \in Nat \ {0}
    BY PowersAre
  <2> QED BY <2>1, <2>2, Zenon
<1>4. \A i \in 1..n : ((v \div 128 ^ (i - 1)) % 128) + (IF i < n THEN 128 ELSE 0) \in Nat
  <2> SUFFICES ASSUME NEW i \in 1..n
               PROVE  ((v \div 128 ^ (i - 1)) % 128) + (IF i < n THEN 128 ELSE 0) \in Nat
    OBVIOUS
  <2>1. i \in 1..5
    BY <1>1
  <2>2. PICK d \in Nat \ {0} : d = 128 ^ (i - 1)
    BY <1>3, <2>1
  <2>3. v \div d \in Nat
    BY SMT
  <2>4. (v \div d) % 128 \in Nat
    BY <2>3, SMT
  <2> QED BY <2>2, <2>4
<1> HIDE DEF n
<1>5. Groups(v) \in [1..n -> Nat]
  BY <1>4 DEF Groups, n
<1>6. Groups(v) \in Seq(Nat) /\ Len(Groups(v)) = n
  BY <1>1, <1>5
<1> QED BY <1>1, <1>2, <1>6 DEF n

\* What a prefix of n bits holds.
Prefix(bits) == 2 ^ bits - 1

\* What the prefixes of the code hold.
LEMMA PrefixIs ==
  ASSUME NEW bits \in {3, 4, 6, 7}
  PROVE  Prefix(bits) \in Nat /\ Prefix(bits) <= 127 /\ 2 ^ bits \in Nat \ {0} /\ 2 ^ bits = Prefix(bits) + 1
<1>1. bits = 3 \/ bits = 4 \/ bits = 6 \/ bits = 7
  OBVIOUS
<1>2. 2 ^ 3 = 8 /\ 2 ^ 4 = 16 /\ 2 ^ 6 = 64 /\ 2 ^ 7 = 128
  BY PowersAre
<1>3. CASE bits = 3
  BY <1>2, <1>3 DEF Prefix
<1>4. CASE bits = 4
  BY <1>2, <1>4 DEF Prefix
<1>5. CASE bits = 6
  BY <1>2, <1>5 DEF Prefix
<1>6. CASE bits = 7
  BY <1>2, <1>6 DEF Prefix
<1> QED BY <1>1, <1>3, <1>4, <1>5, <1>6

\* A prefixed integer is one byte, and the groups of what the prefix does not hold.
IsPrefixed(a, max, mask, v) ==
  /\ a \in Seq(Nat) /\ Len(a) \in Nat /\ 1 <= Len(a) /\ Len(a) <= 6
  /\ Small(v) => Len(a) <= 3
  /\ v < max => a = <<mask + v>>
  /\ ~(v < max) => a = <<mask + max>> \o Groups(v - max) /\ v - max \in Nat

\* ... for every value, in at most six bytes, or three for a small one.
LEMMA PrefixedIs ==
  ASSUME NEW bits \in {3, 4, 6, 7}, NEW mask \in Nat, NEW v \in Nat
  PROVE  IsPrefixed(wt_qpack_encode_prefixed_integer(bits, mask, v), Prefix(bits), mask, v)
<1> DEFINE a == wt_qpack_encode_prefixed_integer(bits, mask, v)
           max == Prefix(bits)
<1>1. max \in Nat
  BY PrefixIs
<1>2. a = IF v < max THEN <<mask + v>> ELSE <<mask + max>> \o Groups(v - max)
  BY DEF wt_qpack_encode_prefixed_integer, Prefix
<1> HIDE DEF a, max
<1>3. CASE v < max
  <2>1. mask + v \in Nat
    OBVIOUS
  <2>2. a = <<mask + v>>
    BY <1>2, <1>3
  <2>3. Len(a) = 1 /\ a \in Seq(Nat)
    BY <2>1, <2>2
  <2> QED BY <1>3, <2>2, <2>3 DEF a, max, IsPrefixed
<1>4. CASE ~(v < max)
  <2>1. v - max \in Nat /\ v - max <= v /\ mask + max \in Nat
    BY <1>1, <1>4
  <2>2. /\ Groups(v - max) \in Seq(Nat) /\ Len(Groups(v - max)) \in 1..5
        /\ Small(v - max) => Len(Groups(v - max)) <= 2
    <3> DEFINE g == v - max
    <3>1. g \in Nat
      BY <2>1
    <3> HIDE DEF g
    <3>2. /\ Groups(g) \in Seq(Nat) /\ Len(Groups(g)) \in 1..5
          /\ Small(g) => Len(Groups(g)) <= 2
      <4>1. /\ GroupsFor(g) \in 1..5 /\ Groups(g) \in Seq(Nat) /\ Len(Groups(g)) = GroupsFor(g)
            /\ Small(g) => GroupsFor(g) <= 2
        BY <3>1, GroupsAre, Zenon
      <4> QED BY <4>1
    <3> QED BY <3>2 DEF g
  <2>3. <<mask + max>> \in Seq(Nat) /\ Len(<<mask + max>>) = 1
    BY <2>1
  <2>4. a = <<mask + max>> \o Groups(v - max)
    BY <1>2, <1>4
  <2>5. a \in Seq(Nat) /\ Len(a) = 1 + Len(Groups(v - max))
    BY <2>2, <2>3, <2>4, ConcatProperties
  <2>6. Small(v) => Small(v - max)
    BY <2>1 DEF Small
  <2>7. Len(a) \in Nat /\ 1 <= Len(a) /\ Len(a) <= 6 /\ (Small(v) => Len(a) <= 3)
    <3> DEFINE k == Len(Groups(v - max))
    <3>1. Len(a) = 1 + k /\ k \in 1..5 /\ (Small(v) => k <= 2)
      BY <2>2, <2>5, <2>6
    <3> HIDE DEF k
    <3> QED BY <3>1
  <2> QED BY <1>4, <2>1, <2>4, <2>5, <2>7 DEF a, max, IsPrefixed
<1> QED BY <1>3, <1>4

\* One byte more of a value that is read back.
LEMMA ShiftsBack ==
  ASSUME NEW v \in Nat, v <= Huge, NEW k \in 0..6
  PROVE  Shifted(Above(v, k + 1), Low(v, k)) = Above(v, k)
<1>0. 2 ^ 23 = 8388608
  OBVIOUS
<1>1. \A x, b \in Nat : x < 8388608 => Shifted(x, b) = 256 * x + b
  BY <1>0, SMT DEF Shifted
<1>2. v <= 2147483647
  BY DEF Huge
<1>3. Above(v, k + 1) \in Nat /\ Above(v, k + 1) < 8388608
  <2>1. k = 0 \/ k = 1 \/ k = 2 \/ k >= 3
    OBVIOUS
  <2> QED BY <1>2, <2>1, SMT DEF Above
<1>4. Low(v, k) \in Nat /\ 256 * Above(v, k + 1) + Low(v, k) = Above(v, k)
  <2>1. CASE k = 0
    BY <1>2, <2>1, SMT DEF Above, Low
  <2>2. CASE k = 1
    BY <1>2, <2>2, SMT DEF Above, Low
  <2>3. CASE k = 2
    BY <1>2, <2>3, SMT DEF Above, Low
  <2>4. CASE k = 3
    BY <1>2, <2>4, SMT DEF Above, Low
  <2>5. CASE k > 3
    BY <1>2, <2>5, SMT DEF Above, Low
  <2> QED BY <2>1, <2>2, <2>3, <2>4, <2>5
<1> QED BY <1>1, <1>3, <1>4

\* The first byte tells the width, and without its mark is the beginning of the value.
LEMMA FirstOf ==
  ASSUME NEW v \in Nat
  PROVE  LET b == wt_http3_encode_varint(v)[1]
             w == Width(v)
         IN b \in Bytes /\ 2 ^ (b \div 64) = w /\ b % 64 = Above(v, w - 1)
<1> DEFINE b == wt_http3_encode_varint(v)[1]
           w == Width(v)
<1>1. w \in {1, 2, 4, 8} /\ Above(v, w - 1) \in 0..63
  BY WidthIs
<1>2. b = Above(v, w - 1) + Mark(w)
  BY EncodedIs
<1>3. 2 ^ 0 = 1 /\ 2 ^ 1 = 2 /\ 2 ^ 2 = 4 /\ 2 ^ 3 = 8
  OBVIOUS
<1> HIDE DEF b, w
<1>4. \A x \in 0..63, m \in {0, 1, 2, 3} :
        x + 64 * m \in Bytes /\ (x + 64 * m) \div 64 = m /\ (x + 64 * m) % 64 = x
  BY SMT DEF Bytes
<1>5. PICK m \in {0, 1, 2, 3} : Mark(w) = 64 * m /\ 2 ^ m = w
  <2>1. CASE w = 1
    BY <1>3, <2>1, Marks
  <2>2. CASE w = 2
    BY <1>3, <2>2, Marks
  <2>3. CASE w = 4
    BY <1>3, <2>3, Marks
  <2>4. CASE w = 8
    BY <1>3, <2>4, Marks
  <2> QED BY <1>1, <2>1, <2>2, <2>3, <2>4
<1>6. b \in Bytes /\ b \div 64 = m /\ b % 64 = Above(v, w - 1)
  <2> DEFINE x == Above(v, w - 1)
  <2>1. x \in 0..63 /\ b = x + 64 * m
    BY <1>1, <1>2, <1>5
  <2> HIDE DEF x
  <2>2. b \in Bytes /\ b \div 64 = m /\ b % 64 = x
    BY <1>4, <2>1
  <2> QED BY <2>2 DEF x
<1> QED BY <1>5, <1>6 DEF b, w

\* The bytes of a value, read one by one, are the value.
LEMMA ReadsBack ==
  ASSUME NEW v \in Nat, v <= Huge
  PROVE  Sofar(wt_http3_encode_varint(v), Width(v)) = v
<1> DEFINE a == wt_http3_encode_varint(v)
           w == Width(v)
<1>1. w \in {1, 2, 4, 8}
  BY WidthIs
<1>2. a \in Seq(Bytes) /\ Len(a) = w /\ \A i \in 2..w : a[i] = Low(v, w - i)
  BY EncodedIs
<1>3. a[1] % 64 = Above(v, w - 1)
  BY FirstOf
<1> HIDE DEF a, w
<1>4. Sofar(a, 1) = Above(v, w - 1)
  BY <1>1, <1>2, <1>3, SofarIs
<1>5. ASSUME NEW j \in 2..w, Sofar(a, j - 1) = Above(v, w - (j - 1))
      PROVE  Sofar(a, j) = Above(v, w - j)
  <2>1. j \in 1..Len(a) /\ j # 1 /\ w - j \in 0..6 /\ w - (j - 1) = (w - j) + 1
    BY <1>1, <1>2
  <2>2. Sofar(a, j) = Shifted(Sofar(a, j - 1), a[j]) /\ a[j] = Low(v, w - j)
    BY <1>2, <2>1, SofarIs
  <2>3. Shifted(Above(v, (w - j) + 1), Low(v, w - j)) = Above(v, w - j)
    BY <2>1, ShiftsBack
  <2> QED BY <1>5, <2>1, <2>2, <2>3
<1> DEFINE Done(j) == Sofar(a, j) = Above(v, w - j)
<1>6. Done(1) /\ \A j \in 2..w : Done(j - 1) => Done(j)
  BY <1>4, <1>5
<1>7. Done(w)
  <2> HIDE DEF Done
  <2>1. CASE w = 1
    BY <1>6, <2>1
  <2>2. CASE w = 2
    <3>1. 2 \in 2..w /\ 2 - 1 = 1
      BY <2>2
    <3> QED BY <1>6, <2>2, <3>1
  <2>3. CASE w = 4
    <3>1. 2 \in 2..w /\ 3 \in 2..w /\ 4 \in 2..w /\ 2 - 1 = 1 /\ 3 - 1 = 2 /\ 4 - 1 = 3
      BY <2>3
    <3> QED BY <1>6, <2>3, <3>1
  <2>4. CASE w = 8
    <3>1. /\ 2 \in 2..w /\ 3 \in 2..w /\ 4 \in 2..w /\ 5 \in 2..w /\ 6 \in 2..w /\ 7 \in 2..w /\ 8 \in 2..w
          /\ 2 - 1 = 1 /\ 3 - 1 = 2 /\ 4 - 1 = 3 /\ 5 - 1 = 4 /\ 6 - 1 = 5 /\ 7 - 1 = 6 /\ 8 - 1 = 7
      BY <2>4
    <3>2. Done(2) /\ Done(3) /\ Done(4)
      BY <1>6, <3>1
    <3>3. Done(5) /\ Done(6) /\ Done(7) /\ Done(8)
      BY <1>6, <3>1, <3>2
    <3> QED BY <2>4, <3>3
  <2> QED BY <1>1, <2>1, <2>2, <2>3, <2>4
<1>8. Above(v, w - w) = v
  BY <1>1 DEF Above
<1> QED BY <1>7, <1>8 DEF a, w

-----------------------------------------------------------------------------
(* A sequence that lies in the data, wherever that is *)

\* A sequence lies in the data from p on.
Lies(a, d, p) ==
  /\ a \in Seq(Nat) /\ d \in Seq(Nat) /\ p \in Nat /\ p + Len(a) <= Len(d)
  /\ \A i \in 1..Len(a) : d[p + i] = a[i]

\* Part of a sequence.
Cut(s, m, n) == SubSeq(s, m, n)

\* ... member by member, which keeps the obligations small.
IsCut(S, s, m, n) ==
  /\ Cut(s, m, n) \in Seq(S) /\ Len(Cut(s, m, n)) = n - m + 1
  /\ \A i \in 1..(n - m + 1) : Cut(s, m, n)[i] = s[m + i - 1]

\* ... member by member.
LEMMA Piecewise ==
  ASSUME NEW S, NEW s \in Seq(S), NEW m \in Nat \ {0}, NEW n \in Nat, n <= Len(s), m <= n
  PROVE  IsCut(S, s, m, n)
BY DEF IsCut, Cut

\* ... or nothing.
LEMMA CutEmpty ==
  ASSUME NEW s, NEW m \in Nat, NEW n \in Nat, m > n
  PROVE  Cut(s, m, n) = <<>>
BY SubSeqEmpty DEF Cut

\* A part of the data is the same part of what lies there.
LEMMA LiesCut ==
  ASSUME NEW a, NEW d, NEW p, Lies(a, d, p), NEW m \in Nat \ {0}, NEW n \in Nat, n <= Len(a),
         NEW x, NEW y, x = p + m, y = p + n
  PROVE  Cut(d, x, y) = Cut(a, m, n)
<1>0. a \in Seq(Nat) /\ d \in Seq(Nat) /\ p \in Nat /\ p + Len(a) <= Len(d) /\ Len(a) \in Nat /\ Len(d) \in Nat
      /\ \A i \in 1..Len(a) : d[p + i] = a[i]
  BY DEF Lies
<1>3. x \in Nat \ {0} /\ y \in Nat /\ y <= Len(d) /\ y - x + 1 = n - m + 1
  BY <1>0
<1>1. CASE m > n
  <2>1. x > y
    BY <1>0, <1>1
  <2> QED BY <1>0, <1>1, <1>3, <2>1, CutEmpty
<1>2. CASE m <= n
  <2>0. x <= y
    BY <1>0, <1>2
  <2>1. IsCut(Nat, a, m, n)
    BY <1>0, <1>2, Piecewise
  <2>2. IsCut(Nat, d, x, y)
    BY <1>0, <1>3, <2>0, Piecewise
  <2>3. ASSUME NEW i \in 1..(n - m + 1)
        PROVE  Cut(a, m, n)[i] = Cut(d, x, y)[i]
    <3>1. m + i - 1 \in 1..Len(a) /\ p + (m + i - 1) = x + i - 1
      BY <1>0, <1>2
    <3>2. d[p + (m + i - 1)] = a[m + i - 1]
      BY <1>0, <3>1
    <3>3. Cut(a, m, n)[i] = a[m + i - 1]
      BY <2>1 DEF IsCut
    <3>4. Cut(d, x, y)[i] = d[x + i - 1]
      BY <1>3, <2>2 DEF IsCut
    <3> QED BY <3>1, <3>2, <3>3, <3>4
  <2>4. /\ Cut(a, m, n) \in Seq(Nat) /\ Cut(d, x, y) \in Seq(Nat)
        /\ Len(Cut(a, m, n)) = n - m + 1 /\ Len(Cut(d, x, y)) = n - m + 1
    BY <1>3, <2>1, <2>2 DEF IsCut
  <2> QED BY <2>3, <2>4, SeqEqual
<1>4. m > n \/ m <= n
  OBVIOUS
<1> QED BY <1>1, <1>2, <1>4

\* An integer is read back wherever it lies.
LEMMA IntegerThere ==
  ASSUME NEW v \in Nat, v <= Huge, NEW d, NEW p, Lies(wt_http3_encode_varint(v), d, p)
  PROVE  wt_http3_decode_varint(d, p) = Read(v, p + Width(v))
<1> DEFINE a == wt_http3_encode_varint(v)
           w == Width(v)
<1>1. w \in {1, 2, 4, 8} /\ w \in Nat /\ w >= 1
  BY WidthIs
<1>2. Len(a) = w
  BY EncodedIs
<1>3. a[1] \in Bytes /\ 2 ^ (a[1] \div 64) = w
  BY FirstOf
<1>4. Sofar(a, w) = v
  BY ReadsBack
<1> HIDE DEF a, w
<1>5. d \in Seq(Nat) /\ p \in Nat /\ p + w <= Len(d) /\ Len(d) \in Nat /\ d[p + 1] = a[1]
  BY <1>1, <1>2 DEF Lies, a
<1>6. Cut(d, p + 2, p + w) = Cut(a, 2, w)
  <2>1. Lies(a, d, p)
    BY DEF a
  <2>2. 2 \in Nat \ {0} /\ w \in Nat /\ w <= Len(a)
    BY <1>1, <1>2
  <2> DEFINE x == p + 2
             y == p + w
  <2>3. x = p + 2 /\ y = p + w
    OBVIOUS
  <2> HIDE DEF x, y
  <2>4. Cut(d, x, y) = Cut(a, 2, w)
    BY <2>1, <2>2, <2>3, LiesCut
  <2> QED BY <2>3, <2>4
<1>7. wt_http3_decode_varint(d, p) = Read(Shifts(a[1] % 64, SubSeq(a, 2, w)), p + w)
  <2>1. ~(p >= Len(d)) /\ ~(p + w > Len(d))
    BY <1>1, <1>5
  <2> QED BY <1>3, <1>5, <1>6, <2>1 DEF wt_http3_decode_varint, Cut
<1> QED BY <1>4, <1>7 DEF Sofar, a, w

\* What lies in the data lies there in its parts.
LEMMA LiesParts ==
  ASSUME NEW a \in Seq(Nat), NEW b \in Seq(Nat), NEW d, NEW p, Lies(a \o b, d, p)
  PROVE  Lies(a, d, p) /\ Lies(b, d, p + Len(a))
<1>1. /\ a \o b \in Seq(Nat) /\ Len(a \o b) = Len(a) + Len(b)
      /\ \A i \in 1..Len(a) : (a \o b)[i] = a[i]
      /\ \A i \in 1..Len(b) : (a \o b)[Len(a) + i] = b[i]
      /\ Len(a) \in Nat /\ Len(b) \in Nat
  OBVIOUS
<1>2. d \in Seq(Nat) /\ Len(d) \in Nat /\ p \in Nat /\ p + (Len(a) + Len(b)) <= Len(d)
      /\ \A i \in 1..(Len(a) + Len(b)) : d[p + i] = (a \o b)[i]
  <2> DEFINE ab == a \o b
  <2>1. d \in Seq(Nat) /\ p \in Nat /\ p + Len(ab) <= Len(d) /\ \A i \in 1..Len(ab) : d[p + i] = ab[i]
    BY Zenon DEF Lies
  <2>2. Len(ab) = Len(a) + Len(b)
    BY <1>1, Zenon
  <2> HIDE DEF ab
  <2>3. /\ p + (Len(a) + Len(b)) <= Len(d)
        /\ \A i \in 1..(Len(a) + Len(b)) : d[p + i] = ab[i]
    BY <2>1, <2>2, Zenon
  <2>4. Len(d) \in Nat
    BY <2>1
  <2> QED BY <2>1, <2>3, <2>4, Zenon DEF ab
<1>3. \A i \in 1..Len(a) : d[p + i] = a[i]
  <2> SUFFICES ASSUME NEW i \in 1..Len(a)
               PROVE  d[p + i] = a[i]
    OBVIOUS
  <2>1. i \in 1..(Len(a) + Len(b))
    BY <1>1
  <2> QED BY <1>1, <1>2, <2>1
<1>4. \A i \in 1..Len(b) : d[(p + Len(a)) + i] = b[i]
  <2> SUFFICES ASSUME NEW i \in 1..Len(b)
               PROVE  d[(p + Len(a)) + i] = b[i]
    OBVIOUS
  <2>1. Len(a) + i \in 1..(Len(a) + Len(b)) /\ p + (Len(a) + i) = (p + Len(a)) + i
    BY <1>1, <1>2
  <2>2. d[p + (Len(a) + i)] = (a \o b)[Len(a) + i]
    BY <1>2, <2>1
  <2> QED BY <1>1, <2>1, <2>2
<1>5. p + Len(a) \in Nat /\ p + Len(a) <= Len(d) /\ (p + Len(a)) + Len(b) <= Len(d)
  BY <1>1, <1>2
<1> QED BY <1>1, <1>2, <1>3, <1>4, <1>5 DEF Lies

\* A sequence lies in itself.
LEMMA LiesWhole ==
  ASSUME NEW d \in Seq(Nat)
  PROVE  Lies(d, d, 0)
BY DEF Lies

\* What lies in the data can be cut out of it.
LEMMA LiesWholeCut ==
  ASSUME NEW a, NEW d, NEW p, Lies(a, d, p), NEW x, NEW y, x = p + 1, y = p + Len(a)
  PROVE  Cut(d, x, y) = a
<1>1. a \in Seq(Nat) /\ Len(a) \in Nat
  BY DEF Lies
<1>2. 1 \in Nat \ {0} /\ Len(a) <= Len(a)
  BY <1>1
<1>3. Cut(d, x, y) = Cut(a, 1, Len(a))
  BY <1>1, <1>2, LiesCut
<1>4. Cut(a, 1, Len(a)) = a
  BY <1>1 DEF Cut
<1> QED BY <1>3, <1>4

\* An encoded integer is a sequence of numbers, as long as its width.
LEMMA EncodedLen ==
  ASSUME NEW v \in Nat
  PROVE  /\ wt_http3_encode_varint(v) \in Seq(Nat) /\ Len(wt_http3_encode_varint(v)) = Width(v)
         /\ Width(v) \in {1, 2, 4, 8} /\ Width(v) \in Nat
<1>1. wt_http3_encode_varint(v) \in Seq(Bytes) /\ Len(wt_http3_encode_varint(v)) = Width(v)
  BY EncodedIs
<1>2. Width(v) \in {1, 2, 4, 8}
  BY WidthIs
<1> QED BY <1>1, <1>2, BytesAreNumbers

-----------------------------------------------------------------------------
(* Frames as the client writes them *)

\* A frame and its parts.
FrameLength(type, payload) == Width(type) + Width(Len(payload)) + Len(payload)

\* A frame is bytes, as many as its parts have.
LEMMA FrameIs ==
  ASSUME NEW type \in Nat, NEW payload \in Seq(Nat)
  PROVE  Frame(type, payload) \in Seq(Nat) /\ Len(Frame(type, payload)) = FrameLength(type, payload)
<1> DEFINE t == wt_http3_encode_varint(type)
           l == wt_http3_encode_varint(Len(payload))
<1>0. Len(payload) \in Nat
  OBVIOUS
<1>1. t \in Seq(Nat) /\ Len(t) = Width(type)
  BY EncodedLen
<1>2. l \in Seq(Nat) /\ Len(l) = Width(Len(payload))
  BY <1>0, EncodedLen
<1>3. Frame(type, payload) = t \o l \o payload
  BY DEF Frame
<1> HIDE DEF t, l
<1>4. (t \o l) \o payload \in Seq(Nat) /\ Len((t \o l) \o payload) = Len(t) + Len(l) + Len(payload)
  <2>1. t \o l \in Seq(Nat) /\ Len(t \o l) = Len(t) + Len(l)
    BY <1>1, <1>2, ConcatProperties
  <2>2. (t \o l) \o payload \in Seq(Nat) /\ Len((t \o l) \o payload) = Len(t \o l) + Len(payload)
    BY <2>1, ConcatProperties
  <2> QED BY <2>1, <2>2
<1> QED BY <1>1, <1>2, <1>3, <1>4 DEF FrameLength

\* The frame that is read is that which was written.
Framed(type, payload, end) == Read([type |-> type, payload |-> payload], end)

\* A frame is read back wherever it lies.
THEOREM FrameThere ==
  ASSUME NEW type \in Nat, type <= Huge, NEW payload \in Seq(Nat), Len(payload) <= Huge,
         NEW d, NEW p, Lies(Frame(type, payload), d, p),
         NEW end, end = p + FrameLength(type, payload)
  PROVE  FrameAt(d, p) = Framed(type, payload, end)
<1> DEFINE t == wt_http3_encode_varint(type)
           l == wt_http3_encode_varint(Len(payload))
<1>0. Len(payload) \in Nat /\ p \in Nat /\ d \in Seq(Nat) /\ Len(d) \in Nat
  BY DEF Lies
<1>1. t \in Seq(Nat) /\ Len(t) = Width(type) /\ Width(type) \in Nat
  BY EncodedLen
<1>2. l \in Seq(Nat) /\ Len(l) = Width(Len(payload)) /\ Width(Len(payload)) \in Nat
  BY <1>0, EncodedLen
<1>3. Frame(type, payload) = (t \o l) \o payload
  BY DEF Frame
<1> DEFINE q == p + Width(type)
           r == q + Width(Len(payload))
<1>4. Lies(t, d, p) /\ Lies(l, d, q) /\ Lies(payload, d, r)
  <2> HIDE DEF t, l, q, r
  <2>0. t \o l \in Seq(Nat) /\ Len(t \o l) = Len(t) + Len(l)
    BY <1>1, <1>2, ConcatProperties
  <2>1. Lies(t \o l, d, p) /\ Lies(payload, d, p + Len(t \o l))
    BY <1>3, <2>0, LiesParts
  <2>2. Lies(t, d, p) /\ Lies(l, d, p + Len(t))
    BY <1>1, <1>2, <2>1, LiesParts
  <2>3. q = p + Len(t) /\ r = p + Len(t \o l)
    BY <1>0, <1>1, <1>2, <2>0 DEF q, r
  <2> QED BY <2>1, <2>2, <2>3
<1>5. wt_http3_decode_varint(d, p) = Read(type, q)
  <2> HIDE DEF q
  <2>1. wt_http3_decode_varint(d, p) = Read(type, p + Width(type))
    BY <1>4, IntegerThere
  <2> QED BY <2>1 DEF q
<1>6. wt_http3_decode_varint(d, q) = Read(Len(payload), r)
  <2> HIDE DEF q, r
  <2>1. wt_http3_decode_varint(d, q) = Read(Len(payload), q + Width(Len(payload)))
    BY <1>0, <1>4, IntegerThere
  <2> QED BY <2>1 DEF r
<1>7. q \in Nat /\ r \in Nat /\ end = r + Len(payload) /\ r + Len(payload) <= Len(d)
  <2>1. r + Len(payload) <= Len(d)
    BY <1>4 DEF Lies
  <2> QED BY <1>0, <1>1, <1>2, <2>1 DEF FrameLength
<1> HIDE DEF q, r, t, l
<1>8. Cut(d, r + 1, r + Len(payload)) = payload
  <2> DEFINE x == r + 1
             y == r + Len(payload)
  <2>1. x = r + 1 /\ y = r + Len(payload)
    OBVIOUS
  <2> HIDE DEF x, y
  <2>2. Cut(d, x, y) = payload
    BY <1>4, <2>1, LiesWholeCut
  <2> QED BY <2>1, <2>2
<1>9. ~(Len(payload) > Len(d) - r)
  BY <1>0, <1>7
<1>10. /\ Read(type, q).ok /\ Read(type, q).end = q /\ Read(type, q).value = type
       /\ Read(Len(payload), r).ok /\ Read(Len(payload), r).end = r /\ Read(Len(payload), r).value = Len(payload)
  BY DEF Read
<1> QED BY <1>5, <1>6, <1>7, <1>8, <1>9, <1>10 DEF FrameAt, Framed, Cut

-----------------------------------------------------------------------------
(* Functions that are made from the end *)

\* A function that at each place, from n to m, is given or made of its value at a later place.
Backward(f, n, m, stop, base, next, step) ==
  \A i \in n..m : f[i] = IF i \in stop THEN base[i] ELSE step[i][f[next[i]]]

\* Such a function exists.
LEMMA BackwardExists ==
  ASSUME NEW V, NEW n \in Nat, NEW m \in Nat, NEW stop, NEW base \in [n..m -> V],
         NEW next, NEW step \in [n..m -> [V -> V]],
         \A i \in n..m : i \notin stop => next[i] \in (i + 1)..m
  PROVE  \E f \in [n..m -> V] : Backward(f, n, m, stop, base, next, step)
<1> DEFINE From(o, f) == f \in [o..m -> V] /\ Backward(f, o, m, stop, base, next, step)
           Bad == {k \in 0..(m + 1 - n) : ~\E f : From(m + 1 - k, f)}
<1>0. Bad \in SUBSET Nat /\ m + 1 \in Nat
  OBVIOUS
<1>1. CASE n > m
  <2> DEFINE f == [i \in n..m |-> base[i]]
  <2>1. \A i \in n..m : FALSE
    BY <1>1
  <2>2. f \in [n..m -> V]
    BY <2>1
  <2>3. Backward(f, n, m, stop, base, next, step)
    BY <2>1 DEF Backward
  <2> QED BY <2>2, <2>3
<1>2. CASE n <= m
  <2>1. ASSUME Bad # {}
        PROVE  FALSE
    <3>1. PICK k \in Bad : \A j \in Bad : k <= j
      <4> HIDE DEF Bad
      <4> QED BY <1>0, <2>1, Least
    <3>2. k \in 0..(m + 1 - n) /\ ~\E f : From(m + 1 - k, f)
      BY <3>1
    <3>3. CASE k = 0
      <4> DEFINE f == [i \in (m + 1)..m |-> base[i]]
      <4>1. \A i \in (m + 1)..m : FALSE
        OBVIOUS
      <4>2. From(m + 1, f)
        BY <4>1 DEF Backward
      <4>3. m + 1 - k = m + 1
        BY <3>3
      <4> QED BY <3>2, <4>2, <4>3
    <3>4. CASE k # 0
      <4> DEFINE o == m + 1 - k
      <4>1. k - 1 \in 0..(m + 1 - n) /\ m + 1 - (k - 1) = o + 1 /\ o \in n..m /\ ~(k <= k - 1)
        BY <1>2, <3>2, <3>4
      <4>2. k - 1 \notin Bad
        <5> HIDE DEF Bad
        <5> QED BY <3>1, <4>1
      <4>3. PICK g : From(o + 1, g)
        <5> HIDE DEF From, o
        <5> QED BY <4>1, <4>2
      <4> HIDE DEF o
      <4> DEFINE x == IF o \in stop THEN base[o] ELSE step[o][g[next[o]]]
                 f == [i \in o..m |-> IF i = o THEN x ELSE g[i]]
      <4>4. x \in V
        <5>1. o \notin stop => next[o] \in (o + 1)..m
          BY <4>1
        <5>2. g \in [(o + 1)..m -> V]
          BY <4>3
        <5>3. base[o] \in V /\ step[o] \in [V -> V]
          BY <4>1
        <5>4. o \notin stop => g[next[o]] \in V
          BY <5>1, <5>2
        <5> QED BY <5>3, <5>4
      <4>5. \A i \in o..m : i = o \/ i \in (o + 1)..m
        BY <4>1
      <4>6. f \in [o..m -> V]
        <5>2. g \in [(o + 1)..m -> V]
          BY <4>3
        <5> HIDE DEF x
        <5> QED BY <4>4, <4>5, <5>2
      <4>7. ASSUME NEW i \in o..m
            PROVE  f[i] = IF i \in stop THEN base[i] ELSE step[i][f[next[i]]]
        <5>1. i \in n..m
          BY <4>1
        <5>2. i \notin stop => next[i] \in (i + 1)..m
          BY <5>1
        <5>3. i \notin stop => next[i] \in o..m /\ next[i] # o
          BY <4>1, <5>2
        <5>4. i \notin stop => f[next[i]] = g[next[i]]
          BY <5>3
        <5>5. CASE i = o
          <6>1. f[i] = x
            BY <5>5
          <6> HIDE DEF f
          <6> QED BY <5>4, <5>5, <6>1
        <5>6. CASE i # o
          <6>1. i \in (o + 1)..m /\ f[i] = g[i]
            BY <4>5, <5>6
          <6>2. g[i] = IF i \in stop THEN base[i] ELSE step[i][g[next[i]]]
            BY <4>3, <6>1 DEF Backward
          <6> HIDE DEF f
          <6> QED BY <5>4, <6>1, <6>2
        <5> QED BY <5>5, <5>6
      <4>8. From(o, f)
        <5> HIDE DEF f
        <5> QED BY <4>6, <4>7 DEF Backward
      <4> QED BY <3>2, <4>8 DEF o
    <3> QED BY <3>3, <3>4
  <2>2. m + 1 - n \in 0..(m + 1 - n) /\ m + 1 - (m + 1 - n) = n
    BY <1>2
  <2>3. m + 1 - n \notin Bad
    BY <2>1
  <2>4. \E f : From(n, f)
    <3> HIDE DEF From
    <3> QED BY <2>2, <2>3
  <2> QED BY <2>4
<1> QED BY <1>1, <1>2

-----------------------------------------------------------------------------
(* Prefix integers *)

\* What a decoder of numbers returns.
Results == [ok : BOOLEAN, value : Nat, end : Nat]

\* What is read and what is not are such results.
LEMMA ResultsAre ==
  /\ Unreadable \in Results /\ ~Unreadable.ok
  /\ \A v, e \in Nat : Read(v, e) \in Results
  /\ \A v, e : Read(v, e).ok /\ Read(v, e).value = v /\ Read(v, e).end = e
BY DEF Results, Read, Unreadable

\* What was read.
LEMMA ReadIs ==
  ASSUME NEW v, NEW e
  PROVE  Read(v, e).ok /\ Read(v, e).value = v /\ Read(v, e).end = e
BY DEF Read

\* A group of seven bits before what the later ones make.
More(byte, rest) == IF ~rest.ok THEN Unreadable ELSE Read((byte % 128) + 128 * rest.value, rest.end)

\* It is a result again.
LEMMA MoreIs ==
  ASSUME NEW byte \in Nat, NEW rest \in Results
  PROVE  More(byte, rest) \in Results
<1>1. byte % 128 \in Nat
  BY SMT
<1>2. rest.ok \in BOOLEAN /\ rest.value \in Nat /\ rest.end \in Nat
  BY DEF Results
<1>3. (byte % 128) + 128 * rest.value \in Nat
  BY <1>1, <1>2, SMT
<1> QED BY <1>2, <1>3, ResultsAre DEF More

\* What the groups after an offset are, from each place on.
Group(f, data, offset, i) ==
  IF i > offset + 9 \/ i > Len(data) THEN Unreadable
  ELSE IF data[i] < 128 THEN Read(data[i], i)
  ELSE More(data[i], f[i + 1])

\* A function that reads the groups.
Grouped(f, data, offset) ==
  f = [i \in (offset + 1)..(offset + 10) |-> Group(f, data, offset, i)]

\* There is such a function: the places are followed back from the last.
LEMMA GroupsExist ==
  ASSUME NEW data \in Seq(Nat), NEW offset \in Nat
  PROVE  \E f : Grouped(f, data, offset)
<1> DEFINE n == offset + 1
           m == offset + 10
           D == n..m
           Out(i) == i > offset + 9 \/ i > Len(data)
           stop == {i \in D : Out(i) \/ data[i] < 128}
           base == [i \in D |-> IF Out(i) THEN Unreadable ELSE Read(data[i], i)]
           next == [i \in D |-> i + 1]
           step == [i \in D |-> [r \in Results |-> IF Out(i) THEN Unreadable ELSE More(data[i], r)]]
<1>0. n \in Nat /\ m \in Nat /\ Len(data) \in Nat
  OBVIOUS
<1>1. \A i \in D : ~Out(i) => i \in 1..Len(data) /\ data[i] \in Nat /\ i \in Nat
  OBVIOUS
<1>2. base \in [D -> Results]
  <2> HIDE DEF D, Out
  <2> QED BY <1>1, ResultsAre
<1>3. step \in [D -> [Results -> Results]]
  <2>1. ASSUME NEW i \in D, NEW r \in Results
        PROVE  (IF Out(i) THEN Unreadable ELSE More(data[i], r)) \in Results
    <3> HIDE DEF D, Out
    <3> QED BY <1>1, MoreIs, ResultsAre
  <2> HIDE DEF D, Out
  <2> QED BY <2>1
<1>4. \A i \in D : i \notin stop => next[i] \in (i + 1)..m
  BY <1>0
<1> HIDE DEF stop, base, next, step
<1>5. PICK f \in [D -> Results] : Backward(f, n, m, stop, base, next, step)
  <2> HIDE DEF n, m
  <2> QED BY <1>0, <1>2, <1>3, <1>4, BackwardExists
<1>6. ASSUME NEW i \in D
      PROVE  f[i] = Group(f, data, offset, i)
  <2>1. f[i] = IF i \in stop THEN base[i] ELSE step[i][f[next[i]]]
    BY <1>5 DEF Backward
  <2>2. CASE i \in stop
    <3>1. Out(i) \/ data[i] < 128
      BY <2>2 DEF stop
    <3>2. base[i] = IF Out(i) THEN Unreadable ELSE Read(data[i], i)
      BY DEF base
    <3> QED BY <2>1, <2>2, <3>1, <3>2 DEF Group
  <2>3. CASE i \notin stop
    <3>1. ~Out(i) /\ ~(data[i] < 128)
      BY <2>3 DEF stop
    <3>2. next[i] = i + 1 /\ i + 1 \in D
      BY <3>1 DEF next
    <3>3. f[i + 1] \in Results
      BY <1>5, <3>2
    <3>4. step[i][f[i + 1]] = More(data[i], f[i + 1])
      BY <3>1, <3>3 DEF step
    <3> QED BY <2>1, <2>3, <3>1, <3>2, <3>4 DEF Group
  <2> QED BY <2>2, <2>3
<1>7. f = [i \in D |-> Group(f, data, offset, i)]
  <2> HIDE DEF D
  <2> QED BY <1>5, <1>6
<1> QED BY <1>7 DEF Grouped

\* What a prefix integer is, of the groups after it.
PrefixedOf(data, offset, bits, groups) ==
  LET max == 2 ^ bits - 1
      low == data[offset] % 2 ^ bits
  IN IF low < max THEN Read(low, offset)
     ELSE IF groups.ok THEN Read(max + groups.value, groups.end)
     ELSE Unreadable

\* PrefixedAt reads by such a function.
LEMMA PrefixedFollows ==
  ASSUME NEW data \in Seq(Nat), NEW offset \in Nat, NEW bits
  PROVE  \E f : /\ Grouped(f, data, offset)
                /\ PrefixedAt(data, offset, bits) = PrefixedOf(data, offset, bits, f[offset + 1])
<1> DEFINE D == (offset + 1)..(offset + 10)
           f == CHOOSE g : g = [i \in D |->
                  IF i > offset + 9 \/ i > Len(data) THEN Unreadable
                  ELSE IF data[i] < 128 THEN Read(data[i], i)
                  ELSE IF ~g[i + 1].ok THEN Unreadable
                  ELSE Read((data[i] % 128) + 128 * g[i + 1].value, g[i + 1].end)]
<1>1. PrefixedAt(data, offset, bits) = PrefixedOf(data, offset, bits, f[offset + 1])
  BY DEF PrefixedAt, PrefixedOf
<1>2. PICK h : Grouped(h, data, offset)
  BY GroupsExist
<1>3. h = [i \in D |-> Group(h, data, offset, i)]
  BY <1>2 DEF Grouped
<1>4. f = [i \in D |-> Group(f, data, offset, i)]
  <2> HIDE DEF D
  <2> QED BY <1>3 DEF Group, More
<1> HIDE DEF f
<1> QED BY <1>1, <1>4 DEF Grouped

\* Each is a number, or none, that ends inside the data.
LEMMA GroupsTyped ==
  ASSUME NEW data \in Seq(Nat), NEW offset \in Nat, NEW f, Grouped(f, data, offset)
  PROVE  \A i \in (offset + 1)..(offset + 10) :
           f[i] = Group(f, data, offset, i) /\ f[i] \in Results /\ (f[i].ok => f[i].end \in i..Len(data))
<1> DEFINE D == (offset + 1)..(offset + 10)
           Fine(i) == f[i] \in Results /\ (f[i].ok => f[i].end \in i..Len(data))
           Bad == {i \in D : ~Fine(i)}
<1>0. \A i \in D : f[i] = Group(f, data, offset, i)
  BY DEF Grouped
<1> SUFFICES ASSUME Bad # {} PROVE FALSE
  BY <1>0
<1>1. PICK o \in Bad : \A m \in Bad : m <= o
  <2>1. Bad \in SUBSET (0..(offset + 10)) /\ offset + 10 \in Nat
    OBVIOUS
  <2> HIDE DEF Bad
  <2> QED BY <2>1, LastPlace
<1>2. o \in D /\ ~Fine(o) /\ f[o] = Group(f, data, offset, o) /\ Len(data) \in Nat /\ o \in Nat
  BY <1>0, <1>1
<1>3. CASE o > offset + 9 \/ o > Len(data)
  BY <1>2, <1>3, ResultsAre DEF Group
<1>4. CASE ~(o > offset + 9 \/ o > Len(data))
  <2>1. o \in 1..Len(data) /\ data[o] \in Nat
    BY <1>2, <1>4
  <2>2. CASE data[o] < 128
    <3>1. f[o] = Read(data[o], o)
      BY <1>2, <1>4, <2>2 DEF Group
    <3>2. f[o] \in Results /\ f[o].end = o
      BY <1>2, <2>1, <3>1, ResultsAre
    <3>3. Fine(o)
      BY <1>2, <2>1, <3>2
    <3> QED BY <1>2, <3>3
  <2>3. CASE ~(data[o] < 128)
    <3>1. f[o] = More(data[o], f[o + 1])
      BY <1>2, <1>4, <2>3 DEF Group
    <3>2. o + 1 \in D /\ ~(o + 1 <= o)
      BY <1>2, <1>4
    <3>3. Fine(o + 1)
      BY <1>1, <3>2
    <3> DEFINE rest == f[o + 1]
    <3>4. rest \in Results /\ (rest.ok => rest.end \in (o + 1)..Len(data))
      BY <3>3
    <3>5. f[o] = More(data[o], rest)
      BY <3>1
    <3> HIDE DEF rest
    <3>6. f[o] \in Results
      BY <2>1, <3>4, <3>5, MoreIs
    <3>7. f[o].ok => rest.ok /\ f[o].end = rest.end
      BY <3>5, ResultsAre DEF More
    <3>8. f[o].ok => f[o].end \in o..Len(data)
      BY <1>2, <3>4, <3>7
    <3> QED BY <1>2, <3>6, <3>8
  <2> QED BY <2>2, <2>3
<1> QED BY <1>3, <1>4

\* A prefix integer that can be read ends inside the data.
LEMMA PrefixedRead ==
  ASSUME NEW data \in Seq(Nat), NEW offset \in 1..Len(data), NEW bits \in {3, 4, 6, 7}
  PROVE  LET r == PrefixedAt(data, offset, bits) IN
         r \in Results /\ (r.ok => r.end \in offset..Len(data))
<1> DEFINE r == PrefixedAt(data, offset, bits)
           max == 2 ^ bits - 1
           low == data[offset] % 2 ^ bits
<1>0. offset \in Nat /\ Len(data) \in Nat /\ data[offset] \in Nat
  OBVIOUS
<1>1. PICK f : Grouped(f, data, offset) /\ r = PrefixedOf(data, offset, bits, f[offset + 1])
  BY <1>0, PrefixedFollows
<1> DEFINE groups == f[offset + 1]
<1>2. groups \in Results /\ (groups.ok => groups.end \in (offset + 1)..Len(data))
  <2>1. offset + 1 \in (offset + 1)..(offset + 10)
    BY <1>0
  <2> QED BY <1>0, <1>1, <2>1, GroupsTyped
<1>3. Prefix(bits) \in Nat /\ 2 ^ bits \in Nat \ {0}
  BY PrefixIs
<1>4. max \in Nat /\ low \in Nat
  <2>1. \A x \in Nat, y \in Nat \ {0} : x % y \in Nat
    BY SMT
  <2> QED BY <1>0, <1>3, <2>1 DEF Prefix
<1>5. r = IF low < max THEN Read(low, offset)
          ELSE IF groups.ok THEN Read(max + groups.value, groups.end) ELSE Unreadable
  BY <1>1 DEF PrefixedOf
<1> HIDE DEF groups, max, low, r
<1>6. CASE low < max
  <2>1. r = Read(low, offset)
    BY <1>5, <1>6
  <2>2. r \in Results /\ r.end = offset
    BY <1>0, <1>4, <2>1, ResultsAre
  <2> QED BY <1>0, <2>2 DEF r
<1>7. CASE ~(low < max) /\ groups.ok
  <2>1. r = Read(max + groups.value, groups.end)
    BY <1>5, <1>7
  <2>2. groups.value \in Nat /\ groups.end \in Nat /\ groups.end \in offset..Len(data)
    BY <1>0, <1>2, <1>7 DEF Results
  <2>3. max + groups.value \in Nat
    BY <1>4, <2>2
  <2>4. r \in Results /\ r.end = groups.end
    BY <2>1, <2>2, <2>3, ResultsAre
  <2> QED BY <2>2, <2>4 DEF r
<1>8. CASE ~(low < max) /\ ~groups.ok
  <2>1. r = Unreadable
    BY <1>5, <1>8
  <2> QED BY <2>1, ResultsAre DEF r
<1> QED BY <1>6, <1>7, <1>8

\* What is left of a value above k groups, and the next group.
Over(v, k) ==
  IF k = 0 THEN v ELSE IF k = 1 THEN v \div 128 ELSE IF k = 2 THEN v \div 16384
  ELSE IF k = 3 THEN v \div 2097152 ELSE v \div 268435456

\* ... and the next seven.
Seven(v, k) == Over(v, k) % 128

\* What is over is a number, the next group and what is over that.
LEMMA OverIs ==
  ASSUME NEW v \in Nat, v <= Huge
  PROVE  /\ \A k \in 0..4 : Over(v, k) \in Nat /\ Seven(v, k) \in 0..127
         /\ \A k \in 0..3 : Over(v, k) = Seven(v, k) + 128 * Over(v, k + 1)
         /\ GroupsFor(v) \in 1..5 /\ Over(v, GroupsFor(v) - 1) = Seven(v, GroupsFor(v) - 1)
<1>0. v <= 2147483647
  BY SMT DEF Huge
<1>1. \A k \in 0..4 : Over(v, k) \in Nat
  BY SMT DEF Over
<1>2. \A x \in Nat : x % 128 \in 0..127
  BY SMT
<1>3. \A k \in 0..4 : Seven(v, k) \in 0..127
  BY <1>1, <1>2 DEF Seven
<1>4. \A x \in Nat : x = (x % 128) + 128 * (x \div 128)
  BY SMT
<1>5. \A k \in 0..3 : Over(v, k + 1) = Over(v, k) \div 128
  <2>1. Over(v, 0 + 1) = Over(v, 0) \div 128
    BY SMT DEF Over
  <2>2. Over(v, 1 + 1) = Over(v, 1) \div 128
    BY SMT DEF Over
  <2>3. Over(v, 2 + 1) = Over(v, 2) \div 128
    BY SMT DEF Over
  <2>4. Over(v, 3 + 1) = Over(v, 3) \div 128
    BY SMT DEF Over
  <2>5. \A k \in 0..3 : k = 0 \/ k = 1 \/ k = 2 \/ k = 3
    OBVIOUS
  <2> QED BY <2>1, <2>2, <2>3, <2>4, <2>5
<1>6. \A k \in 0..3 : Over(v, k) = Seven(v, k) + 128 * Over(v, k + 1)
  <2> SUFFICES ASSUME NEW k \in 0..3
               PROVE  Over(v, k) = Seven(v, k) + 128 * Over(v, k + 1)
    OBVIOUS
  <2>1. Over(v, k) \in Nat
    BY <1>1
  <2>2. Over(v, k) = (Over(v, k) % 128) + 128 * (Over(v, k) \div 128)
    BY <1>4, <2>1, Zenon
  <2> QED BY <1>5, <2>2 DEF Seven
<1>7. GroupsFor(v) \in 1..5
  BY GroupsAre
<1>8. Over(v, GroupsFor(v) - 1) < 128
  <2> DEFINE n == GroupsFor(v)
  <2>1. \/ n = 1 /\ v < 128
        \/ n = 2 /\ v < 16384
        \/ n = 3 /\ v < 2097152
        \/ n = 4 /\ v < 268435456
        \/ n = 5
    BY PowersAre, SMT DEF GroupsFor
  <2> HIDE DEF n
  <2>2. /\ v < 128 => Over(v, 0) < 128
        /\ v < 16384 => Over(v, 1) < 128
        /\ v < 2097152 => Over(v, 2) < 128
        /\ v < 268435456 => Over(v, 3) < 128
    BY SMT DEF Over
  <2>3. Over(v, 4) < 128
    BY <1>0, SMT DEF Over
  <2>4. /\ n = 1 => n - 1 = 0
        /\ n = 2 => n - 1 = 1
        /\ n = 3 => n - 1 = 2
        /\ n = 4 => n - 1 = 3
        /\ n = 5 => n - 1 = 4
    OBVIOUS
  <2>7. Over(v, n - 1) < 128
    BY <2>1, <2>2, <2>3, <2>4, SMT
  <2> QED BY <2>7 DEF n
<1>9. \A x \in Nat : x < 128 => x % 128 = x
  BY SMT
<1>10. Over(v, GroupsFor(v) - 1) = Seven(v, GroupsFor(v) - 1)
  <2> DEFINE k == GroupsFor(v) - 1
  <2>1. k \in 0..4 /\ Over(v, k) < 128
    BY <1>7, <1>8
  <2> HIDE DEF k
  <2>2. Over(v, k) = Seven(v, k)
    BY <1>1, <1>9, <2>1 DEF Seven
  <2> QED BY <2>2 DEF k
<1> QED BY <1>1, <1>3, <1>6, <1>7, <1>10

\* The groups of a value.
LEMMA GroupIs ==
  ASSUME NEW v \in Nat, v <= Huge, NEW i \in 1..GroupsFor(v)
  PROVE  Groups(v)[i] = Seven(v, i - 1) + (IF i < GroupsFor(v) THEN 128 ELSE 0)
<1>1. GroupsFor(v) \in 1..5
  BY OverIs
<1>2. Groups(v)[i] = ((v \div 128 ^ (i - 1)) % 128) + (IF i < GroupsFor(v) THEN 128 ELSE 0)
  BY DEF Groups
<1>3. (v \div 128 ^ (i - 1)) % 128 = Seven(v, i - 1)
  <2>1. i - 1 = 0 \/ i - 1 = 1 \/ i - 1 = 2 \/ i - 1 = 3 \/ i - 1 = 4
    BY <1>1
  <2>2. /\ (v \div 128 ^ 0) % 128 = Seven(v, 0) /\ (v \div 128 ^ 1) % 128 = Seven(v, 1)
        /\ (v \div 128 ^ 2) % 128 = Seven(v, 2) /\ (v \div 128 ^ 3) % 128 = Seven(v, 3)
        /\ (v \div 128 ^ 4) % 128 = Seven(v, 4)
    <3>1. v \div 1 = v
      BY SMT
    <3> QED BY <3>1, PowersAre, SMT DEF Seven, Over
  <2> QED BY <2>1, <2>2
<1> QED BY <1>2, <1>3

\* The groups of a value that lie in the data are the value.
LEMMA GroupsThere ==
  ASSUME NEW v \in Nat, v <= Huge, NEW d, NEW p, Lies(Groups(v), d, p), NEW f, Grouped(f, d, p)
  PROVE  f[p + 1] = Read(v, p + GroupsFor(v))
<1> DEFINE n == GroupsFor(v)
           Fine(i) == f[p + i] = Read(Over(v, i - 1), p + n)
<1>1. n \in 1..5 /\ Over(v, n - 1) = Seven(v, n - 1)
  BY OverIs
<1>2. \A k \in 0..4 : Over(v, k) \in Nat /\ Seven(v, k) \in 0..127
  BY OverIs
<1>3. \A k \in 0..3 : Over(v, k) = Seven(v, k) + 128 * Over(v, k + 1)
  BY OverIs
<1>4. \A i \in 1..n : Groups(v)[i] = Seven(v, i - 1) + (IF i < n THEN 128 ELSE 0)
  BY GroupIs
<1>5. Len(Groups(v)) = n
  BY GroupsAre
<1>6. d \in Seq(Nat) /\ p \in Nat /\ Len(d) \in Nat /\ p + n <= Len(d) /\ \A i \in 1..n : d[p + i] = Groups(v)[i]
  BY <1>5 DEF Lies
<1>7. \A i \in (p + 1)..(p + 10) : f[i] = Group(f, d, p, i)
  BY <1>6, GroupsTyped
<1> HIDE DEF n
<1>8. Fine(n)
  <2>1. p + n \in (p + 1)..(p + 10) /\ ~(p + n > p + 9 \/ p + n > Len(d)) /\ n \in 1..n /\ n - 1 \in 0..4
    <3>1. n \in 1..5 /\ p \in Nat /\ Len(d) \in Nat /\ p + n <= Len(d)
      BY <1>1, <1>6
    <3> QED BY <3>1
  <2>2. Groups(v)[n] = Seven(v, n - 1) + 0
    BY <1>4, <2>1
  <2>3. d[p + n] = Seven(v, n - 1) /\ d[p + n] < 128
    <3>1. Seven(v, n - 1) \in 0..127
      BY <1>2, <2>1
    <3>2. d[p + n] = Groups(v)[n]
      BY <1>6, <2>1
    <3> QED BY <2>2, <3>1, <3>2
  <2>4. f[p + n] = Read(d[p + n], p + n)
    BY <1>7, <2>1, <2>3 DEF Group
  <2> QED BY <1>1, <2>3, <2>4
<1>9. ASSUME NEW i \in 1..(n - 1), Fine(i + 1)
      PROVE  Fine(i)
  <2>1. /\ p + i \in (p + 1)..(p + 10) /\ ~(p + i > p + 9 \/ p + i > Len(d)) /\ i \in 1..n /\ i < n
        /\ i - 1 \in 0..3 /\ i - 1 \in 0..4 /\ (i - 1) + 1 = i /\ (i + 1) - 1 = i /\ i \in 0..4
        /\ p + i + 1 = p + (i + 1)
    <3>1. n \in 1..5 /\ p \in Nat /\ Len(d) \in Nat /\ p + n <= Len(d) /\ i \in 1..(n - 1)
      BY <1>1, <1>6
    <3>2. i \in 1..4 /\ i < n
      BY <3>1
    <3> QED BY <3>1, <3>2
  <2> DEFINE x == Seven(v, i - 1)
             rest == f[p + i + 1]
  <2>2. d[p + i] = x + 128 /\ x \in 0..127
    BY <1>2, <1>4, <1>6, <2>1
  <2>3. rest = Read(Over(v, i), p + n)
    BY <1>9, <2>1
  <2>4. Over(v, i - 1) = x + 128 * Over(v, i)
    BY <1>3, <2>1
  <2> HIDE DEF x, rest
  <2>5. (x + 128) % 128 = x /\ ~(x + 128 < 128)
    BY <2>2, SMT
  <2>6. f[p + i] = More(d[p + i], rest)
    BY <1>7, <2>1, <2>2, <2>5 DEF Group, rest
  <2>7. More(x + 128, rest) = Read(((x + 128) % 128) + 128 * Over(v, i), p + n)
    BY <2>3, ResultsAre DEF More
  <2>8. f[p + i] = Read(Over(v, i - 1), p + n)
    BY <2>2, <2>4, <2>5, <2>6, <2>7
  <2> QED BY <2>8
<1>10. Fine(1)
  <2> HIDE DEF Fine
  <2>1. n = 1 \/ n = 2 \/ n = 3 \/ n = 4 \/ n = 5
    BY <1>1
  <2>2. 1 + 1 = 2 /\ 2 + 1 = 3 /\ 3 + 1 = 4 /\ 4 + 1 = 5
    OBVIOUS
  <2>3. n >= 5 => Fine(4)
    BY <1>8, <1>9, <2>1, <2>2
  <2>4. n >= 4 => Fine(3)
    BY <1>8, <1>9, <2>1, <2>2, <2>3
  <2>5. n >= 3 => Fine(2)
    BY <1>8, <1>9, <2>1, <2>2, <2>4
  <2> QED BY <1>8, <1>9, <2>1, <2>2, <2>5
<1>11. Over(v, 1 - 1) = v
  BY SMT DEF Over
<1> QED BY <1>10, <1>11 DEF n

\* A prefix integer is read back wherever it lies: the mask leaves the prefix alone.
Masked(bits, mask) == \A low \in Nat : low <= Prefix(bits) => (mask + low) % 2 ^ bits = low

\* ... so that the reader finds the value and its end.
THEOREM PrefixedThere ==
  ASSUME NEW bits \in {3, 4, 6, 7}, NEW mask \in Nat, Masked(bits, mask), NEW v \in Nat, v <= Huge,
         NEW d, NEW p, Lies(wt_qpack_encode_prefixed_integer(bits, mask, v), d, p)
  PROVE  PrefixedAt(d, p + 1, bits) = Read(v, p + Len(wt_qpack_encode_prefixed_integer(bits, mask, v)))
<1> DEFINE a == wt_qpack_encode_prefixed_integer(bits, mask, v)
           max == Prefix(bits)
           low == d[p + 1] % 2 ^ bits
           q == p + 1
<1>1. /\ a \in Seq(Nat) /\ Len(a) \in Nat /\ 1 <= Len(a) /\ Len(a) <= 6
      /\ v < max => a = <<mask + v>>
      /\ ~(v < max) => a = <<mask + max>> \o Groups(v - max) /\ v - max \in Nat
  <2> HIDE DEF a, max
  <2>1. IsPrefixed(a, max, mask, v)
    BY PrefixedIs DEF a, max
  <2> QED BY <2>1 DEF IsPrefixed
<1>2. max \in Nat
  BY PrefixIs
<1>3. d \in Seq(Nat) /\ p \in Nat /\ q \in Nat /\ Len(d) \in Nat /\ p + Len(a) <= Len(d) /\ d[p + 1] = a[1]
  BY <1>1 DEF Lies
<1>4. PICK f : /\ Grouped(f, d, q)
               /\ PrefixedAt(d, q, bits) = PrefixedOf(d, q, bits, f[q + 1])
  <2> HIDE DEF q
  <2> QED BY <1>3, PrefixedFollows
<1>5. PrefixedAt(d, q, bits) = IF low < max THEN Read(low, q)
        ELSE IF f[q + 1].ok THEN Read(max + f[q + 1].value, f[q + 1].end) ELSE Unreadable
  BY <1>4 DEF PrefixedOf, Prefix
<1>6. \A x \in Nat : x <= max => (mask + x) % 2 ^ bits = x
  BY DEF Masked
<1>7. CASE v < max
  <2>1. a = <<mask + v>> /\ v <= max
    BY <1>1, <1>2, <1>7
  <2>2. a[1] = mask + v /\ Len(a) = 1
    BY <2>1
  <2>3. low = v
    BY <1>3, <1>6, <2>1, <2>2
  <2>4. PrefixedAt(d, q, bits) = Read(v, q) /\ q = p + Len(a)
    <3> HIDE DEF low, max, a
    <3> QED BY <1>5, <1>7, <2>2, <2>3
  <2> QED BY <2>4
<1>8. CASE ~(v < max)
  <2> DEFINE g == v - max
             b == Groups(g)
             one == <<mask + max>>
  <2>1. g \in Nat /\ g <= Huge /\ a = one \o b
    <3> HIDE DEF max, a
    <3>1. v - max \in Nat /\ v - max <= v
      BY <1>1, <1>2, <1>8
    <3>2. Huge \in Nat
      BY DEF Huge
    <3> HIDE DEF g, one
    <3>3. g \in Nat /\ g <= Huge
      BY <3>1, <3>2 DEF g
    <3> QED BY <1>1, <1>8, <3>3 DEF g, one
  <2> HIDE DEF g
  <2>2. b \in Seq(Nat) /\ Len(b) = GroupsFor(g) /\ GroupsFor(g) \in Nat
    BY <2>1, GroupsAre
  <2>3. one \in Seq(Nat) /\ Len(one) = 1 /\ one[1] = mask + max
    <3> HIDE DEF max
    <3> QED BY <1>2
  <2> HIDE DEF one, b
  <2>4. Lies(one, d, p) /\ Lies(b, d, p + Len(one))
    <3>1. Lies(one \o b, d, p)
      BY <2>1
    <3> QED BY <2>2, <2>3, <3>1, LiesParts
  <2>5. Lies(b, d, q)
    BY <2>3, <2>4
  <2>6. f[q + 1] = Read(g, q + GroupsFor(g))
    <3> HIDE DEF q
    <3> QED BY <1>4, <2>1, <2>5, GroupsThere DEF b
  <2>7. d[p + 1] = mask + max
    BY <2>3, <2>4 DEF Lies
  <2>8. low = max /\ ~(low < max)
    <3>1. max <= max
      BY <1>2
    <3>2. low = max
      BY <1>2, <1>6, <2>7, <3>1
    <3> HIDE DEF low, max
    <3> QED BY <1>2, <3>2
  <2>9. PrefixedAt(d, q, bits) = Read(max + g, q + GroupsFor(g))
    <3> HIDE DEF low, max, q
    <3> QED BY <1>5, <2>6, <2>8, ResultsAre
  <2>10. max + g = v
    <3> HIDE DEF max
    <3> QED BY <1>2 DEF g
  <2>11. q + GroupsFor(g) = p + Len(a)
    <3>1. Len(a) = 1 + GroupsFor(g)
      <4>1. Len(one \o b) = Len(one) + Len(b)
        BY <2>2, <2>3, ConcatProperties
      <4>2. a = one \o b
        BY <2>1
      <4> HIDE DEF a
      <4> QED BY <2>2, <2>3, <4>1, <4>2
    <3> HIDE DEF a
    <3> QED BY <1>3, <2>2, <3>1
  <2>12. PrefixedAt(d, p + 1, bits) = Read(v, p + Len(a))
    <3> HIDE DEF a, max
    <3> QED BY <2>9, <2>10, <2>11
  <2> QED BY <2>12
<1> QED BY <1>7, <1>8

-----------------------------------------------------------------------------
(* Texts *)

\* The masks the code writes leave the prefix alone.
LEMMA Masks == Masked(7, 0) /\ Masked(6, 192) /\ Masked(4, 80) /\ Masked(3, 32)
<1>1. Prefix(7) = 127 /\ Prefix(6) = 63 /\ Prefix(4) = 15 /\ Prefix(3) = 7
  BY PowersAre DEF Prefix
<1>2. \A low \in Nat : low <= 127 => (0 + low) % 128 = low
  BY SMT
<1>3. \A low \in Nat : low <= 63 => (192 + low) % 64 = low
  BY SMT
<1>4. \A low \in Nat : low <= 15 => (80 + low) % 16 = low
  BY SMT
<1>5. \A low \in Nat : low <= 7 => (32 + low) % 8 = low
  BY SMT
<1>6. 2 ^ 7 = 128 /\ 2 ^ 6 = 64 /\ 2 ^ 4 = 16 /\ 2 ^ 3 = 8
  BY PowersAre
<1>7. Masked(7, 0)
  BY <1>1, <1>2, <1>6 DEF Masked
<1>8. Masked(6, 192)
  BY <1>1, <1>3, <1>6 DEF Masked
<1>9. Masked(4, 80)
  BY <1>1, <1>4, <1>6 DEF Masked
<1>10. Masked(3, 32)
  BY <1>1, <1>5, <1>6 DEF Masked
<1> QED BY <1>7, <1>8, <1>9, <1>10

\* A text with its length before it.
Literal(bits, mask, text) == wt_qpack_encode_prefixed_integer(bits, mask, Len(text)) \o text

\* It is bytes, and not many more than the text has.
LEMMA LiteralIs ==
  ASSUME NEW bits \in {3, 4, 6, 7}, NEW mask \in Nat, NEW text \in Seq(Nat)
  PROVE  /\ Literal(bits, mask, text) \in Seq(Nat)
         /\ Len(text) <= Len(Literal(bits, mask, text)) /\ Len(Literal(bits, mask, text)) >= 1
         /\ Small(Len(text)) => Len(Literal(bits, mask, text)) <= Len(text) + 3
<1> DEFINE a == wt_qpack_encode_prefixed_integer(bits, mask, Len(text))
           max == Prefix(bits)
<1>0. Len(text) \in Nat
  OBVIOUS
<1>1. a \in Seq(Nat) /\ Len(a) \in Nat /\ 1 <= Len(a) /\ Len(a) <= 6 /\ (Small(Len(text)) => Len(a) <= 3)
  <2> HIDE DEF a
  <2>1. IsPrefixed(a, Prefix(bits), mask, Len(text))
    BY <1>0, PrefixedIs DEF a
  <2> QED BY <2>1 DEF IsPrefixed
<1>2. Literal(bits, mask, text) = a \o text
  BY DEF Literal
<1> HIDE DEF a
<1>3. a \o text \in Seq(Nat) /\ Len(a \o text) = Len(a) + Len(text)
  BY <1>1, ConcatProperties
<1> DEFINE k == Len(a)
           n == Len(text)
<1>4. n \in Nat /\ k \in Nat /\ 1 <= k /\ (Small(n) => k <= 3) /\ Len(Literal(bits, mask, text)) = k + n
  BY <1>0, <1>1, <1>2, <1>3
<1> HIDE DEF k, n
<1>5. k + n >= n /\ k + n >= 1 /\ (Small(n) => k + n <= n + 3)
  BY <1>4
<1>6. Literal(bits, mask, text) \in Seq(Nat)
  BY <1>2, <1>3
<1> QED BY <1>4, <1>5, <1>6 DEF n

\* A text read as RFC 9204 says: its length in a prefix, then its characters.
ReadText(data, at, bits) ==
  LET length == PrefixedAt(data, at + 1, bits) IN
  IF at < Len(data) /\ length.ok THEN TextAt(data, length.end, length.value) ELSE Unreadable

\* A text is read back wherever it lies.
LEMMA TextThere ==
  ASSUME NEW bits \in {3, 4, 6, 7}, NEW mask \in Nat, Masked(bits, mask),
         NEW text \in Seq(Nat), Len(text) <= Huge, NEW d \in Seq(Nat), NEW p \in Nat,
         Lies(Literal(bits, mask, text), d, p), NEW end \in Nat, end = p + Len(Literal(bits, mask, text))
  PROVE  ReadText(d, p, bits) = Read(text, end)
<1> DEFINE a == wt_qpack_encode_prefixed_integer(bits, mask, Len(text))
           n == Len(text)
           q == p + Len(a)
<1>0. n \in Nat /\ p \in Nat /\ d \in Seq(Nat) /\ Len(d) \in Nat
  BY DEF Lies
<1>1. a \in Seq(Nat) /\ Len(a) \in Nat /\ 1 <= Len(a) /\ Len(a) <= 6
  <2> HIDE DEF a, n
  <2>1. IsPrefixed(a, Prefix(bits), mask, n)
    BY <1>0, PrefixedIs DEF a, n
  <2> QED BY <2>1 DEF IsPrefixed
<1>2. Literal(bits, mask, text) = a \o text
  BY DEF Literal
<1>3. PrefixedAt(d, p + 1, bits) = Read(n, q)
  <2> HIDE DEF n
  <2>1. n <= Huge
    BY DEF n
  <2>2. Lies(wt_qpack_encode_prefixed_integer(bits, mask, n), d, p)
    <3> HIDE DEF a
    <3>1. Lies(a, d, p)
      BY <1>1, <1>2, LiesParts
    <3> QED BY <3>1 DEF a, n
  <2>3. PrefixedAt(d, p + 1, bits) = Read(n, p + Len(wt_qpack_encode_prefixed_integer(bits, mask, n)))
    BY <1>0, <2>1, <2>2, PrefixedThere
  <2> QED BY <2>3 DEF n
<1> HIDE DEF a
<1>4. Lies(text, d, q) /\ Len(a \o text) = Len(a) + n
  <2> HIDE DEF q, n
  <2>1. Lies(text, d, p + Len(a))
    BY <1>1, <1>2, LiesParts
  <2>2. Len(a \o text) = Len(a) + Len(text)
    BY <1>1, ConcatProperties
  <2> QED BY <2>1, <2>2 DEF q, n
<1>5. q \in Nat /\ end = q + n /\ q + n <= Len(d) /\ p < Len(d)
  <2>1. end = p + (Len(a) + n) /\ q + n <= Len(d)
    <3> HIDE DEF q
    <3> QED BY <1>2, <1>4 DEF Lies
  <2> HIDE DEF n
  <2> QED BY <1>0, <1>1, <2>1
<1> HIDE DEF q
<1>6. TextAt(d, q, n) = Read(text, end)
  <2>1. ~(n > Len(d) - q)
    BY <1>0, <1>5
  <2> DEFINE x == q + 1
  <2>2. x = q + 1 /\ end = q + Len(text)
    BY <1>5
  <2> HIDE DEF x
  <2>3. Cut(d, x, end) = text
    BY <1>4, <2>2, LiesWholeCut
  <2>4. SubSeq(d, q + 1, q + n) = text
    BY <1>5, <2>2, <2>3 DEF Cut
  <2> QED BY <1>5, <2>1, <2>4 DEF TextAt
<1> HIDE DEF n
<1> QED BY <1>3, <1>5, <1>6, ResultsAre DEF ReadText

\* A value read takes the place of another.
WithValue(r, v) == [r EXCEPT !.value = v]

\* ... and nothing else changes.
LEMMA WithValueIs ==
  ASSUME NEW v, NEW w, NEW e
  PROVE  WithValue(Read(v, e), w) = Read(w, e)
<1>1. ASSUME NEW o
      PROVE  WithValue([ok |-> o, value |-> v, end |-> e], w) = [ok |-> o, value |-> w, end |-> e]
  BY DEF WithValue
<1> QED BY <1>1, Zenon DEF Read

\* A field line that is an entry of the static table.
Indexed(data, offset) == data[offset + 1] >= 192

\* The first byte of a prefix integer keeps the mask.
LEMMA MaskThere ==
  ASSUME NEW bits \in {3, 4, 6, 7}, NEW mask \in Nat, NEW v \in Nat, NEW d, NEW p,
         Lies(wt_qpack_encode_prefixed_integer(bits, mask, v), d, p)
  PROVE  d[p + 1] \in Nat /\ d[p + 1] >= mask /\ d[p + 1] <= mask + Prefix(bits) /\ p < Len(d)
<1> DEFINE a == wt_qpack_encode_prefixed_integer(bits, mask, v)
           max == Prefix(bits)
<1>1. IsPrefixed(a, max, mask, v)
  BY PrefixedIs
<1>2. max \in Nat
  BY PrefixIs
<1> HIDE DEF a, max
<1>3. /\ a \in Seq(Nat) /\ Len(a) \in Nat /\ 1 <= Len(a)
      /\ v < max => a = <<mask + v>>
      /\ ~(v < max) => a = <<mask + max>> \o Groups(v - max) /\ v - max \in Nat
  BY <1>1 DEF IsPrefixed
<1>4. d \in Seq(Nat) /\ p \in Nat /\ Len(d) \in Nat /\ p + Len(a) <= Len(d) /\ d[p + 1] = a[1]
  BY <1>3 DEF Lies, a
<1>5. a[1] >= mask /\ a[1] <= mask + max
  <2>1. CASE v < max
    BY <1>2, <1>3, <2>1
  <2>2. CASE ~(v < max)
    <3> DEFINE g == v - max
               one == <<mask + max>>
    <3>1. g \in Nat /\ a = one \o Groups(g)
      BY <1>3, <2>2
    <3> HIDE DEF g
    <3>2. Groups(g) \in Seq(Nat)
      BY <3>1, GroupsAre
    <3>3. one \in Seq(Nat) /\ Len(one) = 1 /\ one[1] = mask + max
      BY <1>2
    <3> HIDE DEF one
    <3>4. (one \o Groups(g))[1] = one[1]
      <4> HIDE DEF one
      <4> DEFINE r == Groups(g)
      <4>1. r \in Seq(Nat) /\ Len(r) \in Nat
        BY <3>2
      <4> HIDE DEF r
      <4>2. 1 \in 1..(Len(one) + Len(r)) /\ 1 <= Len(one)
        BY <3>3, <4>1
      <4>3. (one \o r)[1] = IF 1 <= Len(one) THEN one[1] ELSE r[1 - Len(one)]
        BY <3>3, <4>1, <4>2, ConcatProperties
      <4> QED BY <4>2, <4>3 DEF r
    <3> QED BY <1>2, <3>1, <3>3, <3>4
  <2> QED BY <2>1, <2>2
<1>6. d[p + 1] >= mask /\ d[p + 1] <= mask + max
  BY <1>4, <1>5
<1>7. p < Len(d) /\ d[p + 1] \in Nat
  <2>1. 1 \in 1..Len(a)
    BY <1>3
  <2>2. a[1] \in Nat
    BY <1>3, <2>1
  <2> QED BY <1>3, <1>4, <2>2
<1> QED BY <1>6, <1>7 DEF max

\* A text that can be read ends inside the data, after it begins.
LEMMA TextRead ==
  ASSUME NEW data \in Seq(Nat), NEW at \in Nat, NEW bits \in {3, 4, 6, 7}, ReadText(data, at, bits).ok
  PROVE  ReadText(data, at, bits).end \in (at + 1)..Len(data)
<1> DEFINE length == PrefixedAt(data, at + 1, bits)
           q == length.end
           n == length.value
<1>0. Len(data) \in Nat /\ ~Unreadable.ok
  BY DEF Unreadable
<1>1. at < Len(data) /\ length.ok /\ ReadText(data, at, bits) = TextAt(data, q, n)
  BY <1>0 DEF ReadText
<1>2. length \in Results /\ q \in (at + 1)..Len(data)
  <2> DEFINE o == at + 1
  <2>1. o \in 1..Len(data)
    BY <1>0, <1>1
  <2> HIDE DEF o
  <2>2. LET r == PrefixedAt(data, o, bits) IN r \in Results /\ (r.ok => r.end \in o..Len(data))
    BY <2>1, PrefixedRead
  <2> QED BY <1>1, <2>2 DEF o
<1>3. n \in Nat
  BY <1>2 DEF Results
<1> HIDE DEF q, n, length
<1>4. ~(n > Len(data) - q) /\ TextAt(data, q, n).end = q + n
  <2>1. TextAt(data, q, n).ok
    BY <1>1
  <2>2. ~(n > Len(data) - q)
    BY <1>0, <2>1 DEF TextAt
  <2>3. TextAt(data, q, n) = Read(SubSeq(data, q + 1, q + n), q + n)
    BY <2>2 DEF TextAt
  <2> QED BY <2>2, <2>3, ReadIs
<1> QED BY <1>0, <1>1, <1>2, <1>3, <1>4

-----------------------------------------------------------------------------
(* Sections *)

\* Each member of a sequence lies where the one before it ends.
LEMMA MembersLie ==
  ASSUME NEW a \in Seq(Seq(Nat)), NEW d, NEW p, Lies(FlattenSeq(a), d, p)
  PROVE  /\ \A i \in 0..Len(a) : Lies(First(a, i), d, p)
         /\ \A i \in 1..Len(a) : Lies(a[i], d, p + EndIn(a, i - 1))
<1> DEFINE Fine(i) == Lies(First(a, i), d, p)
           Bad == {i \in 0..Len(a) : ~Fine(i)}
<1>0. Len(a) \in Nat /\ Bad \in SUBSET (0..Len(a))
  OBVIOUS
<1>1. ASSUME NEW i \in 1..Len(a), Fine(i)
      PROVE  Fine(i - 1) /\ Lies(a[i], d, p + EndIn(a, i - 1))
  <2>1. i - 1 \in 0..Len(a) /\ a[i] \in Seq(Nat)
    OBVIOUS
  <2>2. First(a, i - 1) \in Seq(Nat)
    BY <2>1, FirstTyped
  <2>3. First(a, i) = First(a, i - 1) \o a[i]
    BY FirstUnfold
  <2> QED BY <1>1, <2>1, <2>2, <2>3, LiesParts DEF EndIn
<1>2. Fine(Len(a))
  BY FirstUnfold
<1>3. ASSUME Bad # {}
      PROVE  FALSE
  <2>1. PICK i \in Bad : \A m \in Bad : m <= i
    <3> HIDE DEF Bad
    <3> QED BY <1>0, <1>3, LastPlace
  <2>2. i \in 0..Len(a) /\ ~Fine(i)
    BY <2>1
  <2> HIDE DEF Fine
  <2>3. i # Len(a)
    BY <1>2, <2>2
  <2>4. i + 1 \in 1..Len(a) /\ i + 1 \in 0..Len(a) /\ ~(i + 1 <= i) /\ (i + 1) - 1 = i
    BY <1>0, <2>2, <2>3
  <2>5. Fine(i + 1)
    BY <2>1, <2>4
  <2> QED BY <1>1, <2>2, <2>4, <2>5
<1>4. \A i \in 0..Len(a) : Fine(i)
  BY <1>3
<1>5. \A i \in 1..Len(a) : i \in 0..Len(a)
  BY <1>0
<1> HIDE DEF Bad
<1>6. \A i \in 1..Len(a) : Lies(a[i], d, p + EndIn(a, i - 1))
  BY <1>1, <1>4, <1>5
<1> QED BY <1>4, <1>6

\* ... and no member ends after the whole.
LEMMA EndsIn ==
  ASSUME NEW a \in Seq(Seq(Nat)), NEW i \in 0..Len(a)
  PROVE  EndIn(a, i) <= Len(FlattenSeq(a))
<1> DEFINE d == FlattenSeq(a)
<1>1. d \in Seq(Nat)
  BY EndSteps
<1>2. Lies(d, d, 0)
  <2> HIDE DEF d
  <2> QED BY <1>1, LiesWhole
<1>3. Lies(First(a, i), d, 0)
  BY <1>2, MembersLie
<1>4. First(a, i) \in Seq(Nat)
  BY FirstTyped
<1> HIDE DEF d
<1>5. 0 + Len(First(a, i)) <= Len(d) /\ Len(First(a, i)) \in Nat
  BY <1>3, <1>4 DEF Lies
<1> QED BY <1>5 DEF EndIn, d

\* Joining is associative ...
LEMMA Associative ==
  \A S : \A s, t, u \in Seq(S) : (s \o t) \o u = s \o (t \o u)
BY ConcatAssociative

\* Three sequences joined.
Grouping(S, s, b, t) == (s \o b) \o t = s \o (b \o t) /\ b \o t \in Seq(S)

\* ... said so that it can be cited for long expressions.
LEMMA Moved ==
  ASSUME NEW S, NEW s \in Seq(S), NEW b \in Seq(S), NEW t \in Seq(S)
  PROVE  Grouping(S, s, b, t)
BY Associative, ConcatProperties DEF Grouping

-----------------------------------------------------------------------------
(* The texts of the code *)

\* The first character of a text.
Initial(k) == 1000 * k + 1

\* Different texts begin with different characters.
LEMMA InitialsDiffer == \A k, l \in Nat : Initial(k) = Initial(l) => k = l
BY SMT DEF Initial

\* What is needed of a text.
IsText(t, k) == t \in Seq(Nat) /\ t # <<>> /\ Len(t) <= 12 /\ t[1] = Initial(k)

\* A text of the model is short and begins with its first character.
LEMMA TextIs ==
  ASSUME NEW k \in Nat, NEW n \in 1..12
  PROVE  IsText(Text(k, n), k)
<1>1. \A i \in 1..n : 1000 * k + i \in Nat
  BY SMT
<1>2. Text(k, n) = [i \in 1..n |-> 1000 * k + i]
  BY DEF Text
<1>3. Text(k, n) \in [1..n -> Nat]
  BY <1>1, <1>2
<1>4. Text(k, n)[1] = Initial(k)
  BY <1>2, SMT DEF Initial
<1> HIDE DEF Text
<1>5. Text(k, n) \in Seq(Nat) /\ Len(Text(k, n)) = n
  BY <1>3
<1> QED BY <1>4, <1>5 DEF IsText

\* The texts the client writes.
Texts == {Method, Connect, Protocol, WebTransport, Scheme, HttpsScheme, Authority, Path}

\* They are short, and the names among them differ.
LEMMA TextsAre ==
  /\ \A t \in Texts : t \in Seq(Nat) /\ Len(t) <= 12 /\ t # <<>>
  /\ Protocol # Method /\ Protocol # Scheme /\ Protocol # Authority /\ Protocol # Path
  /\ Authority # Method /\ Authority # Scheme /\ Authority # Path
  /\ Path # Method /\ Path # Scheme /\ Scheme # Method
<1> DEFINE Fine(t) == t \in Seq(Nat) /\ Len(t) <= 12 /\ t # <<>>
<1>10. Fine(Method) /\ Method[1] = Initial(2)
  <2>1. IsText(Text(2, 7), 2)
    BY TextIs
  <2> QED BY <2>1 DEF IsText, Method
<1>11. Fine(Connect) /\ Connect[1] = Initial(3)
  <2>1. IsText(Text(3, 7), 3)
    BY TextIs
  <2> QED BY <2>1 DEF IsText, Connect
<1>12. Fine(Protocol) /\ Protocol[1] = Initial(4)
  <2>1. IsText(Text(4, 9), 4)
    BY TextIs
  <2> QED BY <2>1 DEF IsText, Protocol
<1>13. Fine(WebTransport) /\ WebTransport[1] = Initial(5)
  <2>1. IsText(Text(5, 12), 5)
    BY TextIs
  <2> QED BY <2>1 DEF IsText, WebTransport
<1>14. Fine(Scheme) /\ Scheme[1] = Initial(6)
  <2>1. IsText(Text(6, 7), 6)
    BY TextIs
  <2> QED BY <2>1 DEF IsText, Scheme
<1>15. Fine(HttpsScheme) /\ HttpsScheme[1] = Initial(7)
  <2>1. IsText(Text(7, 5), 7)
    BY TextIs
  <2> QED BY <2>1 DEF IsText, HttpsScheme
<1>16. Fine(Authority) /\ Authority[1] = Initial(8)
  <2>1. IsText(Text(8, 10), 8)
    BY TextIs
  <2> QED BY <2>1 DEF IsText, Authority
<1>17. Fine(Path) /\ Path[1] = Initial(9)
  <2>1. IsText(Text(9, 5), 9)
    BY TextIs
  <2> QED BY <2>1 DEF IsText, Path
<1>1. /\ Method[1] = Initial(2) /\ Protocol[1] = Initial(4) /\ Scheme[1] = Initial(6)
      /\ Authority[1] = Initial(8) /\ Path[1] = Initial(9)
  BY <1>10, <1>12, <1>14, <1>16, <1>17
<1>2. /\ Initial(4) # Initial(2) /\ Initial(4) # Initial(6) /\ Initial(4) # Initial(8) /\ Initial(4) # Initial(9)
      /\ Initial(8) # Initial(2) /\ Initial(8) # Initial(6) /\ Initial(8) # Initial(9)
      /\ Initial(9) # Initial(2) /\ Initial(9) # Initial(6) /\ Initial(6) # Initial(2)
  BY InitialsDiffer
<1>3. \A t \in Texts : Fine(t)
  <2> HIDE DEF Fine
  <2> QED BY <1>10, <1>11, <1>12, <1>13, <1>14, <1>15, <1>16, <1>17, Zenon DEF Texts
<1> QED BY <1>1, <1>2, <1>3

-----------------------------------------------------------------------------
(* Fields as the client writes them *)

\* How each field of the request is written.
LEMMA RequestFields ==
  ASSUME NEW authority, NEW path
  PROVE  /\ RequestField(<<Method, Connect>>) = wt_qpack_encode_static_index(15)
         /\ RequestField(<<Protocol, WebTransport>>) = wt_qpack_encode_header_field(<<Protocol, WebTransport>>)
         /\ RequestField(<<Scheme, HttpsScheme>>) = wt_qpack_encode_static_index(23)
         /\ RequestField(<<Authority, authority>>) = wt_qpack_encode_literal_with_static_name(0, authority)
         /\ RequestField(<<Path, path>>) = wt_qpack_encode_literal_with_static_name(1, path)
<1>1. \A a, b, c, d : <<a, b>> = <<c, d>> => a = c
  OBVIOUS
<1>2. \A a, b : <<a, b>>[1] = a /\ <<a, b>>[2] = b
  OBVIOUS
<1>3. RequestField(<<Method, Connect>>) = wt_qpack_encode_static_index(15)
  BY <1>1, <1>2, TextsAre, Zenon DEF RequestField
<1>4. RequestField(<<Protocol, WebTransport>>) = wt_qpack_encode_header_field(<<Protocol, WebTransport>>)
  BY <1>1, <1>2, TextsAre, Zenon DEF RequestField
<1>5. RequestField(<<Scheme, HttpsScheme>>) = wt_qpack_encode_static_index(23)
  BY <1>1, <1>2, TextsAre, Zenon DEF RequestField
<1>6. RequestField(<<Authority, authority>>) = wt_qpack_encode_literal_with_static_name(0, authority)
  BY <1>1, <1>2, TextsAre, Zenon DEF RequestField
<1>7. RequestField(<<Path, path>>) = wt_qpack_encode_literal_with_static_name(1, path)
  BY <1>1, <1>2, TextsAre, Zenon DEF RequestField
<1> QED BY <1>3, <1>4, <1>5, <1>6, <1>7

\* What is written is numbers, at least one, and little more than the texts.
LEMMA HeaderFieldIs ==
  ASSUME NEW name \in Seq(Nat), NEW value \in Seq(Nat)
  PROVE  LET a == wt_qpack_encode_header_field(<<name, value>>) IN
         a \in Seq(Nat) /\ Len(a) >= 1 /\ Len(name) <= Len(a) /\ Len(value) <= Len(a)
         /\ (Small(Len(name)) /\ Small(Len(value)) => Len(a) <= Len(name) + Len(value) + 6)
<1> DEFINE a == Literal(3, 32, name)
           b == Literal(7, 0, value)
<1>1. wt_qpack_encode_header_field(<<name, value>>) = a \o b
  BY DEF wt_qpack_encode_header_field, wt_qpack_encode_string_literal, Literal
<1>2. a \in Seq(Nat) /\ Len(name) <= Len(a) /\ Len(a) >= 1 /\ (Small(Len(name)) => Len(a) <= Len(name) + 3)
  BY LiteralIs
<1>3. b \in Seq(Nat) /\ Len(value) <= Len(b) /\ Len(b) >= 1 /\ (Small(Len(value)) => Len(b) <= Len(value) + 3)
  BY LiteralIs
<1> HIDE DEF a, b
<1>4. a \o b \in Seq(Nat) /\ Len(a \o b) = Len(a) + Len(b)
  BY <1>2, <1>3, ConcatProperties
<1> DEFINE x == Len(a)
           y == Len(b)
           m == Len(name)
           n == Len(value)
<1>5. /\ x \in Nat /\ y \in Nat /\ m \in Nat /\ n \in Nat /\ Len(a \o b) = x + y
      /\ m <= x /\ x >= 1 /\ n <= y /\ y >= 1 /\ (Small(m) => x <= m + 3) /\ (Small(n) => y <= n + 3)
  BY <1>2, <1>3, <1>4
<1> HIDE DEF x, y, m, n
<1>6. /\ x + y >= 1 /\ m <= x + y /\ n <= x + y
      /\ Small(m) /\ Small(n) => x + y <= m + n + 6
  BY <1>5
<1> QED BY <1>1, <1>4, <1>5, <1>6 DEF m, n

\* A field with the name of the static table is bytes, not many more than its value has.
LEMMA NamedFieldIs ==
  ASSUME NEW index \in {0, 1}, NEW value \in Seq(Nat)
  PROVE  LET a == wt_qpack_encode_literal_with_static_name(index, value) IN
         a \in Seq(Nat) /\ Len(a) >= 1 /\ (Small(Len(value)) => Len(a) <= Len(value) + 6)
<1> DEFINE a == wt_qpack_encode_prefixed_integer(4, 80, index)
           b == Literal(7, 0, value)
<1>1. wt_qpack_encode_literal_with_static_name(index, value) = a \o b
  BY DEF wt_qpack_encode_literal_with_static_name, wt_qpack_encode_string_literal, Literal
<1>2. a \in Seq(Nat) /\ Len(a) \in Nat /\ 1 <= Len(a) /\ Len(a) <= 3
  <2> HIDE DEF a
  <2>1. IsPrefixed(a, Prefix(4), 80, index)
    BY PrefixedIs DEF a
  <2>2. Small(index)
    BY DEF Small
  <2> QED BY <2>1, <2>2 DEF IsPrefixed
<1>3. b \in Seq(Nat) /\ Len(b) >= 1 /\ (Small(Len(value)) => Len(b) <= Len(value) + 3)
  BY LiteralIs
<1> HIDE DEF a, b
<1>4. a \o b \in Seq(Nat) /\ Len(a \o b) = Len(a) + Len(b)
  BY <1>2, <1>3, ConcatProperties
<1> DEFINE x == Len(a)
           y == Len(b)
           n == Len(value)
<1>5. /\ x \in Nat /\ y \in Nat /\ n \in Nat /\ Len(a \o b) = x + y
      /\ x >= 1 /\ x <= 3 /\ y >= 1 /\ (Small(n) => y <= n + 3)
  BY <1>2, <1>3, <1>4
<1> HIDE DEF x, y, n
<1>6. x + y >= 1 /\ (Small(n) => x + y <= n + 6)
  BY <1>5
<1> QED BY <1>1, <1>4, <1>5, <1>6 DEF n

-----------------------------------------------------------------------------
(* Sequences that are joined *)

\* Sequences that begin alike are joined alike.
LEMMA FirstAlike ==
  ASSUME NEW S, NEW a \in Seq(Seq(S)), NEW b \in Seq(Seq(S)), NEW n \in 0..Len(a), n <= Len(b), Alike(a, b, n)
  PROVE  First(a, n) = First(b, n)
<1>1. n \in 0..Len(b)
  OBVIOUS
<1>2. /\ SubSeq(a, 1, n) \in Seq(Seq(S)) /\ Len(SubSeq(a, 1, n)) = n
      /\ \A j \in 1..n : SubSeq(a, 1, n)[j] = a[j]
  BY FirstMembers
<1>3. /\ SubSeq(b, 1, n) \in Seq(Seq(S)) /\ Len(SubSeq(b, 1, n)) = n
      /\ \A j \in 1..n : SubSeq(b, 1, n)[j] = b[j]
  BY <1>1, FirstMembers
<1> DEFINE s == SubSeq(a, 1, n)
           t == SubSeq(b, 1, n)
<1>4. s \in Seq(Seq(S)) /\ t \in Seq(Seq(S)) /\ Len(s) = Len(t)
  BY <1>2, <1>3
<1>5. \A j \in 1..Len(s) : s[j] = t[j]
  BY <1>2, <1>3 DEF Alike
<1> HIDE DEF s, t
<1>6. s = t
  BY <1>4, <1>5, SeqEqual
<1> QED BY <1>6 DEF First, s, t

\* What is joined in two parts.
LEMMA FlattenBoth ==
  ASSUME NEW S, NEW a \in Seq(Seq(S)), NEW b \in Seq(Seq(S))
  PROVE  FlattenSeq(a \o b) = FlattenSeq(a) \o FlattenSeq(b)
<1> DEFINE c == a \o b
           n == Len(a)
           m == Len(b)
           Fine(j) == First(c, n + j) = FlattenSeq(a) \o First(b, j)
           Bad == {j \in 0..m : ~Fine(j)}
<1>1. /\ c \in Seq(Seq(S)) /\ Len(c) = n + m /\ n \in Nat /\ m \in Nat
      /\ \A i \in 1..n : c[i] = a[i]
      /\ \A i \in 1..m : c[n + i] = b[i]
  OBVIOUS
<1>2. FlattenSeq(a) \in Seq(S)
  BY EndSteps
<1> HIDE DEF c
<1>3. Fine(0)
  <2>1. First(c, n) = First(a, n)
    <3>1. Alike(a, c, n)
      BY <1>1 DEF Alike
    <3>2. n \in 0..Len(a) /\ n <= Len(c)
      BY <1>1
    <3> QED BY <1>1, <3>1, <3>2, FirstAlike
  <2>2. First(a, n) = FlattenSeq(a) /\ First(b, 0) = <<>>
    BY FirstUnfold
  <2>3. n + 0 = n /\ FlattenSeq(a) \o <<>> = FlattenSeq(a)
    BY <1>1, <1>2
  <2> QED BY <2>1, <2>2, <2>3
<1>4. ASSUME NEW j \in 1..m, Fine(j - 1)
      PROVE  Fine(j)
  <2>1. n + j \in 1..Len(c) /\ (n + j) - 1 = n + (j - 1) /\ j - 1 \in 0..m
    BY <1>1
  <2>2. First(c, n + j) = First(c, n + (j - 1)) \o b[j]
    <3> DEFINE k == n + j
    <3>1. k \in 1..Len(c)
      BY <2>1
    <3> HIDE DEF k
    <3>2. First(c, k) = First(c, k - 1) \o c[k]
      BY <1>1, <3>1, FirstUnfold
    <3> QED BY <1>1, <2>1, <3>2 DEF k
  <2>3. First(b, j) = First(b, j - 1) \o b[j]
    BY FirstUnfold
  <2> DEFINE s == FlattenSeq(a)
             t == First(b, j - 1)
             u == b[j]
  <2>4. s \in Seq(S) /\ t \in Seq(S) /\ u \in Seq(S)
    BY <1>2, <2>1, FirstTyped
  <2>5. First(c, n + j) = (s \o t) \o u /\ First(b, j) = t \o u
    BY <1>4, <2>2, <2>3
  <2> HIDE DEF s, t, u
  <2>6. Grouping(S, s, t, u)
    BY <2>4, Moved
  <2>7. First(c, n + j) = s \o First(b, j)
    BY <2>5, <2>6, Zenon DEF Grouping
  <2> QED BY <2>7 DEF s
<1>5. ASSUME Bad # {}
      PROVE  FALSE
  <2>1. PICK j \in Bad : \A k \in Bad : j <= k
    <3>1. Bad \in SUBSET Nat
      OBVIOUS
    <3> HIDE DEF Bad
    <3> QED BY <1>5, <3>1, Least
  <2>2. j \in 0..m /\ ~Fine(j)
    BY <2>1
  <2> HIDE DEF Fine
  <2>3. j # 0
    BY <1>3, <2>2
  <2>4. j \in 1..m /\ j - 1 \in 0..m /\ ~(j <= j - 1)
    BY <1>1, <2>2, <2>3
  <2>5. Fine(j - 1)
    BY <2>1, <2>4
  <2> QED BY <1>4, <2>2, <2>4, <2>5
<1>6. Fine(m)
  <2>1. m \in 0..m
    BY <1>1
  <2> HIDE DEF Fine
  <2> QED BY <1>5, <2>1
<1>7. First(c, n + m) = FlattenSeq(c) /\ First(b, m) = FlattenSeq(b)
  BY <1>1, FirstUnfold
<1> QED BY <1>6, <1>7 DEF c

\* Sequences of one member each are joined to the sequence of the members.
LEMMA FlattenOnes ==
  ASSUME NEW S, NEW s \in Seq(S), NEW a \in Seq(Seq(S)), Len(a) = Len(s), \A i \in 1..Len(s) : a[i] = <<s[i]>>
  PROVE  FlattenSeq(a) = s
<1> DEFINE n == Len(s)
           Fine(j) == First(a, j) = SubSeq(s, 1, j)
           Bad == {j \in 0..n : ~Fine(j)}
<1>0. n \in Nat
  OBVIOUS
<1>1. Fine(0)
  <2>1. First(a, 0) = <<>>
    BY FirstUnfold
  <2>2. SubSeq(s, 1, 0) = <<>>
    BY SubSeqEmpty
  <2> QED BY <2>1, <2>2
<1>2. ASSUME NEW j \in 1..n, Fine(j - 1)
      PROVE  Fine(j)
  <2>1. First(a, j) = First(a, j - 1) \o a[j]
    BY FirstUnfold
  <2>2. SubSeq(s, 1, j) = SubSeq(s, 1, j - 1) \o <<s[j]>>
    <3>1. 1 \in 1..Len(s) /\ j \in 1..Len(s)
      BY <1>0
    <3> QED BY <3>1, SubSeqRecursiveSecond
  <2>3. a[j] = <<s[j]>>
    OBVIOUS
  <2> QED BY <1>2, <2>1, <2>2, <2>3
<1>3. ASSUME Bad # {}
      PROVE  FALSE
  <2>1. PICK j \in Bad : \A k \in Bad : j <= k
    <3>1. Bad \in SUBSET Nat
      OBVIOUS
    <3> HIDE DEF Bad
    <3> QED BY <1>3, <3>1, Least
  <2>2. j \in 0..n /\ ~Fine(j)
    BY <2>1
  <2> HIDE DEF Fine
  <2>3. j # 0
    BY <1>1, <2>2
  <2>4. j \in 1..n /\ j - 1 \in 0..n /\ ~(j <= j - 1)
    BY <1>0, <2>2, <2>3
  <2>5. Fine(j - 1)
    BY <2>1, <2>4
  <2> QED BY <1>2, <2>2, <2>4, <2>5
<1>4. Fine(n)
  <2>1. n \in 0..n
    BY <1>0
  <2> HIDE DEF Fine
  <2> QED BY <1>3, <2>1
<1>5. First(a, n) = FlattenSeq(a)
  BY FirstUnfold
<1>6. SubSeq(s, 1, n) = s
  BY <1>0
<1> QED BY <1>4, <1>5, <1>6

-----------------------------------------------------------------------------
(* Places and numbers in a text *)

\* The first place of a character is where no earlier one has it.
LEMMA FindIs ==
  ASSUME NEW text, NEW char, NEW offset \in Nat, NEW end \in Nat, offset <= end
  PROVE  LET at == Find(text, char, offset, end) IN
         /\ at \in offset..end
         /\ \A i \in offset..(at - 1) : text[i + 1] # char
         /\ at < end => text[at + 1] = char
<1> DEFINE found == {i \in offset..(end - 1) : text[i + 1] = char}
           at == Find(text, char, offset, end)
<1>1. found \in SUBSET Nat
  OBVIOUS
<1>2. CASE found = {}
  <2>1. at = end
    BY <1>2 DEF Find
  <2>2. \A i \in offset..(end - 1) : text[i + 1] # char
    BY <1>2
  <2> HIDE DEF at
  <2> QED BY <2>1, <2>2 DEF at
<1>3. CASE found # {}
  <2>1. at = CHOOSE i \in found : \A j \in found : i <= j
    BY <1>3 DEF Find
  <2>2. \E i \in found : \A j \in found : i <= j
    <3> HIDE DEF found
    <3> QED BY <1>1, <1>3, Least
  <2>3. at \in found /\ \A j \in found : at <= j
    <3> HIDE DEF found, at
    <3> QED BY <2>1, <2>2
  <2> HIDE DEF at
  <2>4. at \in offset..(end - 1) /\ text[at + 1] = char
    BY <2>3
  <2>5. \A i \in offset..(at - 1) : text[i + 1] # char
    <3> SUFFICES ASSUME NEW i \in offset..(at - 1), text[i + 1] = char
                 PROVE  FALSE
      OBVIOUS
    <3>1. i \in offset..(end - 1) /\ ~(at <= i)
      BY <2>4
    <3>2. i \in found
      BY <3>1
    <3> QED BY <2>3, <3>1, <3>2
  <2> QED BY <2>4, <2>5 DEF at
<1> QED BY <1>2, <1>3

\* ... and there is one such place.
LEMMA FoundAt ==
  ASSUME NEW text, NEW char, NEW end \in Nat, NEW at \in 0..end,
         \A i \in 0..(at - 1) : text[i + 1] # char, at < end => text[at + 1] = char
  PROVE  Find(text, char, 0, end) = at
<1> DEFINE f == Find(text, char, 0, end)
<1>1. /\ f \in 0..end
      /\ \A i \in 0..(f - 1) : text[i + 1] # char
      /\ f < end => text[f + 1] = char
  BY FindIs
<1> HIDE DEF f
<1>2. ~(f < at)
  <2> SUFFICES ASSUME f < at
               PROVE  FALSE
    OBVIOUS
  <2>1. f \in 0..(at - 1) /\ f < end
    BY <1>1
  <2> QED BY <1>1, <2>1
<1>3. ~(at < f)
  <2> SUFFICES ASSUME at < f
               PROVE  FALSE
    OBVIOUS
  <2>1. at \in 0..(f - 1) /\ at < end
    BY <1>1
  <2> QED BY <1>1, <2>1
<1> QED BY <1>1, <1>2, <1>3 DEF f

\* The numbers that the first digits of a text stand for.
Counted(f, text, i) == IF i = 0 THEN 0 ELSE 10 * f[i - 1] + (text[i] - 48)

\* A function that counts.
Counts(f, text, n) == f = [i \in 0..n |-> Counted(f, text, i)]

\* There is such a function, for a text of any length.
LEMMA CountsExist ==
  ASSUME NEW text, NEW N \in Nat
  PROVE  \E f : Counts(f, text, N)
<1> DEFINE Bad == {n \in Nat : ~\E f : Counts(f, text, n)}
<1> SUFFICES ASSUME Bad # {} PROVE FALSE
  OBVIOUS
<1>1. PICK n \in Bad : \A m \in Bad : n <= m
  <2>1. Bad \in SUBSET Nat
    OBVIOUS
  <2> HIDE DEF Bad
  <2> QED BY <2>1, Least
<1>2. CASE n = 0
  <2> DEFINE f == [i \in 0..n |-> 0]
  <2>1. \A i \in 0..n : i = 0
    BY <1>2
  <2>2. Counts(f, text, n)
    BY <2>1 DEF Counts, Counted
  <2> QED BY <1>1, <2>2
<1>3. CASE n # 0
  <2>1. n - 1 \in Nat /\ n - 1 \notin Bad /\ n \in Nat
    BY <1>1, <1>3
  <2>2. PICK g : Counts(g, text, n - 1)
    BY <2>1
  <2> DEFINE f == [i \in 0..n |-> IF i = n THEN Counted(g, text, i) ELSE g[i]]
  <2>3. ASSUME NEW i \in 0..n
        PROVE  f[i] = Counted(f, text, i)
    <3>1. i # 0 => f[i - 1] = g[i - 1]
      <4>1. i # 0 => i - 1 \in 0..n /\ i - 1 # n
        BY <2>1
      <4> QED BY <4>1
    <3>2. Counted(f, text, i) = Counted(g, text, i)
      <4> HIDE DEF f
      <4> QED BY <3>1 DEF Counted
    <3>3. CASE i = n
      BY <3>2, <3>3
    <3>4. CASE i # n
      <4>1. i \in 0..(n - 1)
        BY <2>1, <3>4
      <4>2. g[i] = Counted(g, text, i)
        BY <2>2, <4>1 DEF Counts
      <4>3. f[i] = g[i]
        BY <3>4
      <4> QED BY <3>2, <4>2, <4>3
    <3> QED BY <3>3, <3>4
  <2>4. f = [i \in 0..n |-> Counted(f, text, i)]
    <3> DEFINE h == [i \in 0..n |-> Counted(f, text, i)]
    <3>1. DOMAIN f = 0..n /\ f = [i \in 0..n |-> f[i]]
      OBVIOUS
    <3> HIDE DEF f
    <3> QED BY <2>3, <3>1
  <2>5. Counts(f, text, n)
    BY <2>4 DEF Counts
  <2> QED BY <1>1, <2>5
<1> QED BY <1>2, <1>3

\* Number counts by such a function.
LEMMA NumberFollows ==
  ASSUME NEW text, Len(text) \in Nat
  PROVE  \E f : /\ Number(text) = f[Len(text)]
                /\ \A i \in 0..Len(text) : f[i] = Counted(f, text, i)
<1> DEFINE f == CHOOSE g : Counts(g, text, Len(text))
<1>1. Number(text) = f[Len(text)]
  BY DEF Number, Counts, Counted
<1>2. Counts(f, text, Len(text))
  BY CountsExist
<1>3. \A i \in 0..Len(text) : f[i] = Counted(f, text, i)
  <2> HIDE DEF f
  <2> QED BY <1>2 DEF Counts
<1> QED BY <1>1, <1>3

-----------------------------------------------------------------------------
(* Ports *)

\* A port.
Port(n) == n \in Nat /\ n <= 65535

\* What is left of a port above its last digits.
Tens(n, k) ==
  IF k = 0 THEN n ELSE IF k = 1 THEN n \div 10 ELSE IF k = 2 THEN n \div 100
  ELSE IF k = 3 THEN n \div 1000 ELSE IF k = 4 THEN n \div 10000 ELSE 0

\* The next digit.
Digit(n, k) == Tens(n, k) % 10

\* How many digits there are.
DigitsFor(n) ==
  IF n < 10 THEN 1 ELSE IF n < 100 THEN 2 ELSE IF n < 1000 THEN 3 ELSE IF n < 10000 THEN 4 ELSE 5

\* The digits make the port, and there are at most five.
LEMMA TensAre ==
  ASSUME NEW n, Port(n)
  PROVE  /\ \A k \in 0..4 : n \div 10 ^ k = Tens(n, k)
         /\ \A k \in 0..5 : Tens(n, k) \in Nat
         /\ \A k \in 0..4 : Digit(n, k) \in Nat /\ Tens(n, k) = 10 * Tens(n, k + 1) + Digit(n, k)
         /\ DigitsFor(n) \in 1..5 /\ Tens(n, DigitsFor(n)) = 0
<1>0. n \in Nat /\ n <= 65535
  BY DEF Port
<1>1. /\ n \div 10 ^ 0 = Tens(n, 0) /\ n \div 10 ^ 1 = Tens(n, 1) /\ n \div 10 ^ 2 = Tens(n, 2)
      /\ n \div 10 ^ 3 = Tens(n, 3) /\ n \div 10 ^ 4 = Tens(n, 4)
  BY <1>0, PowersAre, SMT DEF Tens
<1>2. /\ Tens(n, 0) \in Nat /\ Tens(n, 1) \in Nat /\ Tens(n, 2) \in Nat /\ Tens(n, 3) \in Nat
      /\ Tens(n, 4) \in Nat /\ Tens(n, 5) \in Nat
  BY <1>0, SMT DEF Tens
<1>3. Tens(n, 0) = 10 * Tens(n, 1) + Digit(n, 0) /\ Digit(n, 0) \in Nat
  BY <1>0, SMT DEF Tens, Digit
<1>4. Tens(n, 1) = 10 * Tens(n, 2) + Digit(n, 1) /\ Digit(n, 1) \in Nat
  BY <1>0, SMT DEF Tens, Digit
<1>5. Tens(n, 2) = 10 * Tens(n, 3) + Digit(n, 2) /\ Digit(n, 2) \in Nat
  BY <1>0, SMT DEF Tens, Digit
<1>6. Tens(n, 3) = 10 * Tens(n, 4) + Digit(n, 3) /\ Digit(n, 3) \in Nat
  BY <1>0, SMT DEF Tens, Digit
<1>7. Tens(n, 4) = 10 * Tens(n, 5) + Digit(n, 4) /\ Digit(n, 4) \in Nat
  BY <1>0, SMT DEF Tens, Digit
<1>8. DigitsFor(n) \in 1..5 /\ Tens(n, DigitsFor(n)) = 0
  BY <1>0, SMT DEF Tens, DigitsFor
<1>9. \A k \in 0..4 : k = 0 \/ k = 1 \/ k = 2 \/ k = 3 \/ k = 4
  OBVIOUS
<1>10. \A k \in 0..4 : n \div 10 ^ k = Tens(n, k)
  BY <1>1, <1>9
<1>11. \A k \in 0..5 : Tens(n, k) \in Nat
  <2>1. \A k \in 0..5 : k = 0 \/ k = 1 \/ k = 2 \/ k = 3 \/ k = 4 \/ k = 5
    OBVIOUS
  <2> QED BY <1>2, <2>1
<1>12. \A k \in 0..4 : Digit(n, k) \in Nat /\ Tens(n, k) = 10 * Tens(n, k + 1) + Digit(n, k)
  <2>1. 0 + 1 = 1 /\ 1 + 1 = 2 /\ 2 + 1 = 3 /\ 3 + 1 = 4 /\ 4 + 1 = 5
    OBVIOUS
  <2> QED BY <1>3, <1>4, <1>5, <1>6, <1>7, <1>9, <2>1
<1> QED BY <1>8, <1>10, <1>11, <1>12

\* A port, written in decimal.
LEMMA DecimalIs ==
  ASSUME NEW n, Port(n)
  PROVE  /\ Decimal(n) \in Seq(Nat) /\ Len(Decimal(n)) = DigitsFor(n)
         /\ \A i \in 1..DigitsFor(n) : Decimal(n)[i] = 48 + Digit(n, DigitsFor(n) - i)
<1> DEFINE l == DigitsFor(n)
<1>1. l \in 1..5
  BY TensAre
<1>2. Decimal(n) = [i \in 1..l |-> 48 + ((n \div 10 ^ (l - i)) % 10)]
  BY SMT DEF Decimal, DigitsFor
<1> HIDE DEF l
<1>3. ASSUME NEW i \in 1..l
      PROVE  /\ 48 + ((n \div 10 ^ (l - i)) % 10) = 48 + Digit(n, l - i)
             /\ 48 + Digit(n, l - i) \in Nat
  <2>1. l - i \in 0..4
    BY <1>1
  <2>2. n \div 10 ^ (l - i) = Tens(n, l - i) /\ Digit(n, l - i) \in Nat
    BY <2>1, TensAre
  <2> QED BY <2>2 DEF Digit
<1>4. Decimal(n) = [i \in 1..l |-> 48 + Digit(n, l - i)]
  BY <1>2, <1>3
<1>5. Decimal(n) \in [1..l -> Nat]
  BY <1>3, <1>4
<1>6. Decimal(n) \in Seq(Nat) /\ Len(Decimal(n)) = l
  BY <1>1, <1>5
<1> QED BY <1>4, <1>6 DEF l

\* ... reads as that port.
LEMMA NumberOfDecimal ==
  ASSUME NEW n, Port(n)
  PROVE  Number(Decimal(n)) = n
<1> DEFINE t == Decimal(n)
           l == DigitsFor(n)
<1>1. l \in 1..5 /\ l \in Nat /\ Len(t) = l /\ Tens(n, l) = 0
  BY DecimalIs, TensAre
<1>2. PICK f : /\ Number(t) = f[l]
               /\ \A i \in 0..l : f[i] = Counted(f, t, i)
  <2> HIDE DEF t
  <2> QED BY <1>1, NumberFollows
<1>3. \A i \in 1..l : t[i] = 48 + Digit(n, l - i)
  BY DecimalIs
<1> DEFINE Fine(i) == f[i] = Tens(n, l - i)
           Bad == {i \in 0..l : ~Fine(i)}
<1> HIDE DEF t, l
<1>4. Fine(0)
  <2>1. 0 \in 0..l /\ l - 0 = l
    BY <1>1
  <2>2. f[0] = Counted(f, t, 0)
    BY <1>2, <2>1
  <2> QED BY <1>1, <2>1, <2>2 DEF Counted
<1>5. ASSUME NEW i \in 1..l, Fine(i - 1)
      PROVE  Fine(i)
  <2>1. i \in 0..l /\ i # 0 /\ l - i \in 0..4 /\ l - (i - 1) = (l - i) + 1
    BY <1>1
  <2>2. f[i] = 10 * f[i - 1] + (t[i] - 48)
    BY <1>2, <2>1 DEF Counted
  <2> DEFINE k == l - i
             b == Tens(n, k + 1)
             d == Digit(n, k)
  <2>3. f[i - 1] = b /\ t[i] = 48 + d
    BY <1>3, <1>5, <2>1
  <2>4. d \in Nat /\ Tens(n, k) = 10 * b + d /\ b \in Nat
    <3>1. k \in 0..4 /\ k + 1 \in 0..5
      BY <2>1
    <3> HIDE DEF k
    <3> QED BY <3>1, TensAre
  <2> HIDE DEF b, d, k
  <2>5. f[i] = 10 * b + d
    <3>1. (48 + d) - 48 = d
      BY <2>4
    <3> QED BY <2>2, <2>3, <3>1
  <2> QED BY <2>4, <2>5 DEF k
<1>6. ASSUME Bad # {}
      PROVE  FALSE
  <2>1. PICK j \in Bad : \A k \in Bad : j <= k
    <3>1. Bad \in SUBSET Nat
      OBVIOUS
    <3> HIDE DEF Bad
    <3> QED BY <1>6, <3>1, Least
  <2>2. j \in 0..l /\ ~Fine(j)
    BY <2>1
  <2> HIDE DEF Fine
  <2>3. j # 0
    BY <1>4, <2>2
  <2>4. j \in 1..l /\ j - 1 \in 0..l /\ ~(j <= j - 1)
    BY <1>1, <2>2, <2>3
  <2>5. Fine(j - 1)
    BY <2>1, <2>4
  <2> QED BY <1>5, <2>2, <2>4, <2>5
<1>7. Fine(l)
  <2>1. l \in 0..l
    BY <1>1
  <2> HIDE DEF Fine
  <2> QED BY <1>6, <2>1
<1>8. l - l = 0 /\ Tens(n, 0) = n
  BY <1>1 DEF Tens
<1> QED BY <1>2, <1>7, <1>8 DEF t

-----------------------------------------------------------------------------
(* URLs and authorities *)

\* Where the host of a URL ends, and where its path begins.
Parted(url, h, e) ==
  /\ url \in Seq(Nat) /\ h \in Nat /\ e \in Nat
  /\ 9 <= h /\ h <= 263 /\ h <= e /\ e <= Len(url) /\ Len(url) - e <= 1023
  /\ Cut(url, 1, 8) = Https
  /\ \A i \in 8..(h - 1) : url[i + 1] # Colon
  /\ h < e => url[h + 1] = Colon /\ Cut(url, h + 2, e) # <<>> /\ Port(Number(Cut(url, h + 2, e)))

\* What a URL that is accepted is taken for.
Taken(u, url, h, e) ==
  /\ u.host = Cut(url, 9, h)
  /\ u.port = IF h < e THEN Number(Cut(url, h + 2, e)) ELSE 443
  /\ u.path = IF Cut(url, e + 1, Len(url)) = <<>> THEN <<Slash>> ELSE Cut(url, e + 1, Len(url))

\* A function on the first numbers is a sequence.
LEMMA LengthOf ==
  ASSUME NEW n \in Nat, NEW S, NEW f \in [1..n -> S]
  PROVE  f \in Seq(S) /\ Len(f) = n
OBVIOUS

\* The scheme takes eight characters.
LEMMA HttpsIs == Https \in Seq(Nat) /\ Len(Https) = 8
<1>1. \A i \in 1..8 : 1000 * 1 + i \in Nat
  BY SMT
<1>2. Text(1, 8) = [i \in 1..8 |-> 1000 * 1 + i]
  BY DEF Text
<1>3. Text(1, 8) \in [1..8 -> Nat] /\ 8 \in Nat
  BY <1>1, <1>2
<1>4. Text(1, 8) \in Seq(Nat) /\ Len(Text(1, 8)) = 8
  BY <1>3, LengthOf
<1> QED BY <1>4 DEF Https

\* A URL that is accepted has a host and a path, and is taken for them.
LEMMA UrlIs ==
  ASSUME NEW url \in Seq(Nat), wt_url_parse_https(url).ok
  PROVE  \E h, e : Parted(url, h, e) /\ Taken(wt_url_parse_https(url), url, h, e)
<1> DEFINE e == Find(url, Slash, 8, Len(url))
           h == Find(url, Colon, 8, e)
           port == Cut(url, h + 2, e)
           path == Cut(url, e + 1, Len(url))
           refused == \/ ~IsPrefix(Https, url)
                      \/ ~HostFits(h - 8)
                      \/ h < e /\ ( \/ port = <<>>
                                    \/ \E i \in DOMAIN port : port[i] \notin Digits
                                    \/ ~PortFits(Number(port)) )
                      \/ ~PathFits(Len(path))
           good == [ok |-> TRUE,
                    host |-> SubSeq(url, 9, h),
                    port |-> IF h < e THEN Number(port) ELSE 443,
                    path |-> IF path = <<>> THEN <<Slash>> ELSE path]
<1>1. wt_url_parse_https(url) = IF refused THEN BadUrl ELSE good
  BY Zenon DEF wt_url_parse_https, Cut
<1>2. ~BadUrl.ok
  BY DEF BadUrl
<1> HIDE DEF refused, good
<1>3. ~refused /\ wt_url_parse_https(url) = good
  BY <1>1, <1>2, Zenon
<1> HIDE DEF e, h, port, path
<1>4. IsPrefix(Https, url)
  BY <1>3, Zenon DEF refused
<1>5. HostFits(h - 8)
  BY <1>3, Zenon DEF refused
<1>6. h < e => port # <<>> /\ PortFits(Number(port))
  BY <1>3, Zenon DEF refused
<1>7. PathFits(Len(path))
  BY <1>3, Zenon DEF refused
<1>8. Len(url) \in Nat /\ 8 <= Len(url) /\ Cut(url, 1, 8) = Https
  <2>1. Len(url) \in Nat
    OBVIOUS
  <2>2. 8 <= Len(url) /\ SubSeq(Https, 1, 8) = SubSeq(url, 1, 8)
    BY <1>4, HttpsIs DEF IsPrefix
  <2>3. SubSeq(Https, 1, Len(Https)) = Https
    BY HttpsIs, SubSeqFull
  <2> QED BY <2>1, <2>2, <2>3, HttpsIs DEF Cut
<1>9. e \in 8..Len(url)
  <2> DEFINE n == Len(url)
  <2>1. n \in Nat /\ 8 <= n
    BY <1>8
  <2> HIDE DEF n
  <2>2. Find(url, Slash, 8, n) \in 8..n
    BY <2>1, FindIs
  <2> QED BY <2>2 DEF n, e
<1>10. /\ h \in 8..e
       /\ \A i \in 8..(h - 1) : url[i + 1] # Colon
       /\ h < e => url[h + 1] = Colon
  <2>1. e \in Nat /\ 8 <= e
    BY <1>8, <1>9
  <2> QED BY <2>1, FindIs DEF h
<1>11. h \in Nat /\ e \in Nat /\ 9 <= h /\ h <= 263 /\ h <= e /\ e <= Len(url)
  BY <1>5, <1>8, <1>9, <1>10, SMT DEF HostFits
<1>12. Len(url) - e <= 1023
  <2>1. CASE e = Len(url)
    BY <1>8, <2>1
  <2>2. CASE e # Len(url)
    <3>1. e + 1 \in Nat \ {0} /\ e + 1 <= Len(url) /\ Len(url) - (e + 1) + 1 = Len(url) - e
      BY <1>8, <1>11, <2>2
    <3> DEFINE m == e + 1
               n == Len(url)
    <3>2. m \in Nat \ {0} /\ m <= n /\ n \in Nat /\ n <= Len(url)
      BY <1>8, <3>1
    <3> HIDE DEF m, n
    <3>3. IsCut(Nat, url, m, n)
      BY <3>2, Piecewise
    <3>4. Len(Cut(url, m, n)) = n - m + 1
      BY <3>3 DEF IsCut
    <3>5. Len(path) = Len(url) - e
      BY <3>1, <3>4 DEF m, n, path
    <3> QED BY <1>7, <1>8, <1>11, <3>5, SMT DEF PathFits
  <2> QED BY <2>1, <2>2
<1>13. h < e => Port(Number(port))
  <2>1. \A n : PortFits(n) => Port(n)
    BY SMT DEF PortFits, Port
  <2> QED BY <1>6, <2>1, Zenon
<1>14. Parted(url, h, e)
  BY <1>6, <1>8, <1>10, <1>11, <1>12, <1>13, SMT DEF Parted, port
<1>15. Taken(good, url, h, e)
  <2>1. /\ good.host = Cut(url, 9, h)
        /\ good.port = IF h < e THEN Number(port) ELSE 443
        /\ good.path = IF path = <<>> THEN <<Slash>> ELSE path
    BY DEF good, Cut
  <2> QED BY <2>1 DEF Taken, port, path
<1> QED BY <1>3, <1>14, <1>15

\* The parts of a URL fit where the code keeps them, and its host has no colon.
LEMMA UrlTyped ==
  ASSUME NEW u, NEW url, NEW h, NEW e, Parted(url, h, e), Taken(u, url, h, e)
  PROVE  /\ u.host \in Seq(Nat) /\ Len(u.host) = h - 8 /\ \A i \in 1..(h - 8) : u.host[i] # Colon
         /\ Port(u.port)
         /\ u.path \in Seq(Nat) /\ u.path # <<>> /\ Len(u.path) <= 1023
<1>1. /\ url \in Seq(Nat) /\ h \in Nat /\ e \in Nat /\ Len(url) \in Nat
      /\ 9 <= h /\ h <= e /\ e <= Len(url) /\ Len(url) - e <= 1023
      /\ \A i \in 8..(h - 1) : url[i + 1] # Colon
  BY SMT DEF Parted
<1>2. u.host = Cut(url, 9, h)
  BY DEF Taken
<1>3. IsCut(Nat, url, 9, h)
  <2>1. 9 \in Nat \ {0} /\ h <= Len(url)
    BY <1>1
  <2> QED BY <1>1, <2>1, Piecewise
<1>4. /\ u.host \in Seq(Nat) /\ Len(u.host) = h - 9 + 1
      /\ \A i \in 1..(h - 9 + 1) : u.host[i] = url[9 + i - 1]
  BY <1>2, <1>3 DEF IsCut
<1>5. h - 9 + 1 = h - 8 /\ \A i \in 1..(h - 8) : 9 + i - 1 = (8 + i - 1) + 1 /\ 8 + i - 1 \in 8..(h - 1)
  BY <1>1
<1>6. \A i \in 1..(h - 8) : u.host[i] # Colon
  BY <1>1, <1>4, <1>5
<1>7. Port(u.port)
  <2>1. Port(443)
    BY SMT DEF Port
  <2>2. h < e => Port(Number(Cut(url, h + 2, e)))
    BY DEF Parted
  <2>3. u.port = IF h < e THEN Number(Cut(url, h + 2, e)) ELSE 443
    BY DEF Taken
  <2> QED BY <2>1, <2>2, <2>3, Zenon
<1>8. u.path \in Seq(Nat) /\ u.path # <<>> /\ Len(u.path) <= 1023
  <2> DEFINE path == Cut(url, e + 1, Len(url))
  <2>1. u.path = IF path = <<>> THEN <<Slash>> ELSE path
    BY DEF Taken
  <2>2. <<Slash>> \in Seq(Nat) /\ <<Slash>> # <<>> /\ Len(<<Slash>>) = 1
    BY DEF Slash
  <2>3. path \in Seq(Nat) /\ Len(path) <= 1023
    <3>1. CASE e = Len(url)
      <4>1. path = <<>>
        <5>1. e + 1 \in Nat /\ e + 1 > Len(url)
          BY <1>1, <3>1
        <5> QED BY <1>1, <5>1, CutEmpty
      <4> HIDE DEF path
      <4> QED BY <4>1, SMT
    <3>2. CASE e # Len(url)
      <4>1. e + 1 \in Nat \ {0} /\ e + 1 <= Len(url) /\ Len(url) - (e + 1) + 1 = Len(url) - e
        BY <1>1, <3>2
      <4> DEFINE m == e + 1
                 n == Len(url)
      <4>2. m \in Nat \ {0} /\ m <= n /\ n \in Nat /\ n <= Len(url) /\ n - m + 1 <= 1023
        BY <1>1, <4>1, SMT
      <4> HIDE DEF m, n
      <4>3. IsCut(Nat, url, m, n)
        BY <1>1, <4>2, Piecewise
      <4>4. Cut(url, m, n) \in Seq(Nat) /\ Len(Cut(url, m, n)) <= 1023
        BY <4>2, <4>3, SMT DEF IsCut
      <4> QED BY <4>4, SMT DEF m, n
    <3> QED BY <3>1, <3>2
  <2> HIDE DEF path
  <2>4. CASE path = <<>>
    BY <2>1, <2>2, <2>4, SMT
  <2>5. CASE path # <<>>
    BY <2>1, <2>3, <2>5, SMT
  <2> QED BY <2>4, <2>5
<1> QED BY <1>4, <1>5, <1>6, <1>7, <1>8

\* What is joined, member by member.
JoinedAs(S, a, b, m, n) ==
  /\ a \o b \in Seq(S) /\ Len(a \o b) = m + n
  /\ \A i \in 1..(m + n) : (a \o b)[i] = IF i <= m THEN a[i] ELSE b[i - m]

\* ... for any two sequences.
LEMMA JoinedIs ==
  ASSUME NEW S, NEW a \in Seq(S), NEW b \in Seq(S), NEW m, NEW n, Len(a) = m, Len(b) = n
  PROVE  JoinedAs(S, a, b, m, n)
<1>1. /\ a \o b \in Seq(S) /\ Len(a \o b) = Len(a) + Len(b)
      /\ \A i \in 1..(Len(a) + Len(b)) : (a \o b)[i] = IF i <= Len(a) THEN a[i] ELSE b[i - Len(a)]
  BY ConcatProperties
<1> QED BY <1>1, Zenon DEF JoinedAs

\* The longest host and the longest port fit together.
LEMMA AuthorityLength == \A n \in 1..255, l \in 1..5 : (n + 1) + l <= 263 /\ (n + 1) + l > 0
OBVIOUS

\* The authority of a URL: its host and, unless it is 443, its port.
IsAuthority(a, u, n, l) ==
  /\ a \in Seq(Nat) /\ a # <<>> /\ Len(a) <= 263
  /\ u.port = 443 => a = u.host
  /\ u.port # 443 =>
       /\ Len(a) = (n + 1) + l /\ a[n + 1] = Colon
       /\ \A i \in 1..n : a[i] = u.host[i]
       /\ \A i \in 1..l : a[(n + 1) + i] = Decimal(u.port)[i]

\* AuthorityOf makes it so.
LEMMA AuthorityIs ==
  ASSUME NEW u, u.host \in Seq(Nat), NEW n \in 1..255, Len(u.host) = n, Port(u.port),
         NEW l, l = DigitsFor(u.port)
  PROVE  IsAuthority(AuthorityOf(u), u, n, l)
<1> DEFINE a == AuthorityOf(u)
           d == Decimal(u.port)
           s == u.host
<1>1. d \in Seq(Nat) /\ Len(d) = l /\ l \in 1..5
  BY DecimalIs, TensAre
<1>2. s \in Seq(Nat) /\ Len(s) = n
  OBVIOUS
<1>3. a = IF u.port = 443 THEN s ELSE s \o <<Colon>> \o d
  BY DEF AuthorityOf
<1> HIDE DEF a, d, s
<1>4. CASE u.port = 443
  <2>1. a = s
    BY <1>3, <1>4
  <2> QED BY <1>2, <1>4, <2>1 DEF a, s, IsAuthority
<1>5. CASE u.port # 443
  <2>1. a = (s \o <<Colon>>) \o d
    BY <1>3, <1>5
  <2>2. <<Colon>> \in Seq(Nat) /\ Len(<<Colon>>) = 1 /\ <<Colon>>[1] = Colon
    BY DEF Colon
  <2> DEFINE c == <<Colon>>
             b == s \o c
  <2>3. c \in Seq(Nat) /\ Len(c) = 1 /\ c[1] = Colon
    BY <2>2
  <2> HIDE DEF c
  <2>4. JoinedAs(Nat, s, c, n, 1)
    BY <1>2, <2>3, JoinedIs
  <2>5. b \in Seq(Nat) /\ Len(b) = n + 1 /\ \A i \in 1..(n + 1) : b[i] = IF i <= n THEN s[i] ELSE c[i - n]
    BY <2>4, Zenon DEF JoinedAs
  <2> HIDE DEF b
  <2> DEFINE m == n + 1
  <2>6. JoinedAs(Nat, b, d, m, l)
    BY <1>1, <2>5, JoinedIs
  <2>7. a = b \o d
    BY <2>1 DEF b, c
  <2>8. a \in Seq(Nat) /\ Len(a) = m + l /\ \A i \in 1..(m + l) : a[i] = IF i <= m THEN b[i] ELSE d[i - m]
    BY <2>6, <2>7, Zenon DEF JoinedAs
  <2>9. /\ m \in 1..(m + l) /\ m \in 1..(n + 1) /\ m <= m /\ ~(m <= n) /\ m - n = 1
        /\ \A i \in 1..n : i \in 1..(m + l) /\ i \in 1..(n + 1) /\ i <= n /\ i <= m
        /\ \A i \in 1..l : m + i \in 1..(m + l) /\ ~(m + i <= m) /\ m + i - m = i
    BY <1>1
  <2>14. Len(a) = m + l
    BY <2>8
  <2>15. m + l <= 263 /\ m + l > 0
    BY <1>1, AuthorityLength
  <2> HIDE DEF m
  <2>10. a[m] = Colon
    <3>1. a[m] = b[m]
      BY <2>8, <2>9
    <3>2. b[m] = c[m - n]
      BY <2>5, <2>9
    <3> QED BY <2>3, <2>9, <3>1, <3>2
  <2>11. \A i \in 1..n : a[i] = s[i]
    <3>1. \A i \in 1..n : a[i] = b[i]
      BY <2>8, <2>9
    <3>2. \A i \in 1..n : b[i] = s[i]
      BY <2>5, <2>9
    <3> QED BY <3>1, <3>2
  <2>12. \A i \in 1..l : a[m + i] = d[i]
    BY <2>8, <2>9
  <2>13. Len(a) <= 263 /\ a # <<>>
    <3>1. Len(a) <= 263 /\ Len(a) > 0
      BY <2>14, <2>15
    <3> QED BY <3>1
  <2> QED BY <1>1, <1>5, <2>8, <2>10, <2>11, <2>12, <2>13 DEF a, d, s, m, IsAuthority
<1> QED BY <1>4, <1>5

-----------------------------------------------------------------------------
(* The fields of a request *)

\* The fields of the request, and how they are written.
Wanted(authority, path) ==
  << <<Method, Connect>>, <<Protocol, WebTransport>>, <<Scheme, HttpsScheme>>,
     <<Authority, authority>>, <<Path, path>> >>

\* ... and how they are written.
Written(authority, path) ==
  [i \in DOMAIN Wanted(authority, path) |-> RequestField(Wanted(authority, path)[i])]

\* ... one by one.
LEMMA WantedIs ==
  ASSUME NEW authority, NEW path
  PROVE  LET w == Wanted(authority, path) IN
         /\ DOMAIN w = 1..5 /\ Len(w) = 5
         /\ w[1] = <<Method, Connect>> /\ w[2] = <<Protocol, WebTransport>> /\ w[3] = <<Scheme, HttpsScheme>>
         /\ w[4] = <<Authority, authority>> /\ w[5] = <<Path, path>>
BY DEF Wanted

\* ... and how each is written.
LEMMA WrittenIs ==
  ASSUME NEW authority, NEW path
  PROVE  LET e == Written(authority, path) IN
         /\ DOMAIN e = 1..5
         /\ e[1] = wt_qpack_encode_static_index(15)
         /\ e[2] = wt_qpack_encode_header_field(<<Protocol, WebTransport>>)
         /\ e[3] = wt_qpack_encode_static_index(23)
         /\ e[4] = wt_qpack_encode_literal_with_static_name(0, authority)
         /\ e[5] = wt_qpack_encode_literal_with_static_name(1, path)
<1> DEFINE w == Wanted(authority, path)
           e == Written(authority, path)
<1>1. /\ DOMAIN w = 1..5
      /\ w[1] = <<Method, Connect>> /\ w[2] = <<Protocol, WebTransport>> /\ w[3] = <<Scheme, HttpsScheme>>
      /\ w[4] = <<Authority, authority>> /\ w[5] = <<Path, path>>
  BY WantedIs
<1> HIDE DEF w
<1>2. e = [i \in 1..5 |-> RequestField(w[i])]
  BY <1>1 DEF Written, w
<1> HIDE DEF e
<1>3. /\ DOMAIN e = 1..5 /\ e[1] = RequestField(w[1]) /\ e[2] = RequestField(w[2]) /\ e[3] = RequestField(w[3])
      /\ e[4] = RequestField(w[4]) /\ e[5] = RequestField(w[5])
  BY <1>2
<1> QED BY <1>1, <1>3, RequestFields, Zenon DEF e

\* Lengths that fit where the code keeps them.
Short(n) == n \in Nat /\ n <= 1023

\* They leave room for a prefix integer or two.
LEMMA ShortIs ==
  /\ \A n : Short(n) => n \in Nat /\ n <= Huge /\ Small(n) /\ n + 6 <= 1029
  /\ \A n \in Nat : n <= 263 => Short(n)
  /\ \A n \in Nat : n <= 12 => Short(n)
BY SMT DEF Short, Huge, Small

\* The fields of the request are written so that they are read as they are, in few bytes.
Few == 2700

\* Where the fifth field ends.
LEMMA FiveEnds ==
  ASSUME NEW a, NEW b, NEW c, NEW d, NEW f, NEW k \in Nat, NEW l \in Nat, NEW m \in Nat, NEW n \in Nat, NEW o \in Nat,
         a = 0 + k, b = a + l, c = b + m, d = c + n, f = d + o,
         k = 1, l <= 30, m = 1, n <= 1029, o <= 1029
  PROVE  f <= 2090
OBVIOUS

\* A name and a value.
Pairs == Seq(Nat) \X Seq(Nat)

\* A line of the headers: blank, or a name and a value.
Lines == {<<>>} \union (Seq(Nat) \X Seq(Nat))

\* What the lines are written as.
Spelled(lines) == [i \in DOMAIN lines |-> HeaderLine(lines[i])]

\* A header without a name: no request is made.
Nameless(lines) == \E i \in DOMAIN lines : lines[i] # <<>> /\ lines[i][1] = <<>>

\* A member is no longer than all of them.
LEMMA MemberLen ==
  ASSUME NEW a \in Seq(Seq(Nat)), NEW i \in 1..Len(a)
  PROVE  Len(a[i]) \in Nat /\ Len(a[i]) <= Len(FlattenSeq(a)) /\ Len(FlattenSeq(a)) \in Nat
<1>1. EndIn(a, i) = EndIn(a, i - 1) + Len(a[i])
  BY EndSteps
<1>2. i \in 0..Len(a) /\ i - 1 \in 0..Len(a) /\ a[i] \in Seq(Nat)
  OBVIOUS
<1>3. EndIn(a, i - 1) \in Nat
  BY <1>2, EndSteps
<1>4. EndIn(a, i) <= Len(FlattenSeq(a))
  BY <1>2, EndsIn
<1>5. FlattenSeq(a) \in Seq(Nat)
  BY EndSteps
<1>6. Len(FlattenSeq(a)) \in Nat /\ Len(a[i]) \in Nat
  BY <1>2, <1>5
<1> QED BY <1>1, <1>3, <1>4, <1>6

\* The field section of a request.
Block(authority, path, lines) ==
  wt_http3_append_serialized_headers(
    wt_qpack_encode_webtransport_request_headers(Wanted(authority, path)), lines)

\* It is there unless a header has no name: the fields, then the lines.
LEMMA BlockIs ==
  ASSUME NEW authority, NEW path, NEW lines
  PROVE  /\ Nameless(lines) => Block(authority, path, lines) = <<>>
         /\ ~Nameless(lines) => Block(authority, path, lines) =
              (<<0, 0>> \o FlattenSeq(Written(authority, path))) \o FlattenSeq(Spelled(lines))
         /\ ~Nameless(lines) => wt_http3_append_serialized_headers(<<>>, lines) = <<>> \o FlattenSeq(Spelled(lines))
<1>1. wt_qpack_encode_webtransport_request_headers(Wanted(authority, path)) =
        <<0, 0>> \o FlattenSeq(Written(authority, path))
  BY Zenon DEF wt_qpack_encode_webtransport_request_headers, Written
<1>2. \A block : wt_http3_append_serialized_headers(block, lines) =
                   IF Nameless(lines) THEN <<>> ELSE block \o FlattenSeq(Spelled(lines))
  BY Zenon DEF wt_http3_append_serialized_headers, Nameless, Spelled
<1> QED BY <1>1, <1>2, Zenon DEF Block

\* The fields are pairs.
LEMMA WantedTyped ==
  ASSUME NEW authority \in Seq(Nat), NEW path \in Seq(Nat)
  PROVE  LET w == Wanted(authority, path) IN w \in Seq(Pairs) /\ Len(w) = 5
<1> DEFINE w == Wanted(authority, path)
<1>1. /\ DOMAIN w = 1..5 /\ Len(w) = 5
      /\ w[1] = <<Method, Connect>> /\ w[2] = <<Protocol, WebTransport>> /\ w[3] = <<Scheme, HttpsScheme>>
      /\ w[4] = <<Authority, authority>> /\ w[5] = <<Path, path>>
  BY WantedIs
<1>2. /\ Method \in Seq(Nat) /\ Connect \in Seq(Nat) /\ Protocol \in Seq(Nat) /\ WebTransport \in Seq(Nat)
      /\ Scheme \in Seq(Nat) /\ HttpsScheme \in Seq(Nat) /\ Authority \in Seq(Nat) /\ Path \in Seq(Nat)
  <2>1. {Method, Connect, Protocol, WebTransport, Scheme, HttpsScheme, Authority, Path} = Texts
    BY DEF Texts
  <2>2. \A t \in Texts : t \in Seq(Nat)
    BY TextsAre
  <2> QED BY <2>1, <2>2, Zenon
<1>3. \A a, b \in Seq(Nat) : <<a, b>> \in Pairs
  BY DEF Pairs
<1> DEFINE a == <<Method, Connect>>
           b == <<Protocol, WebTransport>>
           c == <<Scheme, HttpsScheme>>
           d == <<Authority, authority>>
           f == <<Path, path>>
<1>4. w = <<a, b, c, d, f>>
  BY DEF Wanted
<1>5. a \in Pairs /\ b \in Pairs /\ c \in Pairs /\ d \in Pairs /\ f \in Pairs
  BY <1>2, <1>3, Zenon
<1> HIDE DEF a, b, c, d, f
<1>6. <<a, b, c, d, f>> \in Seq(Pairs)
  BY <1>5
<1>7. w \in Seq(Pairs)
  BY <1>4, <1>6
<1> QED BY <1>1, <1>7 DEF w

\* The first three of a sequence, and all after the first five.
LEMMA Apart5 ==
  ASSUME NEW S, NEW w \in Seq(S), Len(w) = 5, NEW f \in Seq(S)
  PROVE  LET s == w \o f IN
         /\ SubSeq(s, 1, 3) = <<w[1], w[2], w[3]>>
         /\ s[4] = w[4] /\ s[5] = w[5]
         /\ SubSeq(s, 6, Len(s)) = f
<1> DEFINE s == w \o f
           n == Len(f)
<1>1. n \in Nat
  OBVIOUS
<1>2. JoinedAs(S, w, f, 5, n)
  BY JoinedIs
<1>3. s \in Seq(S) /\ Len(s) = 5 + n /\ \A i \in 1..(5 + n) : s[i] = IF i <= 5 THEN w[i] ELSE f[i - 5]
  BY <1>2, Zenon DEF JoinedAs
<1> HIDE DEF s, n
<1>4. s[1] = w[1] /\ s[2] = w[2] /\ s[3] = w[3] /\ s[4] = w[4] /\ s[5] = w[5]
  <2>1. /\ 1 \in 1..(5 + n) /\ 2 \in 1..(5 + n) /\ 3 \in 1..(5 + n) /\ 4 \in 1..(5 + n) /\ 5 \in 1..(5 + n)
        /\ 1 <= 5 /\ 2 <= 5 /\ 3 <= 5 /\ 4 <= 5 /\ 5 <= 5
    BY <1>1
  <2> QED BY <1>3, <2>1
<1>5. SubSeq(s, 1, 3) = <<w[1], w[2], w[3]>>
  <2>1. 1 \in Nat \ {0} /\ 3 \in Nat /\ 3 <= Len(s) /\ 1 <= 3
    BY <1>1, <1>3
  <2>2. IsCut(S, s, 1, 3)
    BY <1>3, <2>1, Piecewise
  <2> DEFINE t == Cut(s, 1, 3)
  <2>3. t \in Seq(S) /\ Len(t) = (3 - 1) + 1 /\ \A i \in 1..((3 - 1) + 1) : t[i] = s[1 + i - 1]
    BY <2>2 DEF IsCut
  <2> HIDE DEF t
  <2>4. Len(t) = 3 /\ t[1] = s[1] /\ t[2] = s[2] /\ t[3] = s[3]
    <3>1. /\ (3 - 1) + 1 = 3 /\ 1 + 1 - 1 = 1 /\ 1 + 2 - 1 = 2 /\ 1 + 3 - 1 = 3
          /\ 1 \in 1..((3 - 1) + 1) /\ 2 \in 1..((3 - 1) + 1) /\ 3 \in 1..((3 - 1) + 1)
      OBVIOUS
    <3> QED BY <2>3, <3>1
  <2>5. t = <<t[1], t[2], t[3]>>
    BY <2>3, <2>4
  <2> QED BY <1>4, <2>4, <2>5 DEF t, Cut
<1>6. SubSeq(s, 6, Len(s)) = f
  <2>1. CASE n = 0
    <3>1. f = <<>>
      BY <2>1 DEF n
    <3>2. Len(s) = 5
      BY <1>3, <2>1
    <3>3. SubSeq(s, 6, 5) = <<>>
      BY SubSeqEmpty
    <3> QED BY <3>1, <3>2, <3>3
  <2>2. CASE n # 0
    <3> DEFINE m == 5 + n
    <3>1. 6 \in Nat \ {0} /\ m \in Nat /\ m <= Len(s) /\ 6 <= m /\ (m - 6) + 1 = n
      BY <1>1, <1>3, <2>2
    <3>2. \A i \in 1..n : 6 + i - 1 \in 1..m /\ ~(6 + i - 1 <= 5) /\ 6 + i - 1 - 5 = i
      BY <1>1
    <3>3. \A i \in 1..m : s[i] = IF i <= 5 THEN w[i] ELSE f[i - 5]
      BY <1>3
    <3>4. Len(s) = m
      BY <1>3
    <3> HIDE DEF m
    <3>5. IsCut(S, s, 6, m)
      BY <1>3, <3>1, Piecewise
    <3> DEFINE t == Cut(s, 6, m)
    <3>6. t \in Seq(S) /\ Len(t) = n /\ \A i \in 1..n : t[i] = s[6 + i - 1]
      BY <3>1, <3>5 DEF IsCut
    <3> HIDE DEF t
    <3>7. \A i \in 1..n : t[i] = f[i]
      BY <3>2, <3>3, <3>6
    <3>8. f \in Seq(S) /\ Len(f) = n
      BY DEF n
    <3>9. t = f
      BY <3>6, <3>7, <3>8, SeqEqual
    <3> QED BY <3>4, <3>9 DEF t, Cut
  <2> QED BY <2>1, <2>2
<1> QED BY <1>4, <1>5, <1>6 DEF s

\* A sequence of one or two steps, joined.
LEMMA Joined ==
  /\ <<>> \o <<>> = <<>>
  /\ \A u : <<>> \o <<u>> = <<u>> /\ <<u>> \o <<>> = <<u>>
  /\ \A u, v : <<u>> \o <<v>> = <<u, v>> /\ <<u, v>> \o <<>> = <<u, v>>
<1>1. <<>> \o <<>> = <<>>
  OBVIOUS
<1>2. ASSUME NEW u PROVE <<>> \o <<u>> = <<u>> /\ <<u>> \o <<>> = <<u>>
  <2>1. <<u>> \in Seq({u})
    OBVIOUS
  <2> QED BY <2>1
<1>3. ASSUME NEW u, NEW v PROVE <<u>> \o <<v>> = <<u, v>> /\ <<u, v>> \o <<>> = <<u, v>>
  <2>1. <<u>> \in Seq({u, v}) /\ <<v>> \in Seq({u, v}) /\ <<u, v>> \in Seq({u, v})
    OBVIOUS
  <2>2. <<u, v>> \o <<>> = <<u, v>>
    BY <2>1
  <2>3. <<u>> \o <<v>> = <<u, v>>
    <3> DEFINE s == <<u>> \o <<v>>
    <3>1. Len(<<u>>) = 1 /\ Len(<<v>>) = 1 /\ <<u>>[1] = u /\ <<v>>[1] = v
      OBVIOUS
    <3>2. s \in Seq({u, v}) /\ Len(s) = 2 /\ s[1] = u /\ s[2] = v
      BY <2>1, <3>1, ConcatProperties
    <3> HIDE DEF s
    <3>3. s = <<u, v>>
      BY <3>2
    <3> QED BY <3>3 DEF s
  <2> QED BY <2>2, <2>3
<1> QED BY <1>1, <1>2, <1>3

-----------------------------------------------------------------------------
(* Settings *)

\* The number of the setting at an offset.
IdAt(d, o) == wt_http3_decode_varint(d, o)

\* Its value.
ValueOf(d, o) == wt_http3_decode_varint(d, IdAt(d, o).end)

\* What it turns on.
TurnedOn(d, o) == IF ValueOf(d, o).value # 0 THEN {IdAt(d, o).value} \intersect WANTED ELSE {}

\* It cannot be read.
Illegible(d, o) == ~IdAt(d, o).ok \/ ~ValueOf(d, o).ok

\* What the settings from an offset on turn on.
Turn(f, d, o) ==
  IF o = Len(d) THEN {} ELSE IF Illegible(d, o) THEN {0} ELSE f[ValueOf(d, o).end] \union TurnedOn(d, o)

\* A function that reads the settings.
Turns(f, d) == f = [o \in 0..Len(d) |-> Turn(f, d, o)]

\* There is such a function: the settings are followed back from the end.
LEMMA TurnsExist ==
  ASSUME NEW d \in Seq(Bytes)
  PROVE  \E f : Turns(f, d)
<1> DEFINE m == Len(d)
           D == 0..m
           V == SUBSET ({0} \union WANTED)
           stop == {o \in D : o = m \/ Illegible(d, o)}
           base == [o \in D |-> IF o = m THEN {} ELSE {0}]
           next == [o \in D |-> ValueOf(d, o).end]
           step == [o \in D |-> [s \in V |-> s \union TurnedOn(d, o)]]
<1>0. m \in Nat /\ 0 \in Nat
  OBVIOUS
<1>1. base \in [D -> V]
  <2>1. {} \in V /\ {0} \in V
    OBVIOUS
  <2> HIDE DEF D, V, m
  <2> QED BY <2>1
<1>2. step \in [D -> [V -> V]]
  <2>1. ASSUME NEW o \in D, NEW s \in V
        PROVE  s \union TurnedOn(d, o) \in V
    BY DEF TurnedOn
  <2> HIDE DEF D, V
  <2> QED BY <2>1
<1>3. \A o \in D : o \notin stop => next[o] \in (o + 1)..m
  <2> SUFFICES ASSUME NEW o \in D, o \notin stop
               PROVE  next[o] \in (o + 1)..m
    OBVIOUS
  <2>1. o \in Nat /\ IdAt(d, o).ok /\ ValueOf(d, o).ok
    BY <1>0 DEF Illegible
  <2>2. IdAt(d, o).end \in (o + 1)..m
    BY <2>1, IntegerRead DEF IdAt
  <2> DEFINE e == IdAt(d, o).end
  <2>3. e \in Nat /\ o + 1 <= e
    BY <1>0, <2>1, <2>2
  <2> HIDE DEF e
  <2>4. ValueOf(d, o).end \in (e + 1)..m
    BY <2>1, <2>3, IntegerRead DEF ValueOf, e
  <2>5. ValueOf(d, o).end \in (o + 1)..m
    BY <1>0, <2>1, <2>3, <2>4
  <2> QED BY <2>5
<1> DEFINE n == 0
<1> HIDE DEF stop, base, next, step, V
<1>4. PICK f \in [D -> V] : Backward(f, n, m, stop, base, next, step)
  <2>1. n \in Nat /\ D = n..m
    OBVIOUS
  <2> HIDE DEF n, m, D
  <2>2. base \in [n..m -> V] /\ step \in [n..m -> [V -> V]]
    BY <1>1, <1>2, <2>1
  <2>3. \A o \in n..m : o \notin stop => next[o] \in (o + 1)..m
    BY <1>3, <2>1
  <2>4. \E g \in [n..m -> V] : Backward(g, n, m, stop, base, next, step)
    BY <1>0, <2>1, <2>2, <2>3, BackwardExists
  <2> QED BY <2>1, <2>4
<1>5. ASSUME NEW o \in D
      PROVE  f[o] = Turn(f, d, o)
  <2>1. f[o] = IF o \in stop THEN base[o] ELSE step[o][f[next[o]]]
    BY <1>4 DEF Backward
  <2>2. CASE o \in stop
    <3>1. o = m \/ Illegible(d, o)
      BY <2>2 DEF stop
    <3>2. base[o] = IF o = m THEN {} ELSE {0}
      BY DEF base
    <3> QED BY <2>1, <2>2, <3>1, <3>2 DEF Turn
  <2>3. CASE o \notin stop
    <3>1. ~(o = m \/ Illegible(d, o))
      BY <2>3 DEF stop
    <3>2. next[o] = ValueOf(d, o).end
      BY DEF next
    <3>3. next[o] \in (o + 1)..m
      BY <1>3, <2>3
    <3>4. next[o] \in D
      BY <1>0, <3>3
    <3>5. f[next[o]] \in V
      BY <1>4, <3>4
    <3>6. step[o][f[next[o]]] = f[next[o]] \union TurnedOn(d, o)
      <4> DEFINE s == f[next[o]]
      <4>1. s \in V
        BY <3>5
      <4> HIDE DEF s, D
      <4>2. step[o][s] = s \union TurnedOn(d, o)
        BY <4>1 DEF step
      <4> QED BY <4>2 DEF s
    <3> HIDE DEF m
    <3> QED BY <2>1, <2>3, <3>1, <3>2, <3>6 DEF Turn, m
  <2> QED BY <2>2, <2>3
<1>6. f = [o \in D |-> Turn(f, d, o)]
  <2> HIDE DEF D
  <2> QED BY <1>4, <1>5
<1> QED BY <1>6 DEF Turns

\* wt_http3_parse_settings reads by such a function.
LEMMA SettingsFollow ==
  ASSUME NEW data, NEW d \in Seq(Bytes), NEW end, FrameAt(data, 0) = Framed(SETTINGS, d, end)
  PROVE  \E f : /\ \A o \in 0..Len(d) : f[o] = Turn(f, d, o)
                /\ wt_http3_parse_settings(data) = f[0]
<1> DEFINE f == CHOOSE g : Turns(g, d)
           frame == FrameAt(data, 0)
<1>1. frame.ok /\ frame.value.type = SETTINGS /\ frame.value.payload = d
  <2> DEFINE v == [type |-> SETTINGS, payload |-> d]
  <2>1. v.type = SETTINGS /\ v.payload = d
    OBVIOUS
  <2>2. frame = Read(v, end)
    BY DEF Framed
  <2> HIDE DEF v, frame
  <2>3. Read(v, end).ok /\ Read(v, end).value = v
    BY ReadIs
  <2> QED BY <2>1, <2>2, <2>3
<1>2. wt_http3_parse_settings(data) = f[0]
  <2> DEFINE g == CHOOSE g : Turns(g, frame.value.payload)
  <2>1. wt_http3_parse_settings(data) = IF ~frame.ok \/ frame.value.type # SETTINGS THEN {0} ELSE g[0]
    BY Zenon DEF wt_http3_parse_settings, Turns, Turn, Illegible, TurnedOn, ValueOf, IdAt
  <2> HIDE DEF frame
  <2>2. g = f
    BY <1>1
  <2> HIDE DEF g, f
  <2> QED BY <1>1, <2>1, <2>2
<1>3. Turns(f, d)
  BY TurnsExist
<1>4. \A o \in 0..Len(d) : f[o] = Turn(f, d, o)
  <2> HIDE DEF f
  <2> QED BY <1>3 DEF Turns
<1> QED BY <1>2, <1>4

\* A setting is read as it is written.
LEMMA SettingIs ==
  ASSUME NEW id \in Nat, NEW value \in Nat
  PROVE  LET s == wt_http3_append_setting(id, value) IN
         s \in Seq(Bytes) /\ Len(s) = Width(id) + Width(value) /\ Len(s) \in Nat /\ Len(s) <= 16 /\ Len(s) >= 1
<1> DEFINE a == wt_http3_encode_varint(id)
           b == wt_http3_encode_varint(value)
<1>1. a \in Seq(Bytes) /\ b \in Seq(Bytes) /\ Len(a) = Width(id) /\ Len(b) = Width(value)
  BY EncodedIs
<1>2. Width(id) \in {1, 2, 4, 8} /\ Width(value) \in {1, 2, 4, 8}
  BY WidthIs
<1>3. wt_http3_append_setting(id, value) = a \o b
  BY DEF wt_http3_append_setting
<1> HIDE DEF a, b
<1>4. a \o b \in Seq(Bytes) /\ Len(a \o b) = Len(a) + Len(b)
  BY <1>1, ConcatProperties
<1>5. Len(a \o b) = Width(id) + Width(value)
  BY <1>1, <1>4
<1> DEFINE k == Width(id)
           l == Width(value)
<1>6. k \in Nat /\ l \in Nat /\ 1 <= k /\ 1 <= l /\ k <= 8 /\ l <= 8
  BY <1>2
<1> HIDE DEF k, l
<1>7. k + l \in Nat /\ k + l <= 16 /\ k + l >= 1
  BY <1>6
<1> QED BY <1>3, <1>4, <1>5, <1>7 DEF k, l

\* What a setting adds.
Adds(id, value) == IF value # 0 THEN {id} \intersect WANTED ELSE {}

\* A setting is read back wherever it lies.
LEMMA SettingThere ==
  ASSUME NEW id \in Nat, id <= Huge, NEW value \in Nat, value <= Huge, NEW d \in Seq(Nat), NEW p,
         Lies(wt_http3_append_setting(id, value), d, p), NEW q, q = p + Len(wt_http3_append_setting(id, value)),
         NEW f, f[p] = Turn(f, d, p)
  PROVE  f[p] = f[q] \union Adds(id, value)
<1> DEFINE a == wt_http3_encode_varint(id)
           b == wt_http3_encode_varint(value)
           s == wt_http3_append_setting(id, value)
<1>1. a \in Seq(Nat) /\ b \in Seq(Nat) /\ Len(a) = Width(id) /\ Len(b) = Width(value)
  BY EncodedLen
<1>2. Len(s) = Width(id) + Width(value) /\ Len(s) \in Nat /\ Len(s) >= 1
  BY SettingIs
<1>3. p \in Nat /\ p + Len(s) <= Len(d)
  BY DEF Lies
<1>4. s = a \o b
  BY DEF wt_http3_append_setting
<1>5. Width(id) \in Nat /\ Width(value) \in Nat
  BY EncodedLen
<1> HIDE DEF s
<1>6. p # Len(d)
  BY <1>2, <1>3
<1>7. Lies(a \o b, d, p)
  BY <1>4 DEF s
<1>8. Lies(a, d, p) /\ Lies(b, d, p + Len(a))
  <2> HIDE DEF a, b
  <2> QED BY <1>1, <1>7, LiesParts
<1>9. IdAt(d, p) = Read(id, p + Width(id))
  BY <1>8, IntegerThere DEF IdAt
<1>10. IdAt(d, p).ok /\ IdAt(d, p).value = id /\ IdAt(d, p).end = p + Width(id)
  BY <1>9, ReadIs
<1>11. Lies(b, d, p + Width(id))
  BY <1>1, <1>8
<1> DEFINE r == p + Width(id)
<1>12. r + Width(value) = q
  BY <1>2, <1>3, <1>5 DEF s
<1> HIDE DEF r
<1>13. Lies(b, d, r)
  BY <1>11 DEF r
<1>14. ValueOf(d, p) = Read(value, r + Width(value))
  <2>1. wt_http3_decode_varint(d, r) = Read(value, r + Width(value))
    BY <1>13, IntegerThere
  <2> QED BY <1>10, <2>1 DEF ValueOf, r
<1>15. ValueOf(d, p).ok /\ ValueOf(d, p).value = value /\ ValueOf(d, p).end = q
  BY <1>12, <1>14, ReadIs
<1>16. TurnedOn(d, p) = Adds(id, value) /\ ~Illegible(d, p)
  BY <1>10, <1>15, Zenon DEF TurnedOn, Adds, Illegible
<1> QED BY <1>6, <1>15, <1>16, Zenon DEF Turn

\* The number of the draft setting.
Draft == 727725890

\* The settings the client sends.
Sent(datagrams) ==
  wt_http3_append_setting(8, 1) \o wt_http3_append_setting(51, IF datagrams THEN 1 ELSE 0)
  \o wt_http3_append_setting(Draft, 1)

\* They are the ones a peer is asked for.
LEMMA WantedAre ==
  /\ Draft \in Nat /\ Draft <= Huge /\ 51 <= Huge /\ 8 <= Huge /\ 1 <= Huge
  /\ WANTED = {8, 51, Draft}
  /\ wt_http3_encode_client_settings(TRUE) = Frame(SETTINGS, Sent(TRUE))
<1>1. Draft \in Nat /\ Draft <= Huge /\ 51 <= Huge /\ 8 <= Huge /\ 1 <= Huge
  BY SMT DEF Draft, Huge
<1>2. WANTED = {8, 51, Draft}
  BY SMT DEF WANTED, Draft
<1>3. wt_http3_encode_client_settings(TRUE) = Frame(SETTINGS, Sent(TRUE))
  BY SMT DEF wt_http3_encode_client_settings, Sent, Draft
<1> QED BY <1>1, <1>2, <1>3

\* ... and are read as those.
THEOREM SettingsRead ==
  /\ wt_http3_encode_client_settings(TRUE) \in Seq(Nat)
  /\ wt_http3_parse_settings(wt_http3_encode_client_settings(TRUE)) = WANTED
<1> DEFINE a == wt_http3_append_setting(8, 1)
           b == wt_http3_append_setting(51, 1)
           c == wt_http3_append_setting(Draft, 1)
           ab == a \o b
           d == ab \o c
           data == wt_http3_encode_client_settings(TRUE)
<1>1. data = Frame(SETTINGS, d)
  <2>1. Sent(TRUE) = d
    BY Zenon DEF Sent
  <2> QED BY <2>1, WantedAre
<1>2. a \in Seq(Bytes) /\ Len(a) \in Nat /\ Len(a) <= 16 /\ Len(a) >= 1
  BY SettingIs
<1>3. b \in Seq(Bytes) /\ Len(b) \in Nat /\ Len(b) <= 16 /\ Len(b) >= 1
  BY SettingIs
<1>4. c \in Seq(Bytes) /\ Len(c) \in Nat /\ Len(c) <= 16 /\ Len(c) >= 1
  BY SettingIs, WantedAre
<1> HIDE DEF a, b, c, data
<1>5. ab \in Seq(Bytes) /\ Len(ab) = Len(a) + Len(b)
  BY <1>2, <1>3, ConcatProperties
<1> HIDE DEF ab
<1>6. d \in Seq(Bytes) /\ Len(d) = Len(ab) + Len(c)
  BY <1>4, <1>5, ConcatProperties
<1> HIDE DEF d
<1> DEFINE k == Len(a)
           l == Len(b)
           m == Len(c)
           p == 0 + k
           q == p + l
           n == q + m
<1>7. k \in Nat /\ l \in Nat /\ m \in Nat /\ k <= 16 /\ l <= 16 /\ m <= 16 /\ Len(ab) = k + l /\ Len(d) = (k + l) + m
  BY <1>2, <1>3, <1>4, <1>5, <1>6
<1> HIDE DEF k, l, m
<1>8. p \in Nat /\ q \in Nat /\ n \in Nat /\ n <= 48 /\ Len(ab) = q /\ Len(d) = n /\ p <= q /\ q <= n
  BY <1>7
<1>9. /\ a \in Seq(Nat) /\ b \in Seq(Nat) /\ c \in Seq(Nat) /\ ab \in Seq(Nat) /\ d \in Seq(Nat)
  BY <1>2, <1>3, <1>4, <1>5, <1>6, BytesAreNumbers
<1>10. Lies(d, d, 0)
  BY <1>9, LiesWhole
<1>11. Lies(ab, d, 0) /\ Lies(c, d, 0 + Len(ab))
  <2>1. Lies(ab \o c, d, 0)
    BY <1>10 DEF d
  <2> QED BY <1>9, <2>1, LiesParts
<1>12. Lies(a, d, 0) /\ Lies(b, d, p)
  <2>1. Lies(a \o b, d, 0)
    BY <1>11 DEF ab
  <2> QED BY <1>9, <2>1, LiesParts DEF k
<1>13. Lies(c, d, q)
  <2>1. 0 + Len(ab) = q
    BY <1>8
  <2> QED BY <1>11, <2>1
<1>14. Len(d) <= Huge
  <2>1. \A x \in Nat : x <= 48 => x <= Huge
    BY SMT DEF Huge
  <2> QED BY <1>8, <2>1
<1>15. SETTINGS \in Nat /\ SETTINGS <= Huge
  BY SMT DEF SETTINGS, Huge
<1>16. data \in Seq(Nat) /\ Len(data) = FrameLength(SETTINGS, d)
  BY <1>1, <1>9, <1>15, FrameIs
<1>17. FrameAt(data, 0) = Framed(SETTINGS, d, 0 + FrameLength(SETTINGS, d))
  <2>1. Lies(Frame(SETTINGS, d), data, 0)
    BY <1>1, <1>16, LiesWhole
  <2> QED BY <1>9, <1>14, <1>15, <2>1, FrameThere
<1>18. PICK f : /\ \A o \in 0..Len(d) : f[o] = Turn(f, d, o)
                /\ wt_http3_parse_settings(data) = f[0]
  BY <1>6, <1>17, SettingsFollow
<1>19. f[0] = Turn(f, d, 0) /\ f[p] = Turn(f, d, p) /\ f[q] = Turn(f, d, q) /\ f[n] = Turn(f, d, n)
  <2>1. 0 \in 0..Len(d) /\ p \in 0..Len(d) /\ q \in 0..Len(d) /\ n \in 0..Len(d)
    BY <1>8
  <2> QED BY <1>18, <2>1
<1> HIDE DEF p, q, n
<1>20. f[n] = {}
  BY <1>8, <1>19 DEF Turn
<1>21. f[q] = f[n] \union Adds(Draft, 1)
  <2>1. n = q + Len(c)
    BY DEF n, m
  <2> QED BY <1>9, <1>13, <1>19, <2>1, SettingThere, WantedAre DEF c
<1>22. f[p] = f[q] \union Adds(51, 1)
  <2>1. q = p + Len(b)
    BY DEF q, l
  <2> QED BY <1>9, <1>12, <1>19, <2>1, SettingThere, WantedAre DEF b
<1>23. f[0] = f[p] \union Adds(8, 1)
  <2>1. p = 0 + Len(a)
    BY DEF p, k
  <2> QED BY <1>9, <1>12, <1>19, <2>1, SettingThere, WantedAre DEF a
<1>24. Adds(8, 1) = {8} /\ Adds(51, 1) = {51} /\ Adds(Draft, 1) = {Draft}
  BY WantedAre DEF Adds
<1>25. f[0] = WANTED
  BY <1>20, <1>21, <1>22, <1>23, <1>24, WantedAre
<1> QED BY <1>16, <1>18, <1>25 DEF data

\* The settings of a control stream are the ones WebTransport needs.
ControlBytes == wt_http3_encode_varint(0) \o wt_http3_encode_client_settings(TRUE)

=============================================================================
